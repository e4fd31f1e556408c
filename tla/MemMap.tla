------------------------------- MODULE MemMap -------------------------------
(***************************************************************************)
(* The physical memory map: the BIOS's E820 list, in any order and with    *)
(* overlaps, and the kernel's own image become the sorted list of disjoint *)
(* regions that the allocators use (early_pmm_init() in mm/early_pmm.c).   *)
(***************************************************************************)
EXTENDS Naturals, Sequences, FiniteSets, FiniteSetsExt

CONSTANTS
  MaxAddr,                \* bound on addresses
  Maps,                   \* the E820 lists the machine may have
  KernelStart, KernelEnd, \* the kernel image, page aligned
  PHYS_REGION_MAX_SIZE    \* length of the region arrays

ASSUME KernelAssumption ==
  /\ MaxAddr \in Nat /\ KernelStart \in Nat /\ KernelEnd \in Nat /\ PHYS_REGION_MAX_SIZE \in Nat
  /\ KernelStart < KernelEnd /\ KernelEnd <= MaxAddr

VARIABLES
  e820,     \* what the bootloader left: a list of [base, len, type]
  clean,    \* struct phys_region clean[clean_count]
  booted    \* how early_pmm_init()'s map came out: "no", "ok", "panic", "overrun"

mapVars == <<e820, clean, booted>>

Addrs == 0..MaxAddr

ASSUME MapsAssumption ==
  \A list \in Maps :
    /\ list \in Seq([base : Addrs, len : Addrs, type : Nat])
    /\ \A i \in DOMAIN list : list[i].base + list[i].len <= MaxAddr

-----------------------------------------------------------------------------
\* faulty: nothing outranks usable memory
Region_priority_flat(type) == 0

Region_priority(type) ==
  CASE type = "USABLE" -> 0
    [] type \in {"RESERVED", "ACPI_RECLAIMABLE"} -> 1
    [] type = "ACPI_NVS" -> 2
    [] type = "BAD" -> 3

\* phys_region_push(): the type numbers 1 to 5; any other is reserved memory
Region_type(n) ==
  IF n \in 1..5
  THEN <<"USABLE", "RESERVED", "ACPI_RECLAIMABLE", "ACPI_NVS", "BAD">>[n]
  ELSE "RESERVED"

\* phys_region_push() of one entry
Region(e) == [start |-> e.base, end |-> e.base + e.len, type |-> Region_type(e.type)]

Kernel_region == [start |-> KernelStart, end |-> KernelEnd, type |-> "RESERVED"]

\* raw[]: arch_get_memory_map(), which skips empty entries, and the kernel.  A
\* region keeps the index of its entry; only the order of indices matters.
Raw(list) ==
  [i \in {j \in DOMAIN list : list[j].len # 0} \cup {Len(list) + 1} |->
     IF i = Len(list) + 1 THEN Kernel_region ELSE Region(list[i])]

\* boundaries[]: what sort_u64() and the loop that drops duplicates leave is
\* the elements of this set in ascending order
Boundaries(in) == {in[i].start : i \in DOMAIN in} \cup {in[i].end : i \in DOMAIN in}

Covering(in, s, e) == {j \in DOMAIN in : in[j].start <= s /\ in[j].end >= e}

\* the first of the regions of highest priority that cover the stretch
Best_type(in, s, e) ==
  LET cover == Covering(in, s, e)
      prio(j) == Region_priority(in[j].type)
      best == CHOOSE j \in cover :
                \A k \in cover : prio(k) < prio(j) \/ (prio(k) = prio(j) /\ j <= k)
  IN  in[best].type

\* one stretch is added to the list, or extends its last region
Emit(out, s, e, type) ==
  IF out # <<>> /\ out[Len(out)].type = type /\ out[Len(out)].end = s
  THEN [out EXCEPT ![Len(out)].end = e]
  ELSE Append(out, [start |-> s, end |-> e, type |-> type])

\* the body of the loop over the stretches
Add_stretch(in, out, s, e) ==
  IF Covering(in, s, e) = {} THEN out ELSE Emit(out, s, e, Best_type(in, s, e))

\* pmm_sanitize_memory_map(): the stretches between neighbouring boundaries,
\* upto[e] being the list when the stretch that ends at e is done
Sanitize(in) ==
  LET bounds == Boundaries(in)
      before(e) == Max({x \in bounds : x < e})
      upto[e \in bounds] == IF e = Min(bounds) THEN <<>>
                            ELSE Add_stretch(in, upto[before(e)], before(e), e)
  IN  upto[Max(bounds)]

-----------------------------------------------------------------------------
MapInit ==
  /\ e820 \in Maps
  /\ clean = <<>>
  /\ booted = "no"

\* early_pmm_init() up to pa_init().  A full output array is a panic; a list
\* that outgrows boundaries[] writes behind that array, and what happens then
\* is not defined.
Build_map ==
  /\ booted = "no"
  /\ LET raw == Raw(e820)
         out == Sanitize(raw)
     IN  IF Cardinality(DOMAIN raw) > PHYS_REGION_MAX_SIZE
         THEN booted' = "overrun" /\ UNCHANGED clean
         ELSE IF Len(out) > PHYS_REGION_MAX_SIZE
         THEN booted' = "panic" /\ UNCHANGED clean
         ELSE booted' = "ok" /\ clean' = out
  /\ UNCHANGED e820

-----------------------------------------------------------------------------
\* The types of the regions of a list that contain address a.
TypesAt(list, a) ==
  {list[i].type : i \in {j \in DOMAIN list : list[j].start <= a /\ a < list[j].end}}

\* The map is in order, without empty regions, without overlaps, and without
\* two neighbours that one region could hold; pa_next(), which only walks
\* forward, and early_pmm_get_max_usable(), which takes the last end, need it.
Canonical(map) ==
  /\ \A i \in DOMAIN map : map[i].start < map[i].end
  /\ \A i \in 1..(Len(map) - 1) :
       \/ map[i].end < map[i + 1].start
       \/ map[i].end = map[i + 1].start /\ map[i].type # map[i + 1].type

\* pmm_sanitize_memory_map(): the map is in order and says of every address
\* what the BIOS and the linker said of it: it is known if any of them knew
\* it, it is usable only if all of them agree, so that no allocator hands out
\* reserved or kernel memory, and bad if one says so.
CleanIsExact ==
  booted = "ok" =>
    /\ Canonical(clean)
    /\ \A a \in 0..(MaxAddr - 1) :
         LET raw == TypesAt(Raw(e820), a)
             now == TypesAt(clean, a)
         IN  /\ raw = {} => now = {}
             /\ raw # {} => \E t \in raw : now = {t}
             /\ now = {"USABLE"} => raw = {"USABLE"}
             /\ "BAD" \in raw => now = {"BAD"}
=============================================================================

------------------------------ MODULE PhysMem -------------------------------
(***************************************************************************)
(* The two physical frame allocators on the memory map of module MemMap:   *)
(* the bump allocator of mm/early_pmm.c, which boots the page tables, and  *)
(* the bitmap allocator of mm/pmm.c, which takes over in pmm_init().       *)
(*                                                                         *)
(* Addresses are bytes, a page has PAGE_SIZE of them, and a byte of the    *)
(* bitmap has BITS bits (8 in the code).  The callers own what they were   *)
(* given until they free it, and free only what they own.                  *)
(***************************************************************************)
EXTENDS MemMap

CONSTANTS
  PAGE_SIZE, BITS,
  MIN_USABLE_PADDR,
  MaxCount             \* bound on the count of a contiguous allocation

ASSUME PageAssumption ==
  /\ PAGE_SIZE \in Nat \ {0}
  /\ BITS \in Nat \ {0}
  /\ MIN_USABLE_PADDR \in Nat /\ MIN_USABLE_PADDR >= PAGE_SIZE
  /\ MaxCount \in Nat

VARIABLES
  mode,     \* "map", "early", "pmm", or "panic" if kmain() gave up
  pa,       \* the cursor of early_pmm.c: [reg: is it set?, idx, cursor]
  bitmap,   \* bitmap[]: is the frame taken?
  early,    \* the frames the bump allocator has handed out
  owned     \* the allocations of pmm.c not yet freed: [first, count]

memVars == <<mode, pa, bitmap, early, owned>>
vars == <<mapVars, memVars>>

-----------------------------------------------------------------------------
PAGE_ALIGN_DOWN(x) == x - (x % PAGE_SIZE)
PAGE_ALIGN_UP(x) == PAGE_ALIGN_DOWN(x + PAGE_SIZE - 1)
Larger(x, y) == IF x > y THEN x ELSE y
Frames(a) == a.first..(a.first + a.count - 1)

\* the frames of the count pages from address x on
Pages(x, count) == (x \div PAGE_SIZE)..(x \div PAGE_SIZE + count - 1)

\* faulty: memory below 1 MiB is not skipped
First_page_low(map, i) == PAGE_ALIGN_UP(map[i].start)

\* where pa_next() sets the cursor in a region
First_page(map, i) == PAGE_ALIGN_UP(Larger(MIN_USABLE_PADDR, map[i].start))

\* the regions pa_next() may still move to
Ahead(map, idx) ==
  {i \in (idx + 1)..Len(map) :
     map[i].type = "USABLE" /\ map[i].end > MIN_USABLE_PADDR}

Nowhere(map, cursor) == [reg |-> FALSE, idx |-> Len(map), cursor |-> cursor]

\* pa_init()
Pa_init(map) ==
  IF Ahead(map, 0) = {} THEN Nowhere(map, 0)
  ELSE LET i == Min(Ahead(map, 0))
       IN  [reg |-> TRUE, idx |-> i, cursor |-> First_page(map, i)]

\* early_pmm_alloc_continuous_frames(): the first region from the cursor on
\* with room for size bytes; a failure leaves the cursor in the last one
Pa_seek(p, size) ==
  LET fits == {i \in Ahead(clean, p.idx) : First_page(clean, i) + size <= clean[i].end}
  IN  IF ~p.reg THEN p
      ELSE IF p.cursor + size <= clean[p.idx].end THEN p
      ELSE IF fits # {}
      THEN [reg |-> TRUE, idx |-> Min(fits), cursor |-> First_page(clean, Min(fits))]
      ELSE IF Ahead(clean, p.idx) # {}
      THEN Nowhere(clean, First_page(clean, Max(Ahead(clean, p.idx))))
      ELSE Nowhere(clean, p.cursor)

-----------------------------------------------------------------------------
Init ==
  /\ MapInit
  /\ mode = "map"
  /\ pa = [reg |-> FALSE, idx |-> 0, cursor |-> 0]
  /\ bitmap = <<>>
  /\ early = {}
  /\ owned = {}

\* early_pmm_init(), called by kmain()
Early_pmm_init ==
  /\ mode = "map"
  /\ Build_map
  /\ pa' = IF booted' = "ok" THEN Pa_init(clean') ELSE pa
  /\ mode' = IF pa'.reg THEN "early" ELSE "panic"
  /\ UNCHANGED <<bitmap, early, owned>>

\* early_pmm_alloc_frame(), through pmm_current_alloc_frame, from vmm_init():
\* kmain() panics when it fails
Early_pmm_alloc_frame ==
  LET p == Pa_seek(pa, PAGE_SIZE)
  IN  /\ mode = "early"
      /\ pa' = IF p.reg THEN [p EXCEPT !.cursor = @ + PAGE_SIZE] ELSE p
      /\ early' = IF p.reg THEN early \cup Pages(p.cursor, 1) ELSE early
      /\ mode' = IF p.reg THEN "early" ELSE "panic"
      /\ UNCHANGED <<mapVars, bitmap, owned>>

\* the bits pmm_init() clears for the frames from s to e - 1
Cleared(s, e) ==
  LET sb == s \div BITS
      eb == e \div BITS
  IN  IF sb = eb THEN s..(e - 1)
      ELSE s..(sb * BITS + BITS - 1)
           \cup (eb * BITS)..(e - 1)
           \cup ((sb + 1) * BITS)..(eb * BITS - 1)

\* faulty: the frames before the cursor are taken for free
Region_frames_all(map, i, cursor) ==
  LET s == PAGE_ALIGN_UP(Larger(map[i].start, MIN_USABLE_PADDR)) \div PAGE_SIZE
      e == PAGE_ALIGN_DOWN(map[i].end) \div PAGE_SIZE
  IN  IF map[i].type # "USABLE" \/ s >= e THEN {} ELSE Cleared(s, e)

\* the frames pmm_init() takes from a region, those before the cursor left out
Region_frames(map, i, cursor) ==
  LET start == Larger(Larger(map[i].start, MIN_USABLE_PADDR), cursor)
      s == PAGE_ALIGN_UP(start) \div PAGE_SIZE
      e == PAGE_ALIGN_DOWN(map[i].end) \div PAGE_SIZE
  IN  IF map[i].type # "USABLE" \/ map[i].end <= cursor \/ s >= e
      THEN {} ELSE Cleared(s, e)

\* early_pmm_get_max_usable(): the end of the last usable region
Max_usable == clean[Max({i \in DOMAIN clean : clean[i].type = "USABLE"})].end

\* pmm_init(): the bitmap itself comes from the bump allocator
Pmm_init ==
  LET frame_count == PAGE_ALIGN_UP(Max_usable) \div PAGE_SIZE
      size == (frame_count + BITS - 1) \div BITS
      pages == PAGE_ALIGN_UP(size) \div PAGE_SIZE
      p == Pa_seek(pa, pages * PAGE_SIZE)
      cursor == p.cursor + pages * PAGE_SIZE
      free == UNION {Region_frames(clean, i, cursor) : i \in DOMAIN clean}
  IN  /\ mode = "early"
      /\ IF p.reg
         THEN /\ mode' = "pmm"
              /\ pa' = [p EXCEPT !.cursor = cursor]
              /\ early' = early \cup Pages(p.cursor, pages)
              /\ bitmap' = [f \in 0..(size * BITS - 1) |-> f \notin free]
         ELSE /\ mode' = "panic"
              /\ pa' = p
              /\ UNCHANGED <<early, bitmap>>
      /\ UNCHANGED <<mapVars, owned>>

-----------------------------------------------------------------------------
Nframes == Cardinality(DOMAIN bitmap)
Free == {f \in DOMAIN bitmap : ~bitmap[f]}
Full_byte(f) == \A b \in 0..(BITS - 1) : bitmap[(f \div BITS) * BITS + b]

\* check_for_contiguous_frames(): how many of count frames from f on are free
Run(f, count) == Max({k \in 0..count : \A j \in 0..(k - 1) : f + j \in Free})

\* faulty: the search goes on at the taken frame plus a byte
Find_skipping(count) ==
  LET scan[f \in 0..(Nframes + BITS)] ==
        IF f >= Nframes THEN Nframes
        ELSE IF Run(f, count) = count THEN f
        ELSE scan[(f \div BITS + 1) * BITS]
  IN  scan[0]

\* the loop of pmm_alloc_contiguous_frames(): full bytes are skipped, a run
\* that is too short is left behind with the taken frame that ends it
Find_contiguous(count) ==
  LET scan[f \in 0..(Nframes + BITS)] ==
        IF f >= Nframes THEN Nframes
        ELSE IF Full_byte(f) THEN scan[(f \div BITS + 1) * BITS]
        ELSE IF Run(f, count) = count THEN f
        ELSE scan[f + Run(f, count) + 1]
  IN  scan[0]

Give(first, count) ==
  /\ bitmap' = [f \in DOMAIN bitmap |-> bitmap[f] \/ f \in first..(first + count - 1)]
  /\ owned' = owned \cup {[first |-> first, count |-> count]}
  /\ UNCHANGED <<mapVars, mode, pa, early>>

\* pmm_alloc_frame(): NULL if every frame is taken
Pmm_alloc_frame ==
  /\ mode = "pmm"
  /\ IF Free = {} THEN UNCHANGED vars ELSE Give(Min(Free), 1)

\* pmm_alloc_contiguous_frames(count); for one frame it is pmm_alloc_frame()
Pmm_alloc_contiguous_frames(count) ==
  /\ mode = "pmm"
  /\ IF Find_contiguous(count) = Nframes
     THEN UNCHANGED vars
     ELSE Give(Find_contiguous(count), count)

\* faulty: the last frame is not freed
Pmm_free_contiguous_short(a) ==
  /\ mode = "pmm"
  /\ bitmap' = [f \in DOMAIN bitmap |->
                  bitmap[f] /\ f \notin a.first..(a.first + a.count - 2)]
  /\ owned' = owned \ {a}
  /\ UNCHANGED <<mapVars, mode, pa, early>>

\* pmm_free_contiguous_frames()
Pmm_free_contiguous_frames(a) ==
  /\ mode = "pmm"
  /\ bitmap' = [f \in DOMAIN bitmap |-> bitmap[f] /\ f \notin Frames(a)]
  /\ owned' = owned \ {a}
  /\ UNCHANGED <<mapVars, mode, pa, early>>

\* pmm_free_frame(): a frame that is not taken is a panic
Pmm_free_frame(a) ==
  /\ mode = "pmm"
  /\ a.count = 1
  /\ IF bitmap[a.first]
     THEN /\ bitmap' = [bitmap EXCEPT ![a.first] = FALSE]
          /\ owned' = owned \ {a}
          /\ UNCHANGED mode
     ELSE /\ mode' = "panic"
          /\ UNCHANGED <<bitmap, owned>>
  /\ UNCHANGED <<mapVars, pa, early>>

Halted == mode = "panic" /\ UNCHANGED vars

Next ==
  \/ Early_pmm_init
  \/ Early_pmm_alloc_frame
  \/ Pmm_init
  \/ Pmm_alloc_frame
  \/ \E n \in 2..MaxCount : Pmm_alloc_contiguous_frames(n)
  \/ \E a \in owned : Pmm_free_contiguous_frames(a)
  \/ \E a \in owned : Pmm_free_frame(a)
  \/ Halted

Spec == Init /\ [][Next]_vars

-----------------------------------------------------------------------------
OwnedFrames == UNION {Frames(a) : a \in owned}

\* No frame has two owners: allocations do not overlap each other, nor the
\* page tables and the bitmap that the bump allocator handed out, and what an
\* allocation holds has a bit in the bitmap, and the bit is set.
NoFrameTwice ==
  /\ \A a, b \in owned : a # b => Frames(a) \cap Frames(b) = {}
  /\ OwnedFrames \cap early = {}
  /\ OwnedFrames \subseteq DOMAIN bitmap \ Free
  /\ early \cap Free = {}

\* Every byte of every frame that either allocator hands out, or may still
\* hand out, is memory that the BIOS calls usable, outside the kernel image
\* and above MIN_USABLE_PADDR.
OnlyUsableMemory ==
  \A f \in OwnedFrames \cup early \cup Free :
    \A x \in (f * PAGE_SIZE)..(f * PAGE_SIZE + PAGE_SIZE - 1) :
      x >= MIN_USABLE_PADDR /\ TypesAt(Raw(e820), x) = {"USABLE"}

\* pmm_alloc_contiguous_frames() finds the lowest run of count free frames,
\* across the bytes of the bitmap, and fails only if there is none.
ContiguousIsFirstFit ==
  mode = "pmm" =>
    \A n \in 2..MaxCount :
      LET runs == {f \in DOMAIN bitmap : f..(f + n - 1) \subseteq Free}
      IN  Find_contiguous(n) = IF runs = {} THEN Nframes ELSE Min(runs)

\* Once the bitmap is there, allocating and freeing neither lose a frame nor
\* create one.
FramesConserved ==
  [][ mode = "pmm" /\ mode' = "pmm"
      => (Free \cup OwnedFrames)' = Free \cup OwnedFrames ]_vars
=============================================================================

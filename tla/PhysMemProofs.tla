---------------------------- MODULE PhysMemProofs ---------------------------
(***************************************************************************)
(* The physical allocators are right for memory maps, bitmaps and pages of *)
(* any size: the sanitised map says of every address what the BIOS said,   *)
(* no frame is handed out twice, and none that is not usable; the search   *)
(* for a run of frames finds the first one, and no frame is lost.          *)
(*                                                                         *)
(* Two recursive functions are met on the way, the loop of                 *)
(* pmm_sanitize_memory_map() and the one of pmm_alloc_contiguous_frames(). *)
(* That the first one exists is the lemma Recursion; of the second one a   *)
(* solution is known, the property ContiguousIsFirstFit.  What they compute*)
(* is shown at a least or a greatest argument at which it would be false.  *)
(***************************************************************************)
EXTENDS PhysMem, FiniteSetTheorems, InductionLemmas

-----------------------------------------------------------------------------
(* The memory map.                                                         *)

Types == {"USABLE", "RESERVED", "ACPI_RECLAIMABLE", "ACPI_NVS", "BAD"}
RegionType == [start : Nat, end : Nat, type : Types]

\* what pmm_sanitize_memory_map() is given
InOK(in) ==
  /\ DOMAIN in \in SUBSET Nat /\ DOMAIN in # {}
  /\ \E k \in Nat : \A i \in DOMAIN in : i <= k
  /\ \A i \in DOMAIN in : in[i] \in RegionType /\ in[i].start < in[i].end /\ in[i].end <= MaxAddr

\* raw[] holds regions that are not empty.
LEMMA RawLemma ==
  ASSUME NEW list \in Maps
  PROVE  InOK(Raw(list))
<1> DEFINE in == Raw(list)
           n == Len(list)
           I == {j \in DOMAIN list : list[j].len # 0}
<1>1. /\ list \in Seq([base : Addrs, len : Addrs, type : Nat]) /\ n \in Nat /\ DOMAIN list = 1..n
      /\ \A i \in DOMAIN list : list[i].base + list[i].len <= MaxAddr
  <2> DEFINE E == [base : Addrs, len : Addrs, type : Nat]
  <2>1. list \in Seq(E) /\ \A i \in DOMAIN list : list[i].base + list[i].len <= MaxAddr
    BY Zenon, MapsAssumption
  <2> HIDE DEF E
  <2>2. n \in Nat /\ DOMAIN list = 1..n
    BY <2>1
  <2> QED BY Zenon, <2>1, <2>2 DEF E
<1>2. /\ DOMAIN in = I \cup {n + 1} /\ in[n + 1] = Kernel_region
      /\ \A i \in I : i # n + 1 /\ in[i] = Region(list[i])
  <2>1. in = [i \in I \cup {n + 1} |-> IF i = n + 1 THEN Kernel_region ELSE Region(list[i])]
    BY Zenon DEF Raw
  <2>2. \A i \in I : i # n + 1
    BY <1>1
  <2> HIDE DEF in, I
  <2> QED BY <2>1, <2>2
<1>3. Kernel_region \in RegionType /\ Kernel_region.start < Kernel_region.end /\ Kernel_region.end <= MaxAddr
  BY KernelAssumption DEF Kernel_region, RegionType, Types
<1>4. ASSUME NEW i \in I
      PROVE  LET r == Region(list[i]) IN r \in RegionType /\ r.start < r.end /\ r.end <= MaxAddr
  <2>1. /\ list[i].base \in Nat /\ list[i].len \in Nat /\ list[i].len # 0 /\ list[i].type \in Nat
        /\ list[i].base + list[i].len <= MaxAddr
    <3>1. i \in DOMAIN list /\ list[i].len # 0
      BY Zenon
    <3>2. list[i] \in [base : Addrs, len : Addrs, type : Nat]
      <4> DEFINE E == [base : Addrs, len : Addrs, type : Nat]
      <4> HIDE DEF E
      <4>1. list \in Seq(E)
        BY Zenon, <1>1 DEF E
      <4>2. list[i] \in E
        BY <3>1, <4>1
      <4> QED BY Zenon, <4>2 DEF E
    <3>3. list[i].base \in Addrs /\ list[i].len \in Addrs /\ list[i].type \in Nat
      BY SMTT(30), <3>2
    <3> QED BY <1>1, <3>1, <3>3, KernelAssumption DEF Addrs
  <2>2. Region_type(list[i].type) \in Types
    BY <2>1 DEF Region_type, Types
  <2> QED BY <2>1, <2>2 DEF Region, RegionType
<1>5. \A i \in DOMAIN in : i \in Nat /\ i <= n + 1
  BY <1>1, <1>2
<1> HIDE DEF in
<1>6. \A i \in DOMAIN in : in[i] \in RegionType /\ in[i].start < in[i].end /\ in[i].end <= MaxAddr
  BY <1>2, <1>3, <1>4
<1>7. n + 1 \in Nat /\ n + 1 \in DOMAIN in
  BY <1>1, <1>2
<1>8. InOK(in)
  BY Zenon, <1>5, <1>6, <1>7 DEF InOK
<1> QED BY <1>8 DEF in

\* Usable memory has the least priority, bad memory the greatest.
LEMMA PriorityLemma ==
  ASSUME NEW t \in Types
  PROVE  /\ Region_priority(t) \in Nat /\ Region_priority(t) <= 3
         /\ Region_priority(t) = 0 <=> t = "USABLE"
         /\ Region_priority(t) = 3 <=> t = "BAD"
BY DEF Types, Region_priority

\* The type of a stretch is that of a region that covers it, and no other that
\* covers it has a greater priority.
LEMMA BestLemma ==
  ASSUME NEW in, InOK(in), NEW s, NEW e, Covering(in, s, e) # {}
  PROVE  \E j \in Covering(in, s, e) :
           /\ Best_type(in, s, e) = in[j].type
           /\ \A k \in Covering(in, s, e) : Region_priority(in[k].type) <= Region_priority(in[j].type)
<1> DEFINE cover == Covering(in, s, e)
           prio(j) == Region_priority(in[j].type)
           Q(j) == \A k \in cover : prio(k) < prio(j) \/ (prio(k) = prio(j) /\ j <= k)
           V == {prio(j) : j \in cover}
           top == Max(V)
           J == {j \in cover : prio(j) = top}
<1>1. cover \in SUBSET Nat /\ \A j \in cover : prio(j) \in Nat /\ prio(j) <= 3
  BY PriorityLemma DEF InOK, Covering, RegionType
<1>2. top \in V /\ \A v \in V : v <= top
  <2>1. V \in SUBSET Nat /\ V # {} /\ \A v \in V : v <= 3
    BY <1>1
  <2> HIDE DEF V
  <2> QED BY <2>1, MaxLemma
<1> HIDE DEF top, prio, cover
<1>3. J \in SUBSET Nat /\ J # {}
  BY <1>1, <1>2
<1> DEFINE j == Min(J)
<1>4. j \in J /\ \A k \in J : j <= k
  <2> HIDE DEF J
  <2> QED BY <1>3, MinLemma
<1> HIDE DEF j
<1>5. j \in cover /\ prio(j) = top
  BY <1>4
<1>6. ASSUME NEW k \in cover PROVE prio(k) < prio(j) \/ (prio(k) = prio(j) /\ j <= k)
  <2>1. prio(k) \in Nat /\ prio(j) \in Nat /\ prio(k) <= top
    BY <1>1, <1>2, <1>5
  <2>2. prio(k) = prio(j) => j <= k
    BY <1>4, <1>5
  <2> QED BY <1>5, <2>1, <2>2
<1>7. \E b \in cover : Q(b)
  BY Zenon, <1>5, <1>6
<1> DEFINE b == CHOOSE x \in cover : Q(x)
<1>8. b \in cover /\ Q(b)
  BY Zenon, <1>7
<1>9. Best_type(in, s, e) = in[b].type
  BY Zenon DEF Best_type, cover, prio
<1> HIDE DEF b
<1>10. \A k \in cover : prio(k) <= prio(b)
  BY <1>1, <1>8
<1> QED BY Zenon, <1>8, <1>9, <1>10 DEF cover, prio

\* what the map may say of an address of which the raw map says this
Right(raw, now) ==
  /\ raw = {} => now = {}
  /\ raw # {} => \E t \in raw : now = {t}
  /\ now = {"USABLE"} => raw = {"USABLE"}
  /\ "BAD" \in raw => now = {"BAD"}

\* Nothing may be said of an address of which nothing is known.
LEMMA NothingRight == Right({}, {})
BY DEF Right

\* The best type is right for every address of the stretch.
LEMMA BestRight ==
  ASSUME NEW in, InOK(in), NEW s, NEW e, Covering(in, s, e) # {}
  PROVE  /\ Right({in[j].type : j \in Covering(in, s, e)}, {Best_type(in, s, e)})
         /\ Best_type(in, s, e) \in Types
<1> DEFINE cover == Covering(in, s, e)
           now == Best_type(in, s, e)
           raw == {in[j].type : j \in cover}
<1>1. PICK j \in cover : now = in[j].type /\ \A k \in cover : Region_priority(in[k].type) <= Region_priority(in[j].type)
  BY Zenon, BestLemma
<1>2. \A k \in cover : in[k].type \in Types
  BY DEF InOK, Covering, RegionType
<1> HIDE DEF now, cover
<1>3. raw # {} /\ \A t \in raw : t \in Types /\ Region_priority(t) <= Region_priority(now)
  BY Zenon, <1>1, <1>2
<1>4. now \in raw /\ now \in Types
  BY Zenon, <1>1, <1>2
<1> HIDE DEF raw
<1>5. now = "USABLE" => raw = {"USABLE"}
  <2> SUFFICES ASSUME now = "USABLE", NEW t \in raw PROVE t = "USABLE"
    BY Zenon, <1>4
  <2>1. Region_priority(now) = 0 /\ Region_priority(t) \in Nat
    BY <1>3, <1>4, PriorityLemma
  <2>2. Region_priority(t) = 0
    BY <1>3, <2>1
  <2> QED BY <1>3, <2>2, PriorityLemma
<1>6. "BAD" \in raw => now = "BAD"
  <2> SUFFICES ASSUME "BAD" \in raw PROVE now = "BAD"
    OBVIOUS
  <2>1. Region_priority("BAD") = 3 /\ Region_priority(now) \in Nat /\ Region_priority(now) <= 3
    BY <1>3, <1>4, PriorityLemma
  <2>2. Region_priority(now) = 3
    BY <1>3, <2>1
  <2> QED BY <1>4, <2>2, PriorityLemma
<1>7. Right(raw, {now})
  BY <1>3, <1>4, <1>5, <1>6 DEF Right
<1> QED BY Zenon, <1>4, <1>7 DEF raw, now, cover

\* out[] when the stretches up to e are done
OutOK(out, e) ==
  /\ out \in Seq(RegionType)
  /\ \A i \in DOMAIN out : out[i].start < out[i].end /\ out[i].end <= e
  /\ \A i, j \in DOMAIN out : i < j => out[i].end <= out[j].start
  /\ \A i \in 1..(Len(out) - 1) : out[i].end = out[i + 1].start => out[i].type # out[i + 1].type

\* What the regions say of an address is what those that hold it say.
LEMMA TypesLemma ==
  ASSUME NEW list, NEW a, NEW t
  PROVE  t \in TypesAt(list, a) <=> \E i \in DOMAIN list : list[i].start <= a /\ a < list[i].end /\ t = list[i].type
BY Zenon DEF TypesAt

\* A single region holds the address.
LEMMA OneType ==
  ASSUME NEW list, NEW a, NEW k \in DOMAIN list, list[k].start <= a, a < list[k].end,
         \A i \in DOMAIN list : i # k => ~(list[i].start <= a /\ a < list[i].end)
  PROVE  TypesAt(list, a) = {list[k].type}
<1>1. ASSUME NEW t \in TypesAt(list, a) PROVE t = list[k].type
  <2>1. PICK i \in DOMAIN list : list[i].start <= a /\ a < list[i].end /\ t = list[i].type
    BY Zenon, <1>1, TypesLemma
  <2> QED BY Zenon, <2>1
<1>2. list[k].type \in TypesAt(list, a)
  BY Zenon, TypesLemma
<1> QED BY Zenon, <1>1, <1>2

\* What the regions of a list say of an address, those of another say too.
LEMMA MoreTypes ==
  ASSUME NEW list, NEW more, NEW a,
         \A i \in DOMAIN list : list[i].start <= a /\ a < list[i].end =>
           i \in DOMAIN more /\ more[i].start <= a /\ a < more[i].end /\ more[i].type = list[i].type
  PROVE  TypesAt(list, a) \subseteq TypesAt(more, a)
<1>1. ASSUME NEW t \in TypesAt(list, a) PROVE t \in TypesAt(more, a)
  <2>1. PICK i \in DOMAIN list : list[i].start <= a /\ a < list[i].end /\ t = list[i].type
    <3>1. \E i \in DOMAIN list : list[i].start <= a /\ a < list[i].end /\ t = list[i].type
      BY <1>1 DEF TypesAt
    <3> QED BY <3>1
  <2>2. i \in DOMAIN more /\ more[i].start <= a /\ a < more[i].end /\ more[i].type = list[i].type
    BY Zenon, <2>1
  <2>3. \E k \in DOMAIN more : more[k].start <= a /\ a < more[k].end /\ t = more[k].type
    BY ZenonT(30), <2>1, <2>2
  <2> QED BY Zenon, <2>3, TypesLemma
<1> QED BY Zenon, <1>1

\* No region reaches an address from e on.
LEMMA NoTypesBehind ==
  ASSUME NEW out, NEW e \in Nat, OutOK(out, e), NEW a \in Nat, a >= e
  PROVE  TypesAt(out, a) = {}
<1>1. ASSUME NEW i \in DOMAIN out PROVE ~(a < out[i].end)
  <2>1. out[i] \in RegionType /\ out[i].end <= e
    BY DEF OutOK
  <2> QED BY <2>1 DEF RegionType
<1> QED BY Zenon, <1>1, TypesLemma

\* From out comes new, which says what out says up to s, and type from there to e.
Grown(out, new, s, e, type) ==
  /\ OutOK(new, e)
  /\ \A a \in Nat : a < s => TypesAt(new, a) = TypesAt(out, a)
  /\ \A a \in Nat : s <= a /\ a < e => TypesAt(new, a) = {type}

\* A list grows by a region behind the others.
LEMMA AppendRegion ==
  ASSUME NEW out, NEW s \in Nat, NEW e \in Nat, s < e, OutOK(out, s), NEW type \in Types,
         ~(out # <<>> /\ out[Len(out)].type = type /\ out[Len(out)].end = s)
  PROVE  Grown(out, Append(out, [start |-> s, end |-> e, type |-> type]), s, e, type)
<1> DEFINE r == [start |-> s, end |-> e, type |-> type]
           new == Append(out, r)
           n == Len(out)
<1>1. /\ out \in Seq(RegionType) /\ n \in Nat /\ DOMAIN out = 1..n
      /\ \A i \in 1..n : out[i] \in RegionType
  BY DEF OutOK
<1>2. r \in RegionType /\ r.start = s /\ r.end = e /\ r.type = type
  BY DEF RegionType
<1> HIDE DEF r
<1>3. /\ new \in Seq(RegionType) /\ Len(new) = n + 1 /\ DOMAIN new = 1..(n + 1)
      /\ new[n + 1] = r /\ \A i \in 1..n : new[i] = out[i]
  BY <1>1, <1>2
<1> HIDE DEF new
<1>4. \A i \in 1..n : /\ out[i].start \in Nat /\ out[i].end \in Nat /\ out[i].start < out[i].end
                      /\ out[i].end <= s
  BY <1>1 DEF OutOK, RegionType
<1>5. \A i \in DOMAIN new : i = n + 1 \/ i \in 1..n
  BY <1>1, <1>3
<1>6. OutOK(new, e)
  <2>1. ASSUME NEW i \in DOMAIN new PROVE new[i].start < new[i].end /\ new[i].end <= e
    <3>1. CASE i = n + 1
      BY <1>2, <1>3, <3>1
    <3>2. CASE i \in 1..n
      BY <1>3, <1>4, <3>2
    <3> QED BY <1>5, <3>1, <3>2
  <2>2. ASSUME NEW i \in DOMAIN new, NEW j \in DOMAIN new, i < j PROVE new[i].end <= new[j].start
    <3>1. i \in 1..n
      BY <1>1, <1>3, <2>2
    <3>2. CASE j = n + 1
      BY <1>2, <1>3, <1>4, <3>1, <3>2
    <3>3. CASE j \in 1..n
      <4>1. out[i].end <= out[j].start
        BY <1>1, <2>2, <3>1, <3>3 DEF OutOK
      <4> QED BY <1>3, <3>1, <3>3, <4>1
    <3> QED BY <1>5, <3>2, <3>3
  <2>3. ASSUME NEW i \in 1..(Len(new) - 1), new[i].end = new[i + 1].start PROVE new[i].type # new[i + 1].type
    <3>1. i \in 1..n
      BY <1>1, <1>3
    <3>2. CASE i = n
      <4>1. out[n].end = s
        <5>1. i + 1 = n + 1
          BY <3>2
        <5> QED BY Zenon, <1>2, <1>3, <2>3, <3>1, <3>2, <5>1
      <4>2. out # <<>>
        BY <1>1, <3>1
      <4>3. out[n].type # type
        BY ZenonT(30), <4>1, <4>2 DEF n
      <4> QED BY Zenon, <1>2, <1>3, <3>1, <3>2, <4>3
    <3>3. CASE i # n
      <4>1. i \in 1..(n - 1) /\ i + 1 \in 1..n
        <5>1. n \in Nat /\ i \in 1..n /\ i # n
          BY ZenonT(30), <1>1, <3>1, <3>3
        <5> HIDE DEF n
        <5> QED BY <5>1
      <4> QED BY SMTT(30), <1>3, <2>3, <3>1, <4>1 DEF OutOK
    <3> QED BY <3>2, <3>3
  <2> QED BY <1>3, <2>1, <2>2, <2>3 DEF OutOK
<1>7. ASSUME NEW a \in Nat, a < s PROVE TypesAt(new, a) = TypesAt(out, a)
  <2>1. ~(new[n + 1].start <= a)
    BY <1>2, <1>3, <1>7
  <2>2. \A i \in 1..n : i \in DOMAIN new
    BY <1>1, <1>3
  <2>3. TypesAt(new, a) \subseteq TypesAt(out, a)
    <3>1. \A i \in DOMAIN new : new[i].start <= a /\ a < new[i].end =>
            i \in DOMAIN out /\ out[i].start <= a /\ a < out[i].end /\ out[i].type = new[i].type
      BY Zenon, <1>1, <1>3, <1>5, <2>1
    <3> QED BY Zenon, <3>1, MoreTypes
  <2>4. TypesAt(out, a) \subseteq TypesAt(new, a)
    <3>1. \A i \in DOMAIN out : out[i].start <= a /\ a < out[i].end =>
            i \in DOMAIN new /\ new[i].start <= a /\ a < new[i].end /\ new[i].type = out[i].type
      BY ZenonT(30), <1>1, <1>3, <2>2
    <3> QED BY Zenon, <3>1, MoreTypes
  <2> QED BY Zenon, <2>3, <2>4
<1>8. ASSUME NEW a \in Nat, s <= a, a < e PROVE TypesAt(new, a) = {type}
  <2>1. \A i \in 1..n : ~(a < new[i].end)
    BY <1>3, <1>4, <1>8
  <2>2. new[n + 1].start <= a /\ a < new[n + 1].end /\ new[n + 1].type = type /\ n + 1 \in DOMAIN new
    BY <1>1, <1>2, <1>3, <1>8
  <2> QED BY Zenon, <1>5, <2>1, <2>2, OneType
<1>9. Grown(out, new, s, e, type)
  BY Zenon, <1>6, <1>7, <1>8 DEF Grown
<1> QED BY ZenonT(30), <1>9 DEF new, r

\* The last region of a list grows.
LEMMA ExtendRegion ==
  ASSUME NEW out, NEW s \in Nat, NEW e \in Nat, s < e, OutOK(out, s), NEW type \in Types,
         NEW n \in Nat, n = Len(out), n >= 1, out[n].type = type, out[n].end = s
  PROVE  Grown(out, [out EXCEPT ![n].end = e], s, e, type)
<1> DEFINE r == [out[n] EXCEPT !.end = e]
           new == [out EXCEPT ![n] = r]
<1>1. /\ out \in Seq(RegionType) /\ DOMAIN out = 1..n
      /\ \A i \in 1..n : out[i] \in RegionType
  BY DEF OutOK
<1>2. r \in RegionType /\ r.start = out[n].start /\ r.end = e /\ r.type = type
  <2>1. out[n] \in RegionType
    BY <1>1
  <2> QED BY <2>1 DEF RegionType
<1>3. [out EXCEPT ![n].end = e] = new
  BY Zenon
<1> HIDE DEF r
<1>4. /\ new \in Seq(RegionType) /\ Len(new) = n /\ DOMAIN new = 1..n
      /\ new[n] = r /\ \A i \in 1..n : i # n => new[i] = out[i]
  BY <1>1, <1>2
<1> HIDE DEF new
<1>5. \A i \in 1..n : /\ out[i].start \in Nat /\ out[i].end \in Nat /\ out[i].start < out[i].end
                      /\ out[i].end <= s
  BY SMTT(30), <1>1 DEF OutOK, RegionType
<1>6. n \in 1..n /\ out[n].start < s /\ \A i \in 1..n : i # n => i < n /\ out[i].end <= out[n].start
  <2>1. n \in 1..n /\ \A i \in 1..n : i # n => i < n
    OBVIOUS
  <2>2. out[n].start < s
    BY <1>5, <2>1
  <2> QED BY ZenonT(30), <1>1, <2>1, <2>2 DEF OutOK
<1>7. OutOK(new, e)
  <2>1. ASSUME NEW i \in DOMAIN new PROVE new[i].start < new[i].end /\ new[i].end <= e
    <3>1. CASE i = n
      <4>1. out[n].start \in Nat /\ out[n].start < e /\ e <= e
        BY <1>5, <1>6
      <4> QED BY Zenon, <1>2, <1>4, <3>1, <4>1
    <3>2. CASE i # n
      <4>1. new[i] = out[i] /\ i \in 1..n
        BY Zenon, <1>4, <3>2
      <4>2. out[i].end \in Nat /\ out[i].start < out[i].end /\ out[i].end <= s
        BY Zenon, <1>5, <4>1
      <4>3. out[i].end <= e
        BY <4>2
      <4> QED BY Zenon, <4>1, <4>2, <4>3
    <3> QED BY Zenon, <3>1, <3>2
  <2>2. ASSUME NEW i \in DOMAIN new, NEW j \in DOMAIN new, i < j PROVE new[i].end <= new[j].start
    <3>0. i \in 1..n /\ j \in 1..n
      BY Zenon, <1>4
    <3>1. i # n
      BY <2>2, <3>0
    <3>2. new[j].start = out[j].start /\ new[i].end = out[i].end
      BY Zenon, <1>2, <1>4, <3>0, <3>1
    <3>3. out[i].end <= out[j].start
      BY Zenon, <1>1, <2>2, <3>0 DEF OutOK
    <3> QED BY Zenon, <3>2, <3>3
  <2>3. ASSUME NEW i \in 1..(Len(new) - 1), new[i].end = new[i + 1].start PROVE new[i].type # new[i + 1].type
    <3>0. i \in 1..(n - 1)
      BY Zenon, <1>4
    <3>1. i \in 1..n /\ i # n /\ i + 1 \in 1..n
      BY <3>0
    <3>2. /\ new[i].end = out[i].end /\ new[i].type = out[i].type
          /\ new[i + 1].start = out[i + 1].start /\ new[i + 1].type = out[i + 1].type
      BY Zenon, <1>2, <1>4, <3>1
    <3> QED BY ZenonT(30), <2>3, <3>0, <3>1, <3>2 DEF OutOK
  <2> QED BY Zenon, <1>4, <2>1, <2>2, <2>3 DEF OutOK
<1>8. ASSUME NEW a \in Nat, a < s PROVE TypesAt(new, a) = TypesAt(out, a)
  <2>1. a < e
    BY <1>8
  <2>2. a < new[n].end /\ a < out[n].end /\ new[n].start = out[n].start /\ new[n].type = out[n].type
    BY Zenon, <1>2, <1>4, <1>8, <2>1
  <2>3. TypesAt(new, a) \subseteq TypesAt(out, a)
    BY Zenon, <1>1, <1>4, <2>2, MoreTypes
  <2>4. TypesAt(out, a) \subseteq TypesAt(new, a)
    BY Zenon, <1>1, <1>4, <2>2, MoreTypes
  <2> QED BY Zenon, <2>3, <2>4
<1>9. ASSUME NEW a \in Nat, s <= a, a < e PROVE TypesAt(new, a) = {type}
  <2>1. \A i \in 1..n : ~(a < out[i].end)
    BY <1>5, <1>9
  <2>2. out[n].start <= a
    BY <1>5, <1>6, <1>9
  <2>3. new[n].start <= a /\ a < new[n].end /\ new[n].type = type /\ n \in DOMAIN new
    BY Zenon, <1>2, <1>4, <1>6, <1>9, <2>2
  <2>4. \A i \in DOMAIN new : i # n => ~(new[i].start <= a /\ a < new[i].end)
    BY Zenon, <1>4, <2>1
  <2>5. TypesAt(new, a) = {new[n].type}
    BY Zenon, <2>3, <2>4, OneType
  <2> QED BY ZenonT(30), <2>3, <2>5
<1>10. Grown(out, new, s, e, type)
  BY Zenon, <1>7, <1>8, <1>9 DEF Grown
<1> QED BY ZenonT(30), <1>3, <1>10

\* Both cases of the loop's end.
LEMMA EmitLemma ==
  ASSUME NEW out, NEW s \in Nat, NEW e \in Nat, s < e, OutOK(out, s), NEW type \in Types
  PROVE  Grown(out, Emit(out, s, e, type), s, e, type)
<1>1. CASE out # <<>> /\ out[Len(out)].type = type /\ out[Len(out)].end = s
  <2>1. Emit(out, s, e, type) = [out EXCEPT ![Len(out)].end = e]
    BY Zenon, <1>1 DEF Emit
  <2>2. Len(out) \in Nat /\ Len(out) >= 1
    BY <1>1 DEF OutOK
  <2> DEFINE n == Len(out)
  <2>3. n \in Nat /\ n = Len(out) /\ n >= 1 /\ out[n].type = type /\ out[n].end = s
    BY Zenon, <1>1, <2>2
  <2>4. Emit(out, s, e, type) = [out EXCEPT ![n].end = e]
    BY Zenon, <2>1
  <2> HIDE DEF n
  <2>5. Grown(out, [out EXCEPT ![n].end = e], s, e, type)
    BY Zenon, <2>3, ExtendRegion
  <2> QED BY ZenonT(30), <2>4, <2>5
<1>2. CASE ~(out # <<>> /\ out[Len(out)].type = type /\ out[Len(out)].end = s)
  <2>1. Emit(out, s, e, type) = Append(out, [start |-> s, end |-> e, type |-> type])
    BY Zenon, <1>2 DEF Emit
  <2> QED BY Zenon, <1>2, <2>1, AppendRegion
<1> QED BY <1>1, <1>2

\* the boundary before e
Before(in, e) == Max({x \in Boundaries(in) : x < e})

\* u is the list at every boundary
Loop(in, u) ==
  u = [e \in Boundaries(in) |->
         IF e = Min(Boundaries(in)) THEN <<>> ELSE Add_stretch(in, u[Before(in, e)], Before(in, e), e)]

\* The loop of pmm_sanitize_memory_map() ends at the last boundary.
LEMMA SanitizeIsLoop ==
  ASSUME NEW in, \E u : Loop(in, u)
  PROVE  \E u : Loop(in, u) /\ Sanitize(in) = u[Max(Boundaries(in))]
<1> DEFINE u == CHOOSE f : Loop(in, f)
<1>1. Loop(in, u)
  BY Zenon
<1>2. Sanitize(in) = u[Max(Boundaries(in))]
  BY Zenon DEF Sanitize, Loop, Before
<1> QED BY Zenon, <1>1, <1>2

\* The boundaries are the ends of regions, which are bounded.
LEMMA BoundaryLemma ==
  ASSUME NEW in, InOK(in)
  PROVE  /\ Boundaries(in) \in SUBSET Nat /\ Boundaries(in) # {}
         /\ \A x \in Boundaries(in) : x <= MaxAddr
         /\ \A i \in DOMAIN in : in[i].start \in Boundaries(in) /\ in[i].end \in Boundaries(in)
<1>1. PICK i \in DOMAIN in : TRUE
  BY DEF InOK
<1>2. \A j \in DOMAIN in : /\ in[j].start \in Nat /\ in[j].end \in Nat
                           /\ in[j].start <= MaxAddr /\ in[j].end <= MaxAddr
  BY KernelAssumption DEF InOK, RegionType
<1> QED BY Zenon, <1>1, <1>2 DEF Boundaries

\* The first and the last boundary.
LEMMA EndsLemma ==
  ASSUME NEW in, InOK(in)
  PROVE  LET B == Boundaries(in)
         IN  /\ Min(B) \in B /\ \A x \in B : Min(B) <= x
             /\ Max(B) \in B /\ \A x \in B : x <= Max(B)
<1> DEFINE B == Boundaries(in)
<1>1. B \in SUBSET Nat /\ B # {} /\ \A x \in B : x <= MaxAddr
  BY Zenon, BoundaryLemma
<1>2. MaxAddr \in Nat
  BY KernelAssumption
<1> HIDE DEF B
<1>3. Min(B) \in B /\ \A x \in B : Min(B) <= x
  BY Zenon, <1>1, MinLemma
<1>4. Max(B) \in B /\ \A x \in B : x <= Max(B)
  BY Zenon, <1>1, <1>2, MaxLemma
<1> QED BY <1>3, <1>4 DEF B

\* Between a boundary and the one before it there is none.
LEMMA BeforeLemma ==
  ASSUME NEW in, InOK(in), NEW e \in Boundaries(in), e # Min(Boundaries(in))
  PROVE  /\ Before(in, e) \in Boundaries(in) /\ Before(in, e) < e
         /\ \A x \in Boundaries(in) : x < e => x <= Before(in, e)
<1> DEFINE B == Boundaries(in)
           L == {x \in B : x < e}
<1>1. B \in SUBSET Nat /\ e \in Nat
  BY BoundaryLemma
<1>2. Min(B) \in B /\ Min(B) <= e
  BY Zenon, EndsLemma
<1>3. L \in SUBSET Nat /\ L # {} /\ \A x \in L : x <= e
  BY <1>1, <1>2
<1>4. Before(in, e) = Max(L)
  BY DEF Before
<1>5. Max(L) \in L /\ \A x \in L : x <= Max(L)
  <2> HIDE DEF L
  <2> QED BY Zenon, <1>1, <1>3, MaxLemma
<1> QED BY Zenon, <1>4, <1>5

\* A stretch is held by the regions that cover it, all of it.
LEMMA StretchLemma ==
  ASSUME NEW in, InOK(in), NEW s \in Boundaries(in), NEW e \in Boundaries(in), s < e,
         \A x \in Boundaries(in) : x < e => x <= s,
         NEW a \in Nat, s <= a, a < e
  PROVE  TypesAt(in, a) = {in[j].type : j \in Covering(in, s, e)}
<1>0. s \in Nat /\ e \in Nat
  BY BoundaryLemma
<1>1. ASSUME NEW j \in DOMAIN in
      PROVE  (in[j].start <= a /\ a < in[j].end) <=> (in[j].start <= s /\ in[j].end >= e)
  <2>1. in[j].start \in Boundaries(in) /\ in[j].end \in Boundaries(in)
    BY Zenon, BoundaryLemma
  <2>2. in[j].start \in Nat /\ in[j].end \in Nat
    BY <2>1, BoundaryLemma
  <2>3. /\ in[j].start < e => in[j].start <= s
        /\ in[j].end < e => in[j].end <= s
    BY Zenon, <2>1
  <2> QED BY <1>0, <2>2, <2>3
<1>2. {j \in DOMAIN in : in[j].start <= a /\ a < in[j].end} = Covering(in, s, e)
  BY Zenon, <1>1 DEF Covering
<1> QED BY Zenon, <1>2 DEF TypesAt

\* the list at boundary e is right up to there
SaneUpto(in, e, out) ==
  OutOK(out, e) /\ \A a \in Nat : a < e => Right(TypesAt(in, a), TypesAt(out, a))

\* The body of the loop.
LEMMA StretchStep ==
  ASSUME NEW in, InOK(in), NEW s \in Boundaries(in), NEW e \in Boundaries(in), s < e,
         \A x \in Boundaries(in) : x < e => x <= s,
         NEW out, SaneUpto(in, s, out)
  PROVE  SaneUpto(in, e, Add_stretch(in, out, s, e))
<1> DEFINE new == Add_stretch(in, out, s, e)
           cover == Covering(in, s, e)
<1>0. s \in Nat /\ e \in Nat
  BY BoundaryLemma
<1>1. OutOK(out, s) /\ \A a \in Nat : a < s => Right(TypesAt(in, a), TypesAt(out, a))
  BY Zenon DEF SaneUpto
<1>2. \A a \in Nat : s <= a /\ a < e => TypesAt(in, a) = {in[j].type : j \in cover}
  BY Zenon, StretchLemma
<1>3. \A a \in Nat : a < e => a < s \/ s <= a
  BY <1>0
<1>4. CASE cover = {}
  <2>1. new = out
    BY Zenon, <1>4 DEF Add_stretch
  <2>2. OutOK(out, e)
    <3>1. ASSUME NEW i \in DOMAIN out PROVE out[i].end <= e
      <4>1. out[i] \in RegionType /\ out[i].end <= s
        BY <1>1 DEF OutOK
      <4> QED BY <1>0, <4>1 DEF RegionType
    <3> QED BY Zenon, <1>1, <3>1 DEF OutOK
  <2>3. ASSUME NEW a \in Nat, s <= a, a < e PROVE Right(TypesAt(in, a), TypesAt(out, a))
    <3>1. TypesAt(in, a) = {}
      <4>1. {in[j].type : j \in cover} = {}
        BY <1>4
      <4> QED BY Zenon, <1>2, <2>3, <4>1
    <3>2. TypesAt(out, a) = {}
      <4>1. a >= s
        BY <1>0, <2>3
      <4> QED BY Zenon, <1>0, <1>1, <4>1, NoTypesBehind
    <3> QED BY Zenon, <3>1, <3>2, NothingRight
  <2> QED BY Zenon, <1>1, <1>3, <2>1, <2>2, <2>3 DEF SaneUpto
<1>5. CASE cover # {}
  <2> DEFINE t == Best_type(in, s, e)
  <2>1. t \in Types /\ Right({in[j].type : j \in cover}, {t})
    BY Zenon, <1>5, BestRight
  <2>2. new = Emit(out, s, e, t)
    BY Zenon, <1>5 DEF Add_stretch
  <2> HIDE DEF t, new, cover
  <2>3. Grown(out, new, s, e, t)
    BY Zenon, <1>0, <1>1, <2>1, <2>2, EmitLemma
  <2>4. /\ OutOK(new, e)
        /\ \A a \in Nat : a < s => TypesAt(new, a) = TypesAt(out, a)
        /\ \A a \in Nat : s <= a /\ a < e => TypesAt(new, a) = {t}
    BY Zenon, <2>3 DEF Grown
  <2>5. ASSUME NEW a \in Nat, a < e PROVE Right(TypesAt(in, a), TypesAt(new, a))
    <3>1. CASE a < s
      BY Zenon, <1>1, <2>4, <3>1
    <3>2. CASE s <= a
      BY Zenon, <1>2, <2>1, <2>4, <2>5, <3>2
    <3> QED BY Zenon, <1>3, <2>5, <3>1, <3>2
  <2> QED BY Zenon, <2>4, <2>5 DEF SaneUpto, new
<1> QED BY Zenon, <1>4, <1>5

\* Before the first boundary and after the last one there is no region.
LEMMA OutsideLemma ==
  ASSUME NEW in, InOK(in), NEW a \in Nat,
         a < Min(Boundaries(in)) \/ a >= Max(Boundaries(in))
  PROVE  TypesAt(in, a) = {}
<1> DEFINE B == Boundaries(in)
<1>1. ASSUME NEW j \in DOMAIN in PROVE ~(in[j].start <= a /\ a < in[j].end)
  <2>1. in[j].start \in B /\ in[j].end \in B
    BY Zenon, BoundaryLemma
  <2>2. in[j].start \in Nat /\ in[j].end \in Nat
    BY <2>1, BoundaryLemma
  <2>3. Min(B) \in B /\ Max(B) \in B /\ Min(B) <= in[j].start /\ in[j].end <= Max(B)
    BY Zenon, <2>1, EndsLemma
  <2>4. Min(B) \in Nat /\ Max(B) \in Nat
    BY <2>3, BoundaryLemma
  <2> HIDE DEF B
  <2>5. a < Min(B) \/ a >= Max(B)
    BY Zenon DEF B
  <2> QED BY <2>2, <2>3, <2>4, <2>5
<1>2. {j \in DOMAIN in : in[j].start <= a /\ a < in[j].end} = {}
  BY Zenon, <1>1
<1>3. \A J : J = {} => {in[i].type : i \in J} = {}
  BY Zenon
<1> QED BY Zenon, <1>2, <1>3 DEF TypesAt

\* Every list of the loop is right up to its boundary: at the least boundary
\* at which it were not, it is, since it is at the one before.
LEMMA LoopSane ==
  ASSUME NEW in, InOK(in), NEW u, Loop(in, u), NEW e \in Boundaries(in)
  PROVE  SaneUpto(in, e, u[e])
<1> DEFINE B == Boundaries(in)
           W == {x \in B : ~SaneUpto(in, x, u[x])}
<1>1. SUFFICES ASSUME W # {} PROVE FALSE
  BY Zenon
<1>2. W \in SUBSET Nat
  BY BoundaryLemma
<1> DEFINE w == Min(W)
<1>3. w \in W /\ \A x \in W : w <= x
  <2> HIDE DEF W
  <2> QED BY Zenon, <1>1, <1>2, MinLemma
<1>4. w \in B /\ ~SaneUpto(in, w, u[w])
  BY Zenon, <1>3
<1> HIDE DEF w
<1>5. \A x \in B : u[x] = IF x = Min(B) THEN <<>> ELSE Add_stretch(in, u[Before(in, x)], Before(in, x), x)
  BY Zenon DEF Loop
<1>6. CASE w = Min(B)
  <2>1. u[w] = <<>>
    BY Zenon, <1>4, <1>5, <1>6
  <2>2. OutOK(<<>>, w)
    BY DEF OutOK
  <2>3. ASSUME NEW a \in Nat, a < w PROVE Right(TypesAt(in, a), TypesAt(<<>>, a))
    <3>1. TypesAt(in, a) = {}
      BY Zenon, <1>6, <2>3, OutsideLemma
    <3>2. TypesAt(<<>>, a) = {}
      BY DEF TypesAt
    <3> QED BY Zenon, <3>1, <3>2, NothingRight
  <2> QED BY Zenon, <1>4, <2>1, <2>2, <2>3 DEF SaneUpto
<1>7. CASE w # Min(B)
  <2> DEFINE s == Before(in, w)
  <2>1. s \in B /\ s < w /\ \A x \in B : x < w => x <= s
    BY Zenon, <1>4, <1>7, BeforeLemma
  <2>2. u[w] = Add_stretch(in, u[s], s, w)
    BY Zenon, <1>4, <1>5, <1>7
  <2> HIDE DEF s
  <2>3. SaneUpto(in, s, u[s])
    <3>1. s \notin W
      <4>1. s \in Nat /\ w \in Nat
        BY <1>4, <2>1, BoundaryLemma
      <4>2. ~(w <= s)
        BY <2>1, <4>1
      <4> QED BY Zenon, <1>3, <4>2
    <3> QED BY Zenon, <2>1, <3>1
  <2>4. SaneUpto(in, w, Add_stretch(in, u[s], s, w))
    BY Zenon, <1>4, <2>1, <2>3, StretchStep
  <2> QED BY Zenon, <1>4, <2>2, <2>4
<1> QED BY Zenon, <1>6, <1>7

\* A stretch added to a list of regions gives a list of regions.
LEMMA StretchType ==
  ASSUME NEW in, InOK(in), NEW out \in Seq(RegionType), NEW s \in Nat, NEW e \in Nat
  PROVE  Add_stretch(in, out, s, e) \in Seq(RegionType)
<1>1. CASE Covering(in, s, e) = {}
  BY ZenonT(30), <1>1 DEF Add_stretch
<1>2. CASE Covering(in, s, e) # {}
  <2> DEFINE t == Best_type(in, s, e)
             n == Len(out)
  <2>1. t \in Types
    BY Zenon, <1>2, BestRight
  <2>2. Add_stretch(in, out, s, e) = Emit(out, s, e, t)
    BY Zenon, <1>2 DEF Add_stretch
  <2> HIDE DEF t
  <2>3. [start |-> s, end |-> e, type |-> t] \in RegionType
    BY <2>1 DEF RegionType
  <2>4. Append(out, [start |-> s, end |-> e, type |-> t]) \in Seq(RegionType)
    BY <2>3
  <2>5. ASSUME out # <<>> PROVE [out EXCEPT ![n].end = e] \in Seq(RegionType)
    <3>1. n \in DOMAIN out /\ out[n] \in RegionType
      BY <2>5
    <3> HIDE DEF n
    <3> DEFINE r == [out[n] EXCEPT !.end = e]
    <3>2. r \in RegionType
      BY SMTT(30), <3>1 DEF RegionType
    <3>3. [out EXCEPT ![n].end = e] = [out EXCEPT ![n] = r]
      BY Zenon
    <3> HIDE DEF r
    <3>4. [out EXCEPT ![n] = r] \in Seq(RegionType)
      BY <3>1, <3>2
    <3> QED BY Zenon, <3>3, <3>4
  <2> QED BY Zenon, <2>2, <2>4, <2>5 DEF Emit
<1> QED BY Zenon, <1>1, <1>2

\* The loop has a list for every boundary.
LEMMA LoopExists ==
  ASSUME NEW in, InOK(in)
  PROVE  \E u : Loop(in, u)
<1> DEFINE B == Boundaries(in)
           m == Min(B)
           D == Seq(RegionType)
           At(out, e) == IF e \in B /\ e # m THEN Add_stretch(in, out, Before(in, e), e) ELSE out
           F == [x \in D \X Nat |-> At(x[1], x[2] + 1)]
<1>1. B \in SUBSET Nat
  BY Zenon, BoundaryLemma
<1>2. \A e \in B : e # m => Before(in, e) \in B /\ Before(in, e) < e /\ \A x \in B : x < e => x <= Before(in, e)
  BY Zenon, BeforeLemma
<1>3. <<>> \in D
  OBVIOUS
<1>4. ASSUME NEW out \in D, NEW e \in Nat PROVE At(out, e) \in D
  <2>1. CASE e \in B /\ e # m
    <3>1. Before(in, e) \in Nat
      BY Zenon, <1>1, <1>2, <2>1
    <3>2. Add_stretch(in, out, Before(in, e), e) \in D
      BY Zenon, <3>1, StretchType
    <3> QED BY Zenon, <2>1, <3>2
  <2> QED BY Zenon, <2>1
<1> HIDE DEF D, B, m
<1>5. F \in [D \X Nat -> D] /\ \A out \in D, n \in Nat : F[<<out, n>>] = At(out, n + 1)
  <2>1. \A n \in Nat : n + 1 \in Nat
    OBVIOUS
  <2>2. \A x \in D \X Nat : x[1] \in D /\ x[2] \in Nat
    BY Zenon
  <2> HIDE DEF At
  <2>3. \A x \in D \X Nat : At(x[1], x[2] + 1) \in D
    BY Zenon, <1>4, <2>1, <2>2
  <2> QED BY <2>3
<1> HIDE DEF F
<1>6. PICK g \in [Nat -> D] : g[0] = <<>> /\ \A n \in Nat : g[n + 1] = F[<<g[n], n>>]
  <2> DEFINE a == <<>>
  <2>1. a \in D /\ F \in [D \X Nat -> D]
    BY Zenon, <1>3, <1>5
  <2> HIDE DEF a
  <2>2. Unrolls(D, a, F)
    BY Zenon, <2>1, Recursion
  <2> QED BY Zenon, <2>2 DEF Unrolls, a
<1>7. ASSUME NEW n \in Nat PROVE g[n + 1] = At(g[n], n + 1)
  BY Zenon, <1>5, <1>6
\* nothing changes where no stretch ends
<1>8. ASSUME NEW p \in Nat, NEW q \in Nat, p <= q, \A x \in B : p < x /\ x <= q => x = m
      PROVE  g[q] = g[p]
  <2> DEFINE S == {d \in Nat : p + d <= q => g[p + d] = g[p]}
  <2>1. 0 \in S
    <3>1. p + 0 = p
      OBVIOUS
    <3> QED BY <3>1
  <2>2. ASSUME NEW d \in S PROVE d + 1 \in S
    <3>1. d \in Nat /\ d + 1 \in Nat /\ p + d \in Nat /\ p + (d + 1) = (p + d) + 1
      OBVIOUS
    <3>2. ASSUME p + (d + 1) <= q PROVE g[p + (d + 1)] = g[p]
      <4>1. p + d <= q /\ p < (p + d) + 1 /\ (p + d) + 1 <= q
        BY <3>1, <3>2
      <4>2. g[p + d] = g[p]
        BY Zenon, <4>1
      <4>3. (p + d) + 1 \in B => (p + d) + 1 = m
        BY Zenon, <1>8, <4>1
      <4>4. g[(p + d) + 1] = g[p + d]
        BY Zenon, <1>7, <3>1, <4>3
      <4> QED BY Zenon, <3>1, <4>2, <4>4
    <3> QED BY Zenon, <3>1, <3>2
  <2>3. S = Nat
    <3>1. S \in SUBSET Nat
      OBVIOUS
    <3> HIDE DEF S
    <3> QED BY Zenon, <2>1, <2>2, <3>1, Induction
  <2>4. q - p \in Nat /\ p + (q - p) = q /\ q <= q
    BY <1>8
  <2>5. q - p \in S
    BY Zenon, <2>3, <2>4
  <2>6. g[p + (q - p)] = g[p]
    BY Zenon, <2>4, <2>5
  <2> QED BY Zenon, <2>4, <2>6
<1> DEFINE u == [e \in B |-> g[e]]
<1>9. \A e \in B : u[e] = g[e]
  BY Zenon
<1>10. ASSUME NEW e \in B
       PROVE  g[e] = IF e = m THEN <<>> ELSE Add_stretch(in, u[Before(in, e)], Before(in, e), e)
  <2>0. e \in Nat
    BY Zenon, <1>1
  <2>1. CASE e = m
    <3>1. \A x \in B : 0 < x /\ x <= m => x = m
      <4>1. \A x \in B : x \in Nat /\ m <= x
        BY Zenon, <1>1, EndsLemma DEF B, m
      <4> QED BY <2>0, <2>1, <4>1
    <3>2. g[e] = g[0]
      <4>1. 0 <= e
        BY <2>0
      <4> QED BY ZenonT(30), <1>8, <2>0, <2>1, <3>1, <4>1
    <3> QED BY Zenon, <1>6, <2>1, <3>2
  <2>2. CASE e # m
    <3> DEFINE s == Before(in, e)
    <3>1. s \in B /\ s \in Nat /\ s < e /\ \A x \in B : x < e => x <= s
      BY Zenon, <1>1, <1>2, <2>2
    <3> HIDE DEF s
    <3>2. e - 1 \in Nat /\ (e - 1) + 1 = e /\ s <= e - 1
      BY <2>0, <3>1
    <3>3. \A x \in B : s < x /\ x <= e - 1 => x = m
      <4>1. \A x \in B : x \in Nat /\ (x < e => x <= s)
        BY Zenon, <1>1, <3>1
      <4> QED BY <2>0, <3>1, <4>1
    <3>4. g[e - 1] = g[s]
      BY Zenon, <1>8, <3>1, <3>2, <3>3
    <3>5. g[e] = At(g[e - 1], e)
      BY Zenon, <1>7, <3>2
    <3>6. At(g[e - 1], e) = Add_stretch(in, g[e - 1], s, e)
      BY Zenon, <2>2 DEF s
    <3> QED BY ZenonT(30), <1>9, <2>2, <3>1, <3>4, <3>5, <3>6 DEF s
  <2> QED BY Zenon, <2>1, <2>2
<1>11. u = [e \in B |-> IF e = m THEN <<>> ELSE Add_stretch(in, u[Before(in, e)], Before(in, e), e)]
  <2> DEFINE R(e) == IF e = m THEN <<>> ELSE Add_stretch(in, u[Before(in, e)], Before(in, e), e)
  <2>1. \A e \in B : g[e] = R(e)
    BY Zenon, <1>10
  <2> HIDE DEF R
  <2>2. [e \in B |-> g[e]] = [e \in B |-> R(e)]
    BY Zenon, <2>1
  <2> QED BY Zenon, <2>2 DEF R
<1> HIDE DEF u
<1>12. Loop(in, u)
  BY Zenon, <1>11 DEF Loop, B, m
<1> QED BY Zenon, <1>12

\* So is the map that pmm_sanitize_memory_map() makes.
LEMMA SanitizeLemma ==
  ASSUME NEW in, InOK(in)
  PROVE  /\ OutOK(Sanitize(in), MaxAddr)
         /\ \A a \in Nat : Right(TypesAt(in, a), TypesAt(Sanitize(in), a))
<1> DEFINE M == Max(Boundaries(in))
           out == Sanitize(in)
<1>1. PICK u : Loop(in, u) /\ out = u[M]
  BY Zenon, LoopExists, SanitizeIsLoop
<1>2. M \in Boundaries(in)
  BY Zenon, EndsLemma
<1>3. M \in Nat /\ M <= MaxAddr
  BY <1>2, BoundaryLemma
<1>4. SaneUpto(in, M, out)
  BY Zenon, <1>1, <1>2, LoopSane
<1>5. OutOK(out, M) /\ \A a \in Nat : a < M => Right(TypesAt(in, a), TypesAt(out, a))
  BY Zenon, <1>4 DEF SaneUpto
<1> HIDE DEF out
<1>6. ASSUME NEW a \in Nat PROVE Right(TypesAt(in, a), TypesAt(out, a))
  <2>1. CASE a >= M
    <3>1. TypesAt(in, a) = {}
      BY Zenon, <2>1, OutsideLemma
    <3>2. TypesAt(out, a) = {}
      BY Zenon, <1>3, <1>5, <2>1, NoTypesBehind
    <3> QED BY Zenon, <3>1, <3>2, NothingRight
  <2>2. CASE a < M
    BY Zenon, <1>5, <2>2
  <2>3. a >= M \/ a < M
    BY <1>3
  <2> QED BY Zenon, <2>1, <2>2, <2>3
<1>7. OutOK(out, MaxAddr)
  <2>1. ASSUME NEW i \in DOMAIN out PROVE out[i].end <= MaxAddr
    <3>1. out[i] \in RegionType /\ out[i].end <= M
      BY <1>5 DEF OutOK
    <3> QED BY <1>3, <3>1, KernelAssumption DEF RegionType
  <2> QED BY Zenon, <1>5, <2>1 DEF OutOK
<1> QED BY Zenon, <1>6, <1>7 DEF out

-----------------------------------------------------------------------------
(* Pages and frames.                                                       *)

P == PAGE_SIZE

\* A page has bytes.
LEMMA PLemma == P \in Nat /\ P > 0 /\ P \in Nat \ {0}
BY PageAssumption DEF P

\* PAGE_ALIGN_DOWN() gives the border of the page.
LEMMA AlignDown ==
  ASSUME NEW x \in Nat
  PROVE  \E k \in Nat : /\ PAGE_ALIGN_DOWN(x) = k * P /\ PAGE_ALIGN_DOWN(x) \div PAGE_SIZE = k
                        /\ k * P \in Nat /\ k * P <= x /\ x < k * P + P
<1> DEFINE k == x \div P
<1>1. k \in Nat /\ k * P <= x /\ x < k * P + P
  BY PLemma, DivLemma
<1>2. x - (x % P) = k * P
  BY SMTT(30), PLemma
<1> HIDE DEF k
<1>3. k * P \in Nat /\ k * P <= k * P /\ k * P < k * P + P
  BY <1>1, PLemma
<1>4. (k * P) \div P = k
  BY <1>1, <1>3, PLemma, DivIs
<1> QED BY <1>1, <1>2, <1>3, <1>4 DEF PAGE_ALIGN_DOWN, P

\* PAGE_ALIGN_UP() gives the next border.
LEMMA AlignUp ==
  ASSUME NEW x \in Nat
  PROVE  \E k \in Nat : /\ PAGE_ALIGN_UP(x) = k * P /\ PAGE_ALIGN_UP(x) \div PAGE_SIZE = k
                        /\ k * P \in Nat /\ x <= k * P /\ k * P < x + P
<1>1. x + P - 1 \in Nat
  BY PLemma
<1>2. PICK k \in Nat : /\ PAGE_ALIGN_DOWN(x + P - 1) = k * P /\ PAGE_ALIGN_DOWN(x + P - 1) \div PAGE_SIZE = k
                       /\ k * P \in Nat /\ k * P <= x + P - 1 /\ x + P - 1 < k * P + P
  BY <1>1, AlignDown
<1>3. PAGE_ALIGN_UP(x) = PAGE_ALIGN_DOWN(x + P - 1)
  BY DEF PAGE_ALIGN_UP, P
<1> DEFINE y == k * P
<1>4. y \in Nat /\ y <= x + P - 1 /\ x + P - 1 < y + P
  BY <1>2
<1> HIDE DEF y
<1>5. x <= y /\ y < x + P
  BY <1>4, PLemma
<1> QED BY Zenon, <1>2, <1>3, <1>5 DEF y

\* It keeps the order.
LEMMA AlignOrder ==
  ASSUME NEW x \in Nat, NEW y \in Nat, x <= y
  PROVE  PAGE_ALIGN_UP(x) <= PAGE_ALIGN_UP(y)
<1>1. PICK k \in Nat : PAGE_ALIGN_UP(x) = k * P /\ k * P \in Nat /\ k * P < x + P
  BY AlignUp
<1>2. PICK l \in Nat : PAGE_ALIGN_UP(y) = l * P /\ l * P \in Nat /\ y <= l * P
  BY AlignUp
<1>3. ~(l < k)
  <2> SUFFICES ASSUME l < k PROVE FALSE
    OBVIOUS
  <2>1. l * P + P <= k * P
    BY MulLemma, PLemma
  <2> DEFINE u == k * P
             v == l * P
  <2>2. u \in Nat /\ v \in Nat /\ u < x + P /\ y <= v /\ v + P <= u
    BY <1>1, <1>2, <2>1
  <2> HIDE DEF u, v
  <2> QED BY <2>2, PLemma
<1>4. k * P <= l * P
  BY <1>3, PLemma, MulOrder
<1> QED BY <1>1, <1>2, <1>4

\* The first byte, the whole bytes and the last byte that pmm_init() clears
\* are together the frames of the region.
LEMMA ClearedLemma ==
  ASSUME NEW s \in Nat, NEW e \in Nat, s < e
  PROVE  Cleared(s, e) = s..(e - 1)
<1> DEFINE c == BITS
           sb == s \div c
           eb == e \div c
           sl == sb * c
           el == eb * c
           sn == (sb + 1) * c
<1>1. c \in Nat /\ c \in Nat \ {0} /\ c > 0
  BY PageAssumption
<1>2. sb \in Nat /\ sl <= s /\ s < sl + c /\ eb \in Nat /\ el <= e /\ e < el + c
  BY <1>1, DivLemma
<1>3. Cleared(s, e) = IF sb = eb THEN s..(e - 1)
                      ELSE s..(sl + c - 1) \cup el..(e - 1) \cup sn..(el - 1)
  BY DEF Cleared
<1> HIDE DEF c, sb, eb
<1>4. sn = sl + c /\ sl \in Nat /\ el \in Nat
  BY <1>1, <1>2
<1>5. CASE sb = eb
  BY <1>3, <1>5
<1>6. CASE sb < eb
  <2>1. sl + c <= el
    BY <1>1, <1>2, <1>6, MulLemma
  <2> HIDE DEF sl, el, sn
  <2>2. Cleared(s, e) = s..(sl + c - 1) \cup el..(e - 1) \cup sn..(el - 1)
    BY <1>2, <1>3, <1>6
  <2>3. s..(sl + c - 1) \cup el..(e - 1) \cup (sl + c)..(el - 1) = s..(e - 1)
    <3>1. sl \in Nat /\ el \in Nat /\ sl <= s /\ s < sl + c /\ el <= e /\ sl + c <= el
      BY Zenon, <1>2, <1>4, <2>1
    <3>2. ASSUME NEW f PROVE f \in s..(sl + c - 1) \cup el..(e - 1) \cup (sl + c)..(el - 1) <=> f \in s..(e - 1)
      BY SMTT(30), <1>1, <3>1
    <3> QED BY Zenon, <3>2
  <2> QED BY ZenonT(30), <1>4, <2>2, <2>3
<1>7. ~(eb < sb)
  <2> SUFFICES ASSUME eb < sb PROVE FALSE
    OBVIOUS
  <2>1. el + c <= sl
    BY <1>1, <1>2, MulLemma
  <2> HIDE DEF sl, el
  <2> QED BY <1>1, <1>2, <1>4, <2>1
<1> QED BY <1>2, <1>5, <1>6, <1>7

\* all of frame f is in a usable region of the map
UsableFrame(map, f) ==
  /\ f \in Nat /\ MIN_USABLE_PADDR <= f * P
  /\ \E i \in DOMAIN map : /\ map[i].type = "USABLE" /\ map[i].start <= f * P /\ f * P + P <= map[i].end

\* The map is made of regions in order.
LEMMA MapLemma ==
  ASSUME NEW map, NEW e, OutOK(map, e)
  PROVE  /\ Len(map) \in Nat /\ DOMAIN map = 1..Len(map) /\ DOMAIN map \subseteq Nat
         /\ \A j \in DOMAIN map : /\ map[j].start \in Nat /\ map[j].end \in Nat /\ map[j].type \in Types
                                  /\ map[j].start < map[j].end
         /\ \A j, k \in DOMAIN map : j < k => map[j].end <= map[k].start
<1>1. map \in Seq(RegionType)
  BY Zenon DEF OutOK
<1>2. Len(map) \in Nat /\ DOMAIN map = 1..Len(map) /\ \A j \in DOMAIN map : map[j] \in RegionType
  BY <1>1
<1>3. DOMAIN map \subseteq Nat
  BY <1>2
<1>4. ASSUME NEW j \in DOMAIN map
      PROVE  map[j].start \in Nat /\ map[j].end \in Nat /\ map[j].type \in Types
  <2>1. map[j] \in RegionType
    BY ZenonT(30), <1>2
  <2> HIDE DEF Types
  <2> QED BY <2>1 DEF RegionType
<1> QED BY Zenon, <1>2, <1>3, <1>4 DEF OutOK

\* In a map in order, a usable region is the only one to hold its bytes.
LEMMA UsableBytes ==
  ASSUME NEW map, OutOK(map, MaxAddr), NEW f, UsableFrame(map, f),
         NEW x \in (f * PAGE_SIZE)..(f * PAGE_SIZE + PAGE_SIZE - 1)
  PROVE  x \in Nat /\ x >= MIN_USABLE_PADDR /\ TypesAt(map, x) = {"USABLE"}
<1>1. PICK i \in DOMAIN map : map[i].type = "USABLE" /\ map[i].start <= f * P /\ f * P + P <= map[i].end
  BY Zenon DEF UsableFrame
<1> DEFINE a == f * P
<1>2. f \in Nat /\ MIN_USABLE_PADDR <= a /\ x \in a..(a + P - 1) /\ a \in Nat
  BY PLemma DEF UsableFrame, P
<1>3. map[i].start <= a /\ a + P <= map[i].end
  BY <1>1
<1> HIDE DEF a
<1>4. /\ \A j \in DOMAIN map : map[j].start \in Nat /\ map[j].end \in Nat
      /\ \A j, k \in DOMAIN map : j < k => map[j].end <= map[k].start
      /\ DOMAIN map \subseteq Nat
  BY ZenonT(30), MapLemma
<1>5. x \in Nat /\ x >= MIN_USABLE_PADDR /\ map[i].start <= x /\ x < map[i].end
  BY <1>2, <1>3, <1>4, PLemma, PageAssumption
<1>6. ASSUME NEW j \in DOMAIN map, j # i PROVE ~(map[j].start <= x /\ x < map[j].end)
  <2>1. j < i \/ i < j
    BY <1>4, <1>6
  <2>2. /\ map[j].start \in Nat /\ map[j].end \in Nat /\ map[i].start \in Nat /\ map[i].end \in Nat
        /\ map[j].end <= map[i].start \/ map[i].end <= map[j].start
    BY Zenon, <1>4, <2>1
  <2> QED BY <1>5, <2>2
<1>7. TypesAt(map, x) = {map[i].type}
  BY Zenon, <1>5, <1>6, OneType
<1> QED BY Zenon, <1>1, <1>5, <1>7

\* The frames pmm_init() clears are usable and not before the cursor.
LEMMA RegionFrames ==
  ASSUME NEW map, OutOK(map, MaxAddr), NEW i \in DOMAIN map, NEW cursor \in Nat,
         NEW f \in Region_frames(map, i, cursor)
  PROVE  UsableFrame(map, f) /\ cursor <= f * P
<1> DEFINE start == Larger(Larger(map[i].start, MIN_USABLE_PADDR), cursor)
           s == PAGE_ALIGN_UP(start) \div PAGE_SIZE
           e == PAGE_ALIGN_DOWN(map[i].end) \div PAGE_SIZE
<1>1. map[i].start \in Nat /\ map[i].end \in Nat /\ MIN_USABLE_PADDR \in Nat
  BY ZenonT(30), PageAssumption, MapLemma
<1>2. start \in Nat /\ map[i].start <= start /\ MIN_USABLE_PADDR <= start /\ cursor <= start
  BY <1>1 DEF Larger
<1>3. map[i].type = "USABLE" /\ ~(s >= e) /\ f \in Cleared(s, e)
  BY DEF Region_frames
<1> HIDE DEF start
<1>4. s \in Nat /\ s * P \in Nat /\ start <= s * P
  BY Zenon, <1>2, AlignUp
<1>5. e \in Nat /\ e * P \in Nat /\ e * P <= map[i].end
  BY Zenon, <1>1, AlignDown
<1> HIDE DEF s, e
<1>6. f \in s..(e - 1)
  BY <1>3, <1>4, <1>5, ClearedLemma
<1>7. f \in Nat /\ s <= f /\ f < e
  BY <1>4, <1>5, <1>6
<1>8. s * P <= f * P /\ f * P + P <= e * P /\ f * P \in Nat
  BY SMTT(30), <1>4, <1>5, <1>7, PLemma, MulOrder, MulLemma
<1> DEFINE a == f * P
           b == s * P
           c == e * P
<1>9. a \in Nat /\ b \in Nat /\ c \in Nat /\ b <= a /\ a + P <= c /\ start <= b /\ c <= map[i].end
  BY <1>4, <1>5, <1>8
<1> HIDE DEF a, b, c
<1>10. MIN_USABLE_PADDR <= a /\ map[i].start <= a /\ cursor <= a /\ a + P <= map[i].end
  BY <1>1, <1>2, <1>9, PLemma
<1> QED BY Zenon, <1>3, <1>7, <1>10 DEF UsableFrame, a

\* what holds of the cursor of the bump allocator
CursorOK(map, p) ==
  /\ p \in [reg : BOOLEAN, idx : Nat, cursor : Nat] /\ p.reg /\ p.idx \in DOMAIN map
  /\ map[p.idx].type = "USABLE" /\ map[p.idx].start <= p.cursor /\ MIN_USABLE_PADDR <= p.cursor
  /\ \E k \in Nat : p.cursor = k * P
  /\ p.cursor = First_page(map, p.idx) \/ p.cursor <= map[p.idx].end

\* The first page of a region is in it, if it has any.
LEMMA FirstPage ==
  ASSUME NEW map, OutOK(map, MaxAddr), NEW i \in DOMAIN map
  PROVE  /\ First_page(map, i) \in Nat /\ map[i].start <= First_page(map, i)
         /\ MIN_USABLE_PADDR <= First_page(map, i)
         /\ \E k \in Nat : First_page(map, i) = k * P
<1> DEFINE x == Larger(MIN_USABLE_PADDR, map[i].start)
<1>1. map[i].start \in Nat /\ MIN_USABLE_PADDR \in Nat
  BY ZenonT(30), PageAssumption, MapLemma
<1>2. x \in Nat /\ map[i].start <= x /\ MIN_USABLE_PADDR <= x
  BY <1>1 DEF Larger
<1>3. First_page(map, i) = PAGE_ALIGN_UP(x)
  BY DEF First_page
<1> HIDE DEF x
<1>4. PICK k \in Nat : PAGE_ALIGN_UP(x) = k * P /\ k * P \in Nat /\ x <= k * P
  BY Zenon, <1>2, AlignUp
<1> DEFINE y == k * P
<1>5. y \in Nat /\ x <= y /\ First_page(map, i) = y
  BY <1>3, <1>4
<1> HIDE DEF y
<1>6. map[i].start <= y /\ MIN_USABLE_PADDR <= y
  BY <1>1, <1>2, <1>5
<1> QED BY Zenon, <1>5, <1>6 DEF y

\* The cursor of a region ahead is not before the one the allocator has.
LEMMA CursorAhead ==
  ASSUME NEW map, OutOK(map, MaxAddr), NEW p, CursorOK(map, p), NEW i \in Ahead(map, p.idx)
  PROVE  /\ i \in DOMAIN map /\ map[i].type = "USABLE"
         /\ p.cursor <= First_page(map, i)
<1>1. p.idx \in Nat /\ p.cursor \in Nat /\ p.idx \in DOMAIN map
  BY DEF CursorOK
<1>2. Len(map) \in Nat /\ DOMAIN map = 1..Len(map)
  BY DEF OutOK
<1>3. i \in DOMAIN map /\ p.idx < i /\ map[i].type = "USABLE"
  <2>1. i \in (p.idx + 1)..Len(map) /\ map[i].type = "USABLE"
    BY Zenon DEF Ahead
  <2> QED BY <1>1, <1>2, <2>1
<1>4. map[p.idx].end <= map[i].start
  BY Zenon, <1>1, <1>3 DEF OutOK
<1>5. /\ map[i].start \in Nat /\ map[p.idx].start \in Nat /\ map[p.idx].end \in Nat
      /\ map[p.idx].start < map[p.idx].end /\ MIN_USABLE_PADDR \in Nat
  BY ZenonT(30), <1>1, <1>3, PageAssumption, MapLemma
<1>6. First_page(map, i) \in Nat /\ map[i].start <= First_page(map, i)
  BY Zenon, <1>3, FirstPage
<1>7. CASE p.cursor <= map[p.idx].end
  <2> DEFINE c == p.cursor
             d == map[p.idx].end
             s == map[i].start
             f == First_page(map, i)
  <2>1. c \in Nat /\ d \in Nat /\ s \in Nat /\ f \in Nat /\ c <= d /\ d <= s /\ s <= f
    BY ZenonT(30), <1>1, <1>4, <1>5, <1>6, <1>7
  <2> HIDE DEF c, d, s, f
  <2>2. c <= f
    BY SMTT(30), <2>1
  <2> QED BY Zenon, <1>3, <2>2 DEF c, f
<1>8. CASE p.cursor = First_page(map, p.idx)
  <2> DEFINE x == Larger(MIN_USABLE_PADDR, map[p.idx].start)
             y == Larger(MIN_USABLE_PADDR, map[i].start)
  <2>1. x \in Nat /\ y \in Nat /\ x <= y
    BY <1>4, <1>5 DEF Larger
  <2> HIDE DEF x, y
  <2>2. PAGE_ALIGN_UP(x) <= PAGE_ALIGN_UP(y)
    BY Zenon, <2>1, AlignOrder
  <2> QED BY Zenon, <1>3, <1>8, <2>2 DEF First_page, x, y
<1>9. p.cursor = First_page(map, p.idx) \/ p.cursor <= map[p.idx].end
  BY Zenon DEF CursorOK
<1> QED BY Zenon, <1>3, <1>7, <1>8, <1>9

\* A cursor at the first page of a region.
LEMMA CursorAtFirst ==
  ASSUME NEW map, OutOK(map, MaxAddr), NEW i \in DOMAIN map, map[i].type = "USABLE"
  PROVE  CursorOK(map, [reg |-> TRUE, idx |-> i, cursor |-> First_page(map, i)])
<1> DEFINE c == First_page(map, i)
           q == [reg |-> TRUE, idx |-> i, cursor |-> c]
<1>1. c \in Nat /\ map[i].start <= c /\ MIN_USABLE_PADDR <= c /\ \E k \in Nat : c = k * P
  BY Zenon, FirstPage
<1>2. i \in Nat
  BY Zenon, MapLemma
<1>3. q.reg = TRUE /\ q.idx = i /\ q.cursor = c
  OBVIOUS
<1>4. c = First_page(map, i)
  OBVIOUS
<1> HIDE DEF c
<1>5. q \in [reg : BOOLEAN, idx : Nat, cursor : Nat]
  BY <1>1, <1>2
<1> HIDE DEF q
<1>6. CursorOK(map, q)
  BY Zenon, <1>1, <1>3, <1>4, <1>5 DEF CursorOK
<1> QED BY <1>6 DEF q, c

\* pa_init() finds the first usable region, if there is one.
LEMMA PaInit ==
  ASSUME NEW map, OutOK(map, MaxAddr), Pa_init(map).reg
  PROVE  CursorOK(map, Pa_init(map))
<1> DEFINE A == Ahead(map, 0)
<1>1. A # {}
  <2> SUFFICES ASSUME A = {} PROVE FALSE
    OBVIOUS
  <2>1. Pa_init(map) = Nowhere(map, 0)
    BY Zenon DEF Pa_init
  <2> QED BY <2>1 DEF Nowhere
<1>2. \A i \in A : i \in DOMAIN map /\ i \in Nat /\ map[i].type = "USABLE"
  <2>1. \A i \in A : i \in (0 + 1)..Len(map) /\ map[i].type = "USABLE"
    BY Zenon DEF Ahead
  <2>2. DOMAIN map = 1..Len(map) /\ DOMAIN map \subseteq Nat
    BY Zenon, MapLemma
  <2> QED BY <2>1, <2>2
<1> DEFINE i == Min(A)
<1>3. i \in A
  BY Zenon, <1>1, <1>2, MinLemma
<1>4. Pa_init(map) = [reg |-> TRUE, idx |-> i, cursor |-> First_page(map, i)]
  BY Zenon, <1>1 DEF Pa_init
<1> HIDE DEF A, i
<1> QED BY Zenon, <1>2, <1>3, <1>4, CursorAtFirst

\* early_pmm_alloc_continuous_frames() never moves back, and where it stops
\* there is room.
LEMMA PaSeek ==
  ASSUME OutOK(clean, MaxAddr), NEW p, CursorOK(clean, p), NEW size \in Nat, Pa_seek(p, size).reg
  PROVE  LET q == Pa_seek(p, size)
         IN  CursorOK(clean, q) /\ p.cursor <= q.cursor /\ q.cursor + size <= clean[q.idx].end
<1> DEFINE q == Pa_seek(p, size)
           A == Ahead(clean, p.idx)
           fits == {i \in A : First_page(clean, i) + size <= clean[i].end}
<1>1. p.reg /\ p.cursor \in Nat
  BY DEF CursorOK
<1>2. CASE p.cursor + size <= clean[p.idx].end
  <2>1. q = p
    BY Zenon, <1>1, <1>2 DEF Pa_seek
  <2>2. p.cursor <= p.cursor
    BY <1>1
  <2> QED BY Zenon, <1>2, <2>1, <2>2
<1>3. CASE ~(p.cursor + size <= clean[p.idx].end) /\ fits # {}
  <2> DEFINE i == Min(fits)
  <2>1. q = [reg |-> TRUE, idx |-> i, cursor |-> First_page(clean, i)]
    BY Zenon, <1>1, <1>3 DEF Pa_seek
  <2>2. \A j \in A : j \in DOMAIN clean /\ clean[j].type = "USABLE" /\ p.cursor <= First_page(clean, j)
    BY Zenon, CursorAhead
  <2>3. fits \in SUBSET Nat
    <3>1. DOMAIN clean \subseteq Nat
      BY Zenon, MapLemma
    <3> QED BY Zenon, <2>2, <3>1
  <2>4. i \in fits
    <3> HIDE DEF fits
    <3> QED BY Zenon, <1>3, <2>3, MinLemma
  <2> HIDE DEF i
  <2>5. i \in DOMAIN clean /\ clean[i].type = "USABLE" /\ p.cursor <= First_page(clean, i)
        /\ First_page(clean, i) + size <= clean[i].end
    BY Zenon, <2>2, <2>4
  <2>6. CursorOK(clean, q)
    BY Zenon, <2>1, <2>5, CursorAtFirst
  <2>7. q.idx = i /\ q.cursor = First_page(clean, i)
    BY <2>1
  <2> QED BY Zenon, <2>5, <2>6, <2>7
<1>4. CASE ~(p.cursor + size <= clean[p.idx].end) /\ fits = {}
  <2>1. \E x : q = Nowhere(clean, x)
    BY Zenon, <1>1, <1>4 DEF Pa_seek
  <2>2. q.reg = FALSE
    BY <2>1 DEF Nowhere
  <2> QED BY Zenon, <2>2
<1> QED BY Zenon, <1>2, <1>3, <1>4

\* The pages handed out are usable, and they are between the cursors.
LEMMA PagesLemma ==
  ASSUME NEW map, OutOK(map, MaxAddr), NEW q, CursorOK(map, q), NEW n \in Nat, q.cursor + n * P <= map[q.idx].end,
         NEW f \in Pages(q.cursor, n)
  PROVE  UsableFrame(map, f) /\ q.cursor <= f * P /\ f * P + P <= q.cursor + n * P
<1>1. PICK k \in Nat : q.cursor = k * P
  BY Zenon DEF CursorOK
<1> DEFINE a == k * P
           b == f * P
           l == n * P
           m == (k + n) * P
           i == q.idx
<1>2. a \in Nat /\ l \in Nat /\ m = a + l
  BY PLemma
<1>3. a \div P = k
  <2>1. a <= a /\ a < a + P
    BY <1>2, PLemma
  <2> QED BY SMTT(30), <2>1, <1>2, PLemma, DivIs
<1>4. f \in k..(k + n - 1)
  BY <1>1, <1>3 DEF Pages, P
<1>5. f \in Nat /\ k <= f /\ f < k + n
  BY <1>4
<1>6. a <= b /\ b \in Nat
  BY <1>5, PLemma, MulOrder
<1>7. b + P <= m
  BY SMTT(30), <1>5, PLemma, MulLemma
<1>8. /\ i \in DOMAIN map /\ map[i].type = "USABLE" /\ map[i].start <= a /\ MIN_USABLE_PADDR <= a
      /\ a + l <= map[i].end
  BY Zenon, <1>1 DEF CursorOK
<1>9. map[i].start \in Nat /\ map[i].end \in Nat /\ MIN_USABLE_PADDR \in Nat
  BY Zenon, <1>8, MapLemma, PageAssumption
<1> HIDE DEF a, b, l, m, i
<1>10. map[i].start <= b /\ b + P <= map[i].end /\ MIN_USABLE_PADDR <= b /\ b + P <= a + l
  BY SMTT(30), <1>2, <1>6, <1>7, <1>8, <1>9, PLemma
<1>11. UsableFrame(map, f)
  BY Zenon, <1>5, <1>8, <1>10 DEF UsableFrame, b
<1> QED BY Zenon, <1>1, <1>6, <1>10, <1>11 DEF a, b, l

\* The cursor after a run of pages.
LEMMA CursorMoves ==
  ASSUME NEW map, OutOK(map, MaxAddr), NEW q, CursorOK(map, q), NEW n \in Nat, q.cursor + n * P <= map[q.idx].end
  PROVE  /\ CursorOK(map, [q EXCEPT !.cursor = q.cursor + n * P])
         /\ [q EXCEPT !.cursor = q.cursor + n * P].cursor = q.cursor + n * P
<1> DEFINE l == n * P
           c == q.cursor + l
           r == [q EXCEPT !.cursor = c]
<1>1. /\ q \in [reg : BOOLEAN, idx : Nat, cursor : Nat] /\ q.reg /\ q.idx \in DOMAIN map
      /\ map[q.idx].type = "USABLE" /\ map[q.idx].start <= q.cursor /\ MIN_USABLE_PADDR <= q.cursor
  BY Zenon DEF CursorOK
<1>2. PICK k \in Nat : q.cursor = k * P
  BY Zenon DEF CursorOK
<1>3. l \in Nat /\ q.cursor \in Nat
  BY <1>1, PLemma
<1>4. c = (k + n) * P /\ k + n \in Nat
  BY <1>2, PLemma
<1> HIDE DEF l
<1>5. c \in Nat
  BY <1>3
<1>6. c <= map[q.idx].end
  BY DEF l
<1>7. q.cursor <= c
  BY <1>3
<1> HIDE DEF c
<1>8. r \in [reg : BOOLEAN, idx : Nat, cursor : Nat] /\ r.reg = q.reg /\ r.idx = q.idx /\ r.cursor = c
  BY Zenon, <1>1, <1>5
<1> HIDE DEF r
<1>9. MIN_USABLE_PADDR <= c /\ map[q.idx].start <= c
  <2>1. MIN_USABLE_PADDR \in Nat /\ map[q.idx].start \in Nat
    BY Zenon, <1>1, PageAssumption, MapLemma
  <2>2. \A x \in Nat : x <= q.cursor => x <= c
    BY <1>3, <1>5, <1>7
  <2> QED BY Zenon, <1>1, <2>1, <2>2
<1>10. CursorOK(map, r)
  BY Zenon, <1>1, <1>4, <1>6, <1>8, <1>9 DEF CursorOK
<1> QED BY Zenon, <1>8, <1>10 DEF r, c, l

-----------------------------------------------------------------------------
(* The search for a run of frames.                                         *)

\* the bitmap has whole bytes
BitmapOK == \E n \in Nat : bitmap \in [0..(n * BITS - 1) -> BOOLEAN]

\* The frames of the bitmap, and the byte of one of them.
LEMMA BitmapLemma ==
  ASSUME BitmapOK
  PROVE  /\ Nframes \in Nat /\ DOMAIN bitmap = 0..(Nframes - 1)
         /\ Free \subseteq DOMAIN bitmap
         /\ \A f \in DOMAIN bitmap : f \in Nat /\ (bitmap[f] <=> f \notin Free)
         /\ \A f \in DOMAIN bitmap :
              LET e == (f \div BITS) * BITS
              IN  e \in Nat /\ e <= f /\ f < e + BITS /\ e + BITS <= Nframes
<1>1. PICK n \in Nat : bitmap \in [0..(n * BITS - 1) -> BOOLEAN]
  BY Zenon DEF BitmapOK
<1> DEFINE c == BITS
           N == n * c
<1>2. c \in Nat /\ c \in Nat \ {0}
  BY PageAssumption
<1>3. N \in Nat /\ DOMAIN bitmap = 0..(N - 1)
  BY <1>1, <1>2
<1>4. Nframes = N
  <2> HIDE DEF N
  <2>1. Cardinality(0..(N - 1)) = IF 0 > N - 1 THEN 0 ELSE N - 1 - 0 + 1
    BY <1>3, FS_Interval
  <2> QED BY <1>3, <2>1 DEF Nframes
<1>5. Free \subseteq DOMAIN bitmap /\ \A f \in DOMAIN bitmap : bitmap[f] <=> f \notin Free
  BY Zenon DEF Free
<1>6. ASSUME NEW f \in DOMAIN bitmap
      PROVE  LET e == (f \div c) * c IN f \in Nat /\ e \in Nat /\ e <= f /\ f < e + c /\ e + c <= N
  <2> DEFINE q == f \div c
             e == q * c
  <2>1. f \in Nat /\ f < N
    <3> HIDE DEF N
    <3> QED BY <1>3
  <2>2. q \in Nat /\ e <= f /\ f < e + c
    BY Zenon, <1>2, <2>1, DivLemma
  <2> HIDE DEF q
  <2>3. e \in Nat
    BY <1>2, <2>2
  <2>4. q < n
    <3> SUFFICES ASSUME n <= q PROVE FALSE
      BY <2>2
    <3>1. N <= e
      BY <1>2, <2>2, MulOrder
    <3> HIDE DEF N, e
    <3> QED BY <1>3, <2>1, <2>2, <2>3, <3>1
  <2>5. e + c <= N
    BY <1>2, <2>2, <2>4, MulLemma
  <2> QED BY <2>1, <2>2, <2>3, <2>5 DEF q
<1> HIDE DEF N
<1> QED BY Zenon, <1>3, <1>4, <1>5, <1>6 DEF c

\* the first run of count free frames from f on
RunsFrom(f, count) == {x \in DOMAIN bitmap : f <= x /\ x..(x + count - 1) \subseteq Free}
FirstRun(f, count) == IF RunsFrom(f, count) = {} THEN Nframes ELSE Min(RunsFrom(f, count))

\* Frames at which no run starts may be skipped.
LEMMA SkipLemma ==
  ASSUME BitmapOK, NEW f \in Nat, NEW g \in Nat, f <= g, NEW count \in Nat,
         \A x \in f..(g - 1) : ~(x..(x + count - 1) \subseteq Free)
  PROVE  FirstRun(f, count) = FirstRun(g, count)
<1>1. \A x \in DOMAIN bitmap : x \in Nat
  BY Zenon, BitmapLemma
<1>2. ASSUME NEW x \in DOMAIN bitmap, x..(x + count - 1) \subseteq Free PROVE f <= x <=> g <= x
  <2>1. x \in Nat
    BY Zenon, <1>1
  <2>2. x \notin f..(g - 1)
    BY Zenon, <1>2
  <2> QED BY <2>1, <2>2
<1>3. RunsFrom(f, count) = RunsFrom(g, count)
  BY Zenon, <1>2 DEF RunsFrom
<1> QED BY Zenon, <1>3 DEF FirstRun

\* A frame of a full byte: the search goes on with the next byte.
LEMMA FullByteLemma ==
  ASSUME BitmapOK, NEW f \in DOMAIN bitmap, Full_byte(f), NEW count \in Nat \ {0}
  PROVE  LET e == (f \div BITS + 1) * BITS
         IN  e \in Nat /\ f < e /\ e <= Nframes /\ FirstRun(f, count) = FirstRun(e, count)
<1> DEFINE c == BITS
           q == f \div c
           b == q * c
           e == (q + 1) * c
<1>1. c \in Nat /\ c \in Nat \ {0}
  BY PageAssumption
<1>2. /\ b \in Nat /\ b <= f /\ f < b + c /\ b + c <= Nframes /\ f \in Nat /\ Nframes \in Nat
      /\ DOMAIN bitmap = 0..(Nframes - 1)
      /\ \A x \in DOMAIN bitmap : bitmap[x] <=> x \notin Free
  BY Zenon, BitmapLemma
<1>3. q \in Nat
  BY <1>1, <1>2, DivLemma
<1>4. \A i \in 0..(c - 1) : bitmap[b + i]
  BY Zenon DEF Full_byte
<1> HIDE DEF q
<1>5. e = b + c
  BY <1>1, <1>3
<1> HIDE DEF b, c, e
<1>6. ASSUME NEW x \in f..(e - 1) PROVE ~(x..(x + count - 1) \subseteq Free)
  <2>1. x - b \in 0..(c - 1) /\ b + (x - b) = x /\ x \in 0..(Nframes - 1)
    BY <1>1, <1>2, <1>5
  <2>2. x \notin Free
    BY Zenon, <1>2, <1>4, <2>1
  <2>3. x \in x..(x + count - 1)
    BY <2>1
  <2> QED BY Zenon, <2>2, <2>3
<1>7. e \in Nat /\ f < e /\ f <= e /\ e <= Nframes
  BY <1>1, <1>2, <1>5
<1>8. FirstRun(f, count) = FirstRun(e, count)
  BY Zenon, <1>2, <1>6, <1>7, SkipLemma
<1> QED BY Zenon, <1>7, <1>8 DEF e, q, c

\* check_for_contiguous_frames(): a run that is long enough, or one that ends
\* with a frame that is taken or is not there.
LEMMA RunLemma ==
  ASSUME NEW f \in Nat, NEW count \in Nat
  PROVE  LET r == Run(f, count)
         IN  /\ r \in 0..count /\ \A j \in 0..(r - 1) : f + j \in Free
             /\ r = count \/ f + r \notin Free
<1> DEFINE S == {k \in 0..count : \A j \in 0..(k - 1) : f + j \in Free}
           r == Max(S)
<1>1. S \in SUBSET Nat /\ \A k \in S : k <= count
  OBVIOUS
<1>2. 0 \in S
  OBVIOUS
<1>3. r \in S /\ \A k \in S : k <= r
  <2> HIDE DEF S
  <2> QED BY Zenon, <1>1, <1>2, MaxLemma
<1> HIDE DEF r
<1>4. r \in 0..count /\ \A j \in 0..(r - 1) : f + j \in Free
  BY Zenon, <1>3
<1>5. r = count \/ f + r \notin Free
  <2> SUFFICES ASSUME r # count, f + r \in Free PROVE FALSE
    BY Zenon
  <2>1. r + 1 \in 0..count
    BY <1>4
  <2>2. ASSUME NEW j \in 0..((r + 1) - 1) PROVE f + j \in Free
    <3>1. j = r \/ j \in 0..(r - 1)
      BY <1>4
    <3> QED BY Zenon, <1>4, <3>1
  <2>3. r + 1 \in S
    BY Zenon, <2>1, <2>2
  <2>4. ~(r + 1 <= r)
    BY <1>4
  <2> QED BY Zenon, <1>3, <2>3, <2>4
<1> QED BY Zenon, <1>4, <1>5 DEF Run, r

\* A run that is long enough is the first one.
LEMMA FoundLemma ==
  ASSUME BitmapOK, NEW f \in DOMAIN bitmap, NEW count \in Nat, Run(f, count) = count
  PROVE  FirstRun(f, count) = f
<1> DEFINE R == RunsFrom(f, count)
<1>1. f \in Nat /\ \A x \in R : x \in Nat /\ f <= x
  BY Zenon, BitmapLemma DEF RunsFrom
<1>2. \A j \in 0..(count - 1) : f + j \in Free
  BY Zenon, <1>1, RunLemma
<1>3. f..(f + count - 1) \subseteq Free
  <2> SUFFICES ASSUME NEW x \in f..(f + count - 1) PROVE x \in Free
    BY Zenon
  <2>1. x - f \in 0..(count - 1) /\ f + (x - f) = x
    BY <1>1
  <2> QED BY Zenon, <1>2, <2>1
<1>4. f \in R
  <2>1. f <= f
    BY <1>1
  <2> QED BY Zenon, <1>3, <2>1 DEF RunsFrom
<1> HIDE DEF R
<1>5. Min(R) \in R /\ \A y \in R : Min(R) <= y
  BY ZenonT(30), <1>1, <1>4, MinLemma
<1>6. Min(R) = f
  BY <1>1, <1>4, <1>5
<1> QED BY Zenon, <1>4, <1>6 DEF FirstRun, R

\* A run that is too short: the search goes on behind the frame that ends it.
LEMMA ShortLemma ==
  ASSUME BitmapOK, NEW f \in DOMAIN bitmap, NEW count \in Nat, Run(f, count) # count
  PROVE  LET e == f + Run(f, count) + 1
         IN  e \in Nat /\ f < e /\ e <= Nframes + 1 /\ FirstRun(f, count) = FirstRun(e, count)
<1> DEFINE r == Run(f, count)
           e == f + r + 1
<1>1. /\ f \in Nat /\ Nframes \in Nat /\ f < Nframes /\ Free \subseteq DOMAIN bitmap
      /\ DOMAIN bitmap = 0..(Nframes - 1)
  <2>1. Nframes \in Nat /\ Free \subseteq DOMAIN bitmap /\ DOMAIN bitmap = 0..(Nframes - 1)
    BY Zenon, BitmapLemma
  <2> QED BY <2>1
<1>2. r \in 0..count /\ f + r \notin Free /\ \A j \in 0..(r - 1) : f + j \in Free
  BY Zenon, <1>1, RunLemma
<1> HIDE DEF r
<1>3. r \in Nat /\ r < count
  BY <1>2 DEF r
<1>4. f + r <= Nframes
  <2>1. CASE r = 0
    BY <1>1, <2>1
  <2>2. CASE r # 0
    <3>1. r - 1 \in 0..(r - 1)
      BY <1>3, <2>2
    <3>2. f + (r - 1) \in 0..(Nframes - 1)
      BY Zenon, <1>1, <1>2, <3>1
    <3> QED BY <1>1, <1>3, <3>2
  <2> QED BY <2>1, <2>2
<1>5. ASSUME NEW x \in f..(e - 1) PROVE ~(x..(x + count - 1) \subseteq Free)
  <2>1. f + r \in x..(x + count - 1)
    BY <1>1, <1>3
  <2> QED BY Zenon, <1>2, <2>1
<1>6. e \in Nat /\ f < e /\ f <= e /\ e <= Nframes + 1
  BY <1>1, <1>3, <1>4
<1> HIDE DEF e
<1>7. FirstRun(f, count) = FirstRun(e, count)
  BY Zenon, <1>1, <1>5, <1>6, SkipLemma
<1> QED BY Zenon, <1>6, <1>7 DEF e, r

\* what the search does at f, if h[g] is where it ends from a later frame g on
ScanStep(h, f, count) ==
  IF f >= Nframes THEN Nframes
  ELSE IF Full_byte(f) THEN h[(f \div BITS + 1) * BITS]
  ELSE IF Run(f, count) = count THEN f
  ELSE h[f + Run(f, count) + 1]

Scans(h, count) == h = [f \in 0..(Nframes + BITS) |-> ScanStep(h, f, count)]

\* A step finds the first run if the later frames do.
LEMMA ScanStepLemma ==
  ASSUME BitmapOK, NEW count \in Nat \ {0}, NEW f \in 0..(Nframes + BITS), NEW h,
         \A g \in 0..(Nframes + BITS) : f < g => h[g] = FirstRun(g, count)
  PROVE  ScanStep(h, f, count) = FirstRun(f, count)
<1>1. Nframes \in Nat /\ DOMAIN bitmap = 0..(Nframes - 1)
  BY Zenon, BitmapLemma
<1>2. BITS \in Nat /\ BITS >= 1 /\ count \in Nat
  BY PageAssumption
<1>3. f \in Nat
  BY <1>1, <1>2
<1>4. \A e \in Nat : f < e /\ e <= Nframes + 1 => h[e] = FirstRun(e, count)
  <2>1. \A e \in Nat : e <= Nframes + 1 => e \in 0..(Nframes + BITS)
    BY <1>1, <1>2
  <2> QED BY Zenon, <2>1
<1>5. CASE f >= Nframes
  <2>1. RunsFrom(f, count) = {}
    <3>1. \A x \in DOMAIN bitmap : ~(f <= x)
      BY SMTT(30), <1>1, <1>3, <1>5
    <3> QED BY Zenon, <3>1 DEF RunsFrom
  <2> QED BY Zenon, <1>5, <2>1 DEF ScanStep, FirstRun
<1>6. CASE ~(f >= Nframes)
  <2>1. f \in DOMAIN bitmap
    BY <1>1, <1>3, <1>6
  <2>2. CASE Full_byte(f)
    <3> DEFINE e == (f \div BITS + 1) * BITS
    <3>1. e \in Nat /\ f < e /\ e <= Nframes /\ FirstRun(f, count) = FirstRun(e, count)
      BY Zenon, <2>1, <2>2, FullByteLemma
    <3>2. ScanStep(h, f, count) = h[e]
      BY Zenon, <1>6, <2>2 DEF ScanStep
    <3> HIDE DEF e
    <3>3. e <= Nframes + 1
      BY <1>1, <3>1
    <3> QED BY Zenon, <1>4, <3>1, <3>2, <3>3
  <2>3. CASE ~Full_byte(f) /\ Run(f, count) = count
    <3>1. ScanStep(h, f, count) = f
      BY Zenon, <1>6, <2>3 DEF ScanStep
    <3> QED BY ZenonT(30), <1>2, <2>1, <2>3, <3>1, FoundLemma
  <2>4. CASE ~Full_byte(f) /\ Run(f, count) # count
    <3> DEFINE e == f + Run(f, count) + 1
    <3>1. e \in Nat /\ f < e /\ e <= Nframes + 1 /\ FirstRun(f, count) = FirstRun(e, count)
      BY Zenon, <1>2, <2>1, <2>4, ShortLemma
    <3>2. ScanStep(h, f, count) = h[e]
      BY Zenon, <1>6, <2>4 DEF ScanStep
    <3> HIDE DEF e
    <3> QED BY Zenon, <1>4, <3>1, <3>2
  <2> QED BY Zenon, <2>2, <2>3, <2>4
<1> QED BY Zenon, <1>5, <1>6

\* The loop of pmm_alloc_contiguous_frames() finds the first run: the function
\* that finds it is a solution of the recursion, and two solutions agree, since
\* at the greatest frame at which they did not, they do.
LEMMA FindLemma ==
  ASSUME BitmapOK, NEW count \in Nat \ {0}
  PROVE  Find_contiguous(count) = FirstRun(0, count)
<1> DEFINE D == 0..(Nframes + BITS)
           h == CHOOSE g : Scans(g, count)
           s == [f \in D |-> FirstRun(f, count)]
<1>0. D \in SUBSET Nat /\ 0 \in D /\ Nframes + BITS \in Nat /\ \A f \in D : f <= Nframes + BITS
  <2>1. Nframes \in Nat
    BY Zenon, BitmapLemma
  <2> QED BY <2>1, PageAssumption
<1>1. Scans(s, count)
  <2>1. \A f \in D : s[f] = FirstRun(f, count)
    BY Zenon
  <2> HIDE DEF s
  <2>2. \A f \in D : ScanStep(s, f, count) = FirstRun(f, count)
    BY Zenon, <2>1, ScanStepLemma
  <2>3. [f \in D |-> FirstRun(f, count)] = [f \in D |-> ScanStep(s, f, count)]
    BY Zenon, <2>2
  <2> QED BY Zenon, <2>3 DEF Scans, s
<1>2. Scans(h, count)
  BY Zenon, <1>1
<1>3. Find_contiguous(count) = h[0]
  BY Zenon DEF Find_contiguous, Scans, ScanStep
<1> HIDE DEF h
<1>4. \A f \in D : h[f] = ScanStep(h, f, count)
  BY Zenon, <1>2 DEF Scans
<1> DEFINE W == {f \in D : h[f] # FirstRun(f, count)}
<1>5. W = {}
  <2> SUFFICES ASSUME W # {} PROVE FALSE
    BY Zenon
  <2> DEFINE w == Max(W)
  <2>1. w \in W /\ \A x \in W : x <= w
    <3>1. W \in SUBSET Nat /\ \A x \in W : x <= Nframes + BITS
      BY Zenon, <1>0
    <3> HIDE DEF W
    <3> QED BY Zenon, <1>0, <3>1, MaxLemma
  <2> HIDE DEF w
  <2>2. w \in D /\ h[w] # FirstRun(w, count)
    BY Zenon, <2>1
  <2>3. ASSUME NEW g \in D, w < g PROVE h[g] = FirstRun(g, count)
    <3>1. g \in Nat /\ w \in Nat
      BY Zenon, <1>0, <2>2
    <3>2. ~(g <= w)
      BY <2>3, <3>1
    <3> QED BY Zenon, <2>1, <3>2
  <2>4. ScanStep(h, w, count) = FirstRun(w, count)
    BY Zenon, <2>2, <2>3, ScanStepLemma
  <2> QED BY Zenon, <1>4, <2>2, <2>4
<1> QED BY Zenon, <1>0, <1>3, <1>5

\* Where it finds a run there is one.
LEMMA FoundRun ==
  ASSUME BitmapOK, NEW count \in Nat \ {0}, Find_contiguous(count) # Nframes
  PROVE  LET f == Find_contiguous(count) IN f \in Nat /\ f..(f + count - 1) \subseteq Free
<1> DEFINE R == RunsFrom(0, count)
           f == Find_contiguous(count)
<1>1. R # {} /\ f = Min(R)
  BY Zenon, FindLemma DEF FirstRun
<1>2. \A x \in R : x \in Nat /\ x..(x + count - 1) \subseteq Free
  BY Zenon, BitmapLemma DEF RunsFrom
<1> HIDE DEF R, f
<1>3. Min(R) \in R
  BY Zenon, <1>1, <1>2, MinLemma
<1> QED BY Zenon, <1>1, <1>2, <1>3 DEF f

\* The property, of every bitmap of whole bytes.
LEMMA FirstFitSays ==
  ASSUME mode = "pmm" => BitmapOK
  PROVE  ContiguousIsFirstFit
<1> SUFFICES ASSUME mode = "pmm", NEW n \in 2..MaxCount
             PROVE  LET runs == {f \in DOMAIN bitmap : f..(f + n - 1) \subseteq Free}
                    IN  Find_contiguous(n) = IF runs = {} THEN Nframes ELSE Min(runs)
  BY Zenon DEF ContiguousIsFirstFit
<1> DEFINE runs == {f \in DOMAIN bitmap : f..(f + n - 1) \subseteq Free}
<1>1. n \in Nat \ {0}
  BY PageAssumption
<1>2. \A f \in DOMAIN bitmap : 0 <= f
  <2>1. \A f \in DOMAIN bitmap : f \in Nat
    BY Zenon, BitmapLemma
  <2> QED BY <2>1
<1>3. RunsFrom(0, n) = runs
  BY Zenon, <1>2 DEF RunsFrom
<1> QED BY Zenon, <1>1, <1>3, FindLemma DEF FirstRun

-----------------------------------------------------------------------------
(* The invariant.                                                          *)

MapInv ==
  /\ e820 \in Maps
  /\ booted = "ok" => clean = Sanitize(Raw(e820))
  /\ booted # "ok" => clean = <<>>

Allocations == [first : Nat, count : Nat \ {0}]

\* every frame of an allocator is usable, and has one owner at most
FramesInv ==
  /\ owned \subseteq Allocations
  /\ \A f \in early \cup Free \cup OwnedFrames : UsableFrame(clean, f)
  /\ NoFrameTwice

\* what the bump allocator has given is before its cursor
EarlyInv == CursorOK(clean, pa) /\ \A f \in early : f * P + P <= pa.cursor

PInv ==
  /\ MapInv
  /\ mode = "map" => booted = "no" /\ early = {} /\ pa.reg = FALSE
  /\ mode \in {"early", "pmm"} => booted = "ok"
  /\ mode = "pmm" => BitmapOK
  /\ mode # "pmm" => bitmap = <<>> /\ owned = {}
  /\ mode = "early" => EarlyInv
  /\ FramesInv

\* The clean map is empty or what pmm_sanitize_memory_map() made of raw[].
LEMMA CleanLemma ==
  ASSUME MapInv
  PROVE  /\ OutOK(clean, MaxAddr)
         /\ booted = "ok" => \A a \in Nat : Right(TypesAt(Raw(e820), a), TypesAt(clean, a))
<1>1. InOK(Raw(e820))
  BY Zenon, RawLemma DEF MapInv
<1>2. OutOK(<<>>, MaxAddr)
  BY DEF OutOK
<1>3. CASE booted = "ok"
  BY Zenon, <1>1, <1>3, SanitizeLemma DEF MapInv
<1>4. CASE booted # "ok"
  BY Zenon, <1>2, <1>4 DEF MapInv
<1> QED BY Zenon, <1>3, <1>4

\* The property of the map follows.
LEMMA CleanSays ==
  ASSUME MapInv
  PROVE  CleanIsExact
<1> SUFFICES ASSUME booted = "ok"
             PROVE  /\ Canonical(clean)
                    /\ \A a \in 0..(MaxAddr - 1) : Right(TypesAt(Raw(e820), a), TypesAt(clean, a))
  BY Zenon DEF CleanIsExact, Right
<1>1. OutOK(clean, MaxAddr) /\ \A a \in Nat : Right(TypesAt(Raw(e820), a), TypesAt(clean, a))
  BY Zenon, CleanLemma
<1>2. ASSUME NEW i \in 1..(Len(clean) - 1)
      PROVE  \/ clean[i].end < clean[i + 1].start
             \/ clean[i].end = clean[i + 1].start /\ clean[i].type # clean[i + 1].type
  <2>1. i \in DOMAIN clean /\ i + 1 \in DOMAIN clean /\ i < i + 1
    <3>1. Len(clean) \in Nat /\ DOMAIN clean = 1..Len(clean)
      BY Zenon, <1>1, MapLemma
    <3> QED BY <3>1
  <2> DEFINE x == clean[i].end
             y == clean[i + 1].start
  <2>2. x \in Nat /\ y \in Nat /\ x <= y
    BY Zenon, <1>1, <2>1, MapLemma
  <2>3. x = y => clean[i].type # clean[i + 1].type
    BY Zenon, <1>1 DEF OutOK
  <2> HIDE DEF x, y
  <2>4. x < y \/ x = y
    BY <2>2
  <2> QED BY Zenon, <2>3, <2>4 DEF x, y
<1>3. Canonical(clean)
  BY Zenon, <1>1, <1>2 DEF Canonical, OutOK
<1>4. 0..(MaxAddr - 1) \subseteq Nat
  BY KernelAssumption
<1> QED BY Zenon, <1>1, <1>3, <1>4

\* And that of the frames: what the clean map calls usable the BIOS does.
LEMMA UsableSays ==
  ASSUME MapInv, FramesInv
  PROVE  OnlyUsableMemory
<1> SUFFICES ASSUME NEW f \in OwnedFrames \cup early \cup Free,
                    NEW x \in (f * PAGE_SIZE)..(f * PAGE_SIZE + PAGE_SIZE - 1)
             PROVE  x >= MIN_USABLE_PADDR /\ TypesAt(Raw(e820), x) = {"USABLE"}
  BY Zenon DEF OnlyUsableMemory
<1>1. UsableFrame(clean, f)
  BY Zenon DEF FramesInv
<1>2. OutOK(clean, MaxAddr)
  BY Zenon, CleanLemma
<1>3. x \in Nat /\ x >= MIN_USABLE_PADDR /\ TypesAt(clean, x) = {"USABLE"}
  BY Zenon, <1>1, <1>2, UsableBytes
<1>4. booted = "ok"
  <2> SUFFICES ASSUME booted # "ok" PROVE FALSE
    OBVIOUS
  <2>1. clean = <<>>
    BY Zenon DEF MapInv
  <2>2. \E i \in DOMAIN clean : TRUE
    BY Zenon, <1>1 DEF UsableFrame
  <2> QED BY <2>1, <2>2
<1>5. Right(TypesAt(Raw(e820), x), TypesAt(clean, x))
  BY Zenon, <1>3, <1>4, CleanLemma
<1>6. TypesAt(Raw(e820), x) = {"USABLE"}
  BY Zenon, <1>3, <1>5 DEF Right
<1> QED BY Zenon, <1>3, <1>6

\* The frames of an allocation are among those that are owned.
LEMMA OwnedLemma ==
  /\ \A a \in owned : Frames(a) \subseteq OwnedFrames
  /\ \A f \in OwnedFrames : \E a \in owned : f \in Frames(a)
BY Zenon DEF OwnedFrames

\* An allocation takes its frames from the free ones.
LEMMA GiveSets ==
  ASSUME NEW first \in Nat, NEW count \in Nat, Give(first, count)
  PROVE  LET run == first..(first + count - 1)
         IN  Free' = Free \ run /\ OwnedFrames' = OwnedFrames \cup run
<1> DEFINE run == first..(first + count - 1)
           new == [first |-> first, count |-> count]
<1>1. DOMAIN bitmap' = DOMAIN bitmap /\ \A f \in DOMAIN bitmap : bitmap'[f] <=> (bitmap[f] \/ f \in run)
  <2> HIDE DEF run
  <2>1. bitmap' = [f \in DOMAIN bitmap |-> bitmap[f] \/ f \in run]
    BY Zenon DEF Give, run
  <2> QED BY Zenon, <2>1
<1>2. Free' = Free \ run
  <2> HIDE DEF run
  <2> QED BY Zenon, <1>1 DEF Free
<1>3. owned' = owned \cup {new}
  BY Zenon DEF Give
<1>4. Frames(new) = run
  BY DEF Frames
<1> HIDE DEF new, run
<1>5. OwnedFrames' = UNION {Frames(a) : a \in owned'}
  BY Zenon DEF OwnedFrames
<1>6. OwnedFrames' = OwnedFrames \cup run
  BY Zenon, <1>3, <1>4, <1>5 DEF OwnedFrames
<1> QED BY Zenon, <1>2, <1>6 DEF run

\* So the invariant stands.
LEMMA GiveStep ==
  ASSUME PInv, mode = "pmm", NEW first \in Nat, NEW count \in Nat \ {0},
         first..(first + count - 1) \subseteq Free, Give(first, count)
  PROVE  PInv'
<1> DEFINE run == first..(first + count - 1)
           new == [first |-> first, count |-> count]
<1>1. Free' = Free \ run /\ OwnedFrames' = OwnedFrames \cup run /\ run \subseteq Free
  BY Zenon, GiveSets
<1>2. /\ owned' = owned \cup {new} /\ mode' = mode /\ early' = early /\ pa' = pa
      /\ e820' = e820 /\ clean' = clean /\ booted' = booted
  BY Zenon DEF Give, mapVars
<1>3. Frames(new) = run /\ new \in Allocations
  BY DEF Frames, Allocations
<1>4. DOMAIN bitmap' = DOMAIN bitmap /\ \A x \in Nat : bitmap \in [0..(x * BITS - 1) -> BOOLEAN] => bitmap' \in [0..(x * BITS - 1) -> BOOLEAN]
  <2> HIDE DEF run
  <2>1. bitmap' = [f \in DOMAIN bitmap |-> bitmap[f] \/ f \in run]
    BY Zenon DEF Give, run
  <2>2. \A S : bitmap \in [S -> BOOLEAN] => bitmap' \in [S -> BOOLEAN]
    BY Zenon, <2>1
  <2> QED BY Zenon, <2>1, <2>2
<1> HIDE DEF new, run
<1>5. BitmapOK'
  BY Zenon, <1>4 DEF PInv, BitmapOK
<1>6. /\ \A a, b \in owned : a # b => Frames(a) \cap Frames(b) = {}
      /\ OwnedFrames \cap early = {} /\ OwnedFrames \subseteq DOMAIN bitmap \ Free /\ early \cap Free = {}
      /\ Free \subseteq DOMAIN bitmap
  BY Zenon DEF PInv, FramesInv, NoFrameTwice, Free
<1>7. \A a, b \in owned' : a # b => Frames(a) \cap Frames(b) = {}
  <2>1. \A a \in owned : Frames(a) \cap run = {}
    BY Zenon, <1>1, <1>6, OwnedLemma
  <2> QED BY ZenonT(30), <1>2, <1>3, <1>6, <2>1
<1>8. OwnedFrames' \cap early' = {} /\ OwnedFrames' \subseteq DOMAIN bitmap' \ Free' /\ early' \cap Free' = {}
  <2>1. DOMAIN bitmap' = DOMAIN bitmap
    BY Zenon, <1>4
  <2> QED BY ZenonT(30), <1>1, <1>2, <1>6, <2>1
<1>9. NoFrameTwice'
  BY Zenon, <1>7, <1>8 DEF NoFrameTwice
<1>10. owned' \subseteq Allocations
  BY Zenon, <1>2, <1>3 DEF PInv, FramesInv
<1>11. \A f \in early' \cup Free' \cup OwnedFrames' : UsableFrame(clean', f)
  BY Zenon, <1>1, <1>2 DEF PInv, FramesInv
<1>12. FramesInv'
  BY Zenon, <1>9, <1>10, <1>11 DEF FramesInv
<1>13. MapInv'
  BY Zenon, <1>2 DEF PInv, MapInv
<1>14. mode' = "pmm" /\ booted' = "ok"
  BY Zenon, <1>2 DEF PInv
<1> QED BY <1>5, <1>12, <1>13, <1>14 DEF PInv

\* What is freed is free, and no longer owned.
LEMMA FreeSets ==
  ASSUME FramesInv, NEW a \in owned, owned' = owned \ {a}
  PROVE  OwnedFrames' = OwnedFrames \ Frames(a)
<1>1. \A b \in owned : b # a => Frames(b) \cap Frames(a) = {}
  BY Zenon DEF FramesInv, NoFrameTwice
<1>2. OwnedFrames' = UNION {Frames(b) : b \in owned'}
  BY Zenon DEF OwnedFrames
<1>3. ASSUME NEW f PROVE f \in OwnedFrames' <=> f \in OwnedFrames \ Frames(a)
  <2>1. f \in OwnedFrames' <=> \E b \in owned : b # a /\ f \in Frames(b)
    BY Zenon, <1>2
  <2>2. f \in OwnedFrames <=> \E b \in owned : f \in Frames(b)
    BY Zenon DEF OwnedFrames
  <2> QED BY Zenon, <1>1, <2>1, <2>2
<1> QED BY Zenon, <1>3

\* The invariant stands when the frames of an allocation are freed.
LEMMA FreeStep ==
  ASSUME PInv, mode = "pmm", mode' = "pmm", NEW a \in owned, owned' = owned \ {a},
         DOMAIN bitmap' = DOMAIN bitmap, BitmapOK', Free' = Free \cup Frames(a),
         UNCHANGED <<mapVars, pa, early>>
  PROVE  PInv'
<1>1. early' = early /\ pa' = pa /\ e820' = e820 /\ clean' = clean /\ booted' = booted
  BY Zenon DEF mapVars
<1>2. OwnedFrames' = OwnedFrames \ Frames(a) /\ Frames(a) \subseteq OwnedFrames
  BY Zenon, FreeSets, OwnedLemma DEF PInv
<1>3. /\ \A x, b \in owned : x # b => Frames(x) \cap Frames(b) = {}
      /\ OwnedFrames \cap early = {} /\ OwnedFrames \subseteq DOMAIN bitmap \ Free /\ early \cap Free = {}
  BY Zenon DEF PInv, FramesInv, NoFrameTwice
<1>4. NoFrameTwice'
  <2>1. \A x, b \in owned' : x # b => Frames(x) \cap Frames(b) = {}
    BY Zenon, <1>3
  <2>2. OwnedFrames' \cap early' = {} /\ OwnedFrames' \subseteq DOMAIN bitmap' \ Free' /\ early' \cap Free' = {}
    BY Zenon, <1>1, <1>2, <1>3
  <2> QED BY Zenon, <2>1, <2>2 DEF NoFrameTwice
<1>5. \A f \in early' \cup Free' \cup OwnedFrames' : UsableFrame(clean', f)
  BY Zenon, <1>1, <1>2 DEF PInv, FramesInv
<1>6. owned' \subseteq Allocations
  BY Zenon DEF PInv, FramesInv
<1>7. FramesInv'
  BY Zenon, <1>4, <1>5, <1>6 DEF FramesInv
<1>8. MapInv' /\ booted' = "ok"
  BY Zenon, <1>1 DEF PInv, MapInv
<1> QED BY <1>7, <1>8 DEF PInv

\* pmm_free_contiguous_frames() clears the bits of the allocation.
LEMMA FreeContiguous ==
  ASSUME PInv, NEW a \in owned, Pmm_free_contiguous_frames(a)
  PROVE  PInv' /\ Free' = Free \cup Frames(a)
<1>1. /\ mode = "pmm" /\ mode' = "pmm" /\ owned' = owned \ {a} /\ UNCHANGED <<mapVars, pa, early>>
      /\ bitmap' = [f \in DOMAIN bitmap |-> bitmap[f] /\ f \notin Frames(a)]
  BY Zenon DEF Pmm_free_contiguous_frames
<1>2. DOMAIN bitmap' = DOMAIN bitmap /\ \A f \in DOMAIN bitmap : bitmap'[f] <=> (bitmap[f] /\ f \notin Frames(a))
  BY Zenon, <1>1
<1>3. Frames(a) \subseteq DOMAIN bitmap
  BY Zenon, OwnedLemma DEF PInv, FramesInv, NoFrameTwice
<1>4. Free' = Free \cup Frames(a)
  BY Zenon, <1>2, <1>3 DEF Free
<1>5. BitmapOK'
  <2>1. \A S : bitmap \in [S -> BOOLEAN] => bitmap' \in [S -> BOOLEAN]
    BY Zenon, <1>1
  <2> QED BY Zenon, <1>1, <2>1 DEF PInv, BitmapOK
<1> QED BY SMTT(30), <1>1, <1>2, <1>4, <1>5, FreeStep

\* pmm_free_frame() does the same for one frame, and never panics: what is
\* owned has its bit set.
LEMMA FreeOne ==
  ASSUME PInv, NEW a \in owned, Pmm_free_frame(a)
  PROVE  PInv' /\ Free' = Free \cup Frames(a) /\ owned' = owned \ {a}
<1>1. a \in Allocations /\ a.count = 1 /\ mode = "pmm"
  BY Zenon DEF Pmm_free_frame, PInv, FramesInv
<1>2. Frames(a) = {a.first}
  BY <1>1 DEF Frames, Allocations
<1>3. a.first \in DOMAIN bitmap /\ bitmap[a.first]
  <2>1. a.first \in DOMAIN bitmap \ Free
    BY Zenon, <1>2, OwnedLemma DEF PInv, FramesInv, NoFrameTwice
  <2> QED BY Zenon, <2>1 DEF Free
<1>4. /\ mode' = "pmm" /\ owned' = owned \ {a} /\ UNCHANGED <<mapVars, pa, early>>
      /\ bitmap' = [bitmap EXCEPT ![a.first] = FALSE]
  BY Zenon, <1>1, <1>3 DEF Pmm_free_frame
<1>5. DOMAIN bitmap' = DOMAIN bitmap
  BY Zenon, <1>4
<1>6. \A f \in DOMAIN bitmap : bitmap'[f] <=> (bitmap[f] /\ f # a.first)
  BY Zenon, <1>3, <1>4
<1>7. Free' = Free \cup Frames(a)
  BY ZenonT(30), <1>2, <1>3, <1>5, <1>6 DEF Free
<1>8. BitmapOK'
  <2>1. \A S : bitmap \in [S -> BOOLEAN] => bitmap' \in [S -> BOOLEAN]
    BY Zenon, <1>4
  <2> QED BY Zenon, <1>1, <2>1 DEF PInv, BitmapOK
<1> QED BY SMTT(30), <1>1, <1>4, <1>5, <1>7, <1>8, FreeStep

\* The bump allocator gives n pages.
LEMMA SeekStep ==
  ASSUME PInv, mode = "early", NEW n \in Nat, Pa_seek(pa, n * P).reg
  PROVE  LET q == Pa_seek(pa, n * P)
             c == q.cursor + n * P
         IN  /\ c \in Nat /\ CursorOK(clean, [q EXCEPT !.cursor = c]) /\ [q EXCEPT !.cursor = c].cursor = c
             /\ \A f \in early \cup Pages(q.cursor, n) : UsableFrame(clean, f) /\ f * P + P <= c
<1> DEFINE q == Pa_seek(pa, n * P)
           l == n * P
           c == q.cursor + l
<1>1. OutOK(clean, MaxAddr)
  BY Zenon, CleanLemma DEF PInv
<1>2. CursorOK(clean, pa) /\ \A f \in early : f * P + P <= pa.cursor
  BY Zenon DEF PInv, EarlyInv
<1>3. l \in Nat
  BY PLemma
<1>4. CursorOK(clean, q) /\ pa.cursor <= q.cursor /\ q.cursor + l <= clean[q.idx].end
  <2> HIDE DEF l
  <2>1. Pa_seek(pa, l).reg /\ q = Pa_seek(pa, l)
    BY Zenon DEF l
  <2> QED BY ZenonT(30), <1>1, <1>2, <1>3, <2>1, PaSeek
<1>5. q.cursor \in Nat /\ pa.cursor \in Nat
  BY <1>2, <1>4 DEF CursorOK
<1> HIDE DEF q
<1>6. CursorOK(clean, [q EXCEPT !.cursor = c]) /\ [q EXCEPT !.cursor = c].cursor = c
  BY Zenon, <1>1, <1>4, CursorMoves
<1>7. \A f \in Pages(q.cursor, n) : UsableFrame(clean, f) /\ f * P + P <= c
  BY Zenon, <1>1, <1>4, PagesLemma
<1>8. ASSUME NEW f \in early PROVE UsableFrame(clean, f) /\ f * P + P <= c
  <2>1. UsableFrame(clean, f)
    BY Zenon DEF PInv, FramesInv
  <2> DEFINE b == f * P
  <2>2. b \in Nat /\ b + P <= pa.cursor
    BY <1>2, <2>1, PLemma DEF UsableFrame
  <2> HIDE DEF b, l
  <2>3. b + P <= c
    BY SMTT(30), <1>3, <1>4, <1>5, <2>2, PLemma
  <2> QED BY <2>1, <2>3 DEF b
<1>9. c \in Nat
  BY <1>3, <1>5
<1> QED BY Zenon, <1>6, <1>7, <1>8, <1>9 DEF q, c, l

\* Before there is a bitmap no frame is free or owned.
LEMMA NoFrames ==
  /\ bitmap = <<>> /\ owned = {} => Free = {} /\ OwnedFrames = {}
  /\ bitmap' = <<>> /\ owned' = {} => Free' = {} /\ OwnedFrames' = {}
<1>1. ASSUME bitmap = <<>>, owned = {} PROVE Free = {} /\ OwnedFrames = {}
  BY <1>1 DEF Free, OwnedFrames
<1>2. ASSUME bitmap' = <<>>, owned' = {} PROVE Free' = {} /\ OwnedFrames' = {}
  BY <1>2 DEF Free, OwnedFrames
<1> QED BY <1>1, <1>2

\* early_pmm_init()
LEMMA EarlyInitStep ==
  ASSUME PInv, Early_pmm_init
  PROVE  PInv'
<1>1. /\ e820 \in Maps /\ booted = "no" /\ clean = <<>> /\ early = {} /\ pa.reg = FALSE
      /\ bitmap = <<>> /\ owned = {} /\ mode = "map"
  BY DEF PInv, MapInv, Early_pmm_init
<1>2. bitmap' = <<>> /\ owned' = {} /\ early' = {} /\ e820' = e820
  BY Zenon, <1>1 DEF Early_pmm_init, Build_map
<1>3. MapInv'
  <2>1. \/ booted' = "overrun" /\ clean' = clean
        \/ booted' = "panic" /\ clean' = clean
        \/ booted' = "ok" /\ clean' = Sanitize(Raw(e820))
    BY Zenon DEF Early_pmm_init, Build_map
  <2> QED BY <1>1, <1>2, <2>1 DEF MapInv
<1>4. pa' = (IF booted' = "ok" THEN Pa_init(clean') ELSE pa) /\ mode' = (IF pa'.reg THEN "early" ELSE "panic")
  BY Zenon DEF Early_pmm_init
<1>5. mode' = "early" => booted' = "ok" /\ CursorOK(clean', pa')
  <2> SUFFICES ASSUME mode' = "early" PROVE booted' = "ok" /\ CursorOK(clean', pa')
    OBVIOUS
  <2>1. pa'.reg
    BY <1>4
  <2>2. booted' = "ok"
    BY <1>1, <1>4, <2>1
  <2>3. pa' = Pa_init(clean')
    BY Zenon, <1>4, <2>2
  <2>4. OutOK(clean', MaxAddr)
    <3>1. clean' = Sanitize(Raw(e820))
      BY ZenonT(30), <1>2, <1>3, <2>2 DEF MapInv
    <3>2. InOK(Raw(e820))
      BY Zenon, <1>1, RawLemma
    <3> QED BY Zenon, <3>1, <3>2, SanitizeLemma
  <2>5. CursorOK(clean', pa')
    BY ZenonT(30), <2>1, <2>3, <2>4, PaInit
  <2> QED BY Zenon, <2>2, <2>5
<1>6. mode' = "early" \/ mode' = "panic"
  BY Zenon, <1>4
<1>7. FramesInv'
  <2>1. Free' = {} /\ OwnedFrames' = {}
    BY Zenon, <1>2, NoFrames
  <2> QED BY <1>2, <2>1 DEF FramesInv, NoFrameTwice
<1>8. mode' = "early" => EarlyInv'
  BY Zenon, <1>2, <1>5 DEF EarlyInv
<1> QED BY SMTT(30), <1>2, <1>3, <1>5, <1>6, <1>7, <1>8 DEF PInv

\* early_pmm_alloc_frame()
LEMMA EarlyAllocStep ==
  ASSUME PInv, Early_pmm_alloc_frame
  PROVE  PInv'
<1> DEFINE p == Pa_seek(pa, PAGE_SIZE)
<1>1. /\ mode = "early" /\ UNCHANGED <<mapVars, bitmap, owned>>
      /\ pa' = (IF p.reg THEN [p EXCEPT !.cursor = @ + PAGE_SIZE] ELSE p)
      /\ early' = (IF p.reg THEN early \cup Pages(p.cursor, 1) ELSE early)
      /\ mode' = (IF p.reg THEN "early" ELSE "panic")
  BY Zenon DEF Early_pmm_alloc_frame
<1>2. /\ e820' = e820 /\ clean' = clean /\ booted' = booted /\ bitmap' = bitmap /\ owned' = owned
      /\ bitmap = <<>> /\ owned = {} /\ booted = "ok"
  BY <1>1 DEF mapVars, PInv
<1>3. Free' = {} /\ OwnedFrames' = {}
  BY Zenon, <1>2, NoFrames
<1>4. MapInv'
  BY Zenon, <1>2 DEF PInv, MapInv
<1>5. (\A f \in early' : UsableFrame(clean', f)) => FramesInv'
  BY <1>2, <1>3 DEF FramesInv, NoFrameTwice
<1>6. CASE p.reg
  <2> DEFINE c == p.cursor + 1 * P
             q == [p EXCEPT !.cursor = c]
  <2>1. 1 * P = PAGE_SIZE
    BY PLemma DEF P
  <2>2. /\ CursorOK(clean, q) /\ q.cursor = c
        /\ \A f \in early \cup Pages(p.cursor, 1) : UsableFrame(clean, f) /\ f * P + P <= c
    <3>1. Pa_seek(pa, 1 * P) = p /\ Pa_seek(pa, 1 * P).reg
      BY Zenon, <1>6, <2>1
    <3>2. 1 \in Nat
      OBVIOUS
    <3> QED BY ZenonT(30), <1>1, <3>1, <3>2, SeekStep
  <2>3. pa' = q /\ early' = early \cup Pages(p.cursor, 1) /\ mode' = "early"
    BY ZenonT(30), <1>1, <1>6, <2>1
  <2>4. EarlyInv'
    BY ZenonT(30), <1>2, <2>2, <2>3 DEF EarlyInv
  <2>5. FramesInv'
    BY ZenonT(30), <1>2, <1>5, <2>2, <2>3
  <2> QED BY SMTT(30), <1>2, <1>4, <2>3, <2>4, <2>5 DEF PInv
<1>7. CASE ~p.reg
  <2>1. early' = early /\ mode' = "panic"
    BY Zenon, <1>1, <1>7
  <2>2. FramesInv'
    BY ZenonT(30), <1>2, <1>5, <2>1 DEF PInv, FramesInv
  <2> QED BY SMTT(30), <1>2, <1>4, <2>1, <2>2 DEF PInv
<1> QED BY Zenon, <1>6, <1>7

\* pmm_init(): what it clears is behind the bitmap, which is the last thing
\* that the bump allocator gives.
LEMMA PmmInitStep ==
  ASSUME PInv, Pmm_init
  PROVE  PInv'
<1> DEFINE frame_count == PAGE_ALIGN_UP(Max_usable) \div PAGE_SIZE
           size == (frame_count + BITS - 1) \div BITS
           pages == PAGE_ALIGN_UP(size) \div PAGE_SIZE
           p == Pa_seek(pa, pages * PAGE_SIZE)
           c == p.cursor + pages * PAGE_SIZE
           free == UNION {Region_frames(clean, i, c) : i \in DOMAIN clean}
<1>1. /\ mode = "early" /\ UNCHANGED <<mapVars, owned>>
      /\ IF p.reg
         THEN /\ mode' = "pmm" /\ pa' = [p EXCEPT !.cursor = c] /\ early' = early \cup Pages(p.cursor, pages)
              /\ bitmap' = [f \in 0..(size * BITS - 1) |-> f \notin free]
         ELSE /\ mode' = "panic" /\ pa' = p /\ UNCHANGED <<early, bitmap>>
  BY Zenon DEF Pmm_init
<1>2. /\ e820' = e820 /\ clean' = clean /\ booted' = booted /\ owned' = owned
      /\ bitmap = <<>> /\ owned = {} /\ booted = "ok"
  BY <1>1 DEF mapVars, PInv
<1>3. MapInv'
  BY Zenon, <1>2 DEF PInv, MapInv
<1>4. OutOK(clean, MaxAddr) /\ CursorOK(clean, pa)
  BY Zenon, <1>1, CleanLemma DEF PInv, EarlyInv
<1>5. Max_usable \in Nat
  <2> DEFINE U == {i \in DOMAIN clean : clean[i].type = "USABLE"}
  <2>1. U # {}
    BY Zenon, <1>4 DEF CursorOK
  <2>2. U \in SUBSET Nat /\ Len(clean) \in Nat /\ \A i \in U : i <= Len(clean)
    <3>1. Len(clean) \in Nat /\ DOMAIN clean = 1..Len(clean)
      BY Zenon, <1>4, MapLemma
    <3> QED BY <3>1
  <2>3. Max(U) \in U
    <3> HIDE DEF U
    <3> QED BY ZenonT(30), <2>1, <2>2, MaxLemma
  <2> QED BY ZenonT(30), <1>4, <2>3, MapLemma DEF Max_usable
<1>6. frame_count \in Nat
  BY Zenon, <1>5, AlignUp
<1>7. size \in Nat
  <2> HIDE DEF frame_count
  <2>1. frame_count + BITS - 1 \in Nat /\ BITS \in Nat \ {0}
    BY <1>6, PageAssumption
  <2> QED BY Zenon, <2>1, DivLemma
<1>8. pages \in Nat
  <2> HIDE DEF size
  <2> QED BY Zenon, <1>7, AlignUp
<1> HIDE DEF frame_count, size, pages
<1>9. CASE p.reg
  <2>1. /\ c \in Nat
        /\ \A f \in early \cup Pages(p.cursor, pages) : UsableFrame(clean, f) /\ f * P + P <= c
    BY ZenonT(30), <1>1, <1>8, <1>9, SeekStep DEF P
  <2>2. /\ mode' = "pmm" /\ early' = early \cup Pages(p.cursor, pages)
        /\ bitmap' = [f \in 0..(size * BITS - 1) |-> f \notin free]
    BY Zenon, <1>1, <1>9
  <2> HIDE DEF p, c
  <2>3. \A f \in free : UsableFrame(clean, f) /\ c <= f * P
    BY ZenonT(30), <1>4, <2>1, RegionFrames
  <2> HIDE DEF free
  <2>4. \A f \in Free' : f \in free
    <3>1. \A f \in DOMAIN bitmap' : bitmap'[f] <=> f \notin free
      BY Zenon, <2>2
    <3> QED BY Zenon, <3>1 DEF Free
  <2>5. BitmapOK'
    <3>1. bitmap' \in [0..(size * BITS - 1) -> BOOLEAN]
      BY Zenon, <2>2
    <3> QED BY Zenon, <1>7, <3>1 DEF BitmapOK
  <2>6. OwnedFrames' = {} /\ owned' = {}
    BY <1>2 DEF OwnedFrames
  <2>7. early' \cap Free' = {}
    <3> SUFFICES ASSUME NEW f, f \in early', f \in Free' PROVE FALSE
      BY Zenon
    <3> DEFINE b == f * P
    <3>1. f \in Nat /\ b + P <= c /\ c <= b
      BY ZenonT(30), <2>1, <2>2, <2>3, <2>4 DEF UsableFrame
    <3>2. b \in Nat
      BY <3>1, PLemma
    <3> HIDE DEF b
    <3> QED BY SMTT(30), <2>1, <3>1, <3>2, PLemma
  <2>8. NoFrameTwice'
    BY <2>6, <2>7 DEF NoFrameTwice
  <2>9. FramesInv'
    <3>1. \A f \in early' \cup Free' \cup OwnedFrames' : UsableFrame(clean', f)
      BY ZenonT(30), <1>2, <2>1, <2>2, <2>3, <2>4, <2>6
    <3>2. owned' \subseteq Allocations
      BY <2>6
    <3> QED BY ZenonT(30), <2>8, <3>1, <3>2 DEF FramesInv
  <2> QED BY SMTT(30), <1>2, <1>3, <2>2, <2>5, <2>9 DEF PInv
<1>10. CASE ~p.reg
  <2>1. early' = early /\ mode' = "panic" /\ bitmap' = bitmap
    BY Zenon, <1>1, <1>10
  <2>2. Free' = {} /\ OwnedFrames' = {}
    BY ZenonT(30), <1>2, <2>1, NoFrames
  <2>3. FramesInv'
    <3>1. \A f \in early' : UsableFrame(clean', f)
      BY Zenon, <1>2, <2>1 DEF PInv, FramesInv
    <3> QED BY <1>2, <2>2, <3>1 DEF FramesInv, NoFrameTwice
  <2> QED BY SMTT(30), <1>2, <1>3, <2>1, <2>3 DEF PInv
<1> QED BY Zenon, <1>9, <1>10

\* pmm_alloc_frame() and pmm_alloc_contiguous_frames() give free frames.
LEMMA AllocGives ==
  ASSUME PInv, \/ Pmm_alloc_frame
               \/ \E n \in 2..MaxCount : Pmm_alloc_contiguous_frames(n)
  PROVE  \/ UNCHANGED vars
         \/ \E first \in Nat, count \in Nat \ {0} :
              first..(first + count - 1) \subseteq Free /\ Give(first, count)
<1>1. ASSUME Pmm_alloc_frame, ~UNCHANGED vars
      PROVE  \E first \in Nat, count \in Nat \ {0} :
               first..(first + count - 1) \subseteq Free /\ Give(first, count)
  <2>1. mode = "pmm" /\ Free # {} /\ Give(Min(Free), 1)
    BY Zenon, <1>1 DEF Pmm_alloc_frame
  <2>2. Free \in SUBSET Nat
    BY Zenon, <2>1, BitmapLemma DEF PInv
  <2>3. Min(Free) \in Free /\ Min(Free) \in Nat
    BY Zenon, <2>1, <2>2, MinLemma
  <2> DEFINE m == Min(Free)
  <2>4. m..(m + 1 - 1) = {m}
    <3> HIDE DEF m
    <3>1. m \in Nat
      BY <2>3 DEF m
    <3> QED BY <3>1
  <2>5. 1 \in Nat \ {0}
    OBVIOUS
  <2>6. m..(m + 1 - 1) \subseteq Free
    BY Zenon, <2>3, <2>4
  <2> QED BY Zenon, <2>1, <2>3, <2>5, <2>6
<1>2. ASSUME NEW n \in 2..MaxCount, Pmm_alloc_contiguous_frames(n), ~UNCHANGED vars
      PROVE  \E first \in Nat, count \in Nat \ {0} :
               first..(first + count - 1) \subseteq Free /\ Give(first, count)
  <2> DEFINE f == Find_contiguous(n)
  <2>1. mode = "pmm" /\ f # Nframes /\ Give(f, n)
    BY Zenon, <1>2 DEF Pmm_alloc_contiguous_frames
  <2>2. n \in Nat \ {0}
    BY PageAssumption
  <2>3. f \in Nat /\ f..(f + n - 1) \subseteq Free
    BY Zenon, <2>1, <2>2, FoundRun DEF PInv
  <2> QED BY Zenon, <2>1, <2>2, <2>3
<1> QED BY Zenon, <1>1, <1>2

\* Every step keeps the invariant.
LEMMA NextPInv ==
  ASSUME PInv, [Next]_vars
  PROVE  PInv'
<1>1. CASE UNCHANGED vars
  BY <1>1 DEF vars, mapVars, memVars, PInv, MapInv, BitmapOK, EarlyInv, FramesInv, NoFrameTwice, OwnedFrames, Free
<1>2. CASE Early_pmm_init
  BY Zenon, <1>2, EarlyInitStep
<1>3. CASE Early_pmm_alloc_frame
  BY ZenonT(30), <1>3, EarlyAllocStep
<1>4. CASE Pmm_init
  BY Zenon, <1>4, PmmInitStep
<1>5. CASE Pmm_alloc_frame \/ \E n \in 2..MaxCount : Pmm_alloc_contiguous_frames(n)
  <2>1. mode = "pmm"
    BY Zenon, <1>5 DEF Pmm_alloc_frame, Pmm_alloc_contiguous_frames
  <2>2. ASSUME NEW first \in Nat, NEW count \in Nat \ {0},
               first..(first + count - 1) \subseteq Free, Give(first, count)
        PROVE  PInv'
    BY Zenon, <2>1, <2>2, GiveStep
  <2> QED BY ZenonT(30), <1>1, <1>5, <2>2, AllocGives
<1>6. CASE \E a \in owned : Pmm_free_contiguous_frames(a)
  BY Zenon, <1>6, FreeContiguous
<1>7. CASE \E a \in owned : Pmm_free_frame(a)
  BY Zenon, <1>7, FreeOne
<1>8. CASE Halted
  BY Zenon, <1>1, <1>8 DEF Halted
<1> QED BY ZenonT(30), <1>1, <1>2, <1>3, <1>4, <1>5, <1>6, <1>7, <1>8 DEF Next

\* It holds before the map is built.
LEMMA InitPInv ==
  ASSUME Init
  PROVE  PInv
<1>1. /\ e820 \in Maps /\ clean = <<>> /\ booted = "no" /\ mode = "map"
      /\ pa = [reg |-> FALSE, idx |-> 0, cursor |-> 0] /\ bitmap = <<>> /\ early = {} /\ owned = {}
  BY Zenon DEF Init, MapInit
<1>2. Free = {} /\ OwnedFrames = {}
  BY Zenon, <1>1, NoFrames
<1>3. FramesInv
  BY <1>1, <1>2 DEF FramesInv, NoFrameTwice
<1>4. pa.reg = FALSE
  BY <1>1
<1>5. MapInv
  BY <1>1 DEF MapInv
<1> QED BY <1>1, <1>3, <1>4, <1>5 DEF PInv

\* Both allocators keep the invariant, from early_pmm_init() on.
THEOREM PhysMemInductive == Spec => []PInv
<1>1. Init => PInv
  BY InitPInv
<1>2. PInv /\ [Next]_vars => PInv'
  BY NextPInv
<1> QED BY <1>1, <1>2, PTL DEF Spec

\* pmm_sanitize_memory_map(): the map is in order and says of every address
\* what the BIOS and the linker said of it.
THEOREM CleanCorrect == Spec => []CleanIsExact
<1>1. PInv => CleanIsExact
  BY Zenon, CleanSays DEF PInv
<1> QED BY <1>1, PhysMemInductive, PTL

\* No frame that early_pmm_alloc_frame(), pmm_init(), pmm_alloc_frame() or
\* pmm_alloc_contiguous_frames() hands out has another owner.
THEOREM NoFrameTwiceCorrect == Spec => []NoFrameTwice
<1>1. PInv => NoFrameTwice
  BY Zenon DEF PInv, FramesInv
<1> QED BY <1>1, PhysMemInductive, PTL

\* Every byte that either allocator hands out is memory the BIOS calls usable.
THEOREM OnlyUsableCorrect == Spec => []OnlyUsableMemory
<1>1. PInv => OnlyUsableMemory
  BY ZenonT(30), UsableSays DEF PInv
<1> QED BY <1>1, PhysMemInductive, PTL

\* pmm_alloc_contiguous_frames() finds the lowest run of free frames.
THEOREM FirstFitCorrect == Spec => []ContiguousIsFirstFit
<1>1. PInv => ContiguousIsFirstFit
  BY Zenon, FirstFitSays DEF PInv
<1> QED BY <1>1, PhysMemInductive, PTL

\* pmm_alloc_frame(), pmm_alloc_contiguous_frames() and the functions that
\* free neither lose a frame nor make one.
THEOREM ConservedCorrect == Spec => FramesConserved
<1> DEFINE A == mode = "pmm" /\ mode' = "pmm" => (Free \cup OwnedFrames)' = Free \cup OwnedFrames
<1>1. PInv /\ [Next]_vars => [A]_vars
  <2> SUFFICES ASSUME PInv, Next, mode = "pmm", mode' = "pmm", ~UNCHANGED vars
               PROVE  Free' \cup OwnedFrames' = Free \cup OwnedFrames
    BY Zenon
  <2>1. ASSUME NEW first \in Nat, NEW count \in Nat \ {0},
               first..(first + count - 1) \subseteq Free, Give(first, count)
        PROVE  Free' \cup OwnedFrames' = Free \cup OwnedFrames
    <3> DEFINE run == first..(first + count - 1)
    <3>1. count \in Nat
      OBVIOUS
    <3>2. Free' = Free \ run /\ OwnedFrames' = OwnedFrames \cup run /\ run \subseteq Free
      BY ZenonT(30), <2>1, <3>1, GiveSets
    <3> HIDE DEF run
    <3> QED BY Zenon, <3>2
  <2>2. ASSUME NEW a \in owned, Free' = Free \cup Frames(a), owned' = owned \ {a}
        PROVE  Free' \cup OwnedFrames' = Free \cup OwnedFrames
    <3>1. OwnedFrames' = OwnedFrames \ Frames(a) /\ Frames(a) \subseteq OwnedFrames
      BY Zenon, <2>2, FreeSets, OwnedLemma DEF PInv
    <3> QED BY Zenon, <2>2, <3>1
  <2>3. CASE Pmm_alloc_frame \/ \E n \in 2..MaxCount : Pmm_alloc_contiguous_frames(n)
    BY Zenon, <2>1, <2>3, AllocGives
  <2>4. ASSUME NEW a \in owned, Pmm_free_contiguous_frames(a)
        PROVE  Free' \cup OwnedFrames' = Free \cup OwnedFrames
    <3>1. Free' = Free \cup Frames(a)
      BY Zenon, <2>4, FreeContiguous
    <3>2. owned' = owned \ {a}
      BY Zenon, <2>4 DEF Pmm_free_contiguous_frames
    <3> QED BY ZenonT(30), <2>2, <3>1, <3>2
  <2>5. ASSUME NEW a \in owned, Pmm_free_frame(a)
        PROVE  Free' \cup OwnedFrames' = Free \cup OwnedFrames
    BY ZenonT(30), <2>2, <2>5, FreeOne
  <2>6. ~Early_pmm_init /\ ~Early_pmm_alloc_frame /\ ~Pmm_init /\ ~Halted
    BY DEF Early_pmm_init, Early_pmm_alloc_frame, Pmm_init, Halted
  <2> QED BY ZenonT(30), <2>3, <2>4, <2>5, <2>6 DEF Next
<1> QED BY <1>1, PhysMemInductive, PTL DEF Spec, FramesConserved
=============================================================================

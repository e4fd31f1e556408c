---------------------------- MODULE KmallocProofs ---------------------------
(***************************************************************************)
(* The kernel heap is sound for pages, slots and sizes of any number: the  *)
(* blocks that mm/kmalloc.c gives out do not overlap, kfree() finds the    *)
(* node of every big block, and no page is lost.                           *)
(*                                                                         *)
(* The inductive invariant HInv(h, L) speaks of a heap h and the set L of  *)
(* blocks somebody holds.  kmalloc_big() is not one change but two, pages  *)
(* and a small block for the node, so between them the pages and the node  *)
(* are counted in L as blocks of their own, and linking the node turns the *)
(* two into one big block; kfree_big() goes the same way back.             *)
(***************************************************************************)
EXTENDS Kmalloc, FiniteSetTheorems, InductionLemmas

P == PAGE_SIZE

BlockType == [addr : Nat, len : Nat, kind : {"small", "big", "page"}]
NodeType == [vaddr : Nat, pages : Nat, node : Nat]
HeapType == [taken : SUBSET Frames, word : [Frames -> Tiers \cup {0}],
             free_head : [Tiers -> Seq(Nat)], big : Seq(NodeType)]

\* pages held, and the pages that hold slots
Paged(L) == {b \in L : b.kind # "small"}
Small(L) == {b \in L : b.kind = "small"}
HeldBy(L) == UNION {Frames_of(b.addr, b.len) : b \in Paged(L)}
PoolsOf(h, L) == h.taken \ HeldBy(L)

\* block b is the n pages from page f on
IsRun(b, f, n) == b.addr = f * P /\ b.len = n * P

\* x is a slot of tier t, and not the one with the header, in a pool
InPool(f, x, t) == \E i \in 1..(P \div Slot_size[t] - 1) : x = f * P + i * Slot_size[t]
SlotAt(h, L, x, t) == \E f \in PoolsOf(h, L) : h.word[f] = t /\ InPool(f, x, t)

PagesOK(h, L) ==
  /\ \A b \in Paged(L) : \E f \in Frames, n \in 1..NPages :
       IsRun(b, f, n) /\ f..(f + n - 1) \subseteq h.taken
  /\ \A b, c \in Paged(L) : b # c => Frames_of(b.addr, b.len) \cap Frames_of(c.addr, c.len) = {}

\* the slots that are blocks, nodes and free
Smalls(L) == {b.addr : b \in Small(L)}
NodesOf(h) == {n.node : n \in Range(h.big)}
Free(h, t) == Range(h.free_head[t])

SlotsOK(h, L) ==
  /\ \A b \in Small(L) : \E t \in Tiers : SlotAt(h, L, b.addr, t) /\ b.len = Slot_size[t]
  /\ \A x \in NodesOf(h) : SlotAt(h, L, x, 1)
  /\ \A t \in Tiers : \A x \in Free(h, t) : SlotAt(h, L, x, t)

\* a slot is only one of the three, and free once
SlotsOnce(h, L) ==
  /\ Smalls(L) \cap NodesOf(h) = {}
  /\ \A t \in Tiers : Free(h, t) \cap (Smalls(L) \cup NodesOf(h)) = {}
  /\ \A t \in Tiers : IsInjective(h.free_head[t])

Used(h, L) == Smalls(L) \cup NodesOf(h) \cup UNION {Free(h, t) : t \in Tiers}

PoolsOK(h, L) == \A f \in PoolsOf(h, L) : h.word[f] \in Tiers /\ \E x \in Used(h, L) : Frame_of(x) = f

\* the node of a big block describes it, and no two nodes the same
BlockOf(n) == [addr |-> n.vaddr, len |-> n.pages * P, kind |-> "big"]
BigOK(h, L) ==
  /\ {b \in L : b.kind = "big"} = {BlockOf(n) : n \in Range(h.big)}
  /\ \A m, n \in Range(h.big) : m.vaddr = n.vaddr \/ m.node = n.node => m = n
  /\ IsInjective(h.big)

HInv(h, L) ==
  /\ h \in HeapType
  /\ L \in SUBSET BlockType
  /\ PagesOK(h, L)
  /\ SlotsOK(h, L)
  /\ SlotsOnce(h, L)
  /\ PoolsOK(h, L)
  /\ BigOK(h, L)

KInv == ~fooled => ~panicked /\ HInv(heap, live)

-----------------------------------------------------------------------------
(* Pages and bytes.                                                        *)

\* A page has bytes.
LEMMA PageAssumption == P \in Nat /\ P > 0
BY SMTT(30), SizesAssumption DEF P

\* The page of a byte.
LEMMA FrameLemma ==
  ASSUME NEW f \in Nat, NEW x \in Nat, f * P <= x, x < f * P + P
  PROVE  Frame_of(x) = f
<1>1. P \in Nat /\ P > 0
  BY PageAssumption
<1> DEFINE q == x \div P
<1>2. q \in Nat /\ q * P <= x /\ x < q * P + P
  BY <1>1
<1> HIDE DEF q
<1>3. ~(f < q)
  BY <1>1, <1>2, MulLemma
<1>4. ~(q < f)
  BY SMTT(30), <1>1, <1>2, MulLemma
<1>5. q = f
  BY <1>2, <1>3, <1>4
<1> QED BY <1>5 DEF q, Frame_of, P

\* The page a byte is in.
LEMMA ByteLemma ==
  ASSUME NEW x \in Nat
  PROVE  Frame_of(x) \in Nat /\ Frame_of(x) * P <= x /\ x < Frame_of(x) * P + P
BY SMTT(30), PageAssumption DEF Frame_of, P

\* The pages of a run of pages.
LEMMA RunLemma ==
  ASSUME NEW f \in Nat, NEW n \in Nat
  PROVE  /\ f * P \in Nat /\ n * P \in Nat
         /\ Frames_of(f * P, n * P) = f..(f + n - 1)
         /\ Frame_of(f * P) = f
<1>1. P \in Nat /\ P > 0
  BY PageAssumption
<1> DEFINE a == f * P
           l == n * P
           e == (f + n) * P
<1>2. a \in Nat /\ l \in Nat /\ e = a + l
  BY <1>1
<1> HIDE DEF a, l, e
<1>3. ASSUME NEW x \in Bytes(a, l) PROVE Frame_of(x) \in f..(f + n - 1)
  <2>1. x \in Nat /\ a <= x /\ x < e
    BY <1>2 DEF Bytes
  <2> DEFINE q == Frame_of(x)
  <2>2. q \in Nat /\ q * P <= x /\ x < q * P + P
    BY <2>1, ByteLemma
  <2> HIDE DEF q
  <2>3. ~(q < f)
    <3>1. q < f => q * P + P <= a
      BY <1>1, <2>2, MulLemma DEF a
    <3> QED BY <1>1, <1>2, <2>1, <2>2, <3>1
  <2>4. q < f + n
    <3>1. f + n < q => e + P <= q * P
      BY <1>1, <2>2, MulLemma DEF e
    <3>2. f + n = q => e = q * P
      BY DEF e
    <3> QED BY <1>1, <1>2, <2>1, <2>2, <3>1, <3>2
  <2>5. q \in f..(f + n - 1)
    BY <2>2, <2>3, <2>4
  <2> QED BY <2>5 DEF q
<1>4. ASSUME NEW g \in f..(f + n - 1) PROVE \E x \in Bytes(a, l) : Frame_of(x) = g
  <2>1. g \in Nat /\ g < f + n /\ f <= g
    OBVIOUS
  <2> DEFINE x == g * P
  <2>2. x \in Nat /\ x + P <= e
    BY <1>1, <2>1, MulLemma DEF e
  <2>3. a <= x
    <3>1. f < g => a + P <= x
      BY SMTT(30), <1>1, <2>1, MulLemma DEF a
    <3>2. f = g => a = x
      BY DEF a
    <3> QED BY <1>1, <1>2, <2>1, <2>2, <3>1, <3>2
  <2>4. Frame_of(x) = g
    BY <1>1, <2>1, <2>2, FrameLemma
  <2> HIDE DEF x
  <2>5. x \in Bytes(a, l)
    BY <1>1, <1>2, <2>2, <2>3 DEF Bytes
  <2> QED BY <2>4, <2>5
<1>5. Frame_of(a) = f
  BY <1>1, <1>2, FrameLemma DEF a
<1>6. Frames_of(a, l) = f..(f + n - 1)
  BY <1>3, <1>4 DEF Frames_of
<1> QED BY <1>2, <1>5, <1>6 DEF a, l

\* A slot of a pool lies in its page, behind the header.
LEMMA SlotLemma ==
  ASSUME NEW f \in Nat, NEW t \in Tiers, NEW x, InPool(f, x, t)
  PROVE  /\ x \in Nat /\ f * P \in Nat
         /\ Slot_size[t] \in Nat /\ Slot_size[t] > 0
         /\ f * P + Slot_size[t] <= x /\ x + Slot_size[t] <= f * P + P
         /\ Frame_of(x) = f
         /\ \A y \in Bytes(x, Slot_size[t]) : y \in Nat /\ Frame_of(y) = f /\ y # f * P
<1> DEFINE s == Slot_size[t]
           k == P \div s
<1>1. P \in Nat /\ P > 0
  BY PageAssumption
<1>2. s \in Nat /\ s > 0 /\ P % s = 0
  BY SizesAssumption DEF Tiers, P
<1> HIDE DEF s
<1>3. k \in Nat /\ k * s = P
  BY <1>1, <1>2
<1>4. PICK i \in 1..(k - 1) : x = f * P + i * s
  BY DEF InPool, s
<1> HIDE DEF k
<1>5. i * s \in Nat /\ s <= i * s
  <2>1. i \in Nat /\ i > 0 /\ 0 * s = 0
    BY <1>2
  <2> QED BY <1>2, <2>1, MulLemma
<1>6. i * s + s <= P
  <2>1. i \in Nat /\ i < k
    BY <1>3
  <2> QED BY SMTT(30), <1>2, <1>3, <2>1, MulLemma
<1>7. f * P \in Nat
  BY <1>1
<1>8. x \in Nat /\ f * P + s <= x /\ x + s <= f * P + P
  <2> DEFINE a == f * P
             b == i * s
  <2> HIDE DEF a, b
  <2>1. x = a + b /\ a \in Nat /\ b \in Nat /\ s <= b /\ b + s <= P
    BY <1>4, <1>5, <1>6, <1>7 DEF a, b
  <2>2. x \in Nat /\ a + s <= x /\ x + s <= a + P
    BY <1>1, <1>2, <2>1
  <2> QED BY <2>2 DEF a
<1>9. ASSUME NEW y \in Bytes(x, s) PROVE y \in Nat /\ Frame_of(y) = f /\ y # f * P
  <2>1. y \in Nat /\ f * P <= y /\ y < f * P + P /\ y # f * P
    BY <1>1, <1>2, <1>7, <1>8 DEF Bytes
  <2> QED BY <2>1, FrameLemma
<1>10. x \in Bytes(x, s)
  BY <1>2, <1>8 DEF Bytes
<1> QED BY <1>2, <1>7, <1>8, <1>9, <1>10 DEF s

\* Two slots of a pool do not overlap.
LEMMA SlotsApart ==
  ASSUME NEW f \in Nat, NEW t \in Tiers, NEW x, NEW y, InPool(f, x, t), InPool(f, y, t), x # y
  PROVE  Bytes(x, Slot_size[t]) \cap Bytes(y, Slot_size[t]) = {}
<1> DEFINE s == Slot_size[t]
           k == P \div s
<1>1. s \in Nat /\ s > 0 /\ f * P \in Nat
  BY SizesAssumption, PageAssumption DEF Tiers, P
<1>2. PICK i \in 1..(k - 1) : x = f * P + i * s
  BY DEF InPool
<1>3. PICK j \in 1..(k - 1) : y = f * P + j * s
  BY DEF InPool
<1> HIDE DEF s
<1>4. k \in Int
  BY <1>1, PageAssumption
<1> HIDE DEF k
<1>5. i \in Nat /\ j \in Nat
  BY <1>4
<1>6. i < j \/ j < i
  BY <1>2, <1>3, <1>5
<1>7. ASSUME i < j PROVE Bytes(x, s) \cap Bytes(y, s) = {}
  <2>1. i * s \in Nat /\ j * s \in Nat /\ i * s + s <= j * s
    BY SMTT(30), <1>1, <1>5, <1>7, MulLemma
  <2>2. x \in Nat /\ y \in Nat /\ x + s <= y
    BY <1>1, <1>2, <1>3, <2>1
  <2> QED BY <1>1, <2>2 DEF Bytes
<1>8. ASSUME j < i PROVE Bytes(x, s) \cap Bytes(y, s) = {}
  <2>1. i * s \in Nat /\ j * s \in Nat /\ j * s + s <= i * s
    BY SMTT(30), <1>1, <1>5, <1>8, MulLemma
  <2>2. x \in Nat /\ y \in Nat /\ y + s <= x
    BY <1>1, <1>2, <1>3, <2>1
  <2> QED BY <1>1, <2>2 DEF Bytes
<1> QED BY <1>6, <1>7, <1>8 DEF s

-----------------------------------------------------------------------------
(* The pages.                                                              *)

\* The frames of the blocks of pages, and that they are taken.
LEMMA PagedLemma ==
  ASSUME NEW h, NEW L, h \in HeapType, PagesOK(h, L)
  PROVE  /\ \A b \in Paged(L) : \E f \in Frames, n \in 1..NPages :
              /\ IsRun(b, f, n) /\ Frames_of(b.addr, b.len) = f..(f + n - 1)
              /\ f..(f + n - 1) \subseteq h.taken /\ Frame_of(b.addr) = f
         /\ HeldBy(L) \subseteq h.taken
<1>1. ASSUME NEW b \in Paged(L)
      PROVE  \E f \in Frames, n \in 1..NPages :
              /\ IsRun(b, f, n) /\ Frames_of(b.addr, b.len) = f..(f + n - 1)
              /\ f..(f + n - 1) \subseteq h.taken /\ Frame_of(b.addr) = f
  <2>1. PICK f \in Frames, n \in 1..NPages : IsRun(b, f, n) /\ f..(f + n - 1) \subseteq h.taken
    BY DEF PagesOK
  <2>2. f \in Nat /\ n \in Nat
    BY SizesAssumption DEF Frames
  <2>3. Frames_of(b.addr, b.len) = f..(f + n - 1) /\ Frame_of(b.addr) = f
    BY <2>1, <2>2, RunLemma DEF IsRun
  <2> QED BY <2>1, <2>3
<1>2. HeldBy(L) \subseteq h.taken
  BY Zenon, <1>1 DEF HeldBy
<1> QED BY <1>1, <1>2

\* What does not depend on how the pages that are no pools are held.
LEMMA SamePools ==
  ASSUME NEW h, NEW L, NEW g, NEW M,
         SlotsOK(h, L), SlotsOnce(h, L), PoolsOK(h, L), BigOK(h, L),
         PoolsOf(g, M) = PoolsOf(h, L), \A f \in PoolsOf(h, L) : g.word[f] = h.word[f],
         g.free_head = h.free_head, g.big = h.big, Small(M) = Small(L),
         {b \in M : b.kind = "big"} = {b \in L : b.kind = "big"}
  PROVE  SlotsOK(g, M) /\ SlotsOnce(g, M) /\ PoolsOK(g, M) /\ BigOK(g, M)
<1>1. \A x, t : SlotAt(g, M, x, t) <=> SlotAt(h, L, x, t)
  BY DEF SlotAt
<1>2. /\ Smalls(M) = Smalls(L) /\ NodesOf(g) = NodesOf(h) /\ \A t : Free(g, t) = Free(h, t)
      /\ Used(g, M) = Used(h, L)
  BY DEF Used, Smalls, NodesOf, Free
<1>3. SlotsOK(g, M)
  BY <1>1, <1>2 DEF SlotsOK
<1>4. SlotsOnce(g, M)
  BY <1>2 DEF SlotsOnce
<1>5. PoolsOK(g, M)
  BY <1>2 DEF PoolsOK
<1>6. BigOK(g, M)
  BY SMTT(30) DEF BigOK
<1> QED BY <1>3, <1>4, <1>5, <1>6

\* alloc_pages() takes a run of free pages, or changes nothing.
LEMMA AllocLemma ==
  ASSUME NEW h \in HeapType, NEW n \in Nat \ {0}
  PROVE  LET r == Alloc_pages(h, n)
         IN  \/ r.addr = NULL /\ r.heap = h
             \/ \E f \in Frames : /\ r.addr = f * P /\ r.addr # NULL /\ n \in 1..NPages
                                  /\ f..(f + n - 1) \subseteq Frames \ h.taken
                                  /\ r.heap = [h EXCEPT !.taken = @ \cup f..(f + n - 1)]
<1> DEFINE runs == {f \in Frames : f..(f + n - 1) \subseteq Frames \ h.taken}
           r == Alloc_pages(h, n)
<1>1. CASE runs = {}
  <2>1. r = [heap |-> h, addr |-> NULL]
    BY <1>1 DEF Alloc_pages
  <2> QED BY <2>1
<1>2. CASE runs # {}
  <2> DEFINE f == Min(runs)
  <2>1. runs \in SUBSET Nat
    BY SizesAssumption DEF Frames
  <2>2. f \in runs
    <3> HIDE DEF runs
    <3> QED BY SMTT(30), <1>2, <2>1, MinLemma
  <2>3. r = [heap |-> [h EXCEPT !.taken = @ \cup f..(f + n - 1)], addr |-> f * PAGE_SIZE]
    BY <1>2 DEF Alloc_pages
  <2> HIDE DEF f
  <2>4. f \in Frames /\ f..(f + n - 1) \subseteq Frames \ h.taken
    BY <2>2
  <2>5. n \in 1..NPages
    <3>1. f \in Nat /\ f >= 1 /\ f + n - 1 \in f..(f + n - 1)
      BY <2>4, SizesAssumption DEF Frames
    <3>2. f + n - 1 <= NPages
      BY <2>4, <3>1 DEF Frames
    <3> QED BY <3>1, <3>2, SizesAssumption
  <2>6. f * P # 0
    <3>1. f \in Nat /\ 0 < f /\ 0 * P = 0
      BY <2>4, PageAssumption, SizesAssumption DEF Frames
    <3> QED BY SMTT(30), <3>1, MulLemma, PageAssumption
  <2>7. r.addr = f * P /\ r.heap = [h EXCEPT !.taken = @ \cup f..(f + n - 1)]
    BY <2>3 DEF P
  <2>8. r.addr # NULL
    BY <2>6, <2>7 DEF NULL
  <2> HIDE DEF r
  <2>9. \E k \in Frames : /\ r.addr = k * P /\ r.addr # NULL /\ n \in 1..NPages
                           /\ k..(k + n - 1) \subseteq Frames \ h.taken
                           /\ r.heap = [h EXCEPT !.taken = @ \cup k..(k + n - 1)]
    BY Zenon, <2>4, <2>5, <2>7, <2>8
  <2> QED BY ZenonT(30), <2>9 DEF r
<1> QED BY <1>1, <1>2

PageBlock(f, n) == [addr |-> f * P, len |-> n * P, kind |-> "page"]

\* The block that alloc_pages() gives for a run of pages.
LEMMA PageBlockLemma ==
  ASSUME NEW f \in Nat, NEW n \in Nat
  PROVE  /\ PageBlock(f, n) \in BlockType /\ IsRun(PageBlock(f, n), f, n)
         /\ Frames_of(PageBlock(f, n).addr, PageBlock(f, n).len) = f..(f + n - 1)
         /\ PageBlock(f, n).kind = "page"
<1> DEFINE a == f * P
           l == n * P
<1>1. a \in Nat /\ l \in Nat /\ Frames_of(a, l) = f..(f + n - 1)
  BY RunLemma
<1> HIDE DEF a, l
<1>2. PageBlock(f, n) = [addr |-> a, len |-> l, kind |-> "page"]
  BY DEF PageBlock, a, l
<1>3. PageBlock(f, n).addr = a /\ PageBlock(f, n).len = l /\ PageBlock(f, n).kind = "page"
  BY <1>2
<1>4. PageBlock(f, n) \in BlockType
  BY <1>1, <1>2 DEF BlockType
<1>5. IsRun(PageBlock(f, n), f, n)
  BY <1>3 DEF IsRun, a, l
<1> QED BY <1>1, <1>3, <1>4, <1>5

\* alloc_pages(): the caller holds the pages.
LEMMA TakeRun ==
  ASSUME NEW h, NEW L, HInv(h, L), NEW f \in Frames, NEW n \in 1..NPages,
         f..(f + n - 1) \subseteq Frames \ h.taken
  PROVE  HInv([h EXCEPT !.taken = @ \cup f..(f + n - 1)], L \cup {PageBlock(f, n)})
<1> DEFINE b == PageBlock(f, n)
           run == f..(f + n - 1)
           g == [h EXCEPT !.taken = @ \cup run]
           M == L \cup {b}
<1>1. /\ h \in HeapType /\ L \in SUBSET BlockType /\ PagesOK(h, L) /\ SlotsOK(h, L)
      /\ SlotsOnce(h, L) /\ PoolsOK(h, L) /\ BigOK(h, L)
  BY DEF HInv
<1>2. f \in Nat /\ n \in Nat /\ n > 0
  BY SizesAssumption DEF Frames
<1>3. b \in BlockType /\ IsRun(b, f, n) /\ Frames_of(b.addr, b.len) = run /\ b.kind = "page"
  BY <1>2, PageBlockLemma
<1> HIDE DEF b
<1>4. g \in HeapType /\ g.taken = h.taken \cup run /\ g.word = h.word /\ g.free_head = h.free_head
      /\ g.big = h.big
  BY <1>1 DEF HeapType
<1> HIDE DEF g
<1>5. /\ Paged(M) = Paged(L) \cup {b} /\ Small(M) = Small(L)
      /\ {c \in M : c.kind = "big"} = {c \in L : c.kind = "big"}
  BY <1>3 DEF Paged, Small
<1>6. HeldBy(M) = HeldBy(L) \cup run
  BY Zenon, <1>3, <1>5 DEF HeldBy
<1>7. HeldBy(L) \subseteq h.taken
  BY <1>1, PagedLemma
<1>8. PoolsOf(g, M) = PoolsOf(h, L)
  BY Zenon, <1>4, <1>6, <1>7 DEF PoolsOf
<1>9. SlotsOK(g, M) /\ SlotsOnce(g, M) /\ PoolsOK(g, M) /\ BigOK(g, M)
  BY <1>1, <1>4, <1>5, <1>8, SamePools
<1>10. PagesOK(g, M)
  <2>1. ASSUME NEW c \in Paged(M)
        PROVE  \E k \in Frames, m \in 1..NPages : IsRun(c, k, m) /\ k..(k + m - 1) \subseteq g.taken
    <3>1. CASE c = b
      BY <1>3, <1>4, <3>1
    <3>2. CASE c \in Paged(L)
      BY <1>1, <1>4, <3>2 DEF PagesOK
    <3> QED BY Zenon, <1>5, <3>1, <3>2
  <2>2. \A c \in Paged(L) : Frames_of(c.addr, c.len) \cap run = {}
    BY <1>7 DEF HeldBy
  <2>3. \A c, d \in Paged(M) : c # d => Frames_of(c.addr, c.len) \cap Frames_of(d.addr, d.len) = {}
    BY Zenon, <1>1, <1>3, <1>5, <2>2 DEF PagesOK
  <2> QED BY Zenon, <2>1, <2>3 DEF PagesOK
<1>11. M \in SUBSET BlockType
  BY <1>1, <1>3
<1> QED BY <1>4, <1>9, <1>10, <1>11 DEF HInv, g, b

\* free_pages() of pages that were held.
LEMMA GiveRun ==
  ASSUME NEW h, NEW L, HInv(h, L), NEW b \in L, b.kind = "page"
  PROVE  HInv(Free_pages(h, b.addr, b.len \div P), L \ {b})
<1> DEFINE run == Frames_of(b.addr, b.len)
           g == Free_pages(h, b.addr, b.len \div P)
           M == L \ {b}
<1>1. /\ h \in HeapType /\ L \in SUBSET BlockType /\ PagesOK(h, L) /\ SlotsOK(h, L)
      /\ SlotsOnce(h, L) /\ PoolsOK(h, L) /\ BigOK(h, L)
  BY DEF HInv
<1>2. b \in Paged(L)
  BY DEF Paged
<1>3. PICK f \in Frames, n \in 1..NPages : IsRun(b, f, n)
  BY <1>1, <1>2 DEF PagesOK
<1>4. b.len \div P = n
  <2>1. n \in Nat /\ n * P \in Nat
    BY SMTT(30), SizesAssumption, PageAssumption
  <2>2. Frame_of(n * P) = n
    BY <2>1, RunLemma
  <2> QED BY <1>3, <2>2 DEF IsRun, Frame_of, P
<1>5. (b.len \div P) * P = b.len
  BY <1>3, <1>4 DEF IsRun
<1>6. g \in HeapType /\ g.taken = h.taken \ run /\ g.word = h.word /\ g.free_head = h.free_head
      /\ g.big = h.big
  <2>1. g = [h EXCEPT !.taken = @ \ run]
    BY Zenon, <1>5 DEF Free_pages, P
  <2> HIDE DEF g, run
  <2> QED BY SMTT(30), <1>1, <2>1 DEF HeapType
<1> HIDE DEF g
<1>7. /\ Paged(M) = Paged(L) \ {b} /\ Small(M) = Small(L)
      /\ {c \in M : c.kind = "big"} = {c \in L : c.kind = "big"}
  BY DEF Paged, Small
<1>8. \A c \in Paged(M) : Frames_of(c.addr, c.len) \cap run = {}
  BY <1>1, <1>2, <1>7 DEF PagesOK
<1>9. HeldBy(L) = HeldBy(M) \cup run /\ HeldBy(M) \cap run = {}
  BY Zenon, <1>2, <1>7, <1>8 DEF HeldBy
<1>10. PoolsOf(g, M) = PoolsOf(h, L)
  BY <1>6, <1>9 DEF PoolsOf
<1>11. SlotsOK(g, M) /\ SlotsOnce(g, M) /\ PoolsOK(g, M) /\ BigOK(g, M)
  BY <1>1, <1>6, <1>7, <1>10, SamePools
<1>12. PagesOK(g, M)
  <2>1. ASSUME NEW c \in Paged(M)
        PROVE  \E k \in Frames, m \in 1..NPages : IsRun(c, k, m) /\ k..(k + m - 1) \subseteq g.taken
    <3>1. PICK k \in Frames, m \in 1..NPages :
             IsRun(c, k, m) /\ k..(k + m - 1) \subseteq h.taken /\ Frames_of(c.addr, c.len) = k..(k + m - 1)
      BY Zenon, <1>1, <1>7, PagedLemma
    <3> QED BY Zenon, <1>6, <1>8, <3>1
  <2>2. \A c, d \in Paged(M) : c # d => Frames_of(c.addr, c.len) \cap Frames_of(d.addr, d.len) = {}
    BY <1>1, <1>7 DEF PagesOK
  <2> QED BY Zenon, <2>1, <2>2 DEF PagesOK
<1> QED BY SMTT(30), <1>1, <1>6, <1>11, <1>12 DEF HInv, g

\* Writing the first word of pages that are held.
LEMMA WriteWord ==
  ASSUME NEW h, NEW L, HInv(h, L), NEW f \in HeldBy(L), NEW w \in Tiers \cup {0}
  PROVE  HInv([h EXCEPT !.word[f] = w], L)
<1> DEFINE g == [h EXCEPT !.word[f] = w]
<1>1. /\ h \in HeapType /\ L \in SUBSET BlockType /\ PagesOK(h, L) /\ SlotsOK(h, L)
      /\ SlotsOnce(h, L) /\ PoolsOK(h, L) /\ BigOK(h, L)
  BY DEF HInv
<1>2. /\ g \in HeapType /\ g.taken = h.taken /\ g.word = [h.word EXCEPT ![f] = w]
      /\ g.free_head = h.free_head /\ g.big = h.big
  BY Zenon, <1>1 DEF HeapType
<1> HIDE DEF g
<1>3. PoolsOf(g, L) = PoolsOf(h, L) /\ \A k \in PoolsOf(h, L) : g.word[k] = h.word[k]
  BY <1>1, <1>2 DEF PoolsOf, HeapType
<1>4. SlotsOK(g, L) /\ SlotsOnce(g, L) /\ PoolsOK(g, L) /\ BigOK(g, L)
  BY Zenon, <1>1, <1>2, <1>3, SamePools
<1>5. PagesOK(g, L)
  BY Zenon, <1>1, <1>2 DEF PagesOK
<1> QED BY <1>1, <1>2, <1>4, <1>5 DEF HInv, g

-----------------------------------------------------------------------------
(* The slots.                                                              *)

\* the slots init_tier() threads
LEMMA ThreadLemma ==
  ASSUME NEW f \in Nat, NEW t \in Tiers
  PROVE  LET s == Slots(f * P, Slot_size[t])
         IN  /\ s \in Seq(Nat) /\ s[1] \in Range(s) /\ IsInjective(s)
             /\ \A x \in Range(s) : InPool(f, x, t)
<1> DEFINE z == Slot_size[t]
           k == P \div z
           s == Slots(f * P, z)
<1>1. z \in Nat /\ z > 0 /\ P % z = 0 /\ 2 * z <= P /\ P \in Nat /\ P > 0 /\ f * P \in Nat
  BY SizesAssumption, PageAssumption DEF Tiers, P
<1>2. k \in Nat /\ k >= 2
  <2> HIDE DEF z
  <2>1. k \in Nat /\ k * z = P
    BY <1>1
  <2> HIDE DEF k
  <2>2. ~(k < 2)
    <3>1. k < 2 => k * z + z <= 2 * z
      BY SMTT(30), <1>1, <2>1, MulLemma
    <3> QED BY <1>1, <2>1, <3>1
  <2> QED BY <2>1, <2>2
<1>3. s = [i \in 1..(k - 1) |-> f * P + i * z]
  BY DEF Slots, P
<1>4. ASSUME NEW i \in 1..(k - 1) PROVE f * P + i * z \in Nat
  BY <1>1, <1>2
<1> HIDE DEF s, k
<1>5. s \in Seq(Nat) /\ Len(s) = k - 1 /\ DOMAIN s = 1..(k - 1)
  BY <1>2, <1>3, <1>4
<1>6. \A j \in DOMAIN s : InPool(f, s[j], t)
  BY <1>3, <1>5 DEF InPool, k
<1>7. ASSUME NEW i \in DOMAIN s, NEW j \in DOMAIN s, i < j PROVE s[i] # s[j]
  <2>1. i \in Nat /\ j \in Nat
    BY <1>2, <1>5
  <2>2. i * z \in Nat /\ j * z \in Nat /\ i * z + z <= j * z
    BY SMTT(30), <1>1, <1>7, <2>1, MulLemma
  <2>3. s[i] = f * P + i * z /\ s[j] = f * P + j * z
    BY <1>3, <1>5
  <2> QED BY <1>1, <2>2, <2>3
<1>8. \A i, j \in DOMAIN s : s[i] = s[j] => i = j
  <2> TAKE i, j \in DOMAIN s
  <2>1. i \in Nat /\ j \in Nat
    BY <1>2, <1>5
  <2> QED BY <1>7, <2>1
<1>9. s[1] \in Range(s) /\ IsInjective(s) /\ \A x \in Range(s) : InPool(f, x, t)
  BY SMTT(30), <1>2, <1>5, <1>6, <1>8 DEF Range, IsInjective
<1> QED BY SMTT(30), <1>5, <1>9 DEF s

\* A slot is in the pool page of its tier.
LEMMA SlotAtLemma ==
  ASSUME NEW h \in HeapType, NEW L, NEW x, NEW t \in Tiers, SlotAt(h, L, x, t)
  PROVE  /\ x \in Nat /\ Frame_of(x) \in PoolsOf(h, L) /\ Frame_of(x) \in Frames
         /\ h.word[Frame_of(x)] = t /\ InPool(Frame_of(x), x, t)
<1>1. PICK f \in PoolsOf(h, L) : h.word[f] = t /\ InPool(f, x, t)
  BY DEF SlotAt
<1>2. f \in Frames /\ f \in Nat
  BY SizesAssumption DEF PoolsOf, HeapType, Frames
<1>3. x \in Nat /\ Frame_of(x) = f
  BY <1>1, <1>2, SlotLemma
<1> QED BY <1>1, <1>2, <1>3

\* There is a tier for the nodes of the big list.
LEMMA OneIsTier == 1 \in Tiers
BY SizesAssumption DEF Tiers

\* The sizes of the tiers differ.
LEMMA TierSizes ==
  ASSUME NEW t \in Tiers, NEW u \in Tiers, Slot_size[t] = Slot_size[u]
  PROVE  t = u
<1>1. t \in Nat /\ u \in Nat /\ Slot_size[t] \in Nat /\ Slot_size[u] \in Nat
  BY SizesAssumption DEF Tiers
<1>2. ~(t < u)
  <2>1. t < u => Slot_size[t] < Slot_size[u]
    BY Zenon, SizesAssumption
  <2> QED BY <1>1, <2>1
<1>3. ~(u < t)
  <2>1. u < t => Slot_size[u] < Slot_size[t]
    BY Zenon, SizesAssumption
  <2> QED BY <1>1, <2>1
<1> QED BY <1>1, <1>2, <1>3

\* All slots in use are slots of pools.
LEMMA UsedLemma ==
  ASSUME NEW h \in HeapType, NEW L, SlotsOK(h, L), NEW x \in Used(h, L)
  PROVE  Frame_of(x) \in PoolsOf(h, L)
<1>1. CASE x \in Smalls(L)
  BY <1>1, SlotAtLemma DEF SlotsOK, Smalls
<1>2. CASE x \in NodesOf(h)
  BY <1>2, SlotAtLemma, OneIsTier DEF SlotsOK
<1>3. CASE \E t \in Tiers : x \in Free(h, t)
  BY <1>3, SlotAtLemma DEF SlotsOK
<1> QED BY <1>1, <1>2, <1>3 DEF Used

\* A slot belongs to one tier.
LEMMA OneTier ==
  ASSUME NEW h \in HeapType, NEW L, SlotsOK(h, L), NEW t \in Tiers, NEW u \in Tiers,
         NEW x \in Free(h, u), SlotAt(h, L, x, t)
  PROVE  u = t
BY SlotAtLemma DEF SlotsOK

\* init_tier(): a free page becomes a pool, all of its slots free.
LEMMA NewPool ==
  ASSUME NEW h, NEW L, HInv(h, L), NEW t \in Tiers, h.free_head[t] = <<>>,
         NEW f \in Frames \ h.taken
  PROVE  HInv([h EXCEPT !.taken = @ \cup {f}, !.word[f] = t,
                        !.free_head[t] = Slots(f * P, Slot_size[t])], L)
<1> DEFINE s == Slots(f * P, Slot_size[t])
           g == [h EXCEPT !.taken = @ \cup {f}, !.word[f] = t, !.free_head[t] = s]
<1>1. /\ h \in HeapType /\ L \in SUBSET BlockType /\ PagesOK(h, L) /\ SlotsOK(h, L)
      /\ SlotsOnce(h, L) /\ PoolsOK(h, L) /\ BigOK(h, L)
  BY DEF HInv
<1>2. f \in Nat
  BY SizesAssumption DEF Frames
<1>3. s \in Seq(Nat) /\ s[1] \in Range(s) /\ IsInjective(s) /\ \A x \in Range(s) : InPool(f, x, t)
  BY <1>2, ThreadLemma
<1> HIDE DEF s
<1>4. /\ g.taken = h.taken \cup {f} /\ g.word = [h.word EXCEPT ![f] = t]
      /\ g.free_head = [h.free_head EXCEPT ![t] = s] /\ g.big = h.big
      /\ g \in HeapType
  BY Zenon, <1>1, <1>3 DEF HeapType
<1> HIDE DEF g
<1>5. /\ h.taken \subseteq Frames /\ h.word \in [Frames -> Tiers \cup {0}]
      /\ h.free_head \in [Tiers -> Seq(Nat)] /\ HeldBy(L) \subseteq h.taken
  BY Zenon, <1>1, PagedLemma DEF HeapType
<1>6. /\ PoolsOf(g, L) = PoolsOf(h, L) \cup {f} /\ f \notin PoolsOf(h, L)
      /\ g.word[f] = t /\ \A k \in PoolsOf(h, L) : g.word[k] = h.word[k]
  BY <1>4, <1>5 DEF PoolsOf
<1>7. \A x, u : SlotAt(h, L, x, u) => SlotAt(g, L, x, u)
  BY <1>6 DEF SlotAt
<1>8. /\ Free(g, t) = Range(s) /\ \A u \in Tiers : u # t => g.free_head[u] = h.free_head[u]
      /\ g.free_head[t] = s /\ Free(h, t) = {} /\ NodesOf(g) = NodesOf(h)
      /\ \A u \in Tiers : u # t => Free(g, u) = Free(h, u)
  BY <1>4, <1>5 DEF Free, Range, NodesOf
<1>9. \A x \in Range(s) : SlotAt(g, L, x, t) /\ Frame_of(x) = f
  BY <1>2, <1>3, <1>6, SlotLemma DEF SlotAt
<1>10. SlotsOK(g, L)
  BY <1>1, <1>7, <1>8, <1>9 DEF SlotsOK
<1>11. Range(s) \cap Used(h, L) = {}
  BY <1>1, <1>6, <1>9, UsedLemma
<1>12. SlotsOnce(g, L)
  BY <1>1, <1>3, <1>8, <1>11 DEF SlotsOnce, Used
<1>13. PoolsOK(g, L)
  <2>1. Used(h, L) \subseteq Used(g, L) /\ s[1] \in Used(g, L)
    BY <1>3, <1>8 DEF Used
  <2> QED BY SMTT(30), <1>1, <1>3, <1>6, <1>9, <2>1 DEF PoolsOK
<1>14. BigOK(g, L) /\ PagesOK(g, L)
  BY Zenon, <1>1, <1>4 DEF BigOK, PagesOK
<1>15. HInv(g, L)
  BY Zenon, <1>1, <1>4, <1>10, <1>12, <1>13, <1>14 DEF HInv
<1> QED BY ZenonT(30), <1>15 DEF g, s

SmallBlock(x, t) == [addr |-> x, len |-> Slot_size[t], kind |-> "small"]

\* What taking the first element of a list, or adding one, makes of it.
LEMMA TailLemma ==
  ASSUME NEW S, NEW s \in Seq(S), s # <<>>, IsInjective(s)
  PROVE  /\ Head(s) \in Range(s) /\ Head(s) \in S /\ Tail(s) \in Seq(S)
         /\ IsInjective(Tail(s)) /\ Range(Tail(s)) = Range(s) \ {Head(s)}
<1>1. Len(s) \in Nat /\ Len(s) >= 1 /\ DOMAIN s = 1..Len(s) /\ Head(s) = s[1] /\ s[1] \in S
  OBVIOUS
<1>2. /\ Tail(s) \in Seq(S) /\ Len(Tail(s)) = Len(s) - 1 /\ DOMAIN Tail(s) = 1..(Len(s) - 1)
      /\ \A i \in 1..(Len(s) - 1) : Tail(s)[i] = s[i + 1] /\ i + 1 \in DOMAIN s
  BY <1>1
<1>3. IsInjective(Tail(s))
  <2>1. ASSUME NEW i \in DOMAIN Tail(s), NEW j \in DOMAIN Tail(s), Tail(s)[i] = Tail(s)[j] PROVE i = j
    <3>1. s[i + 1] = s[j + 1] /\ i + 1 \in DOMAIN s /\ j + 1 \in DOMAIN s /\ i \in Int /\ j \in Int
      BY <1>1, <1>2, <2>1
    <3>2. i + 1 = j + 1
      BY <3>1 DEF IsInjective
    <3> QED BY <3>1, <3>2
  <2> QED BY <2>1 DEF IsInjective
<1>4. ASSUME NEW x \in Range(Tail(s)) PROVE x \in Range(s) /\ x # s[1]
  <2>1. PICK i \in 1..(Len(s) - 1) : x = Tail(s)[i]
    BY <1>2 DEF Range
  <2>2. x = s[i + 1] /\ i + 1 \in DOMAIN s /\ 1 \in DOMAIN s /\ i + 1 # 1
    BY <1>1, <1>2, <2>1
  <2>3. x # s[1]
    BY <2>2 DEF IsInjective
  <2> QED BY <2>2, <2>3 DEF Range
<1>5. ASSUME NEW x \in Range(s), x # s[1] PROVE x \in Range(Tail(s))
  <2>1. PICK i \in DOMAIN s : x = s[i]
    BY DEF Range
  <2>2. i - 1 \in 1..(Len(s) - 1) /\ i = (i - 1) + 1
    BY <1>1, <1>5, <2>1
  <2>3. Tail(s)[i - 1] = x
    BY <1>2, <2>1, <2>2
  <2> QED BY <1>2, <2>2, <2>3 DEF Range
<1>6. s[1] \in Range(s)
  BY <1>1 DEF Range
<1> QED BY <1>1, <1>2, <1>3, <1>4, <1>5, <1>6

\* A slot that is put before a list of others.
LEMMA ConsLemma ==
  ASSUME NEW S, NEW s \in Seq(S), NEW x \in S, IsInjective(s), x \notin Range(s)
  PROVE  LET q == <<x>> \o s
         IN  q \in Seq(S) /\ IsInjective(q) /\ Range(q) = Range(s) \cup {x}
<1> DEFINE q == <<x>> \o s
<1>1. /\ Len(s) \in Nat /\ DOMAIN s = 1..Len(s) /\ q \in Seq(S) /\ DOMAIN q = 1..(Len(s) + 1)
      /\ q[1] = x /\ \A i \in 2..(Len(s) + 1) : q[i] = s[i - 1] /\ i - 1 \in DOMAIN s
      /\ \A i \in DOMAIN s : q[i + 1] = s[i] /\ i + 1 \in DOMAIN q
  OBVIOUS
<1> HIDE DEF q
<1>2. \A i \in DOMAIN q : i = 1 \/ i \in 2..(Len(s) + 1)
  BY <1>1
<1>3. \A i \in 2..(Len(s) + 1) : q[i] # x
  BY <1>1 DEF Range
<1>4. IsInjective(q)
  <2>1. ASSUME NEW i \in DOMAIN q, NEW j \in DOMAIN q, q[i] = q[j] PROVE i = j
    <3>1. CASE i = 1 \/ j = 1
      BY <1>1, <1>2, <1>3, <2>1, <3>1
    <3>2. CASE i \in 2..(Len(s) + 1) /\ j \in 2..(Len(s) + 1)
      <4>1. i - 1 = j - 1
        BY SMTT(30), <1>1, <2>1, <3>2 DEF IsInjective
      <4> QED BY <3>2, <4>1
    <3> QED BY <1>2, <3>1, <3>2
  <2> QED BY <2>1 DEF IsInjective
<1>5. ASSUME NEW y \in Range(q) PROVE y = x \/ y \in Range(s)
  <2>1. PICK i \in DOMAIN q : y = q[i]
    BY DEF Range
  <2>2. i = 1 \/ (y = s[i - 1] /\ i - 1 \in DOMAIN s)
    BY SMTT(30), <1>1, <1>2, <2>1
  <2> QED BY Zenon, <1>1, <2>1, <2>2 DEF Range
<1>6. ASSUME NEW y \in Range(s) PROVE y \in Range(q)
  BY <1>1 DEF Range
<1>7. x \in Range(q)
  BY <1>1 DEF Range
<1> QED BY <1>1, <1>4, <1>5, <1>6, <1>7 DEF q

\* kmalloc_small() takes the first free slot of a tier.
LEMMA PopSlot ==
  ASSUME NEW h, NEW L, HInv(h, L), NEW t \in Tiers, h.free_head[t] # <<>>
  PROVE  LET x == Head(h.free_head[t])
         IN  /\ HInv([h EXCEPT !.free_head[t] = Tail(@)], L \cup {SmallBlock(x, t)})
             /\ x \in Nat /\ x # NULL /\ x \notin Smalls(L) /\ x \notin NodesOf(h)
<1> DEFINE s == h.free_head[t]
           x == Head(s)
           b == SmallBlock(x, t)
           g == [h EXCEPT !.free_head[t] = Tail(@)]
           M == L \cup {b}
<1>1. /\ h \in HeapType /\ L \in SUBSET BlockType /\ PagesOK(h, L) /\ SlotsOK(h, L)
      /\ SlotsOnce(h, L) /\ PoolsOK(h, L) /\ BigOK(h, L)
  BY DEF HInv
<1>2. /\ h.free_head \in [Tiers -> Seq(Nat)] /\ s \in Seq(Nat) /\ s # <<>> /\ IsInjective(s)
      /\ Slot_size[t] \in Nat /\ Slot_size[t] > 0
  BY SMTT(30), <1>1, SizesAssumption DEF HeapType, SlotsOnce, Tiers
<1>3. x \in Range(s) /\ x \in Nat /\ Tail(s) \in Seq(Nat) /\ IsInjective(Tail(s)) /\ Range(Tail(s)) = Range(s) \ {x}
  BY <1>2, TailLemma
<1> HIDE DEF x
<1>4. b \in BlockType /\ b.kind = "small" /\ b.addr = x /\ b.len = Slot_size[t]
  BY <1>2, <1>3 DEF BlockType, SmallBlock
<1> HIDE DEF b
<1>5. /\ g \in HeapType /\ g.taken = h.taken /\ g.word = h.word /\ g.big = h.big
      /\ g.free_head = [h.free_head EXCEPT ![t] = Tail(s)]
  BY Zenon, <1>1, <1>3 DEF HeapType
<1> HIDE DEF g
<1>6. /\ Free(g, t) = Free(h, t) \ {x} /\ g.free_head[t] = Tail(s) /\ NodesOf(g) = NodesOf(h)
      /\ x \in Free(h, t)
      /\ \A u \in Tiers : u # t => g.free_head[u] = h.free_head[u] /\ Free(g, u) = Free(h, u)
  BY <1>2, <1>3, <1>5 DEF Free, NodesOf
<1> HIDE DEF s
<1>7. /\ Paged(M) = Paged(L) /\ Small(M) = Small(L) \cup {b}
      /\ {c \in M : c.kind = "big"} = {c \in L : c.kind = "big"} /\ Smalls(M) = Smalls(L) \cup {x}
      /\ M \in SUBSET BlockType
  <2>1. Paged(M) = Paged(L) /\ Small(M) = Small(L) \cup {b}
    BY <1>4 DEF Paged, Small
  <2>2. {c \in M : c.kind = "big"} = {c \in L : c.kind = "big"}
    BY <1>4
  <2>3. Smalls(M) = Smalls(L) \cup {x}
    BY Zenon, <1>4, <2>1 DEF Smalls
  <2> QED BY Zenon, <1>1, <1>4, <2>1, <2>2, <2>3
<1> HIDE DEF M
<1>8. PoolsOf(g, M) = PoolsOf(h, L) /\ \A y, u : SlotAt(g, M, y, u) <=> SlotAt(h, L, y, u)
  BY Zenon, <1>5, <1>7 DEF PoolsOf, HeldBy, SlotAt
<1>9. SlotAt(h, L, x, t)
  BY <1>1, <1>6 DEF SlotsOK
<1>10. SlotsOK(g, M)
  <2>1. \A c \in Small(M) : \E u \in Tiers : SlotAt(g, M, c.addr, u) /\ c.len = Slot_size[u]
    BY Zenon, <1>1, <1>4, <1>7, <1>8, <1>9 DEF SlotsOK
  <2>2. \A y \in NodesOf(g) : SlotAt(g, M, y, 1)
    BY Zenon, <1>1, <1>6, <1>8 DEF SlotsOK
  <2>3. \A u \in Tiers : \A y \in Free(g, u) : SlotAt(g, M, y, u)
    BY <1>1, <1>6, <1>8 DEF SlotsOK
  <2> QED BY Zenon, <2>1, <2>2, <2>3 DEF SlotsOK
<1>11. x \notin Smalls(L) /\ x \notin NodesOf(h)
  BY <1>1, <1>6 DEF SlotsOnce
<1>12. \A u \in Tiers : u # t => x \notin Free(h, u)
  BY <1>1, <1>9, OneTier
<1>13. SlotsOnce(g, M)
  <2>1. Smalls(M) \cap NodesOf(g) = {}
    BY <1>1, <1>6, <1>7, <1>11 DEF SlotsOnce
  <2>2. \A u \in Tiers : Free(g, u) \cap (Smalls(M) \cup NodesOf(g)) = {}
    BY <1>1, <1>6, <1>7, <1>12 DEF SlotsOnce
  <2>3. \A u \in Tiers : IsInjective(g.free_head[u])
    BY Zenon, <1>1, <1>3, <1>6 DEF SlotsOnce
  <2> QED BY Zenon, <2>1, <2>2, <2>3 DEF SlotsOnce
<1>14. Used(g, M) = Used(h, L)
  BY <1>6, <1>7 DEF Used
<1>15. PoolsOK(g, M)
  BY Zenon, <1>1, <1>5, <1>8, <1>14 DEF PoolsOK
<1>16. BigOK(g, M)
  BY Zenon, <1>1, <1>5, <1>7 DEF BigOK
<1>17. PagesOK(g, M)
  BY Zenon, <1>1, <1>5, <1>7 DEF PagesOK
<1>18. HInv(g, M)
  BY Zenon, <1>5, <1>7, <1>10, <1>13, <1>15, <1>16, <1>17 DEF HInv
<1>19. x # NULL
  <2>1. Frame_of(x) \in Frames /\ InPool(Frame_of(x), x, t)
    BY <1>1, <1>9, SlotAtLemma
  <2>2. Frame_of(x) \in Nat
    BY <2>1, SizesAssumption DEF Frames
  <2>3. Frame_of(x) * P + Slot_size[t] <= x /\ Frame_of(x) * P \in Nat
    BY <2>1, <2>2, SlotLemma
  <2> QED BY <1>2, <1>3, <2>3 DEF NULL
<1> QED BY ZenonT(30), <1>3, <1>11, <1>18, <1>19 DEF g, M, b, x, s

\* kfree() of a small block: the header of its page names the tier, whose
\* list gets the slot back.
LEMMA PushSlot ==
  ASSUME NEW h, NEW L, HInv(h, L), NEW b \in L, b.kind = "small"
  PROVE  HInv(Kfree_small(h, b.addr), L \ {b}) /\ h.word[Frame_of(b.addr)] \in Tiers
<1> DEFINE x == b.addr
           t == h.word[Frame_of(x)]
           s == h.free_head[t]
           q == <<x>> \o s
           g == [h EXCEPT !.free_head[t] = q]
           M == L \ {b}
<1>1. /\ h \in HeapType /\ L \in SUBSET BlockType /\ PagesOK(h, L) /\ SlotsOK(h, L)
      /\ SlotsOnce(h, L) /\ PoolsOK(h, L) /\ BigOK(h, L)
  BY DEF HInv
<1>2. Kfree_small(h, x) = g
  BY Zenon DEF Kfree_small, Push
<1>3. b \in Small(L) /\ x \in Smalls(L)
  BY DEF Small, Smalls
<1>4. PICK u \in Tiers : SlotAt(h, L, x, u) /\ b.len = Slot_size[u]
  BY <1>1, <1>3 DEF SlotsOK
<1>5. t = u /\ x \in Nat
  BY <1>1, <1>4, SlotAtLemma
<1> HIDE DEF t
<1>6. t \in Tiers /\ SlotAt(h, L, x, t) /\ b.len = Slot_size[t]
  BY <1>4, <1>5
<1>7. /\ h.free_head \in [Tiers -> Seq(Nat)] /\ s \in Seq(Nat) /\ IsInjective(s) /\ x \notin Range(s)
  BY <1>1, <1>3, <1>6 DEF HeapType, SlotsOnce, Free
<1>8. q \in Seq(Nat) /\ IsInjective(q) /\ Range(q) = Range(s) \cup {x}
  BY <1>5, <1>7, ConsLemma
<1> HIDE DEF q
<1>9. /\ g \in HeapType /\ g.taken = h.taken /\ g.word = h.word /\ g.big = h.big
      /\ g.free_head = [h.free_head EXCEPT ![t] = q]
  BY Zenon, <1>1, <1>8 DEF HeapType
<1> HIDE DEF g
<1>10. /\ Free(g, t) = Free(h, t) \cup {x} /\ g.free_head[t] = q /\ NodesOf(g) = NodesOf(h)
       /\ \A v \in Tiers : v # t => g.free_head[v] = h.free_head[v] /\ Free(g, v) = Free(h, v)
  BY <1>6, <1>7, <1>8, <1>9 DEF Free, NodesOf
<1> HIDE DEF s
<1>11. \A c \in Small(L) : c.addr = x => c = b
  <2> SUFFICES ASSUME NEW c \in Small(L), c.addr = x PROVE c = b
    OBVIOUS
  <2>1. PICK v \in Tiers : SlotAt(h, L, c.addr, v) /\ c.len = Slot_size[v]
    BY <1>1 DEF SlotsOK
  <2>2. v = t
    BY <1>1, <1>6, <2>1, SlotAtLemma
  <2>3. c.addr = b.addr /\ c.len = b.len /\ c.kind = b.kind /\ c \in BlockType /\ b \in BlockType
    BY <1>1, <1>6, <2>1, <2>2 DEF Small
  <2> QED BY <2>3 DEF BlockType
<1>12. /\ Paged(M) = Paged(L) /\ Small(M) = Small(L) \ {b}
       /\ {c \in M : c.kind = "big"} = {c \in L : c.kind = "big"} /\ Smalls(M) = Smalls(L) \ {x}
       /\ M \in SUBSET BlockType
  <2>1. Paged(M) = Paged(L) /\ Small(M) = Small(L) \ {b}
    BY DEF Paged, Small
  <2>2. {c \in M : c.kind = "big"} = {c \in L : c.kind = "big"}
    OBVIOUS
  <2>3. Smalls(M) = Smalls(L) \ {x}
    BY <1>11, <2>1 DEF Smalls
  <2> QED BY <1>1, <2>1, <2>2, <2>3
<1> HIDE DEF M, x
<1>13. PoolsOf(g, M) = PoolsOf(h, L) /\ \A y, v : SlotAt(g, M, y, v) <=> SlotAt(h, L, y, v)
  BY Zenon, <1>9, <1>12 DEF PoolsOf, HeldBy, SlotAt
<1>14. SlotsOK(g, M)
  <2>1. \A c \in Small(M) : \E v \in Tiers : SlotAt(g, M, c.addr, v) /\ c.len = Slot_size[v]
    BY Zenon, <1>1, <1>12, <1>13 DEF SlotsOK
  <2>2. \A y \in NodesOf(g) : SlotAt(g, M, y, 1)
    BY Zenon, <1>1, <1>10, <1>13 DEF SlotsOK
  <2>3. \A v \in Tiers : \A y \in Free(g, v) : SlotAt(g, M, y, v)
    BY <1>1, <1>6, <1>10, <1>13 DEF SlotsOK
  <2> QED BY Zenon, <2>1, <2>2, <2>3 DEF SlotsOK
<1>15. SlotsOnce(g, M)
  <2>1. Smalls(M) \cap NodesOf(g) = {}
    BY <1>1, <1>10, <1>12 DEF SlotsOnce
  <2>2. \A v \in Tiers : Free(g, v) \cap (Smalls(M) \cup NodesOf(g)) = {}
    BY <1>1, <1>3, <1>10, <1>12 DEF SlotsOnce
  <2>3. \A v \in Tiers : IsInjective(g.free_head[v])
    BY Zenon, <1>1, <1>8, <1>10 DEF SlotsOnce
  <2> QED BY Zenon, <2>1, <2>2, <2>3 DEF SlotsOnce
<1>16. Used(g, M) = Used(h, L)
  BY <1>3, <1>6, <1>10, <1>12 DEF Used
<1>17. PoolsOK(g, M)
  BY Zenon, <1>1, <1>9, <1>13, <1>16 DEF PoolsOK
<1>18. BigOK(g, M)
  BY Zenon, <1>1, <1>9, <1>12 DEF BigOK
<1>19. PagesOK(g, M)
  BY Zenon, <1>1, <1>9, <1>12 DEF PagesOK
<1>20. HInv(g, M)
  BY ZenonT(30), <1>9, <1>12, <1>14, <1>15, <1>17, <1>18, <1>19 DEF HInv
<1>21. t \in Tiers
  BY <1>6
<1> QED BY Zenon, <1>2, <1>20, <1>21 DEF M, t, x

-----------------------------------------------------------------------------
(* The list of big blocks.                                                 *)

\* Pages that go from one owner to another.
LEMMA Relabel ==
  ASSUME NEW h, NEW g, NEW L, NEW M, PagesOK(h, L), g.taken = h.taken,
         NEW b \in Paged(L), NEW c, c.addr = b.addr, c.len = b.len,
         Paged(M) = (Paged(L) \ {b}) \cup {c}
  PROVE  PagesOK(g, M) /\ PoolsOf(g, M) = PoolsOf(h, L)
<1>1. \A d \in Paged(M) : d = c \/ (d \in Paged(L) /\ d # b)
  OBVIOUS
<1>2. ASSUME NEW d \in Paged(M)
      PROVE  \E f \in Frames, n \in 1..NPages : IsRun(d, f, n) /\ f..(f + n - 1) \subseteq g.taken
  <2>1. PICK f \in Frames, n \in 1..NPages :
          f..(f + n - 1) \subseteq h.taken /\ (IsRun(d, f, n) \/ (d = c /\ IsRun(b, f, n)))
    BY Zenon, <1>1 DEF PagesOK
  <2> QED BY Zenon, <2>1 DEF IsRun
<1>3. ASSUME NEW d \in Paged(M), NEW e \in Paged(M), d # e
      PROVE  Frames_of(d.addr, d.len) \cap Frames_of(e.addr, e.len) = {}
  BY Zenon, <1>1, <1>3 DEF PagesOK
<1>4. HeldBy(M) = HeldBy(L)
  <2>1. ASSUME NEW k \in HeldBy(M) PROVE k \in HeldBy(L)
    <3>1. PICK d \in Paged(M) : k \in Frames_of(d.addr, d.len)
      BY Zenon DEF HeldBy
    <3> QED BY Zenon, <1>1, <3>1 DEF HeldBy
  <2>2. ASSUME NEW k \in HeldBy(L) PROVE k \in HeldBy(M)
    <3>1. PICK d \in Paged(L) : k \in Frames_of(d.addr, d.len)
      BY Zenon DEF HeldBy
    <3> QED BY Zenon, <3>1 DEF HeldBy
  <2> QED BY Zenon, <2>1, <2>2
<1> QED BY Zenon, <1>2, <1>3, <1>4 DEF PagesOK, PoolsOf

\* The head of a run is one of its pages.
LEMMA HeadHeld ==
  ASSUME NEW h \in HeapType, NEW L, PagesOK(h, L), NEW b \in Paged(L)
  PROVE  Frame_of(b.addr) \in Frames_of(b.addr, b.len)
<1>1. PICK f \in Frames, n \in 1..NPages : /\ Frames_of(b.addr, b.len) = f..(f + n - 1)
                                           /\ Frame_of(b.addr) = f
  BY Zenon, PagedLemma
<1>2. f \in f..(f + n - 1)
  BY SizesAssumption DEF Frames
<1> QED BY <1>1, <1>2

\* The second half of kmalloc_big(): the node makes one big block of the pages
\* and the small block it is written to.
LEMMA LinkNode ==
  ASSUME NEW h, NEW L, HInv(h, L), NEW b \in L, NEW c \in L, NEW n \in Nat,
         b.kind = "page", b.len = n * P, c.kind = "small", c.len = Slot_size[1]
  PROVE  LET nd == [vaddr |-> b.addr, pages |-> n, node |-> c.addr]
         IN  HInv([h EXCEPT !.big = <<nd>> \o @], (L \ {b, c}) \cup {BlockOf(nd)})
<1> DEFINE nd == [vaddr |-> b.addr, pages |-> n, node |-> c.addr]
           B == BlockOf(nd)
           q == <<nd>> \o h.big
           g == [h EXCEPT !.big = q]
           M == (L \ {b, c}) \cup {B}
           x == c.addr
<1>1. /\ h \in HeapType /\ L \in SUBSET BlockType /\ PagesOK(h, L) /\ SlotsOK(h, L)
      /\ SlotsOnce(h, L) /\ PoolsOK(h, L) /\ BigOK(h, L)
  BY DEF HInv
<1>2. b \in BlockType /\ c \in BlockType /\ b \in Paged(L) /\ c \in Small(L) /\ x \in Smalls(L)
  BY <1>1 DEF Paged, Small, Smalls
<1>3. nd \in NodeType /\ nd.vaddr = b.addr /\ nd.pages = n /\ nd.node = x
  BY <1>2 DEF NodeType, BlockType
<1> HIDE DEF nd
<1>4. B \in BlockType /\ B.addr = b.addr /\ B.len = b.len /\ B.kind = "big"
  BY <1>2, <1>3 DEF BlockOf, BlockType
<1>5. SlotAt(h, L, x, 1)
  <2>1. PICK u \in Tiers : SlotAt(h, L, x, u) /\ c.len = Slot_size[u]
    BY <1>1, <1>2 DEF SlotsOK
  <2>2. u = 1
    BY Zenon, <2>1, TierSizes, OneIsTier
  <2> QED BY <2>1, <2>2
<1>6. \A m \in Range(h.big) : m.vaddr # nd.vaddr /\ m.node # nd.node
  <2> SUFFICES ASSUME NEW m \in Range(h.big) PROVE m.vaddr # b.addr /\ m.node # x
    BY <1>3
  <2>1. BlockOf(m) \in L /\ BlockOf(m).kind = "big" /\ BlockOf(m).addr = m.vaddr
    BY <1>1 DEF BigOK, BlockOf
  <2>2. BlockOf(m) \in Paged(L) /\ BlockOf(m) # b
    BY <2>1 DEF Paged
  <2>3. m.vaddr # b.addr
    BY Zenon, <1>1, <1>2, <2>1, <2>2, HeadHeld DEF PagesOK
  <2>4. m.node # x
    BY <1>1, <1>2 DEF SlotsOnce, NodesOf
  <2> QED BY <2>3, <2>4
<1>7. h.big \in Seq(NodeType) /\ IsInjective(h.big) /\ nd \notin Range(h.big)
  BY <1>1, <1>6 DEF HeapType, BigOK
<1>8. q \in Seq(NodeType) /\ IsInjective(q) /\ Range(q) = Range(h.big) \cup {nd}
  BY <1>3, <1>7, ConsLemma
<1> HIDE DEF q
<1>9. /\ g \in HeapType /\ g.taken = h.taken /\ g.word = h.word /\ g.big = q
      /\ g.free_head = h.free_head
  BY Zenon, <1>1, <1>8 DEF HeapType
<1> HIDE DEF g
<1>10. NodesOf(g) = NodesOf(h) \cup {x} /\ \A v : Free(g, v) = Free(h, v)
  BY <1>3, <1>8, <1>9 DEF NodesOf, Free
<1>11. \A d \in Small(L) : d.addr = x => d = c
  <2> SUFFICES ASSUME NEW d \in Small(L), d.addr = x PROVE d = c
    OBVIOUS
  <2>1. PICK v \in Tiers : SlotAt(h, L, d.addr, v) /\ d.len = Slot_size[v]
    BY <1>1 DEF SlotsOK
  <2>2. v = 1
    BY <1>1, <1>5, <2>1, SlotAtLemma, OneIsTier
  <2>3. d.addr = c.addr /\ d.len = c.len /\ d.kind = c.kind /\ d \in BlockType
    BY <1>1, <2>1, <2>2 DEF Small
  <2> QED BY <1>2, <2>3 DEF BlockType
<1>12. /\ Paged(M) = (Paged(L) \ {b}) \cup {B} /\ Small(M) = Small(L) \ {c}
       /\ {d \in M : d.kind = "big"} = {d \in L : d.kind = "big"} \cup {B} /\ Smalls(M) = Smalls(L) \ {x}
       /\ M \in SUBSET BlockType
  <2>1. Paged(M) = (Paged(L) \ {b}) \cup {B} /\ Small(M) = Small(L) \ {c}
    BY <1>4 DEF Paged, Small
  <2>2. {d \in M : d.kind = "big"} = {d \in L : d.kind = "big"} \cup {B}
    BY <1>4
  <2>3. Smalls(M) = Smalls(L) \ {x}
    BY <1>11, <2>1 DEF Smalls
  <2> QED BY Zenon, <1>1, <1>4, <2>1, <2>2, <2>3
<1> HIDE DEF M, x, B
<1>13. PagesOK(g, M) /\ PoolsOf(g, M) = PoolsOf(h, L)
  <2>1. PagesOK(h, L) /\ g.taken = h.taken /\ b \in Paged(L)
    BY Zenon, <1>1, <1>2, <1>9
  <2>2. B.addr = b.addr /\ B.len = b.len /\ Paged(M) = (Paged(L) \ {b}) \cup {B}
    BY Zenon, <1>4, <1>12
  <2> QED BY <2>1, <2>2, Relabel
<1>14. \A y, v : SlotAt(g, M, y, v) <=> SlotAt(h, L, y, v)
  BY Zenon, <1>9, <1>13 DEF SlotAt
<1>15. SlotsOK(g, M)
  <2>1. \A d \in Small(M) : \E v \in Tiers : SlotAt(g, M, d.addr, v) /\ d.len = Slot_size[v]
    BY Zenon, <1>1, <1>12, <1>14 DEF SlotsOK
  <2>2. \A y \in NodesOf(g) : SlotAt(g, M, y, 1)
    BY Zenon, <1>1, <1>5, <1>10, <1>14 DEF SlotsOK
  <2>3. \A v \in Tiers : \A y \in Free(g, v) : SlotAt(g, M, y, v)
    BY Zenon, <1>1, <1>10, <1>14 DEF SlotsOK
  <2> QED BY Zenon, <2>1, <2>2, <2>3 DEF SlotsOK
<1>16. SlotsOnce(g, M)
  <2>1. Smalls(M) \cap NodesOf(g) = {}
    BY <1>1, <1>10, <1>12 DEF SlotsOnce
  <2>2. \A v \in Tiers : Free(g, v) \cap (Smalls(M) \cup NodesOf(g)) = {}
    BY <1>1, <1>2, <1>10, <1>12 DEF SlotsOnce
  <2>3. \A v \in Tiers : IsInjective(g.free_head[v])
    BY Zenon, <1>1, <1>9 DEF SlotsOnce
  <2> QED BY Zenon, <2>1, <2>2, <2>3 DEF SlotsOnce
<1>17. Used(g, M) = Used(h, L)
  BY <1>2, <1>10, <1>12 DEF Used
<1>18. PoolsOK(g, M)
  BY Zenon, <1>1, <1>9, <1>13, <1>17 DEF PoolsOK
<1>19. BigOK(g, M)
  <2>1. {d \in M : d.kind = "big"} = {BlockOf(m) : m \in Range(g.big)}
    BY Zenon, <1>1, <1>8, <1>9, <1>12 DEF BigOK, B
  <2>2. \A m, k \in Range(g.big) : m.vaddr = k.vaddr \/ m.node = k.node => m = k
    BY Zenon, <1>1, <1>6, <1>8, <1>9 DEF BigOK
  <2> QED BY Zenon, <1>8, <1>9, <2>1, <2>2 DEF BigOK
<1>20. HInv(g, M)
  BY ZenonT(30), <1>9, <1>12, <1>13, <1>15, <1>16, <1>18, <1>19 DEF HInv
<1> QED BY ZenonT(30), <1>20 DEF M, B, g, q, nd, x

\* What taking an element out of a list makes of it.
LEMMA RemoveLemma ==
  ASSUME NEW S, NEW s \in Seq(S), NEW i \in DOMAIN s, IsInjective(s)
  PROVE  /\ Unlink(s, i) \in Seq(S) /\ IsInjective(Unlink(s, i))
         /\ Range(Unlink(s, i)) = Range(s) \ {s[i]}
<1> DEFINE r == Unlink(s, i)
           a == SubSeq(s, 1, i - 1)
           z == SubSeq(s, i + 1, Len(s))
           n == Len(s)
           k(j) == IF j < i THEN j ELSE j + 1
<1>1. n \in Nat /\ DOMAIN s = 1..n /\ i \in 1..n /\ \A j \in 1..n : s[j] \in S
  OBVIOUS
<1>2. a \in Seq(S) /\ Len(a) = i - 1 /\ \A j \in 1..(i - 1) : a[j] = s[j]
  BY <1>1
<1>3. z \in Seq(S) /\ Len(z) = n - i /\ \A j \in 1..(n - i) : z[j] = s[i + j]
  <2>1. z \in Seq(S) /\ Len(z) = n - i
    BY <1>1
  <2>2. ASSUME NEW j \in 1..(n - i) PROVE z[j] = s[i + j]
    <3>1. z[j] = s[(i + 1) + j - 1]
      BY <1>1
    <3>2. (i + 1) + j - 1 = i + j
      BY <1>1
    <3> QED BY <3>1, <3>2
  <2> QED BY <2>1, <2>2
<1>4. r = a \o z
  BY DEF Unlink
<1> HIDE DEF a, z
<1>5. r \in Seq(S) /\ Len(r) = n - 1
  <2>1. a \in Seq(S) /\ z \in Seq(S)
    BY <1>2, <1>3
  <2>2. a \o z \in Seq(S) /\ Len(a \o z) = Len(a) + Len(z)
    BY SMTT(30), <2>1
  <2> QED BY <1>1, <1>2, <1>3, <1>4, <2>2
<1>6. ASSUME NEW j \in 1..(n - 1) PROVE r[j] = s[k(j)] /\ k(j) \in DOMAIN s /\ k(j) # i
  <2>1. CASE j < i
    BY <1>1, <1>2, <1>3, <1>4, <2>1
  <2>2. CASE j >= i
    <3>1. r[j] = z[j - (i - 1)] /\ j - (i - 1) \in 1..(n - i)
      BY SMTT(30), <1>1, <1>2, <1>3, <1>4, <2>2
    <3>2. z[j - (i - 1)] = s[i + (j - (i - 1))]
      BY <1>3, <3>1
    <3>3. i + (j - (i - 1)) = j + 1
      BY <1>1
    <3> QED BY <1>1, <2>2, <3>1, <3>2, <3>3
  <2> QED BY <1>1, <2>1, <2>2
<1> HIDE DEF r
<1>7. DOMAIN r = 1..(n - 1)
  BY <1>1, <1>5
<1>8. \A j, m \in 1..(n - 1) : k(j) = k(m) => j = m
  BY <1>1
<1>9. \A m \in 1..n : m # i => \E j \in 1..(n - 1) : m = k(j)
  <2> SUFFICES ASSUME NEW m \in 1..n, m # i PROVE \E j \in 1..(n - 1) : m = k(j)
    OBVIOUS
  <2>1. CASE m < i
    <3>1. m \in 1..(n - 1) /\ m = k(m)
      BY <1>1, <2>1
    <3> QED BY <3>1
  <2>2. CASE m > i
    <3>1. m - 1 \in 1..(n - 1) /\ m = k(m - 1)
      BY <1>1, <2>2
    <3> QED BY <3>1
  <2> QED BY <1>1, <2>1, <2>2
<1> HIDE DEF k
<1>10. IsInjective(r)
  BY Zenon, <1>6, <1>7, <1>8 DEF IsInjective
<1>11. ASSUME NEW y \in Range(r) PROVE y \in Range(s) /\ y # s[i]
  <2>1. PICK j \in 1..(n - 1) : y = r[j]
    BY Zenon, <1>7 DEF Range
  <2>2. y = s[k(j)] /\ k(j) \in DOMAIN s /\ k(j) # i
    BY Zenon, <1>6, <2>1
  <2> QED BY Zenon, <2>2 DEF Range, IsInjective
<1>12. ASSUME NEW y \in Range(s), y # s[i] PROVE y \in Range(r)
  <2>1. PICK m \in 1..n : y = s[m] /\ m # i
    BY Zenon, <1>1, <1>12 DEF Range
  <2>2. PICK j \in 1..(n - 1) : m = k(j)
    BY Zenon, <1>9, <2>1
  <2> QED BY Zenon, <1>6, <1>7, <2>1, <2>2 DEF Range
<1> QED BY <1>5, <1>10, <1>11, <1>12 DEF r

\* The first half of kfree_big(): without its node, a big block is pages and
\* the small block the node was in.
LEMMA UnlinkNode ==
  ASSUME NEW h, NEW L, HInv(h, L), NEW i \in DOMAIN h.big
  PROVE  LET nd == h.big[i]
             b == [addr |-> nd.vaddr, len |-> nd.pages * P, kind |-> "page"]
         IN  HInv([h EXCEPT !.big = Unlink(@, i)],
                  (L \ {BlockOf(nd)}) \cup {b, SmallBlock(nd.node, 1)})
<1> DEFINE nd == h.big[i]
           B == BlockOf(nd)
           x == nd.node
           b == [addr |-> nd.vaddr, len |-> nd.pages * P, kind |-> "page"]
           c == SmallBlock(x, 1)
           q == Unlink(h.big, i)
           g == [h EXCEPT !.big = q]
           M == (L \ {B}) \cup {b, c}
<1>1. /\ h \in HeapType /\ L \in SUBSET BlockType /\ PagesOK(h, L) /\ SlotsOK(h, L)
      /\ SlotsOnce(h, L) /\ PoolsOK(h, L) /\ BigOK(h, L)
  BY DEF HInv
<1>2. h.big \in Seq(NodeType) /\ IsInjective(h.big) /\ nd \in Range(h.big)
  BY <1>1 DEF HeapType, BigOK, Range
<1>3. nd \in NodeType
  BY <1>2
<1>4. q \in Seq(NodeType) /\ IsInjective(q) /\ Range(q) = Range(h.big) \ {nd}
  BY <1>2, RemoveLemma
<1> HIDE DEF q, nd
<1>5. nd.vaddr \in Nat /\ nd.pages \in Nat /\ x \in Nat /\ Slot_size[1] \in Nat /\ nd.pages * P \in Nat
  BY <1>3, SizesAssumption, OneIsTier, PageAssumption DEF NodeType, Tiers
<1>6. B \in L /\ B.addr = nd.vaddr /\ B.len = nd.pages * P /\ B.kind = "big"
  BY <1>1, <1>2 DEF BigOK, BlockOf
<1>7. /\ b \in BlockType /\ b.addr = B.addr /\ b.len = B.len /\ b.kind = "page"
      /\ c \in BlockType /\ c.addr = x /\ c.len = Slot_size[1] /\ c.kind = "small"
  BY <1>5, <1>6 DEF BlockType, SmallBlock
<1> HIDE DEF b, c, B
<1>8. /\ g \in HeapType /\ g.taken = h.taken /\ g.word = h.word /\ g.big = q
      /\ g.free_head = h.free_head
  BY Zenon, <1>1, <1>4 DEF HeapType
<1> HIDE DEF g
<1>9. x \in NodesOf(h) /\ NodesOf(g) = NodesOf(h) \ {x} /\ \A v : Free(g, v) = Free(h, v)
  <2>1. x \in NodesOf(h)
    BY <1>2 DEF NodesOf
  <2>2. \A m \in Range(h.big) : m.node = x => m = nd
    BY <1>1, <1>2 DEF BigOK
  <2>3. NodesOf(g) = NodesOf(h) \ {x}
    BY <1>4, <1>8, <2>2 DEF NodesOf
  <2> QED BY <1>8, <2>1, <2>3 DEF Free
<1>10. /\ Paged(M) = (Paged(L) \ {B}) \cup {b} /\ Small(M) = Small(L) \cup {c}
       /\ {d \in M : d.kind = "big"} = {d \in L : d.kind = "big"} \ {B} /\ Smalls(M) = Smalls(L) \cup {x}
       /\ M \in SUBSET BlockType
  <2>1. Paged(M) = (Paged(L) \ {B}) \cup {b} /\ Small(M) = Small(L) \cup {c}
    BY <1>6, <1>7 DEF Paged, Small
  <2>2. {d \in M : d.kind = "big"} = {d \in L : d.kind = "big"} \ {B}
    BY <1>7
  <2>3. Smalls(M) = Smalls(L) \cup {x}
    BY <1>7, <2>1 DEF Smalls
  <2> QED BY Zenon, <1>1, <1>7, <2>1, <2>2, <2>3
<1> HIDE DEF M, x
<1>11. PagesOK(g, M) /\ PoolsOf(g, M) = PoolsOf(h, L)
  <2>1. PagesOK(h, L) /\ g.taken = h.taken
    BY Zenon, <1>1, <1>8
  <2>2. b.addr = B.addr /\ b.len = B.len /\ Paged(M) = (Paged(L) \ {B}) \cup {b} /\ B \in Paged(L)
    BY <1>6, <1>7, <1>10 DEF Paged
  <2> QED BY <2>1, <2>2, Relabel
<1>12. \A y, v : SlotAt(g, M, y, v) <=> SlotAt(h, L, y, v)
  BY Zenon, <1>8, <1>11 DEF SlotAt
<1>13. SlotsOK(g, M)
  <2>1. \A d \in Small(M) : \E v \in Tiers : SlotAt(g, M, d.addr, v) /\ d.len = Slot_size[v]
    BY ZenonT(30), <1>1, <1>7, <1>9, <1>10, <1>12, OneIsTier DEF SlotsOK
  <2>2. \A y \in NodesOf(g) : SlotAt(g, M, y, 1)
    BY Zenon, <1>1, <1>9, <1>12 DEF SlotsOK
  <2>3. \A v \in Tiers : \A y \in Free(g, v) : SlotAt(g, M, y, v)
    BY Zenon, <1>1, <1>9, <1>12 DEF SlotsOK
  <2> QED BY Zenon, <2>1, <2>2, <2>3 DEF SlotsOK
<1>14. SlotsOnce(g, M)
  <2>1. Smalls(M) \cap NodesOf(g) = {}
    BY <1>1, <1>9, <1>10 DEF SlotsOnce
  <2>2. \A v \in Tiers : Free(g, v) \cap (Smalls(M) \cup NodesOf(g)) = {}
    BY <1>1, <1>9, <1>10 DEF SlotsOnce
  <2>3. \A v \in Tiers : IsInjective(g.free_head[v])
    BY Zenon, <1>1, <1>8 DEF SlotsOnce
  <2> QED BY Zenon, <2>1, <2>2, <2>3 DEF SlotsOnce
<1>15. Used(g, M) = Used(h, L)
  BY <1>9, <1>10 DEF Used
<1>16. PoolsOK(g, M)
  BY Zenon, <1>1, <1>8, <1>11, <1>15 DEF PoolsOK
<1>17. BigOK(g, M)
  <2>1. \A m \in Range(h.big) : BlockOf(m) = B => m = nd
    BY <1>1, <1>2, <1>6 DEF BigOK, BlockOf
  <2>2. {d \in M : d.kind = "big"} = {BlockOf(m) : m \in Range(g.big)}
    BY ZenonT(30), <1>1, <1>4, <1>8, <1>10, <2>1 DEF BigOK, B
  <2>3. \A m, k \in Range(g.big) : m.vaddr = k.vaddr \/ m.node = k.node => m = k
    BY Zenon, <1>1, <1>4, <1>8 DEF BigOK
  <2> QED BY ZenonT(30), <1>4, <1>8, <2>2, <2>3 DEF BigOK
<1>18. HInv(g, M)
  BY ZenonT(30), <1>8, <1>10, <1>11, <1>13, <1>14, <1>16, <1>17 DEF HInv
<1> QED BY ZenonT(30), <1>18 DEF M, B, b, c, g, q, nd, x

-----------------------------------------------------------------------------
(* The functions of kmalloc.c.                                             *)

\* init_tier() of an empty tier keeps the heap sound.
LEMMA InitTierStep ==
  ASSUME NEW h, NEW L, HInv(h, L), NEW t \in Tiers, h.free_head[t] = <<>>
  PROVE  Init_tier(h, t) = h \/ HInv(Init_tier(h, t), L)
<1> DEFINE p == Alloc_pages(h, 1)
<1>1. h \in HeapType /\ 1 \in Nat \ {0}
  BY DEF HInv
<1>2. CASE p.addr = NULL
  BY <1>2 DEF Init_tier
<1>3. CASE p.addr # NULL
  <2>1. PICK f \in Frames : /\ p.addr = f * P /\ f..(f + 1 - 1) \subseteq Frames \ h.taken
                            /\ p.heap = [h EXCEPT !.taken = @ \cup f..(f + 1 - 1)]
    <3> DEFINE E(f, n) == /\ p.addr = f * P /\ p.addr # NULL /\ n \in 1..NPages
                          /\ f..(f + n - 1) \subseteq Frames \ h.taken
                          /\ p.heap = [h EXCEPT !.taken = @ \cup f..(f + n - 1)]
    <3>1. p.addr = NULL \/ \E f \in Frames : E(f, 1)
      BY ZenonT(30), <1>1, AllocLemma
    <3> QED BY Zenon, <1>3, <3>1
  <2>2. f \in Nat /\ f..(f + 1 - 1) = {f}
    BY SizesAssumption DEF Frames
  <2>3. Frame_of(p.addr) = f
    BY <2>1, <2>2, RunLemma
  <2>4. Init_tier(h, t) = [p.heap EXCEPT !.word[f] = t, !.free_head[t] = Slots(f * P, Slot_size[t])]
    BY Zenon, <1>3, <2>1, <2>3 DEF Init_tier
  <2> HIDE DEF p
  <2> DEFINE s == Slots(f * P, Slot_size[t])
  <2>5. HInv([h EXCEPT !.taken = @ \cup {f}, !.word[f] = t, !.free_head[t] = s], L)
    BY Zenon, <2>1, <2>2, NewPool
  <2> HIDE DEF s
  <2>6. [p.heap EXCEPT !.word[f] = t, !.free_head[t] = s]
        = [h EXCEPT !.taken = @ \cup {f}, !.word[f] = t, !.free_head[t] = s]
    BY Zenon, <1>1, <2>1, <2>2 DEF HeapType
  <2> QED BY Zenon, <2>4, <2>5, <2>6 DEF s
<1> QED BY <1>2, <1>3

\* kmalloc_small() gives a new small block, or changes nothing.
LEMMA SmallStep ==
  ASSUME NEW h, NEW L, HInv(h, L), NEW t \in Tiers
  PROVE  LET r == Kmalloc_small(h, t)
         IN  \/ r.addr = NULL /\ r.heap = h
             \/ /\ r.addr # NULL /\ r.addr \in Nat /\ r.addr \notin Smalls(L)
                /\ HInv(r.heap, L \cup {SmallBlock(r.addr, t)})
<1> DEFINE g == IF h.free_head[t] # <<>> THEN h ELSE Init_tier(h, t)
           r == Kmalloc_small(h, t)
<1>1. HInv(g, L)
  BY Zenon, InitTierStep
<1>2. r = IF g.free_head[t] = <<>> THEN [heap |-> h, addr |-> NULL]
          ELSE [heap |-> [g EXCEPT !.free_head[t] = Tail(@)], addr |-> Head(g.free_head[t])]
  BY Zenon DEF Kmalloc_small
<1> HIDE DEF g, r
<1>3. CASE g.free_head[t] = <<>>
  BY <1>2, <1>3 DEF r
<1>4. CASE g.free_head[t] # <<>>
  <2> DEFINE x == Head(g.free_head[t])
             k == [g EXCEPT !.free_head[t] = Tail(@)]
  <2>1. HInv(k, L \cup {SmallBlock(x, t)}) /\ x \in Nat /\ x # NULL /\ x \notin Smalls(L)
    BY Zenon, <1>1, <1>4, PopSlot
  <2>2. r = [heap |-> k, addr |-> x]
    BY Zenon, <1>2, <1>4
  <2> HIDE DEF k, x
  <2>3. r.heap = k /\ r.addr = x
    BY <2>2
  <2> QED BY Zenon, <2>1, <2>3 DEF r
<1> QED BY <1>3, <1>4

\* The node of a big block is a block of the first tier.
LEMMA NodeTier == Min(Tier_of(NodeSize)) = 1
<1> DEFINE S == Tier_of(NodeSize)
<1>1. 1 \in S /\ S \in SUBSET Nat /\ \A t \in S : t >= 1
  BY SizesAssumption DEF Tier_of, Tiers
<1> HIDE DEF S
<1>2. Min(S) = 1
  <2>1. \A y \in S : y \in Nat
    BY <1>1
  <2>2. \A x \in S : (\A y \in S : x <= y) <=> x = 1
    BY <1>1, <2>1
  <2> QED BY Zenon, <1>1, <2>2 DEF Min
<1> QED BY <1>2 DEF S

BigBlock(a, n) == [addr |-> a, len |-> n * P, kind |-> "big"]

\* kmalloc_big() gives a new big block, or takes nothing: the pages go back
\* when there is no node.
LEMMA BigStep ==
  ASSUME NEW h, NEW L, HInv(h, L), NEW n \in Nat \ {0}
  PROVE  LET r == Kmalloc_big(h, n)
         IN  \/ r.addr = NULL /\ HInv(r.heap, L)
             \/ r.addr # NULL /\ HInv(r.heap, L \cup {BigBlock(r.addr, n)})
<1> DEFINE p == Alloc_pages(h, n)
           q == Kmalloc_small(p.heap, 1)
           r == Kmalloc_big(h, n)
           nd == [vaddr |-> p.addr, pages |-> n, node |-> q.addr]
<1>1. h \in HeapType /\ PagesOK(h, L)
  BY DEF HInv
<1>2. r = IF p.addr = NULL THEN [heap |-> h, addr |-> NULL]
          ELSE IF q.addr = NULL
          THEN [heap |-> Free_pages(q.heap, p.addr, n), addr |-> NULL]
          ELSE [heap |-> [q.heap EXCEPT !.big = <<nd>> \o @], addr |-> p.addr]
  BY Zenon, NodeTier DEF Kmalloc_big
<1> HIDE DEF r
<1>3. CASE p.addr = NULL
  BY <1>2, <1>3 DEF r
<1>4. CASE p.addr # NULL
  <2>1. PICK f \in Frames : /\ p.addr = f * P /\ n \in 1..NPages /\ f..(f + n - 1) \subseteq Frames \ h.taken
                            /\ p.heap = [h EXCEPT !.taken = @ \cup f..(f + n - 1)]
    BY Zenon, <1>1, <1>4, AllocLemma
  <2>2. f \in Nat /\ n \in Nat /\ f \in f..(f + n - 1)
    BY <2>1, SizesAssumption DEF Frames
  <2> DEFINE b == PageBlock(f, n)
             K == L \cup {b}
  <2>3. HInv(p.heap, K)
    <3>1. HInv([h EXCEPT !.taken = @ \cup f..(f + n - 1)], L \cup {PageBlock(f, n)})
      BY <2>1, TakeRun
    <3> QED BY Zenon, <2>1, <3>1
  <2>4. b.addr = p.addr /\ b.len = n * P /\ b.kind = "page"
    BY <2>1 DEF PageBlock
  <2>5. b \notin L
    <3>1. Frames_of(b.addr, b.len) = f..(f + n - 1)
      BY Zenon, <2>2, PageBlockLemma
    <3>2. b \in L => b \in Paged(L)
      BY <2>4 DEF Paged
    <3>3. b \in L => f \in h.taken
      BY Zenon, <1>1, <2>2, <3>1, <3>2, PagedLemma DEF HeldBy
    <3> QED BY Zenon, <2>1, <2>2, <3>3
  <2>6. b.len \div P = n
    <3>1. Frame_of(n * P) = n
      BY <2>2, RunLemma
    <3> QED BY <2>4, <3>1 DEF Frame_of, P
  <2> HIDE DEF b, p
  <2>7. CASE q.addr = NULL
    <3>1. q.heap = p.heap
      BY ZenonT(30), <2>3, <2>7, OneIsTier, SmallStep
    <3>2. HInv(Free_pages(p.heap, p.addr, n), K \ {b})
      BY ZenonT(30), <2>3, <2>4, <2>6, GiveRun
    <3>3. K \ {b} = L
      BY Zenon, <2>5
    <3>4. r.addr = NULL /\ r.heap = Free_pages(p.heap, p.addr, n)
      BY <1>2, <1>4, <2>7, <3>1
    <3> QED BY Zenon, <3>2, <3>3, <3>4 DEF r
  <2>8. CASE q.addr # NULL
    <3> DEFINE c == SmallBlock(q.addr, 1)
               J == K \cup {c}
    <3>1. q.addr \in Nat /\ q.addr \notin Smalls(K) /\ HInv(q.heap, J)
      BY ZenonT(30), <2>3, <2>8, OneIsTier, SmallStep
    <3>2. c.addr = q.addr /\ c.len = Slot_size[1] /\ c.kind = "small"
      BY DEF SmallBlock
    <3>3. c \notin L
      BY <3>1, <3>2 DEF Smalls, Small
    <3> HIDE DEF c, q
    <3>4. HInv([q.heap EXCEPT !.big = <<nd>> \o @], (J \ {b, c}) \cup {BlockOf(nd)})
      <4>1. b \in J /\ c \in J
        BY Zenon
      <4>2. nd = [vaddr |-> b.addr, pages |-> n, node |-> c.addr]
        BY Zenon, <2>4, <3>2
      <4> HIDE DEF J, nd
      <4> QED BY ZenonT(30), <2>2, <2>4, <3>1, <3>2, <4>1, <4>2, LinkNode
    <3>5. J \ {b, c} = L
      BY Zenon, <2>5, <3>3
    <3>6. BlockOf(nd) = BigBlock(p.addr, n)
      BY DEF BlockOf, BigBlock
    <3>7. r.addr = p.addr /\ r.heap = [q.heap EXCEPT !.big = <<nd>> \o @]
      <4> HIDE DEF nd
      <4> QED BY <1>2, <1>4, <2>8
    <3> HIDE DEF J, nd
    <3> QED BY ZenonT(30), <1>4, <3>4, <3>5, <3>6, <3>7 DEF r
  <2> QED BY <2>7, <2>8
<1> QED BY <1>3, <1>4

\* kfree_big() of the node it finds takes one big block away.
LEMMA FreeBigStep ==
  ASSUME NEW h, NEW L, HInv(h, L), NEW i \in DOMAIN h.big
  PROVE  HInv(Kfree_big(h, i), L \ {BlockOf(h.big[i])})
<1> DEFINE nd == h.big[i]
           B == BlockOf(nd)
           b == [addr |-> nd.vaddr, len |-> nd.pages * P, kind |-> "page"]
           c == SmallBlock(nd.node, 1)
           K == (L \ {B}) \cup {b, c}
           h1 == [h EXCEPT !.big = Unlink(@, i)]
           h2 == Free_pages(h1, nd.vaddr, nd.pages)
<1>1. /\ h \in HeapType /\ PagesOK(h, L) /\ BigOK(h, L) /\ SlotsOnce(h, L)
  BY DEF HInv
<1>2. nd \in Range(h.big) /\ nd \in NodeType
  BY <1>1 DEF HeapType, Range
<1>3. HInv(h1, K)
  BY Zenon, UnlinkNode
<1>4. Kfree_big(h, i) = Kfree_small(h2, nd.node)
  BY Zenon DEF Kfree_big
<1> HIDE DEF h1, nd
<1>5. b.addr = nd.vaddr /\ b.len = nd.pages * P /\ b.kind = "page"
  OBVIOUS
<1>6. c.addr = nd.node /\ c.len = Slot_size[1] /\ c.kind = "small"
  BY DEF SmallBlock
<1>7. B \in L /\ B.addr = nd.vaddr /\ B.len = nd.pages * P /\ B.kind = "big"
  BY <1>1, <1>2 DEF BigOK, BlockOf
<1> HIDE DEF b, c, B
<1>8. b \notin L
  <2>1. B \in Paged(L) /\ b # B
    BY <1>5, <1>7 DEF Paged
  <2>2. b \in L => b \in Paged(L)
    BY <1>5 DEF Paged
  <2>3. Frame_of(B.addr) \in Frames_of(B.addr, B.len)
    BY <1>1, <2>1, HeadHeld
  <2> QED BY ZenonT(30), <1>1, <1>5, <1>7, <2>1, <2>2, <2>3 DEF PagesOK
<1>9. c \notin L
  <2>1. nd.node \in NodesOf(h)
    BY <1>2 DEF NodesOf
  <2> QED BY <1>1, <1>6, <2>1 DEF SlotsOnce, Smalls, Small
<1>10. b.len \div P = nd.pages
  <2>1. nd.pages \in Nat
    BY <1>2 DEF NodeType
  <2>2. Frame_of(nd.pages * P) = nd.pages
    BY <2>1, RunLemma
  <2> QED BY <1>5, <2>2 DEF Frame_of, P
<1>11. HInv(h2, K \ {b})
  <2>1. b \in K
    BY Zenon
  <2> HIDE DEF K
  <2> QED BY ZenonT(30), <1>3, <1>5, <1>10, <2>1, GiveRun
<1>12. HInv(Kfree_small(h2, nd.node), (K \ {b}) \ {c})
  <2>1. c \in K \ {b}
    BY <1>5, <1>6
  <2> HIDE DEF K, h2
  <2> QED BY ZenonT(30), <1>6, <1>11, <2>1, PushSlot
<1>13. (K \ {b}) \ {c} = L \ {B}
  BY Zenon, <1>8, <1>9
<1> QED BY Zenon, <1>4, <1>12, <1>13 DEF B, nd

-----------------------------------------------------------------------------
(* The steps of the heap's users.                                          *)

\* A big block begins on a page of its own.
LEMMA BigHeld ==
  ASSUME NEW h, NEW L, HInv(h, L), NEW b \in L, b.kind # "small"
  PROVE  Frame_of(b.addr) \in HeldBy(L)
<1>1. h \in HeapType /\ PagesOK(h, L) /\ b \in Paged(L)
  BY DEF HInv, Paged
<1>2. Frame_of(b.addr) \in Frames_of(b.addr, b.len)
  BY <1>1, HeadHeld
<1> QED BY Zenon, <1>1, <1>2 DEF HeldBy

\* What PAGE_ALIGN_UP() gives is at least one page.
LEMMA AlignLemma ==
  ASSUME NEW size \in Nat \ {0}
  PROVE  \E k \in Nat \ {0} : PAGE_ALIGN_UP(size) = k * P /\ PAGE_ALIGN_UP(size) \div PAGE_SIZE = k
<1> DEFINE k == (size + P - 1) \div P
<1>1. P \in Nat /\ P > 0
  BY PageAssumption
<1>2. size + P - 1 \in Nat /\ size + P - 1 >= P
  BY <1>1
<1>3. k \in Nat /\ size + P - 1 < k * P + P
  BY <1>1, <1>2
<1>4. k # 0
  BY <1>1, <1>2, <1>3
<1>5. PAGE_ALIGN_UP(size) = k * P
  BY DEF PAGE_ALIGN_UP, P
<1> HIDE DEF k
<1>6. Frame_of(k * P) = k
  BY <1>3, RunLemma
<1> QED BY <1>3, <1>4, <1>5, <1>6 DEF Frame_of

\* kmalloc() and kzalloc().
LEMMA KmallocStep ==
  ASSUME HInv(heap, live), NEW size \in Sizes, NEW zero \in BOOLEAN, Kmalloc(size, zero)
  PROVE  HInv(heap', live')
<1>1. CASE Tier_of(size) # {}
  <2> DEFINE t == Min(Tier_of(size))
             r == Kmalloc_small(heap, t)
  <2>1. t \in Tiers
    <3>1. Tier_of(size) \in SUBSET Nat
      BY SizesAssumption DEF Tier_of, Tiers
    <3>2. t \in Tier_of(size)
      BY SMTT(30), <1>1, <3>1, MinLemma
    <3> QED BY <3>2 DEF Tier_of
  <2>2. heap' = r.heap /\ live' = IF r.addr = NULL THEN live ELSE live \cup {SmallBlock(r.addr, t)}
    BY Zenon, <1>1 DEF Kmalloc, Hold, SmallBlock
  <2>3. \/ r.addr = NULL /\ r.heap = heap
        \/ r.addr # NULL /\ HInv(r.heap, live \cup {SmallBlock(r.addr, t)})
    BY Zenon, <2>1, SmallStep
  <2> HIDE DEF r, t
  <2> QED BY Zenon, <2>2, <2>3
<1>2. CASE Tier_of(size) = {}
  <2>1. PICK k \in Nat \ {0} : PAGE_ALIGN_UP(size) = k * P /\ PAGE_ALIGN_UP(size) \div PAGE_SIZE = k
    BY SizesAssumption, AlignLemma
  <2> DEFINE r == Kmalloc_big(heap, k)
             B == BigBlock(r.addr, k)
  <2>2. /\ heap' = IF zero /\ r.addr # NULL THEN [r.heap EXCEPT !.word[Frame_of(r.addr)] = 0] ELSE r.heap
        /\ live' = IF r.addr = NULL THEN live ELSE live \cup {B}
    BY Zenon, <1>2, <2>1 DEF Kmalloc, Hold, BigBlock
  <2>3. \/ r.addr = NULL /\ HInv(r.heap, live)
        \/ r.addr # NULL /\ HInv(r.heap, live \cup {B})
    BY Zenon, <2>1, BigStep
  <2>4. B.addr = r.addr /\ B.kind = "big"
    BY DEF BigBlock
  <2> HIDE DEF r, B
  <2>5. CASE r.addr = NULL
    BY Zenon, <2>2, <2>3, <2>5
  <2>6. CASE r.addr # NULL
    <3>1. HInv(r.heap, live \cup {B}) /\ live' = live \cup {B}
      BY Zenon, <2>2, <2>3, <2>6
    <3>2. Frame_of(r.addr) \in HeldBy(live \cup {B})
      BY Zenon, <2>4, <3>1, BigHeld
    <3>3. HInv([r.heap EXCEPT !.word[Frame_of(r.addr)] = 0], live \cup {B})
      BY Zenon, <3>1, <3>2, WriteWord
    <3> QED BY Zenon, <2>2, <3>1, <3>3
  <2> QED BY <2>5, <2>6
<1> QED BY <1>1, <1>2

\* kfree(): a block of the heap is not the panic, and if the first word of a
\* big block is not taken for a header, the heap is sound without the block.
LEMMA KfreeStep ==
  ASSUME HInv(heap, live), NEW b \in live, Kfree(b), ~fooled'
  PROVE  ~panicked' /\ HInv(heap', live')
<1> DEFINE nodes == {i \in DOMAIN heap.big : heap.big[i].vaddr = b.addr}
           t == heap.word[Frame_of(b.addr)]
<1>1. /\ b.kind # "page" /\ live' = live \ {b}
      /\ heap' = IF t # 0 THEN Kfree_small(heap, b.addr)
                 ELSE IF nodes = {} THEN heap ELSE Kfree_big(heap, Min(nodes))
      /\ panicked' = (t = 0 /\ nodes = {})
      /\ ~(t # 0 /\ b.kind = "big")
  BY Zenon DEF Kfree
<1>2. /\ heap \in HeapType /\ live \in SUBSET BlockType /\ BigOK(heap, live)
  BY DEF HInv
<1>3. b.kind \in {"small", "big"}
  BY <1>1, <1>2 DEF BlockType
<1>4. CASE b.kind = "small"
  <2>1. HInv(Kfree_small(heap, b.addr), live \ {b}) /\ t \in Tiers
    BY Zenon, <1>4, PushSlot
  <2>2. t # 0
    BY <2>1, SizesAssumption DEF Tiers
  <2> QED BY Zenon, <1>1, <2>1, <2>2
<1>5. CASE b.kind = "big"
  <2>1. PICK m \in Range(heap.big) : b = BlockOf(m)
    BY Zenon, <1>2, <1>5 DEF BigOK
  <2>2. b.addr = m.vaddr
    BY <2>1 DEF BlockOf
  <2>3. nodes # {}
    BY <2>1, <2>2 DEF Range
  <2>4. nodes \in SUBSET Nat
    BY <1>2 DEF HeapType
  <2> DEFINE i == Min(nodes)
  <2>5. i \in nodes
    <3> HIDE DEF nodes
    <3> QED BY SMTT(30), <2>3, <2>4, MinLemma
  <2> HIDE DEF i
  <2>6. i \in DOMAIN heap.big /\ heap.big[i].vaddr = m.vaddr /\ heap.big[i] \in Range(heap.big)
    BY <2>2, <2>5 DEF Range
  <2>7. heap.big[i] = m
    BY Zenon, <1>2, <2>1, <2>6 DEF BigOK
  <2>8. HInv(Kfree_big(heap, i), live \ {b})
    BY Zenon, <2>1, <2>6, <2>7, FreeBigStep
  <2> QED BY Zenon, <1>1, <1>5, <2>3, <2>8 DEF i
<1> QED BY <1>3, <1>4, <1>5

\* alloc_page(), alloc_pages(), free_page() and free_pages() by other code.
LEMMA PageAllocStep ==
  ASSUME HInv(heap, live), NEW n \in 1..2, Page_alloc(n)
  PROVE  HInv(heap', live')
<1> DEFINE r == Alloc_pages(heap, n)
<1>1. heap \in HeapType /\ n \in Nat \ {0}
  BY DEF HInv
<1>2. heap' = r.heap /\ live' = IF r.addr = NULL THEN live ELSE live \cup {[addr |-> r.addr, len |-> n * P, kind |-> "page"]}
  BY Zenon DEF Page_alloc, Hold, P
<1>3. \/ r.addr = NULL /\ r.heap = heap
      \/ \E f \in Frames : /\ r.addr = f * P /\ r.addr # NULL /\ n \in 1..NPages
                           /\ f..(f + n - 1) \subseteq Frames \ heap.taken
                           /\ r.heap = [heap EXCEPT !.taken = @ \cup f..(f + n - 1)]
  BY ZenonT(30), <1>1, AllocLemma
<1> HIDE DEF r
<1>4. CASE r.addr = NULL
  BY Zenon, <1>2, <1>3, <1>4
<1>5. CASE r.addr # NULL
  <2>1. PICK f \in Frames : /\ r.addr = f * P /\ n \in 1..NPages
                            /\ f..(f + n - 1) \subseteq Frames \ heap.taken
                            /\ r.heap = [heap EXCEPT !.taken = @ \cup f..(f + n - 1)]
    BY Zenon, <1>3, <1>5
  <2>2. HInv([heap EXCEPT !.taken = @ \cup f..(f + n - 1)], live \cup {PageBlock(f, n)})
    BY <2>1, TakeRun
  <2> QED BY Zenon, <1>2, <1>5, <2>1, <2>2 DEF PageBlock
<1> QED BY <1>4, <1>5

\* The steps keep the inductive invariant.
LEMMA NextKInv == KInv /\ [Next]_vars => KInv'
<1> SUFFICES ASSUME KInv, [Next]_vars, ~fooled' PROVE ~panicked' /\ HInv(heap', live')
  BY DEF KInv
<1>1. CASE UNCHANGED vars
  BY Zenon, <1>1 DEF vars, KInv
<1>2. CASE Halted
  BY Zenon, <1>2 DEF vars, KInv, Halted
<1>3. ASSUME NEW size \in Sizes, NEW zero \in BOOLEAN, Kmalloc(size, zero)
      PROVE  ~panicked' /\ HInv(heap', live')
  <2>1. ~fooled /\ ~panicked /\ ~panicked'
    BY Zenon, <1>3 DEF Kmalloc, Sound
  <2> QED BY Zenon, <1>3, <2>1, KmallocStep DEF KInv
<1>4. ASSUME NEW b \in live, Kfree(b) PROVE ~panicked' /\ HInv(heap', live')
  <2>1. ~fooled
    BY Zenon, <1>4 DEF Kfree, Sound
  <2> QED BY Zenon, <1>4, <2>1, KfreeStep DEF KInv
<1>5. ASSUME NEW n \in 1..2, Page_alloc(n) PROVE ~panicked' /\ HInv(heap', live')
  <2>1. ~fooled /\ ~panicked /\ ~panicked'
    BY Zenon, <1>5 DEF Page_alloc, Sound
  <2> QED BY Zenon, <1>5, <2>1, PageAllocStep DEF KInv
<1>6. ASSUME NEW b \in live, Page_free(b) PROVE ~panicked' /\ HInv(heap', live')
  <2>1. /\ ~fooled /\ ~panicked /\ ~panicked' /\ b.kind = "page" /\ live' = live \ {b}
        /\ heap' = Free_pages(heap, b.addr, b.len \div P)
    BY Zenon, <1>6 DEF Page_free, Sound, P
  <2> QED BY Zenon, <2>1, GiveRun DEF KInv
<1>7. ASSUME NEW b \in live, NEW w \in {0, 1}, Fill(b, w) PROVE ~panicked' /\ HInv(heap', live')
  <2>1. /\ ~fooled /\ ~panicked /\ ~panicked' /\ b.kind # "small" /\ live' = live
        /\ heap' = [heap EXCEPT !.word[Frame_of(b.addr)] = w]
    BY Zenon, <1>7 DEF Fill, Sound
  <2>2. HInv(heap, live) /\ w \in Tiers \cup {0}
    BY <2>1, OneIsTier DEF KInv
  <2>3. Frame_of(b.addr) \in HeldBy(live)
    BY ZenonT(30), <2>1, <2>2, BigHeld
  <2> QED BY Zenon, <2>1, <2>2, <2>3, WriteWord
<1> QED BY ZenonT(30), <1>1, <1>2, <1>3, <1>4, <1>5, <1>6, <1>7 DEF Next

\* An empty heap is sound.
LEMMA InitKInv == Init => KInv
<1> SUFFICES ASSUME Init PROVE ~panicked /\ HInv(heap, live)
  BY DEF KInv
<1>1. /\ heap.taken = {} /\ heap.free_head = [t \in Tiers |-> <<>>] /\ heap.big = <<>>
      /\ heap \in HeapType /\ live = {} /\ ~panicked
  BY DEF Init, HeapType
<1>2. Paged(live) = {} /\ Small(live) = {} /\ PoolsOf(heap, live) = {} /\ Smalls(live) = {}
  BY <1>1 DEF Paged, Small, PoolsOf, Smalls
<1>3. NodesOf(heap) = {} /\ Range(heap.big) = {} /\ IsInjective(heap.big)
  BY <1>1 DEF NodesOf, Range, IsInjective
<1>4. \A t \in Tiers : Free(heap, t) = {} /\ IsInjective(heap.free_head[t])
  BY <1>1 DEF Free, Range, IsInjective
<1>5. PagesOK(heap, live)
  BY <1>2 DEF PagesOK
<1>6. SlotsOK(heap, live) /\ SlotsOnce(heap, live) /\ PoolsOK(heap, live)
  BY <1>2, <1>3, <1>4 DEF SlotsOK, SlotsOnce, PoolsOK
<1>7. BigOK(heap, live)
  BY <1>1, <1>3 DEF BigOK
<1> QED BY <1>1, <1>5, <1>6, <1>7 DEF HInv

-----------------------------------------------------------------------------
(* What the invariant says of the bytes.                                   *)

NodeRanges == {[addr |-> n, len |-> Slot_size[1], kind |-> "node"] : n \in Nodes}
HeaderRanges == {[addr |-> f * PAGE_SIZE, len |-> 1, kind |-> "header"] : f \in Pools}
FreeRanges == UNION {{[addr |-> s, len |-> Slot_size[t], kind |-> "slot"] :
                        s \in Range(heap.free_head[t])} : t \in Tiers}
SlotRanges == Small(live) \cup NodeRanges \cup FreeRanges

\* The properties' names for the sets of the invariant.
LEMMA SameSets == /\ Nodes = NodesOf(heap) /\ Held = HeldBy(live) /\ Pools = PoolsOf(heap, live)
                  /\ Ranges = Paged(live) \cup SlotRanges \cup HeaderRanges
<1>1. Nodes = NodesOf(heap)
  <2>1. ASSUME NEW x \in Nodes PROVE x \in NodesOf(heap)
    BY Zenon DEF Nodes, NodesOf, Range
  <2>2. ASSUME NEW x \in NodesOf(heap) PROVE x \in Nodes
    BY Zenon DEF Nodes, NodesOf, Range
  <2> QED BY <2>1, <2>2
<1>2. Held = HeldBy(live)
  BY Zenon DEF Held, HeldBy, Paged
<1>3. Pools = PoolsOf(heap, live)
  BY Zenon, <1>2 DEF Pools, PoolsOf
<1>4. live = Paged(live) \cup Small(live)
  BY DEF Paged, Small
<1>5. Ranges = live \cup NodeRanges \cup HeaderRanges \cup FreeRanges
  BY Zenon DEF Ranges, NodeRanges, HeaderRanges, FreeRanges
<1>6. Ranges = Paged(live) \cup SlotRanges \cup HeaderRanges
  BY <1>4, <1>5 DEF SlotRanges
<1> QED BY <1>1, <1>2, <1>3, <1>6

\* A small block, a node or a free slot is a slot of a pool.
LEMMA SlotRangeLemma ==
  ASSUME HInv(heap, live), NEW a \in SlotRanges
  PROVE  /\ a \in [addr : Nat, len : Nat, kind : {"small", "node", "slot"}]
         /\ \E t \in Tiers : SlotAt(heap, live, a.addr, t) /\ a.len = Slot_size[t]
         /\ a.kind = "small" => a.addr \in Smalls(live)
         /\ a.kind = "node" => a.addr \in NodesOf(heap)
         /\ a.kind = "slot" => \E t \in Tiers : a.addr \in Free(heap, t)
<1>1. heap \in HeapType /\ live \in SUBSET BlockType /\ SlotsOK(heap, live)
  BY DEF HInv
<1>2. \A t \in Tiers : Slot_size[t] \in Nat
  BY SizesAssumption DEF Tiers
<1>3. CASE a \in Small(live)
  <2>1. a \in BlockType /\ a.kind = "small" /\ a.addr \in Smalls(live)
    BY <1>1, <1>3 DEF Small, Smalls
  <2>2. a \in [addr : Nat, len : Nat, kind : {"small", "node", "slot"}]
    BY <2>1 DEF BlockType
  <2>3. \E t \in Tiers : SlotAt(heap, live, a.addr, t) /\ a.len = Slot_size[t]
    BY Zenon, <1>1, <1>3 DEF SlotsOK
  <2> QED BY <2>1, <2>2, <2>3
<1>4. CASE a \in NodeRanges
  <2>1. PICK n \in NodesOf(heap) : a = [addr |-> n, len |-> Slot_size[1], kind |-> "node"]
    BY Zenon, <1>4, SameSets DEF NodeRanges
  <2>2. a.addr = n /\ a.len = Slot_size[1] /\ a.kind = "node"
    BY <2>1
  <2>3. SlotAt(heap, live, n, 1)
    BY Zenon, <1>1 DEF SlotsOK
  <2>4. n \in Nat
    BY <1>1, <2>3, OneIsTier, SlotAtLemma
  <2>5. a \in [addr : Nat, len : Nat, kind : {"small", "node", "slot"}]
    BY <1>2, <2>1, <2>4, OneIsTier
  <2> QED BY <2>2, <2>3, <2>5, OneIsTier
<1>5. CASE a \in FreeRanges
  <2>0. PICK t \in Tiers : \E x \in Free(heap, t) : a = [addr |-> x, len |-> Slot_size[t], kind |-> "slot"]
    BY Zenon, <1>5 DEF FreeRanges, Free
  <2>1. PICK x \in Free(heap, t) : a = [addr |-> x, len |-> Slot_size[t], kind |-> "slot"]
    BY Zenon, <2>0
  <2>2. a.addr = x /\ a.len = Slot_size[t] /\ a.kind = "slot"
    BY <2>1
  <2>3. SlotAt(heap, live, x, t)
    BY Zenon, <1>1 DEF SlotsOK
  <2>4. x \in Nat
    BY <1>1, <2>3, SlotAtLemma
  <2>5. a \in [addr : Nat, len : Nat, kind : {"small", "node", "slot"}]
    BY <1>2, <2>1, <2>4
  <2> QED BY <2>2, <2>3, <2>5
<1> QED BY <1>3, <1>4, <1>5 DEF SlotRanges

\* The bytes of a slot are in a pool, behind its header.
LEMMA SlotBytes ==
  ASSUME HInv(heap, live), NEW a \in SlotRanges, NEW y \in Bytes(a.addr, a.len)
  PROVE  /\ y \in Nat /\ Frame_of(y) \in PoolsOf(heap, live) /\ Frame_of(y) = Frame_of(a.addr)
         /\ y # Frame_of(y) * P
<1>1. heap \in HeapType
  BY DEF HInv
<1>2. PICK t \in Tiers : SlotAt(heap, live, a.addr, t) /\ a.len = Slot_size[t]
  BY Zenon, SlotRangeLemma
<1> DEFINE f == Frame_of(a.addr)
<1>3. f \in PoolsOf(heap, live) /\ f \in Frames /\ InPool(f, a.addr, t)
  BY <1>1, <1>2, SlotAtLemma
<1>4. f \in Nat
  BY <1>3, SizesAssumption DEF Frames
<1> HIDE DEF f
<1>5. y \in Nat /\ Frame_of(y) = f /\ y # f * P
  BY <1>2, <1>3, <1>4, SlotLemma
<1> QED BY <1>3, <1>5 DEF f

\* Two different slots have no byte in common.
LEMMA SlotRangesApart ==
  ASSUME HInv(heap, live), NEW a \in SlotRanges, NEW b \in SlotRanges, a # b
  PROVE  Bytes(a.addr, a.len) \cap Bytes(b.addr, b.len) = {}
<1>1. heap \in HeapType /\ SlotsOnce(heap, live) /\ SlotsOK(heap, live)
  BY DEF HInv
<1>2. PICK t \in Tiers : SlotAt(heap, live, a.addr, t) /\ a.len = Slot_size[t]
  BY Zenon, SlotRangeLemma
<1>3. PICK u \in Tiers : SlotAt(heap, live, b.addr, u) /\ b.len = Slot_size[u]
  BY Zenon, SlotRangeLemma
<1>4. a.addr # b.addr
  <2> SUFFICES ASSUME a.addr = b.addr PROVE FALSE
    OBVIOUS
  <2>1. t = u
    BY <1>1, <1>2, <1>3, SlotAtLemma
  <2>2. /\ a \in [addr : Nat, len : Nat, kind : {"small", "node", "slot"}]
        /\ b \in [addr : Nat, len : Nat, kind : {"small", "node", "slot"}]
    BY Zenon, SlotRangeLemma
  <2>3. a.kind # b.kind
    BY <1>2, <1>3, <2>1, <2>2
  <2>4. /\ a.kind = "small" => a.addr \in Smalls(live)
        /\ a.kind = "node" => a.addr \in NodesOf(heap)
        /\ a.kind = "slot" => \E v \in Tiers : a.addr \in Free(heap, v)
        /\ b.kind = "small" => a.addr \in Smalls(live)
        /\ b.kind = "node" => a.addr \in NodesOf(heap)
        /\ b.kind = "slot" => \E v \in Tiers : a.addr \in Free(heap, v)
    BY Zenon, SlotRangeLemma
  <2>5. /\ ~(a.addr \in Smalls(live) /\ a.addr \in NodesOf(heap))
        /\ \A v \in Tiers : ~(a.addr \in Smalls(live) /\ a.addr \in Free(heap, v))
        /\ \A v \in Tiers : ~(a.addr \in NodesOf(heap) /\ a.addr \in Free(heap, v))
    BY <1>1 DEF SlotsOnce
  <2>6. a.kind \in {"small", "node", "slot"} /\ b.kind \in {"small", "node", "slot"}
    BY <2>2
  <2> QED BY <2>3, <2>4, <2>5, <2>6
<1> DEFINE f == Frame_of(a.addr)
<1>5. CASE Frame_of(b.addr) = f
  <2>1. f \in Frames /\ t = u /\ InPool(f, a.addr, t) /\ InPool(f, b.addr, t)
    BY SMTT(30), <1>1, <1>2, <1>3, <1>5, SlotAtLemma
  <2>2. f \in Nat
    BY <2>1, SizesAssumption DEF Frames
  <2> HIDE DEF f
  <2> QED BY SMTT(30), <1>2, <1>3, <1>4, <2>1, <2>2, SlotsApart
<1>6. CASE Frame_of(b.addr) # f
  BY Zenon, <1>6, SlotBytes
<1> QED BY <1>5, <1>6

\* The bytes of pages that are held are in no pool.
LEMMA PagedBytes ==
  ASSUME HInv(heap, live), NEW a \in Paged(live), NEW y \in Bytes(a.addr, a.len)
  PROVE  Frame_of(y) \in Frames_of(a.addr, a.len) /\ Frame_of(y) \notin PoolsOf(heap, live)
<1>1. Frame_of(y) \in Frames_of(a.addr, a.len)
  BY Zenon DEF Frames_of
<1> QED BY Zenon, <1>1 DEF PoolsOf, HeldBy

\* A header is the first byte of a pool.
LEMMA HeaderBytes ==
  ASSUME HInv(heap, live), NEW a \in HeaderRanges, NEW y \in Bytes(a.addr, a.len)
  PROVE  /\ Frame_of(y) \in PoolsOf(heap, live) /\ y = Frame_of(y) * P
         /\ a = [addr |-> y, len |-> 1, kind |-> "header"]
<1>1. PICK f \in PoolsOf(heap, live) : a = [addr |-> f * P, len |-> 1, kind |-> "header"]
  BY Zenon, SameSets DEF HeaderRanges, P
<1>2. f \in Frames /\ f \in Nat
  BY SizesAssumption DEF PoolsOf, HInv, HeapType, Frames
<1>3. f * P \in Nat /\ Frame_of(f * P) = f
  BY <1>2, RunLemma
<1> DEFINE m == f * P
<1> HIDE DEF m
<1>4. m \in Nat /\ Frame_of(m) = f /\ a = [addr |-> m, len |-> 1, kind |-> "header"]
  BY <1>1, <1>3 DEF m
<1>5. y = m
  BY <1>4 DEF Bytes
<1> QED BY <1>4, <1>5 DEF m

\* The invariant implies what callers rely on.
LEMMA DisjointSays == KInv => BlocksDisjoint
<1> SUFFICES ASSUME HInv(heap, live)
             PROVE  /\ \A b \in live : Frames_of(b.addr, b.len) \subseteq heap.taken
                    /\ \A t \in Tiers : IsInjective(heap.free_head[t])
                    /\ \A a, b \in Ranges : a # b => Bytes(a.addr, a.len) \cap Bytes(b.addr, b.len) = {}
  BY Zenon DEF KInv, BlocksDisjoint
<1>1. heap \in HeapType /\ PagesOK(heap, live) /\ SlotsOnce(heap, live)
  BY DEF HInv
<1>2. PoolsOf(heap, live) \subseteq heap.taken
  BY DEF PoolsOf
<1>3. ASSUME NEW b \in live PROVE Frames_of(b.addr, b.len) \subseteq heap.taken
  <2>1. CASE b \in Paged(live)
    BY Zenon, <1>1, <2>1, PagedLemma
  <2>2. CASE b \in Small(live)
    <3>1. b \in SlotRanges
      BY <2>2 DEF SlotRanges
    <3> QED BY Zenon, <1>2, <3>1, SlotBytes DEF Frames_of
  <2> QED BY <2>1, <2>2 DEF Paged, Small
<1>4. ASSUME NEW t \in Tiers PROVE IsInjective(heap.free_head[t])
  BY <1>1 DEF SlotsOnce
<1>5. ASSUME NEW a \in Ranges, NEW b \in Ranges, a # b, NEW y \in Bytes(a.addr, a.len), y \in Bytes(b.addr, b.len)
      PROVE  FALSE
  <2>1. ASSUME NEW c \in Paged(live), NEW d \in SlotRanges \cup HeaderRanges,
               y \in Bytes(c.addr, c.len), y \in Bytes(d.addr, d.len)
        PROVE  FALSE
    BY Zenon, <2>1, PagedBytes, SlotBytes, HeaderBytes
  <2>2. CASE a \in Paged(live) /\ b \in Paged(live)
    <3>1. Frame_of(y) \in Frames_of(a.addr, a.len) /\ Frame_of(y) \in Frames_of(b.addr, b.len)
      BY Zenon, <1>5, <2>2, PagedBytes
    <3>2. Frames_of(a.addr, a.len) \cap Frames_of(b.addr, b.len) = {}
      BY ZenonT(30), <1>1, <1>5, <2>2 DEF PagesOK
    <3> QED BY Zenon, <3>1, <3>2
  <2>3. ASSUME NEW c \in SlotRanges, NEW d \in HeaderRanges, y \in Bytes(c.addr, c.len), y \in Bytes(d.addr, d.len)
        PROVE  FALSE
    BY Zenon, <2>3, SlotBytes, HeaderBytes
  <2>4. CASE a \in SlotRanges /\ b \in SlotRanges
    BY Zenon, <1>5, <2>4, SlotRangesApart
  <2>5. CASE a \in HeaderRanges /\ b \in HeaderRanges
    BY Zenon, <1>5, <2>5, HeaderBytes
  <2>6. /\ a \in Paged(live) \/ a \in SlotRanges \/ a \in HeaderRanges
        /\ b \in Paged(live) \/ b \in SlotRanges \/ b \in HeaderRanges
    BY SameSets
  <2> QED BY ZenonT(30), <1>5, <2>1, <2>2, <2>3, <2>4, <2>5, <2>6
<1> QED BY <1>3, <1>4, <1>5

\* What the invariant says of the list of big blocks.
LEMMA KnownSays == KInv => BigBlocksKnown
<1> DEFINE T == {b \in live : b.kind = "big"}
           n == Len(heap.big)
<1> SUFFICES ASSUME ~panicked, HInv(heap, live)
             PROVE  /\ \A b \in T : \E i \in DOMAIN heap.big :
                         /\ heap.big[i].vaddr = b.addr /\ heap.big[i].pages * P = b.len
                         /\ \A j \in DOMAIN heap.big : heap.big[j].vaddr = b.addr => j = i
                    /\ n = Cardinality(T)
  BY Zenon DEF KInv, BigBlocksKnown, P
<1>1. /\ heap.big \in Seq(NodeType) /\ n \in Nat /\ DOMAIN heap.big = 1..n /\ IsInjective(heap.big)
      /\ T = {BlockOf(m) : m \in Range(heap.big)}
      /\ \A m, k \in Range(heap.big) : m.vaddr = k.vaddr \/ m.node = k.node => m = k
  BY DEF HInv, HeapType, BigOK
<1>2. \A i \in 1..n : heap.big[i] \in Range(heap.big)
  BY <1>1 DEF Range
<1>3. \A m \in Range(heap.big) : \E i \in 1..n : heap.big[i] = m
  BY <1>1 DEF Range
<1>4. \A i, j \in 1..n : heap.big[i].vaddr = heap.big[j].vaddr => i = j
  BY Zenon, <1>1, <1>2 DEF IsInjective
<1>5. \A m : BlockOf(m).addr = m.vaddr /\ BlockOf(m).len = m.pages * P
  BY DEF BlockOf
<1>6. ASSUME NEW b \in T
      PROVE  \E i \in DOMAIN heap.big :
                         /\ heap.big[i].vaddr = b.addr /\ heap.big[i].pages * P = b.len
                         /\ \A j \in DOMAIN heap.big : heap.big[j].vaddr = b.addr => j = i
  <2>1. PICK m \in Range(heap.big) : b = BlockOf(m)
    BY Zenon, <1>1
  <2>2. PICK i \in 1..n : heap.big[i] = m
    BY Zenon, <1>3
  <2>3. i \in DOMAIN heap.big /\ heap.big[i].vaddr = b.addr /\ heap.big[i].pages * P = b.len
    BY Zenon, <1>1, <1>5, <2>1, <2>2
  <2>4. \A j \in DOMAIN heap.big : heap.big[j].vaddr = b.addr => j = i
    BY ZenonT(30), <1>1, <1>4, <2>3
  <2> QED BY ZenonT(30), <2>3, <2>4
<1>7. n = Cardinality(T)
  <2> DEFINE f == [i \in 1..n |-> BlockOf(heap.big[i])]
  <2>1. \A i \in 1..n : f[i] = BlockOf(heap.big[i]) /\ f[i] \in T
    BY Zenon, <1>1, <1>2
  <2>2. f \in [1..n -> T]
    BY Zenon, <2>1
  <2>5. DOMAIN f = 1..n
    BY Zenon
  <2> HIDE DEF f, n, T
  <2>3. ASSUME NEW b \in T PROVE \E i \in 1..n : f[i] = b
    <3>1. PICK m \in Range(heap.big) : b = BlockOf(m)
      BY Zenon, <1>1
    <3>2. PICK i \in 1..n : heap.big[i] = m
      BY Zenon, <1>3
    <3> QED BY Zenon, <2>1, <3>1, <3>2
  <2>4. ASSUME NEW i \in 1..n, NEW j \in 1..n, f[i] = f[j] PROVE i = j
    <3>1. heap.big[i].vaddr = heap.big[j].vaddr
      BY ZenonT(30), <1>5, <2>1, <2>4
    <3> QED BY Zenon, <1>4, <3>1
  <2>6. f \in Bijection(1..n, T)
    BY Zenon, <2>2, <2>3, <2>4, <2>5 DEF Bijection, Injection, Surjection, IsInjective
  <2>7. ExistsBijection(1..n, T)
    BY Zenon, <2>6 DEF ExistsBijection
  <2>8. IsFiniteSet(1..n) /\ Cardinality(1..n) = n
    BY <1>1, FS_Interval
  <2> QED BY <2>7, <2>8, FS_Bijection
<1> QED BY Zenon, <1>6, <1>7

\* What the invariant says of the pages.
LEMMA AccountedSays == KInv => PagesAccounted
<1> SUFFICES ASSUME HInv(heap, live), NEW f \in PoolsOf(heap, live)
             PROVE  heap.word[f] \in Tiers /\
                    \E x \in Nodes \cup {b.addr : b \in live} \cup UNION {Range(heap.free_head[t]) : t \in Tiers} :
                      Frame_of(x) = f
  BY Zenon, SameSets DEF KInv, PagesAccounted
<1>1. heap.word[f] \in Tiers /\ \E x \in Used(heap, live) : Frame_of(x) = f
  BY DEF HInv, PoolsOK
<1>2. Used(heap, live) \subseteq Nodes \cup {b.addr : b \in live} \cup UNION {Range(heap.free_head[t]) : t \in Tiers}
  BY Zenon, SameSets DEF Used, Smalls, Small, Free
<1> QED BY Zenon, <1>1, <1>2

-----------------------------------------------------------------------------
\* As long as kfree() has not taken data for a header, no block panics it and
\* the heap is sound.
THEOREM HeapInductive == Spec => []KInv
BY InitKInv, NextKInv, PTL DEF Spec

\* Blocks, nodes, headers and free slots never overlap, in a heap of any size.
THEOREM DisjointCorrect == Spec => []BlocksDisjoint
BY HeapInductive, DisjointSays, PTL

\* kfree() finds one node for every big block, with the number of its pages,
\* and there are no other nodes: kfree_big() does not panic on a block of the
\* heap.
THEOREM KnownCorrect == Spec => []BigBlocksKnown
BY HeapInductive, KnownSays, PTL

\* No page is lost, on no path on which an allocation fails.
THEOREM AccountedCorrect == Spec => []PagesAccounted
BY HeapInductive, AccountedSays, PTL
=============================================================================

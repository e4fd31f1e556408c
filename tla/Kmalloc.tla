------------------------------ MODULE Kmalloc -------------------------------
(***************************************************************************)
(* The kernel heap of mm/kmalloc.c: pools of equal slots for small blocks, *)
(* whole pages with a list node for big ones, and the page functions other *)
(* code calls directly.  Pages come from the bitmap allocator, which gives *)
(* the lowest run that fits (ContiguousIsFirstFit of module PhysMem).      *)
(*                                                                         *)
(* Addresses are bytes.  kfree() recognises a pool page by the first word  *)
(* of the page; word[f] is the tier that this word names when it is the    *)
(* magic number, and 0 when it is anything else.  Big blocks begin with    *)
(* data, so their owners may write such a word.                            *)
(***************************************************************************)
EXTENDS Integers, Sequences, FiniteSets, FiniteSetsExt

CONSTANTS
  PAGE_SIZE,
  Slot_size,       \* tiers[].slot_size, ascending
  NodeSize,        \* sizeof(struct big_alloc_node)
  NPages,          \* pages of memory
  Sizes,           \* the sizes callers ask for
  MaxLive          \* bound on the blocks held at one time

Tiers == DOMAIN Slot_size
NULL == 0

ASSUME SizesAssumption ==
  /\ PAGE_SIZE \in Nat \ {0} /\ NPages \in Nat
  /\ Slot_size \in Seq(Nat \ {0}) /\ Slot_size # <<>>
  /\ \A t \in Tiers : PAGE_SIZE % Slot_size[t] = 0 /\ 2 * Slot_size[t] <= PAGE_SIZE
  /\ \A t, u \in Tiers : t < u => Slot_size[t] < Slot_size[u]
  /\ NodeSize \in 1..Slot_size[1]
  /\ Sizes \subseteq Nat \ {0}

VARIABLES
  heap,     \* [taken, word, free_head, big]: pages, first words, free lists, nodes
  live,     \* the blocks callers hold: [addr, len, kind]
  fooled,   \* has kfree() taken data for a pool header?
  panicked

vars == <<heap, live, fooled, panicked>>

Frames == 1..NPages
Bytes(addr, len) == addr..(addr + len - 1)
Frame_of(addr) == addr \div PAGE_SIZE
Frames_of(addr, len) == {Frame_of(x) : x \in Bytes(addr, len)}
PAGE_ALIGN_UP(n) == ((n + PAGE_SIZE - 1) \div PAGE_SIZE) * PAGE_SIZE

-----------------------------------------------------------------------------
\* alloc_pages(), alloc_page() for one: the address, and the heap after it
Alloc_pages(h, n) ==
  LET runs == {f \in Frames : f..(f + n - 1) \subseteq Frames \ h.taken}
  IN  IF runs = {} THEN [heap |-> h, addr |-> NULL]
      ELSE [heap |-> [h EXCEPT !.taken = @ \cup Min(runs)..(Min(runs) + n - 1)],
            addr |-> Min(runs) * PAGE_SIZE]

\* free_pages(), free_page() for one
Free_pages(h, addr, n) ==
  [h EXCEPT !.taken = @ \ Frames_of(addr, n * PAGE_SIZE)]

\* size_to_tier_idx(): the first of these, if there is one
Tier_of(size) == {t \in Tiers : Slot_size[t] >= size}

\* the free list init_tier() threads through a page: the first slot, where
\* the header is, is left out, and the last one ends the list
Slots(page, s) == [i \in 1..(PAGE_SIZE \div s - 1) |-> page + i * s]

\* init_tier(), which only kmalloc_small() calls, with an empty list
Init_tier(h, t) ==
  LET p == Alloc_pages(h, 1)
  IN  IF p.addr = NULL THEN h
      ELSE [p.heap EXCEPT !.word[Frame_of(p.addr)] = t,
                          !.free_head[t] = Slots(p.addr, Slot_size[t])]

\* kmalloc_small().  The header's count is incremented and never read.
Kmalloc_small(h, t) ==
  LET g == IF h.free_head[t] # <<>> THEN h ELSE Init_tier(h, t)
  IN  IF g.free_head[t] = <<>> THEN [heap |-> h, addr |-> NULL]
      ELSE [heap |-> [g EXCEPT !.free_head[t] = Tail(@)], addr |-> Head(g.free_head[t])]

\* faulty: the pages are kept when there is no memory for the node
Kmalloc_big_leak(h, n) ==
  LET p == Alloc_pages(h, n)
      q == Kmalloc_small(p.heap, Min(Tier_of(NodeSize)))
  IN  IF p.addr = NULL \/ q.addr = NULL THEN [heap |-> p.heap, addr |-> NULL]
      ELSE [heap |-> [q.heap EXCEPT !.big = <<[vaddr |-> p.addr, pages |-> n, node |-> q.addr]>> \o @],
            addr |-> p.addr]

\* faulty: a node is taken to describe one page
Kmalloc_big_one(h, n) ==
  LET p == Alloc_pages(h, n)
      q == Kmalloc_small(p.heap, Min(Tier_of(NodeSize)))
  IN  IF p.addr = NULL \/ q.addr = NULL THEN [heap |-> h, addr |-> NULL]
      ELSE [heap |-> [q.heap EXCEPT !.big = <<[vaddr |-> p.addr, pages |-> 1, node |-> q.addr]>> \o @],
            addr |-> p.addr]

\* kmalloc_big(): pages, then a node for them, which is a small block
Kmalloc_big(h, n) ==
  LET p == Alloc_pages(h, n)
      q == Kmalloc_small(p.heap, Min(Tier_of(NodeSize)))
  IN  IF p.addr = NULL THEN [heap |-> h, addr |-> NULL]
      ELSE IF q.addr = NULL
      THEN [heap |-> Free_pages(q.heap, p.addr, n), addr |-> NULL]
      ELSE [heap |-> [q.heap EXCEPT !.big = <<[vaddr |-> p.addr, pages |-> n, node |-> q.addr]>> \o @],
            addr |-> p.addr]

Push(h, t, addr) == [h EXCEPT !.free_head[t] = <<addr>> \o @]

\* kfree() of a slot, by the tier its page's header names
Kfree_small(h, addr) == Push(h, h.word[Frame_of(addr)], addr)

\* the list s without its i-th node
Unlink(s, i) == SubSeq(s, 1, i - 1) \o SubSeq(s, i + 1, Len(s))

\* kfree_big() with the node it finds
Kfree_big(h, i) ==
  LET n == h.big[i]
  IN  Kfree_small(Free_pages([h EXCEPT !.big = Unlink(@, i)], n.vaddr, n.pages), n.node)

-----------------------------------------------------------------------------
Init ==
  /\ heap = [taken |-> {}, word |-> [f \in Frames |-> 0],
             free_head |-> [t \in Tiers |-> <<>>], big |-> <<>>]
  /\ live = {}
  /\ fooled = FALSE
  /\ panicked = FALSE

\* after a panic nothing runs, and a heap whose kfree() was fooled is undefined
Sound == ~panicked /\ ~fooled

Hold(r, len, kind) ==
  live' = IF r.addr = NULL THEN live
          ELSE live \cup {[addr |-> r.addr, len |-> len, kind |-> kind]}

\* kmalloc(size), and kzalloc(size), which clears what it returns
Kmalloc(size, zero) ==
  LET small == Tier_of(size) # {}
      len == IF small THEN Slot_size[Min(Tier_of(size))] ELSE PAGE_ALIGN_UP(size)
      r == IF small THEN Kmalloc_small(heap, Min(Tier_of(size)))
           ELSE Kmalloc_big(heap, len \div PAGE_SIZE)
  IN  /\ Sound
      /\ Cardinality(live) < MaxLive
      /\ heap' = IF zero /\ ~small /\ r.addr # NULL
                 THEN [r.heap EXCEPT !.word[Frame_of(r.addr)] = 0] ELSE r.heap
      /\ Hold(r, len, IF small THEN "small" ELSE "big")
      /\ UNCHANGED <<fooled, panicked>>

\* faulty: a pool page goes back when one of its slots is freed and the
\* others are all free (the lines the code has commented out)
Kfree_gives_back(b) ==
  LET t == heap.word[Frame_of(b.addr)]
      page == Frame_of(b.addr) * PAGE_SIZE
      h == Push(heap, t, b.addr)
  IN  /\ Sound
      /\ b.kind # "page"
      /\ t # 0
      /\ heap' = IF \A i \in 1..(PAGE_SIZE \div Slot_size[t] - 1) :
                      page + i * Slot_size[t] \in Range(h.free_head[t])
                 THEN Free_pages(heap, page, 1) ELSE h
      /\ live' = live \ {b}
      /\ UNCHANGED <<fooled, panicked>>

\* kfree(vaddr): the first word of the page decides between pool and list
Kfree(b) ==
  LET nodes == {i \in DOMAIN heap.big : heap.big[i].vaddr = b.addr}
      t == heap.word[Frame_of(b.addr)]
  IN  /\ Sound
      /\ b.kind # "page"
      /\ heap' = IF t # 0 THEN Kfree_small(heap, b.addr)
                 ELSE IF nodes = {} THEN heap ELSE Kfree_big(heap, Min(nodes))
      /\ panicked' = (t = 0 /\ nodes = {})
      /\ fooled' = (fooled \/ (t # 0 /\ b.kind = "big"))
      /\ live' = live \ {b}

\* alloc_page() and alloc_pages() by the page tables, ext2, AHCI and the tasks
Page_alloc(n) ==
  LET r == Alloc_pages(heap, n)
  IN  /\ Sound
      /\ Cardinality(live) < MaxLive
      /\ heap' = r.heap
      /\ Hold(r, n * PAGE_SIZE, "page")
      /\ UNCHANGED <<fooled, panicked>>

\* free_page() and free_pages() by the same callers
Page_free(b) ==
  /\ Sound
  /\ b.kind = "page"
  /\ heap' = Free_pages(heap, b.addr, b.len \div PAGE_SIZE)
  /\ live' = live \ {b}
  /\ UNCHANGED <<fooled, panicked>>

\* the owner of pages writes their first word: it is the magic number with a
\* tier behind it, or something else
Fill(b, w) ==
  /\ Sound
  /\ b.kind # "small"
  /\ heap' = [heap EXCEPT !.word[Frame_of(b.addr)] = w]
  /\ UNCHANGED <<live, fooled, panicked>>

Halted == ~Sound /\ UNCHANGED vars

Next ==
  \/ \E size \in Sizes, zero \in BOOLEAN : Kmalloc(size, zero)
  \/ \E b \in live : Kfree(b)
  \/ \E n \in 1..2 : Page_alloc(n)
  \/ \E b \in live : Page_free(b)
  \/ \E b \in live, w \in {0, 1} : Fill(b, w)
  \/ Halted

Spec == Init /\ [][Next]_vars

-----------------------------------------------------------------------------
Nodes == {heap.big[i].node : i \in DOMAIN heap.big}
Held == UNION {Frames_of(b.addr, b.len) : b \in {c \in live : c.kind # "small"}}
Pools == heap.taken \ Held

\* every range of bytes that has a purpose: blocks, list nodes, pool headers
\* and free slots
Ranges ==
  live
    \cup {[addr |-> n, len |-> Slot_size[1], kind |-> "node"] : n \in Nodes}
    \cup {[addr |-> f * PAGE_SIZE, len |-> 1, kind |-> "header"] : f \in Pools}
    \cup UNION {{[addr |-> s, len |-> Slot_size[t], kind |-> "slot"] :
                   s \in Range(heap.free_head[t])} : t \in Tiers}

\* No two blocks overlap, and no block overlaps a pool's header, a free slot
\* or a node of the list of big blocks: what kmalloc() and alloc_page() return
\* is the caller's alone until it is freed.  It holds as long as kfree() was
\* not given a big block whose data begins with the magic number.
BlocksDisjoint ==
  ~fooled =>
    /\ \A b \in live : Frames_of(b.addr, b.len) \subseteq heap.taken
    /\ \A t \in Tiers : IsInjective(heap.free_head[t])
    /\ \A a, b \in Ranges : a # b => Bytes(a.addr, a.len) \cap Bytes(b.addr, b.len) = {}

\* kfree() finds the node of every big block, with the number of pages the
\* block has: a block the heap gave out is never the panic of kfree_big().
BigBlocksKnown ==
  ~fooled =>
    /\ ~panicked
    /\ \A b \in live : b.kind = "big" =>
         \E i \in DOMAIN heap.big :
           /\ heap.big[i].vaddr = b.addr /\ heap.big[i].pages * PAGE_SIZE = b.len
           /\ \A j \in DOMAIN heap.big : heap.big[j].vaddr = b.addr => j = i
    /\ Len(heap.big) = Cardinality({b \in live : b.kind = "big"})

\* A page is taken only if somebody holds it or it is a pool of slots: the
\* failure of kmalloc_big() after it has its pages leaks none of them.
PagesAccounted ==
  ~fooled => \A f \in Pools : heap.word[f] \in Tiers /\
    \E x \in Nodes \cup {b.addr : b \in live} \cup UNION {Range(heap.free_head[t]) : t \in Tiers} :
      Frame_of(x) = f

=============================================================================

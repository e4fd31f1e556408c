------------------------------- MODULE Paging -------------------------------
(***************************************************************************)
(* The page tables: the four-level walk of arch/x86_64/kernel/paging.c     *)
(* with its three page sizes, and the kernel's use of it in mm/vmm.c (the  *)
(* direct map of usable memory, the kernel image, device memory, and the   *)
(* copies of the kernel's top-level table that tasks start from).          *)
(*                                                                         *)
(* Tables are real: a table is a frame, an entry names a frame, and two    *)
(* address spaces share every table below the top that one copied from     *)
(* the other.  Fan[l] is the number of entries of a table of level l (512  *)
(* in the code).  Virtual and physical addresses of mappings are pages.    *)
(***************************************************************************)
EXTENDS Integers, FiniteSets, SequencesExt, FiniteSetsExt

CONSTANTS
  Fan,             \* entries of a table: PGD, PUD, PMD, PTE
  PAGE_SIZE,       \* bytes of a page
  Cleans,          \* the usable regions of the memory map, in bytes: [start, end]
  KernelPhys,      \* KERNEL_START_PHYS_ADDR, in pages
  KernelPages,     \* length of the kernel image, in pages
  DirectSlot, KernelSlot, \* the top-level entries of the direct map and the kernel
  Devices,         \* physical memory of devices and ACPI tables, in bytes: [addr, size]
  MaxIoremaps      \* bound on the calls of ioremap()

ASSUME PagingAssumption ==
  /\ Len(Fan) = 4 /\ \A l \in 1..4 : Fan[l] \in Nat \ {0}
  /\ PAGE_SIZE \in Nat \ {0}
  /\ DirectSlot \in Fan[1] \div 2..(Fan[1] - 1)
  /\ KernelSlot \in Fan[1] \div 2..(Fan[1] - 1) \ {DirectSlot}
  /\ \A d \in Devices : d.addr + d.size <= Fan[2] * Fan[3] * Fan[4] * PAGE_SIZE

VARIABLES
  mem,        \* [tables, free, panic]: the tables by frame, the free frames
  has1g,      \* cpu_has_1g_pages
  clean,      \* the usable regions of this machine
  kernel_pgd, \* the kernel's top-level table, 0 before vmm_init()
  kmap,       \* what the kernel asked to have mapped: page -> [to, flags]
  ioremaps    \* calls of ioremap() so far

pagingVars == <<mem, has1g, clean, kernel_pgd, kmap, ioremaps>>

-----------------------------------------------------------------------------
\* pages under one entry of each level: 512 GiB, 1 GiB, 2 MiB, 4 KiB
Span == <<Fan[2] * Fan[3] * Fan[4], Fan[3] * Fan[4], Fan[4], 1>>
Pages == 0..(Fan[1] * Span[1] - 1)
UserPages == 0..((Fan[1] \div 2) * Span[1] - 1)
PHYS_TO_VIRT(p) == DirectSlot * Span[1] + p

\* PAGE_ALIGN_DOWN and PAGE_ALIGN_UP of a byte address, as page numbers
PAGE_ALIGN_DOWN(x) == x \div PAGE_SIZE
PAGE_ALIGN_UP(x) == (x + PAGE_SIZE - 1) \div PAGE_SIZE

RANGE(first, n) == first..(first + n - 1)

None == [to |-> -1, ps |-> FALSE, flags |-> {}]
Index(l, v) == (v \div Span[l]) % Fan[l]
NewTable(l) == [i \in 0..(Fan[l] - 1) |-> None]
Panic(m) == [m EXCEPT !.panic = TRUE]

\* memset() of a fresh frame; entries of tables are user accessible, the
\* last level decides
Mmu_alloc_table(m, table, i, l) ==
  IF m.free = {} THEN Panic(m)
  ELSE LET f == Min(m.free)
       IN  [m EXCEPT !.free = @ \ {f},
                     !.tables = [g \in DOMAIN @ \cup {f} |->
                                   IF g = f THEN NewTable(l + 1)
                                   ELSE IF g = table
                                   THEN [@[g] EXCEPT ![i] = [to |-> f, ps |-> FALSE, flags |-> {"USER"}]]
                                   ELSE @[g]]]

\* mmu_walk(): down to the table of the level, with missing tables made on
\* the way; a huge page on the way ends the walk
Mmu_walk(m, pgd, v, level) ==
  LET step(w, l) ==
        LET i == Index(l, v)
            e == w.mem.tables[w.table][i]
            n == IF e # None THEN w.mem ELSE Mmu_alloc_table(w.mem, w.table, i, l)
        IN  IF w.hit \/ w.mem.panic THEN w
            ELSE IF e # None /\ e.ps THEN [w EXCEPT !.hit = TRUE]
            ELSE IF n.panic THEN [w EXCEPT !.mem = n]
            ELSE [w EXCEPT !.mem = n, !.table = n.tables[w.table][i].to]
  IN  FoldLeft(step, [mem |-> m, table |-> pgd, hit |-> FALSE], [l \in 1..(level - 1) |-> l])

\* faulty: pages are never accessible from user mode
Mmu_map_one_supervisor(m, pgd, v, p, level, prot) ==
  LET w == Mmu_walk(m, pgd, v, level)
      i == Index(level, v)
  IN  IF m.panic \/ w.hit \/ w.mem.panic THEN Panic(w.mem)
      ELSE [w.mem EXCEPT !.tables[w.table][i] =
              [to |-> p, ps |-> level # 4, flags |-> prot.flags \ {"USER"}]]

\* mmu_map_one(): level 2 is a 1 GiB page, 3 a 2 MiB page, 4 a 4 KiB page
Mmu_map_one(m, pgd, v, p, level, prot) ==
  LET w == Mmu_walk(m, pgd, v, level)
      i == Index(level, v)
  IN  IF m.panic THEN m
      ELSE IF w.hit \/ w.mem.panic THEN Panic(w.mem)
      ELSE IF w.mem.tables[w.table][i] # None /\ ~prot.allow_overwrite THEN Panic(w.mem)
      ELSE [w.mem EXCEPT !.tables[w.table][i] =
              [to |-> p, ps |-> level # 4, flags |-> prot.flags]]

\* the largest page that the addresses and the length allow
Page_level(v, p, len) ==
  LET fits(l) == v % Span[l] = 0 /\ p % Span[l] = 0 /\ len >= Span[l]
  IN  IF has1g /\ fits(2) THEN 2 ELSE IF fits(3) THEN 3 ELSE 4

\* the pages mmu_map_range() cuts a range into
Chunks(v, p, len) ==
  LET from[i \in 0..len] ==
        IF i = len THEN <<>>
        ELSE LET l == Page_level(v + i, p + i, len - i)
             IN  <<[at |-> i, level |-> l]>> \o from[i + Span[l]]
  IN  from[0]

\* mmu_map_range(), whose callers all pass whole pages
Mmu_map_range(m, pgd, v, p, len, prot) ==
  LET one(n, c) == Mmu_map_one(n, pgd, v + c.at, p + c.at, c.level, prot)
  IN  FoldLeft(one, m, Chunks(v, p, len))

\* the request that goes with it, for the properties
Mapped(map, v, p, len, flags) ==
  [x \in DOMAIN map \cup RANGE(v, len) |->
     IF x \in RANGE(v, len) THEN [to |-> p + x - v, flags |-> flags] ELSE map[x]]

Direct_prot == [flags |-> {"NX"}, allow_overwrite |-> FALSE]
Kernel_prot == [flags |-> {}, allow_overwrite |-> TRUE]
Io_prot == [flags |-> {"CD", "WT"}, allow_overwrite |-> TRUE]

\* the pages of a usable region in the direct map: those it touches
Region_pages(r) == [first |-> PAGE_ALIGN_DOWN(r.start),
                    n |-> PAGE_ALIGN_UP(r.end) - PAGE_ALIGN_DOWN(r.start)]

\* vmm_get_kpgd(), vmm_copy_kpgtbl(): the top level only, with its entries
Vmm_copy_kpgtbl(m) ==
  LET f == Min(m.free)
  IN  [m EXCEPT !.free = @ \ {f},
                !.tables = [g \in DOMAIN @ \cup {f} |-> IF g = f THEN @[kernel_pgd] ELSE @[g]]]

\* faulty: the frames of the pages stay free
Vmm_alloc_range_keeps(m, pgd, v, n, prot) ==
  LET one(w, i) ==
        IF w.failed \/ w.mem.panic THEN w
        ELSE IF w.mem.free = {} THEN [w EXCEPT !.failed = TRUE]
        ELSE [w EXCEPT !.mem = Mmu_map_range(@, pgd, v + i, Min(w.mem.free), 1, prot),
                       !.frames = Append(@, Min(w.mem.free))]
  IN  FoldLeft(one, [mem |-> m, failed |-> FALSE, frames |-> <<>>], [i \in 1..n |-> i - 1])

\* vmm_alloc_range() with vmm_alloc_page(): n pages from v on, of which the
\* first done got a frame; the rest failed
Vmm_alloc_range(m, pgd, v, n, prot) ==
  LET one(w, i) ==
        IF w.failed \/ w.mem.panic THEN w
        ELSE IF w.mem.free = {} THEN [w EXCEPT !.failed = TRUE]
        ELSE LET f == Min(w.mem.free)
             IN  [w EXCEPT !.mem = Mmu_map_range([@ EXCEPT !.free = @ \ {f}], pgd, v + i, f, 1, prot),
                           !.frames = Append(@, f)]
  IN  FoldLeft(one, [mem |-> m, failed |-> FALSE, frames |-> <<>>], [i \in 1..n |-> i - 1])

-----------------------------------------------------------------------------
\* the frames an allocator may hand out: pages wholly inside a usable region
Usable_frames(regions) ==
  {f \in Pages : \E r \in regions : r.start <= f * PAGE_SIZE /\ (f + 1) * PAGE_SIZE <= r.end}

PagingInit ==
  /\ clean \in Cleans
  /\ has1g \in BOOLEAN
  /\ mem = [tables |-> <<>>, free |-> Usable_frames(ToSet(clean)) \ {0}, panic |-> FALSE]
  /\ kernel_pgd = 0
  /\ kmap = <<>>
  /\ ioremaps = 0

\* vmm_init(): the direct map may not meet itself, the kernel image may
Vmm_init ==
  LET pgd == Min(mem.free)
      m0 == [mem EXCEPT !.free = @ \ {pgd}, !.tables = [g \in {pgd} |-> NewTable(1)]]
      region(w, r) ==
        LET p == Region_pages(r)
        IN  [mem |-> Mmu_map_range(w.mem, pgd, PHYS_TO_VIRT(p.first), p.first, p.n, Direct_prot),
             map |-> Mapped(w.map, PHYS_TO_VIRT(p.first), p.first, p.n, Direct_prot.flags)]
      direct == FoldLeft(region, [mem |-> m0, map |-> kmap], clean)
      v == KernelSlot * Span[1] + KernelPhys
  IN  /\ kernel_pgd = 0 /\ ~mem.panic
      /\ mem' = IF mem.free = {} THEN Panic(mem)
                ELSE Mmu_map_range(direct.mem, pgd, v, KernelPhys, KernelPages, Kernel_prot)
      /\ IF mem'.panic THEN UNCHANGED <<kernel_pgd, kmap>>
         ELSE /\ kernel_pgd' = pgd
              /\ kmap' = Mapped(direct.map, v, KernelPhys, KernelPages, Kernel_prot.flags)
      /\ UNCHANGED <<has1g, clean, ioremaps>>

\* faulty: the offset in the first page is not added to the size
Ioremap_pages_short(d) == PAGE_ALIGN_UP(d.size)

\* pages of a device, from the page it begins in
Ioremap_pages(d) == PAGE_ALIGN_UP(d.size + (d.addr % PAGE_SIZE))

\* ioremap() of VGA, ACPI, APIC and AHCI memory, and of whatever comes later
Ioremap(d) ==
  LET p == PAGE_ALIGN_DOWN(d.addr)
      n == Ioremap_pages(d)
  IN  /\ kernel_pgd # 0 /\ ~mem.panic /\ ioremaps < MaxIoremaps
      /\ mem' = Mmu_map_range(mem, kernel_pgd, PHYS_TO_VIRT(p), p, n, Io_prot)
      /\ kmap' = IF mem'.panic THEN kmap
                 ELSE Mapped(kmap, PHYS_TO_VIRT(p), p, PAGE_ALIGN_UP(d.addr + d.size) - p, Io_prot.flags)
      /\ ioremaps' = ioremaps + 1
      /\ UNCHANGED <<has1g, clean, kernel_pgd>>

-----------------------------------------------------------------------------
Unmapped == [to |-> -1, flags |-> {}]

\* what the CPU finds for a page: the walk of the hardware
Translate(pgd, v) ==
  LET entry(t, l) == mem.tables[t][Index(l, v)]
      leaf(e, l) == [to |-> e.to + (v % Span[l]), flags |-> e.flags]
      pud == entry(entry(pgd, 1).to, 2)
      pmd == entry(pud.to, 3)
      pte == entry(pmd.to, 4)
  IN  IF entry(pgd, 1) = None \/ pud = None THEN Unmapped
      ELSE IF pud.ps THEN leaf(pud, 2)
      ELSE IF pmd = None THEN Unmapped
      ELSE IF pmd.ps THEN leaf(pmd, 3)
      ELSE IF pte = None THEN Unmapped ELSE leaf(pte, 4)

Request(map, v) == IF v \in DOMAIN map THEN map[v] ELSE Unmapped
=============================================================================

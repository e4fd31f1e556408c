----------------------------- MODULE UserSpace ------------------------------
(***************************************************************************)
(* A task's own memory: mm_struct and its list of allocations (mm/mm.c),   *)
(* the user stack, and the ELF loader (fs/elf.c), as init_task_init() puts *)
(* them together for every task, on the page tables of module Paging.      *)
(*                                                                         *)
(* The file system appears by its results: vfs_open(), vfs_seek() and      *)
(* vfs_read() may fail, and a read ends at the end of the file.            *)
(***************************************************************************)
EXTENDS Paging, Bitwise

CONSTANTS
  Tasks,           \* the kthreads that run init_task_init()
  StackBottom, StackPages, \* TASK_USER_STACK_*, in pages
  Programs         \* task -> its file: [size, phend, phdrs], with the end of the table
                   \* of program headers in the file, and the headers

VARIABLES
  mm,       \* task -> [pgd, allocs]; pgd is 0 before mm_create()
  at,       \* task -> where init_task_init() is
  phdr,     \* task -> the program header load_program_header() is at
  program,  \* task -> the file it loads
  umap,     \* task -> what it asked to have mapped
  asked,    \* task -> the allocations it made, in order
  bytes     \* task -> user byte -> what was written there last

userVars == <<mm, at, phdr, program, umap, asked, bytes>>
vars == <<pagingVars, userVars>>

ERR == [addr |-> -1, count |-> 0]

-----------------------------------------------------------------------------
\* faulty: an allocation at the address of the head goes behind it, unsorted
Add_alloc_append(list, a, oom) == [allocs |-> Append(list, a), fault |-> FALSE]

\* mm_add_alloc().  mm_create_alloc() returns an error pointer when it has no
\* memory, which the caller does not recognise: the pointer is linked, or
\* followed, and following it is a page fault.  prev stays at the head, so
\* what lies between the head and the place of the new entry drops out.
Add_alloc(list, a, oom) ==
  LET new == IF oom THEN ERR ELSE a
      above == {i \in 2..Len(list) : list[i].addr >= a.addr}
      ok(l) == [allocs |-> l, fault |-> FALSE]
      fault == [allocs |-> list, fault |-> TRUE]
  IN  IF list = <<>> THEN ok(<<new>>)
      ELSE IF list[1] = ERR THEN fault
      ELSE IF list[1].addr >= a.addr THEN IF oom THEN fault ELSE ok(<<new>> \o list)
      ELSE IF above # {}
      THEN IF oom THEN fault ELSE ok(<<list[1], new>> \o SubSeq(list, Min(above), Len(list)))
      ELSE IF Last(list) = ERR THEN fault ELSE ok(<<list[1], new>>)

UserInit ==
  /\ mm = [t \in Tasks |-> [pgd |-> 0, allocs |-> <<>>]]
  /\ at = [t \in Tasks |-> "start"]
  /\ phdr = [t \in Tasks |-> 1]
  /\ program \in Programs
  /\ umap = [t \in Tasks |-> <<>>]
  /\ asked = [t \in Tasks |-> {}]
  /\ bytes = [t \in Tasks |-> <<>>]

Init == PagingInit /\ UserInit

Running(t, place) == kernel_pgd # 0 /\ ~mem.panic /\ at[t] = place
Goto(t, place) == at' = [at EXCEPT ![t] = place]
KernelKeeps == UNCHANGED <<has1g, clean, kernel_pgd, kmap, ioremaps>>

\* mm_create() with vmm_copy_kpgtbl(); init_task_init() panics if it fails
Mm_create(t) ==
  /\ Running(t, "start")
  /\ IF mem.free = {}
     THEN mem' = Panic(mem) /\ UNCHANGED <<mm, at>>
     ELSE /\ mem' = Vmm_copy_kpgtbl(mem)
          /\ mm' = [mm EXCEPT ![t].pgd = Min(mem.free)]
          /\ Goto(t, "stack")
  /\ KernelKeeps
  /\ UNCHANGED <<phdr, program, umap, asked, bytes>>

\* pages for a task, the bytes written there and their entry in its list; the
\* bytes of fresh frames are whatever they were, and a byte that is written
\* where the task has no page is a page fault of the kernel, and a panic
Give_pages(t, first, n, flags, oom, written, next) ==
  LET r == Vmm_alloc_range(mem, mm[t].pgd, first, n, [flags |-> flags, allow_overwrite |-> FALSE])
      l == Add_alloc(mm[t].allocs, [addr |-> first, count |-> n], oom)
      mapped == DOMAIN bytes[t] \cup RANGE(first * PAGE_SIZE, n * PAGE_SIZE)
      bad == r.failed \/ r.mem.panic \/ ~(DOMAIN written \subseteq mapped) \/ l.fault
  IN  /\ mem' = IF bad THEN Panic(r.mem) ELSE r.mem
      /\ umap' = [umap EXCEPT ![t] =
                    [x \in DOMAIN @ \cup RANGE(first, Len(r.frames)) |->
                       IF x \in RANGE(first, Len(r.frames))
                       THEN [to |-> r.frames[x - first + 1], flags |-> flags] ELSE @[x]]]
      /\ IF bad THEN UNCHANGED <<mm, asked, bytes, at>>
         ELSE /\ mm' = [mm EXCEPT ![t].allocs = l.allocs]
              /\ asked' = [asked EXCEPT ![t] = @ \cup {[addr |-> first, count |-> n]}]
              /\ bytes' = [bytes EXCEPT ![t] =
                             [x \in mapped |->
                                IF x \in DOMAIN written THEN written[x]
                                ELSE IF x \in DOMAIN @ THEN @[x] ELSE "stale"]]
              /\ Goto(t, next)
      /\ KernelKeeps

\* arch_activate_mm() and mm_alloc_main_stack(); every failure is a panic of
\* init_task_init()
Mm_alloc_main_stack(t, oom) ==
  /\ Running(t, "stack")
  /\ Give_pages(t, StackBottom, StackPages, {"NX", "USER"}, oom, <<>>, "open")
  /\ UNCHANGED <<phdr, program>>

\* elf_load() as far as its loop: the file is open, its header is a valid one
\* and the program headers are read into a buffer.  Headers cut off by the end
\* of the file make it return the number of bytes read, which is no error
\* pointer: init_task_init() takes it for the entry point.
Elf_load_begins(t) ==
  /\ Running(t, "open")
  /\ Goto(t, IF program[t].phend <= program[t].size THEN "load" ELSE "ready")
  /\ UNCHANGED <<pagingVars, mm, phdr, program, umap, asked, bytes>>

\* elf_load() fails before its loop: no file, a short or wrong header, a read
\* error or no memory; init_task_init() panics
Elf_load_fails(t) ==
  /\ Running(t, "open")
  /\ mem' = Panic(mem)
  /\ KernelKeeps
  /\ UNCHANGED userVars

Header(t) == program[t].phdrs[phdr[t]]

\* what vfs_read() copies of a segment: all of file_size, whatever mem_size is,
\* or what is left of the file, which goes unnoticed
Read_bytes(h, size) == RANGE(h.vaddr, Min({h.file_size, size - h.offset}))

\* faulty: bytes behind the file's part of a segment are not cleared
Written_no_bss(h, size) == [x \in Read_bytes(h, size) |-> h.offset + x - h.vaddr]

\* what vfs_read() and memset() write for a segment
Written(h, size) ==
  [x \in Read_bytes(h, size) \cup RANGE(h.vaddr + h.file_size, h.mem_size - h.file_size) |->
     IF x \in Read_bytes(h, size) THEN h.offset + x - h.vaddr ELSE "zero"]

\* x & (align - 1), in the width of an address: without an alignment every bit
\* counts
Misaligned(x, align) == (x & ((align - 1) % (Fan[1] * Span[1] * PAGE_SIZE))) # 0

\* load_program_header() skips what is not LOAD, and what is not aligned
Skipped(h) == h.type # "LOAD" \/ Misaligned(h.vaddr, h.align) \/ Misaligned(h.paddr, h.align)

Skip_program_header(t) ==
  /\ Running(t, "load")
  /\ phdr[t] <= Len(program[t].phdrs)
  /\ Skipped(Header(t))
  /\ phdr' = [phdr EXCEPT ![t] = @ + 1]
  /\ UNCHANGED <<pagingVars, mm, at, program, umap, asked, bytes>>

\* load_program_header(): pages, then vfs_seek(), which stops at the end of
\* the file, then vfs_read(); elf_load() cleans up and its caller panics
Load_program_header(t, oom, io_error) ==
  LET h == Header(t)
      first == PAGE_ALIGN_DOWN(h.vaddr)
      n == PAGE_ALIGN_UP(h.mem_size + (h.vaddr % PAGE_SIZE))
      flags == {"USER"} \cup (IF h.exec THEN {} ELSE {"NX"})
      r == Vmm_alloc_range(mem, mm[t].pgd, first, n, [flags |-> flags, allow_overwrite |-> FALSE])
  IN  /\ Running(t, "load")
      /\ phdr[t] <= Len(program[t].phdrs)
      /\ ~Skipped(h)
      /\ IF r.failed \/ h.offset > program[t].size \/ io_error
         THEN /\ mem' = Panic(r.mem)
              /\ KernelKeeps
              /\ UNCHANGED <<mm, at, umap, asked, bytes, phdr>>
         ELSE /\ Give_pages(t, first, n, flags, oom, Written(h, program[t].size), "load")
              /\ phdr' = [phdr EXCEPT ![t] = @ + 1]
      /\ UNCHANGED program

\* elf_load() returns and init_task_init() sets the entry point
Elf_load_returns(t) ==
  /\ Running(t, "load")
  /\ phdr[t] > Len(program[t].phdrs)
  /\ Goto(t, "ready")
  /\ UNCHANGED <<pagingVars, mm, phdr, program, umap, asked, bytes>>

Idle ==
  /\ mem.panic \/ \A t \in Tasks : at[t] = "ready"
  /\ UNCHANGED vars

Next ==
  \/ Vmm_init /\ UNCHANGED userVars
  \/ \E d \in Devices : Ioremap(d) /\ UNCHANGED userVars
  \/ \E t \in Tasks :
       \/ Mm_create(t)
       \/ \E oom \in BOOLEAN : Mm_alloc_main_stack(t, oom)
       \/ Elf_load_begins(t)
       \/ Elf_load_fails(t)
       \/ Skip_program_header(t)
       \/ \E oom, io_error \in BOOLEAN : Load_program_header(t, oom, io_error)
       \/ Elf_load_returns(t)
  \/ Idle

Spec == Init /\ [][Next]_vars

-----------------------------------------------------------------------------
Alive == kernel_pgd # 0 /\ ~mem.panic
Spaces == {mm[t].pgd : t \in Tasks} \ {0}

\* The four-level tables, with pages of three sizes, translate every kernel
\* address to what vmm_init() and ioremap() asked for, in the kernel's own
\* address space and in every task's, also in those copied before the mapping
\* was made; no kernel address is accessible from user mode; and
\* PHYS_TO_VIRT() of every usable byte is that byte, also where regions begin
\* or end inside a page.
KernelMappedEverywhere ==
  Alive =>
    \A pgd \in Spaces \cup {kernel_pgd} :
      /\ \A v \in Pages \ UserPages :
           /\ Translate(pgd, v) = Request(kmap, v)
           /\ "USER" \notin Translate(pgd, v).flags
      /\ \A r \in ToSet(clean) : \A b \in r.start..(r.end - 1) :
           Translate(pgd, PHYS_TO_VIRT(b \div PAGE_SIZE)).to = b \div PAGE_SIZE

\* A task's user addresses translate to the frames that it was given and to
\* nothing else, and the kernel's own tables have no user address.
UserMappedAsAsked ==
  Alive =>
    \A v \in UserPages :
      /\ Translate(kernel_pgd, v).to = -1
      /\ \A t \in Tasks : mm[t].pgd # 0 => Translate(mm[t].pgd, v) = Request(umap[t], v)

\* No frame has two uses: a frame of one user page is not another user page's,
\* in this task or another, nor a page table, nor free; and no table is free.
UserFramesPrivate ==
  LET uses == {<<t, v>> : t \in Tasks, v \in UserPages}
      live == {u \in uses : u[2] \in DOMAIN umap[u[1]]}
      frame(u) == umap[u[1]][u[2]].to
  IN  /\ \A a, b \in live : a # b => frame(a) # frame(b)
      /\ \A a \in live : frame(a) \notin mem.free \cup DOMAIN mem.tables
      /\ mem.free \cap DOMAIN mem.tables = {}

\* the bytes behind a segment that its part of the file runs over, since
\* load_program_header() does not compare file_size with mem_size
Overrun(h) == RANGE(h.vaddr + h.mem_size, h.file_size - h.mem_size)

\* When elf_load() has returned, every byte of every LOAD segment that was not
\* skipped holds the file's byte or zero, whatever the order of the segments
\* and whatever the frames held before, provided that the file is as long as
\* its headers say.  Only a later segment with more bytes in the file than in
\* memory can have written over it.
SegmentsLoaded ==
  \A t \in Tasks : at[t] = "ready" /\ program[t].phend <= program[t].size =>
    \A i \in DOMAIN program[t].phdrs :
      LET h == program[t].phdrs[i]
          later == {k \in (i + 1)..Len(program[t].phdrs) : ~Skipped(program[t].phdrs[k])}
      IN  ~Skipped(h) /\ h.offset + h.file_size <= program[t].size =>
            \A x \in RANGE(h.vaddr, h.mem_size) \ UNION {Overrun(program[t].phdrs[k]) : k \in later} :
              bytes[t][x] = IF x < h.vaddr + h.file_size THEN h.offset + x - h.vaddr ELSE "zero"

\* The list that mm_put() will walk is sorted by address and holds allocations
\* that were made; with at most three of them it holds them all.  (A fourth
\* makes mm_add_alloc() drop the entries behind the head.)
AllocsSorted ==
  \A t \in Tasks :
    LET l == SelectSeq(mm[t].allocs, LAMBDA a : a # ERR)
    IN  /\ \A i \in 1..(Len(l) - 1) : l[i].addr <= l[i + 1].addr
        /\ ToSet(l) \subseteq asked[t]
        /\ Cardinality(asked[t]) <= 3 /\ Len(l) = Len(mm[t].allocs) => ToSet(l) = asked[t]
=============================================================================

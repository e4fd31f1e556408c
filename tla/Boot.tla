-------------------------------- MODULE Boot --------------------------------
(***************************************************************************)
(* The boot loader (arch/x86_64/boot): the memory map, the A20 line, the   *)
(* switches between CPU modes, the kernel file loaded from ext2 through    *)
(* BIOS calls, and the page table the kernel starts on.  Its state is one  *)
(* record that dies when the kernel runs.  The firmware is external: each  *)
(* of its calls may fail, and the loader then stops for ever.              *)
(*                                                                         *)
(* Sizes of the loader's heap are in sectors.                              *)
(***************************************************************************)
EXTENDS Ext2

CONSTANTS
  MAX_ENTRIES,     \* the limit that get_memory_map() compares with
  BiosEntries,     \* bound on the entries of the BIOS's memory map
  Mbr,             \* entries of the partition table: [status, sys_id]
  Kernels,         \* names, one of which stands for KERNEL_FILENAME
  KernelBytes,     \* inode number -> the bytes of a kernel file
  HEAP_SIZE, BLOCK_SECTORS

VARIABLE boot
\* pc      the routine that runs next
\* mode    "real", "pm16", "unreal", "pm32" or "long"
\* flag    the interrupt flag          masked  both PICs are masked
\* a20     the A20 line is enabled     tries   ways of enabling it tried
\* lo, hi  the words at 0x500 (COUNTER) and at 0x100500
\* count   bp, the number of entries of the memory map
\* high    the upper half of ebp is not zero
\* kernel  the name of the file        image   the bytes at KERNEL_LOAD_DEST
\* heap    remaining                   pages   the page table is made

BootInit ==
  \E a20, high \in BOOLEAN, kernel \in Kernels :
    boot = [pc |-> "read_entry", mode |-> "real", flag |-> TRUE, masked |-> FALSE, a20 |-> a20,
            tries |-> 0, lo |-> -1, hi |-> -2, count |-> 0, high |-> high, kernel |-> kernel,
            image |-> <<>>, heap |-> HEAP_SIZE, pages |-> FALSE]

Hang == boot' = [boot EXCEPT !.pc = "hang"]

-----------------------------------------------------------------------------
\* get_memory_map(): one call of the BIOS.  bp is cleared and counts, and ebp is
\* compared with the limit: with anything in its upper half, which is as the
\* BIOS left it, there is no limit.  Otherwise the loader stops at the entry
\* that fills the list, also when it is the last one.
Read_entry(reply) ==
  /\ boot.pc = "read_entry"
  /\ reply = "more" => boot.count + 1 < BiosEntries
  /\ CASE reply = "carry" -> boot' = [boot EXCEPT !.pc = "read_stage2", !.lo = boot.count]
       [] reply = "bad" -> Hang
       [] OTHER ->
            IF boot.count + 1 = MAX_ENTRIES /\ ~boot.high THEN Hang
            ELSE boot' = [boot EXCEPT !.count = @ + 1,
                                      !.pc = IF reply = "last" THEN "read_stage2" ELSE @,
                                      !.lo = IF reply = "last" THEN boot.count + 1 ELSE @]

\* read_stage2() and the jump to it
Read_stage2 ==
  /\ boot.pc = "read_stage2"
  /\ Hang \/ boot' = [boot EXCEPT !.pc = "enable_a20_line"]

\* faulty: the words are popped into each other's place
Test_a20_swapped(b) ==
  IF b.a20 THEN [b EXCEPT !.lo = b.hi, !.hi = b.lo] ELSE b

\* .test_a20: with the line disabled 0xffff:0x510 is 0x0000:0x500.  The words
\* are pushed, 0xff and then 0 is written, and the words are popped.
Test_a20(b) ==
  LET pushed == <<IF b.a20 THEN b.hi ELSE b.lo, b.lo>>
      popped == [b EXCEPT !.lo = pushed[2]]
  IN  IF b.a20 THEN [popped EXCEPT !.hi = pushed[1]] ELSE [popped EXCEPT !.lo = pushed[1]]

\* enable_a20_line(): a test, and while it fails one of three ways of enabling
\* the line, which may work or not
Enable_a20_line ==
  LET tested == Test_a20(boot)
  IN  /\ boot.pc = "enable_a20_line"
      /\ IF boot.a20 THEN boot' = [tested EXCEPT !.pc = "load_gdt"]
         ELSE IF boot.tries = 3 THEN boot' = [tested EXCEPT !.pc = "hang"]
         ELSE \E works \in BOOLEAN : boot' = [tested EXCEPT !.a20 = works, !.tries = @ + 1]

Load_gdt_and_switch_to_pm_temp ==
  /\ boot.pc = "load_gdt"
  /\ boot' = [boot EXCEPT !.pc = "pm_temp", !.mode = "pm16", !.flag = FALSE]

Pm_temp ==
  /\ boot.pc = "pm_temp"
  /\ boot' = [boot EXCEPT !.pc = "unreal_mode", !.mode = "unreal"]

\* unreal_mode, up to the call of loadkernel(): the first bootable partition is
\* the one, and it must be a Linux partition
Unreal_mode ==
  /\ boot.pc = "unreal_mode"
  /\ LET i == SelectInSeq(Mbr, LAMBDA e : e.status = 128)
     IN  boot' = IF i = 0 \/ Mbr[i].sys_id # 131
                 THEN [boot EXCEPT !.pc = "hang"]
                 ELSE [boot EXCEPT !.pc = "loadkernel", !.flag = TRUE]

-----------------------------------------------------------------------------
\* search_dir_block() of the loader: an entry of length 0 that does not match
\* is looked at for ever (-1); an unused entry counts like another
Find_entry(entries, name) ==
  LET i == SelectInSeq(entries, LAMBDA e : e.name = name \/ e.size = 0)
  IN  IF i = 0 THEN 0 ELSE IF entries[i].name = name THEN entries[i].inode ELSE -1

\* search_dir() of the root, in its direct blocks
Search_dir(name) ==
  LET Step(found, addr) == IF addr = 0 \/ found # 0 THEN found ELSE Find_entry(Disk[addr], name)
  IN  FoldLeft(Step, 0, Inode(ROOT_INO).direct)

\* faulty: a hole takes no room
Load_data_dense(ptrs, max) ==
  LET Step(out, addr) ==
        IF Len(out) >= max \/ addr = 0 THEN out
        ELSE out \o SubSeq(Disk[addr], 1, MinOf(BLOCK_SIZE, max - Len(out)))
  IN  FoldLeft(Step, <<>>, ptrs)

\* load_data(): a hole is a whole block of zeros, even at the end of the file
Load_data(ptrs, max) ==
  LET Step(out, addr) ==
        IF Len(out) >= max THEN out
        ELSE IF addr = 0 THEN out \o [i \in 1..BLOCK_SIZE |-> 0]
        ELSE out \o SubSeq(Disk[addr], 1, MinOf(BLOCK_SIZE, max - Len(out)))
  IN  FoldLeft(Step, <<>>, ptrs)

\* load_kernel_binary(): direct, singly and doubly indirect blocks, and no more
Load_kernel_binary(inode) ==
  LET direct == Load_data(inode.direct, inode.size)
      singly == direct \o Load_data(Disk[inode.singly], inode.size - Len(direct))
      Step(out, addr) ==
        IF Len(out) >= inode.size THEN out
        ELSE IF addr = 0 THEN out \o [i \in 1..MinOf(NPTRS * BLOCK_SIZE, inode.size - Len(out)) |-> 0]
        ELSE out \o Load_data(Disk[addr], inode.size - Len(out))
  IN  IF Len(direct) >= inode.size THEN direct
      ELSE IF Len(singly) >= inode.size THEN singly
      ELSE FoldLeft(Step, singly, Disk[inode.doubly])

\* the blocks load_kernel_binary() has on the heap at once
Buffers(inode) ==
  IF inode.size <= NDIRECT * BLOCK_SIZE THEN 1
  ELSE IF inode.size <= (NDIRECT + NPTRS) * BLOCK_SIZE THEN 2 ELSE 3

\* loadkernel().  The superblock (two sectors), the root's inode and the
\* kernel's stay on the heap; the block of search_dir() and those of
\* load_kernel_binary() are given back.
Loadkernel ==
  LET ino == Search_dir(boot.kernel)
      inode == Inode(ino)
  IN  /\ boot.pc = "loadkernel"
      /\ IF boot.heap < 3 + BLOCK_SECTORS \/ ino <= 0 THEN Hang
         ELSE IF boot.heap < 4 + Buffers(inode) * BLOCK_SECTORS THEN Hang
         ELSE boot' = [boot EXCEPT !.pc = "switch_to_pm_main", !.image = Load_kernel_binary(inode),
                                   !.heap = @ - 4]

\* issue_read_to_disk() of any of the sectors that loadkernel() needs fails
Issue_read_to_disk_fails == boot.pc = "loadkernel" /\ Hang

Switch_to_pm_main ==
  /\ boot.pc = "switch_to_pm_main"
  /\ boot' = [boot EXCEPT !.pc = "pm_main", !.mode = "pm32", !.flag = FALSE, !.masked = TRUE]

\* pm_main and create_page_table
Pm_main ==
  /\ boot.pc = "pm_main"
  /\ boot' = [boot EXCEPT !.pc = "switch_to_long_mode", !.pages = TRUE]

\* an entry written at a byte offset from PML4_ADDR leads to a page behind it
Slot(offset, page) == <<offset \div 4096, (offset % 4096) \div 8, page>>

\* what create_page_table writes: the top level, two tables of the second
\* level and one directory (page 3) of 2 MiB pages from address 0 on
Page_table == {Slot(0, 1), Slot(2184, 1), Slot(4088, 2), Slot(4096, 3), Slot(4096 * 3 - 16, 3)}

\* the physical address, in MiB, of slot i of the directory behind two slots
Translate(pml4, pdpt, i) ==
  IF \E t \in 1..2 : <<0, pml4, t>> \in Page_table /\ <<t, pdpt, 3>> \in Page_table THEN 2 * i ELSE -1

\* switch_to_long_mode and lm_main; without CPUID or long mode the loader stops
Switch_to_long_mode ==
  /\ boot.pc = "switch_to_long_mode"
  /\ Hang \/ boot' = [boot EXCEPT !.mode = "long", !.pc = "kernel"]

\* _start of the kernel: from here on nothing of the loader is used
Start == boot.pc = "kernel" /\ boot' = [pc |-> "running"]

BootNext ==
  \/ \E reply \in {"more", "last", "carry", "bad"} : Read_entry(reply)
  \/ Read_stage2 \/ Enable_a20_line \/ Load_gdt_and_switch_to_pm_temp \/ Pm_temp
  \/ Unreal_mode \/ Loadkernel \/ Issue_read_to_disk_fails \/ Switch_to_pm_main \/ Pm_main
  \/ Switch_to_long_mode \/ Start

-----------------------------------------------------------------------------
\* The word at 0x500 that tells the kernel how long its memory map is keeps
\* the number of entries read, although every test of the A20 line writes
\* over it, directly and, while the line is disabled, through 0x100500 too.
MapLengthKept ==
  boot.pc \notin {"read_entry", "hang", "running"} => boot.lo = boot.count

\* When the kernel is entered, interrupts are off and masked, the CPU is in
\* long mode, 0xFFFFFFFF81000000 leads to the 16 MiB where the file was loaded,
\* low memory is mapped where the loader and where PHYS_TO_VIRT() expect it,
\* and the memory at 16 MiB is the file: direct, singly and doubly indirect
\* blocks, holes included.
KernelHandedOver ==
  boot.pc = "kernel" =>
    LET size == Inode(Search_dir(boot.kernel)).size
    IN  /\ boot.mode = "long" /\ ~boot.flag /\ boot.masked /\ boot.pages /\ boot.a20
        /\ Translate(511, 510, 8) = 16 /\ Translate(273, 0, 0) = 0 /\ Translate(0, 0, 0) = 0
        /\ Len(boot.image) >= size
        /\ SubSeq(boot.image, 1, size) = KernelBytes[Search_dir(boot.kernel)]
=============================================================================

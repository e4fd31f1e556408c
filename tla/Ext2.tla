-------------------------------- MODULE Ext2 --------------------------------
(***************************************************************************)
(* The ext2 driver (fs/ext2) as operators on a record w: the dentries and  *)
(* cached tables, the live objects of each kind, and the outcome of the    *)
(* last step.  Every allocation and every read of the device is counted in *)
(* w.n, and the ones whose numbers are in w.faults fail.                   *)
(*                                                                         *)
(* A dentry is known by its path; when a path has two copies the later is  *)
(* found.  A block of the disk is a sequence: of inodes, of directory      *)
(* entries, of block numbers or of bytes.  The driver only reads, so an    *)
(* inode in memory is known by its number.                                 *)
(***************************************************************************)
EXTENDS Integers, FiniteSets, SequencesExt

CONSTANTS
  Disk,              \* block -> its contents
  BLOCK_SIZE,        \* bytes of a block
  NDIRECT,           \* direct pointers of an inode
  NPTRS,             \* block_size / 4
  INODES_PER_GROUP, GROUPS, INODES_PER_BLOCK,
  Inode_table,       \* bgd_table: group (from 0) -> first block of its inodes
  NAME_MOD           \* search_dir_block() takes the length of a name as a uint8_t

ROOT_INO == 2
Kinds == {"sb", "info", "bgd", "super", "dentry", "name", "inode", "ext2_inode", "i_info", "block", "file"}

Fails(w) == w.n + 1 \in w.faults

Alloc(w, k) ==
  [w EXCEPT !.n = @ + 1, !.err = IF Fails(w) THEN "ENOMEM" ELSE "ok",
            !.heap[k] = IF Fails(w) THEN @ ELSE @ + 1]

Free(w, k) == [w EXCEPT !.heap[k] = @ - 1]

Read(w) == [w EXCEPT !.n = @ + 1, !.err = IF Fails(w) THEN "EIO" ELSE "ok"]

Error(w, e) == [w EXCEPT !.err = e]

\* the step after one that may have failed
Then(w, Step(_)) == IF w.err = "ok" THEN Step(w) ELSE w

\* an object of kind k is given up when the last step failed
Or_free(w, k) == IF w.err = "ok" THEN w ELSE Free(w, k)

-----------------------------------------------------------------------------
\* the block and the place of an inode, from ext2_read_inode()
Inode(ino) ==
  LET index == (ino - 1) % INODES_PER_GROUP
  IN  Disk[Inode_table[(ino - 1) \div INODES_PER_GROUP] + index \div INODES_PER_BLOCK]
        [(index % INODES_PER_BLOCK) + 1]

IsDir(ino) == Inode(ino).mode = "dir"
IsReg(ino) == Inode(ino).mode = "reg"

\* ext2_read_inode(): the four allocations are all tried before they are
\* looked at, and what succeeded is freed when anything fails
Read_inode(w, ino) ==
  LET Filled(r) == IF r.err # "ok" THEN [r EXCEPT !.heap = w.heap]
                   ELSE IF ~IsDir(ino) /\ ~IsReg(ino) THEN [Error(r, "panic") EXCEPT !.crash = "type"]
                   ELSE Free(r, "block")
      Tried(a) == IF \E i \in (w.n + 1)..(w.n + 4) : i \in w.faults
                  THEN [a EXCEPT !.heap = w.heap, !.err = "ENOMEM"] ELSE Filled(Read(a))
  IN  IF (ino - 1) \div INODES_PER_GROUP >= GROUPS THEN Error(w, "EINVAL")
      ELSE Tried(Alloc(Alloc(Alloc(Alloc(w, "block"), "ext2_inode"), "inode"), "i_info"))

\* ext2_init_singly(): the table of the inode behind dentry d
Init_singly(w, d) ==
  LET Kept(r) == [r EXCEPT !.dents[d].singly = TRUE]
      Filled(a) == Then(Or_free(Read(a), "block"), Kept)
  IN  IF w.dents[d].singly THEN Error(w, "ok") ELSE Then(Alloc(w, "block"), Filled)

\* faulty: a block beyond the direct pointers is taken for a hole
Pointer_direct(ino, i) == IF i < NDIRECT THEN Inode(ino).direct[i + 1] ELSE 0

\* the number of block i of a file or directory: in its inode, in its table,
\* or nowhere
Pointer(ino, i) ==
  IF i < NDIRECT THEN Inode(ino).direct[i + 1]
  ELSE IF i < NDIRECT + NPTRS THEN Disk[Inode(ino).singly][i - NDIRECT + 1] ELSE 0

\* the entry at which search_dir_block() stops, or 0.  The length of the name
\* it is given has lost its upper bits.
Search_dir_block(entries, name) ==
  LET len == Len(name) % NAME_MOD
      Stops(e) == e.size = 0 \/ (e.inode # 0 /\ e.name = SubSeq(name, 1, len))
  IN  SelectInSeq(entries, Stops)

\* one round of the loop of ext2_lookup(); found is the number of an inode
Lookup_block(acc, i, d, name) ==
  LET Stop(w, ino) == [w |-> w, done |-> TRUE, found |-> ino]
      Entry(r, e) == IF e.size = 0 THEN Stop(Error(r, "EUCLEAN"), 0) ELSE Stop(r, e.inode)
      Searched(r, entries, at) ==
        IF r.err # "ok" THEN Stop(r, 0)
        ELSE IF at = 0 THEN [w |-> Error(r, "ENOENT"), done |-> FALSE, found |-> 0]
        ELSE Entry(r, entries[at])
      Located(s, addr) ==
        IF s.err # "ok" THEN Stop(s, 0)
        ELSE IF addr = 0 THEN Stop(Error(s, "ENOENT"), 0)
        ELSE Searched(Read(s), Disk[addr], Search_dir_block(Disk[addr], name))
  IN  IF acc.done THEN acc
      ELSE Located(IF i < NDIRECT THEN Error(acc.w, "ok") ELSE Init_singly(acc.w, d),
                   Pointer(acc.w.dents[d].ino, i))

\* d_add(): the child is linked to its parent, in front of its other children
D_add(w, parent, name, ino) ==
  LET path == Append(parent, name)
      copies == IF path \in DOMAIN w.dents THEN w.dents[path].copies ELSE 0
  IN  [w EXCEPT !.dents = (path :> [ino |-> ino, singly |-> FALSE, copies |-> copies + 1]) @@ @]

\* ext2_lookup(): finds name in the directory of dentry d and links the child
Ext2_lookup(w, d, name) ==
  LET Round(acc, i) == Lookup_block(acc, i, d, name)
      Linked(ino, inode) == Free(Then(inode, LAMBDA x : D_add(x, d, name, ino)), "block")
      Scanned(scan) == IF scan.found = 0 THEN Free(scan.w, "block")
                       ELSE Linked(scan.found, Read_inode(scan.w, scan.found))
      Scan(a) == Scanned(FoldLeft(Round, [w |-> a, done |-> FALSE, found |-> 0],
                                  [i \in 1..(NDIRECT + NPTRS) |-> i - 1]))
  IN  Then(Alloc(w, "block"), Scan)

-----------------------------------------------------------------------------
\* a block is read once more when the first read fails
Read_twice(w) ==
  LET Again(r) == IF r.err = "ok" THEN r ELSE Read(r)
  IN  Again(Read(w))

MinOf(a, b) == IF a < b THEN a ELSE b

\* one round of the loop of ext2_read_file(): the number of the block is b,
\* first the place in it of the first byte asked for.  A table that could not
\* be read is used all the same.
Read_block(acc, b, d, first) ==
  LET inTable == b >= NDIRECT /\ b < NDIRECT + NPTRS
      Copied(r, addr, n) ==
        IF r.err # "ok" THEN [acc EXCEPT !.w = r]
        ELSE [w |-> r, remaining |-> acc.remaining - n,
              out |-> acc.out \o [i \in 1..n |-> IF addr = 0 THEN 0 ELSE Disk[addr][first + i]]]
      Located(s, addr) ==
        IF inTable /\ ~s.dents[d].singly
        THEN [acc EXCEPT !.w = [Error(s, "panic") EXCEPT !.crash = "null table"]]
        ELSE Copied(IF addr = 0 THEN Error(s, "ok") ELSE Read_twice(s), addr,
                    MinOf(acc.remaining, BLOCK_SIZE - first))
  IN  IF acc.w.err # "ok" THEN acc
      ELSE Located(IF inTable THEN Init_singly(acc.w, d) ELSE acc.w, Pointer(acc.w.dents[d].ino, b))

\* faulty: every block is read from the place the first one is
First_offset_always(b, pos) == pos % BLOCK_SIZE

\* where the bytes asked for begin in block b
First_offset(b, pos) == IF b = pos \div BLOCK_SIZE THEN pos % BLOCK_SIZE ELSE 0

\* ext2_read_file(): the outcome and the bytes
Read_file(w, d, pos, count) ==
  LET size == Inode(w.dents[d].ino).size
      n == MinOf(count, size - pos)
      start == pos \div BLOCK_SIZE
      last == (pos + n + BLOCK_SIZE - 1) \div BLOCK_SIZE
      Round(acc, b) == Read_block(acc, b, d, First_offset(b, pos))
      Done(got) == [w |-> Free(got.w, "block"), out |-> IF got.w.err = "ok" THEN got.out ELSE <<>>]
      Begun(a) == IF a.err # "ok" THEN [w |-> a, out |-> <<>>]
                  ELSE Done(FoldLeft(Round, [w |-> a, remaining |-> n, out |-> <<>>],
                                     [i \in 1..(last - start) |-> start + i - 1]))
  IN  IF count = 0 \/ pos >= size THEN [w |-> Error(w, "ok"), out |-> <<>>]
      ELSE Begun(Alloc(w, "block"))

-----------------------------------------------------------------------------
\* d_alloc(): a dentry and its name
D_alloc(w) == Then(Alloc(w, "dentry"), LAMBDA d : Or_free(Alloc(d, "name"), "dentry"))

D_free(w) == Free(Free(w, "name"), "dentry")

\* ext2_read_superblock(), into memory the caller has
Read_superblock(w) == Then(Alloc(w, "block"), LAMBDA a : Free(Read(a), "block"))

\* ext2_probe() of a device whose superblock is good, or is not
Ext2_probe(w, good) ==
  LET Valid(r) == Error(r, IF good THEN "ok" ELSE "EINVAL")
  IN  Then(Alloc(w, "super"), LAMBDA a : Free(Then(Read_superblock(a), Valid), "super"))

\* ext2_fill_bgd_table_info()
Fill_bgd_table_info(w) == Then(Alloc(w, "bgd"), LAMBDA a : Or_free(Read(a), "bgd"))

\* ext2_get_root(): an error of ext2_read_inode() is not NULL, so it is taken
\* for the inode of the root; without a dentry only the inode is freed
Get_root(w) ==
  LET Rooted(i, d) ==
        IF i.err = "panic" THEN i
        ELSE IF d.err # "ok"
             THEN IF i.err = "ok" THEN Error(Free(d, "inode"), "ENOMEM")
                  ELSE [d EXCEPT !.crash = "wild free"]
        ELSE [d EXCEPT !.dents = <<>> :> [ino |-> ROOT_INO, singly |-> FALSE, copies |-> 1],
                       !.crash = IF i.err = "ok" THEN @ ELSE "bad root"]
      Named(i) == Rooted(i, D_alloc(i))
  IN  Named(Read_inode(w, ROOT_INO))

\* ext2_mount() of device dev.  info is not cleared, so what its bgd_table holds
\* before ext2_fill_bgd_table_info() has succeeded is whatever was there: junk
\* says that it was not NULL.
Ext2_mount(w, dev, junk) ==
  LET Undo(x) == IF x.err = "ok" THEN x
                 ELSE [Free(Free(x, "info"), "sb") EXCEPT !.crash = IF junk THEN "wild free" ELSE @]
      Rooted(root) == IF root.crash # "no" THEN root
                      ELSE IF root.err # "ok" THEN Free(Free(Free(root, "bgd"), "info"), "sb")
                      ELSE [root EXCEPT !.bdev = dev]
      Filled(info) == Then(Undo(Then(Read_superblock(info), Fill_bgd_table_info)),
                           LAMBDA bgd : Rooted(Get_root(bgd)))
  IN  Then(Alloc(w, "sb"), LAMBDA sb : Then(Or_free(Alloc(sb, "info"), "sb"), Filled))
=============================================================================

-------------------------------- MODULE Vfs ---------------------------------
(***************************************************************************)
(* The virtual file system (fs/vfs.c) over ext2: the mount of the root at  *)
(* boot, the cache of dentries, and the calls its users make on files.     *)
(* One action is one call; faults are the allocations and reads of the     *)
(* call that fail.  Paths are sequences of names, as vfs_lookup() splits   *)
(* them, and names sequences of characters.                                *)
(***************************************************************************)
EXTENDS Ext2

CONSTANTS
  Devices,    \* the registered devices: whether each one has a good superblock
  Paths,      \* paths that are opened
  Tree,       \* path -> its inode number: what the disk holds
  Contents,   \* inode number -> the bytes of the file
  Faults,     \* sets of calls to the allocator and the device that fail
  Counts,     \* how much is read at once
  Seeks,      \* [offset, whence]
  MaxFiles    \* bound on the open files

VARIABLES
  dents,      \* the cached dentries: path -> [ino, singly, copies]
  files,      \* the open files: [dentry, pos]
  heap,       \* kind -> how many objects of it are live
  ret,        \* what the last call was asked and gave
  crash       \* "no", or why the kernel is gone

vfs_vars == <<dents, files, heap, ret, crash>>

Nothing == [op |-> "none", faulty |-> FALSE, err |-> "ok"]

NotMounted == <<>>

VfsInit ==
  /\ dents = NotMounted
  /\ files = <<>>
  /\ heap = [k \in Kinds |-> 0]
  /\ ret = Nothing
  /\ crash = "no"

\* bdev is the device that the call has mounted, if any
World(faults) ==
  [n |-> 0, faults |-> faults, err |-> "ok", bdev |-> 0, dents |-> dents, heap |-> heap, crash |-> crash]

\* what failed in the call
Failed(w) == {i \in w.faults : i <= w.n}
Faulty(w) == Failed(w) # {}

Commit(w) == dents' = w.dents /\ heap' = w.heap /\ crash' = w.crash

-----------------------------------------------------------------------------
\* faulty: a device that failed ends the search
Try_device_stops(w, dev, junk) ==
  IF w.dents # NotMounted \/ w.crash # "no" \/ w.err \notin {"ok", "EINVAL"} THEN w
  ELSE Then(Ext2_probe(w, Devices[dev]), LAMBDA p : Ext2_mount(p, dev, junk))

\* one device of vfs_mount_root(); a failed mount goes on to the next
Try_device(w, dev, junk) ==
  IF w.dents # NotMounted \/ w.crash # "no" THEN w
  ELSE Then(Ext2_probe(w, Devices[dev]), LAMBDA p : Ext2_mount(p, dev, junk))

\* vfs_mount_root(), and the panic of kmain() when no device can be mounted
Vfs_mount_root(faults) ==
  /\ dents = NotMounted /\ crash = "no"
  /\ \E junk \in BOOLEAN :
     LET Try(w, dev) == Try_device(w, dev, junk)
     IN  \E w \in {FoldLeft(Try, World(faults), [dev \in DOMAIN Devices |-> dev])} :
           /\ Commit([w EXCEPT !.crash = IF w.dents = NotMounted /\ @ = "no" THEN "no root" ELSE @])
           /\ ret' = [op |-> "mount", faulty |-> Faulty(w), err |-> w.err, bdev |-> w.bdev,
                      failures |-> Cardinality(Failed(w))]
  /\ UNCHANGED files

\* the child is freed when it was not linked
Linked_or_freed(l) == IF l.err \in {"ok", "panic"} THEN l ELSE D_free(l)

\* faulty: the cache is not searched
Lookup_direct_uncached(w, d, name) ==
  Then(D_alloc(w), LAMBDA a : Linked_or_freed(Ext2_lookup(a, d, name)))

\* faulty: a dentry whose lookup failed is not freed
Lookup_direct_keeps(w, d, name) ==
  IF Append(d, name) \in DOMAIN w.dents THEN Error(w, "ok")
  ELSE Then(D_alloc(w), LAMBDA a : Ext2_lookup(a, d, name))

\* vfs_lookup_direct(): the cache compares the hash, the length and then the
\* characters of a name; on a miss ext2_lookup() links the child
Lookup_direct(w, d, name) ==
  IF Append(d, name) \in DOMAIN w.dents THEN Error(w, "ok")
  ELSE Then(D_alloc(w), LAMBDA a : Linked_or_freed(Ext2_lookup(a, d, name)))

\* vfs_lookup(), which stops at the first component that fails
Lookup(w, path) ==
  LET Step(acc, i) ==
        IF acc.err # "ok" THEN acc
        ELSE IF ~IsDir(acc.dents[SubSeq(path, 1, i - 1)].ino) THEN Error(acc, "ENOTDIR")
        ELSE Lookup_direct(acc, SubSeq(path, 1, i - 1), path[i])
  IN  FoldLeft(Step, w, [i \in DOMAIN path |-> i])

\* vfs_open()
Open(w, path) ==
  LET Opened(found) == IF ~IsReg(found.dents[path].ino) THEN Error(found, "ENOTDIR") ELSE Alloc(found, "file")
  IN  Then(Lookup(w, path), Opened)

Vfs_open(path, faults) ==
  /\ dents # NotMounted /\ crash = "no" /\ Len(files) < MaxFiles
  /\ \E w \in {Open(World(faults), path)} :
       /\ Commit(w)
       /\ files' = IF w.err = "ok" THEN Append(files, [dentry |-> path, pos |-> 0]) ELSE files
       /\ ret' = [op |-> "open", faulty |-> Faulty(w), err |-> w.err, path |-> path]

\* vfs_read() of an open, regular file
Vfs_read(i, count, faults) ==
  /\ crash = "no"
  /\ \E r \in {Read_file(World(faults), files[i].dentry, files[i].pos, count)} :
       /\ Commit(r.w)
       /\ files' = [files EXCEPT ![i].pos = @ + Len(r.out)]
       /\ ret' = [op |-> "read", faulty |-> Faulty(r.w), err |-> r.w.err, dentry |-> files[i].dentry,
                  pos |-> files[i].pos, count |-> count, out |-> r.out]

\* where vfs_seek() goes before the position is held to the size
Target(f, s) == IF s.whence = "cur" THEN f.pos + s.offset ELSE s.offset

\* vfs_seek(); SEEK_END is not supported
Vfs_seek(i, s) ==
  /\ crash = "no"
  /\ LET bad == s.whence = "end" \/ Target(files[i], s) < 0
         size == Inode(dents[files[i].dentry].ino).size
     IN  /\ files' = [files EXCEPT ![i].pos = IF bad THEN @ ELSE MinOf(Target(files[i], s), size)]
         /\ ret' = [op |-> "seek", faulty |-> FALSE, err |-> IF bad THEN "EINVAL" ELSE "ok"]
  /\ UNCHANGED <<dents, heap, crash>>

\* vfs_close() of the only reference
Vfs_close(i) ==
  /\ crash = "no"
  /\ files' = RemoveAt(files, i)
  /\ heap' = [heap EXCEPT !["file"] = @ - 1]
  /\ ret' = [op |-> "close", faulty |-> FALSE, err |-> "ok"]
  /\ UNCHANGED <<dents, crash>>

VfsNext ==
  \/ \E faults \in Faults :
       \/ Vfs_mount_root(faults)
       \/ \E p \in Paths : Vfs_open(p, faults)
       \/ \E i \in DOMAIN files, c \in Counts : Vfs_read(i, c, faults)
  \/ \E i \in DOMAIN files : Vfs_close(i) \/ \E s \in Seeks : Vfs_seek(i, s)

-----------------------------------------------------------------------------
\* the blocks whose numbers ext2_read_file() looks for at all
Reachable(ino) == IF Inode(ino).singly # 0 THEN (NDIRECT + NPTRS) * BLOCK_SIZE ELSE NDIRECT * BLOCK_SIZE

\* names whose length survives in a uint8_t
Short(path) == \A i \in DOMAIN path : Len(path[i]) < NAME_MOD

\* A read that succeeds gives the bytes of the file from the position it had,
\* as many as were asked for or are left, in the part of the file that direct
\* pointers and the singly indirect table reach; beyond it ext2_read_file()
\* gives zeros for data that is on the disk.  And no position is ever past the
\* end of its file, whatever seeks and reads came before, so that what is left
\* of the file cannot wrap around.
ReadsRight ==
  /\ \A i \in DOMAIN files : files[i].pos \in 0..Inode(dents[files[i].dentry].ino).size
  /\ ret.op = "read" /\ ret.err = "ok" =>
       LET ino == dents[ret.dentry].ino
           n == MinOf(ret.count, Inode(ino).size - ret.pos)
       IN  /\ Len(ret.out) = n
           /\ \A i \in 1..n : ret.pos + i <= Reachable(ino) => ret.out[i] = Contents[ino][ret.pos + i]

\* An open that succeeds has found what the disk holds at that path, and one
\* that fails without a fault was right to: cached dentries, failed lookups
\* and the order of the calls do not change what a path means.
OpensRight ==
  ret.op = "open" /\ Short(ret.path) =>
    /\ ret.err = "ok" => ret.path \in DOMAIN Tree /\ dents[Last(files).dentry].ino = Tree[ret.path]
    /\ ~ret.faulty =>
         \/ ret.err = "ok"
         \/ ret.err \in {"ENOENT", "EUCLEAN", "EINVAL"} /\ ret.path \notin DOMAIN Tree
         \/ ret.err = "ENOTDIR" /\ (ret.path \in DOMAIN Tree => IsDir(Tree[ret.path]))
         \/ crash = "type"

\* The cache holds no path twice, every dentry in it has the inode the disk
\* has there, and only directories have children.
CacheFaithful ==
  \A d \in DOMAIN dents :
    /\ dents[d].copies = 1
    /\ Short(d) => d \in DOMAIN Tree /\ dents[d].ino = Tree[d]
    /\ d # <<>> => IsDir(dents[Front(d)].ino)

\* What is live is accounted for: whatever failed on the way, the live objects
\* are those of the mounted file system, one dentry, name and inode in its three
\* parts per cached path, one block per cached table and one file per open
\* file.  What is lost are two parts of the root's inode, on a device for whose
\* root ext2_get_root() had no dentry; it is lost before the root is mounted on
\* another device, so less often than there are devices with ext2.
HeapAccounted ==
  LET lost == heap["ext2_inode"] - Cardinality(DOMAIN dents)
  IN  crash = "no" =>
        /\ lost = 0 \/ lost \in 1..(Cardinality({i \in DOMAIN Devices : Devices[i]}) - 1)
        /\ \A k \in Kinds : heap[k] =
             CASE k \in {"sb", "info", "bgd"} -> IF dents = NotMounted THEN 0 ELSE 1
               [] k \in {"dentry", "name", "inode"} -> Cardinality(DOMAIN dents)
               [] k \in {"ext2_inode", "i_info"} -> Cardinality(DOMAIN dents) + lost
               [] k = "block" -> Cardinality({d \in DOMAIN dents : dents[d].singly})
               [] k = "file" -> Len(files)
               [] OTHER -> 0

\* One failure costs at most one device: vfs_mount_root() ends on a device with
\* a good superblock, it has passed over no more of those than allocations or
\* reads have failed, and it gives up only when that is all of them.  A failed
\* probe or mount thus leaves nothing behind that the next device trips over,
\* unless it is one that ext2_mount() or ext2_get_root() does not survive.
MountGoesOn ==
  ret.op = "mount" /\ crash \in {"no", "no root"} =>
    /\ crash = "no" => Devices[ret.bdev]
    /\ ret.failures >= Cardinality({i \in DOMAIN Devices : Devices[i] /\ (crash = "no" => i < ret.bdev)})
=============================================================================

------------------------------ MODULE MCFiles -------------------------------
(***************************************************************************)
(* A disk of blocks of two bytes and inodes of two direct pointers: a root *)
(* directory that needs its indirect block, deleted and broken entries, an *)
(* inode number out of range, files with holes, with and without indirect  *)
(* blocks, and names whose length is at the limit of a uint8_t or past it. *)
(***************************************************************************)
EXTENDS Files

Nm(c) == <<c>>
Long == <<"a", "b", "c", "d">>
Entry(ino, name) == [inode |-> ino, name |-> name, size |-> 1]
Broken == [inode |-> 3, name |-> <<>>, size |-> 0]
Ino(mode, size, direct, singly) ==
  [mode |-> mode, size |-> size, direct |-> direct, singly |-> singly, doubly |-> IF singly = 13 THEN 19 ELSE 0]
Unused == Ino("none", 0, <<0, 0>>, 0)

MCDisk ==
  (0 :> <<0, 10>>)
  @@ (1 :> <<Unused, Ino("dir", 6, <<5, 6>>, 7)>>)
  @@ (2 :> <<Ino("reg", 3, <<10, 11>>, 0), Ino("dir", 2, <<9, 0>>, 0)>>)
  @@ (3 :> <<Ino("reg", 15, <<12, 0>>, 13), Ino("reg", 6, <<16, 17>>, 0)>>)
  @@ (4 :> <<Ino("chr", 0, <<0, 0>>, 0), Ino("dir", 2, <<18, 0>>, 0)>>)
  @@ (5 :> <<Entry(0, Nm("a")), Entry(3, Nm("a"))>>)
  @@ (6 :> <<Entry(4, Nm("d")), Entry(8, Nm("e")), Entry(5, Nm("k"))>>)
  @@ (7 :> <<8, 0>>)
  @@ (8 :> <<Entry(7, Nm("x"))>>)
  @@ (9 :> <<Entry(5, Nm("b")), Entry(6, Nm("c")), Entry(99, Nm("g"))>>)
  @@ (10 :> <<1, 2>>) @@ (11 :> <<3, 0>>)
  @@ (12 :> <<4, 5>>) @@ (13 :> <<14, 15>>) @@ (14 :> <<6, 7>>) @@ (15 :> <<8, 9>>)
  @@ (16 :> <<1, 1>>) @@ (17 :> <<2, 2>>)
  @@ (18 :> <<Entry(3, Nm("h")), Broken>>)
  @@ (19 :> <<0, 20>>) @@ (20 :> <<0, 21>>) @@ (21 :> <<5, 0>>)

MCInode_table == (0 :> 1) @@ (1 :> 3)
MCDevices == <<FALSE, TRUE, TRUE>>

MCTree ==
  (<<>> :> 2) @@ (<<Nm("a")>> :> 3) @@ (<<Nm("d")>> :> 4) @@ (<<Nm("e")>> :> 8) @@ (<<Nm("x")>> :> 7)
  @@ (<<Nm("k")>> :> 5)
  @@ (<<Nm("d"), Nm("b")>> :> 5) @@ (<<Nm("d"), Nm("c")>> :> 6) @@ (<<Nm("e"), Nm("h")>> :> 3)
MCContents == (3 :> <<1, 2, 3>>) @@ (5 :> <<4, 5, 0, 0, 6, 7, 8, 9, 0, 0, 0, 0, 0, 0, 5>>) @@ (6 :> <<1, 1, 2, 2, 0, 0>>)

MCPaths ==
  {<<Nm("a")>>, <<Nm("d")>>, <<Nm("x")>>, <<Long>>, <<Nm("a"), Nm("b")>>, <<Nm("d"), Nm("b")>>,
   <<Nm("d"), Nm("c")>>, <<Nm("d"), Nm("g")>>, <<Nm("e"), Nm("b")>>}

MCKernels == {Nm("a"), Nm("k"), Nm("z")}
MCMbr == <<[status |-> 0, sys_id |-> 131], [status |-> 128, sys_id |-> 131]>>

\* the first device ends at call 3 and the mount of the second takes calls 4 to
\* 19, those of ext2_get_root() from 13 on
MCFaults == {{}} \cup {{i} : i \in 1..19} \cup {{2, 3}, {4, 5}, {13, 17}}
MCSeeks == {[offset |-> -1, whence |-> "cur"],
            [offset |-> 5, whence |-> "set"], [offset |-> 0, whence |-> "end"]}
=============================================================================

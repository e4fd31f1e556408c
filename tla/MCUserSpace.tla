---------------------------- MODULE MCUserSpace -----------------------------
(***************************************************************************)
(* A machine of 32 pages with tables of 4, 8, 2 and 2 entries: a slot of   *)
(* the top level spans 32 pages, a "1 GiB" page 4, a "2 MiB" page 2.       *)
(* Memory maps with and without room for huge pages, with regions that     *)
(* share a page and with too little memory; programs whose segments share  *)
(* pages, are skipped for each of the reasons, out of order, cut off or    *)
(* longer in the file than in memory.                                      *)
(***************************************************************************)
EXTENDS UserSpace

MCFan == <<4, 8, 2, 2>>

Region(s, e) == [start |-> s, end |-> e]
MCCleans ==
  {<<Region(0, 12), Region(20, 64)>>, <<Region(1, 11), Region(21, 63)>>,
   <<Region(0, 9), Region(9, 12), Region(20, 64)>>, <<Region(2, 12), Region(20, 37)>>, <<Region(2, 4)>>}

MCDevices == {[addr |-> 13, size |-> 2], [addr |-> 12, size |-> 4]}

Seg(type, vaddr, mem_size, file_size, offset, align, exec) ==
  [type |-> type, vaddr |-> vaddr, paddr |-> vaddr, mem_size |-> mem_size, file_size |-> file_size,
   offset |-> offset, align |-> align, exec |-> exec]

Text == Seg("LOAD", 8, 3, 3, 2, 2, TRUE)
Data == Seg("LOAD", 12, 4, 1, 5, 2, FALSE)
Note == Seg("NOTE", 8, 1, 1, 0, 1, FALSE)
More == Seg("LOAD", 18, 1, 1, 6, 1, FALSE)
Odd == Seg("LOAD", 15, 2, 1, 6, 2, FALSE)
Tight == Seg("LOAD", 11, 1, 1, 6, 1, FALSE)
Elsewhere == [Text EXCEPT !.paddr = 9]
Unaligned == Seg("LOAD", 18, 1, 1, 6, 0, FALSE)
Three == Seg("LOAD", 8, 2, 2, 3, 3, FALSE)
Fat == Seg("LOAD", 10, 2, 4, 2, 2, FALSE)

File(size, phdrs) == [size |-> size, phend |-> 2, phdrs |-> phdrs]

\* the first task's program varies, the second's has two segments
MCPrograms ==
  {<<p, File(9, <<Data, Text>>)>> :
     p \in {File(9, <<Text, Note, Data, More>>), File(5, <<Text, Data>>),
            File(4, <<Text, Odd>>), File(9, <<Text, Tight>>), File(1, <<Text>>),
            File(9, <<Elsewhere, Unaligned, Three>>), File(9, <<Data, Fat>>), File(9, <<Fat, Data>>)}}
=============================================================================

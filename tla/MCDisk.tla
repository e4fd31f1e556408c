------------------------------- MODULE MCDisk -------------------------------
(***************************************************************************)
(* Three ports, two of them with disks of two partitions each, more than   *)
(* the registry holds; requests whose vectors need one or more descriptors *)
(* or too many, are longer than the sectors asked for, or ask for more     *)
(* sectors than a command can count.                                       *)
(***************************************************************************)
EXTENDS Disk, TLC

MCMbr == (0 :> <<[sys_id |-> 0, lba_start |-> 0], [sys_id |-> 131, lba_start |-> 2],
                 [sys_id |-> 131, lba_start |-> 5]>>)
           @@ (2 :> <<[sys_id |-> 131, lba_start |-> 3], [sys_id |-> 0, lba_start |-> 0],
                      [sys_id |-> 7, lba_start |-> 9]>>)

Vec(a, n) == [addr |-> a, length |-> n]
MCRequests ==
  {[lba |-> 1, count |-> 2, iovec |-> <<Vec(2, 3), Vec(8, 1)>>],
   [lba |-> 0, count |-> 1, iovec |-> <<Vec(4, 2)>>],
   [lba |-> 3, count |-> 3, iovec |-> <<Vec(0, 7)>>],
   [lba |-> 0, count |-> 4, iovec |-> <<Vec(0, 8)>>],
   [lba |-> 2, count |-> 5, iovec |-> <<Vec(0, 6), Vec(10, 2)>>]}
=============================================================================

----------------------------- MODULE MCPhysMem ------------------------------
(***************************************************************************)
(* Memory maps for module PhysMem: usable memory with a hole, usable       *)
(* memory in two pieces that overlap or leave a gap, and no usable memory, *)
(* with boundaries on and off page borders.                                *)
(*                                                                         *)
(* The maps in low memory are for the sanitiser: every list of at most two *)
(* entries below LowEnd, with the types usable, reserved, ACPI NVS, bad and*)
(* one the kernel does not know, and longer lists of a few entries, which  *)
(* fill the arrays.  They leave the allocators a frame or two.             *)
(***************************************************************************)
EXTENDS PhysMem

CONSTANTS
  LowEnd,        \* the end of the low entries
  MaxEntries     \* bound on the length of a list of any of them

Entry(start, end, t) == [base |-> start, len |-> end - start, type |-> t]

Low == {e \in [base : 0..LowEnd, len : 0..LowEnd, type : {1, 2, 4, 5, 9}] :
          e.base + e.len <= LowEnd}

Few == {Entry(0, LowEnd + 2, 1), Entry(1, 2, 5), Entry(3, 4, 4)}

LowMaps == UNION {[1..n -> Low] : n \in 0..MaxEntries}
             \cup UNION {[1..n -> Few] : n \in (MaxEntries + 1)..PHYS_REGION_MAX_SIZE}

MCMaps ==
  {<<Entry(0, MaxAddr, 1), Entry(x, x + n, 2)>> : x \in {5, 8, 13}, n \in 1..3}
    \cup {<<Entry(x, MaxAddr - 1, 1), Entry(0, y, 1)>> : x \in {9, 12, 15}, y \in {7, 11, 12}}
    \cup {<<Entry(0, 3, 1), Entry(10, MaxAddr, 3)>>, <<Entry(2, 10, 1)>>}
    \cup LowMaps
=============================================================================

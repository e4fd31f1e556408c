----------------------------- MODULE MCKmalloc ------------------------------
(***************************************************************************)
(* A heap with two tiers: two slots of two bytes or one slot of three in a *)
(* page of six, the first slot of a page being its header's.               *)
(***************************************************************************)
EXTENDS Kmalloc

MCSlots == <<2, 3>>
=============================================================================

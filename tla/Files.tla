-------------------------------- MODULE Files -------------------------------
(***************************************************************************)
(* One disk and its two readers: the boot loader, which finds the kernel   *)
(* in it through the BIOS, and then the kernel's file systems.             *)
(***************************************************************************)
EXTENDS Boot, Vfs

Init == BootInit /\ VfsInit

Next ==
  \/ BootNext /\ UNCHANGED vfs_vars
  \/ boot.pc = "running" /\ VfsNext /\ UNCHANGED boot

Spec == Init /\ [][Next]_<<boot, vfs_vars>>
=============================================================================

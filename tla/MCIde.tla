-------------------------------- MODULE MCIde --------------------------------
(***************************************************************************)
(* Ide for TLC: the shell's mount and a process that holds the VFS lock,   *)
(* reading the first sector of either drive or two sectors behind it.  On  *)
(* the drive without LBA48 these are beyond the sectors LBA28 can name.    *)
(***************************************************************************)
EXTENDS Ide

MCRequests ==
  LET Two(d) == [drive |-> d, lba |-> IF d \in Lba28 THEN Reach ELSE 1, count |-> 2]
  IN [drive : Drives, lba : {0}, count : {1}] \cup {Two(d) : d \in Drives}
=============================================================================

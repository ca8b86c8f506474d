-------------------------------- MODULE MCVm --------------------------------
(***************************************************************************)
(* Vm for TLC: pages of two addresses, so that a break or a buffer can lie *)
(* in the middle of one.                                                   *)
(***************************************************************************)
EXTENDS Vm
=============================================================================

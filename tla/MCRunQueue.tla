----------------------------- MODULE MCRunQueue -----------------------------
(***************************************************************************)
(* RunQueue for TLC: idle, the shell and up to two user processes at the *)
(* shell's priority (cmd_run passes 5, fork copies it).                    *)
(***************************************************************************)
EXTENDS RunQueue

CONSTANTS idle, shell, u1, u2, none

MCProc == {idle, shell, u1, u2}
MCPriority == [p \in MCProc |-> IF p = idle THEN 255 ELSE 5]
=============================================================================

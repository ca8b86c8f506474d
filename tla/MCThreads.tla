----------------------------- MODULE MCThreads ------------------------------
(***************************************************************************)
(* Threads for TLC: idle, the shell and user processes at the shell's      *)
(* priority.                                                               *)
(***************************************************************************)
EXTENDS Threads

CONSTANTS idle, shell, none, UserSet

MCProc == {idle, shell} \cup UserSet
MCPriority == [p \in MCProc |-> IF p = idle THEN 255 ELSE 5]
=============================================================================

------------------------------ MODULE KeyQueue ------------------------------
(***************************************************************************)
(* What readers of the keyboard see: a first-in first-out queue of at most *)
(* Cap characters that drops what arrives when it is full.                 *)
(***************************************************************************)
EXTENDS Naturals, Sequences

CONSTANTS Char, Cap
VARIABLE chars

Init == chars = <<>>
Put(c) == Len(chars) < Cap /\ chars' = Append(chars, c)
Get == chars # <<>> /\ chars' = Tail(chars)

Next == Get \/ \E c \in Char : Put(c)
Spec == Init /\ [][Next]_chars
=============================================================================

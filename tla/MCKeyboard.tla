----------------------------- MODULE MCKeyboard -----------------------------
(***************************************************************************)
(* Keyboard with a buffer of three slots, a letter, a sign and a key with  *)
(* one character, and one serial byte.                                     *)
(***************************************************************************)
EXTENDS Keyboard
=============================================================================

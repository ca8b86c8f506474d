------------------------------- MODULE MCHeap -------------------------------
(***************************************************************************)
(* Heap for TLC: pages of 16 bytes, a class with three objects to the page *)
(* and one with a single object, as 2048 has in the code.  The layouts     *)
(* include one whose alignment decides the class, one of a page and one of *)
(* two pages.                                                              *)
(***************************************************************************)
EXTENDS Heap

MCBytes == [o \in 0..MaxOrder |-> 16 * 2^o]
MCMemory == {32, 48, 80}

Layout(size, align) == [size |-> size, align |-> align]
MCLayouts == {Layout(3, 1), Layout(4, 4), Layout(4, 8), Layout(8, 2), Layout(9, 16), Layout(17, 4)}
=============================================================================

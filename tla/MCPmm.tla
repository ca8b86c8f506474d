------------------------------- MODULE MCPmm --------------------------------
(***************************************************************************)
(* Pmm for TLC: pages of 2 bytes, so that the map can have bounds inside a *)
(* page; blocks of 1, 2 and 4 pages.  The map has an entry in low memory,  *)
(* one that starts there, a reserved one, and one with ragged ends that    *)
(* has room for two buddies of the largest order.                          *)
(***************************************************************************)
EXTENDS Pmm

MCBytes == [o \in 0..MaxOrder |-> 2 * 2^o]

Entry(base, length, usable) == [base |-> base, length |-> length, usable |-> usable]
MCMemMap == <<Entry(0, 2, TRUE), Entry(2, 9, TRUE), Entry(11, 4, FALSE), Entry(15, 18, TRUE)>>

ASSUME MapHasGaps == Gaps
=============================================================================

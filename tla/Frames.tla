------------------------------- MODULE Frames -------------------------------
(***************************************************************************)
(* Blocks of physical memory: 2^order pages from addr on.                  *)
(***************************************************************************)
EXTENDS Integers

CONSTANTS
  MaxOrder,   \* MAX_ORDER
  Bytes       \* Bytes[o] = PAGE_SIZE << o

ASSUME FramesAssumption ==
  /\ MaxOrder \in Nat
  /\ Bytes \in [0..MaxOrder -> Nat \ {0}]
  /\ \A o \in 0..MaxOrder : o > 0 => Bytes[o] = 2 * Bytes[o-1]
  /\ \A o \in 0..MaxOrder : \E k \in 1..Bytes[o] : Bytes[o] = k * Bytes[0]

Orders == 0..MaxOrder
PageSize == Bytes[0]
Blocks == [addr : Nat, order : Orders]
Block(a, o) == [addr |-> a, order |-> o]

\* 1 << order
PageCount(o) == Bytes[o] \div PageSize

\* The addresses of a block's pages.
PagesOf(b) == {b.addr + i * PageSize : i \in 0 .. PageCount(b.order) - 1}
AllPages(S) == UNION {PagesOf(b) : b \in S}

Disjoint(a, b) ==
  \/ a.addr + Bytes[a.order] <= b.addr
  \/ b.addr + Bytes[b.order] <= a.addr
=============================================================================

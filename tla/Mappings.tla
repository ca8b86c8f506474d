------------------------------ MODULE Mappings ------------------------------
(***************************************************************************)
(* What address spaces promise, without their tables: each one is a        *)
(* function from pages to entries of its own, as Vm has it.  A step        *)
(* changes one page of one address space; only fork, which protects all    *)
(* pages of the parent, does more.                                         *)
(***************************************************************************)
EXTENDS Integers

CONSTANTS Pages, NoEntry, Unwritable(_)

VARIABLE view    \* by address space: the entry of every page

(***************************************************************************)
(* Every operation relates the view v before it and the view w after it.   *)
(***************************************************************************)
With(v, s, pages) == [t \in DOMAIN v \cup {s} |-> IF t = s THEN pages ELSE v[t]]
Protected(pages) == [pg \in Pages |-> Unwritable(pages[pg])]
UsedFrames(v) == UNION {{v[s][pg].frame : pg \in Pages} : s \in DOMAIN v}

\* An address space without pages.
Create(v, w) == \E s \in DOMAIN w \ DOMAIN v : w = With(v, s, [pg \in Pages |-> NoEntry])

\* One page of one address space gets a frame that is mapped nowhere else, or
\* none.
MapOrUnmap(v, w) ==
  \E s \in DOMAIN v \cap DOMAIN w :
    /\ w = With(v, s, w[s])
    /\ \E pg \in Pages : \A other \in Pages \ {pg} : w[s][other] = v[s][other]
    /\ \A pg \in Pages : w[s][pg] \in {v[s][pg], NoEntry} \/ w[s][pg].frame \notin UsedFrames(v)

\* Fork that succeeds, and fork that fails after protecting the parent.
Fork(v, w) ==
  \E s \in DOMAIN v, c \in DOMAIN w \ DOMAIN v :
    w = With(With(v, s, Protected(v[s])), c, Protected(v[s]))

Protect(v, w) == \E s \in DOMAIN v : w = With(v, s, Protected(v[s]))

Drop(v, w) == \E s \in DOMAIN v : w = [t \in DOMAIN v \ {s} |-> v[t]]

Init == view = <<>>

Next ==
  \/ Create(view, view')
  \/ MapOrUnmap(view, view')
  \/ Fork(view, view')
  \/ Protect(view, view')
  \/ Drop(view, view')

Spec == Init /\ [][Next]_view
=============================================================================

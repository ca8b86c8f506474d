------------------------------- MODULE MCExec -------------------------------
(***************************************************************************)
(* Spaces with pages of sixteen addresses, words of one and tables of two  *)
(* entries: two segments that begin and end anywhere in their pages, files *)
(* that are whole or cut short, stacks that fit their committed pages or   *)
(* not, and memory that runs out at every frame.                           *)
(***************************************************************************)
EXTENDS Spaces

Text == {[vaddr |-> v, memsz |-> m, offset |-> 0, filesz |-> f, w |-> FALSE] :
           v \in {0, 3}, m \in {0, 3, 13}, f \in {0, 3, 13}}
Bss == {[vaddr |-> v, memsz |-> m, offset |-> 2, filesz |-> f, w |-> TRUE] :
           v \in {15, 16, 28}, m \in {4, 20}, f \in {0, 4, 17}}
WellFormed(ph) == ph.filesz <= ph.memsz

Program(pie, len, t, b) ==
  [valid |-> TRUE, forks |-> FALSE, pie |-> pie, interp |-> FALSE, phdrs |-> <<t, b>>, len |-> len,
   phoff |-> 1, pt_phdr |-> NoPhdr, phentsize |-> 56, entry |-> 5]

Programs0 ==
  {Program(pl[1], pl[2], t, b) : pl \in {<<FALSE, 7>>, <<FALSE, 19>>, <<TRUE, 19>>},
     t \in {ph \in Text : WellFormed(ph) /\ (ph.filesz = 0 => ph.memsz = 0)}, b \in {ph \in Bss : WellFormed(ph)}}

\* A few that are malformed, longer in the file than in memory, want an
\* interpreter, have a PT_PHDR, at address 0 too, or a table at offset 0.
MCPrograms ==
  LET some == CHOOSE p \in Programs0 : p.phdrs[1].vaddr = 0 /\ p.phdrs[1].filesz = 3
                                      /\ p.phdrs[2].vaddr = 16 /\ p.phdrs[2].memsz = 4 /\ ~p.pie
  IN Programs0 \cup {[some EXCEPT !.valid = FALSE], [some EXCEPT !.interp = TRUE], [some EXCEPT !.forks = TRUE],
                     [some EXCEPT !.pt_phdr = 1], [some EXCEPT !.pt_phdr = 0], [some EXCEPT !.phoff = 0],
                     [some EXCEPT !.phdrs[1].filesz = 19, !.len = 19]}

Str(n) == [i \in 1..n |-> 100 + i] \o <<0>>
\* Process::new_user passes the path on without the zero that ends it.
Call(spawn, argv, envp) ==
  [spawn |-> spawn, path |-> IF spawn THEN <<101, 102>> ELSE Str(2), argv |-> argv, envp |-> envp]
Plain == Call(FALSE, <<>>, <<>>)
Spawn == Call(TRUE, <<Str(1)>>, <<Str(2)>>)
MCCalls ==
  {Plain, Spawn, Call(FALSE, <<Str(1), Str(3)>>, <<>>), Call(FALSE, <<>>, <<Str(2), Str(1)>>),
   Call(FALSE, <<Str(0), Str(2), Str(7)>>, <<Str(2), Str(1)>>)}

\* Every program and call with memory enough; some with every amount of it.
Case(p, c, n) == [prog |-> p, call |-> c, total |-> n]
Scarce == {p \in MCPrograms : p.forks \/ (p.pie /\ p.len = 19 /\ p.phdrs[1].vaddr = 3 /\ p.phdrs[2].memsz = 20)}
MCCases ==
  {Case(p, c, 20) : p \in MCPrograms, c \in MCCalls}
  \cup {Case(p, c, n) : p \in Scarce, c \in {Plain, Spawn}, n \in 0..27}
=============================================================================

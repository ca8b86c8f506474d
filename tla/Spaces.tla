------------------------------- MODULE Spaces -------------------------------
(***************************************************************************)
(* The page tables of a program that Exec has loaded and of the child it   *)
(* forks: clone_address_space, demand paging, unmap and the Drop of either *)
(* AddressSpace, in any order, until memory runs out (src/mm/vmm.rs,       *)
(* src/proc/fork.rs).  Vm has the areas and what is in the pages; here it  *)
(* is the tables.                                                          *)
(***************************************************************************)
EXTENDS Exec

CONSTANT
  Touched       \* the pages that are mapped and unmapped (bound)

VARIABLES
  child,        \* the PML4 of the child
  lost          \* the frames of tables that nothing refers to any more

all == <<vars, child, lost>>

Alive == {root, child} \ {NoFrame}

loaded == <<inputs, seg, at, bytes, areas, brk, rsp>>

\* The n-th table goes to the n-th free frame.
Rank(S, x) == Cardinality({y \in S : y < x})
CopyTo(S, T) == [x \in S |-> CHOOSE y \in T : Rank(T, y) = Rank(S, x)]

\* What alloc_frames may give for a kernel stack: frames in a row, aligned.
Blocks(S) ==
  {B \in {f..(f + KernelStack - 1) : f \in {g \in S : g % KernelStack = 1}} : B \subseteq S}

\* sys_fork_simple, once (bound). clone_address_space takes one frame after the
\* other and returns at the first it does not get, with nothing to free the
\* others. Without a block of frames for the kernel stack the child's address
\* space is dropped again, and the parent is protected already.
Fork ==
  LET copy == CopyTo(UserTables(tables, root), free)
      both == clone(tables, root, copy) @@ make_cow(tables, root)
      left == free \ Range(copy)
  IN /\ pc = "ready" /\ prog.forks
     /\ pc' = "running"
     /\ \/ /\ Cardinality(free) < Cardinality(UserTables(tables, root))
           /\ lost' = lost \cup free /\ free' = {}
           /\ UNCHANGED <<tables, taken, child>>
        \/ /\ Cardinality(free) >= Cardinality(UserTables(tables, root))
           /\ \/ /\ Blocks(left) # {}
                 /\ tables' = both /\ child' = copy[root]
                 /\ taken' = taken \cup CHOOSE B \in Blocks(left) : TRUE
                 /\ free' = left \ taken'
              \/ /\ Blocks(left) = {}
                 /\ tables' = Restrict(both, DOMAIN both \ Range(copy))
                 /\ free' = left \cup Freed(both, copy[root])
                 /\ UNCHANGED <<taken, child>>
           /\ UNCHANGED lost
     /\ UNCHANGED <<loaded, root>>

\* handle_demand_page in one of the address spaces; when there is no frame for
\* the page or for a table, the kernel panics.
DemandPage(s, pg) ==
  LET r == map(tables, free \ {NewFrame}, s, pg, NewFrame, TRUE)
  IN /\ pc = "running" /\ s \in Alive /\ ~is_present(Lookup(tables, s, pg))
     /\ IF free = {} THEN pc' = "panic" /\ UNCHANGED <<tables, free, taken>>
        ELSE /\ tables' = r.tables /\ free' = r.free /\ taken' = taken \cup {NewFrame}
             /\ pc' = IF r.table = NoFrame THEN "panic" ELSE pc
     /\ UNCHANGED <<loaded, root, child, lost>>

\* What sys_munmap does to a page; its frame is not freed.
Munmap(s, pg) ==
  /\ pc = "running" /\ s \in Alive
  /\ tables' = unmap(tables, s, pg)
  /\ UNCHANGED <<loaded, pc, root, child, free, taken, lost>>

\* The last reference to the process is gone.
Drop(s) ==
  /\ pc = "running" /\ s \in Alive
  /\ tables' = Restrict(tables, DOMAIN tables \ UserTables(tables, s))
  /\ free' = free \cup Freed(tables, s)
  /\ root' = (IF s = root THEN NoFrame ELSE root)
  /\ child' = IF s = child THEN NoFrame ELSE child
  /\ UNCHANGED <<loaded, pc, taken, lost>>

SpacesInit == Init /\ child = NoFrame /\ lost = {}

SpacesNext ==
  \/ Next /\ UNCHANGED <<child, lost>>
  \/ Fork
  \/ \E s \in Alive : Drop(s) \/ \E pg \in Touched : DemandPage(s, pg) \/ Munmap(s, pg)

SpacesSpec == SpacesInit /\ [][SpacesNext]_all
-----------------------------------------------------------------------------
(***************************************************************************)
(* Properties.                                                             *)
(***************************************************************************)
Unwritable(e) == Entry(e.frame, FALSE)

M == INSTANCE Mappings WITH view <- [s \in Alive |-> View(tables, s)]

\* Four levels of tables behave as the function that Vm takes them for, and
\* each process has its own: map, unmap, fork and Drop change in what is
\* translated only what they are for, whatever tables exist already, a table
\* is missing in between or could not be allocated.
FlatView == M!Spec

\* Every frame is at any time free, a table of one address space, taken for a
\* page or a kernel stack, or lost by a fork that failed half-way: an error of
\* exec, or Drop, returns each table once and none that is in use, and only
\* clone_address_space leaks tables. The kernel half is always there.
TablesAccounted ==
  LET parts == <<free, taken, lost>> \o SetToSeq({UserTables(tables, s) : s \in Alive})
  IN /\ UNION Range(parts) = 1..total
     /\ Cardinality(Alive) + 3 = Len(parts)
     /\ \A i, j \in DOMAIN parts : i # j => parts[i] \cap parts[j] = {}
     /\ \A s \in Alive : \A i \in UserEntries..(Entries - 1) : tables[s][i] = KernelHalf[i]
=============================================================================

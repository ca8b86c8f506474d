----------------------------- MODULE PageTables -----------------------------
(***************************************************************************)
(* The tables of an AddressSpace: PML4, PDPT, PD and PT (levels 4 to 1) as *)
(* map, unmap, translate and Drop of src/mm/vmm.rs and                     *)
(* clone_address_space of src/proc/fork.rs walk and change them.           *)
(*                                                                         *)
(* tables maps the frame of every table to its entries.  An address is its *)
(* page.  Large pages are left out: map_large is never called.  So are     *)
(* pages of the kernel half, whose tables all address spaces share: map,   *)
(* load_elf and an mmap with MAP_FIXED do not refuse them.                 *)
(***************************************************************************)
EXTENDS Integers, FiniteSets, SequencesExt

CONSTANTS
  Entries,       \* entries of a table
  UserEntries    \* entries of the PML4 below the kernel half

ASSUME PageTablesAssumption == Entries \in Nat \ {0} /\ UserEntries \in 1..Entries

NoFrame == 0
Entry(f, w) == [frame |-> f, w |-> w]
NoEntry == Entry(NoFrame, FALSE)
is_present(e) == e.frame # NoFrame

Slots == 0..(Entries - 1)
Zeroed == [i \in Slots |-> NoEntry]
Pages == 0..(UserEntries * Entries^3 - 1)
Idx(pg, level) == (pg \div Entries^(level - 1)) % Entries

\* A new PML4: the kernel half of KERNEL_PML4, whose tables are not among the
\* frames of user processes.
KernelHalf == [i \in Slots |-> IF i < UserEntries THEN NoEntry ELSE Entry(-i, TRUE)]

\* translate: the entry of the page in its PT.
Lookup(tables, root, pg) ==
  LET entry[level \in 1..4] ==
        IF level = 4 THEN tables[root][Idx(pg, 4)]
        ELSE IF is_present(entry[level + 1]) THEN tables[entry[level + 1].frame][Idx(pg, level)]
        ELSE NoEntry
  IN entry[1]

\* get_or_alloc_table down to the PT of the page, which is NoFrame if a table
\* is missing and there is no frame for it; tables above it stay.
Alloc(tables, free, root, pg) ==
  LET down[level \in 1..4] ==
        IF level = 4 THEN [tables |-> tables, free |-> free, table |-> root]
        ELSE LET up == down[level + 1]
                 slot == Idx(pg, level + 1)
                 f == Min(up.free)
             IN CASE up.table = NoFrame -> up
                  [] up.table # NoFrame /\ is_present(up.tables[up.table][slot]) ->
                       [up EXCEPT !.table = up.tables[up.table][slot].frame]
                  [] up.table # NoFrame /\ ~is_present(up.tables[up.table][slot]) /\ up.free = {} ->
                       [up EXCEPT !.table = NoFrame]
                  [] OTHER ->
                       [tables |-> [up.tables EXCEPT ![up.table][slot] = Entry(f, TRUE)] @@ (f :> Zeroed),
                        free |-> up.free \ {f}, table |-> f]
  IN down[1]

map(tables, free, root, pg, f, w) ==
  LET r == Alloc(tables, free, root, pg)
  IN IF r.table = NoFrame THEN r
     ELSE [r EXCEPT !.tables[r.table][Idx(pg, 1)] = Entry(f, w)]

\* unmap does not free a table that becomes empty.
unmap(tables, root, pg) ==
  LET r == Alloc(tables, {}, root, pg)
  IN IF r.table = NoFrame THEN tables
     ELSE [tables EXCEPT ![r.table][Idx(pg, 1)] = NoEntry]

\* The tables of each level in the user half.
Levels(tables, root) ==
  LET at[level \in 1..4] ==
        IF level = 4 THEN {root}
        ELSE {tables[f][i].frame : f \in at[level + 1],
                                   i \in IF level = 3 THEN 0..(UserEntries - 1) ELSE Slots} \ {NoFrame}
  IN at

UserTables(tables, root) == UNION Range(Levels(tables, root))

\* Mutant: the frames of the PDPTs are not freed.
FreedWithoutPdpts(tables, root) == UserTables(tables, root) \ Levels(tables, root)[3]

\* free_user_page_tables: what Drop frees.
Freed(tables, root) == UserTables(tables, root)

\* make_cow_pml4: the entries of every PT lose WRITABLE.
make_cow(tables, root) ==
  LET pts == Levels(tables, root)[1]
  IN [f \in DOMAIN tables |->
        IF f \in pts THEN [i \in Slots |-> Entry(tables[f][i].frame, FALSE)] ELSE tables[f]]

\* Mutant: the child's pages stay writable.
clone_writable(tables, root, copy) ==
  LET from == AntiFunction(copy)
      Child(e) == IF e.frame \in DOMAIN copy THEN Entry(copy[e.frame], e.w) ELSE e
  IN [c \in Range(copy) |-> [i \in Slots |-> Child(tables[from[c]][i])]]

\* clone_pdpt, clone_pd and clone_pt, with the frame each table is copied to:
\* the entries of a PT lose WRITABLE, entries above it lead to the copies, and
\* the kernel half is the same.
clone(tables, root, copy) ==
  LET pts == Levels(tables, root)[1]
      Child(f, e) == IF f \in pts THEN Entry(e.frame, FALSE)
                     ELSE IF e.frame \in DOMAIN copy THEN Entry(copy[e.frame], e.w)
                     ELSE e
      from == AntiFunction(copy)
  IN [c \in Range(copy) |-> [i \in Slots |-> Child(from[c], tables[from[c]][i])]]

\* What the process sees: the entry of every page.
View(tables, root) == [pg \in Pages |-> Lookup(tables, root, pg)]
=============================================================================

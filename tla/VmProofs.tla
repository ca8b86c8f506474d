------------------------------- MODULE VmProofs -------------------------------
(***************************************************************************)
(* Proofs about Vm, for any number of processes, pages and frames, pages   *)
(* of any size and any addresses passed to brk and mmap.                   *)
(*                                                                         *)
(* The invariants lean on one another: a frame taken for a fault is new to *)
(* every page table only because none refers to a free frame.              *)
(***************************************************************************)
EXTENDS Vm, TLAPS

Areas == [start : 0..(Unit * Top), end : 0..(Unit * Top), flags : Flags]
Entries == [frame : Frame, writable : BOOLEAN] \cup {Unmapped}

\* Products keep the order of their factors.
LEMMA Mono ==
  ASSUME NEW x \in Nat, NEW y \in Nat, NEW u \in Nat, x >= y
  PROVE  x * u >= y * u
<1>1. x - y \in Nat /\ (x - y) * u \in Nat
  BY Z3
<1>2. (x - y) * u = x * u - y * u
  BY Z3
<1> QED
  BY <1>1, <1>2, Z3

\* The addresses of pages, without a product.
LEMMA Pages ==
  /\ Unit * Top \in Nat /\ Unit <= Unit * Top
  /\ 0 \in 0..(Unit * Top) /\ Unit \in 0..(Unit * Top)
  /\ \A a \in Addr : PageOf(a) \in Page
  /\ \A a \in Addr : PageOf(a) * Unit <= a /\ a < (PageOf(a) + 1) * Unit
<1> USE VmAssumption
<1>1. Unit * Top \in Nat /\ Unit <= Unit * Top
  BY Z3
<1>0. 0 \in 0..(Unit * Top) /\ Unit \in 0..(Unit * Top)
  BY <1>1, Z3
<1>2. ASSUME NEW a \in Addr
      PROVE  PageOf(a) \in Page /\ PageOf(a) * Unit <= a /\ a < (PageOf(a) + 1) * Unit
  <2> DEFINE q == a \div Unit
  <2>1. q \in Nat /\ a = q * Unit + (a % Unit) /\ a % Unit \in 0..(Unit - 1)
    BY <1>1, Z3 DEF Addr
  <2>2. a < (q + 1) * Unit /\ q * Unit <= a
    BY <2>1, Z3
  <2>3. q < Top
    <3>1. q >= Top => q * Unit >= Top * Unit
      BY <2>1, Mono, Zenon
    <3>2. Top * Unit = Unit * Top
      BY Z3
    <3> QED
      BY <3>1, <3>2, <2>1, <2>2, <1>1 DEF Addr
  <2> QED
    BY <2>1, <2>2, <2>3 DEF PageOf, Page
<1> QED
  BY <1>0, <1>1, <1>2

\* What fork and a fault put into a page table is an entry.
LEMMA EntriesAre ==
  /\ \A f \in Frame : \A flags : Entry(f, "write" \in flags) \in [frame : Frame, writable : BOOLEAN]
  /\ \A e \in Entries : /\ Entry(e.frame, FALSE) \in Entries
                        /\ Entry(e.frame, FALSE).frame = e.frame
                        /\ ~Entry(e.frame, FALSE).writable
                        /\ Entry(e.frame, FALSE) = Unmapped <=> e = Unmapped
<1>1. ASSUME NEW f \in Frame, NEW flags
      PROVE  Entry(f, "write" \in flags) \in [frame : Frame, writable : BOOLEAN]
  <2>1. CASE "write" \in flags
    <3>1. Entry(f, "write" \in flags) = Entry(f, TRUE)
      BY <2>1, Zenon
    <3> QED
      BY <3>1 DEF Entry
  <2>2. CASE "write" \notin flags
    <3>0. ("write" \in flags) = FALSE
      BY <2>2
    <3>1. Entry(f, "write" \in flags) = Entry(f, FALSE)
      BY <3>0, Zenon
    <3> QED
      BY <3>1 DEF Entry
  <2> QED
    BY <2>1, <2>2
<1>2. 0 \notin Frame
  BY VmAssumption DEF Frame
<1>3. ASSUME NEW e \in Entries
      PROVE  /\ Entry(e.frame, FALSE) \in Entries
             /\ Entry(e.frame, FALSE).frame = e.frame
             /\ ~Entry(e.frame, FALSE).writable
             /\ Entry(e.frame, FALSE) = Unmapped <=> e = Unmapped
  <2>0. Unmapped.frame = 0
    BY DEF Unmapped
  <2>1. e = Unmapped \/ e.frame \in Frame
    BY DEF Entries
  <2>2. Entry(e.frame, FALSE).frame = e.frame /\ ~Entry(e.frame, FALSE).writable
    BY DEF Entry
  <2>3. CASE e = Unmapped
    BY <2>2, <2>3 DEF Entries, Unmapped, Entry
  <2>4. CASE e.frame \in Frame
    <3>1. Entry(e.frame, FALSE) \in [frame : Frame, writable : BOOLEAN]
      BY <2>4 DEF Entry
    <3>2. Entry(e.frame, FALSE) # Unmapped /\ e # Unmapped
      BY <1>2, <2>0, <2>2, <2>4, Zenon
    <3> QED
      BY <2>2, <3>1, <3>2, Zenon DEF Entries
  <2> QED
    BY <2>1, <2>3, <2>4, Zenon
<1> QED
  BY <1>1, <1>3, Zenon

\* The child's copy of an area is the parent's, and perhaps marked.
LEMMA Cloned ==
  ASSUME NEW v \in Areas,
         NEW w, w = [v EXCEPT !.flags = IF {"write", "anon"} \subseteq @ THEN @ \cup {"cow"} ELSE @]
  PROVE  /\ w \in Areas /\ w.start = v.start /\ w.end = v.end
         /\ ("write" \in w.flags) <=> ("write" \in v.flags)
         /\ "cow" \in w.flags => "cow" \in v.flags \/ "write" \in v.flags
<1> DEFINE fl == IF {"write", "anon"} \subseteq v.flags THEN v.flags \cup {"cow"} ELSE v.flags
<1>1. v.flags \in Flags /\ fl \in Flags
  BY DEF Areas, Flags
<1>2. w = [v EXCEPT !.flags = fl]
  OBVIOUS
<1>3. w \in Areas /\ w.start = v.start /\ w.end = v.end /\ w.flags = fl
  <2> HIDE DEF fl
  <2> QED
    BY <1>1, <1>2 DEF Areas
<1>4. ("write" \in fl) <=> ("write" \in v.flags)
  OBVIOUS
<1>5. "cow" \in fl => "cow" \in v.flags \/ "write" \in v.flags
  OBVIOUS
<1> QED
  BY <1>3, <1>4, <1>5

\* What exec leaves has its type.
LEMMA LoadedIs == LoadedAreas \in SUBSET Areas /\ \A f \in Frame : LoadedTable(f) \in [Page -> Entries]
<1>1. {"write"} \in Flags
  BY DEF Flags
<1>2. Area(0, Unit, {"write"}) \in Areas
  BY <1>1, Pages DEF Area, Areas
<1>3. \A f \in Frame : Entry(f, TRUE) \in Entries
  BY DEF Entry, Entries
<1> QED
  BY <1>2, <1>3, Zenon DEF LoadedAreas, LoadedTable, Entries

\* Vm's variables have their types.
LEMMA TypeStep ==
  ASSUME TypeOK, [Next]_vars
  PROVE  TypeOK'
<1> USE VmAssumption DEF TypeOK, On, space
<1> DEFINE Tables == [Page -> Entries]
<1>1. ASSUME NEW p \in Proc, NEW a \in Addr, NEW d \in Data, Store(p, a, d) PROVE TypeOK'
  <2>1. PageOf(a) \in Page /\ pte[p][PageOf(a)].frame \in Frame
    BY <1>1, Pages DEF Store, Mapped
  <2> QED
    BY <1>1, <2>1 DEF Store, Value
<1>2. ASSUME NEW p \in Proc, NEW a \in Addr, NEW d \in Data, KernelStore(p, a, d) PROVE TypeOK'
  BY <1>2 DEF KernelStore, Value
<1>3. ASSUME NEW p \in Proc, NEW a \in Addr, NEW w \in BOOLEAN, DemandPage(p, a, w) PROVE TypeOK'
  <2>1. PICK v \in FindVma(p, a), f \in pool :
          /\ pte' = [pte EXCEPT ![p][PageOf(a)] = Entry(f, "write" \in v.flags)]
          /\ pool' = pool \ {f}
          /\ mem' = [mem EXCEPT ![f] = 0]
          /\ view' = [view EXCEPT ![p][PageOf(a)] = 0]
    BY <1>3, Zenon DEF DemandPage
  <2>2. Entry(f, "write" \in v.flags) \in [frame : Frame, writable : BOOLEAN]
    BY EntriesAre, Zenon
  <2> QED
    BY <1>3, <2>1, <2>2, Pages DEF DemandPage, Value
<1>4. ASSUME NEW p \in Proc, NEW a \in Addr, NEW w \in BOOLEAN, Refused(p, a, w) PROVE TypeOK'
  BY <1>4, Zenon DEF Refused
<1>5. ASSUME NEW p \in Proc, NEW flags \in {{}, {"write"}}, NEW fixed \in BOOLEAN,
             NEW at \in FixedAt \cup {0}, Mmap(p, flags, fixed, at)
      PROVE  TypeOK'
  <2> DEFINE virt == IF fixed THEN at ELSE brk[p]
  <2>1. virt \in 0..(Unit * Top) /\ virt + Unit \in 0..(Unit * Top)
    BY <1>5, Pages DEF Mmap
  <2>2. Area(virt, virt + Unit, flags \cup {"anon"}) \in Areas
    BY <2>1, Zenon DEF Area, Areas, Flags
  <2>3. areas' \in [Proc -> SUBSET Areas] /\ brk' \in [Proc -> 0..(Unit * Top)]
    BY <1>5, <2>1, <2>2 DEF Mmap, Areas
  <2> QED
    BY <1>5, <2>3, Zenon DEF Mmap, Areas
<1>6. ASSUME NEW p \in Proc, NEW a \in Addr, NEW end \in 0..(Unit * Top), Munmap(p, a, end) PROVE TypeOK'
  <2>1. Unmap(pte[p], a, end) \in Tables
    <3>1. pte[p] \in Tables /\ Unmapped \in Entries
      BY Zenon DEF Entries
    <3> HIDE VmAssumption DEF TypeOK
    <3> QED
      BY <3>1 DEF Unmap
  <2>2. Forget(view[p], pte'[p]) \in [Page -> Value]
    <3>1. view[p] \in [Page -> Value] /\ 0 \in Value
      BY DEF Value
    <3> HIDE VmAssumption DEF TypeOK
    <3> QED
      BY <3>1 DEF Forget
  <2> QED
    BY <1>6, <2>1, <2>2 DEF Munmap, Entries
<1>7. ASSUME NEW p \in Proc, NEW nb \in BrkArgs, Brk(p, nb) PROVE TypeOK'
  <2>1. Area(brk[p], nb, {"write", "anon"}) \in Areas
    BY Zenon DEF Area, Areas, Flags
  <2> QED
    BY <1>7, <2>1 DEF Brk, Areas
<1>8. ASSUME NEW p \in Proc, NEW c \in Proc, Fork(p, c) \/ ForkNoStack(p, c) PROVE TypeOK'
  <2>1. Protect(pte[p]) \in Tables
    <3>1. \A e \in Entries : Entry(e.frame, FALSE) \in Entries
      BY EntriesAre, Zenon
    <3>2. pte[p] \in Tables
      BY Zenon DEF Entries
    <3> HIDE DEF TypeOK
    <3> QED
      BY <3>1, <3>2, Zenon DEF Protect
  <2>2. CloneVmspace(areas[p]) \in SUBSET Areas
    BY Cloned, Zenon DEF CloneVmspace, Areas
  <2>3. /\ alive' \subseteq Proc /\ areas' \in [Proc -> SUBSET Areas] /\ pte' \in [Proc -> Tables]
        /\ brk' \in [Proc -> 0..(Unit * Top)] /\ view' \in [Proc -> [Page -> Value]]
        /\ UNCHANGED <<pool, mem, panic>>
    <3>1. CASE Fork(p, c)
      BY <3>1, <2>1, <2>2, Zenon DEF Fork, Areas, Entries
    <3>2. CASE ForkNoStack(p, c)
      BY <3>2, <2>1 DEF ForkNoStack, Areas, Entries
    <3> QED
      BY <1>8, <3>1, <3>2, Zenon
  <2> QED
    BY <1>8, <2>1, <2>2, <2>3, Zenon DEF Areas, Entries
<1>9. ASSUME NEW p \in Proc, Exec(p) PROVE TypeOK'
  <2>1. \A f \in Frame : LoadedTable(f) \in Tables
    BY Zenon DEF LoadedTable, Entries, Entry
  <2>2. LoadedAreas \in SUBSET Areas
    BY LoadedIs, Zenon
  <2> QED
    BY <1>9, <2>1, <2>2, Pages DEF Exec, Areas, Entries, Blank, Value
<1>10. CASE UNCHANGED vars
  BY <1>10, Zenon DEF vars
<1> HIDE DEF TypeOK, On, space
<1> QED
  BY <1>1, <1>2, <1>3, <1>4, <1>5, <1>6, <1>7, <1>8, <1>9, <1>10, Zenon DEF Next

\* What a page table can hold.
LEMMA EntryKinds ==
  ASSUME TypeOK
  PROVE  /\ Unmapped.frame = 0 /\ Unmapped.frame \notin Frame
         /\ \A p \in Proc, v \in Page :
              pte[p][v] \in Entries /\ (pte[p][v] # Unmapped => pte[p][v].frame \in Frame)
<1>1. Unmapped.frame = 0 /\ 0 \notin Frame
  BY VmAssumption DEF Unmapped, Frame
<1>2. ASSUME NEW p \in Proc, NEW v \in Page
      PROVE  pte[p][v] \in Entries /\ (pte[p][v] # Unmapped => pte[p][v].frame \in Frame)
  <2>1. pte[p][v] \in Entries
    <3>1. pte \in [Proc -> [Page -> Entries]]
      BY Zenon DEF TypeOK, Entries
    <3> QED
      BY <3>1
  <2>2. \A e \in Entries : e # Unmapped => e.frame \in Frame
    BY DEF Entries
  <2> QED
    BY <2>1, <2>2
<1> QED
  BY <1>1, <1>2

\* Steps that take no frame and add no page: everything else of the page
\* tables that changes is unmapped or protected.
LEMMA Shrinks ==
  ASSUME TypeOK, TypeOK', MappedNotFree, NoSharedWritable,
         alive' = alive, pool' = pool,
         \A p \in alive, v \in Page :
           \/ pte'[p][v] = pte[p][v]
           \/ pte'[p][v] = Unmapped
           \/ pte'[p][v].frame = pte[p][v].frame /\ ~pte'[p][v].writable
  PROVE  MappedNotFree' /\ NoSharedWritable'
<1>1. MappedNotFree'
  BY EntryKinds, ZenonT(60) DEF MappedNotFree, TypeOK
<1>2. NoSharedWritable'
  <2> SUFFICES ASSUME NEW q \in alive, NEW r \in alive, NEW v \in Page, NEW u \in Page,
                      <<q, v>> # <<r, u>>, pte'[q][v] # Unmapped, pte'[q][v].frame = pte'[r][u].frame,
                      pte'[q][v].writable
               PROVE  FALSE
    BY DEF NoSharedWritable
  <2>1. alive \subseteq Proc /\ pte'[q][v].frame \in Frame
    <3>1. alive \subseteq Proc /\ pte' \in [Proc -> [Page -> Entries]]
      BY Zenon DEF TypeOK, Entries
    <3>2. pte'[q][v] \in Entries
      BY <3>1
    <3> QED
      BY <3>1, <3>2 DEF Entries
  <2>2. pte'[q][v] = pte[q][v]
    OBVIOUS
  <2>3. pte'[r][u].frame = pte[r][u].frame
    BY <2>1, EntryKinds
  <2> QED
    BY <2>2, <2>3 DEF NoSharedWritable
<1> QED
  BY <1>1, <1>2

\* Steps that map frames that were free in one process, as a fault does.
LEMMA Takes ==
  ASSUME TypeOK, TypeOK', MappedNotFree, NoSharedWritable,
         NEW p \in alive, NEW f \in pool, NEW w \in Page,
         alive' = alive, pool' = pool \ {f},
         pte'[p][w].frame = f,
         \A v \in Page \ {w} : pte'[p][v] = pte[p][v] \/ pte'[p][v] = Unmapped,
         \A q \in alive \ {p} : pte'[q] = pte[q]
  PROVE  MappedNotFree' /\ NoSharedWritable'
<1>1. MappedNotFree'
  BY EntryKinds, ZenonT(60) DEF MappedNotFree, TypeOK
<1>2. \A q \in alive, v \in Page : <<q, v>> # <<p, w>> => pte'[q][v].frame # f
  BY EntryKinds, ZenonT(60) DEF MappedNotFree, TypeOK
<1>3. NoSharedWritable'
  <2> SUFFICES ASSUME NEW q \in alive, NEW r \in alive, NEW v \in Page, NEW u \in Page,
                      <<q, v>> # <<r, u>>, pte'[q][v] # Unmapped, pte'[q][v].frame = pte'[r][u].frame
               PROVE  ~pte'[q][v].writable
    BY DEF NoSharedWritable
  <2>1. <<q, v>> # <<p, w>> /\ <<r, u>> # <<p, w>>
    BY <1>2
  <2>2. pte'[q][v] = pte[q][v] /\ (pte'[r][u] = pte[r][u] \/ pte'[r][u] = Unmapped)
    BY <2>1
  <2>3. pte'[r][u] = pte[r][u]
    BY <2>2, EntryKinds, ZenonT(60) DEF TypeOK
  <2> QED
    BY <2>2, <2>3 DEF NoSharedWritable
<1> QED
  BY <1>1, <1>3

\* fork gives the child the parent's frames, protected on both sides.
LEMMA ForkShares ==
  ASSUME TypeOK, TypeOK', MappedNotFree, NoSharedWritable,
         NEW p \in Proc, NEW c \in Proc, Fork(p, c)
  PROVE  MappedNotFree' /\ NoSharedWritable'
<1>1. /\ p \in alive /\ c \notin alive /\ alive' = alive \cup {c} /\ alive \subseteq Proc /\ pool' = pool
      /\ pte'[p] = Protect(pte[p]) /\ pte'[c] = Protect(pte[p])
      /\ \A q \in alive \ {p} : pte'[q] = pte[q]
  BY DEF Fork, On, TypeOK
<1>2. \A v \in Page : /\ Protect(pte[p])[v].frame = pte[p][v].frame
                      /\ ~Protect(pte[p])[v].writable
  BY EntryKinds, EntriesAre, Zenon DEF Protect
<1>3. MappedNotFree'
  BY <1>1, <1>2 DEF MappedNotFree
<1>4. NoSharedWritable'
  <2> SUFFICES ASSUME NEW q \in alive', NEW r \in alive', NEW v \in Page, NEW u \in Page,
                      <<q, v>> # <<r, u>>, pte'[q][v] # Unmapped, pte'[q][v].frame = pte'[r][u].frame,
                      pte'[q][v].writable
               PROVE  FALSE
    BY DEF NoSharedWritable
  <2>1. q \in alive \ {p} /\ pte'[q] = pte[q]
    BY <1>1, <1>2
  <2>2. CASE r \in {p, c}
    <3>1. pte'[r][u].frame = pte[p][u].frame /\ <<q, v>> # <<p, u>>
      BY <1>1, <1>2, <2>1, <2>2
    <3> QED
      BY <1>1, <2>1, <3>1 DEF NoSharedWritable
  <2>3. CASE r \notin {p, c}
    BY <1>1, <2>1, <2>3 DEF NoSharedWritable
  <2> QED
    BY <2>2, <2>3
<1> QED
  BY <1>3, <1>4

\* Both invariants through every step.
LEMMA SharingStep ==
  ASSUME TypeOK, TypeOK', MappedNotFree, NoSharedWritable, [Next]_vars
  PROVE  MappedNotFree' /\ NoSharedWritable'
<1>1. ASSUME UNCHANGED <<alive, pte, pool>> PROVE MappedNotFree' /\ NoSharedWritable'
  BY <1>1 DEF MappedNotFree, NoSharedWritable
<1>2. ASSUME NEW p \in Proc, NEW a \in Addr, NEW w \in BOOLEAN, DemandPage(p, a, w)
      PROVE  MappedNotFree' /\ NoSharedWritable'
  <2>1. PICK v \in FindVma(p, a), f \in pool :
          /\ pte' = [pte EXCEPT ![p][PageOf(a)] = Entry(f, "write" \in v.flags)]
          /\ pool' = pool \ {f}
    BY <1>2, Zenon DEF DemandPage
  <2>2. PageOf(a) \in Page /\ p \in alive /\ alive' = alive
    BY <1>2, Pages DEF DemandPage, On
  <2>3. pte'[p][PageOf(a)] = Entry(f, "write" \in v.flags)
    BY <2>1, <2>2, ZenonT(30) DEF TypeOK
  <2>4. pte'[p][PageOf(a)].frame = f
    BY <2>3 DEF Entry
  <2>5. \A u \in Page \ {PageOf(a)} : pte'[p][u] = pte[p][u]
    BY <2>1, <2>2, Zenon DEF TypeOK
  <2>6. \A q \in alive \ {p} : pte'[q] = pte[q]
    BY <2>1, Zenon DEF TypeOK
  <2> QED
    BY <2>1, <2>2, <2>4, <2>5, <2>6, Takes
<1>3. ASSUME NEW p \in Proc, NEW a \in Addr, NEW end \in 0..(Unit * Top), Munmap(p, a, end)
      PROVE  MappedNotFree' /\ NoSharedWritable'
  <2>1. pte' = [pte EXCEPT ![p] = Unmap(pte[p], a, end)] /\ alive' = alive /\ pool' = pool
    BY <1>3 DEF Munmap
  <2>2. \A v \in Page : Unmap(pte[p], a, end)[v] \in {Unmapped, pte[p][v]}
    BY DEF Unmap
  <2>3. \A q \in alive, v \in Page : pte'[q][v] \in {Unmapped, pte[q][v]}
    BY <2>1, <2>2, Zenon DEF TypeOK
  <2> QED
    BY <2>1, <2>3, Shrinks
<1>4. ASSUME NEW p \in Proc, NEW c \in Proc, ForkNoStack(p, c)
      PROVE  MappedNotFree' /\ NoSharedWritable'
  <2>1. pte' = [pte EXCEPT ![p] = Protect(pte[p])] /\ alive' = alive /\ pool' = pool
    BY <1>4 DEF ForkNoStack
  <2>2. \A v \in Page : Protect(pte[p])[v].frame = pte[p][v].frame /\ ~Protect(pte[p])[v].writable
    BY EntryKinds, EntriesAre, Zenon DEF Protect
  <2> QED
    BY <2>1, <2>2, Shrinks, Zenon DEF TypeOK
<1>5. ASSUME NEW p \in Proc, Exec(p) PROVE MappedNotFree' /\ NoSharedWritable'
  <2>1. PICK f \in pool : /\ pool' = pool \ {f} /\ pte' = [pte EXCEPT ![p] = LoadedTable(f)]
                          /\ p \in alive /\ alive' = alive
    BY <1>5, Zenon DEF Exec, On
  <2>2. 0 \in Page /\ LoadedTable(f)[0].frame = f /\ \A v \in Page \ {0} : LoadedTable(f)[v] = Unmapped
    BY VmAssumption DEF LoadedTable, Page, Entry
  <2>3. pte'[p] = LoadedTable(f) /\ \A q \in alive \ {p} : pte'[q] = pte[q]
    BY <2>1, Zenon DEF TypeOK
  <2> QED
    BY <2>1, <2>2, <2>3, Takes
<1>6. ASSUME NEW p \in Proc, NEW c \in Proc, Fork(p, c) PROVE MappedNotFree' /\ NoSharedWritable'
  BY <1>6, ForkShares
<1>7. ASSUME NEW p \in Proc, NEW a \in Addr, NEW d \in Data, Store(p, a, d) \/ KernelStore(p, a, d)
      PROVE  MappedNotFree' /\ NoSharedWritable'
  BY <1>1, <1>7 DEF Store, KernelStore, space
<1>8. ASSUME NEW p \in Proc, NEW a \in Addr, NEW w \in BOOLEAN, Refused(p, a, w)
      PROVE  MappedNotFree' /\ NoSharedWritable'
  BY <1>1, <1>8, Zenon DEF Refused, space
<1>9. ASSUME NEW p \in Proc, NEW flags, NEW fixed, NEW at, Mmap(p, flags, fixed, at)
      PROVE  MappedNotFree' /\ NoSharedWritable'
  BY <1>1, <1>9 DEF Mmap
<1>10. ASSUME NEW p \in Proc, NEW nb \in BrkArgs, Brk(p, nb) PROVE MappedNotFree' /\ NoSharedWritable'
  BY <1>1, <1>10 DEF Brk
<1>11. CASE UNCHANGED vars
  BY <1>1, <1>11 DEF vars
<1> QED
  BY <1>2, <1>3, <1>4, <1>5, <1>6, <1>7, <1>8, <1>9, <1>10, <1>11, Zenon DEF Next

\* No area is of the kind that handle_cow is called for, with COPY_ON_WRITE
\* and without WRITE.
CowAreWritable ==
  \A p \in alive : \A v \in areas[p] : "cow" \in v.flags => "write" \in v.flags

\* Which areas a step adds: those of mmap and brk are not marked, and the
\* child's copies are writable where they are marked.
LEMMA CowStep ==
  ASSUME TypeOK, CowAreWritable, [Next]_vars
  PROVE  CowAreWritable'
<1>1. ASSUME UNCHANGED <<alive, areas>> PROVE CowAreWritable'
  BY <1>1 DEF CowAreWritable
<1>2. ASSUME NEW p \in Proc, alive' = alive, NEW new, areas' = [areas EXCEPT ![p] = new],
             \A v \in new : v \in areas[p] \/ "cow" \notin v.flags
      PROVE  CowAreWritable'
  BY <1>2, Zenon DEF CowAreWritable, TypeOK
<1>3. ASSUME NEW p \in Proc, NEW flags \in {{}, {"write"}}, NEW fixed \in BOOLEAN, NEW at,
             Mmap(p, flags, fixed, at)
      PROVE  CowAreWritable'
  <2>1. \A x, y : "cow" \notin Area(x, y, flags \cup {"anon"}).flags
    BY DEF Area
  <2> QED
    BY <1>2, <1>3, <2>1, ZenonT(60) DEF Mmap
<1>4. ASSUME NEW p \in Proc, NEW nb, Brk(p, nb) PROVE CowAreWritable'
  <2>1. \A x, y : "cow" \notin Area(x, y, {"write", "anon"}).flags
    BY DEF Area
  <2> QED
    BY <1>2, <1>4, <2>1, Zenon DEF Brk
<1>5. ASSUME NEW p \in Proc, NEW a, NEW end, Munmap(p, a, end) PROVE CowAreWritable'
  <2> DEFINE kept == {v \in areas[p] : ~(v.start >= a /\ v.end <= end)}
  <2>1. alive' = alive /\ areas' = [areas EXCEPT ![p] = kept]
    BY <1>5 DEF Munmap
  <2>2. \A v \in kept : v \in areas[p] \/ "cow" \notin v.flags
    BY Zenon
  <2> QED
    BY <1>2, <2>1, <2>2, Zenon
<1>6. ASSUME NEW p \in Proc, Exec(p) PROVE CowAreWritable'
  <2>1. \A v \in LoadedAreas : "cow" \notin v.flags
    BY DEF LoadedAreas, Area
  <2> QED
    BY <1>2, <1>6, <2>1, Zenon DEF Exec
<1>7. ASSUME NEW p \in Proc, NEW c \in Proc, Fork(p, c) PROVE CowAreWritable'
  <2>1. /\ p \in alive /\ alive' = alive \cup {c} /\ areas'[c] = CloneVmspace(areas[p])
        /\ \A q \in alive \ {c} : areas'[q] = areas[q]
    BY <1>7 DEF Fork, On, TypeOK
  <2>2. \A w \in CloneVmspace(areas[p]) : "cow" \in w.flags => "write" \in w.flags
    <3> SUFFICES ASSUME NEW w \in CloneVmspace(areas[p]), "cow" \in w.flags PROVE "write" \in w.flags
      OBVIOUS
    <3>1. PICK v \in areas[p] :
            w = [v EXCEPT !.flags = IF {"write", "anon"} \subseteq @ THEN @ \cup {"cow"} ELSE @]
      BY DEF CloneVmspace
    <3>2. v \in Areas
      BY <2>1, Zenon DEF TypeOK, Areas
    <3> QED
      BY <2>1, <3>1, <3>2, Cloned DEF CowAreWritable
  <2> QED
    BY <2>1, <2>2 DEF CowAreWritable
<1>8. ASSUME NEW p, NEW a, NEW d, \/ Store(p, a, d) \/ KernelStore(p, a, d)
                                  \/ DemandPage(p, a, d) \/ Refused(p, a, d) \/ ForkNoStack(p, a)
      PROVE  CowAreWritable'
  BY <1>1, <1>8, Zenon DEF Store, KernelStore, DemandPage, Refused, ForkNoStack, space
<1>9. CASE UNCHANGED vars
  BY <1>1, <1>9 DEF vars
<1> QED
  BY <1>3, <1>4, <1>5, <1>6, <1>7, <1>8, <1>9, Zenon DEF Next
-----------------------------------------------------------------------------
\* A page and its area, apart from the processes.
Covers(new, e, page) ==
  e # Unmapped => \E v \in new : Overlaps(v, page) /\ (e.writable => "write" \in v.flags)

\* The range that munmap clears holds every page of an area that goes: its
\* start is aligned, and a last partial page is cleared whole.
LEMMA RangeHolds ==
  ASSUME NEW a \in Addr, a % Unit = 0, NEW end \in 0..(Unit * Top),
         NEW v \in Areas, v.start >= a, v.end <= end, NEW page \in Page, Overlaps(v, page)
  PROVE  a <= page * Unit /\ page * Unit < end
<1> USE VmAssumption
<1>1. PICK k \in Nat : a = k * Unit
  <2>1. a \in Nat /\ a = (a \div Unit) * Unit /\ a \div Unit \in Nat
    BY Pages, Z3 DEF Addr
  <2> QED
    BY <2>1
<1>2. /\ page \in Nat /\ page * Unit \in Nat /\ v.start \in Nat /\ v.end \in Nat
      /\ v.start < (page + 1) * Unit /\ page * Unit < v.end
  BY Pages, Z3 DEF Overlaps, Areas, Page
<1>3. k <= page
  <2>1. k >= page + 1 => k * Unit >= (page + 1) * Unit
    BY <1>2, Mono
  <2>2. (page + 1) * Unit \in Nat
    BY <1>2, Z3
  <2> QED
    BY <1>1, <1>2, <2>1, <2>2, Pages DEF Addr
<1>4. k * Unit <= page * Unit
  BY <1>2, <1>3, Mono
<1> QED
  BY <1>1, <1>2, <1>4

\* An area that holds an address overlaps the page of the address.
LEMMA HoldsOverlaps ==
  ASSUME NEW a \in Addr, NEW v \in Areas, v.start <= a, a < v.end
  PROVE  Overlaps(v, PageOf(a))
<1>1. a \in Nat /\ v.start \in Nat /\ v.end \in Nat
  BY Pages DEF Addr, Areas
<1>2. PageOf(a) * Unit \in Int /\ (PageOf(a) + 1) * Unit \in Int
  BY Pages, VmAssumption, Z3 DEF Page
<1> QED
  BY <1>1, <1>2, Pages DEF Overlaps

\* Page tables stay within the areas through every step.
LEMMA ProtectedStep ==
  ASSUME TypeOK, TypeOK', Protected, [Next]_vars
  PROVE  Protected'
<1>1. \A p \in alive, page \in Page : Covers(areas[p], pte[p][page], page)
  BY DEF Protected, Covers
<1>2. SUFFICES \A p \in alive', page \in Page : Covers(areas'[p], pte'[p][page], page)
  BY DEF Protected, Covers
<1> DEFINE Goal == \A p \in alive', page \in Page : Covers(areas'[p], pte'[p][page], page)
<1>3. ASSUME NEW p \in alive, alive' = alive,
             \A q \in alive \ {p} : areas'[q] = areas[q] /\ pte'[q] = pte[q],
             \A page \in Page : Covers(areas'[p], pte'[p][page], page)
      PROVE  Goal
  BY <1>1, <1>3
<1>4. ASSUME UNCHANGED <<alive, areas, pte>> PROVE Goal
  BY <1>1, <1>4
<1>5. ASSUME NEW p \in Proc, NEW a \in Addr, NEW w \in BOOLEAN, DemandPage(p, a, w) PROVE Goal
  <2>1. PICK v \in FindVma(p, a), f \in pool :
          pte' = [pte EXCEPT ![p][PageOf(a)] = Entry(f, "write" \in v.flags)]
    BY <1>5, Zenon DEF DemandPage
  <2>2. p \in alive /\ alive' = alive /\ areas' = areas /\ PageOf(a) \in Page
    BY <1>5, Pages DEF DemandPage, On
  <2>3. v \in areas[p] /\ v \in Areas /\ v.start <= a /\ a < v.end
    BY <2>2, Zenon DEF FindVma, TypeOK, Areas
  <2>4. Overlaps(v, PageOf(a))
    BY <2>3, HoldsOverlaps
  <2>5. Entry(f, "write" \in v.flags).writable => "write" \in v.flags
    BY Zenon DEF Entry
  <2>6. /\ pte'[p][PageOf(a)] = Entry(f, "write" \in v.flags)
        /\ \A u \in Page \ {PageOf(a)} : pte'[p][u] = pte[p][u]
        /\ \A q \in alive \ {p} : pte'[q] = pte[q]
    BY <2>1, <2>2, ZenonT(60) DEF TypeOK
  <2>7. Covers(areas'[p], pte'[p][PageOf(a)], PageOf(a))
    BY <2>2, <2>3, <2>4, <2>5, <2>6 DEF Covers
  <2>8. \A page \in Page : Covers(areas'[p], pte'[p][page], page)
    BY <1>1, <2>2, <2>6, <2>7
  <2>9. \A q \in alive \ {p} : areas'[q] = areas[q] /\ pte'[q] = pte[q]
    BY <2>2, <2>6
  <2> HIDE DEF Goal
  <2> QED
    BY <1>3, <2>2, <2>8, <2>9
<1>6. ASSUME NEW p \in alive, NEW more, UNCHANGED <<alive, pte>>, areas' = [areas EXCEPT ![p] = @ \cup more]
      PROVE  Goal
  <2>1. areas'[p] = areas[p] \cup more /\ \A q \in alive \ {p} : areas'[q] = areas[q]
    BY <1>6, Zenon DEF TypeOK
  <2>2. \A page \in Page : Covers(areas'[p], pte'[p][page], page)
    BY <1>1, <1>6, <2>1 DEF Covers
  <2> QED
    BY <1>3, <1>6, <2>1, <2>2, Zenon
<1>7. ASSUME NEW p \in Proc, NEW a \in Addr, NEW end \in 0..(Unit * Top), Munmap(p, a, end) PROVE Goal
  <2>1. /\ p \in alive /\ alive' = alive /\ a % Unit = 0
        /\ areas'[p] = {v \in areas[p] : ~(v.start >= a /\ v.end <= end)}
        /\ pte'[p] = Unmap(pte[p], a, end)
        /\ \A q \in alive \ {p} : areas'[q] = areas[q] /\ pte'[q] = pte[q]
    BY <1>7 DEF Munmap, On, TypeOK
  <2>2. ASSUME NEW page \in Page, pte'[p][page] # Unmapped
        PROVE  \E v \in areas'[p] : Overlaps(v, page) /\ (pte'[p][page].writable => "write" \in v.flags)
    <3>1. pte'[p][page] = pte[p][page] /\ ~(a <= page * Unit /\ page * Unit < end)
      BY <2>1, <2>2 DEF Unmap
    <3>2. PICK v \in areas[p] : Overlaps(v, page) /\ (pte[p][page].writable => "write" \in v.flags)
      BY <1>1, <2>1, <2>2, <3>1 DEF Covers
    <3>3. v \in Areas
      BY Zenon DEF TypeOK, Areas
    <3>4. ~(v.start >= a /\ v.end <= end)
      BY <2>1, <3>1, <3>2, <3>3, RangeHolds
    <3> QED
      BY <2>1, <3>1, <3>2, <3>4
  <2> QED
    BY <1>3, <2>1, <2>2 DEF Covers
<1>8. \A e \in Entries : \A new, page : Covers(new, e, page) => Covers(new, Entry(e.frame, FALSE), page)
  BY EntriesAre, Zenon DEF Covers
<1>9. ASSUME NEW p \in Proc, NEW c \in Proc, ForkNoStack(p, c) PROVE Goal
  <2>1. /\ p \in alive /\ UNCHANGED <<alive, areas>> /\ pte'[p] = Protect(pte[p])
        /\ \A q \in alive \ {p} : pte'[q] = pte[q]
    BY <1>9 DEF ForkNoStack, On, TypeOK
  <2>2. \A page \in Page : Covers(areas[p], Protect(pte[p])[page], page)
    BY <1>1, <1>8, <2>1, EntryKinds, Zenon DEF Protect
  <2> QED
    BY <1>3, <2>1, <2>2
<1>10. ASSUME NEW p \in Proc, NEW c \in Proc, Fork(p, c) PROVE Goal
  <2>1. /\ p \in alive /\ c \notin alive /\ alive' = alive \cup {c}
        /\ areas'[c] = CloneVmspace(areas[p]) /\ pte'[p] = Protect(pte[p]) /\ pte'[c] = Protect(pte[p])
        /\ \A q \in alive : areas'[q] = areas[q] /\ (q # p => pte'[q] = pte[q])
    BY <1>10 DEF Fork, On, TypeOK
  <2>2. \A page \in Page : Covers(areas[p], Protect(pte[p])[page], page)
    BY <1>1, <1>8, <2>1, EntryKinds, Zenon DEF Protect
  <2>3. ASSUME NEW v \in areas[p]
        PROVE  \E w \in CloneVmspace(areas[p]) :
                 w.start = v.start /\ w.end = v.end /\ ("write" \in v.flags => "write" \in w.flags)
    <3>1. v \in Areas
      BY Zenon DEF TypeOK, Areas
    <3>2. PICK w : w = [v EXCEPT !.flags = IF {"write", "anon"} \subseteq @ THEN @ \cup {"cow"} ELSE @]
      BY Zenon
    <3>3. w \in CloneVmspace(areas[p])
      BY <3>2, Zenon DEF CloneVmspace
    <3> QED
      BY <3>1, <3>2, <3>3, Cloned
  <2>4. \A page \in Page : Covers(areas'[c], pte'[c][page], page)
    BY <2>1, <2>2, <2>3 DEF Covers, Overlaps
  <2> QED
    BY <1>1, <2>1, <2>2, <2>4
<1>11. ASSUME NEW p \in Proc, Exec(p) PROVE Goal
  <2>1. PICK f \in pool : /\ pte' = [pte EXCEPT ![p] = LoadedTable(f)] /\ p \in alive /\ alive' = alive
                          /\ areas' = [areas EXCEPT ![p] = LoadedAreas]
    BY <1>11, Zenon DEF Exec, On
  <2>2. /\ pte'[p] = LoadedTable(f) /\ areas'[p] = LoadedAreas
        /\ \A q \in alive \ {p} : pte'[q] = pte[q] /\ areas'[q] = areas[q]
    BY <2>1, Zenon DEF TypeOK
  <2>3. \A page \in Page : LoadedTable(f)[page] # Unmapped => page = 0
    BY Zenon DEF LoadedTable
  <2>4. Overlaps(Area(0, Unit, {"write"}), 0) /\ "write" \in Area(0, Unit, {"write"}).flags
    BY VmAssumption DEF Overlaps, Area
  <2> QED
    BY <1>3, <2>1, <2>2, <2>3, <2>4 DEF Covers, LoadedAreas
<1>12. ASSUME NEW p \in Proc, NEW x, NEW fixed \in BOOLEAN, NEW y, Mmap(p, x, fixed, y) \/ Brk(p, x) PROVE Goal
  <2>1. p \in alive /\ UNCHANGED <<alive, pte>> /\ \E more : areas' = [areas EXCEPT ![p] = @ \cup more]
    BY <1>12 DEF Mmap, Brk, On
  <2> HIDE DEF Goal
  <2> QED
    BY <1>6, <2>1, Zenon
<1>13. ASSUME NEW p, NEW a, NEW d, Store(p, a, d) \/ KernelStore(p, a, d) \/ Refused(p, a, d) PROVE Goal
  <2>1. UNCHANGED <<alive, areas, pte>>
    BY <1>13, Zenon DEF Store, KernelStore, Refused, space
  <2> HIDE DEF Goal
  <2> QED
    BY <1>4, <2>1
<1>14. ASSUME UNCHANGED vars PROVE Goal
  <2>1. UNCHANGED <<alive, areas, pte>>
    BY <1>14 DEF vars
  <2> HIDE DEF Goal
  <2> QED
    BY <1>4, <2>1
<1> HIDE DEF Goal
<1>15. Goal
  BY <1>5, <1>7, <1>9, <1>10, <1>11, <1>12, <1>13, <1>14, Zenon DEF Next
<1> QED
  BY <1>15 DEF Goal
-----------------------------------------------------------------------------
\* What exec has loaded at the start satisfies all of it.
LEMMA InitHolds ==
  ASSUME Init
  PROVE  TypeOK /\ MappedNotFree /\ NoSharedWritable /\ CowAreWritable /\ Protected
<1> USE VmAssumption DEF Init
<1>1. 1 \in Frame /\ 0 \in Page
  BY DEF Frame, Page
<1>2. TypeOK
  <2>1. pte \in [Proc -> [Page -> Entries]] /\ areas \in [Proc -> SUBSET Areas]
    BY <1>1, LoadedIs DEF Entries
  <2>2. brk \in [Proc -> 0..(Unit * Top)]
    BY Pages
  <2>3. mem \in [Frame -> Value] /\ view \in [Proc -> [Page -> Value]]
    BY DEF Blank, Value
  <2> QED
    BY <2>1, <2>2, <2>3 DEF TypeOK, Entries, Areas
<1>3. \A p \in alive : p = First /\ areas[p] = LoadedAreas /\ pte[p] = LoadedTable(1)
  OBVIOUS
<1>4. \A v \in Page : LoadedTable(1)[v] # Unmapped => v = 0
  BY Zenon DEF LoadedTable
<1>5. LoadedTable(1)[0].frame = 1 /\ Unmapped.frame = 0 /\ \A v \in Page \ {0} : LoadedTable(1)[v] = Unmapped
  BY <1>1 DEF LoadedTable, Entry, Unmapped
<1>6. MappedNotFree
  BY <1>3, <1>5 DEF MappedNotFree, Frame
<1>7. NoSharedWritable
  BY <1>3, <1>4, <1>5 DEF NoSharedWritable
<1>8. CowAreWritable
  BY <1>3 DEF CowAreWritable, LoadedAreas, Area
<1>9. Overlaps(Area(0, Unit, {"write"}), 0) /\ "write" \in Area(0, Unit, {"write"}).flags
  BY DEF Overlaps, Area
<1>10. Protected
  BY <1>3, <1>4, <1>9 DEF Protected, LoadedAreas
<1> QED
  BY <1>2, <1>6, <1>7, <1>8, <1>10

\* The variables of VmSpace, AddressSpace and the frame pool keep their types.
THEOREM TypeCorrect == Spec => []TypeOK
<1>1. TypeOK /\ [Next]_vars => TypeOK'
  BY TypeStep
<1> QED
  BY <1>1, InitHolds, PTL DEF Spec

\* A frame that fork shares is writable nowhere, through every order of faults,
\* munmap, fork and exec.
THEOREM SharingSafe == Spec => []NoSharedWritable
<1>1. TypeOK /\ TypeOK' /\ MappedNotFree /\ NoSharedWritable /\ [Next]_vars => MappedNotFree' /\ NoSharedWritable'
  BY SharingStep
<1> QED
  BY <1>1, InitHolds, TypeCorrect, PTL DEF Spec

\* No page table refers to a frame the allocator may hand out again: a frame is
\* freed only when the last entry that refers to it is gone.
THEOREM NeverMappedFree == Spec => []MappedNotFree
<1>1. TypeOK /\ TypeOK' /\ MappedNotFree /\ NoSharedWritable /\ [Next]_vars => MappedNotFree' /\ NoSharedWritable'
  BY SharingStep
<1> QED
  BY <1>1, InitHolds, TypeCorrect, PTL DEF Spec

\* Every mapped page lies in an area, and every writable one in an area with
\* WRITE, for every size of page and every range passed to munmap and brk.
THEOREM AlwaysProtected == Spec => []Protected
<1>1. TypeOK /\ TypeOK' /\ Protected /\ [Next]_vars => Protected'
  BY ProtectedStep
<1> QED
  BY <1>1, InitHolds, TypeCorrect, PTL DEF Spec

\* The branch of handle_page_fault that calls handle_cow, which Vm leaves out,
\* is never taken: clone_vmspace adds COPY_ON_WRITE and keeps WRITE, and no other
\* operation adds it.
THEOREM CowNeverReached == Spec => []CowAreWritable
<1>1. TypeOK /\ CowAreWritable /\ [Next]_vars => CowAreWritable'
  BY CowStep
<1> QED
  BY <1>1, InitHolds, TypeCorrect, PTL DEF Spec
=============================================================================

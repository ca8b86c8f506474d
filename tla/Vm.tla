--------------------------------- MODULE Vm ---------------------------------
(***************************************************************************)
(* The memory of user processes: areas, page tables and frames under       *)
(* accesses, page faults, mmap, munmap, brk, fork, exec and the system     *)
(* calls that write to a user buffer (src/mm/vmm.rs, src/proc/fork.rs,     *)
(* src/syscall.rs, src/proc/exec.rs).                                      *)
(*                                                                         *)
(* Every operation runs under the lock of its process.  A page has Unit    *)
(* addresses and one value; a page table is a function from page numbers.  *)
(* The frames page tables occupy are not counted.  An access that is not   *)
(* handled panics the kernel: deliver_signal knows no other signal.        *)
(***************************************************************************)
EXTENDS Integers, FiniteSets

CONSTANTS
  Proc, First,   \* processes; the one that exec has loaded at the start
  Unit,          \* addresses in a page
  Top,           \* pages of user memory (bound)
  Frames,        \* number of frames; they are contiguous from 1 on
  BrkArgs,       \* addresses passed to brk
  FixedAt,       \* addresses passed to mmap with MAP_FIXED
  BufLen,        \* addresses a system call writes to a user buffer
  Data           \* what is written; frames are zeroed first

ASSUME VmAssumption ==
  /\ First \in Proc
  /\ Unit \in Nat \ {0} /\ Top \in Nat \ {0} /\ Frames \in Nat \ {0}
  /\ BrkArgs \subseteq 0..(Unit * Top) /\ FixedAt \subseteq 1..(Unit * Top)
  /\ BufLen \in 1..Unit
  /\ Data \subseteq Nat

Page == 0..(Top - 1)
Addr == 0..(Unit * Top - 1)
Frame == 1..Frames
Value == {0} \cup Data

PageOf(a) == a \div Unit
Unmapped == [frame |-> 0, writable |-> FALSE]
Entry(f, w) == [frame |-> f, writable |-> w]
Area(s, e, flags) == [start |-> s, end |-> e, flags |-> flags]

VARIABLES
  alive,     \* the processes that exist
  areas,     \* VmSpace.areas
  brk,       \* VmSpace.brk
  pte,       \* AddressSpace: what each page is mapped to
  pool,      \* the free frames
  mem,       \* the value in each frame
  view,      \* what each process put into its pages: its private memory
  panic      \* "no", or what the kernel panicked on

space == <<areas, brk, pte>>
vars == <<alive, areas, brk, pte, pool, mem, view, panic>>

Flags == SUBSET {"write", "anon", "cow"}

TypeOK ==
  /\ alive \subseteq Proc
  /\ areas \in [Proc -> SUBSET [start : 0..(Unit * Top), end : 0..(Unit * Top), flags : Flags]]
  /\ brk \in [Proc -> 0..(Unit * Top)]
  /\ pte \in [Proc -> [Page -> [frame : Frame, writable : BOOLEAN] \cup {Unmapped}]]
  /\ pool \subseteq Frame
  /\ mem \in [Frame -> Value] /\ view \in [Proc -> [Page -> Value]]
  /\ panic \in {"no", "legal access", "illegal access", "no memory"}

\* What exec leaves: one loaded page with a writable segment and the break
\* after it.
LoadedAreas == {Area(0, Unit, {"write"})}
LoadedTable(f) == [v \in Page |-> IF v = 0 THEN Entry(f, TRUE) ELSE Unmapped]
Blank == [v \in Page |-> 0]

Init ==
  /\ alive = {First}
  /\ areas = [p \in Proc |-> IF p = First THEN LoadedAreas ELSE {}]
  /\ brk = [p \in Proc |-> Unit]
  /\ pte = [p \in Proc |-> IF p = First THEN LoadedTable(1) ELSE [v \in Page |-> Unmapped]]
  /\ pool = Frame \ {1}
  /\ mem \in {m \in [Frame -> Value] : m[1] = 0} /\ view = [p \in Proc |-> Blank]
  /\ panic = "no"
-----------------------------------------------------------------------------
(***************************************************************************)
(* Accesses and page faults.                                               *)
(***************************************************************************)
\* A process runs until the kernel panics.
On(p) == p \in alive /\ panic = "no"

Mapped(p, a) == pte[p][PageOf(a)] # Unmapped

\* find_vma: the first area with the address in the list sorted by start;
\* sort_unstable leaves the order of equal starts open.
FindVma(p, a) ==
  LET holding == {v \in areas[p] : v.start <= a /\ a < v.end}
  IN {v \in holding : \A u \in holding : v.start <= u.start}

Store(p, a, d) ==
  /\ On(p) /\ Mapped(p, a) /\ pte[p][PageOf(a)].writable
  /\ mem' = [mem EXCEPT ![pte[p][PageOf(a)].frame] = d]
  /\ view' = [view EXCEPT ![p][PageOf(a)] = d]
  /\ UNCHANGED <<alive, space, pool, panic>>

\* handle_page_fault of an access to a page that is not present: a zeroed
\* frame.  The access is tried again afterwards.
DemandPage(p, a, write) ==
  /\ On(p) /\ ~Mapped(p, a)
  /\ \E v \in FindVma(p, a), f \in pool :
       /\ write => "write" \in v.flags
       /\ pte' = [pte EXCEPT ![p][PageOf(a)] = Entry(f, "write" \in v.flags)]
       /\ pool' = pool \ {f}
       /\ mem' = [mem EXCEPT ![f] = 0]
       /\ view' = [view EXCEPT ![p][PageOf(a)] = 0]
  /\ UNCHANGED <<alive, areas, brk, panic>>

\* handle_page_fault returns false and the kernel panics: no area, a write to
\* an area without WRITE, a page that is present already, or no frame.
\* handle_cow has no action: it needs an area with COPY_ON_WRITE and without
\* WRITE, which no order of the actions below makes (VmProofs).
Refused(p, a, write) ==
  LET hit == Mapped(p, a) /\ (write => pte[p][PageOf(a)].writable)
      allowed(v) == write => "write" \in v.flags
  IN /\ On(p) /\ ~hit
     /\ \/ /\ FindVma(p, a) = {} \/ \E v \in FindVma(p, a) : ~allowed(v)
           /\ panic' = "illegal access"
        \/ /\ Mapped(p, a) /\ \E v \in FindVma(p, a) : allowed(v)
           /\ panic' = "legal access"
        \/ /\ ~Mapped(p, a) /\ pool = {} /\ \E v \in FindVma(p, a) : allowed(v)
           /\ panic' = "no memory"
     /\ UNCHANGED <<alive, space, pool, mem, view>>
-----------------------------------------------------------------------------
(***************************************************************************)
(* System calls.                                                           *)
(***************************************************************************)
\* sys_mmap of one page; without MAP_FIXED the area starts at the break and
\* moves it.
Mmap(p, flags, fixed, at) ==
  LET virt == IF fixed THEN at ELSE brk[p]
  IN /\ On(p) /\ virt + Unit <= Unit * Top
     /\ areas' = [areas EXCEPT ![p] = @ \cup {Area(virt, virt + Unit, flags \cup {"anon"})}]
     /\ brk' = IF fixed THEN brk ELSE [brk EXCEPT ![p] = virt + Unit]
     /\ UNCHANGED <<alive, pte, pool, mem, view, panic>>

Unmap(table, first, end) ==
  [v \in Page |-> IF first <= v * Unit /\ v * Unit < end THEN Unmapped ELSE table[v]]

\* What a process put into a page that is gone does not matter.
Forget(values, table) == [v \in Page |-> IF table[v] = Unmapped THEN 0 ELSE values[v]]

\* Mutant: the last, partial page is not unmapped.
MunmapShort(p, a, end) ==
  /\ On(p) /\ a % Unit = 0 /\ a <= end
  /\ areas' = [areas EXCEPT ![p] = {v \in @ : ~(v.start >= a /\ v.end <= end)}]
  /\ pte' = [pte EXCEPT ![p] = Unmap(@, a, end - Unit)]
  /\ UNCHANGED <<alive, brk, pool, mem, view, panic>>

\* Mutant: the frames of the pages are freed.
MunmapFrees(p, a, end) ==
  /\ On(p) /\ a % Unit = 0 /\ a <= end
  /\ areas' = [areas EXCEPT ![p] = {v \in @ : ~(v.start >= a /\ v.end <= end)}]
  /\ pte' = [pte EXCEPT ![p] = Unmap(@, a, end)]
  /\ pool' = pool \cup ({pte[p][v].frame : v \in {u \in Page : pte'[p][u] # pte[p][u]}} \ {0})
  /\ UNCHANGED <<alive, brk, mem, view, panic>>

\* sys_munmap: areas inside the range go, pages of the range are unmapped,
\* their frames are not freed.
Munmap(p, a, end) ==
  /\ On(p) /\ a % Unit = 0 /\ a <= end
  /\ areas' = [areas EXCEPT ![p] = {v \in @ : ~(v.start >= a /\ v.end <= end)}]
  /\ pte' = [pte EXCEPT ![p] = Unmap(@, a, end)]
  /\ view' = [view EXCEPT ![p] = Forget(@, pte'[p])]
  /\ UNCHANGED <<alive, brk, pool, mem, panic>>

\* sys_brk: it only grows, by an area of its own.
Brk(p, nb) ==
  /\ On(p) /\ nb # 0 /\ nb >= brk[p]
  /\ areas' = [areas EXCEPT ![p] = @ \cup {Area(brk[p], nb, {"write", "anon"})}]
  /\ brk' = [brk EXCEPT ![p] = nb]
  /\ UNCHANGED <<alive, pte, pool, mem, view, panic>>

\* make_cow and clone_pt: user pages lose WRITABLE in both processes (what is
\* not mapped stays so).
Protect(table) == [v \in Page |-> Entry(table[v].frame, FALSE)]

\* clone_vmspace: the child's writable anonymous areas are marked, and keep
\* WRITE.
CloneVmspace(from) ==
  {[v EXCEPT !.flags = IF {"write", "anon"} \subseteq @ THEN @ \cup {"cow"} ELSE @] : v \in from}

\* Mutant: the parent's pages stay writable.
ForkUnprotected(p, c) ==
  /\ On(p) /\ c \notin alive
  /\ alive' = alive \cup {c}
  /\ areas' = [areas EXCEPT ![c] = CloneVmspace(areas[p])]
  /\ brk' = [brk EXCEPT ![c] = brk[p]]
  /\ pte' = [pte EXCEPT ![c] = Protect(pte[p])]
  /\ view' = [view EXCEPT ![c] = view[p]]
  /\ UNCHANGED <<pool, mem, panic>>

\* sys_fork_simple.
Fork(p, c) ==
  /\ On(p) /\ c \notin alive
  /\ alive' = alive \cup {c}
  /\ areas' = [areas EXCEPT ![c] = CloneVmspace(areas[p])]
  /\ brk' = [brk EXCEPT ![c] = brk[p]]
  /\ pte' = [pte EXCEPT ![p] = Protect(@), ![c] = Protect(pte[p])]
  /\ view' = [view EXCEPT ![c] = view[p]]
  /\ UNCHANGED <<pool, mem, panic>>

\* sys_fork_simple when there is no memory for the child's stack: ENOMEM, with
\* the parent's pages protected already.
ForkNoStack(p, c) ==
  /\ On(p) /\ c \notin alive
  /\ pte' = [pte EXCEPT ![p] = Protect(@)]
  /\ UNCHANGED <<alive, areas, brk, pool, mem, view, panic>>

\* exec: a new space replaces the old one, whose frames are not freed.
Exec(p) ==
  \E f \in pool :
    /\ On(p)
    /\ pool' = pool \ {f}
    /\ mem' = [mem EXCEPT ![f] = 0]
    /\ areas' = [areas EXCEPT ![p] = LoadedAreas]
    /\ brk' = [brk EXCEPT ![p] = Unit]
    /\ pte' = [pte EXCEPT ![p] = LoadedTable(f)]
    /\ view' = [view EXCEPT ![p] = Blank]
    /\ UNCHANGED <<alive, panic>>

\* sys_uname, sys_clock_gettime and the status of sys_waitpid: the buffer is
\* translated once, whether the page is writable or not, and written through
\* the physical address, past the end of the frame if it is longer.
Buffer(p, a) == {v \in Page : v * Unit < a + BufLen /\ a < (v + 1) * Unit}

KernelStore(p, a, d) ==
  LET phys == pte[p][PageOf(a)].frame * Unit + (a % Unit)
  IN /\ On(p) /\ Mapped(p, a) /\ phys + BufLen <= (Frames + 1) * Unit
     /\ mem' = [f \in Frame |->
          IF f * Unit < phys + BufLen /\ phys < (f + 1) * Unit THEN d ELSE mem[f]]
     /\ view' = [view EXCEPT ![p] = [v \in Page |-> IF v \in Buffer(p, a) /\ pte[p][v] # Unmapped THEN d ELSE @[v]]]
     /\ UNCHANGED <<alive, space, pool, panic>>
-----------------------------------------------------------------------------
Next ==
  \E p \in Proc :
    \/ \E a \in Addr, d \in Data : Store(p, a, d) \/ KernelStore(p, a, d)
    \/ \E a \in Addr, write \in BOOLEAN : DemandPage(p, a, write) \/ Refused(p, a, write)
    \/ \E flags \in {{}, {"write"}} :
         Mmap(p, flags, FALSE, 0) \/ \E at \in FixedAt : Mmap(p, flags, TRUE, at)
    \/ \E a \in Addr, end \in 0..(Unit * Top) : Munmap(p, a, end)
    \/ \E nb \in BrkArgs : Brk(p, nb)
    \/ \E c \in Proc : Fork(p, c) \/ ForkNoStack(p, c)
    \/ Exec(p)

Spec == Init /\ [][Next]_vars
-----------------------------------------------------------------------------
(***************************************************************************)
(* Properties.                                                             *)
(***************************************************************************)
Overlaps(v, page) == v.start < (page + 1) * Unit /\ page * Unit < v.end

\* Page tables stay within the areas through every order of mmap, munmap, brk,
\* fork and faults: a mapped page lies in an area, and one that can be written
\* in an area with WRITE.
Protected ==
  \A p \in alive, page \in Page : pte[p][page] # Unmapped =>
    \E v \in areas[p] :
      Overlaps(v, page) /\ (pte[p][page].writable => "write" \in v.flags)

\* A frame that two page tables share after fork (or two pages of one) is
\* written through none of them: make_cow and clone_pt protect both sides.
NoSharedWritable ==
  \A p, q \in alive, v, w \in Page :
    (<<p, v>> # <<q, w>> /\ pte[p][v] # Unmapped /\ pte[p][v].frame = pte[q][w].frame) =>
       ~pte[p][v].writable

\* No page table refers to a free frame, whoever unmaps, forks or execs in
\* between: fork shares frames without counting, and munmap, exec and exit
\* must not free them.
MappedNotFree ==
  \A p \in alive, v \in Page : pte[p][v].frame \notin pool

\* handle_page_fault resolves every access that the areas allow, by demand
\* paging and copy-on-write (README: "demand paging, CoW, VMA").
LegalAccessServed ==
  panic # "legal access"

\* Memory is private: a page holds what its process, or a system call on its
\* behalf, wrote there, zero at first (README: "CoW fork").
PrivateMemory ==
  \A p \in alive, v \in Page : pte[p][v] # Unmapped => mem[pte[p][v].frame] = view[p][v]
=============================================================================

----------------------------- MODULE SyscallEntry ----------------------------
(***************************************************************************)
(* How user processes enter and leave the kernel: syscall_entry of         *)
(* src/arch/x86_64/syscall_entry.rs with the fields of CPU_LOCAL it reaches*)
(* through %gs, int 0x80, and what schedule() and exec do to them and to   *)
(* CR3.  One frame stands for the page tables of an address space.         *)
(*                                                                         *)
(* Only instructions at which interrupts are enabled separate steps: the   *)
(* syscall instruction clears IF and syscall_entry sets it before the      *)
(* handler.  Which process schedule() picks is left open; its own steps,   *)
(* and the locks it leaves behind, are the subject of Threads, and are one *)
(* step here, so that any number of switches is looked at.  No program     *)
(* writes its GS base, which is 0 then.                                    *)
(***************************************************************************)
CONSTANTS
  Programs, \* user processes
  Kernels,  \* kernel threads: idle and the shell
  Boot,     \* the stack kernel_main runs on
  Frames,   \* the frames of the physical memory manager
  KRoot     \* the kernel's own page tables

ASSUME SyscallAssumption ==
  /\ Programs \cap Kernels = {} /\ Kernels # {} /\ Boot \notin Programs \cup Kernels
  /\ KRoot \notin Frames

Procs == Programs \cup Kernels

VARIABLES
  cur,         \* the process that runs
  mode,        \* where each user process is
  gs,          \* what the active GS base points to: CPU_LOCAL or the user's
  kernel_rsp,  \* CPU_LOCAL.kernel_rsp and TSS.rsp0: whose kernel stack
  user_rsp,    \* CPU_LOCAL.user_rsp: whose user stack pointer
  stack,       \* the kernel stack each process entered the kernel on
  rsp,         \* the user stack pointer each process has
  faulted,     \* the kernel faulted, as when %gs:16 has no CPU_LOCAL behind it
  cr3,         \* the page tables the CPU walks
  root,        \* address_space.pml4_phys of each process, KRoot while it has none
  fresh,       \* new_space of an exec that is under way, KRoot otherwise
  free,        \* the free frames
  lost         \* the frames that were allocated, and overwritten, while in CR3

entry == <<gs, kernel_rsp, user_rsp, stack, rsp, faulted>>
tables == <<cr3, root, fresh, free, lost>>
EntryVars == <<cur, mode, entry, tables>>

\* "replaced": in exec, with the new address space but not yet running on it;
\* "forked" and "child": a child before and in fork_child_return.
Modes == {"none", "new", "forked", "user", "syscall", "child", "leaving", "int80", "replaced", "dead"}

EntryTypeOK ==
  /\ cur \in Procs
  /\ mode \in [Programs -> Modes]
  /\ gs \in {"user", "cpu_local"}
  /\ kernel_rsp \in Procs \cup {Boot} /\ user_rsp \in Programs \cup {Boot}
  /\ stack \in [Programs -> Procs \cup {Boot}] /\ rsp \in [Programs -> Programs \cup {Boot}]
  /\ faulted \in BOOLEAN
  /\ cr3 \in Frames \cup {KRoot} /\ free \subseteq Frames /\ lost \subseteq Frames
  /\ root \in [Programs -> Frames \cup {KRoot}] /\ fresh \in [Programs -> Frames \cup {KRoot}]
  /\ cur \in Programs => mode[cur] \notin {"none", "new", "forked"}

\* A kernel thread was jumped to at boot, which set no kernel stack.
EntryInit ==
  /\ cur \in Kernels
  /\ mode = [p \in Programs |-> "none"]
  /\ gs = "user" /\ kernel_rsp = Boot /\ user_rsp = Boot
  /\ stack = [p \in Programs |-> p] /\ rsp = [p \in Programs |-> p]
  /\ faulted = FALSE
  /\ cr3 = KRoot /\ free = Frames /\ lost = {}
  /\ root = [p \in Programs |-> KRoot] /\ fresh = [p \in Programs |-> KRoot]
-----------------------------------------------------------------------------
\* swapgs.
Swapped(base) == IF base = "user" THEN "cpu_local" ELSE "user"

\* p is in a system call, and not in the midst of exec.
Handling(p) == cur = p /\ mode[p] \in {"syscall", "int80"} /\ fresh[p] = KRoot

PageTables(p) == IF p \in Programs THEN root[p] ELSE KRoot

\* cmd_run of the shell: Process::new_user, with new page tables, and spawn.
Run(p, f) ==
  /\ cur \in Kernels /\ mode[p] = "none" /\ f \in free
  /\ mode' = [mode EXCEPT ![p] = "new"]
  /\ root' = [root EXCEPT ![p] = f]
  /\ free' = free \ {f}
  /\ UNCHANGED <<cur, entry, cr3, fresh, lost>>

\* alloc_zeroed_frame for a page or a table: the frame is overwritten. Between
\* replacing its address space and activating the new one exec allocates nothing.
TakeFrame(f) ==
  /\ f \in free /\ (cur \in Programs => mode[cur] # "replaced")
  /\ free' = free \ {f}
  /\ lost' = lost \cup ({f} \cap {cr3})
  /\ UNCHANGED <<cur, mode, entry, cr3, root, fresh>>

\* The heap gives the page of an empty slab back.
GiveFrame(f) ==
  /\ f \notin free /\ \A p \in Programs : f # root[p] /\ f # fresh[p]
  /\ free' = free \cup {f}
  /\ UNCHANGED <<cur, mode, entry, cr3, root, fresh, lost>>

\* What a process does when it is switched to: a new one leaves through
\* iretq_trampoline, a child goes to fork_child_return.
Resumed(m) == IF m = "new" THEN "user" ELSE IF m = "forked" THEN "child" ELSE m

\* Mutant: set_kernel_stack is not called.
SwitchKeepingStack(q) ==
  /\ q \in Programs => mode[q] \notin {"none", "dead"}
  /\ cur' = q
  /\ mode' = [p \in Programs |-> IF p = q THEN Resumed(mode[p]) ELSE mode[p]]
  /\ cr3' = IF PageTables(q) # PageTables(cur) THEN PageTables(q) ELSE cr3
  /\ UNCHANGED <<entry, root, fresh, free, lost>>

\* schedule(), called by the timer interrupt, by a handler that sleeps or by
\* exit, picks q, perhaps the process that runs; %gs is as the last process
\* left it. CR3 is loaded when the two processes differ in pml4_phys, whatever
\* CR3 is. Before that the push of the old process, unless it has exited, may
\* make the run queue grow into a frame f.
Switch(q) ==
  /\ q \in Programs => mode[q] \notin {"none", "dead"}
  /\ cur' = q
  /\ kernel_rsp' = IF q = cur THEN kernel_rsp ELSE q
  /\ mode' = [p \in Programs |-> IF p = q THEN Resumed(mode[p]) ELSE mode[p]]
  /\ cr3' = IF PageTables(q) # PageTables(cur) THEN PageTables(q) ELSE cr3
  /\ \E f \in free \cup {KRoot} :
       /\ cur \in Programs /\ mode[cur] = "dead" => f = KRoot
       /\ free' = free \ {f}
       /\ lost' = lost \cup ({f} \cap free \cap {cr3})
  /\ UNCHANGED <<gs, user_rsp, stack, rsp, faulted, root, fresh>>

\* syscall_entry up to sti. Without CPU_LOCAL behind %gs the store faults, and
\* no area holds address 16: exc_page_fault panics.
Enter(p) ==
  /\ cur = p /\ mode[p] = "user"
  /\ gs' = Swapped(gs)
  /\ IF gs' = "cpu_local"
     THEN /\ user_rsp' = rsp[p]
          /\ stack' = [stack EXCEPT ![p] = kernel_rsp]
          /\ mode' = [mode EXCEPT ![p] = "syscall"]
          /\ UNCHANGED faulted
     ELSE faulted' = TRUE /\ UNCHANGED <<user_rsp, stack, mode>>
  /\ UNCHANGED <<cur, kernel_rsp, rsp, tables>>

\* syscall_entry after the handler, up to cli: interrupts are still enabled
\* when RSP is the user's again.
LoadRsp(p) ==
  /\ Handling(p) /\ mode[p] = "syscall"
  /\ IF gs = "cpu_local"
     THEN rsp' = [rsp EXCEPT ![p] = user_rsp] /\ mode' = [mode EXCEPT ![p] = "leaving"] /\ UNCHANGED faulted
     ELSE faulted' = TRUE /\ UNCHANGED <<rsp, mode>>
  /\ UNCHANGED <<cur, gs, kernel_rsp, user_rsp, stack, tables>>

\* cli, swapgs, sysretq.
Sysret(p) ==
  /\ cur = p /\ mode[p] = "leaving"
  /\ gs' = Swapped(gs)
  /\ mode' = [mode EXCEPT ![p] = "user"]
  /\ UNCHANGED <<cur, kernel_rsp, user_rsp, stack, rsp, faulted, tables>>

\* int 0x80: the CPU takes the stack from TSS.rsp0 and saves RSP on it;
\* isr_common leaves %gs alone.
Int80(p) ==
  /\ cur = p /\ mode[p] = "user"
  /\ stack' = [stack EXCEPT ![p] = kernel_rsp]
  /\ mode' = [mode EXCEPT ![p] = "int80"]
  /\ UNCHANGED <<cur, gs, kernel_rsp, user_rsp, rsp, faulted, tables>>

Iretq(p) ==
  /\ Handling(p) /\ mode[p] = "int80"
  /\ mode' = [mode EXCEPT ![p] = "user"]
  /\ UNCHANGED <<cur, gs, kernel_rsp, user_rsp, stack, rsp, faulted, tables>>

\* sys_fork_simple: the child has page tables and a kernel stack of its own; the
\* user stack pointer it should go on with is that of its parent.
Fork(p, c, f) ==
  /\ Handling(p) /\ mode[c] = "none" /\ f \in free
  /\ mode' = [mode EXCEPT ![c] = "forked"]
  /\ root' = [root EXCEPT ![c] = f]
  /\ rsp' = [rsp EXCEPT ![c] = rsp[p]]
  /\ free' = free \ {f}
  /\ UNCHANGED <<cur, gs, kernel_rsp, user_rsp, stack, faulted, cr3, fresh, lost>>

\* fork_child_return up to cli. It pops registers nobody pushed, and what it
\* takes for RIP need not be an address: sysretq, and the load from %gs:16
\* without CPU_LOCAL, fault in the kernel.
ChildReturn(c) ==
  /\ cur = c /\ mode[c] = "child"
  /\ \/ /\ gs = "cpu_local"
        /\ rsp' = [rsp EXCEPT ![c] = user_rsp]
        /\ mode' = [mode EXCEPT ![c] = "leaving"]
        /\ UNCHANGED faulted
     \/ faulted' = TRUE /\ UNCHANGED <<rsp, mode>>
  /\ UNCHANGED <<cur, gs, kernel_rsp, user_rsp, stack, tables>>

\* exec from AddressSpace::new_user to the lookup of the process: the program
\* is loaded into the new address space, interrupts enabled.
ExecLoad(p, f) ==
  /\ Handling(p) /\ f \in free
  /\ fresh' = [fresh EXCEPT ![p] = f]
  /\ free' = free \ {f}
  /\ UNCHANGED <<cur, mode, entry, cr3, root, lost>>

\* An error of exec drops the new address space, which frees its page tables;
\* the handler goes on to return the error.
ExecError(p) ==
  /\ cur = p /\ fresh[p] # KRoot
  /\ fresh' = [fresh EXCEPT ![p] = KRoot]
  /\ free' = free \cup {fresh[p]}
  /\ UNCHANGED <<cur, mode, entry, cr3, root, lost>>

\* The critical section of exec: assigning address_space drops the old one,
\* whose page tables are freed while CR3 still has them.
ExecReplace(p) ==
  /\ cur = p /\ fresh[p] # KRoot
  /\ mode' = [mode EXCEPT ![p] = "replaced"]
  /\ root' = [root EXCEPT ![p] = fresh[p]]
  /\ fresh' = [fresh EXCEPT ![p] = KRoot]
  /\ free' = free \cup {root[p]}
  /\ kernel_rsp' = p
  /\ UNCHANGED <<cur, gs, user_rsp, stack, rsp, faulted, cr3, lost>>

\* Mutant: exec does not activate the address space.
ExecJumpOnly(p) ==
  /\ cur = p /\ mode[p] = "replaced"
  /\ rsp' = [rsp EXCEPT ![p] = p]
  /\ mode' = [mode EXCEPT ![p] = "user"]
  /\ UNCHANGED <<cur, gs, kernel_rsp, user_rsp, stack, faulted, tables>>

\* activate, then jump_to_user: a new user stack pointer, no swapgs.
ExecJump(p) ==
  /\ cur = p /\ mode[p] = "replaced"
  /\ cr3' = root[p]
  /\ rsp' = [rsp EXCEPT ![p] = p]
  /\ mode' = [mode EXCEPT ![p] = "user"]
  /\ UNCHANGED <<cur, gs, kernel_rsp, user_rsp, stack, faulted, root, fresh, free, lost>>

\* The exit system call marks the process and calls schedule(); nothing ever
\* drops the process, so its page tables stay.
Exit(p) ==
  /\ Handling(p)
  /\ mode' = [mode EXCEPT ![p] = "dead"]
  /\ UNCHANGED <<cur, entry, tables>>

\* A fault in the kernel panics, and the kernel halts.
EntryNext ==
  /\ ~faulted
  /\ \/ \E q \in Procs : Switch(q)
     \/ \E p \in Programs, f \in Frames : Run(p, f)
     \/ \E f \in Frames : TakeFrame(f)
     \/ \E f \in Frames : GiveFrame(f)
     \/ \E p \in Programs : Enter(p)
     \/ \E p \in Programs : LoadRsp(p)
     \/ \E p \in Programs : Sysret(p)
     \/ \E p \in Programs : Int80(p)
     \/ \E p \in Programs : Iretq(p)
     \/ \E p, c \in Programs, f \in Frames : Fork(p, c, f)
     \/ \E p \in Programs : ChildReturn(p)
     \/ \E p \in Programs, f \in Frames : ExecLoad(p, f)
     \/ \E p \in Programs : ExecError(p)
     \/ \E p \in Programs : ExecReplace(p)
     \/ \E p \in Programs : ExecJump(p)
     \/ \E p \in Programs : Exit(p)

EntrySpec == EntryInit /\ [][EntryNext]_EntryVars
-----------------------------------------------------------------------------
\* A process that is in the kernel is there on its own kernel stack, however
\* often schedule() and exec moved kernel_rsp in between.
OwnStack ==
  \A p \in Programs : mode[p] \in {"syscall", "child", "leaving", "int80", "replaced"} => stack[p] = p

\* The CPU walks the page tables of the process that runs. Between freeing
\* them in exec and activating the new ones, with ticks, switches and a growing
\* run queue in that window, it walks them or tables that belong to nobody:
\* never those of another process or of another exec.
TablesOwn ==
  IF cur \in Programs /\ mode[cur] = "replaced"
  THEN \A p \in Programs : cr3 # fresh[p] /\ (p # cur => cr3 # root[p])
  ELSE cr3 = PageTables(cur)

\* No frame is allocated, and overwritten, while CR3 has it, as exec relies on
\* when it drops the old address space before activate().
NothingLost == lost = {}

\* A process leaves the kernel with the user stack pointer it came with, or as
\* a child with its parent's, although one field, %gs:16, serves them all.
OwnRsp ==
  [][\A p \in Programs : mode[p] \in {"syscall", "child"} /\ mode'[p] = "leaving" => rsp'[p] = rsp[p]]_EntryVars

\* While a process is in user mode the swapgs of syscall_entry will make
\* CPU_LOCAL the GS base, as the comment of init_bsp has it.
GsReady == cur \in Programs /\ mode[cur] = "user" => Swapped(gs) = "cpu_local"
=============================================================================

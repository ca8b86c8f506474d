------------------------------ MODULE Threads -------------------------------
(***************************************************************************)
(* The threads of the kernel on its one CPU: whose stack executes, whether *)
(* interrupts are enabled, what each CpuContext holds, which Process locks *)
(* are held, and how far each thread is in the blocking read, waitpid,     *)
(* exit and schedule().                                                    *)
(*                                                                         *)
(* schedule() is two steps: the RUN_QUEUE critical section, and the switch *)
(* of stacks after drop(rq).  Between them interrupts are enabled if the   *)
(* caller had them enabled, and a tick may arrive.  A Process lock taken   *)
(* and dropped inside one step leaves no trace but must be free at that    *)
(* step; the guards that live longer are those of schedule():              *)
(*                                                                         *)
(*   let oc = &mut old_a.lock().context as *mut CpuContext;                *)
(*   let nc = &new_a.lock().context as *const CpuContext;                  *)
(*   context_switch(oc, nc);                                               *)
(*                                                                         *)
(* A borrow of a temporary in a let initialiser extends the temporary to   *)
(* the end of the block: both guards are dropped after context_switch has  *)
(* returned, on the stack of the thread that called it.                    *)
(*                                                                         *)
(* Both idle and the shell are spawned at boot, and so schedule() always   *)
(* finds a process (RunQueue!AlwaysSomeoneToRun).                          *)
(***************************************************************************)
EXTENDS Naturals, Sequences

CONSTANTS Proc, Idle, Shell, NoProc, Priority, BaseSlice,
  KbCap           \* characters KB_BUF holds, KB_BUF_SIZE - 1 in the code

\* kernel_main gives idle priority u8::MAX and the shell 5.
ASSUME ThreadsAssumption ==
  /\ Idle \in Proc /\ Shell \in Proc /\ Idle # Shell /\ NoProc \notin Proc
  /\ Priority \in [Proc -> Nat] /\ Priority[Shell] < Priority[Idle]
  /\ BaseSlice \in Nat \ {0} /\ KbCap \in Nat \ {0}

VARIABLES
  state, slice, queue, current,   \* as in RunQueue
  cpu,      \* the thread whose stack executes; NoProc is kernel_main
  intr,     \* RFLAGS.IF
  pc,       \* where each thread is
  target,   \* the locals old_a and new_a of a schedule() that will switch
  saved,    \* the thread whose registers Process.context holds
  cr3,      \* the process whose page tables are loaded; NoProc: the kernel's
  parent,   \* Process.ppid
  pending,  \* characters in KB_BUF
  locked,   \* the processes whose SpinLock is held between two steps
  guards    \* the guards in each thread's suspended call of schedule()

sched == <<state, slice, queue, current>>
machine == <<cpu, intr, saved, cr3, locked, guards>>
vars == <<sched, machine, pc, target, parent, pending>>

Thread == Proc \cup {NoProc}
Users == Proc \ {Idle, Shell}

RQ == INSTANCE RunQueue WITH owes <- {t \in Thread : pc[t] = "sched"}

\* AddressSpace: idle and the shell share the kernel's PML4.
Space(p) == IF p \in Users THEN p ELSE NoProc

\* Where a thread continues once schedule() returns: read_char_blocking and
\* sys_waitpid loop, an exited process and kernel_main halt.
Back(t) ==
  CASE t = Shell -> "read"
    [] t \in Users /\ state[t] # "Dead" -> "wait"
    [] OTHER -> "halt"

Nowhere == [old |-> NoProc, new |-> NoProc]

Labels == {"run", "read", "check", "wait", "poll", "mark", "sched", "switch", "halt", "spin"}

TypeOK ==
  /\ RQ!TypeOK
  /\ cpu \in Thread /\ intr \in BOOLEAN
  /\ pc \in [Thread -> Labels]
  /\ target \in [Thread -> [old : Thread, new : Thread]]
  /\ saved \in [Proc -> Thread]
  /\ cr3 \in Thread
  /\ parent \in [Proc -> Thread]
  /\ pending \in 0..KbCap
  /\ locked \in SUBSET Proc /\ guards \in [Thread -> SUBSET Proc]

\* kernel_main about to call schedule(), with interrupts enabled.  Each
\* CpuContext holds the entry point of its own process.
Init ==
  /\ queue = <<Idle, Shell>>
  /\ state = [p \in Proc |-> IF p \in {Idle, Shell} THEN "Runnable" ELSE "New"]
  /\ slice = [p \in Proc |-> BaseSlice]
  /\ current = NoProc
  /\ cpu = NoProc /\ intr = TRUE
  /\ pc = [t \in Thread |-> IF t = NoProc THEN "sched" ELSE "run"]
  /\ target = [t \in Thread |-> Nowhere]
  /\ saved = [p \in Proc |-> p]
  /\ cr3 = NoProc
  /\ parent = [p \in Proc |-> NoProc]
  /\ pending = 0
  /\ locked = {} /\ guards = [t \in Thread |-> {}]

At(label) == pc[cpu] = label
Goto(label) == pc' = [pc EXCEPT ![cpu] = label]

\* SpinLock::lock on a held lock.  It has disabled interrupts, and the only
\* CPU spins: the lock is never released.  What the step did to the locals
\* and under locks it had already taken nobody will see.
Spin ==
  /\ Goto("spin")
  /\ intr' = FALSE
  /\ UNCHANGED <<sched, cpu, saved, cr3, locked, guards, target, parent>>

\* A, which takes the locks of L.
Locking(L, A) == IF L \cap locked = {} THEN A ELSE Spin /\ UNCHANGED pending

\* What tick, sleep_current, exit and fork lock, and what schedule,
\* find_zombie_child and wake_up_all_sleeping lock one after the other.
Current == {current} \ {NoProc}
Listed == Current \cup {queue[i] : i \in DOMAIN queue}
-----------------------------------------------------------------------------
(***************************************************************************)
(* Switching stacks: lines 281-292 (old # NoProc) and 294-304 of           *)
(* schedule().  context_switch stores the executing thread in old's        *)
(* context, loads new's, and sets IF in the flags it restores.  The guards *)
(* on old and new stay with the thread that leaves; the thread that        *)
(* arrives in the middle of its own schedule() drops the ones it has.      *)
(***************************************************************************)
\* Mutant: the guards are dropped before context_switch.
SwitchToReleasing(old, new) ==
  LET ctx == IF old = NoProc THEN saved ELSE [saved EXCEPT ![old] = cpu]
  IN /\ saved' = ctx
     /\ cpu' = ctx[new]
     /\ intr' = TRUE
     /\ cr3' = IF old # NoProc /\ Space(old) # Space(new) THEN Space(new) ELSE cr3
     /\ UNCHANGED <<locked, guards>>

\* Mutant: the page tables of new are loaded by comparing them with new's.
SwitchToStale(old, new) ==
  LET ctx  == IF old = NoProc THEN saved ELSE [saved EXCEPT ![old] = cpu]
      kept == IF old = NoProc THEN {} ELSE {old, new}
      left == [guards EXCEPT ![cpu] = kept]
  IN /\ saved' = ctx
     /\ cpu' = ctx[new]
     /\ intr' = TRUE
     /\ locked' = (locked \cup kept) \ left[ctx[new]]
     /\ guards' = [left EXCEPT ![ctx[new]] = {}]
     /\ UNCHANGED cr3

SwitchTo(old, new) ==
  LET ctx  == IF old = NoProc THEN saved ELSE [saved EXCEPT ![old] = cpu]
      kept == IF old = NoProc THEN {} ELSE {old, new}
      left == [guards EXCEPT ![cpu] = kept]
  IN /\ saved' = ctx
     /\ cpu' = ctx[new]
     /\ intr' = TRUE
     /\ cr3' = IF old # NoProc /\ Space(old) # Space(new) THEN Space(new) ELSE cr3
     /\ locked' = (locked \cup kept) \ left[ctx[new]]
     /\ guards' = [left EXCEPT ![ctx[new]] = {}]

\* A call of schedule(), up to drop(rq): the same process may be chosen
\* again, and then schedule() returns.
Schedule ==
  /\ At("sched")
  /\ Locking(Listed,
       /\ slice' = RQ!Refilled
       /\ RQ!Dispatch
       /\ IF current' = current
          THEN Goto(Back(cpu)) /\ UNCHANGED target
          ELSE /\ Goto("switch")
               /\ target' = [target EXCEPT ![cpu] = [old |-> current, new |-> current']]
       /\ UNCHANGED <<machine, parent, pending>>)

\* The rest of schedule().
Switch ==
  /\ At("switch")
  /\ Locking({target[cpu].old, target[cpu].new},
       /\ SwitchTo(target[cpu].old, target[cpu].new)
       /\ Goto(Back(cpu))
       /\ target' = [target EXCEPT ![cpu] = Nowhere]
       /\ UNCHANGED <<sched, parent, pending>>)
-----------------------------------------------------------------------------
(***************************************************************************)
(* The shell's blocking read: read_char_blocking and wait_key.             *)
(***************************************************************************)
BeginRead ==
  /\ cpu = Shell /\ At("run")
  /\ Goto("read")
  /\ UNCHANGED <<sched, machine, target, parent, pending>>

\* Mutant: the loop does not disable interrupts.
CliForgotten ==
  /\ cpu = Shell /\ At("read")
  /\ Goto("check")
  /\ UNCHANGED <<sched, machine, target, parent, pending>>

Cli ==
  /\ cpu = Shell /\ At("read")
  /\ intr' = FALSE
  /\ Goto("check")
  /\ UNCHANGED <<sched, cpu, saved, cr3, locked, guards, target, parent, pending>>

\* read_char: a character ends the read and interrupts are enabled again (the
\* loop is always entered with IF = 1); otherwise sleep_current is called.
ReadChar ==
  /\ cpu = Shell /\ At("check")
  /\ \/ /\ pending > 0
        /\ pending' = pending - 1
        /\ intr' = TRUE
        /\ Goto("run")
     \/ /\ pending = 0
        /\ Goto("mark")
        /\ UNCHANGED <<intr, pending>>
  /\ UNCHANGED <<sched, cpu, saved, cr3, locked, guards, target, parent>>

\* Mutant: sleep_current() returns without calling schedule().
SleepCurrentOnly ==
  /\ At("mark")
  /\ Locking(Current,
       /\ state' = [state EXCEPT ![current] = "Sleeping"]
       /\ Goto("read")
       /\ UNCHANGED <<slice, queue, current, machine, target, parent, pending>>)

\* sleep_current() marks RUN_QUEUE.current, whoever executes.
SleepCurrent ==
  /\ At("mark")
  /\ Locking(Current,
       /\ state' = [state EXCEPT ![current] = "Sleeping"]
       /\ Goto("sched")
       /\ UNCHANGED <<slice, queue, current, machine, target, parent, pending>>)
-----------------------------------------------------------------------------
(***************************************************************************)
(* System calls and commands that touch the scheduler.  The syscall entry  *)
(* enables interrupts, so each runs with IF = 1.                           *)
(***************************************************************************)
Running(S) == cpu \in S /\ At("run")

\* cmd_run by the shell (ppid 0, no Process locked), sys_fork_simple by a
\* user process, which locks the parent.
NewProcess(p) ==
  /\ Running({Shell} \cup Users)
  /\ p \in Users /\ state[p] = "New"
  /\ Locking(IF cpu = Shell THEN {} ELSE Current,
       /\ state' = [state EXCEPT ![p] = "Runnable"]
       /\ queue' = Append(queue, p)
       /\ parent' = [parent EXCEPT ![p] = IF cpu = Shell THEN NoProc ELSE current]
       /\ UNCHANGED <<slice, current, machine, pc, target, pending>>)

Exit ==
  /\ Running(Users)
  /\ Locking(Current,
       /\ state' = [state EXCEPT ![current] = "Dead"]
       /\ Goto("sched")
       /\ UNCHANGED <<slice, queue, current, machine, target, parent, pending>>)

\* sys_waitpid, with WNOHANG ("poll") or without ("wait").
CallWaitpid ==
  /\ Running(Users)
  /\ \E label \in {"wait", "poll"} : Goto(label)
  /\ UNCHANGED <<sched, machine, target, parent, pending>>

\* One turn of its loop: find_zombie_child looks through the queue and the
\* first zombie is reaped; WNOHANG returns; otherwise sleep_current is called.
Zombies == {i \in DOMAIN queue : parent[queue[i]] = current /\ state[queue[i]] = "Zombie"}

Waitpid ==
  /\ cpu \in Users /\ pc[cpu] \in {"wait", "poll"}
  /\ Locking(Listed,
       /\ queue' = IF Zombies = {} THEN queue
                   ELSE LET first == CHOOSE i \in Zombies : \A j \in Zombies : i <= j
                        IN  SelectSeq(queue, LAMBDA p : p # queue[first])
       /\ Goto(IF Zombies = {} /\ At("wait") THEN "mark" ELSE "run")
       /\ UNCHANGED <<state, slice, current, machine, target, parent, pending>>)

\* sys_read of descriptor 0 does not block.
SysRead ==
  /\ Running(Users)
  /\ pending > 0
  /\ pending' = pending - 1
  /\ UNCHANGED <<sched, machine, pc, target, parent>>
-----------------------------------------------------------------------------
(***************************************************************************)
(* Interrupts: taken when IF = 1, handled with IF = 0, hence atomic.       *)
(***************************************************************************)
TickKeeps ==
  /\ slice' = [slice EXCEPT ![current] = RQ!Spent]
  /\ UNCHANGED <<state, queue, current, machine, pc, target, parent, pending>>

\* The slice is used up: schedule() runs in the handler.  The interrupted
\* thread continues where it was when its context is loaded again.
TickPreempts ==
  /\ slice' = [RQ!Refilled EXCEPT ![current] = IF state[current] = "Running" THEN @ ELSE 0]
  /\ RQ!Dispatch
  /\ IF current' = current THEN UNCHANGED machine ELSE SwitchTo(current, current')
  /\ UNCHANGED <<pc, target, parent, pending>>

Tick ==
  /\ intr /\ current # NoProc
  /\ \/ RQ!Spent > 0 /\ Locking(Current, TickKeeps)
     \/ RQ!Spent = 0 /\ Locking(Listed, TickPreempts)

\* irq_keyboard and irq_serial: push (a full buffer drops the character) and
\* then wake_up_all_sleeping, which may spin.
KeyIrq ==
  /\ intr
  /\ pending' = IF pending < KbCap THEN pending + 1 ELSE pending
  /\ IF Listed \cap locked = {}
     THEN /\ state' = [p \in Proc |->
               IF state[p] = "Sleeping" /\ p \in Listed THEN "Runnable" ELSE state[p]]
          /\ UNCHANGED <<slice, queue, current, machine, pc, target, parent>>
     ELSE Spin
-----------------------------------------------------------------------------
Code ==
  \/ Schedule \/ Switch
  \/ BeginRead \/ Cli \/ ReadChar \/ SleepCurrent
  \/ \E p \in Proc : NewProcess(p)
  \/ Exit \/ CallWaitpid \/ Waitpid \/ SysRead

Next == Code \/ Tick \/ KeyIrq

Spec == Init /\ [][Next]_vars

\* A thread inside the kernel that gets the CPU again and again goes on (a
\* slice is 10 ms; the shell always returns to its read); the PIC keeps a
\* timer interrupt pending until IF = 1.
Progress == Schedule \/ Switch \/ BeginRead \/ Cli \/ ReadChar \/ SleepCurrent \/ Waitpid
FairSpec ==
  /\ Spec
  /\ \A t \in Thread : SF_vars(cpu = t /\ Progress)
  /\ SF_vars(Tick)
-----------------------------------------------------------------------------
(***************************************************************************)
(* Properties.                                                             *)
(***************************************************************************)
\* The comment on wait_key: no interleaving of the read and the interrupts
\* leaves the shell asleep with a character in KB_BUF.  The one exception is
\* an interrupt that stored the character and then spins on a Process lock
\* before it wakes the shell (LockReleased).
NoLostWakeup ==
  state[Shell] = "Sleeping" => pending = 0 \/ At("spin")

\* A CpuContext holds the registers of its own process whenever that process
\* is off the CPU and may be switched to (README: Process has a CpuContext).
\* A tick between drop(rq) and context_switch, which nothing excludes, would
\* store the executing thread in the context of another process; it never
\* does, because the locks that schedule() keeps stop the CPU first.
ContextOwned ==
  \A p \in Proc :
    (p # cpu /\ state[p] \in {"Runnable", "Running", "Sleeping"}) => saved[p] = p

\* Outside schedule() the executing stack is that of RUN_QUEUE.current (what
\* every system call assumes of current_process()), and its page tables are
\* loaded although schedule() skips the load when old and new share a PML4.
RunsCurrent ==
  pc[cpu] \notin {"sched", "switch"} => cpu = current /\ cr3 = Space(cpu)

\* The scheduler with its two steps, its locks and the interrupts between them
\* implements the atomic one: what the threads see of the run queue is a
\* behaviour of RunQueue.  Its fairness is not implemented (LockReleased).
Refinement == RQ!Spec

\* schedule() says of its other branch that the guard must be dropped before
\* the jump, or the process SpinLock leaks "forever": every Process lock that
\* schedule() takes is released.
LockReleased ==
  \A p \in Proc : p \in locked ~> p \notin locked

\* README lists waitpid among the system calls handled: a waitpid whose caller
\* has a child that exited returns.  No process gets as far as having a child
\* (LockReleased): it takes SwitchToReleasing to see this one violated.
WaitpidReturns ==
  \A p, c \in Users :
    (pc[p] = "wait" /\ parent[c] = p /\ state[c] = "Dead") ~> pc[p] = "run"
=============================================================================

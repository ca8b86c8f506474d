------------------------------ MODULE RunQueue ------------------------------
(***************************************************************************)
(* The scheduler of src/proc.rs as its clients see it: RUN_QUEUE, the      *)
(* per-process scheduling fields, and one atomic action per operation.     *)
(*                                                                         *)
(* Every operation below runs inside one RUN_QUEUE critical section, which *)
(* disables interrupts on the only CPU, so it is one step.  schedule() is  *)
(* a single step here, its context switch included; module Threads splits  *)
(* it where the lock is dropped and implements this specification.         *)
(***************************************************************************)
EXTENDS Naturals, Sequences, Functions

CONSTANTS
  Proc,       \* every process the run can create (the Arcs)
  Idle,       \* idle_task: it only halts
  Shell,      \* shell_task
  NoProc,     \* RUN_QUEUE.current = None
  Priority,   \* Process.priority; a smaller number is more urgent
  BaseSlice   \* Process::DEFAULT_TIME_SLICE

ASSUME RunQueueAssumption ==
  /\ Idle \in Proc /\ Shell \in Proc /\ Idle # Shell
  /\ NoProc \notin Proc
  /\ Priority \in [Proc -> Nat]
  /\ BaseSlice \in Nat \ {0}

VARIABLES
  state,      \* Process.state; "New" until the process is created
  slice,      \* Process.time_slice
  queue,      \* RUN_QUEUE.queue
  current,    \* RUN_QUEUE.current
  owes        \* processes that marked themselves Sleeping or Dead and have
              \* not yet made the call of schedule() that follows the mark;
              \* NoProc stands for code that runs while current = None

vars == <<state, slice, queue, current, owes>>

Users == Proc \ {Idle, Shell}
States == {"New", "Running", "Runnable", "Sleeping", "Zombie", "Dead"}

TypeOK ==
  /\ state \in [Proc -> States]
  /\ slice \in [Proc -> 0..BaseSlice]
  /\ queue \in Seq(Proc)
  /\ current \in Proc \cup {NoProc}
  /\ owes \in SUBSET (Proc \cup {NoProc})
-----------------------------------------------------------------------------
(***************************************************************************)
(* The pieces of schedule().                                               *)
(***************************************************************************)
\* Mutant: the outgoing process keeps state Running.
DemotedNever == state

\* The outgoing process: a Running one becomes Runnable with a full slice.
\* One that marked itself Sleeping or Dead keeps the mark and its slice.
Demoted ==
  [p \in Proc |-> IF p = current /\ state[p] = "Running" THEN "Runnable" ELSE state[p]]

Refilled ==
  [p \in Proc |-> IF p = current /\ state[p] = "Running" THEN BaseSlice ELSE slice[p]]

\* Mutant: a sleeper is not queued.
RequeuedIfRunnable ==
  IF current # NoProc /\ Demoted[current] = "Runnable" THEN Append(queue, current) ELSE queue

\* Everything but a Dead or Zombie process goes to the back of the queue,
\* a Sleeping one included: wake_up finds sleepers in the queue.
Requeued ==
  IF current # NoProc /\ Demoted[current] \notin {"Dead", "Zombie"}
  THEN Append(queue, current)
  ELSE queue

\* pick_next: min_by_key takes the first of the most urgent Runnable entries.
Candidates(q, st) == {i \in DOMAIN q : st[q[i]] = "Runnable"}

\* Mutant: the last of the most urgent.
BestLast(q, st, i) ==
  /\ i \in Candidates(q, st)
  /\ \A j \in Candidates(q, st) :
       \/ Priority[q[i]] < Priority[q[j]]
       \/ Priority[q[i]] = Priority[q[j]] /\ i >= j

Best(q, st, i) ==
  /\ i \in Candidates(q, st)
  /\ \A j \in Candidates(q, st) :
       \/ Priority[q[i]] < Priority[q[j]]
       \/ Priority[q[i]] = Priority[q[j]] /\ i <= j

\* Vec::remove: the entries behind i move up.
RemoveAt(q, i) == SubSeq(q, 1, i - 1) \o SubSeq(q, i + 1, Len(q))

\* schedule() with a process to run: it leaves the queue and becomes current.
Dispatch ==
  \E i \in DOMAIN Requeued :
    /\ Best(Requeued, Demoted, i)
    /\ queue' = RemoveAt(Requeued, i)
    /\ current' = Requeued[i]
    /\ state' = [Demoted EXCEPT ![Requeued[i]] = "Running"]

\* schedule() with nothing Runnable: current = None and the caller goes on.
Starve ==
  /\ Candidates(Requeued, Demoted) = {}
  /\ queue' = Requeued
  /\ current' = NoProc
  /\ state' = Demoted
-----------------------------------------------------------------------------
(***************************************************************************)
(* The operations.  Who is running is current; p acts only while it runs.  *)
(***************************************************************************)
\* kernel_main has spawned idle and then shell, each only if it could be
\* allocated, and its call of schedule() comes next.
Init ==
  /\ queue \in {<<Idle, Shell>>, <<Idle>>, <<Shell>>, <<>>}
  /\ state = [p \in Proc |-> IF p \in Range(queue) THEN "Runnable" ELSE "New"]
  /\ slice = [p \in Proc |-> BaseSlice]
  /\ current = NoProc
  /\ owes = {NoProc}

\* spawn() of a new process: cmd_run by the shell, fork by a user process.
Spawn(p) ==
  /\ current \in Proc \ {Idle} /\ current \notin owes
  /\ p \in Users /\ state[p] = "New"
  /\ state' = [state EXCEPT ![p] = "Runnable"]
  /\ queue' = Append(queue, p)
  /\ UNCHANGED <<slice, current, owes>>

\* sleep_current() up to its call of schedule(): the shell's blocking read,
\* waitpid of a user process.
MarkSleeping ==
  /\ current \in Proc \ {Idle} /\ current \notin owes
  /\ state' = [state EXCEPT ![current] = "Sleeping"]
  /\ owes' = owes \cup {current}
  /\ UNCHANGED <<slice, queue, current>>

\* SYS_EXIT up to its call of schedule().
MarkDead ==
  /\ current \in Users /\ current \notin owes
  /\ state' = [state EXCEPT ![current] = "Dead"]
  /\ owes' = owes \cup {current}
  /\ UNCHANGED <<slice, queue, current>>

\* The call of schedule() that is owed.  When it finds nothing to run it
\* returns: a sleeper loops and calls it again, an exited process and
\* kernel_main halt for good.
Yield ==
  /\ current \in owes
  /\ slice' = Refilled
  /\ \/ Dispatch /\ owes' = owes \ {current}
     \/ /\ Starve
        /\ \E again \in BOOLEAN :
             /\ current \in Proc => again = (state[current] = "Sleeping")
             /\ owes' = (owes \ {current}) \cup (IF again THEN {NoProc} ELSE {})
-----------------------------------------------------------------------------
(***************************************************************************)
(* Interrupts.  They run with interrupts off, hence tick() and the         *)
(* schedule() it calls are one step.                                       *)
(***************************************************************************)
Spent == IF slice[current] > 0 THEN slice[current] - 1 ELSE 0

TickKeeps ==
  /\ current \in Proc /\ Spent > 0
  /\ slice' = [slice EXCEPT ![current] = Spent]
  /\ UNCHANGED <<state, queue, current, owes>>

\* The slice has run out.  A process that marked itself keeps slice 0.
TickPreempts ==
  /\ current \in Proc /\ Spent = 0
  /\ slice' = [Refilled EXCEPT ![current] = IF state[current] = "Running" THEN BaseSlice ELSE 0]
  /\ \/ Dispatch /\ UNCHANGED owes
     \/ Starve /\ owes' = (owes \ {current}) \cup {NoProc}

Tick == TickKeeps \/ TickPreempts

\* Mutant: a woken process is marked Running.
WakeAllRunning ==
  /\ state' = [p \in Proc |-> IF state[p] = "Sleeping" THEN "Running" ELSE state[p]]
  /\ UNCHANGED <<slice, queue, current, owes>>

\* wake_up_all_sleeping, from the keyboard and the serial interrupt.
WakeAll ==
  /\ state' = [p \in Proc |->
       IF state[p] = "Sleeping" /\ (p = current \/ p \in Range(queue))
       THEN "Runnable" ELSE state[p]]
  /\ UNCHANGED <<slice, queue, current, owes>>

Next ==
  \/ \E p \in Proc : Spawn(p)
  \/ MarkSleeping
  \/ MarkDead
  \/ Yield
  \/ Tick
  \/ WakeAll

Spec == Init /\ [][Next]_vars

\* The PIT keeps firing and owed calls of schedule() are made.
FairSpec == Spec /\ WF_vars(Tick) /\ WF_vars(Yield)
-----------------------------------------------------------------------------
(***************************************************************************)
(* Properties.                                                             *)
(***************************************************************************)
Live(p) == state[p] \in {"Running", "Runnable", "Sleeping"}

\* schedule() moves Arcs between queue and current with clones and removes.
\* However calls and interrupts mix, a created process that has not exited is
\* in exactly one of the two, once, and one that exited is never queued again.
NoProcessLost ==
  /\ IsInjective(queue)
  /\ current \notin Range(queue)
  /\ \A p \in Proc : Live(p) => (p = current \/ p \in Range(queue))
  /\ \A i \in DOMAIN queue : Live(queue[i])

\* State Running is given up wherever schedule() takes current away: at most
\* one process is Running and it is current; none is left Running in the
\* queue, where pick_next would never choose it again.
RunningIsCurrent ==
  \A p \in Proc : state[p] = "Running" => p = current

\* schedule() assumes somebody can run: idle_task never blocks, so once idle
\* was spawned every call finds a Runnable process, whoever sleeps or exits.
AlwaysSomeoneToRun ==
  state[Idle] # "New" => Candidates(Requeued, Demoted) # {}

\* Round robin among the most urgent (README: "round-robin by priority"):
\* while the timer fires, a Runnable process that no process outranks runs,
\* provided idle was spawned.  Without idle schedule() can leave current =
\* None, and tick() never schedules again.
Unoutranked(p) == \A q \in Proc : Priority[p] <= Priority[q]
RoundRobin ==
  \A p \in Proc :
    (state[Idle] # "New" /\ Unoutranked(p) /\ state[p] = "Runnable") ~> state[p] = "Running"

\* The comment in SYS_EXIT: "halt until the next interrupt (timer/keyboard)
\* triggers a reschedule".  After an exit found nobody to run, a process that
\* an interrupt makes Runnable runs.
ExitReschedules ==
  \A p \in Proc :
    (current = NoProc /\ owes = {} /\ state[p] = "Runnable") ~> state[p] = "Running"
=============================================================================

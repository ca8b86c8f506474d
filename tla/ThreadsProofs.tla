---------------------------- MODULE ThreadsProofs ----------------------------
(***************************************************************************)
(* Proofs about Threads, for any number of user processes: interrupts may  *)
(* arrive wherever IF = 1, and the Process locks are the code's.           *)
(*                                                                         *)
(* A run has three phases.  kernel_main executes until it has jumped to    *)
(* the shell; a tick between its choice and the jump chooses the shell     *)
(* again, which idle does not outrank.  Then the shell executes alone.     *)
(* The first context_switch locks the shell and the process it goes to,    *)
(* and from there on every step that would schedule spins.                 *)
(***************************************************************************)
EXTENDS Threads, Integers, TLAPS

NoGuards == [t \in Thread |-> {}]

\* kernel_main's stack executes; only idle and the shell exist.
Booting ==
  /\ cpu = NoProc /\ locked = {} /\ guards = NoGuards
  /\ \A p \in Proc : pc[p] = "run"
  /\ \A u \in Users : state[u] = "New"
  /\ \/ /\ pc[NoProc] = "sched" /\ current = NoProc /\ state[Shell] = "Runnable"
        /\ \E i \in DOMAIN queue : queue[i] = Shell
     \/ /\ pc[NoProc] = "switch" /\ current = Shell /\ state[Shell] = "Running"
        /\ target[NoProc] = [old |-> NoProc, new |-> Shell]

\* The shell's stack executes and no context_switch has been made.  The read
\* has interrupts off from its check of KB_BUF to the switch.
Alone ==
  /\ cpu = Shell /\ locked = {} /\ guards = NoGuards
  /\ pc[NoProc] = "halt" /\ \A p \in Proc \ {Shell} : pc[p] = "run"
  /\ pc[Shell] \in {"run", "read", "check", "mark", "sched", "switch"}
  /\ pc[Shell] \in {"check", "mark", "sched", "switch"} => ~intr
  /\ pc[Shell] \in {"mark", "sched", "switch"} => pending = 0
  /\ state[Shell] = "Sleeping" => pc[Shell] \in {"sched", "switch"}
  /\ IF pc[Shell] = "switch"
     THEN current \in Proc \ {Shell} /\ target[Shell] = [old |-> Shell, new |-> current]
     ELSE current = Shell

\* The shell has been switched away from: its lock and that of the process
\* that executes are held by guards on the shell's stack.
Left ==
  /\ cpu \in Proc \ {Shell} /\ current = cpu /\ locked = {Shell, cpu}
  /\ pc[cpu] \in {"run", "wait", "poll", "spin"}
  /\ pc[cpu] = "spin" => ~intr
  /\ state[Shell] = "Sleeping" => pending = 0 \/ pc[cpu] = "spin"

\* The inductive invariant.
Inv ==
  /\ TypeOK
  /\ \A p \in Proc : saved[p] = p
  /\ cr3 = Space(cpu)
  /\ Booting \/ Alone \/ Left

\* queue.remove(i): the entries before i stay, those after it move up.
LEMMA RemoveAtFacts ==
  ASSUME NEW S, NEW q \in Seq(S), NEW i \in 1..Len(q)
  PROVE  /\ RQ!RemoveAt(q, i) \in Seq(S)
         /\ Len(RQ!RemoveAt(q, i)) = Len(q) - 1
         /\ \A j \in 1..(Len(q) - 1) :
              RQ!RemoveAt(q, i)[j] = IF j < i THEN q[j] ELSE q[j+1]
<1> DEFINE a == SubSeq(q, 1, i - 1)
           b == SubSeq(q, i + 1, Len(q))
<1>0. /\ Len(q) \in Nat /\ i \in Int /\ i - 1 \in Int /\ i + 1 \in Int
      /\ \A k \in 1..Len(q) : q[k] \in S
  OBVIOUS
<1>1. /\ a \in Seq(S) /\ Len(a) = i - 1
      /\ \A k \in 1..(i - 1) : a[k] = q[k]
  <2>1. \A k \in 1..(i - 1) : q[k] \in S
    BY <1>0
  <2> HIDE DEF a
  <2>2. /\ a \in Seq(S) /\ Len(a) = IF 1 <= i - 1 THEN i - 1 - 1 + 1 ELSE 0
        /\ \A k \in 1..(i - 1 - 1 + 1) : a[k] = q[1 + k - 1]
    BY <1>0, <2>1 DEF a
  <2> QED BY <1>0, <2>2
<1>2. /\ b \in Seq(S) /\ Len(b) = Len(q) - i
      /\ \A k \in 1..(Len(q) - i) : b[k] = q[i + k]
  <2>1. \A k \in (i + 1)..Len(q) : q[k] \in S
    BY <1>0
  <2> HIDE DEF b
  <2>2. /\ b \in Seq(S) /\ Len(b) = IF i + 1 <= Len(q) THEN Len(q) - (i + 1) + 1 ELSE 0
        /\ \A k \in 1..(Len(q) - (i + 1) + 1) : b[k] = q[(i + 1) + k - 1]
    BY <1>0, <2>1 DEF b
  <2>3. Len(b) = Len(q) - i
    BY <1>0, <2>2
  <2>4. \A k \in 1..(Len(q) - i) : k \in 1..(Len(q) - (i + 1) + 1) /\ (i + 1) + k - 1 = i + k
    BY <1>0
  <2> QED BY <2>2, <2>3, <2>4, Zenon
<1> HIDE DEF a, b
<1>3. /\ a \o b \in Seq(S) /\ Len(a \o b) = Len(a) + Len(b)
      /\ \A k \in 1..(Len(a) + Len(b)) :
           (a \o b)[k] = IF k <= Len(a) THEN a[k] ELSE b[k - Len(a)]
  <2>1. a \in Seq(S) /\ b \in Seq(S)
    BY <1>1, <1>2, Zenon
  <2> QED BY <2>1
<1>4. RQ!RemoveAt(q, i) = a \o b
  BY Zenon DEF RQ!RemoveAt, a, b
<1>5. ASSUME NEW j \in 1..(Len(q) - 1)
      PROVE  (a \o b)[j] = IF j < i THEN q[j] ELSE q[j+1]
  <2>1. CASE j < i
    <3>1. j \in 1..(Len(a) + Len(b)) /\ j <= Len(a) /\ j \in 1..(i - 1)
      BY <1>0, <1>1, <1>2, <2>1
    <3> QED BY <1>1, <1>3, <2>1, <3>1, Zenon
  <2>2. CASE ~(j < i)
    <3>1. /\ j \in 1..(Len(a) + Len(b)) /\ ~(j <= Len(a))
          /\ j - Len(a) \in 1..(Len(q) - i) /\ i + (j - Len(a)) = j + 1
      BY <1>0, <1>1, <1>2, <2>2
    <3> QED BY <1>2, <1>3, <2>2, <3>1, Zenon
  <2> QED BY <2>1, <2>2, Zenon
<1> QED BY <1>0, <1>1, <1>2, <1>3, <1>4, <1>5

\* The queue and the states that schedule() chooses from.
LEMMA RequeuedFacts ==
  ASSUME TypeOK
  PROVE  /\ RQ!Requeued \in Seq(Proc)
         /\ \A x \in {queue[i] : i \in DOMAIN queue} : \E k \in DOMAIN RQ!Requeued : RQ!Requeued[k] = x
         /\ current \in Proc /\ state[current] \notin {"Dead", "Zombie"} =>
              \E k \in DOMAIN RQ!Requeued : RQ!Requeued[k] = current
         /\ RQ!Demoted \in [Proc -> RQ!States]
         /\ RQ!Refilled \in [Proc -> 0..BaseSlice]
<1> USE ThreadsAssumption
<1>1. queue \in Seq(Proc) /\ current \in Proc \cup {NoProc} /\ state \in [Proc -> RQ!States]
      /\ slice \in [Proc -> 0..BaseSlice]
  BY Zenon DEF TypeOK, RQ!TypeOK
<1>2. RQ!Demoted \in [Proc -> RQ!States] /\ RQ!Refilled \in [Proc -> 0..BaseSlice]
      /\ \A p \in Proc : state[p] \notin {"Dead", "Zombie"} => RQ!Demoted[p] \notin {"Dead", "Zombie"}
  BY <1>1 DEF RQ!Demoted, RQ!Refilled, RQ!States
<1>3. CASE RQ!Requeued = queue /\ ~(current # NoProc /\ RQ!Demoted[current] \notin {"Dead", "Zombie"})
  BY <1>1, <1>2, <1>3, Zenon
<1>4. CASE RQ!Requeued = Append(queue, current) /\ current # NoProc
  <2>1. /\ Append(queue, current) \in Seq(Proc) /\ Len(queue) \in Nat /\ DOMAIN queue = 1..Len(queue)
        /\ DOMAIN Append(queue, current) = 1..(Len(queue) + 1)
        /\ \A i \in 1..Len(queue) : Append(queue, current)[i] = queue[i]
        /\ Append(queue, current)[Len(queue) + 1] = current
    BY <1>1, <1>4
  <2>2. \A i \in DOMAIN queue : i \in DOMAIN Append(queue, current)
    BY <2>1
  <2>3. Len(queue) + 1 \in DOMAIN Append(queue, current)
    BY <2>1
  <2> QED
    BY <1>2, <1>4, <2>1, <2>2, <2>3, Zenon
<1> QED
  BY <1>3, <1>4, Zenon DEF RQ!Requeued

\* What schedule() leaves when it has chosen: a process that could run, the
\* most urgent one, and no sleeper that did not sleep before.
LEMMA DispatchFacts ==
  ASSUME TypeOK, RQ!Dispatch
  PROVE  /\ current' \in Proc /\ queue' \in Seq(Proc) /\ state' \in [Proc -> RQ!States]
         /\ state'[current'] = "Running" /\ RQ!Demoted[current'] = "Runnable"
         /\ \A p \in Proc \ {current'} : state'[p] = RQ!Demoted[p]
         /\ \A p \in Proc : RQ!Demoted[p] = "Runnable" /\ (\E k \in DOMAIN RQ!Requeued : RQ!Requeued[k] = p)
              => Priority[current'] <= Priority[p]
<1> USE ThreadsAssumption
<1> DEFINE q == RQ!Requeued
           st == RQ!Demoted
<1>1. q \in Seq(Proc) /\ st \in [Proc -> RQ!States]
  BY RequeuedFacts, Zenon
<1>2. PICK i \in DOMAIN q :
        /\ RQ!Best(q, st, i) /\ queue' = RQ!RemoveAt(q, i) /\ current' = q[i]
        /\ state' = [st EXCEPT ![q[i]] = "Running"]
  BY Zenon DEF RQ!Dispatch
<1> HIDE DEF q, st
<1>3. q[i] \in Proc /\ i \in 1..Len(q)
  BY <1>1
<1>4. /\ state' \in [Proc -> RQ!States] /\ state'[q[i]] = "Running"
      /\ \A p \in Proc \ {q[i]} : state'[p] = st[p]
  BY <1>1, <1>2, <1>3, Zenon DEF RQ!States
<1>5. queue' \in Seq(Proc)
  BY <1>1, <1>2, <1>3, RemoveAtFacts, Zenon
<1>6. st[q[i]] = "Runnable"
  BY <1>2, Zenon DEF RQ!Best, RQ!Candidates
<1>7. ASSUME NEW p \in Proc, st[p] = "Runnable", NEW k \in DOMAIN q, q[k] = p
      PROVE  Priority[q[i]] <= Priority[p]
  <2>1. Priority[q[i]] < Priority[p] \/ Priority[q[i]] = Priority[p]
    BY <1>2, <1>7, Zenon DEF RQ!Best, RQ!Candidates
  <2>2. Priority[q[i]] \in Nat /\ Priority[p] \in Nat
    BY <1>3, Zenon
  <2> QED
    BY <2>1, <2>2
<1> QED
  BY <1>2, <1>3, <1>4, <1>5, <1>6, <1>7, Zenon DEF q, st
-----------------------------------------------------------------------------
\* The types of the variables, apart from one another.
LEMMA Types ==
  TypeOK =>
    /\ state \in [Proc -> RQ!States] /\ slice \in [Proc -> 0..BaseSlice] /\ queue \in Seq(Proc)
    /\ current \in Thread /\ cpu \in Thread /\ intr \in BOOLEAN
    /\ pc \in [Thread -> Labels]
    /\ target \in [Thread -> [old : Thread, new : Thread]]
    /\ saved \in [Proc -> Thread] /\ cr3 \in Thread
    /\ parent \in [Proc -> Thread] /\ pending \in 0..KbCap
    /\ locked \in SUBSET Proc /\ guards \in [Thread -> SUBSET Proc]
BY Zenon DEF TypeOK, RQ!TypeOK, Thread

LEMMA TypesNext ==
  ASSUME state' \in [Proc -> RQ!States], slice' \in [Proc -> 0..BaseSlice], queue' \in Seq(Proc),
         current' \in Thread, cpu' \in Thread, intr' \in BOOLEAN, pc' \in [Thread -> Labels],
         target' \in [Thread -> [old : Thread, new : Thread]],
         saved' \in [Proc -> Thread], cr3' \in Thread, parent' \in [Proc -> Thread],
         pending' \in 0..KbCap, locked' \in SUBSET Proc, guards' \in [Thread -> SUBSET Proc]
  PROVE  TypeOK'
BY Zenon DEF TypeOK, RQ!TypeOK, Thread

\* The threads by kind.
LEMMA Kinds ==
  /\ Idle \in Proc /\ Shell \in Proc /\ Idle # Shell /\ NoProc \notin Proc
  /\ Thread = Proc \cup {NoProc} /\ Users \subseteq Proc /\ Shell \notin Users /\ Idle \notin Users
  /\ \A p \in Proc : p \in Users \/ p = Idle \/ p = Shell
  /\ Space(NoProc) = NoProc /\ Space(Shell) = NoProc /\ \A t \in Thread : Space(t) \in Thread
BY ThreadsAssumption, Zenon DEF Users, Thread, Space

\* With no lock held nobody spins.
LEMMA NoneHeld == \A L : L \cap {} = {}
OBVIOUS

\* A tick that keeps the process or a step of schedule() refill a slice.
LEMMA SliceTypes ==
  ASSUME TypeOK
  PROVE  /\ RQ!Refilled \in [Proc -> 0..BaseSlice]
         /\ current \in Proc =>
              /\ [slice EXCEPT ![current] = RQ!Spent] \in [Proc -> 0..BaseSlice]
              /\ [RQ!Refilled EXCEPT ![current] = IF state[current] = "Running" THEN @ ELSE 0]
                   \in [Proc -> 0..BaseSlice]
<1> USE ThreadsAssumption
<1>1. slice \in [Proc -> 0..BaseSlice] /\ 0 \in 0..BaseSlice
  BY Types
<1>2. RQ!Refilled \in [Proc -> 0..BaseSlice]
  BY RequeuedFacts, Zenon
<1>3. ASSUME current \in Proc PROVE RQ!Spent \in 0..BaseSlice
  <2>1. slice[current] \in 0..BaseSlice
    BY <1>1, <1>3, Zenon
  <2> QED
    BY <2>1 DEF RQ!Spent
<1> QED
  BY <1>1, <1>2, <1>3, Zenon

\* The wake-ups of wake_up_all_sleeping and what they leave alone.
LEMMA WakeFacts ==
  ASSUME TypeOK,
         state' = [p \in Proc |-> IF state[p] = "Sleeping" /\ p \in Listed THEN "Runnable" ELSE state[p]]
  PROVE  /\ state' \in [Proc -> RQ!States]
         /\ \A p \in Proc : state[p] # "Sleeping" => state'[p] = state[p]
         /\ \A p \in Proc : state'[p] = "Sleeping" => state[p] = "Sleeping"
BY Types DEF RQ!States

\* The keyboard ring keeps at most KbCap characters.
LEMMA PushFacts ==
  ASSUME pending \in 0..KbCap
  PROVE  (IF pending < KbCap THEN pending + 1 ELSE pending) \in 0..KbCap
BY ThreadsAssumption
-----------------------------------------------------------------------------
\* While kernel_main executes, schedule() and a tick choose the shell: idle is
\* the only other process that could run, and the shell is more urgent.
LEMMA BootChoosesShell ==
  ASSUME Inv, Booting, RQ!Dispatch
  PROVE  /\ current' = Shell /\ state'[Shell] = "Running"
         /\ \A u \in Users : state'[u] = "New"
<1> USE ThreadsAssumption
<1>1. TypeOK /\ state \in [Proc -> RQ!States]
  BY Types, Zenon DEF Inv
<1>2. \A p \in Proc : RQ!Demoted[p] = IF p = current /\ state[p] = "Running" THEN "Runnable" ELSE state[p]
  BY Zenon DEF RQ!Demoted
<1>3. RQ!Demoted[Shell] = "Runnable" /\ \A u \in Users : RQ!Demoted[u] = "New"
  BY <1>2, Kinds, Zenon DEF Booting
<1>4. \E k \in DOMAIN RQ!Requeued : RQ!Requeued[k] = Shell
  <2>1. CASE \E i \in DOMAIN queue : queue[i] = Shell
    BY <1>1, <2>1, RequeuedFacts, Zenon
  <2>2. CASE current = Shell /\ state[Shell] = "Running"
    BY <1>1, <2>2, RequeuedFacts, Kinds, Zenon
  <2> QED
    BY <2>1, <2>2, Zenon DEF Booting
<1>5. /\ current' \in Proc /\ RQ!Demoted[current'] = "Runnable" /\ state'[current'] = "Running"
      /\ \A p \in Proc \ {current'} : state'[p] = RQ!Demoted[p]
      /\ Priority[current'] <= Priority[Shell]
  BY <1>1, <1>3, <1>4, DispatchFacts, Kinds, Zenon
<1>6. current' # Idle
  BY <1>5
<1>7. current' = Shell
  BY <1>3, <1>5, <1>6, Kinds, Zenon
<1> QED
  BY <1>3, <1>5, <1>7, Kinds, Zenon

\* The steps of kernel_main and the interrupts that hit it.
LEMMA BootStep ==
  ASSUME Inv, Booting, Next
  PROVE  Inv'
<1> USE ThreadsAssumption, Kinds
<1>1. /\ TypeOK /\ cpu = NoProc /\ locked = {} /\ pc[cpu] \in {"sched", "switch"}
      /\ current \in {NoProc, Shell} /\ cpu \notin Users /\ cpu # Shell /\ cpu \in Thread
      /\ DOMAIN pc = Thread /\ cr3 = NoProc
  BY Types, Zenon DEF Inv, Booting
<1>2. CASE Schedule
  <2>1. /\ pc[NoProc] = "sched" /\ current = NoProc /\ slice' = RQ!Refilled /\ RQ!Dispatch
        /\ UNCHANGED <<machine, parent, pending>>
        /\ current' # current => /\ Goto("switch")
                                 /\ target' = [target EXCEPT ![cpu] = [old |-> current, new |-> current']]
    BY <1>1, <1>2, NoneHeld, Zenon DEF Schedule, At, Locking, Booting
  <2>2. /\ current' = Shell /\ state'[Shell] = "Running" /\ \A u \in Users : state'[u] = "New"
        /\ queue' \in Seq(Proc) /\ state' \in [Proc -> RQ!States]
    BY <1>1, <2>1, BootChoosesShell, DispatchFacts, Zenon
  <2>3. /\ pc' = [pc EXCEPT ![NoProc] = "switch"]
        /\ target' = [target EXCEPT ![NoProc] = [old |-> NoProc, new |-> Shell]]
    BY <1>1, <2>1, <2>2, Zenon DEF Goto
  <2>4. /\ pc'[NoProc] = "switch" /\ \A p \in Proc : pc'[p] = pc[p]
        /\ pc' \in [Thread -> Labels] /\ target' \in [Thread -> [old : Thread, new : Thread]]
        /\ target'[NoProc] = [old |-> NoProc, new |-> Shell]
    BY <1>1, <2>3, Types DEF Labels
  <2>5. TypeOK'
    BY <1>1, <2>1, <2>2, <2>4, Types, TypesNext, SliceTypes, Zenon DEF machine
  <2>6. Booting'
    BY <1>1, <2>1, <2>2, <2>4 DEF Booting, machine
  <2> QED
    BY <1>1, <2>1, <2>5, <2>6, Zenon DEF Inv, machine, Space
<1>3. CASE Switch
  <2>1. /\ pc[NoProc] = "switch" /\ SwitchTo(NoProc, Shell) /\ Goto("halt")
        /\ target' = [target EXCEPT ![cpu] = Nowhere]
        /\ UNCHANGED <<sched, parent, pending>>
        /\ current = Shell /\ state[Shell] = "Running"
    BY <1>1, <1>3, NoneHeld DEF Switch, At, Locking, Booting, Back
  <2>2. saved' = saved /\ cpu' = Shell /\ intr' = TRUE /\ cr3' = cr3 /\ locked' = {}
    BY <1>1, <2>1 DEF SwitchTo, Inv
  <2>3. guards' = NoGuards
    BY <1>1, <2>1, <2>2, ZenonT(60) DEF SwitchTo, Inv, Booting, NoGuards
  <2>4. /\ pc' \in [Thread -> Labels] /\ pc'[NoProc] = "halt" /\ \A p \in Proc : pc'[p] = "run"
        /\ target' \in [Thread -> [old : Thread, new : Thread]]
    BY <1>1, <2>1, Types DEF Goto, Labels, Nowhere, Booting
  <2>5. NoGuards \in [Thread -> SUBSET Proc] /\ {} \in SUBSET Proc /\ intr' \in BOOLEAN
    BY <2>2, Zenon DEF NoGuards
  <2>6. TypeOK'
    BY <1>1, <2>1, <2>2, <2>3, <2>4, <2>5, Types, TypesNext, Zenon DEF sched
  <2>7. Alone'
    BY <1>1, <2>1, <2>2, <2>3, <2>4, Zenon DEF Alone, sched
  <2> QED
    BY <1>1, <2>2, <2>6, <2>7, Zenon DEF Inv
<1>4. CASE Tick
  <2>1. current = Shell /\ pc[NoProc] = "switch"
    BY <1>1, <1>4, Zenon DEF Tick, Booting
  <2>2. TickKeeps \/ TickPreempts
    BY <1>1, <1>4, NoneHeld, Zenon DEF Tick, Locking
  <2>3. CASE TickKeeps
    <3>1. /\ slice' = [slice EXCEPT ![current] = RQ!Spent]
          /\ UNCHANGED <<state, queue, current, machine, pc, target, parent, pending>>
      BY <2>3, Zenon DEF TickKeeps
    <3>2. TypeOK'
      BY <1>1, <2>1, <3>1, Types, TypesNext, SliceTypes, Zenon DEF machine
    <3> QED
      BY <3>1, <3>2, Zenon DEF Inv, Booting, machine, Space
  <2>4. CASE TickPreempts
    <3>1. RQ!Dispatch
      BY <2>4, Zenon DEF TickPreempts
    <3>2. /\ current' = Shell /\ state'[Shell] = "Running" /\ \A u \in Users : state'[u] = "New"
          /\ queue' \in Seq(Proc) /\ state' \in [Proc -> RQ!States]
      BY <1>1, <3>1, BootChoosesShell, DispatchFacts, Zenon
    <3>3. /\ slice' = [RQ!Refilled EXCEPT ![current] = IF state[current] = "Running" THEN @ ELSE 0]
          /\ UNCHANGED <<machine, pc, target, parent, pending>>
      BY <2>1, <2>4, <3>2, Zenon DEF TickPreempts
    <3>4. TypeOK'
      BY <1>1, <2>1, <3>2, <3>3, Types, TypesNext, SliceTypes, Zenon DEF machine
    <3>5. Booting'
      BY <2>1, <3>2, <3>3, Zenon DEF Booting, machine
    <3> QED
      BY <3>3, <3>4, <3>5, Zenon DEF Inv, machine, Space
  <2> QED
    BY <2>2, <2>3, <2>4, Zenon
<1>5. CASE KeyIrq
  <2>1. /\ pending' = IF pending < KbCap THEN pending + 1 ELSE pending
        /\ state' = [p \in Proc |-> IF state[p] = "Sleeping" /\ p \in Listed THEN "Runnable" ELSE state[p]]
        /\ UNCHANGED <<slice, queue, current, machine, pc, target, parent>>
    BY <1>1, <1>5, NoneHeld, Zenon DEF KeyIrq
  <2>2. TypeOK'
    BY <1>1, <2>1, WakeFacts, PushFacts, Types, TypesNext, Zenon DEF machine
  <2>3. state'[Shell] = state[Shell] /\ \A u \in Users : state'[u] = "New"
    BY <1>1, <2>1, WakeFacts, Zenon DEF Booting
  <2>4. Booting'
    BY <2>1, <2>3, Zenon DEF Booting, machine
  <2> QED
    BY <2>1, <2>2, <2>4, Zenon DEF Inv, machine, Space
<1> QED
  BY <1>1, <1>2, <1>3, <1>4, <1>5, Zenon
     DEF Next, Code, BeginRead, Cli, ReadChar, SleepCurrent, NewProcess, Exit, CallWaitpid, Waitpid, SysRead, Running, At
-----------------------------------------------------------------------------
\* The first context_switch: the shell's context holds the shell, the next
\* process executes with its page tables, and both are locked.
LEMMA FirstSwitch ==
  ASSUME Inv, Alone, NEW new \in Proc \ {Shell}, SwitchTo(Shell, new)
  PROVE  /\ saved' = saved /\ cpu' = new /\ intr' = TRUE /\ cr3' = Space(new)
         /\ locked' = {Shell, new} /\ guards' \in [Thread -> SUBSET Proc]
<1> USE ThreadsAssumption, Kinds
<1>1. /\ cpu = Shell /\ saved \in [Proc -> Thread] /\ \A p \in Proc : saved[p] = p
      /\ cr3 = NoProc /\ locked = {} /\ guards = NoGuards /\ Shell # NoProc
  BY Types, Zenon DEF Inv, Alone
<1>2. [saved EXCEPT ![Shell] = cpu] = saved
  BY <1>1
<1>3. [guards EXCEPT ![cpu] = {Shell, new}] = [t \in Thread |-> IF t = Shell THEN {Shell, new} ELSE {}]
  BY <1>1, ZenonT(60) DEF NoGuards
<1>4. saved' = saved /\ cpu' = new /\ intr' = TRUE
  BY <1>1, <1>2, Zenon DEF SwitchTo
<1>5. cr3' = Space(new)
  BY <1>1, Zenon DEF SwitchTo
<1>6. locked' = ({} \cup {Shell, new}) \ {}
  BY <1>1, <1>2, <1>3, ZenonT(60) DEF SwitchTo
<1>7. guards' = [[t \in Thread |-> IF t = Shell THEN {Shell, new} ELSE {}] EXCEPT ![new] = {}]
  BY <1>1, <1>2, <1>3, Zenon DEF SwitchTo
<1>8. guards' \in [Thread -> SUBSET Proc]
  BY <1>7
<1> QED
  BY <1>4, <1>5, <1>6, <1>8

\* The steps of the shell and the interrupts that hit it.
LEMMA AloneStep ==
  ASSUME Inv, Alone, Next
  PROVE  Inv'
<1> USE ThreadsAssumption, Kinds
<1>1. /\ TypeOK /\ cpu = Shell /\ locked = {} /\ cpu \notin Users /\ cpu \in Thread
      /\ DOMAIN pc = Thread /\ cr3 = NoProc /\ current \in Proc /\ pending \in 0..KbCap
      /\ pc[Shell] # "switch" => current = Shell
  BY Types, Zenon DEF Inv, Alone
\* The shell moves to label l and does not schedule.
<1>2. ASSUME NEW l \in {"run", "read", "check", "mark"}, Goto(l), pc[Shell] \in {"run", "read", "check"},
             UNCHANGED <<sched, cpu, saved, cr3, locked, guards, target, parent>>,
             intr' \in BOOLEAN, pending' \in 0..KbCap,
             l \in {"check", "mark"} => ~intr', l = "mark" => pending' = 0
      PROVE  Inv'
  <2>1. /\ pc'[Shell] = l /\ pc'[NoProc] = "halt" /\ \A p \in Proc \ {Shell} : pc'[p] = "run"
        /\ pc' \in [Thread -> Labels]
    BY <1>1, <1>2, Types DEF Goto, Labels, Alone
  <2>2. TypeOK'
    BY <1>1, <1>2, <2>1, Types, TypesNext, Zenon DEF sched
  <2>3. Alone'
    BY <1>1, <1>2, <2>1 DEF Alone, sched
  <2> QED
    BY <1>2, <2>2, <2>3, Zenon DEF Inv, Space
<1>3. CASE BeginRead
  BY <1>1, <1>2, <1>3, Types, Zenon DEF BeginRead, At, machine
<1>4. CASE Cli
  BY <1>1, <1>2, <1>4, Types, Zenon DEF Cli, At
<1>5. CASE ReadChar
  <2>1. CASE pending > 0 /\ pending' = pending - 1 /\ intr' = TRUE /\ Goto("run")
    <3>1. pending' \in 0..KbCap
      BY <1>1, <2>1
    <3> QED
      BY <1>1, <1>2, <1>5, <2>1, <3>1, Zenon DEF ReadChar, At
  <2>2. CASE pending = 0 /\ Goto("mark") /\ UNCHANGED <<intr, pending>>
    BY <1>1, <1>2, <1>5, <2>2, Types, Zenon DEF ReadChar, At, Alone
  <2> QED
    BY <1>5, <2>1, <2>2, Zenon DEF ReadChar
<1>6. CASE SleepCurrent
  <2>1. /\ pc[Shell] = "mark" /\ current = Shell /\ state' = [state EXCEPT ![Shell] = "Sleeping"]
        /\ Goto("sched")
        /\ UNCHANGED <<slice, queue, current, machine, target, parent, pending>>
    BY <1>1, <1>6, NoneHeld, Zenon DEF SleepCurrent, At, Locking
  <2>2. /\ pc'[Shell] = "sched" /\ pc'[NoProc] = "halt" /\ \A p \in Proc \ {Shell} : pc'[p] = "run"
        /\ pc' \in [Thread -> Labels]
    BY <1>1, <2>1, Types DEF Goto, Labels, Alone
  <2>3. state' \in [Proc -> RQ!States]
    BY <1>1, <2>1, Types DEF RQ!States
  <2>4. TypeOK'
    BY <1>1, <2>1, <2>2, <2>3, Types, TypesNext, Zenon DEF machine
  <2>5. Alone'
    BY <1>1, <2>1, <2>2 DEF Alone, machine
  <2> QED
    BY <2>1, <2>4, <2>5, Zenon DEF Inv, Space, machine
<1>7. ASSUME NEW p \in Proc, NewProcess(p) PROVE Inv'
  <2>1. /\ p \in Users /\ state[p] = "New" /\ queue' = Append(queue, p)
        /\ state' = [state EXCEPT ![p] = "Runnable"]
        /\ parent' = [parent EXCEPT ![p] = IF cpu = Shell THEN NoProc ELSE current]
        /\ UNCHANGED <<slice, current, machine, pc, target, pending>>
    BY <1>1, <1>7, NoneHeld, Zenon DEF NewProcess, Locking
  <2>2. queue' \in Seq(Proc) /\ state' \in [Proc -> RQ!States] /\ state'[Shell] = state[Shell]
    BY <1>1, <2>1, Types DEF RQ!States
  <2>3. parent' \in [Proc -> Thread]
    BY <1>1, <2>1, Types
  <2>4. TypeOK'
    BY <1>1, <2>1, <2>2, <2>3, Types, TypesNext, Zenon DEF machine
  <2>5. Alone'
    BY <2>1, <2>2, Zenon DEF Alone, machine
  <2> QED
    BY <2>1, <2>4, <2>5, Zenon DEF Inv, Space, machine
<1>8. CASE Schedule
  <2>1. /\ pc[Shell] = "sched" /\ current = Shell /\ slice' = RQ!Refilled /\ RQ!Dispatch
        /\ UNCHANGED <<machine, parent, pending>>
        /\ current' = current => Goto("read") /\ UNCHANGED target
        /\ current' # current => /\ Goto("switch")
                                 /\ target' = [target EXCEPT ![cpu] = [old |-> current, new |-> current']]
    BY <1>1, <1>8, NoneHeld, Zenon DEF Schedule, At, Locking, Back
  <2>2. /\ current' \in Proc /\ queue' \in Seq(Proc) /\ state' \in [Proc -> RQ!States]
        /\ state'[current'] = "Running"
    BY <1>1, <2>1, DispatchFacts, Zenon
  <2>3. PICK l \in {"read", "switch"} : Goto(l) /\ (l = "switch" <=> current' # current)
    BY <2>1, Zenon
  <2>4. /\ pc'[Shell] = l /\ pc'[NoProc] = "halt" /\ \A p \in Proc \ {Shell} : pc'[p] = "run"
        /\ pc' \in [Thread -> Labels]
    BY <1>1, <2>3, Types DEF Goto, Labels, Alone
  <2>5. /\ target' \in [Thread -> [old : Thread, new : Thread]]
        /\ l = "switch" => target'[Shell] = [old |-> Shell, new |-> current']
    <3>1. target \in [Thread -> [old : Thread, new : Thread]]
          /\ \A x \in Proc : [old |-> Shell, new |-> x] \in [old : Thread, new : Thread]
      BY <1>1, Types
    <3>2. CASE current' = current
      BY <2>1, <2>3, <3>1, <3>2, Zenon
    <3>3. CASE current' # current
      <4>1. target' = [target EXCEPT ![Shell] = [old |-> Shell, new |-> current']]
        BY <1>1, <2>1, <3>3, Zenon
      <4> QED
        BY <2>2, <3>1, <4>1, Zenon
    <3> QED
      BY <3>2, <3>3, Zenon
  <2>6. TypeOK'
    BY <1>1, <2>1, <2>2, <2>4, <2>5, Types, TypesNext, SliceTypes, Zenon DEF machine
  <2>7. Alone'
    BY <1>1, <2>1, <2>2, <2>3, <2>4, <2>5 DEF Alone, machine
  <2> QED
    BY <2>1, <2>6, <2>7, Zenon DEF Inv, Space, machine
<1>9. CASE Switch
  <2>1. /\ pc[Shell] = "switch" /\ current \in Proc \ {Shell} /\ SwitchTo(Shell, current)
        /\ Goto("read") /\ target' = [target EXCEPT ![cpu] = Nowhere]
        /\ UNCHANGED <<sched, parent, pending>> /\ pending = 0
    BY <1>1, <1>9, NoneHeld DEF Switch, At, Locking, Alone, Back
  <2>2. /\ saved' = saved /\ cpu' = current /\ intr' = TRUE /\ cr3' = Space(current)
        /\ locked' = {Shell, current} /\ guards' \in [Thread -> SUBSET Proc]
    BY <2>1, FirstSwitch, Zenon
  <2>3. pc'[current] = "run" /\ pc' \in [Thread -> Labels]
    BY <1>1, <2>1, Types DEF Goto, Labels, Alone
  <2>4. target' \in [Thread -> [old : Thread, new : Thread]]
    BY <1>1, <2>1, Types DEF Nowhere
  <2>5. intr' \in BOOLEAN /\ {Shell, current} \in SUBSET Proc
    BY <2>1, <2>2, Zenon
  <2>6. TypeOK'
    BY <1>1, <2>1, <2>2, <2>3, <2>4, <2>5, Types, TypesNext, Zenon DEF sched
  <2>7. Left'
    BY <2>1, <2>2, <2>3 DEF Left, sched
  <2> QED
    BY <2>1, <2>2, <2>6, <2>7, Zenon DEF Inv, sched
<1>10. CASE Tick
  <2>1. intr /\ (TickKeeps \/ TickPreempts) /\ pc[Shell] \in {"run", "read"} /\ current = Shell
    BY <1>1, <1>10, NoneHeld, Zenon DEF Tick, Locking, Alone
  <2>2. CASE TickKeeps
    <3>1. /\ slice' = [slice EXCEPT ![current] = RQ!Spent]
          /\ UNCHANGED <<state, queue, current, machine, pc, target, parent, pending>>
      BY <2>2, Zenon DEF TickKeeps
    <3>2. TypeOK'
      BY <1>1, <3>1, Types, TypesNext, SliceTypes, Zenon DEF machine
    <3>3. Alone'
      BY <3>1, Zenon DEF Alone, machine
    <3> QED
      BY <3>1, <3>2, <3>3, Zenon DEF Inv, machine, Space
  <2>3. CASE TickPreempts
    <3>1. /\ slice' = [RQ!Refilled EXCEPT ![current] = IF state[current] = "Running" THEN @ ELSE 0]
          /\ RQ!Dispatch /\ UNCHANGED <<pc, target, parent, pending>>
          /\ IF current' = current THEN UNCHANGED machine ELSE SwitchTo(current, current')
      BY <2>3, Zenon DEF TickPreempts
    <3>2. /\ current' \in Proc /\ queue' \in Seq(Proc) /\ state' \in [Proc -> RQ!States]
          /\ state'[current'] = "Running"
      BY <1>1, <3>1, DispatchFacts, Zenon
    <3>3. CASE current' = current
      <4>1. TypeOK'
        BY <1>1, <3>1, <3>2, <3>3, Types, TypesNext, SliceTypes, Zenon DEF machine
      <4>2. Alone'
        BY <2>1, <3>1, <3>2, <3>3 DEF Alone, machine
      <4> QED
        BY <3>1, <3>3, <4>1, <4>2, Zenon DEF Inv, machine, Space
    <3>4. CASE current' # current
      <4>1. current' \in Proc \ {Shell} /\ SwitchTo(Shell, current')
        BY <2>1, <3>1, <3>2, <3>4, Zenon
      <4>2. PICK new \in Proc \ {Shell} : new = current'
        BY <4>1, Zenon
      <4>3. /\ saved' = saved /\ cpu' = new /\ intr' = TRUE /\ cr3' = Space(new)
            /\ locked' = {Shell, new} /\ guards' \in [Thread -> SUBSET Proc]
        BY <4>1, <4>2, FirstSwitch, Zenon
      <4>4. intr' \in BOOLEAN /\ {Shell, new} \in SUBSET Proc /\ new \in Thread
        BY <4>3, Zenon
      <4>5. TypeOK'
        BY <1>1, <3>1, <3>2, <4>2, <4>3, <4>4, Types, TypesNext, SliceTypes, Zenon
      <4>6. state'[Shell] # "Sleeping"
        <5>1. state'[Shell] = RQ!Demoted[Shell]
          BY <1>1, <2>1, <3>1, <3>4, DispatchFacts, Zenon
        <5> QED
          BY <2>1, <5>1 DEF RQ!Demoted, Alone
      <4>7. Left'
        BY <3>1, <4>2, <4>3, <4>6 DEF Left, Alone
      <4> QED
        BY <4>2, <4>3, <4>5, <4>7, Zenon DEF Inv
    <3> QED
      BY <3>3, <3>4, Zenon
  <2> QED
    BY <2>1, <2>2, <2>3, Zenon
<1>11. CASE KeyIrq
  <2>1. /\ intr /\ pending' = IF pending < KbCap THEN pending + 1 ELSE pending
        /\ state' = [p \in Proc |-> IF state[p] = "Sleeping" /\ p \in Listed THEN "Runnable" ELSE state[p]]
        /\ UNCHANGED <<slice, queue, current, machine, pc, target, parent>>
    BY <1>1, <1>11, NoneHeld, Zenon DEF KeyIrq
  <2>2. TypeOK'
    BY <1>1, <2>1, WakeFacts, PushFacts, Types, TypesNext, Zenon DEF machine
  <2>3. state'[Shell] = "Sleeping" => state[Shell] = "Sleeping"
    BY <1>1, <2>1, WakeFacts, Zenon
  <2>4. Alone'
    BY <2>1, <2>3 DEF Alone, machine
  <2> QED
    BY <2>1, <2>2, <2>4, Zenon DEF Inv, machine, Space
<1> QED
  BY <1>1, <1>3, <1>4, <1>5, <1>6, <1>7, <1>8, <1>9, <1>10, <1>11, Zenon
     DEF Next, Code, Exit, CallWaitpid, Waitpid, SysRead, Running
-----------------------------------------------------------------------------
\* A step that spins after the first context_switch.
LEMMA SpinStep ==
  ASSUME Inv, Left, Spin, pending' \in 0..KbCap
  PROVE  Inv'
<1> USE ThreadsAssumption, Kinds
<1>1. /\ TypeOK /\ cpu \in Thread /\ DOMAIN pc = Thread /\ intr' = FALSE /\ Goto("spin")
      /\ UNCHANGED <<sched, cpu, saved, cr3, locked, guards, target, parent>>
  BY Types, Zenon DEF Inv, Spin
<1>2. pc' \in [Thread -> Labels] /\ pc'[cpu] = "spin" /\ intr' \in BOOLEAN
  BY <1>1, Types, ZenonT(60) DEF Goto, Labels
<1>3. TypeOK'
  BY <1>1, <1>2, Types, TypesNext, Zenon DEF sched
<1>4. Left'
  BY <1>1, <1>2, Zenon DEF Left, sched
<1> QED
  BY <1>1, <1>3, <1>4, Zenon DEF Inv, Space

\* After the first context_switch: whoever would lock a Process spins.
LEMMA LeftSpins ==
  ASSUME Inv, Left, Next
  PROVE  \/ Spin /\ pending' \in 0..KbCap
         \/ CallWaitpid
         \/ SysRead
<1> USE ThreadsAssumption, Kinds
<1>1. /\ cpu \in Proc \ {Shell} /\ current = cpu /\ cpu \in locked /\ pending \in 0..KbCap
      /\ pc[cpu] \in {"run", "wait", "poll", "spin"}
  BY Types, Zenon DEF Inv, Left
<1>2. Current \cap locked # {} /\ Listed \cap locked # {}
  BY <1>1 DEF Current, Listed
<1>3. CASE \/ Exit \/ Waitpid \/ \E p \in Proc : NewProcess(p)
  BY <1>1, <1>2, <1>3, Zenon DEF Exit, Waitpid, NewProcess, Locking
<1>4. CASE Tick
  BY <1>1, <1>2, <1>4, Zenon DEF Tick, Locking
<1>5. CASE KeyIrq
  <2>1. Spin /\ pending' = IF pending < KbCap THEN pending + 1 ELSE pending
    BY <1>2, <1>5, Zenon DEF KeyIrq
  <2> QED
    BY <1>1, <2>1, PushFacts, Zenon
<1> QED
  BY <1>1, <1>3, <1>4, <1>5, Zenon
     DEF Next, Code, Schedule, Switch, BeginRead, Cli, ReadChar, SleepCurrent, At

\* The steps after the first context_switch.
LEMMA LeftStep ==
  ASSUME Inv, Left, Next
  PROVE  Inv'
<1> USE ThreadsAssumption, Kinds
<1>1. TypeOK /\ cpu \in Thread /\ DOMAIN pc = Thread /\ pending \in 0..KbCap
  BY Types, Zenon DEF Inv
<1>2. CASE Spin /\ pending' \in 0..KbCap
  BY <1>2, SpinStep, Zenon
<1>3. CASE CallWaitpid
  <2>1. PICK l \in {"wait", "poll"} : Goto(l)
    BY <1>3, Zenon DEF CallWaitpid
  <2>2. pc[cpu] = "run" /\ UNCHANGED <<sched, machine, target, parent, pending>>
    BY <1>3, Zenon DEF CallWaitpid, Running, At
  <2>3. pc' \in [Thread -> Labels] /\ pc'[cpu] = l
    BY <1>1, <2>1, Types DEF Goto, Labels
  <2>4. TypeOK'
    BY <1>1, <2>2, <2>3, Types, TypesNext, Zenon DEF sched, machine
  <2>5. Left'
    BY <2>2, <2>3 DEF Left, sched, machine
  <2> QED
    BY <2>2, <2>4, <2>5, Zenon DEF Inv, Space, machine
<1>4. CASE SysRead
  <2>1. pc[cpu] = "run" /\ pending > 0 /\ pending' = pending - 1 /\ UNCHANGED <<sched, machine, pc, target, parent>>
    BY <1>4, Zenon DEF SysRead, Running, At
  <2>2. pending' \in 0..KbCap /\ pending # 0
    BY <1>1, <2>1
  <2>3. TypeOK'
    BY <1>1, <2>1, <2>2, Types, TypesNext, Zenon DEF sched, machine
  <2>4. Left'
    BY <2>1, <2>2, Zenon DEF Left, sched, machine
  <2> QED
    BY <2>1, <2>3, <2>4, Zenon DEF Inv, Space, machine
<1> QED
  BY <1>2, <1>3, <1>4, LeftSpins, Zenon

\* Every step preserves the invariant.
LEMMA StepInv ==
  ASSUME Inv, [Next]_vars
  PROVE  Inv'
<1>1. CASE Next
  BY <1>1, BootStep, AloneStep, LeftStep, Zenon DEF Inv
<1>2. CASE UNCHANGED vars
  <2>1. UNCHANGED <<state, slice, queue, current, cpu, intr, saved, cr3, locked, guards, pc, target, parent, pending>>
    BY <1>2, Zenon DEF vars, sched, machine
  <2>2. TypeOK'
    BY <2>1, Types, TypesNext, Zenon DEF Inv
  <2>3. (Booting \/ Alone \/ Left)'
    <3>1. CASE Booting
      BY <2>1, <3>1, Zenon DEF Booting
    <3>2. CASE Alone
      BY <2>1, <3>2, Zenon DEF Alone
    <3>3. CASE Left
      BY <2>1, <3>3, Zenon DEF Left
    <3> QED
      BY <3>1, <3>2, <3>3, Zenon DEF Inv
  <2> QED
    BY <2>1, <2>2, <2>3, Zenon DEF Inv, Space
<1> QED
  BY <1>1, <1>2, Zenon

\* kernel_main, about to make its call of schedule().
LEMMA InitInv == Init => Inv
<1> SUFFICES ASSUME Init PROVE Inv
  BY Zenon
<1> USE ThreadsAssumption, Kinds DEF Init
<1>1. queue \in Seq(Proc) /\ state \in [Proc -> RQ!States] /\ slice \in [Proc -> 0..BaseSlice]
  BY DEF RQ!States
<1>2. /\ current \in Proc \cup {NoProc} /\ cpu \in Thread /\ intr \in BOOLEAN /\ cr3 \in Thread
      /\ saved \in [Proc -> Thread] /\ parent \in [Proc -> Thread] /\ pending \in 0..KbCap
      /\ locked \in SUBSET Proc /\ guards \in [Thread -> SUBSET Proc]
  OBVIOUS
<1>3. pc \in [Thread -> Labels] /\ target \in [Thread -> [old : Thread, new : Thread]]
  BY DEF Labels, Nowhere
<1>4. {t \in Thread : pc[t] = "sched"} \in SUBSET (Proc \cup {NoProc})
  BY Zenon
<1>5. TypeOK
  BY <1>1, <1>2, <1>3, <1>4, Zenon DEF TypeOK, RQ!TypeOK
<1>6. queue[2] = Shell /\ 2 \in DOMAIN queue
  OBVIOUS
<1>7. Booting
  BY <1>6, Zenon DEF Booting, NoGuards
<1> QED
  BY <1>5, <1>7, Zenon DEF Inv
-----------------------------------------------------------------------------
\* The comment on wait_key, for any number of processes and any KB_BUF_SIZE:
\* the shell does not sleep with a character in the buffer, unless the CPU is
\* lost to a Process lock that schedule() kept.
THEOREM NeverLostWakeup == Spec => []NoLostWakeup
<1>1. Inv => NoLostWakeup
  BY Kinds, Zenon DEF Inv, Booting, Alone, Left, NoLostWakeup, At
<1>2. Inv /\ [Next]_vars => Inv'
  BY StepInv, Zenon
<1> QED
  BY <1>1, <1>2, InitInv, PTL DEF Spec

\* context_switch saves and loads the registers of the right process, for any
\* number of processes and wherever the interrupts arrive.
THEOREM ContextsRight == Spec => []ContextOwned
<1>1. Inv => ContextOwned
  BY Zenon DEF Inv, ContextOwned
<1>2. Inv /\ [Next]_vars => Inv'
  BY StepInv, Zenon
<1> QED
  BY <1>1, <1>2, InitInv, PTL DEF Spec

\* Whatever runs outside schedule() is RUN_QUEUE.current on its own stack, with
\* its own page tables loaded, although schedule() skips the load of CR3 when
\* two processes share a PML4.
THEOREM AlwaysRunsCurrent == Spec => []RunsCurrent
<1>1. Inv => RunsCurrent
  BY Zenon DEF Inv, Booting, Alone, Left, RunsCurrent
<1>2. Inv /\ [Next]_vars => Inv'
  BY StepInv, Zenon
<1> QED
  BY <1>1, <1>2, InitInv, PTL DEF Spec
-----------------------------------------------------------------------------
\* RunQueue's owes, under the refinement mapping.
Owes == {t \in Thread : pc[t] = "sched"}

\* Steps that schedule nothing leave what RunQueue sees.
LEMMA Stutters ==
  ASSUME Inv, NEW l, Goto(l), l # "sched", pc[cpu] # "sched", UNCHANGED sched
  PROVE  UNCHANGED RQ!vars
<1>1. cpu \in Thread /\ DOMAIN pc = Thread
  BY Types, Zenon DEF Inv
<1>2. pc'[cpu] = l /\ \A t \in Thread \ {cpu} : pc'[t] = pc[t]
  BY <1>1, Zenon DEF Goto
<1>3. Owes' = Owes
  BY <1>2, Zenon DEF Owes
<1> QED
  BY <1>3, Zenon DEF RQ!vars, sched, Owes

\* A tick whose locks are free is one of RunQueue's.
LEMMA TickImplements ==
  ASSUME Inv, current \in Proc, UNCHANGED pc,
         (RQ!Spent > 0 /\ TickKeeps) \/ (RQ!Spent = 0 /\ TickPreempts)
  PROVE  RQ!Next
<1>1. Owes' = Owes
  BY Zenon DEF Owes
<1>2. CASE RQ!Spent > 0 /\ TickKeeps
  BY <1>1, <1>2, Zenon DEF TickKeeps, RQ!TickKeeps, RQ!Tick, RQ!Next, Owes
<1>3. CASE RQ!Spent = 0 /\ TickPreempts
  <2>1. RQ!Refilled[current] = IF state[current] = "Running" THEN BaseSlice ELSE slice[current]
    BY Zenon DEF RQ!Refilled
  <2>2. slice' = [RQ!Refilled EXCEPT ![current] = IF state[current] = "Running" THEN BaseSlice ELSE 0]
    BY <1>3, <2>1, Zenon DEF TickPreempts
  <2>3. RQ!TickPreempts
    BY <1>1, <1>3, <2>2, Zenon DEF TickPreempts, RQ!TickPreempts, Owes
  <2> QED
    BY <2>3, Zenon DEF RQ!Tick, RQ!Next
<1> QED
  BY <1>2, <1>3, Zenon

\* Every step of the threads is a step of RunQueue, or one that it cannot see.
LEMMA Implements ==
  ASSUME Inv, [Next]_vars
  PROVE  [RQ!Next]_(RQ!vars)
<1> USE ThreadsAssumption, Kinds
<1>0. cpu \in Thread /\ current \in Thread /\ DOMAIN pc = Thread
  BY Types, Zenon DEF Inv
<1>1. CASE UNCHANGED vars
  BY <1>1, Zenon DEF vars, RQ!vars, sched
<1>2. CASE Left /\ Next
  <2>1. pc[cpu] # "sched"
    BY <1>2, Zenon DEF Left
  <2>2. CASE Spin
    BY <2>1, <2>2, Stutters, Zenon DEF Spin
  <2>3. CASE CallWaitpid
    BY <2>1, <2>3, Stutters, Zenon DEF CallWaitpid
  <2>4. CASE SysRead
    BY <2>4, Zenon DEF SysRead, RQ!vars, sched
  <2> QED
    BY <1>2, <2>2, <2>3, <2>4, LeftSpins, Zenon
<1>3. CASE (Booting \/ Alone) /\ Next
  <2>1. /\ locked = {} /\ cpu \in {NoProc, Shell} /\ (pc[cpu] # "switch" => current = cpu)
        /\ cpu = NoProc => pc[cpu] \in {"sched", "switch"}
    BY <1>3, Zenon DEF Booting, Alone
  <2>2. ASSUME NEW l, Goto(l) PROVE pc'[cpu] = l /\ \A t \in Thread \ {cpu} : pc'[t] = pc[t]
    BY <1>0, <2>2, Zenon DEF Goto
  <2>3. CASE Schedule
    <3>1. /\ pc[cpu] = "sched" /\ current = cpu /\ slice' = RQ!Refilled /\ RQ!Dispatch
          /\ Goto(Back(cpu)) \/ Goto("switch")
      BY <2>1, <2>3, NoneHeld, Zenon DEF Schedule, At, Locking
    <3>2. Back(cpu) # "sched"
      BY Zenon DEF Back
    <3>3. ASSUME NEW l, Goto(l), l # "sched"
          PROVE  pc'[cpu] # "sched" /\ \A t \in Thread \ {cpu} : pc'[t] = pc[t]
      BY <2>2, <3>3, Zenon
    <3>4. pc'[cpu] # "sched" /\ \A t \in Thread \ {cpu} : pc'[t] = pc[t]
      <4>1. CASE Goto(Back(cpu))
        BY <3>2, <3>3, <4>1, Zenon
      <4>2. CASE Goto("switch")
        BY <3>3, <4>2
      <4> QED
        BY <3>1, <4>1, <4>2, Zenon
    <3>5. current \in Owes /\ Owes' = Owes \ {current}
      BY <1>0, <3>1, <3>4, Zenon DEF Owes
    <3>6. RQ!Yield
      BY <3>1, <3>5, Zenon DEF RQ!Yield, Owes
    <3> QED
      BY <3>6, Zenon DEF RQ!Next
  <2>4. CASE SleepCurrent
    <3>1. /\ pc[cpu] = "mark" /\ current = cpu /\ Goto("sched")
          /\ state' = [state EXCEPT ![current] = "Sleeping"] /\ UNCHANGED <<slice, queue, current>>
      BY <2>1, <2>4, NoneHeld, Zenon DEF SleepCurrent, At, Locking
    <3>2. current \in Proc \ {Idle} /\ current \notin Owes /\ Owes' = Owes \cup {current}
      BY <1>0, <2>1, <2>2, <3>1, ZenonT(60) DEF Owes
    <3>3. RQ!MarkSleeping
      BY <3>1, <3>2, Zenon DEF RQ!MarkSleeping, Owes
    <3> QED
      BY <3>3, Zenon DEF RQ!Next
  <2>5. ASSUME NEW p \in Proc, NewProcess(p) PROVE RQ!Next
    <3>1. /\ pc[cpu] = "run" /\ current = cpu /\ UNCHANGED pc /\ p \in Users /\ state[p] = "New"
          /\ state' = [state EXCEPT ![p] = "Runnable"] /\ queue' = Append(queue, p)
          /\ UNCHANGED <<slice, current>>
      BY <2>1, <2>5, NoneHeld, Zenon DEF NewProcess, Running, At, Locking
    <3>2. current \in Proc \ {Idle} /\ current \notin Owes /\ Owes' = Owes
      BY <1>0, <2>1, <3>1, Zenon DEF Owes
    <3>3. RQ!Spawn(p)
      BY <3>1, <3>2, Zenon DEF RQ!Spawn, Owes, RQ!Users, Users
    <3> QED
      BY <3>3, Zenon DEF RQ!Next
  <2>6. CASE Tick
    <3>1. (RQ!Spent > 0 /\ TickKeeps) \/ (RQ!Spent = 0 /\ TickPreempts)
      BY <2>1, <2>6, NoneHeld, Zenon DEF Tick, Locking
    <3>2. current \in Proc /\ UNCHANGED pc
      BY <1>0, <2>6, <3>1, Zenon DEF Tick, TickKeeps, TickPreempts
    <3> QED
      BY <3>1, <3>2, TickImplements, Zenon
  <2>7. CASE KeyIrq
    <3>1. /\ state' = [p \in Proc |-> IF state[p] = "Sleeping" /\ p \in Listed THEN "Runnable" ELSE state[p]]
          /\ UNCHANGED <<slice, queue, current, pc>>
      BY <2>1, <2>7, NoneHeld, Zenon DEF KeyIrq
    <3>2. Owes' = Owes
      BY <3>1, Zenon DEF Owes
    <3>3. \A p \in Proc : p \in Listed <=> (p = current \/ p \in RQ!Range(queue))
      BY Zenon DEF Listed, Current, RQ!Range
    <3>4. state' = [p \in Proc |->
            IF state[p] = "Sleeping" /\ (p = current \/ p \in RQ!Range(queue)) THEN "Runnable" ELSE state[p]]
      BY <3>1, <3>3, Zenon
    <3>5. RQ!WakeAll
      BY <3>1, <3>2, <3>4, Zenon DEF RQ!WakeAll, Owes
    <3> QED
      BY <3>5, Zenon DEF RQ!Next
  <2>8. CASE BeginRead \/ Cli \/ ReadChar
    BY <2>8, Stutters, Zenon DEF BeginRead, Cli, ReadChar, At
  <2>9. CASE Switch
    <3>1. Back(cpu) # "sched" /\ pc[cpu] = "switch"
      BY <2>9, Zenon DEF Back, Switch, At
    <3>2. (Goto(Back(cpu)) /\ UNCHANGED sched) \/ Spin
      BY <2>9, Zenon DEF Switch, Locking
    <3> QED
      BY <3>1, <3>2, Stutters, Zenon DEF Spin
  <2> QED
    BY <1>3, <2>1, <2>3, <2>4, <2>5, <2>6, <2>7, <2>8, <2>9, Zenon
       DEF Next, Code, Exit, CallWaitpid, Waitpid, SysRead, Running
<1> QED
  BY <1>1, <1>2, <1>3, Zenon DEF Inv

\* What the callers of schedule(), tick(), spawn() and the wake-ups observe is
\* the atomic scheduler RunQueue, although schedule() drops the lock before it
\* switches stacks and interrupts may arrive in between.
THEOREM ImplementsRunQueue == Spec => Refinement
<1>1. Init => RQ!Init
  <2> SUFFICES ASSUME Init PROVE RQ!Init
    BY Zenon
  <2>1. Owes = {NoProc}
    BY ThreadsAssumption, Zenon DEF Init, Owes, Thread
  <2>2. RQ!Range(<<Idle, Shell>>) = {Idle, Shell}
    BY DEF RQ!Range
  <2> QED
    BY <2>1, <2>2, Zenon DEF Init, RQ!Init, Owes
<1>2. Inv /\ [Next]_vars => Inv' /\ [RQ!Next]_(RQ!vars)
  BY StepInv, Implements, Zenon
<1> QED
  BY <1>1, <1>2, InitInv, PTL DEF Spec, RQ!Spec, Refinement
=============================================================================

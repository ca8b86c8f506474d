----------------------------- MODULE ProcessProofs -----------------------------
(***************************************************************************)
(* Proofs about how processes get and keep the CPU: RunQueue, for any      *)
(* processes, priorities and slice length, and SyscallEntry, for any       *)
(* number of processes and frames.                                         *)
(***************************************************************************)
EXTENDS RunQueue, SyscallEntry, Integers, TLAPS

(***************************************************************************)
(* What Vec::push and Vec::remove of RUN_QUEUE.queue keep.                 *)
(***************************************************************************)
\* queue.remove(i): the entries before i stay, those after it move up.
LEMMA RemoveAtFacts ==
  ASSUME NEW S, NEW q \in Seq(S), NEW i \in 1..Len(q)
  PROVE  /\ RemoveAt(q, i) \in Seq(S)
         /\ Len(RemoveAt(q, i)) = Len(q) - 1
         /\ \A j \in 1..(Len(q) - 1) :
              RemoveAt(q, i)[j] = IF j < i THEN q[j] ELSE q[j+1]
<1> DEFINE a == SubSeq(q, 1, i - 1)
           b == SubSeq(q, i + 1, Len(q))
<1>0. /\ Len(q) \in Nat /\ i \in Int /\ i - 1 \in Int /\ i + 1 \in Int
      /\ \A k \in 1..Len(q) : q[k] \in S
  OBVIOUS
<1>1. /\ a \in Seq(S) /\ Len(a) = i - 1
      /\ \A k \in 1..(i - 1) : a[k] = q[k]
  <2>1. \A k \in 1..(i - 1) : q[k] \in S
    BY <1>0
  <2> HIDE DEF a
  <2>2. /\ a \in Seq(S) /\ Len(a) = IF 1 <= i - 1 THEN i - 1 - 1 + 1 ELSE 0
        /\ \A k \in 1..(i - 1 - 1 + 1) : a[k] = q[1 + k - 1]
    BY <1>0, <2>1 DEF a
  <2> QED BY <1>0, <2>2
<1>2. /\ b \in Seq(S) /\ Len(b) = Len(q) - i
      /\ \A k \in 1..(Len(q) - i) : b[k] = q[i + k]
  <2>1. \A k \in (i + 1)..Len(q) : q[k] \in S
    BY <1>0
  <2> HIDE DEF b
  <2>2. /\ b \in Seq(S) /\ Len(b) = IF i + 1 <= Len(q) THEN Len(q) - (i + 1) + 1 ELSE 0
        /\ \A k \in 1..(Len(q) - (i + 1) + 1) : b[k] = q[(i + 1) + k - 1]
    BY <1>0, <2>1 DEF b
  <2>3. Len(b) = Len(q) - i
    BY <1>0, <2>2
  <2>4. \A k \in 1..(Len(q) - i) : k \in 1..(Len(q) - (i + 1) + 1) /\ (i + 1) + k - 1 = i + k
    BY <1>0
  <2> QED BY <2>2, <2>3, <2>4, Zenon
<1> HIDE DEF a, b
<1>3. /\ a \o b \in Seq(S) /\ Len(a \o b) = Len(a) + Len(b)
      /\ \A k \in 1..(Len(a) + Len(b)) :
           (a \o b)[k] = IF k <= Len(a) THEN a[k] ELSE b[k - Len(a)]
  <2>1. a \in Seq(S) /\ b \in Seq(S)
    BY <1>1, <1>2, Zenon
  <2> QED BY <2>1
<1>4. RemoveAt(q, i) = a \o b
  BY DEF RemoveAt, a, b
<1>5. ASSUME NEW j \in 1..(Len(q) - 1)
      PROVE  (a \o b)[j] = IF j < i THEN q[j] ELSE q[j+1]
  <2>1. CASE j < i
    <3>1. j \in 1..(Len(a) + Len(b)) /\ j <= Len(a) /\ j \in 1..(i - 1)
      BY <1>0, <1>1, <1>2, <2>1
    <3> QED BY <1>1, <1>3, <2>1, <3>1, Zenon
  <2>2. CASE ~(j < i)
    <3>1. /\ j \in 1..(Len(a) + Len(b)) /\ ~(j <= Len(a))
          /\ j - Len(a) \in 1..(Len(q) - i) /\ i + (j - Len(a)) = j + 1
      BY <1>0, <1>1, <1>2, <2>2
    <3> QED BY <1>2, <1>3, <2>2, <3>1, Zenon
  <2> QED BY <2>1, <2>2, Zenon
<1> QED BY <1>0, <1>1, <1>2, <1>3, <1>4, <1>5

\* Taking one entry out of a queue of distinct processes takes out that process
\* and no other, and the rest stay distinct.
LEMMA RemoveAtOld ==
  ASSUME NEW S, NEW q \in Seq(S), NEW i \in DOMAIN q, IsInjective(q)
  PROVE  /\ RemoveAt(q, i) \in Seq(S)
         /\ IsInjective(RemoveAt(q, i))
         /\ Range(RemoveAt(q, i)) = Range(q) \ {q[i]}
<1> DEFINE r == RemoveAt(q, i)
<1>1. Len(q) \in Nat /\ DOMAIN q = 1..Len(q) /\ i \in 1..Len(q)
  OBVIOUS
<1>2. /\ r \in Seq(S) /\ Len(r) = Len(q) - 1
      /\ \A j \in 1..(Len(q) - 1) : r[j] = IF j < i THEN q[j] ELSE q[j+1]
  BY <1>1, RemoveAtFacts, Zenon
<1> HIDE DEF r
<1>3. DOMAIN r = 1..(Len(q) - 1)
  BY <1>1, <1>2
<1> DEFINE at(j) == IF j < i THEN j ELSE j + 1
<1>a. ASSUME NEW j \in 1..(Len(q) - 1)
      PROVE  at(j) \in 1..Len(q) /\ at(j) # i
  BY <1>1
<1>b. ASSUME NEW j \in 1..(Len(q) - 1)
      PROVE  r[j] = q[at(j)]
  BY <1>2, Zenon
<1>c. ASSUME NEW j \in 1..(Len(q) - 1), NEW k \in 1..(Len(q) - 1), at(j) = at(k)
      PROVE  j = k
  BY <1>1, <1>c
<1> HIDE DEF at
<1>4. ASSUME NEW j \in DOMAIN r, NEW k \in DOMAIN r, r[j] = r[k]
      PROVE  j = k
  <2>1. q[at(j)] = q[at(k)] /\ at(j) \in DOMAIN q /\ at(k) \in DOMAIN q
    BY <1>1, <1>3, <1>4, <1>a, <1>b, Zenon
  <2>2. at(j) = at(k)
    BY <2>1, Zenon DEF IsInjective
  <2> QED BY <1>3, <1>c, <2>2, Zenon
<1>5. ASSUME NEW x \in Range(r)
      PROVE  x \in Range(q) \ {q[i]}
  <2>1. PICK j \in 1..(Len(q) - 1) : x = r[j]
    BY <1>3, <1>5, Zenon DEF Range
  <2>2. x = q[at(j)] /\ at(j) \in DOMAIN q /\ at(j) # i
    BY <1>1, <1>a, <1>b, <2>1, Zenon
  <2> QED BY <2>2, Zenon DEF Range, IsInjective
<1>6. ASSUME NEW x \in Range(q) \ {q[i]}
      PROVE  x \in Range(r)
  <2>1. PICK k \in 1..Len(q) : x = q[k] /\ k # i
    BY <1>1, <1>6, Zenon DEF Range
  <2>2. CASE k < i
    <3>1. k \in DOMAIN r /\ r[k] = x
      BY <1>1, <1>2, <1>3, <2>1, <2>2
    <3> QED BY <3>1, Zenon DEF Range
  <2>3. CASE ~(k < i)
    <3>1. k - 1 \in DOMAIN r /\ r[k - 1] = x
      BY <1>1, <1>2, <1>3, <2>1, <2>3
    <3> QED BY <3>1, Zenon DEF Range
  <2> QED BY <2>2, <2>3, Zenon
<1> QED BY <1>2, <1>4, <1>5, <1>6, Zenon DEF r, IsInjective

\* queue.push of a process that is not in the queue keeps entries distinct.
LEMMA AppendNew ==
  ASSUME NEW S, NEW q \in Seq(S), NEW e \in S, IsInjective(q), e \notin Range(q)
  PROVE  /\ Append(q, e) \in Seq(S)
         /\ IsInjective(Append(q, e))
         /\ Range(Append(q, e)) = Range(q) \cup {e}
<1> DEFINE r == Append(q, e)
<1>1. /\ Len(q) \in Nat /\ DOMAIN q = 1..Len(q)
      /\ r \in Seq(S) /\ DOMAIN r = 1..(Len(q) + 1)
      /\ \A i \in 1..Len(q) : r[i] = q[i]
      /\ r[Len(q) + 1] = e
  OBVIOUS
<1> HIDE DEF r
<1>2. IsInjective(r)
  BY <1>1 DEF IsInjective, Range
<1>3. ASSUME NEW x \in Range(r)
      PROVE  x \in Range(q) \cup {e}
  <2>1. PICK i \in 1..(Len(q) + 1) : x = r[i]
    BY <1>1, <1>3 DEF Range
  <2>2. i \in 1..Len(q) \/ i = Len(q) + 1
    BY <1>1
  <2> QED BY <1>1, <2>1, <2>2 DEF Range
<1>4. Range(q) \subseteq Range(r) /\ e \in Range(r)
  <2>1. Len(q) + 1 \in DOMAIN r /\ \A i \in 1..Len(q) : i \in DOMAIN r
    BY <1>1
  <2> QED BY <1>1, <2>1 DEF Range
<1>5. Range(r) = Range(q) \cup {e}
  BY <1>3, <1>4
<1> QED BY <1>1, <1>2, <1>5 DEF r
-----------------------------------------------------------------------------
(***************************************************************************)
(* The inductive invariant.  NoProcessLost is not inductive by itself:     *)
(* schedule() requeues current without looking at whether it was ever      *)
(* created, so that fact has to be carried along.                          *)
(***************************************************************************)
Inv ==
  /\ TypeOK
  /\ NoProcessLost
  /\ RunningIsCurrent
  /\ current \in Proc => state[current] # "New"

\* What schedule() has in hand between taking current out and picking: a
\* queue of distinct live processes, every live process in it, none Running.
LEMMA RequeuedFacts ==
  ASSUME Inv
  PROVE  /\ Requeued \in Seq(Proc)
         /\ IsInjective(Requeued)
         /\ Demoted \in [Proc -> States]
         /\ Refilled \in [Proc -> 0..BaseSlice]
         /\ \A p \in Proc :
              Demoted[p] \in {"Runnable", "Sleeping"} <=> p \in Range(Requeued)
         /\ \A p \in Proc : Demoted[p] # "Running"
<1> USE DEF Inv, TypeOK, States
<1>1. /\ Demoted \in [Proc -> States]
      /\ \A p \in Proc : Demoted[p] # "Running"
      /\ \A p \in Proc : Live(p) <=> Demoted[p] \in {"Runnable", "Sleeping"}
  BY DEF Demoted, RunningIsCurrent, Live
<1>2. Refilled \in [Proc -> 0..BaseSlice]
  BY RunQueueAssumption DEF Refilled
<1>3. \A x \in Range(queue) : x \in Proc /\ Live(x)
  BY DEF Range, NoProcessLost
<1>4. CASE current # NoProc /\ Demoted[current] \notin {"Dead", "Zombie"}
  <2>1. current \in Proc /\ Requeued = Append(queue, current) /\ current \notin Range(queue)
    BY <1>4 DEF Requeued, NoProcessLost
  <2>2. /\ Requeued \in Seq(Proc) /\ IsInjective(Requeued)
        /\ Range(Requeued) = Range(queue) \cup {current}
    BY <2>1, AppendNew DEF NoProcessLost
  <2>3. Live(current)
    BY <1>1, <1>4, <2>1 DEF Demoted, Live
  <2>4. \A p \in Proc : Live(p) <=> p \in Range(Requeued)
    BY <1>3, <2>2, <2>3 DEF NoProcessLost
  <2> QED BY <1>1, <1>2, <2>2, <2>4
<1>5. CASE ~(current # NoProc /\ Demoted[current] \notin {"Dead", "Zombie"})
  <2>1. Requeued = queue
    BY <1>5 DEF Requeued
  <2>2. \A p \in Proc : Live(p) => p # current
    BY <1>1, <1>5, RunQueueAssumption, Zenon
  <2>3. \A p \in Proc : Live(p) <=> p \in Range(Requeued)
    BY <1>3, <2>1, <2>2 DEF NoProcessLost
  <2> QED BY <1>1, <1>2, <2>1, <2>3 DEF NoProcessLost
<1> QED BY <1>4, <1>5

\* The scheduling state after schedule(), whoever called it.
Placed ==
  /\ state \in [Proc -> States]
  /\ queue \in Seq(Proc)
  /\ current \in Proc \cup {NoProc}
  /\ NoProcessLost
  /\ RunningIsCurrent
  /\ current \in Proc => state[current] # "New"

\* schedule() with a process to run leaves every live process in one place.
LEMMA DispatchPlaces ==
  ASSUME Inv, Dispatch
  PROVE  Placed'
<1> DEFINE q == Requeued
           st == Demoted
<1>1. /\ q \in Seq(Proc) /\ IsInjective(q) /\ st \in [Proc -> States]
      /\ \A p \in Proc : st[p] \in {"Runnable", "Sleeping"} <=> p \in Range(q)
      /\ \A p \in Proc : st[p] # "Running"
  BY RequeuedFacts
<1> HIDE DEF q, st
<1>2. PICK i \in DOMAIN q :
        /\ Best(q, st, i)
        /\ queue' = RemoveAt(q, i) /\ current' = q[i]
        /\ state' = [st EXCEPT ![q[i]] = "Running"]
  BY Zenon DEF Dispatch, q, st
<1>3. q[i] \in Proc /\ q[i] \in Range(q)
  BY <1>1 DEF Range
<1>4. /\ queue' \in Seq(Proc) /\ IsInjective(queue')
      /\ Range(queue') = Range(q) \ {q[i]}
  BY <1>1, <1>2, RemoveAtOld
<1>5. /\ state' \in [Proc -> States] /\ state'[q[i]] = "Running"
      /\ \A p \in Proc : p # q[i] => state'[p] = st[p]
  BY <1>1, <1>2, <1>3 DEF States
<1>6. \A j \in DOMAIN queue' : queue'[j] \in Range(queue') /\ queue'[j] \in Proc
  BY <1>4 DEF Range
<1>7. NoProcessLost'
  BY <1>1, <1>2, <1>3, <1>4, <1>5, <1>6 DEF NoProcessLost, Live
<1>8. RunningIsCurrent'
  BY <1>1, <1>2, <1>5 DEF RunningIsCurrent
<1> QED BY <1>2, <1>3, <1>4, <1>5, <1>7, <1>8 DEF Placed

\* schedule() with nobody to run does so too.
LEMMA StarvePlaces ==
  ASSUME Inv, Starve
  PROVE  Placed'
<1>1. /\ Requeued \in Seq(Proc) /\ IsInjective(Requeued) /\ Demoted \in [Proc -> States]
      /\ \A p \in Proc : Demoted[p] \in {"Runnable", "Sleeping"} <=> p \in Range(Requeued)
      /\ \A p \in Proc : Demoted[p] # "Running"
  BY RequeuedFacts
<1>2. queue' = Requeued /\ current' = NoProc /\ state' = Demoted
  BY DEF Starve
<1>3. Range(queue') \subseteq Proc /\ \A j \in DOMAIN queue' : queue'[j] \in Range(queue')
  BY <1>1, <1>2 DEF Range
<1>4. NoProcessLost'
  BY <1>1, <1>2, <1>3, RunQueueAssumption DEF NoProcessLost, Live
<1>5. RunningIsCurrent'
  BY <1>1, <1>2 DEF RunningIsCurrent
<1> QED BY <1>1, <1>2, <1>4, <1>5, RunQueueAssumption DEF Placed
-----------------------------------------------------------------------------
\* The state that kernel_main leaves behind satisfies the invariant.
LEMMA InitInv == Init => Inv
<1> SUFFICES ASSUME Init PROVE Inv
  OBVIOUS
<1> USE RunQueueAssumption
<1>1. queue \in Seq(Proc) /\ IsInjective(queue) /\ Range(queue) \subseteq Proc
      /\ \A i \in DOMAIN queue : queue[i] \in Range(queue)
  <2>1. CASE queue = <<Idle, Shell>>
    BY <2>1 DEF IsInjective, Range
  <2>2. CASE queue = <<Idle>>
    BY <2>2 DEF IsInjective, Range
  <2>3. CASE queue = <<Shell>>
    BY <2>3 DEF IsInjective, Range
  <2>4. CASE queue = <<>>
    BY <2>4 DEF IsInjective, Range
  <2> QED BY <2>1, <2>2, <2>3, <2>4 DEF Init
<1>2. state \in [Proc -> States]
      /\ \A p \in Proc : state[p] = IF p \in Range(queue) THEN "Runnable" ELSE "New"
  BY DEF Init, States
<1>3. slice \in [Proc -> 0..BaseSlice] /\ current = NoProc /\ owes = {NoProc}
  BY DEF Init
<1>4. NoProcessLost
  BY <1>1, <1>2, <1>3 DEF NoProcessLost, Live
<1> QED BY <1>1, <1>2, <1>3, <1>4 DEF Inv, TypeOK, RunningIsCurrent

\* Every operation and interrupt preserves it.
LEMMA StepInv == Inv /\ [Next]_vars => Inv'
<1> SUFFICES ASSUME Inv, [Next]_vars PROVE Inv'
  OBVIOUS
<1> USE RunQueueAssumption
<1>0. /\ state \in [Proc -> States] /\ slice \in [Proc -> 0..BaseSlice]
      /\ queue \in Seq(Proc) /\ current \in Proc \cup {NoProc}
      /\ owes \in SUBSET (Proc \cup {NoProc})
      /\ \A i \in DOMAIN queue : queue[i] \in Range(queue) /\ queue[i] \in Proc
  BY DEF Inv, TypeOK, Range
<1>1. ASSUME NEW p \in Proc, Spawn(p)
      PROVE  Inv'
  <2>1. p \notin Range(queue) /\ p # current
    BY <1>0, <1>1, Zenon DEF Spawn, Inv, NoProcessLost, Live, Range
  <2>2. /\ queue' \in Seq(Proc) /\ IsInjective(queue')
        /\ Range(queue') = Range(queue) \cup {p}
    BY <1>0, <1>1, <2>1, AppendNew DEF Spawn, Inv, NoProcessLost
  <2>3. \A i \in DOMAIN queue' : queue'[i] \in Range(queue')
    BY DEF Range
  <2>4. \A x \in Range(queue) : x \in Proc /\ Live(x)
    BY <1>0 DEF Inv, NoProcessLost, Range
  <2>5. /\ state' \in [Proc -> States] /\ state'[p] = "Runnable"
        /\ \A x \in Proc : x # p => state'[x] = state[x]
    BY <1>0, <1>1 DEF Spawn, States
  <2>6. TypeOK'
    BY <1>0, <1>1, <2>2, <2>5 DEF Spawn, TypeOK
  <2>a. UNCHANGED current
    BY <1>1 DEF Spawn
  <2>b. ASSUME NEW x \in Proc PROVE Live(x)' <=> Live(x) \/ x = p
    <3>1. ~Live(p) /\ Live(p)'
      BY <1>1, <2>5 DEF Spawn, Live
    <3>2. x # p => (Live(x)' <=> Live(x))
      BY <2>5 DEF Live
    <3> QED
      BY <3>1, <3>2, Zenon
  <2>7. NoProcessLost'
    <3>1. /\ \A x \in Proc : Live(x) => (x = current \/ x \in Range(queue))
          /\ current \notin Range(queue)
      BY DEF Inv, NoProcessLost
    <3>2. \A x \in Range(queue') : x \in Proc /\ Live(x)'
      BY <2>2, <2>4, <2>b, Zenon
    <3>3. \A x \in Proc : Live(x)' => (x = current' \/ x \in Range(queue'))
      BY <2>2, <2>a, <2>b, <3>1, Zenon
    <3>4. current' \notin Range(queue')
      BY <2>1, <2>2, <2>a, <3>1, Zenon
    <3> QED
      BY <2>2, <2>3, <3>2, <3>3, <3>4, Zenon DEF NoProcessLost
  <2> QED BY <1>1, <2>1, <2>5, <2>6, <2>7 DEF Spawn, Inv, RunningIsCurrent
<1>2. CASE MarkSleeping
  BY <1>0, <1>2 DEF MarkSleeping, Inv, TypeOK, NoProcessLost, RunningIsCurrent, Live, States
<1>3. CASE MarkDead
  <2>1. /\ current \in Proc /\ current \notin Range(queue)
        /\ UNCHANGED <<slice, queue, current>> /\ owes' = owes \cup {current}
        /\ state' = [state EXCEPT ![current] = "Dead"]
    BY <1>0, <1>3 DEF MarkDead, Users, Inv, NoProcessLost
  <2> QED
    BY <1>0, <2>1 DEF Inv, TypeOK, NoProcessLost, RunningIsCurrent, Live, States
<1>4. CASE Yield
  <2>1. Placed'
    BY <1>4, DispatchPlaces, StarvePlaces DEF Yield
  <2>2. slice' \in [Proc -> 0..BaseSlice]
    BY <1>4, RequeuedFacts DEF Yield
  <2>3. owes' \in SUBSET (Proc \cup {NoProc})
    BY <1>0, <1>4 DEF Yield
  <2> QED BY <2>1, <2>2, <2>3, Zenon DEF Placed, Inv, TypeOK
<1>5. CASE TickKeeps
  BY <1>0, <1>5 DEF TickKeeps, Spent, Inv, TypeOK, NoProcessLost, RunningIsCurrent, Live
<1>6. CASE TickPreempts
  <2>1. Placed'
    BY <1>6, DispatchPlaces, StarvePlaces DEF TickPreempts
  <2>2. slice' \in [Proc -> 0..BaseSlice]
    BY <1>6, RequeuedFacts DEF TickPreempts
  <2>3. owes' \in SUBSET (Proc \cup {NoProc})
    BY <1>0, <1>6 DEF TickPreempts
  <2> QED BY <2>1, <2>2, <2>3, Zenon DEF Placed, Inv, TypeOK
<1>7. CASE WakeAll
  <2>1. \A p \in Proc : \/ state'[p] = state[p]
                        \/ state[p] = "Sleeping" /\ state'[p] = "Runnable"
    BY <1>7 DEF WakeAll
  <2>2. state' \in [Proc -> States]
    BY <1>0, <1>7 DEF WakeAll, States
  <2> QED
    BY <1>0, <1>7, <2>1, <2>2 DEF WakeAll, Inv, TypeOK, NoProcessLost, RunningIsCurrent, Live
<1>8. CASE UNCHANGED vars
  BY <1>8 DEF vars, Inv, TypeOK, NoProcessLost, RunningIsCurrent, Live
<1> QED BY <1>1, <1>2, <1>3, <1>4, <1>5, <1>6, <1>7, <1>8 DEF Next, Tick
-----------------------------------------------------------------------------
\* RUN_QUEUE keeps its types: every entry is a process, slices stay within
\* DEFAULT_TIME_SLICE (tick() never takes a slice below 0).
THEOREM TypeCorrect == Spec => []TypeOK
<1>1. Inv => TypeOK
  BY DEF Inv
<1> QED BY <1>1, InitInv, StepInv, PTL DEF Spec

\* For any number of processes, priorities and slice length: schedule(),
\* spawn(), tick() and the wake-ups never lose, duplicate or resurrect an Arc.
THEOREM NeverLost == Spec => []NoProcessLost
<1>1. Inv => NoProcessLost
  BY DEF Inv
<1> QED BY <1>1, InitInv, StepInv, PTL DEF Spec

\* For any number of processes: only current is ever Running, so schedule()
\* leaves no Running process behind in the queue.
THEOREM OneRunning == Spec => []RunningIsCurrent
<1>1. Inv => RunningIsCurrent
  BY DEF Inv
<1> QED BY <1>1, InitInv, StepInv, PTL DEF Spec
-----------------------------------------------------------------------------
\* Idle, once spawned, never blocks: it is Runnable or Running for good.
IdleReady == state[Idle] \in {"New", "Runnable", "Running"}

\* A step of schedule() leaves Idle ready.
LEMMA IdleStaysReady ==
  ASSUME Inv, IdleReady, Dispatch \/ Starve
  PROVE  IdleReady'
<1>1. Demoted[Idle] \in {"New", "Runnable"}
  BY RunQueueAssumption DEF Demoted, IdleReady, Inv, RunningIsCurrent
<1>2. CASE Dispatch
  <2>1. PICK i \in DOMAIN Requeued : state' = [Demoted EXCEPT ![Requeued[i]] = "Running"]
    BY <1>2, Zenon DEF Dispatch
  <2> QED BY <1>1, <2>1, RunQueueAssumption, RequeuedFacts DEF IdleReady
<1>3. CASE Starve
  BY <1>1, <1>3 DEF Starve, IdleReady
<1> QED BY <1>2, <1>3

\* For any number of processes, priorities and slice length: if idle_task was
\* spawned, no call of schedule() ever finds the queue without a Runnable
\* process, so current is never None again.
THEOREM SomeoneToRun == Spec => []AlwaysSomeoneToRun
<1>1. Init => IdleReady
  BY RunQueueAssumption DEF Init, IdleReady
<1>2. Inv /\ IdleReady /\ [Next]_vars => IdleReady'
  <2> SUFFICES ASSUME Inv, IdleReady, [Next]_vars PROVE IdleReady'
    OBVIOUS
  <2>0. state \in [Proc -> States] /\ Idle \in Proc
    BY RunQueueAssumption DEF Inv, TypeOK
  <2>1. CASE Yield \/ TickPreempts
    BY <2>1, IdleStaysReady DEF Yield, TickPreempts
  <2>2. ASSUME NEW p \in Proc, Spawn(p) PROVE IdleReady'
    BY <2>0, <2>2 DEF Spawn, Users, IdleReady
  <2>3. CASE MarkSleeping \/ MarkDead
    BY <2>0, <2>3 DEF MarkSleeping, MarkDead, Users, IdleReady
  <2>4. CASE WakeAll
    BY <2>0, <2>4 DEF WakeAll, IdleReady
  <2>5. CASE TickKeeps \/ UNCHANGED vars
    BY <2>5 DEF TickKeeps, vars, IdleReady
  <2> QED BY <2>1, <2>2, <2>3, <2>4, <2>5 DEF Next, Tick
<1>3. Inv /\ IdleReady => AlwaysSomeoneToRun
  <2> SUFFICES ASSUME Inv, IdleReady, state[Idle] # "New"
               PROVE  Candidates(Requeued, Demoted) # {}
    BY DEF AlwaysSomeoneToRun
  <2>1. Idle \in Proc /\ Demoted[Idle] = "Runnable"
    BY RunQueueAssumption DEF IdleReady, Demoted, Inv, RunningIsCurrent
  <2>2. Idle \in Range(Requeued)
    BY <2>1, RequeuedFacts
  <2> QED BY <2>1, <2>2 DEF Range, Candidates
<1> QED BY <1>1, <1>2, <1>3, InitInv, StepInv, PTL DEF Spec
-----------------------------------------------------------------------------
(***************************************************************************)
(* The way into the kernel and out of it.                                  *)
(***************************************************************************)
\* A running user process finds its own kernel stack in kernel_rsp.
StackInv ==
  /\ cur \in Programs => kernel_rsp = cur
  /\ \A p \in Programs : stack[p] = p

\* Address spaces in use have frames of their own.
RootInv ==
  /\ \A p \in Programs :
       /\ mode[p] # "none" => root[p] \in Frames \ free
       /\ mode[p] = "none" => root[p] = KRoot
       /\ fresh[p] # KRoot => mode[p] \in {"syscall", "int80"} /\ fresh[p] \in Frames \ free
  /\ \A p, q \in Programs :
       /\ p # q /\ root[p] # KRoot => root[p] # root[q]
       /\ p # q /\ fresh[p] # KRoot => fresh[p] # fresh[q]
       /\ fresh[p] # KRoot => fresh[p] # root[q]

\* Every step keeps the type.
LEMMA TypeStep == EntryTypeOK /\ RootInv /\ [EntryNext]_EntryVars => EntryTypeOK'
<1> SUFFICES ASSUME EntryTypeOK, RootInv, [EntryNext]_EntryVars PROVE EntryTypeOK'
  OBVIOUS
<1> USE SyscallAssumption DEF EntryTypeOK, Modes, Procs, Swapped, Handling, PageTables
<1>1. CASE UNCHANGED EntryVars
  BY <1>1 DEF EntryVars, entry, tables
<1>2. ASSUME NEW q \in Procs, Switch(q) PROVE EntryTypeOK'
  BY <1>2 DEF Switch, Resumed
<1>3. ASSUME NEW p \in Programs, NEW f \in Frames, Run(p, f) PROVE EntryTypeOK'
  BY <1>3 DEF Run, entry
<1>4. ASSUME NEW f \in Frames, TakeFrame(f) \/ GiveFrame(f) PROVE EntryTypeOK'
  BY <1>4 DEF TakeFrame, GiveFrame, entry
<1>5. ASSUME NEW p \in Programs, Enter(p) PROVE EntryTypeOK'
  <2>1. CASE gs' = "cpu_local"
    BY <1>5, <2>1 DEF Enter, tables
  <2>2. CASE gs' # "cpu_local"
    BY <1>5, <2>2 DEF Enter, tables
  <2> QED
    BY <2>1, <2>2
<1>6. ASSUME NEW p \in Programs, LoadRsp(p) PROVE EntryTypeOK'
  <2>1. CASE gs = "cpu_local"
    BY <1>6, <2>1 DEF LoadRsp, tables
  <2>2. CASE gs # "cpu_local"
    BY <1>6, <2>2 DEF LoadRsp, tables
  <2> QED
    BY <2>1, <2>2
<1>7. ASSUME NEW p \in Programs, Sysret(p) PROVE EntryTypeOK'
  BY <1>7 DEF Sysret, tables
<1>8. ASSUME NEW p \in Programs, Int80(p) PROVE EntryTypeOK'
  BY <1>8 DEF Int80, tables
<1>9. ASSUME NEW p \in Programs, Iretq(p) PROVE EntryTypeOK'
  BY <1>9 DEF Iretq, tables
<1>10. ASSUME NEW p \in Programs, NEW f \in Frames, ExecLoad(p, f) PROVE EntryTypeOK'
  BY <1>10 DEF ExecLoad, entry
<1>11. ASSUME NEW p \in Programs, ExecError(p) PROVE EntryTypeOK'
  BY <1>11 DEF ExecError, entry
<1>12. ASSUME NEW p \in Programs, ExecReplace(p) PROVE EntryTypeOK'
  <2>1. root[p] \in Frames
    BY <1>12 DEF ExecReplace, RootInv
  <2> QED
    BY <1>12, <2>1 DEF ExecReplace
<1>13. ASSUME NEW p \in Programs, ExecJump(p) PROVE EntryTypeOK'
  BY <1>13 DEF ExecJump
<1>14. ASSUME NEW p \in Programs, Exit(p) PROVE EntryTypeOK'
  BY <1>14 DEF Exit, entry, tables
<1>15. ASSUME NEW p \in Programs, NEW c \in Programs, NEW f \in Frames, Fork(p, c, f) PROVE EntryTypeOK'
  BY <1>15 DEF Fork
<1>16. ASSUME NEW p \in Programs, ChildReturn(p) PROVE EntryTypeOK'
  <2>1. rsp' \in [Programs -> Programs \cup {Boot}]
    BY <1>16, Zenon DEF ChildReturn
  <2>2. mode' \in [Programs -> Modes] /\ faulted' \in BOOLEAN /\ mode'[p] \in {"child", "leaving"} /\ cur = p
    BY <1>16, Zenon DEF ChildReturn
  <2>3. UNCHANGED <<cur, gs, kernel_rsp, user_rsp, stack, tables>>
    BY <1>16, Zenon DEF ChildReturn
  <2> QED
    BY <2>1, <2>2, <2>3, Zenon DEF tables
<1> HIDE SyscallAssumption DEF EntryTypeOK, Modes, Procs, Swapped, Handling, PageTables
<1> QED
  BY Zenon, <1>1, <1>2, <1>3, <1>4, <1>5, <1>6, <1>7, <1>8, <1>9, <1>10, <1>11, <1>12, <1>13, <1>14, <1>15, <1>16
  DEF EntryNext

\* Every step keeps the frames of the address spaces apart.
LEMMA RootStep == EntryTypeOK /\ RootInv /\ [EntryNext]_EntryVars => RootInv'
<1> SUFFICES ASSUME EntryTypeOK, RootInv, [EntryNext]_EntryVars PROVE RootInv'
  OBVIOUS
<1> USE SyscallAssumption DEF EntryTypeOK, Modes, Procs, RootInv, Handling
<1>1. CASE UNCHANGED EntryVars
  BY <1>1 DEF EntryVars, entry, tables, PageTables
<1>2. ASSUME NEW q \in Procs, Switch(q) PROVE RootInv'
  BY <1>2 DEF Switch, Resumed
<1>3. ASSUME NEW p \in Programs, NEW f \in Frames, Run(p, f) PROVE RootInv'
  BY <1>3 DEF Run, entry
<1>4. ASSUME NEW f \in Frames, TakeFrame(f) \/ GiveFrame(f) PROVE RootInv'
  BY <1>4 DEF TakeFrame, GiveFrame, entry
<1>5. ASSUME NEW p \in Programs, Enter(p) PROVE RootInv'
  BY <1>5 DEF Enter, tables
<1>6. ASSUME NEW p \in Programs, LoadRsp(p) PROVE RootInv'
  BY <1>6 DEF LoadRsp, tables
<1>7. ASSUME NEW p \in Programs, Sysret(p) PROVE RootInv'
  BY <1>7 DEF Sysret, tables
<1>8. ASSUME NEW p \in Programs, Int80(p) PROVE RootInv'
  BY <1>8 DEF Int80, tables
<1>9. ASSUME NEW p \in Programs, Iretq(p) PROVE RootInv'
  BY <1>9 DEF Iretq, tables
<1>10. ASSUME NEW p \in Programs, NEW f \in Frames, ExecLoad(p, f) PROVE RootInv'
  BY <1>10 DEF ExecLoad, entry
<1>11. ASSUME NEW p \in Programs, ExecError(p) PROVE RootInv'
  BY <1>11 DEF ExecError, entry
<1>12. ASSUME NEW p \in Programs, ExecReplace(p) PROVE RootInv'
  BY <1>12 DEF ExecReplace
<1>13. ASSUME NEW p \in Programs, ExecJump(p) PROVE RootInv'
  BY <1>13 DEF ExecJump
<1>14. ASSUME NEW p \in Programs, Exit(p) PROVE RootInv'
  BY <1>14 DEF Exit, entry, tables
<1>15. ASSUME NEW p \in Programs, NEW c \in Programs, NEW f \in Frames, Fork(p, c, f) PROVE RootInv'
  BY <1>15 DEF Fork
<1>16. ASSUME NEW p \in Programs, ChildReturn(p) PROVE RootInv'
  BY <1>16 DEF ChildReturn, tables
<1> HIDE SyscallAssumption DEF EntryTypeOK, Modes, Procs, RootInv, Handling
<1> QED
  BY Zenon, <1>1, <1>2, <1>3, <1>4, <1>5, <1>6, <1>7, <1>8, <1>9, <1>10, <1>11, <1>12, <1>13, <1>14, <1>15, <1>16
  DEF EntryNext

\* Every step that changes who runs moves kernel_rsp with it.
LEMMA StackStep == EntryTypeOK /\ StackInv /\ [EntryNext]_EntryVars => StackInv'
<1> SUFFICES ASSUME EntryTypeOK, StackInv, [EntryNext]_EntryVars PROVE StackInv'
  OBVIOUS
<1> USE SyscallAssumption DEF EntryTypeOK, Modes, Procs, StackInv, Handling
<1>1. CASE UNCHANGED EntryVars
  BY <1>1 DEF EntryVars, entry, tables, PageTables
<1>2. ASSUME NEW q \in Procs, Switch(q) PROVE StackInv'
  BY <1>2 DEF Switch, Resumed
<1>3. ASSUME NEW p \in Programs, NEW f \in Frames, Run(p, f) PROVE StackInv'
  BY <1>3 DEF Run, entry
<1>4. ASSUME NEW f \in Frames, TakeFrame(f) \/ GiveFrame(f) PROVE StackInv'
  BY <1>4 DEF TakeFrame, GiveFrame, entry
<1>5. ASSUME NEW p \in Programs, Enter(p) PROVE StackInv'
  BY <1>5 DEF Enter, tables
<1>6. ASSUME NEW p \in Programs, LoadRsp(p) PROVE StackInv'
  BY <1>6 DEF LoadRsp, tables
<1>7. ASSUME NEW p \in Programs, Sysret(p) PROVE StackInv'
  BY <1>7 DEF Sysret, tables
<1>8. ASSUME NEW p \in Programs, Int80(p) PROVE StackInv'
  BY <1>8 DEF Int80, tables
<1>9. ASSUME NEW p \in Programs, Iretq(p) PROVE StackInv'
  BY <1>9 DEF Iretq, tables
<1>10. ASSUME NEW p \in Programs, NEW f \in Frames, ExecLoad(p, f) PROVE StackInv'
  BY <1>10 DEF ExecLoad, entry
<1>11. ASSUME NEW p \in Programs, ExecError(p) PROVE StackInv'
  BY <1>11 DEF ExecError, entry
<1>12. ASSUME NEW p \in Programs, ExecReplace(p) PROVE StackInv'
  BY <1>12 DEF ExecReplace
<1>13. ASSUME NEW p \in Programs, ExecJump(p) PROVE StackInv'
  BY <1>13 DEF ExecJump
<1>14. ASSUME NEW p \in Programs, Exit(p) PROVE StackInv'
  BY <1>14 DEF Exit, entry, tables
<1>15. ASSUME NEW p \in Programs, NEW c \in Programs, NEW f \in Frames, Fork(p, c, f) PROVE StackInv'
  BY <1>15 DEF Fork
<1>16. ASSUME NEW p \in Programs, ChildReturn(p) PROVE StackInv'
  BY <1>16 DEF ChildReturn, tables
<1> HIDE SyscallAssumption DEF EntryTypeOK, Modes, Procs, StackInv, Handling
<1> QED
  BY Zenon, <1>1, <1>2, <1>3, <1>4, <1>5, <1>6, <1>7, <1>8, <1>9, <1>10, <1>11, <1>12, <1>13, <1>14, <1>15, <1>16
  DEF EntryNext

\* A step that changes who runs, or what it walks, makes the two agree, and no
\* address space is made in the window of exec.
LEMMA TablesStep == EntryTypeOK /\ RootInv /\ TablesOwn /\ [EntryNext]_EntryVars => TablesOwn'
<1> SUFFICES ASSUME EntryTypeOK, RootInv, TablesOwn, [EntryNext]_EntryVars PROVE TablesOwn'
  OBVIOUS
<1> USE SyscallAssumption DEF EntryTypeOK, Modes, Procs, RootInv, TablesOwn, PageTables, Handling
<1>1. CASE UNCHANGED EntryVars
  BY <1>1 DEF EntryVars, entry, tables, PageTables
<1>2. ASSUME NEW q \in Procs, Switch(q) PROVE TablesOwn'
  BY <1>2 DEF Switch, Resumed
<1>3. ASSUME NEW p \in Programs, NEW f \in Frames, Run(p, f) PROVE TablesOwn'
  BY <1>3 DEF Run, entry
<1>4. ASSUME NEW f \in Frames, TakeFrame(f) \/ GiveFrame(f) PROVE TablesOwn'
  BY <1>4 DEF TakeFrame, GiveFrame, entry
<1>5. ASSUME NEW p \in Programs, Enter(p) PROVE TablesOwn'
  <2>1. CASE gs' = "cpu_local"
    BY <1>5, <2>1 DEF Enter, tables
  <2>2. CASE ~(gs' = "cpu_local")
    BY <1>5, <2>2 DEF Enter, tables
  <2> QED
    BY <2>1, <2>2, Zenon
<1>6. ASSUME NEW p \in Programs, LoadRsp(p) PROVE TablesOwn'
  <2>1. CASE gs = "cpu_local"
    BY <1>6, <2>1 DEF LoadRsp, tables
  <2>2. CASE ~(gs = "cpu_local")
    BY <1>6, <2>2 DEF LoadRsp, tables
  <2> QED
    BY <2>1, <2>2, Zenon
<1>7. ASSUME NEW p \in Programs, Sysret(p) PROVE TablesOwn'
  BY <1>7 DEF Sysret, tables
<1>8. ASSUME NEW p \in Programs, Int80(p) PROVE TablesOwn'
  BY <1>8 DEF Int80, tables
<1>9. ASSUME NEW p \in Programs, Iretq(p) PROVE TablesOwn'
  BY <1>9 DEF Iretq, tables
<1>10. ASSUME NEW p \in Programs, NEW f \in Frames, ExecLoad(p, f) PROVE TablesOwn'
  BY <1>10 DEF ExecLoad, entry
<1>11. ASSUME NEW p \in Programs, ExecError(p) PROVE TablesOwn'
  BY <1>11 DEF ExecError, entry
<1>12. ASSUME NEW p \in Programs, ExecReplace(p) PROVE TablesOwn'
  BY <1>12 DEF ExecReplace
<1>13. ASSUME NEW p \in Programs, ExecJump(p) PROVE TablesOwn'
  BY <1>13 DEF ExecJump
<1>14. ASSUME NEW p \in Programs, Exit(p) PROVE TablesOwn'
  BY <1>14 DEF Exit, entry, tables
<1>15. ASSUME NEW p \in Programs, NEW c \in Programs, NEW f \in Frames, Fork(p, c, f) PROVE TablesOwn'
  BY <1>15 DEF Fork
<1>16. ASSUME NEW p \in Programs, ChildReturn(p) PROVE TablesOwn'
  BY <1>16 DEF ChildReturn, tables
<1> HIDE SyscallAssumption DEF EntryTypeOK, Modes, Procs, RootInv, TablesOwn, PageTables, Handling
<1> QED
  BY Zenon, <1>1, <1>2, <1>3, <1>4, <1>5, <1>6, <1>7, <1>8, <1>9, <1>10, <1>11, <1>12, <1>13, <1>14, <1>15, <1>16
  DEF EntryNext

\* SyscallEntry's variables have their types.
THEOREM EntryTypes == EntrySpec => [](EntryTypeOK /\ RootInv)
<1>1. EntryInit => EntryTypeOK
  <2> SUFFICES ASSUME EntryInit PROVE EntryTypeOK
    OBVIOUS
  <2>1. cur \in Procs /\ cur \notin Programs
    BY SyscallAssumption DEF EntryInit, Procs
  <2>2. mode \in [Programs -> Modes]
    BY DEF EntryInit, Modes
  <2>3. /\ gs \in {"user", "cpu_local"} /\ faulted \in BOOLEAN
        /\ kernel_rsp \in Procs \cup {Boot} /\ user_rsp \in Programs \cup {Boot}
    BY Zenon DEF EntryInit
  <2>4. stack \in [Programs -> Procs \cup {Boot}]
    BY DEF EntryInit, Procs
  <2>5. rsp \in [Programs -> Programs \cup {Boot}]
    BY DEF EntryInit
  <2>6. cr3 \in Frames \cup {KRoot} /\ free \subseteq Frames /\ lost \subseteq Frames
    BY DEF EntryInit
  <2>7. root \in [Programs -> Frames \cup {KRoot}] /\ fresh \in [Programs -> Frames \cup {KRoot}]
    BY DEF EntryInit
  <2> QED
    BY <2>1, <2>2, <2>3, <2>4, <2>5, <2>6, <2>7, Zenon DEF EntryTypeOK
<1>2. EntryInit => RootInv
  BY DEF EntryInit, RootInv
<1>3. EntryTypeOK /\ RootInv /\ [EntryNext]_EntryVars => (EntryTypeOK /\ RootInv)'
  BY TypeStep, RootStep
<1> QED
  BY <1>1, <1>2, <1>3, PTL DEF EntrySpec

\* syscall_entry and int 0x80 put every process on its own kernel stack,
\* however schedule() and exec move kernel_rsp.
THEOREM AlwaysOwnStack == EntrySpec => []OwnStack
<1>1. EntryInit => StackInv
  BY SyscallAssumption DEF EntryInit, StackInv
<1>2. EntryTypeOK /\ StackInv /\ [EntryNext]_EntryVars => StackInv'
  BY StackStep
<1>3. StackInv => OwnStack
  BY DEF StackInv, OwnStack
<1> QED
  BY <1>1, <1>2, <1>3, EntryTypes, PTL DEF EntrySpec

\* The page tables that exec frees before activate() are nobody else's while
\* CR3 has them, whoever is switched to and whatever the push in schedule()
\* takes, for any number of processes, frames and calls of exec and fork.
THEOREM AlwaysTablesOwn == EntrySpec => []TablesOwn
<1>1. EntryInit => TablesOwn
  BY SyscallAssumption DEF EntryInit, TablesOwn, PageTables
<1>2. EntryTypeOK /\ RootInv /\ TablesOwn /\ [EntryNext]_EntryVars => TablesOwn'
  BY TablesStep
<1> QED
  BY <1>1, <1>2, EntryTypes, PTL DEF EntrySpec
=============================================================================

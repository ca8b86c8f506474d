----------------------------- MODULE DriverProofs -----------------------------
(***************************************************************************)
(* Proofs about the two drivers that share no state: Keyboard, for a       *)
(* buffer of any size and any set of keys, and Ide, for any number of      *)
(* callers, probes and drives and requests of any length.                  *)
(***************************************************************************)
EXTENDS Keyboard, Ide, Integers, TLAPS

\* The remainder that head, tail and the positions between them need.
LEMMA Wrap ==
  ASSUME NEW i \in 0..(2 * Size - 1)
  PROVE  i % Size = IF i < Size THEN i ELSE i - Size
BY KeyboardAssumption, Z3

\* The next position, without a remainder.
LEMMA AfterIs ==
  ASSUME NEW i \in 0..(Size - 1)
  PROVE  After(i) = IF i = Size - 1 THEN 0 ELSE i + 1
BY KeyboardAssumption, Wrap DEF After

\* How many characters wait, without a remainder.
LEMMA CountIs ==
  ASSUME NEW h \in 0..(Size - 1), NEW t \in 0..(Size - 1)
  PROVE  (h + Size - t) % Size = IF h >= t THEN h - t ELSE h + Size - t
<1>1. h + Size - t \in 0..(2 * Size - 1)
  BY KeyboardAssumption
<1> QED
  BY <1>1, Wrap, KeyboardAssumption

\* The place of a character that waits, without a remainder.
LEMMA PlaceIs ==
  ASSUME NEW t \in 0..(Size - 1), NEW i \in 1..(Size - 1)
  PROVE  (t + i - 1) % Size = IF t + i - 1 < Size THEN t + i - 1 ELSE t + i - 1 - Size
<1>1. t + i - 1 \in 0..(2 * Size - 1)
  BY KeyboardAssumption
<1> QED
  BY <1>1, Wrap, KeyboardAssumption

\* What process_scancode pushes is a character.
LEMMA FormIs == \A k \in Keys : <<k, Form(k)>> \in Char
BY Zenon DEF Form, Char

\* Keyboard's variables have their types.
THEOREM TypeCorrect == Spec => []TypeOK
<1>1. Init => TypeOK
  BY KeyboardAssumption DEF Init, TypeOK
<1>2. TypeOK /\ [Next]_vars => TypeOK'
  <2> SUFFICES ASSUME TypeOK, [Next]_vars PROVE TypeOK'
    BY Zenon
  <2> USE KeyboardAssumption DEF TypeOK, ring
  <2>1. ASSUME NEW c \in Char, Push(c) PROVE TypeOK'
    BY <2>1, AfterIs DEF Push
  <2>2. CASE ReadChar
    BY <2>2, AfterIs DEF ReadChar
  <2>3. CASE PressCaps
    BY <2>3, Zenon DEF PressCaps
  <2>4. ASSUME NEW m \in Modifiers, PressModifier(m) \/ ReleaseModifier(m) PROVE TypeOK'
    <3>1. Flag[m] \in {"shift", "ctrl", "alt", "caps"}
      BY DEF Flag
    <3> QED
      BY <2>4, <3>1, Zenon DEF PressModifier, ReleaseModifier
  <2>5. CASE UNCHANGED vars
    BY <2>5, Zenon DEF vars
  <2> QED
    BY <2>1, <2>2, <2>3, <2>4, <2>5, FormIs, Zenon DEF Next, PushChar, PressKey, Char
<1> QED
  BY <1>1, <1>2, PTL DEF Spec

\* No order of presses, repeats and releases of modifier keys makes
\* process_scancode leave a flag of MODS set with none of its keys held down.
THEOREM NeverStuck == Spec => []NotStuck
<1>1. Init => NotStuck
  BY Zenon DEF Init, NotStuck
<1>2. NotStuck /\ [Next]_vars => NotStuck'
  <2> SUFFICES ASSUME NotStuck, [Next]_vars PROVE NotStuck'
    BY Zenon
  <2> USE DEF NotStuck
  <2>1. ASSUME NEW c, Push(c) PROVE NotStuck'
    BY <2>1, Zenon DEF Push
  <2>2. CASE ReadChar
    BY <2>2, Zenon DEF ReadChar
  <2>3. CASE PressCaps
    BY <2>3, Zenon DEF PressCaps
  <2>4. ASSUME NEW m \in Modifiers, PressModifier(m) PROVE NotStuck'
    BY <2>4, Zenon DEF PressModifier
  <2>5. ASSUME NEW m \in Modifiers, ReleaseModifier(m) PROVE NotStuck'
    BY <2>5, Zenon DEF ReleaseModifier
  <2>6. CASE UNCHANGED vars
    BY <2>6, Zenon DEF vars
  <2> QED
    BY <2>1, <2>2, <2>3, <2>4, <2>5, <2>6, Zenon DEF Next, PushChar, PressKey
<1> QED
  BY <1>1, <1>2, PTL DEF Spec
-----------------------------------------------------------------------------
\* The characters that wait, as the queue that Refinement speaks of.
Waiting == [i \in 1..Count |-> buf[(tail + i - 1) % Size]]

\* The positions of the characters that wait.
Placed ==
  /\ Count \in 0..(Size - 1)
  /\ Count = IF head >= tail THEN head - tail ELSE head + Size - tail
  /\ Waiting \in Seq(Char \cup {Nul}) /\ Len(Waiting) = Count
  /\ \A i \in 1..Count :
       Waiting[i] = buf[IF tail + i - 1 < Size THEN tail + i - 1 ELSE tail + i - 1 - Size]

\* They are where the types of head and tail put them.
LEMMA Positions == TypeOK => Placed
<1> SUFFICES ASSUME TypeOK PROVE Placed
  BY Zenon
<1> USE KeyboardAssumption DEF TypeOK
<1>1. Count \in 0..(Size - 1) /\ Count = IF head >= tail THEN head - tail ELSE head + Size - tail
  BY CountIs DEF Count
<1>2. ASSUME NEW i \in 1..Count
      PROVE  (tail + i - 1) % Size = IF tail + i - 1 < Size THEN tail + i - 1 ELSE tail + i - 1 - Size
  <2>1. tail \in 0..(Size - 1) /\ i \in 1..(Size - 1)
    BY <1>1
  <2> HIDE DEF TypeOK
  <2> QED
    BY <2>1, PlaceIs, Zenon
<1>3. \A i \in 1..Count : (tail + i - 1) % Size \in 0..(Size - 1)
  BY <1>1, <1>2
<1>4. Waiting \in Seq(Char \cup {Nul}) /\ Len(Waiting) = Count
  BY <1>1, <1>3 DEF Waiting
<1> QED
  BY <1>1, <1>2, <1>4, Zenon DEF Waiting, Placed

\* KbBuffer::push appends to the queue, or leaves it when Size - 1 wait.
LEMMA PushPuts ==
  ASSUME TypeOK, TypeOK', NEW c \in Char, Push(c)
  PROVE  \/ Count < Size - 1 /\ Waiting' = Append(Waiting, c)
         \/ Waiting' = Waiting
<1> USE KeyboardAssumption
<1>p. Placed /\ Placed'
  BY Positions, PTL
<1>1. CASE After(head) = tail
  BY <1>1, Zenon DEF Push, Waiting, Count
<1>2. CASE After(head) # tail
  <2>1. head' = (IF head = Size - 1 THEN 0 ELSE head + 1) /\ tail' = tail
        /\ buf' = [buf EXCEPT ![head] = c]
    BY <1>2, AfterIs, Zenon DEF Push, TypeOK
  <2>2. Count < Size - 1 /\ Count' = Count + 1
    BY <1>2, <2>1, <1>p, AfterIs DEF TypeOK, Placed
  <2>3. ASSUME NEW i \in 1..Count PROVE Waiting'[i] = Waiting[i]
    <3> DEFINE k == IF tail + i - 1 < Size THEN tail + i - 1 ELSE tail + i - 1 - Size
    <3>0. /\ head \in 0..(Size - 1) /\ tail \in 0..(Size - 1) /\ Size \in Nat /\ Count < Size - 1
          /\ Count \in 0..(Size - 1)
          /\ Count = IF head >= tail THEN head - tail ELSE head + Size - tail
      BY <2>2, <1>p, Zenon DEF TypeOK, Placed
    <3>1. k \in 0..(Size - 1) /\ k # head
      <4> HIDE KeyboardAssumption
      <4>1. CASE head >= tail
        BY <3>0, <4>1
      <4>2. CASE ~(head >= tail)
        BY <3>0, <4>2
      <4> QED
        BY <4>1, <4>2, Zenon
    <3>2. Waiting[i] = buf[k] /\ Waiting'[i] = buf'[k]
      BY <2>1, <2>2, <1>p DEF Placed
    <3> HIDE DEF k
    <3> QED
      BY <2>1, <3>1, <3>2, Zenon DEF TypeOK
  <2>4. Waiting'[Count + 1] = c
    BY <2>1, <2>2, <1>p DEF TypeOK, Placed
  <2>5. Waiting' = Append(Waiting, c)
    BY <2>2, <2>3, <2>4, <1>p DEF Placed
  <2> QED
    BY <2>2, <2>5, Zenon
<1> QED
  BY <1>1, <1>2, Zenon

\* read_char takes the oldest character.
LEMMA ReadGets ==
  ASSUME TypeOK, TypeOK', ReadChar
  PROVE  Waiting # <<>> /\ Waiting' = Tail(Waiting)
<1> USE KeyboardAssumption
<1>p. Placed /\ Placed'
  BY Positions, PTL
<1>1. tail' = (IF tail = Size - 1 THEN 0 ELSE tail + 1) /\ head' = head /\ buf' = buf /\ head # tail
  BY AfterIs, Zenon DEF ReadChar, TypeOK
<1>2. Count > 0 /\ Count' = Count - 1
  BY <1>1, <1>p DEF TypeOK, Placed
<1>3. \A i \in 1..(Count - 1) : Waiting'[i] = Waiting[i + 1]
  BY <1>1, <1>2, <1>p DEF TypeOK, Placed
<1> QED
  BY <1>2, <1>3, <1>p DEF Placed

\* Every step of the ring buffer, under any interleaving of the keyboard and
\* the serial interrupt with the readers, is a step of the bounded queue.
THEOREM IsFifo == Spec => Refinement
<1>1. Init => Fifo!Init
  BY KeyboardAssumption, CountIs DEF Init, Fifo!Init, Count
<1>2. TypeOK /\ TypeOK' /\ [Next]_vars => [Fifo!Next]_Waiting
  <2> SUFFICES ASSUME TypeOK, TypeOK', [Next]_vars PROVE [Fifo!Next]_Waiting
    BY Zenon
  <2>1. ASSUME NEW c \in Char, Push(c) PROVE [Fifo!Next]_Waiting
    BY <2>1, PushPuts, Positions, Zenon DEF Placed, Fifo!Next, Fifo!Put, Waiting
  <2>2. CASE ReadChar
    BY <2>2, ReadGets, Zenon DEF Fifo!Next, Fifo!Get, Waiting
  <2>3. ASSUME UNCHANGED ring PROVE [Fifo!Next]_Waiting
    BY <2>3, Zenon DEF ring, Waiting, Count
  <2> QED
    BY <2>1, <2>2, <2>3, FormIs, Zenon
       DEF Next, PushChar, PressKey, PressCaps, PressModifier, ReleaseModifier, Char, vars, ring
<1> QED
  BY <1>1, <1>2, TypeCorrect, PTL DEF Spec, Refinement, Fifo!Spec, Waiting
-----------------------------------------------------------------------------
(***************************************************************************)
(* The disk driver.                                                        *)
(***************************************************************************)
Status == {"idle", "bsy", "drq", "err"}
DevState == [st : Status, lba : Nat, left : Int]
Request == [drive : Drives, lba : Nat, count : Nat \ {0}]

\* What the steps need of the types.
Types ==
  /\ pc \in [Callers -> Over \cup {"select", "ready", "setup", "command", "bsy", "drq", "data"}]
  /\ req \in [Callers -> Request]
  /\ got \in [Callers -> Seq(Drives \X Nat \cup {Junk})]
  /\ sel \in Drives
  /\ regs \in [lba : Nat, count : Nat \ {0}]
  /\ dev \in [Drives -> DevState]
  /\ alone \in SUBSET Callers

\* The sectors that the registers name for c, as far as n.
Prefix(c, n) == [i \in 1..n |-> <<req[c].drive, Named(req[c]) + i - 1>>]

\* The channel, the drive and the buffer of c agree on how far the read is.
Reading(c) ==
  LET d == req[c].drive
      n == Len(got[c])
  IN /\ pc[c] \in {"select", "ready", "setup", "command"} => got[c] = <<>> /\ AtRest(d)
     /\ pc[c] \in {"ready", "setup", "command", "bsy", "drq", "data"} => sel = d
     /\ pc[c] = "command" => regs = [lba |-> Named(req[c]), count |-> req[c].count]
     /\ pc[c] \in {"bsy", "drq", "data"} =>
          /\ n < req[c].count /\ got[c] = Prefix(c, n)
          /\ dev[d].st \in {"bsy", "drq"} =>
               dev[d].lba = Named(req[c]) + n /\ dev[d].left = req[c].count - n
     /\ pc[c] = "data" => dev[d].st = "drq"
     /\ pc[c] = "ok" => got[c] = Prefix(c, req[c].count)

\* What the registers hold is a number.
LEMMA NamedIn ==
  ASSUME NEW r \in Request PROVE Named(r) \in Nat
<1>1. r.lba \in Nat /\ Reach \in Nat \ {0}
  BY IdeAssumption DEF Request
<1>2. r.lba % Reach \in Nat
  BY <1>1, Z3
<1> QED
  BY <1>1, <1>2, Zenon DEF Named

\* The inductive invariant: it speaks of the reads nobody has disturbed only.
Inv == Types /\ \A c \in alone : Reading(c)

\* A step of c disturbs every read in progress but its own, and keeps what
\* the reads that are over have in their buffers.
LEMMA OthersKeep ==
  ASSUME Inv, NEW c \in Callers, alone' = Undisturbed(c),
         \A o \in Callers \ {c} : pc'[o] = pc[o] /\ req'[o] = req[o] /\ got'[o] = got[o]
  PROVE  \A o \in alone' \ {c} : Reading(o)'
<1> SUFFICES ASSUME NEW o \in alone' \ {c} PROVE Reading(o)'
  BY Zenon
<1>1. o \in alone /\ o \in Callers \ {c} /\ pc[o] \in Over
  BY Zenon DEF Undisturbed, Inv, Types
<1>2. pc'[o] \in Over /\ req'[o] = req[o] /\ got'[o] = got[o]
  BY <1>1, Zenon
<1>3. pc'[o] = "ok" => got[o] = Prefix(o, req[o].count)
  BY <1>1, ZenonT(60) DEF Inv, Reading
<1>4. Prefix(o, req[o].count)' = Prefix(o, req[o].count)
  BY <1>2, Zenon DEF Prefix
<1> QED
  BY <1>2, <1>3, <1>4, Zenon DEF Reading, Over, Prefix

\* Moving to another label.
LEMMA GotoFacts ==
  ASSUME Types, NEW c \in Callers, NEW l, Goto(c, l)
  PROVE  pc'[c] = l /\ \A o \in Callers \ {c} : pc'[o] = pc[o]
BY Zenon DEF Types, Goto

\* A step of c keeps the invariant when it keeps the types and, if its read
\* is undisturbed, what the invariant says of c.
LEMMA OwnPart ==
  ASSUME Inv, NEW c \in Callers, alone' = Undisturbed(c), Types',
         \A o \in Callers \ {c} : pc'[o] = pc[o] /\ req'[o] = req[o] /\ got'[o] = got[o],
         c \in alone => Reading(c)'
  PROVE  Inv'
<1>1. c \in alone' => c \in alone
  BY Zenon DEF Undisturbed
<1> QED
  BY <1>1, OthersKeep, Zenon DEF Inv

\* The set of undisturbed reads only shrinks.
LEMMA UndisturbedIn ==
  ASSUME Types, NEW c PROVE Undisturbed(c) \in SUBSET Callers
BY Zenon DEF Types, Undisturbed

\* Steps that change neither drive nor buffer: the waits.
LEMMA WaitStep ==
  ASSUME Inv, NEW c \in Callers, alone' = Undisturbed(c),
         NEW l \in {"setup", "drq", "data", "error"}, Goto(c, l),
         UNCHANGED <<req, got, sel, regs, dev>>,
         l = "setup" => pc[c] = "ready",
         l = "drq" => pc[c] = "bsy",
         l = "data" => pc[c] = "drq" /\ status = "drq"
  PROVE  Inv'
<1>1. pc'[c] = l /\ \A o \in Callers \ {c} : pc'[o] = pc[o]
  BY GotoFacts, Zenon DEF Inv
<1>2. Types'
  BY UndisturbedIn, Zenon DEF Inv, Types, Goto, Over
<1>3. ASSUME c \in alone PROVE Reading(c)'
  <2>1. Reading(c)
    BY <1>3, Zenon DEF Inv
  <2>2. Prefix(c, Len(got[c]))' = Prefix(c, Len(got[c]))
    BY Zenon DEF Prefix
  <2> QED
    BY <1>1, <2>1, <2>2, Zenon DEF Reading, status, AtRest
<1> QED
  BY <1>1, <1>2, <1>3, OwnPart, Zenon

\* read_sectors begins, at a drive that owes nothing or not.
LEMMA BeginStep ==
  ASSUME Inv, NEW c \in Callers, NEW r \in Requests, Begin(c, r)
  PROVE  Inv'
<1> USE IdeAssumption
<1>1. pc'[c] = "select" /\ \A o \in Callers \ {c} : pc'[o] = pc[o]
  BY GotoFacts, Zenon DEF Begin, Inv
<1>2. /\ req'[c] = r /\ got'[c] = <<>> /\ UNCHANGED <<sel, regs, dev>>
      /\ \A o \in Callers \ {c} : req'[o] = req[o] /\ got'[o] = got[o]
  BY Zenon DEF Begin, Inv, Types
<1>3. Types'
  <2>1. r \in Request
    BY Zenon DEF Request
  <2>2. <<>> \in Seq(Drives \X Nat \cup {Junk})
    OBVIOUS
  <2>3. alone' \in SUBSET Callers
    BY Zenon DEF Begin, Inv, Types
  <2> QED
    BY <2>1, <2>2, <2>3, Zenon DEF Begin, Inv, Types, Goto
<1>4. ASSUME NEW o \in alone' PROVE Reading(o)'
  <2>1. CASE o = c
    <3>1. AtRest(r.drive)
      BY <1>4, <2>1, Zenon DEF Begin
    <3> QED
      BY <1>1, <1>2, <2>1, <3>1, Zenon DEF Reading, AtRest
  <2>2. CASE o # c
    <3>1. o \in alone /\ o \in Callers \ {c}
      BY <1>4, <2>2, Zenon DEF Begin, Inv, Types
    <3>2. pc'[o] = pc[o] /\ req'[o] = req[o] /\ got'[o] = got[o]
      BY <1>1, <1>2, <3>1, Zenon
    <3>3. Reading(o)
      BY <3>1, Zenon DEF Inv
    <3>4. Prefix(o, Len(got[o]))' = Prefix(o, Len(got[o])) /\ Prefix(o, req[o].count)' = Prefix(o, req[o].count)
      BY <3>2, Zenon DEF Prefix
    <3> QED
      BY <1>2, <3>2, <3>3, <3>4, Zenon DEF Reading, AtRest
  <2> QED
    BY <2>1, <2>2, Zenon
<1> QED
  BY <1>3, <1>4, Zenon DEF Inv

\* It selects its drive and sets the registers.
LEMMA SetupStep ==
  ASSUME Inv, NEW c \in Callers, alone' = Undisturbed(c), Select(c) \/ Setup(c)
  PROVE  Inv'
<1>1. UNCHANGED <<req, got, dev>>
  BY Zenon DEF Select, Setup
<1>2. PICK l \in {"ready", "command"} : Goto(c, l)
  BY Zenon DEF Select, Setup
<1>3. pc'[c] = l /\ \A o \in Callers \ {c} : pc'[o] = pc[o]
  BY <1>2, GotoFacts, Zenon DEF Inv
<1>4. Types'
  <2>1. req[c] \in Request
    BY Zenon DEF Inv, Types
  <2>2. req[c].drive \in Drives /\ [lba |-> Named(req[c]), count |-> req[c].count] \in [lba : Nat, count : Nat \ {0}]
    BY <2>1, NamedIn DEF Request
  <2>3. sel' \in Drives /\ regs' \in [lba : Nat, count : Nat \ {0}]
    BY <2>2, Zenon DEF Inv, Types, Select, Setup
  <2> QED
    BY <1>1, <1>2, <2>3, UndisturbedIn, Zenon DEF Inv, Types, Goto, Over
<1>5. ASSUME c \in alone PROVE Reading(c)'
  <2>1. Reading(c)
    BY <1>5, Zenon DEF Inv
  <2>2. CASE Select(c)
    <3>1. pc'[c] = "ready" /\ pc[c] = "select" /\ sel' = req[c].drive
      BY <2>2, GotoFacts, Zenon DEF Select, At, Inv
    <3> QED
      BY <1>1, <2>1, <3>1, Zenon DEF Reading, AtRest
  <2>3. CASE Setup(c)
    <3>1. /\ pc'[c] = "command" /\ pc[c] = "setup" /\ sel' = sel
          /\ regs' = [lba |-> Named(req[c]), count |-> req[c].count]
      BY <2>3, GotoFacts, Zenon DEF Setup, At, Inv
    <3> QED
      BY <1>1, <2>1, <3>1, Zenon DEF Reading, AtRest
  <2> QED
    BY <2>2, <2>3, Zenon
<1> QED
  BY <1>1, <1>3, <1>4, <1>5, OwnPart, Zenon

\* The command: a drive at rest takes it.
LEMMA CommandStep ==
  ASSUME Inv, NEW c \in Callers, alone' = Undisturbed(c), Command(c)
  PROVE  Inv'
<1> DEFINE new == [st |-> "bsy", lba |-> regs.lba, left |-> regs.count]
<1>1. /\ pc[c] = "command" /\ UNCHANGED <<req, got, sel, regs>> /\ sel \in Drives
      /\ pc'[c] = "bsy" /\ \A o \in Callers \ {c} : pc'[o] = pc[o]
      /\ dev \in [Drives -> DevState] /\ req[c] \in Request
  BY GotoFacts, Zenon DEF Command, At, Inv, Types
<1>2. regs.lba \in Nat /\ regs.count \in Int /\ Named(req[c]) \in Nat /\ req[c].count \in Nat /\ req[c].count > 0
  BY <1>1, NamedIn DEF Inv, Types, Request
<1>3. new \in DevState
  BY <1>2, Zenon DEF DevState, Status
<1>4. dev' = [dev EXCEPT ![sel] = new] \/ (dev' = dev /\ dev[sel].st \in {"bsy", "drq"})
  BY <1>1, Zenon DEF Command, Started, status
<1>5. Types'
  <2>1. dev' \in [Drives -> DevState]
    BY <1>1, <1>3, <1>4, Zenon
  <2> QED
    BY <1>1, <2>1, UndisturbedIn, Zenon DEF Inv, Types, Command, Goto
<1>6. ASSUME c \in alone PROVE Reading(c)'
  <2>1. /\ sel = req[c].drive /\ got[c] = <<>> /\ dev[sel].st \in {"idle", "err"}
        /\ regs = [lba |-> Named(req[c]), count |-> req[c].count]
    BY <1>1, <1>6, Zenon DEF Inv, Reading, AtRest
  <2>2. dev'[sel] = new
    BY <1>1, <1>4, <2>1, Zenon
  <2>3. dev'[sel].st = "bsy" /\ dev'[sel].lba = Named(req[c]) /\ dev'[sel].left = req[c].count
    BY <2>1, <2>2
  <2>4. Prefix(c, 0)' = <<>> /\ Len(got'[c]) = 0 /\ got'[c] = <<>>
    BY <1>1, <2>1 DEF Prefix
  <2>5. Named(req[c]) + 0 = Named(req[c]) /\ req[c].count - 0 = req[c].count
    BY <1>2
  <2> HIDE DEF new
  <2> QED
    BY <1>1, <1>2, <2>1, <2>3, <2>4, <2>5 DEF Reading
<1> QED
  BY <1>1, <1>5, <1>6, OwnPart, Zenon

\* The sector behind n sectors makes n + 1 of them.
LEMMA AppendSectors ==
  ASSUME NEW d \in Drives, NEW lba \in Nat, NEW s \in Seq(Drives \X Nat \cup {Junk}),
         s = [i \in 1..Len(s) |-> <<d, lba + i - 1>>]
  PROVE  Append(s, <<d, lba + Len(s)>>) = [i \in 1..(Len(s) + 1) |-> <<d, lba + i - 1>>]
<1> DEFINE n == Len(s)
           f == [i \in 1..(n + 1) |-> <<d, lba + i - 1>>]
           new == Append(s, <<d, lba + n>>)
<1>1. n \in Nat /\ new \in Seq(Drives \X Nat \cup {Junk}) /\ Len(new) = n + 1
  OBVIOUS
<1>2. ASSUME NEW i \in 1..n PROVE new[i] = f[i]
  <2>1. new[i] = s[i] /\ i \in 1..(n + 1)
    BY <1>1
  <2>2. s[i] = <<d, lba + i - 1>>
    BY <1>2, Zenon
  <2> QED
    BY <2>1, <2>2, Zenon
<1>3. new[n + 1] = f[n + 1]
  BY <1>1
<1>4. new = [i \in 1..(n + 1) |-> new[i]]
  BY <1>1
<1>5. \A i \in 1..(n + 1) : i \in 1..n \/ i = n + 1
  BY <1>1
<1>6. \A i \in 1..(n + 1) : new[i] = f[i]
  BY <1>2, <1>3, <1>5, Zenon
<1> QED
  BY <1>4, <1>6, Zenon

\* One sector more in the buffer.
LEMMA TransferStep ==
  ASSUME Inv, NEW c \in Callers, alone' = Undisturbed(c), Transfer(c)
  PROVE  Inv'
<1> DEFINE d == req[c].drive
           n == Len(got[c])
           next == IF dev[sel].left = 1 THEN Resting("idle")
                   ELSE [st |-> "bsy", lba |-> dev[sel].lba + 1, left |-> dev[sel].left - 1]
<1>1. /\ pc[c] = "data" /\ UNCHANGED <<req, sel, regs>> /\ sel \in Drives
      /\ dev \in [Drives -> DevState] /\ dev[sel] \in DevState
      /\ got \in [Callers -> Seq(Drives \X Nat \cup {Junk})]
      /\ req[c] \in Request
  BY Zenon DEF Transfer, At, Inv, Types
<1>2. PICK l \in {"ok", "bsy"} : Goto(c, l) /\ l = IF Len(got'[c]) = req[c].count THEN "ok" ELSE "bsy"
  BY Zenon DEF Transfer, LastSector
<1>3. pc'[c] = l /\ \A o \in Callers \ {c} : pc'[o] = pc[o]
  BY <1>2, GotoFacts, Zenon DEF Inv
<1>4. \/ dev[sel].st = "drq" /\ dev' = [dev EXCEPT ![sel] = next] /\ got' = [got EXCEPT ![c] = Append(@, <<sel, dev[sel].lba>>)]
      \/ dev[sel].st # "drq" /\ dev' = dev /\ got' = [got EXCEPT ![c] = Append(@, Junk)]
  BY <1>1, Zenon DEF Transfer, status
<1>5. /\ next \in DevState /\ <<sel, dev[sel].lba>> \in Drives \X Nat
      /\ Named(req[c]) \in Nat /\ req[c].count \in Nat
  BY <1>1, NamedIn DEF DevState, Status, Resting, Request
<1>6. Types'
  <2>1. dev' \in [Drives -> DevState]
    <3> HIDE DEF next
    <3> QED
      BY <1>1, <1>4, <1>5, Zenon
  <2>2. got' \in [Callers -> Seq(Drives \X Nat \cup {Junk})]
    <3>1. PICK x \in Drives \X Nat \cup {Junk} : got' = [got EXCEPT ![c] = Append(got[c], x)]
      BY <1>4, <1>5, Zenon
    <3>2. Append(got[c], x) \in Seq(Drives \X Nat \cup {Junk})
      BY <1>1
    <3> QED
      BY <1>1, <3>1, <3>2, Zenon
  <2> QED
    BY <1>1, <1>2, <2>1, <2>2, UndisturbedIn, Zenon DEF Inv, Types, Goto, Over
<1>7. ASSUME c \in alone PROVE Reading(c)'
  <2>1. /\ sel = d /\ dev[sel].st = "drq" /\ n < req[c].count /\ got[c] = Prefix(c, n) /\ n \in Nat
        /\ dev[sel].lba = Named(req[c]) + n /\ dev[sel].left = req[c].count - n
    BY <1>1, <1>7 DEF Inv, Reading
  <2>2. dev'[sel] = next /\ got'[c] = Append(got[c], <<d, Named(req[c]) + n>>)
    BY <1>1, <1>4, <2>1, SMTT(30)
  <2>3. Len(got'[c]) = n + 1
    BY <1>1, <2>2
  <2>4. got'[c] = Prefix(c, n + 1)
    <3>1. d \in Drives /\ got[c] \in Seq(Drives \X Nat \cup {Junk})
      BY <1>1, <2>1, Zenon
    <3> QED
      BY <1>5, <2>1, <2>2, <3>1, AppendSectors, ZenonT(60) DEF Prefix
  <2>5. CASE n + 1 = req[c].count
    <3>1. pc'[c] = "ok" /\ got'[c] = Prefix(c, req[c].count)'
      BY <1>1, <1>2, <1>3, <2>3, <2>4, <2>5, Zenon DEF Prefix
    <3> QED
      BY <1>1, <3>1, Zenon DEF Reading
  <2>6. CASE n + 1 # req[c].count
    <3>1. n + 1 < req[c].count /\ dev[sel].left # 1
      BY <1>5, <2>1, <2>6
    <3>2. pc'[c] = "bsy"
      BY <1>2, <1>3, <2>3, <2>6, Zenon
    <3>3. got'[c] = Prefix(c, Len(got[c]))'
      BY <1>1, <2>3, <2>4, Zenon DEF Prefix
    <3>4. Len(got'[c]) < req'[c].count
      BY <1>1, <2>3, <3>1, Zenon
    <3>5. dev'[sel].lba = dev[sel].lba + 1 /\ dev'[sel].left = dev[sel].left - 1
      BY <2>2, <3>1
    <3>6. dev'[sel].lba = Named(req[c]) + (n + 1) /\ dev'[sel].left = req[c].count - (n + 1)
      <4>1. \A x, y \in Int : (x + y) + 1 = x + (y + 1) /\ (x - y) - 1 = x - (y + 1)
        OBVIOUS
      <4>2. n \in Int /\ Named(req[c]) \in Int /\ req[c].count \in Int
        BY <1>5, <2>1
      <4> HIDE DEF n, d, next
      <4> QED
        BY <2>1, <3>5, <4>1, <4>2, ZenonT(30)
    <3>7. /\ dev'[sel'].lba = Named(req'[c]) + Len(got'[c])
          /\ dev'[sel'].left = req'[c].count - Len(got'[c])
      BY <1>1, <2>3, <3>6, Zenon
    <3>8. sel' = req'[c].drive
      BY <1>1, <2>1, Zenon
    <3> HIDE DEF next, n, d
    <3> QED
      BY <3>2, <3>3, <3>4, <3>7, <3>8, Zenon DEF Reading
  <2> QED
    BY <2>5, <2>6, Zenon
<1>8. \A o \in Callers \ {c} : got'[o] = got[o] /\ req'[o] = req[o]
  BY <1>1, <1>4, Zenon
<1> QED
  BY <1>3, <1>6, <1>7, <1>8, OwnPart, Zenon

\* A drive answers: it is one with a command, so not one at rest, and not one
\* whose data a caller is about to take.
LEMMA AnswerStep ==
  ASSUME Inv, NEW d \in Drives, Answer(d)
  PROVE  Inv'
<1>1. dev \in [Drives -> DevState] /\ dev[d].st = "bsy" /\ UNCHANGED <<pc, req, got, sel, regs, alone>>
  BY Zenon DEF Answer, Inv, Types
<1>2. /\ dev' \in [Drives -> DevState] /\ \A x \in Drives \ {d} : dev'[x] = dev[x]
      /\ \/ dev'[d].st = "drq" /\ dev'[d].lba = dev[d].lba /\ dev'[d].left = dev[d].left
         \/ dev'[d].st = "err"
  <2>1. CASE dev' = [dev EXCEPT ![d].st = "drq"]
    BY <1>1, <2>1, Zenon DEF DevState, Status
  <2>2. CASE dev' = [dev EXCEPT ![d] = Resting("err")]
    <3>1. Resting("err") \in DevState /\ Resting("err").st = "err"
      BY DEF Resting, DevState, Status
    <3> QED
      BY <1>1, <2>2, <3>1, Zenon
  <2> QED
    BY <2>1, <2>2, Zenon DEF Answer
<1>3. Types'
  BY <1>1, <1>2, Zenon DEF Inv, Types
<1>4. ASSUME NEW c \in alone PROVE Reading(c)'
  <2>1. Reading(c) /\ req[c].drive \in Drives
    BY <1>4 DEF Inv, Types, Request
  <2>2. Prefix(c, Len(got[c]))' = Prefix(c, Len(got[c])) /\ Prefix(c, req[c].count)' = Prefix(c, req[c].count)
    BY <1>1, Zenon DEF Prefix
  <2>3. CASE req[c].drive = d
    BY <1>1, <1>2, <2>1, <2>2, <2>3, Zenon DEF Reading, AtRest
  <2>4. CASE req[c].drive # d
    BY <1>1, <1>2, <2>1, <2>2, <2>4, ZenonT(30) DEF Reading, AtRest
  <2> QED
    BY <2>3, <2>4, Zenon
<1> QED
  BY <1>1, <1>3, <1>4, Zenon DEF Inv

\* Every step keeps the invariant.
LEMMA StepInv ==
  ASSUME Inv, [DiskNext]_DiskVars
  PROVE  Inv'
<1>1. ASSUME NEW c \in Callers, WaitReady(c) \/ WaitSector(c) \/ WaitDrq(c), alone' = Undisturbed(c)
      PROVE  Inv'
  <2>1. CASE WaitReady(c)
    BY <1>1, <2>1, WaitStep, Zenon DEF WaitReady, WaitBsy, At
  <2>2. CASE WaitSector(c)
    BY <1>1, <2>2, WaitStep, Zenon DEF WaitSector, WaitBsy, At
  <2>3. CASE WaitDrq(c)
    BY <1>1, <2>3, WaitStep, Zenon DEF WaitDrq, At
  <2> QED
    BY <1>1, <2>1, <2>2, <2>3, Zenon
<1>2. CASE UNCHANGED DiskVars
  <2>1. UNCHANGED <<pc, req, got, sel, regs, dev, alone>>
    BY <1>2, Zenon DEF DiskVars
  <2>2. Types'
    BY <2>1, Zenon DEF Inv, Types
  <2>3. ASSUME NEW c \in alone PROVE Reading(c)'
    <3>1. Reading(c)
      BY <2>3, Zenon DEF Inv
    <3>2. Prefix(c, Len(got[c]))' = Prefix(c, Len(got[c])) /\ Prefix(c, req[c].count)' = Prefix(c, req[c].count)
      BY <2>1, Zenon DEF Prefix
    <3> QED
      BY <2>1, <3>1, <3>2, Zenon DEF Reading, AtRest
  <2> QED
    BY <2>1, <2>2, <2>3, Zenon DEF Inv
<1>3. ASSUME NEW c \in Callers, Step(c) PROVE Inv'
  BY <1>1, <1>3, SetupStep, CommandStep, TransferStep, Zenon DEF Step
<1> QED
  BY <1>2, <1>3, BeginStep, AnswerStep, Zenon DEF DiskNext

\* read_sectors that returns Ok has read what was asked for, for any number of
\* callers, with and without the VFS lock, any number of drives and requests
\* of any length, if the drive owed nothing to an earlier command when it
\* began, no other caller touched the channel since and the registers can name
\* the LBA.
THEOREM AlwaysReadsAsked == DiskSpec => []ReadsAsked
<1>1. DiskInit => Inv
  <2> SUFFICES ASSUME DiskInit PROVE Inv
    BY Zenon
  <2> USE DEF DiskInit
  <2>1. Types
    <3>1. \A x \in Drives : [drive |-> x, lba |-> 0, count |-> 1] \in Request
      BY DEF Request
    <3>2. Resting("idle") \in DevState
      BY DEF Resting, DevState, Status
    <3> QED
      BY <3>1, <3>2 DEF Types, Over
  <2> QED
    BY <2>1, Zenon DEF Inv
<1>2. Inv /\ [DiskNext]_DiskVars => Inv'
  BY StepInv, Zenon
<1>3. Inv => ReadsAsked
  BY ZenonT(60) DEF Inv, ReadsAsked, Asked, Reading, Prefix
<1> QED
  BY <1>1, <1>2, <1>3, PTL DEF DiskSpec
=============================================================================

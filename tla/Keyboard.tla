------------------------------ MODULE Keyboard ------------------------------
(***************************************************************************)
(* src/drivers/keyboard.rs: the scancode translation of the keyboard       *)
(* interrupt, with its modifier state, and the ring buffer it fills.       *)
(* Every operation is one critical section of MODS or KB_BUF.              *)
(***************************************************************************)
EXTENDS Naturals, Sequences

CONSTANTS
  Size,       \* KB_BUF_SIZE
  Letters,    \* keys with an alphabetic entry in SCANCODE_MAP
  Signs,      \* keys that shifted_char gives a second character
  Others,     \* keys with one character: Enter, Backspace, Space...
  Bytes,      \* characters that come in over the serial line
  Modifiers,  \* the modifier keys of the keyboard
  Nul         \* what the buffer holds before it is first written

Keys == Letters \cup Signs \cup Others
Char == (Keys \X {"plain", "shifted", "control"}) \cup Bytes

\* The modifier keys and the flag of MODS each one drives: the second Ctrl and
\* Alt keys send the code of the first one after a prefix that is ignored.
Flag == [lshift |-> "shift", rshift |-> "shift",
         lctrl |-> "ctrl", rctrl |-> "ctrl", lalt |-> "alt", ralt |-> "alt"]

ASSUME KeyboardAssumption == Size \in Nat /\ Size >= 2 /\ Modifiers \subseteq DOMAIN Flag

VARIABLES
  buf, head, tail,          \* KB_BUF
  mods,                     \* the flags of MODS that are set
  down                      \* the modifier keys that are held down

ring == <<buf, head, tail>>
vars == <<buf, head, tail, mods, down>>

TypeOK ==
  /\ buf \in [0..(Size - 1) -> Char \cup {Nul}]
  /\ head \in 0..(Size - 1) /\ tail \in 0..(Size - 1)
  /\ mods \subseteq {"shift", "ctrl", "alt", "caps"}
  /\ down \subseteq Modifiers

Init ==
  /\ buf = [i \in 0..(Size - 1) |-> Nul]
  /\ head = 0 /\ tail = 0
  /\ mods = {} /\ down = {}
-----------------------------------------------------------------------------
After(i) == (i + 1) % Size

\* Mutant: a full buffer is not recognised.
PushAlways(c) ==
  /\ buf' = [buf EXCEPT ![head] = c]
  /\ head' = After(head)
  /\ UNCHANGED <<tail, mods, down>>

\* KbBuffer::push drops the character when the buffer is full: one slot
\* always stays empty.
Push(c) ==
  /\ IF After(head) # tail
     THEN buf' = [buf EXCEPT ![head] = c] /\ head' = After(head)
     ELSE UNCHANGED <<buf, head>>
  /\ UNCHANGED <<tail, mods, down>>

\* read_char, by whoever reads; an empty buffer gives None.
ReadChar ==
  /\ head # tail
  /\ tail' = After(tail)
  /\ UNCHANGED <<buf, head, mods, down>>

\* push_char, for each byte that the serial interrupt drains.
PushChar(b) == Push(b)

\* Letters follow Shift xor CapsLock, the keys of shifted_char follow Shift,
\* and Ctrl turns a letter into its control code whatever its case.
Form(k) ==
  CASE k \in Letters /\ "ctrl" \in mods -> "control"
    [] k \in Letters /\ "ctrl" \notin mods /\ (("shift" \in mods) # ("caps" \in mods)) -> "shifted"
    [] k \in Signs /\ "shift" \in mods -> "shifted"
    [] OTHER -> "plain"

\* process_scancode of a character key (a release is ignored).
PressKey(k) == Push(<<k, Form(k)>>)

\* process_scancode of a modifier key; a key held down repeats its code.
PressModifier(m) ==
  /\ down' = down \cup {m}
  /\ mods' = mods \cup {Flag[m]}
  /\ UNCHANGED ring

\* Mutant: the release of the second Shift key is taken for a character key.
ReleaseOneShift(m) ==
  /\ m \in down
  /\ down' = down \ {m}
  /\ mods' = IF m = "rshift" THEN mods ELSE mods \ {Flag[m]}
  /\ UNCHANGED ring

ReleaseModifier(m) ==
  /\ m \in down
  /\ down' = down \ {m}
  /\ mods' = mods \ {Flag[m]}
  /\ UNCHANGED ring

PressCaps ==
  /\ mods' = IF "caps" \in mods THEN mods \ {"caps"} ELSE mods \cup {"caps"}
  /\ UNCHANGED <<buf, head, tail, down>>

Next ==
  \/ ReadChar
  \/ PressCaps
  \/ \E b \in Bytes : PushChar(b)
  \/ \E k \in Keys : PressKey(k)
  \/ \E m \in Modifiers : PressModifier(m) \/ ReleaseModifier(m)

Spec == Init /\ [][Next]_vars
-----------------------------------------------------------------------------
(***************************************************************************)
(* Properties.                                                             *)
(***************************************************************************)
Count == (head + Size - tail) % Size

Fifo == INSTANCE KeyQueue WITH
  Cap <- Size - 1,
  chars <- [i \in 1..Count |-> buf[(tail + i - 1) % Size]]

\* The ring buffer of KbBuffer::push and pop implements a bounded first-in
\* first-out queue: as head and tail wrap, nothing is repeated or reordered,
\* nothing unread is overwritten, and at most Size - 1 characters wait.
Refinement == Fifo!Spec

\* process_scancode leaves no modifier stuck: a flag of MODS that is set has
\* one of its keys held down, whatever the order of presses, repeats and
\* releases of the two keys that share it.
NotStuck ==
  \A f \in mods \ {"caps"} : \E m \in down : Flag[m] = f
=============================================================================

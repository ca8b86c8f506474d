--------------------------------- MODULE Ide ---------------------------------
(***************************************************************************)
(* Reading sectors in PIO mode: read_sectors, read_lba28 and read_lba48 of *)
(* src/drivers/ide.rs on one channel with its drives.                      *)
(*                                                                         *)
(* A caller that came through the VFS holds its lock, with interrupts off, *)
(* until the read is over; a probe (the shell's mount) holds nothing and   *)
(* can be interrupted between any two port accesses.  How an LBA is spread *)
(* over registers is left out; that the LBA28 form keeps its lowest bits   *)
(* only is not.  A count is a u8 at every caller (the sectors of a cluster *)
(* or 1), so its cast to u8 changes nothing.  The registers are written,   *)
(* and a sector is transferred, in one step each; nothing is assumed of    *)
(* how fast a drive answers.                                               *)
(***************************************************************************)
EXTENDS Naturals, Sequences

CONSTANTS
  Callers,   \* threads that read from the disk
  Probes,    \* those of them that do not hold the VFS lock
  Drives,    \* the drives of the channel
  Lba28,     \* those of them without LBA48
  Reach,     \* the number of sectors that LBA28 can name: 2^28
  Requests   \* the arguments of read_sectors: drive, first sector, how many

ASSUME IdeAssumption ==
  /\ Probes \subseteq Callers
  /\ Lba28 \subseteq Drives /\ Reach \in Nat \ {0}
  /\ Requests \subseteq [drive : Drives, lba : Nat, count : Nat \ {0}]

VARIABLES
  pc,    \* what each caller does next
  req,   \* the arguments of its read_sectors
  got,   \* the sectors its buffer holds
  sel,   \* REG_HDDEVSEL: the drive that answers on the channel
  regs,  \* REG_LBA0..2 and REG_SECCOUNT
  dev,   \* each drive: its status, the next sector and how many are left
  alone  \* history, read by no guard: the callers whose read found its drive
         \* at rest and during which no other caller touched the channel

DiskVars == <<pc, req, got, sel, regs, dev, alone>>

\* probe_drive reads single sectors: the MBR and the boot sector.
May(c, r) == c \in Probes => r.count = 1
Junk == <<>>
Sectors == (Drives \X Nat) \cup {Junk}
Over == {"idle", "ok", "error"}

\* A drive that has delivered the last sector, or has failed to.
Resting(st) == [st |-> st, lba |-> 0, left |-> 0]

DiskTypeOK ==
  /\ pc \in [Callers -> Over \cup {"select", "ready", "setup", "command", "bsy", "drq", "data"}]
  /\ req \in [Callers -> [drive : Drives, lba : Nat, count : Nat \ {0}]]
  /\ sel \in Drives
  /\ regs \in [lba : Nat, count : Nat \ {0}]
  /\ dev \in [Drives -> [st : {"idle", "bsy", "drq", "err"}, lba : Nat, left : Nat]]
  /\ alone \in SUBSET Callers
  /\ \A c \in Callers : Len(got[c]) <= req[c].count /\ \A i \in 1..Len(got[c]) : got[c][i] \in Sectors

DiskInit ==
  /\ pc = [c \in Callers |-> "idle"]
  /\ sel \in Drives
  /\ req = [c \in Callers |-> [drive |-> sel, lba |-> 0, count |-> 1]]
  /\ got = [c \in Callers |-> <<>>]
  /\ regs = [lba |-> 0, count |-> 1]
  /\ dev = [d \in Drives |-> Resting("idle")]
  /\ alone = {}
-----------------------------------------------------------------------------
\* No other caller has switched interrupts off for its read.
MayRun(c) == \A o \in Callers \ (Probes \cup {c}) : pc[o] \in Over

At(c, here) == pc[c] = here /\ MayRun(c)
Goto(c, there) == pc' = [pc EXCEPT ![c] = there]

\* status(base): that of the selected drive.
status == dev[sel].st

\* The drive owes nothing to an earlier command.
AtRest(d) == dev[d].st \in {"idle", "err"}

\* The reads that a port access of c does not disturb.
Undisturbed(c) == {o \in alone : o = c \/ pc[o] \in Over}

\* read_sectors: look up the drive.
Begin(c, r) ==
  /\ pc[c] \in Over /\ MayRun(c) /\ May(c, r)
  /\ Goto(c, "select")
  /\ req' = [req EXCEPT ![c] = r]
  /\ got' = [got EXCEPT ![c] = <<>>]
  /\ alone' = IF AtRest(r.drive) THEN alone \cup {c} ELSE alone \ {c}
  /\ UNCHANGED <<sel, regs, dev>>

\* select_drive, with its delay.
Select(c) ==
  /\ At(c, "select")
  /\ sel' = req[c].drive
  /\ Goto(c, "ready")
  /\ UNCHANGED <<req, got, regs, dev>>

\* Mutant: wait_bsy polls for ever.
WaitBsyForever(c, there) == status # "bsy" /\ Goto(c, there)

\* wait_bsy: polls until BSY clears, or fails after 100000 polls.
WaitBsy(c, there) ==
  \/ status # "bsy" /\ Goto(c, there)
  \/ status = "bsy" /\ Goto(c, "error")

WaitReady(c) == At(c, "ready") /\ WaitBsy(c, "setup") /\ UNCHANGED <<req, got, sel, regs, dev>>

\* The sector that the registers can hold: 28 bits of it, or all.
Named(r) == IF r.drive \in Lba28 THEN r.lba % Reach ELSE r.lba

\* The registers of the request.
Setup(c) ==
  /\ At(c, "setup")
  /\ regs' = [lba |-> Named(req[c]), count |-> req[c].count]
  /\ Goto(c, "command")
  /\ UNCHANGED <<req, got, sel, dev>>

\* The drive takes the command in the registers.
Started == [dev EXCEPT ![sel] = [st |-> "bsy", lba |-> regs.lba, left |-> regs.count]]

\* CMD_READ_PIO or CMD_READ_PIO_EX. What a drive that is busy or has data
\* to deliver makes of a new command is not defined: it drops one of the two.
Command(c) ==
  /\ At(c, "command")
  /\ \/ dev' = Started
     \/ status \in {"bsy", "drq"} /\ UNCHANGED dev
  /\ Goto(c, "bsy")
  /\ UNCHANGED <<req, got, sel, regs>>

WaitSector(c) == At(c, "bsy") /\ WaitBsy(c, "drq") /\ UNCHANGED <<req, got, sel, regs, dev>>

\* Mutant: the error bits are not looked at.
WaitDrqBlind(c) ==
  /\ At(c, "drq")
  /\ Goto(c, "data")
  /\ UNCHANGED <<req, got, sel, regs, dev>>

\* wait_drq: an error, data, or neither for 100000 polls.
WaitDrq(c) ==
  /\ At(c, "drq")
  /\ \/ status = "err" /\ Goto(c, "error")
     \/ status = "drq" /\ Goto(c, "data")
     \/ status \in {"idle", "bsy"} /\ Goto(c, "error")
  /\ UNCHANGED <<req, got, sel, regs, dev>>

\* The loop over the sectors ends.
LastSector(c) == Len(got'[c]) = req[c].count

\* 256 words from the data port; without DRQ they mean nothing.
Transfer(c) ==
  /\ At(c, "data")
  /\ IF status = "drq"
     THEN /\ got' = [got EXCEPT ![c] = Append(@, <<sel, dev[sel].lba>>)]
          /\ dev' = [dev EXCEPT ![sel] = IF @.left = 1 THEN Resting("idle")
                       ELSE [st |-> "bsy", lba |-> @.lba + 1, left |-> @.left - 1]]
     ELSE got' = [got EXCEPT ![c] = Append(@, Junk)] /\ UNCHANGED dev
  /\ Goto(c, IF LastSector(c) THEN "ok" ELSE "bsy")
  /\ UNCHANGED <<req, sel, regs>>

\* A drive finds the next sector, or fails to.
Answer(d) ==
  /\ dev[d].st = "bsy"
  /\ \/ dev' = [dev EXCEPT ![d].st = "drq"]
     \/ dev' = [dev EXCEPT ![d] = Resting("err")]
  /\ UNCHANGED <<pc, req, got, sel, regs, alone>>

Step(c) ==
  /\ \/ Select(c)
     \/ WaitReady(c)
     \/ Setup(c)
     \/ Command(c)
     \/ WaitSector(c)
     \/ WaitDrq(c)
     \/ Transfer(c)
  /\ alone' = Undisturbed(c)

DiskNext ==
  \/ \E c \in Callers, r \in Requests : Begin(c, r)
  \/ \E c \in Callers : Step(c)
  \/ \E d \in Drives : Answer(d)

DiskSpec == DiskInit /\ [][DiskNext]_DiskVars

\* A caller with interrupts off goes on executing.  Nothing is assumed of the
\* drives, nor of a probe, which the scheduler may leave waiting.
FairSpec ==
  /\ DiskSpec
  /\ \A c \in Callers \ Probes : WF_DiskVars(Step(c))
-----------------------------------------------------------------------------
\* What exec and mount expect when read_sectors returns Ok: the buffer holds
\* the sectors that were asked for, of that drive, from that LBA on, in that
\* order.
Asked(c) == got[c] = [i \in 1..req[c].count |-> <<req[c].drive, req[c].lba + i - 1>>]

\* A read that returns Ok has what was asked for, whatever was read before and
\* whatever the other drive of the channel still owes to a read that gave up,
\* if its own drive owed nothing when it began, no other caller touched the
\* channel since, and the LBA is one its drive can be told.  This much the
\* driver itself guarantees.
ReadsAsked ==
  \A c \in alone : pc[c] = "ok" /\ Named(req[c]) = req[c].lba => Asked(c)

\* A read under the VFS lock returns even when its drive never answers and
\* whatever a probe left behind on the channel, through the bounds on the
\* polls: it runs with interrupts off, so nothing else would end it.
CallReturns == \A c \in Callers \ Probes : (pc[c] = "select") ~> (pc[c] \in {"ok", "error"})

\* The same without the conditions, none of which read_sectors checks.
EveryReadAsked == \A c \in Callers : pc[c] = "ok" => Asked(c)
=============================================================================

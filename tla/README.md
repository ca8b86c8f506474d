# SarOSx64: TLA+ verification project

SarOSx64 is an x86_64 kernel in `no_std` Rust for one CPU. This directory holds
TLA+ models of its parts, the TLC configurations that check them on small
instances, and TLAPS proofs, for every size, about ten of them. `PROJECT.json` lists
runs, mutants, findings, hazards and the source lines behind each definition.

## The system and its concurrency

| Part | Source | Interacts with |
| --- | --- | --- |
| run queue, context switch | `proc.rs` | timer, keyboard, system calls |
| fork, waitpid, exec, ELF, stacks | `proc/` | run queue, user memory, VFS |
| spinlocks | `sync/spinlock.rs` | everything; a guard keeps interrupts off |
| frames, page tables and areas, heap | `mm/` | fork, exec, system calls |
| system call and interrupt entry | `arch/x86_64/`, `syscall.rs` | GS base, TSS, run queue |
| keyboard, serial line | `drivers/keyboard.rs`, `drivers/serial.rs` | run queue (wake-ups), shell |
| disk | `drivers/ide.rs` | FAT32 |
| VFS, ramfs, FAT32, MBR | `fs/` | shell, exec, disk |
| shell | `shell/` | keyboard, VFS, processes |
| console, bitmaps, PCI, log | `drivers/` | output only |

There is one CPU. What runs concurrently is interrupt handlers (IRQ0 timer, IRQ1
keyboard, IRQ4 serial; their gates clear IF) and threads that the timer or a sleep
switches between. A `SpinLock` guard disables interrupts, so a critical section is
one step of a model; what lies between two of them is where the interleavings are.
`syscall_entry` executes `sti`, and `int 0x80` is a trap gate: system calls run with
interrupts enabled.

## Modules

Each `MC*` module instantiates the module of that name for TLC.

**RunQueue** (`proc.rs`). `RUN_QUEUE` and the scheduling fields of a process, one
atomic action per operation: `Spawn`, `MarkSleeping`, `MarkDead`, `Yield`
(schedule), `Tick`, `WakeAll`. It is the abstract specification of the scheduler.

**Threads** (`proc.rs`, `keyboard.rs`, `fork.rs`, `syscall.rs`, `sync/spinlock.rs`). Whose
stack runs, IF, CR3, what each `CpuContext` holds, and how far each thread is in the blocking
read, waitpid, exit and `schedule()`, which is split where the code drops `RUN_QUEUE`.
Timer and keyboard interrupts are steps and come wherever IF = 1, between those two parts
of `schedule()` too. The `SpinLock` of each process is modelled: every step says which locks it
needs, a step that meets a held one spins, and `schedule()` leaves two guards on the stack it
switches away from (`proc.rs:290-292`). Threads implements RunQueue (`Refinement`). Its initial
state is the boot in which idle and the shell were both allocated.

**Frames, FrameAllocator, Pmm** (`mm/pmm.rs`). Frames has the geometry of blocks.
FrameAllocator is what clients may rely on: aligned runs of pages with one owner.
Pmm is the buddy allocator with each turn of its loops as a step; it implements
FrameAllocator. A free list is a set.

**Heap** (`mm/heap.rs`). Slab caches and page blocks over FrameAllocator's interface.
`realloc` is an alloc followed by a dealloc, two critical sections in the code as well.

**Vm** (`mm/vmm.rs`, `proc/fork.rs`, `syscall.rs`, `proc/exec.rs`). Areas, page tables at
page level, demand paging, mmap, munmap, brk, fork, exec, and the system calls that
write a user buffer. The branch of the page fault that calls `handle_cow` is not an action: VmProofs
shows that no fault gets there (`CowNeverReached`).

**Keyboard, KeyQueue** (`drivers/keyboard.rs`). Scancodes, modifiers and the ring
buffer; KeyQueue is the bounded FIFO it implements.

**Vfs** (`fs/ramfs.rs`, `fs/path.rs`, `fs/mount.rs`, `shell/builtins.rs`). The ramfs tree,
path walk with links and dots, mounts, current directory and the shell's commands.
Each command runs under the VFS lock and is one step; a command that fails
is no step except where it changes something before it fails.

**Ide** (`drivers/ide.rs`). Reads in PIO mode on one channel: selection, registers, command,
polls with their limits, transfer. A read under the VFS lock runs with interrupts off; the
shell's mount probes without it and may be interrupted between any two port accesses. `read_lba28`
keeps the low 28 bits of the sector number (`Named`). The drive is external: it becomes
ready or fails at any time or never, and a command written while it is busy or has data to
deliver drops either of the two commands, since what happens then is undefined. The history
variable `alone` has the reads that found their drive at rest and were not disturbed.

**PageTables** (`mm/vmm.rs`, `proc/fork.rs`). The four levels of tables as a function from
the frame of a table to its entries, with `map`, `unmap`, `translate`, the copy and the
protection that fork makes, and what Drop frees, for pages below the kernel half. Operators only.

**Exec** (`proc/elf.rs`, `proc/stack.rs`, `proc/exec.rs`, `Process::new_user`). The making of
a program's memory page by page: address space, segments, stack pages, and the strings,
pointers and auxiliary vector on the stack, with every error return; and what
`sys_execve_simple` reads from that memory when the program calls execve.

**Spaces** composes Exec with the fork, demand paging, munmap and Drop of the loaded
program and its child, over the same tables and frames. **Mappings** is the abstract
specification of all this: one function from pages to entries for each process.

**Fat32** (`fs/fat32.rs`, `fs/mbr.rs`). The partition table, `probe_drive` and `probe`,
`cluster_chain`, the file read and `read_dir_entries`, over every small file allocation
table whose entries are clusters of the volume, free or end marks, and every small directory. What the drive holds at a sector is defined by laying
out the volume as a sequence of sectors, not by the arithmetic of `cluster_lba`.

**SyscallEntry** (`arch/x86_64/syscall_entry.rs`, `gdt.rs`, `proc/fork.rs`, `proc/exec.rs`). The
active GS base, `kernel_rsp`, `user_rsp`, TSS.rsp0, CR3 and the frames of the PML4s through syscall,
int 0x80, switches, exit, fork with `fork_child_return`, and exec, whose assignment of the new
space, `set_kernel_stack` and `activate` are steps. `schedule()` is one step that may pick anybody,
the running process too, and may allocate when the queue grows. The locks it leaves held are
in Threads and not here: SyscallEntry looks at more switches than those locks permit.

**ThreadsProofs, PmmProofs, HeapProofs, VmProofs, VfsProofs** and **Fat32Proofs** hold the
theorems about the module of that name, **ProcessProofs** those about RunQueue and SyscallEntry,
**DriverProofs** those about Keyboard and Ide. SyscallEntry and Ide therefore name their
specifications `EntrySpec` and `DiskSpec`, and the parts of these likewise.

## Runs that pass

| Run | Shows | Instance |
| --- | --- | --- |
| `run_queue` | no process lost or queued twice; only current Running; `schedule()` finds somebody; the most urgent take turns | idle, shell, 2 user processes, slices of 3 |
| `threads` | no lost wake-up, contexts not mixed up, running stack and CR3 belong to current; implements RunQueue | idle, shell, 3 user processes, slices of 3, buffer of 2 |
| `pmm` | no overlap, all pages accounted for, failure only without a free aligned run; implements FrameAllocator | orders 0..2, a map with ragged and low entries |
| `heap` | live objects disjoint and aligned, slab lists consistent, pages returned | 3 pages, 2 classes, 6 layouts |
| `vm` | shared frames read-only, mapped frames not free, mappings inside areas | 2 processes, 2 pages, 2 frames |
| `exec` | segments are loaded where and as the program expects; the initial stack reads back as argv, envp and auxiliary vector, also through execve; each table is freed once, and only when unused; the four levels implement Mappings | 367 programs, 5 sets of arguments, 0 to 27 frames, pages of 16 bytes, tables of 2 entries |
| `keyboard` | ring buffer is a FIFO; no modifier stuck | buffer of 3, 3 modifiers |
| `vfs` | ramfs stays a tree; the longest mount point decides; what is written is read back; a command removes no more than it should | 3 inodes, 5 paths, 2 mounts, 1 volume |
| `ide` | a read that nobody disturbed and whose drive owed nothing delivers what was asked for; every read under the VFS lock returns, whatever a probe does | a probe and a locked reader, 2 drives, one of them LBA28, 1 or 2 sectors |
| `fat32` | the right bytes of the mounted volume in the right places; each file gets the long name before it; cycles end | 4 drives, 2 clusters of 1 or 2 sectors, limit 2 |
| `syscall_entry` | own kernel stack; CR3 at the tables of the process that runs, or in exec at tables nobody has | 3 programs, 1 kernel thread, 3 frames |

What these runs do not show:

- `threads` shows little of what happens after the first `context_switch`: both processes are
  locked from then on, and the next tick, key, fork, exit or waitpid spins (below). So the properties hold
  in part because the CPU stops before it could break them. `ContextOwned` and `NoLostWakeup`
  say so in their comments, and with the guards dropped before the switch `ContextOwned` fails.
  Liveness is not among the properties for the same reason.
- `vm` has one value of data (`Data = {0}`). Its properties are about mappings and do
  not tell values apart; what memory contains is the subject of `PrivateMemory`, which fails.
- `ReadsAsked` of `ide` is about reads in `alone` of sectors the drive can be told. Without these
  conditions it is `EveryReadAsked`, which fails (below).
- `NoIdleSlab` of `heap` excludes a class with one object to the page. Its slab, once made,
  is never given back (`heap.rs:119-131`).
- `ImageLoaded` is about programs whose segments share no page (`Separate`). `load_elf` maps a
  new zeroed frame for every page of a segment (`elf.rs:220-230`), so a second segment in the
  same page replaces what the first one put there.
- `StackReads` speaks of execve for lists and strings within the limits. A list of exactly
  256 arguments is beyond them, because the limit is tested before the terminator is read;
  `sys_execve_simple` then goes on with an empty list (`exec.rs:353-354`).
- `TablesAccounted` counts as `lost` the tables that `clone_address_space` had copied when a
  frame was missing (`fork.rs:29`); nothing frees them. Frames of user pages are never
  freed either and stay in `taken`.
- `TablesOwn` says whose tables CR3 may have while exec has freed the old ones and not yet
  activated the new ones. That nobody overwrites them is `NothingLost`, which fails (below).
- The modules that define `TypeOK` do not list it in their runs. It holds on the instances
  above when added as an INVARIANT, and is proved for five of them.

## The run that finds a disagreement

| Run | Property | What the code does |
| --- | --- | --- |
| `thread_locks` | `LockReleased` | guards live across `context_switch`; the next tick spins |

The finding in `PROJECT.json` quotes the comment it contradicts.

## Further disagreements

The modules state these properties too. No run lists them; TLC refutes each one when the
configuration named (and for two of them the module) is changed as described and checks that
property alone.

| Property | Change | What the code does |
| --- | --- | --- |
| `ExitReschedules` | `RunQueue.cfg` | `syscall.rs:78-79` says the next interrupt reschedules after an exit that found nobody. `schedule()` then leaves current None, and `tick()` never schedules. It takes a boot that could not allocate idle (`main.rs:92-95`): with idle in every initial state the property holds |
| `ContextOwned` | `Threads.cfg`, `SwitchTo` with the body of `SwitchToReleasing` | were the guards dropped before the switch, as `LockReleased` asks for, a tick between `drop(rq)` and `context_switch` (`proc.rs:273-292`) would save one thread's registers in another's context |
| `WaitpidReturns` | `ThreadLocks.cfg`, `UserSet = {u1, u2}`, the same `SwitchTo` | exit marks the process Dead (`syscall.rs:71-76`); waitpid looks for Zombie (`fork.rs:315-333`), which nothing sets, and nobody wakes the parent |
| `LegalAccessServed` | `Vm.cfg` | fork clears WRITABLE and leaves WRITE in the parent's areas; the write fault that follows is neither for `handle_cow` nor for demand paging (`vmm.rs:316-328`), and the kernel panics |
| `PrivateMemory` | `Vm.cfg`, `Data = {1}`, `Frames = 3`, `BufLen = 1` | system calls that fill a buffer write through `translate()`, which ignores WRITABLE, into pages shared by fork |
| `PrivateMemory` | `Vm.cfg`, `Data = {1}`, `Frames = 3`, `Proc = {p1}` | a buffer across a page boundary writes the next physical frame |
| `MountPointMade` | `Vfs.cfg` | `mount.rs:73` ignores that `mkdir_p` failed, for instance because a file has the name |
| `Transparent` | `Vfs.cfg`, and `<<"", ".", "d", "a">>` added to `MCPaths` | mounts are found by comparing strings: `/./d/a` misses the volume at `/d` |
| `EveryReadAsked` | `Ide.cfg` | it takes any of the conditions of `ReadsAsked` not to hold. `read_lba28` reads sector `lba % 2^28` (`Probes = {}` shows it). The late sectors of a command that timed out are taken by the next read of that drive (`Lba28 = {}`); this rests on the model's reading of what a drive does with a command it gets while it has data to deliver, which is undefined. `cmd_mount` probes without the VFS lock (`builtins.rs:315`) and interleaves with a locked read |
| `NothingLost` | `SyscallEntry.cfg` | exec drops the old space while CR3 is at its tables (`exec.rs:81`); a tick before `activate` whose `push_back` grows the queue can get a freed table's frame |
| `OwnRsp` | `SyscallEntry.cfg` | one `%gs:16` for all: a child in `fork_child_return` (`fork.rs:264-282`) takes the user stack pointer of whoever entered last |
| `StackAligned` | `Exec.cfg` | the cursor is rounded to 16 before an even number of words, the two lists and argc are pushed (`stack.rs:153-212`): rsp is a multiple of 16 only if argc + envc is odd |
| `GsReady` | `SyscallEntry.cfg` | nothing but `syscall_entry` swaps GS, so a switch inside a system call leaves the next one with the wrong base |

## Bounds

Bounds are the CONSTANTS of the configurations. They are chosen so that each
interesting case occurs: two processes of equal priority besides idle and shell (turns,
preemption, exit while others sleep); a keyboard buffer that fills and wraps; two buddies of
the largest order and entries that end inside a page; a slab class with one object to the page
(full and empty at once, as 2048 bytes has in the code); a break inside a page and fixed
mappings over it; nested mounts; long names over a cluster border; three programs, so that
two can be inside the kernel while a third starts. With two clusters and a limit of two, a
chain is too short for its file, or exceeds the limit by being a cycle; a chain of distinct
clusters longer than the limit does not occur. Counters are capped only where
named: `MaxIno`, `MaxDepth`, `MaxMounts`, `MaxCwd`, `Top`, `Frames`, `Limit`, `MaxSize`,
`MaxLen`, `Touched`, `PathMax`, `StringMax`, `ArgsMax`. Three inodes are the root and two more: a directory with one entry, or a file
and a link to it. Four are out of reach: TLC does not finish in ten minutes.

In `exec` a page has 16 bytes, a word one, a table two entries, and the PML4 one user entry: eight
pages, whose indices differ at the three lower levels; the index into the PML4 is the same
for all. Segments begin and end at, before and after page borders, two of them meet
in a page, are empty, longer in memory than in the file or cut short by it; the stack fits its committed
pages or not. Every program and set of arguments has 20 frames; a few programs have every number
from 0 to 27, so that memory runs out at each frame of a load, of a fork and after it. A
program forks once. In `fat32` a sector has two bytes or table entries and one directory
entry; the drives are a partition behind one of another type, a volume
without partitions whose boot code reads as a partition table, a FAT16 volume in a
partition marked FAT32 before a real one, and a drive with neither. Any read may fail.

`CHECK_DEADLOCK FALSE` stands where the system may stop: RunQueue when nobody is left to
run, Threads when the CPU spins, exec when the program is loaded and gone, Vm and SyscallEntry after a panic, Vfs because a failing command is no step.

## Fairness

- RunQueue: the timer keeps firing, and a call of `schedule()` that is owed is made.
- Threads: `thread_locks` alone uses fairness: strong fairness of the steps of a thread inside
  the kernel, which gets the CPU again and again while a slice is far longer than a step, and
  of the tick, which the PIC keeps pending while IF = 0. Nothing is assumed of user code or of keys.
- Ide: weak fairness of the steps of a caller under the VFS lock, which runs with interrupts
  off. Nothing is assumed of a probe, which the scheduler may leave waiting, or of the
  drives: that a read returns rests on the poll limits alone.

## Proofs

Each safety theorem has an inductive invariant: implied by Init, kept by every action (one
step of the proof for each), and implying the property. All hold for every value of the
constants that meets the named assumption of the module.

| Module | Theorems | Beyond the property, the invariant needs | Assumes |
| --- | --- | --- | --- |
| ProcessProofs (RunQueue) | `TypeCorrect`, `NeverLost`, `OneRunning`, `SomeoneToRun` | `schedule()` requeues current without asking whether it was created: current is not New; idle stays Runnable or current | `RunQueueAssumption` |
| ThreadsProofs | `NeverLostWakeup`, `ContextsRight`, `AlwaysRunsCurrent`, `ImplementsRunQueue` | `Booting`, `Alone`, `Left`: the three phases of a run, see below | `ThreadsAssumption` |
| PmmProofs | `TypeCorrect`, `NeverOverlap`, `AlwaysAccounted`, `NoFragmentation`, `ImplementsAllocator` | `Below`, `Natural`, `Covered`, `Counted`, `Edge`, `Unpaired`: see below | `PmmAssumption` (entries in order and disjoint, as the boot protocol promises), `FramesAssumption`; `NoFragmentation` also `Gaps` |
| HeapProofs | `NeverTwice`, `AlwaysAligned`, `CachesConsistent`, `NeverLeaks`, `NeverIdle` | `Core`, `Linked`, `Busy`: see below | `HeapAssumption` (classes divide the page and leave room for the header; an alignment divides every class and the page it does not exceed, as powers of two do), `FramesAssumption` |
| DriverProofs (Keyboard) | `TypeCorrect`, `NeverStuck`, `IsFifo` | the type suffices; the work is in what `% Size` does to the positions between tail and head | `KeyboardAssumption` |
| VmProofs | `TypeCorrect`, `SharingSafe`, `NeverMappedFree`, `AlwaysProtected`, `CowNeverReached` | sharing needs that no mapped frame is free; protection needs that munmap clears every page of an area it removes | `VmAssumption` |
| DriverProofs (Ide) | `AlwaysReadsAsked` | `Reading`: of a read in `alone`, the channel, the drive and the buffer agree on how far it is; nothing is said of the others | `IdeAssumption` |
| ProcessProofs (SyscallEntry) | `EntryTypes`, `AlwaysOwnStack`, `AlwaysTablesOwn` | `StackInv`: `kernel_rsp` is that of the running process; `RootInv`: address spaces in use and those an exec builds have frames of their own that are not free | `SyscallAssumption` |
| VfsProofs | `AlwaysSound`, `AlwaysTree`, `AlwaysLongestMount`, `AlwaysRemovesOne` | `TreeInv`: entries lead to inodes in use, never the root, and only directories have them; `MountsInv`: the mount table is sorted by the length of the strings | `VfsAssumption` |
| Fat32Proofs | `AlwaysReadExact`, `AlwaysChainBounded`, `AlwaysNamesRight` | `OnVolume`, `Follows`, `Copying`, `Scanning`: see below | `FatAssumption`, `DisksAssumption` (volumes do not overlap, and a table has an entry for every cluster) |

The threads. `kernel_main` executes until it has jumped to the shell (`Booting`); a tick between its
choice and the jump schedules again, and chooses the shell again, which idle does not outrank. Then
the shell's stack executes alone, with no lock held (`Alone`), and interrupts are off from its
check of the buffer to the switch. The first `context_switch` leaves the shell and the process
it goes to locked (`Left`), and every step that would schedule, wake or fork spins. The proof
therefore needs no restriction on where a tick may come.

The buddy allocator. While `init()` runs, all blocks lie below what is left of the region and
below later entries (`Below`); with that no two overlap. Blocks are naturally aligned (`Natural`),
so the buddy that XOR finds is the other half of one block of the next order. From there the
proof is about sets of pages: one lemma for each step says what it does to the free pages
(those of the lists and of the block being split or merged) and to the held ones. `AddBlock`,
`AllocDone` and `FreeStart` add, hand out and take back the pages of one block; every other step
leaves both sets alone. `ImplementsAllocator` follows. `Covered` says that the free pages are those of
the entries added so far and, of the current one, those below `addr`; afterwards free and held pages
together are the usable memory. `Counted` says that the counters are the sizes of these sets, less
what a running `free()` has not counted yet. `NoFragmentation` needs that a block and its
buddy are never both in the lists (`Unpaired`). `free()` merges them; `add_region` does not
look, so it needs `Edge`, that above the last block of a region there is no room for its buddy, and
`Gaps`, that the next region does not begin where this one ends. Then the smallest free
block of an aligned free run has a buddy whose first page is free too, and the block
that has it is the buddy or overlaps.

The heap. `Core` is the state of the caches as sets: slabs and page blocks have disjoint frames
and are all the heap holds, a slab is in one list of one class, its count is the number of
its live objects, its free objects are the others, and it is in the full list exactly when it
is full; every live object is at a place of a slab of its class or at the start of its
block. `Linked` says that the lists have no slab twice, so that `remove_from_full` and
`remove_from_partial` remove it; `Busy` that a slab with room for two has a live object. The
counts make it inductive: when the count reaches zero no live object is left, so the frame
may go; when the list is not full there is a free object.

The file tree. Where a path leads plays no part: each command tests what it has come to, so
the proof holds for any walk. `Tree` alone is not inductive: if a name led to an inode that was
freed, the next inode made would have two names. `Linked` excludes that. It is kept because
`Become` frees exactly what cannot be reached, and what can be reached from a set is closed
under names. For `RemovesOne`, an added entry takes nothing away, and the inode that
`unlink` or `rmdir` removes has no entries and no other name, so every other inode stays in
reach. `mount` inserts at the first shorter string, which keeps the table sorted by characters
(`Position`); two mount points that cover one path are prefixes of it, and of two prefixes the one
with more characters has no fewer components.

FAT32. `OnVolume` says that the `Fat32Ctx` has the geometry of a volume of the drive. From it
follows, by the uniqueness of quotient and remainder and because volumes do not overlap, that
the sectors `next_cluster` and `read_cluster` compute are those at which the volume was laid out.
So the chain follows the table (`Follows`), up to its end or one cluster past the limit.
`Copying` says that after `i` clusters the buffer has the bytes asked for that lie in
them, and no other. `Scanning` says that the entries returned so far are the files of the places
scanned, in order, and `lfn_chunks` are the chunks directly before the next place. `Nth`, which
`ReadExact` and `NamesRight` are stated with, is a recursive function; that it is the chain, as
far as that goes, is shown with a least counterexample.

`ImplementsRunQueue`, `IsFifo` and `ImplementsAllocator` are refinements: the initial states map to
initial states and each step to one step of the abstract specification or to none. The first is about
the safety part; Threads does not implement the fairness of RunQueue, because it may spin.

Only model-checked:

- Liveness (`RoundRobin`, `CallReturns`), which is out of the
  prover's reach.
- `WriteReads` of Vfs. It compares two walks of the same path, before and after the write,
  through links to a bounded depth: an induction over depth and path at once, and so is
  already that the recursive function `Walk` of `ResolveFrom` exists.
- `ImageLoaded`, `StackReads`, `TablesAccounted` and `FlatView` of Exec and Spaces. Their
  definitions walk four levels of tables and build the strings of a stack by recursion over data.

Where a proof needs induction over numbers, as for the sizes of blocks dividing each
other or for `Nth`, it takes a least counterexample: `Least`, from the well-foundedness of `<`.

## Not modelled

- Register contents, among them what fork's child pops, and the assembly of the stubs. No
  program writes its GS base.
- Pages of the kernel half. `map`, `load_elf` and an mmap with MAP_FIXED do not refuse such
  addresses; the models give them none.
- Entries of an allocation table that name no cluster of the volume, up to the mark of a bad
  cluster, 0x0FFFFFF7. `next_cluster` takes them for clusters (`fat32.rs:58`) and would follow them to
  sectors past the volume.
- Large pages: `map_range` and `map_large` have no callers. CPIO archives and the ELF
  interpreter: `INITRD` is never set, and `load_file_from_initrd` finds nothing.
  `sys_execve` has no caller; `sys_execve_simple` is the one that is modelled.
- Line editing, the parsing of a command line and the console: sequential code on data
  nobody shares. The bytes of ELF headers, 8.3 names and Unicode: decoding.
- Disk writes (no caller); identification of drives, PIC, GDT, IDT, PCI and boot: port I/O
  and tables written once.
- Appending and offsets in ramfs: every writer replaces the whole file.
- Bitmaps, the log and the serial output: output only.

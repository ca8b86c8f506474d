-------------------------------- MODULE Exec --------------------------------
(***************************************************************************)
(* How exec and Process::new_user make the memory of a program:            *)
(* AddressSpace::new_user and map of src/mm/vmm.rs, load_elf of            *)
(* src/proc/elf.rs and build_user_stack of src/proc/stack.rs, up to the    *)
(* point where the process gets the new address space, or to the error     *)
(* that drops it.                                                          *)
(*                                                                         *)
(* The memory is private until then, so nothing interleaves; what varies   *)
(* is the program, its arguments and the frame at which memory runs out.   *)
(* Frames are interchangeable: the least free one is taken.  A word takes  *)
(* WORD addresses.                                                         *)
(***************************************************************************)
EXTENDS PageTables, Sequences, FiniteSetsExt

CONSTANTS
  Cases,           \* the inputs: the ELF file, what exec is called with (argv,
                   \* envp, path), and how many frames are free
  PAGE_SIZE, WORD, PIE_BASE, USER_STACK_TOP, USER_STACK_SIZE,
  Committed,       \* initial_committed, in pages
  KernelStack,     \* KERNEL_STACK_SIZE, in pages
  PathMax, StringMax, ArgsMax   \* the limits of sys_execve_simple: 4096, 65536, 256

ASSUME ExecAssumption ==
  /\ {PAGE_SIZE, WORD, Committed, KernelStack, PathMax, StringMax, ArgsMax} \subseteq Nat \ {0}
  /\ PIE_BASE % PAGE_SIZE = 0 /\ USER_STACK_TOP % PAGE_SIZE = 0
  /\ USER_STACK_TOP \div PAGE_SIZE \in Pages \cup {UserEntries * Entries^3}

VARIABLES
  prog, call, total,   \* the inputs
  pc,                  \* where exec is
  seg, at,             \* the program header, and the page or byte in its loop
  root, tables,        \* the new address space: its PML4, and all tables
  bytes,               \* what is in the frames of its pages
  areas,               \* the areas of the new VmSpace
  free,                \* the free frames
  taken,               \* the frames that were taken for pages and kernel stacks
  brk, rsp             \* what the program starts with

vars == <<prog, call, total, pc, seg, at, root, tables, bytes, areas, free, taken, brk, rsp>>

Top == USER_STACK_TOP \div PAGE_SIZE
NoPhdr == -1   \* pt_phdr of a file without PT_PHDR

Init ==
  /\ \E c \in Cases : prog = c.prog /\ call = c.call /\ total = c.total
  /\ pc = "start" /\ seg = 1 /\ at = 0
  /\ root = NoFrame /\ tables = <<>> /\ bytes = <<>> /\ areas = {}
  /\ free = 1..total /\ taken = {} /\ brk = 0 /\ rsp = 0

inputs == <<prog, call, total>>
-----------------------------------------------------------------------------
align_down(a, n) == a - (a % n)
align_up(a, n) == align_down(a + n - 1, n)

\* An error return drops the address space t: free_user_page_tables frees the
\* tables, and not the frames that were taken for pages.
Fail(t, left, gone) ==
  /\ pc' = "error" /\ root' = NoFrame
  /\ tables' = Restrict(t, DOMAIN t \ UserTables(t, root))
  /\ free' = left \cup Freed(t, root) /\ taken' = gone
  /\ UNCHANGED <<inputs, seg, at, bytes, areas, brk, rsp>>

\* Process::new_user takes a kernel stack first and does not return it.
\* AddressSpace::new_user, then the checks of the ELF header and of PT_INTERP,
\* whose error drops the address space again.
Start ==
  LET stack == IF call.spawn THEN 1..KernelStack ELSE {}
      left == free \ stack
  IN /\ pc = "start"
     /\ IF ~(stack \subseteq free) \/ left = {} \/ ~prog.valid
        THEN /\ pc' = "error" /\ UNCHANGED <<root, tables>>
             /\ taken' = IF stack \subseteq free THEN stack ELSE {}
             /\ free' = free \ taken'
        ELSE /\ pc' = "segment" /\ root' = Min(left)
             /\ tables' = (root' :> KernelHalf)
             /\ taken' = stack /\ free' = left \ {root'}
     /\ UNCHANGED <<inputs, seg, at, bytes, areas, brk, rsp>>

Slide == IF prog.pie THEN PIE_BASE ELSE 0
Phdr == prog.phdrs[seg]
PageVaddr(ph) == align_down(ph.vaddr + Slide, PAGE_SIZE)
PageEnd(ph) == align_up(ph.vaddr + Slide + ph.memsz, PAGE_SIZE)

\* The head of load_elf's second loop.
Segment ==
  /\ pc = "segment" /\ seg <= Len(prog.phdrs)
  /\ IF Phdr.memsz = 0
     THEN seg' = seg + 1 /\ UNCHANGED <<pc, at>>
     ELSE pc' = "map" /\ at' = PageVaddr(Phdr) \div PAGE_SIZE /\ UNCHANGED seg
  /\ UNCHANGED <<inputs, root, tables, bytes, areas, free, taken, brk, rsp>>

\* map of a new zeroed frame at page at, mapped already or not.
NewFrame == Min(free)
MapNew(w) == map(tables, free \ {NewFrame}, root, at, NewFrame, w)
Blank == [o \in 0..(PAGE_SIZE - 1) |-> 0]

Take(r) ==
  /\ tables' = r.tables /\ free' = r.free /\ taken' = taken \cup {NewFrame}
  /\ bytes' = bytes @@ (NewFrame :> Blank)

\* No frame for the page, or none for a table above it, is an error.
MapPage ==
  /\ pc = "map" /\ at < PageEnd(Phdr) \div PAGE_SIZE
  /\ IF free = {} THEN Fail(tables, free, taken)
     ELSE LET r == MapNew(Phdr.w)
          IN IF r.table = NoFrame
             THEN Fail(r.tables, r.free, taken \cup {NewFrame})
             ELSE Take(r) /\ at' = at + 1 /\ UNCHANGED <<inputs, pc, seg, root, areas, brk, rsp>>

\* All pages of the segment are mapped: add_vma, and the check of the range
\* in the file.
Mapped ==
  /\ pc = "map" /\ at = PageEnd(Phdr) \div PAGE_SIZE
  /\ IF Phdr.filesz > 0 /\ Phdr.offset + Phdr.filesz > prog.len
     THEN Fail(tables, free, taken)
     ELSE /\ areas' = areas \cup {[lo |-> PageVaddr(Phdr), hi |-> PageEnd(Phdr), w |-> Phdr.w]}
          /\ pc' = IF Phdr.filesz > 0 THEN "copy" ELSE "segment"
          /\ at' = 0 /\ seg' = IF Phdr.filesz > 0 THEN seg ELSE seg + 1
          /\ UNCHANGED <<inputs, root, tables, bytes, free, taken, brk, rsp>>

\* What the file holds at offset k: a byte that differs from every other one.
Data(k) == k + 1

\* Mutant: each chunk goes to the beginning of its page.
ChunkAtPageStart(v, n) == [o \in 0..(n - 1) |-> Data(Phdr.offset + at + o)]

\* The bytes of the file that go to the page of v, by their place in the page.
Chunk(v, n) ==
  LET first == v % PAGE_SIZE
  IN [o \in first..(first + n - 1) |-> Data(Phdr.offset + at + o - first)]

\* One round of the copy loop: as much as fits into the page.
Copy ==
  LET v == Phdr.vaddr + Slide + at
      f == Lookup(tables, root, v \div PAGE_SIZE).frame
      n == Min({Phdr.filesz - at, PAGE_SIZE - (v % PAGE_SIZE)})
  IN /\ pc = "copy"
     /\ IF f = NoFrame
        THEN Fail(tables, free, taken)
        ELSE /\ bytes' = [bytes EXCEPT ![f] = Chunk(v, n) @@ @]
             /\ at' = at + n
             /\ pc' = IF at' < Phdr.filesz THEN "copy" ELSE "segment"
             /\ seg' = IF at' < Phdr.filesz THEN seg ELSE seg + 1
             /\ UNCHANGED <<inputs, root, tables, areas, free, taken, brk, rsp>>

\* The end of load_elf; exec refuses a program with an interpreter, because
\* load_file_from_initrd finds nothing, and Process::new_user starts it alone.
\* map_user_stack begins with its area.
Loaded ==
  LET ends == {prog.phdrs[i].vaddr + prog.phdrs[i].memsz : i \in DOMAIN prog.phdrs}
  IN /\ pc = "segment" /\ seg > Len(prog.phdrs)
     /\ IF prog.interp /\ ~call.spawn
        THEN Fail(tables, free, taken)
        ELSE /\ brk' = align_up(Max(ends \cup {0}) + Slide, PAGE_SIZE)
             /\ areas' = areas \cup
                  {[lo |-> USER_STACK_TOP - USER_STACK_SIZE, hi |-> USER_STACK_TOP, w |-> TRUE]}
             /\ pc' = "map_stack" /\ at' = Top - Committed
             /\ UNCHANGED <<inputs, seg, root, tables, bytes, free, taken, rsp>>

\* map_user_stack: no frame for the page is an error; no frame for a table is
\* not, and leaves the page out.
MapStack ==
  /\ pc = "map_stack" /\ at < Top
  /\ IF free = {} THEN Fail(tables, free, taken)
     ELSE Take(MapNew(TRUE)) /\ at' = at + 1 /\ UNCHANGED <<inputs, pc, seg, root, areas, brk, rsp>>

StackMapped ==
  /\ pc = "map_stack" /\ at = Top
  /\ pc' = "stack"
  /\ UNCHANGED <<inputs, seg, at, root, tables, bytes, areas, free, taken, brk, rsp>>
-----------------------------------------------------------------------------
(***************************************************************************)
(* build_user_stack.                                                       *)
(***************************************************************************)
\* The numbers of the auxiliary vector.
AT == [null |-> 0, phdr |-> 3, phent |-> 4, phnum |-> 5, pagesz |-> 6, base |-> 7,
       flags |-> 8, entry |-> 9, uid |-> 11, euid |-> 12, gid |-> 13, egid |-> 14,
       random |-> 25, execfn |-> 31]

\* load_base and phdr_vaddr of LoadedElf. Without PT_PHDR, or with one at
\* address 0, the program headers are looked for in the first PT_LOAD segment
\* with the beginning of the file.
LoadBase == IF prog.pie THEN PIE_BASE ELSE Min({prog.phdrs[i].vaddr : i \in DOMAIN prog.phdrs})

PhdrVaddr ==
  LET told == IF prog.pt_phdr = NoPhdr THEN 0 ELSE prog.pt_phdr + Slide
      heads == {i \in DOMAIN prog.phdrs : prog.phdrs[i].offset = 0}
  IN IF told # 0 \/ prog.phoff = 0 \/ heads = {} THEN told
     ELSE prog.phdrs[Min(heads)].vaddr + Slide + prog.phoff

\* Strings are written downwards from top, the last one first, each with a
\* byte more than it has: where string i begins.
StringPtr(top, strs, i) ==
  top - MapThenSumSet(LAMBDA j : Len(strs[j]) + 1, i..Len(strs))

\* Mutant: the pointers of the strings in the order they were written.
StringPtrsAsWritten(top, strs) == Reverse([i \in DOMAIN strs |-> StringPtr(top, strs, i)])

StringPtrs(top, strs) == [i \in DOMAIN strs |-> StringPtr(top, strs, i)]

RandomPtr == USER_STACK_TOP - 2 * WORD
ExecfnPtr == RandomPtr - (Len(call.path) + 1)
EnvTop == StringPtr(ExecfnPtr, call.argv, 1)
StringsEnd == StringPtr(EnvTop, call.envp, 1)
ArgvPtrs == StringPtrs(ExecfnPtr, call.argv)
EnvpPtrs == StringPtrs(EnvTop, call.envp)

\* The words in the order they are pushed below the strings.
Pushes ==
  <<0, AT.null, ExecfnPtr, AT.execfn, RandomPtr, AT.random, prog.entry + Slide, AT.entry,
    0, AT.flags, LoadBase, AT.base, PAGE_SIZE, AT.pagesz, Len(prog.phdrs), AT.phnum,
    prog.phentsize, AT.phent, PhdrVaddr, AT.phdr, 0, AT.egid, 0, AT.gid, 0, AT.euid, 0, AT.uid>>
  \o <<0>> \o Reverse(EnvpPtrs) \o <<0>> \o Reverse(ArgvPtrs) \o <<Len(call.argv)>>

WordsTop == align_down(StringsEnd, 2 * WORD)
InitialRsp == WordsTop - WORD * Len(Pushes)

\* What write_at writes, by address: a string that begins at ptr, the words.
StringAt(str, ptr) == [a \in ptr..(ptr + Len(str) - 1) |-> str[a - ptr + 1]]
WordsAt ==
  LET pushes == Pushes
      top == WordsTop
  IN [a \in {top - WORD * i : i \in DOMAIN pushes} |-> pushes[(top - a) \div WORD]]

Written ==
  {WordsAt, StringAt(<<222, 173>>, RandomPtr), StringAt(call.path, ExecfnPtr)}
  \cup {StringAt(call.argv[i], ArgvPtrs[i]) : i \in DOMAIN call.argv}
  \cup {StringAt(call.envp[i], EnvpPtrs[i]) : i \in DOMAIN call.envp}

\* write_at fails on an address below the committed pages, or in a page that
\* could not be mapped.
BuildStack ==
  LET written == Written
      addrs == UNION {DOMAIN w : w \in written}
      value == [a \in addrs |-> (CHOOSE w \in written : a \in DOMAIN w)[a]]
      frame == [pg \in {a \div PAGE_SIZE : a \in addrs} |-> Lookup(tables, root, pg).frame]
      page == AntiFunction(frame)
      In(f, o) == PAGE_SIZE * page[f] + o
  IN /\ pc = "stack"
     /\ IF NoFrame \in Range(frame)
        THEN Fail(tables, free, taken)
        ELSE /\ bytes' = [f \in Range(frame) |->
                  [o \in 0..(PAGE_SIZE - 1) |-> IF In(f, o) \in addrs THEN value[In(f, o)] ELSE bytes[f][o]]]
                @@ bytes
             /\ rsp' = InitialRsp
             /\ pc' = "ready"
             /\ UNCHANGED <<inputs, seg, at, root, tables, areas, free, taken, brk>>

Next ==
  \/ Start
  \/ Segment
  \/ MapPage
  \/ Mapped
  \/ Copy
  \/ Loaded
  \/ MapStack
  \/ StackMapped
  \/ BuildStack

Spec == Init /\ [][Next]_vars
-----------------------------------------------------------------------------
(***************************************************************************)
(* What sys_execve_simple reads from the memory of the program when that   *)
(* calls execve in its turn, through translate at every byte and word.     *)
(***************************************************************************)
PageEntry(a) == Lookup(tables, root, a \div PAGE_SIZE)
Readable(a) == is_present(PageEntry(a))
Byte(a) == bytes[PageEntry(a).frame][a % PAGE_SIZE]

\* The string at ptr ends after n bytes.
EndsAfter(ptr, n) ==
  /\ \A j \in 0..(n - 1) : Readable(ptr + j) /\ Byte(ptr + j) # 0
  /\ Readable(ptr + n) /\ Byte(ptr + n) = 0

\* read_user_string_from returns at a byte that is not mapped, and at its limit.
IsString(ptr, max) == ptr # 0 /\ \E n \in 0..(max - 1) : EndsAfter(ptr, n)

read_user_string_from(ptr, max) ==
  LET n == CHOOSE k \in 0..(max - 1) : EndsAfter(ptr, k)
  IN [i \in 1..n |-> Byte(ptr + i - 1)] \o <<0>>

\* read_string_array; what it cannot read gives None, which sys_execve_simple
\* takes for an empty list.
ListEnds(ptr, n) ==
  LET slot(i) == ptr + WORD * i
  IN /\ \A i \in 0..(n - 1) : Readable(slot(i)) /\ IsString(Byte(slot(i)), StringMax)
     /\ Readable(slot(n)) /\ Byte(slot(n)) = 0

read_string_array(ptr) ==
  IF ptr = 0 \/ ~\E n \in 0..(ArgsMax - 1) : ListEnds(ptr, n) THEN <<>>
  ELSE LET n == CHOOSE k \in 0..(ArgsMax - 1) : ListEnds(ptr, k)
       IN [i \in 1..n |-> read_user_string_from(Byte(ptr + WORD * (i - 1)), StringMax)]

\* The arguments sys_execve_simple hands to exec, unless it returns EFAULT.
execve_args(pathname, argv_ptr, envp_ptr) ==
  IF ~IsString(pathname, PathMax) THEN [efault |-> TRUE]
  ELSE [path |-> read_user_string_from(pathname, PathMax),
        argv |-> read_string_array(argv_ptr), envp |-> read_string_array(envp_ptr)]
-----------------------------------------------------------------------------
(***************************************************************************)
(* Properties.                                                             *)
(***************************************************************************)

PagesOf(ph) == (PageVaddr(ph) \div PAGE_SIZE)..(PageEnd(ph) \div PAGE_SIZE - 1)

\* No two segments meet in a page, as linkers lay them out.
Separate ==
  \A i, j \in {k \in DOMAIN prog.phdrs : prog.phdrs[k].memsz > 0} :
    i # j => PagesOf(prog.phdrs[i]) \cap PagesOf(prog.phdrs[j]) = {}

\* When load_elf and build_user_stack have succeeded, every segment is in
\* memory where the program expects it: its bytes of the file, zeros after
\* them, the segment's rights in the page table and in the area that
\* find_vma will find, and brk above all of it. Segments begin and end
\* anywhere in a page, and the copy is made page by page.
ImageLoaded ==
  pc = "ready" /\ Separate =>
    \A i \in DOMAIN prog.phdrs : \A k \in 0..(prog.phdrs[i].memsz - 1) :
      LET ph == prog.phdrs[i]
          a == ph.vaddr + Slide + k
      IN /\ Readable(a)
         /\ Byte(a) = IF k < ph.filesz THEN Data(ph.offset + k) ELSE 0
         /\ PageEntry(a).w = ph.w
         /\ \A ar \in areas : ar.lo <= a /\ a < ar.hi => ar.w = ph.w
         /\ a < brk

\* What the startup code of a program reads from the stack it is given.
CString(a) ==
  LET n == CHOOSE k \in 0..USER_STACK_TOP : Byte(a + k) = 0 /\ \A j \in 0..(k - 1) : Byte(a + j) # 0
  IN [i \in 1..n |-> Byte(a + i - 1)]
WordAt(i) == Byte(rsp + WORD * i)
Strings(first, n) == [i \in 1..n |-> CString(WordAt(first + i - 1))]
Chars(str) == SelectSeq(str, LAMBDA b : b # 0)

\* The segment with the beginning of the file holds the program headers.
HeadersLoaded ==
  \E i \in DOMAIN prog.phdrs : prog.phdrs[i].offset = 0 /\ 0 < prog.phoff /\ prog.phoff < prog.phdrs[i].filesz

\* Room for the terminator of every string and list.
WithinLimits ==
  /\ Len(Chars(call.path)) < PathMax /\ Len(call.argv) < ArgsMax /\ Len(call.envp) < ArgsMax
  /\ \A str \in Range(call.argv) \cup Range(call.envp) : Len(str) <= StringMax

\* build_user_stack is understood: read the way a C runtime reads it, the
\* memory at initial_rsp gives back argc, argv, envp, each list ended by a
\* null pointer, and an auxiliary vector that leads to the entry point, to the
\* path and to where the program headers were loaded. A program that passes
\* what it got on to execve passes on all of it, within the limits there.
StackReads ==
  pc = "ready" =>
    LET argc == WordAt(0)
        envc == Len(call.envp)
        aux == argc + envc + 3
        Aux(n) == WordAt(aux + 1 + 2 * (CHOOSE k \in 0..13 : WordAt(aux + 2 * k) = n))
    IN /\ argc = Len(call.argv)
       /\ Strings(1, argc) = [i \in 1..argc |-> Chars(call.argv[i])]
       /\ WordAt(argc + 1) = 0
       /\ Strings(argc + 2, envc) = [i \in 1..envc |-> Chars(call.envp[i])]
       /\ WordAt(argc + envc + 2) = 0
       /\ WordAt(aux + 2 * 13) = AT.null
       /\ Aux(AT.entry) = prog.entry + Slide
       /\ CString(Aux(AT.execfn)) = Chars(call.path)
       /\ WithinLimits => execve_args(Aux(AT.execfn), rsp + WORD, rsp + WORD * (argc + 2))
                             = [path |-> Chars(call.path) \o <<0>>, argv |-> call.argv, envp |-> call.envp]
       /\ HeadersLoaded /\ Separate => Byte(Aux(AT.phdr)) = Data(prog.phoff)

\* The stack pointer a program starts with, as the rounding of the cursor to
\* sixteen bytes before the words are pushed intends it.
StackAligned == pc = "ready" => rsp % (2 * WORD) = 0
=============================================================================

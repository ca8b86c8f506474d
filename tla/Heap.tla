-------------------------------- MODULE Heap --------------------------------
(***************************************************************************)
(* The kernel heap of src/mm/heap.rs: a slab cache per size class, and     *)
(* whole blocks of pages for what fits no class.  Each of alloc and dealloc *)
(* is one critical section of ALLOCATOR.  Pages come from the physical     *)
(* memory manager through the interface FrameAllocator that Pmm implements.*)
(*                                                                         *)
(* Addresses are numbers.  A slab is the page its header lies in, named by *)
(* the address of the page.                                                *)
(***************************************************************************)
EXTENDS Frames, Sequences, FiniteSets, Functions

CONSTANTS
  Class,      \* SLAB_SIZES
  Header,     \* size_of::<Slab>()
  Layouts,    \* the layouts clients ask for: records of size and align
  Memory      \* the addresses of the pages that are free at boot

\* The sizes of classes and of a page, and the alignment of every Layout, are
\* powers of two: the smaller of two divides the larger.
ASSUME HeapAssumption ==
  /\ Class \subseteq Nat \ {0}
  /\ \A c \in Class : PageSize % c = 0 /\ 2 * c <= PageSize
  /\ Header \in Nat /\ \A c \in Class : Header + c <= PageSize
  /\ Memory \subseteq Nat /\ \A a \in Memory : a % PageSize = 0
  /\ Layouts \subseteq [size : Nat \ {0}, align : Nat \ {0}]
  /\ \A l \in Layouts : \A c \in Class \cup {PageSize} : l.align <= c => c % l.align = 0

VARIABLES
  pages, held,     \* FrameAllocator
  partial, full,   \* SlabCache: for each class, two lists of slabs
  free, used,      \* Slab: the free objects and the count of those in use
  live             \* what clients hold: records of addr, size and align

slabs == <<partial, full, free, used>>
vars == <<pages, held, partial, full, free, used, live>>

PMM == INSTANCE FrameAllocator

TypeOK ==
  /\ pages \subseteq Memory /\ held \subseteq Blocks
  /\ partial \in [Class -> Seq(Memory)] /\ full \in [Class -> Seq(Memory)]
  /\ free \in [Memory -> SUBSET Nat] /\ used \in [Memory -> Nat]
  /\ live \subseteq [addr : Nat, size : Nat, align : Nat]

Init ==
  /\ pages = Memory /\ held = {}
  /\ partial = [c \in Class |-> <<>>] /\ full = [c \in Class |-> <<>>]
  /\ free = [s \in Memory |-> {}] /\ used = [s \in Memory |-> 0]
  /\ live = {}
-----------------------------------------------------------------------------
(***************************************************************************)
(* Geometry.                                                               *)
(***************************************************************************)
\* Slab::new: the header is rounded up to a multiple of the object size.
HeaderSize(c) == ((Header + c - 1) \div c) * c

\* Mutant: the header is not subtracted.
CapacityOfPage(c) == PageSize \div c

Capacity(c) == (PageSize - HeaderSize(c)) \div c

Objects(s, c) == {s + HeaderSize(c) + i * c : i \in 0 .. Capacity(c) - 1}

\* remove_from_full and remove_from_partial: the first entry that is s leaves
\* the list.
CutAt(list, i) == SubSeq(list, 1, i - 1) \o SubSeq(list, i + 1, Len(list))
Unlink(list, s) ==
  IF s \in Range(list)
  THEN CutAt(list, CHOOSE i \in DOMAIN list : list[i] = s /\ \A j \in 1 .. i - 1 : list[j] # s)
  ELSE list

\* Mutant: alignment is not considered.
NeedSize(l) == l.size

Need(l) == IF l.size > l.align THEN l.size ELSE l.align

\* find_cache: the smallest class with room.  Both alloc and dealloc first ask
\* whether size and alignment are at most the largest class.
Small(l) == \E c \in Class : Need(l) <= c
CacheOf(l) == CHOOSE c \in Class : Need(l) <= c /\ \A d \in Class : Need(l) <= d => c <= d

Pages(l) == (l.size + PageSize - 1) \div PageSize

\* pages.next_power_of_two() as an order.  The memory manager returns None for
\* an order above MAX_ORDER.
Fitting(l) == {o \in Orders : Pages(l) <= PageCount(o)}
Order(l) == CHOOSE o \in Fitting(l) : \A p \in Fitting(l) : o <= p

Page(a) == (a \div PageSize) * PageSize
Live(a, l) == [addr |-> a, size |-> l.size, align |-> l.align]
-----------------------------------------------------------------------------
(***************************************************************************)
(* alloc.  With no frame left it returns null and changes nothing.         *)
(***************************************************************************)
\* Slab::alloc on the slab at the front of the partial list ps, with free
\* objects fs and counts us: a slab that is now full moves over.
Take(c, l, ps, fs, us) ==
  LET s == Head(ps) IN
  \E obj \in fs[s] :
    /\ free' = [fs EXCEPT ![s] = @ \ {obj}]
    /\ used' = [us EXCEPT ![s] = @ + 1]
    /\ live' = live \cup {Live(obj, l)}
    /\ IF us[s] + 1 = Capacity(c)
       THEN /\ partial' = [partial EXCEPT ![c] = Tail(ps)]
            /\ full' = [full EXCEPT ![c] = <<s>> \o @]
       ELSE /\ partial' = [partial EXCEPT ![c] = ps]
            /\ UNCHANGED full

AllocFromSlab(l) ==
  /\ Small(l) /\ partial[CacheOf(l)] # <<>>
  /\ Take(CacheOf(l), l, partial[CacheOf(l)], free, used)
  /\ UNCHANGED <<pages, held>>

\* Slab::new on a fresh frame, and the allocation from it.
AllocNewSlab(l) ==
  /\ Small(l) /\ partial[CacheOf(l)] = <<>>
  /\ \E s \in pages :
       /\ PMM!Alloc(Block(s, 0))
       /\ Take(CacheOf(l), l, <<s>>,
               [free EXCEPT ![s] = Objects(s, CacheOf(l))], [used EXCEPT ![s] = 0])

AllocPages(l) ==
  /\ ~Small(l) /\ Fitting(l) # {}
  /\ \E a \in pages :
       /\ PMM!Alloc(Block(a, Order(l)))
       /\ live' = live \cup {Live(a, l)}
  /\ UNCHANGED slabs
-----------------------------------------------------------------------------
(***************************************************************************)
(* dealloc, of what alloc returned with the same layout.                   *)
(***************************************************************************)
\* Slab::dealloc, with the slab found from the address.
Give(b) ==
  /\ free' = [free EXCEPT ![Page(b.addr)] = @ \cup {b.addr}]
  /\ used' = [used EXCEPT ![Page(b.addr)] = @ - 1]
  /\ live' = live \ {b}

\* Mutant: the slab stays in the full list.
DeallocFullStays(b) ==
  /\ Small(b) /\ used[Page(b.addr)] = Capacity(CacheOf(b))
  /\ Give(b)
  /\ UNCHANGED <<pages, held, partial, full>>

\* A full slab goes back to the partial list, even when it is empty now.
DeallocFull(b) ==
  LET c == CacheOf(b)
      s == Page(b.addr)
  IN /\ Small(b) /\ used[s] = Capacity(c)
     /\ Give(b)
     /\ full' = [full EXCEPT ![c] = Unlink(@, s)]
     /\ partial' = [partial EXCEPT ![c] = <<s>> \o @]
     /\ UNCHANGED <<pages, held>>

DeallocPartial(b) ==
  LET c == CacheOf(b)
      s == Page(b.addr)
  IN /\ Small(b) /\ used[s] # Capacity(c) /\ used[s] # 1
     /\ Give(b)
     /\ UNCHANGED <<pages, held, partial, full>>

\* Mutant: an empty slab is kept.
DeallocLastKept(b) ==
  LET c == CacheOf(b)
      s == Page(b.addr)
  IN /\ Small(b) /\ used[s] # Capacity(c) /\ used[s] = 1
     /\ Give(b)
     /\ UNCHANGED <<pages, held, partial, full>>

\* Mutant: an empty slab leaves the list and the page is not freed.
DeallocLastLeaked(b) ==
  LET c == CacheOf(b)
      s == Page(b.addr)
  IN /\ Small(b) /\ used[s] # Capacity(c) /\ used[s] = 1
     /\ Give(b)
     /\ partial' = [partial EXCEPT ![c] = Unlink(@, s)]
     /\ UNCHANGED <<pages, held, full>>

\* The last object of a slab that was not full: the page is given back.
DeallocLast(b) ==
  LET c == CacheOf(b)
      s == Page(b.addr)
  IN /\ Small(b) /\ used[s] # Capacity(c) /\ used[s] = 1
     /\ Give(b)
     /\ partial' = [partial EXCEPT ![c] = Unlink(@, s)]
     /\ PMM!Free(Block(s, 0))
     /\ UNCHANGED full

DeallocPages(b) ==
  /\ ~Small(b)
  /\ PMM!Free(Block(b.addr, Order(b)))
  /\ live' = live \ {b}
  /\ UNCHANGED slabs

Dealloc(b) == DeallocFull(b) \/ DeallocPartial(b) \/ DeallocLast(b) \/ DeallocPages(b)

Next ==
  \/ \E l \in Layouts : AllocFromSlab(l) \/ AllocNewSlab(l) \/ AllocPages(l)
  \/ \E b \in live : Dealloc(b)

Spec == Init /\ [][Next]_vars
-----------------------------------------------------------------------------
(***************************************************************************)
(* Properties.                                                             *)
(***************************************************************************)
Slabs(c) == Range(partial[c]) \cup Range(full[c])
LargeBlocks == {Block(b.addr, Order(b)) : b \in {x \in live : ~Small(x)}}

\* What a client got from alloc is its own: it overlaps no other allocation,
\* nor the header of its slab, and lies within pages the heap holds.
LiveDisjoint ==
  /\ \A a, b \in live : a # b => (a.addr + a.size <= b.addr \/ b.addr + b.size <= a.addr)
  /\ \A b \in live :
       IF Small(b)
       THEN /\ Block(Page(b.addr), 0) \in held
            /\ b.addr >= Page(b.addr) + Header
            /\ b.addr + b.size <= Page(b.addr) + PageSize
       ELSE /\ Block(b.addr, Order(b)) \in held
            /\ b.size <= Bytes[Order(b)]

\* The address honours the alignment of the layout (GlobalAlloc's contract),
\* for alignments up to a page.
Aligned ==
  \A b \in live : b.align <= PageSize => b.addr % b.align = 0

\* The caches agree with what clients hold, through every move between the
\* lists: each slab is in one list of one class, in the full list exactly when
\* it is full, its count and its free objects are those of live.
SlabsConsistent ==
  /\ \A c \in Class : IsInjective(partial[c] \o full[c])
  /\ \A c, d \in Class : c # d => Slabs(c) \cap Slabs(d) = {}
  /\ \A c \in Class : \A s \in Slabs(c) :
       /\ s \in Range(full[c]) <=> used[s] = Capacity(c)
       /\ used[s] = Cardinality({b \in live : Page(b.addr) = s})
       /\ free[s] = Objects(s, c) \ {b.addr : b \in live}

\* dealloc leaks no page: the heap holds the slabs in its lists and the live
\* page blocks, and dealloc returns a block with the order it was taken with.
NoPageLeaked ==
  held = {Block(s, 0) : s \in UNION {Slabs(c) : c \in Class}} \cup LargeBlocks

\* A slab without live objects is given back by dealloc.  The exception is a
\* class with one object to the page (2048): its slab is full before every
\* dealloc and so goes to the partial list, for good.
NoIdleSlab ==
  \A c \in Class : Capacity(c) > 1 => \A s \in Slabs(c) : used[s] > 0
=============================================================================

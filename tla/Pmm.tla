-------------------------------- MODULE Pmm ---------------------------------
(***************************************************************************)
(* The buddy allocator of src/mm/pmm.rs.  Every operation runs under the   *)
(* PMM lock with interrupts off; op says which one is running, and each    *)
(* turn of its loop is a step.  A free list is a set: the order in which   *)
(* blocks of one size are handed out is not modelled.                      *)
(***************************************************************************)
EXTENDS Frames, Sequences, FiniteSets

CONSTANTS
  MemMap,     \* the memory map from the boot loader, in order
  LowLimit    \* memory below 0x20_0000 is left alone

Entries == [base : Nat, length : Nat, usable : BOOLEAN]

ASSUME PmmAssumption ==
  /\ MemMap \in Seq(Entries)
  /\ \A i, j \in DOMAIN MemMap : i < j => MemMap[i].base + MemMap[i].length <= MemMap[j].base
  /\ LowLimit \in Nat

VARIABLES
  lists,      \* the free lists: a block is in lists[block.order]
  freePages,  \* FREE_PAGES
  totalPages, \* TOTAL_PAGES
  held,       \* the blocks clients hold
  op,         \* the operation that holds the lock; "none" when it is free
  entry,      \* init: the next entry of MemMap
  addr,       \* how far the operation is: an address,
  end,        \* the end of the region it adds,
  ord,        \* and an order
  want        \* the order it was asked for

vars == <<lists, freePages, totalPages, held, op, entry, addr, end, ord, want>>

TypeOK ==
  /\ lists \in SUBSET Blocks /\ held \in SUBSET Blocks
  /\ freePages \in Int /\ totalPages \in Nat
  /\ op \in {"init", "region", "none", "alloc", "free"}
  /\ entry \in 1..(Len(MemMap) + 1)
  /\ addr \in Nat /\ end \in Nat
  /\ ord \in Orders /\ want \in Orders

Init ==
  /\ lists = {} /\ held = {}
  /\ freePages = 0 /\ totalPages = 0
  /\ op = "init" /\ entry = 1
  /\ addr = 0 /\ end = 0 /\ ord = 0 /\ want = 0
-----------------------------------------------------------------------------
(***************************************************************************)
(* init() and add_region().                                                *)
(***************************************************************************)
AlignDown(a) == (a \div PageSize) * PageSize
AlignUp(a) == AlignDown(a + PageSize - 1)

\* The part of an entry that is usable and not low memory.
Low(e) == IF e.base < LowLimit THEN LowLimit ELSE e.base
High(e) == e.base + e.length
Skipped(e) == ~e.usable \/ Low(e) >= High(e)

InitEntry ==
  /\ op = "init" /\ entry <= Len(MemMap)
  /\ entry' = entry + 1
  /\ IF Skipped(MemMap[entry])
     THEN UNCHANGED <<op, addr, end>>
     ELSE /\ op' = "region"
          /\ addr' = AlignUp(Low(MemMap[entry]))
          /\ end' = AlignDown(High(MemMap[entry]))
  /\ UNCHANGED <<lists, freePages, totalPages, held, ord, want>>

InitDone ==
  /\ op = "init" /\ entry > Len(MemMap)
  /\ op' = "none"
  /\ UNCHANGED <<lists, freePages, totalPages, held, entry, addr, end, ord, want>>

\* The largest block that is aligned at addr and ends within the region.
Fits(o) == o = 0 \/ (addr % Bytes[o] = 0 /\ addr + Bytes[o] <= end)

AddBlock ==
  /\ op = "region" /\ addr < end
  /\ \E o \in Orders :
       /\ Fits(o) /\ \A p \in Orders : p > o => ~Fits(p)
       /\ lists' = lists \cup {Block(addr, o)}
       /\ freePages' = freePages + PageCount(o)
       /\ totalPages' = totalPages + PageCount(o)
       /\ addr' = addr + Bytes[o]
  /\ UNCHANGED <<held, op, entry, end, ord, want>>

RegionDone ==
  /\ op = "region" /\ addr >= end
  /\ op' = "init"
  /\ UNCHANGED <<lists, freePages, totalPages, held, entry, addr, end, ord, want>>
-----------------------------------------------------------------------------
(***************************************************************************)
(* alloc().  When no list from order o on has a block it returns None and  *)
(* changes nothing.                                                        *)
(***************************************************************************)
Available(o) == \E b \in lists : b.order >= o

AllocPop(o) ==
  /\ op = "none"
  /\ \E b \in lists :
       /\ b.order >= o /\ \A c \in lists : c.order >= o => b.order <= c.order
       /\ lists' = lists \ {b}
       /\ addr' = b.addr /\ ord' = b.order
  /\ op' = "alloc" /\ want' = o
  /\ UNCHANGED <<freePages, totalPages, held, entry, end>>

\* Mutant: the half that is given back is counted from the larger order.
AllocSplitFar ==
  /\ op = "alloc" /\ ord > want
  /\ ord' = ord - 1
  /\ lists' = lists \cup {Block(addr + Bytes[ord], ord - 1)}
  /\ UNCHANGED <<freePages, totalPages, held, op, entry, addr, end, want>>

AllocSplit ==
  /\ op = "alloc" /\ ord > want
  /\ ord' = ord - 1
  /\ lists' = lists \cup {Block(addr + Bytes[ord - 1], ord - 1)}
  /\ UNCHANGED <<freePages, totalPages, held, op, entry, addr, end, want>>

AllocDone ==
  /\ op = "alloc" /\ ord = want
  /\ held' = held \cup {Block(addr, want)}
  /\ freePages' = freePages - PageCount(want)
  /\ op' = "none"
  /\ UNCHANGED <<lists, totalPages, entry, addr, end, ord, want>>
-----------------------------------------------------------------------------
(***************************************************************************)
(* free(), of a block alloc() returned, with the order asked for then.     *)
(***************************************************************************)
\* Mutant: the right neighbour, whichever half the block is.
BuddyRight(a, o) == a + Bytes[o]

\* current_phys ^ block_size
Buddy(a, o) == IF (a \div Bytes[o]) % 2 = 0 THEN a + Bytes[o] ELSE a - Bytes[o]

\* Mutant: one merge and no more.
MergesOnce == ord = want /\ ord < MaxOrder /\ Block(Buddy(addr, ord), ord) \in lists

Merges == ord < MaxOrder /\ Block(Buddy(addr, ord), ord) \in lists

FreeStart(b) ==
  /\ op = "none" /\ b \in held
  /\ held' = held \ {b}
  /\ op' = "free" /\ addr' = b.addr /\ ord' = b.order /\ want' = b.order
  /\ UNCHANGED <<lists, freePages, totalPages, entry, end>>

FreeMerge ==
  /\ op = "free" /\ Merges
  /\ lists' = lists \ {Block(Buddy(addr, ord), ord)}
  /\ addr' = IF Buddy(addr, ord) < addr THEN Buddy(addr, ord) ELSE addr
  /\ ord' = ord + 1
  /\ UNCHANGED <<freePages, totalPages, held, op, entry, end, want>>

\* Mutant: the pages of the merged block are counted.
FreePushMerged ==
  /\ op = "free" /\ ~Merges
  /\ lists' = lists \cup {Block(addr, ord)}
  /\ freePages' = freePages + PageCount(ord)
  /\ op' = "none"
  /\ UNCHANGED <<totalPages, held, entry, addr, end, ord, want>>

FreePush ==
  /\ op = "free" /\ ~Merges
  /\ lists' = lists \cup {Block(addr, ord)}
  /\ freePages' = freePages + PageCount(want)
  /\ op' = "none"
  /\ UNCHANGED <<totalPages, held, entry, addr, end, ord, want>>
-----------------------------------------------------------------------------
Boot == InitEntry \/ InitDone \/ AddBlock \/ RegionDone

Next ==
  \/ Boot
  \/ \E o \in Orders : AllocPop(o)
  \/ AllocSplit \/ AllocDone
  \/ \E b \in held : FreeStart(b)
  \/ FreeMerge \/ FreePush

Spec == Init /\ [][Next]_vars
-----------------------------------------------------------------------------
(***************************************************************************)
(* Properties.                                                             *)
(***************************************************************************)
\* The block between the lists and a client.
InFlight == IF op \in {"alloc", "free"} THEN {Block(addr, ord)} ELSE {}

\* However splits and merges mix, no two blocks overlap, free or held: a page
\* is never handed out twice, and no free-list link lies in a client's page.
NoOverlap ==
  /\ lists \cap held = {}
  /\ InFlight \cap (lists \cup held) = {}
  /\ \A a, b \in lists \cup held \cup InFlight : a # b => Disjoint(a, b)

\* Blocks are naturally aligned (XOR finds the buddy only then), free and held
\* pages are the whole pages of the usable memory, none lost or invented, and
\* FREE_PAGES and TOTAL_PAGES count them.
UsablePages ==
  {a \in 0 .. High(MemMap[Len(MemMap)]) : /\ a % PageSize = 0
     /\ \E i \in DOMAIN MemMap : ~Skipped(MemMap[i])
          /\ Low(MemMap[i]) <= a /\ a + PageSize <= High(MemMap[i])}

Accounted ==
  /\ \A b \in lists \cup held \cup InFlight : b.addr % Bytes[b.order] = 0
  /\ op = "none" =>
       /\ AllPages(lists \cup held) = UsablePages
       /\ freePages = Cardinality(AllPages(lists))
       /\ totalPages = Cardinality(UsablePages)

\* Usable entries of the memory map do not touch: add_region never looks for
\* the buddy of a block it adds.
Gaps ==
  \A i, j \in DOMAIN MemMap :
    i < j /\ ~Skipped(MemMap[i]) /\ ~Skipped(MemMap[j]) =>
      AlignDown(High(MemMap[i])) < AlignUp(Low(MemMap[j]))

\* alloc() looks for a block of the order or a larger one and nothing else.
\* That is enough: free() has merged whatever could be merged, so when it
\* returns None there is no aligned free run of that size, on a map with Gaps.
NoFragmentedFailure ==
  op = "none" =>
    \A o \in Orders :
      ~Available(o) =>
        \A a \in AllPages(lists) :
          a % Bytes[o] = 0 => ~(PagesOf(Block(a, o)) \subseteq AllPages(lists))

\* The allocator implements FrameAllocator; a block being split or merged
\* counts as free.
FA == INSTANCE FrameAllocator WITH pages <- AllPages(lists \cup InFlight)
Refinement == FA!Spec
=============================================================================

----------------------------- MODULE PmmProofs ------------------------------
(***************************************************************************)
(* For every memory map in ascending order, page size and MAX_ORDER: the   *)
(* buddy allocator never lets two blocks overlap, accounts for every page, *)
(* implements FrameAllocator, and merges whatever can be merged.           *)
(***************************************************************************)
EXTENDS Pmm, FiniteSetTheorems, WellFoundedInduction, TLAPS

(***************************************************************************)
(* Numbers.                                                                *)
(***************************************************************************)
\* A set of numbers that is not empty has a least element.
LEMMA Least ==
  ASSUME NEW T, T \subseteq Nat, T # {}
  PROVE  \E n \in T : \A m \in T : n <= m
<1>1. OpToRel(<, Nat) = {ss \in Nat \X Nat : ss[1] < ss[2]}
  BY Zenon DEF OpToRel
<1>2. \E n \in T : \A m \in T : ~(<<m, n>> \in OpToRel(<, Nat))
  BY WFMin, NatLessThanWellFounded
<1>3. PICK n \in T : \A m \in T : ~(<<m, n>> \in {ss \in Nat \X Nat : ss[1] < ss[2]})
  BY <1>1, <1>2
<1>4. ASSUME NEW m \in T, m < n PROVE FALSE
  <2>1. <<m, n>> \in Nat \X Nat /\ <<m, n>>[1] = m /\ <<m, n>>[2] = n
    BY Zenon
  <2>2. <<m, n>> \in {ss \in Nat \X Nat : ss[1] < ss[2]}
    BY <1>4, <2>1, Zenon
  <2> QED BY <1>3, <2>2, Zenon
<1>5. ASSUME NEW m \in T PROVE n <= m
  BY <1>4
<1> QED BY <1>5, Zenon

\* Division with remainder.
LEMMA Division ==
  ASSUME NEW n \in Nat, NEW d \in Nat \ {0}
  PROVE  /\ n \div d \in Nat /\ n % d \in 0..(d - 1) /\ (n \div d) * d \in Nat
         /\ n = (n \div d) * d + (n % d)
         /\ (n \div d) * d <= n /\ n < (n \div d) * d + d
<1>1. /\ n \div d \in Nat /\ n % d \in 0..(d - 1)
      /\ n = (n \div d) * d + (n % d)
  BY SMTT(30)
<1>2. (n \div d) * d \in Nat
  BY <1>1, SMTT(30)
<1> QED BY <1>1, <1>2

\* Quotient and remainder are determined by the number.
LEMMA Quotient ==
  ASSUME NEW q \in Nat, NEW r \in Nat, NEW d \in Nat \ {0}, r < d
  PROVE  q * d + r \in Nat /\ (q * d + r) \div d = q /\ (q * d + r) % d = r
<1>1. q * d \in Nat /\ q * d + r \in Nat
  BY SMTT(30)
<1>2. (q * d + r) \div d = q
  BY <1>1, SMTT(30)
<1>3. (q * d + r) % d = r
  BY <1>1, <1>2, SMTT(30)
<1> QED BY <1>1, <1>2, <1>3, Zenon

\* Multiples, and multiples of multiples.
LEMMA Divides ==
  ASSUME NEW n \in Nat, NEW d \in Nat \ {0}
  PROVE  n % d = 0 <=> \E k \in Nat : n = k * d
<1>1. ASSUME n % d = 0 PROVE \E k \in Nat : n = k * d
  <2>1. n \div d \in Nat /\ (n \div d) * d \in Nat /\ n = (n \div d) * d + (n % d)
    BY Division, Zenon
  <2>2. n = (n \div d) * d
    BY <1>1, <2>1
  <2> QED BY <2>1, <2>2, SMTT(30)
<1>2. ASSUME NEW k \in Nat, n = k * d PROVE n % d = 0
  <2>1. k * d \in Nat /\ k * d + 0 = k * d
    BY SMTT(30)
  <2>2. (k * d + 0) % d = 0
    BY Quotient
  <2> QED BY <1>2, <2>1, <2>2, Zenon
<1> QED BY <1>1, <1>2, Zenon

\* A multiple of a multiple of e is a multiple of e.
LEMMA Transitive ==
  ASSUME NEW n \in Nat, NEW d \in Nat \ {0}, NEW e \in Nat \ {0}, n % d = 0, d % e = 0
  PROVE  n % e = 0
<1>1. PICK k \in Nat : n = k * d
  BY Divides, Zenon
<1>2. PICK j \in Nat : d = j * e
  BY Divides, Zenon
<1>3. k * j \in Nat /\ n = (k * j) * e
  BY <1>1, <1>2, SMTT(30)
<1> QED BY <1>3, Divides, Zenon

\* A larger multiple is larger by at least one step.
LEMMA Steps ==
  ASSUME NEW i \in Nat, NEW j \in Nat, NEW d \in Nat \ {0}, i < j
  PROVE  i * d \in Nat /\ j * d \in Nat /\ i * d + d <= j * d
<1>1. i * d \in Nat /\ j * d \in Nat /\ (j - i) * d \in Nat
  BY SMTT(30)
<1>2. j * d = i * d + (j - i) * d
  BY SMTT(30)
<1>3. (j - i) * d >= d
  <2>1. PICK e \in Nat : j - i = e + 1
    <3>1. j - i - 1 \in Nat /\ j - i = (j - i - 1) + 1
      OBVIOUS
    <3> QED BY <3>1, Zenon
  <2>2. (e + 1) * d = e * d + d /\ e * d \in Nat
    BY SMTT(30)
  <2> QED BY <2>1, <2>2
<1> QED BY <1>1, <1>2, <1>3

\* Two multiples of d differ by at least d.
LEMMA Apart ==
  ASSUME NEW d \in Nat \ {0}, NEW x \in Nat, NEW y \in Nat, x % d = 0, y % d = 0, x < y
  PROVE  x + d <= y
<1>1. PICK i \in Nat : x = i * d
  BY Divides, Zenon
<1>2. PICK j \in Nat : y = j * d
  BY Divides, Zenon
<1>3. i < j
  <2>1. ASSUME j < i PROVE FALSE
    BY <1>1, <1>2, <2>1, Steps
  <2>2. i # j
    BY <1>1, <1>2
  <2> QED BY <2>1, <2>2
<1> QED BY <1>1, <1>2, <1>3, Steps, Zenon

\* Sums of multiples are multiples.
LEMMA SumMultiple ==
  ASSUME NEW d \in Nat \ {0}, NEW x \in Nat, NEW y \in Nat, x % d = 0, y % d = 0
  PROVE  (x + y) % d = 0
<1>1. PICK i \in Nat : x = i * d
  BY Divides, Zenon
<1>2. PICK j \in Nat : y = j * d
  BY Divides, Zenon
<1>3. x + y = (i + j) * d /\ i + j \in Nat /\ x + y \in Nat
  BY <1>1, <1>2, SMTT(30)
<1> QED BY <1>3, Divides, Zenon
-----------------------------------------------------------------------------
(***************************************************************************)
(* Blocks and pages.                                                       *)
(***************************************************************************)
\* a is a multiple of the page size, said without division.
Multiple(a) == \E k \in Nat : a = k * PageSize

\* Block sizes are positive, double with the order, and are whole pages.
LEMMA SizeFacts ==
  /\ PageSize \in Nat \ {0}
  /\ \A o \in Orders : Bytes[o] \in Nat \ {0}
  /\ \A o \in Orders : o > 0 => Bytes[o] = Bytes[o-1] + Bytes[o-1]
  /\ \A o \in Orders : \E k \in Nat : Bytes[o] = k * PageSize
<1>1. 0 \in 0..MaxOrder
  BY FramesAssumption
<1>2. \A o \in Orders : Bytes[o] \in Nat \ {0}
  BY FramesAssumption, Zenon DEF Orders
<1>3. \A o \in Orders : o > 0 => Bytes[o] = Bytes[o-1] + Bytes[o-1]
  BY FramesAssumption DEF Orders
<1>4. \A o \in Orders : \E k \in Nat : Bytes[o] = k * PageSize
  BY FramesAssumption DEF Orders, PageSize
<1> QED BY <1>1, <1>2, <1>3, <1>4, Zenon DEF Orders, PageSize

\* A block is a whole number of pages, at least one.
LEMMA PageCounts ==
  ASSUME NEW o \in Orders
  PROVE  PageCount(o) \in Nat /\ PageCount(o) >= 1 /\ Bytes[o] = PageCount(o) * PageSize
<1>0. PageSize \in Nat \ {0} /\ Bytes[o] \in Nat \ {0}
  BY SizeFacts, Zenon
<1>1. PICK k \in Nat : Bytes[o] = k * PageSize
  BY SizeFacts, Zenon
<1> HIDE DEF PageSize
<1>2. k >= 1
  <2>1. ASSUME k = 0 PROVE FALSE
    BY <1>0, <1>1, <2>1
  <2> QED BY <2>1
<1>3. k * PageSize \in Nat /\ (k * PageSize + 0) \div PageSize = k
  BY <1>0, Quotient
<1>4. k * PageSize + 0 = k * PageSize
  BY <1>3
<1> QED BY <1>1, <1>2, <1>3, <1>4, Zenon DEF PageCount

\* The same with division.
LEMMA IsMultiple ==
  ASSUME NEW a \in Nat
  PROVE  Multiple(a) <=> a % PageSize = 0
<1>1. PageSize \in Nat \ {0}
  BY SizeFacts, Zenon
<1> HIDE DEF PageSize
<1> QED BY <1>1, Divides, Zenon DEF Multiple

\* Page-aligned addresses differ by at least a page.
LEMMA NextMultiple ==
  ASSUME NEW a \in Nat, NEW b \in Nat, Multiple(a), Multiple(b), a < b
  PROVE  a + PageSize <= b
<1>1. PageSize \in Nat \ {0} /\ a % PageSize = 0 /\ b % PageSize = 0
  BY SizeFacts, IsMultiple, Zenon
<1> HIDE DEF PageSize
<1> QED BY <1>1, Apart, Zenon

\* align_down and align_up give multiples of the page size on either side.
LEMMA AlignFacts ==
  ASSUME NEW a \in Nat
  PROVE  /\ AlignDown(a) \in Nat /\ Multiple(AlignDown(a))
         /\ AlignDown(a) <= a /\ a < AlignDown(a) + PageSize
         /\ AlignUp(a) \in Nat /\ Multiple(AlignUp(a))
         /\ a <= AlignUp(a) /\ AlignUp(a) < a + PageSize
<1>0. PageSize \in Nat \ {0}
  BY SizeFacts, Zenon
<1> HIDE DEF PageSize
<1>1. ASSUME NEW x \in Nat
      PROVE  /\ AlignDown(x) \in Nat /\ Multiple(AlignDown(x))
             /\ AlignDown(x) <= x /\ x < AlignDown(x) + PageSize
  <2>1. /\ x \div PageSize \in Nat
        /\ x = (x \div PageSize) * PageSize + (x % PageSize)
        /\ x % PageSize \in 0..(PageSize - 1)
    BY <1>0, SMTT(30)
  <2>2. (x \div PageSize) * PageSize \in Nat
    BY <1>0, <2>1, SMTT(30)
  <2>3. Multiple(AlignDown(x))
    BY <2>1, Zenon DEF AlignDown, Multiple
  <2>4. AlignDown(x) = (x \div PageSize) * PageSize
    BY Zenon DEF AlignDown
  <2> HIDE DEF AlignDown
  <2>5. /\ AlignDown(x) \in Nat /\ x = AlignDown(x) + (x % PageSize)
        /\ x % PageSize \in 0..(PageSize - 1)
    BY <2>1, <2>2, <2>4, Zenon
  <2> QED BY <1>0, <2>3, <2>5
<1>2. a + PageSize - 1 \in Nat
  BY <1>0
<1>3. AlignUp(a) = AlignDown(a + PageSize - 1)
  BY Zenon DEF AlignUp
<1> HIDE DEF AlignDown
<1>4. /\ AlignUp(a) \in Nat /\ Multiple(AlignUp(a))
      /\ a + PageSize - 1 < AlignUp(a) + PageSize /\ AlignUp(a) <= a + PageSize - 1
  BY <1>1, <1>2, <1>3, Zenon
<1> QED BY <1>0, <1>1, <1>4

\* addr moves from multiple to multiple in add_region.
LEMMA StepMultiple ==
  ASSUME NEW a \in Nat, NEW o \in Orders, Multiple(a)
  PROVE  Multiple(a + Bytes[o])
<1>0. PageSize \in Nat \ {0} /\ Bytes[o] \in Nat
  BY SizeFacts, Zenon
<1>1. PICK k \in Nat : a = k * PageSize
  BY Zenon DEF Multiple
<1>2. PICK m \in Nat : Bytes[o] = m * PageSize
  BY SizeFacts, Zenon
<1> HIDE DEF PageSize
<1>3. a + Bytes[o] = (k + m) * PageSize
  BY <1>0, <1>1, <1>2, SMTT(30)
<1> QED BY <1>3 DEF Multiple
-----------------------------------------------------------------------------
(***************************************************************************)
(* The inductive invariant.  While init() runs, all blocks lie below what  *)
(* is left of the region being added and below the entries to come.        *)
(***************************************************************************)
Top(b) == b.addr + Bytes[b.order]

Below ==
  /\ op \in {"init", "region"} =>
       /\ held = {}
       /\ \A b \in lists, i \in entry..Len(MemMap) : Top(b) <= MemMap[i].base
  /\ op = "region" =>
       /\ Multiple(addr) /\ Multiple(end)
       /\ \A b \in lists : Top(b) <= addr
       /\ \A i \in entry..Len(MemMap) : end <= MemMap[i].base

Inv == TypeOK /\ NoOverlap /\ Below

\* A block of an address and an order has these two fields.
LEMMA BlockType ==
  ASSUME NEW a \in Nat, NEW o \in Orders
  PROVE  /\ Block(a, o) \in Blocks /\ Block(a, o).addr = a /\ Block(a, o).order = o
         /\ Top(Block(a, o)) = a + Bytes[o]
BY Zenon DEF Block, Blocks, Top

\* Splitting: a half of a block is disjoint from what the block is disjoint
\* from, and the halves are disjoint.
LEMMA HalvesDisjoint ==
  ASSUME NEW a \in Nat, NEW o \in Orders, o > 0
  PROVE  LET whole == Block(a, o)
             left == Block(a, o - 1)
             right == Block(a + Bytes[o - 1], o - 1)
         IN /\ left \in Blocks /\ right \in Blocks
            /\ left # right /\ Disjoint(left, right) /\ Disjoint(right, left)
            /\ \A x \in Blocks : Disjoint(x, whole) =>
                 /\ Disjoint(x, left) /\ Disjoint(left, x)
                 /\ Disjoint(x, right) /\ Disjoint(right, x)
                 /\ x # left /\ x # right
<1>1. /\ o - 1 \in Orders /\ Bytes[o] \in Nat \ {0} /\ Bytes[o-1] \in Nat \ {0}
      /\ Bytes[o] = Bytes[o-1] + Bytes[o-1]
      /\ \A x \in Blocks : x.addr \in Nat /\ Bytes[x.order] \in Nat \ {0}
  <2>1. o - 1 \in Orders
    BY FramesAssumption DEF Orders
  <2>2. \A x \in Blocks : x.addr \in Nat /\ Bytes[x.order] \in Nat \ {0}
    BY SizeFacts, Zenon DEF Blocks
  <2> QED BY <2>1, <2>2, SizeFacts, Zenon
<1> QED BY <1>1 DEF Block, Blocks, Disjoint

\* Merging: what is disjoint from both halves is disjoint from their union.
LEMMA MergeDisjoint ==
  ASSUME NEW a \in Nat, NEW c \in Nat, NEW o \in Orders, o < MaxOrder,
         c = a + Bytes[o]
  PROVE  LET whole == Block(a, o + 1)
         IN /\ whole \in Blocks
            /\ \A x \in Blocks :
                 Disjoint(x, Block(a, o)) /\ Disjoint(x, Block(c, o)) =>
                   Disjoint(x, whole) /\ Disjoint(whole, x) /\ x # whole
<1>1. /\ o + 1 \in Orders /\ Bytes[o] \in Nat \ {0} /\ Bytes[o+1] = Bytes[o] + Bytes[o]
      /\ \A x \in Blocks : x.addr \in Nat /\ Bytes[x.order] \in Nat \ {0}
  <2>1. o + 1 \in Orders /\ o + 1 > 0 /\ (o + 1) - 1 = o
    BY FramesAssumption DEF Orders
  <2>2. \A x \in Blocks : x.addr \in Nat /\ Bytes[x.order] \in Nat \ {0}
    BY SizeFacts, Zenon DEF Blocks
  <2> QED BY <2>1, <2>2, SizeFacts, Zenon
<1> QED BY <1>1 DEF Block, Blocks, Disjoint
-----------------------------------------------------------------------------
\* The empty allocator satisfies the invariant.
LEMMA InitInv == Init => Inv
<1> SUFFICES ASSUME Init PROVE Inv
  BY Zenon
<1>1. 0 \in Orders /\ Len(MemMap) \in Nat
  BY FramesAssumption, PmmAssumption DEF Orders
<1> QED BY <1>1 DEF Init, Inv, TypeOK, NoOverlap, InFlight, Below

\* The entries of the memory map, as init() reads them.
LEMMA EntryFacts ==
  ASSUME NEW i \in DOMAIN MemMap
  PROVE  /\ Len(MemMap) \in Nat /\ DOMAIN MemMap = 1..Len(MemMap)
         /\ Low(MemMap[i]) \in Nat /\ High(MemMap[i]) \in Nat
         /\ MemMap[i].base <= Low(MemMap[i])
         /\ \A j \in DOMAIN MemMap : MemMap[j].base \in Nat
         /\ \A j \in DOMAIN MemMap : i < j => High(MemMap[i]) <= MemMap[j].base
<1>1. Len(MemMap) \in Nat /\ DOMAIN MemMap = 1..Len(MemMap)
  BY PmmAssumption
<1>2. \A j \in DOMAIN MemMap : MemMap[j].base \in Nat /\ MemMap[j].length \in Nat
  <2> SUFFICES ASSUME NEW j \in DOMAIN MemMap
               PROVE  MemMap[j].base \in Nat /\ MemMap[j].length \in Nat
    BY Zenon
  <2>1. MemMap[j] \in Entries
    BY PmmAssumption
  <2> QED BY <2>1, Zenon DEF Entries
<1>3. \A j \in DOMAIN MemMap : i < j => High(MemMap[i]) <= MemMap[j].base
  BY PmmAssumption, Zenon DEF High
<1>4. /\ Low(MemMap[i]) \in Nat /\ High(MemMap[i]) \in Nat
      /\ MemMap[i].base <= Low(MemMap[i])
  BY <1>2, PmmAssumption DEF Low, High
<1> QED BY <1>1, <1>2, <1>3, <1>4, Zenon

\* Every turn of init(), alloc() and free() preserves it.
LEMMA StepInv == Inv /\ [Next]_vars => Inv'
<1> SUFFICES ASSUME Inv, [Next]_vars PROVE Inv'
  BY Zenon
<1>0. /\ lists \in SUBSET Blocks /\ held \in SUBSET Blocks
      /\ freePages \in Int /\ totalPages \in Nat
      /\ entry \in 1..(Len(MemMap) + 1)
      /\ addr \in Nat /\ end \in Nat /\ ord \in Orders /\ want \in Orders
      /\ Len(MemMap) \in Nat
      /\ DOMAIN MemMap = 1..Len(MemMap)
  BY PmmAssumption DEF Inv, TypeOK
<1>a. \A x \in Blocks : x.addr \in Nat /\ x.order \in Orders /\ Bytes[x.order] \in Nat \ {0}
  BY SizeFacts, Zenon DEF Blocks
<1>1. CASE InitEntry
  <2>1. CASE Skipped(MemMap[entry])
    BY <1>0, <1>1, <2>1
       DEF InitEntry, Inv, TypeOK, NoOverlap, InFlight, Below
  <2>2. CASE ~Skipped(MemMap[entry])
    <3> DEFINE e == MemMap[entry]
    <3>1. /\ op = "init" /\ entry \in DOMAIN MemMap /\ entry' = entry + 1
          /\ op' = "region" /\ addr' = AlignUp(Low(e)) /\ end' = AlignDown(High(e))
          /\ UNCHANGED <<lists, freePages, totalPages, held, ord, want>>
      BY <1>0, <1>1, <2>2 DEF InitEntry
    <3>2. /\ Low(e) \in Nat /\ High(e) \in Nat /\ e.base <= Low(e) /\ e.base \in Nat
          /\ \A j \in DOMAIN MemMap : MemMap[j].base \in Nat
          /\ \A j \in DOMAIN MemMap : entry < j => High(e) <= MemMap[j].base
      BY <3>1, EntryFacts, Zenon
    <3> HIDE DEF e
    <3>3. /\ addr' \in Nat /\ Multiple(addr') /\ Low(e) <= addr'
          /\ end' \in Nat /\ Multiple(end') /\ end' <= High(e)
      BY <3>1, <3>2, AlignFacts, Zenon
    <3>4. TypeOK'
      BY <1>0, <3>1, <3>3 DEF Inv, TypeOK
    <3>5. NoOverlap'
      BY <3>1, ZenonT(30) DEF Inv, NoOverlap, InFlight
    <3>6. \A b \in lists : Top(b) \in Nat /\ Top(b) <= e.base
      BY <1>0, <1>a, <3>1 DEF Inv, Below, Top, e
    <3>7. Multiple(addr)' /\ Multiple(end)'
      BY <3>3, Zenon DEF Multiple
    <3>8. \A i \in entry'..Len(MemMap) :
            /\ i \in DOMAIN MemMap /\ i > entry /\ i \in entry..Len(MemMap)
      BY <1>0, <3>1
    <3>9. /\ \A b \in lists : Top(b) <= addr'
          /\ \A i \in entry'..Len(MemMap) : end' <= MemMap[i].base
          /\ \A b \in lists, i \in entry'..Len(MemMap) : Top(b) <= MemMap[i].base
      BY <3>1, <3>2, <3>3, <3>6, <3>8 DEF Inv, Below
    <3> QED BY <3>1, <3>4, <3>5, <3>7, <3>9, ZenonT(30) DEF Inv, Below, Top
  <2> QED BY <2>1, <2>2, Zenon
<1>2. CASE InitDone
  BY <1>0, <1>2, Zenon DEF InitDone, Inv, TypeOK, NoOverlap, InFlight, Below
<1>3. CASE AddBlock
  <2>1. PICK o \in Orders :
          /\ Fits(o)
          /\ lists' = lists \cup {Block(addr, o)}
          /\ freePages' = freePages + PageCount(o)
          /\ totalPages' = totalPages + PageCount(o)
          /\ addr' = addr + Bytes[o]
    BY <1>3, Zenon DEF AddBlock
  <2>2. op = "region" /\ addr < end /\ UNCHANGED <<held, op, entry, end, ord, want>>
    BY <1>3, Zenon DEF AddBlock
  <2>3. /\ held = {} /\ Multiple(addr) /\ Multiple(end)
        /\ \A b \in lists : Top(b) <= addr
        /\ \A i \in entry..Len(MemMap) : end <= MemMap[i].base
        /\ \A b \in lists, i \in entry..Len(MemMap) : Top(b) <= MemMap[i].base
    BY <2>2, Zenon DEF Inv, Below
  <2>4. Bytes[o] \in Nat \ {0} /\ addr + Bytes[o] <= end
    <3>1. Bytes[o] \in Nat \ {0}
      BY SizeFacts, Zenon
    <3>2. CASE o = 0
      BY <1>0, <2>2, <2>3, <3>1, <3>2, NextMultiple, ZenonT(30) DEF PageSize
    <3>3. CASE o # 0
      BY <2>1, <3>1, <3>3, Zenon DEF Fits
    <3> QED BY <3>1, <3>2, <3>3, Zenon
  <2>5. Multiple(addr')
    BY <1>0, <2>1, <2>3, StepMultiple, Zenon
  <2>6. PageCount(o) \in Nat
    BY PageCounts, ZenonT(30)
  <2>7. /\ Block(addr, o) \in Blocks /\ Block(addr, o).addr = addr
        /\ Block(addr, o).order = o /\ Top(Block(addr, o)) = addr + Bytes[o]
    BY <1>0, BlockType, ZenonT(30)
  <2> DEFINE n == Block(addr, o)
  <2> HIDE DEF n
  <2>8. TypeOK'
    <3>1. addr + Bytes[o] \in Nat
      BY <1>0, <2>4
    <3>a. totalPages + PageCount(o) \in Nat /\ freePages + PageCount(o) \in Int
      BY <1>0, <2>6
    <3>2. lists' \in SUBSET Blocks
      BY <1>0, <2>1, <2>7, Zenon
    <3> QED BY <1>0, <2>1, <2>2, <3>1, <3>a, <3>2, Zenon DEF Inv, TypeOK
  <2>9. \A b \in lists : Disjoint(b, n) /\ Disjoint(n, b) /\ b # n
    BY <1>0, <1>a, <2>3, <2>4, <2>7 DEF Top, Disjoint, n
  <2>10. NoOverlap'
    <3>1. lists' = lists \cup {n} /\ held' = {} /\ InFlight' = {} /\ InFlight = {}
      BY <2>1, <2>2, <2>3, Zenon DEF InFlight, n
    <3>2. \A a, b \in lists : a # b => Disjoint(a, b)
      BY Zenon DEF Inv, NoOverlap
    <3> QED BY <2>9, <3>1, <3>2 DEF NoOverlap, Disjoint
  <2>11. Top(n) = addr + Bytes[o] /\ n = Block(addr, o)
    BY <2>7, Zenon DEF n
  <2>12. Below'
    <3>1. \A b \in lists : Top(b) \in Int
      BY <1>0, <1>a DEF Top
    <3>2. \A b \in lists' : Top(b) <= addr'
      BY <1>0, <2>1, <2>3, <2>4, <2>11, <3>1, SMTT(30)
    <3>3. \A i \in entry..Len(MemMap) : MemMap[i].base \in Nat
      BY <1>0, EntryFacts
    <3>4. \A b \in lists', i \in entry..Len(MemMap) : Top(b) <= MemMap[i].base
      BY <1>0, <2>1, <2>3, <2>4, <2>11, <3>3, SMTT(30)
    <3> QED BY <2>2, <2>3, <2>5, <3>2, <3>4, Zenon DEF Below, Top, Multiple
  <2> QED BY <2>8, <2>10, <2>12, Zenon DEF Inv
<1>4. CASE RegionDone
  BY <1>0, <1>4, Zenon DEF RegionDone, Inv, TypeOK, NoOverlap, InFlight, Below
<1>5. ASSUME NEW o \in Orders, AllocPop(o)
      PROVE  Inv'
  <2>1. PICK b \in lists :
          lists' = lists \ {b} /\ addr' = b.addr /\ ord' = b.order
    BY <1>5, Zenon DEF AllocPop
  <2>2. op = "none" /\ op' = "alloc" /\ want' = o
        /\ UNCHANGED <<freePages, totalPages, held, entry, end>>
    BY <1>5, Zenon DEF AllocPop
  <2>3. b \in Blocks /\ Block(addr', ord') = b
    BY <1>0, <2>1, Zenon DEF Block, Blocks
  <2>4. InFlight = {} /\ InFlight' = {b}
    BY <2>2, <2>3, Zenon DEF InFlight
  <2>5. TypeOK'
    BY <1>0, <1>a, <2>1, <2>2, <2>3, Zenon DEF Inv, TypeOK
  <2>6. NoOverlap'
    BY <2>1, <2>2, <2>4 DEF Inv, NoOverlap, Disjoint
  <2> QED BY <2>2, <2>5, <2>6, Zenon DEF Inv, Below
<1>6. CASE AllocSplit
  <2> DEFINE l == Block(addr, ord - 1)
             r == Block(addr + Bytes[ord - 1], ord - 1)
             w == Block(addr, ord)
  <2>1. /\ op = "alloc" /\ ord > want /\ ord' = ord - 1 /\ lists' = lists \cup {r}
        /\ UNCHANGED <<freePages, totalPages, held, op, entry, addr, end, want>>
    BY <1>6, Zenon DEF AllocSplit
  <2>2. ord > 0 /\ ord - 1 \in Orders
    BY <1>0, <2>1, FramesAssumption DEF Orders
  <2>3. /\ l \in Blocks /\ r \in Blocks /\ l # r /\ Disjoint(l, r) /\ Disjoint(r, l)
        /\ \A x \in Blocks : Disjoint(x, w) =>
             /\ Disjoint(x, l) /\ Disjoint(l, x) /\ Disjoint(x, r) /\ Disjoint(r, x)
             /\ x # l /\ x # r
    BY <1>0, <2>2, HalvesDisjoint, Zenon
  <2>4. InFlight = {w} /\ InFlight' = {l}
    BY <2>1, Zenon DEF InFlight
  <2> HIDE DEF l, r, w
  <2>5. /\ w \notin lists \cup held
        /\ \A x \in lists \cup held : x \in Blocks /\ Disjoint(x, w)
        /\ lists \cap held = {}
        /\ \A a, b \in lists \cup held : a # b => Disjoint(a, b)
    BY <1>0, <2>4, Zenon DEF Inv, NoOverlap
  <2>6. TypeOK'
    BY <1>0, <2>1, <2>2, <2>3, Zenon DEF Inv, TypeOK
  <2>7. NoOverlap'
    BY <2>1, <2>3, <2>4, <2>5 DEF NoOverlap, Disjoint
  <2> QED BY <2>1, <2>6, <2>7, Zenon DEF Inv, Below
<1>7. CASE AllocDone
  <2>1. /\ op = "alloc" /\ ord = want /\ op' = "none"
        /\ held' = held \cup {Block(addr, ord)}
        /\ freePages' = freePages - PageCount(want)
        /\ UNCHANGED <<lists, totalPages, entry, addr, end, ord, want>>
    BY <1>7, Zenon DEF AllocDone
  <2>2. Block(addr, ord) \in Blocks /\ PageCount(want) \in Nat
    BY <1>0, BlockType, PageCounts, Zenon
  <2>3. TypeOK'
    BY <1>0, <2>1, <2>2 DEF Inv, TypeOK
  <2>4. InFlight = {Block(addr, ord)} /\ InFlight' = {}
    BY <2>1, Zenon DEF InFlight
  <2>5. NoOverlap'
    BY <2>1, <2>4 DEF Inv, NoOverlap, Disjoint
  <2> QED BY <2>1, <2>3, <2>5, Zenon DEF Inv, Below
<1>8. ASSUME NEW b \in held, FreeStart(b)
      PROVE  Inv'
  <2>1. /\ op = "none" /\ op' = "free" /\ held' = held \ {b}
        /\ addr' = b.addr /\ ord' = b.order /\ want' = b.order
        /\ UNCHANGED <<lists, freePages, totalPages, entry, end>>
    BY <1>8, Zenon DEF FreeStart
  <2>2. b \in Blocks /\ Block(addr', ord') = b
    BY <1>0, <1>8, <2>1, Zenon DEF Block, Blocks
  <2>3. InFlight = {} /\ InFlight' = {b}
    BY <2>1, <2>2, Zenon DEF InFlight
  <2>4. TypeOK'
    BY <1>0, <1>a, <2>1, <2>2, Zenon DEF Inv, TypeOK
  <2>5. NoOverlap'
    BY <1>8, <2>1, <2>3 DEF Inv, NoOverlap, Disjoint
  <2> QED BY <2>1, <2>4, <2>5, Zenon DEF Inv, Below
<1>9. CASE FreeMerge
  <2> DEFINE c == Buddy(addr, ord)
             k == IF c < addr THEN c ELSE addr
  <2>1. /\ op = "free" /\ ord < MaxOrder /\ Block(c, ord) \in lists
        /\ lists' = lists \ {Block(c, ord)} /\ addr' = k /\ ord' = ord + 1
        /\ UNCHANGED <<freePages, totalPages, held, op, entry, end, want>>
    BY <1>9, Zenon DEF FreeMerge, Merges
  <2>2. c \in Nat /\ Bytes[ord] \in Nat \ {0} /\ ord + 1 \in Orders
    BY <1>0, <1>a, <2>1, SizeFacts, FramesAssumption DEF Block, Blocks, Orders
  <2>3. c = addr + Bytes[ord] \/ addr = c + Bytes[ord]
    BY <1>0, <2>2 DEF Buddy
  <2> HIDE DEF c
  <2> DEFINE u == Block(addr, ord)
             v == Block(c, ord)
             w == Block(k, ord + 1)
  <2>4. /\ w \in Blocks
        /\ \A x \in Blocks : Disjoint(x, u) /\ Disjoint(x, v) =>
             Disjoint(x, w) /\ Disjoint(w, x) /\ x # w
    <3>1. CASE c = addr + Bytes[ord]
      BY <1>0, <2>1, <2>2, <3>1, MergeDisjoint
    <3>2. CASE addr = c + Bytes[ord]
      BY <1>0, <2>1, <2>2, <3>2, MergeDisjoint
    <3> QED BY <2>3, <3>1, <3>2, ZenonT(30)
  <2>5. InFlight = {u} /\ InFlight' = {w} /\ k \in Nat
    BY <1>0, <2>1, <2>2, Zenon DEF InFlight
  <2> HIDE DEF u, v, w, k
  <2>6. /\ \A x \in lists \cup held : x \in Blocks /\ Disjoint(x, u)
        /\ \A x \in (lists \cup held) \ {v} : Disjoint(x, v)
        /\ lists \cap held = {}
        /\ \A x, y \in lists \cup held : x # y => Disjoint(x, y)
    BY <1>0, <2>1, <2>5, Zenon DEF Inv, NoOverlap, v
  <2>7. lists' = lists \ {v} /\ held' = held /\ v \notin held
    BY <2>1, <2>6, Zenon DEF v
  <2>8. TypeOK'
    BY <1>0, <2>1, <2>2, <2>5, <2>7, ZenonT(30) DEF Inv, TypeOK
  <2>9. NoOverlap'
    BY <2>4, <2>5, <2>6, <2>7 DEF NoOverlap, Disjoint
  <2> QED BY <2>1, <2>8, <2>9, Zenon DEF Inv, Below
<1>10. CASE FreePush
  <2>1. /\ op = "free" /\ op' = "none" /\ lists' = lists \cup {Block(addr, ord)}
        /\ freePages' = freePages + PageCount(want)
        /\ UNCHANGED <<totalPages, held, entry, addr, end, ord, want>>
    BY <1>10, ZenonT(30) DEF FreePush
  <2>2. Block(addr, ord) \in Blocks /\ PageCount(want) \in Nat
    BY <1>0, BlockType, PageCounts, Zenon
  <2>3. TypeOK'
    BY <1>0, <2>1, <2>2 DEF Inv, TypeOK
  <2>4. InFlight = {Block(addr, ord)} /\ InFlight' = {}
    BY <2>1, ZenonT(30) DEF InFlight
  <2>5. NoOverlap'
    BY <2>1, <2>4 DEF Inv, NoOverlap, Disjoint
  <2> QED BY <2>1, <2>3, <2>5, ZenonT(30) DEF Inv, Below
<1>11. CASE UNCHANGED vars
  BY <1>11, ZenonT(30) DEF vars, Inv, TypeOK, NoOverlap, InFlight, Disjoint, Below, Top, Multiple
<1> QED
  BY <1>1, <1>2, <1>3, <1>4, <1>5, <1>6, <1>7, <1>8, <1>9, <1>10, <1>11, Zenon DEF Next, Boot
-----------------------------------------------------------------------------
\* For every ascending memory map and MAX_ORDER: no page is ever in two blocks,
\* whether free or handed out, so alloc() never gives a page to two clients.
THEOREM NeverOverlap == Spec => []NoOverlap
<1>1. Inv => NoOverlap
  BY Zenon DEF Inv
<1> QED BY <1>1, InitInv, StepInv, PTL DEF Spec

\* The allocator's state keeps its types; orders stay within 0..MAX_ORDER, so
\* lists[order] is never indexed out of bounds.
THEOREM TypeCorrect == Spec => []TypeOK
<1>1. Inv => TypeOK
  BY Zenon DEF Inv
<1> QED BY <1>1, InitInv, StepInv, PTL DEF Spec
-----------------------------------------------------------------------------
(***************************************************************************)
(* The pages of blocks.                                                    *)
(***************************************************************************)
\* Block sizes are multiples of the smaller block sizes.
LEMMA SizesDivide ==
  ASSUME NEW m \in Orders, NEW o \in Orders, m <= o
  PROVE  Bytes[o] % Bytes[m] = 0
<1>0. /\ Orders \subseteq Nat
      /\ \A p \in Orders : Bytes[p] \in Nat \ {0}
      /\ \A p \in Orders : p > 0 => Bytes[p] = Bytes[p-1] + Bytes[p-1]
  <2>1. Orders \subseteq Nat
    BY FramesAssumption DEF Orders
  <2> QED BY <2>1, SizeFacts, Zenon
<1> DEFINE Bad == {p \in Orders : m <= p /\ Bytes[p] % Bytes[m] # 0}
<1>1. ASSUME Bad # {} PROVE FALSE
  <2>1. PICK n \in Bad : \A p \in Bad : n <= p
    BY <1>0, <1>1, Least, Zenon
  <2>2. Bytes[m] % Bytes[m] = 0
    <3> DEFINE d == Bytes[m]
    <3>1. d \in Nat \ {0}
      BY <1>0, Zenon
    <3> HIDE DEF d
    <3>2. d = 1 * d
      BY <3>1
    <3>3. d % d = 0
      BY <3>1, <3>2, Divides, Zenon
    <3> QED BY <3>3, Zenon DEF d
  <2>3. n \in Orders /\ m < n /\ n > 0 /\ n - 1 \in Orders /\ m <= n - 1
    <3>1. n \in Orders /\ m <= n /\ n # m
      BY <2>1, <2>2, Zenon
    <3> QED BY <3>1, FramesAssumption DEF Orders
  <2>4. Bytes[n-1] % Bytes[m] = 0
    BY <1>0, <2>1, <2>3
  <2>5. Bytes[n] = Bytes[n-1] + Bytes[n-1]
    BY <1>0, <2>3, Zenon
  <2>6. Bytes[m] \in Nat \ {0} /\ Bytes[n-1] \in Nat
    BY <1>0, <2>3, Zenon
  <2>7. (Bytes[n-1] + Bytes[n-1]) % Bytes[m] = 0
    BY <2>4, <2>6, SumMultiple, Zenon
  <2> QED BY <2>1, <2>5, <2>7, Zenon
<1> QED BY <1>1, Zenon

\* What is aligned for an order is aligned for the smaller ones.
LEMMA AlignedBelow ==
  ASSUME NEW m \in Orders, NEW o \in Orders, m <= o, NEW a \in Nat, a % Bytes[o] = 0
  PROVE  a % Bytes[m] = 0
<1>1. Bytes[m] \in Nat \ {0} /\ Bytes[o] \in Nat \ {0} /\ Bytes[o] % Bytes[m] = 0
  BY SizesDivide, SizeFacts, Zenon
<1> DEFINE x == Bytes[m]
           y == Bytes[o]
<1>2. x \in Nat \ {0} /\ y \in Nat \ {0} /\ y % x = 0 /\ a % y = 0
  BY <1>1, Zenon
<1> HIDE DEF x, y
<1>3. a % x = 0
  BY <1>2, Transitive, Zenon
<1> QED BY <1>3, Zenon DEF x

\* Naturally aligned blocks that meet are nested.
LEMMA Nested ==
  ASSUME NEW m \in Orders, NEW o \in Orders, m <= o,
         NEW x \in Nat, NEW y \in Nat, NEW z \in Nat,
         x % Bytes[m] = 0, y % Bytes[o] = 0,
         x <= z, z < x + Bytes[m], y <= z, z < y + Bytes[o]
  PROVE  y <= x /\ x + Bytes[m] <= y + Bytes[o]
<1>1. Bytes[m] \in Nat \ {0} /\ Bytes[o] \in Nat \ {0}
  BY SizeFacts, Zenon
<1>2. y % Bytes[m] = 0
  BY AlignedBelow, Zenon
<1>3. (y + Bytes[o]) % Bytes[m] = 0
  BY <1>1, <1>2, SizesDivide, SumMultiple, Zenon
<1> DEFINE u == Bytes[m]
           v == Bytes[o]
<1>4. /\ u \in Nat \ {0} /\ v \in Nat \ {0} /\ x % u = 0 /\ y % u = 0 /\ (y + v) % u = 0
      /\ z < x + u /\ z < y + v /\ y + v \in Nat
  BY <1>1, <1>2, <1>3
<1> HIDE DEF u, v
<1>5. ASSUME x < y PROVE FALSE
  <2>1. x + u <= y
    BY <1>4, <1>5, Apart, Zenon
  <2> QED BY <1>4, <2>1
<1>6. x + u <= y + v
  <2>1. x < y + v
    BY <1>4
  <2> QED BY <1>4, <2>1, Apart, Zenon
<1> QED BY <1>5, <1>6 DEF u, v

\* A block is naturally aligned.
Aligned(b) == b.addr % Bytes[b.order] = 0

\* A naturally aligned block begins at a page.
LEMMA AtPage ==
  ASSUME NEW b \in Blocks, Aligned(b)
  PROVE  b.addr % PageSize = 0
<1>1. b.addr \in Nat /\ b.order \in Orders /\ 0 \in Orders /\ 0 <= b.order
  BY FramesAssumption DEF Blocks, Orders
<1> QED BY <1>1, AlignedBelow, Zenon DEF Aligned, PageSize

\* The pages of a block are the pages between its bounds.
LEMMA PagesIs ==
  ASSUME NEW b \in Blocks, Aligned(b), NEW x
  PROVE  x \in PagesOf(b) <=> x \in Nat /\ x % PageSize = 0 /\ b.addr <= x /\ x < Top(b)
<1>0. /\ PageSize \in Nat \ {0} /\ b.addr \in Nat /\ b.order \in Orders
      /\ Bytes[b.order] \in Nat /\ b.addr % PageSize = 0
  BY SizeFacts, AtPage, Zenon DEF Blocks
<1>1. PageCount(b.order) \in Nat /\ Bytes[b.order] = PageCount(b.order) * PageSize
  BY <1>0, PageCounts, Zenon
<1> HIDE DEF PageSize
<1>2. PICK k \in Nat : b.addr = k * PageSize
  BY <1>0, Divides, Zenon
<1> DEFINE n == PageCount(b.order)
<1>4. n \in Nat /\ k \in Nat /\ Top(b) = b.addr + n * PageSize /\ n * PageSize \in Nat
  BY <1>0, <1>1, Zenon DEF Top
<1>a. x \in PagesOf(b) <=> \E i \in 0 .. n - 1 : x = b.addr + i * PageSize
  BY Zenon DEF PagesOf
<1> HIDE DEF n
<1>5. ASSUME NEW i \in 0 .. n - 1, x = b.addr + i * PageSize
      PROVE  x \in Nat /\ x % PageSize = 0 /\ b.addr <= x /\ x < Top(b)
  <2>1. i \in Nat /\ i < n
    BY <1>4
  <2>2. i * PageSize \in Nat /\ i * PageSize + PageSize <= n * PageSize
    BY <1>0, <1>4, <2>1, Steps, ZenonT(30)
  <2>3. (i * PageSize) % PageSize = 0
    BY <1>0, <2>1, <2>2, Divides, Zenon
  <2>4. (b.addr + i * PageSize) % PageSize = 0
    BY <1>0, <2>2, <2>3, SumMultiple, Zenon
  <2> DEFINE y == i * PageSize
             w == n * PageSize
  <2>5. /\ y \in Nat /\ y + PageSize <= w /\ x = b.addr + y /\ Top(b) = b.addr + w /\ w \in Nat
        /\ x % PageSize = 0
    BY <1>4, <1>5, <2>2, <2>4, Zenon
  <2> HIDE DEF y, w
  <2> QED BY <1>0, <2>5
<1>6. ASSUME x \in Nat, x % PageSize = 0, b.addr <= x, x < Top(b)
      PROVE  \E i \in 0 .. n - 1 : x = b.addr + i * PageSize
  <2>1. PICK j \in Nat : x = j * PageSize
    BY <1>0, <1>6, Divides, Zenon
  <2>2. k <= j
    <3>1. ASSUME j < k PROVE FALSE
      BY <1>0, <1>2, <1>6, <2>1, <3>1, Steps
    <3> QED BY <1>4, <3>1
  <2>3. j < k + n
    <3>1. (k + n) * PageSize = k * PageSize + n * PageSize /\ k + n \in Nat
      BY <1>0, <1>4, SMTT(30)
    <3>2. ASSUME k + n < j PROVE FALSE
      <4>1. (k + n) * PageSize + PageSize <= j * PageSize
        BY <1>0, <3>1, <3>2, Steps, Zenon
      <4> QED BY <1>0, <1>2, <1>4, <1>6, <2>1, <3>1, <4>1
    <3>3. k + n # j
      BY <1>0, <1>2, <1>4, <1>6, <2>1, <3>1
    <3> QED BY <1>4, <3>2, <3>3
  <2>4. j * PageSize = k * PageSize + (j - k) * PageSize
    BY <1>0, <1>4, SMTT(30)
  <2>5. j - k \in 0 .. n - 1
    BY <1>4, <2>2, <2>3
  <2> QED BY <1>2, <2>1, <2>4, <2>5, ZenonT(30)
<1> QED BY <1>a, <1>5, <1>6, Zenon

\* Blocks that do not overlap have no page in common.
LEMMA PagesApart ==
  ASSUME NEW b \in Blocks, NEW c \in Blocks, Aligned(b), Aligned(c), Disjoint(b, c)
  PROVE  PagesOf(b) \cap PagesOf(c) = {}
<1>1. ASSUME NEW x \in PagesOf(b) \cap PagesOf(c) PROVE FALSE
  <2>1. x \in Nat /\ b.addr <= x /\ x < Top(b) /\ c.addr <= x /\ x < Top(c)
    BY <1>1, PagesIs, Zenon
  <2>2. b.addr \in Nat /\ c.addr \in Nat /\ Bytes[b.order] \in Nat /\ Bytes[c.order] \in Nat
    BY SizeFacts, Zenon DEF Blocks
  <2> QED BY <2>1, <2>2 DEF Disjoint, Top
<1> QED BY <1>1, Zenon

\* A block of order o has 1 << o pages.
LEMMA PagesCounted ==
  ASSUME NEW b \in Blocks
  PROVE  IsFiniteSet(PagesOf(b)) /\ Cardinality(PagesOf(b)) = PageCount(b.order)
<1>0. PageSize \in Nat \ {0} /\ b.addr \in Nat /\ b.order \in Orders
  BY SizeFacts, Zenon DEF Blocks
<1> DEFINE n == PageCount(b.order)
           S == 0 .. n - 1
           f == [i \in S |-> b.addr + i * PageSize]
<1>1. n \in Nat /\ n >= 1
  BY <1>0, PageCounts, Zenon
<1> HIDE DEF PageSize
<1>2. f \in Surjection(S, PagesOf(b))
  <2>1. f \in [S -> PagesOf(b)]
    BY Zenon DEF PagesOf
  <2>2. \A t \in PagesOf(b) : \E i \in S : f[i] = t
    BY Zenon DEF PagesOf
  <2> QED BY <2>1, <2>2, Zenon DEF Surjection
<1>3. f \in Injection(S, PagesOf(b))
  <2>1. f \in [S -> PagesOf(b)]
    BY Zenon DEF PagesOf
  <2>2. ASSUME NEW i \in S, NEW j \in S, i < j PROVE f[i] # f[j]
    <3>1. i \in Nat /\ j \in Nat
      BY <1>1
    <3>2. i * PageSize \in Nat /\ j * PageSize \in Nat /\ i * PageSize + PageSize <= j * PageSize
      BY <1>0, <2>2, <3>1, Steps, Zenon
    <3>3. b.addr + i * PageSize # b.addr + j * PageSize
      BY <1>0, <3>2
    <3> QED BY <3>3, Zenon
  <2>3. \A i, j \in S : f[i] = f[j] => i = j
    <3>1. S \subseteq Int
      BY <1>1
    <3> HIDE DEF S, f
    <3> QED BY <2>2, <3>1
  <2> QED BY <2>1, <2>3, Zenon DEF Injection, IsInjective
<1>4. IsFiniteSet(S) /\ Cardinality(S) = n
  <2>1. 0 \in Int /\ n - 1 \in Int
    BY <1>1
  <2>2. IsFiniteSet(0 .. n - 1) /\ Cardinality(0 .. n - 1) = IF 0 > n - 1 THEN 0 ELSE (n - 1) - 0 + 1
    BY <2>1, FS_Interval, Zenon
  <2> QED BY <1>1, <2>2
<1> HIDE DEF S, f
<1>5. IsFiniteSet(PagesOf(b)) /\ Cardinality(PagesOf(b)) = Cardinality(S)
  BY <1>2, <1>3, <1>4, FS_Surjection, Zenon
<1> QED BY <1>4, <1>5, Zenon DEF n

\* The halves of a block are naturally aligned and have its pages.
LEMMA PagesHalves ==
  ASSUME NEW a \in Nat, NEW o \in Orders, o < MaxOrder, a % Bytes[o + 1] = 0
  PROVE  LET whole == Block(a, o + 1)
             left == Block(a, o)
             right == Block(a + Bytes[o], o)
         IN /\ Aligned(left) /\ Aligned(right)
            /\ PagesOf(whole) = PagesOf(left) \cup PagesOf(right)
<1> DEFINE whole == Block(a, o + 1)
           left == Block(a, o)
           right == Block(a + Bytes[o], o)
<1>1. o + 1 \in Orders /\ Bytes[o] \in Nat \ {0} /\ Bytes[o + 1] = Bytes[o] + Bytes[o]
  <2>1. o + 1 \in Orders /\ o + 1 > 0 /\ (o + 1) - 1 = o /\ o <= o + 1
    BY FramesAssumption DEF Orders
  <2> QED BY <2>1, SizeFacts, Zenon
<1>2. a % Bytes[o] = 0
  <2>1. o <= o + 1
    BY FramesAssumption DEF Orders
  <2> QED BY <1>1, <2>1, AlignedBelow, Zenon
<1>3. (a + Bytes[o]) % Bytes[o] = 0
  <2>1. Bytes[o] % Bytes[o] = 0
    <3>1. o <= o
      BY FramesAssumption DEF Orders
    <3> QED BY <3>1, SizesDivide, Zenon
  <2> QED BY <1>1, <1>2, <2>1, SumMultiple, Zenon
<1>4. a + Bytes[o] \in Nat
  BY <1>1
<1>5. /\ whole \in Blocks /\ whole.addr = a /\ whole.order = o + 1 /\ Top(whole) = a + Bytes[o + 1]
      /\ left \in Blocks /\ left.addr = a /\ left.order = o /\ Top(left) = a + Bytes[o]
      /\ right \in Blocks /\ right.addr = a + Bytes[o] /\ right.order = o
      /\ Top(right) = a + Bytes[o] + Bytes[o]
  BY <1>1, <1>4, BlockType
<1>6. Aligned(whole) /\ Aligned(left) /\ Aligned(right)
  BY <1>2, <1>3, <1>5, Zenon DEF Aligned
<1> HIDE DEF whole, left, right
<1>7. ASSUME NEW x PROVE x \in PagesOf(whole) <=> x \in PagesOf(left) \/ x \in PagesOf(right)
  <2>1. x \in PagesOf(whole) <=> x \in Nat /\ x % PageSize = 0 /\ a <= x /\ x < a + Bytes[o + 1]
    BY <1>5, <1>6, PagesIs, Zenon
  <2>2. x \in PagesOf(left) <=> x \in Nat /\ x % PageSize = 0 /\ a <= x /\ x < a + Bytes[o]
    BY <1>5, <1>6, PagesIs, ZenonT(30)
  <2>3. x \in PagesOf(right) <=>
          x \in Nat /\ x % PageSize = 0 /\ a + Bytes[o] <= x /\ x < a + Bytes[o] + Bytes[o]
    BY <1>5, <1>6, PagesIs, ZenonT(30)
  <2> DEFINE r == x % PageSize = 0
  <2> HIDE DEF r
  <2> QED BY <1>1, <2>1, <2>2, <2>3 DEF r
<1> QED BY <1>6, <1>7, Zenon DEF whole, left, right

\* The pages of a set of blocks.
LEMMA PagesTogether ==
  /\ AllPages({}) = {}
  /\ \A b : AllPages({b}) = PagesOf(b)
  /\ \A S, T : AllPages(S \cup T) = AllPages(S) \cup AllPages(T)
  /\ \A S, x : x \in AllPages(S) <=> \E b \in S : x \in PagesOf(b)
BY ZenonT(30) DEF AllPages

\* The buddy of an aligned block is aligned, has the block as its buddy, and the
\* lower of the two is aligned for the next order.
LEMMA BuddyFacts ==
  ASSUME NEW a \in Nat, NEW o \in Orders, a % Bytes[o] = 0
  PROVE  LET c == Buddy(a, o)
             m == IF c < a THEN c ELSE a
         IN /\ c \in Nat /\ c % Bytes[o] = 0 /\ Buddy(c, o) = a
            /\ m \in Nat /\ m % (Bytes[o] + Bytes[o]) = 0
            /\ (m = a /\ c = a + Bytes[o]) \/ (m = c /\ a = c + Bytes[o])
<1> DEFINE d == Bytes[o]
           c == Buddy(a, o)
<1>0. d \in Nat \ {0} /\ a % d = 0 /\ d + d \in Nat \ {0}
  BY SizeFacts
<1>a. \A x : Buddy(x, o) = IF (x \div d) % 2 = 0 THEN x + d ELSE x - d
  BY ZenonT(30) DEF Buddy
<1> HIDE DEF d
<1>1. PICK k \in Nat : a = k * d
  BY <1>0, Divides, Zenon
<1>2. ASSUME NEW i \in Nat PROVE i * d \in Nat /\ (i * d) \div d = i /\ (i * d) % d = 0
  <2>1. i * d \in Nat /\ (i * d + 0) \div d = i
    BY <1>0, Quotient
  <2>2. i * d + 0 = i * d
    BY <2>1
  <2> QED BY <1>0, <2>1, <2>2, Divides, ZenonT(30)
<1>3. ASSUME NEW j \in Nat
      PROVE  /\ 2 * j \in Nat /\ 2 * j + 1 \in Nat
             /\ (2 * j) % 2 = 0 /\ (2 * j + 1) % 2 = 1
             /\ (2 * j + 1) * d = (2 * j) * d + d
             /\ ((2 * j) * d) % (d + d) = 0
  <2>1. (2 * j + 1) * d = (2 * j) * d + d /\ (2 * j) * d = j * (d + d) /\ (2 * j) * d \in Nat
    BY <1>0, SMTT(30)
  <2>2. ((2 * j) * d) % (d + d) = 0
    BY <1>0, <2>1, Divides, Zenon
  <2>3. (2 * j) % 2 = 0 /\ (2 * j + 1) % 2 = 1
    OBVIOUS
  <2> QED BY <2>1, <2>2, <2>3
<1>4. PICK j \in Nat : k = 2 * j \/ k = 2 * j + 1
  <2>1. k \div 2 \in Nat /\ (k = 2 * (k \div 2) \/ k = 2 * (k \div 2) + 1)
    OBVIOUS
  <2> QED BY <2>1, Zenon
<1> DEFINE u == (2 * j) * d
           v == (2 * j + 1) * d
<1>5. /\ u \in Nat /\ v \in Nat /\ v = u + d /\ u % d = 0 /\ v % d = 0 /\ u % (d + d) = 0
      /\ (u \div d) % 2 = 0 /\ (v \div d) % 2 = 1
  <2>1. 2 * j \in Nat /\ 2 * j + 1 \in Nat /\ v = u + d /\ u % (d + d) = 0
    BY <1>3, Zenon
  <2>2. u \in Nat /\ u \div d = 2 * j /\ u % d = 0
    BY <1>2, <2>1, Zenon
  <2>3. v \in Nat /\ v \div d = 2 * j + 1 /\ v % d = 0
    BY <1>2, <2>1, ZenonT(30)
  <2>4. (2 * j) % 2 = 0 /\ (2 * j + 1) % 2 = 1
    BY <1>3, Zenon
  <2> QED BY <2>1, <2>2, <2>3, <2>4, Zenon
<1>6. a = u \/ a = v
  BY <1>1, <1>4, Zenon
<1> HIDE DEF u, v
<1>7. Buddy(u, o) = v /\ Buddy(v, o) = u
  BY <1>0, <1>5, <1>a
<1>8. CASE a = u
  BY <1>0, <1>5, <1>7, <1>8 DEF d
<1>9. CASE a = v
  BY <1>0, <1>5, <1>7, <1>9 DEF d
<1> QED BY <1>6, <1>8, <1>9, ZenonT(30)

\* A block disjoint from some blocks has none of their pages.
LEMMA NewPages ==
  ASSUME NEW S \in SUBSET Blocks, \A b \in S : Aligned(b), NEW n \in Blocks, Aligned(n),
         \A b \in S : Disjoint(b, n)
  PROVE  AllPages(S) \cap PagesOf(n) = {}
<1>1. ASSUME NEW x \in AllPages(S), x \in PagesOf(n) PROVE FALSE
  <2>1. PICK b \in S : x \in PagesOf(b)
    BY <1>1, PagesTogether, Zenon
  <2>2. PagesOf(b) \cap PagesOf(n) = {}
    BY <2>1, PagesApart, Zenon
  <2> QED BY <1>1, <2>1, <2>2, Zenon
<1> QED BY <1>1, Zenon
-----------------------------------------------------------------------------
(***************************************************************************)
(* What each step does to the free pages, the pages of the lists and of    *)
(* the block between the lists and a client, and to the held ones.         *)
(***************************************************************************)
Natural == \A b \in lists \cup held \cup InFlight : Aligned(b)

FreeSet == AllPages(lists \cup InFlight)
HeldSet == AllPages(held)

\* Free and held pages are different pages.
LEMMA PagesSeparate ==
  ASSUME Inv, Natural
  PROVE  FreeSet \cap HeldSet = {}
<1>1. lists \cup InFlight \subseteq Blocks /\ held \subseteq Blocks
  BY BlockType, ZenonT(30) DEF Inv, TypeOK, InFlight
<1>2. ASSUME NEW c \in held PROVE FreeSet \cap PagesOf(c) = {}
  <2>1. c \in Blocks /\ Aligned(c) /\ \A b \in lists \cup InFlight : Aligned(b) /\ Disjoint(b, c)
    BY <1>1, <1>2, ZenonT(30) DEF Inv, NoOverlap, Natural
  <2> QED BY <1>1, <2>1, NewPages, ZenonT(30) DEF FreeSet
<1> QED BY <1>2, PagesTogether DEF HeldSet

\* init() between regions, and the steps that change nothing.
LEMMA QuietPages ==
  ASSUME Inv, Natural, InitEntry \/ InitDone \/ RegionDone \/ UNCHANGED vars
  PROVE  Natural' /\ FreeSet' = FreeSet /\ HeldSet' = HeldSet /\ held' = held
<1>1. lists' = lists /\ held' = held /\ InFlight' = InFlight
  BY Zenon DEF InitEntry, InitDone, RegionDone, vars, InFlight
<1> QED BY <1>1, ZenonT(30) DEF Natural, FreeSet, HeldSet, Aligned

\* add_region adds a block: the largest that is aligned and fits.
LEMMA AddPages ==
  ASSUME Inv, Natural, AddBlock
  PROVE  /\ Natural' /\ held = {} /\ held' = {}
         /\ \E o \in Orders :
              /\ Block(addr, o) \in Blocks /\ Aligned(Block(addr, o))
              /\ o < MaxOrder /\ addr % Bytes[o + 1] = 0 => addr + Bytes[o + 1] > end
              /\ lists' = lists \cup {Block(addr, o)}
              /\ FreeSet' = FreeSet \cup PagesOf(Block(addr, o))
              /\ FreeSet \cap PagesOf(Block(addr, o)) = {}
              /\ freePages' = freePages + PageCount(o)
              /\ totalPages' = totalPages + PageCount(o)
              /\ addr' = addr + Bytes[o] /\ addr' <= end
<1>0. /\ lists \in SUBSET Blocks /\ addr \in Nat /\ end \in Nat
      /\ op = "region" /\ addr < end /\ held = {} /\ held' = held /\ op' = op
      /\ Multiple(addr) /\ Multiple(end) /\ \A b \in lists : Top(b) <= addr
  BY Zenon DEF Inv, TypeOK, AddBlock, Below
<1>1. PICK o \in Orders :
        /\ Fits(o) /\ \A p \in Orders : p > o => ~Fits(p)
        /\ lists' = lists \cup {Block(addr, o)}
        /\ freePages' = freePages + PageCount(o)
        /\ totalPages' = totalPages + PageCount(o)
        /\ addr' = addr + Bytes[o]
  BY Zenon DEF AddBlock
<1>2. Bytes[o] \in Nat \ {0} /\ PageSize \in Nat \ {0}
  BY SizeFacts, ZenonT(30)
<1>3. addr % Bytes[o] = 0 /\ addr + Bytes[o] <= end
  <2>1. CASE o = 0
    <3>1. addr + PageSize <= end
      BY <1>0, NextMultiple, ZenonT(30)
    <3>2. addr % PageSize = 0
      BY <1>0, <1>2, Divides, ZenonT(30) DEF Multiple
    <3> QED BY <2>1, <3>1, <3>2, Zenon DEF PageSize
  <2>2. CASE o # 0
    BY <1>1, <2>2, Zenon DEF Fits
  <2> QED BY <2>1, <2>2, ZenonT(30)
<1> DEFINE n == Block(addr, o)
<1>4. n \in Blocks /\ n.addr = addr /\ n.order = o
  BY <1>0, BlockType, ZenonT(30)
<1>5. Aligned(n)
  BY <1>3, <1>4, Zenon DEF Aligned
<1>6. ASSUME o < MaxOrder, addr % Bytes[o + 1] = 0 PROVE addr + Bytes[o + 1] > end
  <2>1. o + 1 \in Orders /\ o + 1 > o /\ o + 1 # 0
    BY <1>6, FramesAssumption DEF Orders
  <2>2. ~(addr + Bytes[o + 1] <= end) /\ Bytes[o + 1] \in Nat
    BY <1>1, <1>6, <2>1, SizeFacts, Zenon DEF Fits
  <2> QED BY <1>0, <2>2
<1> HIDE DEF n
<1>7. \A b \in lists : Disjoint(b, n) /\ Aligned(b)
  BY <1>0, <1>4, Zenon DEF Disjoint, Top, Natural
<1>8. lists' = lists \cup {n} /\ held' = {} /\ InFlight = {} /\ InFlight' = {}
  BY <1>0, <1>1, Zenon DEF InFlight, n
<1>9. Natural'
  BY <1>5, <1>7, <1>8, Zenon DEF Natural, Aligned
<1>10. FreeSet' = FreeSet \cup PagesOf(n)
  <2>1. FreeSet = AllPages(lists) /\ FreeSet' = AllPages(lists \cup {n})
    BY <1>8, ZenonT(30) DEF FreeSet
  <2> QED BY <2>1, PagesTogether
<1>11. FreeSet \cap PagesOf(n) = {}
  <2>1. FreeSet = AllPages(lists)
    BY <1>8, Zenon DEF FreeSet
  <2> QED BY <1>0, <1>4, <1>5, <1>7, <2>1, NewPages, ZenonT(30)
<1> QED BY <1>0, <1>1, <1>3, <1>4, <1>5, <1>6, <1>9, <1>10, <1>11, ZenonT(30) DEF n

\* alloc() takes a block from its list: the pages stay free.
LEMMA PopPages ==
  ASSUME Inv, Natural, NEW o \in Orders, AllocPop(o)
  PROVE  Natural' /\ FreeSet' = FreeSet /\ HeldSet' = HeldSet /\ held' = held
<1>1. PICK b \in lists : lists' = lists \ {b} /\ addr' = b.addr /\ ord' = b.order
  BY Zenon DEF AllocPop
<1>2. op = "none" /\ op' = "alloc" /\ held' = held /\ b \in Blocks
  BY Zenon DEF AllocPop, Inv, TypeOK
<1>3. Block(addr', ord') = b
  BY <1>1, <1>2, Zenon DEF Block, Blocks
<1>4. InFlight = {} /\ InFlight' = {b}
  BY <1>2, <1>3, Zenon DEF InFlight
<1>5. lists' \cup InFlight' = lists \cup InFlight
  BY <1>1, <1>4, Zenon
<1>6. Natural'
  BY <1>2, <1>5, Zenon DEF Natural, Aligned
<1> QED BY <1>2, <1>5, <1>6, Zenon DEF FreeSet, HeldSet

\* A split: both halves are free.
LEMMA SplitPages ==
  ASSUME Inv, Natural, AllocSplit
  PROVE  Natural' /\ FreeSet' = FreeSet /\ HeldSet' = HeldSet /\ held' = held
<1>0. addr \in Nat /\ ord \in Orders /\ want \in Orders
  BY Zenon DEF Inv, TypeOK
<1> DEFINE p == ord - 1
           l == Block(addr, p)
           r == Block(addr + Bytes[p], p)
           w == Block(addr, ord)
<1>1. /\ op = "alloc" /\ op' = op /\ ord > want /\ ord' = p /\ lists' = lists \cup {r}
      /\ addr' = addr /\ held' = held
  BY Zenon DEF AllocSplit
<1>2. p \in Orders /\ p < MaxOrder /\ p + 1 = ord
  BY <1>0, <1>1, FramesAssumption DEF Orders
<1>3. InFlight = {w} /\ InFlight' = {l}
  BY <1>1, ZenonT(30) DEF InFlight
<1>4. w \in lists \cup held \cup InFlight /\ w.addr = addr /\ w.order = ord
  BY <1>0, <1>3, BlockType, Zenon
<1>5. addr % Bytes[p + 1] = 0
  BY <1>2, <1>4, ZenonT(30) DEF Natural, Aligned
<1>6. Aligned(l) /\ Aligned(r) /\ PagesOf(Block(addr, p + 1)) = PagesOf(l) \cup PagesOf(r)
  BY <1>0, <1>2, <1>5, PagesHalves, Zenon
<1>7. PagesOf(w) = PagesOf(l) \cup PagesOf(r)
  BY <1>2, <1>6, ZenonT(30)
<1> HIDE DEF p, l, r, w
<1>8. Natural'
  BY <1>1, <1>3, <1>6, ZenonT(30) DEF Natural, Aligned
<1>9. FreeSet = AllPages(lists) \cup PagesOf(w) /\ FreeSet' = AllPages(lists) \cup PagesOf(r) \cup PagesOf(l)
  BY <1>1, <1>3, PagesTogether DEF FreeSet
<1> QED BY <1>1, <1>7, <1>8, <1>9, Zenon DEF HeldSet

\* alloc() returns: the pages of the block are the client's.
LEMMA AllocPages ==
  ASSUME Inv, Natural, AllocDone
  PROVE  LET b == Block(addr, want)
         IN /\ Natural' /\ b \in Blocks /\ Aligned(b) /\ b \notin held
            /\ PagesOf(b) \subseteq FreeSet
            /\ FreeSet' = FreeSet \ PagesOf(b) /\ HeldSet' = HeldSet \cup PagesOf(b)
            /\ held' = held \cup {b}
            /\ freePages' = freePages - PageCount(want)
<1> DEFINE b == Block(addr, want)
<1>1. /\ op = "alloc" /\ ord = want /\ op' = "none" /\ lists' = lists
      /\ held' = held \cup {b} /\ freePages' = freePages - PageCount(want)
  BY Zenon DEF AllocDone
<1>2. b \in Blocks /\ lists \in SUBSET Blocks
  BY BlockType, Zenon DEF Inv, TypeOK
<1>3. InFlight = {b} /\ InFlight' = {}
  BY <1>1, Zenon DEF InFlight
<1> HIDE DEF b
<1>4. /\ Aligned(b) /\ b \notin held /\ \A x \in lists : Aligned(x) /\ Disjoint(x, b)
  BY <1>3, Zenon DEF Inv, NoOverlap, Natural
<1>5. AllPages(lists) \cap PagesOf(b) = {}
  BY <1>2, <1>4, NewPages, ZenonT(30)
<1>6. FreeSet = AllPages(lists) \cup PagesOf(b) /\ FreeSet' = AllPages(lists)
  <2>1. FreeSet = AllPages(lists \cup {b}) /\ FreeSet' = AllPages(lists)
    BY <1>1, <1>3, Zenon DEF FreeSet
  <2> QED BY <2>1, PagesTogether
<1>7. HeldSet' = HeldSet \cup PagesOf(b)
  BY <1>1, PagesTogether DEF HeldSet
<1>8. Natural'
  BY <1>1, <1>3, Zenon DEF Natural, Aligned
<1> QED BY <1>1, <1>2, <1>4, <1>5, <1>6, <1>7, <1>8, ZenonT(30) DEF b

\* free() is called: the pages of the block are free.
LEMMA FreePages ==
  ASSUME Inv, Natural, NEW b \in held, FreeStart(b)
  PROVE  /\ Natural' /\ b \in Blocks
         /\ PagesOf(b) \subseteq HeldSet /\ FreeSet \cap PagesOf(b) = {}
         /\ FreeSet' = FreeSet \cup PagesOf(b) /\ HeldSet' = HeldSet \ PagesOf(b)
         /\ held' = held \ {b}
<1>1. /\ op = "none" /\ op' = "free" /\ lists' = lists
      /\ held' = held \ {b} /\ addr' = b.addr /\ ord' = b.order
  BY Zenon DEF FreeStart
<1>2. b \in Blocks /\ held \in SUBSET Blocks /\ lists \in SUBSET Blocks
  BY Zenon DEF Inv, TypeOK
<1>3. Block(addr', ord') = b
  BY <1>1, <1>2, Zenon DEF Block, Blocks
<1>4. InFlight = {} /\ InFlight' = {b}
  BY <1>1, <1>3, ZenonT(30) DEF InFlight
<1>5. Natural'
  BY <1>1, <1>4, Zenon DEF Natural, Aligned
<1>6. /\ Aligned(b) /\ \A x \in held \ {b} : Aligned(x) /\ Disjoint(x, b)
      /\ \A x \in lists : Aligned(x) /\ Disjoint(x, b)
  <2>1. b \notin lists
    BY Zenon DEF Inv, NoOverlap
  <2> QED BY <2>1, Zenon DEF Inv, NoOverlap, Natural
<1>7. AllPages(held \ {b}) \cap PagesOf(b) = {}
  <2> DEFINE S == held \ {b}
  <2>1. S \in SUBSET Blocks /\ \A x \in S : Aligned(x) /\ Disjoint(x, b)
    BY <1>2, <1>6, Zenon
  <2> HIDE DEF S
  <2>2. AllPages(S) \cap PagesOf(b) = {}
    BY <1>2, <1>6, <2>1, NewPages, ZenonT(30)
  <2> QED BY <2>2, Zenon DEF S
<1>8. FreeSet \cap PagesOf(b) = {}
  <2>1. FreeSet = AllPages(lists)
    BY <1>4, Zenon DEF FreeSet
  <2> QED BY <1>2, <1>6, <2>1, NewPages, Zenon
<1>9. HeldSet = AllPages(held \ {b}) \cup PagesOf(b) /\ HeldSet' = AllPages(held \ {b})
  <2>1. held = (held \ {b}) \cup {b}
    BY Zenon
  <2>2. AllPages((held \ {b}) \cup {b}) = AllPages(held \ {b}) \cup PagesOf(b)
    BY PagesTogether
  <2> QED BY <1>1, <2>1, <2>2, Zenon DEF HeldSet
<1>10. FreeSet' = FreeSet \cup PagesOf(b)
  <2>1. FreeSet = AllPages(lists) /\ FreeSet' = AllPages(lists \cup {b})
    BY <1>1, <1>4, Zenon DEF FreeSet
  <2> QED BY <2>1, PagesTogether
<1> QED BY <1>1, <1>2, <1>5, <1>7, <1>8, <1>9, <1>10, Zenon

\* A merge: the block and its buddy become one of the next order.
LEMMA MergePages ==
  ASSUME Inv, Natural, FreeMerge
  PROVE  Natural' /\ FreeSet' = FreeSet /\ HeldSet' = HeldSet /\ held' = held
<1> DEFINE c == Buddy(addr, ord)
           k == IF c < addr THEN c ELSE addr
           u == Block(addr, ord)
           v == Block(c, ord)
           w == Block(k, ord + 1)
<1>0. addr \in Nat /\ ord \in Orders
  BY Zenon DEF Inv, TypeOK
<1>1. /\ op = "free" /\ op' = op /\ ord < MaxOrder /\ v \in lists /\ lists' = lists \ {v}
      /\ addr' = k /\ ord' = ord + 1 /\ held' = held
  BY Zenon DEF FreeMerge, Merges
<1>2. InFlight = {u} /\ InFlight' = {w}
  BY <1>1, Zenon DEF InFlight
<1>3. addr % Bytes[ord] = 0
  <2>1. u \in lists \cup held \cup InFlight /\ u.addr = addr /\ u.order = ord
    BY <1>0, <1>2, BlockType, ZenonT(30)
  <2> QED BY <2>1, ZenonT(30) DEF Natural, Aligned
<1>4. /\ c \in Nat /\ k \in Nat /\ k % (Bytes[ord] + Bytes[ord]) = 0
      /\ (k = addr /\ c = addr + Bytes[ord]) \/ (k = c /\ addr = c + Bytes[ord])
  BY <1>0, <1>3, BuddyFacts, Zenon
<1>5. ord + 1 \in Orders /\ Bytes[ord + 1] = Bytes[ord] + Bytes[ord]
  <2>1. ord + 1 \in Orders /\ ord + 1 > 0 /\ (ord + 1) - 1 = ord
    BY <1>0, <1>1, FramesAssumption DEF Orders
  <2> QED BY <2>1, SizeFacts, ZenonT(30)
<1> HIDE DEF c, k
<1>6. k % Bytes[ord + 1] = 0
  BY <1>4, <1>5, Zenon
<1>7. PagesOf(w) = PagesOf(Block(k, ord)) \cup PagesOf(Block(k + Bytes[ord], ord))
  BY <1>0, <1>1, <1>4, <1>6, PagesHalves, ZenonT(30)
<1>8. PagesOf(w) = PagesOf(u) \cup PagesOf(v)
  BY <1>4, <1>7, Zenon
<1>9. Aligned(w)
  <2>1. w.addr = k /\ w.order = ord + 1
    BY <1>4, <1>5, BlockType, ZenonT(30)
  <2> QED BY <1>6, <2>1, ZenonT(30) DEF Aligned
<1> HIDE DEF u, v, w
<1>10. Natural'
  BY <1>1, <1>2, <1>9, Zenon DEF Natural, Aligned
<1>11. FreeSet = AllPages(lists \ {v}) \cup PagesOf(v) \cup PagesOf(u)
  <2>1. lists \cup InFlight = ((lists \ {v}) \cup {v}) \cup {u}
    BY <1>1, <1>2, ZenonT(30)
  <2> QED BY <2>1, PagesTogether DEF FreeSet
<1>12. FreeSet' = AllPages(lists \ {v}) \cup PagesOf(w)
  BY <1>1, <1>2, PagesTogether DEF FreeSet
<1> QED BY <1>1, <1>8, <1>10, <1>11, <1>12, Zenon DEF HeldSet

\* free() returns: the block is on its list.
LEMMA PushPages ==
  ASSUME Inv, Natural, FreePush
  PROVE  /\ Natural' /\ FreeSet' = FreeSet /\ HeldSet' = HeldSet /\ held' = held
         /\ freePages' = freePages + PageCount(want)
<1>1. /\ op = "free" /\ op' = "none" /\ lists' = lists \cup {Block(addr, ord)}
      /\ held' = held /\ freePages' = freePages + PageCount(want)
  BY Zenon DEF FreePush
<1>2. lists' \cup InFlight' = lists \cup InFlight
  BY <1>1, Zenon DEF InFlight
<1>3. Natural'
  BY <1>1, <1>2, Zenon DEF Natural, Aligned
<1> QED BY <1>1, <1>2, <1>3, Zenon DEF FreeSet, HeldSet

\* Every block is naturally aligned, always.
LEMMA InitNatural == Init => Natural
BY ZenonT(30) DEF Init, Natural, InFlight

\* Every step keeps the alignment.
LEMMA StepNatural == Inv /\ Natural /\ [Next]_vars => Natural'
<1> SUFFICES ASSUME Inv, Natural, [Next]_vars PROVE Natural'
  BY Zenon
<1>1. CASE InitEntry \/ InitDone \/ RegionDone \/ UNCHANGED vars
  BY <1>1, QuietPages, ZenonT(30)
<1>2. CASE AddBlock
  BY <1>2, AddPages, Zenon
<1>3. CASE \E o \in Orders : AllocPop(o)
  BY <1>3, PopPages, Zenon
<1>4. CASE AllocSplit
  BY <1>4, SplitPages, ZenonT(30)
<1>5. CASE AllocDone
  BY <1>5, AllocPages, Zenon
<1>6. CASE \E b \in held : FreeStart(b)
  BY <1>6, FreePages, Zenon
<1>7. CASE FreeMerge
  BY <1>7, MergePages, ZenonT(30)
<1>8. CASE FreePush
  BY <1>8, PushPages, Zenon
<1> QED BY <1>1, <1>2, <1>3, <1>4, <1>5, <1>6, <1>7, <1>8, ZenonT(30) DEF Next, Boot
-----------------------------------------------------------------------------
(***************************************************************************)
(* FREE_PAGES and TOTAL_PAGES.  free() counts the block when it is done,   *)
(* so until then it owes its pages.                                        *)
(***************************************************************************)
Owed == IF op = "free" THEN PageCount(want) ELSE 0

Counted ==
  /\ IsFiniteSet(FreeSet) /\ IsFiniteSet(HeldSet)
  /\ totalPages = Cardinality(FreeSet) + Cardinality(HeldSet)
  /\ freePages = Cardinality(FreeSet) - Owed

\* Pages that a set has not are added to it.
LEMMA CardinalityAdds ==
  ASSUME NEW S, IsFiniteSet(S), NEW T, IsFiniteSet(T), S \cap T = {}
  PROVE  IsFiniteSet(S \cup T) /\ Cardinality(S \cup T) = Cardinality(S) + Cardinality(T)
<1>1. Cardinality(S \cap T) = 0
  BY FS_EmptySet, Zenon
<1>2. Cardinality(S) \in Nat /\ Cardinality(T) \in Nat
  BY FS_CardinalityType, Zenon
<1>3. /\ IsFiniteSet(S \cup T)
      /\ Cardinality(S \cup T) = Cardinality(S) + Cardinality(T) - Cardinality(S \cap T)
  BY FS_Union, Zenon
<1> QED BY <1>1, <1>2, <1>3

\* Pages that a set has are taken from it.
LEMMA CardinalityTakes ==
  ASSUME NEW S, IsFiniteSet(S), NEW T \in SUBSET S
  PROVE  IsFiniteSet(S \ T) /\ Cardinality(S \ T) = Cardinality(S) - Cardinality(T)
<1>1. S \cap T = T
  BY Zenon
<1>2. IsFiniteSet(S \ T) /\ Cardinality(S \ T) = Cardinality(S) - Cardinality(S \cap T)
  BY FS_Difference, ZenonT(30)
<1> QED BY <1>1, <1>2, Zenon

\* The counters of the empty allocator.
LEMMA InitCounted == Init => Counted
<1> SUFFICES ASSUME Init PROVE Counted
  BY Zenon
<1>1. FreeSet = {} /\ HeldSet = {} /\ Owed = 0 /\ freePages = 0 /\ totalPages = 0
  BY PagesTogether, Zenon DEF Init, FreeSet, HeldSet, InFlight, Owed
<1>2. IsFiniteSet({}) /\ Cardinality({}) = 0
  BY FS_EmptySet, Zenon
<1> QED BY <1>1, <1>2 DEF Counted

\* Every step keeps the counters right.
LEMMA StepCounted == Inv /\ Natural /\ Counted /\ [Next]_vars => Counted'
<1> SUFFICES ASSUME Inv, Natural, Counted, [Next]_vars PROVE Counted'
  BY Zenon
<1>0. /\ IsFiniteSet(FreeSet) /\ IsFiniteSet(HeldSet)
      /\ Cardinality(FreeSet) \in Nat /\ Cardinality(HeldSet) \in Nat
      /\ totalPages = Cardinality(FreeSet) + Cardinality(HeldSet)
      /\ freePages = Cardinality(FreeSet) - Owed
  BY FS_CardinalityType, Zenon DEF Counted
<1>a. addr \in Nat /\ want \in Orders
  BY ZenonT(30) DEF Inv, TypeOK
<1>1. ASSUME FreeSet' = FreeSet, HeldSet' = HeldSet, UNCHANGED totalPages,
             freePages' + Owed' = freePages + Owed, freePages' \in Int, Owed' \in Int, Owed \in Int
      PROVE  Counted'
  BY <1>0, <1>1 DEF Counted
<1>b. Owed \in Int /\ Owed' \in Int /\ freePages \in Int /\ freePages' \in Int
  <2>1. TypeOK /\ TypeOK'
    BY StepInv, Zenon DEF Inv
  <2>2. want \in Orders /\ want' \in Orders /\ freePages \in Int /\ freePages' \in Int
    BY <2>1, ZenonT(30) DEF TypeOK
  <2>3. PageCount(want) \in Nat /\ PageCount(want') \in Nat
    BY <2>2, PageCounts, Zenon
  <2>4. Owed = (IF op = "free" THEN PageCount(want) ELSE 0) /\ Owed' = IF op' = "free" THEN PageCount(want') ELSE 0
    BY Zenon DEF Owed, PageCount
  <2> QED BY <2>2, <2>3, <2>4
<1>2. CASE InitEntry \/ InitDone \/ RegionDone \/ UNCHANGED vars
  <2>1. UNCHANGED <<totalPages, freePages>> /\ Owed' = Owed
    BY <1>2, Zenon DEF InitEntry, InitDone, RegionDone, vars, Owed, PageCount
  <2>2. FreeSet' = FreeSet /\ HeldSet' = HeldSet
    BY <1>2, QuietPages, Zenon
  <2> QED BY <1>1, <1>b, <2>1, <2>2, ZenonT(30)
<1>3. CASE AddBlock
  <2>1. PICK o \in Orders :
          /\ Block(addr, o) \in Blocks
          /\ FreeSet' = FreeSet \cup PagesOf(Block(addr, o))
          /\ FreeSet \cap PagesOf(Block(addr, o)) = {}
          /\ freePages' = freePages + PageCount(o) /\ totalPages' = totalPages + PageCount(o)
    BY <1>3, AddPages, Zenon
  <2>2. HeldSet' = HeldSet /\ Owed = 0 /\ Owed' = 0
    BY <1>3, Zenon DEF AddBlock, HeldSet, Owed
  <2> DEFINE n == Block(addr, o)
  <2>3. IsFiniteSet(PagesOf(n)) /\ Cardinality(PagesOf(n)) = PageCount(o)
    BY <1>a, <2>1, PagesCounted, BlockType, ZenonT(30)
  <2>4. PageCount(o) \in Nat
    BY PageCounts, Zenon
  <2>5. FreeSet' = FreeSet \cup PagesOf(n) /\ FreeSet \cap PagesOf(n) = {}
    BY <2>1, Zenon
  <2> HIDE DEF n
  <2>6. /\ IsFiniteSet(FreeSet \cup PagesOf(n))
        /\ Cardinality(FreeSet \cup PagesOf(n)) = Cardinality(FreeSet) + Cardinality(PagesOf(n))
    BY <1>0, <2>3, <2>5, CardinalityAdds, Zenon
  <2>7. IsFiniteSet(FreeSet') /\ Cardinality(FreeSet') = Cardinality(FreeSet) + PageCount(o)
    BY <2>3, <2>5, <2>6, ZenonT(30)
  <2> QED BY <1>0, <2>1, <2>2, <2>4, <2>7 DEF Counted
<1>4. ASSUME NEW o \in Orders, AllocPop(o) PROVE Counted'
  <2>1. UNCHANGED <<totalPages, freePages>> /\ Owed = 0 /\ Owed' = 0
    BY <1>4, Zenon DEF AllocPop, Owed
  <2>2. FreeSet' = FreeSet /\ HeldSet' = HeldSet
    BY <1>4, PopPages, ZenonT(30)
  <2> QED BY <1>1, <1>b, <2>1, <2>2, ZenonT(30)
<1>5. CASE AllocSplit
  <2>1. UNCHANGED <<totalPages, freePages>> /\ Owed = 0 /\ Owed' = 0
    BY <1>5, Zenon DEF AllocSplit, Owed
  <2>2. FreeSet' = FreeSet /\ HeldSet' = HeldSet
    BY <1>5, SplitPages, ZenonT(30)
  <2> QED BY <1>1, <1>b, <2>1, <2>2, ZenonT(30)
<1>6. CASE AllocDone
  <2> DEFINE n == Block(addr, want)
  <2>1. /\ n \in Blocks /\ PagesOf(n) \subseteq FreeSet
        /\ FreeSet' = FreeSet \ PagesOf(n) /\ HeldSet' = HeldSet \cup PagesOf(n)
        /\ freePages' = freePages - PageCount(want)
    BY <1>6, AllocPages, Zenon
  <2>2. totalPages' = totalPages /\ Owed = 0 /\ Owed' = 0
    BY <1>6, Zenon DEF AllocDone, Owed
  <2>3. IsFiniteSet(PagesOf(n)) /\ Cardinality(PagesOf(n)) = PageCount(want) /\ PageCount(want) \in Nat
    BY <1>a, <2>1, PagesCounted, PageCounts, BlockType
  <2> HIDE DEF n
  <2>4. HeldSet \cap PagesOf(n) = {}
    BY <2>1, PagesSeparate, ZenonT(30)
  <2>5. /\ IsFiniteSet(FreeSet \ PagesOf(n))
        /\ Cardinality(FreeSet \ PagesOf(n)) = Cardinality(FreeSet) - Cardinality(PagesOf(n))
    BY <1>0, <2>1, CardinalityTakes, Zenon
  <2>6. /\ IsFiniteSet(HeldSet \cup PagesOf(n))
        /\ Cardinality(HeldSet \cup PagesOf(n)) = Cardinality(HeldSet) + Cardinality(PagesOf(n))
    BY <1>0, <2>3, <2>4, CardinalityAdds, SMTT(30)
  <2>7. /\ IsFiniteSet(FreeSet') /\ Cardinality(FreeSet') = Cardinality(FreeSet) - PageCount(want)
        /\ IsFiniteSet(HeldSet') /\ Cardinality(HeldSet') = Cardinality(HeldSet) + PageCount(want)
    BY <2>1, <2>3, <2>5, <2>6, ZenonT(30)
  <2> QED BY <1>0, <2>1, <2>2, <2>3, <2>7 DEF Counted
<1>7. ASSUME NEW b \in held, FreeStart(b) PROVE Counted'
  <2>1. /\ b \in Blocks /\ PagesOf(b) \subseteq HeldSet /\ FreeSet \cap PagesOf(b) = {}
        /\ FreeSet' = FreeSet \cup PagesOf(b) /\ HeldSet' = HeldSet \ PagesOf(b)
    BY <1>7, FreePages, Zenon
  <2>2. /\ UNCHANGED <<totalPages, freePages>> /\ Owed = 0 /\ Owed' = PageCount(b.order)
    BY <1>7, Zenon DEF FreeStart, Owed, PageCount
  <2>3. /\ IsFiniteSet(PagesOf(b)) /\ Cardinality(PagesOf(b)) = PageCount(b.order)
        /\ PageCount(b.order) \in Nat
    BY <2>1, PagesCounted, PageCounts, ZenonT(30) DEF Blocks
  <2>5. /\ IsFiniteSet(FreeSet \cup PagesOf(b))
        /\ Cardinality(FreeSet \cup PagesOf(b)) = Cardinality(FreeSet) + Cardinality(PagesOf(b))
    BY <1>0, <2>1, <2>3, CardinalityAdds, Zenon
  <2>6. /\ IsFiniteSet(HeldSet \ PagesOf(b))
        /\ Cardinality(HeldSet \ PagesOf(b)) = Cardinality(HeldSet) - Cardinality(PagesOf(b))
    BY <1>0, <2>1, CardinalityTakes, Zenon
  <2>7. /\ IsFiniteSet(FreeSet') /\ Cardinality(FreeSet') = Cardinality(FreeSet) + PageCount(b.order)
        /\ IsFiniteSet(HeldSet') /\ Cardinality(HeldSet') = Cardinality(HeldSet) - PageCount(b.order)
    BY <2>1, <2>3, <2>5, <2>6, ZenonT(30)
  <2> QED BY <1>0, <2>2, <2>3, <2>7 DEF Counted
<1>8. CASE FreeMerge
  <2>1. UNCHANGED <<totalPages, freePages>> /\ Owed' = Owed
    BY <1>8, ZenonT(30) DEF FreeMerge, Owed, PageCount
  <2>2. FreeSet' = FreeSet /\ HeldSet' = HeldSet
    BY <1>8, MergePages, Zenon
  <2> QED BY <1>1, <1>b, <2>1, <2>2, Zenon
<1>9. CASE FreePush
  <2>1. totalPages' = totalPages /\ Owed = PageCount(want) /\ Owed' = 0
    BY <1>9, Zenon DEF FreePush, Owed
  <2>2. FreeSet' = FreeSet /\ HeldSet' = HeldSet /\ freePages' = freePages + PageCount(want)
    BY <1>9, PushPages, Zenon
  <2> QED BY <1>1, <1>b, <2>1, <2>2
<1> QED BY <1>2, <1>3, <1>4, <1>5, <1>6, <1>7, <1>8, <1>9, ZenonT(30) DEF Next, Boot

-----------------------------------------------------------------------------
(***************************************************************************)
(* init() adds the whole pages of the usable entries: those of the entries *)
(* before the current one and, of that one, those below addr.              *)
(***************************************************************************)
Usable(i, a) ==
  ~Skipped(MemMap[i]) /\ Low(MemMap[i]) <= a /\ a + PageSize <= High(MemMap[i])

UsableBefore(n) == {a \in Nat : a % PageSize = 0 /\ \E i \in 1 .. n - 1 : Usable(i, a)}

From(i) == AlignUp(Low(MemMap[i]))
To(i) == AlignDown(High(MemMap[i]))
Span(lo, hi) == {a \in Nat : a % PageSize = 0 /\ lo <= a /\ a < hi}

Covered ==
  /\ op = "init" => FreeSet = UsableBefore(entry)
  /\ op = "region" =>
       /\ entry > 1 /\ ~Skipped(MemMap[entry - 1]) /\ end = To(entry - 1)
       /\ From(entry - 1) <= addr /\ (addr = From(entry - 1) \/ addr <= end)
       /\ FreeSet = UsableBefore(entry - 1) \cup Span(From(entry - 1), addr)
  /\ op \notin {"init", "region"} => FreeSet \cup HeldSet = UsableBefore(Len(MemMap) + 1)

\* The whole pages of an entry are those from its bounds rounded inwards.
LEMMA EntryPages ==
  ASSUME NEW i \in DOMAIN MemMap, ~Skipped(MemMap[i]), NEW a \in Nat, a % PageSize = 0
  PROVE  Usable(i, a) <=> From(i) <= a /\ a < To(i)
<1>0. PageSize \in Nat \ {0}
  BY SizeFacts, Zenon
<1> DEFINE l == Low(MemMap[i])
           h == High(MemMap[i])
<1>1. l \in Nat /\ h \in Nat
  BY EntryFacts, Zenon
<1>2. Usable(i, a) <=> l <= a /\ a + PageSize <= h
  BY Zenon DEF Usable
<1> HIDE DEF l, h, PageSize
<1> DEFINE u == AlignUp(l)
           d == AlignDown(h)
<1>3. /\ u \in Nat /\ Multiple(u) /\ l <= u /\ u < l + PageSize
      /\ d \in Nat /\ Multiple(d) /\ d <= h /\ h < d + PageSize
  BY <1>1, AlignFacts, Zenon
<1>4. From(i) = u /\ To(i) = d
  BY ZenonT(30) DEF From, To, l, h
<1> HIDE DEF u, d
<1>5. u % PageSize = 0 /\ d % PageSize = 0
  BY <1>3, IsMultiple, ZenonT(30)
<1>6. ASSUME a < u PROVE a + PageSize <= u
  BY <1>0, <1>3, <1>5, <1>6, Apart, Zenon
<1>7. ASSUME a < d PROVE a + PageSize <= d
  BY <1>0, <1>3, <1>5, <1>7, Apart, Zenon
<1> QED BY <1>0, <1>1, <1>2, <1>3, <1>4, <1>6, <1>7

\* An entry that is skipped adds no page, another one its span.
LEMMA NextEntry ==
  ASSUME NEW i \in DOMAIN MemMap
  PROVE  /\ Skipped(MemMap[i]) => UsableBefore(i + 1) = UsableBefore(i)
         /\ ~Skipped(MemMap[i]) => UsableBefore(i + 1) = UsableBefore(i) \cup Span(From(i), To(i))
<1>0. i \in Nat /\ i >= 1
  BY EntryFacts
<1>1. 1 .. (i + 1) - 1 = (1 .. i - 1) \cup {i}
  BY <1>0
<1>2. ASSUME NEW a \in Nat
      PROVE  a \in UsableBefore(i + 1) <=> a \in UsableBefore(i) \/ (a % PageSize = 0 /\ Usable(i, a))
  BY <1>1, SMTT(30) DEF UsableBefore
<1>3. UsableBefore(i + 1) \subseteq Nat /\ UsableBefore(i) \subseteq Nat
  BY Zenon DEF UsableBefore
<1>4. CASE Skipped(MemMap[i])
  BY <1>2, <1>3, <1>4, ZenonT(30) DEF Usable
<1>5. CASE ~Skipped(MemMap[i])
  <2>1. ASSUME NEW a \in Nat
        PROVE  a \in Span(From(i), To(i)) <=> a % PageSize = 0 /\ Usable(i, a)
    <3>1. CASE a % PageSize = 0
      BY <1>5, <3>1, EntryPages, Zenon DEF Span
    <3>2. CASE a % PageSize # 0
      BY <3>2, Zenon DEF Span
    <3> QED BY <3>1, <3>2, Zenon
  <2>2. Span(From(i), To(i)) \subseteq Nat
    BY Zenon DEF Span
  <2> QED BY <1>2, <1>3, <1>5, <2>1, <2>2, Zenon
<1> QED BY <1>4, <1>5, Zenon

\* Before the first entry no page is usable.
LEMMA InitCovered == Init => Covered
<1> SUFFICES ASSUME Init PROVE Covered
  BY Zenon
<1>1. op = "init" /\ entry = 1 /\ FreeSet = {}
  BY PagesTogether, Zenon DEF Init, FreeSet, InFlight
<1>2. UsableBefore(1) = {}
  BY DEF UsableBefore
<1> QED BY <1>1, <1>2, Zenon DEF Covered

\* Every step keeps the usable pages, free or held.
LEMMA StepCovered == Inv /\ Natural /\ Covered /\ [Next]_vars => Covered'
<1> SUFFICES ASSUME Inv, Natural, Covered, [Next]_vars PROVE Covered'
  BY Zenon
<1>0. /\ Len(MemMap) \in Nat /\ DOMAIN MemMap = 1..Len(MemMap)
      /\ entry \in 1..(Len(MemMap) + 1) /\ addr \in Nat /\ end \in Nat /\ held \in SUBSET Blocks
  BY PmmAssumption DEF Inv, TypeOK
\* Outside init() only the union of free and held pages matters.
<1>a. ASSUME op \notin {"init", "region"}, op' \notin {"init", "region"},
             FreeSet' \cup HeldSet' = FreeSet \cup HeldSet
      PROVE  Covered'
  <2>1. FreeSet' \cup HeldSet' = UsableBefore(Len(MemMap) + 1)
    BY <1>a, Zenon DEF Covered
  <2> QED BY <1>a, <2>1, Zenon DEF Covered
<1>1. CASE InitEntry
  <2>1. /\ op = "init" /\ entry \in DOMAIN MemMap /\ entry' = entry + 1 /\ FreeSet' = FreeSet
        /\ FreeSet = UsableBefore(entry)
    BY <1>0, <1>1, QuietPages DEF InitEntry, Covered
  <2>2. CASE Skipped(MemMap[entry])
    <3>1. op' = "init"
      BY <1>1, <2>1, <2>2, ZenonT(30) DEF InitEntry
    <3>2. FreeSet' = UsableBefore(entry')
      BY <2>1, <2>2, NextEntry, Zenon
    <3> QED BY <3>1, <3>2, Zenon DEF Covered
  <2>3. CASE ~Skipped(MemMap[entry])
    <3>1. op' = "region" /\ addr' = From(entry) /\ end' = To(entry)
      BY <1>1, <2>3, ZenonT(30) DEF InitEntry, From, To
    <3>2. From(entry) \in Nat
      BY <2>1, EntryFacts, AlignFacts, Zenon DEF From
    <3>3. Span(From(entry), addr') = {}
      BY <3>1, <3>2 DEF Span
    <3>4. entry' > 1 /\ entry' - 1 = entry
      BY <1>0, <2>1
    <3>5. /\ entry' > 1 /\ ~Skipped(MemMap[entry' - 1]) /\ end' = To(entry' - 1)
          /\ From(entry' - 1) <= addr' /\ addr' = From(entry' - 1)
          /\ FreeSet' = UsableBefore(entry' - 1) \cup Span(From(entry' - 1), addr')
      BY <2>1, <2>3, <3>1, <3>2, <3>3, <3>4
    <3> QED BY <3>1, <3>5, ZenonT(30) DEF Covered
  <2> QED BY <2>2, <2>3, ZenonT(30)
<1>2. CASE InitDone
  <2>1. /\ op = "init" /\ op' = "none" /\ entry = Len(MemMap) + 1 /\ FreeSet' = FreeSet
        /\ HeldSet' = HeldSet
    BY <1>0, <1>2, QuietPages DEF InitDone
  <2>2. HeldSet = {} /\ FreeSet = UsableBefore(entry)
    BY <2>1, PagesTogether, Zenon DEF Covered, Inv, Below, HeldSet
  <2>3. FreeSet' \cup HeldSet' = UsableBefore(Len(MemMap) + 1)
    BY <2>1, <2>2, ZenonT(30)
  <2> QED BY <2>1, <2>3, ZenonT(30) DEF Covered
<1>3. CASE AddBlock
  <2> DEFINE lo == From(entry - 1)
  <2>1. /\ op = "region" /\ op' = op /\ entry' = entry /\ end' = end /\ entry > 1
        /\ ~Skipped(MemMap[entry - 1]) /\ end = To(entry - 1) /\ lo <= addr
        /\ FreeSet = UsableBefore(entry - 1) \cup Span(lo, addr)
    BY <1>3, ZenonT(30) DEF AddBlock, Covered
  <2>2. PICK o \in Orders :
          /\ Block(addr, o) \in Blocks /\ Aligned(Block(addr, o))
          /\ FreeSet' = FreeSet \cup PagesOf(Block(addr, o))
          /\ addr' = addr + Bytes[o] /\ addr' <= end
    BY <1>3, AddPages, ZenonT(30)
  <2>3. lo \in Nat
    <3>1. entry - 1 \in DOMAIN MemMap
      BY <1>0, <2>1
    <3> QED BY <3>1, EntryFacts, AlignFacts, Zenon DEF From
  <2> HIDE DEF lo
  <2>4. Bytes[o] \in Nat
    BY SizeFacts, ZenonT(30)
  <2>5. Span(lo, addr') = Span(lo, addr) \cup PagesOf(Block(addr, o))
    <3>1. ASSUME NEW x
          PROVE  x \in PagesOf(Block(addr, o)) <=>
                   x \in Nat /\ x % PageSize = 0 /\ addr <= x /\ x < addr + Bytes[o]
      <4>1. Block(addr, o).addr = addr /\ Top(Block(addr, o)) = addr + Bytes[o]
        BY <1>0, BlockType, Zenon
      <4> QED BY <2>2, <4>1, PagesIs, ZenonT(30)
    <3>2. ASSUME NEW x \in Nat
          PROVE  lo <= x /\ x < addr' <=> (lo <= x /\ x < addr) \/ (addr <= x /\ x < addr + Bytes[o])
      BY <1>0, <2>1, <2>2, <2>3, <2>4
    <3> DEFINE P(x) == x % PageSize = 0
    <3>3. /\ \A x : x \in Span(lo, addr') <=> x \in Nat /\ P(x) /\ lo <= x /\ x < addr'
          /\ \A x : x \in Span(lo, addr) <=> x \in Nat /\ P(x) /\ lo <= x /\ x < addr
          /\ \A x : x \in PagesOf(Block(addr, o)) <=>
                      x \in Nat /\ P(x) /\ addr <= x /\ x < addr + Bytes[o]
      BY <3>1, ZenonT(30) DEF Span
    <3> HIDE DEF P
    <3> QED BY <3>2, <3>3, Zenon
  <2>6. FreeSet' = UsableBefore(entry - 1) \cup Span(lo, addr')
    BY <2>1, <2>2, <2>5, Zenon
  <2>7. lo <= addr'
    BY <1>0, <2>1, <2>2, <2>3, <2>4
  <2> QED BY <2>1, <2>2, <2>6, <2>7, Zenon DEF Covered, lo
<1>4. CASE RegionDone
  <2> DEFINE i == entry - 1
  <2>1. /\ op = "region" /\ op' = "init" /\ entry' = entry /\ entry > 1 /\ addr >= end
        /\ ~Skipped(MemMap[i]) /\ end = To(i) /\ From(i) <= addr
        /\ addr = From(i) \/ addr <= end
        /\ FreeSet = UsableBefore(i) \cup Span(From(i), addr)
    BY <1>4, Zenon DEF RegionDone, Covered
  <2>2. i \in DOMAIN MemMap /\ i + 1 = entry
    BY <1>0, <2>1
  <2>3. FreeSet' = FreeSet
    BY <1>4, QuietPages, ZenonT(30)
  <2>4. From(i) \in Nat
    BY <2>2, EntryFacts, AlignFacts, Zenon DEF From
  <2> HIDE DEF i
  <2>5. Span(From(i), addr) = Span(From(i), To(i))
    <3>1. CASE addr = end
      BY <2>1, <3>1, Zenon
    <3>2. CASE addr = From(i)
      <4>1. \A x \in Nat : ~(From(i) <= x /\ x < addr) /\ ~(From(i) <= x /\ x < To(i))
        BY <1>0, <2>1, <2>4, <3>2
      <4> QED BY <4>1, ZenonT(30) DEF Span
    <3> QED BY <1>0, <2>1, <3>1, <3>2
  <2>6. UsableBefore(i + 1) = UsableBefore(i) \cup Span(From(i), To(i))
    BY <2>1, <2>2, NextEntry, ZenonT(30)
  <2>7. FreeSet' = UsableBefore(entry')
    BY <2>1, <2>2, <2>3, <2>5, <2>6, ZenonT(30)
  <2> QED BY <2>1, <2>7, Zenon DEF Covered
<1>5. ASSUME NEW o \in Orders, AllocPop(o) PROVE Covered'
  <2>1. op = "none" /\ op' = "alloc"
    BY <1>5, ZenonT(30) DEF AllocPop
  <2> QED BY <1>5, <1>a, <2>1, PopPages, ZenonT(30)
<1>6. CASE AllocSplit
  <2>1. op = "alloc" /\ op' = "alloc"
    BY <1>6, ZenonT(30) DEF AllocSplit
  <2> QED BY <1>6, <1>a, <2>1, SplitPages, Zenon
<1>7. CASE AllocDone
  <2>1. op = "alloc" /\ op' = "none"
    BY <1>7, Zenon DEF AllocDone
  <2>2. FreeSet' \cup HeldSet' = FreeSet \cup HeldSet
    BY <1>7, AllocPages, ZenonT(30)
  <2> QED BY <1>a, <2>1, <2>2, ZenonT(30)
<1>8. ASSUME NEW b \in held, FreeStart(b) PROVE Covered'
  <2>1. op = "none" /\ op' = "free"
    BY <1>8, Zenon DEF FreeStart
  <2>2. FreeSet' \cup HeldSet' = FreeSet \cup HeldSet
    BY <1>8, FreePages, ZenonT(30)
  <2> QED BY <1>a, <2>1, <2>2, ZenonT(30)
<1>9. CASE FreeMerge
  <2>1. op = "free" /\ op' = "free"
    BY <1>9, Zenon DEF FreeMerge
  <2> QED BY <1>9, <1>a, <2>1, MergePages, ZenonT(30)
<1>10. CASE FreePush
  <2>1. op = "free" /\ op' = "none"
    BY <1>10, Zenon DEF FreePush
  <2> QED BY <1>10, <1>a, <2>1, PushPages, ZenonT(30)
<1>11. CASE UNCHANGED vars
  <2>1. /\ op' = op /\ entry' = entry /\ addr' = addr /\ end' = end
        /\ FreeSet' = FreeSet /\ HeldSet' = HeldSet
    BY <1>11, QuietPages, ZenonT(30) DEF vars
  <2> QED BY <2>1, Zenon DEF Covered
<1> QED BY <1>1, <1>2, <1>3, <1>4, <1>5, <1>6, <1>7, <1>8, <1>9, <1>10, <1>11, ZenonT(30) DEF Next, Boot

\* The pages of all entries are the whole pages of the usable memory.
LEMMA UsableAll == UsablePages = UsableBefore(Len(MemMap) + 1)
<1>0. Len(MemMap) \in Nat /\ DOMAIN MemMap = 1..Len(MemMap)
  BY PmmAssumption
<1>1. 1 .. (Len(MemMap) + 1) - 1 = DOMAIN MemMap
  BY <1>0
<1>2. ASSUME NEW a \in Nat, NEW i \in DOMAIN MemMap, Usable(i, a)
      PROVE  a \in 0 .. High(MemMap[Len(MemMap)])
  <2> DEFINE n == Len(MemMap)
  <2>1. n \in DOMAIN MemMap /\ i \in Nat /\ n \in Nat /\ i <= n
    BY <1>0
  <2>2. High(MemMap[i]) \in Nat /\ High(MemMap[n]) \in Nat
    BY <2>1, EntryFacts, ZenonT(30)
  <2>3. High(MemMap[i]) <= High(MemMap[n])
    <3>1. CASE i = n
      BY <2>2, <3>1
    <3>2. CASE i < n
      <4>1. High(MemMap[i]) <= MemMap[n].base
        BY <2>1, <3>2, EntryFacts, Zenon
      <4>2. MemMap[n].base \in Nat /\ MemMap[n].length \in Nat
        <5>1. MemMap[n] \in Entries
          BY <2>1, PmmAssumption
        <5> QED BY <5>1, ZenonT(30) DEF Entries
      <4> QED BY <2>2, <4>1, <4>2 DEF High
    <3> QED BY <2>1, <3>1, <3>2
  <2>4. a + PageSize <= High(MemMap[i]) /\ PageSize \in Nat
    BY <1>2, SizeFacts, Zenon DEF Usable
  <2> HIDE DEF n, PageSize
  <2>5. a <= High(MemMap[n])
    BY <2>2, <2>3, <2>4
  <2> QED BY <2>2, <2>5 DEF n
<1> DEFINE hi == High(MemMap[Len(MemMap)])
<1>3. ASSUME NEW a
      PROVE  a \in UsablePages <=> a \in 0 .. hi /\ a % PageSize = 0 /\ \E i \in DOMAIN MemMap : Usable(i, a)
  BY Zenon DEF UsablePages, Usable
<1>4. ASSUME NEW a
      PROVE  a \in UsableBefore(Len(MemMap) + 1) <=>
               a \in Nat /\ a % PageSize = 0 /\ \E i \in DOMAIN MemMap : Usable(i, a)
  BY <1>1, ZenonT(30) DEF UsableBefore
<1>5. ASSUME NEW a, NEW i \in DOMAIN MemMap, a \in 0 .. hi PROVE a \in Nat
  <2>1. Len(MemMap) \in DOMAIN MemMap
    BY <1>0
  <2>2. hi \in Nat
    BY <2>1, EntryFacts, Zenon
  <2> QED BY <1>5, <2>2
<1> HIDE DEF hi
<1> DEFINE P(a) == a % PageSize = 0
           Q(a) == \E i \in DOMAIN MemMap : Usable(i, a)
<1>6. \A a : (a \in UsablePages <=> a \in 0 .. hi /\ P(a) /\ Q(a))
             /\ (a \in UsableBefore(Len(MemMap) + 1) <=> a \in Nat /\ P(a) /\ Q(a))
  BY <1>3, <1>4, ZenonT(30)
<1>7. \A a : Q(a) => (a \in 0 .. hi <=> a \in Nat)
  BY <1>2, <1>5, Zenon DEF hi
<1> HIDE DEF P, Q
<1> QED BY <1>6, <1>7, Zenon

\* The free and the held pages are the usable memory and the counters are right.
LEMMA AccountedHolds == Inv /\ Natural /\ Covered /\ Counted => Accounted
<1> SUFFICES ASSUME Inv, Natural, Covered, Counted PROVE Accounted
  BY Zenon
<1>1. \A b \in lists \cup held \cup InFlight : b.addr % Bytes[b.order] = 0
  BY Zenon DEF Natural, Aligned
<1>2. ASSUME op = "none"
      PROVE  /\ AllPages(lists \cup held) = UsablePages
             /\ freePages = Cardinality(AllPages(lists))
             /\ totalPages = Cardinality(UsablePages)
  <2>1. FreeSet = AllPages(lists) /\ Owed = 0
    BY <1>2, ZenonT(30) DEF FreeSet, InFlight, Owed
  <2>2. AllPages(lists \cup held) = FreeSet \cup HeldSet
    BY <2>1, PagesTogether, Zenon DEF HeldSet
  <2>3. FreeSet \cup HeldSet = UsablePages
    BY <1>2, UsableAll, ZenonT(30) DEF Covered
  <2>4. /\ IsFiniteSet(FreeSet) /\ IsFiniteSet(HeldSet) /\ Cardinality(FreeSet) \in Nat
        /\ totalPages = Cardinality(FreeSet) + Cardinality(HeldSet)
        /\ freePages = Cardinality(FreeSet) - Owed
    BY FS_CardinalityType, ZenonT(30) DEF Counted
  <2>5. Cardinality(FreeSet \cup HeldSet) = Cardinality(FreeSet) + Cardinality(HeldSet)
    BY <2>4, PagesSeparate, CardinalityAdds, Zenon
  <2>6. freePages = Cardinality(FreeSet)
    BY <2>1, <2>4
  <2> QED BY <2>1, <2>2, <2>3, <2>4, <2>5, <2>6, Zenon
<1> QED BY <1>1, <1>2, ZenonT(30) DEF Accounted

\* Blocks are naturally aligned, and whenever the lock is free the free and the
\* held pages are exactly the whole pages of the usable memory above the limit,
\* FREE_PAGES is the number of free ones and TOTAL_PAGES of all: for every
\* memory map, number of orders and page size.
THEOREM AlwaysAccounted == Spec => []Accounted
<1> DEFINE I == Inv /\ Natural /\ Covered /\ Counted
<1>1. Init => I
  BY InitInv, InitNatural, InitCovered, InitCounted, Zenon
<1>2. I /\ [Next]_vars => I'
  BY StepInv, StepNatural, StepCovered, StepCounted, Zenon
<1>3. I => Accounted
  BY AccountedHolds, ZenonT(30)
<1> QED BY <1>1, <1>2, <1>3, PTL DEF Spec
-----------------------------------------------------------------------------
(***************************************************************************)
(* The allocator implements FrameAllocator.                                *)
(***************************************************************************)
\* A step is a donation, an allocation, a release, or changes nothing a client
\* sees.
LEMMA StepRefines == Inv /\ Natural /\ [Next]_vars => [FA!Next]_<<FreeSet, held>>
<1> SUFFICES ASSUME Inv, Natural, [Next]_vars, ~UNCHANGED <<FreeSet, held>> PROVE FA!Next
  BY Zenon
<1>1. CASE AddBlock
  <2>1. held = {} /\ held' = {}
    BY <1>1, AddPages, Zenon
  <2>2. FreeSet \subseteq FreeSet'
    BY <1>1, AddPages, Zenon
  <2>3. FA!AllPages(held) = {}
    BY <2>1, ZenonT(30) DEF FA!AllPages
  <2>4. FA!Donate(FreeSet' \ FreeSet)
    BY <2>1, <2>2, <2>3, ZenonT(30) DEF FA!Donate, FreeSet
  <2> QED BY <2>4, ZenonT(30) DEF FA!Next, FreeSet
<1>2. CASE AllocDone
  <2> DEFINE b == Block(addr, want)
  <2>1. /\ Aligned(b) /\ b \notin held /\ held' = held \cup {b}
        /\ PagesOf(b) \subseteq FreeSet /\ FreeSet' = FreeSet \ PagesOf(b)
    BY <1>2, AllocPages, ZenonT(30)
  <2> HIDE DEF b
  <2>2. FA!Alloc(b)
    BY <2>1, Zenon DEF FA!Alloc, FA!PagesOf, FA!PageCount, FA!PageSize, PagesOf, PageCount, PageSize,
                FreeSet, Aligned
  <2>3. b \in held' \ held
    BY <2>1, Zenon
  <2> QED BY <2>2, <2>3, Zenon DEF FA!Next
<1>3. ASSUME NEW b \in held, FreeStart(b) PROVE FA!Next
  <2>1. FreeSet' = FreeSet \cup PagesOf(b) /\ held' = held \ {b}
    BY <1>3, FreePages, ZenonT(30)
  <2>2. FA!Free(b)
    BY <1>3, <2>1, Zenon DEF FA!Free, FA!PagesOf, FA!PageCount, FA!PageSize, PagesOf, PageCount, PageSize,
                FreeSet
  <2> QED BY <2>2, ZenonT(30) DEF FA!Next
<1>4. CASE InitEntry \/ InitDone \/ RegionDone \/ UNCHANGED vars
  BY <1>4, QuietPages, ZenonT(30)
<1>5. CASE \E o \in Orders : AllocPop(o)
  BY <1>5, PopPages, ZenonT(30)
<1>6. CASE AllocSplit
  BY <1>6, SplitPages, Zenon
<1>7. CASE FreeMerge
  BY <1>7, MergePages, ZenonT(30)
<1>8. CASE FreePush
  BY <1>8, PushPages, ZenonT(30)
<1> QED BY <1>1, <1>2, <1>3, <1>4, <1>5, <1>6, <1>7, <1>8, ZenonT(30) DEF Next, Boot

\* What alloc_frames and free_frames promise, a naturally aligned run of free
\* pages with one owner at a time, is what the buddy lists do.
THEOREM ImplementsAllocator == Spec => Refinement
<1>1. Init => FA!Init
  BY PagesTogether DEF Init, FA!Init, InFlight
<1>2. Inv /\ Natural /\ [Next]_vars => [FA!Next]_<<AllPages(lists \cup InFlight), held>>
  BY StepRefines, Zenon DEF FreeSet
<1>3. Init => Inv /\ Natural
  BY InitInv, InitNatural, Zenon
<1>4. Inv /\ Natural /\ [Next]_vars => (Inv /\ Natural)'
  BY StepInv, StepNatural, ZenonT(30)
<1> QED BY <1>1, <1>2, <1>3, <1>4, PTL DEF Spec, Refinement, FA!Spec

-----------------------------------------------------------------------------
(***************************************************************************)
(* A block and its buddy are never both in the lists: what can be merged   *)
(* is.  While init() runs, the last block of a region is one whose buddy   *)
(* the region has no room for, and the next region begins further up.      *)
(***************************************************************************)
BuddyOf(b) == Block(Buddy(b.addr, b.order), b.order)

Unpaired(S) == \A b \in S : b.order < MaxOrder => BuddyOf(b) \notin S

Edge ==
  /\ op \in {"init", "region"} =>
       \A b \in lists : \E i \in 1 .. entry - 1 : ~Skipped(MemMap[i]) /\ Top(b) <= To(i)
  /\ op = "region" =>
       \A b \in lists :
         b.order < MaxOrder /\ Top(b) = addr /\ b.addr % Bytes[b.order + 1] = 0 =>
           addr + Bytes[b.order] > end

\* The next size.
LEMMA NextSize ==
  ASSUME NEW o \in Orders, o < MaxOrder
  PROVE  o + 1 \in Orders /\ Bytes[o] \in Nat \ {0} /\ Bytes[o + 1] = Bytes[o] + Bytes[o]
<1>1. o + 1 \in Orders /\ o + 1 > 0 /\ (o + 1) - 1 = o
  BY FramesAssumption DEF Orders
<1> QED BY <1>1, SizeFacts, Zenon

\* A block is its buddy's buddy.
LEMMA BuddyBack ==
  ASSUME NEW b \in Blocks, Aligned(b)
  PROVE  BuddyOf(b) \in Blocks /\ BuddyOf(BuddyOf(b)) = b /\ BuddyOf(b) # b
<1> DEFINE c == Buddy(b.addr, b.order)
<1>1. b.addr \in Nat /\ b.order \in Orders /\ b.addr % Bytes[b.order] = 0 /\ Bytes[b.order] \in Nat \ {0}
  BY SizeFacts, Zenon DEF Blocks, Aligned
<1>2. /\ c \in Nat /\ Buddy(c, b.order) = b.addr
      /\ c = b.addr + Bytes[b.order] \/ b.addr = c + Bytes[b.order]
  BY <1>1, BuddyFacts, Zenon
<1> HIDE DEF c
<1>3. BuddyOf(b) = Block(c, b.order)
  BY Zenon DEF BuddyOf, c
<1>4. Block(c, b.order) \in Blocks /\ Block(c, b.order).addr = c /\ Block(c, b.order).order = b.order
  BY <1>1, <1>2, BlockType, ZenonT(30)
<1>5. BuddyOf(Block(c, b.order)) = Block(b.addr, b.order)
  BY <1>2, <1>4, Zenon DEF BuddyOf
<1>6. Block(b.addr, b.order) = b
  BY Zenon DEF Block, Blocks
<1>7. c # b.addr
  BY <1>1, <1>2
<1> QED BY <1>3, <1>4, <1>5, <1>6, <1>7, ZenonT(30)

\* A block whose buddy is not free joins the lists.
LEMMA JoinsUnpaired ==
  ASSUME NEW S \in SUBSET Blocks, \A b \in S : Aligned(b), Unpaired(S),
         NEW n \in Blocks, Aligned(n), n.order < MaxOrder => BuddyOf(n) \notin S
  PROVE  Unpaired(S \cup {n})
<1> SUFFICES ASSUME NEW b \in S \cup {n}, b.order < MaxOrder, BuddyOf(b) \in S \cup {n}
             PROVE  FALSE
  BY Zenon DEF Unpaired
<1>1. b \in Blocks /\ Aligned(b)
  BY Zenon
<1>2. BuddyOf(b) \in Blocks /\ BuddyOf(BuddyOf(b)) = b /\ BuddyOf(b) # b
  BY <1>1, BuddyBack, Zenon
<1>3. CASE b = n
  BY <1>2, <1>3, ZenonT(30)
<1>4. CASE b \in S /\ BuddyOf(b) \in S
  BY <1>4, Zenon DEF Unpaired
<1>5. CASE b \in S /\ BuddyOf(b) = n
  <2>1. BuddyOf(n) = b
    BY <1>2, <1>5, ZenonT(30)
  <2>2. n.order = b.order
    <3>1. BuddyOf(b).order = b.order
      BY Zenon DEF BuddyOf, Block
    <3> QED BY <1>5, <3>1, Zenon
  <2> QED BY <1>5, <2>1, <2>2, Zenon
<1> QED BY <1>3, <1>4, <1>5, Zenon

\* Every step of init() keeps the room above the blocks too small.
LEMMA StepEdge ==
  ASSUME Gaps
  PROVE  Inv /\ Natural /\ Covered /\ Edge /\ [Next]_vars => Edge'
<1> SUFFICES ASSUME Inv, Natural, Covered, Edge, [Next]_vars PROVE Edge'
  BY Zenon
<1>0. /\ Len(MemMap) \in Nat /\ DOMAIN MemMap = 1..Len(MemMap)
      /\ entry \in 1..(Len(MemMap) + 1) /\ addr \in Nat /\ end \in Nat /\ lists \in SUBSET Blocks
  BY PmmAssumption DEF Inv, TypeOK
<1>a. \A b \in lists : Top(b) \in Nat /\ b.order \in Orders
  BY <1>0, SizeFacts, SMTT(30) DEF Top, Blocks
<1>b. ASSUME NEW i \in DOMAIN MemMap PROVE From(i) \in Nat /\ To(i) \in Nat
  <2>1. Low(MemMap[i]) \in Nat /\ High(MemMap[i]) \in Nat
    BY EntryFacts, ZenonT(30)
  <2> QED BY <2>1, AlignFacts, Zenon DEF From, To
<1>1. CASE InitEntry
  <2>1. op = "init" /\ entry \in DOMAIN MemMap /\ entry' = entry + 1 /\ lists' = lists
    BY <1>0, <1>1 DEF InitEntry
  <2>2. \A b \in lists : \E i \in 1 .. entry - 1 : ~Skipped(MemMap[i]) /\ Top(b) <= To(i)
    BY <2>1, ZenonT(30) DEF Edge
  <2>3. \A b \in lists : \E i \in 1 .. entry' - 1 : ~Skipped(MemMap[i]) /\ Top(b) <= To(i)
    <3>1. 1 .. entry - 1 \subseteq 1 .. entry' - 1
      BY <1>0, <2>1
    <3> QED BY <2>2, <3>1, Zenon
  <2>4. ASSUME op' = "region", NEW b \in lists PROVE Top(b) # addr'
    <3>1. ~Skipped(MemMap[entry]) /\ addr' = From(entry)
      BY <1>1, <2>1, <2>4, Zenon DEF InitEntry, From
    <3>2. PICK i \in 1 .. entry - 1 : ~Skipped(MemMap[i]) /\ Top(b) <= To(i)
      BY <2>2, <2>4, ZenonT(30)
    <3>3. i \in DOMAIN MemMap /\ i < entry
      BY <1>0, <2>1
    <3>4. To(i) < From(entry)
      BY <2>1, <3>1, <3>2, <3>3, ZenonT(30) DEF Gaps, To, From
    <3>5. To(i) \in Nat /\ From(entry) \in Nat
      BY <1>b, <2>1, <3>3, Zenon
    <3> QED BY <1>a, <2>4, <3>1, <3>2, <3>4, <3>5
  <2> QED BY <2>1, <2>3, <2>4, ZenonT(30) DEF Edge, Top
<1>2. CASE AddBlock
  <2>1. /\ op = "region" /\ op' = op /\ entry' = entry /\ end' = end /\ entry > 1
        /\ ~Skipped(MemMap[entry - 1]) /\ end = To(entry - 1)
        /\ \A b \in lists : Top(b) <= addr
    BY <1>2, ZenonT(30) DEF AddBlock, Covered, Inv, Below
  <2>2. PICK o \in Orders :
          /\ o < MaxOrder /\ addr % Bytes[o + 1] = 0 => addr + Bytes[o + 1] > end
          /\ lists' = lists \cup {Block(addr, o)}
          /\ addr' = addr + Bytes[o] /\ addr' <= end
    BY <1>2, AddPages, Zenon
  <2> DEFINE n == Block(addr, o)
  <2>3. n.addr = addr /\ n.order = o /\ Top(n) = addr + Bytes[o] /\ Bytes[o] \in Nat \ {0}
    BY <1>0, BlockType, SizeFacts, ZenonT(30)
  <2>4. lists' = lists \cup {n}
    BY <2>2, ZenonT(30)
  <2> HIDE DEF n
  <2>5. ASSUME NEW b \in lists'
        PROVE  \E i \in 1 .. entry - 1 : ~Skipped(MemMap[i]) /\ Top(b) <= To(i)
    <3>1. CASE b = n
      <4>1. entry - 1 \in 1 .. entry - 1
        BY <1>0, <2>1
      <4>2. Top(b) <= To(entry - 1)
        BY <2>1, <2>2, <2>3, <3>1, ZenonT(30)
      <4> QED BY <2>1, <4>1, <4>2, ZenonT(30)
    <3>2. CASE b \in lists
      BY <2>1, <3>2, ZenonT(30) DEF Edge
    <3> QED BY <2>4, <2>5, <3>1, <3>2, Zenon
  <2>6. ASSUME NEW b \in lists', b.order < MaxOrder, Top(b) = addr', b.addr % Bytes[b.order + 1] = 0
        PROVE  addr' + Bytes[b.order] > end
    <3>1. b = n
      <4>1. b \notin lists
        BY <1>0, <1>a, <2>1, <2>2, <2>3, <2>6
      <4> QED BY <2>4, <4>1, ZenonT(30)
    <3>2. Bytes[o + 1] = Bytes[o] + Bytes[o]
      BY <2>3, <2>6, <3>1, NextSize, Zenon
    <3>3. addr + Bytes[o + 1] > end
      BY <2>2, <2>3, <2>6, <3>1, ZenonT(30)
    <3>4. addr' + Bytes[o] > end
      BY <1>0, <2>2, <2>3, <3>2, <3>3
    <3> QED BY <2>3, <3>1, <3>4, Zenon
  <2> QED BY <2>1, <2>5, <2>6, ZenonT(30) DEF Edge, Top
<1>3. CASE RegionDone
  BY <1>3, Zenon DEF RegionDone, Edge, Top
<1>4. CASE InitDone
  BY <1>4, Zenon DEF InitDone, Edge
<1>5. CASE \E o \in Orders : AllocPop(o)
  BY <1>5, Zenon DEF AllocPop, Edge
<1>6. CASE AllocSplit \/ AllocDone
  BY <1>6, ZenonT(30) DEF AllocSplit, AllocDone, Edge
<1>7. CASE \E b \in held : FreeStart(b)
  BY <1>7, Zenon DEF FreeStart, Edge
<1>8. CASE FreeMerge \/ FreePush
  BY <1>8, Zenon DEF FreeMerge, FreePush, Edge
<1>9. CASE UNCHANGED vars
  BY <1>9, ZenonT(30) DEF vars, Edge, Top
<1> QED BY <1>1, <1>2, <1>3, <1>4, <1>5, <1>6, <1>7, <1>8, <1>9, ZenonT(30) DEF Next, Boot

\* Every step keeps buddies from meeting in the lists.
LEMMA StepUnpaired ==
  Inv /\ Natural /\ Edge /\ Unpaired(lists) /\ [Next]_vars => Unpaired(lists')
<1> SUFFICES ASSUME Inv, Natural, Edge, Unpaired(lists), [Next]_vars PROVE Unpaired(lists')
  BY Zenon
<1>0. /\ addr \in Nat /\ end \in Nat /\ ord \in Orders /\ want \in Orders /\ lists \in SUBSET Blocks
      /\ \A b \in lists : Aligned(b)
  BY ZenonT(30) DEF Inv, TypeOK, Natural
<1>1. ASSUME lists' \subseteq lists PROVE Unpaired(lists')
  BY <1>1, ZenonT(30) DEF Unpaired
<1>2. CASE AddBlock
  <2>1. op = "region" /\ \A b \in lists : Top(b) <= addr
    BY <1>2, ZenonT(30) DEF AddBlock, Inv, Below
  <2>2. PICK o \in Orders :
          /\ Block(addr, o) \in Blocks /\ Aligned(Block(addr, o))
          /\ lists' = lists \cup {Block(addr, o)}
          /\ addr' = addr + Bytes[o] /\ addr' <= end
    BY <1>2, AddPages, SMTT(30)
  <2> DEFINE n == Block(addr, o)
             c == Buddy(addr, o)
  <2>3. n \in Blocks /\ Aligned(n) /\ lists' = lists \cup {n} /\ n.addr = addr /\ n.order = o
    BY <1>0, <2>2, BlockType
  <2>4. ASSUME o < MaxOrder, BuddyOf(n) \in lists PROVE FALSE
    <3>0. addr % Bytes[o] = 0
      BY <2>3, SMTT(30) DEF Aligned
    <3>1. /\ c \in Nat /\ (IF c < addr THEN c ELSE addr) % (Bytes[o] + Bytes[o]) = 0
          /\ c = addr + Bytes[o] \/ addr = c + Bytes[o]
      BY <1>0, <3>0, BuddyFacts, Zenon
    <3>2. BuddyOf(n) = Block(c, o)
      BY <2>3, Zenon DEF BuddyOf
    <3> HIDE DEF c
    <3>3. Block(c, o).addr = c /\ Block(c, o).order = o /\ Top(Block(c, o)) = c + Bytes[o]
      BY <3>1, BlockType, Zenon
    <3>4. Bytes[o] \in Nat \ {0} /\ Bytes[o + 1] = Bytes[o] + Bytes[o]
      BY <2>4, NextSize, ZenonT(30)
    <3>5. c + Bytes[o] <= addr
      BY <2>1, <2>4, <3>2, <3>3, ZenonT(30)
    <3>6. addr = c + Bytes[o] /\ c < addr
      BY <1>0, <3>1, <3>4, <3>5
    <3>7. c % Bytes[o + 1] = 0
      BY <3>1, <3>4, <3>6, ZenonT(30)
    <3>8. addr + Bytes[o] > end
      <4>1. \A b \in lists : b.order < MaxOrder /\ Top(b) = addr /\ b.addr % Bytes[b.order + 1] = 0
                               => addr + Bytes[b.order] > end
        BY <2>1, ZenonT(30) DEF Edge
      <4> QED BY <2>4, <3>2, <3>3, <3>6, <3>7, <4>1, ZenonT(30)
    <3> QED BY <1>0, <2>2, <3>4, <3>8
  <2> HIDE DEF n
  <2> QED BY <1>0, <2>3, <2>4, JoinsUnpaired, Zenon
<1>3. CASE AllocSplit
  <2> DEFINE p == ord - 1
             l == Block(addr, p)
             r == Block(addr + Bytes[p], p)
  <2>1. op = "alloc" /\ op' = "alloc" /\ ord > want /\ ord' = p /\ lists' = lists \cup {r} /\ addr' = addr
    BY <1>3, Zenon DEF AllocSplit
  <2>2. p \in Orders /\ p < MaxOrder /\ p + 1 = ord
    BY <1>0, <2>1, FramesAssumption DEF Orders
  <2>3. addr % Bytes[p + 1] = 0
    <3>1. Block(addr, ord) \in InFlight /\ Block(addr, ord).addr = addr /\ Block(addr, ord).order = ord
      BY <1>0, <2>1, BlockType, Zenon DEF InFlight
    <3> QED BY <2>2, <3>1, ZenonT(30) DEF Natural, Aligned
  <2>4. Aligned(l) /\ Aligned(r)
    BY <1>0, <2>2, <2>3, PagesHalves, Zenon
  <2>5. l \notin lists'
    <3>1. InFlight' = {l}
      BY <2>1, Zenon DEF InFlight
    <3>2. NoOverlap'
      BY StepInv, Zenon DEF Inv
    <3> QED BY <3>1, <3>2, ZenonT(30) DEF NoOverlap
  <2>6. Bytes[p] \in Nat \ {0} /\ Bytes[p + 1] = Bytes[p] + Bytes[p] /\ p + 1 \in Orders
    BY <2>2, NextSize, ZenonT(30)
  <2>7. /\ l.addr = addr /\ l.order = p /\ l \in Blocks
        /\ r.addr = addr + Bytes[p] /\ r.order = p /\ r \in Blocks
    BY <1>0, <2>2, <2>6, BlockType
  <2>8. Buddy(addr + Bytes[p], p) = addr
    <3> DEFINE c == Buddy(addr, p)
               m == IF c < addr THEN c ELSE addr
    <3>0. addr % Bytes[p] = 0
      BY <2>4, <2>7, Zenon DEF Aligned
    <3> HIDE DEF p
    <3>1. /\ c \in Nat /\ Buddy(c, p) = addr /\ m \in Nat /\ m % (Bytes[p] + Bytes[p]) = 0
          /\ (m = addr /\ c = addr + Bytes[p]) \/ (m = c /\ addr = c + Bytes[p])
      BY <1>0, <2>2, <3>0, BuddyFacts, Zenon
    <3> HIDE DEF c, m
    <3>2. ASSUME m = c, addr = c + Bytes[p] PROVE FALSE
      <4> DEFINE e == Bytes[p + 1]
      <4>1. /\ e \in Nat \ {0} /\ c % e = 0 /\ addr % e = 0 /\ c < addr /\ ~(c + e <= addr)
        BY <1>0, <2>3, <2>6, <3>1, <3>2
      <4> HIDE DEF e
      <4> QED BY <1>0, <3>1, <4>1, Apart, Zenon
    <3> QED BY <3>1, <3>2, SMTT(30)
  <2>9. BuddyOf(r) = l
    BY <2>7, <2>8, Zenon DEF BuddyOf
  <2> HIDE DEF l, r
  <2>10. BuddyOf(r) \notin lists
    BY <2>1, <2>5, <2>9, Zenon
  <2> QED BY <1>0, <2>1, <2>4, <2>7, <2>10, JoinsUnpaired, ZenonT(30)
<1>4. CASE FreePush
  <2> DEFINE u == Block(addr, ord)
  <2>1. op = "free" /\ lists' = lists \cup {u}
    BY <1>4, ZenonT(30) DEF FreePush
  <2>2. u \in Blocks /\ u.addr = addr /\ u.order = ord /\ u \in InFlight
    BY <1>0, <2>1, BlockType, ZenonT(30) DEF InFlight
  <2>3. u.order < MaxOrder => BuddyOf(u) \notin lists
    BY <1>4, <2>2, Zenon DEF FreePush, Merges, BuddyOf
  <2>4. Aligned(u)
    BY <2>2, ZenonT(30) DEF Natural
  <2> HIDE DEF u
  <2> QED BY <1>0, <2>1, <2>2, <2>3, <2>4, JoinsUnpaired, Zenon
<1>5. CASE InitEntry \/ InitDone \/ RegionDone \/ AllocDone \/ UNCHANGED vars
  BY <1>1, <1>5, ZenonT(30) DEF InitEntry, InitDone, RegionDone, AllocDone, vars
<1>6. CASE \E o \in Orders : AllocPop(o)
  BY <1>1, <1>6, Zenon DEF AllocPop
<1>7. CASE \E b \in held : FreeStart(b)
  BY <1>1, <1>7, ZenonT(30) DEF FreeStart
<1>8. CASE FreeMerge
  BY <1>1, <1>8, Zenon DEF FreeMerge
<1> QED BY <1>2, <1>3, <1>4, <1>5, <1>6, <1>7, <1>8, ZenonT(30) DEF Next, Boot

\* The smallest free block of an aligned free run has its buddy's pages in the
\* run; the block that has the first of them is the buddy, which it is not, or
\* a larger one, which overlaps.
LEMMA UnpairedNoRun ==
  ASSUME Inv, Natural, Unpaired(lists), NEW o \in Orders, \A b \in lists : ~(b.order >= o),
         NEW a \in AllPages(lists), a % Bytes[o] = 0,
         PagesOf(Block(a, o)) \subseteq AllPages(lists)
  PROVE  FALSE
<1>0. /\ lists \in SUBSET Blocks /\ \A b \in lists : b \in Blocks /\ Aligned(b)
      /\ \A b, c \in lists : b # c => Disjoint(b, c)
  BY Zenon DEF Inv, TypeOK, Natural, NoOverlap
<1>1. \A b \in lists : /\ b.addr \in Nat /\ b.order \in Orders /\ Bytes[b.order] \in Nat \ {0}
                       /\ b.addr % Bytes[b.order] = 0
  <2>1. \A b \in Blocks : b.addr \in Nat /\ b.order \in Orders /\ Bytes[b.order] \in Nat \ {0}
    BY SizeFacts, Zenon DEF Blocks
  <2> QED BY <1>0, <2>1, Zenon DEF Aligned
<1>2. \A b \in lists : \A x : x \in PagesOf(b) <=> x \in Nat /\ x % PageSize = 0 /\ b.addr <= x /\ x < Top(b)
  BY <1>0, PagesIs, ZenonT(30)
<1>3. PICK b0 \in lists : a \in PagesOf(b0)
  BY PagesTogether, ZenonT(30)
<1>4. a \in Nat /\ a % PageSize = 0 /\ Bytes[o] \in Nat \ {0}
  BY <1>2, <1>3, SizeFacts, Zenon
<1>5. ASSUME NEW x \in Nat, x % PageSize = 0, a <= x, x < a + Bytes[o]
      PROVE  \E d \in lists : x \in PagesOf(d)
  <2>1. /\ Block(a, o) \in Blocks /\ Block(a, o).addr = a /\ Block(a, o).order = o
        /\ Top(Block(a, o)) = a + Bytes[o]
    BY <1>4, BlockType, ZenonT(30)
  <2>2. x \in PagesOf(Block(a, o))
    BY <1>5, <2>1, PagesIs, Zenon DEF Aligned
  <2> QED BY <2>2, PagesTogether, ZenonT(30)
\* b is a smallest block with a page in the run.
<1> DEFINE Meets(b) == \E x \in PagesOf(b) : a <= x /\ x < a + Bytes[o]
           K == {b.order : b \in {c \in lists : Meets(c)}}
<1>6. PICK b \in lists : Meets(b) /\ \A c \in lists : Meets(c) => b.order <= c.order
  <2>1. Meets(b0)
    BY <1>3, <1>4
  <2>2. K \in SUBSET Nat
    BY <1>1, FramesAssumption DEF Orders
  <2>3. b0.order \in K
    BY <2>1, Zenon
  <2>4. PICK k \in K : \A j \in K : k <= j
    BY <2>2, <2>3, Least, ZenonT(30)
  <2> HIDE DEF Meets
  <2>5. PICK b1 \in lists : Meets(b1) /\ b1.order = k
    BY <2>4, Zenon
  <2>6. \A c \in lists : Meets(c) => b1.order <= c.order
    BY <2>4, <2>5, Zenon
  <2> QED BY <2>5, <2>6, ZenonT(30)
<1> HIDE DEF K
<1> DEFINE m == b.order
           c == Buddy(b.addr, m)
           k == IF c < b.addr THEN c ELSE b.addr
<1>7. m \in Orders /\ m < o /\ m < MaxOrder /\ m + 1 \in Orders /\ m + 1 <= o /\ m <= m
  <2>1. m \in Orders /\ ~(m >= o)
    BY <1>1, ZenonT(30)
  <2> HIDE DEF m
  <2> QED BY <2>1, FramesAssumption DEF Orders
<1>8. Bytes[m] \in Nat \ {0} /\ Bytes[m + 1] = Bytes[m] + Bytes[m]
  BY <1>7, NextSize, Zenon
<1>9. /\ c \in Nat /\ c % Bytes[m] = 0 /\ k \in Nat /\ k % (Bytes[m] + Bytes[m]) = 0
      /\ (k = b.addr /\ c = b.addr + Bytes[m]) \/ (k = c /\ b.addr = c + Bytes[m])
  BY <1>1, <1>7, BuddyFacts, ZenonT(30)
<1>10. k % Bytes[m + 1] = 0
  BY <1>8, <1>9, Zenon
<1>11. b.addr \in Nat /\ Top(b) = b.addr + Bytes[m]
  BY <1>1, ZenonT(30) DEF Top
<1> HIDE DEF m, c, k
\* The block of the next order that holds b and its buddy lies in the run.
<1>12. a <= k /\ k + Bytes[m + 1] <= a + Bytes[o]
  <2>1. PICK x \in PagesOf(b) : a <= x /\ x < a + Bytes[o]
    BY <1>6, Zenon
  <2>2. x \in Nat /\ b.addr <= x /\ x < b.addr + Bytes[m]
    BY <1>2, <1>11, <2>1, ZenonT(30)
  <2>3. k <= x /\ x < k + Bytes[m + 1]
    BY <1>8, <1>9, <1>11, <2>2
  <2> QED BY <1>4, <1>7, <1>9, <1>10, <2>1, <2>2, <2>3, Nested, ZenonT(30)
<1>13. PICK d \in lists : c \in PagesOf(d)
  <2>1. c % PageSize = 0
    <3>1. 0 \in Orders /\ 0 <= m
      BY <1>7, FramesAssumption DEF Orders
    <3> QED BY <1>7, <1>9, <3>1, AlignedBelow, ZenonT(30) DEF PageSize
  <2>2. a <= c /\ c < a + Bytes[o]
    BY <1>4, <1>8, <1>9, <1>11, <1>12
  <2> QED BY <1>5, <1>9, <2>1, <2>2, Zenon
<1>14. d.addr <= c /\ c < d.addr + Bytes[d.order]
  BY <1>2, <1>13, Zenon DEF Top
<1>15. m <= d.order
  <2>1. Meets(d)
    <3>1. a <= c /\ c < a + Bytes[o]
      BY <1>4, <1>8, <1>9, <1>11, <1>12
    <3> QED BY <1>13, <3>1, Zenon
  <2> QED BY <1>6, <2>1, Zenon DEF m
<1>16. CASE d.order = m
  <2>1. c < c + Bytes[m] /\ c <= c
    BY <1>8, <1>9
  <2>2. d.addr <= c /\ c + Bytes[m] <= d.addr + Bytes[m]
    BY <1>1, <1>7, <1>9, <1>14, <1>16, <2>1, Nested, Zenon
  <2>3. d.addr = c
    BY <1>1, <1>8, <1>9, <2>2
  <2>4. d = BuddyOf(b)
    <3>1. d = Block(d.addr, d.order)
      BY <1>0, Zenon DEF Blocks, Block
    <3>2. BuddyOf(b) = Block(c, m)
      BY Zenon DEF BuddyOf, c, m
    <3> QED BY <1>16, <2>3, <3>1, <3>2, ZenonT(30)
  <2> QED BY <1>7, <2>4, ZenonT(30) DEF Unpaired, m
<1>17. CASE d.order # m
  <2>1. d.order \in Orders /\ m + 1 <= d.order
    <3>1. d.order \in Orders
      BY <1>1, Zenon
    <3> QED BY <1>7, <1>15, <1>17, <3>1 DEF Orders
  <2>2. k <= c /\ c < k + Bytes[m + 1]
    BY <1>8, <1>9, <1>11
  <2>3. d.addr <= k /\ k + Bytes[m + 1] <= d.addr + Bytes[d.order]
    BY <1>1, <1>7, <1>9, <1>10, <1>14, <2>1, <2>2, Nested, ZenonT(30)
  <2>4. d # b
    BY <1>17, Zenon DEF m
  <2>5. Disjoint(b, d)
    BY <1>0, <2>4, ZenonT(30)
  <2>6. b.addr + Bytes[m] <= d.addr \/ d.addr + Bytes[d.order] <= b.addr
    BY <2>5, Zenon DEF Disjoint, m
  <2>7. d.addr \in Nat /\ Bytes[d.order] \in Nat
    BY <1>1, Zenon
  <2> QED BY <1>8, <1>9, <1>11, <2>3, <2>6, <2>7
<1> QED BY <1>16, <1>17, Zenon

\* When alloc() returns None there is no naturally aligned run of free pages of
\* that size, on every memory map whose usable entries do not touch.
THEOREM NoFragmentation ==
  ASSUME Gaps
  PROVE  Spec => []NoFragmentedFailure
<1> DEFINE I == Inv /\ Natural /\ Covered /\ Edge /\ Unpaired(lists)
<1>1. Init => I
  <2>1. Init => Edge /\ Unpaired(lists)
    BY Zenon DEF Init, Edge, Unpaired
  <2> QED BY <2>1, InitInv, InitNatural, InitCovered, Zenon
<1>2. I /\ [Next]_vars => I'
  <2>1. Unpaired(lists)' <=> Unpaired(lists')
    BY Zenon DEF Unpaired, BuddyOf, Buddy, Block
  <2> QED BY <2>1, StepInv, StepNatural, StepCovered, StepEdge, StepUnpaired, ZenonT(30)
<1>3. I => NoFragmentedFailure
  BY UnpairedNoRun, Zenon DEF NoFragmentedFailure, Available
<1> QED BY <1>1, <1>2, <1>3, PTL DEF Spec
=============================================================================

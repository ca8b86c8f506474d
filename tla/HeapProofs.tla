----------------------------- MODULE HeapProofs -----------------------------
(***************************************************************************)
(* The heap never hands out memory twice, honours alignment and leaks no   *)
(* page, for every page size, set of classes, header, set of layouts and   *)
(* set of free pages.                                                      *)
(***************************************************************************)
EXTENDS Heap, FiniteSetTheorems, WellFoundedInduction, TLAPS

(***************************************************************************)
(* The inductive invariant, over the sets P[c] and F[c] of the slabs in    *)
(* the two lists of class c.  It is a relation between values, so that the *)
(* steps inside alloc and dealloc (a new slab, then an object taken from   *)
(* it; an object given back, then its slab) can be followed one by one.    *)
(***************************************************************************)
SlabOf(P, F, c) == P[c] \cup F[c]

Types(pg, hd, P, F, fr, us, lv) ==
  /\ pg \subseteq Memory /\ hd \subseteq Blocks
  /\ P \in [Class -> SUBSET Memory] /\ F \in [Class -> SUBSET Memory]
  /\ fr \in [Memory -> SUBSET Nat] /\ us \in [Memory -> Nat]
  /\ lv \subseteq [addr : Nat, size : Nat, align : Nat] /\ IsFiniteSet(lv)

\* Pages are free or in one block the heap holds.
Owned(pg, hd) ==
  /\ \A b \in hd : PagesOf(b) \subseteq Memory \ pg
  /\ \A a, b \in hd : a # b => PagesOf(a) \cap PagesOf(b) = {}

\* The heap holds its slabs and the large allocations, and nothing else.
Covers(hd, P, F, lv) ==
  /\ \A c \in Class : \A s \in SlabOf(P, F, c) : Block(s, 0) \in hd
  /\ \A b \in lv : ~Small(b) => Block(b.addr, Order(b)) \in hd
  /\ \A k \in hd : \/ \E c \in Class : \E s \in SlabOf(P, F, c) : k = Block(s, 0)
                   \/ \E b \in lv : ~Small(b) /\ k = Block(b.addr, Order(b))

\* A slab is in one list of one class.
Apart(P, F) ==
  /\ \A c \in Class : P[c] \cap F[c] = {}
  /\ \A c, d \in Class : c # d => SlabOf(P, F, c) \cap SlabOf(P, F, d) = {}

\* The allocations in the page s.
Within(lv, s) == {b \in lv : Page(b.addr) = s}

\* The header of slab s of class c agrees with lv.
Counted(P, F, fr, us, lv) ==
  \A c \in Class : \A s \in SlabOf(P, F, c) :
    /\ s \in F[c] <=> us[s] = Capacity(c)
    /\ us[s] <= Capacity(c)
    /\ us[s] = Cardinality(Within(lv, s))
    /\ fr[s] = Objects(s, c) \ {b.addr : b \in lv}

\* A small allocation is an object of a slab of its class; a large one is on
\* pages of its own.
Placed(P, F, lv) ==
  \A b \in lv :
    /\ [size |-> b.size, align |-> b.align] \in Layouts
    /\ Small(b) => /\ Page(b.addr) \in SlabOf(P, F, CacheOf(b))
                   /\ b.addr \in Objects(Page(b.addr), CacheOf(b))
    /\ ~Small(b) => /\ Fitting(b) # {}
                    /\ \A c \in Class : b.addr \notin SlabOf(P, F, c)

Unique(lv) == \A a, b \in lv : a.addr = b.addr => a = b

Core(pg, hd, P, F, fr, us, lv) ==
  /\ Types(pg, hd, P, F, fr, us, lv)
  /\ Owned(pg, hd)
  /\ Covers(hd, P, F, lv)
  /\ Apart(P, F)
  /\ Counted(P, F, fr, us, lv)
  /\ Placed(P, F, lv)
  /\ Unique(lv)

Sets(lists) == [c \in Class |-> Range(lists[c])]

\* No slab is twice in a list.
Linked(lists) ==
  lists \in [Class -> Seq(Memory)] /\ \A c \in Class : IsInjective(lists[c])

\* An empty slab is given back where a slab has room for two objects.
Busy(P, F, us) ==
  \A c \in Class : Capacity(c) > 1 => \A s \in SlabOf(P, F, c) : us[s] > 0

Inv ==
  /\ Linked(partial) /\ Linked(full)
  /\ Core(pages, held, Sets(partial), Sets(full), free, used, live)
  /\ Busy(Sets(partial), Sets(full), used)
-----------------------------------------------------------------------------
(***************************************************************************)
(* Numbers.                                                                *)
(***************************************************************************)
\* A set of numbers that is not empty has a least element: find_cache and
\* next_power_of_two return one.
LEMMA Least ==
  ASSUME NEW T, T \subseteq Nat, T # {}
  PROVE  \E n \in T : \A m \in T : n <= m
<1>1. OpToRel(<, Nat) = {ss \in Nat \X Nat : ss[1] < ss[2]}
  BY DEF OpToRel
<1>2. \E n \in T : \A m \in T : ~(<<m, n>> \in OpToRel(<, Nat))
  BY WFMin, NatLessThanWellFounded, Zenon
<1>3. PICK n \in T : \A m \in T : ~(<<m, n>> \in {ss \in Nat \X Nat : ss[1] < ss[2]})
  BY <1>1, <1>2, Zenon
<1>4. ASSUME NEW m \in T, m < n PROVE FALSE
  <2>1. <<m, n>> \in Nat \X Nat /\ <<m, n>>[1] = m /\ <<m, n>>[2] = n
    OBVIOUS
  <2>2. <<m, n>> \in {ss \in Nat \X Nat : ss[1] < ss[2]}
    BY <1>4, <2>1, Zenon
  <2> QED BY <1>3, <2>2, Zenon
<1>5. ASSUME NEW m \in T PROVE n <= m
  BY <1>4
<1> QED BY <1>5

\* A counter that is not zero lowered by one, and one below its limit raised.
LEMMA Lower == \A n, k \in Nat : n # 0 /\ n <= k => n - 1 \in Nat /\ n - 1 <= k /\ n - 1 # k
  OBVIOUS

LEMMA Raise == \A n, k \in Nat : n # k /\ n <= k => n + 1 <= k
  OBVIOUS

LEMMA Spare == \A n \in Nat : n > 1 => n - 1 > 0
  OBVIOUS

\* The page size.
LEMMA PageFacts ==
  /\ PageSize \in Nat \ {0} /\ 0 \in Orders
  /\ \A o \in Orders : Bytes[o] \in Nat \ {0}
  /\ \A o \in Orders : \E k \in Nat : k >= 1 /\ Bytes[o] = k * PageSize
<1>0. MaxOrder \in Nat /\ Bytes \in [0..MaxOrder -> Nat \ {0}]
  BY FramesAssumption, Zenon
<1>1. 0 \in 0..MaxOrder /\ Bytes \in [0..MaxOrder -> Nat \ {0}]
  BY <1>0
<1>2. ASSUME NEW o \in 0..MaxOrder
      PROVE  \E k \in Nat : k >= 1 /\ Bytes[o] = k * Bytes[0]
  <2>1. PICK k \in 1..Bytes[o] : Bytes[o] = k * Bytes[0]
    BY FramesAssumption, Zenon
  <2>2. k \in Nat /\ k >= 1
    BY <1>1
  <2> QED BY <2>1, <2>2
<1> QED BY <1>1, <1>2, Zenon DEF Orders, PageSize

\* Division with remainder.
LEMMA Division ==
  ASSUME NEW n \in Nat, NEW d \in Nat \ {0}
  PROVE  /\ n \div d \in Nat /\ n % d \in 0..(d - 1) /\ (n \div d) * d \in Nat
         /\ n = (n \div d) * d + (n % d)
         /\ (n \div d) * d <= n /\ n < (n \div d) * d + d
<1>1. /\ n \div d \in Nat /\ n % d \in 0..(d - 1)
      /\ n = (n \div d) * d + (n % d)
  BY SMTT(30)
<1>2. (n \div d) * d \in Nat
  BY <1>1, SMTT(30)
<1> QED BY <1>1, <1>2

\* Quotient and remainder are determined by the number.
LEMMA Quotient ==
  ASSUME NEW q \in Nat, NEW r \in Nat, NEW d \in Nat \ {0}, r < d
  PROVE  q * d + r \in Nat /\ (q * d + r) \div d = q /\ (q * d + r) % d = r
<1>1. q * d \in Nat /\ q * d + r \in Nat
  BY SMTT(30)
<1>2. (q * d + r) \div d = q
  BY <1>1, SMTT(30)
<1>3. (q * d + r) % d = r
  BY <1>1, <1>2, SMTT(30)
<1> QED BY <1>1, <1>2, <1>3

\* Multiples, and multiples of multiples.
LEMMA Divides ==
  ASSUME NEW n \in Nat, NEW d \in Nat \ {0}
  PROVE  n % d = 0 <=> \E k \in Nat : n = k * d
<1>1. ASSUME n % d = 0 PROVE \E k \in Nat : n = k * d
  <2>1. n \div d \in Nat /\ (n \div d) * d \in Nat /\ n = (n \div d) * d + (n % d)
    BY Division
  <2>2. n = (n \div d) * d
    BY <1>1, <2>1
  <2> QED BY <2>1, <2>2, Zenon
<1>2. ASSUME NEW k \in Nat, n = k * d PROVE n % d = 0
  <2>1. k * d \in Nat /\ k * d + 0 = k * d
    BY SMTT(30)
  <2>2. (k * d + 0) % d = 0
    BY Quotient
  <2> QED BY <1>2, <2>1, <2>2
<1> QED BY <1>1, <1>2, Zenon

\* A multiple of a multiple of e is a multiple of e.
LEMMA Transitive ==
  ASSUME NEW n \in Nat, NEW d \in Nat \ {0}, NEW e \in Nat \ {0}, n % d = 0, d % e = 0
  PROVE  n % e = 0
<1>1. PICK k \in Nat : n = k * d
  BY Divides
<1>2. PICK j \in Nat : d = j * e
  BY Divides
<1>3. k * j \in Nat /\ n = (k * j) * e
  BY <1>1, <1>2, SMTT(30)
<1> QED BY <1>3, Divides

\* A larger multiple is larger by at least one step.
LEMMA Steps ==
  ASSUME NEW i \in Nat, NEW j \in Nat, NEW d \in Nat \ {0}, i < j
  PROVE  i * d \in Nat /\ j * d \in Nat /\ i * d + d <= j * d
<1>1. i * d \in Nat /\ j * d \in Nat /\ (j - i) * d \in Nat
  BY SMTT(30)
<1>2. j * d = i * d + (j - i) * d
  BY SMTT(30)
<1>3. (j - i) * d >= d
  <2>1. PICK e \in Nat : j - i = e + 1
    <3>1. j - i - 1 \in Nat /\ j - i = (j - i - 1) + 1
      OBVIOUS
    <3> QED BY <3>1
  <2>2. (e + 1) * d = e * d + d /\ e * d \in Nat
    BY SMTT(30)
  <2> QED BY <2>1, <2>2
<1> QED BY <1>1, <1>2, <1>3
-----------------------------------------------------------------------------
(***************************************************************************)
(* Blocks and pages.                                                       *)
(***************************************************************************)
\* The number of pages of a block.
LEMMA PageCounts ==
  ASSUME NEW o \in Orders
  PROVE  PageCount(o) \in Nat /\ PageCount(o) >= 1 /\ Bytes[o] = PageCount(o) * PageSize
<1>0. PageSize \in Nat \ {0} /\ Bytes[o] \in Nat
  BY PageFacts
<1>1. PICK k \in Nat : k >= 1 /\ Bytes[o] = k * PageSize
  BY PageFacts
<1> HIDE DEF PageSize
<1>2. k * PageSize \in Nat /\ (k * PageSize + 0) \div PageSize = k
  BY <1>0, Quotient
<1>3. k * PageSize + 0 = k * PageSize
  BY <1>2
<1> QED BY <1>1, <1>2, <1>3 DEF PageCount

\* A slab's block is its page.
LEMMA OnePage ==
  ASSUME NEW s \in Nat
  PROVE  /\ Block(s, 0) \in Blocks /\ PagesOf(Block(s, 0)) = {s}
         /\ Block(s, 0).addr = s /\ Block(s, 0).order = 0
<1>0. PageSize \in Nat \ {0} /\ 0 \in Orders /\ Bytes[0] = PageSize
  BY PageFacts DEF PageSize
<1>1. Block(s, 0).addr = s /\ Block(s, 0).order = 0 /\ Block(s, 0) \in Blocks
  BY <1>0 DEF Block, Blocks
<1> HIDE DEF PageSize
<1>2. 1 * PageSize + 0 = PageSize /\ (1 * PageSize + 0) \div PageSize = 1
  BY <1>0, Quotient
<1>3. PageCount(0) = 1
  BY <1>0, <1>2 DEF PageCount
<1>4. PagesOf(Block(s, 0)) = {s + i * PageSize : i \in 0 .. 0}
  BY <1>1, <1>3 DEF PagesOf
<1>5. 0 .. 0 = {0} /\ s + 0 * PageSize = s
  BY <1>0
<1> QED BY <1>1, <1>4, <1>5

\* The addresses in a block that are multiples of the page size are its pages.
LEMMA PagesInside ==
  ASSUME NEW b \in Blocks, NEW x \in Nat, b.addr % PageSize = 0, x % PageSize = 0,
         b.addr <= x, x < b.addr + Bytes[b.order]
  PROVE  x \in PagesOf(b)
<1>0. /\ PageSize \in Nat \ {0} /\ b.addr \in Nat /\ b.order \in Orders
      /\ Bytes[b.order] \in Nat
  BY PageFacts DEF Blocks
<1>1. PageCount(b.order) \in Nat /\ Bytes[b.order] = PageCount(b.order) * PageSize
  BY <1>0, PageCounts
<1> HIDE DEF PageSize
<1>2. PICK k \in Nat : b.addr = k * PageSize
  BY <1>0, Divides, Zenon
<1>3. PICK j \in Nat : x = j * PageSize
  BY <1>0, Divides, Zenon
<1> DEFINE n == PageCount(b.order)
<1>4. n \in Nat /\ k \in Nat /\ j \in Nat /\ Bytes[b.order] = n * PageSize
  BY <1>1
<1> HIDE DEF n
<1>5. k <= j
  <2>1. ASSUME j < k PROVE FALSE
    BY <1>0, <1>2, <1>3, <1>4, <2>1, Steps
  <2> QED BY <1>4, <2>1
<1>6. j < k + n
  <2>1. (k + n) * PageSize = k * PageSize + n * PageSize
    BY <1>0, <1>4, SMTT(30)
  <2>2. ASSUME k + n <= j PROVE FALSE
    <3>1. CASE k + n = j
      BY <1>0, <1>2, <1>3, <1>4, <2>1, <3>1
    <3>2. CASE k + n < j
      <4>1. (k + n) * PageSize + PageSize <= j * PageSize /\ k + n \in Nat
        BY <1>0, <1>4, <3>2, Steps
      <4> QED BY <1>0, <1>2, <1>3, <1>4, <2>1, <4>1
    <3> QED BY <1>4, <2>2, <3>1, <3>2
  <2> QED BY <1>4, <2>2
<1>7. j - k \in 0 .. n - 1 /\ x = b.addr + (j - k) * PageSize
  <2>1. j * PageSize = k * PageSize + (j - k) * PageSize
    BY <1>0, <1>4, SMTT(30)
  <2> QED BY <1>2, <1>3, <1>4, <1>5, <1>6, <2>1
<1> QED BY <1>7 DEF PagesOf, n

\* A block begins with a page of its own.
LEMMA FirstPage ==
  ASSUME NEW b \in Blocks
  PROVE  b.addr \in PagesOf(b)
<1>0. PageSize \in Nat \ {0} /\ b.addr \in Nat /\ b.order \in Orders
  BY PageFacts DEF Blocks
<1>1. 0 \in 0 .. PageCount(b.order) - 1
  BY <1>0, PageCounts
<1> HIDE DEF PageSize
<1>2. b.addr = b.addr + 0 * PageSize
  BY <1>0
<1> QED BY <1>1, <1>2 DEF PagesOf

\* Blocks without a common page do not overlap.
LEMMA NoCommonPage ==
  ASSUME NEW a \in Blocks, NEW b \in Blocks, a.addr % PageSize = 0, b.addr % PageSize = 0,
         PagesOf(a) \cap PagesOf(b) = {}
  PROVE  Disjoint(a, b)
<1>0. /\ a.addr \in Nat /\ b.addr \in Nat /\ a.order \in Orders /\ b.order \in Orders
      /\ Bytes[a.order] \in Nat \ {0} /\ Bytes[b.order] \in Nat \ {0}
  BY PageFacts DEF Blocks
<1>1. a.addr \in PagesOf(a) /\ b.addr \in PagesOf(b)
  BY FirstPage
<1>2. CASE a.addr <= b.addr
  <2>1. ~(b.addr < a.addr + Bytes[a.order])
    BY <1>0, <1>1, <1>2, PagesInside
  <2> QED BY <1>0, <2>1 DEF Disjoint
<1>3. CASE b.addr <= a.addr
  <2>1. ~(a.addr < b.addr + Bytes[b.order])
    BY <1>0, <1>1, <1>3, PagesInside
  <2> QED BY <1>0, <2>1 DEF Disjoint
<1> QED BY <1>0, <1>2, <1>3
-----------------------------------------------------------------------------
(***************************************************************************)
(* The geometry of a slab.                                                 *)
(***************************************************************************)
\* The assumptions on classes, the header and the memory.
LEMMA ClassFacts ==
  /\ \A c \in Class : /\ c \in Nat \ {0} /\ PageSize % c = 0
                      /\ Header + c <= PageSize
  /\ Header \in Nat
  /\ \A s \in Memory : s \in Nat /\ s % PageSize = 0
BY HeapAssumption, Zenon

\* The header is rounded up to a multiple of the object size, and there is room
\* for an object after it.
LEMMA HeaderFacts ==
  ASSUME NEW c \in Class
  PROVE  /\ HeaderSize(c) \in Nat /\ Header <= HeaderSize(c) /\ HeaderSize(c) % c = 0
         /\ Capacity(c) \in Nat /\ Capacity(c) >= 1
         /\ Capacity(c) * c \in Nat /\ HeaderSize(c) + Capacity(c) * c <= PageSize
<1>0. /\ c \in Nat \ {0} /\ PageSize % c = 0 /\ Header + c <= PageSize
      /\ Header \in Nat /\ PageSize \in Nat \ {0}
  BY ClassFacts, PageFacts
<1> HIDE DEF PageSize
<1> DEFINE q == (Header + c - 1) \div c
<1>1. q \in Nat /\ q * c \in Nat /\ q * c <= Header + c - 1 /\ Header + c - 1 < q * c + c
  <2>1. Header + c - 1 \in Nat
    BY <1>0
  <2> QED BY <1>0, <2>1, Division
<1>2. HeaderSize(c) = q * c
  BY DEF HeaderSize
<1> HIDE DEF q
<1>3. HeaderSize(c) \in Nat /\ Header <= HeaderSize(c) /\ HeaderSize(c) % c = 0
  BY <1>0, <1>1, <1>2, Divides
<1>4. PICK k \in Nat : PageSize = k * c
  BY <1>0, Divides
<1>5. q < k
  <2>1. ASSUME k <= q PROVE FALSE
    <3>1. CASE k = q
      BY <1>0, <1>1, <1>4, <3>1
    <3>2. CASE k < q
      BY <1>0, <1>1, <1>4, <3>2, Steps
    <3> QED BY <1>1, <2>1, <3>1, <3>2
  <2> QED BY <1>1, <2>1
<1>6. PageSize - HeaderSize(c) = (k - q) * c /\ k - q \in Nat /\ k - q >= 1 /\ (k - q) * c \in Nat
  <2>1. k - q \in Nat /\ k - q >= 1
    BY <1>1, <1>5
  <2>2. k * c = q * c + (k - q) * c /\ (k - q) * c \in Nat
    BY <1>0, <1>1, <2>1, SMTT(30)
  <2> QED BY <1>1, <1>2, <1>4, <2>1, <2>2
<1>7. Capacity(c) = k - q
  <2>1. (k - q) * c + 0 = (k - q) * c /\ ((k - q) * c + 0) \div c = k - q
    <3> DEFINE e == k - q
    <3>1. e \in Nat /\ e * c \in Nat
      BY <1>6
    <3> HIDE DEF e
    <3>2. e * c + 0 = e * c /\ (e * c + 0) \div c = e
      BY <1>0, <3>1, Quotient
    <3> QED BY <3>2 DEF e
  <2> QED BY <1>6, <2>1 DEF Capacity
<1>8. HeaderSize(c) + Capacity(c) * c = PageSize /\ Capacity(c) * c \in Nat
  BY <1>0, <1>3, <1>6, <1>7
<1> QED BY <1>0, <1>3, <1>6, <1>7, <1>8

\* page_base of an address within the page at s is s.
LEMMA PageOf ==
  ASSUME NEW s \in Nat, s % PageSize = 0, NEW r \in Nat, r < PageSize
  PROVE  Page(s + r) = s
<1>0. PageSize \in Nat \ {0}
  BY PageFacts
<1> HIDE DEF PageSize
<1>1. PICK k \in Nat : s = k * PageSize
  BY <1>0, Divides
<1>2. (k * PageSize + r) \div PageSize = k
  BY <1>0, Quotient
<1> QED BY <1>1, <1>2 DEF Page

\* An object lies in its slab's page behind the header, at a multiple of the
\* object size.
LEMMA ObjectFacts ==
  ASSUME NEW c \in Class, NEW s \in Memory, NEW x \in Objects(s, c)
  PROVE  /\ x \in Nat /\ Page(x) = s /\ s + Header <= x /\ x + c <= s + PageSize
         /\ x % c = 0
<1>0. /\ c \in Nat \ {0} /\ PageSize % c = 0 /\ Header \in Nat /\ PageSize \in Nat \ {0}
      /\ s \in Nat /\ s % PageSize = 0
  BY ClassFacts, PageFacts
<1>1. /\ HeaderSize(c) \in Nat /\ Header <= HeaderSize(c) /\ HeaderSize(c) % c = 0
      /\ Capacity(c) \in Nat /\ Capacity(c) * c \in Nat
      /\ HeaderSize(c) + Capacity(c) * c <= PageSize
  BY HeaderFacts
<1> HIDE DEF PageSize, HeaderSize, Capacity
<1>2. PICK i \in 0 .. Capacity(c) - 1 : x = s + HeaderSize(c) + i * c
  BY DEF Objects
<1>3. i \in Nat /\ i < Capacity(c)
  BY <1>1
<1>4. i * c \in Nat /\ i * c + c <= Capacity(c) * c
  BY <1>0, <1>1, <1>3, Steps
<1>5. x \in Nat /\ s + Header <= x /\ x + c <= s + PageSize
  BY <1>0, <1>1, <1>2, <1>4
<1>6. Page(x) = s
  <2>1. HeaderSize(c) + i * c \in Nat /\ HeaderSize(c) + i * c < PageSize
    BY <1>0, <1>1, <1>4
  <2>2. x = s + (HeaderSize(c) + i * c)
    BY <1>0, <1>1, <1>2, <1>4
  <2> QED BY <1>0, <2>1, <2>2, PageOf, Zenon
<1>7. x % c = 0
  <2>1. s % c = 0
    BY <1>0, Transitive, Zenon
  <2>2. PICK k \in Nat : s = k * c
    BY <1>0, <2>1, Divides, Zenon
  <2>3. PICK j \in Nat : HeaderSize(c) = j * c
    BY <1>0, <1>1, Divides, Zenon
  <2>4. x = (k + j + i) * c /\ k + j + i \in Nat
    BY <1>0, <1>2, <1>3, <2>2, <2>3, SMTT(30)
  <2> QED BY <1>0, <1>5, <2>4, Divides
<1> QED BY <1>5, <1>6, <1>7

\* Two objects of a slab do not overlap.
LEMMA ObjectsApart ==
  ASSUME NEW c \in Class, NEW s \in Memory,
         NEW x \in Objects(s, c), NEW y \in Objects(s, c), x # y
  PROVE  x + c <= y \/ y + c <= x
<1>0. c \in Nat \ {0} /\ s \in Nat /\ HeaderSize(c) \in Nat /\ Capacity(c) \in Nat
  BY ClassFacts, HeaderFacts
<1> HIDE DEF HeaderSize, Capacity
<1>1. PICK i \in 0 .. Capacity(c) - 1 : x = s + HeaderSize(c) + i * c
  BY DEF Objects
<1>2. PICK j \in 0 .. Capacity(c) - 1 : y = s + HeaderSize(c) + j * c
  BY DEF Objects
<1>3. i \in Nat /\ j \in Nat /\ i # j
  BY <1>0, <1>1, <1>2
<1>4. CASE i < j
  <2>1. i * c \in Nat /\ j * c \in Nat /\ i * c + c <= j * c
    BY <1>0, <1>3, <1>4, Steps
  <2> QED BY <1>0, <1>1, <1>2, <2>1
<1>5. CASE j < i
  <2>1. i * c \in Nat /\ j * c \in Nat /\ j * c + c <= i * c
    BY <1>0, <1>3, <1>5, Steps
  <2> QED BY <1>0, <1>1, <1>2, <2>1
<1> QED BY <1>3, <1>4, <1>5
-----------------------------------------------------------------------------
(***************************************************************************)
(* Layouts.                                                                *)
(***************************************************************************)
\* find_cache finds a class with room for size and alignment.
LEMMA CacheFacts ==
  ASSUME NEW l, l.size \in Nat, l.align \in Nat, Small(l)
  PROVE  CacheOf(l) \in Class /\ l.size <= CacheOf(l) /\ l.align <= CacheOf(l)
<1> DEFINE T == {c \in Class : Need(l) <= c}
<1>1. T \subseteq Nat /\ T # {}
  BY ClassFacts DEF Small
<1>2. \E c \in T : \A d \in T : c <= d
  <2> HIDE DEF T
  <2> QED BY <1>1, Least, Zenon
<1>3. \E c \in Class : Need(l) <= c /\ \A d \in Class : Need(l) <= d => c <= d
  BY <1>2
<1>4. CacheOf(l) \in Class /\ Need(l) <= CacheOf(l)
  BY <1>3, Zenon DEF CacheOf
<1>5. CacheOf(l) \in Nat
  BY <1>4, ClassFacts
<1> QED BY <1>4, <1>5 DEF Need

\* The order computed from the size has room for it.
LEMMA OrderFacts ==
  ASSUME NEW l, l.size \in Nat, Fitting(l) # {}
  PROVE  Order(l) \in Orders /\ l.size <= Bytes[Order(l)]
<1>0. PageSize \in Nat \ {0} /\ Fitting(l) \subseteq Orders /\ Orders \subseteq Nat
  BY PageFacts, FramesAssumption DEF Fitting, Orders
<1>1. \E o \in Fitting(l) : \A p \in Fitting(l) : o <= p
  <2>1. Fitting(l) \subseteq Nat
    BY <1>0, Zenon
  <2> QED BY <2>1, Least
<1>2. Order(l) \in Fitting(l)
  BY <1>1, Zenon DEF Order
<1> DEFINE o == Order(l)
           p == PageCount(o)
<1>3. o \in Orders /\ Pages(l) <= p
  BY <1>2 DEF Fitting
<1>4. p \in Nat /\ Bytes[o] = p * PageSize /\ Bytes[o] \in Nat
  BY <1>3, PageCounts, PageFacts
<1> HIDE DEF PageSize, p
<1> DEFINE n == l.size + PageSize - 1
           q == n \div PageSize
<1>5. n \in Nat
  BY <1>0
<1>6. q \in Nat /\ q * PageSize \in Nat /\ n < q * PageSize + PageSize
  <2> HIDE DEF n
  <2> QED BY <1>0, <1>5, Division
<1>7. Pages(l) = q
  BY DEF Pages
<1> HIDE DEF q
<1>8. q * PageSize <= p * PageSize
  <2>1. CASE q = p
    BY <1>0, <1>4, <1>6, <2>1
  <2>2. CASE q < p
    BY <1>0, <1>4, <1>6, <2>2, Steps
  <2> QED BY <1>3, <1>4, <1>6, <1>7, <2>1, <2>2
<1> QED BY <1>0, <1>3, <1>4, <1>6, <1>8

\* A layout a client asks for.
LEMMA LayoutFacts ==
  ASSUME NEW l \in Layouts
  PROVE  /\ l.size \in Nat /\ l.align \in Nat
         /\ [size |-> l.size, align |-> l.align] \in Layouts
<1>1. l \in [size : Nat \ {0}, align : Nat \ {0}]
  BY HeapAssumption, Zenon
<1>2. l = [size |-> l.size, align |-> l.align]
  BY <1>1
<1> QED BY <1>1, <1>2

\* What alloc decides depends on the layout only, so dealloc, which gets the
\* same layout, decides the same.
LEMMA SameLayout ==
  ASSUME NEW l, NEW a
  PROVE  LET b == Live(a, l)
         IN /\ b.addr = a /\ b.size = l.size /\ b.align = l.align
            /\ Small(b) = Small(l) /\ CacheOf(b) = CacheOf(l)
            /\ Fitting(b) = Fitting(l) /\ Order(b) = Order(l)
<1> DEFINE b == Live(a, l)
<1>1. b.addr = a /\ b.size = l.size /\ b.align = l.align
  BY DEF Live
<1> HIDE DEF b
<1>2. Need(b) = Need(l) /\ Pages(b) = Pages(l)
  BY <1>1 DEF Need, Pages
<1>3. Small(b) = Small(l) /\ CacheOf(b) = CacheOf(l)
  BY <1>2 DEF Small, CacheOf
<1>4. Fitting(b) = Fitting(l)
  BY <1>2 DEF Fitting
<1>5. Order(b) = Order(l)
  BY <1>4 DEF Order
<1> QED BY <1>1, <1>3, <1>4, <1>5 DEF b
-----------------------------------------------------------------------------
(***************************************************************************)
(* What the invariant says of one slab and of one allocation.              *)
(***************************************************************************)
LEMMA SlabHeld ==
  ASSUME NEW pg, NEW hd, NEW P, NEW F, NEW fr, NEW us, NEW lv,
         Core(pg, hd, P, F, fr, us, lv), NEW c \in Class, NEW s \in SlabOf(P, F, c)
  PROVE  s \in Memory \ pg /\ s \in Nat /\ Block(s, 0) \in hd
<1>1. s \in Memory
  BY DEF Core, Types, SlabOf
<1>2. s \in Nat
  BY <1>1, ClassFacts
<1>3. Block(s, 0) \in hd
  BY DEF Core, Covers
<1>4. PagesOf(Block(s, 0)) \subseteq Memory \ pg
  BY <1>3 DEF Core, Owned
<1> QED BY <1>1, <1>2, <1>3, <1>4, OnePage

\* A live object lies in a block that the heap holds.
LEMMA LiveHeld ==
  ASSUME NEW pg, NEW hd, NEW P, NEW F, NEW fr, NEW us, NEW lv,
         Core(pg, hd, P, F, fr, us, lv), NEW b \in lv
  PROVE  /\ b.addr \in Nat /\ b.size \in Nat \ {0} /\ b.align \in Nat \ {0}
         /\ Page(b.addr) \in Memory \ pg
         /\ \A l \in Class \cup {PageSize} : b.align <= l => l % b.align = 0
         /\ Small(b) => /\ CacheOf(b) \in Class
                        /\ b.size <= CacheOf(b) /\ b.align <= CacheOf(b)
                        /\ Block(Page(b.addr), 0) \in hd
                        /\ Page(b.addr) \in SlabOf(P, F, CacheOf(b))
                        /\ b.addr \in Objects(Page(b.addr), CacheOf(b))
         /\ ~Small(b) => /\ Page(b.addr) = b.addr /\ Order(b) \in Orders
                         /\ b.size <= Bytes[Order(b)]
                         /\ Block(b.addr, Order(b)) \in hd
                         /\ Block(b.addr, Order(b)) \in Blocks
                         /\ \A c \in Class : b.addr \notin SlabOf(P, F, c)
<1>1. /\ b.addr \in Nat /\ b.size \in Nat /\ b.align \in Nat
      /\ [size |-> b.size, align |-> b.align] \in Layouts
  BY DEF Core, Types, Placed
<1>2. /\ b.size \in Nat \ {0} /\ b.align \in Nat \ {0}
      /\ \A l \in Class \cup {PageSize} : b.align <= l => l % b.align = 0
  <2> DEFINE l == [size |-> b.size, align |-> b.align]
  <2>1. l \in Layouts /\ l.size = b.size /\ l.align = b.align
    BY <1>1
  <2> HIDE DEF l
  <2>2. l \in [size : Nat \ {0}, align : Nat \ {0}]
    BY <2>1, HeapAssumption, Zenon
  <2>3. \A d \in Class \cup {PageSize} : l.align <= d => d % l.align = 0
    BY <2>1, HeapAssumption
  <2>4. l.size \in Nat \ {0} /\ l.align \in Nat \ {0}
    BY <2>2
  <2> HIDE DEF PageSize
  <2> QED BY <2>1, <2>3, <2>4
<1>3. CASE Small(b)
  <2>1. CacheOf(b) \in Class /\ b.size <= CacheOf(b) /\ b.align <= CacheOf(b)
    BY <1>1, <1>3, CacheFacts
  <2>2. Page(b.addr) \in SlabOf(P, F, CacheOf(b)) /\ b.addr \in Objects(Page(b.addr), CacheOf(b))
    BY <1>3, Zenon DEF Core, Placed
  <2>3. Page(b.addr) \in Memory \ pg /\ Block(Page(b.addr), 0) \in hd
    BY <2>1, <2>2, SlabHeld
  <2> QED BY <1>1, <1>2, <1>3, <2>1, <2>2, <2>3
<1>4. CASE ~Small(b)
  <2>1. Order(b) \in Orders /\ b.size <= Bytes[Order(b)]
    BY <1>1, <1>4, OrderFacts DEF Core, Placed
  <2> DEFINE k == Block(b.addr, Order(b))
  <2>2. k \in hd
    BY <1>4 DEF Core, Covers
  <2>3. k \in Blocks /\ k.addr = b.addr
    BY <1>1, <2>1 DEF Block, Blocks
  <2> HIDE DEF k
  <2>4. b.addr \in Memory \ pg
    BY <2>2, <2>3, FirstPage DEF Core, Owned
  <2>5. b.addr % PageSize = 0 /\ PageSize \in Nat \ {0}
    BY <2>4, ClassFacts, PageFacts
  <2>6. Page(b.addr) = b.addr
    <3> HIDE DEF PageSize
    <3> DEFINE z == 0
    <3>0. z \in Nat /\ z < PageSize /\ b.addr + z = b.addr
      BY <1>1, <2>5
    <3> HIDE DEF z
    <3>1. Page(b.addr + z) = b.addr
      BY <1>1, <2>5, <3>0, PageOf
    <3> QED BY <3>0, <3>1
  <2>7. \A c \in Class : b.addr \notin SlabOf(P, F, c)
    BY <1>4, Zenon DEF Core, Placed
  <2> QED BY <1>1, <1>2, <1>4, <2>1, <2>2, <2>3, <2>4, <2>6, <2>7 DEF k
<1> QED BY <1>3, <1>4, Zenon

\* The promises to clients that the invariant makes.
LEMMA CoreDisjoint ==
  ASSUME NEW pg, NEW hd, NEW P, NEW F, NEW fr, NEW us, NEW lv,
         Core(pg, hd, P, F, fr, us, lv), NEW a \in lv, NEW b \in lv, a # b
  PROVE  a.addr + a.size <= b.addr \/ b.addr + b.size <= a.addr
<1> DEFINE Home(x) == IF Small(x) THEN Block(Page(x.addr), 0) ELSE Block(x.addr, Order(x))
<1>0. PageSize \in Nat \ {0} /\ 0 \in Orders /\ Bytes[0] = PageSize
  BY PageFacts DEF PageSize
<1>1. ASSUME NEW x \in lv
      PROVE  /\ x.addr \in Nat /\ x.size \in Nat \ {0}
             /\ Home(x) \in hd /\ Home(x) \in Blocks /\ Home(x).addr % PageSize = 0
             /\ Home(x).addr <= x.addr
             /\ x.addr + x.size <= Home(x).addr + Bytes[Home(x).order]
             /\ Home(x).addr = Page(x.addr)
  <2> HIDE DEF PageSize
  <2>0. x.addr \in Nat /\ x.size \in Nat \ {0} /\ Page(x.addr) \in Memory
    BY LiveHeld
  <2>1. Page(x.addr) \in Nat /\ Page(x.addr) % PageSize = 0
    BY <2>0, ClassFacts
  <2>2. CASE Small(x)
    <3>1. /\ CacheOf(x) \in Class /\ x.size <= CacheOf(x) /\ Block(Page(x.addr), 0) \in hd
          /\ x.addr \in Objects(Page(x.addr), CacheOf(x))
      BY <2>2, LiveHeld, Zenon
    <3>2. /\ Page(x.addr) + Header <= x.addr /\ Header \in Nat /\ CacheOf(x) \in Nat
          /\ x.addr + CacheOf(x) <= Page(x.addr) + PageSize
      BY <2>0, <3>1, ObjectFacts, ClassFacts
    <3>3. /\ Block(Page(x.addr), 0) \in Blocks /\ Block(Page(x.addr), 0).addr = Page(x.addr)
          /\ Block(Page(x.addr), 0).order = 0
      BY <2>1, OnePage
    <3>4. Page(x.addr) <= x.addr /\ x.addr + x.size <= Page(x.addr) + PageSize
      BY <1>0, <2>0, <2>1, <3>1, <3>2
    <3> QED BY <1>0, <2>0, <2>1, <2>2, <3>1, <3>3, <3>4, Zenon
  <2>3. CASE ~Small(x)
    <3>1. /\ Page(x.addr) = x.addr /\ Order(x) \in Orders /\ x.size <= Bytes[Order(x)]
          /\ Block(x.addr, Order(x)) \in hd /\ Block(x.addr, Order(x)) \in Blocks
      BY <2>3, LiveHeld
    <3>2. Block(x.addr, Order(x)).addr = x.addr /\ Block(x.addr, Order(x)).order = Order(x)
      BY DEF Block
    <3>3. Bytes[Order(x)] \in Nat
      BY <3>1, PageFacts
    <3>4. x.addr + x.size <= x.addr + Bytes[Order(x)] /\ x.addr <= x.addr
      BY <2>0, <3>1, <3>3
    <3> QED BY <2>0, <2>1, <2>3, <3>1, <3>2, <3>4, Zenon
  <2> QED BY <2>2, <2>3, Zenon
<1>2. CASE Home(a) # Home(b)
  <2>1. Disjoint(Home(a), Home(b))
    <3>1. PagesOf(Home(a)) \cap PagesOf(Home(b)) = {}
      BY <1>1, <1>2, Zenon DEF Core, Owned
    <3> HIDE DEF Home, PageSize
    <3> QED BY <1>1, <3>1, NoCommonPage, Zenon
  <2>2. /\ Home(a).addr \in Nat /\ Home(b).addr \in Nat
        /\ Bytes[Home(a).order] \in Nat /\ Bytes[Home(b).order] \in Nat
    <3> HIDE DEF Home
    <3> QED BY <1>1, PageFacts DEF Blocks
  <2> HIDE DEF Home
  <2> QED BY <1>1, <2>1, <2>2 DEF Disjoint
<1>3. CASE Home(a) = Home(b)
  <2>1. a.addr # b.addr
    BY DEF Core, Unique
  <2>2. Page(a.addr) = Page(b.addr)
    BY <1>1, <1>3, Zenon
  <2>3. Small(a) /\ Small(b)
    <3>1. ASSUME NEW x \in lv, NEW y \in lv, Page(x.addr) = Page(y.addr), x.addr # y.addr, ~Small(x)
          PROVE  FALSE
      <4>1. Page(x.addr) = x.addr /\ \A c \in Class : x.addr \notin SlabOf(P, F, c)
        BY <3>1, LiveHeld, ZenonT(60)
      <4>2. Small(y) => CacheOf(y) \in Class /\ Page(y.addr) \in SlabOf(P, F, CacheOf(y))
        BY LiveHeld
      <4>3. ~Small(y) => Page(y.addr) = y.addr
        BY LiveHeld
      <4> QED BY <3>1, <4>1, <4>2, <4>3
    <3> QED BY <2>1, <2>2, <3>1
  <2> DEFINE s == Page(a.addr)
  <2>4. /\ CacheOf(a) \in Class /\ CacheOf(b) \in Class
        /\ s \in SlabOf(P, F, CacheOf(a)) /\ s \in SlabOf(P, F, CacheOf(b)) /\ s \in Memory
    BY <2>2, <2>3, LiveHeld, ZenonT(60)
  <2>5. CacheOf(a) = CacheOf(b)
    BY <2>4, Zenon DEF Core, Apart
  <2>6. a.addr \in Objects(s, CacheOf(a)) /\ b.addr \in Objects(s, CacheOf(a))
    BY <2>2, <2>3, <2>5, LiveHeld
  <2> HIDE DEF s
  <2>7. a.addr + CacheOf(a) <= b.addr \/ b.addr + CacheOf(a) <= a.addr
    BY <2>1, <2>4, <2>6, ObjectsApart
  <2>8. a.size <= CacheOf(a) /\ b.size <= CacheOf(a) /\ CacheOf(a) \in Nat
    BY <2>3, <2>4, <2>5, LiveHeld, ClassFacts, SMTT(30)
  <2> QED BY <1>1, <2>7, <2>8
<1> QED BY <1>2, <1>3
-----------------------------------------------------------------------------
(***************************************************************************)
(* The steps inside alloc and dealloc keep the invariant.                  *)
(***************************************************************************)
\* Owned, when a block of free pages is taken and when a block is given back.
LEMMA OwnedTake ==
  ASSUME NEW pg, NEW hd, NEW k, Owned(pg, hd), pg \subseteq Memory, PagesOf(k) \subseteq pg
  PROVE  Owned(pg \ PagesOf(k), hd \cup {k})
BY DEF Owned

\* The same when a block is given back.
LEMMA OwnedGive ==
  ASSUME NEW pg, NEW hd, NEW k \in hd, Owned(pg, hd)
  PROVE  Owned(pg \cup PagesOf(k), hd \ {k})
BY DEF Owned

\* Slab::new: an empty slab on a free page.
LEMMA NewSlab ==
  ASSUME NEW pg, NEW hd, NEW P, NEW F, NEW fr, NEW us, NEW lv,
         Core(pg, hd, P, F, fr, us, lv), NEW c \in Class, NEW s \in pg
  PROVE  /\ Core(pg \ PagesOf(Block(s, 0)), hd \cup {Block(s, 0)}, [P EXCEPT ![c] = @ \cup {s}], F,
                 [fr EXCEPT ![s] = Objects(s, c)], [us EXCEPT ![s] = 0], lv)
         /\ \A d \in Class : SlabOf([P EXCEPT ![c] = @ \cup {s}], F, d) \subseteq SlabOf(P, F, d) \cup {s}
<1> DEFINE P1 == [P EXCEPT ![c] = @ \cup {s}]
           fr1 == [fr EXCEPT ![s] = Objects(s, c)]
           us1 == [us EXCEPT ![s] = 0]
           k == Block(s, 0)
<1>0. Types(pg, hd, P, F, fr, us, lv) /\ Owned(pg, hd) /\ Covers(hd, P, F, lv)
  BY DEF Core
<1>1. s \in Memory /\ s \in Nat /\ k \in Blocks /\ PagesOf(k) = {s}
  BY <1>0, ClassFacts, OnePage DEF Types
<1>2. Objects(s, c) \subseteq Nat
  BY <1>1, ObjectFacts
<1>3. /\ P1 \in [Class -> SUBSET Memory]
      /\ \A d \in Class : P1[d] = IF d = c THEN P[d] \cup {s} ELSE P[d]
  BY <1>0, <1>1, Zenon DEF Types
<1>4. /\ us1 \in [Memory -> Nat]
      /\ \A x \in Memory : us1[x] = IF x = s THEN 0 ELSE us[x]
  BY <1>0, <1>1 DEF Types
<1>5. /\ fr1 \in [Memory -> SUBSET Nat]
      /\ \A x \in Memory : fr1[x] = IF x = s THEN Objects(s, c) ELSE fr[x]
  BY <1>0, <1>1, <1>2 DEF Types
<1> HIDE DEF P1, fr1, us1, k
<1>6. \A d \in Class : s \notin SlabOf(P, F, d)
  BY SlabHeld
<1>7. \A b \in lv : Page(b.addr) # s
  BY LiveHeld
<1>8. \A d \in Class : SlabOf(P1, F, d) = IF d = c THEN SlabOf(P, F, d) \cup {s} ELSE SlabOf(P, F, d)
  BY <1>3 DEF SlabOf
<1>9. Types(pg \ PagesOf(k), hd \cup {k}, P1, F, fr1, us1, lv)
  BY <1>0, <1>1, <1>3, <1>4, <1>5 DEF Types
<1>10. Owned(pg \ PagesOf(k), hd \cup {k})
  BY <1>0, <1>1, OwnedTake, Zenon DEF Types
<1>11. Covers(hd \cup {k}, P1, F, lv)
  <2>1. \A d \in Class : \A x \in SlabOf(P1, F, d) : Block(x, 0) \in hd \cup {k}
    BY <1>0, <1>8 DEF Covers, k
  <2>2. ASSUME NEW j \in hd \cup {k}
        PROVE  \/ \E d \in Class : \E x \in SlabOf(P1, F, d) : j = Block(x, 0)
               \/ \E b \in lv : ~Small(b) /\ j = Block(b.addr, Order(b))
    <3>1. CASE j = k
      BY <1>8, <3>1, Zenon DEF k
    <3>2. CASE j \in hd
      BY <1>0, <1>8, <3>2 DEF Covers
    <3> QED BY <3>1, <3>2
  <2> QED BY <1>0, <2>1, <2>2 DEF Covers
<1>12. Apart(P1, F)
  <2>1. \A d \in Class : P1[d] \cap F[d] = {}
    BY <1>3, <1>6, ZenonT(60) DEF Core, Apart, SlabOf
  <2>2. \A d, e \in Class : d # e => SlabOf(P1, F, d) \cap SlabOf(P1, F, e) = {}
    BY <1>6, <1>8, SMTT(30) DEF Core, Apart
  <2> QED BY <2>1, <2>2, Zenon DEF Apart
<1>13. Counted(P1, F, fr1, us1, lv)
  <2> SUFFICES ASSUME NEW d \in Class, NEW x \in SlabOf(P1, F, d)
               PROVE  /\ x \in F[d] <=> us1[x] = Capacity(d)
                      /\ us1[x] <= Capacity(d)
                      /\ us1[x] = Cardinality(Within(lv, x))
                      /\ fr1[x] = Objects(x, d) \ {b.addr : b \in lv}
    BY Zenon DEF Counted
  <2>1. CASE x = s
    <3>1. d = c /\ x \notin F[d]
      BY <1>6, <1>8, <2>1, Zenon DEF SlabOf
    <3>2. us1[x] = 0 /\ Capacity(d) \in Nat /\ Capacity(d) >= 1
      BY <1>1, <1>4, <2>1, HeaderFacts
    <3>3. Within(lv, x) = {}
      BY <1>7, <2>1 DEF Within
    <3>4. \A b \in lv : b.addr \notin Objects(x, d)
      BY <1>1, <1>7, <2>1, ObjectFacts
    <3>5. fr1[x] = Objects(x, d)
      BY <1>1, <1>5, <2>1, <3>1, Zenon
    <3>6. Objects(x, d) = Objects(x, d) \ {b.addr : b \in lv}
      BY <3>4, Zenon
    <3> HIDE DEF Capacity, Objects
    <3>7. Cardinality({}) = 0
      BY FS_EmptySet, Zenon
    <3>8. us1[x] # Capacity(d) /\ us1[x] <= Capacity(d)
      BY <3>2
    <3> QED BY <3>1, <3>2, <3>3, <3>5, <3>6, <3>7, <3>8, Zenon
  <2>2. CASE x # s
    <3>1. x \in SlabOf(P, F, d) /\ x \in Memory
      BY <1>0, <1>8, <2>2, Zenon DEF SlabOf, Types
    <3>2. us1[x] = us[x] /\ fr1[x] = fr[x]
      BY <1>4, <1>5, <2>2, <3>1, Zenon
    <3> QED BY <3>1, <3>2, Zenon DEF Core, Counted
  <2> QED BY <2>1, <2>2, Zenon
<1>14. Placed(P1, F, lv)
  <2> SUFFICES ASSUME NEW b \in lv
               PROVE  /\ [size |-> b.size, align |-> b.align] \in Layouts
                      /\ Small(b) => /\ Page(b.addr) \in SlabOf(P1, F, CacheOf(b))
                                     /\ b.addr \in Objects(Page(b.addr), CacheOf(b))
                      /\ ~Small(b) => /\ Fitting(b) # {}
                                      /\ \A d \in Class : b.addr \notin SlabOf(P1, F, d)
    BY Zenon DEF Placed
  <2>1. /\ [size |-> b.size, align |-> b.align] \in Layouts
        /\ ~Small(b) => Fitting(b) # {}
    BY Zenon DEF Core, Placed
  <2>2. CASE Small(b)
    <3>1. /\ CacheOf(b) \in Class /\ Page(b.addr) \in SlabOf(P, F, CacheOf(b))
          /\ b.addr \in Objects(Page(b.addr), CacheOf(b))
      BY <2>2, LiveHeld, Zenon
    <3>2. Page(b.addr) \in SlabOf(P1, F, CacheOf(b))
      BY <1>8, <3>1
    <3> QED BY <2>1, <2>2, <3>1, <3>2, Zenon
  <2>3. CASE ~Small(b)
    <3>1. Page(b.addr) = b.addr /\ \A d \in Class : b.addr \notin SlabOf(P, F, d)
      BY <2>3, LiveHeld
    <3>2. \A d \in Class : b.addr \notin SlabOf(P1, F, d)
      BY <1>7, <1>8, <3>1
    <3> QED BY <2>1, <2>3, <3>2, Zenon
  <2> QED BY <2>2, <2>3, Zenon
<1>15. Unique(lv)
  BY DEF Core
<1>16. Core(pg \ PagesOf(k), hd \cup {k}, P1, F, fr1, us1, lv)
  BY <1>9, <1>10, <1>11, <1>12, <1>13, <1>14, <1>15, Zenon DEF Core
<1> QED BY <1>8, <1>16, Zenon DEF P1, fr1, us1, k

\* Slab s stays in its list or moves to the other list of its class.
Moved(P, F, c, s, P1, F1) ==
  \/ P1 = P /\ F1 = F
  \/ P1 = [P EXCEPT ![c] = @ \ {s}] /\ F1 = [F EXCEPT ![c] = @ \cup {s}]
  \/ P1 = [P EXCEPT ![c] = @ \cup {s}] /\ F1 = [F EXCEPT ![c] = @ \ {s}]

\* A move between the lists leaves each slab in one list of one class.
LEMMA MoveSlab ==
  ASSUME NEW P, NEW F, P \in [Class -> SUBSET Memory], F \in [Class -> SUBSET Memory],
         Apart(P, F), NEW c \in Class, NEW s \in SlabOf(P, F, c), NEW P1, NEW F1,
         Moved(P, F, c, s, P1, F1)
  PROVE  /\ P1 \in [Class -> SUBSET Memory] /\ F1 \in [Class -> SUBSET Memory]
         /\ Apart(P1, F1)
         /\ \A d \in Class : SlabOf(P1, F1, d) = SlabOf(P, F, d)
         /\ \A d \in Class : \A x \in Memory \ {s} : x \in F1[d] <=> x \in F[d]
<1>1. s \in Memory
  BY DEF SlabOf
<1>2. /\ P1 \in [Class -> SUBSET Memory] /\ F1 \in [Class -> SUBSET Memory]
      /\ \A d \in Class : d # c => P1[d] = P[d] /\ F1[d] = F[d]
  BY <1>1 DEF Moved
<1>3. /\ P1[c] \cup F1[c] = P[c] \cup F[c] /\ P1[c] \cap F1[c] = {}
      /\ \A x \in Memory \ {s} : x \in F1[c] <=> x \in F[c]
  BY DEF SlabOf, Apart, Moved
<1>4. \A d \in Class : SlabOf(P1, F1, d) = SlabOf(P, F, d)
  BY <1>2, <1>3 DEF SlabOf
<1>5. \A d \in Class : P1[d] \cap F1[d] = {}
  BY <1>2, <1>3, Zenon DEF Apart
<1>6. Apart(P1, F1)
  BY <1>4, <1>5 DEF Apart
<1> QED BY <1>2, <1>3, <1>4, <1>6, Zenon

\* Slab::alloc takes obj from slab s, which moves over when it is full.
Taken(pg, hd, P, F, fr, us, lv, l, s, obj, P1, F1, fr1, us1, lv1) ==
  /\ Core(pg, hd, P, F, fr, us, lv) /\ l \in Layouts /\ Small(l)
  /\ s \in P[CacheOf(l)] /\ obj \in fr[s]
  /\ fr1 = [fr EXCEPT ![s] = @ \ {obj}] /\ us1 = [us EXCEPT ![s] = @ + 1]
  /\ lv1 = lv \cup {Live(obj, l)}
  /\ IF us[s] + 1 = Capacity(CacheOf(l))
     THEN /\ P1 = [P EXCEPT ![CacheOf(l)] = @ \ {s}]
          /\ F1 = [F EXCEPT ![CacheOf(l)] = @ \cup {s}]
     ELSE P1 = P /\ F1 = F

\* The lists P1 and F1 hold the slabs that P and F do.
SameSlabs(P, F, P1, F1) == \A d \in Class : SlabOf(P1, F1, d) = SlabOf(P, F, d)

\* The invariant holds after an object was taken.
LEMMA TakeObject ==
  ASSUME NEW pg, NEW hd, NEW P, NEW F, NEW fr, NEW us, NEW lv,
         NEW l, NEW s, NEW obj, NEW P1, NEW F1, NEW fr1, NEW us1, NEW lv1,
         Taken(pg, hd, P, F, fr, us, lv, l, s, obj, P1, F1, fr1, us1, lv1)
  PROVE  Core(pg, hd, P1, F1, fr1, us1, lv1) /\ SameSlabs(P, F, P1, F1)
<1>a. Core(pg, hd, P, F, fr, us, lv) /\ l \in Layouts /\ Small(l)
  BY Zenon DEF Taken
<1> USE <1>a
<1> DEFINE c == CacheOf(l)
           b0 == Live(obj, l)
<1>t. /\ s \in P[c] /\ obj \in fr[s] /\ lv1 = lv \cup {b0}
      /\ fr1 = [fr EXCEPT ![s] = @ \ {obj}] /\ us1 = [us EXCEPT ![s] = @ + 1]
      /\ IF us[s] + 1 = Capacity(c)
         THEN P1 = [P EXCEPT ![c] = @ \ {s}] /\ F1 = [F EXCEPT ![c] = @ \cup {s}]
         ELSE P1 = P /\ F1 = F
  BY Zenon DEF Taken
<1>0. /\ Types(pg, hd, P, F, fr, us, lv) /\ Owned(pg, hd) /\ Covers(hd, P, F, lv)
      /\ Apart(P, F)
  BY DEF Core
<1>1. l.size \in Nat /\ l.align \in Nat /\ [size |-> l.size, align |-> l.align] \in Layouts
  BY LayoutFacts
<1>2. c \in Class
  BY <1>1, CacheFacts
<1>3. s \in SlabOf(P, F, c) /\ s \in Memory /\ s \notin F[c]
  BY <1>0, <1>2, <1>t, Zenon DEF SlabOf, Types, Apart
<1>4. /\ us[s] # Capacity(c) /\ us[s] <= Capacity(c) /\ us[s] \in Nat /\ Capacity(c) \in Nat
      /\ us[s] = Cardinality(Within(lv, s)) /\ fr[s] = Objects(s, c) \ {b.addr : b \in lv}
  <2>1. Counted(P, F, fr, us, lv)
    BY DEF Core
  <2>2. us[s] \in Nat
    BY <1>0, <1>3, Zenon DEF Types
  <2>3. Capacity(c) \in Nat
    BY <1>2, HeaderFacts
  <2> HIDE DEF Capacity, c
  <2> QED BY <1>2, <1>3, <2>1, <2>2, <2>3, Zenon DEF Counted
<1>5. obj \in Objects(s, c) /\ \A b \in lv : b.addr # obj
  BY <1>4, <1>t, Zenon
<1>6. obj \in Nat /\ Page(obj) = s
  BY <1>2, <1>3, <1>5, ObjectFacts, Zenon
<1>7. /\ b0.addr = obj /\ b0.size = l.size /\ b0.align = l.align
      /\ Small(b0) /\ CacheOf(b0) = c
  BY SameLayout, Zenon
<1>8. b0 \in [addr : Nat, size : Nat, align : Nat]
  BY <1>1, <1>6, Zenon DEF Live
<1>9. /\ P1 \in [Class -> SUBSET Memory] /\ F1 \in [Class -> SUBSET Memory]
      /\ Apart(P1, F1)
      /\ \A d \in Class : SlabOf(P1, F1, d) = SlabOf(P, F, d)
      /\ \A d \in Class : \A x \in Memory \ {s} : x \in F1[d] <=> x \in F[d]
  <2>1. P \in [Class -> SUBSET Memory] /\ F \in [Class -> SUBSET Memory]
    BY <1>0 DEF Types
  <2>2. Moved(P, F, c, s, P1, F1)
    <3> HIDE DEF c, Capacity
    <3> QED BY <1>t, Zenon DEF Moved
  <2> HIDE DEF c
  <2> QED BY <1>0, <1>2, <1>3, <2>1, <2>2, MoveSlab, ZenonT(30)
<1>10. s \in F1[c] <=> us[s] + 1 = Capacity(c)
  <2>1. F \in [Class -> SUBSET Memory]
    BY <1>0, Zenon DEF Types
  <2>2. IF us[s] + 1 = Capacity(c) THEN F1 = [F EXCEPT ![c] = @ \cup {s}] ELSE F1 = F
    <3> HIDE DEF c, Capacity
    <3> QED BY <1>t, Zenon
  <2> HIDE DEF c, Capacity
  <2> QED BY <1>2, <1>3, <2>1, <2>2, Zenon
<1>11. us1 \in [Memory -> Nat] /\ \A x \in Memory : us1[x] = IF x = s THEN us[s] + 1 ELSE us[x]
  <2>1. us \in [Memory -> Nat] /\ s \in Memory
    BY <1>0, <1>3, Zenon DEF Types
  <2>2. us1 = [us EXCEPT ![s] = @ + 1]
    BY <1>t, Zenon
  <2> QED BY <2>1, <2>2
<1>12. fr1 \in [Memory -> SUBSET Nat] /\ \A x \in Memory : fr1[x] = IF x = s THEN fr[s] \ {obj} ELSE fr[x]
  BY <1>0, <1>3, <1>t, Zenon DEF Types
<1>13. b0 \notin lv /\ IsFiniteSet(lv) /\ IsFiniteSet(lv1)
  <2>1. b0 \notin lv
    BY <1>5, <1>7, Zenon
  <2>2. IsFiniteSet(lv)
    BY <1>0 DEF Types
  <2> QED BY <1>t, <2>1, <2>2, FS_AddElement, Zenon
<1> HIDE DEF c, b0
<1>14. Types(pg, hd, P1, F1, fr1, us1, lv1)
  BY <1>0, <1>8, <1>9, <1>11, <1>12, <1>13, <1>t DEF Types
<1>15. Covers(hd, P1, F1, lv1)
  BY <1>0, <1>7, <1>9, <1>t, Zenon DEF Covers
<1>16. Counted(P1, F1, fr1, us1, lv1)
  <2> SUFFICES ASSUME NEW d \in Class, NEW x \in SlabOf(P1, F1, d)
               PROVE  /\ x \in F1[d] <=> us1[x] = Capacity(d)
                      /\ us1[x] <= Capacity(d)
                      /\ us1[x] = Cardinality(Within(lv1, x))
                      /\ fr1[x] = Objects(x, d) \ {b.addr : b \in lv1}
    BY Zenon DEF Counted
  <2>0. x \in SlabOf(P, F, d) /\ x \in Memory
    BY <1>0, <1>9, Zenon DEF SlabOf, Types
  <2>1. CASE x = s
    <3>1. d = c
      BY <1>0, <1>2, <1>3, <2>0, <2>1, Zenon DEF Apart
    <3>2. us1[x] = us[s] + 1 /\ fr1[x] = fr[s] \ {obj}
      BY <1>11, <1>12, <2>0, <2>1, Zenon
    <3>3. Within(lv1, x) = Within(lv, s) \cup {b0} /\ b0 \notin Within(lv, s)
      BY <1>6, <1>7, <1>13, <1>t, <2>1, Zenon DEF Within
    <3>4. IsFiniteSet(Within(lv, s))
      <4>1. Within(lv, s) \subseteq lv
        BY DEF Within
      <4> QED BY <1>13, <4>1, FS_Subset, Zenon
    <3>5. Cardinality(Within(lv1, x)) = us[s] + 1
      <4>1. Cardinality(Within(lv, s) \cup {b0}) = Cardinality(Within(lv, s)) + 1
        BY <3>3, <3>4, FS_AddElement, Zenon
      <4> QED BY <1>4, <3>3, <4>1, Zenon
    <3>6. fr1[x] = Objects(x, d) \ {b.addr : b \in lv1}
      <4> HIDE DEF Objects
      <4> QED BY <1>4, <1>7, <1>t, <2>1, <3>1, <3>2
    <3> HIDE DEF Capacity, Objects
    <3>7. x \in F1[d] <=> us1[x] = Capacity(d)
      BY <1>10, <2>1, <3>1, <3>2, Zenon
    <3>8. us1[x] <= Capacity(d)
      BY <1>4, <3>1, <3>2, Raise, Zenon
    <3> QED BY <3>2, <3>5, <3>6, <3>7, <3>8, Zenon
  <2>2. CASE x # s
    <3>1. us1[x] = us[x] /\ fr1[x] = fr[x] /\ (x \in F1[d] <=> x \in F[d])
      BY <1>9, <1>11, <1>12, <2>0, <2>2, Zenon
    <3>2. Within(lv1, x) = Within(lv, x)
      BY <1>6, <1>7, <1>t, <2>2, Zenon DEF Within
    <3>3. obj \notin Objects(x, d)
      BY <1>6, <2>0, <2>2, ObjectFacts, Zenon
    <3>4. Objects(x, d) \ {b.addr : b \in lv1} = Objects(x, d) \ {b.addr : b \in lv}
      <4> HIDE DEF Objects
      <4> QED BY <1>7, <1>t, <3>3, Zenon
    <3>5. /\ x \in F[d] <=> us[x] = Capacity(d)
          /\ us[x] <= Capacity(d) /\ us[x] = Cardinality(Within(lv, x))
          /\ fr[x] = Objects(x, d) \ {b.addr : b \in lv}
      BY <2>0, Zenon DEF Core, Counted
    <3> HIDE DEF Capacity, Objects
    <3> QED BY <3>1, <3>2, <3>4, <3>5, Zenon
  <2> QED BY <2>1, <2>2, Zenon
<1>17. Placed(P1, F1, lv1)
  <2> SUFFICES ASSUME NEW b \in lv1
               PROVE  /\ [size |-> b.size, align |-> b.align] \in Layouts
                      /\ Small(b) => /\ Page(b.addr) \in SlabOf(P1, F1, CacheOf(b))
                                     /\ b.addr \in Objects(Page(b.addr), CacheOf(b))
                      /\ ~Small(b) => /\ Fitting(b) # {}
                                      /\ \A d \in Class : b.addr \notin SlabOf(P1, F1, d)
    BY Zenon DEF Placed
  <2>1. CASE b = b0
    BY <1>1, <1>2, <1>3, <1>5, <1>6, <1>7, <1>9, <2>1, Zenon
  <2>2. CASE b \in lv
    <3>1. /\ [size |-> b.size, align |-> b.align] \in Layouts
          /\ ~Small(b) => Fitting(b) # {}
      BY <2>2, Zenon DEF Core, Placed
    <3>2. /\ Small(b) => CacheOf(b) \in Class /\ Page(b.addr) \in SlabOf(P, F, CacheOf(b))
          /\ Small(b) => b.addr \in Objects(Page(b.addr), CacheOf(b))
          /\ ~Small(b) => \A d \in Class : b.addr \notin SlabOf(P, F, d)
      BY <2>2, LiveHeld, ZenonT(60)
    <3> QED BY <1>9, <3>1, <3>2, Zenon
  <2> QED BY <1>t, <2>1, <2>2, Zenon
<1>18. Unique(lv1)
  BY <1>5, <1>7, <1>t, Zenon DEF Core, Unique
<1>19. Core(pg, hd, P1, F1, fr1, us1, lv1)
  BY <1>0, <1>9, <1>14, <1>15, <1>16, <1>17, <1>18, Zenon DEF Core
<1> QED BY <1>9, <1>19, Zenon DEF SameSlabs

\* Slab::dealloc gives b0 back to its slab, which moves back when it was full.
Given(pg, hd, P, F, fr, us, lv, b0, P1, F1, fr1, us1, lv1) ==
  LET s == Page(b0.addr)
      c == CacheOf(b0)
  IN /\ Core(pg, hd, P, F, fr, us, lv) /\ b0 \in lv /\ Small(b0)
     /\ fr1 = [fr EXCEPT ![s] = @ \cup {b0.addr}] /\ us1 = [us EXCEPT ![s] = @ - 1]
     /\ lv1 = lv \ {b0}
     /\ IF us[s] = Capacity(c)
        THEN P1 = [P EXCEPT ![c] = @ \cup {s}] /\ F1 = [F EXCEPT ![c] = @ \ {s}]
        ELSE P1 = P /\ F1 = F

\* The invariant holds after an object was given back.
LEMMA GiveObject ==
  ASSUME NEW pg, NEW hd, NEW P, NEW F, NEW fr, NEW us, NEW lv,
         NEW b0, NEW P1, NEW F1, NEW fr1, NEW us1, NEW lv1,
         Given(pg, hd, P, F, fr, us, lv, b0, P1, F1, fr1, us1, lv1)
  PROVE  /\ Core(pg, hd, P1, F1, fr1, us1, lv1) /\ SameSlabs(P, F, P1, F1)
         /\ us[Page(b0.addr)] \in Nat \ {0}
<1>a. Core(pg, hd, P, F, fr, us, lv) /\ b0 \in lv /\ Small(b0)
  BY Zenon DEF Given
<1> USE <1>a
<1> DEFINE c == CacheOf(b0)
           s == Page(b0.addr)
<1>t. /\ fr1 = [fr EXCEPT ![s] = @ \cup {b0.addr}] /\ us1 = [us EXCEPT ![s] = @ - 1]
      /\ lv1 = lv \ {b0}
      /\ IF us[s] = Capacity(c)
         THEN P1 = [P EXCEPT ![c] = @ \cup {s}] /\ F1 = [F EXCEPT ![c] = @ \ {s}]
         ELSE P1 = P /\ F1 = F
  BY Zenon DEF Given
<1>0. /\ Types(pg, hd, P, F, fr, us, lv) /\ Owned(pg, hd) /\ Covers(hd, P, F, lv)
      /\ Apart(P, F)
  BY Zenon DEF Core
<1>1. /\ c \in Class /\ s \in SlabOf(P, F, c) /\ s \in Memory /\ b0.addr \in Objects(s, c)
      /\ b0.addr \in Nat
  BY LiveHeld, ZenonT(30)
<1>2. /\ s \in F[c] <=> us[s] = Capacity(c)
      /\ us[s] <= Capacity(c) /\ us[s] \in Nat /\ Capacity(c) \in Nat
      /\ us[s] = Cardinality(Within(lv, s)) /\ fr[s] = Objects(s, c) \ {b.addr : b \in lv}
  <2>1. Counted(P, F, fr, us, lv)
    BY Zenon DEF Core
  <2>2. us[s] \in Nat
    BY <1>0, <1>1, Zenon DEF Types
  <2>3. Capacity(c) \in Nat
    BY <1>1, HeaderFacts, Zenon
  <2> HIDE DEF Capacity, c, s
  <2> QED BY <1>1, <2>1, <2>2, <2>3, Zenon DEF Counted
<1>3. IsFiniteSet(lv) /\ IsFiniteSet(lv1) /\ IsFiniteSet(Within(lv, s))
  <2>1. IsFiniteSet(lv) /\ lv1 \subseteq lv /\ Within(lv, s) \subseteq lv
    BY <1>0, <1>t, Zenon DEF Types, Within
  <2> QED BY <2>1, FS_Subset, Zenon
<1>4. b0 \in Within(lv, s) /\ Within(lv1, s) = Within(lv, s) \ {b0}
  BY <1>t, Zenon DEF Within
<1>5. Cardinality(Within(lv1, s)) = us[s] - 1 /\ us[s] # 0
  <2>1. /\ Cardinality(Within(lv, s) \ {b0}) = Cardinality(Within(lv, s)) - 1
        /\ Cardinality(Within(lv, s) \ {b0}) \in Nat
    <3>1. IsFiniteSet(Within(lv, s) \ {b0})
      BY <1>3, FS_RemoveElement, Zenon
    <3> HIDE DEF s
    <3> QED BY <1>3, <1>4, <3>1, FS_RemoveElement, FS_CardinalityType, ZenonT(30)
  <2>2. us[s] = Cardinality(Within(lv, s)) /\ us[s] \in Nat
    BY <1>2, Zenon
  <2> HIDE DEF s
  <2> QED BY <1>4, <2>1, <2>2
<1>6. /\ P1 \in [Class -> SUBSET Memory] /\ F1 \in [Class -> SUBSET Memory]
      /\ Apart(P1, F1)
      /\ \A d \in Class : SlabOf(P1, F1, d) = SlabOf(P, F, d)
      /\ \A d \in Class : \A x \in Memory \ {s} : x \in F1[d] <=> x \in F[d]
  <2>1. P \in [Class -> SUBSET Memory] /\ F \in [Class -> SUBSET Memory]
    BY <1>0, Zenon DEF Types
  <2>2. Moved(P, F, c, s, P1, F1)
    <3> HIDE DEF c, s, Capacity
    <3> QED BY <1>t, Zenon DEF Moved
  <2> HIDE DEF c, s
  <2> QED BY <1>0, <1>1, <2>1, <2>2, MoveSlab, Zenon
<1>7. s \notin F1[c]
  <2>1. F \in [Class -> SUBSET Memory]
    BY <1>0, Zenon DEF Types
  <2>2. IF us[s] = Capacity(c) THEN F1 = [F EXCEPT ![c] = @ \ {s}] ELSE F1 = F
    <3> HIDE DEF c, s, Capacity
    <3> QED BY <1>t, Zenon
  <2> HIDE DEF c, s, Capacity
  <2> QED BY <1>1, <1>2, <2>1, <2>2, Zenon
<1>8. us1 \in [Memory -> Nat] /\ \A x \in Memory : us1[x] = IF x = s THEN us[s] - 1 ELSE us[x]
  <2>1. us \in [Memory -> Nat] /\ us[s] - 1 \in Nat
    BY <1>0, <1>2, <1>5, Lower, Zenon DEF Types
  <2>2. us1 = [us EXCEPT ![s] = @ - 1] /\ s \in Memory
    BY <1>1, <1>t, Zenon
  <2> HIDE DEF s
  <2> QED BY <2>1, <2>2, Zenon
<1>9. fr1 \in [Memory -> SUBSET Nat] /\ \A x \in Memory : fr1[x] = IF x = s THEN fr[s] \cup {b0.addr} ELSE fr[x]
  BY <1>0, <1>1, <1>t, Zenon DEF Types
<1>10. \A b \in lv1 : b \in lv /\ b.addr # b0.addr
  BY <1>t, Zenon DEF Core, Unique
<1> HIDE DEF c, s
<1>11. Types(pg, hd, P1, F1, fr1, us1, lv1)
  BY <1>0, <1>3, <1>6, <1>8, <1>9, <1>t, Zenon DEF Types
<1>12. Covers(hd, P1, F1, lv1)
  BY <1>0, <1>6, <1>t, Zenon DEF Covers
<1>13. Counted(P1, F1, fr1, us1, lv1)
  <2> SUFFICES ASSUME NEW d \in Class, NEW x \in SlabOf(P1, F1, d)
               PROVE  /\ x \in F1[d] <=> us1[x] = Capacity(d)
                      /\ us1[x] <= Capacity(d)
                      /\ us1[x] = Cardinality(Within(lv1, x))
                      /\ fr1[x] = Objects(x, d) \ {b.addr : b \in lv1}
    BY Zenon DEF Counted
  <2>0. x \in SlabOf(P, F, d) /\ x \in Memory
    BY <1>0, <1>6, Zenon DEF SlabOf, Types
  <2>1. CASE x = s
    <3>1. d = c
      BY <1>0, <1>1, <2>0, <2>1, Zenon DEF Apart
    <3>2. us1[x] = us[s] - 1 /\ fr1[x] = fr[s] \cup {b0.addr}
      BY <1>8, <1>9, <2>0, <2>1, Zenon
    <3>3. fr1[x] = Objects(x, d) \ {b.addr : b \in lv1}
      <4> HIDE DEF Objects
      <4>1. {b.addr : b \in lv} = {b.addr : b \in lv1} \cup {b0.addr} /\ b0.addr \notin {b.addr : b \in lv1}
        BY <1>10, <1>t, Zenon
      <4> QED BY <1>1, <1>2, <2>1, <3>1, <3>2, <4>1, Zenon
    <3> HIDE DEF Capacity, Objects
    <3>4. us1[x] = Cardinality(Within(lv1, x)) /\ us1[x] \in Nat
      BY <1>2, <1>5, <2>1, <3>2, Lower, ZenonT(60)
    <3>5. us1[x] # Capacity(d) /\ us1[x] <= Capacity(d) /\ x \notin F1[d]
      <4>1. us[s] \in Nat /\ Capacity(c) \in Nat /\ us[s] # 0 /\ us[s] <= Capacity(c)
        BY <1>2, <1>5, Zenon
      <4>2. us[s] - 1 # Capacity(c) /\ us[s] - 1 <= Capacity(c)
        BY <4>1, Lower, Zenon
      <4> QED BY <1>7, <2>1, <3>1, <3>2, <4>2, Zenon
    <3> QED BY <3>3, <3>4, <3>5, Zenon
  <2>2. CASE x # s
    <3>1. us1[x] = us[x] /\ fr1[x] = fr[x] /\ (x \in F1[d] <=> x \in F[d])
      BY <1>6, <1>8, <1>9, <2>0, <2>2, ZenonT(30)
    <3>2. Within(lv1, x) = Within(lv, x)
      BY <1>t, <2>2, Zenon DEF Within, s
    <3>3. b0.addr \notin Objects(x, d)
      BY <2>0, <2>2, ObjectFacts, Zenon DEF s
    <3>4. Objects(x, d) \ {b.addr : b \in lv1} = Objects(x, d) \ {b.addr : b \in lv}
      <4> HIDE DEF Objects
      <4> QED BY <1>t, <3>3, Zenon
    <3>5. /\ x \in F[d] <=> us[x] = Capacity(d)
          /\ us[x] <= Capacity(d) /\ us[x] = Cardinality(Within(lv, x))
          /\ fr[x] = Objects(x, d) \ {b.addr : b \in lv}
      BY <2>0, Zenon DEF Core, Counted
    <3> HIDE DEF Capacity, Objects
    <3> QED BY <3>1, <3>2, <3>4, <3>5, Zenon
  <2> QED BY <2>1, <2>2, Zenon
<1>14. Placed(P1, F1, lv1)
  <2> SUFFICES ASSUME NEW b \in lv1
               PROVE  /\ [size |-> b.size, align |-> b.align] \in Layouts
                      /\ Small(b) => /\ Page(b.addr) \in SlabOf(P1, F1, CacheOf(b))
                                     /\ b.addr \in Objects(Page(b.addr), CacheOf(b))
                      /\ ~Small(b) => /\ Fitting(b) # {}
                                      /\ \A d \in Class : b.addr \notin SlabOf(P1, F1, d)
    BY Zenon DEF Placed
  <2>0. b \in lv
    BY <1>t, Zenon
  <2>1. /\ [size |-> b.size, align |-> b.align] \in Layouts
        /\ ~Small(b) => Fitting(b) # {}
    BY <2>0, Zenon DEF Core, Placed
  <2>2. /\ Small(b) => CacheOf(b) \in Class /\ Page(b.addr) \in SlabOf(P, F, CacheOf(b))
        /\ Small(b) => b.addr \in Objects(Page(b.addr), CacheOf(b))
        /\ ~Small(b) => \A d \in Class : b.addr \notin SlabOf(P, F, d)
    BY <2>0, LiveHeld, ZenonT(30)
  <2> QED BY <1>6, <2>1, <2>2, Zenon
<1>15. Unique(lv1)
  BY <1>t, Zenon DEF Core, Unique
<1>16. Core(pg, hd, P1, F1, fr1, us1, lv1)
  BY <1>0, <1>6, <1>11, <1>12, <1>13, <1>14, <1>15, Zenon DEF Core
<1> QED BY <1>2, <1>5, <1>6, <1>16, Zenon DEF s, SameSlabs

\* The lists P once s is unlinked from the one of class c.
Without(P, c, s) == [P EXCEPT ![c] = @ \ {s}]

\* s is a slab of class c in the list P that holds no object.
Empty(pg, hd, P, F, fr, us, lv, c, s) ==
  Core(pg, hd, P, F, fr, us, lv) /\ c \in Class /\ s \in P[c] /\ us[s] = 0

\* The invariant with that slab unlinked and its page free again.
Dropped(pg, hd, P, F, fr, us, lv, c, s) ==
  /\ Core(pg \cup PagesOf(Block(s, 0)), hd \ {Block(s, 0)}, Without(P, c, s), F, fr, us, lv)
  /\ Block(s, 0) \in hd
  /\ \A d \in Class : SlabOf(Without(P, c, s), F, d) = SlabOf(P, F, d) \ {s}

\* An empty slab leaves its list and its page is free again.
LEMMA DropSlab ==
  ASSUME NEW pg, NEW hd, NEW P, NEW F, NEW fr, NEW us, NEW lv, NEW c, NEW s,
         Empty(pg, hd, P, F, fr, us, lv, c, s)
  PROVE  Dropped(pg, hd, P, F, fr, us, lv, c, s)
<1>a. Core(pg, hd, P, F, fr, us, lv) /\ c \in Class /\ s \in P[c] /\ us[s] = 0
  BY Zenon DEF Empty
<1> USE <1>a
<1> DEFINE P1 == Without(P, c, s)
           k == Block(s, 0)
<1>0. /\ Types(pg, hd, P, F, fr, us, lv) /\ Owned(pg, hd) /\ Covers(hd, P, F, lv)
      /\ Apart(P, F)
  BY Zenon DEF Core
<1>1. s \in SlabOf(P, F, c) /\ s \notin F[c]
  BY <1>0, Zenon DEF SlabOf, Apart
<1>2. s \in Memory /\ s \in Nat /\ k \in hd /\ PagesOf(k) = {s} /\ k.addr = s
  BY <1>1, SlabHeld, OnePage, ZenonT(60)
<1>3. /\ P1 \in [Class -> SUBSET Memory]
      /\ \A d \in Class : P1[d] = IF d = c THEN P[d] \ {s} ELSE P[d]
  BY <1>0, Zenon DEF Types, Without
<1> HIDE DEF P1, k
<1>4. \A d \in Class : SlabOf(P1, F, d) = SlabOf(P, F, d) \ {s}
  BY <1>0, <1>1, <1>3, SMTT(30) DEF SlabOf, Apart
<1>5. \A b \in lv : Page(b.addr) # s
  <2>1. Cardinality(Within(lv, s)) = 0
    BY <1>1, Zenon DEF Core, Counted
  <2>2. IsFiniteSet(Within(lv, s))
    <3>1. IsFiniteSet(lv) /\ Within(lv, s) \subseteq lv
      BY <1>0, Zenon DEF Types, Within
    <3> QED BY <3>1, FS_Subset, Zenon
  <2>3. Within(lv, s) = {}
    BY <2>1, <2>2, FS_EmptySet, Zenon
  <2> QED BY <2>3, Zenon DEF Within
<1>6. Types(pg \cup PagesOf(k), hd \ {k}, P1, F, fr, us, lv)
  BY <1>0, <1>2, <1>3, Zenon DEF Types
<1>7. Owned(pg \cup PagesOf(k), hd \ {k})
  BY <1>0, <1>2, OwnedGive, Zenon
<1>8. Covers(hd \ {k}, P1, F, lv)
  <2>1. ASSUME NEW d \in Class, NEW x \in SlabOf(P1, F, d) PROVE Block(x, 0) \in hd \ {k}
    <3>1. x # s /\ Block(x, 0) \in hd
      BY <1>0, <1>4, Zenon DEF Covers
    <3>2. Block(x, 0).addr = x
      BY Zenon DEF Block
    <3> QED BY <1>2, <3>1, <3>2, Zenon
  <2>2. ASSUME NEW b \in lv, ~Small(b) PROVE Block(b.addr, Order(b)) \in hd \ {k}
    <3>1. Block(b.addr, Order(b)).addr = b.addr
      BY Zenon DEF Block
    <3>2. b.addr # s /\ Block(b.addr, Order(b)) \in hd
      <4>1. Block(b.addr, Order(b)) \in hd /\ \A d \in Class : b.addr \notin SlabOf(P, F, d)
        BY <2>2, LiveHeld, Zenon
      <4> QED BY <1>1, <4>1, Zenon
    <3> QED BY <1>2, <3>1, <3>2, Zenon
  <2>3. ASSUME NEW j \in hd \ {k}
        PROVE  \/ \E d \in Class : \E x \in SlabOf(P1, F, d) : j = Block(x, 0)
               \/ \E b \in lv : ~Small(b) /\ j = Block(b.addr, Order(b))
    <3>1. ASSUME NEW d \in Class, NEW x \in SlabOf(P, F, d), j = Block(x, 0) PROVE x \in SlabOf(P1, F, d)
      BY <1>4, <3>1, Zenon DEF k
    <3> QED BY <1>0, <3>1, Zenon DEF Covers
  <2> QED BY <2>1, <2>2, <2>3, Zenon DEF Covers
<1>9. Apart(P1, F)
  BY <1>0, <1>3, <1>4, Zenon DEF Apart
<1>10. Counted(P1, F, fr, us, lv)
  BY <1>4, ZenonT(60) DEF Core, Counted
<1>11. Placed(P1, F, lv)
  <2> SUFFICES ASSUME NEW b \in lv
               PROVE  /\ [size |-> b.size, align |-> b.align] \in Layouts
                      /\ Small(b) => /\ Page(b.addr) \in SlabOf(P1, F, CacheOf(b))
                                     /\ b.addr \in Objects(Page(b.addr), CacheOf(b))
                      /\ ~Small(b) => /\ Fitting(b) # {}
                                      /\ \A d \in Class : b.addr \notin SlabOf(P1, F, d)
    BY Zenon DEF Placed
  <2>1. /\ [size |-> b.size, align |-> b.align] \in Layouts
        /\ ~Small(b) => Fitting(b) # {}
    BY Zenon DEF Core, Placed
  <2>2. /\ Small(b) => CacheOf(b) \in Class /\ Page(b.addr) \in SlabOf(P, F, CacheOf(b))
        /\ Small(b) => b.addr \in Objects(Page(b.addr), CacheOf(b))
        /\ ~Small(b) => \A d \in Class : b.addr \notin SlabOf(P, F, d)
    BY LiveHeld, Zenon
  <2> QED BY <1>4, <1>5, <2>1, <2>2, Zenon
<1>12. Unique(lv)
  BY Zenon DEF Core
<1>13. Core(pg \cup PagesOf(k), hd \ {k}, P1, F, fr, us, lv)
  BY <1>6, <1>7, <1>8, <1>9, <1>10, <1>11, <1>12, Zenon DEF Core
<1> QED BY <1>2, <1>4, <1>13, Zenon DEF P1, k, Dropped

\* A large allocation takes a block of free pages.
LEMMA TakeBlock ==
  ASSUME NEW pg, NEW hd, NEW P, NEW F, NEW fr, NEW us, NEW lv,
         Core(pg, hd, P, F, fr, us, lv), NEW l \in Layouts, ~Small(l), Fitting(l) # {},
         NEW a \in pg, PagesOf(Block(a, Order(l))) \subseteq pg
  PROVE  Core(pg \ PagesOf(Block(a, Order(l))), hd \cup {Block(a, Order(l))}, P, F, fr, us,
              lv \cup {Live(a, l)})
<1> DEFINE k == Block(a, Order(l))
           b0 == Live(a, l)
           lv1 == lv \cup {b0}
<1>0. /\ Types(pg, hd, P, F, fr, us, lv) /\ Owned(pg, hd) /\ Covers(hd, P, F, lv)
      /\ Apart(P, F) /\ Counted(P, F, fr, us, lv)
  BY Zenon DEF Core
<1>1. l.size \in Nat /\ l.align \in Nat /\ [size |-> l.size, align |-> l.align] \in Layouts
  BY LayoutFacts, Zenon
<1>2. a \in Memory /\ a \in Nat /\ a % PageSize = 0 /\ pg \subseteq Memory
  BY <1>0, ClassFacts, Zenon DEF Types
<1>3. Page(a) = a
  <2>0. PageSize \in Nat \ {0}
    BY PageFacts
  <2> HIDE DEF PageSize
  <2> DEFINE z == 0
  <2>1. z \in Nat /\ z < PageSize /\ a + z = a
    BY <1>2, <2>0
  <2> HIDE DEF z
  <2>2. Page(a + z) = a
    BY <1>2, <2>1, PageOf, Zenon
  <2> QED BY <2>1, <2>2, Zenon
<1>4. Order(l) \in Orders /\ k \in Blocks
  BY <1>1, <1>2, OrderFacts, Zenon DEF Block, Blocks
<1>5. /\ b0.addr = a /\ b0.size = l.size /\ b0.align = l.align
      /\ ~Small(b0) /\ Fitting(b0) # {} /\ Order(b0) = Order(l)
  BY SameLayout, Zenon
<1>6. b0 \in [addr : Nat, size : Nat, align : Nat]
  BY <1>1, <1>2, Zenon DEF Live
<1>7. \A b \in lv : b.addr # a
  <2>1. \A b \in lv : Page(b.addr) \notin pg
    BY LiveHeld, Zenon
  <2> QED BY <1>3, <2>1, Zenon
<1>8. \A d \in Class : a \notin SlabOf(P, F, d)
  BY SlabHeld, Zenon
<1> HIDE DEF k, b0
<1>9. Types(pg \ PagesOf(k), hd \cup {k}, P, F, fr, us, lv1)
  <2>1. IsFiniteSet(lv) /\ IsFiniteSet(lv1)
    BY <1>0, FS_AddElement, ZenonT(30) DEF Types
  <2> QED BY <1>0, <1>4, <1>6, <2>1, Zenon DEF Types
<1>10. Owned(pg \ PagesOf(k), hd \cup {k})
  BY <1>0, <1>2, OwnedTake, ZenonT(30) DEF k
<1>11. Covers(hd \cup {k}, P, F, lv1)
  <2>1. k = Block(b0.addr, Order(b0)) /\ ~Small(b0)
    BY <1>5, Zenon DEF k
  <2> QED BY <1>0, <2>1, Zenon DEF Covers
<1>12. Counted(P, F, fr, us, lv1)
  <2> HIDE DEF lv1
  <2> SUFFICES ASSUME NEW d \in Class, NEW x \in SlabOf(P, F, d)
               PROVE  /\ x \in F[d] <=> us[x] = Capacity(d)
                      /\ us[x] <= Capacity(d)
                      /\ us[x] = Cardinality(Within(lv1, x))
                      /\ fr[x] = Objects(x, d) \ {b.addr : b \in lv1}
    BY Zenon DEF Counted
  <2>0. /\ x \in F[d] <=> us[x] = Capacity(d)
        /\ us[x] <= Capacity(d) /\ us[x] = Cardinality(Within(lv, x))
        /\ fr[x] = Objects(x, d) \ {b.addr : b \in lv}
    BY Zenon DEF Core, Counted
  <2>1. x # a /\ x \in Memory
    BY <1>8, SlabHeld
  <2>2. a \notin Objects(x, d)
    BY <1>3, <2>1, ObjectFacts, Zenon
  <2> HIDE DEF Objects, Capacity
  <2>3. /\ Within(lv1, x) = Within(lv, x)
        /\ Objects(x, d) \ {b.addr : b \in lv1} = Objects(x, d) \ {b.addr : b \in lv}
    BY <1>3, <1>5, <2>1, <2>2, Zenon DEF Within, lv1
  <2> QED BY <2>0, <2>3, Zenon
<1>13. Placed(P, F, lv1)
  <2> SUFFICES ASSUME NEW b \in lv1
               PROVE  /\ [size |-> b.size, align |-> b.align] \in Layouts
                      /\ Small(b) => /\ Page(b.addr) \in SlabOf(P, F, CacheOf(b))
                                     /\ b.addr \in Objects(Page(b.addr), CacheOf(b))
                      /\ ~Small(b) => /\ Fitting(b) # {}
                                      /\ \A d \in Class : b.addr \notin SlabOf(P, F, d)
    BY Zenon DEF Placed
  <2>1. CASE b = b0
    BY <1>1, <1>5, <1>8, <2>1, Zenon
  <2>2. CASE b \in lv
    BY <2>2, Zenon DEF Core, Placed
  <2> QED BY <2>1, <2>2, Zenon
<1>14. Unique(lv1)
  BY <1>5, <1>7, Zenon DEF Core, Unique
<1>15. Core(pg \ PagesOf(k), hd \cup {k}, P, F, fr, us, lv1)
  BY <1>0, <1>9, <1>10, <1>11, <1>12, <1>13, <1>14, Zenon DEF Core
<1> QED BY <1>15, Zenon DEF k, b0

\* A large allocation gives back the block it took.
LEMMA GiveBlock ==
  ASSUME NEW pg, NEW hd, NEW P, NEW F, NEW fr, NEW us, NEW lv,
         Core(pg, hd, P, F, fr, us, lv), NEW b0 \in lv, ~Small(b0)
  PROVE  Core(pg \cup PagesOf(Block(b0.addr, Order(b0))), hd \ {Block(b0.addr, Order(b0))},
              P, F, fr, us, lv \ {b0})
<1> DEFINE k == Block(b0.addr, Order(b0))
           lv1 == lv \ {b0}
<1>0. /\ Types(pg, hd, P, F, fr, us, lv) /\ Owned(pg, hd) /\ Covers(hd, P, F, lv)
      /\ Apart(P, F) /\ Counted(P, F, fr, us, lv)
  BY Zenon DEF Core
<1>1. /\ Page(b0.addr) = b0.addr /\ k \in hd /\ k \in Blocks
      /\ \A d \in Class : b0.addr \notin SlabOf(P, F, d)
  BY LiveHeld
<1>2. k.addr = b0.addr
  BY Zenon DEF Block
<1>3. \A b \in lv1 : b \in lv /\ b.addr # b0.addr
  BY Zenon DEF Core, Unique
<1>4. PagesOf(k) \subseteq Memory
  BY <1>0, <1>1, Zenon DEF Owned
<1> HIDE DEF k
<1>5. Types(pg \cup PagesOf(k), hd \ {k}, P, F, fr, us, lv1)
  <2>1. IsFiniteSet(lv1)
    <3>1. IsFiniteSet(lv) /\ lv1 \subseteq lv
      BY <1>0, Zenon DEF Types
    <3> QED BY <3>1, FS_Subset, Zenon
  <2> QED BY <1>0, <1>4, <2>1, Zenon DEF Types
<1>6. Owned(pg \cup PagesOf(k), hd \ {k})
  BY <1>0, <1>1, OwnedGive, Zenon
<1>7. Covers(hd \ {k}, P, F, lv1)
  <2>1. ASSUME NEW d \in Class, NEW x \in SlabOf(P, F, d) PROVE Block(x, 0) \in hd \ {k}
    <3>1. x # b0.addr /\ Block(x, 0) \in hd
      BY <1>0, <1>1, Zenon DEF Covers
    <3>2. Block(x, 0).addr = x
      BY Zenon DEF Block
    <3> QED BY <1>2, <3>1, <3>2, Zenon
  <2>2. ASSUME NEW b \in lv1, ~Small(b) PROVE Block(b.addr, Order(b)) \in hd \ {k}
    <3>1. Block(b.addr, Order(b)).addr = b.addr
      BY Zenon DEF Block
    <3> QED BY <1>0, <1>2, <1>3, <2>2, <3>1, Zenon DEF Covers
  <2>3. ASSUME NEW j \in hd \ {k}
        PROVE  \/ \E d \in Class : \E x \in SlabOf(P, F, d) : j = Block(x, 0)
               \/ \E b \in lv1 : ~Small(b) /\ j = Block(b.addr, Order(b))
    BY <1>0, Zenon DEF Covers, k
  <2> QED BY <2>1, <2>2, <2>3, Zenon DEF Covers
<1>8. Counted(P, F, fr, us, lv1)
  <2> HIDE DEF lv1
  <2> SUFFICES ASSUME NEW d \in Class, NEW x \in SlabOf(P, F, d)
               PROVE  /\ x \in F[d] <=> us[x] = Capacity(d)
                      /\ us[x] <= Capacity(d)
                      /\ us[x] = Cardinality(Within(lv1, x))
                      /\ fr[x] = Objects(x, d) \ {b.addr : b \in lv1}
    BY Zenon DEF Counted
  <2>0. /\ x \in F[d] <=> us[x] = Capacity(d)
        /\ us[x] <= Capacity(d) /\ us[x] = Cardinality(Within(lv, x))
        /\ fr[x] = Objects(x, d) \ {b.addr : b \in lv}
    BY Zenon DEF Core, Counted
  <2>1. x # b0.addr /\ x \in Memory
    BY <1>1, SlabHeld
  <2>2. b0.addr \notin Objects(x, d)
    BY <1>1, <2>1, ObjectFacts, Zenon
  <2> HIDE DEF Objects, Capacity
  <2>3. /\ Within(lv1, x) = Within(lv, x)
        /\ Objects(x, d) \ {b.addr : b \in lv1} = Objects(x, d) \ {b.addr : b \in lv}
    BY <1>1, <2>1, <2>2, Zenon DEF Within, lv1
  <2> QED BY <2>0, <2>3, Zenon
<1>9. Placed(P, F, lv1) /\ Unique(lv1)
  BY Zenon DEF Core, Placed, Unique
<1>10. Core(pg \cup PagesOf(k), hd \ {k}, P, F, fr, us, lv1)
  BY <1>0, <1>5, <1>6, <1>7, <1>8, <1>9, Zenon DEF Core
<1> QED BY <1>10, Zenon DEF k
-----------------------------------------------------------------------------
(***************************************************************************)
(* The lists of slabs.                                                     *)
(***************************************************************************)
\* One list behind another.
LEMMA JoinFacts ==
  ASSUME NEW S, NEW p \in Seq(S), NEW q \in Seq(S), IsInjective(p), IsInjective(q),
         Range(p) \cap Range(q) = {}
  PROVE  /\ p \o q \in Seq(S) /\ IsInjective(p \o q)
         /\ Range(p \o q) = Range(p) \cup Range(q)
<1> DEFINE r == p \o q
<1>0. /\ Len(p) \in Nat /\ Len(q) \in Nat
      /\ DOMAIN p = 1..Len(p) /\ DOMAIN q = 1..Len(q)
  OBVIOUS
<1>1. /\ r \in Seq(S) /\ Len(r) = Len(p) + Len(q)
      /\ \A k \in 1..(Len(p) + Len(q)) : r[k] = IF k <= Len(p) THEN p[k] ELSE q[k - Len(p)]
  OBVIOUS
<1> HIDE DEF r
<1>2. DOMAIN r = 1..(Len(p) + Len(q))
  BY <1>0, <1>1
<1>3. ASSUME NEW k \in DOMAIN r
      PROVE  \/ k \in DOMAIN p /\ r[k] = p[k]
             \/ k - Len(p) \in DOMAIN q /\ r[k] = q[k - Len(p)]
  <2>1. CASE k <= Len(p)
    BY <1>0, <1>1, <1>2, <2>1
  <2>2. CASE ~(k <= Len(p))
    BY <1>0, <1>1, <1>2, <2>2
  <2> QED BY <2>1, <2>2, Zenon
<1>4. ASSUME NEW i \in DOMAIN p PROVE i \in DOMAIN r /\ r[i] = p[i]
  BY <1>0, <1>1, <1>2
<1>5. ASSUME NEW i \in DOMAIN q PROVE i + Len(p) \in DOMAIN r /\ r[i + Len(p)] = q[i]
  <2>1. i + Len(p) \in 1..(Len(p) + Len(q)) /\ ~(i + Len(p) <= Len(p)) /\ (i + Len(p)) - Len(p) = i
    BY <1>0
  <2> QED BY <1>1, <1>2, <2>1, Zenon
<1>6. IsInjective(r)
  <2> SUFFICES ASSUME NEW j \in DOMAIN r, NEW k \in DOMAIN r, r[j] = r[k] PROVE j = k
    BY Zenon DEF IsInjective
  <2>1. ASSUME NEW m \in DOMAIN p, NEW n \in DOMAIN q PROVE p[m] # q[n]
    BY Zenon DEF Range
  <2>2. CASE j \in DOMAIN p /\ r[j] = p[j]
    BY <1>3, <2>1, <2>2, Zenon DEF IsInjective
  <2>3. CASE j - Len(p) \in DOMAIN q /\ r[j] = q[j - Len(p)]
    <3>1. k - Len(p) \in DOMAIN q /\ r[k] = q[k - Len(p)]
      BY <1>3, <2>1, <2>3, Zenon
    <3>2. j - Len(p) = k - Len(p)
      BY <2>3, <3>1, Zenon DEF IsInjective
    <3> QED BY <1>0, <1>2, <3>2
  <2> QED BY <1>3, <2>2, <2>3, Zenon
<1>7. Range(r) = Range(p) \cup Range(q)
  <2>1. ASSUME NEW x \in Range(r) PROVE x \in Range(p) \cup Range(q)
    BY <1>3, Zenon DEF Range
  <2>2. ASSUME NEW x \in Range(p) \cup Range(q) PROVE x \in Range(r)
    BY <1>4, <1>5, ZenonT(60) DEF Range
  <2> QED BY <2>1, <2>2, Zenon
<1> QED BY <1>1, <1>6, <1>7, Zenon DEF r

\* A slab in front of a list.
Onto(s, q) == <<s>> \o q

LEMMA FrontFacts ==
  ASSUME NEW S, NEW q \in Seq(S), IsInjective(q), NEW s \in S, s \notin Range(q)
  PROVE  /\ Onto(s, q) \in Seq(S) /\ IsInjective(Onto(s, q))
         /\ Range(Onto(s, q)) = Range(q) \cup {s}
<1> DEFINE p == <<s>>
<1>1. p \in Seq(S) /\ DOMAIN p = {1} /\ p[1] = s
  OBVIOUS
<1> HIDE DEF p
<1>2. IsInjective(p) /\ Range(p) = {s}
  BY <1>1, Zenon DEF IsInjective, Range
<1>3. /\ p \o q \in Seq(S) /\ IsInjective(p \o q)
      /\ Range(p \o q) = Range(p) \cup Range(q)
  BY <1>1, <1>2, JoinFacts
<1> QED BY <1>2, <1>3, Zenon DEF p, Onto

\* The first slab unlinked.
LEMMA TailFacts ==
  ASSUME NEW S, NEW q \in Seq(S), q # <<>>, IsInjective(q)
  PROVE  /\ Head(q) \in Range(q) /\ Tail(q) \in Seq(S) /\ IsInjective(Tail(q))
         /\ Range(Tail(q)) = Range(q) \ {Head(q)}
<1> DEFINE r == Tail(q)
<1>0. Len(q) \in Nat /\ Len(q) >= 1 /\ DOMAIN q = 1..Len(q) /\ Head(q) = q[1]
  OBVIOUS
<1>1. /\ r \in Seq(S) /\ Len(r) = Len(q) - 1 /\ \A i \in 1..(Len(q) - 1) : r[i] = q[i + 1]
  OBVIOUS
<1> HIDE DEF r
<1>2. DOMAIN r = 1..(Len(q) - 1)
  BY <1>0, <1>1
<1>3. \A i \in DOMAIN r : i \in Nat /\ i + 1 \in DOMAIN q /\ i + 1 # 1 /\ r[i] = q[i + 1]
  BY <1>0, <1>1, <1>2
<1>4. IsInjective(r)
  <2> SUFFICES ASSUME NEW j \in DOMAIN r, NEW k \in DOMAIN r, r[j] = r[k] PROVE j = k
    BY Zenon DEF IsInjective
  <2>1. j + 1 = k + 1
    BY <1>3, Zenon DEF IsInjective
  <2> QED BY <1>3, <2>1
<1>5. ASSUME NEW i \in DOMAIN q, i # 1 PROVE i - 1 \in DOMAIN r /\ r[i - 1] = q[i]
  BY <1>0, <1>1, <1>2, <1>5
<1>6. Range(r) = Range(q) \ {q[1]}
  <2>1. ASSUME NEW x \in Range(r) PROVE x \in Range(q) \ {q[1]}
    BY <1>0, <1>3 DEF Range, IsInjective
  <2>2. ASSUME NEW x \in Range(q) \ {q[1]} PROVE x \in Range(r)
    BY <1>5 DEF Range
  <2> QED BY <2>1, <2>2, Zenon
<1>7. Head(q) \in Range(q)
  BY <1>0 DEF Range
<1> QED BY <1>0, <1>1, <1>4, <1>6, <1>7, Zenon DEF r

\* The entries before i stay, those after it move up.
LEMMA CutFacts ==
  ASSUME NEW S, NEW q \in Seq(S), NEW i \in 1..Len(q)
  PROVE  /\ CutAt(q, i) \in Seq(S)
         /\ Len(CutAt(q, i)) = Len(q) - 1
         /\ \A j \in 1..(Len(q) - 1) :
              CutAt(q, i)[j] = IF j < i THEN q[j] ELSE q[j+1]
<1> DEFINE a == SubSeq(q, 1, i - 1)
           b == SubSeq(q, i + 1, Len(q))
<1>0. /\ Len(q) \in Nat /\ i \in Int /\ i - 1 \in Int /\ i + 1 \in Int
      /\ \A k \in 1..Len(q) : q[k] \in S
  OBVIOUS
<1>1. /\ a \in Seq(S) /\ Len(a) = i - 1
      /\ \A k \in 1..(i - 1) : a[k] = q[k]
  <2>1. \A k \in 1..(i - 1) : q[k] \in S
    BY <1>0
  <2> HIDE DEF a
  <2>2. /\ a \in Seq(S) /\ Len(a) = IF 1 <= i - 1 THEN i - 1 - 1 + 1 ELSE 0
        /\ \A k \in 1..(i - 1 - 1 + 1) : a[k] = q[1 + k - 1]
    BY <1>0, <2>1 DEF a
  <2> QED BY <1>0, <2>2
<1>2. /\ b \in Seq(S) /\ Len(b) = Len(q) - i
      /\ \A k \in 1..(Len(q) - i) : b[k] = q[i + k]
  <2>1. \A k \in (i + 1)..Len(q) : q[k] \in S
    BY <1>0
  <2> HIDE DEF b
  <2>2. /\ b \in Seq(S) /\ Len(b) = IF i + 1 <= Len(q) THEN Len(q) - (i + 1) + 1 ELSE 0
        /\ \A k \in 1..(Len(q) - (i + 1) + 1) : b[k] = q[(i + 1) + k - 1]
    BY <1>0, <2>1 DEF b
  <2> QED BY <1>0, <2>2
<1> HIDE DEF a, b
<1>3. /\ a \o b \in Seq(S) /\ Len(a \o b) = Len(a) + Len(b)
      /\ \A k \in 1..(Len(a) + Len(b)) :
           (a \o b)[k] = IF k <= Len(a) THEN a[k] ELSE b[k - Len(a)]
  <2>1. a \in Seq(S) /\ b \in Seq(S)
    BY <1>1, <1>2, Zenon
  <2> QED BY <2>1
<1>4. CutAt(q, i) = a \o b
  BY DEF CutAt, a, b
<1>5. ASSUME NEW j \in 1..(Len(q) - 1)
      PROVE  (a \o b)[j] = IF j < i THEN q[j] ELSE q[j+1]
  <2>1. CASE j < i
    <3>1. j \in 1..(Len(a) + Len(b)) /\ j <= Len(a) /\ j \in 1..(i - 1)
      BY <1>0, <1>1, <1>2, <2>1
    <3> QED BY <1>1, <1>3, <2>1, <3>1, Zenon
  <2>2. CASE ~(j < i)
    <3>1. /\ j \in 1..(Len(a) + Len(b)) /\ ~(j <= Len(a))
          /\ j - Len(a) \in 1..(Len(q) - i) /\ i + (j - Len(a)) = j + 1
      BY <1>0, <1>1, <1>2, <2>2
    <3> QED BY <1>2, <1>3, <2>2, <3>1, Zenon
  <2> QED BY <2>1, <2>2, Zenon
<1> QED BY <1>0, <1>1, <1>2, <1>3, <1>4, <1>5, SMTT(30)

\* Unlinking one slab from a list of distinct slabs takes out that slab and no
\* other, and the rest stay distinct.
LEMMA CutKeeps ==
  ASSUME NEW S, NEW q \in Seq(S), NEW i \in DOMAIN q, IsInjective(q)
  PROVE  /\ CutAt(q, i) \in Seq(S)
         /\ IsInjective(CutAt(q, i))
         /\ Range(CutAt(q, i)) = Range(q) \ {q[i]}
<1> DEFINE r == CutAt(q, i)
<1>1. Len(q) \in Nat /\ DOMAIN q = 1..Len(q) /\ i \in 1..Len(q)
  OBVIOUS
<1>2. /\ r \in Seq(S) /\ Len(r) = Len(q) - 1
      /\ \A j \in 1..(Len(q) - 1) : r[j] = IF j < i THEN q[j] ELSE q[j+1]
  BY <1>1, CutFacts, Zenon
<1> HIDE DEF r
<1>3. DOMAIN r = 1..(Len(q) - 1)
  BY <1>1, <1>2
<1> DEFINE at(j) == IF j < i THEN j ELSE j + 1
<1>a. ASSUME NEW j \in 1..(Len(q) - 1)
      PROVE  at(j) \in 1..Len(q) /\ at(j) # i
  BY <1>1
<1>b. ASSUME NEW j \in 1..(Len(q) - 1)
      PROVE  r[j] = q[at(j)]
  BY <1>2, Zenon
<1>c. ASSUME NEW j \in 1..(Len(q) - 1), NEW k \in 1..(Len(q) - 1), at(j) = at(k)
      PROVE  j = k
  BY <1>1, <1>c
<1> HIDE DEF at
<1>4. ASSUME NEW j \in DOMAIN r, NEW k \in DOMAIN r, r[j] = r[k]
      PROVE  j = k
  <2>1. q[at(j)] = q[at(k)] /\ at(j) \in DOMAIN q /\ at(k) \in DOMAIN q
    BY <1>1, <1>3, <1>4, <1>a, <1>b, Zenon
  <2>2. at(j) = at(k)
    BY <2>1, Zenon DEF IsInjective
  <2> QED BY <1>3, <1>c, <2>2, Zenon
<1>5. ASSUME NEW x \in Range(r)
      PROVE  x \in Range(q) \ {q[i]}
  <2>1. PICK j \in 1..(Len(q) - 1) : x = r[j]
    BY <1>3, <1>5, Zenon DEF Range
  <2>2. x = q[at(j)] /\ at(j) \in DOMAIN q /\ at(j) # i
    BY <1>1, <1>a, <1>b, <2>1, Zenon
  <2> QED BY <2>2, Zenon DEF Range, IsInjective
<1>6. ASSUME NEW x \in Range(q) \ {q[i]}
      PROVE  x \in Range(r)
  <2>1. PICK k \in 1..Len(q) : x = q[k] /\ k # i
    BY <1>1, <1>6, Zenon DEF Range
  <2>2. CASE k < i
    <3>1. k \in DOMAIN r /\ r[k] = x
      BY <1>1, <1>2, <1>3, <2>1, <2>2
    <3> QED BY <3>1, Zenon DEF Range
  <2>3. CASE ~(k < i)
    <3>1. k - 1 \in DOMAIN r /\ r[k - 1] = x
      BY <1>1, <1>2, <1>3, <2>1, <2>3
    <3> QED BY <3>1, Zenon DEF Range
  <2> QED BY <2>2, <2>3, Zenon
<1> QED BY <1>2, <1>4, <1>5, <1>6, Zenon DEF r, IsInjective

\* remove_from_full and remove_from_partial.
LEMMA UnlinkFacts ==
  ASSUME NEW S, NEW q \in Seq(S), IsInjective(q), NEW s \in Range(q)
  PROVE  /\ Unlink(q, s) \in Seq(S) /\ IsInjective(Unlink(q, s))
         /\ Range(Unlink(q, s)) = Range(q) \ {s}
<1> DEFINE I == {i \in 1..Len(q) : q[i] = s}
           First(i) == i \in DOMAIN q /\ q[i] = s /\ \A j \in 1 .. i - 1 : q[j] # s
           m == CHOOSE i \in DOMAIN q : q[i] = s /\ \A j \in 1 .. i - 1 : q[j] # s
<1>0. Len(q) \in Nat /\ DOMAIN q = 1..Len(q)
  OBVIOUS
<1>1. I # {} /\ I \subseteq Nat
  BY <1>0 DEF Range
<1>2. PICK n \in I : \A k \in I : n <= k
  <2> HIDE DEF I
  <2> QED BY <1>1, Least, Zenon
<1>3. First(n)
  BY <1>0, <1>2
<1>4. m \in DOMAIN q /\ q[m] = s
  BY <1>3, Zenon
<1>5. Unlink(q, s) = CutAt(q, m)
  BY Zenon DEF Unlink
<1> HIDE DEF m, I, First
<1>6. /\ CutAt(q, m) \in Seq(S) /\ IsInjective(CutAt(q, m))
      /\ Range(CutAt(q, m)) = Range(q) \ {q[m]}
  BY <1>4, CutKeeps, Zenon
<1> QED BY <1>4, <1>5, <1>6, Zenon
-----------------------------------------------------------------------------
(***************************************************************************)
(* The actions keep the invariant.                                         *)
(***************************************************************************)
\* The names of the instance of FrameAllocator.
LEMMA PMMIs ==
  /\ \A b : PMM!PagesOf(b) = PagesOf(b)
  /\ \A b : PMM!Alloc(b) => /\ PagesOf(b) \subseteq pages
                            /\ pages' = pages \ PagesOf(b) /\ held' = held \cup {b}
  /\ \A b : PMM!Free(b) => /\ b \in held
                           /\ pages' = pages \cup PagesOf(b) /\ held' = held \ {b}
<1>1. \A b : PMM!PagesOf(b) = PagesOf(b)
  BY Zenon DEF PMM!PagesOf, PagesOf, PMM!PageCount, PageCount, PMM!PageSize, PageSize
<1> QED BY <1>1, Zenon DEF PMM!Alloc, PMM!Free

\* The list of a class.
LEMMA ListOf ==
  ASSUME NEW lists, Linked(lists), NEW c \in Class
  PROVE  /\ Sets(lists) \in [Class -> SUBSET Memory] /\ Sets(lists)[c] = Range(lists[c])
         /\ lists[c] \in Seq(Memory) /\ IsInjective(lists[c])
<1>1. ASSUME NEW p \in Seq(Memory) PROVE Range(p) \subseteq Memory
  BY DEF Range
<1> QED BY <1>1, Zenon DEF Linked, Sets

\* The list of a class is replaced.
LEMMA Relink ==
  ASSUME NEW lists, Linked(lists), NEW c \in Class, NEW q \in Seq(Memory), IsInjective(q),
         NEW new, new = [lists EXCEPT ![c] = q]
  PROVE  Linked(new) /\ Sets(new) = [Sets(lists) EXCEPT ![c] = Range(q)]
<1>0. /\ new \in [Class -> Seq(Memory)]
      /\ \A d \in Class : new[d] = IF d = c THEN q ELSE lists[d]
  BY DEF Linked
<1>1. Linked(new)
  BY <1>0, Zenon DEF Linked
<1>2. Sets(new) = [Sets(lists) EXCEPT ![c] = Range(q)]
  BY <1>0, Zenon DEF Sets
<1> QED BY <1>1, <1>2

\* SlabCache::alloc takes an object of the first slab of ps, the partial list of
\* class c once a new slab was put in front of an empty one.
Taking(c, l, ps, fs, us, P0) ==
  /\ ps \in Seq(Memory) /\ IsInjective(ps) /\ ps # <<>>
  /\ Linked(partial) /\ Linked(full) /\ c = CacheOf(l)
  /\ P0 = [Sets(partial) EXCEPT ![c] = Range(ps)]
  /\ Core(pages', held', P0, Sets(full), fs, us, live)
  /\ \A d \in Class : Capacity(d) > 1 =>
       \A x \in SlabOf(P0, Sets(full), d) \ {Head(ps)} : us[x] > 0
  /\ Take(c, l, ps, fs, us)

\* SlabCache::alloc on a list that is not empty.
LEMMA TakeStep ==
  ASSUME NEW l \in Layouts, Small(l), NEW c \in Class, NEW ps, NEW fs, NEW us, NEW P0,
         Taking(c, l, ps, fs, us, P0)
  PROVE  Inv'
<1> DEFINE F0 == Sets(full)
           s == Head(ps)
<1> HIDE DEF F0
<1>0. /\ Core(pages', held', P0, F0, fs, us, live)
      /\ Types(pages', held', P0, F0, fs, us, live)
  BY Zenon DEF Taking, Core, F0
<1>l. Linked(partial) /\ Linked(full) /\ c = CacheOf(l)
  BY Zenon DEF Taking
<1>1. /\ s \in Range(ps) /\ Tail(ps) \in Seq(Memory) /\ IsInjective(Tail(ps))
      /\ Range(Tail(ps)) = Range(ps) \ {s}
  BY TailFacts, Zenon DEF Taking
<1> HIDE DEF s
<1>2. P0[c] = Range(ps) /\ s \in P0[c] /\ s \in Memory
  <2>1. Sets(partial) \in [Class -> SUBSET Memory]
    BY <1>l, ListOf, Zenon
  <2>2. P0[c] = Range(ps)
    BY <2>1, Zenon DEF Taking
  <2> QED BY <1>0, <1>1, <2>2 DEF Types
<1>3. F0[c] = Range(full[c]) /\ s \notin Range(full[c]) /\ full[c] \in Seq(Memory) /\ IsInjective(full[c])
  <2>1. P0[c] \cap F0[c] = {}
    BY <1>0, Zenon DEF Core, Apart
  <2>2. F0[c] = Range(full[c]) /\ full[c] \in Seq(Memory) /\ IsInjective(full[c])
    BY <1>l, ListOf, Zenon DEF F0
  <2> QED BY <1>2, <2>1, <2>2, Zenon
<1>4. PICK obj \in fs[s] :
        /\ free' = [fs EXCEPT ![s] = @ \ {obj}] /\ used' = [us EXCEPT ![s] = @ + 1]
        /\ live' = live \cup {Live(obj, l)}
        /\ IF us[s] + 1 = Capacity(c)
           THEN /\ partial' = [partial EXCEPT ![c] = Tail(ps)]
                /\ full' = [full EXCEPT ![c] = <<s>> \o @]
           ELSE partial' = [partial EXCEPT ![c] = ps] /\ full' = full
  BY Zenon DEF Taking, Take, s
<1>5. /\ Linked(partial') /\ Linked(full')
      /\ IF us[s] + 1 = Capacity(c)
         THEN /\ Sets(partial') = [P0 EXCEPT ![c] = @ \ {s}]
              /\ Sets(full') = [F0 EXCEPT ![c] = @ \cup {s}]
         ELSE Sets(partial') = P0 /\ Sets(full') = F0
  <2> HIDE DEF Capacity
  <2>1. CASE us[s] + 1 = Capacity(c)
    <3> DEFINE q == Onto(s, full[c])
               r == Tail(ps)
    <3>1. q \in Seq(Memory) /\ IsInjective(q) /\ Range(q) = Range(full[c]) \cup {s}
      <4>1. /\ s \in Memory /\ s \notin Range(full[c])
            /\ full[c] \in Seq(Memory) /\ IsInjective(full[c])
        BY <1>2, <1>3, Zenon
      <4> QED BY <4>1, FrontFacts, ZenonT(60)
    <3>2. partial' = [partial EXCEPT ![c] = r] /\ full' = [full EXCEPT ![c] = q]
      BY <1>4, <2>1, Zenon DEF Onto
    <3>3. r \in Seq(Memory) /\ IsInjective(r) /\ Range(r) = Range(ps) \ {s}
      BY <1>1, Zenon
    <3> HIDE DEF q, r
    <3>4. Linked(partial') /\ Sets(partial') = [Sets(partial) EXCEPT ![c] = Range(r)]
      BY <1>l, <3>2, <3>3, Relink, ZenonT(60)
    <3>5. Linked(full') /\ Sets(full') = [Sets(full) EXCEPT ![c] = Range(q)]
      <4>1. q \in Seq(Memory) /\ IsInjective(q) /\ full' = [full EXCEPT ![c] = q]
        BY <3>1, <3>2, Zenon
      <4> QED BY <1>l, <4>1, Relink, ZenonT(60)
    <3>6. Sets(full') = [F0 EXCEPT ![c] = @ \cup {s}]
      BY <1>3, <3>1, <3>5, Zenon DEF F0
    <3>7. Sets(partial') = [P0 EXCEPT ![c] = @ \ {s}]
      <4>1. Sets(partial) \in [Class -> SUBSET Memory]
        BY <1>l, ListOf, Zenon
      <4>2. P0 = [Sets(partial) EXCEPT ![c] = Range(ps)]
        BY Zenon DEF Taking
      <4> QED BY <1>2, <3>3, <3>4, <4>1, <4>2, ZenonT(30)
    <3> QED BY <2>1, <3>4, <3>5, <3>6, <3>7, Zenon
  <2>2. CASE us[s] + 1 # Capacity(c)
    <3>1. partial' = [partial EXCEPT ![c] = ps] /\ full' = full
      BY <1>4, <2>2, Zenon
    <3>2. Linked(partial') /\ Sets(partial') = [Sets(partial) EXCEPT ![c] = Range(ps)]
      <4>1. ps \in Seq(Memory) /\ IsInjective(ps)
        BY Zenon DEF Taking
      <4> QED BY <1>l, <3>1, <4>1, Relink, ZenonT(60)
    <3>3. Sets(partial') = P0
      BY <3>2, Zenon DEF Taking
    <3>4. Linked(full') /\ Sets(full') = F0
      BY <1>l, <3>1, Zenon DEF F0
    <3> QED BY <2>2, <3>2, <3>3, <3>4, Zenon
  <2> QED BY <2>1, <2>2, Zenon
<1>6. /\ Core(pages', held', Sets(partial'), Sets(full'), free', used', live')
      /\ \A d \in Class : SlabOf(Sets(partial'), Sets(full'), d) = SlabOf(P0, F0, d)
  <2>1. Taken(pages', held', P0, F0, fs, us, live, l, s, obj, Sets(partial'), Sets(full'),
              free', used', live')
    BY <1>l, <1>0, <1>2, <1>4, <1>5, Zenon DEF Taken
  <2> DEFINE P1 == Sets(partial')
             F1 == Sets(full')
  <2>2. Taken(pages', held', P0, F0, fs, us, live, l, s, obj, P1, F1, free', used', live')
    BY <2>1, Zenon
  <2> HIDE DEF P1, F1
  <2>3. Core(pages', held', P1, F1, free', used', live') /\ SameSlabs(P0, F0, P1, F1)
    BY <2>2, TakeObject, Zenon
  <2> QED BY <2>3, Zenon DEF P1, F1, SameSlabs
<1>7. Busy(Sets(partial'), Sets(full'), used')
  <2> SUFFICES ASSUME NEW d \in Class, Capacity(d) > 1,
                      NEW x \in SlabOf(Sets(partial'), Sets(full'), d)
               PROVE  used'[x] > 0
    BY Zenon DEF Busy
  <2>1. x \in SlabOf(P0, F0, d)
    BY <1>6, Zenon
  <2>2. us \in [Memory -> Nat] /\ x \in Memory
    BY <1>0, <2>1, Zenon DEF Types, SlabOf
  <2>3. x # s => us[x] > 0
    BY <2>1, Zenon DEF Taking, s, F0
  <2> HIDE DEF Capacity
  <2> QED BY <1>2, <1>4, <2>2, <2>3
<1> QED BY <1>5, <1>6, <1>7, Zenon DEF Inv

\* alloc from a slab in the partial list.
LEMMA AllocFromSlabStep ==
  ASSUME Inv, NEW l \in Layouts, AllocFromSlab(l)
  PROVE  Inv'
<1> DEFINE c == CacheOf(l)
<1>0. /\ Linked(partial) /\ Linked(full)
      /\ Core(pages, held, Sets(partial), Sets(full), free, used, live)
      /\ Busy(Sets(partial), Sets(full), used)
  BY Zenon DEF Inv
<1>1. /\ Small(l) /\ partial[c] # <<>> /\ pages' = pages /\ held' = held
      /\ Take(c, l, partial[c], free, used)
  BY Zenon DEF AllocFromSlab
<1>2. c \in Class
  BY <1>1, CacheFacts, LayoutFacts, ZenonT(30)
<1> HIDE DEF c
<1>3. /\ partial[c] \in Seq(Memory) /\ IsInjective(partial[c])
      /\ Sets(partial) = [Sets(partial) EXCEPT ![c] = Range(partial[c])]
  BY <1>0, <1>2, ListOf, Zenon
<1>4. Core(pages', held', Sets(partial), Sets(full), free, used, live)
  BY <1>0, <1>1, Zenon
<1>5. \A d \in Class : Capacity(d) > 1 =>
        \A x \in SlabOf(Sets(partial), Sets(full), d) \ {Head(partial[c])} : used[x] > 0
  BY <1>0, Zenon DEF Busy
<1>6. c = CacheOf(l)
  BY DEF c
<1>7. Taking(c, l, partial[c], free, used, Sets(partial))
  BY <1>0, <1>1, <1>3, <1>4, <1>5, <1>6, Zenon DEF Taking
<1> QED BY <1>1, <1>2, <1>7, TakeStep, Zenon

\* alloc from a new slab.
LEMMA AllocNewSlabStep ==
  ASSUME Inv, NEW l \in Layouts, AllocNewSlab(l)
  PROVE  Inv'
<1> DEFINE c == CacheOf(l)
<1>0. /\ Linked(partial) /\ Linked(full)
      /\ Core(pages, held, Sets(partial), Sets(full), free, used, live)
      /\ Busy(Sets(partial), Sets(full), used)
  BY DEF Inv
<1>1. Small(l) /\ partial[c] = <<>>
  BY Zenon DEF AllocNewSlab
<1>2. PICK s \in pages :
        /\ PMM!Alloc(Block(s, 0))
        /\ Take(c, l, <<s>>, [free EXCEPT ![s] = Objects(s, c)], [used EXCEPT ![s] = 0])
  BY Zenon DEF AllocNewSlab
<1>3. c \in Class
  BY <1>1, CacheFacts, LayoutFacts, Zenon
<1>4. pages' = pages \ PagesOf(Block(s, 0)) /\ held' = held \cup {Block(s, 0)}
  BY <1>2, PMMIs, Zenon
<1>c. c = CacheOf(l)
  OBVIOUS
<1> HIDE DEF c
<1> DEFINE ps == <<s>>
           P0 == [Sets(partial) EXCEPT ![c] = Range(ps)]
           fs == [free EXCEPT ![s] = Objects(s, c)]
           us == [used EXCEPT ![s] = 0]
<1>5. s \in Memory
  BY <1>0, Zenon DEF Core, Types
<1>6. ps \in Seq(Memory) /\ ps # <<>> /\ Head(ps) = s /\ DOMAIN ps = {1} /\ ps[1] = s
  BY <1>5
<1>7. IsInjective(ps) /\ Range(ps) = {s}
  <2> HIDE DEF ps
  <2> QED BY <1>6, Zenon DEF IsInjective, Range
<1>8. Sets(partial) \in [Class -> SUBSET Memory] /\ Sets(partial)[c] = {}
  <2>1. Sets(partial) \in [Class -> SUBSET Memory] /\ Sets(partial)[c] = Range(partial[c])
    BY <1>0, <1>3, ListOf, Zenon
  <2> QED BY <1>1, <2>1 DEF Range
<1> HIDE DEF ps
<1>9. P0 = [Sets(partial) EXCEPT ![c] = @ \cup {s}]
  BY <1>3, <1>7, <1>8, Zenon
<1>10. /\ Core(pages \ PagesOf(Block(s, 0)), held \cup {Block(s, 0)},
               [Sets(partial) EXCEPT ![c] = @ \cup {s}], Sets(full), fs, us, live)
       /\ \A d \in Class : SlabOf([Sets(partial) EXCEPT ![c] = @ \cup {s}], Sets(full), d)
                             \subseteq SlabOf(Sets(partial), Sets(full), d) \cup {s}
  BY <1>0, <1>3, NewSlab, Zenon
<1>11. used \in [Memory -> Nat]
  BY <1>0, Zenon DEF Core, Types
<1> HIDE DEF fs
<1>12. ASSUME NEW d \in Class, Capacity(d) > 1, NEW x \in SlabOf(P0, Sets(full), d) \ {Head(ps)}
       PROVE  us[x] > 0
  <2>1. x \in SlabOf(Sets(partial), Sets(full), d) /\ x # s
    BY <1>6, <1>9, <1>10, Zenon
  <2>2. used[x] > 0 /\ x \in Memory
    BY <1>0, <1>12, <2>1, SlabHeld, Zenon DEF Busy
  <2> QED BY <1>11, <2>1, <2>2, Zenon
<1> HIDE DEF us
<1>13. Core(pages', held', P0, Sets(full), fs, us, live)
  BY <1>4, <1>9, <1>10, Zenon
<1>14. Take(c, l, ps, fs, us)
  BY <1>2, Zenon DEF ps, fs, us
<1>15. P0 = [Sets(partial) EXCEPT ![c] = Range(ps)]
  BY Zenon
<1> HIDE DEF P0
<1>16. Taking(c, l, ps, fs, us, P0)
  BY <1>0, <1>6, <1>7, <1>12, <1>13, <1>14, <1>15, <1>c, Zenon DEF Taking
<1> QED BY <1>1, <1>3, <1>16, TakeStep, ZenonT(30)

\* alloc of whole pages.
LEMMA AllocPagesStep ==
  ASSUME Inv, NEW l \in Layouts, AllocPages(l)
  PROVE  Inv'
<1>0. Core(pages, held, Sets(partial), Sets(full), free, used, live)
  BY Zenon DEF Inv
<1>1. ~Small(l) /\ Fitting(l) # {} /\ UNCHANGED <<partial, full, free, used>>
  BY Zenon DEF AllocPages, slabs
<1>2. PICK a \in pages : PMM!Alloc(Block(a, Order(l))) /\ live' = live \cup {Live(a, l)}
  BY Zenon DEF AllocPages
<1> DEFINE k == Block(a, Order(l))
<1>3. PagesOf(k) \subseteq pages /\ pages' = pages \ PagesOf(k) /\ held' = held \cup {k}
  BY <1>2, PMMIs, Zenon
<1>4. Core(pages \ PagesOf(k), held \cup {k}, Sets(partial), Sets(full), free, used,
           live \cup {Live(a, l)})
  BY <1>0, <1>1, <1>3, TakeBlock, ZenonT(30)
<1> QED BY <1>1, <1>2, <1>3, <1>4, Zenon DEF Inv

\* What dealloc of a small allocation knows.
LEMMA SmallFacts ==
  ASSUME Inv, NEW b \in live, Small(b), NEW c, c = CacheOf(b), NEW s, s = Page(b.addr)
  PROVE  /\ c \in Class /\ s \in Memory /\ s \in SlabOf(Sets(partial), Sets(full), c)
         /\ used \in [Memory -> Nat] /\ used[s] \in Nat /\ Capacity(c) \in Nat
         /\ used[s] = Capacity(c) => s \in Range(full[c]) /\ s \notin Range(partial[c])
         /\ used[s] # Capacity(c) => s \in Range(partial[c])
         /\ Sets(partial)[c] = Range(partial[c]) /\ Sets(full)[c] = Range(full[c])
<1>0. /\ Linked(partial) /\ Linked(full)
      /\ Core(pages, held, Sets(partial), Sets(full), free, used, live)
  BY Zenon DEF Inv
<1>1. c \in Class /\ s \in Memory /\ s \in SlabOf(Sets(partial), Sets(full), c)
  BY <1>0, LiveHeld
<1>2. Sets(partial)[c] = Range(partial[c]) /\ Sets(full)[c] = Range(full[c])
  BY <1>0, <1>1, ListOf, Zenon
<1>3. s \in Sets(full)[c] <=> used[s] = Capacity(c)
  BY <1>0, <1>1, Zenon DEF Core, Counted
<1>4. Sets(partial)[c] \cap Sets(full)[c] = {}
  BY <1>0, <1>1, Zenon DEF Core, Apart
<1>5. used \in [Memory -> Nat]
  BY <1>0, Zenon DEF Core, Types
<1>6. Capacity(c) \in Nat
  BY <1>1, HeaderFacts, Zenon
<1> HIDE DEF Capacity
<1> QED BY <1>1, <1>2, <1>3, <1>4, <1>5, <1>6, Zenon DEF SlabOf

\* dealloc of an object of a full slab.
LEMMA DeallocFullStep ==
  ASSUME Inv, NEW b \in live, DeallocFull(b)
  PROVE  Inv'
<1> DEFINE c == CacheOf(b)
           s == Page(b.addr)
<1>0. /\ Linked(partial) /\ Linked(full)
      /\ Core(pages, held, Sets(partial), Sets(full), free, used, live)
      /\ Busy(Sets(partial), Sets(full), used)
  BY Zenon DEF Inv
<1>1. /\ Small(b) /\ used[s] = Capacity(c) /\ pages' = pages /\ held' = held
      /\ full' = [full EXCEPT ![c] = Unlink(@, s)]
      /\ partial' = [partial EXCEPT ![c] = <<s>> \o @]
  BY Zenon DEF DeallocFull
<1>2. /\ free' = [free EXCEPT ![s] = @ \cup {b.addr}] /\ used' = [used EXCEPT ![s] = @ - 1]
      /\ live' = live \ {b}
  BY Zenon DEF DeallocFull, Give
<1>3. /\ c \in Class /\ s \in Memory
      /\ used \in [Memory -> Nat] /\ used[s] \in Nat /\ Capacity(c) \in Nat
      /\ s \in Range(full[c]) /\ s \notin Range(partial[c])
      /\ Sets(partial)[c] = Range(partial[c]) /\ Sets(full)[c] = Range(full[c])
  BY <1>1, SmallFacts, Zenon
<1>c. c = CacheOf(b) /\ s = Page(b.addr)
  OBVIOUS
<1> HIDE DEF c, s, Capacity
<1>4. /\ partial[c] \in Seq(Memory) /\ IsInjective(partial[c])
      /\ full[c] \in Seq(Memory) /\ IsInjective(full[c])
  BY <1>0, <1>3, ListOf, Zenon
<1> DEFINE q == Unlink(full[c], s)
           r == Onto(s, partial[c])
<1>5. q \in Seq(Memory) /\ IsInjective(q) /\ Range(q) = Range(full[c]) \ {s}
  BY <1>3, <1>4, UnlinkFacts, ZenonT(60)
<1>6. r \in Seq(Memory) /\ IsInjective(r) /\ Range(r) = Range(partial[c]) \cup {s}
  <2> DEFINE f == partial[c]
  <2>1. f \in Seq(Memory) /\ IsInjective(f) /\ s \in Memory /\ s \notin Range(f)
    BY <1>3, <1>4, Zenon
  <2> HIDE DEF f
  <2>2. Onto(s, f) \in Seq(Memory) /\ IsInjective(Onto(s, f)) /\ Range(Onto(s, f)) = Range(f) \cup {s}
    BY <2>1, FrontFacts, ZenonT(60)
  <2> QED BY <2>2, Zenon DEF f
<1>7. full' = [full EXCEPT ![c] = q] /\ partial' = [partial EXCEPT ![c] = r]
  BY <1>1, Zenon DEF Onto
<1> HIDE DEF q, r
<1>8. Linked(full') /\ Sets(full') = [Sets(full) EXCEPT ![c] = Range(q)]
  <2>1. Linked(full) /\ c \in Class /\ full' = [full EXCEPT ![c] = q]
    BY <1>0, <1>3, <1>7, Zenon
  <2> QED BY <1>5, <2>1, Relink, Zenon
<1>9. Linked(partial') /\ Sets(partial') = [Sets(partial) EXCEPT ![c] = Range(r)]
  <2>1. Linked(partial) /\ c \in Class /\ partial' = [partial EXCEPT ![c] = r]
    BY <1>0, <1>3, <1>7, Zenon
  <2> QED BY <1>6, <2>1, Relink, Zenon
<1>10. /\ Sets(partial') = [Sets(partial) EXCEPT ![c] = @ \cup {s}]
       /\ Sets(full') = [Sets(full) EXCEPT ![c] = @ \ {s}]
  BY <1>3, <1>5, <1>6, <1>8, <1>9, Zenon
<1>11. Given(pages, held, Sets(partial), Sets(full), free, used, live, b,
             Sets(partial'), Sets(full'), free', used', live')
  BY <1>0, <1>1, <1>2, <1>10, <1>c, Zenon DEF Given
<1>12. /\ Core(pages, held, Sets(partial'), Sets(full'), free', used', live')
       /\ used[Page(b.addr)] \in Nat \ {0}
       /\ \A d \in Class : SlabOf(Sets(partial'), Sets(full'), d) = SlabOf(Sets(partial), Sets(full), d)
  <2> DEFINE P1 == Sets(partial')
             F1 == Sets(full')
             P0 == Sets(partial)
             F0 == Sets(full)
  <2>2. Given(pages, held, P0, F0, free, used, live, b, P1, F1, free', used', live')
    BY <1>11, Zenon
  <2> HIDE DEF P0, F0, P1, F1
  <2>3. /\ Core(pages, held, P1, F1, free', used', live') /\ SameSlabs(P0, F0, P1, F1)
        /\ used[Page(b.addr)] \in Nat \ {0}
    BY <2>2, GiveObject, Zenon
  <2> QED BY <2>3, Zenon DEF P0, F0, P1, F1, SameSlabs
<1>13. Busy(Sets(partial'), Sets(full'), used')
  <2> SUFFICES ASSUME NEW d \in Class, Capacity(d) > 1,
                      NEW x \in SlabOf(Sets(partial'), Sets(full'), d)
               PROVE  used'[x] > 0
    BY Zenon DEF Busy
  <2>1. x \in SlabOf(Sets(partial), Sets(full), d)
    BY <1>12, Zenon
  <2>2. used[x] > 0 /\ x \in Memory
    BY <1>0, <2>1, SlabHeld DEF Busy
  <2>3. x = s => d = c
    <3>1. s \in SlabOf(Sets(partial), Sets(full), c)
      BY <1>3, Zenon DEF SlabOf
    <3>2. Apart(Sets(partial), Sets(full))
      BY <1>0, Zenon DEF Core
    <3> QED BY <1>3, <2>1, <3>1, <3>2, Zenon DEF Apart
  <2>4. used'[x] = IF x = s THEN used[s] - 1 ELSE used[x]
    BY <1>2, <1>3, <2>2, Zenon
  <2> QED BY <1>1, <1>3, <2>2, <2>3, <2>4, Spare, Zenon
<1> QED BY <1>1, <1>8, <1>9, <1>12, <1>13, Zenon DEF Inv

\* dealloc of one object of several.
LEMMA DeallocPartialStep ==
  ASSUME Inv, NEW b \in live, DeallocPartial(b)
  PROVE  Inv'
<1> DEFINE c == CacheOf(b)
           s == Page(b.addr)
<1>0. /\ Linked(partial) /\ Linked(full)
      /\ Core(pages, held, Sets(partial), Sets(full), free, used, live)
      /\ Busy(Sets(partial), Sets(full), used)
  BY DEF Inv
<1>1. /\ Small(b) /\ used[s] # Capacity(c) /\ used[s] # 1
      /\ UNCHANGED <<pages, held, partial, full>>
      /\ free' = [free EXCEPT ![s] = @ \cup {b.addr}] /\ used' = [used EXCEPT ![s] = @ - 1]
      /\ live' = live \ {b}
  BY Zenon DEF DeallocPartial, Give
<1>2. used \in [Memory -> Nat] /\ s \in Memory
  BY <1>1, SmallFacts, Zenon
<1>3. Given(pages, held, Sets(partial), Sets(full), free, used, live, b,
            Sets(partial), Sets(full), free', used', live')
  BY <1>0, <1>1, Zenon DEF Given
<1> HIDE DEF c, s, Capacity
<1>4. /\ Core(pages, held, Sets(partial), Sets(full), free', used', live')
      /\ used[s] \in Nat \ {0}
  BY <1>3, GiveObject, Zenon DEF s
<1>5. Busy(Sets(partial), Sets(full), used')
  <2> SUFFICES ASSUME NEW d \in Class, Capacity(d) > 1, NEW x \in SlabOf(Sets(partial), Sets(full), d)
               PROVE  used'[x] > 0
    BY Zenon DEF Busy
  <2>1. used[x] > 0 /\ x \in Memory
    BY <1>0, SlabHeld DEF Busy
  <2> QED BY <1>1, <1>2, <1>4, <2>1
<1> QED BY <1>0, <1>1, <1>4, <1>5, Zenon DEF Inv

\* dealloc of the last object.
LEMMA DeallocLastStep ==
  ASSUME Inv, NEW b \in live, DeallocLast(b)
  PROVE  Inv'
<1> DEFINE c == CacheOf(b)
           s == Page(b.addr)
<1>0. /\ Linked(partial) /\ Linked(full)
      /\ Core(pages, held, Sets(partial), Sets(full), free, used, live)
      /\ Busy(Sets(partial), Sets(full), used)
  BY DEF Inv
<1>1. /\ Small(b) /\ used[s] # Capacity(c) /\ used[s] = 1 /\ full' = full
      /\ partial' = [partial EXCEPT ![c] = Unlink(@, s)]
      /\ free' = [free EXCEPT ![s] = @ \cup {b.addr}] /\ used' = [used EXCEPT ![s] = @ - 1]
      /\ live' = live \ {b} /\ PMM!Free(Block(s, 0))
  BY Zenon DEF DeallocLast, Give
<1>2. /\ c \in Class /\ s \in Memory /\ used \in [Memory -> Nat]
      /\ s \in Range(partial[c]) /\ Sets(partial)[c] = Range(partial[c])
  <2>1. /\ c \in Class /\ s \in Memory /\ used \in [Memory -> Nat]
        /\ used[s] # Capacity(c) => s \in Range(partial[c])
        /\ Sets(partial)[c] = Range(partial[c])
    <3> HIDE DEF Capacity
    <3> QED BY <1>1, SmallFacts, ZenonT(60)
  <2> QED BY <1>1, <2>1, Zenon
<1>3. Given(pages, held, Sets(partial), Sets(full), free, used, live, b,
            Sets(partial), Sets(full), free', used', live')
  BY <1>0, <1>1, Zenon DEF Given
<1> HIDE DEF c, s, Capacity
<1>4. Core(pages, held, Sets(partial), Sets(full), free', used', live')
  <2> DEFINE P0 == Sets(partial)
             F0 == Sets(full)
  <2>1. Given(pages, held, P0, F0, free, used, live, b, P0, F0, free', used', live')
    BY <1>3, Zenon
  <2> HIDE DEF P0, F0
  <2>2. Core(pages, held, P0, F0, free', used', live')
    BY <2>1, GiveObject, Zenon
  <2> QED BY <2>2, Zenon DEF P0, F0
<1>5. used'[s] = 0 /\ s \in Sets(partial)[c]
  <2>1. 1 - 1 = 0
    OBVIOUS
  <2> QED BY <1>1, <1>2, <2>1, Zenon
<1> DEFINE P1 == Without(Sets(partial), c, s)
<1>6. /\ Core(pages \cup PagesOf(Block(s, 0)), held \ {Block(s, 0)}, P1, Sets(full), free', used', live')
      /\ \A d \in Class : SlabOf(P1, Sets(full), d) = SlabOf(Sets(partial), Sets(full), d) \ {s}
  <2> DEFINE P0 == Sets(partial)
             F0 == Sets(full)
  <2>2. Empty(pages, held, P0, F0, free', used', live', c, s)
    BY <1>2, <1>4, <1>5, Zenon DEF Empty
  <2> HIDE DEF P0, F0
  <2>3. Dropped(pages, held, P0, F0, free', used', live', c, s)
    BY <2>2, DropSlab, Zenon
  <2> QED BY <2>3, Zenon DEF P0, F0, Dropped
<1>7. pages' = pages \cup PagesOf(Block(s, 0)) /\ held' = held \ {Block(s, 0)}
  BY <1>1, PMMIs, Zenon
<1> DEFINE q == Unlink(partial[c], s)
<1>8. q \in Seq(Memory) /\ IsInjective(q) /\ Range(q) = Range(partial[c]) \ {s}
  <2>1. partial[c] \in Seq(Memory) /\ IsInjective(partial[c])
    BY <1>0, <1>2, ListOf, Zenon
  <2> QED BY <1>2, <2>1, UnlinkFacts, ZenonT(60)
<1>9. partial' = [partial EXCEPT ![c] = q]
  BY <1>1, Zenon
<1> HIDE DEF q
<1>10. Linked(partial') /\ Sets(partial') = [Sets(partial) EXCEPT ![c] = Range(q)]
  <2>1. Linked(partial) /\ c \in Class
    BY <1>0, <1>2, Zenon
  <2> QED BY <1>8, <1>9, <2>1, Relink, ZenonT(60)
<1>11. Sets(partial') = P1
  BY <1>2, <1>8, <1>10, Zenon DEF Without
<1>12. Core(pages', held', Sets(partial'), Sets(full'), free', used', live')
  BY <1>1, <1>6, <1>7, <1>11, ZenonT(30)
<1>13. Busy(Sets(partial'), Sets(full'), used')
  <2> SUFFICES ASSUME NEW d \in Class, Capacity(d) > 1, NEW x \in SlabOf(P1, Sets(full), d)
               PROVE  used'[x] > 0
    BY <1>1, <1>11, Zenon DEF Busy
  <2>1. x \in SlabOf(Sets(partial), Sets(full), d) /\ x # s
    BY <1>6, Zenon
  <2>2. used[x] > 0 /\ x \in Memory
    BY <1>0, <2>1, SlabHeld DEF Busy
  <2> QED BY <1>1, <1>2, <2>1, <2>2, Zenon
<1> QED BY <1>0, <1>1, <1>10, <1>12, <1>13, Zenon DEF Inv

\* dealloc of whole pages.
LEMMA DeallocPagesStep ==
  ASSUME Inv, NEW b \in live, DeallocPages(b)
  PROVE  Inv'
<1>0. Core(pages, held, Sets(partial), Sets(full), free, used, live)
  BY Zenon DEF Inv
<1> DEFINE k == Block(b.addr, Order(b))
<1>1. ~Small(b) /\ UNCHANGED <<partial, full, free, used>> /\ PMM!Free(k) /\ live' = live \ {b}
  BY Zenon DEF DeallocPages, slabs
<1>2. pages' = pages \cup PagesOf(k) /\ held' = held \ {k}
  BY <1>1, PMMIs, Zenon
<1>3. Core(pages \cup PagesOf(k), held \ {k}, Sets(partial), Sets(full), free, used, live \ {b})
  BY <1>0, <1>1, GiveBlock, Zenon
<1> QED BY <1>1, <1>2, <1>3, Zenon DEF Inv
-----------------------------------------------------------------------------
(***************************************************************************)
(* The theorems.                                                           *)
(***************************************************************************)
LEMMA InitInv == Init => Inv
<1> SUFFICES ASSUME Init PROVE Inv
  OBVIOUS
<1>1. /\ pages = Memory /\ held = {} /\ live = {}
      /\ free = [s \in Memory |-> {}] /\ used = [s \in Memory |-> 0]
      /\ partial = [c \in Class |-> <<>>] /\ full = [c \in Class |-> <<>>]
  BY Zenon DEF Init
<1>2. Linked(partial) /\ Linked(full)
  BY <1>1 DEF Linked, IsInjective
<1>3. Sets(partial) = [c \in Class |-> {}] /\ Sets(full) = [c \in Class |-> {}]
  <2>1. Range(<<>>) = {}
    BY DEF Range
  <2> QED BY <1>1, <2>1, Zenon DEF Sets
<1>4. \A c \in Class : SlabOf(Sets(partial), Sets(full), c) = {}
  BY <1>3, Zenon DEF SlabOf
<1>5. Types(pages, held, Sets(partial), Sets(full), free, used, live)
  BY <1>1, <1>3, FS_EmptySet, Zenon DEF Types
<1>6. Core(pages, held, Sets(partial), Sets(full), free, used, live)
  BY <1>1, <1>3, <1>4, <1>5, Zenon DEF Core, Owned, Covers, Apart, Counted, Placed, Unique
<1>7. Busy(Sets(partial), Sets(full), used)
  BY <1>4, Zenon DEF Busy
<1> QED BY <1>2, <1>6, <1>7, Zenon DEF Inv

\* Every call of alloc and dealloc keeps the invariant.
LEMMA StepInv == Inv /\ [Next]_vars => Inv'
<1> SUFFICES ASSUME Inv, [Next]_vars PROVE Inv'
  OBVIOUS
<1>1. ASSUME NEW l \in Layouts, AllocFromSlab(l) PROVE Inv'
  BY <1>1, AllocFromSlabStep
<1>2. ASSUME NEW l \in Layouts, AllocNewSlab(l) PROVE Inv'
  BY <1>2, AllocNewSlabStep
<1>3. ASSUME NEW l \in Layouts, AllocPages(l) PROVE Inv'
  BY <1>3, AllocPagesStep
<1>4. ASSUME NEW b \in live, DeallocFull(b) PROVE Inv'
  BY <1>4, DeallocFullStep
<1>5. ASSUME NEW b \in live, DeallocPartial(b) PROVE Inv'
  BY <1>5, DeallocPartialStep
<1>6. ASSUME NEW b \in live, DeallocLast(b) PROVE Inv'
  BY <1>6, DeallocLastStep
<1>7. ASSUME NEW b \in live, DeallocPages(b) PROVE Inv'
  BY <1>7, DeallocPagesStep
<1>8. CASE UNCHANGED vars
  BY <1>8, Zenon DEF vars, Inv
<1> QED BY <1>1, <1>2, <1>3, <1>4, <1>5, <1>6, <1>7, <1>8, Zenon DEF Next, Dealloc

\* So it always holds.
LEMMA AlwaysInv == Spec => []Inv
BY InitInv, StepInv, PTL DEF Spec

\* alloc hands out memory of which nothing is in use: allocations overlap
\* neither each other nor the header of a slab, and stay within their pages.
THEOREM NeverTwice == Spec => []LiveDisjoint
<1>1. ASSUME Inv PROVE LiveDisjoint
  <2>0. Core(pages, held, Sets(partial), Sets(full), free, used, live)
    BY <1>1, Zenon DEF Inv
  <2>1. ASSUME NEW a \in live, NEW b \in live, a # b
        PROVE  a.addr + a.size <= b.addr \/ b.addr + b.size <= a.addr
    BY <2>0, <2>1, CoreDisjoint, Zenon
  <2>2. ASSUME NEW b \in live, Small(b)
        PROVE  /\ Block(Page(b.addr), 0) \in held /\ b.addr >= Page(b.addr) + Header
               /\ b.addr + b.size <= Page(b.addr) + PageSize
    <3> DEFINE s == Page(b.addr)
               c == CacheOf(b)
    <3>1. /\ c \in Class /\ s \in Memory /\ Block(s, 0) \in held /\ b.size <= c
          /\ b.addr \in Objects(s, c) /\ b.size \in Nat /\ b.addr \in Nat
      BY <2>0, <2>2, LiveHeld, SMTT(30)
    <3>2. PageSize \in Nat /\ s \in Nat /\ c \in Nat /\ Header \in Nat
      BY <3>1, PageFacts, ClassFacts, Zenon
    <3> HIDE DEF s, c, PageSize
    <3>3. s + Header <= b.addr /\ b.addr + c <= s + PageSize
      BY <3>1, ObjectFacts, Zenon
    <3>4. b.addr >= s + Header /\ b.addr + b.size <= s + PageSize
      BY <3>1, <3>2, <3>3
    <3> QED BY <3>1, <3>4, Zenon DEF s
  <2>3. ASSUME NEW b \in live, ~Small(b)
        PROVE  Block(b.addr, Order(b)) \in held /\ b.size <= Bytes[Order(b)]
    BY <2>0, <2>3, LiveHeld
  <2> QED BY <2>1, <2>2, <2>3, Zenon DEF LiveDisjoint
<1> QED BY <1>1, AlwaysInv, PTL

\* alloc honours the alignment of the layout, up to a page.
THEOREM AlwaysAligned == Spec => []Aligned
<1>1. ASSUME Inv PROVE Aligned
  <2>0. Core(pages, held, Sets(partial), Sets(full), free, used, live)
    BY <1>1 DEF Inv
  <2> SUFFICES ASSUME NEW b \in live, b.align <= PageSize PROVE b.addr % b.align = 0
    BY Zenon DEF Aligned
  <2>1. /\ b.addr \in Nat /\ b.align \in Nat \ {0}
        /\ \A l \in Class \cup {PageSize} : b.align <= l => l % b.align = 0
    BY <2>0, LiveHeld
  <2>2. CASE Small(b)
    <3> DEFINE s == Page(b.addr)
               c == CacheOf(b)
    <3>1. c \in Class /\ s \in Memory /\ b.align <= c /\ b.addr \in Objects(s, c)
      BY <2>0, <2>2, LiveHeld, ZenonT(60)
    <3> HIDE DEF s, c, PageSize
    <3>2. c \in Nat \ {0} /\ b.addr % c = 0 /\ c % b.align = 0
      BY <2>1, <3>1, ObjectFacts, ClassFacts, Zenon
    <3> QED BY <2>1, <3>2, Transitive, Zenon
  <2>3. CASE ~Small(b)
    <3>1. b.addr % PageSize = 0 /\ PageSize \in Nat \ {0}
      <4>1. b.addr \in Memory
        BY <2>0, <2>3, LiveHeld, SMTT(30)
      <4> QED BY <4>1, ClassFacts, PageFacts, Zenon
    <3> HIDE DEF PageSize
    <3>2. PageSize % b.align = 0
      BY <2>1, Zenon
    <3> QED BY <2>1, <3>1, <3>2, Transitive, Zenon
  <2> QED BY <2>2, <2>3, Zenon
<1> QED BY <1>1, AlwaysInv, PTL

\* The lists and headers of the caches agree with what clients hold, after
\* every move of a slab between the lists.
THEOREM CachesConsistent == Spec => []SlabsConsistent
<1>1. ASSUME Inv PROVE SlabsConsistent
  <2>0. /\ Linked(partial) /\ Linked(full)
        /\ Core(pages, held, Sets(partial), Sets(full), free, used, live)
    BY <1>1, Zenon DEF Inv
  <2>1. Apart(Sets(partial), Sets(full)) /\ Counted(Sets(partial), Sets(full), free, used, live)
    BY <2>0, Zenon DEF Core
  <2>2. ASSUME NEW c \in Class
        PROVE  /\ Sets(partial)[c] = Range(partial[c]) /\ Sets(full)[c] = Range(full[c])
               /\ Slabs(c) = SlabOf(Sets(partial), Sets(full), c)
    <3>1. Sets(partial)[c] = Range(partial[c]) /\ Sets(full)[c] = Range(full[c])
      BY <2>0, ListOf, Zenon
    <3> QED BY <3>1, Zenon DEF Slabs, SlabOf
  <2>3. ASSUME NEW c \in Class PROVE IsInjective(partial[c] \o full[c])
    <3>1. Range(partial[c]) \cap Range(full[c]) = {}
      BY <2>1, <2>2, Zenon DEF Apart
    <3>2. /\ partial[c] \in Seq(Memory) /\ IsInjective(partial[c])
          /\ full[c] \in Seq(Memory) /\ IsInjective(full[c])
      BY <2>0, ListOf, Zenon
    <3> QED BY <3>1, <3>2, JoinFacts, Zenon
  <2>4. ASSUME NEW c \in Class, NEW d \in Class, c # d PROVE Slabs(c) \cap Slabs(d) = {}
    BY <2>1, <2>2, <2>4, Zenon DEF Apart
  <2>5. ASSUME NEW c \in Class, NEW s \in Slabs(c)
        PROVE  /\ s \in Range(full[c]) <=> used[s] = Capacity(c)
               /\ used[s] = Cardinality({b \in live : Page(b.addr) = s})
               /\ free[s] = Objects(s, c) \ {b.addr : b \in live}
    <3>1. s \in SlabOf(Sets(partial), Sets(full), c)
      BY <2>2, ZenonT(30)
    <3> QED BY <2>1, <2>2, <3>1, Zenon DEF Counted, Within
  <2> QED BY <2>3, <2>4, <2>5, Zenon DEF SlabsConsistent
<1> QED BY <1>1, AlwaysInv, PTL

\* The heap holds the pages of its slabs and of the large allocations, and no
\* other: dealloc gives every other page back.
THEOREM NeverLeaks == Spec => []NoPageLeaked
<1>1. ASSUME Inv PROVE NoPageLeaked
  <2>0. /\ Linked(partial) /\ Linked(full)
        /\ Covers(held, Sets(partial), Sets(full), live)
    BY <1>1, Zenon DEF Inv, Core
  <2>1. ASSUME NEW c \in Class PROVE Slabs(c) = SlabOf(Sets(partial), Sets(full), c)
    <3>1. Sets(partial)[c] = Range(partial[c]) /\ Sets(full)[c] = Range(full[c])
      BY <2>0, ListOf, Zenon
    <3> QED BY <3>1, Zenon DEF Slabs, SlabOf
  <2> DEFINE S == {Block(s, 0) : s \in UNION {Slabs(c) : c \in Class}}
  <2>2. S \subseteq held
    BY <2>0, <2>1, ZenonT(60) DEF Covers
  <2>3. LargeBlocks \subseteq held
    BY <2>0, Zenon DEF Covers, LargeBlocks
  <2>4. ASSUME NEW k \in held PROVE k \in S \cup LargeBlocks
    <3>1. CASE \E c \in Class : \E s \in SlabOf(Sets(partial), Sets(full), c) : k = Block(s, 0)
      BY <2>1, <3>1, Zenon
    <3>2. CASE \E b \in live : ~Small(b) /\ k = Block(b.addr, Order(b))
      BY <3>2, Zenon DEF LargeBlocks
    <3> QED BY <2>0, <3>1, <3>2, Zenon DEF Covers
  <2> QED BY <2>2, <2>3, <2>4 DEF NoPageLeaked
<1> QED BY <1>1, AlwaysInv, PTL

\* dealloc gives back the page of a slab without objects in use, where a slab
\* has room for more than one.
THEOREM NeverIdle == Spec => []NoIdleSlab
<1>1. ASSUME Inv PROVE NoIdleSlab
  <2>0. Linked(partial) /\ Linked(full) /\ Busy(Sets(partial), Sets(full), used)
    BY <1>1, Zenon DEF Inv
  <2> SUFFICES ASSUME NEW c \in Class, Capacity(c) > 1, NEW s \in Slabs(c) PROVE used[s] > 0
    BY Zenon DEF NoIdleSlab
  <2>1. Sets(partial)[c] = Range(partial[c]) /\ Sets(full)[c] = Range(full[c])
    BY <2>0, ListOf, Zenon
  <2>2. s \in SlabOf(Sets(partial), Sets(full), c)
    BY <2>1, Zenon DEF Slabs, SlabOf
  <2> QED BY <2>0, <2>2, Zenon DEF Busy
<1> QED BY <1>1, AlwaysInv, PTL
=============================================================================

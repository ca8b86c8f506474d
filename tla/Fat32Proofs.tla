----------------------------- MODULE Fat32Proofs -----------------------------
(***************************************************************************)
(* Proofs about Fat32, for drives, volumes, tables, files and buffers of   *)
(* any size.                                                               *)
(*                                                                         *)
(* The sectors read are those of the mounted volume (OnVolume), so that    *)
(* cluster_chain follows the table (Follows), and each round of the copy   *)
(* loop adds the bytes of one cluster behind those already there (Copying).*)
(* Each round over a directory has found the files of the places done, with*)
(* the chunks since the last entry that is not one (Scanning).             *)
(***************************************************************************)
EXTENDS Fat32, FiniteSetTheorems, NaturalsInduction, WellFoundedInduction, TLAPS

\* A set of numbers that is not empty has a least element.
LEMMA Least ==
  ASSUME NEW T, T \subseteq Nat, T # {}
  PROVE  \E n \in T : \A m \in T : n <= m
<1>1. OpToRel(<, Nat) = {ss \in Nat \X Nat : ss[1] < ss[2]}
  BY Zenon DEF OpToRel
<1>2. \E n \in T : \A m \in T : ~(<<m, n>> \in OpToRel(<, Nat))
  BY WFMin, NatLessThanWellFounded, Zenon
<1>3. PICK n \in T : \A m \in T : ~(<<m, n>> \in {ss \in Nat \X Nat : ss[1] < ss[2]})
  BY <1>1, <1>2, Zenon
<1>4. ASSUME NEW m \in T, m < n PROVE FALSE
  <2>1. <<m, n>> \in Nat \X Nat /\ <<m, n>>[1] = m /\ <<m, n>>[2] = n
    BY Zenon
  <2>2. <<m, n>> \in {ss \in Nat \X Nat : ss[1] < ss[2]}
    BY <1>4, <2>1, Zenon
  <2> QED
    BY <1>3, <2>2, Zenon
<1>5. ASSUME NEW m \in T PROVE n <= m
  BY <1>4
<1> QED
  BY <1>5, Zenon

LEMMA MinFacts ==
  ASSUME NEW T, T \subseteq Nat, T # {}
  PROVE  Min(T) \in T /\ \A m \in T : Min(T) <= m
BY Least, Zenon DEF Min

\* Division with remainder, and that its results are the only ones.
LEMMA Recompose ==
  ASSUME NEW a \in Nat, NEW b \in Nat, b # 0
  PROVE  a = (a \div b) * b + (a % b)
BY Z3

LEMMA Division ==
  ASSUME NEW a \in Nat, NEW b \in Nat, b # 0
  PROVE  /\ a \div b \in Nat /\ a % b \in 0..(b - 1)
         /\ a = (a \div b) * b + (a % b)
<1>1. a \div b \in Nat
  BY Z3
<1>2. a % b \in 0..(b - 1)
  BY Z3
<1> QED
  BY <1>1, <1>2, Recompose, Zenon

LEMMA Product ==
  ASSUME NEW x \in Nat, NEW y \in Nat, NEW b \in Nat
  PROVE  /\ x * b \in Nat /\ (x + 1) * b = x * b + b
         /\ x <= y => x * b <= y * b
         /\ x < y => x * b + b <= y * b
<1>1. x * b \in Nat /\ (x + 1) * b = x * b + b
  BY Z3
<1>2. ASSUME x <= y PROVE x * b <= y * b
  <2>1. y - x \in Nat /\ y * b = x * b + (y - x) * b /\ (y - x) * b >= 0
    BY <1>2, Z3
  <2> QED
    BY <2>1, <1>1, Z3
<1>3. ASSUME x < y PROVE x * b + b <= y * b
  <2>1. y - x - 1 \in Nat /\ y * b = x * b + b + (y - x - 1) * b /\ (y - x - 1) * b >= 0
    BY <1>3, Z3
  <2> QED
    BY <2>1, <1>1, Z3
<1> QED
  BY <1>1, <1>2, <1>3, Zenon

LEMMA DivUnique ==
  ASSUME NEW q \in Nat, NEW b \in Nat, b # 0, NEW r \in 0..(b - 1)
  PROVE  (q * b + r) \div b = q /\ (q * b + r) % b = r
<1> DEFINE a == q * b + r
           p == a \div b
<1>1. a \in Nat
  BY Product
<1>2. p \in Nat /\ a % b \in 0..(b - 1) /\ a = p * b + (a % b)
  BY <1>1, Division, Zenon
<1>3. CASE p < q
  <2>1. p * b + b <= q * b /\ p * b \in Nat /\ q * b \in Nat
    BY <1>2, <1>3, Product, Zenon
  <2> QED
    BY <1>2, <2>1
<1>4. CASE q < p
  <2>1. q * b + b <= p * b /\ p * b \in Nat /\ q * b \in Nat
    BY <1>2, <1>4, Product, Zenon
  <2> QED
    BY <1>2, <2>1
<1>5. CASE p = q
  <2>1. q * b \in Nat
    BY Product, Zenon
  <2> QED
    BY <1>2, <1>5, <2>1
<1> QED
  BY <1>2, <1>3, <1>4, <1>5
-----------------------------------------------------------------------------
(***************************************************************************)
(* Geometry: what the sectors and bytes read hold.                         *)
(***************************************************************************)
OnVolume ==
  LET lba == ctx.part_lba
      boot == disk.boots[lba]
  IN  /\ Sound(disk.boots) /\ lba \in Volumes
      /\ ctx.spc = boot.spc /\ ctx.fat_start = lba + boot.reserved
      /\ ctx.data_start = DataStart(lba, boot)

LEMMA VolumeFacts ==
  ASSUME Sound(disk.boots), NEW v \in Volumes
  PROVE  LET boot == disk.boots[v]
         IN  /\ v \in Nat /\ boot.reserved \in Nat
             /\ boot.spc \in Nat /\ boot.spc # 0
             /\ boot.num_fats \in Nat /\ boot.num_fats # 0
             /\ boot.fat_size_32 \in Nat /\ boot.fat_size_32 # 0
             /\ (MaxCluster + 1) * ENTRY <= boot.fat_size_32 * SECTOR
             /\ FatSectors(boot) \in Nat /\ boot.fat_size_32 <= FatSectors(boot)
             /\ (MaxCluster - 1) * boot.spc \in Nat
             /\ Sectors(boot) \in Nat
             /\ DOMAIN Layout(v) = 0..(Sectors(boot) - 1)
<1> DEFINE boot == disk.boots[v]
<1>1. /\ v \in Nat /\ boot.reserved \in Nat /\ boot.spc \in Nat /\ boot.spc # 0
      /\ boot.num_fats \in Nat /\ boot.num_fats # 0
      /\ boot.fat_size_32 \in Nat /\ boot.fat_size_32 # 0
      /\ (MaxCluster + 1) * ENTRY <= boot.fat_size_32 * SECTOR
  BY Zenon DEF Sound, Volumes, Accepted
<1>2. FatSectors(boot) \in Nat /\ boot.fat_size_32 <= FatSectors(boot)
  <2> DEFINE x == boot.num_fats
             y == boot.fat_size_32
  <2>1. x \in Nat /\ x # 0 /\ y \in Nat
    BY <1>1, Zenon
  <2> HIDE DEF x, y
  <2>2. 1 * y <= x * y /\ x * y \in Nat
    BY <2>1, Product
  <2> QED
    BY <2>1, <2>2 DEF x, y, FatSectors
<1>3. (MaxCluster - 1) * boot.spc \in Nat
  BY <1>1, Product, FatAssumption
<1>4. Sectors(boot) \in Nat
  BY <1>1, <1>2, <1>3 DEF Sectors
<1>5. DOMAIN Layout(v) = 0..(Sectors(boot) - 1)
  BY Zenon DEF Layout
<1> QED
  BY <1>1, <1>2, <1>3, <1>4, <1>5, Zenon

\* A sector of a volume belongs to no other.
LEMMA SectorAt ==
  ASSUME Sound(disk.boots), NEW v \in Volumes, NEW at \in 0..(Sectors(disk.boots[v]) - 1)
  PROVE  Sector(v + at) = Layout(v)[at]
<1> DEFINE lba == v + at
           of == {w \in Volumes : lba - w \in DOMAIN Layout(w)}
<1>1. v \in Nat /\ Sectors(disk.boots[v]) \in Nat /\ DOMAIN Layout(v) = 0..(Sectors(disk.boots[v]) - 1)
  BY VolumeFacts, Zenon
<1>2. lba - v = at /\ at \in Nat /\ lba \in Nat
  BY <1>1
<1>3. v \in of
  BY <1>1, <1>2, Zenon
<1>4. ASSUME NEW w \in of, w # v PROVE FALSE
  <2>1. /\ w \in Volumes /\ w \in Nat /\ Sectors(disk.boots[w]) \in Nat
        /\ lba - w \in 0..(Sectors(disk.boots[w]) - 1)
    BY VolumeFacts, Zenon
  <2>2. /\ v < w => v + Sectors(disk.boots[v]) <= w
        /\ w < v => w + Sectors(disk.boots[w]) <= v
    BY <2>1, Zenon DEF Sound, Volumes
  <2> QED
    BY <1>1, <1>2, <1>4, <2>1, <2>2
<1>5. of = {v}
  BY <1>3, <1>4, Zenon
<1>6. Max({v}) = v
  BY <1>1 DEF Max
<1>7. Sector(lba) = Layout(v)[lba - v]
  BY <1>5, <1>6, Zenon DEF Sector
<1> QED
  BY <1>2, <1>7, Zenon

LEMMA FatSector ==
  ASSUME Sound(disk.boots), NEW v \in Volumes, NEW q \in Nat, q < disk.boots[v].fat_size_32
  PROVE  LET s == Sector(v + disk.boots[v].reserved + q) IN s.kind = "fat" /\ s.k = q
<1> DEFINE boot == disk.boots[v]
           at == boot.reserved + q
           r == [vol |-> v, kind |-> "fat", n |-> 1 + (at - boot.reserved) \div boot.fat_size_32,
                 k |-> (at - boot.reserved) % boot.fat_size_32]
<1>1. /\ v \in Nat /\ boot.reserved \in Nat /\ boot.fat_size_32 \in Nat /\ boot.fat_size_32 # 0
      /\ FatSectors(boot) \in Nat /\ boot.fat_size_32 <= FatSectors(boot)
      /\ (MaxCluster - 1) * boot.spc \in Nat /\ Sectors(boot) \in Nat
  BY VolumeFacts, Zenon
<1>2. /\ at \in 0..(Sectors(boot) - 1) /\ ~(at < boot.reserved) /\ at < boot.reserved + FatSectors(boot)
      /\ at - boot.reserved = q
  BY <1>1 DEF Sectors
<1>3. Layout(v)[at] = r
  BY <1>2, Zenon DEF Layout
<1>4. 0 * boot.fat_size_32 + q = q /\ q \in 0..(boot.fat_size_32 - 1)
  BY <1>1
<1>5. q % boot.fat_size_32 = q
  <2> DEFINE f == boot.fat_size_32
  <2>1. f \in Nat /\ f # 0 /\ q \in 0..(f - 1) /\ 0 * f + q = q /\ 0 \in Nat
    BY <1>1, <1>4, Zenon
  <2> HIDE DEF f
  <2>2. (0 * f + q) % f = q
    BY <2>1, DivUnique, Zenon
  <2> QED
    BY <2>1, <2>2, Zenon DEF f
<1>6. Sector(v + at) = r
  BY <1>2, <1>3, SectorAt, Zenon
<1>7. v + at = v + boot.reserved + q
  BY <1>1
<1> QED
  BY <1>2, <1>5, <1>6, <1>7

LEMMA DataSector ==
  ASSUME Sound(disk.boots), NEW v \in Volumes, NEW n \in Clusters, NEW q \in Nat, q < disk.boots[v].spc
  PROVE  Sector(DataStart(v, disk.boots[v]) + (n - 2) * disk.boots[v].spc + q)
           = [vol |-> v, kind |-> "data", n |-> n, k |-> q]
<1> DEFINE boot == disk.boots[v]
           data_at == boot.reserved + FatSectors(boot)
           d == (n - 2) * boot.spc + q
           at == data_at + d
<1>0. n - 2 \in Nat /\ MaxCluster - 1 \in Nat /\ n - 2 < MaxCluster - 1 /\ n \in Nat
  BY FatAssumption DEF Clusters
<1>1. /\ v \in Nat /\ boot.reserved \in Nat /\ boot.spc \in Nat /\ boot.spc # 0
      /\ FatSectors(boot) \in Nat /\ (MaxCluster - 1) * boot.spc \in Nat /\ Sectors(boot) \in Nat
  BY VolumeFacts, Zenon
<1>2. (n - 2) * boot.spc \in Nat /\ (n - 2) * boot.spc + boot.spc <= (MaxCluster - 1) * boot.spc
  BY <1>0, <1>1, Product, Zenon
<1>3. d \div boot.spc = n - 2 /\ d % boot.spc = q
  <2>1. q \in 0..(boot.spc - 1)
    BY <1>1
  <2> QED
    BY <1>0, <1>1, <2>1, DivUnique, Zenon
<1> DEFINE M == (MaxCluster - 1) * boot.spc
           N == (n - 2) * boot.spc
<1>4. M \in Nat /\ N \in Nat /\ N + boot.spc <= M /\ Sectors(boot) = data_at + M /\ d = N + q
  BY <1>1, <1>2, Zenon DEF Sectors
<1>5. at - data_at = d /\ v + at = DataStart(v, boot) + N + q /\ data_at \in Nat /\ d \in Nat
  <2> HIDE DEF N, M
  <2>1. data_at \in Nat /\ d \in Nat
    BY <1>1, <1>4
  <2> QED
    BY <1>1, <1>4, <2>1 DEF DataStart, FatSectors
<1>6. at \in 0..(Sectors(boot) - 1) /\ ~(at < boot.reserved) /\ ~(at < data_at)
  <2> HIDE DEF N, M, d
  <2> QED
    BY <1>1, <1>4, <1>5
<1>7. Layout(v)[at] = [vol |-> v, kind |-> "data", n |-> 2 + (at - data_at) \div boot.spc,
                       k |-> (at - data_at) % boot.spc]
  <2> HIDE DEF d
  <2> QED
    BY <1>6, Zenon DEF Layout
<1>8. 2 + (n - 2) = n
  BY <1>0
<1>9. Sector(v + at) = Layout(v)[at]
  BY <1>6, SectorAt, Zenon
<1> HIDE DEF at, d
<1> QED
  BY <1>3, <1>5, <1>7, <1>8, <1>9, Zenon

\* next_cluster finds the entry of a cluster in the first copy of the table.
LEMMA NextFollows ==
  ASSUME OnVolume, NEW n \in Clusters
  PROVE  NextOf(n) = fat[n]
<1> DEFINE v == ctx.part_lba
           boot == disk.boots[v]
           byte_off == n * ENTRY
           q == byte_off \div SECTOR
<1>0. /\ n \in Nat /\ ENTRY \in Nat /\ ENTRY # 0 /\ SECTOR \in Nat /\ SECTOR # 0
      /\ MaxCluster + 1 \in Nat /\ n < MaxCluster + 1
  BY FatAssumption DEF Clusters
<1>1. /\ Sound(disk.boots) /\ v \in Volumes /\ v \in Nat /\ boot.reserved \in Nat
      /\ ctx.fat_start = v + boot.reserved
  BY VolumeFacts, Zenon DEF OnVolume
<1>2. /\ boot.fat_size_32 \in Nat
      /\ (MaxCluster + 1) * ENTRY <= boot.fat_size_32 * SECTOR
  BY <1>1, VolumeFacts, Zenon
<1>3. byte_off \in Nat /\ n * ENTRY + ENTRY <= (MaxCluster + 1) * ENTRY
  BY <1>0, Product, Zenon
<1>4. q \in Nat /\ byte_off % SECTOR \in 0..(SECTOR - 1) /\ byte_off = q * SECTOR + (byte_off % SECTOR)
  BY <1>0, <1>3, Division, Zenon
<1>5. q < boot.fat_size_32
  <2> DEFINE S == boot.fat_size_32 * SECTOR
             Q == q * SECTOR
             E == (MaxCluster + 1) * ENTRY
  <2>1. ASSUME boot.fat_size_32 <= q PROVE S <= Q
    BY <1>0, <1>2, <1>4, <2>1, Product, Zenon
  <2>2. S \in Nat /\ Q \in Nat /\ E \in Nat /\ E <= S
    BY <1>0, <1>2, <1>4, Product, Zenon
  <2>3. byte_off + ENTRY <= E /\ byte_off = Q + (byte_off % SECTOR)
    BY <1>3, <1>4, Zenon
  <2> HIDE DEF S, Q, E, byte_off, q
  <2> QED
    BY <1>0, <1>2, <1>3, <1>4, <2>1, <2>2, <2>3
<1>6. Sector(ctx.fat_start + q).kind = "fat" /\ Sector(ctx.fat_start + q).k = q
  BY <1>1, <1>4, <1>5, FatSector
<1>7. byte_off \div ENTRY = n
  <2>1. 0 \in 0..(ENTRY - 1) /\ n * ENTRY + 0 = byte_off
    BY <1>0, <1>3
  <2> QED
    BY <1>0, <2>1, DivUnique, Zenon
<1> HIDE DEF q, byte_off
<1>8. NextOf(n) = LET s == Sector(ctx.fat_start + q)
                      m == (s.k * SECTOR + (byte_off % SECTOR)) \div ENTRY
                  IN  IF s.kind = "fat" /\ m \in Clusters THEN fat[m] ELSE Free
  BY Zenon DEF NextOf, q, byte_off
<1> QED
  BY <1>4, <1>6, <1>7, <1>8, Zenon

LEMMA ClusterSize ==
  ASSUME OnVolume
  PROVE  cluster_bytes \in Nat /\ cluster_bytes # 0
<1>1. ctx.spc \in Nat /\ ctx.spc # 0
  BY VolumeFacts, Zenon DEF OnVolume
<1>2. SECTOR \in Nat /\ SECTOR # 0 /\ 1 <= ctx.spc
  BY <1>1, FatAssumption
<1>3. ctx.spc * SECTOR \in Nat /\ 1 * SECTOR <= ctx.spc * SECTOR
  BY <1>1, <1>2, Product, Zenon
<1> QED
  BY <1>2, <1>3 DEF cluster_bytes

\* read_cluster reads the cluster that is asked for.
LEMMA ClusterRead ==
  ASSUME OnVolume, NEW n \in Clusters, NEW p \in Nat, p < cluster_bytes
  PROVE  cluster_buf(n, p) = <<ctx.part_lba, "data", n, p>>
<1> DEFINE v == ctx.part_lba
           q == p \div SECTOR
           r == [vol |-> v, kind |-> "data", n |-> n, k |-> q]
<1>0. SECTOR \in Nat /\ SECTOR # 0
  BY FatAssumption, Zenon
<1>1. /\ Sound(disk.boots) /\ v \in Volumes /\ ctx.spc = disk.boots[v].spc /\ ctx.spc \in Nat
      /\ ctx.data_start = DataStart(v, disk.boots[v])
  BY VolumeFacts, Zenon DEF OnVolume
<1>2. q \in Nat /\ p % SECTOR \in 0..(SECTOR - 1) /\ p = q * SECTOR + (p % SECTOR)
  BY <1>0, Division, Zenon
<1>3. q < ctx.spc
  <2> DEFINE C == ctx.spc * SECTOR
             Q == q * SECTOR
  <2>1. ASSUME ctx.spc <= q PROVE C <= Q
    BY <1>0, <1>1, <1>2, <2>1, Product, Zenon
  <2>2. C \in Nat /\ Q \in Nat /\ p < C /\ p = Q + (p % SECTOR)
    BY <1>0, <1>1, <1>2, Product, Zenon DEF cluster_bytes
  <2> HIDE DEF C, Q, q
  <2> QED
    BY <1>0, <1>1, <1>2, <2>1, <2>2
<1>4. Sector(cluster_lba(n) + q) = r
  <2> HIDE DEF q
  <2> QED
    BY <1>1, <1>2, <1>3, DataSector, Zenon DEF cluster_lba
<1> HIDE DEF q
<1>5. cluster_buf(n, p) = <<r.vol, r.kind, r.n, r.k * SECTOR + (p % SECTOR)>>
  BY <1>4, Zenon DEF cluster_buf, q
<1> QED
  BY <1>2, <1>5, Zenon
-----------------------------------------------------------------------------
(***************************************************************************)
(* The inductive invariant.                                                *)
(***************************************************************************)
Before == {"mbr", "probe", "none", "idle"}
TypeOK ==
  /\ disk \in Disks /\ fat \in [Clusters -> Entries]
  /\ pc \in Before \cup {"chain", "copy", "cluster", "entry", "ok", "EIO"} /\ op \in {"read", "dir"}
  /\ first \in Clusters \cup {Free} /\ size \in Nat /\ offset \in Nat /\ len \in Nat
  /\ c \in Clusters \cup {Free} /\ chain \in Seq(Clusters) /\ i \in Nat

Mounted == pc \in {"mbr", "probe", "none"} \/ OnVolume

\* What the table has behind the clusters so far; there is no more of the file.
After == IF chain = <<>> THEN first ELSE fat[chain[Len(chain)]]
Complete == Len(chain) = Limit + 1 \/ After \notin Clusters

\* The call has bytes to deliver.
Asks == offset < size /\ 0 < len

Follows ==
  /\ \A j \in 1..Len(chain) : chain[j] = IF j = 1 THEN first ELSE fat[chain[j - 1]]
  /\ Len(chain) <= Limit + 1
  /\ pc \in Before => chain = <<>>
  /\ pc = "chain" => Len(chain) <= Limit /\ c = After
  /\ pc \in {"copy", "cluster", "entry"} => Complete
  /\ pc = "ok" /\ (op = "dir" \/ Asks) => Complete

\* The end of what is asked for, how many of its bytes lie in the first n
\* clusters, and the first m of them.
Wanted == IF offset + len <= size THEN offset + len ELSE size
Upto(end, at) == IF at > offset THEN (IF end <= at THEN end ELSE at) - offset ELSE 0
Bytes(m) == [k \in 0..(m - 1) |->
               <<ctx.part_lba, "data", chain[(offset + k) \div cluster_bytes + 1], (offset + k) % cluster_bytes>>]
Progress ==
  /\ Asks /\ i <= Len(chain)
  /\ done = Upto(Wanted, cluster_start) /\ buf = Bytes(done)

Nothing == done = 0 /\ buf = <<>>
Copying ==
  /\ pc \in Before \cup {"chain"} => i = 0 /\ Nothing
  /\ pc = "chain" /\ op = "read" => Asks
  /\ pc \in {"cluster", "entry"} => op = "dir"
  /\ pc = "copy" => op = "read" /\ Progress
  /\ pc = "ok" /\ op = "read" =>
       IF Asks THEN Progress /\ (i = Len(chain) \/ Wanted <= cluster_start) ELSE Nothing

Inv == TypeOK /\ Mounted /\ Follows /\ Copying

LEMMA InitInv == Init => Inv
<1> SUFFICES ASSUME Init PROVE Inv
  BY Zenon
<1>1. TypeOK
  BY DEF Init, TypeOK, Before
<1>2. Mounted /\ pc = "mbr" /\ chain = <<>> /\ i = 0 /\ Nothing
  BY Zenon DEF Init, Mounted, Nothing
<1>3. Follows
  BY <1>2, FatAssumption DEF Follows, Before
<1>4. Copying
  BY <1>2, ZenonT(30) DEF Copying, Before
<1> QED
  BY <1>1, <1>2, <1>3, <1>4, Zenon DEF Inv

LEMMA TypeStep ==
  ASSUME TypeOK, Mounted, [Next]_vars
  PROVE  TypeOK'
<1>0. UNCHANGED <<disk, fat>>
  BY Zenon DEF Next, ReadMbr, Probe, Read, ReadDir, ChainStep, CopyStep, NextCluster, Entry, IoError, Finished,
         vars, mounting, args
<1>1. ASSUME ReadMbr PROVE TypeOK'
  BY <1>0, <1>1, Zenon DEF ReadMbr, TypeOK, args, Before
<1>2. ASSUME Probe PROVE TypeOK'
  BY <1>0, <1>2, Zenon DEF Probe, TypeOK, args, Before
<1>3. ASSUME NEW f \in Clusters \cup {Free}, NEW s \in 0..MaxSize, NEW o \in 0..MaxSize, NEW l \in 0..MaxLen,
             Read(f, s, o, l)
      PROVE  TypeOK'
  BY <1>0, <1>3, FatAssumption DEF Read, TypeOK, Before
<1>4. ASSUME NEW f \in Clusters \cup {Free}, ReadDir(f) PROVE TypeOK'
  BY <1>0, <1>4, Zenon DEF ReadDir, TypeOK, Before
<1>5. ASSUME ChainStep PROVE TypeOK'
  <2>1. c' \in Clusters \cup {Free}
    BY <1>5, Zenon DEF ChainStep, TypeOK
  <2>2. chain' \in Seq(Clusters)
    <3>1. c \in Clusters \/ c < 2
      BY FatAssumption DEF TypeOK, Clusters, Free
    <3> QED
      BY <1>5, <3>1 DEF ChainStep, TypeOK
  <2>3. pc' \in {"copy", "cluster", "chain"}
    BY <1>5, Zenon DEF ChainStep, Use
  <2> QED
    BY <1>0, <1>5, <2>1, <2>2, <2>3, Zenon DEF ChainStep, TypeOK, args, Before
<1>6. ASSUME CopyStep PROVE TypeOK'
  <2>1. i' \in Nat /\ pc' \in {"copy", "ok"}
    BY <1>6 DEF CopyStep, TypeOK
  <2> QED
    BY <1>0, <1>6, <2>1, Zenon DEF CopyStep, TypeOK, args, Before
<1>7. ASSUME NextCluster PROVE TypeOK'
  BY <1>0, <1>7, Zenon DEF NextCluster, TypeOK, args, Before
<1>8. ASSUME Entry PROVE TypeOK'
  <2>1. i' \in Nat /\ pc' \in {"cluster", "entry", "ok"}
    BY <1>8 DEF Entry, TypeOK
  <2> QED
    BY <1>0, <1>8, <2>1, Zenon DEF Entry, TypeOK, args, Before
<1>9. ASSUME IoError PROVE TypeOK'
  BY <1>0, <1>9, Zenon DEF IoError, TypeOK, args, Before
<1>10. CASE UNCHANGED vars
  BY <1>0, <1>10, Zenon DEF vars, TypeOK, args
<1> HIDE DEF ReadMbr, Probe, Read, ReadDir, ChainStep, CopyStep, NextCluster, Entry, IoError, TypeOK
<1> QED
  BY <1>1, <1>2, <1>3, <1>4, <1>5, <1>6, <1>7, <1>8, <1>9, <1>10, ZenonT(30) DEF Next, Finished

\* The drive and what is mounted change only up to the mount.
LEMMA MountStep ==
  ASSUME TypeOK, Mounted, [Next]_vars
  PROVE  Mounted'
<1>0. UNCHANGED <<disk, fat>>
  BY Zenon DEF Next, ReadMbr, Probe, Read, ReadDir, ChainStep, CopyStep, NextCluster, Entry, IoError, Finished,
         vars, mounting, args
<1>1. ASSUME UNCHANGED ctx, pc \notin {"mbr", "probe", "none"} PROVE Mounted'
  BY <1>0, <1>1, Zenon DEF Mounted, OnVolume, Volumes
<1>2. CASE ReadMbr
  BY <1>2, Zenon DEF ReadMbr, Mounted
<1>3. CASE Probe
  <2> DEFINE lba == Head(todo)
             boot == Boot(lba)
  <2>1. CASE pc' \in {"none", "probe"}
    BY <2>1, Zenon DEF Mounted
  <2>2. CASE /\ Accepted(boot)
             /\ ctx' = [part_lba |-> lba, spc |-> boot.spc, fat_start |-> lba + boot.reserved,
                        data_start |-> DataStart(lba, boot), root_cluster |-> boot.root_cluster]
    <3>1. lba \in DOMAIN disk.boots /\ boot = disk.boots[lba]
      BY <2>2, Zenon DEF Boot, Accepted
    <3>2. lba \in Volumes
      BY <2>2, <3>1, Zenon DEF Volumes
    <3>3. Sound(disk.boots)
      BY DisksAssumption, Zenon DEF TypeOK
    <3>4. /\ ctx'.part_lba = lba /\ ctx'.spc = boot.spc /\ ctx'.fat_start = lba + boot.reserved
          /\ ctx'.data_start = DataStart(lba, boot)
      BY <2>2, Zenon
    <3> HIDE DEF boot, lba
    <3> QED
      BY <1>0, <3>1, <3>2, <3>3, <3>4, Zenon DEF Mounted, OnVolume, Volumes
  <2> QED
    BY <1>3, <2>1, <2>2, Zenon DEF Probe
<1>4. ASSUME Next, ~ReadMbr, ~Probe PROVE Mounted'
  <2>1. UNCHANGED ctx
    BY <1>4, Zenon DEF Next, Read, ReadDir, ChainStep, CopyStep, NextCluster, Entry, IoError, Finished, vars, mounting
  <2>2. pc \in {"mbr", "probe", "none"} => pc' = pc
    BY <1>4, Zenon DEF Next, Read, ReadDir, ChainStep, CopyStep, NextCluster, Entry, IoError, Finished, vars
  <2> QED
    BY <1>1, <2>1, <2>2, Zenon DEF Mounted
<1>5. CASE UNCHANGED vars
  <2>1. UNCHANGED <<ctx, pc>>
    BY <1>5, Zenon DEF vars, mounting
  <2> QED
    BY <1>1, <2>1, Zenon DEF Mounted
<1> QED
  BY <1>2, <1>3, <1>4, <1>5, Zenon

\* A round of cluster_chain's loop puts the cluster the table names next.
LEMMA ChainFollows ==
  ASSUME TypeOK, Mounted, Follows, ChainStep
  PROVE  Follows'
<1>0. /\ UNCHANGED <<fat, first, op, offset, size, len>> /\ pc = "chain"
      /\ Len(chain) <= Limit /\ c = After /\ chain \in Seq(Clusters) /\ Len(chain) \in Nat
      /\ Limit \in Nat
  BY FatAssumption DEF ChainStep, args, Follows, TypeOK
<1>1. OnVolume
  BY <1>0, Zenon DEF Mounted
<1>2. Use \in {"copy", "cluster"}
  BY Zenon DEF Use
<1>3. CASE c < 2
  <2>1. UNCHANGED chain /\ pc' = Use
    BY <1>3, Zenon DEF ChainStep
  <2>2. c \notin Clusters
    BY <1>3 DEF Clusters
  <2>3. After' = After
    BY <1>0, <2>1, Zenon DEF After
  <2>4. Complete'
    BY <1>0, <2>2, <2>3, Zenon DEF Complete
  <2> QED
    BY <1>0, <1>2, <2>1, <2>4, Zenon DEF Follows, Before
<1>4. CASE ~(c < 2)
  <2>1. c \in Clusters
    BY <1>4 DEF TypeOK, Free
  <2>2. NextOf(c) = fat[c]
    BY <1>1, <2>1, NextFollows, Zenon
  <2>3. chain' = Append(chain, c)
    BY <1>4, Zenon DEF ChainStep
  <2>4. /\ Len(chain') = Len(chain) + 1 /\ chain' # <<>> /\ chain'[Len(chain) + 1] = c
        /\ \A j \in 1..Len(chain) : chain'[j] = chain[j]
    BY <1>0, <2>1, <2>3
  <2>5. After' = fat[c]
    BY <1>0, <2>4, Zenon DEF After
  <2>6. ASSUME NEW j \in 1..Len(chain') PROVE chain'[j] = IF j = 1 THEN first ELSE fat[chain'[j - 1]]
    <3>1. CASE j \in 1..Len(chain)
      <4>1. j # 1 => j - 1 \in 1..Len(chain)
        BY <1>0, <3>1
      <4> QED
        BY <2>4, <3>1, <4>1, ZenonT(30) DEF Follows
    <3>2. CASE j = Len(chain) + 1
      <4>1. Len(chain) = 0 => chain = <<>>
        BY <1>0
      <4>2. Len(chain) # 0 => chain # <<>> /\ Len(chain) \in 1..Len(chain) /\ j # 1 /\ j - 1 = Len(chain)
        BY <1>0, <3>2
      <4>3. chain = <<>> => j = 1
        BY <3>2
      <4> QED
        BY <1>0, <2>4, <3>2, <4>1, <4>2, <4>3, Zenon DEF After
    <3> QED
      BY <1>0, <2>4, <3>1, <3>2
  <2>7. Len(chain') <= Limit + 1
    BY <1>0, <2>4
  <2>8. CASE fat[c] \in Clusters
    <3>1. c' = After' /\ pc' = IF TooLong(chain') THEN Use ELSE "chain"
      BY <1>4, <2>2, <2>5, <2>8, ZenonT(30) DEF ChainStep
    <3>2. CASE TooLong(chain')
      <4>1. Complete'
        BY <1>0, <2>7, <2>4, <3>2 DEF Complete, TooLong
      <4> QED
        BY <1>0, <1>2, <2>6, <2>7, <3>1, <3>2, <4>1, Zenon DEF Follows, Before
    <3>3. CASE ~TooLong(chain')
      <4>1. Len(chain') <= Limit
        BY <1>0, <2>4, <3>3 DEF TooLong
      <4> QED
        BY <1>0, <2>6, <2>7, <3>1, <3>3, <4>1, Zenon DEF Follows, Before
    <3> QED
      BY <3>2, <3>3, ZenonT(30)
  <2>9. CASE fat[c] \notin Clusters
    <3>1. pc' = Use
      BY <1>4, <2>2, <2>9, ZenonT(30) DEF ChainStep
    <3>2. Complete'
      BY <2>5, <2>9, ZenonT(30) DEF Complete, Clusters
    <3> QED
      BY <1>0, <1>2, <2>6, <2>7, <3>1, <3>2, Zenon DEF Follows, Before
  <2> QED
    BY <2>8, <2>9, Zenon
<1> QED
  BY <1>3, <1>4, Zenon

LEMMA FollowsStep ==
  ASSUME TypeOK, Mounted, Follows, Copying, [Next]_vars
  PROVE  Follows'
<1>0. UNCHANGED fat
  BY Zenon DEF Next, ReadMbr, Probe, Read, ReadDir, ChainStep, CopyStep, NextCluster, Entry, IoError, Finished, vars
<1>1. ASSUME UNCHANGED <<chain, first>>
      PROVE  /\ After' = After /\ Complete' = Complete
             /\ \A j \in 1..Len(chain') : chain'[j] = IF j = 1 THEN first' ELSE fat'[chain'[j - 1]]
             /\ Len(chain') <= Limit + 1
  BY <1>0, <1>1, Zenon DEF After, Complete, Follows, Clusters
<1>2. ASSUME UNCHANGED <<chain, first>>, pc \in Before, pc' \in Before PROVE Follows'
  BY <1>1, <1>2, Zenon DEF Follows, Before
<1>3. ASSUME UNCHANGED <<chain, first>>, pc \in {"copy", "cluster", "entry"},
             pc' \in {"copy", "cluster", "entry", "ok"}
      PROVE  Follows'
  BY <1>1, <1>3, Zenon DEF Follows, Before
<1>4. CASE ReadMbr
  BY <1>2, <1>4, Zenon DEF ReadMbr, args, Before
<1>5. CASE Probe
  <2>1. pc' \in Before /\ pc \in Before /\ UNCHANGED <<chain, first>>
    BY <1>5, Zenon DEF Probe, args, Before
  <2> QED
    BY <1>2, <2>1, Zenon
<1>6. ASSUME UNCHANGED chain, pc = "idle", c' = first',
             pc' = "chain" \/ (pc' = "ok" /\ op' = "read" /\ ~Asks')
      PROVE  Follows'
  <2>1. chain = <<>> /\ chain' = <<>> /\ Len(chain') = 0 /\ Limit \in Nat
    BY <1>6, FatAssumption, Zenon DEF Follows, Before
  <2>2. After' = first'
    BY <2>1, Zenon DEF After
  <2> QED
    BY <1>6, <2>1, <2>2 DEF Follows, Before
<1>7. ASSUME NEW f \in Clusters \cup {Free}, NEW s \in 0..MaxSize, NEW o \in 0..MaxSize, NEW l \in 0..MaxLen,
             Read(f, s, o, l)
      PROVE  Follows'
  BY <1>6, <1>7, FatAssumption DEF Read, Asks
<1>8. ASSUME NEW f \in Clusters \cup {Free}, ReadDir(f) PROVE Follows'
  BY <1>6, <1>8, Zenon DEF ReadDir
<1>9. CASE ChainStep
  BY <1>9, ChainFollows, Zenon
<1>10. CASE CopyStep
  BY <1>3, <1>10, Zenon DEF CopyStep, args
<1>11. CASE NextCluster
  BY <1>3, <1>11, Zenon DEF NextCluster, args
<1>12. CASE Entry
  <2>1. pc = "entry" /\ pc' \in {"cluster", "entry", "ok"} /\ UNCHANGED <<chain, first>>
    BY <1>12, Zenon DEF Entry, args
  <2> QED
    BY <1>3, <2>1, Zenon
<1>13. CASE IoError
  BY <1>1, <1>13, Zenon DEF IoError, args, Follows, Before
<1>14. CASE UNCHANGED vars
  <2>1. UNCHANGED <<chain, first, pc, c, op, offset, size, len>>
    BY <1>14, Zenon DEF vars, args
  <2> QED
    BY <1>1, <2>1, Zenon DEF Follows, Asks
<1> HIDE DEF ReadMbr, Probe, Read, ReadDir, ChainStep, CopyStep, NextCluster, Entry, IoError
<1> QED
  BY <1>4, <1>5, <1>7, <1>8, <1>9, <1>10, <1>11, <1>12, <1>13, <1>14, Zenon DEF Next, Finished

LEMMA WantedIs ==
  ASSUME TypeOK, Asks
  PROVE  /\ offset + to_read = Wanted /\ Wanted \in Nat /\ offset < Wanted
         /\ \A n \in Nat : Min({Wanted, n}) = IF Wanted <= n THEN Wanted ELSE n
<1>1. /\ size \in Nat /\ offset \in Nat /\ len \in Nat /\ offset < size /\ 0 < len
      /\ size - offset \in Nat
  BY DEF TypeOK, Asks
<1>2. /\ Min({len, size - offset}) \in {len, size - offset}
      /\ Min({len, size - offset}) <= len /\ Min({len, size - offset}) <= size - offset
  <2> DEFINE T == {len, size - offset}
  <2>1. T \subseteq Nat /\ T # {} /\ len \in T /\ size - offset \in T
    BY <1>1, Zenon
  <2> HIDE DEF T
  <2>2. Min(T) \in T /\ Min(T) <= len /\ Min(T) <= size - offset
    BY <2>1, MinFacts, Zenon
  <2> QED
    BY <2>2, Zenon DEF T
<1>3. Wanted \in Nat /\ offset < Wanted
  BY <1>1 DEF Wanted
<1>4. offset + to_read = Wanted
  BY <1>1, <1>2 DEF Wanted, to_read
<1>5. ASSUME NEW n \in Nat PROVE Min({Wanted, n}) = IF Wanted <= n THEN Wanted ELSE n
  <2> DEFINE T == {Wanted, n}
  <2>1. T \subseteq Nat /\ T # {} /\ Wanted \in T /\ n \in T
    BY <1>3, Zenon
  <2> HIDE DEF T
  <2>2. Min(T) \in T /\ Min(T) <= Wanted /\ Min(T) <= n
    BY <2>1, MinFacts, Zenon
  <2>3. Min(T) \in {Wanted, n}
    BY <2>2, Zenon DEF T
  <2>4. Min(T) = IF Wanted <= n THEN Wanted ELSE n
    BY <1>3, <2>2, <2>3
  <2> QED
    BY <2>4, Zenon DEF T
<1> QED
  BY <1>3, <1>4, <1>5, Zenon

\* What one cluster adds, and where it goes.
LEMMA OneCluster ==
  ASSUME TypeOK, Asks, NEW cb \in Nat, cb # 0, cluster_bytes = cb,
         NEW at \in Nat, cluster_start = at
  PROVE  /\ cluster_end = at + cb
         /\ Upto(Wanted, at) \in Nat /\ Upto(Wanted, at + cb) \in Nat
         /\ Upto(Wanted, at) <= Upto(Wanted, at + cb)
         /\ at + cb <= offset => Upto(Wanted, at) = 0 /\ Upto(Wanted, at + cb) = 0
         /\ Wanted <= at => Upto(Wanted, at) = Wanted - offset
         /\ at < Wanted /\ offset < at + cb =>
              /\ dst = Upto(Wanted, at)
              /\ in_end - in_start = Upto(Wanted, at + cb) - Upto(Wanted, at)
              /\ \A k \in Upto(Wanted, at)..(Upto(Wanted, at + cb) - 1) :
                   /\ k \in Nat
                   /\ offset + k >= at /\ offset + k < at + cb
                   /\ Source(k) = offset + k - at
<1>1. offset + to_read = Wanted /\ Wanted \in Nat /\ offset < Wanted /\ offset \in Nat
  BY WantedIs, Zenon DEF TypeOK
<1>2. cluster_end = at + cb
  BY Zenon DEF cluster_end
<1>3. Min({Wanted, at + cb}) = IF Wanted <= at + cb THEN Wanted ELSE at + cb
  BY WantedIs
<1>4. in_end = (IF Wanted <= at + cb THEN Wanted ELSE at + cb) - at
  BY <1>1, <1>2, <1>3, Zenon DEF in_end
<1>5. in_start = IF at < offset THEN offset - at ELSE 0
  BY Zenon DEF in_start
<1>6. dst = (at + in_start) - offset
  BY Zenon DEF dst
<1>7. ASSUME NEW k \in Nat PROVE Source(k) = in_start + (k - dst)
  BY Zenon DEF Source
<1> DEFINE u == Upto(Wanted, at)
           w == Upto(Wanted, at + cb)
<1>8. /\ u = IF at > offset THEN (IF Wanted <= at THEN Wanted ELSE at) - offset ELSE 0
      /\ w = IF at + cb > offset THEN (IF Wanted <= at + cb THEN Wanted ELSE at + cb) - offset ELSE 0
  BY Zenon DEF Upto
<1> HIDE DEF u, w
<1>9. u \in Nat /\ w \in Nat /\ u <= w
  BY <1>1, <1>8
<1>10. ASSUME at < Wanted, offset < at + cb
       PROVE  /\ dst = u /\ in_end - in_start = w - u
              /\ \A k \in u..(w - 1) : /\ k \in Nat /\ offset + k >= at /\ offset + k < at + cb
                                       /\ Source(k) = offset + k - at
  <2>1. dst = u /\ in_end - in_start = w - u
    BY <1>1, <1>4, <1>5, <1>6, <1>8, <1>10
  <2>2. ASSUME NEW k \in u..(w - 1)
        PROVE  k \in Nat /\ offset + k >= at /\ offset + k < at + cb
    BY <1>1, <1>8, <1>9, <1>10
  <2>3. ASSUME NEW k \in Nat PROVE Source(k) = offset + k - at
    BY <1>1, <1>5, <1>6, <1>7
  <2> QED
    BY <2>1, <2>2, <2>3, Zenon
<1>11. at + cb <= offset => u = 0 /\ w = 0
  BY <1>1, <1>8
<1>12. Wanted <= at => u = Wanted - offset
  BY <1>1, <1>8
<1> QED
  BY <1>2, <1>9, <1>10, <1>11, <1>12, Zenon DEF u, w

LEMMA Adjoin ==
  ASSUME NEW u \in Nat, NEW w \in Nat, u <= w
  PROVE  (0..(u - 1)) \cup (u..(w - 1)) = 0..(w - 1)
OBVIOUS

\* A round of the copy loop.
LEMMA CopyRound ==
  ASSUME TypeOK, OnVolume, Progress, CopyStep
  PROVE  /\ Progress'
         /\ pc' = "copy" \/ (pc' = "ok" /\ (i' = Len(chain') \/ Wanted' <= cluster_start'))
<1> DEFINE cb == cluster_bytes
           at == cluster_start
           u == Upto(Wanted, at)
           w == Upto(Wanted, at + cb)
<1>0. /\ UNCHANGED <<ctx, chain, offset, size, len>> /\ pc = "copy"
      /\ Asks /\ i <= Len(chain) /\ done = u /\ buf = Bytes(u)
      /\ i \in Nat /\ offset \in Nat /\ chain \in Seq(Clusters) /\ Len(chain) \in Nat
  BY DEF CopyStep, mounting, args, Progress, TypeOK
<1>1. cb \in Nat /\ cb # 0
  BY ClusterSize, Zenon
<1>2. /\ cluster_bytes' = cb /\ Wanted' = Wanted /\ Asks'
      /\ \A m : Bytes(m)' = Bytes(m)
      /\ \A p, q : Upto(p, q)' = Upto(p, q)
  BY <1>0, Zenon DEF cluster_bytes, Wanted, Asks, Bytes, Upto
<1>3. at \in Nat /\ (i + 1) * cb = at + cb
  BY <1>0, <1>1, Product, Zenon DEF cluster_start
<1>4. /\ cluster_end = at + cb /\ u \in Nat /\ w \in Nat /\ u <= w
      /\ at + cb <= offset => u = 0 /\ w = 0
      /\ at < Wanted /\ offset < at + cb =>
           /\ dst = u /\ in_end - in_start = w - u
           /\ \A k \in u..(w - 1) : /\ k \in Nat /\ offset + k >= at /\ offset + k < at + cb
                                    /\ Source(k) = offset + k - at
  BY <1>0, <1>1, <1>3, OneCluster, ZenonT(30)
<1>5. Wanted \in Nat /\ offset + to_read = Wanted
  BY <1>0, WantedIs, Zenon
<1>6. CASE i >= Len(chain) \/ (cluster_end > offset /\ cluster_start >= offset + to_read)
  <2>1. pc' = "ok" /\ UNCHANGED <<i, buf, done>>
    BY <1>6, Zenon DEF CopyStep
  <2>2. cluster_start' = at
    BY <1>2, <2>1, Zenon DEF cluster_start
  <2>3. Progress'
    BY <1>0, <1>2, <2>1, <2>2, Zenon DEF Progress
  <2>4. i = Len(chain) \/ Wanted <= at
    BY <1>0, <1>3, <1>5, <1>6
  <2> QED
    BY <1>0, <1>2, <2>1, <2>2, <2>3, <2>4, Zenon
<1>7. CASE ~(i >= Len(chain) \/ (cluster_end > offset /\ cluster_start >= offset + to_read))
  <2>1. /\ i' = i + 1 /\ pc' = "copy" /\ i < Len(chain)
        /\ cluster_end > offset => at < Wanted
    BY <1>0, <1>3, <1>5, <1>7 DEF CopyStep
  <2>2. cluster_start' = at + cb
    BY <1>2, <1>3, <2>1, Zenon DEF cluster_start
  <2>3. done' = w /\ buf' = Bytes(w)
    <3>1. CASE cluster_end <= offset
      <4>1. UNCHANGED <<buf, done>>
        BY <1>7, <3>1, Zenon DEF CopyStep
      <4> QED
        BY <1>0, <1>4, <3>1, <4>1, Zenon
    <3>2. CASE ~(cluster_end <= offset)
      <4> DEFINE copied == dst..(dst + (in_end - in_start) - 1)
                 at_k(k) == cluster_buf(chain[i + 1], Source(k))
      <4>1. /\ buf' = [k \in DOMAIN buf \cup copied |-> IF k \in copied THEN at_k(k) ELSE buf[k]]
            /\ done' = done + (in_end - in_start)
        BY <1>7, <3>2, Zenon DEF CopyStep
      <4>2. at < Wanted /\ offset < at + cb
        BY <1>0, <1>1, <1>3, <1>4, <2>1, <3>2
      <4>3. copied = u..(w - 1) /\ done' = w
        BY <1>0, <1>4, <4>1, <4>2
      <4>4. DOMAIN buf = 0..(u - 1)
        BY <1>0, Zenon DEF Bytes
      <4>5. DOMAIN buf \cup copied = 0..(w - 1)
        <5>1. u \in Nat /\ w \in Nat /\ u <= w
          BY <1>4, Zenon
        <5> HIDE DEF u, w, copied
        <5>2. (0..(u - 1)) \cup (u..(w - 1)) = 0..(w - 1)
          BY <5>1, Adjoin, Zenon
        <5> QED
          BY <4>3, <4>4, <5>2, Zenon
      <4>6. ASSUME NEW k \in u..(w - 1)
            PROVE  at_k(k) = <<ctx.part_lba, "data", chain[(offset + k) \div cb + 1], (offset + k) % cb>>
        <5> DEFINE r == offset + k - at
        <5>1. k \in Nat /\ r \in 0..(cb - 1) /\ Source(k) = r /\ at + r = offset + k
          BY <1>0, <1>1, <1>3, <1>4, <4>2
        <5>2. (offset + k) \div cb = i /\ (offset + k) % cb = r
          <6>1. i * cb + r = offset + k
            BY <5>1, Zenon DEF cluster_start
          <6> HIDE DEF r, cb
          <6> QED
            BY <1>0, <1>1, <5>1, <6>1, DivUnique
        <5>3. chain[i + 1] \in Clusters
          BY <1>0, <2>1
        <5>4. r \in Nat /\ r < cluster_bytes
          BY <1>1, <5>1
        <5> HIDE DEF r
        <5>5. cluster_buf(chain[i + 1], r) = <<ctx.part_lba, "data", chain[i + 1], r>>
          BY <5>3, <5>4, ClusterRead, Zenon
        <5> QED
          BY <5>1, <5>2, <5>5, Zenon
      <4>7. ASSUME NEW k \in 0..(w - 1), k \notin u..(w - 1) PROVE k \in 0..(u - 1)
        BY <1>4, <4>7
      <4>8. buf' = [k \in 0..(w - 1) |-> IF k \in u..(w - 1) THEN at_k(k) ELSE buf[k]]
        BY <4>1, <4>3, <4>5, Zenon
      <4>9. ASSUME NEW k \in 0..(u - 1)
            PROVE  buf[k] = <<ctx.part_lba, "data", chain[(offset + k) \div cb + 1], (offset + k) % cb>>
        <5> HIDE DEF u
        <5> QED
          BY <1>0, <4>9, Zenon DEF Bytes
      <4> HIDE DEF at_k, copied, u, w
      <4>10. buf' = [k \in 0..(w - 1) |->
                       <<ctx.part_lba, "data", chain[(offset + k) \div cb + 1], (offset + k) % cb>>]
        BY <4>6, <4>7, <4>8, <4>9, Zenon
      <4> QED
        BY <4>3, <4>10, Zenon DEF Bytes
    <3> QED
      BY <3>1, <3>2, Zenon
  <2> HIDE DEF w, u
  <2>4. i' <= Len(chain')
    BY <1>0, <2>1
  <2> QED
    BY <1>2, <2>1, <2>2, <2>3, <2>4, ZenonT(30) DEF Progress, w
<1> QED
  BY <1>6, <1>7, Zenon

LEMMA CopyingStep ==
  ASSUME TypeOK, Mounted, Copying, [Next]_vars
  PROVE  Copying'
<1>1. ASSUME UNCHANGED <<i, reading>>, pc \in Before, pc' \in Before PROVE Copying'
  BY <1>1, Zenon DEF Copying, Before, reading, Nothing
<1>2. CASE ReadMbr
  BY <1>1, <1>2, Zenon DEF ReadMbr, Before
<1>3. CASE Probe
  <2>1. pc' \in Before /\ pc \in Before /\ UNCHANGED <<i, reading>>
    BY <1>3, Zenon DEF Probe, Before
  <2> QED
    BY <1>1, <2>1, Zenon
<1>4. ASSUME UNCHANGED <<i, reading>>, pc = "idle",
             \/ pc' = "chain" /\ (op' = "read" => Asks')
             \/ pc' = "ok" /\ ~Asks'
      PROVE  Copying'
  <2>1. i' = 0 /\ Nothing'
    BY <1>4, Zenon DEF Copying, Before, reading, Nothing
  <2> QED
    BY <1>4, <2>1, Zenon DEF Copying, Before
<1>5. ASSUME NEW f \in Clusters \cup {Free}, NEW s \in 0..MaxSize, NEW o \in 0..MaxSize, NEW l \in 0..MaxLen,
             Read(f, s, o, l)
      PROVE  Copying'
  BY <1>4, <1>5, FatAssumption DEF Read, Asks
<1>6. ASSUME NEW f \in Clusters \cup {Free}, ReadDir(f) PROVE Copying'
  BY <1>4, <1>6, Zenon DEF ReadDir
<1>7. CASE ChainStep
  <2>1. /\ UNCHANGED <<i, buf, done, op, offset, size, len, ctx>> /\ pc = "chain"
        /\ pc' \in {"chain", Use} /\ Asks' = Asks
    BY <1>7, Zenon DEF ChainStep, args, reading, mounting, Asks
  <2>2. i = 0 /\ Nothing /\ (op = "read" => Asks)
    BY <2>1, Zenon DEF Copying, Before
  <2>3. CASE pc' = "chain"
    BY <2>1, <2>2, <2>3, Zenon DEF Copying, Before, Nothing
  <2>4. CASE pc' = Use /\ op = "read"
    <3>1. pc' = "copy" /\ Asks' /\ op' = "read"
      BY <2>1, <2>2, <2>4, Zenon DEF Use
    <3>2. chain' \in Seq(Clusters) /\ offset \in Nat /\ cluster_bytes \in Nat
      BY <2>1, TypeStep, ClusterSize, ZenonT(30) DEF TypeOK, Mounted
    <3>3. cluster_start' = 0
      <4>1. cluster_bytes' = cluster_bytes
        BY <2>1, Zenon DEF cluster_bytes
      <4>2. 0 * cluster_bytes = 0
        BY <3>2
      <4> QED
        BY <2>1, <2>2, <4>1, <4>2, Zenon DEF cluster_start
    <3>4. Upto(Wanted, cluster_start)' = 0
      BY <2>1, <3>2, <3>3 DEF Upto
    <3>5. done' = 0 /\ buf' = <<>> /\ i' <= Len(chain')
      BY <2>1, <2>2, <3>2 DEF Nothing
    <3>6. Bytes(0)' = <<>>
      BY DEF Bytes
    <3>7. Progress'
      BY <3>1, <3>4, <3>5, <3>6, Zenon DEF Progress
    <3> QED
      BY <3>1, <3>7, Zenon DEF Copying, Before
  <2>5. CASE pc' = Use /\ op # "read"
    <3>1. pc' = "cluster" /\ op' = "dir"
      BY <2>1, <2>5, Zenon DEF Use, TypeOK
    <3> QED
      BY <3>1, Zenon DEF Copying, Before
  <2> QED
    BY <2>1, <2>3, <2>4, <2>5, Zenon
<1>8. CASE CopyStep
  <2>1. OnVolume /\ Progress /\ op' = "read" /\ op = "read" /\ Asks
    BY <1>8, Zenon DEF CopyStep, Mounted, Copying, Progress, args
  <2>2. /\ Progress'
        /\ pc' = "copy" \/ (pc' = "ok" /\ (i' = Len(chain') \/ Wanted' <= cluster_start'))
    BY <1>8, <2>1, CopyRound, Zenon
  <2>3. Asks'
    BY <2>2, Zenon DEF Progress
  <2> QED
    BY <2>1, <2>2, <2>3, Zenon DEF Copying, Before
<1>9. ASSUME pc \in {"cluster", "entry"}, pc' \in {"cluster", "entry", "ok"}, op' = op PROVE Copying'
  BY <1>9, Zenon DEF Copying, Before
<1>10. CASE NextCluster
  BY <1>9, <1>10, Zenon DEF NextCluster, args
<1>11. CASE Entry
  <2>1. pc = "entry" /\ pc' \in {"cluster", "entry", "ok"} /\ op' = op
    BY <1>11, Zenon DEF Entry, args
  <2> QED
    BY <1>9, <2>1, Zenon
<1>12. CASE IoError
  BY <1>12, Zenon DEF IoError, Copying, Before
<1>13. CASE UNCHANGED vars
  <2>1. UNCHANGED <<pc, op, i, buf, done, chain, offset, size, len, ctx>>
    BY <1>13, Zenon DEF vars, args, reading, mounting
  <2>2. UNCHANGED <<Nothing, Asks, Wanted, cluster_start, cluster_bytes>>
    BY <2>1, Zenon DEF Nothing, Asks, Wanted, cluster_start, cluster_bytes
  <2>3. Progress' = Progress
    BY <2>1, <2>2, Zenon DEF Progress, Bytes, Upto
  <2> QED
    BY <2>1, <2>2, <2>3, Zenon DEF Copying
<1> HIDE DEF ReadMbr, Probe, Read, ReadDir, ChainStep, CopyStep, NextCluster, Entry, IoError
<1> QED
  BY <1>2, <1>3, <1>5, <1>6, <1>7, <1>8, <1>10, <1>11, <1>12, <1>13, Zenon DEF Next, Finished
-----------------------------------------------------------------------------
(***************************************************************************)
(* What the file is, by the table: the chain, once it is complete.         *)
(***************************************************************************)
Link(n, before) ==
  IF n = 0 THEN first
  ELSE IF before \in Clusters /\ fat[before] \in Clusters THEN fat[before] ELSE Free
IsNth(g) == g = [n \in 0..Limit |-> Link(n, g[n - 1])]

\* The chain, and nothing behind it.
Listed == [n \in 0..Limit |-> IF n < Len(chain) THEN chain[n + 1] ELSE Free]

LEMMA ListedIsNth ==
  ASSUME TypeOK, Follows, Complete
  PROVE  IsNth(Listed)
<1> DEFINE g == Listed
<1>0. /\ chain \in Seq(Clusters) /\ Len(chain) \in Nat /\ Limit \in Nat /\ Len(chain) <= Limit + 1
      /\ first \in Clusters \cup {Free} /\ Free \notin Clusters
      /\ \A j \in 1..Len(chain) : chain[j] \in Clusters
  BY FatAssumption DEF TypeOK, Follows, Clusters, Free
<1>1. \A j \in 1..Len(chain) : chain[j] = IF j = 1 THEN first ELSE fat[chain[j - 1]]
  BY Zenon DEF Follows
<1>2. ASSUME NEW n \in 0..Limit PROVE g[n] = IF n < Len(chain) THEN chain[n + 1] ELSE Free
  BY Zenon DEF Listed
<1>3. g = [n \in 0..Limit |-> g[n]]
  BY Zenon DEF Listed
<1> HIDE DEF g
<1>4. ASSUME NEW n \in 0..Limit PROVE g[n] = Link(n, g[n - 1])
  <2>1. CASE n = 0 /\ Len(chain) = 0
    <3>1. chain = <<>> /\ After = first
      BY <1>0, <2>1 DEF After
    <3>2. first = Free
      BY <1>0, <2>1, <3>1 DEF Complete
    <3> QED
      BY <1>0, <1>2, <2>1, <3>2 DEF Link
  <2>2. CASE n = 0 /\ Len(chain) # 0
    <3>1. chain[n + 1] = first
      BY <1>0, <1>1, <2>2
    <3> QED
      BY <1>0, <1>2, <2>2, <3>1 DEF Link
  <2>3. CASE n # 0 /\ n < Len(chain)
    <3>1. n - 1 \in 0..Limit /\ n - 1 < Len(chain) /\ n \in 1..Len(chain) /\ n + 1 \in 1..Len(chain)
      BY <1>0, <2>3
    <3>2. g[n - 1] = chain[n] /\ g[n] = chain[n + 1]
      BY <1>2, <2>3, <3>1
    <3>3. chain[n + 1] = fat[chain[n]] /\ chain[n] \in Clusters /\ chain[n + 1] \in Clusters
      BY <1>0, <1>1, <2>3, <3>1
    <3> QED
      BY <2>3, <3>2, <3>3, Zenon DEF Link
  <2>4. CASE n # 0 /\ n = Len(chain)
    <3>1. n - 1 \in 0..Limit /\ n - 1 < Len(chain) /\ n \in 1..Len(chain) /\ chain # <<>>
      BY <1>0, <2>4
    <3>2. g[n - 1] = chain[n] /\ g[n] = Free
      BY <1>2, <2>4, <3>1
    <3>3. fat[chain[n]] \notin Clusters
      BY <1>0, <2>4, <3>1 DEF Complete, After
    <3> QED
      BY <2>4, <3>2, <3>3, Zenon DEF Link
  <2>5. CASE n # 0 /\ n > Len(chain)
    <3>1. n - 1 \in 0..Limit /\ ~(n - 1 < Len(chain)) /\ ~(n < Len(chain))
      BY <1>0, <2>5
    <3>2. g[n - 1] = Free /\ g[n] = Free
      BY <1>2, <3>1, Zenon
    <3> QED
      BY <1>0, <2>5, <3>2, Zenon DEF Link
  <2> QED
    BY <1>0, <2>1, <2>2, <2>3, <2>4, <2>5
<1>5. IsNth(g)
  BY <1>3, <1>4, Zenon DEF IsNth
<1> QED
  BY <1>5, Zenon DEF g

LEMMA NthIsListed ==
  ASSUME TypeOK, Follows, Complete
  PROVE  Nth = Listed
<1>1. Nth = CHOOSE g : IsNth(g)
  BY Zenon DEF Nth, IsNth, Link
<1>2. IsNth(Nth) /\ IsNth(Listed)
  BY <1>1, ListedIsNth, Zenon
<1> DEFINE T == {n \in 0..Limit : Nth[n] # Listed[n]}
<1> HIDE DEF Nth, Listed
<1>3. Limit \in Nat
  BY FatAssumption, Zenon
<1>4. T = {}
  <2> SUFFICES ASSUME T # {} PROVE FALSE
    BY Zenon
  <2>0. T \subseteq Nat
    BY <1>3
  <2>1. PICK k \in T : \A m \in T : k <= m
    BY <2>0, Least, Zenon
  <2>2. Nth[k] = Link(k, Nth[k - 1]) /\ Listed[k] = Link(k, Listed[k - 1])
    BY <1>2, <2>1, Zenon DEF IsNth
  <2>3. CASE k = 0
    BY <2>1, <2>2, <2>3, Zenon DEF Link
  <2>4. CASE k # 0
    <3>1. k - 1 \in 0..Limit /\ k - 1 \notin T
      BY <1>3, <2>1, <2>4
    <3> QED
      BY <2>1, <2>2, <3>1, Zenon
  <2> QED
    BY <2>3, <2>4, Zenon
<1>5. Nth = [n \in 0..Limit |-> Nth[n]] /\ Listed = [n \in 0..Limit |-> Listed[n]]
  BY <1>2, Zenon DEF IsNth
<1> QED
  BY <1>4, <1>5, Zenon

LEMMA CountIsNat == Count \in Nat
<1> DEFINE T == {n \in 0..Limit : Nth[n] # Free}
<1>1. IsFiniteSet(0..Limit)
  BY FatAssumption, FS_Interval
<1>2. T \in SUBSET (0..Limit)
  BY Zenon
<1> HIDE DEF T
<1>3. Cardinality(T) \in Nat
  BY <1>1, <1>2, FS_Subset, FS_CardinalityType, Zenon
<1> QED
  BY <1>3, Zenon DEF Count, T

LEMMA CountIsLen ==
  ASSUME TypeOK, Follows, Complete
  PROVE  Count = Len(chain)
<1> DEFINE T == {n \in 0..Limit : Nth[n] # Free}
<1>0. /\ chain \in Seq(Clusters) /\ Len(chain) \in Nat /\ Limit \in Nat /\ Len(chain) <= Limit + 1
      /\ Free \notin Clusters
  BY FatAssumption DEF TypeOK, Follows, Clusters, Free
<1>1. T = {n \in 0..Limit : Listed[n] # Free}
  BY NthIsListed, Zenon
<1>2. T = 0..(Len(chain) - 1)
  <2>1. ASSUME NEW n \in 0..Limit PROVE Listed[n] # Free <=> n < Len(chain)
    <3>1. n < Len(chain) => chain[n + 1] \in Clusters
      BY <1>0
    <3> QED
      BY <1>0, <3>1, Zenon DEF Listed
  <2> HIDE DEF T
  <2> QED
    BY <1>0, <1>1, <2>1
<1>3. Cardinality(0..(Len(chain) - 1)) = Len(chain)
  <2> DEFINE m == Len(chain) - 1
  <2>1. m \in Int /\ (IF 0 > m THEN 0 ELSE m - 0 + 1) = Len(chain) /\ 0 \in Int
    BY <1>0
  <2> HIDE DEF m
  <2>2. Cardinality(0..m) = IF 0 > m THEN 0 ELSE m - 0 + 1
    BY <2>1, FS_Interval, Zenon
  <2> QED
    BY <2>1, <2>2 DEF m
<1> QED
  BY <1>2, <1>3, Zenon DEF Count

LEMMA ReadIsExact == Inv => ReadExact
<1> SUFFICES ASSUME Inv, pc = "ok", op = "read"
             PROVE  LET end == Min({offset + len, size, cluster_bytes * Count})
                        n == IF end > offset THEN end - offset ELSE 0
                    IN  /\ done = n
                        /\ buf = [k \in 0..(n - 1) |-> <<ctx.part_lba, "data",
                                    Nth[(offset + k) \div cluster_bytes], (offset + k) % cluster_bytes>>]
  BY Zenon DEF ReadExact
<1> DEFINE cb == cluster_bytes
           T == {offset + len, size, cb * Count}
           end == Min(T)
           n == IF end > offset THEN end - offset ELSE 0
           Exact == [k \in 0..(n - 1) |-> <<ctx.part_lba, "data", Nth[(offset + k) \div cb], (offset + k) % cb>>]
<1>0. /\ TypeOK /\ Follows /\ OnVolume /\ size \in Nat /\ offset \in Nat /\ len \in Nat /\ i \in Nat
      /\ chain \in Seq(Clusters) /\ Len(chain) \in Nat /\ cb \in Nat /\ cb # 0
  BY ClusterSize DEF Inv, TypeOK, Mounted
<1>1. cb * Count \in Nat /\ cb * Count = Count * cb
  BY <1>0, CountIsNat, Z3
<1> HIDE DEF cb
<1>2. end \in T /\ end <= offset + len /\ end <= size /\ end <= cb * Count /\ end \in Nat
  <2>1. T \subseteq Nat /\ T # {} /\ offset + len \in T /\ size \in T /\ cb * Count \in T
    BY <1>0, <1>1
  <2> HIDE DEF T
  <2> QED
    BY <2>1, MinFacts, Zenon
<1>3. CASE ~Asks
  <2>1. done = 0 /\ buf = <<>>
    BY <1>3, Zenon DEF Inv, Copying, Nothing
  <2> HIDE DEF end
  <2>2. n = 0
    BY <1>0, <1>2, <1>3 DEF Asks
  <2> HIDE DEF n
  <2>3. Exact = <<>>
    BY <2>2
  <2> QED
    BY <2>1, <2>2, <2>3, Zenon DEF n, end, cb
<1>4. CASE Asks
  <2>1. Progress /\ (i = Len(chain) \/ Wanted <= cluster_start) /\ Complete
    BY <1>4, ZenonT(30) DEF Inv, Copying, Follows
  <2>2. Count = Len(chain) /\ Nth = Listed
    BY <1>0, <2>1, CountIsLen, NthIsListed, ZenonT(30)
  <2> DEFINE at == i * cb
             all == Len(chain) * cb
  <2>3. at \in Nat /\ all \in Nat /\ at <= all /\ cluster_start = at /\ cb * Count = all
    BY <1>0, <1>1, <2>1, <2>2, Product, Zenon DEF Progress, cluster_start, cb
  <2>4. Wanted \in Nat /\ offset < Wanted /\ Wanted = IF offset + len <= size THEN offset + len ELSE size
    BY <1>0, <1>4, WantedIs, ZenonT(30) DEF Wanted
  <2>5. i = Len(chain) => at = all
    BY Zenon
  <2> HIDE DEF at, all
  <2>6. end = IF Wanted <= all THEN Wanted ELSE all
    <3>1. end \in {offset + len, size, all} /\ end <= all
      BY <1>2, <2>3, ZenonT(30)
    <3> HIDE DEF end
    <3> QED
      BY <1>0, <1>2, <2>3, <2>4, <3>1
  <2> HIDE DEF end
  <2>7. n = Upto(Wanted, at) /\ n \in Nat /\ (n # 0 => offset + n <= all)
    BY <1>0, <2>1, <2>3, <2>4, <2>5, <2>6 DEF Upto
  <2> HIDE DEF n
  <2>8. done = n /\ buf = Bytes(n)
    BY <2>1, <2>3, <2>7, Zenon DEF Progress
  <2>9. ASSUME NEW k \in 0..(n - 1)
        PROVE  Nth[(offset + k) \div cb] = chain[(offset + k) \div cb + 1]
    <3> DEFINE q == (offset + k) \div cb
    <3>1. k \in Nat /\ offset + k \in Nat /\ offset + k < all
      BY <1>0, <2>3, <2>7
    <3>2. q \in Nat /\ (offset + k) % cb \in 0..(cb - 1) /\ offset + k = q * cb + ((offset + k) % cb)
      BY <1>0, <3>1, Division, Zenon
    <3>3. Len(chain) <= q => all <= q * cb
      BY <1>0, <3>2, Product, Zenon DEF all
    <3>4. q * cb \in Nat
      BY <1>0, <3>2, Product, ZenonT(30)
    <3> HIDE DEF q
    <3>5. q < Len(chain)
      BY <1>0, <2>3, <3>1, <3>2, <3>3, <3>4
    <3>6. q \in 0..Limit
      BY <1>0, <3>2, <3>5, FatAssumption DEF Follows
    <3>7. Listed[q] = chain[q + 1]
      BY <3>5, <3>6, Zenon DEF Listed
    <3> QED
      BY <2>2, <3>7, Zenon DEF q
  <2>10. buf = Exact
    <3>1. buf = [k \in 0..(n - 1) |-> <<ctx.part_lba, "data", chain[(offset + k) \div cb + 1], (offset + k) % cb>>]
      BY <2>8, Zenon DEF Bytes, cb
    <3> QED
      BY <2>9, <3>1, Zenon
  <2> QED
    BY <2>8, <2>10, Zenon DEF n, end, cb
<1> QED
  BY <1>3, <1>4, Zenon
-----------------------------------------------------------------------------
(***************************************************************************)
(* Names: what has been found in the first p entries of a sequence F.      *)
(***************************************************************************)
\* The chunks directly before place p + 1.
Pieces(F, p, chunks) ==
  /\ chunks \in Seq(Chunks) /\ Len(chunks) <= p
  /\ \A j \in 1..Len(chunks) : chunks[j] = F[p - Len(chunks) + j]
  /\ Len(chunks) = p \/ F[p - Len(chunks)] \notin Chunks

Lists(F, p, found) ==
  /\ found = [j \in 1..Len(found) |-> found[j]] /\ Len(found) \in Nat
  /\ \A j \in 1..Len(found) : found[j].at \in 1..p /\ F[found[j].at] = "file"
  /\ \A n \in 1..p : F[n] = "file" => \E j \in 1..Len(found) : found[j].at = n
  /\ \A j, k \in 1..Len(found) : j < k => found[j].at < found[k].at
  /\ \A j \in 1..Len(found) : \E chunks : /\ Pieces(F, found[j].at - 1, chunks)
                                         /\ found[j].long = Reversed(chunks)

LEMMA PiecesNone ==
  ASSUME NEW F, NEW p \in Nat, p = 0 \/ F[p] \notin Chunks
  PROVE  Pieces(F, p, <<>>)
BY DEF Pieces

LEMMA PiecesMore ==
  ASSUME NEW F, NEW p \in Nat, NEW chunks, Pieces(F, p, chunks), F[p + 1] \in Chunks
  PROVE  Pieces(F, p + 1, Append(chunks, F[p + 1]))
<1> DEFINE more == Append(chunks, F[p + 1])
<1>1. chunks \in Seq(Chunks) /\ Len(chunks) \in Nat /\ Len(chunks) <= p
  BY DEF Pieces
<1>2. /\ more \in Seq(Chunks) /\ Len(more) = Len(chunks) + 1 /\ more[Len(chunks) + 1] = F[p + 1]
      /\ \A j \in 1..Len(chunks) : more[j] = chunks[j]
  BY <1>1
<1> HIDE DEF more
<1>3. p + 1 - Len(more) = p - Len(chunks) /\ p + 1 - Len(more) + (Len(chunks) + 1) = p + 1
  BY <1>1, <1>2
<1>4. ASSUME NEW j \in 1..Len(more) PROVE more[j] = F[p + 1 - Len(more) + j]
  <2>1. CASE j = Len(chunks) + 1
    BY <1>2, <1>3, <2>1, Zenon
  <2>2. CASE j \in 1..Len(chunks)
    <3>1. chunks[j] = F[p - Len(chunks) + j]
      BY <2>2, Zenon DEF Pieces
    <3> QED
      BY <1>2, <1>3, <2>2, <3>1, Zenon
  <2> QED
    BY <1>1, <1>2, <2>1, <2>2
<1>5. Len(more) <= p + 1
  BY <1>1, <1>2
<1>6. Len(more) = p + 1 \/ F[p + 1 - Len(more)] \notin Chunks
  <2>1. Len(chunks) = p \/ F[p - Len(chunks)] \notin Chunks
    BY Zenon DEF Pieces
  <2> QED
    BY <1>1, <1>2, <1>3, <2>1, ZenonT(30)
<1>7. Pieces(F, p + 1, more)
  BY <1>2, <1>4, <1>5, <1>6 DEF Pieces
<1> QED
  BY <1>7, Zenon DEF more

\* Sequences that agree on the first p entries have the same names in them.
LEMMA PiecesSame ==
  ASSUME NEW F, NEW G, NEW p \in Nat, \A n \in 1..p : G[n] = F[n], NEW chunks, Pieces(F, p, chunks)
  PROVE  Pieces(G, p, chunks)
<1>1. chunks \in Seq(Chunks) /\ Len(chunks) \in Nat /\ Len(chunks) <= p
  BY DEF Pieces
<1>2. \A j \in 1..Len(chunks) : p - Len(chunks) + j \in 1..p
  BY <1>1
<1>3. Len(chunks) # p => p - Len(chunks) \in 1..p
  BY <1>1
<1> QED
  BY <1>1, <1>2, <1>3, Zenon DEF Pieces

LEMMA ListsSame ==
  ASSUME NEW F, NEW G, NEW p \in Nat, \A n \in 1..p : G[n] = F[n], NEW found, Lists(F, p, found)
  PROVE  Lists(G, p, found)
<1>1. ASSUME NEW j \in 1..Len(found)
      PROVE  \E chunks : Pieces(G, found[j].at - 1, chunks) /\ found[j].long = Reversed(chunks)
  <2> DEFINE q == found[j].at - 1
  <2>1. found[j].at \in 1..p
    BY Zenon DEF Lists
  <2>2. q \in Nat /\ \A n \in 1..q : G[n] = F[n]
    BY <2>1
  <2>3. PICK chunks : Pieces(F, q, chunks) /\ found[j].long = Reversed(chunks)
    BY Zenon DEF Lists
  <2> HIDE DEF q
  <2>4. Pieces(G, q, chunks)
    BY <2>2, <2>3, PiecesSame, Zenon
  <2> QED
    BY <2>3, <2>4, Zenon DEF q
<1>2. /\ \A j \in 1..Len(found) : found[j].at \in 1..p /\ G[found[j].at] = "file"
      /\ \A n \in 1..p : G[n] = "file" => \E j \in 1..Len(found) : found[j].at = n
  BY Zenon DEF Lists
<1> QED
  BY <1>1, <1>2, Zenon DEF Lists

\* An entry that is not a file, and one that is.
LEMMA ListsSkip ==
  ASSUME NEW F, NEW p \in Nat, NEW found, Lists(F, p, found), F[p + 1] # "file"
  PROVE  Lists(F, p + 1, found)
<1>1. \A n \in 1..(p + 1) : n \in 1..p \/ n = p + 1
  OBVIOUS
<1>2. \A n \in 1..p : n \in 1..(p + 1)
  OBVIOUS
<1> QED
  BY <1>1, <1>2, Zenon DEF Lists

LEMMA ListsFile ==
  ASSUME NEW F, NEW p \in Nat, NEW found, Lists(F, p, found), F[p + 1] = "file",
         NEW chunks, Pieces(F, p, chunks)
  PROVE  Lists(F, p + 1, Append(found, [at |-> p + 1, long |-> Reversed(chunks)]))
<1> DEFINE x == [at |-> p + 1, long |-> Reversed(chunks)]
           more == Append(found, x)
           n == Len(found)
<1>1. n \in Nat /\ found = [j \in 1..n |-> found[j]]
  BY Zenon DEF Lists
<1>2. more = [j \in 1..(n + 1) |-> IF j = n + 1 THEN x ELSE found[j]]
  BY <1>1
<1>3. /\ Len(more) = n + 1 /\ more[n + 1] = x /\ more = [j \in 1..Len(more) |-> more[j]]
      /\ \A j \in 1..n : more[j] = found[j]
  BY <1>1, <1>2
<1>4. x.at = p + 1 /\ x.long = Reversed(chunks) /\ (p + 1) - 1 = p
  OBVIOUS
<1> HIDE DEF x, more
<1>5. \A j \in 1..Len(more) : j \in 1..n \/ j = n + 1
  BY <1>1, <1>3
<1>6. \A j \in 1..n : found[j].at \in 1..p /\ found[j].at \in 1..(p + 1) /\ found[j].at < p + 1
  BY DEF Lists
<1>7. \A j \in 1..Len(more) : more[j].at \in 1..(p + 1) /\ F[more[j].at] = "file"
  <2>1. p + 1 \in 1..(p + 1)
    OBVIOUS
  <2> QED
    BY <1>3, <1>4, <1>5, <1>6, <2>1 DEF Lists
<1>8. \A m \in 1..(p + 1) : F[m] = "file" => \E j \in 1..Len(more) : more[j].at = m
  <2>1. ASSUME NEW m \in 1..(p + 1), F[m] = "file" PROVE \E j \in 1..Len(more) : more[j].at = m
    <3>1. CASE m = p + 1
      BY <1>1, <1>3, <1>4, <3>1
    <3>2. CASE m \in 1..p
      <4>1. PICK j \in 1..n : found[j].at = m
        BY <2>1, <3>2, Zenon DEF Lists
      <4> QED
        BY <1>1, <1>3, <4>1
    <3> QED
      BY <3>1, <3>2
  <2> QED
    BY <2>1, Zenon
<1>9. \A j, k \in 1..Len(more) : j < k => more[j].at < more[k].at
  <2>1. ASSUME NEW j \in 1..Len(more), NEW k \in 1..Len(more), j < k PROVE more[j].at < more[k].at
    <3>1. j \in 1..n
      BY <1>1, <1>3, <2>1
    <3>2. CASE k = n + 1
      BY <1>3, <1>4, <1>6, <3>1, <3>2, Zenon
    <3>3. CASE k \in 1..n
      BY <1>3, <2>1, <3>1, <3>3, ZenonT(30) DEF Lists
    <3> QED
      BY <1>5, <3>2, <3>3, Zenon
  <2> QED
    BY <2>1, Zenon
<1>10. \A j \in 1..Len(more) : \E l : Pieces(F, more[j].at - 1, l) /\ more[j].long = Reversed(l)
  <2>1. ASSUME NEW j \in 1..n PROVE \E l : Pieces(F, more[j].at - 1, l) /\ more[j].long = Reversed(l)
    BY <1>3, <2>1 DEF Lists
  <2>2. Pieces(F, more[n + 1].at - 1, chunks) /\ more[n + 1].long = Reversed(chunks)
    BY <1>3, <1>4, ZenonT(30)
  <2> QED
    BY <1>5, <2>1, <2>2, Zenon
<1>11. Lists(F, p + 1, more)
  BY <1>1, <1>3, <1>7, <1>8, <1>9, <1>10 DEF Lists
<1> QED
  BY <1>11, Zenon DEF more, x

LEMMA Slice ==
  ASSUME NEW S, NEW q \in Seq(S), NEW m \in Nat, m # 0, NEW n \in Nat, m <= n + 1, n <= Len(q)
  PROVE  SubSeq(q, m, n) = [j \in 1..(n - m + 1) |-> q[m + j - 1]]
<1> DEFINE a == SubSeq(q, m, n)
<1>0. Len(q) \in Nat /\ \A k \in 1..Len(q) : q[k] \in S
  OBVIOUS
<1>1. \A k \in m..n : q[k] \in S
  BY <1>0
<1> HIDE DEF a
<1>2. /\ a \in Seq(S) /\ Len(a) = IF m <= n THEN n - m + 1 ELSE 0
      /\ \A k \in 1..(n - m + 1) : a[k] = q[m + k - 1]
  BY <1>0, <1>1 DEF a
<1>3. Len(a) = n - m + 1 /\ a = [j \in 1..Len(a) |-> a[j]]
  BY <1>2
<1> QED
  BY <1>2, <1>3, Zenon DEF a

\* The long name of a place is made of the chunks directly before it.
LEMMA NameIs ==
  ASSUME NEW S, Flat \in Seq(S), NEW n \in 1..Len(Flat), NEW chunks, Pieces(Flat, n - 1, chunks)
  PROVE  NameAt(n) = Reversed(chunks)
<1> DEFINE L == Len(chunks)
           s == n - L
           P(m) == /\ \A j \in m..(n - 1) : Flat[j] \in Chunks
                   /\ m = 1 \/ Flat[m - 1] \notin Chunks
<1>a. n \in Nat /\ n - 1 \in Nat /\ Len(Flat) \in Nat /\ n <= Len(Flat)
  OBVIOUS
<1>0. /\ chunks \in Seq(Chunks) /\ L \in Nat /\ L <= n - 1 /\ s \in 1..n /\ n - 1 \in Nat
      /\ chunks = [j \in 1..L |-> chunks[j]]
      /\ \A j \in 1..L : chunks[j] \in Chunks
  BY <1>a DEF Pieces
<1>1. \A j \in 1..L : chunks[j] = Flat[n - 1 - L + j]
  BY Zenon DEF Pieces
<1>2. L = n - 1 \/ Flat[n - 1 - L] \notin Chunks
  BY ZenonT(30) DEF Pieces
<1> HIDE DEF L
<1>b. /\ \A j \in s..(n - 1) : j - s + 1 \in 1..L /\ n - 1 - L + (j - s + 1) = j
      /\ (n - 1) - s + 1 = L /\ \A j \in 1..L : s + j - 1 = n - 1 - L + j
  <2>1. n \in Nat /\ L \in Nat /\ L <= n - 1
    BY <1>a, <1>0, Zenon
  <2>2. (n - 1) - (n - L) + 1 = L
    BY <2>1
  <2>3. \A j \in (n - L)..(n - 1) : j - (n - L) + 1 \in 1..L /\ n - 1 - L + (j - (n - L) + 1) = j
    BY <2>1
  <2>4. \A j \in 1..L : (n - L) + j - 1 = n - 1 - L + j
    BY <2>1
  <2> QED
    BY <2>2, <2>3, <2>4, Zenon
<1>3. ASSUME NEW j \in s..(n - 1) PROVE Flat[j] \in Chunks
  <2>1. j - s + 1 \in 1..L /\ n - 1 - L + (j - s + 1) = j
    BY <1>b, Zenon
  <2> QED
    BY <1>0, <1>1, <2>1, Zenon
<1>4. s = 1 \/ Flat[s - 1] \notin Chunks
  <2>1. s - 1 = n - 1 - L
    BY <1>a, <1>0
  <2> QED
    BY <1>0, <1>2, <2>1
<1>5. P(s)
  BY <1>3, <1>4, Zenon
<1>6. ASSUME NEW m \in 1..n, P(m) PROVE m = s
  <2>1. CASE m < s
    <3>1. s - 1 \in m..(n - 1) /\ s # 1
      BY <1>0, <2>1
    <3> QED
      BY <1>4, <1>6, <3>1, Zenon
  <2>2. CASE s < m
    <3>1. m - 1 \in s..(n - 1) /\ m # 1
      BY <1>0, <2>2
    <3> QED
      BY <1>3, <1>6, <3>1, Zenon
  <2> QED
    BY <1>0, <2>1, <2>2
<1>7. Start(n) = CHOOSE m \in 1..n : P(m)
  BY Zenon DEF Start
<1> HIDE DEF P
<1>8. Start(n) = s
  BY <1>0, <1>5, <1>6, <1>7, ZenonT(30)
<1>9. SubSeq(Flat, s, n - 1) = chunks
  <2>1. s \in Nat /\ s # 0 /\ s <= (n - 1) + 1 /\ n - 1 <= Len(Flat)
    BY <1>a, <1>0
  <2>3. \A j \in 1..L : chunks[j] = Flat[s + j - 1]
    BY <1>1, <1>b, Zenon
  <2> HIDE DEF s
  <2>4. SubSeq(Flat, s, n - 1) = [j \in 1..((n - 1) - s + 1) |-> Flat[s + j - 1]]
    BY <1>a, <2>1, Slice
  <2> QED
    BY <1>0, <1>b, <2>3, <2>4, Zenon
<1> QED
  BY <1>8, <1>9, Zenon DEF NameAt
-----------------------------------------------------------------------------
(***************************************************************************)
(* Scanning: the directory along the chain, and what was found in it.      *)
(***************************************************************************)
Place(n) == dir[chain[(n - 1) \div entry_count + 1]]
Scan == [n \in 1..(Len(chain) * entry_count) |->
           IF Place(n) = <<>> THEN "unread" ELSE Place(n)[((n - 1) % entry_count) + 1]]

\* The first p entries were scanned.
Found(p) ==
  /\ p \in 0..(Len(chain) * entry_count)
  /\ \A n \in 1..p : Scan[n] # "unread" /\ Scan[n] # "end"
  /\ Lists(Scan, p, entries)

\* There are no more, or the end marker is next.
Ends(p) == p = Len(chain) * entry_count \/ Scan[p + 1] = "end"

Raws == {<<>>} \cup [1..entry_count -> Kinds]
Scanning ==
  /\ dir \in [Clusters -> Raws]
  /\ pc \in {"mbr", "probe", "none"} => \A n \in Clusters : dir[n] = <<>>
  /\ pc \in Before \cup {"chain"} => i = 0 /\ e = 0 /\ lfn_chunks = <<>> /\ entries = <<>>
  /\ pc = "cluster" => i <= Len(chain) /\ e = 0
  /\ pc = "entry" => i < Len(chain) /\ e \in 0..(entry_count - 1) /\ dir[chain[i + 1]] # <<>>
  /\ pc \in {"cluster", "entry"} =>
       Found(i * entry_count + e) /\ Pieces(Scan, i * entry_count + e, lfn_chunks)
  /\ pc = "ok" /\ op = "dir" => \E p \in 0..(Len(chain) * entry_count) : Found(p) /\ Ends(p)

LEMMA EntryCount ==
  ASSUME OnVolume
  PROVE  entry_count \in Nat /\ entry_count # 0
<1>1. ctx.spc \in Nat /\ 1 <= ctx.spc
  BY VolumeFacts, SMTT(30) DEF OnVolume
<1>2. PerSector \in Nat /\ PerSector # 0
  BY FatAssumption, Zenon
<1>3. 1 * PerSector <= ctx.spc * PerSector /\ ctx.spc * PerSector \in Nat
  BY <1>1, <1>2, Product, Zenon
<1>4. PerSector * ctx.spc = ctx.spc * PerSector
  BY <1>1, <1>2, Z3
<1> QED
  BY <1>2, <1>3, <1>4 DEF entry_count

\* The place of entry e of the cluster with index i.
LEMMA ScanAt ==
  ASSUME TypeOK, OnVolume, NEW j \in Nat, j < Len(chain), NEW d \in 0..(entry_count - 1)
  PROVE  LET n == j * entry_count + d + 1
         IN  /\ n \in 1..(Len(chain) * entry_count) /\ n \in Nat
             /\ Place(n) = dir[chain[j + 1]]
             /\ Scan[n] = IF dir[chain[j + 1]] = <<>> THEN "unread" ELSE dir[chain[j + 1]][d + 1]
<1> DEFINE ec == entry_count
           at == j * ec
           n == at + d + 1
           all == Len(chain) * ec
<1>0. ec \in Nat /\ ec # 0 /\ d \in Nat /\ d < ec /\ Len(chain) \in Nat
  BY EntryCount DEF TypeOK
<1>1. at \in Nat /\ all \in Nat /\ at + ec <= all
  BY <1>0, Product, Zenon
<1>2. (at + d) \div ec = j /\ (at + d) % ec = d
  <2>1. d \in 0..(ec - 1)
    BY <1>0, Zenon
  <2> QED
    BY <1>0, <2>1, DivUnique, Zenon
<1> HIDE DEF at, all, ec
<1>3. n \in 1..all /\ n - 1 = at + d /\ n \in Nat
  BY <1>0, <1>1
<1> HIDE DEF n
<1>4. Place(n) = dir[chain[j + 1]]
  BY <1>2, <1>3, Zenon DEF Place, ec
<1>5. Scan[n] = IF Place(n) = <<>> THEN "unread" ELSE Place(n)[((n - 1) % ec) + 1]
  BY <1>3, Zenon DEF Scan, all, ec
<1>6. Scan[n] = IF dir[chain[j + 1]] = <<>> THEN "unread" ELSE dir[chain[j + 1]][d + 1]
  BY <1>2, <1>3, <1>4, <1>5, ZenonT(30)
<1> QED
  BY <1>3, <1>4, <1>6, ZenonT(30) DEF n, all, at, ec

\* A cluster that is read adds to what was scanned and changes none of it.
LEMMA ReadMore ==
  ASSUME TypeOK, OnVolume, Scanning, pc = "cluster", i < Len(chain), UNCHANGED <<ctx, chain, entries>>,
         dir[chain[i + 1]] = <<>>, NEW raw \in [1..entry_count -> Kinds], dir' = [dir EXCEPT ![chain[i + 1]] = raw],
         NEW p \in Nat, Found(p), NEW chunks, Pieces(Scan, p, chunks)
  PROVE  Found(p)' /\ Pieces(Scan', p, chunks) /\ dir' \in [Clusters -> Raws]' /\ dir'[chain[i + 1]] # <<>>
<1> DEFINE cl == chain[i + 1]
           ec == entry_count
           all == Len(chain) * ec
<1>0. ec \in Nat /\ ec # 0 /\ entry_count' = ec /\ cl \in Clusters /\ Len(chain) \in Nat
  BY EntryCount DEF TypeOK, entry_count
<1>1. dir \in [Clusters -> Raws] /\ p \in 0..all
  BY Zenon DEF Scanning, Found
<1>2. raw # <<>>
  BY <1>0
<1>3. dir' = [n \in Clusters |-> IF n = cl THEN raw ELSE dir[n]]
  BY <1>1, Zenon
<1>4. dir' \in [Clusters -> Raws]' /\ dir'[cl] # <<>>
  BY <1>0, <1>1, <1>2, <1>3, ZenonT(30) DEF Raws, Clusters, Kinds
<1>5. ASSUME NEW n \in 1..p PROVE Scan'[n] = Scan[n]
  <2> DEFINE cn == chain[(n - 1) \div ec + 1]
  <2>0. all \in Nat
    BY <1>0, Product, Zenon
  <2>1. n \in 1..all
    <3> HIDE DEF all
    <3> QED
      BY <1>1, <2>0
  <2>2. Scan[n] # "unread" /\ Scan[n] = IF Place(n) = <<>> THEN "unread" ELSE Place(n)[((n - 1) % ec) + 1]
    BY <2>1, Zenon DEF Found, Scan
  <2>3. Place(n) # <<>> /\ Place(n) = dir[cn]
    BY <2>2, Zenon DEF Place
  <2>4. cn \in Clusters
    <3> DEFINE q == (n - 1) \div ec
    <3>1. n - 1 \in Nat /\ n - 1 < all
      BY <2>0, <2>1
    <3>2. q \in Nat /\ (n - 1) % ec \in 0..(ec - 1) /\ n - 1 = q * ec + ((n - 1) % ec)
      BY <1>0, <3>1, Division, Zenon
    <3>3. (Len(chain) <= q => all <= q * ec) /\ q * ec \in Nat
      BY <1>0, <3>2, Product, Zenon
    <3> HIDE DEF q, all
    <3>4. q < Len(chain)
      BY <1>0, <2>0, <3>1, <3>2, <3>3
    <3> QED
      BY <1>0, <3>2, <3>4, SMTT(30) DEF q, TypeOK
  <2>5. cn # cl
    BY <2>3, ZenonT(30)
  <2>6. dir'[cn] = dir[cn]
    BY <1>3, <2>4, <2>5, ZenonT(30)
  <2>7. Place(n)' = Place(n)
    BY <1>0, <2>3, <2>6, Zenon DEF Place
  <2>8. Scan'[n] = IF Place(n)' = <<>> THEN "unread" ELSE Place(n)'[((n - 1) % ec) + 1]
    BY <1>0, <2>1, Zenon DEF Scan
  <2> QED
    BY <2>2, <2>7, <2>8, Zenon
<1>6. Lists(Scan', p, entries)
  <2>1. Lists(Scan, p, entries)
    BY Zenon DEF Found
  <2> QED
    BY <1>5, <2>1, ListsSame, Zenon
<1>7. Pieces(Scan', p, chunks)
  BY <1>5, PiecesSame, ZenonT(30)
<1>8. \A n \in 1..p : Scan'[n] # "unread" /\ Scan'[n] # "end"
  BY <1>5, Zenon DEF Found
<1>9. Found(p)'
  BY <1>0, <1>1, <1>6, <1>8, Zenon DEF Found
<1> QED
  BY <1>4, <1>7, <1>9, Zenon

LEMMA SameScan ==
  ASSUME UNCHANGED <<dir, ctx, chain>>
  PROVE  Scan' = Scan /\ entry_count' = entry_count /\ Raws' = Raws
BY Zenon DEF Scan, Place, entry_count, Raws, Kinds

LEMMA ClusterStep ==
  ASSUME TypeOK, OnVolume, Scanning, NextCluster
  PROVE  Scanning'
<1>0. /\ UNCHANGED <<ctx, chain, entries, lfn_chunks, i, e, op>> /\ pc = "cluster"
      /\ i \in Nat /\ i <= Len(chain) /\ e = 0 /\ Len(chain) \in Nat
      /\ dir \in [Clusters -> Raws]
  BY DEF NextCluster, mounting, args, Scanning, TypeOK
<1>1. entry_count \in Nat /\ entry_count # 0 /\ entry_count' = entry_count
  BY <1>0, EntryCount, Zenon DEF entry_count
<1>2. i * entry_count + e \in Nat /\ i * entry_count + e = i * entry_count
  BY <1>0, <1>1, Product
<1>3. Found(i * entry_count + e) /\ Pieces(Scan, i * entry_count + e, lfn_chunks)
  BY <1>0, Zenon DEF Scanning
<1>4. PICK p \in Nat : p = i * entry_count + e
  BY <1>2, Zenon
<1>5. Found(p) /\ Pieces(Scan, p, lfn_chunks)
  BY <1>3, <1>4, Zenon
<1>6. CASE i >= Len(chain)
  <2>1. pc' = "ok" /\ UNCHANGED dir
    BY <1>6, ZenonT(30) DEF NextCluster
  <2>2. Scan' = Scan /\ Raws' = Raws
    BY <1>0, <2>1, SameScan, Zenon
  <2>3. i = Len(chain)
    BY <1>0, <1>6
  <2>4. p = Len(chain) * entry_count
    BY <1>2, <1>4, <2>3, ZenonT(30)
  <2>5. Found(p)'
    BY <1>0, <1>1, <1>5, <2>2, Zenon DEF Found
  <2>6. Ends(p)'
    BY <1>0, <1>1, <2>4, ZenonT(30) DEF Ends
  <2>7. p \in 0..(Len(chain') * entry_count')
    BY <2>5, ZenonT(30) DEF Found
  <2> QED
    BY <1>0, <2>1, <2>2, <2>5, <2>6, <2>7, Zenon DEF Scanning, Before
<1>7. CASE ~(i >= Len(chain))
  <2>1. pc' = "entry" /\ i < Len(chain) /\ i' < Len(chain')
    BY <1>0, <1>7 DEF NextCluster
  <2>2. e' \in 0..(entry_count' - 1)
    BY <1>0, <1>1
  <2>3. Found(p)' /\ Pieces(Scan', p, lfn_chunks) /\ dir' \in [Clusters -> Raws]' /\ dir'[chain[i + 1]] # <<>>
    <3>1. CASE dir[chain[i + 1]] = <<>>
      <4>1. PICK raw \in [1..entry_count -> Kinds] : dir' = [dir EXCEPT ![chain[i + 1]] = raw]
        BY <1>7, <3>1, ZenonT(30) DEF NextCluster
      <4> QED
        BY <1>0, <1>5, <2>1, <3>1, <4>1, ReadMore, Zenon
    <3>2. CASE dir[chain[i + 1]] # <<>>
      <4>1. UNCHANGED dir
        BY <1>7, <3>2, Zenon DEF NextCluster
      <4>2. Scan' = Scan /\ Raws' = Raws
        BY <1>0, <4>1, SameScan, ZenonT(30)
      <4> QED
        BY <1>0, <1>1, <1>5, <3>2, <4>1, <4>2, ZenonT(30) DEF Found, Clusters
    <3> QED
      BY <3>1, <3>2, Zenon
  <2>4. (i * entry_count + e)' = p
    BY <1>0, <1>1, <1>4, ZenonT(30)
  <2>5. Found(i * entry_count + e)' /\ Pieces(Scan, i * entry_count + e, lfn_chunks)'
    BY <1>0, <2>3, <2>4, Zenon
  <2> QED
    BY <1>0, <2>1, <2>2, <2>3, <2>5, Zenon DEF Scanning, Before
<1> QED
  BY <1>6, <1>7, Zenon

\* The place of the entry that a round looks at, and the places done after it.
LEMMA EntryPlace ==
  ASSUME TypeOK, OnVolume, Scanning, pc = "entry"
  PROVE  LET p == i * entry_count + e
             kind == dir[chain[i + 1]][e + 1]
         IN  /\ p \in Nat /\ p + 1 \in 1..(Len(chain) * entry_count) /\ Found(p) /\ Pieces(Scan, p, lfn_chunks)
             /\ Scan[p + 1] = kind /\ kind \in Kinds /\ kind # "unread"
             /\ entry_count \in Nat /\ i < Len(chain) /\ e \in 0..(entry_count - 1)
             /\ (i + 1) * entry_count = i * entry_count + entry_count
<1> DEFINE p == i * entry_count + e
           cl == chain[i + 1]
           kind == dir[cl][e + 1]
<1>1. /\ i \in Nat /\ i < Len(chain) /\ e \in 0..(entry_count - 1) /\ dir[cl] # <<>>
      /\ Found(p) /\ Pieces(Scan, p, lfn_chunks) /\ dir \in [Clusters -> Raws]
  BY Zenon DEF Scanning, TypeOK
<1>2. entry_count \in Nat /\ entry_count # 0
  BY EntryCount, Zenon
<1>3. i * entry_count \in Nat /\ (i + 1) * entry_count = i * entry_count + entry_count
  BY <1>1, <1>2, Product, ZenonT(30)
<1>4. p \in Nat
  BY <1>1, <1>2, <1>3
<1>5. cl \in Clusters
  BY <1>1 DEF TypeOK
<1>6. dir[cl] \in [1..entry_count -> Kinds]
  BY <1>1, <1>5, Zenon DEF Raws
<1>7. e + 1 \in 1..entry_count
  BY <1>1, <1>2
<1>8. kind \in Kinds
  BY <1>6, <1>7, Zenon
<1>9. kind # "unread"
  BY <1>8, FatAssumption, Zenon DEF Kinds
<1>10. p + 1 \in 1..(Len(chain) * entry_count) /\ Scan[p + 1] = kind
  BY <1>1, ScanAt, Zenon
<1> QED
  BY <1>1, <1>2, <1>3, <1>4, <1>8, <1>9, <1>10, ZenonT(30)

LEMMA EntryFinds ==
  ASSUME TypeOK, OnVolume, Scanning, Entry, NEW p \in Nat, p = i * entry_count + e,
         NEW kind, kind = dir[chain[i + 1]][e + 1], kind # "end"
  PROVE  Lists(Scan, p + 1, entries') /\ Pieces(Scan, p + 1, lfn_chunks')
<1>0. pc = "entry"
  BY Zenon DEF Entry
<1>1. Found(p) /\ Pieces(Scan, p, lfn_chunks) /\ Scan[p + 1] = kind
  BY <1>0, EntryPlace, Zenon
<1>2. Lists(Scan, p, entries)
  BY <1>1, Zenon DEF Found
<1>3. \/ kind \in Chunks /\ lfn_chunks' = Append(lfn_chunks, kind) /\ UNCHANGED entries
      \/ kind \in {"deleted", "other"} /\ lfn_chunks' = <<>> /\ UNCHANGED entries
      \/ /\ kind = "file" /\ lfn_chunks' = <<>>
         /\ entries' = Append(entries, [at |-> p + 1, long |-> Reversed(lfn_chunks)])
  BY Zenon DEF Entry, Kept, LongName
<1>4. "file" \notin Chunks /\ "deleted" \notin Chunks /\ "other" \notin Chunks
  BY FatAssumption, Zenon
<1>5. CASE kind \in Chunks /\ lfn_chunks' = Append(lfn_chunks, kind) /\ UNCHANGED entries
  <2>1. Pieces(Scan, p + 1, lfn_chunks')
    BY <1>1, <1>5, PiecesMore, ZenonT(30)
  <2>2. Lists(Scan, p + 1, entries)
    BY <1>1, <1>2, <1>4, <1>5, ListsSkip, Zenon
  <2> QED
    BY <1>5, <2>1, <2>2, ZenonT(30)
<1>6. CASE kind \in {"deleted", "other"} /\ lfn_chunks' = <<>> /\ UNCHANGED entries
  <2>1. p + 1 \in Nat /\ Scan[p + 1] \notin Chunks /\ Scan[p + 1] # "file"
    BY <1>1, <1>4, <1>6
  <2>2. Pieces(Scan, p + 1, <<>>)
    BY <2>1, PiecesNone, Zenon
  <2>3. Lists(Scan, p + 1, entries)
    BY <1>2, <2>1, ListsSkip, Zenon
  <2> QED
    BY <1>6, <2>2, <2>3, ZenonT(30)
<1>7. CASE /\ kind = "file" /\ lfn_chunks' = <<>>
           /\ entries' = Append(entries, [at |-> p + 1, long |-> Reversed(lfn_chunks)])
  <2>1. p + 1 \in Nat /\ Scan[p + 1] \notin Chunks /\ Scan[p + 1] = "file"
    BY <1>1, <1>4, <1>7
  <2>2. Pieces(Scan, p + 1, <<>>)
    BY <2>1, PiecesNone, Zenon
  <2>3. Lists(Scan, p + 1, Append(entries, [at |-> p + 1, long |-> Reversed(lfn_chunks)]))
    BY <1>1, <1>2, <2>1, ListsFile, Zenon
  <2> QED
    BY <1>7, <2>2, <2>3, Zenon
<1> QED
  BY <1>3, <1>5, <1>6, <1>7, ZenonT(30)

LEMMA EntryStep ==
  ASSUME TypeOK, OnVolume, Scanning, Entry
  PROVE  Scanning'
<1>0. /\ UNCHANGED <<dir, ctx, chain, op>> /\ pc = "entry" /\ i \in Nat /\ Len(chain) \in Nat
      /\ dir \in [Clusters -> Raws] /\ dir[chain[i + 1]] # <<>>
  BY SMTT(30) DEF Entry, mounting, args, Scanning, TypeOK
<1>1. Scan' = Scan /\ entry_count' = entry_count /\ Raws' = Raws
  BY <1>0, SameScan, Zenon
<1>2. PICK p \in Nat : p = i * entry_count + e
  BY <1>0, EntryPlace, Zenon
<1>3. PICK kind \in Kinds : kind = dir[chain[i + 1]][e + 1]
  BY <1>0, EntryPlace, Zenon
<1>4. /\ p + 1 \in 1..(Len(chain) * entry_count) /\ Found(p) /\ Scan[p + 1] = kind /\ kind # "unread"
      /\ entry_count \in Nat /\ i < Len(chain) /\ e \in 0..(entry_count - 1)
      /\ (i + 1) * entry_count = i * entry_count + entry_count
  BY <1>0, <1>2, <1>3, EntryPlace, Zenon
<1>5. CASE kind = "end"
  <2>1. pc' = "ok" /\ UNCHANGED entries
    BY <1>3, <1>5, Zenon DEF Entry
  <2>2. Found(p)'
    BY <1>0, <1>1, <1>4, <2>1, ZenonT(30) DEF Found
  <2>3. Ends(p)'
    BY <1>0, <1>1, <1>4, <1>5, Zenon DEF Ends
  <2>4. p \in 0..(Len(chain') * entry_count')
    BY <2>2, Zenon DEF Found
  <2> QED
    BY <1>0, <1>1, <2>1, <2>2, <2>3, <2>4, Zenon DEF Scanning, Before
<1>6. CASE kind # "end"
  <2>1. Lists(Scan, p + 1, entries') /\ Pieces(Scan, p + 1, lfn_chunks')
    BY <1>2, <1>3, <1>6, EntryFinds, SMTT(30)
  <2>2. PICK q \in Nat : q = p + 1
    OBVIOUS
  <2>3. q \in 0..(Len(chain) * entry_count)
    BY <1>4, <2>2
  <2>4. \A n \in 1..q : Scan[n] # "unread" /\ Scan[n] # "end"
    <3>1. \A n \in 1..q : n \in 1..p \/ n = q
      BY <2>2
    <3> QED
      BY <1>4, <1>6, <2>2, <3>1, Zenon DEF Found
  <2>5. Found(q)'
    BY <1>0, <1>1, <2>1, <2>2, <2>3, <2>4, ZenonT(30) DEF Found
  <2>6. Pieces(Scan', q, lfn_chunks')
    BY <1>1, <2>1, <2>2, Zenon
  <2>7. CASE e + 1 = entry_count
    <3>1. i' = i + 1 /\ e' = 0 /\ pc' = "cluster"
      BY <1>3, <1>6, <2>7, Zenon DEF Entry
    <3>a. (i * entry_count + e)' = (i + 1) * entry_count + 0
      BY <1>1, <3>1, Zenon
    <3>b. i * entry_count \in Nat
      BY <1>0, <1>4, Product, ZenonT(30)
    <3>c. (i + 1) * entry_count + 0 = q
      BY <1>2, <1>4, <2>2, <2>7, <3>b
    <3>2. (i * entry_count + e)' = q
      BY <3>a, <3>c, Zenon
    <3>3. Found(i * entry_count + e)' /\ Pieces(Scan, i * entry_count + e, lfn_chunks)'
      BY <2>5, <2>6, <3>2, ZenonT(30)
    <3>4. i' <= Len(chain')
      BY <1>0, <1>4, <3>1
    <3> QED
      BY <1>0, <1>1, <3>1, <3>3, <3>4, ZenonT(30) DEF Scanning, Before
  <2>8. CASE e + 1 # entry_count
    <3>1. e' = e + 1 /\ UNCHANGED <<i, pc>>
      BY <1>3, <1>6, <2>8, Zenon DEF Entry
    <3>2. (i * entry_count + e)' = q
      BY <1>1, <1>2, <2>2, <3>1, <1>4, Product, <1>0
    <3>3. Found(i * entry_count + e)' /\ Pieces(Scan, i * entry_count + e, lfn_chunks)'
      BY <2>5, <2>6, <3>2, Zenon
    <3>4. i' < Len(chain') /\ e' \in 0..(entry_count' - 1) /\ dir'[chain'[i' + 1]] # <<>>
      BY <1>0, <1>1, <1>4, <2>8, <3>1
    <3> QED
      BY <1>0, <1>1, <3>1, <3>3, <3>4, ZenonT(30) DEF Scanning, Before
  <2> QED
    BY <2>7, <2>8, Zenon
<1> QED
  BY <1>5, <1>6, Zenon

\* The first place of a directory whose chain was just made.
LEMMA ChainScans ==
  ASSUME TypeOK, OnVolume, Scanning, ChainStep
  PROVE  Scanning'
<1>0. /\ pc = "chain" /\ pc' \in {"chain", Use} /\ Use \in {"copy", "cluster"}
      /\ UNCHANGED <<dir, ctx, i, e, lfn_chunks, entries>>
      /\ i = 0 /\ e = 0 /\ lfn_chunks = <<>> /\ entries = <<>> /\ dir \in [Clusters -> Raws]
  BY Zenon DEF ChainStep, Use, mounting, scanning, args, Scanning
<1>1. entry_count \in Nat /\ entry_count' = entry_count /\ Raws' = Raws
  BY <1>0, EntryCount, Zenon DEF entry_count, Raws
<1>2. Len(chain') \in Nat
  BY DEF ChainStep, TypeOK
<1>3. (i * entry_count + e)' = 0
  BY <1>0, <1>1
<1>4. 0 \in 0..(Len(chain') * entry_count')
  BY <1>1, <1>2, Product
<1>5. Pieces(Scan', 0, <<>>)
  BY PiecesNone, Zenon
<1>6. Lists(Scan', 0, <<>>)
  BY DEF Lists
<1>7. Found(0)'
  BY <1>0, <1>4, <1>6 DEF Found
<1>8. Found(i * entry_count + e)' /\ Pieces(Scan, i * entry_count + e, lfn_chunks)'
  BY <1>0, <1>3, <1>5, <1>7, Zenon
<1> QED
  BY <1>0, <1>1, <1>2, <1>8 DEF Scanning, Before

LEMMA ScanningStep ==
  ASSUME TypeOK, Mounted, Scanning, Copying, [Next]_vars
  PROVE  Scanning'
<1>0. dir \in [Clusters -> Raws]
  BY Zenon DEF Scanning
<1>1. ASSUME UNCHANGED scanning, UNCHANGED i, \A n \in Clusters : dir[n] = <<>>,
             pc \in Before, pc' \in Before
      PROVE  Scanning'
  <2>1. dir' \in [Clusters -> Raws']
    BY <1>0, <1>1, Zenon DEF scanning, Raws
  <2> QED
    BY <1>1, <2>1, Zenon DEF Scanning, scanning, Before, Clusters
<1>2. ASSUME UNCHANGED <<scanning, ctx, i>>, pc \in Before, pc # "none", pc' \in {"chain", "ok"},
             pc' = "ok" => op' = "read"
      PROVE  Scanning'
  BY <1>2, Zenon DEF Scanning, scanning, Before, Raws, entry_count, Clusters, Kinds
<1>3. ASSUME UNCHANGED <<scanning, ctx>>, pc' \in {"copy", "ok", "EIO"}, pc' = "ok" => op' = "read"
      PROVE  Scanning'
  BY <1>3, Zenon DEF Scanning, scanning, Before, Raws, entry_count, Clusters, Kinds
<1>4. CASE ReadMbr
  BY <1>1, <1>4, Zenon DEF ReadMbr, Scanning, Before
<1>5. CASE Probe
  <2>1. pc = "probe" /\ pc' \in Before /\ UNCHANGED scanning /\ UNCHANGED i
    BY <1>5, Zenon DEF Probe, Before
  <2> QED
    BY <1>1, <2>1, ZenonT(30) DEF Scanning, Before
<1>6. ASSUME NEW f \in Clusters \cup {Free}, NEW s \in 0..MaxSize, NEW o \in 0..MaxSize, NEW l \in 0..MaxLen,
             Read(f, s, o, l)
      PROVE  Scanning'
  BY <1>2, <1>6, Zenon DEF Read, mounting, Before
<1>7. ASSUME NEW f \in Clusters \cup {Free}, ReadDir(f) PROVE Scanning'
  BY <1>2, <1>7, ZenonT(30) DEF ReadDir, mounting, Before
<1>8. CASE ChainStep
  BY <1>8, ChainScans, Zenon DEF Mounted, ChainStep
<1>9. CASE CopyStep
  BY <1>3, <1>9, Zenon DEF CopyStep, Copying, mounting, args
<1>10. CASE NextCluster
  BY <1>10, ClusterStep, ZenonT(30) DEF Mounted, NextCluster
<1>11. CASE Entry
  BY <1>11, EntryStep, Zenon DEF Mounted, Entry
<1>12. CASE IoError
  BY <1>3, <1>12, Zenon DEF IoError, mounting
<1>13. CASE UNCHANGED vars
  <2>1. UNCHANGED <<pc, op, i, e, lfn_chunks, entries, dir, ctx, chain>>
    BY <1>13, Zenon DEF vars, args, mounting, scanning
  <2>2. Scan' = Scan /\ entry_count' = entry_count /\ Raws' = Raws
    BY <2>1, SameScan, Zenon
  <2>3. \A p : (Found(p)' <=> Found(p)) /\ (Ends(p)' <=> Ends(p))
    BY <2>1, <2>2, ZenonT(30) DEF Found, Ends
  <2> QED
    BY <2>1, <2>2, <2>3, ZenonT(30) DEF Scanning, Before, Clusters
<1> QED
  BY <1>4, <1>5, <1>6, <1>7, <1>8, <1>9, <1>10, <1>11, <1>12, <1>13, Zenon DEF Next, Finished

\* The index of the cluster that a place lies in.
LEMMA ClusterOf ==
  ASSUME NEW l \in Nat, NEW b \in Nat, b # 0, NEW n \in 1..(l * b)
  PROVE  (n - 1) \div b \in 0..(l - 1)
<1> DEFINE q == (n - 1) \div b
           all == l * b
<1>0. all \in Nat
  BY Product, Zenon
<1>1. n - 1 \in Nat /\ n - 1 < all
  BY <1>0
<1>2. q \in Nat /\ (n - 1) % b \in 0..(b - 1) /\ n - 1 = q * b + ((n - 1) % b)
  BY <1>1, Division, Zenon
<1>3. (l <= q => all <= q * b) /\ q * b \in Nat
  BY <1>2, Product, ZenonT(30)
<1> HIDE DEF q, all
<1>4. q < l
  BY <1>0, <1>1, <1>2, <1>3
<1> QED
  BY <1>2, <1>4 DEF q

\* The directory that the properties speak of is the one that is scanned.
LEMMA FlatIsScan ==
  ASSUME TypeOK, OnVolume, Follows, Complete
  PROVE  Flat = Scan
<1> DEFINE ec == entry_count
           all == Len(chain) * ec
           F(n) == LET raw == dir[Nth[(n - 1) \div ec]]
                   IN  IF raw = <<>> THEN "unread" ELSE raw[((n - 1) % ec) + 1]
           G(n) == IF Place(n) = <<>> THEN "unread" ELSE Place(n)[((n - 1) % ec) + 1]
<1>0. /\ ec \in Nat /\ ec # 0 /\ Len(chain) \in Nat /\ Len(chain) <= Limit + 1 /\ Limit \in Nat
      /\ Count = Len(chain) /\ Nth = Listed
  BY EntryCount, CountIsLen, NthIsListed, FatAssumption, SMTT(30) DEF TypeOK, Follows
<1>1. ASSUME NEW n \in 1..all PROVE F(n) = G(n)
  <2> DEFINE q == (n - 1) \div ec
  <2>1. q \in 0..(Len(chain) - 1)
    BY <1>0, ClusterOf, Zenon
  <2> HIDE DEF q
  <2>2. Nth[q] = chain[q + 1]
    BY <1>0, <2>1 DEF Listed
  <2>3. dir[Nth[q]] = Place(n)
    BY <2>2, Zenon DEF Place, q
  <2> QED
    BY <2>3, Zenon DEF q
<1>2. Flat = [n \in 1..all |-> F(n)]
  BY <1>0, Zenon DEF Flat
<1>3. Scan = [n \in 1..all |-> G(n)]
  BY ZenonT(30) DEF Scan
<1> HIDE DEF F, G, all
<1> QED
  BY <1>1, <1>2, <1>3, ZenonT(30)

LEMMA NamesAreRight == Inv /\ Scanning => NamesRight
<1> SUFFICES ASSUME Inv, Scanning, pc = "ok", op = "dir"
             PROVE  /\ \A n \in Live : Flat[n] # "unread"
                    /\ {entries[j].at : j \in DOMAIN entries} = {n \in Live : Flat[n] = "file"}
                    /\ \A j, k \in DOMAIN entries : j < k => entries[j].at < entries[k].at
                    /\ \A j \in DOMAIN entries : entries[j].long = NameAt(entries[j].at)
  BY Zenon DEF NamesRight
<1>0. TypeOK /\ OnVolume /\ Follows /\ Complete /\ Len(chain) \in Nat
  BY DEF Inv, Mounted, Follows, TypeOK
<1>1. Flat = Scan /\ entry_count \in Nat
  BY <1>0, FlatIsScan, EntryCount, Zenon
<1>2. PICK p \in 0..(Len(chain) * entry_count) : Found(p) /\ Ends(p)
  BY Zenon DEF Scanning
<1>3. PICK all \in Nat : all = Len(chain) * entry_count
  BY <1>0, <1>1, Product, Zenon
<1>4. PICK found : found = entries
  BY Zenon
<1>5. p \in Nat /\ p <= all
  BY <1>2, <1>3
<1>6. DOMAIN Flat = 1..all
  BY <1>1, <1>3, Zenon DEF Scan
<1>7. /\ \A n \in 1..p : Flat[n] # "unread" /\ Flat[n] # "end"
      /\ Lists(Flat, p, found) /\ (p = all \/ Flat[p + 1] = "end")
  BY <1>1, <1>2, <1>3, <1>4, Zenon DEF Found, Ends
<1>8. Live = 1..p
  <2>1. \A n \in 1..p : n \in 1..all /\ \A m \in 1..n : m \in 1..p
    BY <1>5
  <2>2. \A n \in 1..all : n \notin 1..p => p # all /\ p + 1 \in 1..n
    BY <1>5
  <2> QED
    BY <1>6, <1>7, <2>1, <2>2, Zenon DEF Live
<1>9. found = [j \in 1..Len(found) |-> found[j]]
  BY <1>7, Zenon DEF Lists
<1>10. DOMAIN found = 1..Len(found)
  BY <1>9, Zenon
<1>11. {found[j].at : j \in 1..Len(found)} = {n \in 1..p : Flat[n] = "file"}
  BY <1>7 DEF Lists
<1>12. \A j, k \in 1..Len(found) : j < k => found[j].at < found[k].at
  BY <1>7, Zenon DEF Lists
<1>13. ASSUME NEW j \in 1..Len(found) PROVE found[j].long = NameAt(found[j].at)
  <2>1. PICK n \in 1..p : n = found[j].at
    BY <1>7, Zenon DEF Lists
  <2>2. PICK chunks : Pieces(Flat, n - 1, chunks) /\ found[j].long = Reversed(chunks)
    BY <1>7, <2>1, ZenonT(30) DEF Lists
  <2> DEFINE S == {Flat[m] : m \in 1..all}
  <2>3. Flat = [m \in 1..all |-> Flat[m]]
    BY <1>1, <1>3, Zenon DEF Scan
  <2>4. Flat \in Seq(S) /\ Len(Flat) = all
    BY <2>3
  <2>5. n \in 1..Len(Flat)
    BY <1>5, <2>4
  <2> HIDE DEF S
  <2>6. NameAt(n) = Reversed(chunks)
    BY <2>2, <2>4, <2>5, NameIs, ZenonT(30)
  <2> QED
    BY <2>1, <2>2, <2>6, Zenon
<1> QED
  BY <1>4, <1>7, <1>8, <1>10, <1>11, <1>12, <1>13, Zenon
-----------------------------------------------------------------------------
LEMMA InvStep == Inv /\ [Next]_vars => Inv'
BY TypeStep, MountStep, FollowsStep, CopyingStep, Zenon DEF Inv

LEMMA AlwaysInv == Spec => []Inv
BY InitInv, InvStep, PTL DEF Spec

LEMMA InitScanning == Init => Scanning
BY ZenonT(30) DEF Init, Scanning, Raws, Before

LEMMA AlwaysScanning == Spec => []Scanning
<1>1. Inv /\ Scanning /\ [Next]_vars => Scanning'
  BY ScanningStep, Zenon DEF Inv
<1> QED
  BY <1>1, InitScanning, AlwaysInv, PTL DEF Spec

\* A read of a file that succeeds has copied exactly the bytes that the table
\* of the mounted volume gives to it, each to its place: Fat32FileInode::read
\* with cluster_chain, next_cluster and read_cluster, on any sound drive, for
\* any table of entries that are clusters of the volume, free or end marks,
\* cycles included, and any size, offset and buffer.
THEOREM AlwaysReadExact == Spec => []ReadExact
BY AlwaysInv, ReadIsExact, PTL

\* The chain of a file or directory never grows past the limit by more than
\* the cluster that meets it, whatever cycles the table has: cluster_chain.
THEOREM AlwaysChainBounded == Spec => []ChainBounded
<1>1. Inv => ChainBounded
  BY Zenon DEF Inv, Follows, ChainBounded
<1> QED
  BY <1>1, AlwaysInv, PTL

\* A directory that was read is read up to its end and yields each of its files
\* once and in order, each with the long name that lies directly before it,
\* never with chunks that a deleted file or a label left, across clusters too:
\* read_dir_entries with lfn_chunks, for directories and clusters of any size.
THEOREM AlwaysNamesRight == Spec => []NamesRight
BY AlwaysInv, AlwaysScanning, NamesAreRight, PTL
=============================================================================

-------------------------------- MODULE Fat32 --------------------------------
(***************************************************************************)
(* Mounting a FAT32 volume and reading its files and directories: mbr::read*)
(* (src/fs/mbr.rs), probe_drive, probe, cluster_chain, the read of         *)
(* Fat32FileInode and read_dir_entries, which lookup and readdir call      *)
(* (src/fs/fat32.rs), on drives with and without a partition table and over*)
(* every file allocation table of a small volume, with cycles and with     *)
(* chains too short for the size of the file.                              *)
(*                                                                         *)
(* A byte of the drive is the start of its volume, its cluster and its     *)
(* place in that. Entries below 2 are one value, 0; those from 0x0FFFFFF8  *)
(* on are Eoc. What a directory holds is chosen when a cluster of it is    *)
(* first read. A long name is the sequence of its chunks.                  *)
(*                                                                         *)
(* An entry is a cluster of the volume, free or Eoc. One that names a      *)
(* cluster beyond the last, up to the mark of a bad one, 0x0FFFFFF7, is    *)
(* left out: next_cluster takes it for a cluster and follows it to sectors *)
(* past the volume and its table.                                          *)
(***************************************************************************)
EXTENDS Integers, Sequences, FiniteSetsExt

CONSTANTS
  Disks,         \* the drives: [signed, table, boots], see Boot below
  SECTOR,        \* bytes of a sector, 512
  ENTRY,         \* bytes of an entry of the allocation table, 4
  MaxCluster,    \* clusters are 2..MaxCluster
  Limit,         \* the 1_000_000 of cluster_chain
  MaxSize,       \* largest file_size of the entry
  MaxLen,        \* largest buffer
  PerSector,     \* directory entries of a sector
  Chunks         \* pieces of long names

ASSUME FatAssumption ==
  /\ SECTOR \in Nat \ {0} /\ ENTRY \in Nat \ {0} /\ SECTOR % ENTRY = 0
  /\ MaxCluster \in Nat \ {0, 1}
  /\ Limit \in Nat \ {0} /\ MaxSize \in Nat /\ MaxLen \in Nat
  /\ PerSector \in Nat \ {0}
  /\ Chunks \cap {"end", "deleted", "other", "file", "unread"} = {}

Clusters == 2..MaxCluster
Eoc == MaxCluster + 1
Free == 0
Entries == Clusters \cup {Free, Eoc}

\* What a 32-byte entry is to read_dir_entries: the end marker, one that is
\* skipped (deleted, a volume label, a dot), a piece of a long name, a file.
Kinds == {"end", "deleted", "other", "file"} \cup Chunks

NoVolume == [part_lba |-> 0, spc |-> 0, fat_start |-> 0, data_start |-> 0, root_cluster |-> 0]

VARIABLES
  disk,        \* the drive
  todo,        \* probe_drive: the sectors still to probe
  ctx,         \* the Fat32Ctx of the mounted volume
  fat,         \* the file allocation table
  dir,         \* the directory entries of each cluster that was read for them
  pc,          \* where the operation is
  op,          \* which one: "read" or "dir"
  first,       \* first_cluster of the file or directory
  size,        \* file_size of the file
  offset,      \* arguments of read: the offset
  len,         \*   and the length of the buffer
  c,           \* cluster_chain: the cluster at hand
  chain,       \*   and the clusters so far
  i,           \* the index of the cluster to copy from or to scan
  buf,         \* read: the bytes copied into the buffer, by place
  done,        \*   and the number of bytes copied
  e,           \* read_dir_entries: entries of the cluster that are done,
  lfn_chunks,  \*   chunks seen since the last entry that is not one,
  entries      \*   and the files found: place and long name

mounting == <<disk, todo, ctx>>
args == <<op, first, size, offset, len>>
reading == <<buf, done>>
scanning == <<dir, e, lfn_chunks, entries>>
vars == <<mounting, fat, pc, args, c, chain, i, reading, scanning>>

Init ==
  /\ disk \in Disks /\ todo = <<>> /\ ctx = NoVolume
  /\ fat \in [Clusters -> Entries] /\ dir = [n \in Clusters |-> <<>>]
  /\ pc = "mbr" /\ op = "read" /\ first = Free /\ size = 0 /\ offset = 0 /\ len = 0
  /\ c = Free /\ chain = <<>> /\ i = 0
  /\ buf = <<>> /\ done = 0
  /\ e = 0 /\ lfn_chunks = <<>> /\ entries = <<>>
-----------------------------------------------------------------------------
\* What probe reads at a sector; one without a boot sector has no signature.
Boot(lba) ==
  IF lba \in DOMAIN disk.boots THEN disk.boots[lba]
  ELSE [signed |-> FALSE, bps |-> 0, spc |-> 0, reserved |-> 0, num_fats |-> 0,
        fat_size_16 |-> 0, fat_size_32 |-> 0, root_cluster |-> 0, fs_type |-> "none"]

Accepted(boot) ==
  /\ boot.signed /\ boot.bps = SECTOR
  /\ boot.fat_size_16 = 0 /\ boot.fat_size_32 # 0 /\ boot.spc # 0
  /\ boot.fs_type = "FAT32"

\* The sectors of a volume as the format lays them out: the reserved ones, the
\* copies of the table, the clusters from 2 on.
FatSectors(boot) == boot.num_fats * boot.fat_size_32
Sectors(boot) == boot.reserved + FatSectors(boot) + (MaxCluster - 1) * boot.spc
Layout(lba) ==
  LET boot == disk.boots[lba]
      data_at == boot.reserved + FatSectors(boot)
      region(kind, at, length, n0) ==
        [vol |-> lba, kind |-> kind, n |-> n0 + at \div length, k |-> at % length]
  IN  [at \in 0..(Sectors(boot) - 1) |->
         IF at < boot.reserved THEN region("reserved", at, boot.reserved, 0)
         ELSE IF at < data_at THEN region("fat", at - boot.reserved, boot.fat_size_32, 1)
         ELSE region("data", at - data_at, boot.spc, 2)]

Volumes == {lba \in DOMAIN disk.boots : Accepted(disk.boots[lba])}

\* The drives that are mounted: the table of a volume has an entry for each of
\* its clusters, and its volumes lie one behind the other.
Sound(boots) ==
  \A v \in {lba \in DOMAIN boots : Accepted(boots[lba])} :
    /\ v \in Nat /\ boots[v].reserved \in Nat /\ boots[v].spc \in Nat
    /\ boots[v].num_fats \in Nat \ {0} /\ boots[v].fat_size_32 \in Nat
    /\ (MaxCluster + 1) * ENTRY <= boots[v].fat_size_32 * SECTOR
    /\ \A w \in DOMAIN boots : Accepted(boots[w]) /\ v < w => v + Sectors(boots[v]) <= w

ASSUME DisksAssumption == \A d \in Disks : Sound(d.boots)

\* What the drive holds at a sector.
Sector(lba) ==
  LET of == {v \in Volumes : lba - v \in DOMAIN Layout(v)}
  IN  IF of = {} THEN [vol |-> lba, kind |-> "none", n |-> 0, k |-> 0]
      ELSE LET v == Max(of) IN Layout(v)[lba - v]

is_fat32(part) == part.part_type = "fat32"

\* The sectors probe_drive probes: the FAT32 partitions in use, then sector 0.
ProbeOrder(table) ==
  LET parts == SelectSeq(table, LAMBDA part : part.lba_start > 0 /\ part.lba_count > 0)
      fats == SelectSeq(parts, is_fat32)
  IN  Append([n \in DOMAIN fats |-> fats[n].lba_start], 0)

\* mbr::read: a table that cannot be read, or has no signature, counts as none.
ReadMbr ==
  /\ pc = "mbr"
  /\ \/ disk.signed /\ todo' = ProbeOrder(disk.table)
     \/ todo' = ProbeOrder(<<>>)
  /\ pc' = "probe"
  /\ UNCHANGED <<disk, ctx, fat, args, c, chain, i, reading, scanning>>

\* The sector of cluster 2, behind every copy of the table.
DataStart(lba, boot) == lba + boot.reserved + boot.num_fats * boot.fat_size_32

\* probe: the volume is mounted, or the next sector is tried, also when the
\* boot sector cannot be read.
Probe ==
  /\ pc = "probe"
  /\ todo' = Tail(todo)
  /\ LET lba == Head(todo)
         boot == Boot(lba)
     IN  \/ /\ Accepted(boot)
            /\ ctx' = [part_lba |-> lba, spc |-> boot.spc, fat_start |-> lba + boot.reserved,
                       data_start |-> DataStart(lba, boot), root_cluster |-> boot.root_cluster]
            /\ pc' = "idle"
         \/ /\ pc' = IF todo' = <<>> THEN "none" ELSE "probe"
            /\ UNCHANGED ctx
  /\ UNCHANGED <<disk, fat, args, c, chain, i, reading, scanning>>

cluster_lba(n) == ctx.data_start + (n - 2) * ctx.spc
cluster_bytes == ctx.spc * SECTOR

\* read_cluster: the byte at place p of cluster_buf once cluster n is read.
cluster_buf(n, p) ==
  LET s == Sector(cluster_lba(n) + p \div SECTOR)
  IN  <<s.vol, s.kind, s.n, s.k * SECTOR + (p % SECTOR)>>

\* next_cluster reads the entry of cluster n; a sector that is not of the table
\* holds no cluster number.
NextOf(n) ==
  LET byte_off == n * ENTRY
      s == Sector(ctx.fat_start + byte_off \div SECTOR)
      m == (s.k * SECTOR + (byte_off % SECTOR)) \div ENTRY
  IN  IF s.kind = "fat" /\ m \in Clusters THEN fat[m] ELSE Free
-----------------------------------------------------------------------------
\* The bytes the call is to deliver at most.
to_read == Min({len, size - offset})

\* read: nothing past the end of the file or into an empty buffer.
Read(f, s, o, l) ==
  /\ pc = "idle"
  /\ op' = "read" /\ first' = f /\ size' = s /\ offset' = o /\ len' = l
  /\ pc' = IF o >= s \/ l = 0 THEN "ok" ELSE "chain"
  /\ c' = f
  /\ UNCHANGED <<mounting, fat, chain, i, reading, scanning>>

\* read_dir_entries.
ReadDir(f) ==
  /\ pc = "idle"
  /\ op' = "dir" /\ first' = f
  /\ pc' = "chain" /\ c' = f
  /\ UNCHANGED <<mounting, fat, size, offset, len, chain, i, reading, scanning>>

\* Mutant: no limit against loops.
TooLongNever(links) == FALSE

\* The limit against loops.
TooLong(links) == Len(links) > Limit

\* What follows cluster_chain.
Use == IF op = "read" THEN "copy" ELSE "cluster"

\* One round of cluster_chain's loop, with next_cluster.
ChainStep ==
  /\ pc = "chain"
  /\ IF c < 2
     THEN pc' = Use /\ UNCHANGED <<c, chain>>
     ELSE /\ chain' = Append(chain, c)
          /\ IF NextOf(c) \in Clusters
             THEN c' = NextOf(c) /\ pc' = IF TooLong(chain') THEN Use ELSE "chain"
             ELSE pc' = Use /\ UNCHANGED c
  /\ UNCHANGED <<mounting, fat, args, i, reading, scanning>>

cluster_start == i * cluster_bytes
cluster_end == cluster_start + cluster_bytes

in_start == IF cluster_start < offset THEN offset - cluster_start ELSE 0
in_end == Min({offset + to_read, cluster_end}) - cluster_start

dst == (cluster_start + in_start) - offset

\* Mutant: a cluster is copied from its first byte on.
SourceFirst(k) == k - dst

\* Where the byte for place k of the buffer is in cluster_buf.
Source(k) == in_start + (k - dst)

\* One round of read's loop over the chain.
CopyStep ==
  /\ pc = "copy"
  /\ IF i >= Len(chain) \/ (cluster_end > offset /\ cluster_start >= offset + to_read)
     THEN pc' = "ok" /\ UNCHANGED <<i, buf, done>>
     ELSE /\ i' = i + 1
          /\ UNCHANGED pc
          /\ IF cluster_end <= offset
             THEN UNCHANGED <<buf, done>>
             ELSE LET n == in_end - in_start
                      copied == dst..(dst + n - 1)
                  IN  /\ buf' = [k \in DOMAIN buf \cup copied |->
                                   IF k \in copied THEN cluster_buf(chain[i + 1], Source(k)) ELSE buf[k]]
                      /\ done' = done + n
  /\ UNCHANGED <<mounting, fat, args, c, chain, scanning>>

-----------------------------------------------------------------------------
\* The entries of a cluster.
entry_count == PerSector * ctx.spc

\* The next cluster of the directory is read, or there is none.
NextCluster ==
  /\ pc = "cluster"
  /\ IF i >= Len(chain)
     THEN pc' = "ok" /\ UNCHANGED dir
     ELSE /\ pc' = "entry"
          /\ IF dir[chain[i + 1]] = <<>>
             THEN \E raw \in [1..entry_count -> Kinds] : dir' = [dir EXCEPT ![chain[i + 1]] = raw]
             ELSE UNCHANGED dir
  /\ UNCHANGED <<mounting, fat, args, c, chain, i, reading, e, lfn_chunks, entries>>

\* Mutant: a deleted entry leaves the chunks.
KeptByDeleted(kind) == IF kind = "deleted" THEN lfn_chunks ELSE <<>>

\* The chunks after an entry that is skipped.
Kept(kind) == <<>>

\* The chunks are stored last one first.
Reversed(chunks) == [j \in DOMAIN chunks |-> chunks[Len(chunks) - j + 1]]
LongName == Reversed(lfn_chunks)

\* One round of the loop over the entries of a cluster.
Entry ==
  /\ pc = "entry"
  /\ LET kind == dir[chain[i + 1]][e + 1] IN
     IF kind = "end"
     THEN pc' = "ok" /\ UNCHANGED <<i, e, lfn_chunks, entries>>
     ELSE /\ IF e + 1 = entry_count
             THEN i' = i + 1 /\ e' = 0 /\ pc' = "cluster"
             ELSE e' = e + 1 /\ UNCHANGED <<i, pc>>
          /\ \/ /\ kind \in Chunks
                /\ lfn_chunks' = Append(lfn_chunks, kind) /\ UNCHANGED entries
             \/ /\ kind \in {"deleted", "other"}
                /\ lfn_chunks' = Kept(kind) /\ UNCHANGED entries
             \/ /\ kind = "file"
                /\ entries' = Append(entries, [at |-> i * entry_count + e + 1, long |-> LongName])
                /\ lfn_chunks' = <<>>
  /\ UNCHANGED <<mounting, fat, args, c, chain, reading, dir>>

\* read_sectors fails: of the table, or of a cluster.
IoError ==
  /\ \/ pc = "chain" /\ c >= 2
     \/ pc \in {"copy", "cluster"} /\ i < Len(chain)
  /\ pc' = "EIO"
  /\ UNCHANGED <<mounting, fat, args, c, chain, i, reading, scanning>>

Finished == pc \in {"ok", "EIO", "none"} /\ UNCHANGED vars

Next ==
  \/ ReadMbr
  \/ Probe
  \/ \E f \in Clusters \cup {Free}, s, o \in 0..MaxSize, l \in 0..MaxLen : Read(f, s, o, l)
  \/ \E f \in Clusters \cup {Free} : ReadDir(f)
  \/ ChainStep
  \/ CopyStep
  \/ NextCluster
  \/ Entry
  \/ IoError
  \/ Finished

Spec == Init /\ [][Next]_vars
-----------------------------------------------------------------------------
\* The n-th cluster of the file, following the table; 0 past its end.
Nth[n \in 0..Limit] ==
  IF n = 0 THEN first
  ELSE LET before == Nth[n - 1]
       IN  IF before \in Clusters /\ fat[before] \in Clusters THEN fat[before] ELSE Free

\* The number of clusters, as far as cluster_chain follows them.
Count == Cardinality({n \in 0..Limit : Nth[n] # Free})

\* A read that succeeds has copied the bytes of the file from the offset on, of
\* the clusters the table of the mounted volume gives to the file, each to its
\* place and none twice: as many as asked for, unless the file or its chain ends
\* before, whatever chains and cycles the entries of the table make.
ReadExact ==
  (pc = "ok" /\ op = "read") =>
    LET end == Min({offset + len, size, cluster_bytes * Count})
        n == IF end > offset THEN end - offset ELSE 0
    IN  /\ done = n
        /\ buf = [k \in 0..(n - 1) |-> <<ctx.part_lba, "data",
                    Nth[(offset + k) \div cluster_bytes], (offset + k) % cluster_bytes>>]

\* A table with a cycle does not grow the chain for ever: the limit ends it.
ChainBounded == Len(chain) <= Limit + 1

\* The directory as one sequence, and its places before the end marker.
Flat == [n \in 1..(Count * entry_count) |->
           LET raw == dir[Nth[(n - 1) \div entry_count]]
           IN  IF raw = <<>> THEN "unread" ELSE raw[((n - 1) % entry_count) + 1]]
Live == {n \in DOMAIN Flat : \A m \in 1..n : Flat[m] # "end"}

\* The long name of place n: the chunks just before it, nearest first.
Start(n) == CHOOSE m \in 1..n : /\ \A j \in m..(n - 1) : Flat[j] \in Chunks
                                /\ m = 1 \/ Flat[m - 1] \notin Chunks
NameAt(n) == Reversed(SubSeq(Flat, Start(n), n - 1))

\* A directory that was read is read up to its end, and yields each of its
\* files once and in order, with the long name that lies directly before it,
\* never with chunks that a deleted file or a label left, also across clusters.
NamesRight ==
  (pc = "ok" /\ op = "dir") =>
    /\ \A n \in Live : Flat[n] # "unread"
    /\ {entries[j].at : j \in DOMAIN entries} = {n \in Live : Flat[n] = "file"}
    /\ \A j, k \in DOMAIN entries : j < k => entries[j].at < entries[k].at
    /\ \A j \in DOMAIN entries : entries[j].long = NameAt(entries[j].at)
=============================================================================

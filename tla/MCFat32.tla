------------------------------- MODULE MCFat32 -------------------------------
EXTENDS Fat32, TLC

Fat(spc, reserved, num_fats) ==
  [signed |-> TRUE, bps |-> SECTOR, spc |-> spc, reserved |-> reserved, num_fats |-> num_fats,
   fat_size_16 |-> 0, fat_size_32 |-> 2, root_cluster |-> 2, fs_type |-> "FAT32"]

Part(type, start, count) == [part_type |-> type, lba_start |-> start, lba_count |-> count]

\* A partition behind one of another type; a volume without a partition table,
\* whose boot code reads as one; a FAT16 volume in a partition marked FAT32
\* before one that is FAT32, and an unused entry; a drive with neither.
MCDisks == {
  [signed |-> TRUE, table |-> <<Part("linux", 1, 2), Part("fat32", 3, 8)>>,
   boots |-> (3 :> Fat(1, 2, 2))],
  [signed |-> TRUE, table |-> <<Part("fat32", 40, 5)>>,
   boots |-> (0 :> Fat(2, 1, 1))],
  [signed |-> TRUE, table |-> <<Part("fat32", 0, 0), Part("fat32", 1, 3), Part("fat32", 4, 9)>>,
   boots |-> (1 :> [Fat(1, 1, 2) EXCEPT !.fat_size_16 = 1, !.fat_size_32 = 0]) @@ (4 :> Fat(1, 1, 2))],
  [signed |-> FALSE, table |-> <<>>, boots |-> <<>>]}
=============================================================================

--------------------------- MODULE MCSyscallEntry ---------------------------
EXTENDS SyscallEntry, TLC

\* Every action treats all user processes and all frames alike.
Symmetry == Permutations(Programs) \cup Permutations(Frames)
=============================================================================

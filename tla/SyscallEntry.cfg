SPECIFICATION EntrySpec
CONSTANTS
  Programs = {u1, u2, u3}
  Kernels = {k}
  Boot = boot
  Frames = {f1, f2, f3}
  KRoot = kroot
SYMMETRY Symmetry
INVARIANTS OwnStack TablesOwn
\* After a panic the kernel halts.
CHECK_DEADLOCK FALSE

SPECIFICATION FairSpec
CONSTANTS
  Callers = {shell, proc}
  Probes = {shell}
  Drives = {d0, d1}
  Lba28 = {d1}
  Reach = 2
  Requests <- MCRequests
INVARIANTS ReadsAsked
PROPERTY CallReturns

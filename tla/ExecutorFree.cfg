CONSTANTS
  k1 = k1
  k2 = k2
  AppIds = {0, 1}
  Keys = {k1}
  Addrs = {1, 2, 3}
  Phys = {0, 1, 2, 3, 4}
  MaxQubits = 1
  Sizes = {1, 2}
  Programs <- FreePrograms
  RemotePlan <- FreePlan
  MaxSubroutines = 2
  MaxErrors = 1
  HostBlocks = FALSE
  None = None
SPECIFICATION Spec
CHECK_DEADLOCK FALSE
INVARIANTS
  QubitsSafe
  OldestRequestFirst

CONSTANTS
  k1 = k1
  k2 = k2
  AppIds = {0, 1}
  Keys = {k1, k2}
  Addrs = {1, 2, 3}
  Phys = {0, 1, 2, 3, 4, 5, 6}
  MaxQubits = 2
  Sizes = {1, 2}
  Programs <- BlockingPrograms
  RemotePlan <- BlockingPlan
  MaxSubroutines = 2
  MaxErrors = 0
  HostBlocks = TRUE
  None = None
SPECIFICATION Spec
CHECK_DEADLOCK FALSE
INVARIANTS
  TypeOK
  NoSharedQubit
  NoQubitLeak
  NoOrphanRequest
  PairsConserved
PROPERTY CreditsInOrder

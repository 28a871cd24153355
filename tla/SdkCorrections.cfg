SPECIFICATION Spec
CONSTANTS
  None = None
  MaxQubits = 3
  NumRegisters = 16
  Quantum0 <- TokenQuantum0
  Hook <- TokenHook
  Profiles <- MCProfiles
  Coins <- MCCoins
  Lifted = {"corrections"}
  Patience = 12
  Kinds = {"keeps"}
INVARIANT QuantumAsWritten
CHECK_DEADLOCK FALSE

SPECIFICATION Spec
CONSTANTS
  None = None
  MaxQubits = 3
  NumRegisters = 16
  Quantum0 <- TokenQuantum0
  Hook <- TokenHook
  Profiles <- MCProfiles
  Coins <- MCCoins
  Lifted = {}
  Patience = 12
  Kinds = {"qubits", "outcomes", "values", "branches", "loops", "untils", "measured", "keeps", "posts", "contexts", "keep_untils"}
INVARIANTS QuantumAsWritten ValuesAsWritten RunsToItsEnd HostKnowsAllocation
CHECK_DEADLOCK FALSE

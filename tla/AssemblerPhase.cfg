\* The gates s and t, compiled for an NV centre, against their matrices.
SPECIFICATION Spec
CONSTANTS
  None = None
  MaxQubits = 3
  Places = {0, 1, 2}
  Quantum0 <- Frame0
  Hook <- FrameHook
  CrotYAxis = "y"
  Sources <- MCSources
  Arguments <- MCArguments
  Coins <- MCCoins
  Targets = {"nv"}
  NumRegisters = 5
  MaxSteps = 120
  Shape = "phase"
PROPERTY RunsAsWritten
CHECK_DEADLOCK FALSE

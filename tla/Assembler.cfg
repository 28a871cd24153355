\* Programs with loops, conditions, constants, templates and gates against their text.
SPECIFICATION Spec
CONSTANTS
  None = None
  MaxQubits = 3
  Places = {0, 1, 2}
  Quantum0 <- Frame0
  Hook <- FrameHook
  CrotYAxis = "y"
  Sources <- MCSources
  Arguments <- MCArguments
  Coins <- MCCoins
  Targets = {"vanilla", "nv", "nv_hardware"}
  NumRegisters = 5
  MaxSteps = 120
  Shape = "plain"
PROPERTY RunsAsWritten
CHECK_DEADLOCK FALSE

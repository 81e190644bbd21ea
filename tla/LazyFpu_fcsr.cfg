\* Is fcsr preserved across lazy FPU switches?
CONSTANTS
  idle = idle
  main = main
  p1 = p1
  null = null
  Pids <- MCPids
  Idle = idle
  Main = main
  NoThread = null
  FpVals <- MCFpVals
  CsrVals <- MCCsrVals
  Zero = 0
  SwitchClearsFs = TRUE
  Misuse = FALSE
  MaxNest = 2
SPECIFICATION Spec
INVARIANT
  FcsrIntact

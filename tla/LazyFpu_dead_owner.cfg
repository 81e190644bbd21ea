\* Does fpu_insn_trap only ever save into the context of a living thread?
CONSTANTS
  idle = idle
  main = main
  p1 = p1
  null = null
  Pids <- MCPids
  Idle = idle
  Main = main
  NoThread = null
  FpVals <- MCFpVals
  CsrVals <- MCCsrVals
  Zero = 0
  SwitchClearsFs = TRUE
  Misuse = FALSE
  MaxNest = 2
SPECIFICATION Spec
PROPERTY
  SaveTargetsLiveThread

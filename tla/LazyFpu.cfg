\* Programs that may misuse the FPU: FP code in interrupt handlers and in
\* threads without a context, FP words the core does not implement.
\* core_panic() halts the core on these, so the system may stop.
CONSTANTS
  idle = idle
  main = main
  p1 = p1
  null = null
  Pids <- MCPids
  Idle = idle
  Main = main
  NoThread = null
  FpVals <- MCFpVals
  CsrVals <- MCCsrVals
  Zero = 0
  SwitchClearsFs = TRUE
  Misuse = TRUE
  MaxNest = 2
SPECIFICATION Spec
INVARIANTS
  TypeOK
  FpStateIntact
  OwnerHasContext
  IrqStateConsistent
CHECK_DEADLOCK FALSE
PROPERTY
  SwitchServed

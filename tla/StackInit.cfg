\* RV64 and RV32 builds, double- and single-precision FPU: thread creation, the
\* first switch and FPU context save/load cycles on every region thread_create may pass.
CONSTANTS
  Xlens = {32, 64}
  Flens = {32, 64}
  Starts <- MCStarts
  Sizes <- MCSizes
SPECIFICATION Spec
INVARIANTS
  TypeOK
  FrameWellFormed
  FirstSwitchStartsThread
  FpuContextRoundTrip

\* RV32FC: the compressed single-precision loads and stores (C.FLW, C.FSW, C.FLWSP, C.FSWSP).
CONSTANTS
  Xlen = 32
  Compressed = TRUE
  LowHalves <- MCLowHalves
  HighHalves <- MCHighHalves
SPECIFICATION Spec
\* core_panic halts the core; after fpu_insn_trap the run continues in LazyFpu.
CHECK_DEADLOCK FALSE
INVARIANTS
  DecodeMatchesIsa

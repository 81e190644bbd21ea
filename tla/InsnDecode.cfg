\* RV64GC: handle_trap's decoding against the ISA's floating-point classes.
CONSTANTS
  Xlen = 64
  Compressed = TRUE
  LowHalves <- MCLowHalves
  HighHalves <- MCHighHalves
SPECIFICATION Spec
\* core_panic halts the core; after fpu_insn_trap the run continues in LazyFpu.
CHECK_DEADLOCK FALSE
INVARIANTS
  TypeOK
  DecodeMatchesIsa

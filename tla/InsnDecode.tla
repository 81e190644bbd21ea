----------------------------- MODULE InsnDecode -----------------------------
(***************************************************************************)
(* The exception arm of handle_trap (src/cpu/riscv_common/riscv_cpu.c)     *)
(* with its jump tables: which illegal instructions are routed to the lazy *)
(* FPU (fpu_insn_trap) and which end in core_panic.  The decoding is a set *)
(* of pure operators over the halfwords at mepc; the state machine around  *)
(* it lets a program fetch an instruction that traps, and the trap is      *)
(* taken.  The reference classification IsaFp is written from the RISC-V   *)
(* instruction-set manual, independently of the code's masks.              *)
(*                                                                         *)
(* MASK_CSRRW and the MATCH_CSR* values come from the vendor encoding.h    *)
(* (not in the repository); they are the standard ISA values.             *)
(***************************************************************************)
EXTENDS Naturals, Bitwise

CONSTANTS
  Xlen,          \* __riscv_xlen
  Compressed,    \* __riscv_compressed
  LowHalves,     \* candidate halfwords at mepc
  HighHalves     \* candidate halfwords at mepc + 2

ASSUME Xlen \in {32, 64} /\ Compressed \in BOOLEAN

CAUSE_ILLEGAL_INSTRUCTION == 2
Causes == {CAUSE_ILLEGAL_INSTRUCTION, 5}    \* 5: a load access fault

Panics == {"Illegal CSR access.", "Illegal system instruction.",
           "Unhandled illegal instruction trap",
           "Unhandled illegal (compressed) instruction trap",
           "Unhandled machine mode trap"}

-----------------------------------------------------------------------------
(* riscv_arch.h and encoding.h constants. *)
INSN_32BIT_MASK == 3
FpSuffixes == {1, 9, 20, 16, 17, 18, 19}    \* FLOAD .. FNMADD
INSN_SYSTEM_SUFFIX == 28
MASK_CSRRW == 28799                         \* 0x707F
CsrMatches == {4211, 8307, 12403, 20595, 24691, 28787}
                                            \* 0x1073 0x2073 0x3073 0x5073 0x6073 0x7073
FpCsrs == {1, 2, 3}                         \* CSR_FFLAGS, CSR_FRM, CSR_FCSR
INSNC_MASK == 57347                         \* 0xE003
InsncFp == {8192, 40960, 8194, 40962}       \* INSNC_FLD, _FSW, _FLDSP, _FSDSP

(* A uint32_t instruction word is held as its two halfwords <<lo, hi>>,   *)
(* insn = lo + hi * 2^16: every mask the code applies lies in the low half *)
(* and insn >> 20 is hi >> 4.                                              *)

(* illegal_system_insn_trap(insn) *)
IllegalSystemInsnTrap(lo, hi) ==
  IF (lo & MASK_CSRRW) \in CsrMatches
    THEN IF hi \div 16 \in FpCsrs THEN "fpu" ELSE "Illegal CSR access."
    ELSE "Illegal system instruction."

(* illegal_insn32_jumptable(insn) *)
IllegalInsn32Jumptable(lo, hi) ==
  LET suffix == (lo & 127) \div 4 IN
  IF suffix \in FpSuffixes THEN "fpu"
  ELSE IF suffix = INSN_SYSTEM_SUFFIX THEN IllegalSystemInsnTrap(lo, hi)
  ELSE "Unhandled illegal instruction trap"

(* illegal_insn16_jumptable(insn) *)
IllegalInsn16JumptableNoFsdsp(insn) ==
  IF (insn & INSNC_MASK) \in InsncFp \ {40962} THEN "fpu"
  ELSE "Unhandled illegal (compressed) instruction trap"

IllegalInsn16Jumptable(insn) ==
  IF (insn & INSNC_MASK) \in InsncFp THEN "fpu"
  ELSE "Unhandled illegal (compressed) instruction trap"

(* The word handle_trap fetches with the C extension.  Aligned: one       *)
(* 32-bit load.  Unaligned: the halfword at mepc, and for a 32-bit         *)
(* instruction insn += *(halfword + 1) << 16, a shift of a promoted int    *)
(* that overflows for halfwords >= 0x8000; the build (sll, then            *)
(* truncation to uint32_t) yields the same bits as the unsigned shift.     *)
FetchWordUnshifted(aligned, lo, hi) ==
  IF aligned THEN <<lo, hi>>
  ELSE IF (lo & INSN_32BIT_MASK) = INSN_32BIT_MASK THEN <<lo + hi, 0>>
  ELSE <<lo, 0>>

FetchWord(aligned, lo, hi) ==
  IF aligned THEN <<lo, hi>>
  ELSE IF (lo & INSN_32BIT_MASK) = INSN_32BIT_MASK THEN <<lo, hi>>
  ELSE <<lo, 0>>

(* handle_trap(mcause), exception arm: the word it reads at mepc ... *)
TrapWord(cause, aligned, lo, hi) ==
  IF cause # CAUSE_ILLEGAL_INSTRUCTION THEN <<0, 0>>
  ELSE IF Compressed THEN FetchWord(aligned, lo, hi)
  ELSE <<lo, hi>>

(* ... and what it does with it. *)
HandleTrapException(cause, insn) ==
  IF cause # CAUSE_ILLEGAL_INSTRUCTION THEN "Unhandled machine mode trap"
  ELSE IF ~Compressed THEN IllegalInsn32Jumptable(insn[1], insn[2])
  ELSE IF (insn[1] & INSN_32BIT_MASK) = INSN_32BIT_MASK
    THEN IllegalInsn32Jumptable(insn[1], insn[2])
    ELSE IllegalInsn16Jumptable(insn[1])

-----------------------------------------------------------------------------
(* Reference: the floating-point instructions of RV32/RV64 F, D and C, by  *)
(* their opcode fields as the ISA manual tabulates them.                   *)
Bits(x, from, width) == (x \div 2^from) % 2^width

IsaFp32(lo, hi) ==
  LET opcode == Bits(lo, 0, 7) IN
  \/ opcode \in {7, 39, 83, 67, 71, 75, 79}    \* LOAD-FP STORE-FP OP-FP FMADD FMSUB FNMSUB FNMADD
  \/ /\ opcode = 115                           \* SYSTEM
     /\ Bits(lo, 12, 3) \in {1, 2, 3, 5, 6, 7}  \* CSRRW .. CSRRCI
     /\ Bits(hi, 4, 12) \in {1, 2, 3}          \* fflags, frm, fcsr

(* C.FLD C.FSD C.FLDSP C.FSDSP; on RV32 also C.FLW C.FSW C.FLWSP C.FSWSP,   *)
(* whose encodings are C.LD C.SD C.LDSP C.SDSP on RV64.                     *)
IsaFp16(h) ==
  LET funct3 == Bits(h, 13, 3)
      op == Bits(h, 0, 2) IN
  /\ op \in {0, 2}
  /\ funct3 \in (IF Xlen = 32 THEN {1, 3, 5, 7} ELSE {1, 5})

IsaFp(aligned, lo, hi) ==
  IF Compressed /\ Bits(lo, 0, 2) # 3 THEN IsaFp16(lo)
  ELSE IsaFp32(lo, hi)

-----------------------------------------------------------------------------
VARIABLES
  mcause, aligned, insnLo, insnHi,   \* the trap's inputs
  phase,                             \* "trap", "resumed", "halted"
  insn,                              \* the word it fetched, as halfwords
  outcome                            \* what handle_trap did

vars == <<mcause, aligned, insnLo, insnHi, phase, insn, outcome>>

(* A trap is pending: the program has reached an instruction the core     *)
(* rejects, or another exception; without the C extension every           *)
(* instruction is aligned.                                                 *)
Init ==
  /\ mcause \in Causes
  /\ aligned \in (IF Compressed THEN BOOLEAN ELSE {TRUE})
  /\ insnLo \in LowHalves /\ insnHi \in HighHalves
  /\ phase = "trap"
  /\ insn = <<0, 0>>
  /\ outcome = "none"

(* The trap is taken: either fpu_insn_trap runs and mret re-executes the   *)
(* instruction, or core_panic halts.  What follows the re-execution is     *)
(* the lazy FPU's concern (LazyFpu); here both ends are final.            *)
HandleTrap ==
  /\ phase = "trap"
  /\ insn' = TrapWord(mcause, aligned, insnLo, insnHi)
  /\ outcome' = HandleTrapException(mcause, insn')
  /\ phase' = IF outcome' = "fpu" THEN "resumed" ELSE "halted"
  /\ UNCHANGED <<mcause, aligned, insnLo, insnHi>>

Next == HandleTrap

Spec == Init /\ [][Next]_vars

-----------------------------------------------------------------------------
TypeOK ==
  /\ mcause \in Causes /\ aligned \in BOOLEAN
  /\ insnLo \in 0..65535 /\ insnHi \in 0..65535
  /\ phase \in {"trap", "resumed", "halted"}
  /\ insn \in (0..65535) \X (0..65535)
  /\ outcome \in Panics \cup {"fpu", "none"}

(* handle_trap sends an illegal instruction to fpu_insn_trap exactly when   *)
(* it is a floating-point instruction or an access to an FP status CSR,    *)
(* whatever its length and alignment; everything else ends in core_panic.  *)
DecodeMatchesIsa ==
  phase # "trap" /\ outcome # "none" =>
    (outcome = "fpu" <=> mcause = CAUSE_ILLEGAL_INSTRUCTION
                         /\ IsaFp(aligned, insnLo, insnHi))
=============================================================================

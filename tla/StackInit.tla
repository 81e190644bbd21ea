------------------------------ MODULE StackInit ------------------------------
(***************************************************************************)
(* A new thread's two context areas and the code that fills and reads     *)
(* them.  The integer frame: thread_stack_init                             *)
(* (src/cpu/riscv_common/riscv_cpu.c) builds it on the thread's stack by   *)
(* the layout of struct context_switch_frame (include/context_frame.h),    *)
(* and the assembly context switch restores it through the r_OFFSET       *)
(* macros and CONTEXT_FRAME_SIZE of the same header.  The FPU context:     *)
(* thread_fpu_context_init zeroes struct fpu_context                       *)
(* (include/fpu_context.h), and fpu_insn_trap stores and loads the 32 FP   *)
(* registers with fsd/fld (fsw/flw) at the rX_OFFSET_IASM offsets and      *)
(* fcsr through the struct field.                                          *)
(*                                                                         *)
(* Memory holds one xlen-bit word per word address in the stack and one   *)
(* byte per offset in the FPU context; only what the code writes is       *)
(* recorded.  Values are symbolic: the entry function, the argument,      *)
(* sched_task_exit, the marker and zero, and in the FPU context the name   *)
(* of the register a byte was stored from (the thread writes a distinct    *)
(* pattern into every FP register).                                        *)
(*                                                                         *)
(* The caller is the kernel's thread_create_with_fp (not in the           *)
(* repository): it passes a word-aligned stack start and a word multiple   *)
(* as the size, and a context of its own.  The restore is the assembly     *)
(* switch (not in the repository), modelled from the specification.      *)
(***************************************************************************)
EXTENDS Integers, FiniteSets, Sequences, Bitwise, TLC

CONSTANTS
  Xlens,    \* the builds: values of __riscv_xlen
  Flens,    \* the builds: values of __riscv_flen (RV_FPU_DOUBLE/SINGLE_PRECISION)
  Starts,   \* stack_start values thread_create may pass
  Sizes     \* stack_size values thread_create may pass

ASSUME Xlens \subseteq {32, 64} /\ Flens \subseteq {32, 64}

VARIABLES
  Xlen, Flen,    \* the build
  start, size,   \* the region thread_create passes
  mem,           \* word address -> value, for the words written
  sp,            \* the value thread_stack_init returned: the saved sp
  pc,            \* the thread's life: "new", "stack", "created", "running",
                 \* "fp_owner", "fp_saved"
  regs,          \* the integer registers the first switch loaded
  tsp,           \* the thread's sp after that switch
  fctx,          \* byte offset -> value, in the thread's struct fpu_context
  fregs,         \* the FP registers fpu_insn_trap's load produced
  fsaved         \* history: the context holds a save of the thread's registers

vars == <<Xlen, Flen, start, size, mem, sp, pc, regs, tsp, fctx, fregs, fsaved>>

WordBytes == Xlen \div 8

(* struct context_switch_frame: on RV32 two pad words come first so that   *)
(* the frame stays a multiple of 16 bytes.                                 *)
Pad == IF Xlen = 32 THEN 2 ELSE 0
Regs == <<"pc", "s0", "s1", "s2", "s3", "s4", "s5", "s6", "s7", "s8", "s9",
          "s10", "s11", "ra", "tp", "t0", "t1", "t2", "t3", "t4", "t5", "t6",
          "a0", "a1", "a2", "a3", "a4", "a5", "a6", "a7">>
RegIndex(r) == CHOOSE k \in 1..Len(Regs) : Regs[k] = r
FrameWords == Pad + Len(Regs)
FrameBytes == FrameWords * WordBytes          \* sizeof *sf: 240 or 128
Offset(r) == (Pad + RegIndex(r) - 1) * WordBytes
                                              \* &sf->r - sf, by the C layout

(* The r_OFFSET macros the assembly switch uses, in the order of Regs, and *)
(* CONTEXT_FRAME_SIZE = a7_OFFSET + __SIZEOF_POINTER__.                     *)
OffsetTable64 == <<0, 8, 16, 24, 32, 40, 48, 56, 64, 72, 80, 88, 96, 104, 112,
                   120, 128, 136, 144, 152, 160, 168, 176, 184, 192, 200, 208,
                   216, 224, 232>>
OffsetTable32 == <<8, 12, 16, 20, 24, 28, 32, 36, 40, 44, 48, 52, 56, 60, 64,
                   68, 72, 76, 80, 84, 88, 92, 96, 100, 104, 108, 112, 116,
                   120, 124>>
OffsetMacroNoPad(r) ==
  IF Xlen = 64 THEN OffsetTable64[RegIndex(r)] ELSE (RegIndex(r) - 1) * 4

OffsetMacro(r) ==
  IF Xlen = 64 THEN OffsetTable64[RegIndex(r)] ELSE OffsetTable32[RegIndex(r)]
CONTEXT_FRAME_SIZE == OffsetMacro("a7") + WordBytes

Values == {"zero", "entry", "arg", "sched_task_exit", "STACK_MARKER", "garbage"}

(* struct fpu_context: packed, aligned to RV_FPU_REG_ALIGN; 32 registers of *)
(* RV_FPU_REG_TYPE, then unsigned long fcsr.  sizeof is rounded up to the   *)
(* alignment.                                                               *)
FRegs == <<"ft0", "ft1", "ft2", "ft3", "ft4", "ft5", "ft6", "ft7", "ft8",
           "ft9", "ft10", "ft11", "fs0", "fs1", "fs2", "fs3", "fs4", "fs5",
           "fs6", "fs7", "fs8", "fs9", "fs10", "fs11", "fa0", "fa1", "fa2",
           "fa3", "fa4", "fa5", "fa6", "fa7">>
FRegNames == {FRegs[k] : k \in 1..Len(FRegs)}
RV_FPU_REG_ALIGN == Flen \div 8
FcsrOffset == Len(FRegs) * RV_FPU_REG_ALIGN
FcsrBytes == FcsrOffset..(FcsrOffset + WordBytes - 1)
FpuContextBytes ==
  LET raw == FcsrOffset + WordBytes
  IN  ((raw + RV_FPU_REG_ALIGN - 1) \div RV_FPU_REG_ALIGN) * RV_FPU_REG_ALIGN

(* The rX_OFFSET_IASM strings of the double- and single-precision builds,  *)
(* in the order of FRegs (fcsr_OFFSET_IASM is defined but never used).     *)
IasmTableD == [k \in 1..32 |-> (k - 1) * 8]
IasmTableS == [k \in 1..32 |-> (k - 1) * 4]
IasmOffsetTypo(k) ==
  LET o == IF Flen = 64 THEN (k - 1) * 8 ELSE (k - 1) * 4
  IN  IF k = 20 THEN o - RV_FPU_REG_ALIGN ELSE o

IasmOffset(k) == IF Flen = 64 THEN IasmTableD[k] ELSE IasmTableS[k]

(* The bytes one fsd/fsw or fld/flw of register k touches. *)
Access(k) == IasmOffset(k)..(IasmOffset(k) + RV_FPU_REG_ALIGN - 1)

-----------------------------------------------------------------------------
(* stk_top = stack_start + stack_size; stk_top--; *stk_top = STACK_MARKER; *)
(* stk_top points to rvxlen_unsigned_t: the decrement is one word.        *)
MarkerAddrByte(stack_start, stack_size) == stack_start + stack_size - 1

MarkerAddr(stack_start, stack_size) == stack_start + stack_size - WordBytes

(* stk_top & ~0xf *)
AlignDown8(a) == a - (a & 7)

AlignDown16(a) == a - (a & 15)

(* stk_top -= sizeof *sf, after the alignment. *)
FrameBase(stack_start, stack_size) ==
  AlignDown16(MarkerAddr(stack_start, stack_size)) - FrameBytes

(* reg = &sf->a7; while (reg != &sf->pc) *reg-- = 0;  then pc, a0 and ra. *)
FrameValues(base) ==
  [a \in {base + Offset(Regs[k]) : k \in 1..Len(Regs)} |->
     CASE a = base + Offset("pc") -> "entry"
       [] a = base + Offset("a0") -> "arg"
       [] a = base + Offset("ra") -> "sched_task_exit"
       [] OTHER                   -> "zero"]

-----------------------------------------------------------------------------
Init ==
  /\ Xlen \in Xlens /\ Flen \in Flens
  /\ start \in Starts /\ size \in Sizes
  /\ start % WordBytes = 0 /\ size % WordBytes = 0
  /\ mem = [a \in {} |-> "zero"]
  /\ sp = 0
  /\ pc = "new"
  /\ regs = [r \in {} |-> "zero"]
  /\ tsp = 0
  /\ fctx = [b \in {} |-> "zero"]
  /\ fregs = [r \in {} |-> "zero"]
  /\ fsaved = FALSE

(* thread_stack_init(task_func, arg, stack_start, stack_size). *)
ThreadStackInit ==
  /\ pc = "new"
  /\ LET base == FrameBase(start, size)
         marker == MarkerAddr(start, size) IN
       /\ mem' = [a \in {marker} |-> "STACK_MARKER"] @@ FrameValues(base)
       /\ sp' = base
  /\ pc' = "stack"
  /\ UNCHANGED <<Xlen, Flen, start, size, regs, tsp, fctx, fregs, fsaved>>

(* thread_fpu_context_init(fc, pid), fc != NULL:                           *)
(* memset(fc, 0, sizeof(struct fpu_context)).                              *)
FpuContextZero ==
  /\ pc = "stack"
  /\ fctx' = [b \in 0..(FpuContextBytes - 1) |-> "zero"]
  /\ pc' = "created"
  /\ UNCHANGED <<Xlen, Flen, start, size, mem, sp, regs, tsp, fregs, fsaved>>

(* The first switch to the thread: the assembly loads every register from  *)
(* sp + r_OFFSET (a word access) and pops CONTEXT_FRAME_SIZE bytes.        *)
ContextRestore ==
  /\ pc = "created"
  /\ regs' = [r \in {Regs[k] : k \in 1..Len(Regs)} |->
                IF sp + OffsetMacro(r) \in DOMAIN mem
                  THEN mem[sp + OffsetMacro(r)] ELSE "garbage"]
  /\ tsp' = sp + CONTEXT_FRAME_SIZE
  /\ pc' = "running"
  /\ UNCHANGED <<Xlen, Flen, start, size, mem, sp, fctx, fregs, fsaved>>

(* fpu_insn_trap's restore of the thread that traps: fld/flw of every      *)
(* register at its rX_OFFSET_IASM; a register gets back what was stored    *)
(* from it only if all its bytes still hold that store.                    *)
FpuLoad ==
  /\ pc \in {"running", "fp_saved"}
  /\ fregs' = [r \in FRegNames |->
                 LET k == CHOOSE i \in 1..Len(FRegs) : FRegs[i] = r
                     vals == {IF b \in DOMAIN fctx THEN fctx[b] ELSE "garbage"
                               : b \in Access(k)}
                 IN  IF Cardinality(vals) = 1 THEN CHOOSE v \in vals : TRUE
                     ELSE "garbage"]
  /\ pc' = "fp_owner"
  /\ UNCHANGED <<Xlen, Flen, start, size, mem, sp, regs, tsp, fctx, fsaved>>

(* fpu_insn_trap of another thread, which finds this one as the owner and *)
(* stores its registers, ft0 first and fa7 last, each at its offset.       *)
(* fcsr goes through the struct field, not these offsets (LazyFpu).      *)
LastStore(b) == LET ks == {k \in 1..Len(FRegs) : b \in Access(k)}
                IN  CHOOSE k \in ks : \A j \in ks : j <= k

FpuSave ==
  /\ pc = "fp_owner"
  /\ LET stored == UNION {Access(k) : k \in 1..Len(FRegs)} IN
       fctx' = [b \in DOMAIN fctx \cup stored |->
                  IF b \in stored THEN FRegs[LastStore(b)] ELSE fctx[b]]
  /\ fsaved' = TRUE
  /\ pc' = "fp_saved"
  /\ UNCHANGED <<Xlen, Flen, start, size, mem, sp, regs, tsp, fregs>>

Next == ThreadStackInit \/ FpuContextZero \/ ContextRestore \/ FpuLoad \/ FpuSave

Spec == Init /\ [][Next]_vars

-----------------------------------------------------------------------------
TypeOK ==
  /\ Xlen \in Xlens /\ Flen \in Flens
  /\ start \in Starts /\ size \in Sizes
  /\ \A a \in DOMAIN mem : a \in Int /\ a % WordBytes = 0 /\ mem[a] \in Values
  /\ sp \in Int /\ tsp \in Int
  /\ pc \in {"new", "stack", "created", "running", "fp_owner", "fp_saved"}
  /\ \A r \in DOMAIN regs : regs[r] \in Values
  /\ \A b \in DOMAIN fctx : b \in Nat /\ fctx[b] \in FRegNames \cup {"zero"}
  /\ \A r \in DOMAIN fregs : fregs[r] \in FRegNames \cup {"zero", "garbage"}
  /\ fsaved \in BOOLEAN

(* The frame thread_stack_init builds is one the context restore can use:  *)
(* the returned stack pointer is 16-byte aligned (the ABI's rule on entry  *)
(* to the thread), every word written lies inside the region               *)
(* [stack_start, stack_start + stack_size), the marker is the region's top *)
(* word, and the frame ends below the marker with less than the alignment  *)
(* between them.                                                           *)
FrameWellFormed ==
  pc # "new" =>
    /\ sp % 16 = 0
    /\ \A a \in DOMAIN mem : start <= a /\ a + WordBytes <= start + size
    /\ mem[start + size - WordBytes] = "STACK_MARKER"
    /\ sp + FrameBytes <= start + size - WordBytes
    /\ start + size - WordBytes - (sp + FrameBytes) < 16

(* The binary contract between the C frame and the assembly switch: what   *)
(* the first switch loads through the r_OFFSET macros is what              *)
(* thread_stack_init stored through the struct (pc the entry function, a0  *)
(* the argument, ra sched_task_exit, every other register zero), and after *)
(* popping CONTEXT_FRAME_SIZE the thread's sp is 16-byte aligned and just   *)
(* below the marker, which its first push cannot reach.                    *)
FirstSwitchStartsThread ==
  pc \in {"running", "fp_owner", "fp_saved"} =>
    /\ \A r \in DOMAIN regs :
         regs[r] = CASE r = "pc" -> "entry"
                     [] r = "a0" -> "arg"
                     [] r = "ra" -> "sched_task_exit"
                     [] OTHER    -> "zero"
    /\ tsp % 16 = 0
    /\ tsp <= MarkerAddr(start, size)
    /\ MarkerAddr(start, size) - tsp < 16

(* A thread's FP registers survive being stored into and loaded from its  *)
(* struct fpu_context by the offsets of the inline assembly: every         *)
(* register comes back with its own value (zero before the first save),    *)
(* no store lands outside the struct or in its fcsr field, and every       *)
(* access is aligned to its width (fld/fsd of a misaligned offset traps).  *)
FpuContextRoundTrip ==
  /\ pc = "fp_owner" =>
       fregs = [r \in FRegNames |-> IF fsaved THEN r ELSE "zero"]
  /\ pc # "new" /\ pc # "stack" =>
       /\ DOMAIN fctx = 0..(FpuContextBytes - 1)
       /\ \A b \in FcsrBytes : fctx[b] = "zero"
       /\ \A k \in 1..Len(FRegs) : IasmOffset(k) % RV_FPU_REG_ALIGN = 0
=============================================================================

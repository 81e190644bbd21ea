------------------------------ MODULE LazyFpu ------------------------------
(***************************************************************************)
(* Lazy floating-point context switching of the RISC-V port               *)
(* (src/cpu/riscv_common/riscv_cpu.c).                                     *)
(*                                                                         *)
(* The FPU is switched on per thread only when the thread executes its     *)
(* first floating-point instruction: with mstatus.FS = Off the instruction *)
(* raises an illegal-instruction trap, handle_trap routes it to            *)
(* fpu_insn_trap, which saves the registers of the previous owner          *)
(* (fpu_owner_thread), loads those of the running thread and turns the    *)
(* FPU on; the instruction is then re-executed.  The interrupt arm of      *)
(* handle_trap turns the FPU off while a handler runs and back on when it  *)
(* was on before.  thread_fpu_context_init drops the ownership when a new  *)
(* thread reuses the owner's pid.                                          *)
(*                                                                         *)
(* The register bank (ft0..fa7, 32 registers moved together by the same    *)
(* code path) is one abstract value; fcsr is a second one, because the     *)
(* code treats it differently.  mstatus.FS only ever holds Off or Dirty    *)
(* here (RV_FPU_ENABLE sets both FS bits), so it is a boolean.             *)
(*                                                                         *)
(* Interrupts are taken only while mstatus.MIE is set: kernel_init starts  *)
(* with them disabled, cpu_switch_context_exit enables them, threads and   *)
(* handlers nest irq_disable / irq_restore sections, and a trap saves MIE  *)
(* in MPIE and clears it until its mret.  The software interrupt that      *)
(* thread_yield_higher raises is such an interrupt.                        *)
(*                                                                         *)
(* The context switch itself is done by trap-entry assembly that is not    *)
(* part of src/; it is modelled from the specification (section 5).       *)
(***************************************************************************)
EXTENDS Naturals, FiniteSets, Sequences

CONSTANTS
  Pids,            \* kernel_pid_t values of the threads (model values)
  Idle,            \* pid of the idle thread (created without FPU context)
  Main,            \* pid of the main thread (created with main_fpu_ctxt)
  FpVals,          \* abstract contents of the 32 FP registers
  CsrVals,         \* abstract contents of fcsr
  Zero,            \* the all-zero bank and fcsr left by memset()
  NoThread,        \* fpu_owner_thread == NULL
  SwitchClearsFs,  \* the assembly context switch sets mstatus.FS = Off
  Misuse,          \* programs may execute FP code where it is forbidden
  MaxNest          \* bound on nested irq_disable sections per context

ASSUME Idle \in Pids /\ Main \in Pids /\ Idle # Main
ASSUME NoThread \notin Pids
ASSUME Zero \in FpVals /\ Zero \in CsrVals
ASSUME SwitchClearsFs \in BOOLEAN /\ Misuse \in BOOLEAN
ASSUME MaxNest \in Nat

(* The code contexts that call irq_disable: the threads and the handler.  *)
Isr == "isr"
Ctx == Pids \cup {Isr}

VARIABLES
  alive,     \* threads that currently exist
  hasCtx,    \* threads whose thread_t has a non-NULL fpucontext
  active,    \* sched_active_thread
  fsOn,      \* mstatus.FS = Dirty, i.e. RV_IS_FPU_DIRTY()
  owner,     \* fpu_owner_thread
  hwF,       \* FP register file
  hwCsr,     \* fcsr
  ctxF,      \* struct fpu_context registers, per thread
  ctxCsr,    \* struct fpu_context fcsr, per thread
  lF,        \* history: the register bank each thread last wrote
  lCsr,      \* history: the fcsr each thread last wrote
  handler,   \* an interrupt handler is running (handle_trap, interrupt arm)
  inIsr,     \* __in_isr
  fpuStat,   \* handle_trap's local fpuStat, live while a handler runs
  msip,      \* CLINT MSIP: a context switch has been requested
  fault,     \* "none" or the reason passed to core_panic
  booted,    \* cpu_switch_context_exit has started the first thread
  mie,       \* mstatus.MIE
  mpie,      \* mstatus.MPIE, MIE before the running trap
  reading,   \* per context: irq_disable has read mstatus, not yet cleared MIE
  prev,      \* per context: the previous_state that read returned
  saved      \* per context, the previous_state of each open irq_disable
             \* section, innermost last

vars == <<alive, hasCtx, active, fsOn, owner, hwF, hwCsr, ctxF, ctxCsr,
          lF, lCsr, handler, inIsr, fpuStat, msip, fault, booted,
          mie, mpie, reading, prev, saved>>

irqVars == <<booted, mie, mpie, reading, prev, saved>>

Running == booted /\ fault = "none"

(* The context whose code runs: the handler while one runs, else the thread. *)
Cur == IF handler THEN Isr ELSE active

(* core_panic(): the core halts with the given reason. *)
Panic(reason) ==
  /\ fault' = reason
  /\ UNCHANGED <<irqVars, alive, hasCtx, active, fsOn, owner, hwF, hwCsr, ctxF,
                 ctxCsr, lF, lCsr, handler, inIsr, fpuStat, msip>>

-----------------------------------------------------------------------------
(* Boot: fpu_init() and the threads kernel_init() creates. *)

fpu_init ==
  /\ fsOn = FALSE
  /\ owner = NoThread

Init ==
  /\ fpu_init
  /\ alive = {Idle, Main}
  /\ hasCtx = {Main}
  /\ active = Main
  /\ hwF \in FpVals          \* FP registers are undefined after reset
  /\ hwCsr \in CsrVals
  /\ ctxF = [p \in Pids |-> Zero]
  /\ ctxCsr = [p \in Pids |-> Zero]
  /\ lF = [p \in Pids |-> Zero]
  /\ lCsr = [p \in Pids |-> Zero]
  /\ handler = FALSE
  /\ inIsr = FALSE
  /\ fpuStat = FALSE
  /\ msip = FALSE
  /\ fault = "none"
  /\ booted = FALSE
  /\ mie = FALSE             \* kernel_init: (void) irq_disable()
  /\ mpie = TRUE            \* cpu_init: set_csr(mstatus, MSTATUS_DEFAULT)
  /\ reading = [c \in Ctx |-> FALSE]
  /\ prev = [c \in Ctx |-> FALSE]
  /\ saved = [c \in Ctx |-> <<>>]

--------------------------------------------------------------------------------------
(* fpu_insn_trap().  The save of the old owner stores the 32 registers;   *)
(* the fcsr store is written  asm("frcsr %0" : : "r"(fpu_owner_ctx->fcsr)) *)
(* -- fcsr is read into a register that is an input operand, so nothing   *)
(* reaches memory and ctxCsr is left unchanged.  The load restores both.  *)

FpuInsnTrapLoadFirst ==
  IF fsOn THEN Panic("Illegal FPU instruction.")
  ELSE IF active \notin hasCtx \/ inIsr
       THEN Panic("FPU instruction in thread without FPU context.")
  ELSE /\ fsOn' = TRUE
       /\ ctxF' = IF owner # NoThread THEN [ctxF EXCEPT ![owner] = hwF]
                                      ELSE ctxF
       /\ owner' = active
       /\ hwF' = ctxF[active]
       /\ hwCsr' = ctxCsr[active]
       /\ UNCHANGED <<irqVars, alive, hasCtx, active, ctxCsr, lF, lCsr, handler,
                      inIsr, fpuStat, msip, fault>>

FpuInsnTrap ==
  IF fsOn THEN Panic("Illegal FPU instruction.")
  ELSE IF active \notin hasCtx \/ inIsr
       THEN Panic("FPU instruction in thread without FPU context.")
  ELSE /\ fsOn' = TRUE
       /\ ctxF' = IF owner # NoThread THEN [ctxF EXCEPT ![owner] = hwF]
                                      ELSE ctxF
       /\ owner' = active
       /\ hwF' = ctxF'[active]
       /\ hwCsr' = ctxCsr[active]
       /\ UNCHANGED <<irqVars, alive, hasCtx, active, ctxCsr, lF, lCsr, handler,
                      inIsr, fpuStat, msip, fault>>

-----------------------------------------------------------------------------
(* handle_trap(), exception arm: an illegal-instruction trap whose word    *)
(* decodes to a floating-point class (the decoding is in InsnDecode) goes  *)
(* to fpu_insn_trap.  The faulting code is the interrupt handler while one *)
(* runs, the active thread otherwise.                                      *)

(* Code that may execute FP instructions: threads with a context, and --   *)
(* when programs misuse the FPU -- any thread and the handlers.            *)
Allowed == ~handler /\ active \in hasCtx

MayUseFpu ==
  Misuse \/ Allowed

FpInsnTrap ==
  /\ Running
  /\ ~fsOn
  /\ MayUseFpu
  /\ FpuInsnTrap

(* An FP-class word that is illegal although the FPU is on (e.g. a double  *)
(* instruction on a single-precision core) reaches fpu_insn_trap too.     *)
UnsupportedFpInsnTrap ==
  /\ Running
  /\ Misuse
  /\ fsOn
  /\ FpuInsnTrap

-----------------------------------------------------------------------------
(* handle_trap(), interrupt arm.  It is split at the call of the handler   *)
(* so that the handler's own steps (an FP instruction, a yield request)    *)
(* run in between; traps do not nest, so no other interrupt enters.  The  *)
(* trap is taken only with MIE set; the hardware moves MIE to MPIE and     *)
(* clears it, and mret moves MPIE back.  The handler has closed its own    *)
(* irq_disable sections by the time it returns.                            *)

IsrFs(fs) == FALSE           \* RV_FPU_DISABLE()

HandleTrapIsrEnter ==
  /\ Running
  /\ ~handler
  /\ mie
  /\ mpie' = mie /\ mie' = FALSE
  /\ handler' = TRUE
  /\ inIsr' = TRUE
  /\ fpuStat' = fsOn
  /\ fsOn' = IsrFs(fsOn)
  /\ UNCHANGED <<booted, reading, prev, saved, alive, hasCtx, active, owner, hwF, hwCsr, ctxF, ctxCsr,
                 lF, lCsr, msip, fault>>

HandleTrapIsrExit ==
  /\ Running
  /\ handler
  /\ ~reading[Isr] /\ saved[Isr] = <<>>
  /\ mie' = mpie /\ mpie' = TRUE
  /\ handler' = FALSE
  /\ fsOn' = (fsOn \/ fpuStat)
  /\ fpuStat' = FALSE
  /\ inIsr' = FALSE
  /\ UNCHANGED <<booted, reading, prev, saved, alive, hasCtx, active, owner, hwF, hwCsr,
                 ctxF, ctxCsr, lF, lCsr, msip, fault>>

-----------------------------------------------------------------------------
(* thread_yield_higher(): CLINT_REG(CLINT_MSIP) = 1, called by a thread    *)
(* or by an interrupt handler that woke a thread.                          *)
ThreadYieldHigher ==
  /\ Running
  /\ ~msip
  /\ msip' = TRUE
  /\ UNCHANGED <<irqVars, alive, hasCtx, active, fsOn, owner, hwF, hwCsr, ctxF,
                 ctxCsr, lF, lCsr, handler, inIsr, fpuStat, fault>>

(* The software-interrupt trap: trap-entry assembly clears MSIP and        *)
(* switches to the thread the scheduler picks (section 5 of the spec).    *)
(* Whether it also turns the FPU off is the constant SwitchClearsFs.  It  *)
(* is an interrupt: taken only with MIE set, which its mret restores.     *)
SwitchContext ==
  /\ Running
  /\ ~handler
  /\ mie
  /\ msip
  /\ msip' = FALSE
  /\ \E t \in alive : active' = t
  /\ fsOn' = (fsOn /\ ~SwitchClearsFs)
  /\ UNCHANGED <<irqVars, alive, hasCtx, owner, hwF, hwCsr, ctxF, ctxCsr, lF, lCsr,
                 handler, inIsr, fpuStat, fault>>

(* The thread functions of kernel_init: idle_thread loops on             *)
(* pm_set_lowest() for ever; main_trampoline runs auto_init and main() and *)
(* returns when main() does.  Threads created later may return too.        *)
Returns(t) == t # Idle

(* The running thread returns from its function: sched_task_exit() frees  *)
(* its pid and switches to another thread (spec section 3, lifecycle).    *)
(* Its function has returned, so its irq_disable sections are closed; the *)
(* irq_disable of sched_task_exit is undone by the irq_enable of          *)
(* cpu_switch_context_exit.                                                *)
ThreadExitPicksBeforeRemoval ==
  /\ Running
  /\ ~handler
  /\ Returns(active)
  /\ ~reading[active] /\ saved[active] = <<>>
  /\ alive' = alive \ {active}
  /\ \E t \in alive : active' = t
  /\ fsOn' = (fsOn /\ ~SwitchClearsFs)
  /\ UNCHANGED <<irqVars, hasCtx, owner, hwF, hwCsr, ctxF, ctxCsr, lF, lCsr, handler,
                 inIsr, fpuStat, msip, fault>>

ThreadExit ==
  /\ Running
  /\ ~handler
  /\ Returns(active)
  /\ ~reading[active] /\ saved[active] = <<>>
  /\ alive' = alive \ {active}
  /\ \E t \in alive' : active' = t
  /\ fsOn' = (fsOn /\ ~SwitchClearsFs)
  /\ UNCHANGED <<irqVars, hasCtx, owner, hwF, hwCsr, ctxF, ctxCsr, lF, lCsr, handler,
                 inIsr, fpuStat, msip, fault>>

-----------------------------------------------------------------------------
(* thread_fpu_context_init(fc, pid), called when a thread is created on    *)
(* pid p, with or without a context.                                       *)

ThreadFpuContextInitKeepsOwner(p, withCtx) ==
  /\ owner' = owner
  /\ ctxF' = IF withCtx THEN [ctxF EXCEPT ![p] = Zero] ELSE ctxF
  /\ ctxCsr' = IF withCtx THEN [ctxCsr EXCEPT ![p] = Zero] ELSE ctxCsr

ThreadFpuContextInit(p, withCtx) ==
  /\ owner' = IF owner # NoThread /\ owner = p THEN NoThread ELSE owner
  /\ ctxF' = IF withCtx THEN [ctxF EXCEPT ![p] = Zero] ELSE ctxF
  /\ ctxCsr' = IF withCtx THEN [ctxCsr EXCEPT ![p] = Zero] ELSE ctxCsr

(* thread_create / thread_create_with_fp on a free pid. *)
ThreadCreate(p, withCtx) ==
  /\ Running
  /\ ~handler
  /\ p \notin alive
  /\ alive' = alive \cup {p}
  /\ hasCtx' = IF withCtx THEN hasCtx \cup {p} ELSE hasCtx \ {p}
  /\ ThreadFpuContextInit(p, withCtx)
  /\ lF' = [lF EXCEPT ![p] = Zero]
  /\ lCsr' = [lCsr EXCEPT ![p] = Zero]
  /\ UNCHANGED <<irqVars, active, fsOn, hwF, hwCsr, handler, inIsr, fpuStat, msip,
                 fault>>

-----------------------------------------------------------------------------
(* irq_enable(): set_csr(mstatus, MSTATUS_MIE); the previous state it    *)
(* returns is dropped by its only caller below.                            *)
irq_enable == mie' = TRUE

(* cpu_switch_context_exit() at the end of kernel_init: irq_enable(), then *)
(* thread_yield() switches to the thread sched_run picks.                  *)
CpuSwitchContextExit ==
  /\ ~booted
  /\ booted' = TRUE
  /\ irq_enable
  /\ \E t \in alive : active' = t
  /\ UNCHANGED <<mpie, reading, prev, saved, alive, hasCtx, fsOn, owner, hwF, hwCsr,
                 ctxF, ctxCsr, lF, lCsr, handler, inIsr, fpuStat, msip, fault>>

(* irq_disable(), called by a thread or a handler, in its two CSR accesses: *)
(* previous_state = read_csr(mstatus) & MSTATUS_MIE, then                  *)
(* clear_csr(mstatus, MSTATUS_MIE).  An interrupt may come between them.  *)
(* The caller keeps previous_state for the irq_restore that closes the    *)
(* section.                                                                *)
IrqDisableReadAfterClear ==
  /\ Running
  /\ ~reading[Cur] /\ Len(saved[Cur]) < MaxNest
  /\ reading' = [reading EXCEPT ![Cur] = TRUE]
  /\ prev' = [prev EXCEPT ![Cur] = FALSE]
  /\ UNCHANGED <<booted, mie, mpie, saved, alive, hasCtx, active, fsOn, owner,
                 hwF, hwCsr, ctxF, ctxCsr, lF, lCsr, handler, inIsr, fpuStat,
                 msip, fault>>

IrqDisableRead ==
  /\ Running
  /\ ~reading[Cur] /\ Len(saved[Cur]) < MaxNest
  /\ reading' = [reading EXCEPT ![Cur] = TRUE]
  /\ prev' = [prev EXCEPT ![Cur] = mie]
  /\ UNCHANGED <<booted, mie, mpie, saved, alive, hasCtx, active, fsOn, owner,
                 hwF, hwCsr, ctxF, ctxCsr, lF, lCsr, handler, inIsr, fpuStat,
                 msip, fault>>

IrqDisableClear ==
  /\ Running
  /\ reading[Cur]
  /\ mie' = FALSE
  /\ saved' = [saved EXCEPT ![Cur] = Append(@, prev[Cur])]
  /\ reading' = [reading EXCEPT ![Cur] = FALSE]
  /\ UNCHANGED <<booted, mpie, prev, alive, hasCtx, active, fsOn, owner, hwF, hwCsr,
                 ctxF, ctxCsr, lF, lCsr, handler, inIsr, fpuStat, msip, fault>>

(* irq_restore(state) closing the innermost section: set MIE if           *)
(* state & MSTATUS_MIE, clear it otherwise (one CSR access).              *)
IrqRestoreAlwaysSet ==
  /\ Running
  /\ ~reading[Cur] /\ saved[Cur] # <<>>
  /\ mie' = TRUE
  /\ saved' = [saved EXCEPT ![Cur] = SubSeq(@, 1, Len(@) - 1)]
  /\ UNCHANGED <<booted, mpie, reading, prev, alive, hasCtx, active, fsOn, owner, hwF,
                 hwCsr, ctxF, ctxCsr, lF, lCsr, handler, inIsr, fpuStat, msip,
                 fault>>

IrqRestore ==
  /\ Running
  /\ ~reading[Cur] /\ saved[Cur] # <<>>
  /\ mie' = saved[Cur][Len(saved[Cur])]
  /\ saved' = [saved EXCEPT ![Cur] = SubSeq(@, 1, Len(@) - 1)]
  /\ UNCHANGED <<booted, mpie, reading, prev, alive, hasCtx, active, fsOn, owner, hwF,
                 hwCsr, ctxF, ctxCsr, lF, lCsr, handler, inIsr, fpuStat, msip,
                 fault>>

-----------------------------------------------------------------------------
(* The program's own FP instructions, executed while the FPU is on.  A     *)
(* thread's writes are recorded in the history; a handler's are not (it    *)
(* has no FP state of its own).                                            *)

FpWrite(v) ==
  /\ Running
  /\ fsOn
  /\ MayUseFpu
  /\ hwF' = v
  /\ lF' = IF handler THEN lF ELSE [lF EXCEPT ![active] = v]
  /\ UNCHANGED <<irqVars, alive, hasCtx, active, fsOn, owner, hwCsr, ctxF, ctxCsr,
                 lCsr, handler, inIsr, fpuStat, msip, fault>>

FcsrWrite(c) ==
  /\ Running
  /\ fsOn
  /\ MayUseFpu
  /\ hwCsr' = c
  /\ lCsr' = IF handler THEN lCsr ELSE [lCsr EXCEPT ![active] = c]
  /\ UNCHANGED <<irqVars, alive, hasCtx, active, fsOn, owner, hwF, ctxF, ctxCsr,
                 lF, handler, inIsr, fpuStat, msip, fault>>

--------------------------------------------------------------------
Next ==
  \/ CpuSwitchContextExit
  \/ IrqDisableRead
  \/ IrqDisableClear
  \/ IrqRestore
  \/ FpInsnTrap
  \/ UnsupportedFpInsnTrap
  \/ HandleTrapIsrEnter
  \/ HandleTrapIsrExit
  \/ ThreadYieldHigher
  \/ SwitchContext
  \/ ThreadExit
  \/ \E p \in Pids \ {Idle}, w \in BOOLEAN : ThreadCreate(p, w)
  \/ \E v \in FpVals : FpWrite(v)
  \/ \E c \in CsrVals : FcsrWrite(c)

(* irq_restore closing the outermost open section of the running code. *)
CloseSection == IrqRestore /\ Len(saved[Cur]) = 1

(* The boot hands over to the first thread; a started irq_disable reaches *)
(* its clear; code in a critical section leaves it (RIOT's sections are   *)
(* short, so the outermost one closes even if inner ones open and close   *)
(* again); a handler runs to its end; and a pending software interrupt   *)
(* is taken whenever MIE allows it -- the core takes an enabled pending   *)
(* interrupt at once, but MIE may be set only now and then, hence strong  *)
(* fairness.  Nothing obliges a thread to use the FPU, yield, create a    *)
(* thread or exit.                                                        *)
Fairness ==
  /\ WF_vars(CpuSwitchContextExit)
  /\ WF_vars(IrqDisableClear)
  /\ WF_vars(IrqRestore)
  /\ SF_vars(CloseSection)
  /\ SF_vars(HandleTrapIsrExit)
  /\ SF_vars(SwitchContext)

Spec == Init /\ [][Next]_vars /\ Fairness

-----------------------------------------------------------------------------
TypeOK ==
  /\ alive \subseteq Pids /\ Idle \in alive
  /\ hasCtx \subseteq Pids
  /\ active \in alive
  /\ fsOn \in BOOLEAN
  /\ owner \in Pids \cup {NoThread}
  /\ hwF \in FpVals /\ hwCsr \in CsrVals
  /\ ctxF \in [Pids -> FpVals] /\ ctxCsr \in [Pids -> CsrVals]
  /\ lF \in [Pids -> FpVals] /\ lCsr \in [Pids -> CsrVals]
  /\ handler \in BOOLEAN /\ inIsr \in BOOLEAN /\ fpuStat \in BOOLEAN /\ msip \in BOOLEAN
  /\ fault \in {"none", "Illegal FPU instruction.",
                "FPU instruction in thread without FPU context."}
  /\ booted \in BOOLEAN /\ mie \in BOOLEAN /\ mpie \in BOOLEAN
  /\ reading \in [Ctx -> BOOLEAN] /\ prev \in [Ctx -> BOOLEAN]
  /\ \A c \in Ctx : saved[c] \in Seq(BOOLEAN) /\ Len(saved[c]) <= MaxNest

(* Every living thread with an FPU context finds its FP registers where    *)
(* the lazy scheme keeps them: in the hardware while it owns the FPU, in   *)
(* its fpu_context otherwise -- and they hold what the thread last wrote.  *)
(* This is what fpu_insn_trap's save/load, the FS handling of handle_trap  *)
(* and the disowning in thread_fpu_context_init together must ensure.      *)
FpStateIntact ==
  \A t \in alive \cap hasCtx :
    IF owner = t THEN hwF = lF[t] ELSE ctxF[t] = lF[t]

(* The same for fcsr (rounding mode and accrued exception flags). *)
FcsrIntact ==
  \A t \in alive \cap hasCtx :
    IF owner = t THEN hwCsr = lCsr[t] ELSE ctxCsr[t] = lCsr[t]

(* Spec section 3: fpu_owner_thread is NULL or a thread whose fpucontext   *)
(* is present, also after its pid was reused by thread_create.             *)
OwnerHasContext ==
  owner = NoThread \/ owner \in hasCtx

(* Spec section 3 read strictly: when fpu_insn_trap moves the ownership,  *)
(* the previous owner whose registers it stores through                   *)
(* fpu_owner_thread->fpucontext is a living thread -- the store never      *)
(* goes to the context of a thread that has exited.                        *)
SaveTargetsLiveThread ==
  [][owner # NoThread /\ owner' \notin {owner, NoThread} => owner \in alive]_vars

(* A switch requested by thread_yield_higher -- by a thread, inside its  *)
(* critical section, or by an interrupt handler -- is eventually taken,   *)
(* unless the core has panicked: irq_restore, the mret of handle_trap and *)
(* cpu_switch_context_exit must between them set MIE again for the        *)
(* software interrupt to come in.                                          *)
SwitchServed == msip ~> (~msip \/ fault # "none")

(* Interrupts are off exactly inside critical sections: a handler (and    *)
(* the context switch) never runs while the thread it interrupts is inside *)
(* an irq_disable section, interrupts stay off for the whole handler even  *)
(* when it opens and closes sections of its own, and a thread outside any *)
(* section runs with interrupts on, and the previous_state irq_disable    *)
(* read is still MIE's value when it clears it -- across nested sections,  *)
(* a handler or a switch between the read and the clear, and the boot      *)
(* hand-over of cpu_switch_context_exit.                                   *)
IrqStateConsistent ==
  Running =>
    /\ handler => ~mie /\ saved[active] = <<>>
    /\ ~handler => (mie <=> saved[active] = <<>>)
    /\ \A t \in alive \ {active} : saved[t] = <<>>
    /\ reading[Cur] => prev[Cur] = mie
=============================================================================

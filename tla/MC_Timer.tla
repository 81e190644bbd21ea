------------------------------ MODULE MC_Timer ------------------------------
(***************************************************************************)
(* Both builds of src/cpu/riscv_common/periph/timer.c in one run.  A       *)
(* behaviour is one build, fixed at boot: on RV64 the whole driver with    *)
(* its hardware (CoreTimer), on RV32 the hi/lo access paths to the 64-bit  *)
(* CLINT registers (Timer32).  The variables of the other build keep one   *)
(* fixed value, so the state space is the sum of the two.                  *)
(*                                                                         *)
(* RV64 bounds: five ticks, a spin budget of one, so that a spurious trap  *)
(* can land both far from the deadline (early return) and close to it     *)
(* (spin until it is reached); timeouts 0 (already due), 1 and 3 (far      *)
(* enough to be preempted by a spurious trap).  RV32 bounds: halves of two *)
(* bits, a 4-bit counter with three carries into the high half, every      *)
(* start value and every comparator value.                                 *)
(***************************************************************************)
EXTENDS CoreTimer

VARIABLES
  build,     \* __riscv_xlen of the image
  t_mtime, t_cmpHi, t_cmpLo, t_pc, t_highA, t_low, t_highB, t_result,
  t_start, t_target, t_oldCmp

MCMaxTime == 5
MCSpin == 1
MCTimeouts == {0, 1, 3}

T32 == INSTANCE Timer32 WITH
  W <- 2, mtime <- t_mtime, cmpHi <- t_cmpHi, cmpLo <- t_cmpLo, pc <- t_pc,
  highA <- t_highA, low <- t_low, highB <- t_highB, result <- t_result,
  start <- t_start, target <- t_target, oldCmp <- t_oldCmp

tvars == <<t_mtime, t_cmpHi, t_cmpLo, t_pc, t_highA, t_low, t_highB,
           t_result, t_start, t_target, t_oldCmp>>
allVars == <<build, vars, tvars>>

MCInit ==
  /\ build \in {32, 64}
  /\ Init
  /\ T32!Init
  /\ build = 64 => t_mtime = 0 /\ t_cmpHi = 0 /\ t_cmpLo = 0

MCNext ==
  \/ build = 64 /\ Next /\ UNCHANGED <<build, tvars>>
  \/ build = 32 /\ T32!Next /\ UNCHANGED <<build, vars>>

(* CoreTimer's fairness, for the RV64 build; the RV32 paths need none. *)
Rv64(A) == build = 64 /\ A /\ UNCHANGED <<build, tvars>>

MCFairness ==
  /\ WF_allVars(Rv64(Tick))
  /\ WF_allVars(Rv64(TimerIrq))
  /\ WF_allVars(Rv64(IsrStep))
  /\ WF_allVars(Rv64(TimerSetWrite))

MCSpec == MCInit /\ [][MCNext]_allVars /\ MCFairness

(* Both builds' variables have their types. *)
TimerTypeOK == build \in {32, 64} /\ TypeOK /\ T32!TypeOK

(* The RV32 build's properties (module Timer32): the hi/lo/hi read of      *)
(* read_time_csr never returns a torn value across a carry, and the        *)
(* three-store comparator write raises no spurious MTIP.                   *)
ReadNotTorn == T32!ReadNotTorn

WriteRaisesNoMtip == T32!WriteRaisesNoMtip

(* The refinement mapping: the API's time is mtime; its alarm is the       *)
(* deadline last programmed until timer_isr takes the deadline path for   *)
(* it; the timer runs unless timer_stop was the last call.  The RV32 build *)
(* models no API call: it is an idle alarm at the end of time.            *)
AlarmAbs == INSTANCE Alarm WITH
  now <- IF build = 64 THEN mtime ELSE MaxTime,
  alarm <- IF build = 64 /\ fires = 0 THEN deadline ELSE NoDeadline,
  enabled <- build = 32 \/ ~stopped

(* The driver with its hardware implements the timer API's promise         *)
(* (Alarm): every step of the client calls, timer_isr and the callback is  *)
(* an alarm step -- in particular the callback runs only for an armed,     *)
(* due deadline and never after timer_stop until a timer_start or a new    *)
(* timer_set -- and under the code's fairness a due alarm of a running     *)
(* timer fires.                                                            *)
AlarmRefined == AlarmAbs!Spec
=============================================================================

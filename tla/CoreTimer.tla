----------------------------- MODULE CoreTimer -----------------------------
(***************************************************************************)
(* The RISC-V core timer driver (src/cpu/riscv_common/periph/timer.c) on a *)
(* 64-bit core, together with the CLINT hardware it drives: the free-      *)
(* running counter mtime, the comparator mtimecmp and the interrupt-enable *)
(* bit mie.MTIE.  The pending bit MTIP is level-sensitive: it is set while *)
(* mtime >= mtimecmp.  The hardware may in addition raise a timer trap     *)
(* that has no pending condition behind it (the spurious interrupt the     *)
(* driver's spin loop filters).                                            *)
(*                                                                         *)
(* One client thread calls the driver API; the callback registered by      *)
(* timer_init runs inside timer_isr and may re-arm the timer, as the       *)
(* periodic wake-up of the xtimer layer does.  While timer_isr runs, no    *)
(* thread step happens (traps do not nest and the handler runs to its     *)
(* end), but mtime keeps counting.                                         *)
(*                                                                         *)
(* 64-bit arithmetic cannot wrap within MaxTime ticks, so times are        *)
(* naturals; the all-ones comparator value is CmpMax, larger than every    *)
(* time the model reaches plus the spin budget.                            *)
(***************************************************************************)
EXTENDS Naturals

CONSTANTS
  MaxTime,    \* bound on mtime (the counter stops here in the model)
  Spin,       \* SPURIOUS_TIMER_ISR_MAX_SPIN
  Timeouts    \* relative timeouts the client passes to timer_set

ASSUME MaxTime \in Nat /\ Spin \in Nat /\ Timeouts \subseteq Nat

CmpMax == MaxTime + Spin + 1    \* 0xFFFFFFFFFFFFFFFF
NoDeadline == CmpMax

VARIABLES
  mtime,      \* CLINT mtime
  mtimecmp,   \* CLINT mtimecmp
  mtie,       \* mie.MTIP, the timer interrupt enable
  cbSet,      \* isr_cb != NULL (timer_init has run)
  isrPc,      \* where timer_isr is: "none" (not running), "loop", "cb", "tail"
  now,        \* timer_isr's local now
  timecmp,    \* timer_isr's local timecmp
  clientPc,   \* "idle" or "set" (between the two halves of timer_set)
  clientThen, \* timer_set's local then
  deadline,   \* history: the deadline last programmed, or NoDeadline
  fires,      \* history: times timer_isr took the deadline path since it was
              \* programmed (saturates at 2)
  stopped     \* history: timer_stop was the client's last call

vars == <<mtime, mtimecmp, mtie, cbSet, isrPc, now, timecmp, clientPc,
          clientThen, deadline, fires, stopped>>

hwVars == <<mtime, mtimecmp, mtie>>
isrVars == <<isrPc, now, timecmp>>
clientVars == <<clientPc, clientThen>>

(* MTIP as the CLINT computes it. *)
Mtip == mtime >= mtimecmp

InIsr == isrPc # "none"

(* The 64-bit accessors of the CLINT registers, each one bus access. *)
read_time_csr == mtime

read_mtimecmp == mtimecmp

set_max_mtimecmp == mtimecmp' = CmpMax

(* *mtimecmp = *mtimecmp: the comparator keeps its value. *)
clear_mtip == mtimecmp' = mtimecmp

Init ==
  /\ mtime = 0
  /\ mtimecmp = CmpMax     \* cpu_init: *mtimecmp = 0xFFFFFFFFFFFFFFFF
  /\ mtie = TRUE           \* cpu_init: set_csr(mie, MIP_MTIP)
  /\ cbSet = FALSE
  /\ isrPc = "none"
  /\ now = 0
  /\ timecmp = 0
  /\ clientPc = "idle"
  /\ clientThen = 0
  /\ deadline = NoDeadline
  /\ fires = 0
  /\ stopped = FALSE

-----------------------------------------------------------------------------
(* The counter. *)
Tick ==
  /\ mtime < MaxTime
  /\ mtime' = mtime + 1
  /\ UNCHANGED <<mtimecmp, mtie, cbSet, isrVars, clientVars, deadline,
                 fires, stopped>>

(* A new comparator value: the history records it as the armed deadline. *)
Program(value) ==
  /\ mtimecmp' = value
  /\ deadline' = value
  /\ fires' = 0

-----------------------------------------------------------------------------
(* Client calls (dev 0, channel 0; other devices return -1 and change     *)
(* nothing).                                                               *)

(* timer_init(0, RV_CORE_TIMER_FREQ, cb, arg): store the callback. *)
TimerInit ==
  /\ ~InIsr /\ clientPc = "idle"
  /\ cbSet' = TRUE
  /\ UNCHANGED <<hwVars, isrVars, clientVars, deadline, fires, stopped>>

(* timer_set, first half: now = read_time_csr(); then = now + timeout.    *)
(* The timer interrupt is still enabled here, so timer_isr may run        *)
(* before the second half.                                                 *)
TimerSetReadCmp(timeout) ==
  /\ ~InIsr /\ clientPc = "idle"
  /\ mtime + timeout <= MaxTime
  /\ clientThen' = mtimecmp + timeout
  /\ clientPc' = "set"
  /\ UNCHANGED <<hwVars, cbSet, isrVars, deadline, fires, stopped>>

TimerSetRead(timeout) ==
  /\ ~InIsr /\ clientPc = "idle"
  /\ mtime + timeout <= MaxTime
  /\ clientThen' = read_time_csr + timeout
  /\ clientPc' = "set"
  /\ UNCHANGED <<hwVars, cbSet, isrVars, deadline, fires, stopped>>

(* timer_set, second half: mask MTIE, write the comparator, unmask.  With *)
(* MTIE masked no timer trap can come between the three writes.           *)
TimerSetWrite ==
  /\ ~InIsr /\ clientPc = "set"
  /\ Program(clientThen)
  /\ mtie' = TRUE
  /\ clientPc' = "idle"
  /\ stopped' = FALSE
  /\ UNCHANGED <<mtime, cbSet, isrVars, clientThen>>

(* timer_set_absolute(0, 0, value). *)
TimerSetAbsolute(value) ==
  /\ ~InIsr /\ clientPc = "idle"
  /\ Program(value)
  /\ mtie' = TRUE
  /\ stopped' = FALSE
  /\ UNCHANGED <<mtime, cbSet, isrVars, clientVars>>

(* timer_start / timer_stop: set or clear MTIE, comparator untouched. *)
TimerStart ==
  /\ ~InIsr /\ clientPc = "idle"
  /\ mtie' = TRUE
  /\ stopped' = FALSE
  /\ UNCHANGED <<mtime, mtimecmp, cbSet, isrVars, clientVars, deadline, fires>>

TimerStopKeepsMask ==
  /\ ~InIsr /\ clientPc = "idle"
  /\ mtie' = mtie
  /\ stopped' = TRUE
  /\ UNCHANGED <<mtime, mtimecmp, cbSet, isrVars, clientVars, deadline, fires>>

TimerStop ==
  /\ ~InIsr /\ clientPc = "idle"
  /\ mtie' = FALSE
  /\ stopped' = TRUE
  /\ UNCHANGED <<mtime, mtimecmp, cbSet, isrVars, clientVars, deadline, fires>>

-----------------------------------------------------------------------------
(* handle_trap dispatching IRQ_M_TIMER to timer_isr, and timer_isr's first *)
(* lines: read mtime and mtimecmp, clear MTIE.  The trap is taken when     *)
(* MTIE is set and MTIP is pending (TimerIrq) or, spuriously, without a   *)
(* pending MTIP (SpuriousTimerIrq).                                        *)
TimerIsrEntryAlwaysDue ==
  /\ isrPc' = "loop"
  /\ now' = mtime
  /\ timecmp' = 0
  /\ mtie' = FALSE
  /\ UNCHANGED <<mtime, mtimecmp, cbSet, clientVars, deadline, fires, stopped>>

TimerIsrEntry ==
  /\ isrPc' = "loop"
  /\ now' = read_time_csr
  /\ timecmp' = read_mtimecmp
  /\ mtie' = FALSE
  /\ UNCHANGED <<mtime, mtimecmp, cbSet, clientVars, deadline, fires, stopped>>

TimerIrq ==
  /\ ~InIsr /\ mtie /\ Mtip
  /\ TimerIsrEntry

SpuriousTimerIrq ==
  /\ ~InIsr /\ mtie /\ ~Mtip
  /\ TimerIsrEntry

(* One turn of  while (now < timecmp) { now = read_time_csr();            *)
(* if (now + SPIN < timecmp) { clear_mtip(); set MTIE; return; } }        *)
TimerIsrSpuriousKeepsMask ==
  /\ isrPc = "loop" /\ now < timecmp
  /\ now' = mtime
  /\ IF mtime + Spin < timecmp
       THEN isrPc' = "none" /\ mtie' = mtie
       ELSE isrPc' = "loop" /\ mtie' = mtie
  /\ UNCHANGED <<mtime, mtimecmp, cbSet, timecmp, clientVars, deadline,
                 fires, stopped>>

TimerIsrSpin ==
  /\ isrPc = "loop" /\ now < timecmp
  /\ now' = read_time_csr
  /\ IF read_time_csr + Spin < timecmp
       THEN clear_mtip /\ isrPc' = "none" /\ mtie' = TRUE
       ELSE mtimecmp' = mtimecmp /\ isrPc' = "loop" /\ mtie' = mtie
  /\ UNCHANGED <<mtime, cbSet, timecmp, clientVars, deadline,
                 fires, stopped>>

(* The loop is left with now >= timecmp: set_max_mtimecmp(), then call    *)
(* the callback if one is registered.                                      *)
TimerIsrFireKeepsCmp ==
  /\ isrPc = "loop" /\ now >= timecmp
  /\ mtimecmp' = mtimecmp
  /\ isrPc' = IF cbSet THEN "cb" ELSE "tail"
  /\ fires' = IF fires < 2 THEN fires + 1 ELSE fires
  /\ UNCHANGED <<mtime, mtie, cbSet, now, timecmp, clientVars, deadline,
                 stopped>>

TimerIsrFire ==
  /\ isrPc = "loop" /\ now >= timecmp
  /\ set_max_mtimecmp
  /\ isrPc' = IF cbSet THEN "cb" ELSE "tail"
  /\ fires' = IF fires < 2 THEN fires + 1 ELSE fires
  /\ UNCHANGED <<mtime, mtie, cbSet, now, timecmp, clientVars, deadline,
                 stopped>>

(* The callback: returns, or re-arms through timer_set_absolute or         *)
(* timer_set (both run to their end here: no trap nests).                  *)
CallbackReturn ==
  /\ isrPc = "cb"
  /\ isrPc' = "tail"
  /\ UNCHANGED <<hwVars, cbSet, now, timecmp, clientVars, deadline, fires,
                 stopped>>

CallbackRearm(value) ==
  /\ isrPc = "cb"
  /\ Program(value)
  /\ mtie' = TRUE
  /\ stopped' = FALSE
  /\ isrPc' = "tail"
  /\ UNCHANGED <<mtime, cbSet, now, timecmp, clientVars>>

(* set_csr(mie, MIP_MTIP) at the end of timer_isr. *)
TimerIsrTail ==
  /\ isrPc = "tail"
  /\ mtie' = TRUE
  /\ isrPc' = "none"
  /\ UNCHANGED <<mtime, mtimecmp, cbSet, now, timecmp, clientVars, deadline,
                 fires, stopped>>

-----------------------------------------------------------------------------
IsrStep ==
  \/ TimerIsrSpin
  \/ TimerIsrFire
  \/ CallbackReturn
  \/ TimerIsrTail

Next ==
  \/ Tick
  \/ TimerInit
  \/ \E t \in Timeouts : TimerSetRead(t)
  \/ TimerSetWrite
  \/ \E v \in 0..MaxTime : TimerSetAbsolute(v)
  \/ TimerStart
  \/ TimerStop
  \/ TimerIrq
  \/ SpuriousTimerIrq
  \/ IsrStep
  \/ \E v \in 0..MaxTime : CallbackRearm(v)

(* The counter always runs; a pending, enabled interrupt is taken (thread  *)
(* code runs with interrupts on); timer_isr and a started timer_set run    *)
(* to their end.  The client is under no obligation to call anything.     *)
Fairness ==
  /\ WF_vars(Tick)
  /\ WF_vars(TimerIrq)
  /\ WF_vars(IsrStep)
  /\ WF_vars(TimerSetWrite)

Spec == Init /\ [][Next]_vars /\ Fairness

-----------------------------------------------------------------------------
TypeOK ==
  /\ mtime \in 0..MaxTime
  /\ mtimecmp \in 0..MaxTime \cup {CmpMax}
  /\ mtie \in BOOLEAN /\ cbSet \in BOOLEAN
  /\ isrPc \in {"none", "loop", "cb", "tail"}
  /\ now \in 0..MaxTime /\ timecmp \in 0..MaxTime \cup {CmpMax}
  /\ clientPc \in {"idle", "set"} /\ clientThen \in 0..MaxTime
  /\ deadline \in 0..MaxTime \cup {NoDeadline}
  /\ fires \in 0..2 /\ stopped \in BOOLEAN

(* timer_isr never takes the deadline path (set_max_mtimecmp and the      *)
(* callback) before mtime has reached the programmed deadline, even when   *)
(* the timer trap comes spuriously early (the spin loop's job).            *)
NoEarlyCallback ==
  [][fires' > fires => mtime >= deadline]_vars

(* A programmed deadline is served at most once: set_max_mtimecmp() must   *)
(* clear the level-sensitive MTIP before MTIE is set again.               *)
AtMostOneCallback ==
  fires <= 1

(* A deadline that is programmed while the timer runs is eventually served *)
(* by timer_isr, unless the client stops the timer or programs another     *)
(* deadline first.                                                         *)
DeadlineServed ==
  \A d \in 0..MaxTime :
    (deadline = d /\ fires = 0 /\ ~stopped)
      ~> (fires > 0 \/ deadline # d \/ stopped)

=============================================================================

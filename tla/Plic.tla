------------------------------- MODULE Plic -------------------------------
(***************************************************************************)
(* The external-interrupt router (src/cpu/sifive_common/plic/riscv_plic.c) *)
(* and the PLIC it drives.  A device raises a request at its gateway; the  *)
(* request is pending until the core claims it; the claimed source is in   *)
(* service until the completion for its id, and the gateway forwards no    *)
(* further request of that source before then.  The claim returns the     *)
(* highest-priority pending enabled source (the lowest id among equals),   *)
(* or 0 when none is pending any more.                                     *)
(*                                                                         *)
(* The hardware may have sources whose ids lie outside the handler table   *)
(* _ext_isrs[PLIC_NUM_INTERRUPTS]; the router must still complete them.   *)
(***************************************************************************)
EXTENDS Naturals, FiniteSets

CONSTANTS
  Sources,         \* source ids the hardware has (1..)
  NumInterrupts,   \* PLIC_NUM_INTERRUPTS, the size of _ext_isrs
  Prio,            \* priority of each source
  Handlers,        \* callbacks drivers register
  NullIsr,         \* null_isr
  MaxRaise         \* requests each device raises at most

ASSUME Sources \subseteq Nat \ {0} /\ NumInterrupts \in Nat
ASSUME Prio \in [Sources -> Nat \ {0}] /\ NullIsr \in Handlers
ASSUME MaxRaise \in Nat

VARIABLES
  table,       \* _ext_isrs
  enabled,     \* PLIC enable bits
  pending,     \* PLIC pending bits
  inService,   \* claimed and not yet completed
  isrPc,       \* rv_plic_hanlde_isr: "none", "dispatch", "complete"
  intNum,      \* its local intNum
  raised,      \* history: requests raised per source
  calls        \* history: callback invocations per source

vars == <<table, enabled, pending, inService, isrPc, intNum, raised, calls>>

TableIds == 0..(NumInterrupts - 1)

(* The PLIC claim register: highest priority first, then lowest id. *)
Claimable == pending \cap enabled

ClaimId ==
  IF Claimable = {} THEN 0
  ELSE CHOOSE s \in Claimable :
         \A t \in Claimable : Prio[t] < Prio[s] \/ (Prio[t] = Prio[s] /\ s <= t)

(* rv_plic_init(): every slot holds null_isr. *)
Init ==
  /\ table = [i \in TableIds |-> NullIsr]
  /\ enabled = {}
  /\ pending = {}
  /\ inService = {}
  /\ isrPc = "none"
  /\ intNum = 0
  /\ raised = [s \in Sources |-> 0]
  /\ calls = [s \in Sources |-> 0]

-----------------------------------------------------------------------------
(* set_external_isr_cb(intNum, cbFunc): out-of-range ids are dropped. *)
SetExternalIsrCbUnchecked(i, cb) ==
  /\ isrPc = "none"
  /\ table' = [j \in DOMAIN table \cup {i} |-> IF j = i THEN cb ELSE table[j]]
  /\ UNCHANGED <<enabled, pending, inService, isrPc, intNum, raised, calls>>

SetExternalIsrCb(i, cb) ==
  /\ isrPc = "none"
  /\ table' = IF i > 0 /\ i < NumInterrupts THEN [table EXCEPT ![i] = cb]
                                            ELSE table
  /\ UNCHANGED <<enabled, pending, inService, isrPc, intNum, raised, calls>>

(* PLIC_enable_interrupt / PLIC_disable_interrupt, from driver code. *)
EnableInterrupt(s) ==
  /\ isrPc = "none"
  /\ enabled' = enabled \cup {s}
  /\ UNCHANGED <<table, pending, inService, isrPc, intNum, raised, calls>>

DisableInterrupt(s) ==
  /\ isrPc = "none"
  /\ enabled' = enabled \ {s}
  /\ UNCHANGED <<table, pending, inService, isrPc, intNum, raised, calls>>

(* A device raises a request; the gateway holds it while the source is in *)
(* service.                                                                *)
Raise(s) ==
  /\ raised[s] < MaxRaise
  /\ s \notin pending \cup inService
  /\ pending' = pending \cup {s}
  /\ raised' = [raised EXCEPT ![s] = @ + 1]
  /\ UNCHANGED <<table, enabled, inService, isrPc, intNum, calls>>

-----------------------------------------------------------------------------
(* handle_trap's IRQ_M_EXT arm calls rv_plic_hanlde_isr, which claims:     *)
(* intNum = PLIC_claim_interrupt().  MEIP is taken while a claimable      *)
(* request exists; a late MEIP (the source was disabled meanwhile) claims  *)
(* 0.                                                                      *)
Claim ==
  /\ isrPc' = "dispatch"
  /\ intNum' = ClaimId
  /\ pending' = pending \ {ClaimId}
  /\ inService' = IF ClaimId = 0 THEN inService ELSE inService \cup {ClaimId}
  /\ UNCHANGED <<table, enabled, raised, calls>>

ExtIrq ==
  /\ isrPc = "none" /\ Claimable # {}
  /\ Claim

LateExtIrq ==
  /\ isrPc = "none" /\ Claimable = {}
  /\ Claim

(* if ((intNum > 0) && (intNum < PLIC_NUM_INTERRUPTS))                      *)
(*     _ext_isrs[intNum](intNum);                                          *)
DispatchInRangeInclusive(i) == i > 0 /\ i <= NumInterrupts

DispatchInRangeFromTwo(i) == i > 1 /\ i < NumInterrupts

DispatchInRange(i) == i > 0 /\ i < NumInterrupts

Dispatch ==
  /\ isrPc = "dispatch"
  /\ calls' = IF DispatchInRange(intNum)
                THEN [calls EXCEPT ![intNum] = @ + 1] ELSE calls
  /\ isrPc' = "complete"
  /\ UNCHANGED <<table, enabled, pending, inService, intNum, raised>>

(* PLIC_complete_interrupt(intNum), whatever intNum is. *)
CompleteInRangeOnly ==
  /\ isrPc = "complete"
  /\ inService' = IF DispatchInRange(intNum) THEN inService \ {intNum}
                                             ELSE inService
  /\ isrPc' = "none"
  /\ UNCHANGED <<table, enabled, pending, intNum, raised, calls>>

Complete ==
  /\ isrPc = "complete"
  /\ inService' = inService \ {intNum}
  /\ isrPc' = "none"
  /\ UNCHANGED <<table, enabled, pending, intNum, raised, calls>>

-----------------------------------------------------------------------------
Next ==
  \/ \E i \in 0..NumInterrupts, cb \in Handlers : SetExternalIsrCb(i, cb)
  \/ \E s \in Sources : EnableInterrupt(s) \/ DisableInterrupt(s) \/ Raise(s)
  \/ ExtIrq \/ LateExtIrq
  \/ Dispatch \/ Complete

(* MEIP is level-sensitive and thread code runs with interrupts on; the    *)
(* router runs to its end.  Drivers and devices owe nothing.               *)
Fairness ==
  /\ WF_vars(ExtIrq)
  /\ WF_vars(Dispatch)
  /\ WF_vars(Complete)

Spec == Init /\ [][Next]_vars /\ Fairness

-----------------------------------------------------------------------------
TypeOK ==
  /\ table \in [TableIds -> Handlers]
  /\ enabled \subseteq Sources /\ pending \subseteq Sources
  /\ inService \subseteq Sources
  /\ isrPc \in {"none", "dispatch", "complete"}
  /\ intNum \in Sources \cup {0}
  /\ raised \in [Sources -> 0..MaxRaise] /\ calls \in [Sources -> 0..MaxRaise]

(* Each request reaches the callback table at most once, and a source     *)
(* outside the table is never dispatched (no read past _ext_isrs).        *)
DispatchBounded ==
  \A s \in Sources :
    /\ calls[s] <= raised[s]
    /\ s \notin TableIds => calls[s] = 0

(* Between traps no source is left claimed without its completion: a     *)
(* source left in service would never interrupt again.                    *)
NothingLeftInService ==
  isrPc = "none" => inService = {}

(* Every request of an enabled source inside the table is eventually      *)
(* delivered to its callback, unless the driver disables the source.      *)
RequestDelivered ==
  \A s \in Sources : \A k \in 1..MaxRaise :
    s \in TableIds =>
      ((raised[s] = k /\ s \in enabled) ~> (calls[s] = k \/ s \notin enabled))
=============================================================================

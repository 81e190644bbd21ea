------------------------------ MODULE Timer32 ------------------------------
(***************************************************************************)
(* The 32-bit access paths of the core timer driver                        *)
(* (src/cpu/riscv_common/periph/timer.c, the #else branch of               *)
(* __riscv_xlen == 64): the 64-bit CLINT counter and comparator are seen   *)
(* as two halves, and each half is one bus access.  The counter advances   *)
(* by itself between any two accesses.                                     *)
(*                                                                         *)
(* A half is W bits wide here (32 in the hardware); the counter does not  *)
(* wrap within the model, as the 64-bit one does not within the lifetime   *)
(* of the system.                                                          *)
(***************************************************************************)
EXTENDS Naturals

CONSTANT W          \* bits per half

ASSUME W \in Nat /\ W >= 1

Half == 2^W
MaxTime == Half * Half - 1
AllOnes == Half - 1         \* 0xFFFFFFFF

Hi(t) == t \div Half
Lo(t) == t % Half

VARIABLES
  mtime,      \* the CLINT counter
  cmpHi,      \* mtimecmp[1]
  cmpLo,      \* mtimecmp[0]
  pc,         \* where the driver is in its access sequence
  highA,      \* read_time_csr's locals
  low,
  highB,
  result,     \* the value read_time_csr returned last
  start,      \* history: mtime when the current read began
  target,     \* history: the value the current comparator write stores
  oldCmp      \* history: the comparator before the current write

vars == <<mtime, cmpHi, cmpLo, pc, highA, low, highB, result, start,
          target, oldCmp>>

Cmp == cmpHi * Half + cmpLo

Writing == pc \in {"wrHi", "wrLo", "maxHi"}

Init ==
  /\ mtime \in 0..MaxTime
  /\ cmpHi \in 0..AllOnes /\ cmpLo \in 0..AllOnes
  /\ pc = "idle"
  /\ highA = 0 /\ low = 0 /\ highB = 0 /\ result = 0 /\ start = 0
  /\ target = 0 /\ oldCmp = 0

Tick ==
  /\ mtime < MaxTime
  /\ mtime' = mtime + 1
  /\ UNCHANGED <<cmpHi, cmpLo, pc, highA, low, highB, result, start,
                 target, oldCmp>>

-----------------------------------------------------------------------------
(* read_time_csr():                                                        *)
(*   do { highA = *mtimeh; low = *mtimel; highB = *mtimeh; }               *)
(*   while (highA != highB);                                               *)
(*   return ((uint64_t)highA << 32) | low;                                 *)

ReadHighA ==
  /\ pc \in {"idle", "retry"}
  /\ highA' = Hi(mtime)
  /\ start' = IF pc = "idle" THEN mtime ELSE start
  /\ pc' = "rdLo"
  /\ UNCHANGED <<mtime, cmpHi, cmpLo, low, highB, result, target, oldCmp>>

ReadLow ==
  /\ pc = "rdLo"
  /\ low' = Lo(mtime)
  /\ pc' = "rdHiB"
  /\ UNCHANGED <<mtime, cmpHi, cmpLo, highA, highB, result, start, target,
                 oldCmp>>

ReadHighBOnce ==
  /\ pc = "rdHiB"
  /\ highB' = Hi(mtime)
  /\ pc' = "idle"
  /\ result' = highA * Half + low
  /\ UNCHANGED <<mtime, cmpHi, cmpLo, highA, low, start, target, oldCmp>>

(* On return the locals (and the read's start) end with the call. *)
ReadHighB ==
  /\ pc = "rdHiB"
  /\ IF highA = Hi(mtime)
       THEN /\ pc' = "idle" /\ result' = highA * Half + low
            /\ highA' = 0 /\ low' = 0 /\ highB' = 0 /\ start' = 0
       ELSE /\ pc' = "retry" /\ highB' = Hi(mtime)
            /\ UNCHANGED <<result, highA, low, start>>
  /\ UNCHANGED <<mtime, cmpHi, cmpLo, target, oldCmp>>

-----------------------------------------------------------------------------
(* write_mtimecmp_csr(cmpVal):                                             *)
(*   mtimecmp[0] = 0xFFFFFFFF; mtimecmp[1] = cmpVal >> 32;                 *)
(*   mtimecmp[0] = (uint32_t)cmpVal;                                       *)

WriteMtimecmpHiFirst(v) ==
  /\ pc = "idle"
  /\ target' = v
  /\ oldCmp' = Cmp
  /\ cmpHi' = Hi(v)
  /\ pc' = "wrLo"
  /\ UNCHANGED <<mtime, cmpLo, highA, low, highB, result, start>>

WriteMtimecmp(v) ==
  /\ pc = "idle"
  /\ target' = v
  /\ oldCmp' = Cmp
  /\ cmpLo' = AllOnes
  /\ pc' = "wrHi"
  /\ UNCHANGED <<mtime, cmpHi, highA, low, highB, result, start>>

WriteHigh ==
  /\ pc = "wrHi"
  /\ cmpHi' = Hi(target)
  /\ pc' = "wrLo"
  /\ UNCHANGED <<mtime, cmpLo, highA, low, highB, result, start, target,
                 oldCmp>>

WriteLow ==
  /\ pc = "wrLo"
  /\ cmpLo' = Lo(target)
  /\ pc' = "idle"
  /\ target' = 0 /\ oldCmp' = 0
  /\ UNCHANGED <<mtime, cmpHi, highA, low, highB, result, start>>

(* set_max_mtimecmp(): mtimecmp[0] = 0xFFFFFFFF; mtimecmp[1] = 0xFFFFFFFF. *)
SetMaxMtimecmp ==
  /\ pc = "idle"
  /\ target' = MaxTime
  /\ oldCmp' = Cmp
  /\ cmpLo' = AllOnes
  /\ pc' = "maxHi"
  /\ UNCHANGED <<mtime, cmpHi, highA, low, highB, result, start>>

SetMaxHigh ==
  /\ pc = "maxHi"
  /\ cmpHi' = AllOnes
  /\ pc' = "idle"
  /\ target' = 0 /\ oldCmp' = 0
  /\ UNCHANGED <<mtime, cmpLo, highA, low, highB, result, start>>

(* clear_mtip() stores mtimecmp[1] back unchanged: no state change. *)

-----------------------------------------------------------------------------
Next ==
  \/ Tick
  \/ ReadHighA \/ ReadLow \/ ReadHighB
  \/ \E v \in 0..MaxTime : WriteMtimecmp(v)
  \/ WriteHigh \/ WriteLow
  \/ SetMaxMtimecmp \/ SetMaxHigh

Spec == Init /\ [][Next]_vars

-----------------------------------------------------------------------------
TypeOK ==
  /\ mtime \in 0..MaxTime
  /\ cmpHi \in 0..AllOnes /\ cmpLo \in 0..AllOnes
  /\ pc \in {"idle", "retry", "rdLo", "rdHiB", "wrHi", "wrLo", "maxHi"}
  /\ {highA, low, highB} \subseteq 0..AllOnes
  /\ result \in 0..MaxTime /\ start \in 0..MaxTime
  /\ target \in 0..MaxTime /\ oldCmp \in 0..MaxTime

(* read_time_csr returns a value the counter really held while it read:    *)
(* a carry from the low into the high half between the accesses must      *)
(* never produce a torn value.                                             *)
ReadNotTorn ==
  [][pc = "rdHiB" /\ pc' = "idle" => start <= result' /\ result' <= mtime]_vars

(* A comparator write passes through no intermediate value that the       *)
(* counter has already reached, unless the old or the new comparator is   *)
(* reached already: the write itself raises no spurious MTIP.              *)
WriteRaisesNoMtip ==
  Writing /\ mtime >= Cmp => oldCmp <= mtime \/ target <= mtime
=============================================================================

------------------------------- MODULE Alarm -------------------------------
(***************************************************************************)
(* What the timer API of periph/timer.h promises a client, independent of *)
(* any hardware: one alarm per channel, armed with an absolute time by    *)
(* timer_set / timer_set_absolute (also from inside the callback), which  *)
(* fires once, never before its time, and never while the timer is        *)
(* stopped; timer_stop / timer_start pause and resume it.  Time counts up  *)
(* to MaxTime.  CoreTimer is shown to implement this specification.      *)
(***************************************************************************)
EXTENDS Naturals

CONSTANTS
  MaxTime,     \* the last time
  NoDeadline   \* the alarm is not armed (or has fired)

ASSUME NoDeadline \notin 0..MaxTime

VARIABLES
  now,       \* the time
  alarm,     \* the armed time, or NoDeadline
  enabled    \* the timer runs (not stopped)

avars == <<now, alarm, enabled>>

(* The counter's value at boot is whatever it is. *)
Init ==
  /\ now \in 0..MaxTime
  /\ alarm = NoDeadline
  /\ enabled = TRUE

Tick ==
  /\ now < MaxTime
  /\ now' = now + 1
  /\ UNCHANGED <<alarm, enabled>>

(* Arming also starts the timer. *)
Arm(t) ==
  /\ alarm' = t
  /\ enabled' = TRUE
  /\ UNCHANGED now

Stop ==
  /\ enabled' = FALSE
  /\ UNCHANGED <<now, alarm>>

Start ==
  /\ enabled' = TRUE
  /\ UNCHANGED <<now, alarm>>

(* The callback runs: only for an armed alarm that is due, while the timer *)
(* runs, and it disarms the alarm. *)
Fire ==
  /\ enabled
  /\ alarm # NoDeadline
  /\ now >= alarm
  /\ alarm' = NoDeadline
  /\ UNCHANGED <<now, enabled>>

Next == Tick \/ (\E t \in 0..MaxTime : Arm(t)) \/ Stop \/ Start \/ Fire

(* Time passes, and a due alarm of a running timer fires unless the client *)
(* re-arms or stops it first. *)
Spec == Init /\ [][Next]_avars /\ WF_avars(Tick) /\ WF_avars(Fire)
=============================================================================

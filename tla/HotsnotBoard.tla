---------------------------- MODULE HotsnotBoard ----------------------------
(***************************************************************************)
(* The HoTSNoT board's I2C_DEV(0): the configuration EEPROM, read by       *)
(* board_init and written by the application on the main thread (module    *)
(* HotsnotConf), and the SHTC3 sensor driven from another thread (module   *)
(* Shtc3).  i2c_acquire/i2c_release is a mutex: the bus variable.  The     *)
(* sensor thread starts once board_init has returned.  The MCU may reset   *)
(* at any point, at most MaxCrashes times: the drivers' static state, the  *)
(* GPIOs and DCDCEN are lost, the EEPROM and the sensor keep theirs, and   *)
(* board_init runs again.                                                  *)
(***************************************************************************)
EXTENDS Naturals

CONSTANTS Images, Factory, Blank, MaxFaults, MaxConfCalls, MaxSensorCalls,
          MaxCrashes

VARIABLES
  cPc, confData, eeprom, wPage, wRes, cResult, cCall, cCalls, received,
  initRes, dcdc, hallPower,
  sPc, initialized, awake, powerConf, clockConf, rxBuf, sResult, sCall,
  sCalls, sensorAwake, idMatches,
  bus, faults,
  crashes           \* resets so far

S == INSTANCE Shtc3
C == INSTANCE HotsnotConf

confVars == <<cPc, confData, eeprom, wPage, wRes, cResult, cCall, cCalls,
              received, initRes, dcdc, hallPower>>
shtcVars == <<sPc, initialized, awake, powerConf, clockConf, rxBuf, sResult,
              sCall, sCalls, sensorAwake, idMatches>>
vars == <<confVars, shtcVars, bus, faults, crashes>>

(* board_init has returned and the kernel runs the other threads. *)
Booted == cPc \notin {"boot", "init_read", "board_hw"}

Init == S!Init /\ C!Init /\ crashes = 0

(* The sensor thread's steps, and the main thread's. *)
SensorNext == Booted /\ S!Next /\ UNCHANGED <<confVars, crashes>>
SensorContinue == Booted /\ S!Shtc3Continue /\ UNCHANGED <<confVars, crashes>>
ConfNext == C!Next /\ UNCHANGED <<shtcVars, crashes>>
ConfContinue == C!ConfContinue /\ UNCHANGED <<shtcVars, crashes>>

(* A reset of the MCU. *)
Crash ==
  /\ crashes < MaxCrashes /\ crashes' = crashes + 1
  /\ S!Shtc3Reset /\ C!ConfReset /\ bus' = "free"
  /\ UNCHANGED <<eeprom, cCalls, sCalls, sensorAwake, idMatches, faults>>

Next ==
  \/ SensorNext
  \/ ConfNext
  \/ Crash

(* Each thread, once in a call, runs it to its end when it may: the       *)
(* scheduler preempts but does not starve a thread that can run.  A call  *)
(* waiting in i2c_acquire is one of these steps: mutex_unlock hands the   *)
(* bus to the waiter, and in the model the other thread's calls and the   *)
(* resets are finitely many, so a bus that is released stays free long    *)
(* enough for weak fairness to take it.                                    *)
Spec ==
  /\ Init /\ [][Next]_vars
  /\ WF_vars(SensorContinue)
  /\ WF_vars(ConfContinue)

-----------------------------------------------------------------------------
TypeOK == S!TypeOK /\ C!TypeOK /\ crashes \in 0..MaxCrashes

CrcCheckSound == S!CrcCheckSound
MeasurementSound == S!MeasurementSound
AwakeTracksSensor == S!AwakeTracksSensor
ConfReadSound == C!ConfReadSound
WriteDurable == C!WriteDurable
DcdcOnlyIfConfigured == C!DcdcOnlyIfConfigured
ConfServedVerified == C!ConfServedVerified

(* Every path out of either driver's calls releases I2C_DEV(0): whoever   *)
(* holds the bus is inside a call, between its i2c_acquire and the         *)
(* i2c_release of the path it takes, early returns included.               *)
BusHeldOnlyInCall ==
  /\ bus = "sensor" => sPc \in S!SensorHolds
  /\ bus = "conf" => cPc \in C!ConfHolds

(* Every call of either thread returns, whatever the bus faults, resets   *)
(* and the other thread's use of the bus: a call that has started, and is  *)
(* perhaps blocked in its first i2c_acquire, gets the bus and returns; no  *)
(* path of either driver leaves the bus held for ever.                     *)
CallsReturn ==
  /\ sPc # "idle" ~> sPc = "idle"
  /\ cPc # "idle" ~> cPc = "idle"
=============================================================================

------------------------------- MODULE Shtc3 --------------------------------
(***************************************************************************)
(* The SHTC3 humidity and temperature sensor driver                         *)
(* (src/drivers/shtc3/shtc3.c) and the sensor behind it on the I2C bus.     *)
(*                                                                         *)
(* One client thread calls the driver.  Every I2C transfer is one step;    *)
(* between i2c_acquire and i2c_release the driver owns the bus, which it   *)
(* shares with other drivers (module HotsnotBoard).  A transfer to the     *)
(* sensor is ACKed when the sensor is awake, and a sleeping sensor answers *)
(* only the wake-up command; any transfer may instead fail (NACK, timeout  *)
(* or another bus error) or, for a read, deliver corrupted bytes: at most  *)
(* MaxFaults such faults in a behaviour.  A NACK, -EIO, -ENXIO or          *)
(* -ETIMEDOUT is "nack", any other error code "buserr".                    *)
(*                                                                         *)
(* The measurement command chosen from clock_conf and power_conf, the      *)
(* delays and the raw-value conversions are data and timing the driver's  *)
(* control does not depend on; the received bytes and their CRC are kept. *)
(***************************************************************************)
EXTENDS Naturals, Sequences, Bitwise

CONSTANTS
  MaxFaults,        \* transient bus faults in a behaviour
  MaxSensorCalls    \* driver calls the client makes

VARIABLES
  sPc,              \* where the client thread is in a driver call
  initialized,      \* dev->initialized
  awake,            \* dev->awake
  powerConf,        \* dev->params.power_conf
  clockConf,        \* dev->params.clock_conf
  rxBuf,            \* inputBuf: the six bytes of the last measurement read
  sResult,          \* the value the last call returned
  sCall,            \* the call in progress or last made
  sCalls,           \* calls made so far
  sensorAwake,      \* the sensor: awake or in sleep mode
  idMatches,        \* the device at 0x70 answers the SHTC3 ID
  bus,              \* owner of I2C_DEV(0): "free", "sensor" or "conf"
  faults            \* transient faults so far

shtcVars == <<sPc, initialized, awake, powerConf, clockConf, rxBuf, sResult,
              sCall, sCalls, sensorAwake, idMatches>>

PowerConfs == {"SHTC3_NORMAL_MODE", "SHTC3_LOW_POWER_MODE", "SHTC3_ALWAYS_AWAKE"}
ClockConfs == {"SHTC3_CLOCK_STRETCHING_DISABLED", "SHTC3_CLOCK_STRETCHING_ENABLED"}
Results == {"SHTC3_OK", "SHTC3_NO_RESPONSE", "SHTC3_ID_MISMATCH",
            "SHTC3_CRC_ERROR", "SHTC3_UNINITIALIZED", "SHTC3_BUS_ERROR"}
ALWAYS == "SHTC3_ALWAYS_AWAKE"

-----------------------------------------------------------------------------
(* crc_lookup_table: CRC-8, polynomial 0x31, one entry per byte value. *)
CrcTableBytes ==
  << \h00, \h31, \h62, \h53, \hc4, \hf5, \ha6, \h97,
   \hb9, \h88, \hdb, \hea, \h7d, \h4c, \h1f, \h2e,
   \h43, \h72, \h21, \h10, \h87, \hb6, \he5, \hd4,
   \hfa, \hcb, \h98, \ha9, \h3e, \h0f, \h5c, \h6d,
   \h86, \hb7, \he4, \hd5, \h42, \h73, \h20, \h11,
   \h3f, \h0e, \h5d, \h6c, \hfb, \hca, \h99, \ha8,
   \hc5, \hf4, \ha7, \h96, \h01, \h30, \h63, \h52,
   \h7c, \h4d, \h1e, \h2f, \hb8, \h89, \hda, \heb,
   \h3d, \h0c, \h5f, \h6e, \hf9, \hc8, \h9b, \haa,
   \h84, \hb5, \he6, \hd7, \h40, \h71, \h22, \h13,
   \h7e, \h4f, \h1c, \h2d, \hba, \h8b, \hd8, \he9,
   \hc7, \hf6, \ha5, \h94, \h03, \h32, \h61, \h50,
   \hbb, \h8a, \hd9, \he8, \h7f, \h4e, \h1d, \h2c,
   \h02, \h33, \h60, \h51, \hc6, \hf7, \ha4, \h95,
   \hf8, \hc9, \h9a, \hab, \h3c, \h0d, \h5e, \h6f,
   \h41, \h70, \h23, \h12, \h85, \hb4, \he7, \hd6,
   \h7a, \h4b, \h18, \h29, \hbe, \h8f, \hdc, \hed,
   \hc3, \hf2, \ha1, \h90, \h07, \h36, \h65, \h54,
   \h39, \h08, \h5b, \h6a, \hfd, \hcc, \h9f, \hae,
   \h80, \hb1, \he2, \hd3, \h44, \h75, \h26, \h17,
   \hfc, \hcd, \h9e, \haf, \h38, \h09, \h5a, \h6b,
   \h45, \h74, \h27, \h16, \h81, \hb0, \he3, \hd2,
   \hbf, \h8e, \hdd, \hec, \h7b, \h4a, \h19, \h28,
   \h06, \h37, \h64, \h55, \hc2, \hf3, \ha0, \h91,
   \h47, \h76, \h25, \h14, \h83, \hb2, \he1, \hd0,
   \hfe, \hcf, \h9c, \had, \h3a, \h0b, \h58, \h69,
   \h04, \h35, \h66, \h57, \hc0, \hf1, \ha2, \h93,
   \hbd, \h8c, \hdf, \hee, \h79, \h48, \h1b, \h2a,
   \hc1, \hf0, \ha3, \h92, \h05, \h34, \h67, \h56,
   \h78, \h49, \h1a, \h2b, \hbc, \h8d, \hde, \hef,
   \h82, \hb3, \he0, \hd1, \h46, \h77, \h24, \h15,
   \h3b, \h0a, \h59, \h68, \hff, \hce, \h9d, \hac >>

(* The mutant form: entries 0xfa and 0xfb of the table transposed. *)
CrcLookupTableTypo ==
  [b \in 0..255 |-> CASE b = \hfa -> CrcTableBytes[\hfb + 1]
                     [] b = \hfb -> CrcTableBytes[\hfa + 1]
                     [] OTHER    -> CrcTableBytes[b + 1]]

CrcLookupTable == [b \in 0..255 |-> CrcTableBytes[b + 1]]

CRC_INITIAL == \hff

(* crc = crc_lookup_table[byte ^ crc], over the two bytes of a value. *)
CrcStep(crc, byte) == CrcLookupTable[byte ^^ crc]

CrcOf(b0, b1) == CrcStep(CrcStep(CRC_INITIAL, b0), b1)

(* The evaluation of the response: temperature, then humidity. *)
CrcResult(f) ==
  IF CrcOf(f[1], f[2]) # f[3] \/ CrcOf(f[4], f[5]) # f[6]
    THEN "SHTC3_CRC_ERROR" ELSE "SHTC3_OK"

-----------------------------------------------------------------------------
(* Reference: CRC-8 with polynomial x^8 + x^5 + x^4 + 1, bit by bit, as   *)
(* the sensor's data sheet defines it.                                     *)
RECURSIVE Crc8Bits(_, _)
Crc8Bits(crc, n) ==
  IF n = 0 THEN crc
  ELSE Crc8Bits(IF crc >= 128 THEN ((2 * crc) % 256) ^^ \h31
                              ELSE (2 * crc) % 256, n - 1)

Crc8Ref(bytes) ==
  LET RECURSIVE Go(_, _)
      Go(crc, i) == IF i > Len(bytes) THEN crc
                    ELSE Go(Crc8Bits(crc ^^ bytes[i], 8), i + 1)
  IN Go(CRC_INITIAL, 1)

(* What the sensor sends for a measurement: temperature and humidity, each *)
(* two bytes and the CRC-8 the sensor computes over them (the ASSUME below *)
(* checks these against Crc8Ref); and the same frame with one bit flipped  *)
(* on the bus in the temperature or in the humidity value.                *)
SampleFrame == <<\h66, \h4b, \h59, \h52, \h1a, \h27>>
Received(o) ==
  CASE o = "corrupt_t" -> [SampleFrame EXCEPT ![2] = @ ^^ 1]
    [] o = "corrupt_h" -> [SampleFrame EXCEPT ![5] = @ ^^ 1]
    [] OTHER           -> SampleFrame

-----------------------------------------------------------------------------
(* One I2C transfer: the answer the sensor gives, or a fault. *)
Natural(responds) == IF responds THEN "ack" ELSE "nack"

Outcomes(responds) ==
  {Natural(responds)} \cup (IF faults < MaxFaults THEN {"nack", "buserr"} ELSE {})

ReadOutcomes(responds) ==
  Outcomes(responds) \cup
    (IF responds /\ faults < MaxFaults THEN {"corrupt_t", "corrupt_h"} ELSE {})

Counted(o, responds) ==
  faults' = IF o = Natural(responds) THEN faults ELSE faults + 1

Delivered(o) == o \notin {"nack", "buserr"}

(* shtc3_send_command's result; also how shtc3_init and                    *)
(* shtc3_do_measurement map the error of a read.                           *)
SendCommandResult(o) ==
  CASE o = "nack"   -> "SHTC3_NO_RESPONSE"
    [] o = "buserr" -> "SHTC3_BUS_ERROR"
    [] OTHER        -> "SHTC3_OK"

(* The sensor after a command: WAKEUP wakes it, SLEEP puts it to sleep.    *)
AfterCommand(cmd, o) ==
  sensorAwake' = CASE ~Delivered(o)  -> sensorAwake
                   [] cmd = "WAKEUP" -> TRUE
                   [] cmd = "SLEEP"  -> FALSE
                   [] OTHER          -> sensorAwake

Release == bus' = "free"

(* The pcs at which the client thread holds the bus. *)
SensorHolds == {"init_reset", "init_id_r", "init_sleep", "meas_wake",
                "meas_cmd", "meas_read", "meas_sleep"}

(* The pcs at which a call of the client thread waits in its first         *)
(* i2c_acquire.                                                            *)
Acquiring == {"init_acquire", "deinit_acquire", "meas_acquire", "pm_acquire"}

-----------------------------------------------------------------------------
(* The static shtc3_dev_t, zeroed: what the driver holds after a reset.    *)
(* The sensor keeps its own state across a reset of the MCU.               *)
Shtc3Reset ==
  /\ sPc' = "idle"
  /\ initialized' = FALSE /\ awake' = FALSE
  /\ powerConf' = "SHTC3_NORMAL_MODE"
  /\ clockConf' = "SHTC3_CLOCK_STRETCHING_DISABLED"
  /\ rxBuf' = <<0, 0, 0, 0, 0, 0>>
  /\ sResult' = "none" /\ sCall' = "none"

Init ==
  /\ sPc = "idle"
  /\ initialized = FALSE /\ awake = FALSE
  /\ powerConf = "SHTC3_NORMAL_MODE"
  /\ clockConf = "SHTC3_CLOCK_STRETCHING_DISABLED"
  /\ rxBuf = <<0, 0, 0, 0, 0, 0>>
  /\ sResult = "none" /\ sCall = "none" /\ sCalls = 0
  /\ sensorAwake \in BOOLEAN
  /\ idMatches \in BOOLEAN
  /\ bus = "free" /\ faults = 0

(* The client starts a call. *)
Call(name) ==
  /\ sPc = "idle" /\ sCalls < MaxSensorCalls
  /\ sCall' = name /\ sCalls' = sCalls + 1

Done(res) == sResult' = res /\ sPc' = "idle"

-----------------------------------------------------------------------------
(* shtc3_init(dev, params): initialized = false, the parameters copied;    *)
(* then i2c_acquire, where the thread may block ...                        *)
Shtc3Init ==
  /\ Call("init")
  /\ \E pc \in PowerConfs, cc \in ClockConfs :
       initialized' = FALSE /\ powerConf' = pc /\ clockConf' = cc
  /\ sPc' = "init_acquire"
  /\ UNCHANGED <<awake, rxBuf, sResult, sensorAwake, idMatches, bus, faults>>

(* ... acquired; WAKEUP, whose result is ignored ...                       *)
InitAcquire ==
  /\ sPc = "init_acquire" /\ bus = "free" /\ bus' = "sensor"
  /\ \E o \in Outcomes(TRUE) : Counted(o, TRUE) /\ AfterCommand("WAKEUP", o)
  /\ sPc' = "init_reset"
  /\ UNCHANGED <<initialized, awake, powerConf, clockConf, rxBuf, sResult,
                 sCall, sCalls, idMatches>>

(* ... RESET, ignored; release; awake = true; the power-up delay ...       *)
InitReset ==
  /\ sPc = "init_reset"
  /\ \E o \in Outcomes(sensorAwake) : Counted(o, sensorAwake)
  /\ Release /\ awake' = TRUE /\ sPc' = "init_id_w"
  /\ UNCHANGED <<initialized, powerConf, clockConf, rxBuf, sResult, sCall,
                 sCalls, sensorAwake, idMatches>>

(* ... acquire; shtc3_read_id: the ID register's address is written ...    *)
InitReadIdWrite ==
  /\ sPc = "init_id_w" /\ bus = "free"
  /\ \E o \in Outcomes(sensorAwake) :
       /\ Counted(o, sensorAwake)
       /\ IF Delivered(o)
            THEN bus' = "sensor" /\ sPc' = "init_id_r" /\ UNCHANGED sResult
            ELSE bus' = "free" /\ Done(SendCommandResult(o))
  /\ UNCHANGED <<initialized, awake, powerConf, clockConf, rxBuf, sCall,
                 sCalls, sensorAwake, idMatches>>

(* The mutant form: the ID mismatch path returns without the release.     *)
InitReadIdReadKeepsBus ==
  /\ sPc = "init_id_r"
  /\ \E o \in Outcomes(sensorAwake) :
       /\ Counted(o, sensorAwake)
       /\ CASE ~Delivered(o) ->
                 Release /\ Done(SendCommandResult(o)) /\ UNCHANGED initialized
            [] ~idMatches ->
                 Done("SHTC3_ID_MISMATCH") /\ UNCHANGED <<initialized, bus>>
            [] ~awake \/ powerConf = ALWAYS ->
                 Release /\ Done("SHTC3_OK") /\ initialized' = TRUE
            [] OTHER ->
                 /\ initialized' = TRUE /\ sPc' = "init_sleep"
                 /\ UNCHANGED <<bus, sResult>>
  /\ UNCHANGED <<awake, powerConf, clockConf, rxBuf, sCall, sCalls,
                 sensorAwake, idMatches>>

(* ... and read back; a device with another ID gives SHTC3_ID_MISMATCH;    *)
(* then initialized = true and shtc3_power_down, unless ALWAYS_AWAKE.      *)
InitReadIdRead ==
  /\ sPc = "init_id_r"
  /\ \E o \in Outcomes(sensorAwake) :
       /\ Counted(o, sensorAwake)
       /\ CASE ~Delivered(o) ->
                 Release /\ Done(SendCommandResult(o)) /\ UNCHANGED initialized
            [] ~idMatches ->
                 Release /\ Done("SHTC3_ID_MISMATCH") /\ UNCHANGED initialized
            [] ~awake \/ powerConf = ALWAYS ->
                 Release /\ Done("SHTC3_OK") /\ initialized' = TRUE
            [] OTHER ->
                 /\ initialized' = TRUE /\ sPc' = "init_sleep"
                 /\ UNCHANGED <<bus, sResult>>
  /\ UNCHANGED <<awake, powerConf, clockConf, rxBuf, sCall, sCalls,
                 sensorAwake, idMatches>>

(* shtc3_power_down, after its SLEEP transfer (it is called only when     *)
(* awake and not ALWAYS_AWAKE): on success awake = false.                  *)
ShtcPowerDown(o) ==
  /\ awake' = IF Delivered(o) THEN FALSE ELSE awake
  /\ AfterCommand("SLEEP", o)

PowerDownResultAlwaysOk(o) == "SHTC3_OK"

PowerDownResult(o) == SendCommandResult(o)

(* ... the SLEEP of shtc3_init's power-down; release. *)
InitSleep ==
  /\ sPc = "init_sleep"
  /\ \E o \in Outcomes(sensorAwake) :
       /\ Counted(o, sensorAwake) /\ ShtcPowerDown(o)
       /\ Release /\ Done(PowerDownResult(o))
  /\ UNCHANGED <<initialized, powerConf, clockConf, rxBuf, sCall, sCalls,
                 idMatches>>

(* shtc3_deinit: initialized = false; then i2c_acquire ...                *)
Shtc3Deinit ==
  /\ Call("deinit")
  /\ initialized' = FALSE /\ sPc' = "deinit_acquire"
  /\ UNCHANGED <<awake, powerConf, clockConf, rxBuf, sResult, sensorAwake,
                 idMatches, bus, faults>>

(* ... acquired; SLEEP, its result ignored; release; return.              *)
DeinitSleep ==
  /\ sPc = "deinit_acquire" /\ bus = "free"
  /\ \E o \in Outcomes(sensorAwake) :
       Counted(o, sensorAwake) /\ AfterCommand("SLEEP", o)
  /\ sPc' = "idle"
  /\ UNCHANGED <<initialized, awake, powerConf, clockConf, rxBuf, sResult,
                 sCall, sCalls, idMatches, bus>>

-----------------------------------------------------------------------------
(* shtc3_do_measurement: SHTC3_UNINITIALIZED, or i2c_acquire ...          *)
Shtc3DoMeasurement ==
  /\ Call("measure")
  /\ IF ~initialized
       THEN Done("SHTC3_UNINITIALIZED")
       ELSE sPc' = "meas_acquire" /\ UNCHANGED sResult
  /\ UNCHANGED <<initialized, awake, powerConf, clockConf, rxBuf, sensorAwake,
                 idMatches, bus, faults>>

(* ... acquired; unless awake, wake the sensor first ...                   *)
MeasAcquire ==
  /\ sPc = "meas_acquire" /\ bus = "free" /\ bus' = "sensor"
  /\ sPc' = IF awake THEN "meas_cmd" ELSE "meas_wake"
  /\ UNCHANGED <<initialized, awake, powerConf, clockConf, rxBuf, sResult,
                 sCall, sCalls, sensorAwake, idMatches, faults>>

(* ... shtc3_wake_up (ignored when ALWAYS_AWAKE); on an error release and  *)
(* return it, else release for the power-up delay ...                      *)
MeasWake ==
  /\ sPc = "meas_wake"
  /\ Release
  /\ IF powerConf = ALWAYS
       THEN sPc' = "meas_reacquire" /\ UNCHANGED <<awake, sResult, sensorAwake, faults>>
       ELSE \E o \in Outcomes(TRUE) :
              /\ Counted(o, TRUE) /\ AfterCommand("WAKEUP", o)
              /\ IF Delivered(o)
                   THEN awake' = TRUE /\ sPc' = "meas_reacquire" /\ UNCHANGED sResult
                   ELSE Done(SendCommandResult(o)) /\ UNCHANGED awake
  /\ UNCHANGED <<initialized, powerConf, clockConf, rxBuf, sCall, sCalls,
                 idMatches>>

(* ... and acquire again ... *)
MeasReacquire ==
  /\ sPc = "meas_reacquire" /\ bus = "free"
  /\ bus' = "sensor" /\ sPc' = "meas_cmd"
  /\ UNCHANGED <<initialized, awake, powerConf, clockConf, rxBuf, sResult,
                 sCall, sCalls, sensorAwake, idMatches, faults>>

(* ... send the measurement command ... *)
MeasCmd ==
  /\ sPc = "meas_cmd"
  /\ \E o \in Outcomes(sensorAwake) :
       /\ Counted(o, sensorAwake)
       /\ IF Delivered(o)
            THEN sPc' = "meas_read" /\ UNCHANGED <<bus, sResult>>
            ELSE Release /\ Done(SendCommandResult(o))
  /\ UNCHANGED <<initialized, awake, powerConf, clockConf, rxBuf, sCall,
                 sCalls, sensorAwake, idMatches>>

(* ... read the six bytes; back to sleep unless awake is already false or  *)
(* ALWAYS_AWAKE, release, then check both CRCs ...                         *)
MeasRead ==
  /\ sPc = "meas_read"
  /\ \E o \in ReadOutcomes(sensorAwake) :
       /\ Counted(o, sensorAwake)
       /\ CASE ~Delivered(o) ->
                 Release /\ Done(SendCommandResult(o)) /\ UNCHANGED rxBuf
            [] ~awake \/ powerConf = ALWAYS ->
                 /\ rxBuf' = Received(o)
                 /\ Release /\ Done(CrcResult(Received(o)))
            [] OTHER ->
                 /\ rxBuf' = Received(o) /\ sPc' = "meas_sleep"
                 /\ UNCHANGED <<bus, sResult>>
  /\ UNCHANGED <<initialized, awake, powerConf, clockConf, sCall, sCalls,
                 sensorAwake, idMatches>>

(* ... the SLEEP of shtc3_power_down: its error is returned, else the CRC  *)
(* verdict.                                                                *)
MeasSleep ==
  /\ sPc = "meas_sleep"
  /\ \E o \in Outcomes(sensorAwake) :
       /\ Counted(o, sensorAwake) /\ ShtcPowerDown(o) /\ Release
       /\ Done(IF PowerDownResult(o) # "SHTC3_OK" THEN PowerDownResult(o)
               ELSE CrcResult(rxBuf))
  /\ UNCHANGED <<initialized, powerConf, clockConf, rxBuf, sCall, sCalls,
                 idMatches>>

-----------------------------------------------------------------------------
(* shtc3_set_power_mode(dev, power_conf): when the sensor's state must     *)
(* change, i2c_acquire, send WAKEUP or SLEEP and set awake whatever the    *)
(* command's result, release; power_conf is stored in every initialized    *)
(* case.  The model stores it when the call starts: only this thread reads *)
(* dev->params, and it is blocked in i2c_acquire until the call returns.   *)
NoPowerChange(pcf) == (pcf = ALWAYS /\ awake) \/ (pcf # ALWAYS /\ ~awake)

Shtc3SetPowerMode ==
  /\ Call("set_power_mode")
  /\ \E pcf \in PowerConfs :
       CASE ~initialized ->
              Done("SHTC3_UNINITIALIZED") /\ UNCHANGED powerConf
         [] NoPowerChange(pcf) ->
              powerConf' = pcf /\ Done("SHTC3_OK")
         [] OTHER ->
              powerConf' = pcf /\ sPc' = "pm_acquire" /\ UNCHANGED sResult
  /\ UNCHANGED <<initialized, awake, clockConf, rxBuf, sensorAwake, idMatches,
                 bus, faults>>

(* ... acquired: the command, awake set, release, the command's result.   *)
PowerModeCommand ==
  /\ sPc = "pm_acquire" /\ bus = "free"
  /\ LET cmd == IF powerConf = ALWAYS THEN "WAKEUP" ELSE "SLEEP"
         responds == cmd = "WAKEUP" \/ sensorAwake
     IN \E o \in Outcomes(responds) :
          /\ Counted(o, responds) /\ AfterCommand(cmd, o)
          /\ awake' = (powerConf = ALWAYS)
          /\ Done(SendCommandResult(o))
  /\ UNCHANGED <<initialized, powerConf, clockConf, rxBuf, sCall, sCalls,
                 idMatches, bus>>

(* shtc3_set_clock_mode(dev, clock_conf) *)
Shtc3SetClockMode ==
  /\ Call("set_clock_mode")
  /\ \E cc \in ClockConfs :
       IF ~initialized THEN Done("SHTC3_UNINITIALIZED") /\ UNCHANGED clockConf
                       ELSE clockConf' = cc /\ Done("SHTC3_OK")
  /\ UNCHANGED <<initialized, awake, powerConf, rxBuf, sensorAwake, idMatches,
                 bus, faults>>

-----------------------------------------------------------------------------
(* The driver's steps, without the thread's scheduling. *)
Shtc3Call ==
  \/ Shtc3Init \/ Shtc3Deinit \/ Shtc3DoMeasurement
  \/ Shtc3SetPowerMode \/ Shtc3SetClockMode

Shtc3Continue ==
  \/ InitAcquire \/ InitReset \/ InitReadIdWrite \/ InitReadIdRead
  \/ InitSleep \/ DeinitSleep \/ PowerModeCommand
  \/ MeasAcquire \/ MeasWake \/ MeasReacquire \/ MeasCmd \/ MeasRead \/ MeasSleep

Next == Shtc3Call \/ Shtc3Continue

vars == <<shtcVars, bus, faults>>

(* A call, once begun, runs to its end: the thread is only preempted. *)
Spec == Init /\ [][Next]_vars /\ WF_vars(Shtc3Continue)

-----------------------------------------------------------------------------
TypeOK ==
  /\ sPc \in {"idle", "init_id_w", "meas_reacquire"} \cup Acquiring \cup SensorHolds
  /\ initialized \in BOOLEAN /\ awake \in BOOLEAN
  /\ powerConf \in PowerConfs /\ clockConf \in ClockConfs
  /\ rxBuf \in [1..6 -> 0..255]
  /\ sResult \in Results \cup {"none"}
  /\ sCall \in {"none", "init", "deinit", "measure", "set_power_mode",
                "set_clock_mode"}
  /\ sCalls \in 0..MaxSensorCalls
  /\ sensorAwake \in BOOLEAN /\ idMatches \in BOOLEAN
  /\ bus \in {"free", "sensor", "conf"}
  /\ faults \in 0..MaxFaults

(* crc_lookup_table is the table of CRC-8 with polynomial 0x31 (each entry *)
(* is the bitwise CRC of its index), and the model's sample frame carries  *)
(* the CRCs the sensor computes.                                            *)
ASSUME
  /\ \A b \in 0..255 : CrcTableBytes[b + 1] = Crc8Bits(b, 8)
  /\ SampleFrame[3] = Crc8Ref(SubSeq(SampleFrame, 1, 2))
  /\ SampleFrame[6] = Crc8Ref(SubSeq(SampleFrame, 4, 5))

(* The table-driven check at the end of shtc3_do_measurement accepts the  *)
(* frame in inputBuf exactly when both of its CRCs are the bitwise CRC-8  *)
(* of their two data bytes, on every frame it reads, corrupted ones        *)
(* included.                                                                *)
CrcCheckSound ==
  CrcResult(rxBuf) = "SHTC3_OK" <=>
    /\ rxBuf[3] = Crc8Ref(SubSeq(rxBuf, 1, 2))
    /\ rxBuf[6] = Crc8Ref(SubSeq(rxBuf, 4, 5))

(* A measurement that shtc3_do_measurement reports as SHTC3_OK carries the *)
(* bytes the sensor sent, and leaves the sensor in the state of the power  *)
(* mode (asleep unless ALWAYS_AWAKE) with dev->awake agreeing, whatever    *)
(* transfers failed before.                                                 *)
MeasurementSound ==
  sPc = "idle" /\ sCall = "measure" /\ sResult = "SHTC3_OK" =>
    /\ rxBuf = SampleFrame
    /\ awake = sensorAwake
    /\ sensorAwake = (powerConf = ALWAYS)

(* dev->awake is documented as "Is device awake or sleeping": between      *)
(* calls an initialized driver's flag is the sensor's state.               *)
AwakeTracksSensor ==
  initialized /\ sPc = "idle" => awake = sensorAwake
=============================================================================

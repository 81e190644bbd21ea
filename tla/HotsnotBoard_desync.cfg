\* shtc3_set_power_mode sets awake whatever the result of its WAKEUP or
\* SLEEP command: one failed SLEEP leaves the driver believing the sensor
\* asleep while it is awake.
CONSTANTS
  Images <- MCImages
  Factory <- MCFactory
  Blank <- MCBlank
  MaxFaults = 1
  MaxCrashes = 1
  MaxSensorCalls = 3
  MaxConfCalls = 1
SPECIFICATION Spec
\* The threads stop once their calls are made.
CHECK_DEADLOCK FALSE
INVARIANT AwakeTracksSensor

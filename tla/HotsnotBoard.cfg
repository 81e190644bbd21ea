\* The HoTSNoT I2C bus: SHTC3 driver, configuration EEPROM, board_init.
\* One transient fault and one reset per behaviour reach every error path
\* and a torn write; three sensor calls cover init, a mode change and a
\* measurement; one application call: a write or a use of the features.
CONSTANTS
  Images <- MCImages
  Factory <- MCFactory
  Blank <- MCBlank
  MaxFaults = 1
  MaxCrashes = 1
  MaxSensorCalls = 3
  MaxConfCalls = 1
SPECIFICATION Spec
\* The threads stop once their calls are made.
CHECK_DEADLOCK FALSE
INVARIANTS
  TypeOK
  CrcCheckSound
  BusHeldOnlyInCall
  MeasurementSound
  ConfReadSound
  WriteDurable
  DcdcOnlyIfConfigured
  ConfServedVerified
PROPERTIES
  CallsReturn

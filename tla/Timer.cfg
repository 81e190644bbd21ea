\* The core timer driver on both builds: on RV64 with its callback,
\* spurious traps and a client that sets, stops and restarts the timer; on
\* RV32 the hi/lo accesses to mtime and mtimecmp racing the counter.
CONSTANTS
  MaxTime <- MCMaxTime
  Spin <- MCSpin
  Timeouts <- MCTimeouts
SPECIFICATION MCSpec
INVARIANT TimerTypeOK
INVARIANT AtMostOneCallback
INVARIANT WriteRaisesNoMtip
PROPERTY NoEarlyCallback
PROPERTY DeadlineServed
PROPERTY AlarmRefined
PROPERTY ReadNotTorn

\* One interface: three frames sent, three received.  The model stops once
\* the bounds are spent and every message is handled: the netif thread then
\* waits in msg_receive, which is not a deadlock of the driver.
CONSTANTS
  MaxSends <- MCMaxSends
  MaxFrames <- MCMaxFrames
SPECIFICATION Spec
CHECK_DEADLOCK FALSE
INVARIANTS
  TypeOK
  TxMutexTracksStatus
  NoFrameAborted
PROPERTIES
  TxReported
  RxDrained

\* The DMX driver over the PLIC router, beside a generic source inside the
\* handler table and one outside it.  Once the bounded calls and requests
\* are spent the system idles: the client has nothing more to ask.
CONSTANTS
  null_isr = null_isr
  h1 = h1
  rdmx_cb = rdmx_cb
  NullIsr = null_isr
  RdmxCb = rdmx_cb
  Sources <- MCSources
  NumInterrupts = 6
  Prio <- MCPrio
  Handlers <- MCHandlers
  MaxRaise = 2
  DmxIrq = 5
  MaxDmxCalls = 3
  PageSize = 2
  DmxVals = {0, 1}
SPECIFICATION Spec
CHECK_DEADLOCK FALSE
INVARIANTS
  TypeOK
  DispatchBounded
  NothingLeftInService
  StatusTracksDevice
PROPERTIES
  RequestDelivered
  DmxSettles

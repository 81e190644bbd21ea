\* Does rdmx_set_channels store the values from channel start on?
CONSTANTS
  null_isr = null_isr
  h1 = h1
  rdmx_cb = rdmx_cb
  NullIsr = null_isr
  RdmxCb = rdmx_cb
  Sources <- MCSources
  NumInterrupts = 6
  Prio <- MCPrio
  Handlers <- MCHandlers
  MaxRaise = 2
  DmxIrq = 5
  MaxDmxCalls = 1
  PageSize = 2
  DmxVals = {0, 1}
SPECIFICATION Spec
CHECK_DEADLOCK FALSE
INVARIANT
  ChannelsAsWritten

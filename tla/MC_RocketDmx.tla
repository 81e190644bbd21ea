----------------------------- MODULE MC_RocketDmx -----------------------------
(* Sources 1 and 5 inside a table of six slots (ids 0..5), source 6        *)
(* outside it; source 5 is the DMX (RDMX_IRQS, priority RDMX_IRQ_PRIO 5),  *)
(* source 1 a generic driver's.  Three API calls after rdmx_init allow a   *)
(* begin and two flips, or a flip and a shutdown: two DMX interrupts,      *)
(* which is MaxRaise.                                                      *)
EXTENDS RocketDmx, TLC

CONSTANTS null_isr, h1, rdmx_cb

MCSources == {1, 5, 6}
MCPrio == (1 :> 1) @@ (5 :> 5) @@ (6 :> 1)
MCHandlers == {null_isr, h1, rdmx_cb}
=============================================================================

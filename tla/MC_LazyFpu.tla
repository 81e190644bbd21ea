---------------------------- MODULE MC_LazyFpu ----------------------------
(* Model-checking instance of LazyFpu: the idle and main threads of        *)
(* kernel_init plus one more pid that threads are created on and exit     *)
(* from, and two distinct values for the register bank and for fcsr,     *)
(* enough to tell a thread's state from another thread's or from zero.   *)
EXTENDS LazyFpu

CONSTANTS idle, main, p1, null

MCPids == {idle, main, p1}
MCFpVals == {0, 1}
MCCsrVals == {0, 1}
=============================================================================

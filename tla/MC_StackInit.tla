---------------------------- MODULE MC_StackInit ----------------------------
(* Stack regions thread_create may pass: word-aligned starts at every      *)
(* offset within 128 bytes, word-multiple sizes from the smallest that     *)
(* holds a frame and the marker up to 64 bytes more (so that the top      *)
(* takes every position modulo 16).  Sizes too small for a frame, which   *)
(* thread_stack_init does not check, are left out.  Both builds' word      *)
(* sizes are covered by taking multiples of 4 bytes.                       *)
EXTENDS StackInit

MCStarts == {4096 + k * 8 : k \in 0..15} \cup {4100 + k * 8 : k \in 0..15}
MCSizes == {256 + k * 4 : k \in 0..15}
=============================================================================

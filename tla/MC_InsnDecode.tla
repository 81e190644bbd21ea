---------------------------- MODULE MC_InsnDecode ----------------------------
(* Instruction words for handle_trap: the low halfword ranges over every    *)
(* opcode (bits 0..6) with every funct3 and bit 15 (bits 12..15); the high *)
(* halfword places CSR numbers in bits 20..31 (fflags, frm, fcsr, their    *)
(* neighbours, mstatus and the top CSR).                            *)
EXTENDS InsnDecode

MCLowHalves == {f * 4096 + x : f \in 0..15, x \in 0..127}
MCHighHalves == {c * 16 : c \in {0, 1, 2, 3, 4, 768, 4095}}
=============================================================================

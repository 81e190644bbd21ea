-------------------------- MODULE MC_HotsnotBoard ---------------------------
EXTENDS HotsnotBoard

(* A word as the set of its 1 bits (HotsnotConf's Bits). *)
MCBits(n) == {i \in 0..30 : (n \div 2^i) % 2 = 1}

(* Configurations, as <<hw_id, texts, serial_no, feature_mask, _parity>>: *)
(* the one programmed at production (HALL), a new one with HALL and DCDC, *)
(* and one with another board's id ("HELL"); the callers' _parity words   *)
(* are stale.                                                              *)
MCFactory == <<MCBits(\h53546f48), MCBits(11), MCBits(100), MCBits(16), MCBits(0)>>
MCImages == {<<MCBits(\h53546f48), MCBits(12), MCBits(101), MCBits(48), MCBits(7)>>,
             <<MCBits(\h4c4c4548), MCBits(13), MCBits(102), MCBits(32), MCBits(7)>>}
(* An erased EEPROM reads all ones. *)
MCBlank == [w \in 1..5 |-> 0..31]
=============================================================================

---------------------------- MODULE HotsnotConf -----------------------------
(***************************************************************************)
(* The HoTSNoT board configuration store (src/drivers/hotsnot_conf/        *)
(* hotsnot_conf.c) in the EEPROM at 0x50 on I2C_DEV(0), and the board code *)
(* that reads it at boot and uses its feature bits (src/boards/hotsnot/    *)
(* board.c).                                                               *)
(*                                                                         *)
(* The 60-byte hotsnot_conf_t is abstracted to five 32-bit words, one per  *)
(* field group, in the order of the struct:                                *)
(*   1 hw_id   2 hw_rev, prod_date, friendly_name   3 serial_no            *)
(*   4 feature_mask   5 _parity                                            *)
(* each word held as the set of its 1 bits (0..31): the XOR of two words  *)
(* is the symmetric difference of their sets, a mask test is a subset     *)
(* test.  The                                                              *)
(* two EEPROM pages hotsnot_conf_write fills (bytes 0..31 and      *)
(* 32..59) are words 1..2 and 3..5.  A page write is atomic in the EEPROM; *)
(* a reset between the pages leaves a torn image.  Transfers fail (a NACK  *)
(* or a bus error), or a read delivers one flipped bit, at most MaxFaults  *)
(* times in a behaviour; malloc failing counts as such a fault.            *)
(***************************************************************************)
EXTENDS Naturals, Sequences, SequencesExt

CONSTANTS
  Images,         \* configurations a client may pass to hotsnot_conf_write
  Factory,        \* the configuration programmed at production
  Blank,          \* the content of an unprogrammed EEPROM
  MaxFaults,      \* transient bus faults in a behaviour
  MaxConfCalls    \* calls the application makes after boot

VARIABLES
  cPc,            \* where the board's main thread is
  confData,       \* the static conf_data
  eeprom,         \* the EEPROM's content
  wPage,          \* the page hotsnot_conf_write writes next
  wRes,           \* its accumulated res == I2C_ACK
  cResult,        \* what the last call returned
  cCall,          \* the call in progress or last made
  cCalls,         \* application calls so far
  received,       \* the words hotsnot_conf_init read at boot
  initRes,        \* how it ended: "accepted", "rejected", "bus_error"
  dcdc,           \* NRF_POWER->DCDCEN
  hallPower,      \* the hall sensor's power pin
  bus,            \* owner of I2C_DEV(0): "free", "sensor" or "conf"
  faults          \* transient faults so far

confVars == <<cPc, confData, eeprom, wPage, wRes, cResult, cCall, cCalls,
              received, initRes, dcdc, hallPower>>

-----------------------------------------------------------------------------
Bit == 0..31
Word == SUBSET Bit

(* The bits of a number below 2^31. *)
Bits(n) == {i \in 0..30 : (n \div 2^i) % 2 = 1}

HOTSNOT_PARITY_INIT == Bits(\h55555555)
HW_ID == Bits(\h53546f48)              \* "HoTS", for the whole id string
INVALID_TEXT == {0}                     \* "ERR", "xxxx-xx-xx", "INVALID CONFIG"
FEATURE_HALL == {4}                     \* HOTSNOT_CONF_FEATURE_HALL (1 << 4)
FEATURE_DCDC == {5}                     \* HOTSNOT_CONF_FEATURE_DCDC (1 << 5)
Pages == <<1..2, 3..5>>                 \* HOTSNOT_EEPROM_PAGE_SIZE chunks

Zero == {}

invalid_conf == <<HW_ID, INVALID_TEXT, Zero, Zero, Zero>>
ZeroConf == [w \in 1..5 |-> Zero]      \* memset(&conf_data, 0, ...)

XorWord(p, w) == (p \ w) \cup (w \ p)

(* The mutant form: the parity alone is checked. *)
HotsnotConfVerifyParityOnly(conf) ==
  FoldLeft(XorWord, HOTSNOT_PARITY_INIT, conf) = Zero

(* hotsnot_conf_verify: the id compared with id_ref (it reads               *)
(* conf_data.hw_id, which is the argument at every call), then the XOR of   *)
(* all words from HOTSNOT_PARITY_INIT must be zero.                          *)
HotsnotConfVerify(conf) ==
  /\ conf[1] = HW_ID
  /\ FoldLeft(XorWord, HOTSNOT_PARITY_INIT, conf) = Zero

(* hotsnot_conf_write's copy into conf_data with the parity over all words *)
(* but the last.                                                            *)
SealAllWords(c) == [c EXCEPT ![5] = FoldLeft(XorWord, HOTSNOT_PARITY_INIT, c)]

Seal(c) == [c EXCEPT ![5] = FoldLeft(XorWord, HOTSNOT_PARITY_INIT, SubSeq(c, 1, 4))]

(* hotsnot_conf_has_features(featureMask) *)
HasFeatures(m) == m \subseteq confData[4]

(* The image after page k of conf_data has been written. *)
WritePageOf(k) ==
  [w \in 1..5 |-> IF w \in Pages[k] THEN confData[w] ELSE eeprom[w]]

-----------------------------------------------------------------------------
(* One I2C transfer to the EEPROM, which answers every one unless a fault  *)
(* intervenes; a faulty read returns feature_mask with the DCDC bit        *)
(* flipped.                                                                *)
Outcomes == {"ack"} \cup (IF faults < MaxFaults THEN {"nack", "buserr"} ELSE {})

ReadOutcomes == Outcomes \cup (IF faults < MaxFaults THEN {"corrupt"} ELSE {})

Counted(o) == faults' = IF o = "ack" THEN faults ELSE faults + 1

Delivered(o) == o \in {"ack", "corrupt"}

ReadBack(o) == IF o = "corrupt" THEN [eeprom EXCEPT ![4] = XorWord(@, FEATURE_DCDC)]
                                ELSE eeprom

(* The main thread's pcs at which it holds the bus. *)
ConfHolds == {"init_read", "write_page"}

(* A whole configuration carries the parity word that makes the XOR of    *)
(* all its words with HOTSNOT_PARITY_INIT zero; the production tool writes *)
(* Factory so.  (A reference, independent of the driver's loops.)          *)
ParityFor(c) ==
  XorWord(XorWord(XorWord(XorWord(HOTSNOT_PARITY_INIT, c[1]), c[2]), c[3]), c[4])
WithParity(c) == <<c[1], c[2], c[3], c[4], ParityFor(c)>>

(* After a reset: conf_data, the GPIOs and DCDCEN in their reset state,    *)
(* board_init about to run.  The EEPROM keeps its content.                 *)
ConfReset ==
  /\ cPc' = "boot" /\ confData' = ZeroConf
  /\ wPage' = 1 /\ wRes' = TRUE
  /\ cResult' = FALSE /\ cCall' = "none"
  /\ received' = ZeroConf /\ initRes' = "none"
  /\ dcdc' = FALSE /\ hallPower' = FALSE

Init ==
  /\ cPc = "boot" /\ confData = ZeroConf
  /\ eeprom \in {WithParity(Factory), Blank}
  /\ wPage = 1 /\ wRes = TRUE
  /\ cResult = FALSE /\ cCall = "none" /\ cCalls = 0
  /\ received = ZeroConf /\ initRes = "none"
  /\ dcdc = FALSE /\ hallPower = FALSE
  /\ bus = "free" /\ faults = 0

-----------------------------------------------------------------------------
(* board_init calls hotsnot_conf_init: conf_data = invalid_conf; acquire;  *)
(* the EEPROM's address is written; on an error release, return false.     *)
ConfInitAddress ==
  /\ cPc = "boot" /\ bus = "free"
  /\ confData' = invalid_conf
  /\ \E o \in Outcomes :
       /\ Counted(o)
       /\ IF Delivered(o)
            THEN bus' = "conf" /\ cPc' = "init_read" /\ UNCHANGED <<initRes, cResult>>
            ELSE cPc' = "board_hw" /\ initRes' = "bus_error" /\ cResult' = FALSE
                 /\ UNCHANGED bus
  /\ cCall' = "init"
  /\ UNCHANGED <<eeprom, wPage, wRes, cCalls, received, dcdc, hallPower>>

(* The mutant form: a configuration that fails verification is left in    *)
(* conf_data.                                                               *)
ConfInitReadKeepsUnverified ==
  /\ cPc = "init_read"
  /\ \E o \in ReadOutcomes :
       /\ Counted(o)
       /\ IF ~Delivered(o)
            THEN confData' = invalid_conf /\ initRes' = "bus_error"
                 /\ cResult' = FALSE /\ UNCHANGED received
            ELSE LET r == ReadBack(o) IN
                 /\ received' = r /\ confData' = r
                 /\ initRes' = IF HotsnotConfVerify(r) THEN "accepted" ELSE "rejected"
                 /\ cResult' = HotsnotConfVerify(r)
  /\ bus' = "free" /\ cPc' = "board_hw"
  /\ UNCHANGED <<eeprom, wPage, wRes, cCall, cCalls, dcdc, hallPower>>

(* ... the configuration is read; on an error conf_data = invalid_conf    *)
(* again; release; a configuration that fails verification is replaced by *)
(* invalid_conf too.                                                        *)
ConfInitRead ==
  /\ cPc = "init_read"
  /\ \E o \in ReadOutcomes :
       /\ Counted(o)
       /\ IF ~Delivered(o)
            THEN confData' = invalid_conf /\ initRes' = "bus_error"
                 /\ cResult' = FALSE /\ UNCHANGED received
            ELSE LET r == ReadBack(o) IN
                 /\ received' = r
                 /\ IF HotsnotConfVerify(r)
                      THEN confData' = r /\ initRes' = "accepted" /\ cResult' = TRUE
                      ELSE confData' = invalid_conf /\ initRes' = "rejected"
                           /\ cResult' = FALSE
  /\ bus' = "free" /\ cPc' = "board_hw"
  /\ UNCHANGED <<eeprom, wPage, wRes, cCall, cCalls, dcdc, hallPower>>

(* board_hall_init: with the HALL feature the pins are configured and the *)
(* sensor's power is cleared.                                               *)
BoardHallInit == IF HasFeatures(FEATURE_HALL) THEN FALSE ELSE hallPower

(* The rest of board_init, whatever hotsnot_conf_init returned: DCDCEN = 1 *)
(* with the DCDC feature, then board_hall_init.                             *)
BoardInitHw ==
  /\ cPc = "board_hw"
  /\ dcdc' = (dcdc \/ HasFeatures(FEATURE_DCDC))
  /\ hallPower' = BoardHallInit
  /\ cPc' = "idle"
  /\ UNCHANGED <<confData, eeprom, wPage, wRes, cResult, cCall, cCalls,
                 received, initRes, bus, faults>>

-----------------------------------------------------------------------------
(* The application, on the main thread after boot. *)
AppCall(name) ==
  /\ cPc = "idle" /\ cCalls < MaxConfCalls
  /\ cCall' = name /\ cCalls' = cCalls + 1

(* board_hall_sense_enable / board_hall_sense_disable: power the hall      *)
(* sensor on or off, if the configuration has the HALL feature.            *)
BoardHallSense ==
  \E on \in BOOLEAN :
    /\ AppCall(IF on THEN "hall_enable" ELSE "hall_disable")
    /\ hallPower' = IF HasFeatures(FEATURE_HALL) THEN on ELSE hallPower
    /\ UNCHANGED <<cPc, confData, eeprom, wPage, wRes, cResult, received,
                   initRes, dcdc, bus, faults>>

(* hotsnot_conf_force_features_enabled / _disabed(featureMask) *)
ForceFeatures ==
  \E on \in BOOLEAN, m \in {FEATURE_HALL, FEATURE_DCDC} :
    /\ AppCall(IF on THEN "force_enabled" ELSE "force_disabled")
    /\ confData' = [confData EXCEPT ![4] = IF on THEN @ \cup m ELSE @ \ m]
    /\ UNCHANGED <<cPc, eeprom, wPage, wRes, cResult, received, initRes, dcdc,
                   hallPower, bus, faults>>

(* hotsnot_conf_write(conf_to_write): malloc the page buffer (false if it  *)
(* fails); conf_data = the configuration with its parity; i2c_acquire,     *)
(* where the thread may block ...                                          *)
HotsnotConfWrite ==
  /\ AppCall("write")
  /\ \E img \in Images :
       \/ /\ faults < MaxFaults /\ faults' = faults + 1     \* malloc fails
          /\ cResult' = FALSE
          /\ UNCHANGED <<cPc, confData>>
       \/ /\ confData' = Seal(img) /\ cPc' = "write_acquire"
          /\ UNCHANGED <<cResult, faults>>
  /\ UNCHANGED <<eeprom, wPage, wRes, received, initRes, dcdc, hallPower, bus>>

(* The mutant form: the path where the EEPROM does not answer returns     *)
(* without releasing the bus.                                               *)
WriteAcquireKeepsBus ==
  /\ cPc = "write_acquire" /\ bus = "free" /\ bus' = "conf"
  /\ \E o \in Outcomes :
       /\ Counted(o)
       /\ IF Delivered(o)
            THEN cPc' = "write_page" /\ wPage' = 1 /\ wRes' = TRUE
                 /\ UNCHANGED <<confData, cResult>>
            ELSE confData' = ZeroConf /\ cResult' = FALSE /\ cPc' = "idle"
                 /\ UNCHANGED <<wPage, wRes>>
  /\ UNCHANGED <<eeprom, cCall, cCalls, received, initRes, dcdc, hallPower>>

(* ... acquired; the EEPROM is polled; if it does not answer, release,    *)
(* zero conf_data, false ...                                               *)
WriteAcquire ==
  /\ cPc = "write_acquire" /\ bus = "free"
  /\ \E o \in Outcomes :
       /\ Counted(o)
       /\ IF Delivered(o)
            THEN bus' = "conf" /\ cPc' = "write_page" /\ wPage' = 1 /\ wRes' = TRUE
                 /\ UNCHANGED <<confData, cResult>>
            ELSE confData' = ZeroConf /\ cResult' = FALSE /\ cPc' = "idle"
                 /\ UNCHANGED <<bus, wPage, wRes>>
  /\ UNCHANGED <<eeprom, cCall, cCalls, received, initRes, dcdc, hallPower>>

(* The mutant form: the page loop runs one page past the configuration. *)
WritePageOverrun ==
  /\ cPc = "write_page"
  /\ \E o \in Outcomes :
       /\ Counted(o)
       /\ eeprom' = IF Delivered(o) /\ wPage <= Len(Pages) THEN WritePageOf(wPage) ELSE eeprom
       /\ wRes' = (wRes /\ Delivered(o))
       /\ IF wPage > Len(Pages)
            THEN /\ bus' = "free" /\ confData' = ZeroConf
                 /\ cResult' = (wRes /\ Delivered(o)) /\ cPc' = "idle"
                 /\ UNCHANGED wPage
            ELSE wPage' = wPage + 1 /\ UNCHANGED <<bus, confData, cResult, cPc>>
  /\ UNCHANGED <<cCall, cCalls, received, initRes, dcdc, hallPower>>

(* The mutant form: the last page returns without clearing conf_data. *)
WritePageKeepsConf ==
  /\ cPc = "write_page"
  /\ \E o \in Outcomes :
       /\ Counted(o)
       /\ eeprom' = IF Delivered(o) THEN WritePageOf(wPage) ELSE eeprom
       /\ wRes' = (wRes /\ Delivered(o))
       /\ IF wPage = Len(Pages)
            THEN /\ bus' = "free"
                 /\ cResult' = (wRes /\ Delivered(o)) /\ cPc' = "idle"
                 /\ UNCHANGED <<wPage, confData>>
            ELSE wPage' = wPage + 1 /\ UNCHANGED <<bus, confData, cResult, cPc>>
  /\ UNCHANGED <<cCall, cCalls, received, initRes, dcdc, hallPower>>

(* ... one page: its address and bytes are written, res |= the result,    *)
(* and the EEPROM is polled until it acknowledges the end of its write     *)
(* cycle; after the last page release, zero conf_data and return           *)
(* res == I2C_ACK.                                                          *)
WritePage ==
  /\ cPc = "write_page"
  /\ \E o \in Outcomes :
       /\ Counted(o)
       /\ eeprom' = IF Delivered(o) THEN WritePageOf(wPage) ELSE eeprom
       /\ wRes' = (wRes /\ Delivered(o))
       /\ IF wPage = Len(Pages)
            THEN /\ bus' = "free" /\ confData' = ZeroConf
                 /\ cResult' = (wRes /\ Delivered(o)) /\ cPc' = "idle"
                 /\ UNCHANGED wPage
            ELSE wPage' = wPage + 1 /\ UNCHANGED <<bus, confData, cResult, cPc>>
  /\ UNCHANGED <<cCall, cCalls, received, initRes, dcdc, hallPower>>

-----------------------------------------------------------------------------
ConfCall == BoardHallSense \/ ForceFeatures \/ HotsnotConfWrite

ConfContinue ==
  ConfInitAddress \/ ConfInitRead \/ BoardInitHw \/ WriteAcquire \/ WritePage

Next == ConfCall \/ ConfContinue

vars == <<confVars, bus, faults>>

Spec == Init /\ [][Next]_vars /\ WF_vars(ConfContinue)

-----------------------------------------------------------------------------
IsImage(c) ==
  DOMAIN c = 1..5 /\ \A w \in 1..5 : c[w] \subseteq Bit

TypeOK ==
  /\ cPc \in {"boot", "init_read", "board_hw", "idle", "write_acquire",
              "write_page"}
  /\ IsImage(confData) /\ IsImage(eeprom) /\ IsImage(received)
  /\ wPage \in 1..Len(Pages) /\ wRes \in BOOLEAN
  /\ cResult \in BOOLEAN
  /\ cCall \in {"none", "init", "hall_enable", "hall_disable", "force_enabled",
                "force_disabled", "write"}
  /\ cCalls \in 0..MaxConfCalls
  /\ initRes \in {"none", "accepted", "rejected", "bus_error"}
  /\ dcdc \in BOOLEAN /\ hallPower \in BOOLEAN
  /\ bus \in {"free", "sensor", "conf"} /\ faults \in 0..MaxFaults

(* r is one of the whole configurations with the board's id: its first   *)
(* four words are those of a configuration a client or the production tool *)
(* wrote and its last is that configuration's parity.                      *)
IsGoodImage(r) ==
  /\ r[1] = HW_ID
  /\ \E c \in Images \cup {Factory} :
       SubSeq(r, 1, 4) = SubSeq(c, 1, 4) /\ r[5] = ParityFor(c)

(* Whatever resets tore a write and whatever bit the bus flipped, the boot *)
(* read accepts exactly the whole configurations with the board's id:      *)
(* never a torn, corrupted, foreign or blank image, and never rejects a    *)
(* good one it read intact.                                                 *)
ConfReadSound ==
  initRes \in {"accepted", "rejected"} =>
    (initRes = "accepted" <=> IsGoodImage(received))

(* hotsnot_conf_write returns true only when the EEPROM then holds the     *)
(* whole configuration passed to it, with the parity the boot read checks. *)
WriteDurable ==
  cPc = "idle" /\ cCall = "write" /\ cResult = TRUE =>
    \E img \in Images : eeprom = WithParity(img)

(* The DC/DC converter is switched on only when the configuration read at  *)
(* boot was verified and has the DCDC feature (board_init ignores          *)
(* hotsnot_conf_init's result and relies on conf_data).                    *)
DcdcOnlyIfConfigured ==
  dcdc => initRes = "accepted" /\ FEATURE_DCDC \subseteq received[4]

(* A configuration with its feature mask cleared: the force calls change *)
(* the mask and nothing else.                                             *)
Unfeatured(c) == [c EXCEPT ![4] = Zero]

(* hotsnot_conf_get and hotsnot_conf_has_features only ever serve a       *)
(* configuration the boot read verified, invalid_conf, or zeros: although *)
(* hotsnot_conf_write fills conf_data with a configuration that was never *)
(* read back, every path out of it (the EEPROM not answering, the last    *)
(* page) clears it again, feature bits aside.                             *)
ConfServedVerified ==
  cPc \in {"board_hw", "idle"} =>
    Unfeatured(confData) \in
      {Unfeatured(invalid_conf), ZeroConf}
        \cup (IF initRes = "accepted" THEN {Unfeatured(received)} ELSE {})
=============================================================================

------------------------------ MODULE RocketIf ------------------------------
(***************************************************************************)
(* The rocketif Ethernet driver (src/drivers/rocketif/rocketif.c) for one  *)
(* interface, with the three contexts that touch it:                       *)
(*   - the interface's netif thread (auto_init_rocketif creates one per    *)
(*     interface), which runs rif_init, rif_send and, for every            *)
(*     NETDEV_EVENT_ISR message, rif_isr; the stack's recv runs inside the *)
(*     RX_COMPLETE event callback, on the same thread;                     *)
(*   - the PLIC dispatch of the TX and RX interrupts to                    *)
(*     rocketif_interrupt_callback, which preempts the thread between any  *)
(*     two of its steps;                                                   *)
(*   - the MAC itself: it finishes a frame (with or without error) and     *)
(*     raises the TX interrupt, and it queues received frames in its RX    *)
(*     FIFO and raises the RX interrupt.                                   *)
(* The txMutex is taken by rif_send and handed over to rif_isr, which     *)
(* releases it once the TX interrupt reported the outcome.                 *)
(*                                                                         *)
(* Received frames are numbered in arrival order; a frame is "ok" (FCS_OK  *)
(* and nothing else) or "bad" (FCS, padding or length error).  The         *)
(* NETDEV_EVENT_ISR message is a flag: rif_isr reposts it whenever it      *)
(* found a frame, so a second message posted before the first is taken    *)
(* adds nothing.                                                           *)
(***************************************************************************)
EXTENDS Naturals, Sequences, SequencesExt

CONSTANTS
  MaxSends,     \* frames the stack hands to rif_send
  MaxFrames     \* frames the MAC receives

ASSUME MaxSends \in Nat /\ MaxFrames \in Nat

TxStatuses == {"UNINITIALIZED", "IDLE", "BUSY", "COMPLETE", "ERROR"}
RXIRQ == 3
TXIRQ == 4

VARIABLES
  pc,           \* netif thread: "init", "idle", "send" (inside rif_send)
  txStatus,     \* rocketIf->txStatus
  txMutex,      \* rocketIf->txMutex is locked
  hwTx,         \* MAC transmitter: "off", "idle", "sending", "done", "error"
  rxEnabled,    \* RXCTRL enable bit
  plicOn,       \* TX and RX sources enabled at the PLIC
  txIrq, rxIrq, \* the sources' requests pending at the PLIC
  isrEvent,     \* a NETDEV_EVENT_ISR message waits for the netif thread
  rxKinds,      \* kind of every frame the MAC received, by arrival
  rxHead,       \* frames taken out of the RX FIFO
  passedUp,     \* frames handed to the stack with RX_COMPLETE, in order
  sends,        \* calls of rif_send so far
  started,      \* frames given to the transmitter
  reported,     \* TX_COMPLETE / TX_MEDIUM_BUSY events for started frames
  aborted       \* history: a transmission was reset while in progress

vars == <<pc, txStatus, txMutex, hwTx, rxEnabled, plicOn, txIrq, rxIrq,
          isrEvent, rxKinds, rxHead, passedUp, sends, started, reported,
          aborted>>

(* rocketif_create(id): txStatus UNINITIALIZED, both mutexes unlocked,     *)
(* the RX buffer empty; the MAC is off until rif_init.                     *)
Init ==
  /\ pc = "init"
  /\ txStatus = "UNINITIALIZED" /\ txMutex = FALSE
  /\ hwTx = "off" /\ rxEnabled = FALSE
  /\ plicOn = FALSE /\ txIrq = FALSE /\ rxIrq = FALSE
  /\ isrEvent = FALSE
  /\ rxKinds = <<>> /\ rxHead = 0 /\ passedUp = <<>>
  /\ sends = 0 /\ started = 0 /\ reported = 0
  /\ aborted = FALSE

-----------------------------------------------------------------------------
(* rif_init: with both mutexes held, reset the MAC, register the callback  *)
(* for both sources, enable them, enable TX and RX and read the registers  *)
(* back.  A read-back that does not match (no MAC there) disables          *)
(* everything again and leaves txStatus UNINITIALIZED.                     *)
RifInit ==
  /\ pc = "init"
  /\ \E hwOk \in BOOLEAN :
       /\ txStatus' = IF hwOk THEN "IDLE" ELSE "UNINITIALIZED"
       /\ hwTx' = IF hwOk THEN "idle" ELSE "off"
       /\ rxEnabled' = hwOk
       /\ plicOn' = hwOk
  /\ pc' = "idle"
  /\ UNCHANGED <<txMutex, txIrq, rxIrq, isrEvent, rxKinds, rxHead, passedUp,
                 sends, started, reported, aborted>>

(* rif_isr, as the primed values it leaves.  RX: with the buffer empty,    *)
(* update_input_buffer pops the FIFO's head frame, if any; a valid frame   *)
(* goes up with RX_COMPLETE (whose callback reads it out with rif_recv,    *)
(* emptying the buffer), an invalid one is discarded and the receiver      *)
(* restarted (rif_restart_rx); either way NETDEV_EVENT_ISR is posted      *)
(* again.  TX: COMPLETE or ERROR go back to IDLE and release txMutex; on   *)
(* ERROR the transmitter is reset.                                         *)
RxFrameValid(k) == rxKinds[k] = "ok"

RifIsrRxNoRepostOnError(evIn) ==
  IF rxHead < Len(rxKinds)
    THEN /\ rxHead' = rxHead + 1
         /\ passedUp' = IF RxFrameValid(rxHead + 1)
                          THEN Append(passedUp, rxHead + 1) ELSE passedUp
         /\ isrEvent' = (evIn \/ RxFrameValid(rxHead + 1))
    ELSE /\ UNCHANGED <<rxHead, passedUp>>
         /\ isrEvent' = evIn

(* update_input_buffer: reads the head's status word; for a frame it     *)
(* reads the payload words up to the end mark, popping each, and leaves    *)
(* size and flags in the buffer; an empty FIFO leaves the buffer empty.    *)
UpdateInputBuffer == rxHead' = rxHead + 1

(* rif_recv, called by the RX_COMPLETE callback: first for the size, then *)
(* for the payload (or with buf NULL to drop it); either call that reaches *)
(* the end of the frame clears size, flags and readPos.                    *)
RifRecv(k) == passedUp' = Append(passedUp, k)

(* rif_restart_rx: disables the RX source and the receiver, then enables   *)
(* both again; a request pending at the PLIC stays pending, and the frames *)
(* already in the FIFO stay there.                                         *)
RifRestartRx == UNCHANGED <<rxEnabled, plicOn, rxIrq>>

RifIsrRx(evIn) ==
  IF rxHead < Len(rxKinds)
    THEN /\ UpdateInputBuffer
         /\ IF RxFrameValid(rxHead + 1) THEN RifRecv(rxHead + 1)
                                        ELSE UNCHANGED passedUp /\ RifRestartRx
         /\ isrEvent' = TRUE
    ELSE /\ UNCHANGED <<rxHead, passedUp>>
         /\ isrEvent' = evIn

RifIsrTxAnyStatus ==
  IF txStatus # "IDLE"
    THEN /\ txStatus' = "IDLE"
         /\ txMutex' = FALSE
         /\ hwTx' = IF txStatus = "ERROR" THEN "idle" ELSE hwTx
         /\ reported' = reported + 1
    ELSE UNCHANGED <<txStatus, txMutex, hwTx, reported>>

RifIsrTxNoUnlockOnError ==
  IF txStatus \in {"COMPLETE", "ERROR"}
    THEN /\ txStatus' = "IDLE"
         /\ txMutex' = (txStatus = "ERROR")
         /\ hwTx' = IF txStatus = "ERROR" THEN "idle" ELSE hwTx
         /\ reported' = reported + 1
    ELSE UNCHANGED <<txStatus, txMutex, hwTx, reported>>

RifIsrTx ==
  IF txStatus \in {"COMPLETE", "ERROR"}
    THEN /\ txStatus' = "IDLE"
         /\ txMutex' = FALSE
         /\ hwTx' = IF txStatus = "ERROR" THEN "idle" ELSE hwTx
         /\ reported' = reported + 1
    ELSE UNCHANGED <<txStatus, txMutex, hwTx, reported>>

RifIsr(evIn) ==
  /\ RifIsrRx(evIn)
  /\ RifIsrTx
  /\ UNCHANGED <<rxEnabled, plicOn, txIrq, rxIrq, rxKinds, sends, started,
                 aborted>>

(* The netif thread takes a NETDEV_EVENT_ISR message and calls rif_isr. *)
HandleIsrEvent ==
  /\ pc = "idle" /\ isrEvent
  /\ RifIsr(FALSE)
  /\ UNCHANGED pc

-----------------------------------------------------------------------------
(* rif_send(dev, iolist), entered with a frame that fits TX_MAX_PAYLOAD. *)
RifSend ==
  /\ pc = "idle" /\ sends < MaxSends
  /\ pc' = "send"
  /\ sends' = sends + 1
  /\ UNCHANGED <<txStatus, txMutex, hwTx, rxEnabled, plicOn, txIrq, rxIrq,
                 isrEvent, rxKinds, rxHead, passedUp, started, reported,
                 aborted>>

(* while (!mutex_trylock(&txMutex)) { thread_yield(); rif_isr(dev); } *)
SendWaitTx ==
  /\ pc = "send" /\ txMutex
  /\ RifIsr(isrEvent)
  /\ UNCHANGED pc

(* The lock is taken but txStatus is not IDLE: unlock, TX_MEDIUM_BUSY,   *)
(* RIF_ERR_NOT_READY.                                                     *)
SendNotReady ==
  /\ pc = "send" /\ ~txMutex /\ txStatus # "IDLE"
  /\ pc' = "idle"
  /\ UNCHANGED <<txStatus, txMutex, hwTx, rxEnabled, plicOn, txIrq, rxIrq,
                 isrEvent, rxKinds, rxHead, passedUp, sends, started,
                 reported, aborted>>

(* txStatus = BUSY, TXCTRL = 0 (resets the transmitter), the frame and    *)
(* its padding into the FIFO, TXCTRL = 0x04 (send); txMutex stays locked. *)
SendStart ==
  /\ pc = "send" /\ ~txMutex /\ txStatus = "IDLE"
  /\ txMutex' = TRUE
  /\ txStatus' = "BUSY"
  /\ aborted' = (aborted \/ hwTx = "sending")
  /\ hwTx' = "sending"
  /\ started' = started + 1
  /\ pc' = "idle"
  /\ UNCHANGED <<rxEnabled, plicOn, txIrq, rxIrq, isrEvent, rxKinds, rxHead,
                 passedUp, sends, reported>>

-----------------------------------------------------------------------------
(* rocketif_interrupt_callback(intnum), run by the PLIC dispatch: for the  *)
(* TX source, txStatus from TXCTRL's error bit; for both, the             *)
(* NETDEV_EVENT_ISR message.                                              *)
InterruptStatusAnySource(intnum) ==
  IF hwTx = "error" THEN "ERROR" ELSE "COMPLETE"

InterruptStatus(intnum) ==
  IF intnum = TXIRQ
    THEN IF hwTx = "error" THEN "ERROR" ELSE "COMPLETE"
    ELSE txStatus

InterruptCallbackRxEventOnly(intnum) ==
  /\ txStatus' = InterruptStatus(intnum)
  /\ isrEvent' = (isrEvent \/ intnum = RXIRQ)

InterruptCallback(intnum) ==
  /\ txStatus' = InterruptStatus(intnum)
  /\ isrEvent' = TRUE

TxInterrupt ==
  /\ plicOn /\ txIrq
  /\ InterruptCallback(TXIRQ)
  /\ txIrq' = FALSE
  /\ UNCHANGED <<pc, txMutex, hwTx, rxEnabled, plicOn, rxIrq, rxKinds,
                 rxHead, passedUp, sends, started, reported, aborted>>

RxInterrupt ==
  /\ plicOn /\ rxIrq
  /\ InterruptCallback(RXIRQ)
  /\ rxIrq' = FALSE
  /\ UNCHANGED <<pc, txMutex, hwTx, rxEnabled, plicOn, txIrq, rxKinds,
                 rxHead, passedUp, sends, started, reported, aborted>>

-----------------------------------------------------------------------------
(* The MAC: a transmission ends, well or with the error bit set, and      *)
(* raises the TX interrupt; a frame arrives while the receiver is on and   *)
(* raises the RX interrupt.                                                *)
MacTxDone ==
  /\ hwTx = "sending"
  /\ hwTx' \in {"done", "error"}
  /\ txIrq' = TRUE
  /\ UNCHANGED <<pc, txStatus, txMutex, rxEnabled, plicOn, rxIrq, isrEvent,
                 rxKinds, rxHead, passedUp, sends, started, reported,
                 aborted>>

MacRxFrame ==
  /\ rxEnabled /\ Len(rxKinds) < MaxFrames
  /\ \E kind \in {"ok", "bad"} : rxKinds' = Append(rxKinds, kind)
  /\ rxIrq' = TRUE
  /\ UNCHANGED <<pc, txStatus, txMutex, hwTx, rxEnabled, plicOn, txIrq,
                 isrEvent, rxHead, passedUp, sends, started, reported,
                 aborted>>

-----------------------------------------------------------------------------
Next ==
  \/ RifInit \/ HandleIsrEvent
  \/ RifSend \/ SendWaitTx \/ SendNotReady \/ SendStart
  \/ TxInterrupt \/ RxInterrupt
  \/ MacTxDone \/ MacRxFrame

(* The netif thread runs whenever it has work (it is the only user of     *)
(* the driver and never blocks inside it), the PLIC delivers an enabled   *)
(* pending source, and the MAC finishes what it started.  The stack and  *)
(* the network owe nothing.                                               *)
Fairness ==
  /\ WF_vars(RifInit) /\ WF_vars(HandleIsrEvent)
  /\ WF_vars(SendWaitTx) /\ WF_vars(SendNotReady) /\ WF_vars(SendStart)
  /\ WF_vars(TxInterrupt) /\ WF_vars(RxInterrupt)
  /\ WF_vars(MacTxDone)

Spec == Init /\ [][Next]_vars /\ Fairness

-----------------------------------------------------------------------------
TypeOK ==
  /\ pc \in {"init", "idle", "send"}
  /\ txStatus \in TxStatuses /\ txMutex \in BOOLEAN
  /\ hwTx \in {"off", "idle", "sending", "done", "error"}
  /\ {rxEnabled, plicOn, txIrq, rxIrq, isrEvent, aborted} \subseteq BOOLEAN
  /\ rxKinds \in Seq({"ok", "bad"}) /\ Len(rxKinds) <= MaxFrames
  /\ rxHead \in 0..Len(rxKinds)
  /\ passedUp \in Seq(1..MaxFrames)
  /\ sends \in 0..MaxSends /\ started \in 0..MaxSends
  /\ reported \in 0..MaxSends

(* txMutex is held exactly while a frame is in the driver's hands: from    *)
(* rif_send's start of a transmission until rif_isr has consumed the      *)
(* outcome the TX interrupt left in txStatus.  A lock left behind would    *)
(* block every later rif_send; a lock dropped early lets one start over a  *)
(* frame still in flight.                                                  *)
TxMutexTracksStatus ==
  txMutex <=> txStatus \in {"BUSY", "COMPLETE", "ERROR"}

(* rif_send never resets the transmitter (TXCTRL = 0) while it is still   *)
(* sending the previous frame: the hand-over of txMutex through the TX    *)
(* interrupt and rif_isr orders every start after the previous outcome.   *)
NoFrameAborted == ~aborted

(* Every started frame's outcome is eventually reported to the stack      *)
(* (TX_COMPLETE or TX_MEDIUM_BUSY) and txMutex released, even when no      *)
(* further rif_send comes to poll rif_isr.                                 *)
TxReported ==
  \A k \in 1..MaxSends : started >= k ~> reported >= k

(* Every frame the MAC received is eventually taken out of its FIFO, the  *)
(* frames queued behind an invalid one included.                          *)
RxDrained ==
  \A k \in 1..MaxFrames : Len(rxKinds) >= k ~> rxHead >= k

=============================================================================

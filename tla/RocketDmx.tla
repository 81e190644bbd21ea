------------------------------ MODULE RocketDmx ------------------------------
(***************************************************************************)
(* The RocketDMX driver (src/drivers/rocketDMX/rocketDMX.c) for one        *)
(* interface, composed with the PLIC router of module Plic: the driver    *)
(* registers rdmx_interrupt_callback for its source, the device raises     *)
(* that source when a page flip or a shutdown has taken effect, and the    *)
(* router's dispatch runs the callback, which advances dev->status         *)
(* without the hwMutex.  The other sources of the PLIC keep their generic  *)
(* drivers and devices from module Plic.                                   *)
(*                                                                         *)
(* The API is called by one client thread; hwMutex serialises the calls,   *)
(* so a second client would only wait.  Each call is one step, except     *)
(* where the interrupt can meaningfully come between two of its stores:    *)
(* rdmx_init and the two halves of rdmx_flip_page and rdmx_shutdown.       *)
(* The control register is kept as the fields the driver's shadow          *)
(* controlRegInt and the device share (enable bit 31, double buffering     *)
(* bit 27, interrupt unmask bit 26); the flip bit 28 is written but never  *)
(* kept in the shadow.  The channel window baseaddr[0..511] is kept, with *)
(* PageSize channels standing for 512; start bytes are data the control   *)
(* flow does not depend on.                                               *)
(*                                                                         *)
(* The device (not in the repository) is taken to finish the frame in      *)
(* progress when disabled, with bit 30 (busy) set until then; a flip      *)
(* takes effect at the end of a frame; each of the two raises the          *)
(* interrupt if it is unmasked.  Enabling starts from page 0.              *)
(***************************************************************************)
EXTENDS Naturals, Sequences

CONSTANTS
  Sources, NumInterrupts, Prio, Handlers, NullIsr, MaxRaise,  \* of Plic
  DmxIrq,         \* RDMX_IRQS[0]
  RdmxCb,         \* rdmx_interrupt_callback, one of Handlers
  MaxDmxCalls,    \* API calls the client makes after rdmx_init
  PageSize,       \* channels in the window (512)
  DmxVals         \* channel values (uint8_t)

ASSUME DmxIrq \in Sources /\ RdmxCb \in Handlers /\ MaxDmxCalls \in Nat
ASSUME PageSize \in Nat \ {0}

VARIABLES
  table, enabled, pending, inService, isrPc, intNum, raised, calls,
  dmxPc,      \* client: "none" (before rdmx_init), init steps, "idle",
              \* "flip_go", "shutdown_go"
  status,     \* dev->status
  registered, \* DRIVERS[id] = dev has been done
  ctrl,       \* control register and its shadow: [en, db, unmask]
  page,       \* device: page on output
  flipReq,    \* device: a flip waits for the end of the frame
  stopping,   \* device: disabled, finishing its frame (bit 30)
  dmxCalls,   \* API calls made after rdmx_init
  win,        \* device: the channel window baseaddr[0..PageSize-1]
  asked       \* history: per channel, the value the client last set it to

plicVars == <<table, enabled, pending, inService, isrPc, intNum, raised, calls>>
chanVars == <<win, asked>>
dmxVars == <<dmxPc, status, registered, ctrl, page, flipReq, stopping, dmxCalls,
            win, asked>>
vars == <<plicVars, dmxVars>>

P == INSTANCE Plic

Statuses == {"RDMX_INACTIVE", "RDMX_ACTIVE_SB", "RDMX_ACTIVE_PAGE0",
             "RDMX_FLIPPING_0_TO_1", "RDMX_FLIPPING_1_TO_0",
             "RDMX_ACTIVE_PAGE1", "RDMX_SHUTTING_DOWN"}

Channel == 0..PageSize - 1

Ctrl(en, db, unmask) == [en |-> en, db |-> db, unmask |-> unmask]

(* The device may still be running from before the boot, interrupt masked. *)
Init ==
  /\ P!Init
  /\ dmxPc = "none"
  /\ status = "RDMX_INACTIVE"        \* the zeroed static rocketdmx_t
  /\ registered = FALSE
  /\ ctrl \in {Ctrl(FALSE, FALSE, FALSE), Ctrl(TRUE, FALSE, FALSE)}
  /\ page = 0 /\ flipReq = FALSE /\ stopping = FALSE
  /\ dmxCalls = 0
  /\ win \in [Channel -> DmxVals]    \* rdmx_init does not clear it
  /\ asked = win

-----------------------------------------------------------------------------
(* A store to the control register: clearing the enable bit of a running   *)
(* device makes it finish its frame; setting it starts from page 0.        *)
WriteCtrl(c) ==
  /\ ctrl' = c
  /\ stopping' = (stopping \/ (ctrl.en /\ ~c.en))
  /\ page' = IF c.en /\ ~ctrl.en THEN 0 ELSE page

(* rdmx_is_busy(dev) *)
RdmxIsBusy(s) ==
  s \in {"RDMX_SHUTTING_DOWN", "RDMX_FLIPPING_0_TO_1", "RDMX_FLIPPING_1_TO_0"}

ThreadMayRun == isrPc = "none"     \* no trap handler is running

(* rdmx_init: lock, controlRegInt = 0x001F0000 stored (disabled, masked),  *)
(* startByte = 0.                                                          *)
RdmxInitReset ==
  /\ ThreadMayRun /\ dmxPc = "none"
  /\ WriteCtrl(Ctrl(FALSE, FALSE, FALSE))
  /\ dmxPc' = "init_wait"
  /\ UNCHANGED <<plicVars, status, registered, flipReq, dmxCalls, chanVars>>

(* while (baseaddr[512] & 0x40000000) thread_yield(); *)
RdmxInitWait ==
  /\ ThreadMayRun /\ dmxPc = "init_wait" /\ ~stopping
  /\ dmxPc' = "init_cb"
  /\ UNCHANGED <<plicVars, status, registered, ctrl, page, flipReq, stopping,
                 dmxCalls, chanVars>>

(* set_external_isr_cb(IRQS[id], rdmx_interrupt_callback) *)
RdmxInitCb ==
  /\ dmxPc = "init_cb"
  /\ P!SetExternalIsrCb(DmxIrq, RdmxCb)
  /\ dmxPc' = "init_enable"
  /\ UNCHANGED <<status, registered, ctrl, page, flipReq, stopping, dmxCalls,
                 chanVars>>

(* PLIC_set_priority(dev->irq, RDMX_IRQ_PRIO); PLIC_enable_interrupt(dev->irq) *)
RdmxInitEnable ==
  /\ dmxPc = "init_enable"
  /\ P!EnableInterrupt(DmxIrq)
  /\ dmxPc' = "init_publish"
  /\ UNCHANGED <<status, registered, ctrl, page, flipReq, stopping, dmxCalls,
                 chanVars>>

(* DRIVERS[id] = dev; dev->status = RDMX_INACTIVE; unlock. *)
RdmxInitPublish ==
  /\ ThreadMayRun /\ dmxPc = "init_publish"
  /\ registered' = TRUE
  /\ status' = "RDMX_INACTIVE"
  /\ dmxPc' = "idle"
  /\ UNCHANGED <<plicVars, ctrl, page, flipReq, stopping, dmxCalls, chanVars>>

-----------------------------------------------------------------------------
(* An API call starts: the client is idle and takes hwMutex. *)
Call == ThreadMayRun /\ dmxPc = "idle" /\ dmxCalls < MaxDmxCalls

(* rdmx_begin_single_buffered(dev, channelCount), a valid count: from      *)
(* INACTIVE, the count is stored, then the enable bit; else RDMX_ERR_BUSY. *)
RdmxBeginSingleBuffered ==
  /\ Call
  /\ IF status = "RDMX_INACTIVE"
       THEN /\ WriteCtrl(Ctrl(TRUE, FALSE, FALSE))
            /\ status' = "RDMX_ACTIVE_SB"
       ELSE UNCHANGED <<ctrl, page, stopping, status>>
  /\ dmxCalls' = dmxCalls + 1
  /\ UNCHANGED <<plicVars, dmxPc, registered, flipReq, chanVars>>

(* rdmx_begin_double_buffered(dev, channelCount): enable, double           *)
(* buffering and the interrupt unmasked in one store.                      *)
RdmxBeginDoubleBuffered ==
  /\ Call
  /\ IF status = "RDMX_INACTIVE"
       THEN /\ WriteCtrl(Ctrl(TRUE, TRUE, TRUE))
            /\ status' = "RDMX_ACTIVE_PAGE0"
       ELSE UNCHANGED <<ctrl, page, stopping, status>>
  /\ dmxCalls' = dmxCalls + 1
  /\ UNCHANGED <<plicVars, dmxPc, registered, flipReq, chanVars>>

(* rdmx_flip_page, first half: on an active page, mask the interrupt and   *)
(* set the FLIPPING status; otherwise RDMX_ERR_BUSY.                       *)
FlipTarget == [p \in {"RDMX_ACTIVE_PAGE0", "RDMX_ACTIVE_PAGE1"} |->
                 IF p = "RDMX_ACTIVE_PAGE0" THEN "RDMX_FLIPPING_0_TO_1"
                                            ELSE "RDMX_FLIPPING_1_TO_0"]

RdmxFlipPageMask ==
  /\ Call
  /\ IF status \in DOMAIN FlipTarget
       THEN /\ WriteCtrl([ctrl EXCEPT !.unmask = FALSE])
            /\ status' = FlipTarget[status]
            /\ dmxPc' = "flip_go"
       ELSE UNCHANGED <<ctrl, page, stopping, status, dmxPc>>
  /\ dmxCalls' = dmxCalls + 1
  /\ UNCHANGED <<plicVars, registered, flipReq, chanVars>>

(* ... second half: unmask, and store once more with the flip bit; unlock. *)
RdmxFlipPageGo ==
  /\ ThreadMayRun /\ dmxPc = "flip_go"
  /\ WriteCtrl([ctrl EXCEPT !.unmask = TRUE])
  /\ flipReq' = TRUE
  /\ dmxPc' = "idle"
  /\ UNCHANGED <<plicVars, status, registered, dmxCalls, chanVars>>

(* rdmx_shutdown, first half: INACTIVE gives RDMX_ERR_INVAL, a busy status *)
(* RDMX_ERR_BUSY; otherwise mask the interrupt and set SHUTTING_DOWN.      *)
RdmxShutdownMask ==
  /\ Call
  /\ IF status # "RDMX_INACTIVE" /\ ~RdmxIsBusy(status)
       THEN /\ WriteCtrl([ctrl EXCEPT !.unmask = FALSE])
            /\ status' = "RDMX_SHUTTING_DOWN"
            /\ dmxPc' = "shutdown_go"
       ELSE UNCHANGED <<ctrl, page, stopping, status, dmxPc>>
  /\ dmxCalls' = dmxCalls + 1
  /\ UNCHANGED <<plicVars, registered, flipReq, chanVars>>

(* ... second half: unmask and clear the enable bit in one store; unlock. *)
RdmxShutdownGoMasked ==
  /\ ThreadMayRun /\ dmxPc = "shutdown_go"
  /\ WriteCtrl([ctrl EXCEPT !.en = FALSE])
  /\ dmxPc' = "idle"
  /\ UNCHANGED <<plicVars, status, registered, flipReq, dmxCalls, chanVars>>

RdmxShutdownGo ==
  /\ ThreadMayRun /\ dmxPc = "shutdown_go"
  /\ WriteCtrl([ctrl EXCEPT !.unmask = TRUE, !.en = FALSE])
  /\ dmxPc' = "idle"
  /\ UNCHANGED <<plicVars, status, registered, flipReq, dmxCalls, chanVars>>

(* rdmx_set_start_byte: unless busy, the start byte is stored into the    *)
(* control register's low half, and the control fields back unchanged.    *)
RdmxSetStartByte ==
  /\ Call
  /\ dmxCalls' = dmxCalls + 1
  /\ UNCHANGED <<plicVars, dmxPc, status, registered, ctrl, page, flipReq,
                 stopping, chanVars>>

(* The window after storing vals (values[0..]) from channel first on. *)
WriteWindow(w, first, vals) ==
  [c \in Channel |-> IF first <= c /\ c < first + Len(vals)
                       THEN vals[c - first + 1] ELSE w[c]]

(* rdmx_set_channel(dev, channel, value): channel > 511 is RDMX_ERR_INVAL  *)
(* before the lock; busy is RDMX_ERR_BUSY; else baseaddr[channel] = value. *)
RdmxSetChannel(c, v) ==
  /\ Call
  /\ IF c < PageSize /\ ~RdmxIsBusy(status)
       THEN /\ win' = [win EXCEPT ![c] = v]
            /\ asked' = [asked EXCEPT ![c] = v]
       ELSE UNCHANGED chanVars
  /\ dmxCalls' = dmxCalls + 1
  /\ UNCHANGED <<plicVars, dmxPc, status, registered, ctrl, page, flipReq,
                 stopping>>

(* rdmx_set_channels(dev, start, count, values): start + count > 512 is    *)
(* RDMX_ERR_INVAL before the lock; busy is RDMX_ERR_BUSY; else the loop   *)
(* for (i = 0; i < count; i++) baseaddr[i] = values[i].  The client asked  *)
(* for channels start..start+count-1.                                      *)
RdmxSetChannels(first, vals) ==
  /\ Call
  /\ IF first + Len(vals) <= PageSize /\ ~RdmxIsBusy(status)
       THEN /\ win' = WriteWindow(win, 0, vals)
            /\ asked' = WriteWindow(asked, first, vals)
       ELSE UNCHANGED chanVars
  /\ dmxCalls' = dmxCalls + 1
  /\ UNCHANGED <<plicVars, dmxPc, status, registered, ctrl, page, flipReq,
                 stopping>>

-----------------------------------------------------------------------------
(* rdmx_interrupt_callback(irq), from the router's dispatch: the FLIPPING  *)
(* statuses become the new page, SHUTTING_DOWN becomes INACTIVE, any other *)
(* status is left alone.  (It reads DRIVERS[i]->irq: a dispatch before     *)
(* rdmx_init's DRIVERS[id] = dev would dereference NULL; the device raises *)
(* nothing before rdmx_init has unmasked it.)                              *)
CallbackStepCopyPaste == [s \in Statuses |->
  CASE s = "RDMX_FLIPPING_0_TO_1" -> "RDMX_ACTIVE_PAGE1"
    [] s = "RDMX_FLIPPING_1_TO_0" -> "RDMX_ACTIVE_PAGE1"
    [] s = "RDMX_SHUTTING_DOWN"   -> "RDMX_INACTIVE"
    [] OTHER                      -> s]

CallbackStep == [s \in Statuses |->
  CASE s = "RDMX_FLIPPING_0_TO_1" -> "RDMX_ACTIVE_PAGE1"
    [] s = "RDMX_FLIPPING_1_TO_0" -> "RDMX_ACTIVE_PAGE0"
    [] s = "RDMX_SHUTTING_DOWN"   -> "RDMX_INACTIVE"
    [] OTHER                      -> s]

RdmxInterruptCallback ==
  status' = CallbackStep[status]

(* The router's dispatch, which runs the DMX callback for the DMX source. *)
Dispatch ==
  /\ P!Dispatch
  /\ IF intNum = DmxIrq /\ P!DispatchInRange(intNum) /\ table[intNum] = RdmxCb
       THEN RdmxInterruptCallback
       ELSE UNCHANGED status
  /\ UNCHANGED <<dmxPc, registered, ctrl, page, flipReq, stopping, dmxCalls,
                 chanVars>>

-----------------------------------------------------------------------------
(* The device: the frame in progress ends and a requested flip takes      *)
(* effect, or a disabled device stops; the interrupt, if unmasked, is a    *)
(* request at the PLIC gateway (held while the source is in service).     *)
RaiseIfUnmasked ==
  IF ctrl.unmask THEN P!Raise(DmxIrq) ELSE UNCHANGED plicVars

DeviceFlipDone ==
  /\ flipReq /\ ctrl.en
  /\ page' = 1 - page
  /\ flipReq' = FALSE
  /\ RaiseIfUnmasked
  /\ UNCHANGED <<dmxPc, status, registered, ctrl, stopping, dmxCalls, chanVars>>

DeviceStopped ==
  /\ stopping
  /\ stopping' = FALSE
  /\ flipReq' = FALSE
  /\ RaiseIfUnmasked
  /\ UNCHANGED <<dmxPc, status, registered, ctrl, page, dmxCalls, chanVars>>

-----------------------------------------------------------------------------
OtherSources == Sources \ {DmxIrq}

Next ==
  \* the other drivers and devices of module Plic
  \/ /\ \E i \in ({0, NumInterrupts} \cup OtherSources) \cap 0..NumInterrupts,
            cb \in Handlers \ {RdmxCb} :
          P!SetExternalIsrCb(i, cb)
     /\ UNCHANGED dmxVars
  \/ /\ \E s \in OtherSources :
          P!EnableInterrupt(s) \/ P!DisableInterrupt(s) \/ P!Raise(s)
     /\ UNCHANGED dmxVars
  \* the router
  \/ (P!ExtIrq \/ P!LateExtIrq \/ P!Complete) /\ UNCHANGED dmxVars
  \/ Dispatch
  \* the DMX client thread
  \/ RdmxInitReset \/ RdmxInitWait \/ RdmxInitCb \/ RdmxInitEnable
  \/ RdmxInitPublish
  \/ RdmxBeginSingleBuffered \/ RdmxBeginDoubleBuffered
  \/ RdmxFlipPageMask \/ RdmxFlipPageGo
  \/ RdmxShutdownMask \/ RdmxShutdownGo
  \/ RdmxSetStartByte
  \/ \E c \in 0..PageSize, v \in DmxVals : RdmxSetChannel(c, v)
  \/ \E first \in 0..PageSize, n \in 0..PageSize :
       \E vals \in [1..n -> DmxVals] : RdmxSetChannels(first, vals)
  \* the DMX device
  \/ DeviceFlipDone \/ DeviceStopped

(* The router runs to its end once MEIP is taken (Plic's fairness).  The  *)
(* client finishes a call it has begun and the device finishes its frame:  *)
(* strongly fair, since a trap (a spurious claim of 0 included) may take   *)
(* the core away from the thread, or keep the gateway busy, for a while    *)
(* but not for ever.  The client owes no further calls.                    *)
ClientContinues ==
  \/ RdmxInitReset \/ RdmxInitWait \/ RdmxInitCb \/ RdmxInitEnable
  \/ RdmxInitPublish \/ RdmxFlipPageGo \/ RdmxShutdownGo

DeviceFinishes == DeviceFlipDone \/ DeviceStopped

Fairness ==
  /\ WF_vars(P!ExtIrq /\ UNCHANGED dmxVars)
  /\ WF_vars(Dispatch)
  /\ WF_vars(P!Complete /\ UNCHANGED dmxVars)
  /\ SF_vars(ClientContinues)
  /\ SF_vars(DeviceFinishes)

Spec == Init /\ [][Next]_vars /\ Fairness

-----------------------------------------------------------------------------
TypeOK ==
  /\ P!TypeOK
  /\ dmxPc \in {"none", "init_wait", "init_cb", "init_enable", "init_publish",
                "idle", "flip_go", "shutdown_go"}
  /\ status \in Statuses /\ registered \in BOOLEAN
  /\ ctrl \in [en : BOOLEAN, db : BOOLEAN, unmask : BOOLEAN]
  /\ page \in {0, 1} /\ flipReq \in BOOLEAN /\ stopping \in BOOLEAN
  /\ dmxCalls \in 0..MaxDmxCalls
  /\ win \in [Channel -> DmxVals] /\ asked \in [Channel -> DmxVals]

(* The router's properties (module Plic) hold with the DMX driver and its *)
(* device in place: each request reaches its callback at most once and    *)
(* never from outside _ext_isrs, no claim is left without completion, and *)
(* every request of an enabled source in the table is delivered.           *)
DispatchBounded == P!DispatchBounded

NothingLeftInService == P!NothingLeftInService

RequestDelivered == P!RequestDelivered

(* The status the driver would have to report, read off the device and    *)
(* the PLIC: a flip or stop whose interrupt is still pending (or being     *)
(* dispatched) is not finished yet.                                        *)
DmxIrqOutstanding ==
  DmxIrq \in pending \/ (isrPc = "dispatch" /\ intNum = DmxIrq)

DeviceView ==
  CASE ~ctrl.en -> IF stopping \/ DmxIrqOutstanding
                     THEN "RDMX_SHUTTING_DOWN" ELSE "RDMX_INACTIVE"
    [] ~ctrl.db -> "RDMX_ACTIVE_SB"
    [] flipReq  -> IF page = 0 THEN "RDMX_FLIPPING_0_TO_1"
                               ELSE "RDMX_FLIPPING_1_TO_0"
    [] DmxIrqOutstanding -> IF page = 1 THEN "RDMX_FLIPPING_0_TO_1"
                                        ELSE "RDMX_FLIPPING_1_TO_0"
    [] OTHER -> IF page = 0 THEN "RDMX_ACTIVE_PAGE0" ELSE "RDMX_ACTIVE_PAGE1"

(* Between API calls, dev->status -- written by the API under hwMutex and *)
(* by the interrupt callback without it -- is what the device is doing:   *)
(* the page it shows, a flip or a stop still to complete, or off.  The     *)
(* client decides from it which page to fill and whether it may begin.    *)
StatusTracksDevice ==
  dmxPc = "idle" => status = DeviceView

(* Every channel of the window holds the value the client last set it to *)
(* through rdmx_set_channel or rdmx_set_channels: the header's signature, *)
(* the function's own bound check (start + count <= 512) and the          *)
(* emulation (nativeDMX.c:245) all have rdmx_set_channels write channels  *)
(* start..start+count-1.                                                   *)
ChannelsAsWritten == win = asked

(* A flip or a shutdown that has been requested completes: the callback   *)
(* eventually brings the status out of the busy states, so the API does   *)
(* not answer RDMX_ERR_BUSY for ever.                                      *)
DmxSettles == RdmxIsBusy(status) ~> ~RdmxIsBusy(status)
=============================================================================

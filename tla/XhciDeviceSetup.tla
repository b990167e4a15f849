--------------------------- MODULE XhciDeviceSetup --------------------------
(***************************************************************************)
(* Device bring-up of XhciDriver (xhci.cpp): _setupDevice, which calls     *)
(* _enableDeviceSlot and _sendCommand, against the host controller.       *)
(*                                                                         *)
(* The command ring and the control transfer ring appear as the FIFOs     *)
(* they implement (XhciTrbRing refines TrbFifo).  The event ring is the    *)
(* slot-level XhciEventRing, because _sendCommand keeps pointers into it   *)
(* after its drain has handed the slots back through ERDP.                 *)
(*                                                                         *)
(* Time is not modelled: msleep(timeoutMs) is a point where the controller *)
(* may have done any amount of work, none included.  Other root-hub ports *)
(* reset by init() post Port Status Change events at any time, up to      *)
(* MaxPortEvents of them.                                                  *)
(***************************************************************************)
EXTENDS Naturals, Sequences, FiniteSets

CONSTANTS
  MaxSlots,       \* CONFIG.MaxSlotsEn = m_maxDeviceSlots
  EvRingSize,     \* event ring segment size
  NoEvent,        \* contents of a zeroed event slot
  MaxPortEvents,  \* Port Status Change events other ports may post
  AllocOutcomes   \* what allocXhciMemory may do: {TRUE} or {TRUE, FALSE}

ASSUME MaxSlots >= 1
ASSUME AllocOutcomes \subseteq BOOLEAN /\ TRUE \in AllocOutcomes

Slots == 1..MaxSlots

(* Command TRBs: Enable Slot and Address Device (with its BSR flag). *)
EnableSlotTrb == [type |-> "EnableSlot", slot |-> 0, bsr |-> 0]
AddressDeviceTrb(s, b) == [type |-> "AddressDevice", slot |-> s, bsr |-> b]

(* Event TRBs, with the fields _sendCommand reads: type, code, slotId. *)
CmdCompletion(c, code, s) ==
  [type |-> "CmdCompletion", cmd |-> c, code |-> code, slot |-> s]
PortStatusChange ==
  [type |-> "PortStatusChange", cmd |-> "None", code |-> "Success", slot |-> 0]
TransferEvent(s) ==
  [type |-> "Transfer", cmd |-> "None", code |-> "Success", slot |-> s]

EventTrbs ==
  {PortStatusChange} \cup {TransferEvent(s) : s \in Slots}
  \cup {CmdCompletion(c, code, s) : c \in {"EnableSlot", "AddressDevice"},
                                    code \in {"Success", "SlotNotEnabled"},
                                    s \in 0..MaxSlots}

NoCompletion == [type |-> "None"]

VARIABLES
  evTrbs, evDequeuePtr, evRcsBit, draining, batch, erdp,
  hcEnqueuePtr, hcPcs, posted, received,   \* the event ring
  cmdQueue,      \* command ring, as the FIFO of TRBs the controller has yet to run
  issued,        \* history: command TRBs enqueued, in order
  xferQueue,     \* control endpoint transfer ring, as a FIFO
  xferDoorbell,  \* slot whose EP0 doorbell was rung, 0 if none
  dcbaa,         \* m_dcbaa: slot -> "Null", "Ctx" (slot 0: "Scratchpad")
  hcSlotState,   \* controller: slot -> Disabled, Enabled, Default, Addressed
  hcNullCtxWrite,\* controller wrote an output context through a null DCBAA entry
  portEvents,    \* Port Status Change events posted so far
  pc,            \* where _setupDevice is
  caller,        \* the command _sendCommand is running for
  events,        \* _sendCommand's local vector: pointers into the event ring
  result,        \* completion TRB the last _sendCommand returned, as read
  slotId         \* device->slotId

Ev == INSTANCE XhciEventRing WITH Events <- EventTrbs, MaxPosted <- 0

evRingVars == <<evTrbs, evDequeuePtr, evRcsBit, draining, batch, erdp,
                hcEnqueuePtr, hcPcs, posted, received>>
drvVars == <<pc, caller, events, result, slotId>>
hcVars == <<cmdQueue, issued, xferQueue, xferDoorbell, dcbaa, hcSlotState,
            hcNullCtxWrite, portEvents>>
vars == <<evRingVars, hcVars, drvVars>>

(***************************************************************************)
(* The scan of _sendCommand: the first Command Completion among the        *)
(* pointers the drain returned, read through the pointer now.              *)
(***************************************************************************)
FirstCompletion ==
  LET hits == {k \in 1..Len(events) : evTrbs[events[k]].trb.type = "CmdCompletion"}
  IN  IF hits = {} THEN NoCompletion
      ELSE evTrbs[events[CHOOSE k \in hits : \A j \in hits : k <= j]].trb

(* The type check of the scan dropped: the first event of any type. *)
FirstEventAnyType ==
  IF events = <<>> THEN NoCompletion ELSE evTrbs[events[1]].trb

(* _sendCommand returns the completion, or nullptr on none or on failure. *)
Returned(c) == c # NoCompletion /\ c.code = "Success"

(***************************************************************************)
(* State after init(): controller reset and started, every slot disabled, *)
(* DCBAA[0] holding the scratchpad array, the rings empty; _setupDevice(4) *)
(* is about to run.                                                        *)
(***************************************************************************)
Init ==
  /\ Ev!Init
  /\ cmdQueue = <<>>
  /\ issued = <<>>
  /\ xferQueue = <<>>
  /\ xferDoorbell = 0
  /\ dcbaa = [s \in 0..MaxSlots |-> IF s = 0 THEN "Scratchpad" ELSE "Null"]
  /\ hcSlotState = [s \in 0..MaxSlots |-> "Disabled"]
  /\ hcNullCtxWrite = FALSE
  /\ portEvents = 0
  /\ pc = "EnableSlot"
  /\ caller = "None"
  /\ events = <<>>
  /\ result = NoCompletion
  /\ slotId = 0

(* _sendCommand(trb), up to the sleep: enqueue and ring doorbell 0. *)
IssueCommand(trb) ==
  /\ cmdQueue' = Append(cmdQueue, trb)
  /\ issued' = Append(issued, trb)
  /\ caller' = trb.type
  /\ result' = NoCompletion
  /\ pc' = "SendWait"

(* _setupDevice -> _enableDeviceSlot -> _sendCommand(Enable Slot). *)
EnableDeviceSlot ==
  /\ pc = "EnableSlot"
  /\ IssueCommand(EnableSlotTrb)
  /\ UNCHANGED <<evRingVars, xferQueue, xferDoorbell, dcbaa, hcSlotState,
                 hcNullCtxWrite, portEvents, events, slotId>>

(* After the sleep: hasUnprocessedEvents() holds, dequeueEvents() starts. *)
SendCommandPoll ==
  /\ pc = "SendWait"
  /\ Ev!HasUnprocessedEvents
  /\ Ev!BeginDrain
  /\ pc' = "SendDrain"
  /\ UNCHANGED <<hcVars, caller, events, result, slotId>>

(* After the sleep: nothing pending, so the vector stays empty. *)
SendCommandNoEvents ==
  /\ pc = "SendWait"
  /\ ~Ev!HasUnprocessedEvents
  /\ events' = <<>>
  /\ pc' = "SendScan"
  /\ UNCHANGED <<evRingVars, hcVars, caller, result, slotId>>

(* dequeueEvents(): one TRB taken. *)
SendCommandDequeue ==
  /\ pc = "SendDrain"
  /\ Ev!DequeueTrb
  /\ UNCHANGED <<hcVars, drvVars>>

(* dequeueEvents() writes ERDP and returns the pointers; _clearIrqFlags. *)
SendCommandDrained ==
  /\ pc = "SendDrain"
  /\ Ev!EndDrain
  /\ events' = batch
  /\ pc' = "SendScan"
  /\ UNCHANGED <<hcVars, caller, result, slotId>>

(***************************************************************************)
(* Plausible slips in the scan and its callers, each replacing the         *)
(* definition after it in a mutant run: the scan takes the first event     *)
(* whatever its type; _setupDevice goes on with slotId 0 after a failed    *)
(* Enable Slot instead of returning.                                       *)
(***************************************************************************)
SendCommandSucceedsAnyType ==
  LET c == FirstEventAnyType
  IN  /\ pc = "SendScan"
      /\ Returned(c)
      /\ result' = c
      /\ IF caller = "EnableSlot"
           THEN /\ slotId' = c.slot
                /\ pc' = IF c.slot = 0 THEN "Failed" ELSE "PrepareAddress"
           ELSE /\ pc' = "Descriptor"
                /\ UNCHANGED slotId
      /\ UNCHANGED <<evRingVars, hcVars, caller, events>>

SendCommandFailsNoReturn ==
  /\ pc = "SendScan"
  /\ ~Returned(FirstCompletion)
  /\ result' = NoCompletion
  /\ IF caller = "EnableSlot"
       THEN /\ slotId' = 0
            /\ pc' = "PrepareAddress"
       ELSE /\ pc' = "Failed"
            /\ UNCHANGED slotId
  /\ UNCHANGED <<evRingVars, hcVars, caller, events>>

(***************************************************************************)
(* The scan finds a successful completion: _sendCommand returns it, and   *)
(* the caller goes on.  _enableDeviceSlot returns its slotId, which       *)
(* _setupDevice treats as failure when 0; after Address Device the         *)
(* descriptor request follows.                                             *)
(***************************************************************************)
SendCommandSucceeds ==
  LET c == FirstCompletion
  IN  /\ pc = "SendScan"
      /\ Returned(c)
      /\ result' = c
      /\ IF caller = "EnableSlot"
           THEN /\ slotId' = c.slot
                /\ pc' = IF c.slot = 0 THEN "Failed" ELSE "PrepareAddress"
           ELSE /\ pc' = "Descriptor"
                /\ UNCHANGED slotId
      /\ UNCHANGED <<evRingVars, hcVars, caller, events>>

(***************************************************************************)
(* No completion among the events, or a completion with a failure code:   *)
(* _sendCommand returns nullptr, and _setupDevice returns after either     *)
(* command ("Failed to setup device", "Failed to complete the first        *)
(* Device Address command").  A late completion stays in the ring.         *)
(***************************************************************************)
SendCommandFails ==
  /\ pc = "SendScan"
  /\ ~Returned(FirstCompletion)
  /\ result' = NoCompletion
  /\ pc' = "Failed"
  /\ UNCHANGED <<evRingVars, hcVars, caller, events, slotId>>

(***************************************************************************)
(* _createDeviceContext(slotId): on allocation failure it logs "CRITICAL   *)
(* FAILURE" and returns without publishing DCBAA[slotId].                  *)
(***************************************************************************)
CreateDeviceContext ==
  \E allocated \in AllocOutcomes :
    dcbaa' = IF allocated THEN [dcbaa EXCEPT ![slotId] = "Ctx"] ELSE dcbaa

(***************************************************************************)
(* _setupDevice after a slot id: _createDeviceContext, whatever it did,    *)
(* then input context, transfer ring, input context fields, and Address   *)
(* Device with BSR = 1 through _sendCommand.                               *)
(***************************************************************************)
PrepareAddressDevice ==
  /\ pc = "PrepareAddress"
  /\ CreateDeviceContext
  /\ IssueCommand(AddressDeviceTrb(slotId, 1))
  /\ UNCHANGED <<evRingVars, xferQueue, xferDoorbell, hcSlotState,
                 hcNullCtxWrite, portEvents, events, slotId>>

(* A slip in the descriptor request, for a mutant run: a Status Stage TRB *)
(* queued after the Event Data TRB, a TRB type this request never uses.   *)
RequestDescriptorWithStatus ==
  /\ pc = "Descriptor"
  /\ xferQueue' = xferQueue \o <<"SetupStage", "DataStage", "EventData", "StatusStage">>
  /\ xferDoorbell' = slotId
  /\ pc' = "Done"
  /\ UNCHANGED <<evRingVars, cmdQueue, issued, dcbaa, hcSlotState,
                 hcNullCtxWrite, portEvents, caller, events, result, slotId>>

(***************************************************************************)
(* GET_DESCRIPTOR(DEVICE, 8): Setup, Data and Event Data TRBs enqueued on  *)
(* the control transfer ring, doorbell slotId rung with DCI 1, a 400 ms    *)
(* sleep, and _setupDevice returns; the Transfer Event is never polled.    *)
(***************************************************************************)
RequestDescriptor ==
  /\ pc = "Descriptor"
  /\ xferQueue' = xferQueue \o <<"SetupStage", "DataStage", "EventData">>
  /\ xferDoorbell' = slotId
  /\ pc' = "Done"
  /\ UNCHANGED <<evRingVars, cmdQueue, issued, dcbaa, hcSlotState,
                 hcNullCtxWrite, portEvents, caller, events, result, slotId>>

(***************************************************************************)
(* The controller runs Enable Slot: it enables a disabled slot and posts  *)
(* a successful completion carrying it.                                    *)
(***************************************************************************)
HcEnableSlot(s) ==
  /\ cmdQueue # <<>>
  /\ Head(cmdQueue).type = "EnableSlot"
  /\ hcSlotState[s] = "Disabled"
  /\ Ev!PostEvent(CmdCompletion("EnableSlot", "Success", s))
  /\ cmdQueue' = Tail(cmdQueue)
  /\ hcSlotState' = [hcSlotState EXCEPT ![s] = "Enabled"]
  /\ UNCHANGED <<issued, xferQueue, xferDoorbell, dcbaa, hcNullCtxWrite,
                 portEvents, drvVars>>

(***************************************************************************)
(* The controller runs Address Device: from Enabled, BSR = 1 leaves the   *)
(* slot Default (no SET_ADDRESS), BSR = 0 makes it Addressed; the output  *)
(* context goes to DCBAA[slot], null or not.  On any other slot the       *)
(* command fails with a context state error.                               *)
(***************************************************************************)
HcAddressDevice ==
  LET c  == Head(cmdQueue)
      ok == c.slot \in Slots /\ hcSlotState[c.slot] = "Enabled"
  IN  /\ cmdQueue # <<>>
      /\ c.type = "AddressDevice"
      /\ Ev!PostEvent(CmdCompletion("AddressDevice",
                                    IF ok THEN "Success" ELSE "SlotNotEnabled",
                                    c.slot))
      /\ cmdQueue' = Tail(cmdQueue)
      /\ hcSlotState' = IF ok THEN [hcSlotState EXCEPT ![c.slot] =
                                      IF c.bsr = 1 THEN "Default" ELSE "Addressed"]
                              ELSE hcSlotState
      /\ hcNullCtxWrite' = (hcNullCtxWrite \/ (ok /\ dcbaa[c.slot] = "Null"))
      /\ UNCHANGED <<issued, xferQueue, xferDoorbell, dcbaa, portEvents, drvVars>>

(* The controller runs the control TD of a rung, running EP0: one Transfer *)
(* Event, from the Event Data TRB's IOC.                                   *)
HcControlTransfer ==
  /\ xferDoorbell \in Slots
  /\ xferQueue # <<>>
  /\ hcSlotState[xferDoorbell] \in {"Default", "Addressed"}
  /\ Ev!PostEvent(TransferEvent(xferDoorbell))
  /\ xferQueue' = <<>>
  /\ UNCHANGED <<cmdQueue, issued, xferDoorbell, dcbaa, hcSlotState,
                 hcNullCtxWrite, portEvents, drvVars>>

(* Another root-hub port reports a status change. *)
HcPortStatusChange ==
  /\ portEvents < MaxPortEvents
  /\ Ev!PostEvent(PortStatusChange)
  /\ portEvents' = portEvents + 1
  /\ UNCHANGED <<cmdQueue, issued, xferQueue, xferDoorbell, dcbaa, hcSlotState,
                 hcNullCtxWrite, drvVars>>

(* _setupDevice has returned and the controller has nothing left to do. *)
Finished ==
  /\ pc \in {"Done", "Failed"}
  /\ UNCHANGED vars

Next ==
  \/ EnableDeviceSlot
  \/ SendCommandPoll
  \/ SendCommandNoEvents
  \/ SendCommandDequeue
  \/ SendCommandDrained
  \/ SendCommandSucceeds
  \/ SendCommandFails
  \/ PrepareAddressDevice
  \/ RequestDescriptor
  \/ \E s \in Slots : HcEnableSlot(s)
  \/ HcAddressDevice
  \/ HcControlTransfer
  \/ HcPortStatusChange
  \/ Finished

Spec == Init /\ [][Next]_vars

-----------------------------------------------------------------------------

TypeOK ==
  /\ Ev!TypeOK
  /\ cmdQueue \in Seq({EnableSlotTrb} \cup {AddressDeviceTrb(s, b) : s \in 0..MaxSlots, b \in {0, 1}})
  /\ issued \in Seq({EnableSlotTrb} \cup {AddressDeviceTrb(s, b) : s \in 0..MaxSlots, b \in {0, 1}})
  /\ xferQueue \in Seq({"SetupStage", "DataStage", "EventData"})
  /\ xferDoorbell \in 0..MaxSlots
  /\ dcbaa \in [0..MaxSlots -> {"Null", "Ctx", "Scratchpad"}]
  /\ hcSlotState \in [0..MaxSlots -> {"Disabled", "Enabled", "Default", "Addressed"}]
  /\ hcNullCtxWrite \in BOOLEAN
  /\ portEvents \in 0..MaxPortEvents
  /\ pc \in {"EnableSlot", "SendWait", "SendDrain", "SendScan", "PrepareAddress",
             "Descriptor", "Done", "Failed"}
  /\ caller \in {"None", "EnableSlot", "AddressDevice"}
  /\ events \in Seq(0..(EvRingSize - 1))
  /\ result \in EventTrbs \cup {NoCompletion}
  /\ slotId \in 0..MaxSlots

(***************************************************************************)
(* The completion _sendCommand returns is the Command Completion of the   *)
(* command it just sent, although port events and, after a timeout, late *)
(* completions of earlier commands share the event ring with it and the    *)
(* scan picks the first completion of the drained batch.                  *)
(***************************************************************************)
CompletionMatchesCommand ==
  result # NoCompletion =>
    /\ result.type = "CmdCompletion"
    /\ result.cmd = caller

(***************************************************************************)
(* _setupDevice only sends Address Device for a slot the controller has   *)
(* enabled: the slot id comes from a successful Enable Slot completion.   *)
(***************************************************************************)
AddressOnlyEnabledSlot ==
  \A i \in 1..Len(issued) :
    issued[i].type = "AddressDevice" => hcSlotState[issued[i].slot] # "Disabled"

(***************************************************************************)
(* The event ring's own guarantees, checked here where _sendCommand drains *)
(* it between the controller's completions, port events and the transfer *)
(* event: drains take events in posting order across wraps, and the      *)
(* pointers a drain returns keep their events until ERDP releases them.   *)
(***************************************************************************)
EventsInPostingOrder == Ev!EventsInPostingOrder

BatchStable == Ev!BatchStable

(***************************************************************************)
(* Design 4.8 step 2 and 7: the output device context is published at    *)
(* DCBAA[slotId] before Address Device is sent; an allocation failure     *)
(* during per-device setup aborts that device.                             *)
(***************************************************************************)
ContextPublishedBeforeAddress ==
  \A i \in 1..Len(issued) :
    issued[i].type = "AddressDevice" => dcbaa[issued[i].slot] = "Ctx"

(***************************************************************************)
(* Design 5: a DMA buffer is shared with the controller until software    *)
(* reclaims it.  When _sendCommand scans its events, each pointer still   *)
(* shows the event the drain took from that slot.                          *)
(***************************************************************************)
CompletionReadWhileOwned ==
  pc = "SendScan" =>
    \A k \in 1..Len(events) :
      evTrbs[events[k]].trb = received[Len(received) - Len(events) + k]

=============================================================================

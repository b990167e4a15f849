---------------------------- MODULE XhciEventRing ---------------------------
(***************************************************************************)
(* The primary event ring (XhciEventRing, xhci_rings.h): one segment       *)
(* (m_segmentCount = 1) of m_segmentTrbCount TRBs, produced by the host    *)
(* controller and consumed by the driver.                                  *)
(*                                                                         *)
(* Software side: m_dequeuePtr and the consumer cycle state m_rcsBit.  The *)
(* bodies of hasUnprocessedEvents, dequeueEvents, flushUnprocessedEvents   *)
(* and _updateErdpInterrupterRegister are not in the repository; they are *)
(* modelled from the design (section 4.3): a TRB at the dequeue index is  *)
(* the driver's when its cycle bit equals m_rcsBit; a drain takes TRBs     *)
(* while that holds, wrapping with m_rcsBit toggled, and then writes the   *)
(* dequeue position to ERDP.  dequeueEvents returns POINTERS into the      *)
(* segment (kstl::vector<XhciTrb_t*>), kept here as slot indices in batch. *)
(*                                                                         *)
(* Controller side (the hardware): it writes the next event at its enqueue *)
(* index with its producer cycle state, toggling that state on wrap, and   *)
(* holds events back while the ring is full, i.e. while the next enqueue   *)
(* index would reach the ERDP the driver last wrote.                       *)
(***************************************************************************)
EXTENDS Naturals, Sequences

CONSTANTS
  EvRingSize,   \* m_segmentTrbCount
  Events,       \* the event TRBs the controller may post
  NoEvent,      \* contents of a zeroed slot
  MaxPosted     \* bound on events the controller posts in a behaviour

ASSUME EvRingSize >= 2
ASSUME NoEvent \notin Events

VARIABLES
  evTrbs,        \* the segment: slot index -> [trb, cycle]
  evDequeuePtr,  \* m_dequeuePtr
  evRcsBit,      \* m_rcsBit: consumer cycle state
  draining,      \* inside dequeueEvents / flushUnprocessedEvents
  batch,         \* the pointers (slot indices) the current drain collected
  erdp,          \* interrupter ERDP: dequeue index last published
  hcEnqueuePtr,  \* controller: next slot it writes
  hcPcs,         \* controller: producer cycle state
  posted,        \* history: events the controller posted, in order
  received       \* history: events drains took, as read when taken

evVars == <<evTrbs, evDequeuePtr, evRcsBit, draining, batch, erdp,
            hcEnqueuePtr, hcPcs, posted, received>>

EvSlot(t, c) == [trb |-> t, cycle |-> c]

Succ(i) == (i + 1) % EvRingSize

(***************************************************************************)
(* hasUnprocessedEvents(): the TRB at the dequeue index is the driver's.  *)
(***************************************************************************)
HasUnprocessedEvents == evTrbs[evDequeuePtr].cycle = evRcsBit

(* The events the driver owns now, from its dequeue index on. *)
RECURSIVE OwnedEvents(_, _, _)
OwnedEvents(i, c, fuel) ==
  IF fuel = 0 \/ evTrbs[i].cycle # c THEN <<>>
  ELSE <<evTrbs[i].trb>> \o
       OwnedEvents(Succ(i), IF Succ(i) = 0 THEN 1 - c ELSE c, fuel - 1)

UnreadEvents == OwnedEvents(evDequeuePtr, evRcsBit, EvRingSize)

(***************************************************************************)
(* Construction (XhciEventRing constructor, design 4.3): a zeroed segment, *)
(* consumer cycle state 1, ERDP = segment base; the controller starts at   *)
(* index 0 with producer cycle state 1.                                    *)
(***************************************************************************)
Init ==
  /\ evTrbs = [i \in 0..(EvRingSize - 1) |-> EvSlot(NoEvent, 0)]
  /\ evDequeuePtr = 0
  /\ evRcsBit = 1
  /\ draining = FALSE
  /\ batch = <<>>
  /\ erdp = 0
  /\ hcEnqueuePtr = 0
  /\ hcPcs = 1
  /\ posted = <<>>
  /\ received = <<>>

(* A drain (dequeueEvents or flushUnprocessedEvents) begins. *)
BeginDrain ==
  /\ ~draining
  /\ draining' = TRUE
  /\ batch' = <<>>
  /\ UNCHANGED <<evTrbs, evDequeuePtr, evRcsBit, erdp, hcEnqueuePtr, hcPcs,
                 posted, received>>

(* A slip: _dequeueTrb forgets to toggle m_rcsBit at the wrap. *)
DequeueTrbNoToggle ==
  /\ draining
  /\ HasUnprocessedEvents
  /\ batch' = Append(batch, evDequeuePtr)
  /\ received' = Append(received, evTrbs[evDequeuePtr].trb)
  /\ evDequeuePtr' = Succ(evDequeuePtr)
  /\ UNCHANGED <<evTrbs, evRcsBit, draining, erdp, hcEnqueuePtr, hcPcs, posted>>

(* A slip: the drain loop takes the next TRB without checking its cycle bit. *)
DequeueTrbUnowned ==
  /\ draining
  /\ batch' = Append(batch, evDequeuePtr)
  /\ received' = Append(received, evTrbs[evDequeuePtr].trb)
  /\ evDequeuePtr' = Succ(evDequeuePtr)
  /\ evRcsBit' = IF Succ(evDequeuePtr) = 0 THEN 1 - evRcsBit ELSE evRcsBit
  /\ UNCHANGED <<evTrbs, draining, erdp, hcEnqueuePtr, hcPcs, posted>>

(***************************************************************************)
(* _dequeueTrb(): take the owned TRB at the dequeue index, advance, and    *)
(* toggle m_rcsBit when the index wraps past the end of the segment.      *)
(***************************************************************************)
DequeueTrb ==
  /\ draining
  /\ HasUnprocessedEvents
  /\ batch' = Append(batch, evDequeuePtr)
  /\ received' = Append(received, evTrbs[evDequeuePtr].trb)
  /\ evDequeuePtr' = Succ(evDequeuePtr)
  /\ evRcsBit' = IF Succ(evDequeuePtr) = 0 THEN 1 - evRcsBit ELSE evRcsBit
  /\ UNCHANGED <<evTrbs, draining, erdp, hcEnqueuePtr, hcPcs, posted>>

(***************************************************************************)
(* No owned TRB is left: the drain ends by publishing the dequeue index    *)
(* (_updateErdpInterrupterRegister, EHB written as 1).                    *)
(***************************************************************************)
EndDrain ==
  /\ draining
  /\ ~HasUnprocessedEvents
  /\ draining' = FALSE
  /\ erdp' = evDequeuePtr
  /\ UNCHANGED <<evTrbs, evDequeuePtr, evRcsBit, batch, hcEnqueuePtr, hcPcs,
                 posted, received>>

(***************************************************************************)
(* The controller posts event e unless the ring is full.                   *)
(***************************************************************************)
PostEvent(e) ==
  /\ Succ(hcEnqueuePtr) # erdp
  /\ evTrbs' = [evTrbs EXCEPT ![hcEnqueuePtr] = EvSlot(e, hcPcs)]
  /\ hcEnqueuePtr' = Succ(hcEnqueuePtr)
  /\ hcPcs' = IF Succ(hcEnqueuePtr) = 0 THEN 1 - hcPcs ELSE hcPcs
  /\ posted' = Append(posted, e)
  /\ UNCHANGED <<evDequeuePtr, evRcsBit, draining, batch, erdp, received>>

(* A poll: hasUnprocessedEvents() guards the drain, as in sendCommand. *)
Poll ==
  /\ HasUnprocessedEvents
  /\ BeginDrain

Next ==
  \/ \E e \in Events : Len(posted) < MaxPosted /\ PostEvent(e)
  \/ Poll
  \/ DequeueTrb
  \/ EndDrain
  \/ (Len(received) = MaxPosted /\ ~draining /\ UNCHANGED evVars)

Spec == Init /\ [][Next]_evVars

-----------------------------------------------------------------------------

TypeOK ==
  /\ evTrbs \in [0..(EvRingSize - 1) -> [trb : Events \cup {NoEvent}, cycle : {0, 1}]]
  /\ evDequeuePtr \in 0..(EvRingSize - 1)
  /\ evRcsBit \in {0, 1}
  /\ draining \in BOOLEAN
  /\ batch \in Seq(0..(EvRingSize - 1))
  /\ erdp \in 0..(EvRingSize - 1)
  /\ hcEnqueuePtr \in 0..(EvRingSize - 1)
  /\ hcPcs \in {0, 1}
  /\ posted \in Seq(Events)
  /\ received \in Seq(Events)

(***************************************************************************)
(* Design 8, event consumption order: the events drains have taken,        *)
(* followed by those the driver owns and has not taken yet, are exactly    *)
(* the events the controller posted, in posting order.  A wrong cycle     *)
(* toggle at the wrap, an ERDP published ahead of the drain, or a missed   *)
(* wrap of the dequeue index loses, repeats or reorders events.            *)
(***************************************************************************)
EventsInPostingOrder == received \o UnreadEvents = posted

(***************************************************************************)
(* The pointers a drain returned still point at the events it took while   *)
(* the drain is in progress: the controller never reuses a slot the        *)
(* driver has taken but not yet released through ERDP.                     *)
(***************************************************************************)
BatchStable ==
  draining =>
    \A k \in 1..Len(batch) :
      evTrbs[batch[k]].trb = received[Len(received) - Len(batch) + k]

=============================================================================

---------------------------- MODULE XhciTrbRing ----------------------------
(***************************************************************************)
(* A producer TRB ring of the xHCI driver (XhciCommandRing; a transfer     *)
(* ring has the same discipline) together with the host controller that   *)
(* consumes it.                                                            *)
(*                                                                         *)
(* Software side (xhci_rings.h): the slot array m_trbs, the enqueue index *)
(* m_enqueuePtr and the producer cycle state m_rcsBit.  The body of        *)
(* enqueue() is not in the repository; it is modelled from the design     *)
(* (section 4.3): the TRB is written with its cycle bit cleared, then the  *)
(* cycle bit is set to m_rcsBit as the final write; on reaching the Link   *)
(* TRB the Link TRB gets the current cycle bit, m_rcsBit toggles and the   *)
(* index wraps to 0.                                                       *)
(*                                                                         *)
(* Controller side (the hardware): it fetches the TRB at its dequeue       *)
(* index when that TRB's cycle bit equals its consumer cycle state, which  *)
(* starts as the cycle bit written into CRCR (xhci.cpp:179); a Link TRB    *)
(* with Toggle Cycle sends it back to index 0 with the state flipped.      *)
(*                                                                         *)
(* enqueue() checks no fullness: callers keep at most MaxOutstanding TRBs  *)
(* unexecuted (sendCommand one command, the descriptor request three).    *)
(* The bound must leave two slots free, not one: with RingSize-1 TRBs     *)
(* outstanding the producer can rewrite the cycle bit of a Link TRB the   *)
(* controller has not yet followed, stranding the whole next lap.          *)
(***************************************************************************)
EXTENDS Naturals, Sequences, SequencesExt

CONSTANTS
  RingSize,        \* m_maxTrbCount: slots in the segment, Link TRB included
  Payloads,        \* the TRBs callers hand to enqueue()
  NoTrb,           \* contents of a zeroed slot
  LinkTrb,         \* the Link TRB (Toggle Cycle set) in the last slot
  MaxEnqueues,     \* bound on enqueue() calls in a behaviour
  MaxOutstanding   \* callers' bound on enqueued but unexecuted TRBs

ASSUME RingSize >= 2
ASSUME MaxOutstanding \in 1..(RingSize - 2)
ASSUME {NoTrb, LinkTrb} \cap Payloads = {}

VARIABLES
  trbs,         \* m_trbs: slot index -> [trb, cycle]
  enqueuePtr,   \* m_enqueuePtr
  rcsBit,       \* m_rcsBit: producer cycle state
  writing,      \* enqueue() has written the TRB but not yet its cycle bit
  dequeuePtr,   \* controller: index of the next TRB to fetch
  ccs,          \* controller: consumer cycle state
  sent,         \* history: TRBs handed to enqueue(), in call order
  consumed      \* history: TRBs the controller executed, in order

ringVars == <<trbs, enqueuePtr, rcsBit, writing, dequeuePtr, ccs, sent, consumed>>

LinkIndex == RingSize - 1

Slot(t, c) == [trb |-> t, cycle |-> c]

TrbSlots == [trb : Payloads \cup {NoTrb, LinkTrb}, cycle : {0, 1}]

(***************************************************************************)
(* The TRBs the controller will execute from its current position without *)
(* any further write by software: the run of slots whose cycle bit matches *)
(* the consumer cycle state, following the Link TRB around.                *)
(***************************************************************************)
RECURSIVE OwnedRun(_, _, _)
OwnedRun(i, c, fuel) ==
  IF fuel = 0 \/ trbs[i].cycle # c THEN <<>>
  ELSE IF trbs[i].trb = LinkTrb THEN OwnedRun(0, 1 - c, fuel - 1)
  ELSE <<trbs[i].trb>> \o OwnedRun(i + 1, c, fuel - 1)

PendingTrbs == OwnedRun(dequeuePtr, ccs, 2 * RingSize)

(***************************************************************************)
(* Ring construction and CRCR programming: zeroed slots, Link TRB last,   *)
(* producer cycle state 1, controller cycle state = CRCR.RCS = 1.          *)
(***************************************************************************)
Init ==
  /\ trbs = [i \in 0..LinkIndex |->
               IF i = LinkIndex THEN Slot(LinkTrb, 0) ELSE Slot(NoTrb, 0)]
  /\ enqueuePtr = 0
  /\ rcsBit = 1
  /\ writing = FALSE
  /\ dequeuePtr = 0
  /\ ccs = 1
  /\ sent = <<>>
  /\ consumed = <<>>

(***************************************************************************)
(* enqueue(trb), first half: the TRB lands in the slot with its cycle bit *)
(* cleared.                                                               *)
(***************************************************************************)
EnqueueWrite(t) ==
  /\ ~writing
  /\ trbs' = [trbs EXCEPT ![enqueuePtr] = Slot(t, 0)]
  /\ writing' = TRUE
  /\ sent' = Append(sent, t)
  /\ UNCHANGED <<enqueuePtr, rcsBit, dequeuePtr, ccs, consumed>>

(***************************************************************************)
(* Plausible slips in enqueue(), each replacing EnqueuePublish in a mutant *)
(* run: the Link TRB step forgets to toggle m_rcsBit, or gives the Link    *)
(* TRB the cycle bit of the next lap, or wraps one slot late, over the    *)
(* Link TRB.                                                               *)
(***************************************************************************)
EnqueuePublishPastLink ==
  LET published == [trbs EXCEPT ![enqueuePtr].cycle = rcsBit]
      next      == enqueuePtr + 1
  IN  /\ writing
      /\ writing' = FALSE
      /\ IF next = RingSize
           THEN /\ trbs' = published
                /\ rcsBit' = 1 - rcsBit
                /\ enqueuePtr' = 0
           ELSE /\ trbs' = published
                /\ enqueuePtr' = next
                /\ UNCHANGED rcsBit
      /\ UNCHANGED <<dequeuePtr, ccs, sent, consumed>>

EnqueuePublishNoToggle ==
  LET published == [trbs EXCEPT ![enqueuePtr].cycle = rcsBit]
      next      == enqueuePtr + 1
  IN  /\ writing
      /\ writing' = FALSE
      /\ IF next = LinkIndex
           THEN /\ trbs' = [published EXCEPT ![LinkIndex].cycle = rcsBit]
                /\ enqueuePtr' = 0
           ELSE /\ trbs' = published
                /\ enqueuePtr' = next
      /\ UNCHANGED <<rcsBit, dequeuePtr, ccs, sent, consumed>>

EnqueuePublishLinkAhead ==
  LET published == [trbs EXCEPT ![enqueuePtr].cycle = rcsBit]
      next      == enqueuePtr + 1
  IN  /\ writing
      /\ writing' = FALSE
      /\ IF next = LinkIndex
           THEN /\ trbs' = [published EXCEPT ![LinkIndex].cycle = 1 - rcsBit]
                /\ rcsBit' = 1 - rcsBit
                /\ enqueuePtr' = 0
           ELSE /\ trbs' = published
                /\ enqueuePtr' = next
                /\ UNCHANGED rcsBit
      /\ UNCHANGED <<dequeuePtr, ccs, sent, consumed>>

(***************************************************************************)
(* enqueue(trb), second half: the cycle bit is set to m_rcsBit as the     *)
(* final write, the index advances, and at the Link TRB the Link TRB gets *)
(* the current cycle bit, m_rcsBit toggles and the index wraps.           *)
(***************************************************************************)
EnqueuePublish ==
  LET published == [trbs EXCEPT ![enqueuePtr].cycle = rcsBit]
      next      == enqueuePtr + 1
  IN  /\ writing
      /\ writing' = FALSE
      /\ IF next = LinkIndex
           THEN /\ trbs' = [published EXCEPT ![LinkIndex].cycle = rcsBit]
                /\ rcsBit' = 1 - rcsBit
                /\ enqueuePtr' = 0
           ELSE /\ trbs' = published
                /\ enqueuePtr' = next
                /\ UNCHANGED rcsBit
      /\ UNCHANGED <<dequeuePtr, ccs, sent, consumed>>

(* The controller executes an owned TRB. *)
ControllerExecute ==
  /\ trbs[dequeuePtr].cycle = ccs
  /\ trbs[dequeuePtr].trb # LinkTrb
  /\ consumed' = Append(consumed, trbs[dequeuePtr].trb)
  /\ dequeuePtr' = dequeuePtr + 1
  /\ UNCHANGED <<trbs, enqueuePtr, rcsBit, writing, ccs, sent>>

(* The controller follows an owned Link TRB with Toggle Cycle. *)
ControllerFollowLink ==
  /\ trbs[dequeuePtr].cycle = ccs
  /\ trbs[dequeuePtr].trb = LinkTrb
  /\ dequeuePtr' = 0
  /\ ccs' = 1 - ccs
  /\ UNCHANGED <<trbs, enqueuePtr, rcsBit, writing, sent, consumed>>

(* A caller hands a TRB to enqueue(), within the callers' bounds. *)
Enqueue(t) ==
  /\ Len(sent) < MaxEnqueues
  /\ Len(sent) - Len(consumed) < MaxOutstanding
  /\ EnqueueWrite(t)

(* All calls made and every TRB executed: the ring stays as it is. *)
Drained ==
  /\ Len(sent) = MaxEnqueues
  /\ Len(consumed) = MaxEnqueues
  /\ UNCHANGED ringVars

Next ==
  \/ \E t \in Payloads : Enqueue(t)
  \/ EnqueuePublish
  \/ ControllerExecute
  \/ ControllerFollowLink
  \/ Drained

(***************************************************************************)
(* enqueue() is straight-line code, so it finishes; the controller keeps   *)
(* fetching while it owns TRBs (the doorbell is rung after every enqueue   *)
(* by sendCommand and after the descriptor request).                       *)
(***************************************************************************)
Fairness ==
  /\ WF_ringVars(EnqueuePublish)
  /\ WF_ringVars(ControllerExecute)
  /\ WF_ringVars(ControllerFollowLink)

Spec == Init /\ [][Next]_ringVars /\ Fairness

-----------------------------------------------------------------------------

TypeOK ==
  /\ trbs \in [0..LinkIndex -> TrbSlots]
  /\ enqueuePtr \in 0..(LinkIndex - 1)
  /\ rcsBit \in {0, 1}
  /\ writing \in BOOLEAN
  /\ dequeuePtr \in 0..LinkIndex
  /\ ccs \in {0, 1}
  /\ sent \in Seq(Payloads)
  /\ consumed \in Seq(Payloads)

(***************************************************************************)
(* Cycle-bit discipline of enqueue() against the controller's fetch rule:  *)
(* what the controller has executed followed by what it owns now is        *)
(* exactly the sequence of TRBs handed to enqueue(), except that the TRB   *)
(* of an enqueue() still in progress may not be owned yet.  A TRB lost to  *)
(* a wrong cycle bit, executed twice after a wrap, overwritten before      *)
(* execution, or executed out of order breaks it.                         *)
(***************************************************************************)
TrbsDeliveredInOrder ==
  LET inFlight == consumed \o PendingTrbs
  IN  IF writing THEN inFlight \in {sent, Front(sent)} ELSE inFlight = sent

(***************************************************************************)
(* The ring implements the FIFO of TrbFifo: with the controller's view of *)
(* the ring as the queue and its executed TRBs as the delivered sequence, *)
(* every step of enqueue() and of the controller is a Put, a Take or a    *)
(* stutter, and a TRB the controller owns is eventually executed.          *)
(***************************************************************************)
Fifo == INSTANCE TrbFifo WITH queue <- PendingTrbs, delivered <- consumed

FifoRefinement == Fifo!Spec

=============================================================================

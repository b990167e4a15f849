------------------------------ MODULE TrbFifo ------------------------------
(***************************************************************************)
(* What a producer TRB ring promises its two parties: the TRBs handed to   *)
(* enqueue() reach the host controller exactly once each, in the order     *)
(* they were handed over, and a TRB the controller has been given is       *)
(* eventually executed.  Ring slots, cycle bits and the Link TRB are the   *)
(* implementation's business and do not appear here.                      *)
(***************************************************************************)
EXTENDS Sequences

CONSTANT Payloads

VARIABLES
  queue,      \* TRBs visible to the controller and not yet executed
  delivered   \* TRBs the controller executed, in execution order

fifoVars == <<queue, delivered>>

Init ==
  /\ queue = <<>>
  /\ delivered = <<>>

Put(p) ==
  /\ queue' = Append(queue, p)
  /\ UNCHANGED delivered

Take ==
  /\ queue # <<>>
  /\ delivered' = Append(delivered, Head(queue))
  /\ queue' = Tail(queue)

Next == (\E p \in Payloads : Put(p)) \/ Take

Spec == Init /\ [][Next]_fifoVars /\ WF_fifoVars(Take)

=============================================================================

--------------------------- MODULE MCXhciTrbRing ---------------------------
(* A five-slot ring (four TRBs and the Link TRB) driven through two laps
   with three TRBs outstanding, the descriptor request's batch. *)
EXTENDS XhciTrbRing

CONSTANTS p1, p2, Zero, Link

MCPayloads == {p1, p2}

=============================================================================

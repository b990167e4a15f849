------------------------ MODULE MCXhciHostController ------------------------
(***************************************************************************)
(* The source's own budgets (20 and 100 polls).  The controller reports a *)
(* USB 2 protocol for port 1 (offset 1) and a USB 3 protocol for port 2   *)
(* (offset 2), so zero-based port 1 is the USB3 port.                     *)
(***************************************************************************)
EXTENDS XhciHostController

MCSupportedProtocols ==
  {[offset |-> 1, count |-> 1, major |-> 2],
   [offset |-> 2, count |-> 1, major |-> 3]}

=============================================================================

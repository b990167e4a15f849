------------------------- MODULE MCXhciDeviceSetup -------------------------
(* Two device slots, a four-slot event ring, allocation failure possible.
   With fewer port events than event ring slots the controller cannot lap
   a batch the driver is still reading; the stale-read run gives it one
   event per slot. *)
EXTENDS XhciDeviceSetup

CONSTANTS Zero

=============================================================================

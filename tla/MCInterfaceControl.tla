------------------------- MODULE MCInterfaceControl -------------------------
(* InterfaceControl on the instances of the MCInterfaceControl_*.cfg files. *)
EXTENDS InterfaceControl
=============================================================================

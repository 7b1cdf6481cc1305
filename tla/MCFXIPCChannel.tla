--------------------------- MODULE MCFXIPCChannel ---------------------------
(* TLC instances of FXIPCChannel. *)
EXTENDS FXIPCChannel
=============================================================================

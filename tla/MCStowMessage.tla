---------------------------- MODULE MCStowMessage ----------------------------
(* A small instance of StowMessage. *)
EXTENDS StowMessage, TLC
=============================================================================

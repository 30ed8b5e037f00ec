--------------------------- MODULE MCMqttSession ---------------------------
(* The tracker, its broker and everybody else. *)
EXTENDS MqttSession
=============================================================================

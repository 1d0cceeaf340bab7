---------------------------- MODULE MCAlertStream ----------------------------
(* Small instances of AlertStream for TLC. *)
EXTENDS AlertStream
=============================================================================

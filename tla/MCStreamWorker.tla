--------------------------- MODULE MCStreamWorker ---------------------------
(* Small instances of StreamWorker for TLC. *)
EXTENDS StreamWorker
=============================================================================

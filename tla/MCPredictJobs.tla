---------------------------- MODULE MCPredictJobs ----------------------------
(* Small instances of PredictJobs for TLC. *)
EXTENDS PredictJobs
=============================================================================

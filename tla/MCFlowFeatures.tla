---------------------------- MODULE MCFlowFeatures ----------------------------
(* Small instances of FlowFeatures for TLC. *)
EXTENDS FlowFeatures

\* A plain packet, one that closes a flow if it is not the first, one whose
\* flag counts twice.
SomeFlags == {{}, {"FIN"}, {"URG"}}
=============================================================================

----------------------------- MODULE MCInference -----------------------------
(* Small instances of Inference for TLC. *)
EXTENDS Inference

MCArtifacts == {"classifier", "explainer"}
=============================================================================

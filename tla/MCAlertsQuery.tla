---------------------------- MODULE MCAlertsQuery ----------------------------
(* Small instances of AlertsQuery for TLC. *)
EXTENDS AlertsQuery, TLC

\* No query distinguishes the labels.
LabelSymmetry == Permutations(Labels)
=============================================================================

------------------------- MODULE MCFlowBuilderWorker -------------------------
(* Small instances of FlowBuilderWorker for TLC: one conversation with two  *)
(* directions and two keys that are their own reverse.                      *)
EXTENDS FlowBuilderWorker

MCKeys == {"ab", "ba", "xx", "yy"}
MCReverse == [ab |-> "ba", ba |-> "ab", xx |-> "xx", yy |-> "yy"]
=============================================================================

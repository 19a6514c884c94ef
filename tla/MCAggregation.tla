---------------------------- MODULE MCAggregation ----------------------------
(***************************************************************************)
(* Instances of Aggregation for TLC.                                        *)
(***************************************************************************)
EXTENDS Aggregation, TLC

CONSTANTS a1, a2

Twice == <<a1, a2, a1>>
OneAction == <<a1>>
PastAndFuture == {-1, 0, 1}
Present == {0}
EvalSymmetry == Permutations(Eval)
=============================================================================

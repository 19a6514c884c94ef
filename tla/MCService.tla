------------------------------ MODULE MCService ------------------------------
(***************************************************************************)
(* Instances of Service for TLC.                                            *)
(***************************************************************************)
EXTENDS Service

CONSTANT d1

Requests == Request
Attached(plain, aggregated) == [action |-> plain, aggregatedAction |-> aggregated]
Guarded(strategy, actions) == [strategy |-> strategy, when |-> TRUE, actions |-> actions]
Always(strategy, actions) == [strategy |-> strategy, when |-> FALSE, actions |-> actions]

(* A rule that aggregates with a plain action beside it; a schedule rule     *)
(* before one with a condition.                                             *)
Aggregating == <<Always("aggregate", Attached(1, 1))>>
Scheduling == <<Always("schedule", Attached(0, 0)), Guarded("plain", Attached(1, 0))>>

SomeDispatches == {Aggregating, Scheduling}
=============================================================================

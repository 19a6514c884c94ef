----------------------------- MODULE Evaluation -----------------------------
(***************************************************************************)
(* engine.evaluate(): one event runs through the rules of its dispatch list *)
(* (engine/src/engine/evaluation-runner.ts and strategy-handlers.ts), then  *)
(* through the actions it queued, in a cancellation scope that races the    *)
(* work against an abort (utility/cancellation.ts); and engine.stop().      *)
(*                                                                          *)
(* An action of this module runs from one await to the next.  There is no   *)
(* clock: the watchdog of a scope may fire at any time while the scope      *)
(* lives.  What a condition says, whether a threshold is reached and        *)
(* whether user code throws is open here; WhenTree, Aggregation and         *)
(* ScheduledWorker say more.                                                *)
(***************************************************************************)
EXTENDS Integers, Sequences

CONSTANTS Evaluation,  \* calls of evaluate()
          Dispatches   \* the dispatch lists an event may find

ActionKind == {"action", "aggregatedAction"}

(* A rule has so many actions of each kind attached.  A strategy goes        *)
(* through those of one kind at a time.                                      *)
RuleKind == [strategy : {"plain", "aggregate", "schedule"}, when : BOOLEAN,
             actions : [ActionKind -> Nat]]

ASSUME EvaluationAssumption == Dispatches \subseteq Seq(RuleKind)

VARIABLES
  evals,    \* the state of each evaluation
  stop,     \* how far stop() is
  waited,   \* the evaluations stop() waits for
  late      \* history: the evaluations begun after stop() took that snapshot

evaluationVars == <<evals, stop, waited, late>>

Phase == {"none", "when", "appending", "enqueueing", "next", "acting", "over"}
Progress == {"queued", "listing", "running", "ok", "failed"}

Eval ==
  [pc : Phase,             \* the await the runner is suspended at
   rules : Dispatches,     \* the dispatch list, captured when it began
   rule : Nat, att : Nat,  \* the rule and the attached action it is at
   fired : BOOLEAN,        \* ruleFired of the aggregate strategy
   pending : Seq([kind : ActionKind, state : Progress]),
   aborted : BOOLEAN,      \* scope.signal.aborted
   outcome : {"none", "ok", "failed"}]  \* what evaluate() settled with

OfKind(ev, kind) == [i \in 1..ev.rules[ev.rule].actions[kind] |-> kind]

IdleEval(rules) ==
  [pc |-> "none", rules |-> rules, rule |-> 0, att |-> 0, fired |-> FALSE,
   pending |-> << >>, aborted |-> FALSE, outcome |-> "none"]

EvaluationTypeOK ==
  /\ evals \in [Evaluation -> Eval]
  /\ \A e \in Evaluation : LET ev == evals[e]
                            IN  /\ ev.rule <= Len(ev.rules)
                                /\ ev.pc = "appending" => ev.att <= Len(OfKind(ev, "aggregatedAction"))
  /\ stop \in {"no", "worker", "draining", "resolved"}
  /\ waited \subseteq Evaluation /\ late \subseteq Evaluation

EvaluationInit(rulesOf) ==
  /\ evals = [e \in Evaluation |-> IdleEval(rulesOf[e])]
  /\ stop = "no" /\ waited = {} /\ late = {}

-----------------------------------------------------------------------------
(* What the steps of the runner share.  They map the record of an           *)
(* evaluation to the record after the synchronous code up to the next await.*)

At(e, pc) == evals[e].pc = pc
Settled(e) == evals[e].outcome # "none"
InFlight(e) == evals[e].pc # "none" /\ ~Settled(e)
Set(e, ev) == evals' = [evals EXCEPT ![e] = ev]

(* Promise.race is over: evaluate() emits its outcome, disposes the scope   *)
(* and settles, in the same turn of the event loop.  What comes second has  *)
(* no effect: a runner that was aborted goes on until it looks at the       *)
(* signal or is done.                                                       *)
Race(ev, outcome) == [ev EXCEPT !.outcome = IF @ = "none" THEN outcome ELSE @]

(* The promise of the runner settles. *)
Over(ev, outcome) == [Race(ev, outcome) EXCEPT !.pc = "over"]

Queue(ev, kinds) ==
  [ev EXCEPT !.pending = @ \o [i \in DOMAIN kinds |-> [kind |-> kinds[i], state |-> "queued"]]]

(* The strategy of the current rule, up to its first await.                 *)
Strategy(ev) ==
  LET strategy == ev.rules[ev.rule].strategy
  IN  IF strategy = "plain" THEN [Queue(ev, OfKind(ev, "action")) EXCEPT !.pc = "next"]
      ELSE IF strategy = "schedule" THEN [ev EXCEPT !.pc = "enqueueing"]
      ELSE IF OfKind(ev, "aggregatedAction") = << >> THEN [ev EXCEPT !.pc = "next"]
      ELSE [ev EXCEPT !.pc = "appending", !.att = 1, !.fired = FALSE]

(* All actions are started together; an aggregated one lists its entries.   *)
Started(kind) ==
  [kind |-> kind, state |-> IF kind = "action" THEN "running" ELSE "listing"]

StartActions(ev) ==
  [ev EXCEPT !.pc = "acting",
             !.pending = [i \in DOMAIN ev.pending |-> Started(ev.pending[i].kind)]]

(* Variant: the signal is not looked at between two rules. *)
UncheckedLoop(ev) ==
  IF ev.rule < Len(ev.rules)
  THEN LET at == [ev EXCEPT !.rule = @ + 1]
       IN  IF at.rules[at.rule].when THEN [at EXCEPT !.pc = "when"] ELSE Strategy(at)
  ELSE IF ev.pending = << >> THEN Over(ev, "ok") ELSE StartActions(ev)

(* The head of the loop over the rules, and what follows the loop.          *)
Loop(ev) ==
  LET at == [ev EXCEPT !.rule = @ + 1]
  IN  IF ev.rule < Len(ev.rules)
      THEN IF ev.aborted THEN Over(ev, "failed")
           ELSE IF at.rules[at.rule].when THEN [at EXCEPT !.pc = "when"] ELSE Strategy(at)
      ELSE IF ev.pending = << >> THEN Over(ev, "ok")
           ELSE IF ev.aborted THEN Over(ev, "failed") ELSE StartActions(ev)

-----------------------------------------------------------------------------
(* The steps of an evaluation. *)

(* evaluate(): the runner starts at once.                                   *)
Evaluate(e) ==
  /\ At(e, "none")
  /\ Set(e, Loop(evals[e]))
  /\ late' = IF stop \in {"draining", "resolved"} THEN late \cup {e} ELSE late
  /\ UNCHANGED <<stop, waited>>

(* evaluateWhen resolves; errors in it count as false.                      *)
WhenReturns(e, holds) ==
  /\ At(e, "when")
  /\ LET ev == evals[e]
     IN  Set(e, IF ev.aborted THEN Over(ev, "failed")
                ELSE IF holds THEN Strategy(ev) ELSE Loop(ev))
  /\ UNCHANGED <<stop, waited, late>>

(* handleRuleStrategy has resolved. *)
RuleOver(e) ==
  /\ At(e, "next")
  /\ Set(e, Loop(evals[e]))
  /\ UNCHANGED <<stop, waited, late>>

(* Variant: the loop over the attached actions runs once too often. *)
AppendPast(ev) == ev.att > Len(OfKind(ev, "aggregatedAction"))

LastAppend(ev) == ev.att = Len(OfKind(ev, "aggregatedAction"))

(* A store returned the count of one aggregated action.                     *)
AppendReturns(e, reached) ==
  LET before == evals[e]
      ev     == IF reached THEN [Queue(before, <<"aggregatedAction">>) EXCEPT !.fired = TRUE]
                ELSE before
  IN  /\ At(e, "appending")
      /\ Set(e, IF LastAppend(ev) THEN [Queue(ev, IF ev.fired THEN OfKind(ev, "action") ELSE << >>)
                                EXCEPT !.pc = "next"]
                ELSE IF ev.aborted THEN Over(ev, "failed")
                ELSE [ev EXCEPT !.att = @ + 1])
      /\ UNCHANGED <<stop, waited, late>>

EnqueueReturns(e) ==
  /\ At(e, "enqueueing")
  /\ Set(e, [evals[e] EXCEPT !.pc = "next"])
  /\ UNCHANGED <<stop, waited, late>>

(* A store call rejects, or key or transform throws.                        *)
StrategyFails(e) ==
  /\ evals[e].pc \in {"when", "appending", "enqueueing"}
  /\ Set(e, Over(evals[e], "failed"))
  /\ UNCHANGED <<stop, waited, late>>

Unsettled(ev) == { i \in DOMAIN ev.pending : ev.pending[i].state \in {"listing", "running"} }
Failed(ev) == { i \in DOMAIN ev.pending : ev.pending[i].state = "failed" }

(* Variant: Promise.all instead of Promise.allSettled. *)
FirstFailureEnds(ev) ==
  IF Failed(ev) # {} THEN Over(ev, "failed")
  ELSE IF Unsettled(ev) = {} THEN Over(ev, "ok") ELSE ev

(* Variant: nobody looks at what the actions settled with. *)
FailuresIgnored(ev) == IF Unsettled(ev) = {} THEN Over(ev, "ok") ELSE ev

(* runPendingActions waits for all actions, whatever they settle with.      *)
ActionsOver(ev) ==
  IF Unsettled(ev) # {} THEN ev
  ELSE Over(ev, IF Failed(ev) = {} THEN "ok" ELSE "failed")

(* The entries of an aggregated action arrive: its function is called,      *)
(* without a look at the signal.                                            *)
ListReturns(e, i) ==
  /\ At(e, "acting") /\ evals[e].pending[i].state = "listing"
  /\ Set(e, [evals[e] EXCEPT !.pending[i].state = "running"])
  /\ UNCHANGED <<stop, waited, late>>

ActionSettles(e, i, state) ==
  /\ At(e, "acting")
  /\ evals[e].pending[i].state = "running" \/ (state = "failed" /\ evals[e].pending[i].state = "listing")
  /\ Set(e, ActionsOver([evals[e] EXCEPT !.pending[i].state = state]))
  /\ UNCHANGED <<stop, waited, late>>

Aborted(ev) == [Race(ev, "failed") EXCEPT !.aborted = TRUE]

(* Variant: the work is awaited without a race. *)
AbortWithoutRace(e) ==
  /\ InFlight(e) /\ ~evals[e].aborted
  /\ Set(e, [evals[e] EXCEPT !.aborted = TRUE])
  /\ UNCHANGED <<stop, waited, late>>

(* The watchdog of the scope fires. *)
Watchdog(e) ==
  /\ InFlight(e) /\ ~evals[e].aborted
  /\ Set(e, Aborted(evals[e]))
  /\ UNCHANGED <<stop, waited, late>>

-----------------------------------------------------------------------------
(* stop(): aborts the scopes there are, stops the scheduled worker, then    *)
(* waits for the evaluations that are in flight by then.                    *)
StopCalled ==
  /\ stop = "no" /\ stop' = "worker"
  /\ evals' = [e \in Evaluation |-> IF InFlight(e) THEN Aborted(evals[e]) ELSE evals[e]]
  /\ UNCHANGED <<waited, late>>

WorkerStopped ==
  /\ stop = "worker" /\ stop' = "draining"
  /\ waited' = { e \in Evaluation : InFlight(e) }
  /\ UNCHANGED <<evals, late>>

(* Variant: stop() waits for the work itself, not for evaluate(). *)
StopResolvesWhenOver ==
  /\ stop = "draining" /\ stop' = "resolved"
  /\ \A e \in Evaluation : evals[e].pc \in {"none", "over"}
  /\ UNCHANGED <<evals, waited, late>>

(* Variant: stop() resolves once the worker has stopped. *)
StopResolvesAtOnce ==
  /\ stop = "draining" /\ stop' = "resolved"
  /\ UNCHANGED <<evals, waited, late>>

StopResolves ==
  /\ stop = "draining" /\ stop' = "resolved"
  /\ \A e \in waited : Settled(e)
  /\ UNCHANGED <<evals, waited, late>>

-----------------------------------------------------------------------------
AtWork(e) == evals[e].pc \notin {"none", "over"} \/ Unsettled(evals[e]) # {}

(* Every result the engine reports is a result of all its work: unless it   *)
(* was aborted, nothing of an evaluation is still going on when evaluate()  *)
(* settles, so that a caller who retries does not meet its first try.       *)
NothingLeftBehind ==
  \A e \in Evaluation :
    Settled(e) /\ ~evals[e].aborted => ~AtWork(e)

(* When stop() has resolved, every evaluation is settled, also those that   *)
(* came while the worker was stopping; nothing keeps evaluate() from        *)
(* starting new ones later.                                                 *)
StopWaits == stop = "resolved" => \A e \in Evaluation \ late : ~InFlight(e)

(* After its signal is aborted an evaluation goes on to no further rule,     *)
(* calls no store for a further attached action and starts no actions.  The  *)
(* leaves of a condition under way and the function of an aggregated action  *)
(* whose entries are being read look at no signal: they still begin.         *)
Begins(ev, next) ==
  \/ next.rule > ev.rule /\ next.pc # "over"
  \/ next.pc = "appending" /\ next.att > ev.att
  \/ next.pc = "enqueueing" /\ ev.pc # "enqueueing"
  \/ next.pc = "acting" /\ ev.pc # "acting"
NothingBeginsAfterAbort ==
  [][\A e \in Evaluation : evals[e].aborted => ~Begins(evals[e], evals'[e])]_evals
=============================================================================

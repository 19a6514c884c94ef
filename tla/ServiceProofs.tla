---------------------------- MODULE ServiceProofs ----------------------------
(***************************************************************************)
(* What is proved of the service and of the evaluations in it: a result is  *)
(* a result of all the work, nothing begins after an abort, a shutdown      *)
(* takes the storage from nobody who could still use it, and an accepted    *)
(* delivery has its notifications.                                          *)
(*                                                                          *)
(* The argument is in two halves.  The first is about the record of one     *)
(* evaluation: EvalOK is what the code between two awaits leaves behind,    *)
(* Moves what it never takes back.  The second is about the process: what   *)
(* stop() waits for, what the handler answered and what the store holds,    *)
(* of which no step uses more than EvalOK and Moves.                        *)
(***************************************************************************)
EXTENDS Service, SequenceTheorems, TLAPS

AllQueued(ev) == \A i \in DOMAIN ev.pending : ev.pending[i].state = "queued"

(* A runner that is not yet at the actions: nothing it queued has started,  *)
(* and only an abort can have settled the evaluation, with a failure.       *)
Runs(ev) ==
  /\ ev \in Eval
  /\ ev.rule <= Len(ev.rules)
  /\ AllQueued(ev)
  /\ ev.outcome # "ok"
  /\ ev.outcome # "none" => ev.aborted

(* The record of an evaluation at an await.                                 *)
EvalOK(ev) ==
  /\ ev \in Eval
  /\ ev.rule <= Len(ev.rules)
  /\ ev.pc \in {"when", "appending", "enqueueing", "next"} => ev.rule >= 1
  /\ ev.pc = "appending" => ev.att >= 1 /\ ev.att <= Len(OfKind(ev, "aggregatedAction"))
  /\ ev.pc \notin {"acting", "over"} => AllQueued(ev)
  /\ ev.pc = "none" => ev.pending = << >> /\ ev.outcome = "none"
  /\ ev.pc = "acting" =>
       /\ ev.rule = Len(ev.rules)
       /\ \A i \in DOMAIN ev.pending : ev.pending[i].state # "queued"
  /\ ev.pc = "over" => Unsettled(ev) = {}
  /\ ev.outcome # "none" /\ ~ev.aborted => ev.pc = "over"
  /\ ev.outcome = "ok" =>
       /\ ev.pc = "over" /\ ev.rule = Len(ev.rules)
       /\ \A i \in DOMAIN ev.pending : ev.pending[i].state = "ok"

(* What a step leaves of the record before it; "done" are the actions that  *)
(* succeed in this step.                                                    *)
Moves(ev, next, done) ==
  /\ next.rules = ev.rules
  /\ ev.outcome # "none" => next.outcome = ev.outcome
  /\ next.pc # "none"
  /\ Len(next.pending) >= Len(ev.pending)
  /\ \A i \in DOMAIN next.pending :
       next.pending[i].state = "ok" =>
         i \in done \/ (i \in DOMAIN ev.pending /\ ev.pending[i].state = "ok")
  /\ ev.aborted => ~Begins(ev, next)

EvalsOK == \A e \in Evaluation : EvalOK(evals[e])

(* stop() has in hand what is in flight, and the pool ends after it.        *)
StopOK ==
  /\ stop \in {"draining", "resolved"} =>
       \A e \in Evaluation : InFlight(e) => e \in waited \cup late
  /\ stop = "resolved" => \A e \in waited : Settled(e)
  /\ pool # "open" => stop = "resolved"

(* A 202 is the answer to a success.                                        *)
AnswersOK == \A r \in Request : http[r] = "accepted" => evals[r].outcome = "ok"

(* An action that succeeded has its notification, as long as the store      *)
(* keeps it.                                                                *)
StoredOK ==
  \A r \in Request : \A i \in DOMAIN evals[r].pending :
    evals[r].pending[i].state = "ok" /\ (store = "postgres" \/ crashes = 0) =>
      <<r, i>> \in notifications

ServiceInv == TypeOK /\ EvalsOK /\ StopOK /\ AnswersOK /\ StoredOK

-----------------------------------------------------------------------------
(* The record of one evaluation. *)

(* The lists of attached actions are sequences. *)
LEMMA EvalFields ==
  ASSUME NEW ev \in Eval, NEW kind \in ActionKind, ev.rule >= 1, ev.rule <= Len(ev.rules)
  PROVE  /\ ev.rules \in Seq(RuleKind) /\ ev.rules[ev.rule] \in RuleKind
         /\ OfKind(ev, kind) \in Seq(ActionKind)
  <1>1. ev.rules \in Seq(RuleKind)  BY EvaluationAssumption DEF Eval
  <1>2. ev.rule \in 1..Len(ev.rules)  BY <1>1 DEF Eval
  <1>3. ev.rules[ev.rule] \in RuleKind  BY <1>1, <1>2
  <1>4. ev.rules[ev.rule].actions[kind] \in Nat  BY <1>3 DEF RuleKind
  <1> DEFINE n == ev.rules[ev.rule].actions[kind]
  <1>5. [i \in 1..n |-> kind] \in Seq(ActionKind)  BY <1>4
  <1> QED  BY <1>1, <1>3, <1>5 DEF OfKind

(* What is queued comes behind what was queued. *)
LEMMA QueueKeeps ==
  ASSUME NEW ev, Runs(ev), NEW kinds \in Seq(ActionKind)
  PROVE  /\ Runs(Queue(ev, kinds))
         /\ Queue(ev, kinds).pc = ev.pc /\ Queue(ev, kinds).rules = ev.rules
         /\ Queue(ev, kinds).rule = ev.rule /\ Queue(ev, kinds).att = ev.att
         /\ Queue(ev, kinds).fired = ev.fired
         /\ Queue(ev, kinds).aborted = ev.aborted /\ Queue(ev, kinds).outcome = ev.outcome
         /\ Len(Queue(ev, kinds).pending) >= Len(ev.pending)
  <1> DEFINE Entry == [kind : ActionKind, state : Progress]
             new == [i \in DOMAIN kinds |-> [kind |-> kinds[i], state |-> "queued"]]
             all == ev.pending \o new
  <1>1. ev \in Eval /\ ev.pending \in Seq(Entry)  BY DEF Runs, Eval
  <1>2. new \in Seq(Entry) /\ Len(new) = Len(kinds)
    <2>1. DOMAIN kinds = 1..Len(kinds) /\ Len(kinds) \in Nat  OBVIOUS
    <2>2. \A i \in DOMAIN kinds : kinds[i] \in ActionKind  OBVIOUS
    <2>3. \A i \in DOMAIN kinds : [kind |-> kinds[i], state |-> "queued"] \in Entry
      BY <2>2 DEF Progress
    <2>4. new = [i \in 1..Len(kinds) |-> [kind |-> kinds[i], state |-> "queued"]]  BY <2>1
    <2> HIDE DEF Entry
    <2> QED  BY <2>1, <2>3, <2>4
  <1>3. \A i \in DOMAIN new : new[i].state = "queued"  OBVIOUS
  <1> HIDE DEF new
  <1>4. all \in Seq(Entry) /\ Len(all) = Len(ev.pending) + Len(new)  BY <1>1, <1>2, ConcatProperties
  <1>5. \A i \in DOMAIN all : all[i].state = "queued"
    <2> SUFFICES ASSUME NEW i \in 1..Len(all) PROVE all[i].state = "queued"  BY <1>4
    <2>1. CASE i <= Len(ev.pending)  BY <2>1, <1>1, <1>2, <1>4, ConcatProperties DEF Runs, AllQueued
    <2>2. CASE i > Len(ev.pending)
      <3>1. all[i] = new[i - Len(ev.pending)]  BY <2>2, <1>1, <1>2, <1>4, ConcatProperties
      <3> QED  BY <3>1, <2>2, <1>1, <1>2, <1>3, <1>4
    <2> QED  BY <1>1, <1>4, <2>1, <2>2
  <1> HIDE DEF all
  <1>6. Queue(ev, kinds) = [ev EXCEPT !.pending = all]  BY DEF Queue, all, new
  <1>7. [ev EXCEPT !.pending = all] \in Eval /\ [ev EXCEPT !.pending = all].pending = all
    BY <1>1, <1>4 DEF Eval
  <1>8. Len(all) >= Len(ev.pending)  BY <1>1, <1>2, <1>4
  <1> QED  BY <1>1, <1>5, <1>6, <1>7, <1>8 DEF Runs, AllQueued, Eval

(* The end of a runner that is not yet at the actions. *)
LEMMA OverKeeps ==
  ASSUME NEW ev, Runs(ev), NEW outcome \in {"ok", "failed"},
         outcome = "ok" => ev.rule = Len(ev.rules) /\ ev.pending = << >>
  PROVE  EvalOK(Over(ev, outcome)) /\ Moves(ev, Over(ev, outcome), {})
  <1> DEFINE next == Over(ev, outcome)
  <1>1. ev \in Eval  BY DEF Runs
  <1>2. /\ next \in Eval /\ next.pc = "over"
        /\ next.outcome = IF ev.outcome = "none" THEN outcome ELSE ev.outcome
        /\ next.rules = ev.rules /\ next.rule = ev.rule /\ next.att = ev.att
        /\ next.pending = ev.pending /\ next.aborted = ev.aborted
    BY <1>1 DEF Over, Race, Eval, Phase
  <1> HIDE DEF next
  <1>3. EvalOK(next)
    <2>1. Unsettled(next) = {}  BY <1>2 DEF Runs, AllQueued, Unsettled
    <2>2. next.outcome = "ok" => outcome = "ok"  BY <1>2 DEF Runs
    <2>3. next.outcome = "ok" => \A i \in DOMAIN next.pending : next.pending[i].state = "ok"
      BY <1>2, <2>2
    <2> QED  BY <1>2, <2>1, <2>2, <2>3 DEF EvalOK, Runs
  <1>4. Moves(ev, next, {})
    BY <1>1, <1>2 DEF Moves, Begins, Runs, Eval, AllQueued
  <1> QED  BY <1>3, <1>4 DEF next

(* A strategy queues or waits.  It is only called for the rule at hand and  *)
(* where the signal has just been looked at.                                *)
LEMMA StrategyKeeps ==
  ASSUME NEW ev, Runs(ev), ev.rule >= 1, ~ev.aborted
  PROVE  EvalOK(Strategy(ev)) /\ Moves(ev, Strategy(ev), {})
  <1>1. ev \in Eval /\ ev.rule <= Len(ev.rules)  BY DEF Runs
  <1> DEFINE strategy == ev.rules[ev.rule].strategy
             queued == Queue(ev, OfKind(ev, "action"))
             aggregated == OfKind(ev, "aggregatedAction")
  <1>2. OfKind(ev, "action") \in Seq(ActionKind) /\ aggregated \in Seq(ActionKind)
    BY <1>1, EvalFields DEF ActionKind
  <1>3. CASE strategy = "plain"
    <2> DEFINE next == [queued EXCEPT !.pc = "next"]
    <2>1. /\ Runs(queued) /\ queued.rules = ev.rules /\ queued.rule = ev.rule
          /\ queued.aborted = ev.aborted /\ queued.outcome = ev.outcome
          /\ Len(queued.pending) >= Len(ev.pending)
      BY <1>2, QueueKeeps
    <2>2. Strategy(ev) = next  BY <1>3 DEF Strategy
    <2> HIDE DEF queued
    <2>3. queued \in Eval  BY <2>1 DEF Runs
    <2>4. /\ next \in Eval /\ next.pc = "next" /\ next.rules = queued.rules
          /\ next.rule = queued.rule /\ next.aborted = queued.aborted
          /\ next.outcome = queued.outcome /\ next.pending = queued.pending
      BY <2>3 DEF Eval, Phase
    <2> HIDE DEF next
    <2>5. EvalOK(next)  BY <2>1, <2>4 DEF EvalOK, Runs, AllQueued
    <2>6. Moves(ev, next, {})  BY <2>1, <2>4 DEF Moves, Runs, AllQueued
    <2> QED  BY <2>2, <2>5, <2>6
  <1>4. CASE strategy = "schedule"
    <2> DEFINE next == [ev EXCEPT !.pc = "enqueueing"]
    <2>1. Strategy(ev) = next  BY <1>4 DEF Strategy
    <2>2. /\ next \in Eval /\ next.pc = "enqueueing" /\ next.rules = ev.rules
          /\ next.rule = ev.rule /\ next.aborted = ev.aborted
          /\ next.outcome = ev.outcome /\ next.pending = ev.pending
      BY <1>1 DEF Eval, Phase
    <2> HIDE DEF next
    <2>3. EvalOK(next)  BY <2>2 DEF EvalOK, Runs, AllQueued
    <2>4. Moves(ev, next, {})  BY <1>1, <2>2 DEF Moves, Runs, AllQueued, Eval
    <2> QED  BY <2>1, <2>3, <2>4
  <1>5. CASE strategy \notin {"plain", "schedule"} /\ aggregated = << >>
    <2> DEFINE next == [ev EXCEPT !.pc = "next"]
    <2>1. Strategy(ev) = next  BY <1>5 DEF Strategy
    <2>2. /\ next \in Eval /\ next.pc = "next" /\ next.rules = ev.rules
          /\ next.rule = ev.rule /\ next.aborted = ev.aborted
          /\ next.outcome = ev.outcome /\ next.pending = ev.pending
      BY <1>1 DEF Eval, Phase
    <2> HIDE DEF next
    <2>3. EvalOK(next)  BY <2>2 DEF EvalOK, Runs, AllQueued
    <2>4. Moves(ev, next, {})  BY <1>1, <2>2 DEF Moves, Runs, AllQueued, Eval
    <2> QED  BY <2>1, <2>3, <2>4
  <1>6. CASE strategy \notin {"plain", "schedule"} /\ aggregated # << >>
    <2> DEFINE next == [ev EXCEPT !.pc = "appending", !.att = 1, !.fired = FALSE]
    <2>1. Strategy(ev) = next  BY <1>6 DEF Strategy
    <2>2. /\ next \in Eval /\ next.pc = "appending" /\ next.rules = ev.rules
          /\ next.rule = ev.rule /\ next.aborted = ev.aborted /\ next.att = 1
          /\ next.outcome = ev.outcome /\ next.pending = ev.pending
      BY <1>1 DEF Eval, Phase
    <2> HIDE DEF next
    <2>3. OfKind(next, "aggregatedAction") = aggregated  BY <2>2 DEF OfKind
    <2>4. Len(aggregated) >= 1  BY <1>2, <1>6, EmptySeq
    <2> HIDE DEF aggregated
    <2>5. EvalOK(next)  BY <2>2, <2>3, <2>4 DEF EvalOK, Runs, AllQueued
    <2>6. Moves(ev, next, {})  BY <1>1, <2>2 DEF Moves, Runs, AllQueued, Eval
    <2> QED  BY <2>1, <2>5, <2>6
  <1> QED  BY <1>3, <1>4, <1>5, <1>6

(* The actions are started together, behind the last rule. *)
LEMMA StartKeeps ==
  ASSUME NEW ev, Runs(ev), ev.rule = Len(ev.rules), ~ev.aborted
  PROVE  EvalOK(StartActions(ev)) /\ Moves(ev, StartActions(ev), {})
  <1> DEFINE next == StartActions(ev)
             Entry == [kind : ActionKind, state : Progress]
             started == [i \in DOMAIN ev.pending |-> Started(ev.pending[i].kind)]
  <1>1. ev \in Eval /\ ev.pending \in Seq(Entry)  BY DEF Runs, Eval
  <1>2. next = [ev EXCEPT !.pc = "acting", !.pending = started]  BY DEF StartActions
  <1>3. started \in Seq(Entry) /\ Len(started) = Len(ev.pending)
    <2>1. DOMAIN ev.pending = 1..Len(ev.pending) /\ Len(ev.pending) \in Nat  BY <1>1
    <2>2. \A i \in DOMAIN ev.pending : ev.pending[i] \in Entry
      <3> HIDE DEF Entry
      <3> QED  BY <1>1, ElementOfSeq, <2>1
    <2>3. \A i \in DOMAIN ev.pending : started[i] \in Entry  BY <2>2 DEF Progress, Started
    <2>4. DOMAIN started = 1..Len(ev.pending)  BY <2>1
    <2>5. started = [i \in 1..Len(ev.pending) |-> started[i]]  BY <2>1
    <2> HIDE DEF started, Entry
    <2> QED  BY <2>1, <2>3, <2>4, <2>5
  <1>4. \A i \in DOMAIN started : started[i].state \in {"running", "listing"}
    BY <1>1, <1>3 DEF Started
  <1> HIDE DEF started
  <1>5. /\ next \in Eval /\ next.pc = "acting" /\ next.rules = ev.rules
        /\ next.rule = ev.rule /\ next.aborted = ev.aborted
        /\ next.outcome = ev.outcome /\ next.pending = started
    BY <1>1, <1>2, <1>3 DEF Eval, Phase
  <1> HIDE DEF next
  <1>6. EvalOK(next)
    <2>1. \A i \in DOMAIN next.pending : next.pending[i].state # "queued"  BY <1>4, <1>5
    <2> QED  BY <1>5, <2>1 DEF EvalOK, Runs
  <1>7. Moves(ev, next, {})
    <2>1. \A i \in DOMAIN next.pending : next.pending[i].state # "ok"  BY <1>4, <1>5
    <2>2. Len(next.pending) >= Len(ev.pending)  BY <1>1, <1>3, <1>5
    <2> QED  BY <1>5, <2>1, <2>2 DEF Moves
  <1> QED  BY <1>6, <1>7 DEF next

(* The head of the loop. *)
LEMMA LoopKeeps ==
  ASSUME NEW ev, Runs(ev)
  PROVE  EvalOK(Loop(ev)) /\ Moves(ev, Loop(ev), {})
  <1> DEFINE at == [ev EXCEPT !.rule = @ + 1]
  <1>1. ev \in Eval /\ ev.rule <= Len(ev.rules)  BY DEF Runs
  <1>0. Len(ev.rules) \in Nat /\ ev.rule \in Nat  BY <1>1, EvaluationAssumption DEF Eval
  <1>2. CASE ev.rule < Len(ev.rules) /\ ev.aborted
    <2>1. Loop(ev) = Over(ev, "failed")  BY <1>2 DEF Loop
    <2> QED  BY <2>1, OverKeeps
  <1>3. CASE ev.rule < Len(ev.rules) /\ ~ev.aborted
    <2>1. /\ at \in Eval /\ at.rule = ev.rule + 1 /\ at.rules = ev.rules /\ at.pc = ev.pc
          /\ at.pending = ev.pending /\ at.outcome = ev.outcome /\ at.aborted = ev.aborted
      BY <1>1 DEF Eval
    <2>2. Loop(ev) = IF at.rules[at.rule].when THEN [at EXCEPT !.pc = "when"] ELSE Strategy(at)
      BY <1>3 DEF Loop
    <2> HIDE DEF at
    <2>3. Runs(at) /\ at.rule >= 1  BY <2>1, <1>0, <1>3 DEF Runs, AllQueued
    <2>4. EvalOK(Strategy(at)) /\ Moves(at, Strategy(at), {})
      BY <2>1, <2>3, <1>3, StrategyKeeps
    <2>5. Moves(ev, Strategy(at), {})  BY <2>1, <2>4, <1>3 DEF Moves
    <2> DEFINE next == [at EXCEPT !.pc = "when"]
    <2>6. /\ next \in Eval /\ next.pc = "when" /\ next.rules = at.rules
          /\ next.rule = at.rule /\ next.aborted = at.aborted
          /\ next.outcome = at.outcome /\ next.pending = at.pending
      BY <2>1 DEF Eval, Phase
    <2> HIDE DEF next
    <2>7. EvalOK(next)  BY <2>3, <2>6 DEF EvalOK, Runs, AllQueued
    <2>8. Moves(ev, next, {})  BY <1>1, <1>3, <2>1, <2>6 DEF Moves, Runs, AllQueued, Eval
    <2> QED  BY <2>2, <2>4, <2>5, <2>7, <2>8 DEF next
  <1>4. CASE ev.rule >= Len(ev.rules) /\ ev.pending = << >>
    <2>1. Loop(ev) = Over(ev, "ok")  BY <1>0, <1>4 DEF Loop
    <2>2. ev.rule = Len(ev.rules)  BY <1>0, <1>1, <1>4
    <2> QED  BY <2>1, <2>2, <1>4, OverKeeps
  <1>5. CASE ev.rule >= Len(ev.rules) /\ ev.pending # << >> /\ ev.aborted
    <2>1. Loop(ev) = Over(ev, "failed")  BY <1>0, <1>5 DEF Loop
    <2> QED  BY <2>1, OverKeeps
  <1>6. CASE ev.rule >= Len(ev.rules) /\ ev.pending # << >> /\ ~ev.aborted
    <2>1. Loop(ev) = StartActions(ev)  BY <1>0, <1>6 DEF Loop
    <2>2. ev.rule = Len(ev.rules)  BY <1>0, <1>1, <1>6
    <2> QED  BY <2>1, <2>2, <1>6, StartKeeps
  <1> QED  BY <1>0, <1>2, <1>3, <1>4, <1>5, <1>6

-----------------------------------------------------------------------------
(* The steps of an evaluation, as seen from its record. *)

Advances(e, done) ==
  \E next : /\ evals' = [evals EXCEPT ![e] = next]
            /\ EvalOK(next) /\ Moves(evals[e], next, done)

LEMMA RunsBeforeActing ==
  ASSUME NEW ev, EvalOK(ev), ev.pc \notin {"acting", "over"}
  PROVE  Runs(ev)
BY DEF EvalOK, Runs

LEMMA WhenAdvances ==
  ASSUME NEW e \in Evaluation, EvalOK(evals[e]), NEW holds \in BOOLEAN, WhenReturns(e, holds)
  PROVE  Advances(e, {})
  <1> DEFINE ev == evals[e]
  <1>1. ev.pc = "when" /\ Runs(ev) /\ ev.rule >= 1
    BY RunsBeforeActing DEF WhenReturns, At, EvalOK
  <1>2. CASE ev.aborted
    <2>1. evals' = [evals EXCEPT ![e] = Over(ev, "failed")]  BY <1>2 DEF WhenReturns, Set
    <2> QED  BY <2>1, <1>1, OverKeeps DEF Advances
  <1>3. CASE ~ev.aborted /\ holds
    <2>1. evals' = [evals EXCEPT ![e] = Strategy(ev)]  BY <1>3 DEF WhenReturns, Set
    <2> QED  BY <2>1, <1>1, <1>3, StrategyKeeps DEF Advances
  <1>4. CASE ~ev.aborted /\ ~holds
    <2>1. evals' = [evals EXCEPT ![e] = Loop(ev)]  BY <1>4 DEF WhenReturns, Set
    <2> QED  BY <2>1, <1>1, LoopKeeps DEF Advances
  <1> QED  BY <1>2, <1>3, <1>4

LEMMA LoopAdvances ==
  ASSUME NEW e \in Evaluation, EvalOK(evals[e]), RuleOver(e) \/ Evaluate(e)
  PROVE  Advances(e, {})
  <1>1. evals[e].pc \in {"next", "none"} /\ evals' = [evals EXCEPT ![e] = Loop(evals[e])]
    BY DEF RuleOver, Evaluate, At, Set
  <1> QED  BY <1>1, RunsBeforeActing, LoopKeeps DEF Advances

LEMMA EnqueueAdvances ==
  ASSUME NEW e \in Evaluation, EvalOK(evals[e]), EnqueueReturns(e)
  PROVE  Advances(e, {})
  <1> DEFINE ev == evals[e]
             next == [ev EXCEPT !.pc = "next"]
  <1>1. ev.pc = "enqueueing" /\ Runs(ev) /\ ev.rule >= 1 /\ ev \in Eval
    BY RunsBeforeActing DEF EnqueueReturns, At, EvalOK
  <1>2. /\ next \in Eval /\ next.pc = "next" /\ next.rules = ev.rules
        /\ next.rule = ev.rule /\ next.aborted = ev.aborted
        /\ next.outcome = ev.outcome /\ next.pending = ev.pending
    BY <1>1 DEF Eval, Phase
  <1>3. evals' = [evals EXCEPT ![e] = next]  BY DEF EnqueueReturns, Set
  <1> HIDE DEF next, ev
  <1>4. EvalOK(next)  BY <1>1, <1>2 DEF EvalOK, Runs, AllQueued
  <1>5. Moves(ev, next, {})  BY <1>1, <1>2 DEF Moves, Runs, AllQueued, Begins, Eval
  <1> QED  BY <1>3, <1>4, <1>5 DEF Advances, ev

LEMMA FailureAdvances ==
  ASSUME NEW e \in Evaluation, EvalOK(evals[e]), StrategyFails(e)
  PROVE  Advances(e, {})
BY RunsBeforeActing, OverKeeps DEF StrategyFails, Set, Advances

(* The count of one aggregated action is back: on to the next one, or to    *)
(* the plain actions of the rule, or, aborted, to nothing.                  *)
LEMMA AppendAdvances ==
  ASSUME NEW e \in Evaluation, EvalOK(evals[e]), NEW reached \in BOOLEAN,
         AppendReturns(e, reached)
  PROVE  Advances(e, {})
  <1> DEFINE before == evals[e]
             queued == Queue(before, <<"aggregatedAction">>)
             ev == IF reached THEN [queued EXCEPT !.fired = TRUE] ELSE before
             kinds == IF ev.fired THEN OfKind(ev, "action") ELSE << >>
             last == [Queue(ev, kinds) EXCEPT !.pc = "next"]
             again == [ev EXCEPT !.att = @ + 1]
  <1>1. /\ before.pc = "appending" /\ Runs(before) /\ before.rule >= 1
        /\ before.att >= 1 /\ before.att <= Len(OfKind(before, "aggregatedAction"))
    BY RunsBeforeActing DEF AppendReturns, At, EvalOK
  <1>2. evals' = [evals EXCEPT ![e] = IF LastAppend(ev) THEN last
                                     ELSE IF ev.aborted THEN Over(ev, "failed") ELSE again]
    BY DEF AppendReturns, Set
  <1> HIDE DEF before
  <1>3. /\ Runs(ev) /\ ev.pc = "appending" /\ ev.rules = before.rules /\ ev.rule = before.rule
        /\ ev.att = before.att /\ ev.aborted = before.aborted /\ ev.outcome = before.outcome
        /\ Len(ev.pending) >= Len(before.pending)
    <2>1. CASE reached
      <3>1. <<"aggregatedAction">> \in Seq(ActionKind)  BY DEF ActionKind
      <3>2. /\ Runs(queued) /\ queued.pc = before.pc /\ queued.rules = before.rules
            /\ queued.rule = before.rule /\ queued.att = before.att
            /\ queued.aborted = before.aborted /\ queued.outcome = before.outcome
            /\ Len(queued.pending) >= Len(before.pending)
        BY <1>1, <3>1, QueueKeeps
      <3> HIDE DEF queued
      <3>3. /\ ev \in Eval /\ ev.pc = queued.pc /\ ev.rules = queued.rules /\ ev.rule = queued.rule
            /\ ev.att = queued.att /\ ev.aborted = queued.aborted /\ ev.outcome = queued.outcome
            /\ ev.pending = queued.pending
        BY <2>1, <3>2 DEF Runs, Eval
      <3> HIDE DEF ev
      <3>4. Runs(ev)  BY <3>2, <3>3 DEF Runs, AllQueued
      <3>5. Len(ev.pending) >= Len(before.pending)  BY <3>2, <3>3
      <3> HIDE DEF queued
      <3> QED  BY <1>1, <3>2, <3>3, <3>4, <3>5
    <2>2. CASE ~reached
      <3>1. ev = before  BY <2>2
      <3>2. Len(before.pending) \in Nat  BY <1>1 DEF Runs, Eval
      <3> HIDE DEF ev
      <3>3. Len(ev.pending) >= Len(before.pending)  BY <3>1, <3>2
      <3>4. Runs(ev)  BY <1>1, <3>1
      <3> QED  BY <1>1, <3>1, <3>3, <3>4
    <2> QED  BY <2>1, <2>2
  <1> HIDE DEF ev
  <1>4. ev \in Eval /\ before \in Eval /\ ev.rule <= Len(ev.rules)  BY <1>1, <1>3 DEF Runs
  <1>5. OfKind(ev, "aggregatedAction") = OfKind(before, "aggregatedAction")
    BY <1>3 DEF OfKind
  <1>6. Len(OfKind(ev, "aggregatedAction")) \in Nat /\ OfKind(ev, "action") \in Seq(ActionKind)
    BY <1>1, <1>3, <1>4, EvalFields DEF ActionKind
  <1>7. CASE LastAppend(ev)
    <2> DEFINE all == Queue(ev, kinds)
    <2>1. kinds \in Seq(ActionKind)  BY <1>6
    <2> HIDE DEF kinds
    <2>2. /\ Runs(all) /\ all.rules = ev.rules /\ all.rule = ev.rule
          /\ all.aborted = ev.aborted /\ all.outcome = ev.outcome
          /\ Len(all.pending) >= Len(ev.pending)
      BY <1>3, <2>1, QueueKeeps
    <2> HIDE DEF all
    <2>3. /\ last \in Eval /\ last.pc = "next" /\ last.rules = all.rules
          /\ last.rule = all.rule /\ last.aborted = all.aborted
          /\ last.outcome = all.outcome /\ last.pending = all.pending
      BY <2>2 DEF Runs, Eval, Phase, all
    <2> HIDE DEF last
    <2>4. EvalOK(last)  BY <1>1, <1>3, <2>2, <2>3 DEF EvalOK, Runs, AllQueued
    <2>5. Moves(before, last, {})
      <3>1. last.rule = before.rule /\ last.rules = before.rules /\ before.rule \in Nat
        BY <1>3, <1>4, <2>2, <2>3 DEF Eval
      <3>2. ~Begins(before, last)  BY <3>1, <2>3 DEF Begins
      <3>3. Len(last.pending) >= Len(before.pending)
        <4>1. Len(all.pending) \in Nat /\ Len(ev.pending) \in Nat /\ Len(before.pending) \in Nat
          BY <1>4, <2>2 DEF Runs, Eval
        <4> QED  BY <4>1, <1>3, <2>2, <2>3
      <3>4. \A i \in DOMAIN last.pending : last.pending[i].state # "ok"
        BY <2>2, <2>3 DEF Runs, AllQueued
      <3>5. last.outcome = before.outcome /\ last.pc # "none"  BY <1>3, <2>2, <2>3
      <3> QED  BY <3>1, <3>2, <3>3, <3>4, <3>5 DEF Moves
    <2> QED  BY <1>2, <1>7, <2>4, <2>5 DEF Advances, before
  <1>8. CASE ~LastAppend(ev) /\ ev.aborted
    <2>1. EvalOK(Over(ev, "failed")) /\ Moves(ev, Over(ev, "failed"), {})
      BY <1>3, OverKeeps
    <2> DEFINE over == Over(ev, "failed")
    <2>2. over.pc = "over" /\ over.rule = ev.rule  BY <1>4 DEF Over, Race, Eval
    <2> HIDE DEF over
    <2>3. Moves(before, over, {})
      <3>1. ~Begins(before, over)  BY <2>2 DEF Begins
      <3>2. \A i \in DOMAIN over.pending : over.pending[i].state # "ok"
        BY <2>1, <1>3 DEF Moves, Runs, AllQueued, over
      <3>3. Len(over.pending) >= Len(before.pending)
        <4>1. Len(over.pending) \in Nat /\ Len(ev.pending) \in Nat /\ Len(before.pending) \in Nat
          BY <1>4, <2>1 DEF EvalOK, Eval, over
        <4>2. Len(over.pending) >= Len(ev.pending)  BY <2>1 DEF Moves, over
        <4> QED  BY <4>1, <4>2, <1>3
      <3>4. over.rules = before.rules /\ over.pc # "none"
        BY <2>1, <2>2, <1>3 DEF Moves, over
      <3>5. before.outcome # "none" => over.outcome = before.outcome
        BY <2>1, <1>3 DEF Moves, over
      <3> QED  BY <3>1, <3>2, <3>3, <3>4, <3>5 DEF Moves
    <2> QED  BY <1>2, <1>8, <2>1, <2>3 DEF Advances, before, over
  <1>9. CASE ~LastAppend(ev) /\ ~ev.aborted
    <2>1. /\ again \in Eval /\ again.pc = ev.pc /\ again.rules = ev.rules
          /\ again.rule = ev.rule /\ again.aborted = ev.aborted /\ again.att = ev.att + 1
          /\ again.outcome = ev.outcome /\ again.pending = ev.pending
      BY <1>4 DEF Eval
    <2>2. OfKind(again, "aggregatedAction") = OfKind(ev, "aggregatedAction")
      BY <2>1 DEF OfKind
    <2>3. again.att >= 1 /\ again.att <= Len(OfKind(ev, "aggregatedAction"))
      BY <1>1, <1>3, <1>4, <1>5, <1>6, <1>9, <2>1 DEF LastAppend, Eval
    <2> HIDE DEF again
    <2>4. EvalOK(again)  BY <1>1, <1>3, <2>1, <2>2, <2>3 DEF EvalOK, Runs, AllQueued
    <2>5. Moves(before, again, {})
      BY <1>3, <1>9, <2>1 DEF Moves, Runs, AllQueued
    <2> QED  BY <1>2, <1>9, <2>4, <2>5 DEF Advances, before
  <1> QED  BY <1>7, <1>8, <1>9

(* An abort settles the evaluation and leaves the work where it is.         *)
LEMMA AbortKeeps ==
  ASSUME NEW ev, EvalOK(ev), ev.pc # "none", ev.outcome = "none"
  PROVE  EvalOK(Aborted(ev)) /\ Moves(ev, Aborted(ev), {})
  <1> DEFINE next == Aborted(ev)
  <1>1. ev \in Eval  BY DEF EvalOK
  <1>2. /\ next \in Eval /\ next.pc = ev.pc /\ next.rules = ev.rules
        /\ next.rule = ev.rule /\ next.att = ev.att /\ next.aborted
        /\ next.outcome = "failed" /\ next.pending = ev.pending
    BY <1>1 DEF Aborted, Race, Eval
  <1> HIDE DEF next
  <1>3. OfKind(next, "aggregatedAction") = OfKind(ev, "aggregatedAction")
    BY <1>2 DEF OfKind
  <1>4. EvalOK(next)  BY <1>2, <1>3 DEF EvalOK, AllQueued, Unsettled
  <1>5. Moves(ev, next, {})  BY <1>1, <1>2 DEF Moves, Begins, Eval
  <1> QED  BY <1>4, <1>5 DEF next

(* One action moves on; the evaluation is over with the last of them.       *)
LEMMA ActionKeeps ==
  ASSUME NEW ev, EvalOK(ev), ev.pc = "acting", NEW i \in DOMAIN ev.pending,
         NEW state \in Progress \ {"queued"}
  PROVE  LET next == [ev EXCEPT !.pending[i].state = state]
             done == IF state = "ok" THEN {i} ELSE {}
         IN  /\ Moves(ev, next, done) /\ Moves(ev, ActionsOver(next), done)
             /\ EvalOK(next) /\ EvalOK(ActionsOver(next))
  <1> DEFINE next == [ev EXCEPT !.pending[i].state = state]
             done == IF state = "ok" THEN {i} ELSE {}
             moved == [ev.pending EXCEPT ![i].state = state]
             Entry == [kind : ActionKind, state : Progress]
  <1>1. ev \in Eval /\ ev.pending \in Seq(Entry)  BY DEF EvalOK, Eval
  <1>2. next = [ev EXCEPT !.pending = moved]  BY <1>1 DEF Eval
  <1>3. moved \in Seq(Entry) /\ Len(moved) = Len(ev.pending)
    <2>1. ev.pending[i] \in Entry
      <3> HIDE DEF Entry
      <3> QED  BY <1>1, ElementOfSeq
    <2>2. [ev.pending[i] EXCEPT !.state = state] \in Entry  BY <2>1
    <2>3. moved = [ev.pending EXCEPT ![i] = [ev.pending[i] EXCEPT !.state = state]]  BY <1>1
    <2> HIDE DEF Entry, moved
    <2> QED  BY <1>1, <2>2, <2>3
  <1>4. /\ DOMAIN moved = DOMAIN ev.pending
        /\ \A j \in DOMAIN moved : moved[j].state = IF j = i THEN state ELSE ev.pending[j].state
    BY <1>1
  <1> HIDE DEF moved
  <1>5. /\ next \in Eval /\ next.pc = "acting" /\ next.rules = ev.rules /\ next.rule = ev.rule
        /\ next.aborted = ev.aborted /\ next.outcome = ev.outcome /\ next.pending = moved
    BY <1>1, <1>2, <1>3 DEF Eval
  <1> HIDE DEF next
  <1>6. \A j \in DOMAIN next.pending : next.pending[j].state # "queued"
    BY <1>4, <1>5 DEF EvalOK
  <1>7. EvalOK(next)  BY <1>5, <1>6 DEF EvalOK
  <1>8. Moves(ev, next, done)
    <2>1. Len(next.pending) >= Len(ev.pending)  BY <1>1, <1>3, <1>5
    <2>2. ~Begins(ev, next)  BY <1>1, <1>5 DEF Begins, Eval
    <2> QED  BY <1>4, <1>5, <2>1, <2>2 DEF Moves
  <1>9. EvalOK(ActionsOver(next)) /\ Moves(ev, ActionsOver(next), done)
    <2>1. CASE Unsettled(next) # {}
      <3>1. ActionsOver(next) = next  BY <2>1 DEF ActionsOver
      <3> QED  BY <3>1, <1>7, <1>8
    <2>2. CASE Unsettled(next) = {}
      <3> DEFINE outcome == IF Failed(next) = {} THEN "ok" ELSE "failed"
                 over == Over(next, outcome)
      <3>1. ActionsOver(next) = over  BY <2>2 DEF ActionsOver
      <3> HIDE DEF outcome
      <3>2. outcome \in {"ok", "failed"}  BY DEF outcome
      <3>3. /\ over \in Eval /\ over.pc = "over" /\ over.rules = next.rules
            /\ over.rule = next.rule /\ over.aborted = next.aborted
            /\ over.outcome = (IF next.outcome = "none" THEN outcome ELSE next.outcome)
            /\ over.pending = next.pending
        BY <1>5, <3>2 DEF Over, Race, Eval, Phase
      <3> HIDE DEF over
      <3>4. Unsettled(over) = {}  BY <2>2, <3>3 DEF Unsettled
      <3>5. over.outcome = "ok" => outcome = "ok"  BY <1>5, <3>3 DEF EvalOK
      <3>6. outcome = "ok" => \A j \in DOMAIN next.pending : next.pending[j].state = "ok"
        <4> SUFFICES ASSUME outcome = "ok", NEW j \in DOMAIN next.pending
                     PROVE  next.pending[j].state = "ok"  OBVIOUS
        <4>1. next.pending[j].state \in Progress
          <5>1. next.pending[j] \in Entry
            <6> HIDE DEF Entry
            <6> QED  BY <1>3, <1>5, ElementOfSeq
          <5> QED  BY <5>1
        <4>2. j \notin Failed(next) /\ j \notin Unsettled(next)  BY <2>2 DEF outcome
        <4> QED  BY <4>1, <4>2, <1>6 DEF Failed, Unsettled, Progress
      <3>7. EvalOK(over)  BY <1>5, <3>3, <3>4, <3>5, <3>6 DEF EvalOK
      <3>8. Moves(ev, over, done)
        <4>1. ~Begins(ev, over)  BY <3>3 DEF Begins
        <4> QED  BY <1>5, <1>8, <3>3, <4>1 DEF Moves
      <3> QED  BY <3>1, <3>7, <3>8
    <2> QED  BY <2>1, <2>2
  <1> QED  BY <1>7, <1>8, <1>9 DEF next

LEMMA ListAdvances ==
  ASSUME NEW e \in Evaluation, EvalOK(evals[e]), NEW i \in DOMAIN evals[e].pending,
         ListReturns(e, i)
  PROVE  Advances(e, {})
BY ActionKeeps DEF ListReturns, At, Set, Advances, Progress

LEMMA SettlingAdvances ==
  ASSUME NEW e \in Evaluation, EvalOK(evals[e]), NEW i \in DOMAIN evals[e].pending,
         NEW state \in {"ok", "failed"}, ActionSettles(e, i, state)
  PROVE  Advances(e, IF state = "ok" THEN {i} ELSE {})
BY ActionKeeps DEF ActionSettles, At, Set, Advances, Progress

LEMMA WatchdogAdvances ==
  ASSUME NEW e \in Evaluation, EvalOK(evals[e]), Watchdog(e)
  PROVE  Advances(e, {})
BY AbortKeeps DEF Watchdog, InFlight, Settled, Set, Advances, EvalOK, Eval

-----------------------------------------------------------------------------
(* The process. *)

(* No aborted evaluation begins anything in this step. *)
StaysAborted ==
  \A e \in Evaluation : evals[e].aborted => ~Begins(evals[e], evals'[e])

LEMMA Unmoved ==
  ASSUME NEW ev, EvalOK(ev)
  PROVE  ~Begins(ev, ev)
BY DEF EvalOK, Begins, Eval

LEMMA StartsOK == Init => ServiceInv
  <1> SUFFICES ASSUME Init PROVE ServiceInv  OBVIOUS
  <1>1. PICK rules \in [Delivery -> Dispatches] :
          EvaluationInit([r \in Request |-> rules[r[1]]])
    BY DEF Init
  <1>2. evals = [r \in Evaluation |-> IdleEval(rules[r[1]])]
    BY <1>1, ServiceAssumption DEF EvaluationInit
  <1>3. ASSUME NEW r \in Evaluation PROVE EvalOK(evals[r])
    <2>1. rules[r[1]] \in Dispatches  BY <1>3, ServiceAssumption DEF Request
    <2> DEFINE list == rules[r[1]]
               ev == evals[r]
    <2>2. ev = IdleEval(list)  BY <1>2, <1>3
    <2>3. list \in Dispatches /\ Len(list) \in Nat  BY <2>1, EvaluationAssumption
    <2> HIDE DEF list, ev
    <2>4. /\ ev.pc = "none" /\ ev.rules = list /\ ev.rule = 0 /\ ev.pending = << >>
          /\ ev.outcome = "none" /\ ~ev.aborted
      BY <2>2 DEF IdleEval
    <2>5. ev \in Eval  BY <2>2, <2>3 DEF IdleEval, Eval, Phase
    <2>6. AllQueued(ev)  BY <2>4 DEF AllQueued
    <2> QED  BY <2>3, <2>4, <2>5, <2>6 DEF EvalOK, ev
  <1>4. EvalsOK  BY <1>3 DEF EvalsOK
  <1>5. TypeOK
    <2>1. evals \in [Evaluation -> Eval]  BY <1>2, <1>3 DEF EvalOK
    <2> QED  BY <1>1, <1>3, <2>1, ServiceAssumption
             DEF TypeOK, EvaluationTypeOK, Init, EvaluationInit, EvalOK
  <1>6. StopOK  BY <1>1 DEF StopOK, Init, EvaluationInit
  <1>7. AnswersOK  BY DEF AnswersOK, Init
  <1>8. StoredOK  BY <1>2, ServiceAssumption DEF StoredOK, IdleEval
  <1> QED  BY <1>4, <1>5, <1>6, <1>7, <1>8 DEF ServiceInv

(* A step that touches no evaluation. *)
LEMMA QuietKeeps ==
  ASSUME ServiceInv, UNCHANGED <<evaluationVars, store, crashes, notifications>>,
         phase' \in {"booting", "up", "closing", "closed"},
         pool' \in {"open", "ending", "ended"}, pool' # "open" => stop = "resolved",
         clients' \subseteq Request \X Nat,
         http' \in [Request -> {"none", "arrived", "evaluating"} \cup Answer],
         \A r \in Request : http'[r] = "accepted" => evals[r].outcome = "ok",
         adding' \subseteq ActionOf
  PROVE  ServiceInv' /\ StaysAborted
  <1> USE DEF evaluationVars
  <1>1. TypeOK'  BY DEF ServiceInv, TypeOK, EvaluationTypeOK, ActionOf
  <1>2. EvalsOK'  BY DEF ServiceInv, EvalsOK
  <1>3. StopOK'  BY DEF ServiceInv, StopOK, InFlight, Settled
  <1>4. AnswersOK'  BY DEF AnswersOK
  <1>5. StoredOK'  BY DEF ServiceInv, StoredOK
  <1>6. StaysAborted  BY Unmoved DEF ServiceInv, EvalsOK, StaysAborted
  <1> QED  BY <1>1, <1>2, <1>3, <1>4, <1>5, <1>6 DEF ServiceInv

(* A step in which one evaluation moves. *)
LEMMA AdvanceKeeps ==
  ASSUME ServiceInv, NEW r \in Request, NEW done, Advances(r, done),
         UNCHANGED <<stop, waited, processVars>>, clients' \subseteq clients,
         late' \in {late, late \cup {r}},
         At(r, "none") /\ stop \in {"draining", "resolved"} => r \in late',
         http' \in [Request -> {"none", "arrived", "evaluating"} \cup Answer],
         \A q \in Request : http'[q] = "accepted" => http[q] = "accepted",
         adding' \subseteq adding,
         notifications \subseteq notifications', notifications' \subseteq Request \X Nat,
         \A i \in done : <<r, i>> \in notifications'
  PROVE  ServiceInv' /\ StaysAborted
  <1> USE DEF processVars
  <1>0. r \in Evaluation /\ Evaluation = Request  BY ServiceAssumption
  <1>1. PICK next : /\ evals' = [evals EXCEPT ![r] = next]
                    /\ EvalOK(next) /\ Moves(evals[r], next, done)
    BY DEF Advances
  <1>2. evals \in [Evaluation -> Eval] /\ EvalsOK  BY DEF ServiceInv, TypeOK, EvaluationTypeOK
  <1>3. /\ evals' \in [Evaluation -> Eval] /\ evals'[r] = next
        /\ \A q \in Evaluation : q # r => evals'[q] = evals[q]
    BY <1>0, <1>1, <1>2 DEF EvalOK
  <1>4. EvalsOK'  BY <1>1, <1>2, <1>3 DEF EvalsOK
  <1>5. \A q \in Request : Len(evals'[q].pending) >= Len(evals[q].pending)
    <2>1. \A q \in Request : Len(evals[q].pending) \in Nat  BY <1>0, <1>2 DEF Eval
    <2> QED  BY <1>0, <1>1, <1>3, <2>1 DEF Moves
  <1>6. \A q \in Request : evals[q].outcome # "none" => evals'[q].outcome = evals[q].outcome
    BY <1>0, <1>1, <1>3 DEF Moves
  <1>7. TypeOK'
    <2>1. EvaluationTypeOK'
      <3>1. \A q \in Evaluation :
              /\ evals'[q].rule <= Len(evals'[q].rules)
              /\ evals'[q].pc = "appending" =>
                   evals'[q].att <= Len(OfKind(evals'[q], "aggregatedAction"))
        BY <1>4 DEF EvalsOK, EvalOK
      <3>2. late' \subseteq Evaluation  BY <1>0 DEF ServiceInv, TypeOK, EvaluationTypeOK
      <3> QED  BY <1>3, <3>1, <3>2 DEF EvaluationTypeOK, ServiceInv, TypeOK
    <2>2. \A a \in ActionOf : a \in ActionOf'
      <3>1. SUFFICES ASSUME NEW q \in Request, NEW i \in DOMAIN evals[q].pending
                     PROVE  i \in DOMAIN evals'[q].pending
        BY DEF ActionOf
      <3>2. /\ evals[q].pending \in Seq([kind : ActionKind, state : Progress])
            /\ evals'[q].pending \in Seq([kind : ActionKind, state : Progress])
        BY <1>0, <1>2, <1>3 DEF Eval
      <3>3. i \in 1..Len(evals[q].pending) /\ Len(evals'[q].pending) \in Nat
            /\ Len(evals[q].pending) \in Nat
        BY <3>1, <3>2
      <3>4. i \in 1..Len(evals'[q].pending)  BY <1>5, <3>3
      <3> QED  BY <3>2, <3>4
    <2>3. adding' \subseteq ActionOf'  BY <2>2 DEF ServiceInv, TypeOK
    <2> QED  BY <2>1, <2>3 DEF ServiceInv, TypeOK
  <1>8. StopOK'
    <2>1. ASSUME stop \in {"draining", "resolved"}, NEW q \in Evaluation, InFlight(q)'
          PROVE  q \in waited \cup late'
      <3>1. evals[q].outcome = "none"  BY <1>0, <1>6, <2>1 DEF InFlight, Settled
      <3>2. CASE evals[q].pc = "none"
        <4>1. q = r  BY <1>3, <2>1, <3>2 DEF InFlight
        <4> QED  BY <2>1, <3>2, <4>1 DEF At
      <3>3. CASE evals[q].pc # "none"
        <4>1. InFlight(q)  BY <3>1, <3>3 DEF InFlight, Settled
        <4> QED  BY <2>1, <4>1 DEF ServiceInv, StopOK
      <3> QED  BY <3>2, <3>3
    <2>2. ASSUME stop = "resolved", NEW q \in waited PROVE Settled(q)'
      <3>1. q \in Request /\ Settled(q)
        BY <1>0, <2>2 DEF ServiceInv, StopOK, TypeOK, EvaluationTypeOK
      <3> QED  BY <1>6, <3>1 DEF Settled
    <2> QED  BY <2>1, <2>2 DEF StopOK, ServiceInv
  <1>9. AnswersOK'  BY <1>6 DEF ServiceInv, AnswersOK
  <1>10. StoredOK'
    <2> SUFFICES ASSUME NEW q \in Request, NEW i \in DOMAIN evals'[q].pending,
                        evals'[q].pending[i].state = "ok", store = "postgres" \/ crashes = 0
                 PROVE  <<q, i>> \in notifications'
      BY DEF StoredOK
    <2>1. CASE q = r /\ i \in done  BY <2>1
    <2>2. CASE ~(q = r /\ i \in done)
      <3>1. i \in DOMAIN evals[q].pending /\ evals[q].pending[i].state = "ok"
        BY <1>0, <1>1, <1>3, <2>2 DEF Moves
      <3> QED  BY <3>1 DEF ServiceInv, StoredOK
    <2> QED  BY <2>1, <2>2
  <1>11. StaysAborted
    <2>1. \A q \in Evaluation : q # r => ~Begins(evals[q], evals'[q])
      BY <1>2, <1>3, Unmoved DEF EvalsOK
    <2> QED  BY <1>1, <1>3, <2>1 DEF StaysAborted, Moves
  <1> QED  BY <1>4, <1>7, <1>8, <1>9, <1>10, <1>11 DEF ServiceInv

LEMMA BootKeeps == ServiceInv /\ Boot => ServiceInv' /\ StaysAborted
  <1> SUFFICES ASSUME ServiceInv, Boot PROVE ServiceInv' /\ StaysAborted  OBVIOUS
  <1> QED  BY QuietKeeps DEF Boot, ServiceInv, TypeOK, StopOK, AnswersOK

LEMMA CloseStorageKeeps == ServiceInv /\ CloseStorage => ServiceInv' /\ StaysAborted
  <1> SUFFICES ASSUME ServiceInv, CloseStorage PROVE ServiceInv' /\ StaysAborted  OBVIOUS
  <1>1. \A r \in Request : Listing(r) \subseteq Nat
    BY ServiceAssumption DEF Listing, ServiceInv, TypeOK, EvaluationTypeOK, Eval
  <1>2. adding \subseteq Request \X Nat  BY DEF ServiceInv, TypeOK, ActionOf
  <1>3. Statements \subseteq Request \X Nat  BY <1>1, <1>2 DEF Statements
  <1>4. clients' \subseteq Request \X Nat  BY <1>3 DEF CloseStorage
  <1> QED  BY <1>4, QuietKeeps DEF CloseStorage, ServiceInv, TypeOK, AnswersOK

LEMMA StorageClosedKeeps == ServiceInv /\ StorageClosed => ServiceInv' /\ StaysAborted
  <1> SUFFICES ASSUME ServiceInv, StorageClosed PROVE ServiceInv' /\ StaysAborted  OBVIOUS
  <1> QED  BY QuietKeeps DEF StorageClosed, ServiceInv, TypeOK, StopOK, AnswersOK

LEMMA ShutdownKeeps == ServiceInv /\ Shutdown => ServiceInv' /\ StaysAborted
  <1> SUFFICES ASSUME ServiceInv, Shutdown PROVE ServiceInv' /\ StaysAborted  OBVIOUS
  <1> QED  BY QuietKeeps DEF Shutdown, ServiceInv, TypeOK, StopOK, AnswersOK

LEMMA ClosedKeeps == ServiceInv /\ Closed => ServiceInv' /\ StaysAborted
  <1> SUFFICES ASSUME ServiceInv, Closed PROVE ServiceInv' /\ StaysAborted  OBVIOUS
  <1> QED  BY QuietKeeps DEF Closed, ServiceInv, TypeOK, StopOK, AnswersOK

LEMMA SendKeeps ==
  ASSUME ServiceInv, NEW d \in Delivery, NEW n \in 1..MaxTries, Send(d, n)
  PROVE  ServiceInv' /\ StaysAborted
  <1>1. <<d, n>> \in Request  BY DEF Request
  <1>2. /\ http' \in [Request -> {"none", "arrived", "evaluating"} \cup Answer]
        /\ \A r \in Request : http'[r] = "accepted" => http[r] = "accepted"
    BY <1>1 DEF Send, ServiceInv, TypeOK
  <1> QED  BY <1>2, QuietKeeps DEF Send, processVars, ServiceInv, TypeOK, StopOK, AnswersOK

(* The answer is decided by the outcome. *)
LEMMA RespondKeeps ==
  ASSUME ServiceInv, NEW r \in Request, Respond(r)
  PROVE  ServiceInv' /\ StaysAborted
  <1>1. /\ http' \in [Request -> {"none", "arrived", "evaluating"} \cup Answer]
        /\ \A q \in Request : http'[q] = "accepted" => evals[q].outcome = "ok"
    BY DEF Respond, ServiceInv, TypeOK, AnswersOK, Answer
  <1> QED  BY <1>1, QuietKeeps DEF Respond, processVars, ServiceInv, TypeOK, StopOK

LEMMA HandleKeeps ==
  ASSUME ServiceInv, NEW r \in Request, NEW verdict \in Verdicts, Handle(r, verdict)
  PROVE  ServiceInv' /\ StaysAborted
  <1>1. verdict \in {"rejected", "ignored", "evaluating"}  BY DEF Verdicts, Verdict
  <1>2. /\ http' \in [Request -> {"none", "arrived", "evaluating"} \cup Answer]
        /\ \A q \in Request : http'[q] = "accepted" => http[q] = "accepted"
    BY <1>1 DEF Handle, ServiceInv, TypeOK, Answer
  <1>3. CASE verdict = "evaluating"
    <2>1. Evaluate(r) /\ UNCHANGED <<processVars, clients, adding, notifications>>
      BY <1>3 DEF Handle
    <2>2. Advances(r, {})
      BY <2>1, LoopAdvances, ServiceAssumption DEF ServiceInv, EvalsOK
    <2>3. /\ UNCHANGED <<stop, waited>> /\ late' \in {late, late \cup {r}}
          /\ stop \in {"draining", "resolved"} => r \in late'
      BY <2>1 DEF Evaluate
    <2>4. adding' = adding /\ notifications' = notifications  BY <2>1
    <2>5. notifications' \subseteq Request \X Nat  BY <2>4 DEF ServiceInv, TypeOK
    <2> QED  BY <1>2, <2>1, <2>2, <2>3, <2>4, <2>5, AdvanceKeeps
  <1>4. CASE verdict # "evaluating"
    BY <1>2, <1>4, QuietKeeps
       DEF Handle, processVars, ServiceInv, TypeOK, StopOK, AnswersOK
  <1> QED  BY <1>3, <1>4

LEMMA StepsKeep ==
  ASSUME ServiceInv, NEW r \in Request, Steps(r)
  PROVE  ServiceInv' /\ StaysAborted
  <1>1. r \in Evaluation /\ EvalOK(evals[r])  BY ServiceAssumption DEF ServiceInv, EvalsOK
  <1>2. Advances(r, {}) /\ UNCHANGED <<stop, waited, late>> /\ ~At(r, "none")
    <2>1. ASSUME NEW holds \in BOOLEAN, WhenReturns(r, holds)
          PROVE  Advances(r, {}) /\ UNCHANGED <<stop, waited, late>> /\ ~At(r, "none")
      BY <1>1, <2>1, WhenAdvances DEF WhenReturns, At
    <2>2. ASSUME RuleOver(r)
          PROVE  Advances(r, {}) /\ UNCHANGED <<stop, waited, late>> /\ ~At(r, "none")
      BY <1>1, <2>2, LoopAdvances DEF RuleOver, At
    <2>3. ASSUME NEW reached \in BOOLEAN, AppendReturns(r, reached)
          PROVE  Advances(r, {}) /\ UNCHANGED <<stop, waited, late>> /\ ~At(r, "none")
      <3>1. UNCHANGED <<stop, waited, late>> /\ ~At(r, "none")
        BY <2>3 DEF AppendReturns, At
      <3> QED  BY <1>1, <2>3, <3>1, AppendAdvances
    <2>4. ASSUME EnqueueReturns(r)
          PROVE  Advances(r, {}) /\ UNCHANGED <<stop, waited, late>> /\ ~At(r, "none")
      BY <1>1, <2>4, EnqueueAdvances DEF EnqueueReturns, At
    <2>5. ASSUME StrategyFails(r)
          PROVE  Advances(r, {}) /\ UNCHANGED <<stop, waited, late>> /\ ~At(r, "none")
      BY <1>1, <2>5, FailureAdvances DEF StrategyFails, At
    <2>6. ASSUME NEW i \in DOMAIN evals[r].pending, ListReturns(r, i)
          PROVE  Advances(r, {}) /\ UNCHANGED <<stop, waited, late>> /\ ~At(r, "none")
      BY <1>1, <2>6, ListAdvances DEF ListReturns, At
    <2>7. ASSUME Watchdog(r)
          PROVE  Advances(r, {}) /\ UNCHANGED <<stop, waited, late>> /\ ~At(r, "none")
      BY <1>1, <2>7, WatchdogAdvances DEF Watchdog, InFlight, At
    <2> QED  BY <2>1, <2>2, <2>3, <2>4, <2>5, <2>6, <2>7 DEF Steps
  <1>3. UNCHANGED <<processVars, http, adding, notifications>> /\ clients' \subseteq clients
    BY DEF Steps, Releases
  <1>4. /\ http' = http /\ adding' = adding /\ notifications' = notifications
        /\ http \in [Request -> {"none", "arrived", "evaluating"} \cup Answer]
        /\ notifications \subseteq Request \X Nat
    BY <1>3 DEF ServiceInv, TypeOK
  <1> QED  BY <1>2, <1>3, <1>4, AdvanceKeeps

LEMMA AddKeeps ==
  ASSUME ServiceInv, NEW r \in Request, NEW i \in DOMAIN evals[r].pending, Add(r, i)
  PROVE  ServiceInv' /\ StaysAborted
  <1>1. r \in Evaluation /\ evals \in [Evaluation -> Eval]
    BY ServiceAssumption DEF ServiceInv, TypeOK, EvaluationTypeOK
  <1>2. i \in Nat  BY <1>1 DEF Eval
  <1>3. adding' \subseteq ActionOf  BY <1>2 DEF Add, ServiceInv, TypeOK, ActionOf
  <1> QED  BY <1>3, QuietKeeps DEF Add, processVars, ServiceInv, TypeOK, StopOK, AnswersOK

(* An action succeeds with its notification in the store. *)
LEMMA AddedKeeps ==
  ASSUME ServiceInv, NEW r \in Request, NEW i \in DOMAIN evals[r].pending, Added(r, i)
  PROVE  ServiceInv' /\ StaysAborted
  <1>1. r \in Evaluation /\ EvalOK(evals[r])  BY ServiceAssumption DEF ServiceInv, EvalsOK
  <1>2. i \in Nat  BY <1>1 DEF EvalOK, Eval
  <1>3. ActionSettles(r, i, "ok")  BY DEF Added
  <1>4. Advances(r, {i})  BY <1>1, <1>3, SettlingAdvances
  <1>5. UNCHANGED <<stop, waited, late>> /\ ~At(r, "none")  BY <1>3 DEF ActionSettles, At
  <1>6. /\ UNCHANGED <<processVars, http>> /\ adding' \subseteq adding
        /\ clients' \subseteq clients /\ notifications' = notifications \cup {<<r, i>>}
    BY DEF Added, Releases
  <1>7. /\ notifications' \subseteq Request \X Nat
        /\ http' \in [Request -> {"none", "arrived", "evaluating"} \cup Answer]
    BY <1>2, <1>6 DEF ServiceInv, TypeOK
  <1> QED  BY <1>4, <1>5, <1>6, <1>7, AdvanceKeeps

LEMMA ActionFailsKeeps ==
  ASSUME ServiceInv, NEW r \in Request, NEW i \in DOMAIN evals[r].pending, ActionFails(r, i)
  PROVE  ServiceInv' /\ StaysAborted
  <1>1. r \in Evaluation /\ EvalOK(evals[r])  BY ServiceAssumption DEF ServiceInv, EvalsOK
  <1>2. i \in Nat  BY <1>1 DEF EvalOK, Eval
  <1>3. ActionSettles(r, i, "failed")  BY DEF ActionFails
  <1>4. Advances(r, {})  BY <1>1, <1>3, SettlingAdvances
  <1>5. UNCHANGED <<stop, waited, late>> /\ ~At(r, "none")  BY <1>3 DEF ActionSettles, At
  <1>6. /\ UNCHANGED <<processVars, http>> /\ adding' \subseteq adding
        /\ clients' \subseteq clients
        /\ notifications' \in {notifications, notifications \cup {<<r, i>>}}
    BY DEF ActionFails, Releases
  <1>7. /\ notifications \subseteq notifications' /\ notifications' \subseteq Request \X Nat
        /\ http' \in [Request -> {"none", "arrived", "evaluating"} \cup Answer]
    BY <1>2, <1>6 DEF ServiceInv, TypeOK
  <1> QED  BY <1>4, <1>5, <1>6, <1>7, AdvanceKeeps

(* stop() takes its snapshot, or has waited for it. *)
LEMMA StoppingKeeps == ServiceInv /\ Stopping => ServiceInv' /\ StaysAborted
  <1> SUFFICES ASSUME ServiceInv, Stopping PROVE ServiceInv' /\ StaysAborted  OBVIOUS
  <1>1. UNCHANGED <<evals, late, processVars, clients, http, adding, notifications>>
    BY DEF Stopping, WorkerStopped, StopResolves
  <1> USE DEF processVars
  <1>2. TypeOK'
    BY <1>1 DEF ServiceInv, TypeOK, EvaluationTypeOK, ActionOf, Stopping, WorkerStopped, StopResolves
  <1>3. EvalsOK'  BY <1>1 DEF ServiceInv, EvalsOK
  <1>4. StopOK'
    <2>1. CASE WorkerStopped
      <3>1. \A e \in Evaluation : InFlight(e)' = InFlight(e)
        BY <1>1 DEF InFlight, Settled
      <3>2. stop' = "draining" /\ \A e \in Evaluation : InFlight(e) => e \in waited'
        BY <2>1 DEF WorkerStopped
      <3>3. pool = "open"  BY <2>1 DEF ServiceInv, StopOK, WorkerStopped
      <3> QED  BY <1>1, <3>1, <3>2, <3>3 DEF StopOK
    <2>2. CASE StopResolves
      <3>1. /\ stop = "draining" /\ stop' = "resolved" /\ waited' = waited
            /\ \A e \in waited : Settled(e)
        BY <2>2 DEF StopResolves
      <3>2. \A e \in waited : Settled(e)'  BY <1>1, <3>1 DEF Settled
      <3>3. \A e \in Evaluation : InFlight(e)' = InFlight(e)
        BY <1>1 DEF InFlight, Settled
      <3> QED  BY <1>1, <3>1, <3>2, <3>3 DEF ServiceInv, StopOK
    <2> QED  BY <2>1, <2>2 DEF Stopping
  <1>5. AnswersOK'  BY <1>1 DEF ServiceInv, AnswersOK
  <1>6. StoredOK'  BY <1>1 DEF ServiceInv, StoredOK
  <1>7. StaysAborted  BY <1>1, Unmoved DEF ServiceInv, EvalsOK, StaysAborted
  <1> QED  BY <1>2, <1>3, <1>4, <1>5, <1>6, <1>7 DEF ServiceInv

(* stop() aborts what is in flight and leaves the rest alone. *)
LEMMA OnCloseKeeps == ServiceInv /\ OnClose => ServiceInv' /\ StaysAborted
  <1> SUFFICES ASSUME ServiceInv, OnClose PROVE ServiceInv' /\ StaysAborted  OBVIOUS
  <1> USE DEF processVars
  <1>0. Evaluation = Request  BY ServiceAssumption
  <1>1. /\ stop = "no" /\ stop' = "worker"
        /\ UNCHANGED <<waited, late, processVars, clients, http, adding, notifications>>
        /\ evals' = [e \in Evaluation |-> IF InFlight(e) THEN Aborted(evals[e]) ELSE evals[e]]
    BY DEF OnClose, StopCalled
  <1>2. ASSUME NEW e \in Evaluation
        PROVE  /\ EvalOK(evals'[e]) /\ ~(evals[e].aborted /\ Begins(evals[e], evals'[e]))
               /\ evals[e].outcome # "none" => evals'[e].outcome = evals[e].outcome
               /\ DOMAIN evals'[e].pending = DOMAIN evals[e].pending
               /\ evals'[e].pending = evals[e].pending
    <2>1. EvalOK(evals[e])  BY DEF ServiceInv, EvalsOK
    <2>2. CASE InFlight(e)
      <3>1. evals'[e] = Aborted(evals[e])  BY <1>1, <2>2
      <3>2. evals'[e].pending = evals[e].pending  BY <3>1, <2>1 DEF Aborted, Race, EvalOK, Eval
      <3> QED  BY <2>1, <2>2, <3>1, <3>2, AbortKeeps DEF InFlight, Settled, Moves
    <2>3. CASE ~InFlight(e)
      <3>1. evals'[e] = evals[e]  BY <1>1, <2>3
      <3> QED  BY <2>1, <3>1, Unmoved
    <2> QED  BY <2>2, <2>3
  <1>3. EvalsOK'  BY <1>2 DEF EvalsOK
  <1>4. TypeOK'
    <2>1. evals' \in [Evaluation -> Eval]
      <3>1. \A e \in Evaluation : evals'[e] \in Eval  BY <1>2 DEF EvalOK
      <3>2. evals' = [e \in Evaluation |-> evals'[e]]  BY <1>1
      <3> QED  BY <3>1, <3>2
    <2>2. EvaluationTypeOK'
      BY <1>1, <1>2, <2>1 DEF ServiceInv, TypeOK, EvaluationTypeOK, EvalOK
    <2>3. ActionOf' = ActionOf  BY <1>0, <1>2 DEF ActionOf
    <2> QED  BY <1>1, <2>2, <2>3 DEF ServiceInv, TypeOK
  <1>5. StopOK'  BY <1>1 DEF ServiceInv, StopOK
  <1>6. AnswersOK'  BY <1>0, <1>1, <1>2 DEF ServiceInv, AnswersOK
  <1>7. StoredOK'  BY <1>0, <1>1, <1>2 DEF ServiceInv, StoredOK
  <1>8. StaysAborted  BY <1>2 DEF StaysAborted
  <1> QED  BY <1>3, <1>4, <1>5, <1>6, <1>7, <1>8 DEF ServiceInv

(* The process dies: what was answered with 202 keeps its record, and with  *)
(* the table its rows.                                                      *)
LEMMA CrashKeeps == ServiceInv /\ Crash => ServiceInv' /\ StaysAborted
  <1> SUFFICES ASSUME ServiceInv, Crash PROVE ServiceInv' /\ StaysAborted  OBVIOUS
  <1>0. Evaluation = Request /\ MaxCrashes \in Nat  BY ServiceAssumption
  <1>1. /\ crashes < MaxCrashes /\ crashes' = crashes + 1 /\ store' = store
        /\ phase' = "booting" /\ pool' = "open" /\ stop' = "no" /\ waited' = {} /\ late' = {}
        /\ adding' = {} /\ clients' = {}
        /\ http' = [r \in Request |->
                      IF http[r] \in {"arrived", "evaluating"} THEN "lost" ELSE http[r]]
        /\ evals' = [r \in Request |->
                      IF http[r] \in {"none", "accepted"} THEN evals[r] ELSE Killed(evals[r])]
    BY DEF Crash
  <1>2. /\ notifications' \subseteq Request \X Nat
        /\ store = "postgres" => notifications \subseteq notifications'
    <2>1. CASE store = "memory"  BY <2>1 DEF Crash
    <2>2. CASE store # "memory"
      <3>1. PICK landed \in SUBSET adding : notifications' = notifications \cup landed
        BY <2>2 DEF Crash
      <3>2. adding \subseteq Request \X Nat  BY DEF ServiceInv, TypeOK, ActionOf
      <3> QED  BY <3>1, <3>2 DEF ServiceInv, TypeOK
    <2> QED  BY <2>1, <2>2
  <1>3. ASSUME NEW e \in Evaluation
        PROVE  EvalOK(evals'[e]) /\ ~Begins(evals[e], evals'[e])
    <2>1. EvalOK(evals[e])  BY DEF ServiceInv, EvalsOK
    <2>2. CASE http[e] \in {"none", "accepted"}
      <3>1. evals'[e] = evals[e]  BY <1>0, <1>1, <2>2
      <3> QED  BY <2>1, <3>1, Unmoved
    <2>3. CASE http[e] \notin {"none", "accepted"}
      <3> DEFINE list == evals[e].rules
                 ev == evals'[e]
      <3>1. ev = Killed(evals[e])  BY <1>0, <1>1, <2>3
      <3>2. list \in Dispatches /\ Len(list) \in Nat /\ evals[e].rule \in Nat
        BY <2>1, EvaluationAssumption DEF EvalOK, Eval
      <3> HIDE DEF list
      <3>3. ev = [pc |-> "over", rules |-> list, rule |-> 0, att |-> 0, fired |-> FALSE,
                  pending |-> << >>, aborted |-> TRUE, outcome |-> "failed"]
        BY <3>1 DEF Killed, IdleEval, list
      <3> HIDE DEF ev
      <3>4. ev \in Eval  BY <3>2, <3>3 DEF Eval, Phase
      <3>5. Unsettled(ev) = {}  BY <3>3 DEF Unsettled
      <3>6. EvalOK(ev)
        <4>1. /\ ev.pc = "over" /\ ev.rules = list /\ ev.rule = 0 /\ ev.aborted
              /\ ev.outcome = "failed"
          BY <3>3
        <4> QED  BY <3>2, <3>4, <3>5, <4>1 DEF EvalOK
      <3>7. ~Begins(evals[e], ev)  BY <3>2, <3>3 DEF Begins
      <3> QED  BY <3>6, <3>7 DEF ev
    <2> QED  BY <2>2, <2>3
  <1>4. EvalsOK'  BY <1>3 DEF EvalsOK
  <1>5. TypeOK'
    <2>1. evals' \in [Evaluation -> Eval]
      <3>1. \A e \in Evaluation : evals'[e] \in Eval  BY <1>3 DEF EvalOK
      <3>2. evals' = [e \in Evaluation |-> evals'[e]]  BY <1>0, <1>1
      <3> QED  BY <3>1, <3>2
    <2>2. EvaluationTypeOK'
      BY <1>1, <1>3, <2>1 DEF EvaluationTypeOK, EvalOK
    <2>3. http' \in [Request -> {"none", "arrived", "evaluating"} \cup Answer]
      BY <1>1 DEF ServiceInv, TypeOK, Answer
    <2>4. crashes' \in 0..MaxCrashes  BY <1>0, <1>1 DEF ServiceInv, TypeOK
    <2> QED  BY <1>1, <1>2, <2>2, <2>3, <2>4 DEF ServiceInv, TypeOK
  <1>6. StopOK'  BY <1>1 DEF StopOK
  <1>7. AnswersOK'
    <2>1. ASSUME NEW r \in Request, http'[r] = "accepted" PROVE evals'[r].outcome = "ok"
      <3>1. http[r] = "accepted"  BY <1>1, <2>1
      <3>2. evals'[r] = evals[r]  BY <1>1, <3>1
      <3> QED  BY <3>1, <3>2 DEF ServiceInv, AnswersOK
    <2> QED  BY <2>1 DEF AnswersOK
  <1>8. StoredOK'
    <2> SUFFICES ASSUME NEW r \in Request, NEW i \in DOMAIN evals'[r].pending,
                        evals'[r].pending[i].state = "ok", store' = "postgres" \/ crashes' = 0
                 PROVE  <<r, i>> \in notifications'
      BY DEF StoredOK
    <2>1. store = "postgres"  BY <1>1 DEF ServiceInv, TypeOK
    <2>2. CASE http[r] \in {"none", "accepted"}
      <3>1. evals'[r] = evals[r]  BY <1>1, <2>2
      <3> QED  BY <1>2, <2>1, <3>1 DEF ServiceInv, StoredOK
    <2>3. CASE http[r] \notin {"none", "accepted"}
      <3>1. evals'[r] = Killed(evals[r])  BY <1>1, <2>3
      <3>2. evals'[r].pending = << >>  BY <3>1 DEF Killed, IdleEval
      <3> QED  BY <3>2
    <2> QED  BY <2>2, <2>3
  <1>9. StaysAborted  BY <1>3 DEF StaysAborted
  <1> QED  BY <1>4, <1>5, <1>6, <1>7, <1>8, <1>9 DEF ServiceInv

LEMMA StutterKeeps == ServiceInv /\ UNCHANGED vars => ServiceInv' /\ StaysAborted
  <1> SUFFICES ASSUME ServiceInv, UNCHANGED vars PROVE ServiceInv' /\ StaysAborted  OBVIOUS
  <1> QED  BY QuietKeeps DEF vars, ServiceInv, TypeOK, StopOK, AnswersOK

LEMMA StepKeeps == ServiceInv /\ [Next]_vars => ServiceInv' /\ StaysAborted
  <1> SUFFICES ASSUME ServiceInv, [Next]_vars PROVE ServiceInv' /\ StaysAborted  OBVIOUS
  <1>1. CASE Boot \/ Shutdown \/ CloseStorage \/ StorageClosed \/ Closed
    BY <1>1, BootKeeps, ShutdownKeeps, CloseStorageKeeps, StorageClosedKeeps, ClosedKeeps
  <1>2. CASE OnClose \/ Stopping \/ Crash
    BY <1>2, OnCloseKeeps, StoppingKeeps, CrashKeeps
  <1>3. CASE Done \/ UNCHANGED vars  BY <1>3, StutterKeeps DEF Done
  <1>4. ASSUME NEW d \in Delivery, NEW n \in 1..MaxTries, Send(d, n)
        PROVE  ServiceInv' /\ StaysAborted
    BY <1>4, SendKeeps
  <1>5. ASSUME NEW r \in Request, Respond(r) \/ Steps(r) PROVE ServiceInv' /\ StaysAborted
    BY <1>5, RespondKeeps, StepsKeep
  <1>6. ASSUME NEW r \in Request, NEW verdict \in Verdicts, Handle(r, verdict)
        PROVE  ServiceInv' /\ StaysAborted
    BY <1>6, HandleKeeps
  <1>7. ASSUME NEW r \in Request, NEW i \in DOMAIN evals[r].pending,
               Add(r, i) \/ Added(r, i) \/ ActionFails(r, i)
        PROVE  ServiceInv' /\ StaysAborted
    BY <1>7, AddKeeps, AddedKeeps, ActionFailsKeeps
  <1> QED  BY <1>1, <1>2, <1>3, <1>4, <1>5, <1>6, <1>7 DEF Next

LEMMA ServiceInvariant == Spec => []ServiceInv
  <1>1. ServiceInv /\ [Next]_vars => ServiceInv'  BY StepKeeps
  <1> QED  BY StartsOK, <1>1, PTL DEF Spec

-----------------------------------------------------------------------------
(* The theorems. *)

(* Every state has its type: in particular no runner is past its dispatch   *)
(* list or past the attached actions of its rule.                           *)
THEOREM ServiceTypes == Spec => []TypeOK
  <1>1. ServiceInv => TypeOK  BY DEF ServiceInv
  <1> QED  BY ServiceInvariant, <1>1, PTL

(* evaluate() settles, unless it was aborted, only when nothing of its work *)
(* is still going on.                                                       *)
THEOREM ResultsAreComplete == Spec => []NothingLeftBehind
  <1>1. ServiceInv => NothingLeftBehind
    BY DEF ServiceInv, EvalsOK, EvalOK, NothingLeftBehind, AtWork, Settled
  <1> QED  BY ServiceInvariant, <1>1, PTL

(* A stop() that has resolved leaves no evaluation in flight but those that *)
(* began after it took its snapshot.                                        *)
THEOREM StopIsComplete == Spec => []StopWaits
  <1>1. ServiceInv => StopWaits
    <2> SUFFICES ASSUME ServiceInv, stop = "resolved", NEW e \in Evaluation \ late
                 PROVE  ~InFlight(e)
      BY DEF StopWaits
    <2> QED  BY DEF ServiceInv, StopOK, InFlight
  <1> QED  BY ServiceInvariant, <1>1, PTL

(* A 202 means that the delivery went through all its rules and that the    *)
(* store has the notifications of all their actions, for ever when they are *)
(* in the table.                                                            *)
THEOREM AnswersAreTrue == Spec => []AcceptedMeansNotified
  <1>1. ServiceInv => AcceptedMeansNotified
    <2> SUFFICES ASSUME ServiceInv, NEW r \in Request, http[r] = "accepted",
                        store = "postgres" \/ crashes = 0
                 PROVE  /\ evals[r].rule = Len(evals[r].rules)
                        /\ \A i \in DOMAIN evals[r].pending : <<r, i>> \in notifications
      BY DEF AcceptedMeansNotified
    <2>1. evals[r].outcome = "ok"  BY DEF ServiceInv, AnswersOK
    <2>2. EvalOK(evals[r])  BY ServiceAssumption DEF ServiceInv, EvalsOK
    <2> QED  BY <2>1, <2>2 DEF EvalOK, ServiceInv, StoredOK
  <1> QED  BY ServiceInvariant, <1>1, PTL

(* A shutdown closes the pool only when all that is still at work was aborted *)
(* or came too late to be waited for.                                       *)
THEOREM ShutdownIsClean == Spec => []CleanShutdown
  <1>1. ServiceInv => CleanShutdown
    <2> SUFFICES ASSUME ServiceInv, pool # "open", NEW r \in Request, AtWork(r),
                        ~evals[r].aborted
                 PROVE  r \in late
      BY DEF CleanShutdown
    <2>1. r \in Evaluation /\ EvalOK(evals[r])  BY ServiceAssumption DEF ServiceInv, EvalsOK
    <2>2. evals[r].pc \notin {"none", "over"}
      <3>1. evals[r].pc = "none" => Unsettled(evals[r]) = {}  BY <2>1 DEF EvalOK, Unsettled
      <3> QED  BY <2>1, <3>1 DEF AtWork, EvalOK
    <2>3. ~Settled(r)  BY <2>1, <2>2 DEF EvalOK, Settled
    <2> QED  BY <2>1, <2>2, <2>3 DEF ServiceInv, StopOK, InFlight
  <1> QED  BY ServiceInvariant, <1>1, PTL

(* Once its signal is aborted an evaluation goes on to no further rule,     *)
(* calls no store for a further attached action and starts no actions.      *)
THEOREM AbortEndsTheRun == Spec => NothingBeginsAfterAbort
  <1>1. ServiceInv /\ [Next]_vars =>
          [\A e \in Evaluation : evals[e].aborted => ~Begins(evals[e], evals'[e])]_evals
    BY StepKeeps DEF StaysAborted
  <1> QED  BY ServiceInvariant, <1>1, PTL DEF Spec, NothingBeginsAfterAbort
=============================================================================

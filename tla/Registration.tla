---------------------------- MODULE Registration ----------------------------
(***************************************************************************)
(* register(batch) of the engine: a batch of predicates, actions and rules  *)
(* is validated as a whole and replaces the registry, or is refused and     *)
(* changes nothing (engine/src/engine/registration.ts, builders/*.ts); and  *)
(* the evaluation of one event against the registry it began with, rule by  *)
(* rule, with registrations in between (evaluation-runner.ts).  What an     *)
(* evaluation waits for and how it ends is in Evaluation.                   *)
(***************************************************************************)
EXTENDS WhenTree, SequenceSelection

CONSTANTS Scenes,            \* the batches that may be registered and the events to evaluate
          MaxRegistrations   \* bound: calls of register()

(* Lists are sequences, trees are made of the five kinds of nodes, and no   *)
(* callback is named "true".                                                *)
IsSeq(s) == s \in Seq(Range(s))

TreeTyped(tree) ==
  \A node \in Nodes(tree) :
    /\ node.kind \in {"fn", "use"} \cup Combinators
    /\ node.kind \in {"all", "any"} => IsSeq(node.children)

BatchTyped(batch) ==
  /\ IsSeq(batch.predicates) /\ IsSeq(batch.actions) /\ IsSeq(batch.rules)
  /\ \A i \in DOMAIN batch.predicates : batch.predicates[i].kind = "predicate"
  /\ \A i \in DOMAIN batch.actions :
       batch.actions[i].kind \in {"action", "aggregatedAction", "scheduledAction"}
  /\ \A i \in DOMAIN batch.rules :
       LET rule == batch.rules[i]
       IN  /\ IsSeq(rule.actions) /\ rule.strategy \in {"plain", "aggregate", "schedule"}
           /\ rule.when # None => TreeTyped(rule.when)

ASSUME RegistrationAssumption ==
  /\ MaxRegistrations \in Nat \ {0}
  /\ \A s \in Scenes :
       /\ \A batch \in s.batches : BatchTyped(batch)
       /\ \A event \in s.events : "true" \notin DOMAIN event.gives

-----------------------------------------------------------------------------
(* Builders.  A factory throws while a part of its entity is missing.       *)

RuleBuilt(rule) == rule.event # "missing" /\ rule.when # None /\ rule.actions # << >>
EntityBuilt(entity) == entity.schema # None /\ entity.implemented
AggregatedBuilt(action) == action.kind = "aggregatedAction" => action.event # "missing" /\ action.transforms

BatchBuilt(batch) ==
  /\ \A i \in DOMAIN batch.predicates : EntityBuilt(batch.predicates[i])
  /\ \A i \in DOMAIN batch.actions : EntityBuilt(batch.actions[i]) /\ AggregatedBuilt(batch.actions[i])
  /\ \A i \in DOMAIN batch.rules : RuleBuilt(batch.rules[i])

-----------------------------------------------------------------------------
(* The issues buildRegistry collects, as pairs of a code and an entity.     *)

Names(entities) == { entities[i].name : i \in DOMAIN entities }
First(entities, name) == entities[Min({ i \in DOMAIN entities : entities[i].name = name })]
ByName(entities) == [name \in Names(entities) |-> First(entities, name)]

(* Names are unique among predicates, among rules, and among the actions of *)
(* all three kinds.                                                         *)
DuplicateNames(entities) ==
  { <<"duplicate-name", entities[j].name>> :
      j \in { k \in DOMAIN entities : \E i \in 1..(k - 1) : entities[i].name = entities[k].name } }

(* checkUse: only what lies within the depth is looked at. *)
UseIssues(tree, predicates) ==
  { "unknown-predicate" : use \in { u \in Uses(tree) : u.name \notin DOMAIN predicates } }
  \cup IF WithinDepth(tree) THEN {} ELSE {"when-depth-exceeded"}

(* Variant: any rule may have scheduled actions. *)
KindsOfAggregates(rule, action) ==
  IF action.kind = "aggregatedAction" /\ rule.strategy # "aggregate" THEN {"kind-mismatch"} ELSE {}

(* An action of a special kind needs the strategy that feeds it ...         *)
KindIssues(rule, action) ==
  IF \/ action.kind = "aggregatedAction" /\ rule.strategy # "aggregate"
     \/ action.kind = "scheduledAction" /\ rule.strategy # "schedule"
  THEN {"kind-mismatch"} ELSE {}

(* ... an aggregated action transforms the event of its rule ...            *)
OnIssues(rule, action) ==
  IF action.kind = "aggregatedAction" /\ action.event # rule.event THEN {"on-mismatch"} ELSE {}

(* ... and the strategy needs such an action.                               *)
StrategyIssues(rule, actions) ==
  LET attached(kind) == \E i \in DOMAIN rule.actions :
                          /\ rule.actions[i].name \in DOMAIN actions
                          /\ actions[rule.actions[i].name].kind = kind
  IN  (IF rule.strategy = "aggregate" /\ ~attached("aggregatedAction")
       THEN {"missing-aggregated-action"} ELSE {})
      \cup (IF rule.strategy = "schedule" /\ ~attached("scheduledAction")
            THEN {"missing-scheduled-action"} ELSE {})

RuleIssues(rule, predicates, actions) ==
  UseIssues(rule.when, predicates)
  \cup (UNION { LET name == rule.actions[i].name
               IN  IF name \notin DOMAIN actions THEN {"unknown-action"}
                   ELSE KindIssues(rule, actions[name]) \cup OnIssues(rule, actions[name]) :
               i \in DOMAIN rule.actions })
  \cup StrategyIssues(rule, actions)

Partial(schema) == [k \in DOMAIN schema |-> schema[k] \cup {"undefined"}]

(* What is pinned must suit the schema as far as it goes: the rest comes    *)
(* from the use site.                                                       *)
PinIssues(entity) ==
  IF Accepts(Partial(entity.schema), entity.pinned) THEN {} ELSE {"invalid-args"}

(* Variant: the arguments of a rule are checked like those of an action. *)
RuleArgsSoFar(rule) == IF Accepts(Partial(rule.schema), rule.pinned) THEN {} ELSE {"invalid-args"}

(* The arguments of a rule come from nowhere else. *)
RuleArgIssues(rule) == IF Accepts(rule.schema, rule.pinned) THEN {} ELSE {"invalid-args"}

Issues(batch) ==
  LET predicates == ByName(batch.predicates)
      actions    == ByName(batch.actions)
      about(codes, name) == { <<code, name>> : code \in codes }
  IN  DuplicateNames(batch.predicates) \cup DuplicateNames(batch.actions) \cup DuplicateNames(batch.rules)
      \cup (UNION { LET rule == First(batch.rules, name)
                   IN  about(RuleIssues(rule, predicates, actions) \cup RuleArgIssues(rule), name) :
                   name \in Names(batch.rules) })
      \cup (UNION { about(PinIssues(predicates[name]), name) : name \in DOMAIN predicates })
      \cup (UNION { about(PinIssues(actions[name]), name) : name \in DOMAIN actions })

-----------------------------------------------------------------------------
(* What an event of an accepted batch meets. *)

(* parseDuration: a number of milliseconds, or digits and a unit.           *)
Units == [number |-> 1, ms |-> 1, s |-> 1000, m |-> 60000, h |-> 3600000, d |-> 86400000]
IsDuration(duration) == duration.unit \in DOMAIN Units
ParseDuration(duration) == duration.n * Units[duration.unit]

(* dispatch: the rules of an event, in the order of the batch. *)
Dispatch(rules, event) == Select(rules, [i \in DOMAIN rules |-> rules[i].event = event])

BuildRegistry(batch) ==
  [predicates |-> ByName(batch.predicates), actions |-> ByName(batch.actions),
   dispatch |-> [event \in { batch.rules[i].event : i \in DOMAIN batch.rules } |->
                   Dispatch(batch.rules, event)],
   batch |-> batch]  \* history

(* The attached actions a strategy runs when it fires: those of a scheduled *)
(* rule when its check passes.                                              *)
Performs(rule, actions) ==
  LET kinds == CASE rule.strategy = "plain"     -> {"action"}
                 [] rule.strategy = "aggregate" -> {"action", "aggregatedAction"}
                 [] rule.strategy = "schedule"  -> {"action", "scheduledAction"}
  IN  Select(rule.actions, [i \in DOMAIN rule.actions |->
                              /\ rule.actions[i].name \in DOMAIN actions
                              /\ actions[rule.actions[i].name].kind \in kinds])

(* The strategy parses its durations when it runs: registration has not     *)
(* looked at them.                                                          *)
StrategyThrows(rule) == \E duration \in rule.durations : ~IsDuration(duration)

(* mergeActionArgs throws what the schema does not accept. *)
ActionArgs(action, at, event) == Merged(action.pinned, Resolve(at.args, event))
ActionArgsGood(action, at, event) ==
  Resolves(at.args, event) /\ Accepts(action.schema, ActionArgs(action, at, event))

-----------------------------------------------------------------------------
VARIABLES
  scene,          \* the one of Scenes this is; never changes
  registry,       \* this.registry; None before the first register()
  registrations,  \* how often register() was called
  evaluation      \* the evaluation under way

vars == <<scene, registry, registrations, evaluation>>

Idle == [pc |-> "none", registry |-> None, event |-> None, rule |-> 0, walk |-> Start,
         held |-> << >>, acts |-> << >>]

Init == scene \in Scenes /\ registry = None /\ registrations = 0 /\ evaluation = Idle

(* The factories of the batch, then register(): both throw.                 *)
Register(batch) ==
  /\ registrations < MaxRegistrations
  /\ registrations' = registrations + 1
  /\ registry' = IF BatchBuilt(batch) /\ Issues(batch) = {} THEN BuildRegistry(batch) ELSE registry
  /\ UNCHANGED <<scene, evaluation>>

Evaluate(event) ==
  /\ evaluation.pc = "none"
  /\ evaluation' = IF registry = None
                   THEN [evaluation EXCEPT !.pc = "rejected", !.event = event]
                   ELSE [evaluation EXCEPT !.pc = "rules", !.registry = registry, !.event = event]
  /\ UNCHANGED <<scene, registry, registrations>>

Candidates(ev) ==
  IF ev.event.name \in DOMAIN ev.registry.dispatch THEN ev.registry.dispatch[ev.event.name] ELSE << >>

(* The next rule: its condition is evaluated node by node, with the memo of *)
(* the rules before it ...                                                  *)
EvaluateRule ==
  LET ev == evaluation
  IN  /\ ev.pc = "rules" /\ ev.rule < Len(Candidates(ev))
      /\ evaluation' = [ev EXCEPT !.pc = "when", !.rule = ev.rule + 1,
                                  !.walk = EvaluateWhen(Candidates(ev)[ev.rule + 1].when, ev.walk)]
      /\ UNCHANGED <<scene, registry, registrations>>

Walk ==
  LET ev == evaluation
      x  == [registry |-> ev.registry, event |-> ev.event]
  IN  /\ ev.pc = "when"
      /\ \/ /\ ~ev.walk.settled
            /\ evaluation' = [ev EXCEPT !.walk = EvaluateNode(x, ev.walk)]
         \/ /\ ev.walk.settled /\ ev.walk.path # << >>
            /\ evaluation' = [ev EXCEPT !.walk = ChildSettles(ev.walk)]
      /\ UNCHANGED <<scene, registry, registrations>>

(* ... and if it holds its strategy runs.                                   *)
WhenReturns ==
  LET ev   == evaluation
      rule == Candidates(ev)[ev.rule]
      acts == Performs(rule, ev.registry.actions)
  IN  /\ ev.pc = "when" /\ ev.walk.settled /\ ev.walk.path = << >>
      /\ evaluation' =
           IF ~ev.walk.value THEN [ev EXCEPT !.pc = "rules"]
           ELSE IF StrategyThrows(rule) THEN [ev EXCEPT !.pc = "failed"]
           ELSE [ev EXCEPT !.pc = "rules", !.held = Append(ev.held, rule.name),
                           !.acts = ev.acts \o [i \in DOMAIN acts |-> <<rule.name, acts[i].name>>]]
      /\ UNCHANGED <<scene, registry, registrations>>

EvaluationOver ==
  /\ evaluation.pc = "rules" /\ evaluation.rule = Len(Candidates(evaluation))
  /\ evaluation' = [evaluation EXCEPT !.pc = "over"]
  /\ UNCHANGED <<scene, registry, registrations>>

Next ==
  \/ \E batch \in scene.batches : Register(batch)
  \/ \E event \in scene.events : Evaluate(event)
  \/ EvaluateRule \/ Walk \/ WhenReturns \/ EvaluationOver

Spec == Init /\ [][Next]_vars

-----------------------------------------------------------------------------
(* Where a tree is not decided as it is meant: a childless all on the last  *)
(* level is cut off; a predicate that pins failOpen to anything but true is *)
(* remembered as open for all when one use site asks for it; and arguments  *)
(* that are Dates, or null in one place and undefined or NaN in the other,  *)
(* have one key.                                                            *)
Confused == {"monday", "tuesday", "null", "nan"}
Gives(args, values) == \E k \in DOMAIN args : args[k] \in values
Exceptional(batch, event) ==
  \/ \E i \in DOMAIN batch.rules :
       \/ \E node \in Levels(batch.rules[i].when)[MaxDepth] : node.kind = "all"
       \/ \E use \in Uses(batch.rules[i].when) : Gives(use.args, Confused)
  \/ \E i \in DOMAIN batch.predicates :
       \/ ArgOf(batch.predicates[i].pinned, "failOpen") \notin {"true", "undefined"}
       \/ Gives(batch.predicates[i].pinned, Confused)
  \/ Gives(event.gives, Confused)

(* Apart from these an evaluation decides what the trees mean, rule by rule *)
(* in the order of the batch it began with: the depth limit cuts no         *)
(* accepted tree, short circuits lose nothing, the memo the rules share     *)
(* never answers another question, and what is registered meanwhile changes *)
(* nothing.                                                                 *)
DecidesAsMeant ==
  LET ev    == evaluation
      x     == [registry |-> ev.registry, event |-> ev.event]
      rules == ev.registry.batch.rules
      meant == Select(rules, [i \in DOMAIN rules |->
                                rules[i].event = ev.event.name /\ Meaning(rules[i].when, x)])
  IN  ev.pc = "over" /\ ~Exceptional(ev.registry.batch, ev.event) =>
        ev.held = [i \in DOMAIN meant |-> meant[i].name]

(* One event costs at most one call of a predicate per set of arguments,    *)
(* however many rules ask and whatever came out.                            *)
EachQuestionOnce ==
  LET calls == evaluation.walk.calls
  IN  \A i, j \in DOMAIN calls :
        calls[i].name = calls[j].name /\ Canonical(calls[i].args) = Canonical(calls[j].args) => i = j

(* Registration and the strategies agree: nothing attached to a rule of the *)
(* registry is ignored by its strategy, every rule that fires has something *)
(* to do, and transform and the function of an aggregated action see only   *)
(* events of the kind they were written for.                                *)
NothingAttachedIsDropped ==
  registry # None =>
    \A event \in DOMAIN registry.dispatch : \A i \in DOMAIN registry.dispatch[event] :
      LET rule == registry.dispatch[event][i]
      IN  /\ rule.actions # << >> /\ Performs(rule, registry.actions) = rule.actions
          /\ \A j \in DOMAIN rule.actions :
               LET action == registry.actions[rule.actions[j].name]
               IN  action.kind = "aggregatedAction" => action.event = event

(* What an evaluation finds under the names a rule goes by: the one entity  *)
(* of the batch that has the name.                                          *)
Distinct(entities) == \A i, j \in DOMAIN entities : entities[i].name = entities[j].name => i = j
FoundAmong(entities, found, name) ==
  name \in DOMAIN found /\ \E i \in DOMAIN entities : entities[i].name = name /\ entities[i] = found[name]

Usable(entity) ==
  /\ entity.implemented /\ entity.schema # None
  /\ entity.kind = "aggregatedAction" => entity.transforms
  /\ \A k \in DOMAIN entity.schema \cap Defined(entity.pinned) : entity.pinned[k] \in entity.schema[k]

Runnable(rule, live) ==
  LET kinds == { live.actions[rule.actions[j].name].kind : j \in DOMAIN rule.actions }
  IN  /\ rule.event # "missing" /\ rule.when # None
      /\ \E j \in DOMAIN live.dispatch[rule.event] : live.dispatch[rule.event][j] = rule
      /\ WithinDepth(rule.when) /\ Accepts(rule.schema, rule.pinned)
      /\ \A use \in Uses(rule.when) : FoundAmong(live.batch.predicates, live.predicates, use.name)
      /\ \A j \in DOMAIN rule.actions :
           FoundAmong(live.batch.actions, live.actions, rule.actions[j].name)
      /\ rule.strategy = "plain" => kinds = {"action"}
      /\ rule.strategy = "aggregate" => "aggregatedAction" \in kinds /\ "scheduledAction" \notin kinds
      /\ rule.strategy = "schedule" => "scheduledAction" \in kinds /\ "aggregatedAction" \notin kinds

(* Whatever is registered in whatever order, a batch goes live as a whole   *)
(* and with nothing wrong in it, or the registry stays as it was: no name   *)
(* is ambiguous or unknown, no part is missing, all that is pinned suits    *)
(* its schema, the arguments of a rule are complete, and a strategy has the *)
(* actions it needs and no others.                                          *)
OnlySoundBatchesGoLive ==
  [][registry' # registry =>
       LET batch == registry'.batch
       IN  /\ batch \in scene.batches
           /\ Distinct(batch.predicates) /\ Distinct(batch.actions) /\ Distinct(batch.rules)
           /\ \A i \in DOMAIN batch.predicates : Usable(batch.predicates[i])
           /\ \A i \in DOMAIN batch.actions : Usable(batch.actions[i])
           /\ \A i \in DOMAIN batch.rules : Runnable(batch.rules[i], registry')]_registry
=============================================================================

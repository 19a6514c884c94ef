---------------------------- MODULE MCDefinitions ----------------------------
(***************************************************************************)
(* Instances of Registration and DemoRules for TLC.                         *)
(***************************************************************************)
EXTENDS DemoRules

X == {"a", "b", "z", "null", "undefined", "nan", "monday", "tuesday", "bigint"}

Event(name, callback, f, g, onA) ==
  [name |-> name, gives |-> [callback |-> callback], says |-> [f |-> f, g |-> g],
   judges |-> [p |-> [x \in X |-> IF x = "a" THEN onA ELSE Truth(x \in {"b", "tuesday", "nan"})],
               q |-> [x \in X |-> Truth(x = "a")]]]

SomeEvents ==
  { Event("e", callback, f, "true", onA) :
    callback \in {"a", "throws", "bigint"}, f, onA \in {"true", "false", "throws"} }

-----------------------------------------------------------------------------
Pred(name, pinned) ==
  [Entity(name, "predicate") EXCEPT !.schema = [x |-> {"a", "b", "undefined"}], !.pinned = pinned]
Act(name, kind) == [Entity(name, kind) EXCEPT !.schema = [x |-> {"a", "b"}]]
Agg(name, event, transforms) == Act(name, "aggregatedAction") @@ [event |-> event, transforms |-> transforms]
Attach(names) == [i \in DOMAIN names |-> [name |-> names[i], args |-> [x |-> "callback"]]]
On(event, name, when, strategy, actions) ==
  [name |-> name, event |-> event, when |-> when, strategy |-> strategy, actions |-> Attach(actions),
   schema |-> NoArgs, pinned |-> NoArgs,
   durations |-> IF strategy = "plain" THEN {} ELSE {[n |-> 5, unit |-> "s"]}]

Batch(predicates, actions, rules) == [predicates |-> predicates, actions |-> actions, rules |-> rules]
F == Fn("f")
G == Fn("g")
P(x) == UseRef("p", [x |-> x])
OpenP(x) == UseRef("p", [x |-> x, failOpen |-> "true"])
Q == UseRef("q", [x |-> "b"])

-----------------------------------------------------------------------------
(* Two rules of one event share the memo; nothing is wrong with them. *)
Leaves == {F, P("a"), P("b"), P("z"), P("callback"), OpenP("a"), OpenP("z"), OpenP("callback"), Q, UseRef("p", NoArgs)}
Trees ==
  Leaves
  \cup { NotOf(leaf) : leaf \in Leaves }
  \cup { AllOf(<<F, leaf>>) : leaf \in Leaves } \cup { AnyOf(<<leaf, P("a")>>) : leaf \in Leaves }
  \cup { AnyOf(<<AllOf(<<F, P("a")>>), NotOf(leaf)>>) : leaf \in Leaves }
  \cup { NotOf(NotOf(F)), NotOf(AllOf(<< >>)), AnyOf(<<NotOf(AnyOf(<< >>)), F>>), NotOf(NotOf(AllOf(<< >>))) }

Sharing(first, second) ==
  Batch(<<Pred("p", NoArgs), Pred("q", [x |-> "a"])>>, <<Act("act", "action")>>,
        <<On("e", "r1", first, "plain", <<"act">>), On("e", "r2", second, "plain", <<"act">>)>>)

Other == Batch(<< >>, <<Act("act", "action")>>, <<On("e", "r3", G, "plain", <<"act">>)>>)
Longer == Batch(<< >>, <<Act("act", "action")>>,
                [i \in 1..3 |-> On("e", <<"s1", "s2", "s3">>[i], F, "plain", <<"act">>)])

TreeScenes ==
  { [batches |-> {Sharing(first, second)}, events |-> SomeEvents] :
    first \in Trees, second \in {P("a"), OpenP("a"), AnyOf(<<P("callback"), P("b")>>)} }

-----------------------------------------------------------------------------
(* Batches with something wrong, beside good ones. *)
Good ==
  Batch(<<Pred("p", [x |-> "a"])>>,
        <<Act("act", "action"), Agg("agg", "e", TRUE), Act("sched", "scheduledAction")>>,
        <<On("e", "r1", F, "plain", <<"act", "act">>), On("e", "r2", G, "aggregate", <<"act", "agg">>),
          On("e", "r3", P("b"), "schedule", <<"sched", "act">>), On("other", "r4", F, "plain", <<"act">>)>>)

WithRule(rule) == [Good EXCEPT !.rules = Append(@, rule)]
WithActions(actions) == [Good EXCEPT !.actions = actions]
Twice(entities) == Append(entities, entities[1])

Questionable ==
  { WithRule(On("e", "r5", when, "plain", <<"act">>)) :
      when \in {NotOf(NotOf(NotOf(F))), NotOf(NotOf(F)), UseRef("r", NoArgs), None} }
  \cup { WithRule(On(event, "r5", F, strategy, actions)) :
           event \in {"e", "other", "missing"}, strategy \in {"plain", "aggregate", "schedule"},
           actions \in {<< >>, <<"act">>, <<"agg">>, <<"sched">>, <<"agg", "sched">>, <<"nobody">>} }
  \cup { [Good EXCEPT !.rules = Twice(@)], [Good EXCEPT !.actions = Twice(@)],
         [Good EXCEPT !.predicates = Twice(@)], [Good EXCEPT !.predicates[1].pinned = [x |-> "z"]],
         [Good EXCEPT !.actions[1].pinned = [x |-> "z"]], [Good EXCEPT !.actions[1].pinned = [x |-> "a"]],
         [Good EXCEPT !.actions[1].schema = None], [Good EXCEPT !.actions[2].transforms = FALSE],
         [Good EXCEPT !.actions[2].name = "act"], [Good EXCEPT !.predicates[1].implemented = FALSE],
         [Good EXCEPT !.rules[1].schema = [team |-> {"core"}]],
         [Good EXCEPT !.rules[2].durations = {[n |-> 1, unit |-> "hour"]}] }

FewEvents ==
  { Event(name, callback, "true", g, "true") :
    name \in {"e", "other"}, callback \in {"a", "z", "throws"}, g \in {"true", "false"} }

ReplacingScenes ==
  { [batches |-> {Good, Other, Longer, batch}, events |-> FewEvents] : batch \in Questionable }

(* Two rules ask a predicate about what two callbacks give: Dates, or a     *)
(* number that is not one and null.                                         *)
DateScene ==
  [batches |-> {[Sharing(P("created"), P("updated")) EXCEPT
                   !.predicates[1].schema = [x |-> {"monday", "tuesday", "nan", "null"}]]},
   events |-> { [Event("e", "a", f, "true", "true") EXCEPT !.gives = [created |-> given[1], updated |-> given[2]]] :
                f \in {"true", "false"}, given \in {<<"monday", "tuesday">>, <<"nan", "null">>} }]

DemoScene == [batches |-> {DemoBatch, Other}, events |-> DemoEvents]

AllScenes == TreeScenes \cup ReplacingScenes \cup {DateScene, DemoScene}
=============================================================================

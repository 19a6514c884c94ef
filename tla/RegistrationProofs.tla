------------------------- MODULE RegistrationProofs -------------------------
(***************************************************************************)
(* Registration, for any batches, events and depth limit: what an accepted  *)
(* registry is like, what the memo of an evaluation is good for, and that   *)
(* rules are decided as their trees mean.  Sequences a condition selects    *)
(* from are reasoned about with the lemmas of AggregationStoreProofs.       *)
(***************************************************************************)
EXTENDS Registration, AggregationStoreProofs

LEMMA SeqIsSeq ==
  ASSUME NEW S, NEW s \in Seq(S)
  PROVE  IsSeq(s)
  <1>1. DOMAIN s = 1..Len(s) /\ Len(s) \in Nat /\ s = [i \in 1..Len(s) |-> s[i]]  OBVIOUS
  <1>2. \A i \in 1..Len(s) : s[i] \in Range(s)  BY <1>1 DEF Range
  <1>3. s \in [1..Len(s) -> Range(s)]  BY <1>1, <1>2
  <1> QED  BY <1>1, <1>3 DEF IsSeq

LEMMA SeqFacts ==
  ASSUME NEW s, IsSeq(s)
  PROVE  /\ s \in Seq(Range(s)) /\ DOMAIN s = 1..Len(s) /\ Len(s) \in Nat
         /\ \A i \in DOMAIN s : s[i] \in Range(s)
         /\ \A e \in Range(s) : \E i \in DOMAIN s : s[i] = e
  <1>1. s \in Seq(Range(s))  BY DEF IsSeq
  <1> QED  BY <1>1 DEF Range

(* Selecting all of a sequence gives the sequence. *)
LEMMA SelectAll ==
  ASSUME NEW R, NEW rows \in Seq(R), NEW where, \A i \in 1..Len(rows) : where[i]
  PROVE  Select(rows, where) = rows
  <1> DEFINE N == Len(rows)
             upTo == Selection(rows, where)
             T == { n \in 0..N : upTo[n] # SubSeq(rows, 1, n) }
  <1>1. N \in Nat  OBVIOUS
  <1>2. /\ upTo[0] = << >>
        /\ \A n \in 1..N : upTo[n] = Append(upTo[n - 1], rows[n])
    <2>1. \A n \in 0..N :
            upTo[n] = IF n = 0 THEN << >>
                      ELSE IF where[n] THEN Append(upTo[n - 1], rows[n]) ELSE upTo[n - 1]
      BY SelectionDefined
    <2> HIDE DEF upTo
    <2>2. 0 \in 0..N /\ \A n \in 1..N : n \in 0..N /\ n # 0  BY <1>1
    <2> QED  BY <2>1, <2>2
  <1> HIDE DEF upTo
  <1>3. T = {}
    <2> SUFFICES ASSUME T # {} PROVE FALSE  OBVIOUS
    <2>1. T \subseteq Nat  BY <1>1
    <2>2. PICK n \in T : \A m \in T : n <= m
      <3> HIDE DEF T
      <3> QED  BY <2>1, NatMin
    <2>3. n \in 0..N /\ upTo[n] # SubSeq(rows, 1, n)  BY <2>2
    <2>4. n # 0
      <3>1. SubSeq(rows, 1, 0) = << >>  BY SubSeqEmpty
      <3> QED  BY <1>2, <2>3, <3>1
    <2>5. n \in 1..N /\ n - 1 \in 0..N  BY <1>1, <2>3, <2>4
    <2>6. n - 1 \notin T
      <3> HIDE DEF T
      <3> QED  BY <2>2, <2>5
    <2>7. upTo[n - 1] = SubSeq(rows, 1, n - 1)  BY <2>5, <2>6
    <2>8. SubSeq(rows, 1, n) = SubSeq(rows, 1, n - 1) \o <<rows[n]>>
      BY <1>1, <2>5, SubSeqRecursiveSecond
    <2>9. SubSeq(rows, 1, n - 1) \in Seq(R) /\ rows[n] \in R
      BY <1>1, <2>5, SubSeqProperties
    <2>10. SubSeq(rows, 1, n) = Append(SubSeq(rows, 1, n - 1), rows[n])
      BY <2>8, <2>9, AppendIsConcat
    <2> QED  BY <1>2, <2>3, <2>5, <2>7, <2>10
  <1>4. upTo[N] = SubSeq(rows, 1, N)
    <2>1. N \notin T
      <3> HIDE DEF T
      <3> QED  BY <1>3
    <2> QED  BY <1>1, <2>1
  <1>5. SubSeq(rows, 1, N) = rows  BY SubSeqFull
  <1> QED  BY <1>4, <1>5 DEF Select, upTo

(* What is selected is what the condition holds for. *)
LEMMA SelectHolds ==
  ASSUME NEW R, NEW rows \in Seq(R), NEW where
  PROVE  /\ IsSeq(Select(rows, where))
         /\ \A i \in DOMAIN Select(rows, where) :
              \E k \in DOMAIN rows : where[k] /\ Select(rows, where)[i] = rows[k]
  <1> DEFINE result == Select(rows, where)
             chosen == { k \in 1..Len(rows) : where[k] }
  <1>1. result \in Seq(R) /\ Picks(result, rows, chosen)  BY SelectPicks
  <1>2. IsSeq(result)  BY <1>1, SeqIsSeq
  <1>3. DOMAIN result = 1..Len(result) /\ DOMAIN rows = 1..Len(rows)  BY <1>1
  <1> HIDE DEF result, chosen
  <1>4. PICK place \in [1..Len(result) -> chosen] :
          \A i \in 1..Len(result) : result[i] = rows[place[i]]
    BY <1>1 DEF Picks
  <1>5. \A i \in 1..Len(result) : place[i] \in DOMAIN rows /\ where[place[i]]
    BY <1>3, <1>4 DEF chosen
  <1>6. \A i \in DOMAIN result : \E k \in DOMAIN rows : where[k] /\ result[i] = rows[k]
    BY <1>3, <1>4, <1>5
  <1> QED  BY <1>2, <1>6 DEF result

-----------------------------------------------------------------------------
(* Accepted batches. *)

Accepted(batch) == BatchTyped(batch) /\ BatchBuilt(batch) /\ Issues(batch) = {}

LEMMA FirstIsOne ==
  ASSUME NEW entities, IsSeq(entities), NEW name \in Names(entities)
  PROVE  \E i \in DOMAIN entities :
           entities[i].name = name /\ First(entities, name) = entities[i]
  <1> DEFINE S == { i \in DOMAIN entities : entities[i].name = name }
  <1>1. S # {} /\ S \subseteq Nat  BY SeqFacts DEF Names
  <1>2. \E n \in S : \A m \in S : n <= m
    <2> HIDE DEF S
    <2> QED  BY <1>1, NatMin
  <1>3. Min(S) \in S
    <2> HIDE DEF S
    <2> QED  BY <1>2 DEF Min
  <1> QED  BY <1>3 DEF First

LEMMA FirstIsOnly ==
  ASSUME NEW entities, IsSeq(entities), DuplicateNames(entities) = {},
         NEW i \in DOMAIN entities
  PROVE  /\ First(entities, entities[i].name) = entities[i]
         /\ \A j \in DOMAIN entities : entities[j].name = entities[i].name => j = i
  <1>1. \A k, l \in DOMAIN entities : k < l => entities[k].name # entities[l].name
    <2> SUFFICES ASSUME NEW k \in DOMAIN entities, NEW l \in DOMAIN entities, k < l,
                        entities[k].name = entities[l].name
                 PROVE  FALSE
      OBVIOUS
    <2>1. k \in 1..(l - 1)  BY SeqFacts
    <2>2. <<"duplicate-name", entities[l].name>> \in DuplicateNames(entities)
      BY <2>1 DEF DuplicateNames
    <2> QED  BY <2>2
  <1>2. \A j \in DOMAIN entities : entities[j].name = entities[i].name => j = i
    BY <1>1, SeqFacts
  <1>3. entities[i].name \in Names(entities)  BY DEF Names
  <1> QED  BY <1>2, <1>3, FirstIsOne

(* What an accepted batch may be relied on for: the rules are found under   *)
(* their names, their conditions are within the depth and use known         *)
(* predicates, and their actions are known and suit their strategies.       *)
LEMMA AcceptedNames ==
  ASSUME NEW batch, Accepted(batch)
  PROVE  /\ DuplicateNames(batch.rules) = {}
         /\ DuplicateNames(batch.actions) = {}
         /\ DuplicateNames(batch.predicates) = {}
         /\ \A i \in DOMAIN batch.rules :
              RuleIssues(batch.rules[i], ByName(batch.predicates), ByName(batch.actions)) = {}
  <1> DEFINE predicates == ByName(batch.predicates)
             actions    == ByName(batch.actions)
             codes(name) == RuleIssues(First(batch.rules, name), predicates, actions)
                            \cup RuleArgIssues(First(batch.rules, name))
  <1>1. /\ DuplicateNames(batch.rules) = {} /\ DuplicateNames(batch.actions) = {}
        /\ DuplicateNames(batch.predicates) = {}
        /\ UNION { { <<code, name>> : code \in codes(name) } : name \in Names(batch.rules) } = {}
    BY DEF Accepted, Issues
  <1>2. ASSUME NEW i \in DOMAIN batch.rules PROVE RuleIssues(batch.rules[i], predicates, actions) = {}
    <2> DEFINE name == batch.rules[i].name
    <2>1. name \in Names(batch.rules)  BY DEF Names
    <2>2. First(batch.rules, name) = batch.rules[i]
      BY <1>1, FirstIsOnly DEF Accepted, BatchTyped
    <2> HIDE DEF codes, name
    <2>3. codes(name) = {}
      <3> SUFFICES ASSUME NEW code \in codes(name) PROVE FALSE  OBVIOUS
      <3>1. <<code, name>> \in
              UNION { { <<c, n>> : c \in codes(n) } : n \in Names(batch.rules) }
        BY <2>1
      <3> QED  BY <1>1, <3>1
    <2> QED  BY <2>2, <2>3 DEF codes, name
  <1> QED  BY <1>1, <1>2

LEMMA AcceptedRules ==
  ASSUME NEW batch, Accepted(batch), NEW i \in DOMAIN batch.rules
  PROVE  LET rule    == batch.rules[i]
             actions == ByName(batch.actions)
         IN  /\ rule.when # None /\ TreeTyped(rule.when) /\ WithinDepth(rule.when)
             /\ \A use \in Uses(rule.when) : use.name \in DOMAIN ByName(batch.predicates)
             /\ rule.actions # << >> /\ IsSeq(rule.actions)
             /\ \A j \in DOMAIN rule.actions :
                  LET name == rule.actions[j].name
                  IN  /\ name \in DOMAIN actions
                      /\ actions[name].kind \in {"action", "aggregatedAction", "scheduledAction"}
                      /\ KindIssues(rule, actions[name]) = {}
                      /\ OnIssues(rule, actions[name]) = {}
  <1> DEFINE rule       == batch.rules[i]
             predicates == ByName(batch.predicates)
             actions    == ByName(batch.actions)
  <1>1. RuleIssues(rule, predicates, actions) = {}  BY AcceptedNames
  <1>2. RuleBuilt(rule)  BY DEF Accepted, BatchBuilt
  <1>3. BatchTyped(batch)  BY DEF Accepted
  <1>4. UseIssues(rule.when, predicates) = {}  BY <1>1 DEF RuleIssues
  <1>5. WithinDepth(rule.when)  BY <1>4 DEF UseIssues
  <1>6. \A use \in Uses(rule.when) : use.name \in DOMAIN predicates
    <2> SUFFICES ASSUME NEW use \in Uses(rule.when), use.name \notin DOMAIN predicates PROVE FALSE
      OBVIOUS
    <2>1. "unknown-predicate" \in UseIssues(rule.when, predicates)  BY DEF UseIssues
    <2> QED  BY <1>4, <2>1
  <1>7. ASSUME NEW j \in DOMAIN rule.actions
        PROVE  LET name == rule.actions[j].name
               IN  /\ name \in DOMAIN actions
                   /\ actions[name].kind \in {"action", "aggregatedAction", "scheduledAction"}
                   /\ KindIssues(rule, actions[name]) = {}
                   /\ OnIssues(rule, actions[name]) = {}
    <2> DEFINE about(k) == LET name == rule.actions[k].name
                           IN  IF name \notin DOMAIN actions THEN {"unknown-action"}
                               ELSE KindIssues(rule, actions[name]) \cup OnIssues(rule, actions[name])
               name == rule.actions[j].name
    <2>1. UNION { about(k) : k \in DOMAIN rule.actions } = {}  BY <1>1 DEF RuleIssues
    <2> HIDE DEF about
    <2>2. about(j) = {}  BY <2>1
    <2>3. name \in DOMAIN actions  BY <2>2 DEF about
    <2>4. KindIssues(rule, actions[name]) = {} /\ OnIssues(rule, actions[name]) = {}
      BY <2>2, <2>3 DEF about
    <2>5. name \in Names(batch.actions) /\ actions[name] = First(batch.actions, name)
      BY <2>3 DEF ByName
    <2>6. PICK k \in DOMAIN batch.actions : actions[name] = batch.actions[k]
      BY <1>3, <2>5, FirstIsOne DEF BatchTyped
    <2>7. actions[name].kind \in {"action", "aggregatedAction", "scheduledAction"}
      BY <1>3, <2>6 DEF BatchTyped
    <2> QED  BY <2>3, <2>4, <2>7
  <1> QED  BY <1>2, <1>3, <1>5, <1>6, <1>7 DEF RuleBuilt, BatchTyped

-----------------------------------------------------------------------------
(* The registry. *)

LEMMA DispatchHolds ==
  ASSUME NEW batch, Accepted(batch), NEW event
  PROVE  /\ IsSeq(Dispatch(batch.rules, event))
         /\ \A j \in DOMAIN Dispatch(batch.rules, event) :
              \E i \in DOMAIN batch.rules :
                batch.rules[i] = Dispatch(batch.rules, event)[j] /\ batch.rules[i].event = event
  <1> DEFINE where == [i \in DOMAIN batch.rules |-> batch.rules[i].event = event]
  <1>1. batch.rules \in Seq(Range(batch.rules))  BY DEF Accepted, BatchTyped, IsSeq
  <1>2. Dispatch(batch.rules, event) = Select(batch.rules, where)  BY DEF Dispatch
  <1>3. \A i \in DOMAIN batch.rules : where[i] => batch.rules[i].event = event  OBVIOUS
  <1> HIDE DEF where
  <1> QED  BY <1>1, <1>2, <1>3, SelectHolds

LEMMA RegistryFields ==
  ASSUME NEW batch
  PROVE  /\ BuildRegistry(batch).predicates = ByName(batch.predicates)
         /\ BuildRegistry(batch).actions = ByName(batch.actions)
         /\ BuildRegistry(batch).batch = batch
         /\ \A event \in DOMAIN BuildRegistry(batch).dispatch :
              BuildRegistry(batch).dispatch[event] = Dispatch(batch.rules, event)
         /\ \A event : event \in DOMAIN BuildRegistry(batch).dispatch <=>
                         \E i \in DOMAIN batch.rules : batch.rules[i].event = event
BY DEF BuildRegistry

(* What is registered was accepted as a whole. *)
RegistryOK ==
  /\ scene \in Scenes
  /\ registry = None \/ \E batch : Accepted(batch) /\ registry = BuildRegistry(batch)

LEMMA RegisterTakes ==
  ASSUME RegistryOK, NEW batch \in scene.batches, Register(batch)
  PROVE  /\ RegistryOK'
         /\ registry' # registry => Accepted(batch) /\ registry' = BuildRegistry(batch)
  <1>1. BatchTyped(batch)  BY RegistrationAssumption DEF RegistryOK
  <1>2. scene' = scene  BY DEF Register
  <1>3. CASE BatchBuilt(batch) /\ Issues(batch) = {}
    <2>1. registry' = BuildRegistry(batch)  BY <1>3 DEF Register
    <2>2. Accepted(batch)  BY <1>1, <1>3 DEF Accepted
    <2> QED  BY <1>2, <2>1, <2>2 DEF RegistryOK
  <1>4. CASE ~(BatchBuilt(batch) /\ Issues(batch) = {})
    <2>1. registry' = registry  BY <1>4 DEF Register
    <2> QED  BY <1>2, <2>1 DEF RegistryOK
  <1> QED  BY <1>3, <1>4

LEMMA OthersKeep ==
  ASSUME RegistryOK,
         \/ \E event \in scene.events : Evaluate(event)
         \/ EvaluateRule \/ Walk \/ WhenReturns \/ EvaluationOver \/ UNCHANGED vars
  PROVE  RegistryOK' /\ registry' = registry /\ scene' = scene
  <1>1. registry' = registry /\ scene' = scene
    BY DEF Evaluate, EvaluateRule, Walk, WhenReturns, EvaluationOver, vars
  <1> QED  BY <1>1 DEF RegistryOK

LEMMA RegistryInvariant == Spec => []RegistryOK
  <1>1. Init => RegistryOK  BY DEF Init, RegistryOK
  <1>2. RegistryOK /\ [Next]_vars => RegistryOK'  BY RegisterTakes, OthersKeep DEF Next
  <1> QED  BY <1>1, <1>2, PTL DEF Spec

LEMMA Suits ==
  ASSUME NEW rule, NEW action, KindIssues(rule, action) = {},
         rule.strategy \in {"plain", "aggregate", "schedule"},
         action.kind \in {"action", "aggregatedAction", "scheduledAction"}
  PROVE  action.kind \in CASE rule.strategy = "plain"     -> {"action"}
                           [] rule.strategy = "aggregate" -> {"action", "aggregatedAction"}
                           [] rule.strategy = "schedule"  -> {"action", "scheduledAction"}
  <1>1. ~ \/ action.kind = "aggregatedAction" /\ rule.strategy # "aggregate"
          \/ action.kind = "scheduledAction" /\ rule.strategy # "schedule"
    BY DEF KindIssues
  <1>2. CASE rule.strategy = "plain"  BY <1>1, <1>2
  <1>3. CASE rule.strategy = "aggregate"  BY <1>1, <1>3
  <1>4. CASE rule.strategy = "schedule"  BY <1>1, <1>4
  <1> QED  BY <1>2, <1>3, <1>4

(* Registration and the strategies agree on what a rule can have attached:  *)
(* whatever batches were registered, no attachment of the registry is       *)
(* passed over and every rule that fires has something to do.               *)
THEOREM AttachmentsTakeEffect == Spec => []NothingAttachedIsDropped
  <1>1. RegistryOK => NothingAttachedIsDropped
    <2> SUFFICES ASSUME RegistryOK, registry # None,
                        NEW event \in DOMAIN registry.dispatch,
                        NEW k \in DOMAIN registry.dispatch[event]
                 PROVE  LET rule == registry.dispatch[event][k]
                        IN  /\ rule.actions # << >>
                            /\ Performs(rule, registry.actions) = rule.actions
                            /\ \A j \in DOMAIN rule.actions :
                                 LET action == registry.actions[rule.actions[j].name]
                                 IN  action.kind = "aggregatedAction" => action.event = event
      BY DEF NothingAttachedIsDropped
    <2> DEFINE rule == registry.dispatch[event][k]
               kinds == CASE rule.strategy = "plain"     -> {"action"}
                          [] rule.strategy = "aggregate" -> {"action", "aggregatedAction"}
                          [] rule.strategy = "schedule"  -> {"action", "scheduledAction"}
    <2>1. PICK batch : Accepted(batch) /\ registry = BuildRegistry(batch)  BY DEF RegistryOK
    <2>2. /\ registry.actions = ByName(batch.actions)
          /\ registry.dispatch[event] = Dispatch(batch.rules, event)
      BY <2>1, RegistryFields
    <2>3. PICK i \in DOMAIN batch.rules : batch.rules[i] = rule /\ rule.event = event
      BY <2>1, <2>2, DispatchHolds
    <2>4. rule.strategy \in {"plain", "aggregate", "schedule"}
      BY <2>1, <2>3 DEF Accepted, BatchTyped
    <2> HIDE DEF rule
    <2>5. /\ rule.actions # << >> /\ IsSeq(rule.actions)
          /\ \A j \in DOMAIN rule.actions :
               LET name == rule.actions[j].name
               IN  /\ name \in DOMAIN registry.actions
                   /\ registry.actions[name].kind \in {"action", "aggregatedAction", "scheduledAction"}
                   /\ KindIssues(rule, registry.actions[name]) = {}
                   /\ OnIssues(rule, registry.actions[name]) = {}
      BY <2>1, <2>2, <2>3, AcceptedRules
    <2>6. Performs(rule, registry.actions) = rule.actions
      <3> DEFINE where == [j \in DOMAIN rule.actions |->
                             /\ rule.actions[j].name \in DOMAIN registry.actions
                             /\ registry.actions[rule.actions[j].name].kind \in kinds]
      <3>1. rule.actions \in Seq(Range(rule.actions))
            /\ DOMAIN rule.actions = 1..Len(rule.actions)
        BY <2>5, SeqFacts
      <3>2. \A j \in DOMAIN rule.actions : registry.actions[rule.actions[j].name].kind \in kinds
        BY <2>4, <2>5, Suits
      <3>3. Performs(rule, registry.actions) = Select(rule.actions, where)  BY DEF Performs
      <3> HIDE DEF kinds
      <3>4. \A j \in 1..Len(rule.actions) : where[j]  BY <2>5, <3>1, <3>2
      <3> HIDE DEF where
      <3> QED  BY <3>1, <3>3, <3>4, SelectAll
    <2>7. \A j \in DOMAIN rule.actions :
            LET action == registry.actions[rule.actions[j].name]
            IN  action.kind = "aggregatedAction" => action.event = event
      BY <2>3, <2>5 DEF OnIssues
    <2> QED  BY <2>5, <2>6, <2>7 DEF rule
  <1> QED  BY <1>1, RegistryInvariant, PTL

(* What a name stands for in the registry is an entity of the batch. *)
LEMMA NamesAreFound ==
  ASSUME NEW entities, IsSeq(entities), NEW name \in DOMAIN ByName(entities)
  PROVE  FoundAmong(entities, ByName(entities), name)
  <1>1. name \in Names(entities) /\ ByName(entities)[name] = First(entities, name)  BY DEF ByName
  <1>2. \E i \in DOMAIN entities : entities[i].name = name /\ entities[i] = ByName(entities)[name]
    BY <1>1, FirstIsOne
  <1> QED  BY <1>2 DEF FoundAmong

(* Nothing an accepted batch pins is outside the schema. *)
LEMMA PinsSuit ==
  ASSUME NEW entity, PinIssues(entity) = {},
         NEW k \in DOMAIN entity.schema \cap Defined(entity.pinned)
  PROVE  entity.pinned[k] \in entity.schema[k]
  <1>1. Accepts(Partial(entity.schema), entity.pinned)  BY DEF PinIssues
  <1>2. k \in DOMAIN entity.pinned /\ entity.pinned[k] # "undefined"  BY DEF Defined
  <1>3. k \in DOMAIN Partial(entity.schema)
        /\ Partial(entity.schema)[k] = entity.schema[k] \cup {"undefined"}
    BY DEF Partial
  <1>4. ArgOf(entity.pinned, k) = entity.pinned[k]  BY <1>2 DEF ArgOf
  <1> QED  BY <1>1, <1>2, <1>3, <1>4 DEF Accepts

LEMMA AcceptedPins ==
  ASSUME NEW entities, IsSeq(entities), DuplicateNames(entities) = {},
         UNION { { <<code, name>> : code \in PinIssues(ByName(entities)[name]) } :
                 name \in DOMAIN ByName(entities) } = {},
         NEW i \in DOMAIN entities
  PROVE  PinIssues(entities[i]) = {}
  <1> DEFINE name == entities[i].name
             found == ByName(entities)
  <1>1. name \in DOMAIN found /\ found[name] = entities[i]
    BY FirstIsOnly DEF ByName, Names
  <1> HIDE DEF name, found
  <1> SUFFICES ASSUME NEW code \in PinIssues(found[name]) PROVE FALSE  BY <1>1
  <1>2. <<code, name>> \in UNION { { <<c, n>> : c \in PinIssues(found[n]) } : n \in DOMAIN found }
    BY <1>1
  <1> QED  BY <1>2 DEF found

LEMMA AcceptedEntities ==
  ASSUME NEW batch, Accepted(batch)
  PROVE  /\ \A i \in DOMAIN batch.predicates : Usable(batch.predicates[i])
         /\ \A i \in DOMAIN batch.actions : Usable(batch.actions[i])
  <1>1. /\ UNION { { <<code, name>> : code \in PinIssues(ByName(batch.predicates)[name]) } :
                  name \in DOMAIN ByName(batch.predicates) } = {}
        /\ UNION { { <<code, name>> : code \in PinIssues(ByName(batch.actions)[name]) } :
                  name \in DOMAIN ByName(batch.actions) } = {}
    BY Zenon DEF Accepted, Issues
  <1>2. IsSeq(batch.predicates) /\ IsSeq(batch.actions) /\ BatchBuilt(batch)
    BY DEF Accepted, BatchTyped
  <1>3. ASSUME NEW i \in DOMAIN batch.predicates PROVE Usable(batch.predicates[i])
    <2>1. PinIssues(batch.predicates[i]) = {}  BY <1>1, <1>2, AcceptedNames, AcceptedPins
    <2>2. EntityBuilt(batch.predicates[i])  BY <1>2 DEF BatchBuilt
    <2>3. batch.predicates[i].kind = "aggregatedAction" => batch.predicates[i].transforms
      <3>1. batch.predicates[i].kind = "predicate"  BY <1>3 DEF Accepted, BatchTyped
      <3> QED  BY <3>1
    <2> QED  BY <2>1, <2>2, <2>3, PinsSuit DEF EntityBuilt, Usable
  <1>4. ASSUME NEW i \in DOMAIN batch.actions PROVE Usable(batch.actions[i])
    <2>1. PinIssues(batch.actions[i]) = {}  BY <1>1, <1>2, AcceptedNames, AcceptedPins
    <2>2. EntityBuilt(batch.actions[i]) /\ AggregatedBuilt(batch.actions[i])
      BY <1>2 DEF BatchBuilt
    <2> QED  BY <2>1, <2>2, PinsSuit DEF EntityBuilt, AggregatedBuilt, Usable
  <1> QED  BY <1>3, <1>4

(* A rule of an accepted batch is in the list of its event. *)
LEMMA DispatchMissesNone ==
  ASSUME NEW batch, Accepted(batch), NEW i \in DOMAIN batch.rules
  PROVE  \E j \in DOMAIN Dispatch(batch.rules, batch.rules[i].event) :
           Dispatch(batch.rules, batch.rules[i].event)[j] = batch.rules[i]
  <1> DEFINE event  == batch.rules[i].event
             where  == [k \in DOMAIN batch.rules |-> batch.rules[k].event = event]
             result == Select(batch.rules, where)
             chosen == { k \in 1..Len(batch.rules) : where[k] }
  <1>1. IsSeq(batch.rules)  BY DEF Accepted, BatchTyped
  <1>2. batch.rules \in Seq(Range(batch.rules)) /\ DOMAIN batch.rules = 1..Len(batch.rules)
    BY <1>1, SeqFacts
  <1>3. i \in chosen  BY <1>2
  <1>4. Dispatch(batch.rules, event) = result  BY DEF Dispatch
  <1> HIDE DEF where
  <1>5. result \in Seq(Range(batch.rules)) /\ Picks(result, batch.rules, chosen)
    BY <1>2, SelectPicks
  <1> HIDE DEF result, chosen
  <1>6. PICK place \in [1..Len(result) -> chosen] :
          /\ \A k \in chosen : \E j \in 1..Len(result) : place[j] = k
          /\ \A j \in 1..Len(result) : result[j] = batch.rules[place[j]]
    BY <1>5 DEF Picks
  <1>7. PICK j \in 1..Len(result) : result[j] = batch.rules[i]  BY <1>3, <1>6
  <1>8. j \in DOMAIN result  BY <1>5
  <1> QED  BY <1>4, <1>7, <1>8

(* The arguments of a rule are complete. *)
LEMMA AcceptedRuleArgs ==
  ASSUME NEW batch, Accepted(batch), NEW i \in DOMAIN batch.rules
  PROVE  Accepts(batch.rules[i].schema, batch.rules[i].pinned)
  <1> DEFINE name == batch.rules[i].name
             codes(n) == RuleIssues(First(batch.rules, n), ByName(batch.predicates), ByName(batch.actions))
                         \cup RuleArgIssues(First(batch.rules, n))
  <1>1. UNION { { <<code, n>> : code \in codes(n) } : n \in Names(batch.rules) } = {}
    BY DEF Accepted, Issues
  <1>2. name \in Names(batch.rules)  BY DEF Names
  <1>3. First(batch.rules, name) = batch.rules[i]
    BY AcceptedNames, FirstIsOnly DEF Accepted, BatchTyped
  <1> HIDE DEF codes, name
  <1>4. codes(name) = {}
    <2> SUFFICES ASSUME NEW code \in codes(name) PROVE FALSE  OBVIOUS
    <2>1. <<code, name>> \in UNION { { <<c, n>> : c \in codes(n) } : n \in Names(batch.rules) }
      BY <1>2
    <2> QED  BY <1>1, <2>1
  <1>5. RuleArgIssues(batch.rules[i]) = {}  BY <1>3, <1>4 DEF codes
  <1> QED  BY <1>5 DEF RuleArgIssues

(* The attachments of a rule are of the kinds its strategy runs, and the    *)
(* one it cannot do without is among them.                                  *)
LEMMA AcceptedKinds ==
  ASSUME NEW batch, Accepted(batch), NEW i \in DOMAIN batch.rules
  PROVE  LET rule    == batch.rules[i]
             actions == ByName(batch.actions)
             kinds   == { actions[rule.actions[j].name].kind : j \in DOMAIN rule.actions }
         IN  /\ rule.strategy = "plain" => kinds = {"action"}
             /\ rule.strategy = "aggregate" =>
                  "aggregatedAction" \in kinds /\ "scheduledAction" \notin kinds
             /\ rule.strategy = "schedule" =>
                  "scheduledAction" \in kinds /\ "aggregatedAction" \notin kinds
  <1> DEFINE rule    == batch.rules[i]
             actions == ByName(batch.actions)
             kind(j) == actions[rule.actions[j].name].kind
             kinds   == { kind(j) : j \in DOMAIN rule.actions }
             attached(k) == \E j \in DOMAIN rule.actions :
                              rule.actions[j].name \in DOMAIN actions /\ kind(j) = k
  <1>1. /\ rule.actions # << >> /\ IsSeq(rule.actions)
        /\ \A j \in DOMAIN rule.actions :
             /\ kind(j) \in {"action", "aggregatedAction", "scheduledAction"}
             /\ KindIssues(rule, actions[rule.actions[j].name]) = {}
    BY AcceptedRules
  <1>2. \A j \in DOMAIN rule.actions :
          /\ kind(j) = "aggregatedAction" => rule.strategy = "aggregate"
          /\ kind(j) = "scheduledAction" => rule.strategy = "schedule"
    BY <1>1 DEF KindIssues
  <1>3. StrategyIssues(rule, actions) = {}
    <2> DEFINE predicates == ByName(batch.predicates)
    <2>1. RuleIssues(rule, predicates, actions) = {}  BY AcceptedNames
    <2> HIDE DEF rule, predicates, actions
    <2> QED  BY <2>1 DEF RuleIssues
  <1>4. /\ rule.strategy = "aggregate" => attached("aggregatedAction")
        /\ rule.strategy = "schedule" => attached("scheduledAction")
    BY <1>3 DEF StrategyIssues
  <1>5. DOMAIN rule.actions # {}
    <2>1. DOMAIN rule.actions = 1..Len(rule.actions) /\ Len(rule.actions) \in Nat
          /\ rule.actions \in Seq(Range(rule.actions))
      BY <1>1, SeqFacts
    <2>2. Len(rule.actions) # 0  BY <1>1, <2>1
    <2>3. 1 \in 1..Len(rule.actions)
      <3> HIDE DEF rule
      <3> QED  BY <2>1, <2>2
    <2> QED  BY <2>1, <2>3
  <1> HIDE DEF rule, actions, kind
  <1>6. rule.strategy = "plain" => kinds = {"action"}
    <2> SUFFICES ASSUME rule.strategy = "plain" PROVE kinds = {"action"}  OBVIOUS
    <2>1. \A j \in DOMAIN rule.actions : kind(j) = "action"  BY <1>1, <1>2
    <2> QED  BY <1>5, <2>1
  <1>7. rule.strategy = "aggregate" => "aggregatedAction" \in kinds /\ "scheduledAction" \notin kinds
    BY <1>2, <1>4
  <1>8. rule.strategy = "schedule" => "scheduledAction" \in kinds /\ "aggregatedAction" \notin kinds
    BY <1>2, <1>4
  <1> QED  BY <1>6, <1>7, <1>8 DEF rule, actions, kind

LEMMA AcceptedRunnable ==
  ASSUME NEW batch, Accepted(batch), NEW i \in DOMAIN batch.rules
  PROVE  Runnable(batch.rules[i], BuildRegistry(batch))
  <1> DEFINE rule == batch.rules[i]
             live == BuildRegistry(batch)
  <1>1. /\ live.predicates = ByName(batch.predicates) /\ live.actions = ByName(batch.actions)
        /\ live.batch = batch
    BY RegistryFields
  <1>2. IsSeq(batch.predicates) /\ IsSeq(batch.actions)  BY DEF Accepted, BatchTyped
  <1>3. rule.event # "missing" /\ rule.when # None
    BY DEF Accepted, BatchBuilt, RuleBuilt
  <1>4. \E j \in DOMAIN live.dispatch[rule.event] : live.dispatch[rule.event][j] = rule
    <2>1. live.dispatch[rule.event] = Dispatch(batch.rules, rule.event)  BY RegistryFields
    <2> QED  BY <2>1, DispatchMissesNone
  <1>5. WithinDepth(rule.when) /\ Accepts(rule.schema, rule.pinned)
    BY AcceptedRules, AcceptedRuleArgs
  <1>6. \A use \in Uses(rule.when) : FoundAmong(batch.predicates, live.predicates, use.name)
    BY <1>1, <1>2, AcceptedRules, NamesAreFound
  <1>7. \A j \in DOMAIN rule.actions : FoundAmong(batch.actions, live.actions, rule.actions[j].name)
    BY <1>1, <1>2, AcceptedRules, NamesAreFound
  <1>8. LET kinds == { live.actions[rule.actions[j].name].kind : j \in DOMAIN rule.actions }
        IN  /\ rule.strategy = "plain" => kinds = {"action"}
            /\ rule.strategy = "aggregate" =>
                 "aggregatedAction" \in kinds /\ "scheduledAction" \notin kinds
            /\ rule.strategy = "schedule" =>
                 "scheduledAction" \in kinds /\ "aggregatedAction" \notin kinds
    <2>1. LET actions == ByName(batch.actions)
              kinds   == { actions[rule.actions[j].name].kind : j \in DOMAIN rule.actions }
          IN  /\ rule.strategy = "plain" => kinds = {"action"}
              /\ rule.strategy = "aggregate" =>
                   "aggregatedAction" \in kinds /\ "scheduledAction" \notin kinds
              /\ rule.strategy = "schedule" =>
                   "scheduledAction" \in kinds /\ "aggregatedAction" \notin kinds
      BY AcceptedKinds
    <2> HIDE DEF rule, live
    <2> QED  BY <1>1, <2>1
  <1> HIDE DEF rule, live
  <1>9. Runnable(rule, live)  BY <1>1, <1>3, <1>4, <1>5, <1>6, <1>7, <1>8 DEF Runnable
  <1> QED  BY <1>9 DEF rule, live

(* Whatever batches are registered, with whatever wrong in them: what goes  *)
(* live is one whole batch with unambiguous names, pinned values within the *)
(* schemas, complete rule arguments, known references and fitting actions.  *)
THEOREM TheRegistryIsSound == Spec => OnlySoundBatchesGoLive
  <1> DEFINE Sound(live) ==
        LET batch == live.batch
        IN  /\ batch \in scene.batches
            /\ Distinct(batch.predicates) /\ Distinct(batch.actions) /\ Distinct(batch.rules)
            /\ \A i \in DOMAIN batch.predicates : Usable(batch.predicates[i])
            /\ \A i \in DOMAIN batch.actions : Usable(batch.actions[i])
            /\ \A i \in DOMAIN batch.rules : Runnable(batch.rules[i], live)
  <1>1. ASSUME NEW batch \in scene.batches, Accepted(batch) PROVE Sound(BuildRegistry(batch))
    <2>1. BuildRegistry(batch).batch = batch  BY RegistryFields
    <2>2. Distinct(batch.predicates) /\ Distinct(batch.actions) /\ Distinct(batch.rules)
      BY <1>1, AcceptedNames, FirstIsOnly DEF Accepted, BatchTyped, Distinct
    <2> QED  BY <1>1, <2>1, <2>2, AcceptedEntities, AcceptedRunnable
  <1>2. RegistryOK /\ [Next]_vars /\ registry' # registry => \E batch \in scene.batches :
          Accepted(batch) /\ registry' = BuildRegistry(batch)
    BY RegisterTakes, OthersKeep DEF Next
  <1>3. RegistryOK /\ [Next]_vars => [registry' # registry => Sound(registry')]_registry
    <2> HIDE DEF Sound
    <2> QED  BY <1>1, <1>2
  <1> QED  BY <1>3, RegistryInvariant, PTL DEF Spec, OnlySoundBatchesGoLive

-----------------------------------------------------------------------------
(* Trees. *)

LEMMA LevelsDefined ==
  ASSUME NEW tree
  PROVE  /\ Levels(tree)[1] = {tree}
         /\ \A d \in 1..MaxDepth :
              Levels(tree)[d + 1] = UNION { Range(Children(node)) : node \in Levels(tree)[d] }
  <1> DEFINE N == MaxDepth + 1
             Below(nodes) == UNION { Range(Children(node)) : node \in nodes }
             Deeper(f, d) == IF d = 1 THEN {tree} ELSE Below(f[d - 1])
             Good(f, k) == \A d \in 1..N : d <= k => f[d] = Deeper(f, d)
             T == { k \in Nat : ~ \E f : Good(f, k) }
  <1>1. N \in Nat /\ MaxDepth \in Nat /\ N = MaxDepth + 1 /\ 1 \in 1..N  BY WhenTreeAssumption
  <1> HIDE DEF N, Below
  <1>2. T = {}
    <2> SUFFICES ASSUME T # {} PROVE FALSE  OBVIOUS
    <2>1. PICK k \in T : \A m \in T : k <= m  BY NatMin
    <2>2. CASE k = 0
      <3>1. Good([d \in 1..N |-> {}], 0)  BY <1>1
      <3> QED  BY <2>1, <2>2, <3>1
    <2>3. CASE k # 0
      <3>1. k \in Nat /\ k - 1 \in Nat  BY <2>1, <2>3
      <3>2. k - 1 \notin T
        <4> HIDE DEF T
        <4> QED  BY <2>1, <3>1
      <3>3. PICK f : Good(f, k - 1)  BY <3>1, <3>2
      <3> DEFINE g == [d \in 1..N |-> IF d <= k - 1 THEN f[d] ELSE Deeper(f, d)]
      <3>4. Good(g, k)
        <4> SUFFICES ASSUME NEW d \in 1..N, d <= k PROVE g[d] = Deeper(g, d)  OBVIOUS
        <4>1. g[d] = Deeper(f, d)  BY <3>3
        <4>2. CASE d = 1  BY <4>1, <4>2
        <4>3. CASE d # 1
          <5>1. d - 1 \in 1..N /\ d - 1 <= k - 1  BY <1>1, <3>1, <4>3
          <5>2. g[d - 1] = f[d - 1]  BY <5>1
          <5> HIDE DEF g
          <5> QED  BY <4>1, <4>3, <5>2
        <4> QED  BY <4>2, <4>3
      <3> HIDE DEF Good
      <3> QED  BY <2>1, <3>1, <3>4
    <2> QED  BY <2>2, <2>3
  <1>3. PICK f : Good(f, N)
    <2>1. N \notin T
      <3> HIDE DEF T
      <3> QED  BY <1>2
    <2> QED  BY <1>1, <2>1
  <1> DEFINE g == [d \in 1..N |-> f[d]]
  <1>4. g = [d \in 1..N |-> Deeper(g, d)]
    <2>1. ASSUME NEW d \in 1..N PROVE g[d] = Deeper(g, d)
      <3>1. f[d] = Deeper(f, d)  BY <1>1, <1>3
      <3>2. d # 1 => d - 1 \in 1..N  BY <1>1
      <3>3. d # 1 => g[d - 1] = f[d - 1]  BY <3>2
      <3>4. g[d] = f[d]  OBVIOUS
      <3> HIDE DEF g
      <3> QED  BY <3>1, <3>3, <3>4
    <2> HIDE DEF g, Deeper
    <2>2. g = [d \in 1..N |-> g[d]]  BY DEF g
    <2> QED  BY <2>1, <2>2
  <1> HIDE DEF g
  <1>5. Levels(tree) = CHOOSE s : s = [d \in 1..N |-> Deeper(s, d)]
    BY DEF Levels, N, Below
  <1>6. Levels(tree) = [d \in 1..N |-> Deeper(Levels(tree), d)]
    BY <1>4, <1>5
  <1> DEFINE level == Levels(tree)
  <1> HIDE DEF level
  <1>7. level = [d \in 1..N |-> Deeper(level, d)]  BY <1>6 DEF level
  <1>8. \A d \in 1..N : level[d] = Deeper(level, d)  BY <1>7
  <1>9. level[1] = {tree}  BY <1>1, <1>8
  <1>10. ASSUME NEW d \in 1..MaxDepth PROVE level[d + 1] = Below(level[d])
    <2>1. d + 1 \in 1..N /\ d + 1 # 1 /\ (d + 1) - 1 = d  BY <1>1
    <2> QED  BY <1>8, <2>1
  <1> QED  BY <1>9, <1>10 DEF level, Below

(* The children of a node are on the next level. *)
LEMMA ChildrenBelow ==
  ASSUME NEW tree, TreeTyped(tree), NEW d \in 1..MaxDepth, NEW node \in Levels(tree)[d]
  PROVE  /\ node.kind \in {"fn", "use"} \cup Combinators
         /\ IsSeq(Children(node)) /\ DOMAIN Children(node) = 1..Len(Children(node))
         /\ Len(Children(node)) \in Nat
         /\ \A i \in 1..Len(Children(node)) : Children(node)[i] \in Levels(tree)[d + 1]
         /\ node.kind \in {"all", "any"} => Children(node) = node.children
         /\ node.kind = "not" => Children(node) = <<node.child>>
  <1>1. node \in Nodes(tree)  BY DEF Nodes
  <1>2. node.kind \in {"fn", "use"} \cup Combinators
        /\ (node.kind \in {"all", "any"} => IsSeq(node.children))
    BY <1>1 DEF TreeTyped
  <1>3. CASE node.kind \in {"all", "any"}
    <2>1. Children(node) = node.children /\ node.kind # "not"  BY <1>3 DEF Children
    <2>2. IsSeq(Children(node))  BY <1>2, <1>3, <2>1
    <2>3. /\ DOMAIN Children(node) = 1..Len(Children(node)) /\ Len(Children(node)) \in Nat
          /\ \A i \in DOMAIN Children(node) : Children(node)[i] \in Range(Children(node))
      BY <2>2, SeqFacts
    <2>4. Range(Children(node)) \subseteq Levels(tree)[d + 1]  BY LevelsDefined
    <2> QED  BY <1>2, <2>1, <2>2, <2>3, <2>4
  <1>4. CASE node.kind = "not"
    <2>1. Children(node) = <<node.child>>  BY <1>4 DEF Children
    <2>2. <<node.child>> \in Seq({node.child})  OBVIOUS
    <2>3. IsSeq(Children(node))  BY <2>1, <2>2, SeqIsSeq
    <2>4. /\ DOMAIN Children(node) = 1..Len(Children(node)) /\ Len(Children(node)) \in Nat
          /\ \A i \in DOMAIN Children(node) : Children(node)[i] \in Range(Children(node))
      BY <2>3, SeqFacts
    <2>5. Range(Children(node)) \subseteq Levels(tree)[d + 1]  BY LevelsDefined
    <2> QED  BY <1>2, <1>4, <2>1, <2>3, <2>4, <2>5
  <1>5. CASE node.kind \in {"fn", "use"}
    <2>1. Children(node) = << >>  BY <1>5 DEF Children
    <2>2. << >> \in Seq({})  OBVIOUS
    <2>3. IsSeq(Children(node))  BY <2>1, <2>2, SeqIsSeq
    <2> QED  BY <1>2, <1>5, <2>1, <2>3
  <1> QED  BY <1>2, <1>3, <1>4, <1>5 DEF Combinators

-----------------------------------------------------------------------------
(* The record of a walk. *)

IsWalk(w) ==
  /\ w = [path |-> w.path, node |-> w.node, settled |-> w.settled, value |-> w.value,
          memo |-> w.memo, calls |-> w.calls]
  /\ IsSeq(w.path) /\ IsSeq(w.memo) /\ IsSeq(w.calls)
  /\ w.settled \in BOOLEAN

LEMMA SettleFields ==
  ASSUME NEW w, IsWalk(w), NEW value
  PROVE  LET n == Settle(w, value)
         IN  /\ IsWalk(n) /\ n.settled /\ n.value = value
             /\ n.path = w.path /\ n.node = w.node /\ n.memo = w.memo /\ n.calls = w.calls
  <1> DEFINE n == Settle(w, value)
  <1>1. n = [path |-> w.path, node |-> w.node, settled |-> TRUE, value |-> value,
             memo |-> w.memo, calls |-> w.calls]
    <2> DEFINE u == [w EXCEPT !.settled = TRUE]
    <2>1. u = [path |-> w.path, node |-> w.node, settled |-> TRUE, value |-> w.value,
               memo |-> w.memo, calls |-> w.calls]
      <3>1. ASSUME NEW t
            PROVE  [w EXCEPT !.settled = t]
                   = [path |-> w.path, node |-> w.node, settled |-> t, value |-> w.value,
                      memo |-> w.memo, calls |-> w.calls]
        <4>1. w = [path |-> w.path, node |-> w.node, settled |-> w.settled, value |-> w.value,
                   memo |-> w.memo, calls |-> w.calls]
          BY DEF IsWalk
        <4> QED  BY <4>1
      <3> QED  BY <3>1
    <2>2. n = [u EXCEPT !.value = value]  BY DEF Settle
    <2> HIDE DEF u, n
    <2> QED  BY <2>1, <2>2
  <1> HIDE DEF n
  <1> QED  BY <1>1 DEF IsWalk, n

LEMMA AppendSeq ==
  ASSUME NEW s, IsSeq(s), NEW e
  PROVE  /\ IsSeq(Append(s, e)) /\ Len(Append(s, e)) = Len(s) + 1
         /\ DOMAIN Append(s, e) = 1..(Len(s) + 1)
         /\ \A i \in 1..Len(s) : Append(s, e)[i] = s[i]
         /\ Append(s, e)[Len(s) + 1] = e
  <1> DEFINE S == Range(s) \cup {e}
  <1>1. s \in Seq(S) /\ e \in S
    <2>1. s \in Seq(Range(s))  BY DEF IsSeq
    <2> QED  BY <2>1
  <1> HIDE DEF S
  <1>2. /\ Append(s, e) \in Seq(S) /\ Len(Append(s, e)) = Len(s) + 1
        /\ \A i \in 1..Len(s) : Append(s, e)[i] = s[i]
        /\ Append(s, e)[Len(s) + 1] = e
    BY <1>1, AppendProperties
  <1>3. IsSeq(Append(s, e))  BY <1>2, SeqIsSeq
  <1> QED  BY <1>2, <1>3, SeqFacts

LEMMA RememberFields ==
  ASSUME NEW w, IsWalk(w), NEW key, NEW value
  PROVE  LET n == Remember(w, key, value)
         IN  /\ IsWalk(n) /\ n.settled /\ n.value = value
             /\ n.path = w.path /\ n.node = w.node /\ n.calls = w.calls
             /\ n.memo = Append(w.memo, [key |-> key, value |-> value])
  <1> DEFINE memo == Append(w.memo, [key |-> key, value |-> value])
             s == Settle(w, value)
             n == Remember(w, key, value)
  <1>1. IsSeq(memo)  BY AppendSeq DEF IsWalk
  <1>2. /\ IsWalk(s) /\ s.settled /\ s.value = value
        /\ s.path = w.path /\ s.node = w.node /\ s.memo = w.memo /\ s.calls = w.calls
    BY SettleFields
  <1>3. n = [s EXCEPT !.memo = memo]  BY DEF Remember
  <1> HIDE DEF memo, s, n
  <1>4. n = [path |-> s.path, node |-> s.node, settled |-> s.settled, value |-> s.value,
             memo |-> memo, calls |-> s.calls]
    BY <1>2, <1>3 DEF IsWalk
  <1> QED  BY <1>1, <1>2, <1>4 DEF IsWalk, n, memo

(* Every call made has its answer in the memo, and no two have one key.     *)
KeyOf(call) == <<call.name, Canonical(call.args)>>

Memorized(w) ==
  /\ \A i \in DOMAIN w.calls : Known(w, KeyOf(w.calls[i]))
  /\ \A i, j \in DOMAIN w.calls : KeyOf(w.calls[i]) = KeyOf(w.calls[j]) => i = j

LEMMA ResolveKeeps ==
  ASSUME NEW w, IsWalk(w), Memorized(w), NEW node, NEW x
  PROVE  LET n == ResolveUse(node, x, w)
         IN  /\ IsWalk(n) /\ Memorized(n) /\ n.settled
             /\ n.path = w.path /\ n.node = w.node
  <1> DEFINE pred   == x.registry.predicates[node.name]
             merged == Merged(pred.pinned, Resolve(node.args, x.event))
             fail   == Open(pred.pinned) \/ Open(node.args)
             key    == <<node.name, Canonical(merged)>>
             call   == CallOf(node.name, merged, x)
             failed == fail \/ Open(merged)
             asked  == [w EXCEPT !.calls = Append(w.calls, call)]
             judged == IF call.judges = "throws" THEN failed ELSE call.judges = "true"
             n      == ResolveUse(node, x, w)
  <1>1. n = IF node.name \notin DOMAIN x.registry.predicates THEN Settle(w, FALSE)
            ELSE IF ~Resolves(node.args, x.event) THEN Settle(w, fail)
            ELSE IF ~HasJson(merged) THEN Settle(w, failed)
            ELSE IF Known(w, key) THEN Settle(w, Recall(w, key))
            ELSE IF ~Accepts(pred.schema, merged) THEN Remember(w, key, failed)
            ELSE Remember(asked, key, judged)
    BY DEF ResolveUse
  <1>2. KeyOf(call) = key  BY DEF KeyOf, CallOf
  <1> HIDE DEF pred, merged, fail, key, call, failed, judged, n
  <1>3. ASSUME NEW value, n = Settle(w, value)
        PROVE  IsWalk(n) /\ Memorized(n) /\ n.settled /\ n.path = w.path /\ n.node = w.node
    <2>1. /\ IsWalk(n) /\ n.settled /\ n.path = w.path /\ n.node = w.node
          /\ n.memo = w.memo /\ n.calls = w.calls
      BY <1>3, SettleFields
    <2> QED  BY <2>1 DEF Memorized, Known
  <1>4. ASSUME NEW before, NEW value, IsWalk(before), n = Remember(before, key, value),
               before.memo = w.memo, before.path = w.path, before.node = w.node
        PROVE  /\ IsWalk(n) /\ n.settled /\ n.path = w.path /\ n.node = w.node
               /\ n.calls = before.calls /\ Known(n, key)
               /\ \A k : Known(w, k) => Known(n, k)
    <2>1. /\ IsWalk(n) /\ n.settled /\ n.path = w.path /\ n.node = w.node
          /\ n.calls = before.calls
          /\ n.memo = Append(w.memo, [key |-> key, value |-> value])
      BY <1>4, RememberFields
    <2>2. /\ IsSeq(w.memo) /\ DOMAIN n.memo = 1..(Len(w.memo) + 1)
          /\ \A i \in 1..Len(w.memo) : n.memo[i] = w.memo[i]
          /\ n.memo[Len(w.memo) + 1] = [key |-> key, value |-> value]
      BY <2>1, AppendSeq DEF IsWalk
    <2>3. DOMAIN w.memo = 1..Len(w.memo) /\ Len(w.memo) \in Nat  BY <2>2, SeqFacts
    <2>4. Known(n, key)
      <3>1. Len(w.memo) + 1 \in DOMAIN n.memo  BY <2>2, <2>3
      <3>2. n.memo[Len(w.memo) + 1].key = key  BY <2>2
      <3> QED  BY <3>1, <3>2 DEF Known
    <2>5. ASSUME NEW k, Known(w, k) PROVE Known(n, k)
      <3>1. PICK i \in DOMAIN w.memo : w.memo[i].key = k  BY <2>5 DEF Known
      <3>2. i \in DOMAIN n.memo /\ n.memo[i].key = k  BY <2>2, <2>3, <3>1
      <3> QED  BY <3>2 DEF Known
    <2> QED  BY <2>1, <2>4, <2>5
  <1>5. CASE n = Remember(w, key, failed)
    <2>1. /\ IsWalk(n) /\ n.settled /\ n.path = w.path /\ n.node = w.node
          /\ n.calls = w.calls /\ \A k : Known(w, k) => Known(n, k)
      BY <1>4, <1>5
    <2> QED  BY <2>1 DEF Memorized, n
  <1>6. CASE n = Remember(asked, key, judged) /\ ~Known(w, key)
    <2>1. IsSeq(Append(w.calls, call))  BY AppendSeq DEF IsWalk
    <2>2. asked = [path |-> w.path, node |-> w.node, settled |-> w.settled, value |-> w.value,
                   memo |-> w.memo, calls |-> Append(w.calls, call)]
      <3> DEFINE r == [path |-> w.path, node |-> w.node, settled |-> w.settled,
                       value |-> w.value, memo |-> w.memo, calls |-> w.calls]
                 longer == Append(w.calls, call)
      <3>1. w = r  BY DEF IsWalk
      <3> HIDE DEF longer
      <3>2. [r EXCEPT !.calls = longer] =
              [path |-> w.path, node |-> w.node, settled |-> w.settled, value |-> w.value,
               memo |-> w.memo, calls |-> longer]
        OBVIOUS
      <3> HIDE DEF r
      <3>3. asked = [r EXCEPT !.calls = longer]  BY <3>1 DEF longer
      <3> QED  BY <3>2, <3>3 DEF longer
    <2>3. /\ IsWalk(asked) /\ asked.memo = w.memo /\ asked.path = w.path /\ asked.node = w.node
          /\ asked.calls = Append(w.calls, call)
      BY <2>1, <2>2 DEF IsWalk
    <2> HIDE DEF asked
    <2>4. /\ IsWalk(n) /\ n.settled /\ n.path = w.path /\ n.node = w.node
          /\ n.calls = Append(w.calls, call) /\ Known(n, key)
          /\ \A k : Known(w, k) => Known(n, k)
      BY <1>4, <1>6, <2>3
    <2>5. /\ DOMAIN n.calls = 1..(Len(w.calls) + 1)
          /\ \A i \in 1..Len(w.calls) : n.calls[i] = w.calls[i]
          /\ n.calls[Len(w.calls) + 1] = call
          /\ DOMAIN w.calls = 1..Len(w.calls) /\ Len(w.calls) \in Nat
      BY <2>4, AppendSeq, SeqFacts DEF IsWalk
    <2>6. \A i \in DOMAIN n.calls : i # Len(w.calls) + 1 => i \in DOMAIN w.calls
      BY <2>5
    <2>7. ASSUME NEW i \in DOMAIN n.calls PROVE Known(n, KeyOf(n.calls[i]))
      <3>1. CASE i = Len(w.calls) + 1  BY <1>2, <2>4, <2>5, <3>1
      <3>2. CASE i # Len(w.calls) + 1  BY <2>4, <2>5, <2>6, <3>2 DEF Memorized
      <3> QED  BY <3>1, <3>2
    <2>8. ASSUME NEW i \in DOMAIN w.calls PROVE KeyOf(w.calls[i]) # key
      BY <1>6 DEF Memorized
    <2>9. ASSUME NEW i \in DOMAIN n.calls, NEW j \in DOMAIN n.calls,
                 KeyOf(n.calls[i]) = KeyOf(n.calls[j])
          PROVE  i = j
      <3>1. CASE i # Len(w.calls) + 1 /\ j # Len(w.calls) + 1
        BY <2>5, <2>6, <2>9, <3>1 DEF Memorized
      <3>2. CASE i = Len(w.calls) + 1 \/ j = Len(w.calls) + 1
        BY <1>2, <2>5, <2>6, <2>8, <2>9, <3>2
      <3> QED  BY <3>1, <3>2
    <2> QED  BY <2>4, <2>7, <2>9 DEF Memorized, n
  <1> QED  BY <1>1, <1>3, <1>5, <1>6 DEF n

LEMMA FrontSeq ==
  ASSUME NEW s, IsSeq(s), s # << >>
  PROVE  /\ IsSeq(Front(s)) /\ Len(s) \in Nat \ {0} /\ Len(Front(s)) = Len(s) - 1
         /\ \A i \in 1..(Len(s) - 1) : Front(s)[i] = s[i]
         /\ Last(s) = s[Len(s)]
  <1>1. s \in Seq(Range(s))  BY DEF IsSeq
  <1>2. Len(s) \in Nat /\ Len(s) # 0  BY <1>1
  <1>3. Front(s) = SubSeq(s, 1, Len(s) - 1)  BY DEF Front
  <1>4. /\ SubSeq(s, 1, Len(s) - 1) \in Seq(Range(s))
        /\ Len(SubSeq(s, 1, Len(s) - 1)) = Len(s) - 1
        /\ \A i \in 1..(Len(s) - 1) : SubSeq(s, 1, Len(s) - 1)[i] = s[i]
    <2> DEFINE short == SubSeq(s, 1, Len(s) - 1)
    <2>1. 1 \in Int /\ Len(s) - 1 \in Int /\ \A i \in 1..(Len(s) - 1) : s[i] \in Range(s)
      BY <1>2, SeqFacts
    <2>2. /\ short \in Seq(Range(s))
          /\ Len(short) = IF 1 <= Len(s) - 1 THEN (Len(s) - 1) - 1 + 1 ELSE 0
          /\ \A i \in 1..((Len(s) - 1) - 1 + 1) : short[i] = s[1 + i - 1]
      BY <2>1, SubSeqProperties
    <2>3. (Len(s) - 1) - 1 + 1 = Len(s) - 1 /\ \A i \in 1..(Len(s) - 1) : 1 + i - 1 = i
      BY <1>2
    <2> HIDE DEF short
    <2>4. Len(short) = Len(s) - 1
      <3>1. CASE Len(s) = 1  BY <2>2, <3>1
      <3>2. CASE Len(s) > 1  BY <1>2, <2>2, <3>2
      <3> QED  BY <1>2, <3>1, <3>2
    <2>5. ASSUME NEW i \in 1..(Len(s) - 1) PROVE short[i] = s[i]
      <3>1. i \in 1..((Len(s) - 1) - 1 + 1) /\ 1 + i - 1 = i  BY <2>3
      <3>2. short[i] = s[1 + i - 1]  BY <2>2, <3>1
      <3> QED  BY <3>1, <3>2
    <2> QED  BY <2>2, <2>4, <2>5 DEF short
  <1> QED  BY <1>2, <1>3, <1>4, SeqIsSeq DEF Last

LEMMA AwaitFields ==
  ASSUME NEW w, IsWalk(w), NEW path, IsSeq(path), NEW node, NEW i
  PROVE  LET n == Await(w, path, node, i)
         IN  /\ IsWalk(n) /\ ~n.settled /\ n.memo = w.memo /\ n.calls = w.calls
             /\ n.path = Append(path, [node |-> node, child |-> i])
             /\ n.node = Children(node)[i]
  <1> DEFINE longer == Append(path, [node |-> node, child |-> i])
             child  == Children(node)[i]
             n      == Await(w, path, node, i)
             a      == [w EXCEPT !.path = longer]
             b      == [a EXCEPT !.node = child]
  <1>1. IsSeq(longer)  BY AppendSeq
  <1>2. n = [b EXCEPT !.settled = FALSE]  BY DEF Await
  <1> HIDE DEF longer, child, n
  <1>3. w = [path |-> w.path, node |-> w.node, settled |-> w.settled, value |-> w.value,
             memo |-> w.memo, calls |-> w.calls]
    BY DEF IsWalk
  <1>4. b = [path |-> longer, node |-> child, settled |-> w.settled, value |-> w.value,
             memo |-> w.memo, calls |-> w.calls]
    <2>1. a = [path |-> longer, node |-> w.node, settled |-> w.settled, value |-> w.value,
               memo |-> w.memo, calls |-> w.calls]
      BY <1>3
    <2> HIDE DEF a
    <2> QED  BY <2>1
  <1> HIDE DEF b
  <1>5. ASSUME NEW t
        PROVE  [b EXCEPT !.settled = t]
               = [path |-> longer, node |-> child, settled |-> t, value |-> w.value,
                  memo |-> w.memo, calls |-> w.calls]
    BY <1>4
  <1>6. n = [path |-> longer, node |-> child, settled |-> FALSE, value |-> w.value,
             memo |-> w.memo, calls |-> w.calls]
    BY <1>2, <1>5
  <1> QED  BY <1>1, <1>6 DEF IsWalk, n, longer, child

MovedTo(w, path, node) == [w EXCEPT !.path = path, !.node = node]

LEMMA UpFields ==
  ASSUME NEW w, IsWalk(w), NEW path, IsSeq(path), NEW node
  PROVE  LET n == MovedTo(w, path, node)
         IN  /\ IsWalk(n) /\ n.memo = w.memo /\ n.calls = w.calls
             /\ n.path = path /\ n.node = node /\ n.settled = w.settled
  <1> DEFINE a == [w EXCEPT !.path = path]
             n == [a EXCEPT !.node = node]
  <1>1. a = [path |-> path, node |-> w.node, settled |-> w.settled, value |-> w.value,
             memo |-> w.memo, calls |-> w.calls]
    BY DEF IsWalk
  <1> HIDE DEF a
  <1>2. n = [path |-> path, node |-> node, settled |-> w.settled, value |-> w.value,
             memo |-> w.memo, calls |-> w.calls]
    BY <1>1
  <1>3. n = MovedTo(w, path, node)  BY DEF a, MovedTo
  <1> HIDE DEF n
  <1> QED  BY <1>2, <1>3 DEF IsWalk

LEMMA WhenFields ==
  ASSUME NEW w, IsWalk(w), NEW tree
  PROVE  LET n == EvaluateWhen(tree, w)
         IN  /\ IsWalk(n) /\ ~n.settled /\ n.memo = w.memo /\ n.calls = w.calls
             /\ n.path = << >> /\ n.node = tree
  <1> DEFINE outermost == << >>
             u == MovedTo(w, outermost, tree)
             n == EvaluateWhen(tree, w)
  <1>1. IsSeq(outermost)
    <2>1. << >> \in Seq({})  OBVIOUS
    <2> QED  BY <2>1, SeqIsSeq
  <1>2. n = [u EXCEPT !.settled = FALSE]  BY DEF EvaluateWhen, MovedTo
  <1> HIDE DEF outermost
  <1>3. /\ IsWalk(u) /\ u.memo = w.memo /\ u.calls = w.calls
        /\ u.path = outermost /\ u.node = tree
    BY <1>1, UpFields
  <1> HIDE DEF u, n
  <1>4. ASSUME NEW t
        PROVE  [u EXCEPT !.settled = t]
               = [path |-> u.path, node |-> u.node, settled |-> t, value |-> u.value,
                  memo |-> u.memo, calls |-> u.calls]
    <2>1. u = [path |-> u.path, node |-> u.node, settled |-> u.settled, value |-> u.value,
               memo |-> u.memo, calls |-> u.calls]
      BY <1>3 DEF IsWalk
    <2> QED  BY <2>1
  <1>5. n = [path |-> u.path, node |-> u.node, settled |-> FALSE, value |-> u.value,
             memo |-> u.memo, calls |-> u.calls]
    BY <1>2, <1>4
  <1> QED  BY <1>3, <1>5 DEF IsWalk, n, outermost

-----------------------------------------------------------------------------
(* Where a walk stands: each combinator of the path is on its level and the *)
(* next one, or the node, is the child it awaits.                           *)
StandsAt(path, node, tree) ==
  /\ IsSeq(path) /\ Len(path) < MaxDepth
  /\ node \in Levels(tree)[Len(path) + 1]
  /\ \A i \in 1..Len(path) :
       LET around == path[i].node
       IN  /\ around \in Levels(tree)[i] /\ around.kind \in Combinators
           /\ path[i].child \in 1..Len(Children(around))
           /\ Children(around)[path[i].child] = IF i = Len(path) THEN node ELSE path[i + 1].node

LEMMA StandsAtTop ==
  ASSUME NEW tree
  PROVE  StandsAt(<< >>, tree, tree)
  <1>1. << >> \in Seq({})  OBVIOUS
  <1>2. IsSeq(<< >>) /\ Len(<< >>) = 0  BY <1>1, SeqIsSeq
  <1>3. tree \in Levels(tree)[1]  BY LevelsDefined
  <1> QED  BY <1>2, <1>3, WhenTreeAssumption DEF StandsAt

LEMMA StandsBelow ==
  ASSUME NEW tree, TreeTyped(tree), WithinDepth(tree),
         NEW path, NEW node, StandsAt(path, node, tree),
         node.kind \in Combinators, NEW i \in 1..Len(Children(node))
  PROVE  StandsAt(Append(path, [node |-> node, child |-> i]), Children(node)[i], tree)
  <1> DEFINE frame  == [node |-> node, child |-> i]
             longer == Append(path, frame)
             child  == Children(node)[i]
             n      == Len(path)
  <1>1. IsSeq(path) /\ n \in Nat /\ n < MaxDepth /\ MaxDepth \in Nat
    BY SeqFacts, WhenTreeAssumption DEF StandsAt
  <1>2. /\ IsSeq(longer) /\ Len(longer) = n + 1
        /\ \A k \in 1..n : longer[k] = path[k]
        /\ longer[n + 1] = frame
    BY <1>1, AppendSeq
  <1>3. frame.node = node /\ frame.child = i  OBVIOUS
  <1>4. node \in Levels(tree)[n + 1] /\ n + 1 \in 1..MaxDepth  BY <1>1 DEF StandsAt
  <1>5. child \in Levels(tree)[n + 2]
    <2>1. (n + 1) + 1 = n + 2  BY <1>1
    <2> HIDE DEF n
    <2> QED  BY <1>4, <2>1, ChildrenBelow
  <1>6. n + 2 # MaxDepth + 1  BY <1>5 DEF WithinDepth
  <1>7. n + 1 < MaxDepth  BY <1>1, <1>6
  <1>8. \A k \in 1..n :
          LET around == path[k].node
          IN  /\ around \in Levels(tree)[k] /\ around.kind \in Combinators
              /\ path[k].child \in 1..Len(Children(around))
              /\ Children(around)[path[k].child] = IF k = n THEN node ELSE path[k + 1].node
    BY DEF StandsAt
  <1> HIDE DEF frame, longer, child, n
  <1>9. ASSUME NEW k \in 1..Len(longer)
        PROVE  LET around == longer[k].node
               IN  /\ around \in Levels(tree)[k] /\ around.kind \in Combinators
                   /\ longer[k].child \in 1..Len(Children(around))
                   /\ Children(around)[longer[k].child]
                        = IF k = Len(longer) THEN child ELSE longer[k + 1].node
    <2>1. CASE k = n + 1
      <3>1. longer[k].node = node /\ longer[k].child = i  BY <1>2, <1>3, <2>1
      <3>2. Children(node)[i] = child  BY DEF child
      <3> QED  BY <1>2, <1>4, <2>1, <3>1, <3>2
    <2>2. CASE k < n
      <3>1. k \in 1..n /\ k + 1 \in 1..n /\ k # n /\ k # n + 1  BY <1>1, <1>2, <2>2
      <3>2. longer[k] = path[k] /\ longer[k + 1] = path[k + 1]  BY <1>2, <3>1
      <3> QED  BY <1>2, <1>8, <3>1, <3>2
    <2>3. CASE k = n
      <3>1. k \in 1..n /\ k # n + 1  BY <1>1, <2>3
      <3>2. longer[k] = path[k] /\ longer[k + 1].node = node  BY <1>2, <1>3, <2>3, <3>1
      <3> QED  BY <1>2, <1>8, <2>3, <3>1, <3>2
    <2> QED  BY <1>1, <1>2, <2>1, <2>2, <2>3
  <1>10. child \in Levels(tree)[Len(longer) + 1]
    <2>1. Len(longer) + 1 = n + 2  BY <1>1, <1>2
    <2> QED  BY <1>5, <2>1
  <1> QED  BY <1>2, <1>7, <1>9, <1>10 DEF StandsAt, longer, child, frame

LEMMA StandsAbove ==
  ASSUME NEW tree, NEW path, NEW node, StandsAt(path, node, tree), path # << >>
  PROVE  /\ StandsAt(Front(path), Last(path).node, tree)
         /\ Last(path).node.kind \in Combinators
         /\ Last(path).child \in 1..Len(Children(Last(path).node))
         /\ Children(Last(path).node)[Last(path).child] = node
         /\ Len(path) \in 1..MaxDepth /\ Len(Front(path)) + 1 = Len(path)
  <1> DEFINE n     == Len(path)
             short == Front(path)
             last  == Last(path)
  <1>1. IsSeq(path) /\ n < MaxDepth /\ MaxDepth \in Nat
    BY WhenTreeAssumption DEF StandsAt
  <1>2. /\ IsSeq(short) /\ n \in Nat \ {0} /\ Len(short) = n - 1
        /\ \A i \in 1..(n - 1) : short[i] = path[i]
        /\ last = path[n]
    BY <1>1, FrontSeq
  <1>3. \A i \in 1..n :
          LET around == path[i].node
          IN  /\ around \in Levels(tree)[i] /\ around.kind \in Combinators
              /\ path[i].child \in 1..Len(Children(around))
              /\ Children(around)[path[i].child] = IF i = n THEN node ELSE path[i + 1].node
    BY DEF StandsAt
  <1> HIDE DEF n, short, last
  <1>4. /\ last.node \in Levels(tree)[n] /\ last.node.kind \in Combinators
        /\ last.child \in 1..Len(Children(last.node))
        /\ Children(last.node)[last.child] = node
    BY <1>2, <1>3
  <1>5. Len(short) + 1 = n /\ Len(short) < MaxDepth  BY <1>1, <1>2
  <1>6. ASSUME NEW i \in 1..Len(short)
        PROVE  LET around == short[i].node
               IN  /\ around \in Levels(tree)[i] /\ around.kind \in Combinators
                   /\ short[i].child \in 1..Len(Children(around))
                   /\ Children(around)[short[i].child]
                        = IF i = Len(short) THEN last.node ELSE short[i + 1].node
    <2>1. i \in 1..n /\ i # n /\ i \in 1..(n - 1)  BY <1>2
    <2>2. short[i] = path[i]  BY <1>2, <2>1
    <2>3. i = Len(short) => path[i + 1].node = last.node  BY <1>2, <1>5
    <2>4. i # Len(short) => short[i + 1] = path[i + 1]
      <3>1. i # Len(short) => i + 1 \in 1..(n - 1)  BY <1>2
      <3> QED  BY <1>2, <3>1
    <2> QED  BY <1>3, <2>1, <2>2, <2>3, <2>4
  <1>7. StandsAt(short, last.node, tree)  BY <1>2, <1>4, <1>5, <1>6 DEF StandsAt
  <1> QED  BY <1>1, <1>2, <1>4, <1>5, <1>7 DEF n, short, last

LEMMA MemorizedSame ==
  ASSUME NEW w, NEW n, Memorized(w), n.memo = w.memo, n.calls = w.calls
  PROVE  Memorized(n)
BY DEF Memorized, Known

(* What a walk keeps while it stands in a tree of an accepted rule. *)
WalksIn(w, tree) == IsWalk(w) /\ Memorized(w) /\ StandsAt(w.path, w.node, tree)

LEMMA NodeKeeps ==
  ASSUME NEW tree, TreeTyped(tree), WithinDepth(tree), NEW x,
         NEW w, WalksIn(w, tree)
  PROVE  WalksIn(EvaluateNode(x, w), tree)
  <1> DEFINE n    == EvaluateNode(x, w)
             says == x.event.says[w.node.name] = "true"
             none == ~Deciding(w.node)
  <1>1. /\ IsWalk(w) /\ Memorized(w) /\ StandsAt(w.path, w.node, tree)
        /\ IsSeq(w.path) /\ Len(w.path) \in Nat /\ Len(w.path) < MaxDepth /\ MaxDepth \in Nat
    BY SeqFacts, WhenTreeAssumption DEF WalksIn, StandsAt
  <1>2. w.node \in Levels(tree)[Len(w.path) + 1] /\ Len(w.path) + 1 \in 1..MaxDepth
    BY <1>1 DEF StandsAt
  <1>3. /\ w.node.kind \in {"fn", "use"} \cup Combinators
        /\ IsSeq(Children(w.node)) /\ Len(Children(w.node)) \in Nat
    BY <1>2, ChildrenBelow
  <1>4. ASSUME NEW value, n = Settle(w, value) PROVE WalksIn(n, tree)
    <2> HIDE DEF n
    <2>1. /\ IsWalk(n) /\ n.path = w.path /\ n.node = w.node
          /\ n.memo = w.memo /\ n.calls = w.calls
      BY <1>1, <1>4, SettleFields
    <2> QED  BY <1>1, <2>1, MemorizedSame DEF WalksIn
  <1>5. CASE TooDeep(w.node, Len(w.path) + 1)
    <2>1. n = Settle(w, FALSE)  BY <1>5 DEF EvaluateNode
    <2> QED  BY <1>4, <2>1
  <1>6. CASE ~TooDeep(w.node, Len(w.path) + 1) /\ w.node.kind = "fn"
    <2>1. w.node.kind # "use" /\ w.node.kind \notin Combinators  BY <1>6 DEF Combinators
    <2>2. n = Settle(w, says)  BY <1>6, <2>1 DEF EvaluateNode
    <2> QED  BY <1>4, <2>2
  <1>7. CASE ~TooDeep(w.node, Len(w.path) + 1) /\ w.node.kind = "use"
    <2>1. w.node.kind # "fn" /\ w.node.kind \notin Combinators  BY <1>7 DEF Combinators
    <2>2. n = ResolveUse(w.node, x, w)  BY <1>7, <2>1 DEF EvaluateNode
    <2> HIDE DEF n
    <2>3. IsWalk(n) /\ Memorized(n) /\ n.path = w.path /\ n.node = w.node
      BY <1>1, <2>2, ResolveKeeps
    <2> QED  BY <1>1, <2>3 DEF WalksIn, n
  <1>8. CASE /\ ~TooDeep(w.node, Len(w.path) + 1) /\ w.node.kind \in Combinators
             /\ Children(w.node) = << >>
    <2>1. w.node.kind # "fn" /\ w.node.kind # "use"  BY <1>8 DEF Combinators
    <2>2. n = Settle(w, none)  BY <1>8, <2>1 DEF EvaluateNode
    <2> QED  BY <1>4, <2>2
  <1>9. CASE /\ ~TooDeep(w.node, Len(w.path) + 1) /\ w.node.kind \in Combinators
             /\ Children(w.node) # << >>
    <2>1. w.node.kind # "fn" /\ w.node.kind # "use"  BY <1>9 DEF Combinators
    <2>2. n = Await(w, w.path, w.node, 1)  BY <1>9, <2>1 DEF EvaluateNode
    <2>3. 1 \in 1..Len(Children(w.node))
      <3>1. Children(w.node) \in Seq(Range(Children(w.node)))  BY <1>3, SeqFacts
      <3> QED  BY <1>3, <1>9, <3>1
    <2> HIDE DEF n
    <2>4. /\ IsWalk(n) /\ n.memo = w.memo /\ n.calls = w.calls
          /\ n.path = Append(w.path, [node |-> w.node, child |-> 1])
          /\ n.node = Children(w.node)[1]
      BY <1>1, <2>2, AwaitFields
    <2>5. StandsAt(n.path, n.node, tree)  BY <1>1, <1>9, <2>3, <2>4, StandsBelow
    <2> QED  BY <1>1, <2>4, <2>5, MemorizedSame DEF WalksIn, n
  <1> HIDE DEF n
  <1> QED  BY <1>3, <1>5, <1>6, <1>7, <1>8, <1>9 DEF n

LEMMA SettlesKeep ==
  ASSUME NEW tree, TreeTyped(tree), WithinDepth(tree),
         NEW w, WalksIn(w, tree), w.path # << >>
  PROVE  WalksIn(ChildSettles(w), tree)
  <1> DEFINE node  == Last(w.path).node
             child == Last(w.path).child
             above == Front(w.path)
             up    == MovedTo(w, above, node)
             not   == ~w.value
             value == w.value
             n     == ChildSettles(w)
  <1>1. IsWalk(w) /\ Memorized(w) /\ StandsAt(w.path, w.node, tree) /\ IsSeq(w.path)
    BY DEF WalksIn, StandsAt
  <1>2. /\ StandsAt(above, node, tree) /\ node.kind \in Combinators
        /\ child \in 1..Len(Children(node)) /\ IsSeq(above)
        /\ Len(w.path) \in 1..MaxDepth /\ Len(above) + 1 = Len(w.path)
    <2>1. StandsAt(above, node, tree)  BY <1>1, StandsAbove
    <2>2. /\ node.kind \in Combinators /\ child \in 1..Len(Children(node))
          /\ Len(w.path) \in 1..MaxDepth /\ Len(above) + 1 = Len(w.path)
      BY <1>1, StandsAbove
    <2> HIDE DEF above, node, child
    <2> QED  BY <2>1, <2>2 DEF StandsAt
  <1>3. n = IF node.kind = "not" THEN Settle(up, not)
            ELSE IF value = Deciding(node) \/ child = Len(Children(node)) THEN Settle(up, value)
            ELSE Await(w, above, node, child + 1)
    BY DEF ChildSettles, MovedTo
  <1>4. node \in Levels(tree)[Len(w.path)]  BY <1>2 DEF StandsAt
  <1> HIDE DEF node, child, above, up, n, not, value
  <1>5. /\ IsWalk(up) /\ up.memo = w.memo /\ up.calls = w.calls
        /\ up.path = above /\ up.node = node
    BY <1>1, <1>2, UpFields DEF up
  <1>6. ASSUME NEW v, n = Settle(up, v) PROVE WalksIn(n, tree)
    <2>1. /\ IsWalk(n) /\ n.path = above /\ n.node = node
          /\ n.memo = w.memo /\ n.calls = w.calls
      BY <1>5, <1>6, SettleFields
    <2> QED  BY <1>1, <1>2, <2>1, MemorizedSame DEF WalksIn
  <1>7. ASSUME n = Await(w, above, node, child + 1) /\ child # Len(Children(node))
        PROVE  WalksIn(n, tree)
    <2>1. /\ IsWalk(n) /\ n.memo = w.memo /\ n.calls = w.calls
          /\ n.path = Append(above, [node |-> node, child |-> child + 1])
          /\ n.node = Children(node)[child + 1]
      BY <1>1, <1>2, <1>7, AwaitFields
    <2>2. Len(Children(node)) \in Nat  BY <1>2, <1>4, ChildrenBelow
    <2>3. child + 1 \in 1..Len(Children(node))  BY <1>2, <1>7, <2>2
    <2>4. StandsAt(n.path, n.node, tree)  BY <1>2, <2>1, <2>3, StandsBelow
    <2> QED  BY <1>1, <2>1, <2>4, MemorizedSame DEF WalksIn
  <1>8. \/ n = Settle(up, not)
        \/ n = Settle(up, value)
        \/ n = Await(w, above, node, child + 1) /\ child # Len(Children(node))
    <2>1. CASE node.kind = "not"  BY <1>3, <2>1
    <2>2. CASE node.kind # "not" /\ (value = Deciding(node) \/ child = Len(Children(node)))
      BY <1>3, <2>2
    <2>3. CASE node.kind # "not" /\ ~(value = Deciding(node) \/ child = Len(Children(node)))
      BY <1>3, <2>3
    <2> QED  BY <2>1, <2>2, <2>3
  <1>9. WalksIn(n, tree)  BY <1>6, <1>7, <1>8
  <1> QED  BY <1>9 DEF n

-----------------------------------------------------------------------------
(* An evaluation. *)

IsEvaluation(ev) ==
  ev = [pc |-> ev.pc, registry |-> ev.registry, event |-> ev.event, rule |-> ev.rule,
        walk |-> ev.walk, held |-> ev.held, acts |-> ev.acts]

Refused(ev, pc, event) == [ev EXCEPT !.pc = pc, !.event = event]
Begun(ev, pc, reg, event) == [ev EXCEPT !.pc = pc, !.registry = reg, !.event = event]
MovedOn(ev, pc, rule, walk) == [ev EXCEPT !.pc = pc, !.rule = rule, !.walk = walk]
Fired(ev, pc, held, acts) == [ev EXCEPT !.pc = pc, !.held = held, !.acts = acts]

LEMMA PcUpdate ==
  ASSUME NEW ev, IsEvaluation(ev), NEW a
  PROVE  [ev EXCEPT !.pc = a]
           = [pc |-> a, registry |-> ev.registry, event |-> ev.event, rule |-> ev.rule,
              walk |-> ev.walk, held |-> ev.held, acts |-> ev.acts]
BY DEF IsEvaluation

LEMMA WalkUpdate ==
  ASSUME NEW ev, IsEvaluation(ev), NEW a
  PROVE  [ev EXCEPT !.walk = a]
           = [pc |-> ev.pc, registry |-> ev.registry, event |-> ev.event, rule |-> ev.rule,
              walk |-> a, held |-> ev.held, acts |-> ev.acts]
BY DEF IsEvaluation

LEMMA RefusedUpdate ==
  ASSUME NEW ev, IsEvaluation(ev), NEW a, NEW b
  PROVE  Refused(ev, a, b)
           = [pc |-> a, registry |-> ev.registry, event |-> b, rule |-> ev.rule,
              walk |-> ev.walk, held |-> ev.held, acts |-> ev.acts]
  <1> DEFINE one == [ev EXCEPT !.pc = a]
  <1>1. one = [pc |-> a, registry |-> ev.registry, event |-> ev.event, rule |-> ev.rule,
              walk |-> ev.walk, held |-> ev.held, acts |-> ev.acts]
    BY DEF IsEvaluation
  <1> HIDE DEF one
  <1>2. [one EXCEPT !.event = b]
          = [pc |-> a, registry |-> ev.registry, event |-> b, rule |-> ev.rule,
             walk |-> ev.walk, held |-> ev.held, acts |-> ev.acts]
    BY <1>1
  <1> QED  BY <1>2 DEF Refused, one

LEMMA BegunUpdate ==
  ASSUME NEW ev, IsEvaluation(ev), NEW a, NEW b, NEW c
  PROVE  Begun(ev, a, b, c)
           = [pc |-> a, registry |-> b, event |-> c, rule |-> ev.rule,
              walk |-> ev.walk, held |-> ev.held, acts |-> ev.acts]
  <1> DEFINE one == [ev EXCEPT !.pc = a]
             two == [one EXCEPT !.registry = b]
  <1>1. one = [pc |-> a, registry |-> ev.registry, event |-> ev.event, rule |-> ev.rule,
              walk |-> ev.walk, held |-> ev.held, acts |-> ev.acts]
    BY DEF IsEvaluation
  <1> HIDE DEF one
  <1>2. two = [pc |-> a, registry |-> b, event |-> ev.event, rule |-> ev.rule,
              walk |-> ev.walk, held |-> ev.held, acts |-> ev.acts]
    BY <1>1
  <1> HIDE DEF two
  <1>3. [two EXCEPT !.event = c]
          = [pc |-> a, registry |-> b, event |-> c, rule |-> ev.rule,
             walk |-> ev.walk, held |-> ev.held, acts |-> ev.acts]
    BY <1>2
  <1> QED  BY <1>3 DEF Begun, one, two

LEMMA MovedOnUpdate ==
  ASSUME NEW ev, IsEvaluation(ev), NEW a, NEW b, NEW c
  PROVE  MovedOn(ev, a, b, c)
           = [pc |-> a, registry |-> ev.registry, event |-> ev.event, rule |-> b,
              walk |-> c, held |-> ev.held, acts |-> ev.acts]
  <1> DEFINE one == [ev EXCEPT !.pc = a]
             two == [one EXCEPT !.rule = b]
  <1>1. one = [pc |-> a, registry |-> ev.registry, event |-> ev.event, rule |-> ev.rule,
              walk |-> ev.walk, held |-> ev.held, acts |-> ev.acts]
    BY DEF IsEvaluation
  <1> HIDE DEF one
  <1>2. two = [pc |-> a, registry |-> ev.registry, event |-> ev.event, rule |-> b,
              walk |-> ev.walk, held |-> ev.held, acts |-> ev.acts]
    BY <1>1
  <1> HIDE DEF two
  <1>3. [two EXCEPT !.walk = c]
          = [pc |-> a, registry |-> ev.registry, event |-> ev.event, rule |-> b,
             walk |-> c, held |-> ev.held, acts |-> ev.acts]
    BY <1>2
  <1> QED  BY <1>3 DEF MovedOn, one, two

LEMMA FiredUpdate ==
  ASSUME NEW ev, IsEvaluation(ev), NEW a, NEW b, NEW c
  PROVE  Fired(ev, a, b, c)
           = [pc |-> a, registry |-> ev.registry, event |-> ev.event, rule |-> ev.rule,
              walk |-> ev.walk, held |-> b, acts |-> c]
  <1> DEFINE one == [ev EXCEPT !.pc = a]
             two == [one EXCEPT !.held = b]
  <1>1. one = [pc |-> a, registry |-> ev.registry, event |-> ev.event, rule |-> ev.rule,
              walk |-> ev.walk, held |-> ev.held, acts |-> ev.acts]
    BY DEF IsEvaluation
  <1> HIDE DEF one
  <1>2. two = [pc |-> a, registry |-> ev.registry, event |-> ev.event, rule |-> ev.rule,
              walk |-> ev.walk, held |-> b, acts |-> ev.acts]
    BY <1>1
  <1> HIDE DEF two
  <1>3. [two EXCEPT !.acts = c]
          = [pc |-> a, registry |-> ev.registry, event |-> ev.event, rule |-> ev.rule,
             walk |-> ev.walk, held |-> b, acts |-> c]
    BY <1>2
  <1> QED  BY <1>3 DEF Fired, one, two

LEMMA CandidatesHold ==
  ASSUME NEW ev, NEW batch, Accepted(batch), ev.registry = BuildRegistry(batch)
  PROVE  /\ IsSeq(Candidates(ev)) /\ Len(Candidates(ev)) \in Nat
         /\ \A k \in 1..Len(Candidates(ev)) : TreeTyped(Candidates(ev)[k].when)
                                               /\ WithinDepth(Candidates(ev)[k].when)
  <1> DEFINE name  == ev.event.name
             cands == Candidates(ev)
  <1>1. \/ cands = Dispatch(batch.rules, name)
        \/ cands = << >>
    BY RegistryFields DEF Candidates
  <1> HIDE DEF cands, name
  <1>2. CASE cands = << >>
    <2>1. << >> \in Seq({})  OBVIOUS
    <2>2. IsSeq(cands) /\ Len(cands) = 0  BY <1>2, <2>1, SeqIsSeq
    <2> QED  BY <2>2 DEF cands
  <1>3. CASE cands = Dispatch(batch.rules, name)
    <2>1. /\ IsSeq(cands)
          /\ \A k \in DOMAIN cands : \E i \in DOMAIN batch.rules : batch.rules[i] = cands[k]
      BY <1>3, DispatchHolds
    <2>2. Len(cands) \in Nat /\ DOMAIN cands = 1..Len(cands)  BY <2>1, SeqFacts
    <2>3. ASSUME NEW k \in 1..Len(cands)
          PROVE  TreeTyped(cands[k].when) /\ WithinDepth(cands[k].when)
      <3>1. PICK i \in DOMAIN batch.rules : batch.rules[i] = cands[k]  BY <2>1, <2>2
      <3> QED  BY <3>1, AcceptedRules
    <2> QED  BY <2>1, <2>2, <2>3 DEF cands
  <1> QED  BY <1>1, <1>2, <1>3

Under == {"rules", "when", "failed", "over"}

EvaluationOK(ev) ==
  /\ IsEvaluation(ev) /\ ev.pc \in {"none", "rejected"} \cup Under
  /\ ev.pc = "none" => ev = Idle
  /\ IsWalk(ev.walk) /\ Memorized(ev.walk)
  /\ ev.pc \in Under =>
       /\ \E batch : Accepted(batch) /\ ev.registry = BuildRegistry(batch)
       /\ "true" \notin DOMAIN ev.event.gives
       /\ ev.rule \in 0..Len(Candidates(ev))
  /\ ev.pc = "when" =>
       ev.rule # 0 /\ StandsAt(ev.walk.path, ev.walk.node, Candidates(ev)[ev.rule].when)
  /\ ev.pc = "over" => ev.rule = Len(Candidates(ev))

LEMMA SameCandidates ==
  ASSUME NEW ev, NEW n, n.registry = ev.registry, n.event = ev.event
  PROVE  Candidates(n) = Candidates(ev)
BY DEF Candidates

LEMMA EvaluateKeeps ==
  ASSUME RegistryOK, EvaluationOK(evaluation), NEW event \in scene.events, Evaluate(event)
  PROVE  EvaluationOK(evaluation')
  <1> DEFINE ev == evaluation
             n  == evaluation'
  <1>1. ev.pc = "none" /\ ev = Idle /\ IsEvaluation(ev) /\ IsWalk(ev.walk) /\ Memorized(ev.walk)
    BY DEF Evaluate, EvaluationOK
  <1>2. "true" \notin DOMAIN event.gives
    <2>1. scene \in Scenes  BY DEF RegistryOK
    <2>2. \A e \in scene.events : "true" \notin DOMAIN e.gives  BY <2>1, RegistrationAssumption
    <2> QED  BY <2>2
  <1>3. ev.rule = 0  BY <1>1 DEF Idle
  <1>4. CASE registry = None
    <2>1. n = Refused(ev, "rejected", event)  BY <1>4 DEF Evaluate, Refused
    <2> HIDE DEF n, ev
    <2>2. n = [pc |-> "rejected", registry |-> ev.registry, event |-> event, rule |-> ev.rule,
               walk |-> ev.walk, held |-> ev.held, acts |-> ev.acts]
      BY <1>1, <2>1, RefusedUpdate
    <2> QED  BY <1>1, <2>2 DEF EvaluationOK, IsEvaluation, Under, n
  <1>5. CASE registry # None
    <2>1. n = Begun(ev, "rules", registry, event)
      BY <1>5 DEF Evaluate, Begun
    <2>2. PICK batch : Accepted(batch) /\ registry = BuildRegistry(batch)
      BY <1>5 DEF RegistryOK
    <2> HIDE DEF n, ev
    <2>3. n = [pc |-> "rules", registry |-> registry, event |-> event, rule |-> ev.rule,
               walk |-> ev.walk, held |-> ev.held, acts |-> ev.acts]
      BY <1>1, <2>1, BegunUpdate
    <2>4. Len(Candidates(n)) \in Nat
      <3>1. n.registry = BuildRegistry(batch)  BY <2>2, <2>3
      <3> QED  BY <2>2, <3>1, CandidatesHold
    <2>5. n.rule \in 0..Len(Candidates(n))  BY <1>3, <2>3, <2>4
    <2> QED  BY <1>1, <1>2, <2>2, <2>3, <2>5 DEF EvaluationOK, IsEvaluation, Under, n
  <1> QED  BY <1>4, <1>5

(* What every step of an evaluation that is under way begins with. *)
LEMMA UnderWay ==
  ASSUME NEW ev, EvaluationOK(ev), ev.pc \in Under
  PROVE  /\ IsSeq(Candidates(ev)) /\ Len(Candidates(ev)) \in Nat
         /\ \A k \in 1..Len(Candidates(ev)) : TreeTyped(Candidates(ev)[k].when)
                                               /\ WithinDepth(Candidates(ev)[k].when)
         /\ ev.rule \in 0..Len(Candidates(ev))
         /\ ev.pc = "when" => ev.rule \in 1..Len(Candidates(ev))
  <1>1. PICK batch : Accepted(batch) /\ ev.registry = BuildRegistry(batch)  BY DEF EvaluationOK
  <1>2. /\ IsSeq(Candidates(ev)) /\ Len(Candidates(ev)) \in Nat
        /\ \A k \in 1..Len(Candidates(ev)) : TreeTyped(Candidates(ev)[k].when)
                                              /\ WithinDepth(Candidates(ev)[k].when)
    BY <1>1, CandidatesHold
  <1>3. ev.rule \in 0..Len(Candidates(ev)) /\ (ev.pc = "when" => ev.rule # 0)
    BY DEF EvaluationOK
  <1> QED  BY <1>2, <1>3

LEMMA RuleKeeps ==
  ASSUME EvaluationOK(evaluation), EvaluateRule
  PROVE  EvaluationOK(evaluation')
  <1> DEFINE ev    == evaluation
             n     == evaluation'
             cands == Candidates(ev)
             tree  == cands[ev.rule + 1].when
             walk  == EvaluateWhen(tree, ev.walk)
  <1>1. /\ ev.pc = "rules" /\ ev.rule < Len(cands)
        /\ n = MovedOn(ev, "when", ev.rule + 1, walk)
    BY DEF EvaluateRule, MovedOn
  <1>2. /\ IsEvaluation(ev) /\ IsWalk(ev.walk) /\ Memorized(ev.walk)
        /\ \E batch : Accepted(batch) /\ ev.registry = BuildRegistry(batch)
        /\ "true" \notin DOMAIN ev.event.gives
    BY <1>1 DEF EvaluationOK, Under
  <1>3. Len(cands) \in Nat /\ ev.rule \in 0..Len(cands)  BY <1>1, UnderWay DEF Under
  <1>4. ev.rule + 1 \in 0..Len(cands) /\ ev.rule + 1 # 0
    <2> HIDE DEF cands, ev
    <2> QED  BY <1>1, <1>3
  <1>5. /\ IsWalk(walk) /\ walk.memo = ev.walk.memo /\ walk.calls = ev.walk.calls
        /\ walk.path = << >> /\ walk.node = tree
    <2> HIDE DEF tree
    <2> QED  BY <1>2, WhenFields
  <1> HIDE DEF walk, n, ev
  <1>6. n = [pc |-> "when", registry |-> ev.registry, event |-> ev.event, rule |-> ev.rule + 1,
             walk |-> walk, held |-> ev.held, acts |-> ev.acts]
    BY <1>1, <1>2, MovedOnUpdate
  <1>7. Candidates(n) = cands  BY <1>6, SameCandidates
  <1>8. StandsAt(walk.path, walk.node, tree)
    <2> HIDE DEF tree
    <2> QED  BY <1>5, StandsAtTop
  <1>9. Memorized(walk)  BY <1>2, <1>5, MemorizedSame
  <1>10. /\ n.rule \in 0..Len(Candidates(n)) /\ n.rule # 0
         /\ StandsAt(n.walk.path, n.walk.node, Candidates(n)[n.rule].when)
    BY <1>4, <1>6, <1>7, <1>8
  <1>11. IsEvaluation(n) /\ n.pc = "when" /\ n.walk = walk
    BY <1>6 DEF IsEvaluation
  <1>12. n.registry = ev.registry /\ n.event = ev.event  BY <1>6
  <1> QED  BY <1>2, <1>5, <1>9, <1>10, <1>11, <1>12 DEF EvaluationOK, Under, n

LEMMA WalkKeeps ==
  ASSUME EvaluationOK(evaluation), Walk
  PROVE  EvaluationOK(evaluation')
  <1> DEFINE ev    == evaluation
             n     == evaluation'
             x     == [registry |-> ev.registry, event |-> ev.event]
             tree  == Candidates(ev)[ev.rule].when
  <1>1. ev.pc = "when" /\ ev.pc \in Under  BY DEF Walk, Under
  <1>2. PICK walk : /\ n = [ev EXCEPT !.walk = walk]
                    /\ \/ walk = EvaluateNode(x, ev.walk)
                       \/ ev.walk.path # << >> /\ walk = ChildSettles(ev.walk)
    BY DEF Walk
  <1>3. /\ IsEvaluation(ev)
        /\ \E batch : Accepted(batch) /\ ev.registry = BuildRegistry(batch)
        /\ "true" \notin DOMAIN ev.event.gives
        /\ ev.rule \in 0..Len(Candidates(ev)) /\ ev.rule # 0
        /\ WalksIn(ev.walk, tree)
    BY <1>1 DEF EvaluationOK, WalksIn
  <1>4. TreeTyped(tree) /\ WithinDepth(tree)
    BY <1>1, UnderWay
  <1> HIDE DEF n, ev, tree, x
  <1>5. WalksIn(walk, tree)  BY <1>2, <1>3, <1>4, NodeKeeps, SettlesKeep
  <1>6. n = [pc |-> ev.pc, registry |-> ev.registry, event |-> ev.event, rule |-> ev.rule,
             walk |-> walk, held |-> ev.held, acts |-> ev.acts]
    BY <1>2, <1>3, WalkUpdate
  <1>7. /\ n.pc = "when" /\ n.registry = ev.registry /\ n.event = ev.event
        /\ n.rule = ev.rule /\ n.walk = walk
    BY <1>1, <1>6
  <1>8. Candidates(n) = Candidates(ev)  BY <1>7, SameCandidates
  <1>9. IsEvaluation(n)  BY <1>6 DEF IsEvaluation
  <1>10. StandsAt(n.walk.path, n.walk.node, Candidates(n)[n.rule].when)
         /\ IsWalk(n.walk) /\ Memorized(n.walk)
    BY <1>5, <1>7, <1>8 DEF WalksIn, tree
  <1>11. n.rule \in 0..Len(Candidates(n)) /\ n.rule # 0  BY <1>3, <1>7, <1>8
  <1> QED  BY <1>3, <1>7, <1>9, <1>10, <1>11 DEF EvaluationOK, Under, n

LEMMA ReturnsKeep ==
  ASSUME EvaluationOK(evaluation), WhenReturns
  PROVE  EvaluationOK(evaluation')
  <1> DEFINE ev == evaluation
             n  == evaluation'
  <1>1. ev.pc = "when" /\ ev.pc \in Under  BY DEF WhenReturns, Under
  <1>a. PICK pc \in {"rules", "failed"} : \E held, acts :
          \/ n = [ev EXCEPT !.pc = pc]
          \/ n = Fired(ev, pc, held, acts)
    BY DEF WhenReturns, Fired
  <1>2. PICK held, acts :
          \/ n = [ev EXCEPT !.pc = pc]
          \/ n = Fired(ev, pc, held, acts)
    BY <1>a
  <1>3. /\ IsEvaluation(ev) /\ IsWalk(ev.walk) /\ Memorized(ev.walk)
        /\ \E batch : Accepted(batch) /\ ev.registry = BuildRegistry(batch)
        /\ "true" \notin DOMAIN ev.event.gives
        /\ ev.rule \in 0..Len(Candidates(ev))
    BY <1>1 DEF EvaluationOK
  <1> HIDE DEF n, ev
  <1>4. PICK h, a : n = [pc |-> pc, registry |-> ev.registry, event |-> ev.event,
                          rule |-> ev.rule, walk |-> ev.walk, held |-> h, acts |-> a]
    <2>1. CASE n = [ev EXCEPT !.pc = pc]  BY <1>3, <2>1, PcUpdate
    <2>2. CASE n = Fired(ev, pc, held, acts)
      <3>1. n = [pc |-> pc, registry |-> ev.registry, event |-> ev.event,
                 rule |-> ev.rule, walk |-> ev.walk, held |-> held, acts |-> acts]
        BY <1>3, <2>2, FiredUpdate
      <3> QED  BY <3>1
    <2> QED  BY <1>2, <2>1, <2>2
  <1>5. /\ n.pc \in {"rules", "failed"} /\ n.registry = ev.registry /\ n.event = ev.event
        /\ n.rule = ev.rule /\ n.walk = ev.walk /\ IsEvaluation(n)
    BY <1>2, <1>4 DEF IsEvaluation
  <1>6. Candidates(n) = Candidates(ev)  BY <1>5, SameCandidates
  <1> QED  BY <1>3, <1>5, <1>6 DEF EvaluationOK, Under, n

LEMMA OverKeeps ==
  ASSUME EvaluationOK(evaluation), EvaluationOver
  PROVE  EvaluationOK(evaluation')
  <1> DEFINE ev == evaluation
             n  == evaluation'
  <1>1. /\ ev.pc = "rules" /\ ev.rule = Len(Candidates(ev))
        /\ n = [ev EXCEPT !.pc = "over"]
    BY DEF EvaluationOver
  <1>2. /\ IsEvaluation(ev) /\ IsWalk(ev.walk) /\ Memorized(ev.walk)
        /\ \E batch : Accepted(batch) /\ ev.registry = BuildRegistry(batch)
        /\ "true" \notin DOMAIN ev.event.gives
        /\ ev.rule \in 0..Len(Candidates(ev))
    BY <1>1 DEF EvaluationOK, Under
  <1> HIDE DEF n, ev
  <1>3. n = [pc |-> "over", registry |-> ev.registry, event |-> ev.event, rule |-> ev.rule,
             walk |-> ev.walk, held |-> ev.held, acts |-> ev.acts]
    BY <1>1, <1>2, PcUpdate
  <1>4. /\ n.pc = "over" /\ n.registry = ev.registry /\ n.event = ev.event
        /\ n.rule = ev.rule /\ n.walk = ev.walk /\ IsEvaluation(n)
    BY <1>3 DEF IsEvaluation
  <1>5. Candidates(n) = Candidates(ev)  BY <1>4, SameCandidates
  <1> QED  BY <1>1, <1>2, <1>4, <1>5 DEF EvaluationOK, Under, n

LEMMA StartIsWalk == IsWalk(Start) /\ Memorized(Start)
  <1>1. << >> \in Seq({})  OBVIOUS
  <1>2. IsSeq(<< >>)  BY <1>1, SeqIsSeq
  <1>3. DOMAIN << >> = {}  BY <1>1
  <1> QED  BY <1>2, <1>3 DEF IsWalk, Memorized, Start

LEMMA EvaluationInvariant == Spec => []EvaluationOK(evaluation)
  <1>1. Init => EvaluationOK(evaluation)
    <2> SUFFICES ASSUME evaluation = Idle PROVE EvaluationOK(evaluation)  BY DEF Init
    <2> QED  BY StartIsWalk DEF EvaluationOK, IsEvaluation, Idle, Under
  <1>2. RegistryOK /\ EvaluationOK(evaluation) /\ [Next]_vars => EvaluationOK(evaluation)'
    <2> SUFFICES ASSUME RegistryOK, EvaluationOK(evaluation), [Next]_vars
                 PROVE  EvaluationOK(evaluation')
      OBVIOUS
    <2>1. CASE \E batch \in scene.batches : Register(batch)  BY <2>1 DEF Register
    <2>2. CASE \E event \in scene.events : Evaluate(event)  BY <2>2, EvaluateKeeps
    <2>3. CASE EvaluateRule  BY <2>3, RuleKeeps
    <2>4. CASE Walk  BY <2>4, WalkKeeps
    <2>5. CASE WhenReturns  BY <2>5, ReturnsKeep
    <2>6. CASE EvaluationOver  BY <2>6, OverKeeps
    <2>7. CASE UNCHANGED vars  BY <2>7 DEF vars
    <2> QED  BY <2>1, <2>2, <2>3, <2>4, <2>5, <2>6, <2>7 DEF Next
  <1> QED  BY <1>1, <1>2, RegistryInvariant, PTL DEF Spec

(* Over a whole evaluation, and whatever is registered meanwhile, no        *)
(* predicate is called twice with arguments that have one key: its answer   *)
(* is in the memo from the first call on.                                   *)
THEOREM QuestionsAreAskedOnce == Spec => []EachQuestionOnce
  <1>1. EvaluationOK(evaluation) => EachQuestionOnce
    BY DEF EvaluationOK, Memorized, KeyOf, EachQuestionOnce
  <1> QED  BY <1>1, EvaluationInvariant, PTL

-----------------------------------------------------------------------------
(* What trees mean. *)

LEMMA MeaningsDefined ==
  ASSUME NEW tree, WithinDepth(tree), NEW x
  PROVE  \A d \in 1..MaxDepth : \A node \in Levels(tree)[d] :
           Meanings(tree, x)[d][node] = MeaningOf(node, x, Meanings(tree, x)[d + 1])
  <1> DEFINE N == MaxDepth + 1
             Step(f, d) == [node \in Levels(tree)[d] |-> MeaningOf(node, x, f[d + 1])]
             Good(f, k) == \A d \in 1..N : d > N - k => f[d] = Step(f, d)
             T == { k \in Nat : ~ \E f : Good(f, k) }
  <1>1. N \in Nat /\ MaxDepth \in Nat /\ N = MaxDepth + 1 /\ 1 \in 1..N  BY WhenTreeAssumption
  <1>2. Levels(tree)[N] = {}  BY DEF WithinDepth
  <1> HIDE DEF N
  <1>3. ASSUME NEW f, NEW g, NEW d, f[d + 1] = g[d + 1] \/ d = N
        PROVE  Step(f, d) = Step(g, d)
    BY <1>2, <1>3
  <1> HIDE DEF Step
  <1>4. T = {}
    <2> SUFFICES ASSUME T # {} PROVE FALSE  OBVIOUS
    <2>1. PICK k \in T : \A m \in T : k <= m  BY NatMin
    <2>2. CASE k = 0
      <3>1. Good([d \in 1..N |-> {}], 0)  BY <1>1
      <3> QED  BY <2>1, <2>2, <3>1
    <2>3. CASE k # 0
      <3>1. k \in Nat /\ k - 1 \in Nat  BY <2>1, <2>3
      <3>2. k - 1 \notin T
        <4> HIDE DEF T
        <4> QED  BY <2>1, <3>1
      <3>3. PICK f : Good(f, k - 1)  BY <3>1, <3>2
      <3> DEFINE g == [d \in 1..N |-> IF d > N - (k - 1) THEN f[d] ELSE Step(f, d)]
      <3>4. Good(g, k)
        <4> SUFFICES ASSUME NEW d \in 1..N, d > N - k PROVE g[d] = Step(g, d)  OBVIOUS
        <4>1. g[d] = Step(f, d)  BY <3>3
        <4>2. f[d + 1] = g[d + 1] \/ d = N
          <5>1. CASE d = N  BY <5>1
          <5>2. CASE d # N
            <6>1. d + 1 \in 1..N /\ d + 1 > N - (k - 1)  BY <1>1, <3>1, <5>2
            <6> QED  BY <6>1
          <5> QED  BY <5>1, <5>2
        <4> HIDE DEF g
        <4>3. Step(f, d) = Step(g, d)  BY <1>3, <4>2
        <4> QED  BY <4>1, <4>3
      <3> HIDE DEF Good
      <3> QED  BY <2>1, <3>1, <3>4
    <2> QED  BY <2>2, <2>3
  <1>5. PICK f : \A d \in 1..N : f[d] = Step(f, d)
    <2>1. N \notin T
      <3> HIDE DEF T
      <3> QED  BY <1>4
    <2>2. PICK f : Good(f, N)  BY <1>1, <2>1
    <2>3. \A d \in 1..N : d > N - N  BY <1>1
    <2> QED  BY <2>2, <2>3
  <1> DEFINE g == [d \in 1..N |-> f[d]]
  <1>6. g = [d \in 1..N |-> Step(g, d)]
    <2>1. ASSUME NEW d \in 1..N PROVE g[d] = Step(g, d)
      <3>1. f[d] = Step(f, d)  BY <1>5
      <3>2. d # N => d + 1 \in 1..N  BY <1>1
      <3>3. f[d + 1] = g[d + 1] \/ d = N  BY <3>2
      <3>4. g[d] = f[d]  OBVIOUS
      <3> HIDE DEF g
      <3> QED  BY <1>3, <3>1, <3>3, <3>4
    <2> HIDE DEF g
    <2>2. g = [d \in 1..N |-> g[d]]  BY DEF g
    <2> QED  BY <2>1, <2>2
  <1> HIDE DEF g
  <1>7. Meanings(tree, x) = CHOOSE s : s = [d \in 1..N |-> Step(s, d)]
    BY DEF Meanings, N, Step
  <1>8. Meanings(tree, x) = [d \in 1..N |-> Step(Meanings(tree, x), d)]
    BY <1>6, <1>7
  <1> DEFINE meanings == Meanings(tree, x)
  <1> HIDE DEF meanings
  <1>9. meanings = [d \in 1..N |-> Step(meanings, d)]  BY <1>8 DEF meanings
  <1>10. \A d \in 1..N : meanings[d] = Step(meanings, d)  BY <1>9
  <1>11. ASSUME NEW d \in 1..MaxDepth, NEW node \in Levels(tree)[d]
         PROVE  meanings[d][node] = MeaningOf(node, x, meanings[d + 1])
    <2>1. d \in 1..N  BY <1>1
    <2>2. meanings[d] = [n \in Levels(tree)[d] |-> MeaningOf(n, x, meanings[d + 1])]
      BY <1>10, <2>1 DEF Step
    <2> QED  BY <2>2
  <1> QED  BY <1>11 DEF meanings

-----------------------------------------------------------------------------
(* What the memo is good for.  Apart from the exceptions a key stands for   *)
(* one set of arguments, and these alone decide the answer.                 *)

Unconfused(args) ==
  args = [k \in DOMAIN args |-> args[k]] /\ \A k \in DOMAIN args : args[k] \notin Confused

LEMMA KeysTellApart ==
  ASSUME NEW a, NEW b, Unconfused(a), Unconfused(b), Canonical(a) = Canonical(b)
  PROVE  a = b
  <1>1. DOMAIN JsonOf = {"undefined", "nan", "monday", "tuesday"} /\ JsonOf["undefined"] = "null"
    BY DEF JsonOf
  <1>2. DOMAIN Canonical(a) = DOMAIN a /\ DOMAIN Canonical(b) = DOMAIN b  BY DEF Canonical
  <1>3. ASSUME NEW k \in DOMAIN a PROVE a[k] = b[k]
    <2>1. k \in DOMAIN b  BY <1>2
    <2>2. Canonical(a)[k] = IF a[k] \in DOMAIN JsonOf THEN JsonOf[a[k]] ELSE a[k]
      BY DEF Canonical
    <2>3. Canonical(b)[k] = IF b[k] \in DOMAIN JsonOf THEN JsonOf[b[k]] ELSE b[k]
      BY <2>1 DEF Canonical
    <2>4. a[k] \notin {"monday", "tuesday", "null", "nan"}
          /\ b[k] \notin {"monday", "tuesday", "null", "nan"}
      BY <2>1 DEF Unconfused, Confused
    <2>5. Canonical(a)[k] = IF a[k] = "undefined" THEN "null" ELSE a[k]  BY <1>1, <2>2, <2>4
    <2>6. Canonical(b)[k] = IF b[k] = "undefined" THEN "null" ELSE b[k]  BY <1>1, <2>3, <2>4
    <2> QED  BY <2>4, <2>5, <2>6
  <1>4. DOMAIN a = DOMAIN b  BY <1>2
  <1> QED  BY <1>3, <1>4 DEF Unconfused

PlainArgs(args) == \A k \in DOMAIN args : args[k] \notin Confused

Plain(x) ==
  /\ "true" \notin DOMAIN x.event.gives /\ PlainArgs(x.event.gives)
  /\ \A name \in DOMAIN x.registry.predicates :
       LET pinned == x.registry.predicates[name].pinned
       IN  PlainArgs(pinned) /\ ArgOf(pinned, "failOpen") \in {"true", "undefined"}

LEMMA MergedPlain ==
  ASSUME NEW pinned, NEW args, NEW event, PlainArgs(pinned), PlainArgs(args),
         PlainArgs(event.gives), "true" \notin DOMAIN event.gives,
         ArgOf(pinned, "failOpen") \in {"true", "undefined"}
  PROVE  LET merged == Merged(pinned, Resolve(args, event))
         IN  /\ Unconfused(merged)
             /\ Open(pinned) => Open(merged)
             /\ Open(args) => Open(merged)
  <1> DEFINE given  == Resolve(args, event)
             merged == Merged(pinned, given)
  <1>1. DOMAIN given = DOMAIN args  BY DEF Resolve
  <1>2. \A k \in DOMAIN args : given[k] =
          IF args[k] \in DOMAIN event.gives THEN event.gives[args[k]] ELSE args[k]
    BY DEF Resolve
  <1>3. \A k \in DOMAIN given : given[k] \notin Confused
    BY <1>1, <1>2 DEF PlainArgs
  <1> HIDE DEF given
  <1>4. merged = [k \in DOMAIN given \cup Defined(pinned) |->
                    IF k \in Defined(pinned) THEN pinned[k] ELSE given[k]]
    BY DEF Merged
  <1> HIDE DEF merged
  <1>5. /\ DOMAIN merged = DOMAIN given \cup Defined(pinned)
        /\ \A k \in DOMAIN merged :
             merged[k] = IF k \in Defined(pinned) THEN pinned[k] ELSE given[k]
        /\ merged = [k \in DOMAIN merged |-> merged[k]]
    BY <1>4
  <1>6. \A k \in Defined(pinned) : k \in DOMAIN pinned  BY DEF Defined
  <1>7. Unconfused(merged)  BY <1>3, <1>5, <1>6 DEF Unconfused, PlainArgs
  <1>8. ASSUME Open(pinned) PROVE Open(merged)
    <2>1. "failOpen" \in DOMAIN pinned /\ pinned["failOpen"] = "true"  BY <1>8 DEF Open, ArgOf
    <2>2. "failOpen" \in Defined(pinned)  BY <2>1 DEF Defined
    <2>3. "failOpen" \in DOMAIN merged /\ merged["failOpen"] = "true"  BY <1>5, <2>1, <2>2
    <2> QED  BY <2>3 DEF Open, ArgOf
  <1>9. ASSUME Open(args) PROVE Open(merged)
    <2>1. "failOpen" \in DOMAIN args /\ args["failOpen"] = "true"  BY <1>9 DEF Open, ArgOf
    <2>2. "failOpen" \in DOMAIN given /\ given["failOpen"] = "true"  BY <1>1, <1>2, <2>1
    <2>3. "failOpen" \in Defined(pinned) => pinned["failOpen"] = "true"
      BY DEF Defined, ArgOf
    <2>4. "failOpen" \in DOMAIN merged /\ merged["failOpen"] = "true"  BY <1>5, <2>2, <2>3
    <2> QED  BY <2>4 DEF Open, ArgOf
  <1> QED  BY <1>7, <1>8, <1>9 DEF merged, given

Judged(name, args, x) ==
  LET judges == x.event.judges[name][ArgOf(args, "x")]
  IN  IF Accepts(x.registry.predicates[name].schema, args) /\ judges # "throws"
      THEN judges = "true" ELSE Open(args)

MemoOK(w, x) ==
  \A i \in DOMAIN w.memo : \E name, args :
    Unconfused(args) /\ w.memo[i].key = <<name, Canonical(args)>>
    /\ w.memo[i].value = Judged(name, args, x)

Answer(node, x) ==
  LET pinned == x.registry.predicates[node.name].pinned
      merged == Merged(pinned, Resolve(node.args, x.event))
  IN  IF node.name \notin DOMAIN x.registry.predicates THEN FALSE
      ELSE IF ~Resolves(node.args, x.event) THEN Open(pinned) \/ Open(node.args)
      ELSE IF ~HasJson(merged) THEN Open(merged)
      ELSE Judged(node.name, merged, x)

LEMMA AnswerIsBoolean ==
  ASSUME NEW node, NEW x
  PROVE  Answer(node, x) \in BOOLEAN
  <1>1. \A args : Open(args) \in BOOLEAN  BY DEF Open
  <1>2. \A name, args : Judged(name, args, x) \in BOOLEAN  BY <1>1 DEF Judged
  <1> QED  BY <1>1, <1>2 DEF Answer

LEMMA MemoGrows ==
  ASSUME NEW x, NEW w, IsWalk(w), MemoOK(w, x), NEW name, NEW args, Unconfused(args),
         NEW n, n.memo = Append(w.memo, [key |-> <<name, Canonical(args)>>,
                                         value |-> Judged(name, args, x)])
  PROVE  MemoOK(n, x)
  <1> DEFINE entry == [key |-> <<name, Canonical(args)>>, value |-> Judged(name, args, x)]
             N     == Len(w.memo)
  <1>1. entry.key = <<name, Canonical(args)>> /\ entry.value = Judged(name, args, x)
    OBVIOUS
  <1>2. n.memo = Append(w.memo, entry)  OBVIOUS
  <1> HIDE DEF entry
  <1>3. /\ DOMAIN n.memo = 1..(N + 1) /\ n.memo[N + 1] = entry
        /\ \A i \in 1..N : n.memo[i] = w.memo[i]
        /\ N \in Nat /\ DOMAIN w.memo = 1..N
    BY <1>2, AppendSeq, SeqFacts DEF IsWalk
  <1> HIDE DEF N
  <1> SUFFICES ASSUME NEW i \in DOMAIN n.memo
               PROVE  \E m, a : Unconfused(a) /\ n.memo[i].key = <<m, Canonical(a)>>
                                /\ n.memo[i].value = Judged(m, a, x)
    BY DEF MemoOK
  <1>4. CASE i = N + 1  BY <1>1, <1>3, <1>4
  <1>5. CASE i # N + 1
    <2>1. i \in DOMAIN w.memo /\ n.memo[i] = w.memo[i]  BY <1>3, <1>5
    <2> QED  BY <2>1 DEF MemoOK
  <1> QED  BY <1>4, <1>5

(* Where a predicate is asked for, the memo answers as the predicate would, *)
(* and goes on doing so.                                                    *)
LEMMA ResolveAnswers ==
  ASSUME NEW x, Plain(x), NEW node, PlainArgs(node.args),
         NEW w, IsWalk(w), MemoOK(w, x)
  PROVE  LET n == ResolveUse(node, x, w)
         IN  MemoOK(n, x) /\ n.value = Answer(node, x)
  <1> DEFINE pred   == x.registry.predicates[node.name]
             merged == Merged(pred.pinned, Resolve(node.args, x.event))
             fail   == Open(pred.pinned) \/ Open(node.args)
             key    == <<node.name, Canonical(merged)>>
             call   == CallOf(node.name, merged, x)
             failed == fail \/ Open(merged)
             asked  == [w EXCEPT !.calls = Append(w.calls, call)]
             judged == IF call.judges = "throws" THEN failed ELSE call.judges = "true"
             n      == ResolveUse(node, x, w)
  <1>1. n = IF node.name \notin DOMAIN x.registry.predicates THEN Settle(w, FALSE)
            ELSE IF ~Resolves(node.args, x.event) THEN Settle(w, fail)
            ELSE IF ~HasJson(merged) THEN Settle(w, failed)
            ELSE IF Known(w, key) THEN Settle(w, Recall(w, key))
            ELSE IF ~Accepts(pred.schema, merged) THEN Remember(w, key, failed)
            ELSE Remember(asked, key, judged)
    BY DEF ResolveUse
  <1>2. Answer(node, x) = IF node.name \notin DOMAIN x.registry.predicates THEN FALSE
                          ELSE IF ~Resolves(node.args, x.event) THEN fail
                          ELSE IF ~HasJson(merged) THEN Open(merged)
                          ELSE Judged(node.name, merged, x)
    BY DEF Answer
  <1>3. call.judges = x.event.judges[node.name][ArgOf(merged, "x")]  BY DEF CallOf
  <1>4. Judged(node.name, merged, x) =
          IF Accepts(pred.schema, merged) /\ call.judges # "throws"
          THEN call.judges = "true" ELSE Open(merged)
    BY <1>3 DEF Judged
  <1>5. ASSUME node.name \in DOMAIN x.registry.predicates
        PROVE  Unconfused(merged) /\ failed = Open(merged)
    <2>1. /\ Unconfused(merged)
          /\ Open(pred.pinned) => Open(merged)
          /\ Open(node.args) => Open(merged)
      <3>1. /\ PlainArgs(pred.pinned) /\ PlainArgs(x.event.gives)
            /\ "true" \notin DOMAIN x.event.gives
            /\ ArgOf(pred.pinned, "failOpen") \in {"true", "undefined"}
        BY <1>5 DEF Plain
      <3> QED  BY <3>1, MergedPlain
    <2>2. Open(merged) \in BOOLEAN  BY DEF Open
    <2> QED  BY <2>1, <2>2
  <1>6. key = <<node.name, Canonical(merged)>>  OBVIOUS
  <1>7. IsWalk(asked) /\ asked.memo = w.memo
    <2>1. IsSeq(Append(w.calls, call))  BY AppendSeq DEF IsWalk
    <2>2. ASSUME NEW calls
          PROVE  [w EXCEPT !.calls = calls]
                   = [path |-> w.path, node |-> w.node, settled |-> w.settled, value |-> w.value,
                      memo |-> w.memo, calls |-> calls]
      <3> HIDE DEF asked, judged, failed, key, call, merged, pred, fail, n
      <3> QED  BY DEF IsWalk
    <2>3. asked = [path |-> w.path, node |-> w.node, settled |-> w.settled, value |-> w.value,
                   memo |-> w.memo, calls |-> Append(w.calls, call)]
      BY <2>2
    <2> QED  BY <2>1, <2>3 DEF IsWalk
  <1> HIDE DEF pred, merged, fail, key, call, failed, asked, judged, n
  <1>8. ASSUME NEW value, n = Settle(w, value)
        PROVE  MemoOK(n, x) /\ n.value = value
    <2>1. n.value = value /\ n.memo = w.memo  BY <1>8, SettleFields
    <2> QED  BY <2>1 DEF MemoOK
  <1>9. ASSUME NEW before, IsWalk(before), before.memo = w.memo, NEW value,
               node.name \in DOMAIN x.registry.predicates,
               value = Judged(node.name, merged, x), n = Remember(before, key, value)
        PROVE  MemoOK(n, x) /\ n.value = Judged(node.name, merged, x)
    <2>1. /\ n.value = value
          /\ n.memo = Append(w.memo, [key |-> key, value |-> value])
      BY <1>9, RememberFields
    <2> QED  BY <1>5, <1>6, <1>9, <2>1, MemoGrows
  <1>10. CASE node.name \notin DOMAIN x.registry.predicates
    <2>1. n = Settle(w, FALSE) /\ Answer(node, x) = FALSE  BY <1>1, <1>2, <1>10
    <2> QED  BY <1>8, <2>1 DEF n
  <1>11. CASE node.name \in DOMAIN x.registry.predicates /\ ~Resolves(node.args, x.event)
    <2>1. n = Settle(w, fail) /\ Answer(node, x) = fail  BY <1>1, <1>2, <1>11
    <2> QED  BY <1>8, <2>1 DEF n
  <1>12. CASE /\ node.name \in DOMAIN x.registry.predicates /\ Resolves(node.args, x.event)
              /\ ~HasJson(merged)
    <2>1. n = Settle(w, failed) /\ Answer(node, x) = Open(merged)  BY <1>1, <1>2, <1>12
    <2> QED  BY <1>5, <1>8, <1>12, <2>1 DEF n
  <1>13. CASE /\ node.name \in DOMAIN x.registry.predicates /\ Resolves(node.args, x.event)
              /\ HasJson(merged) /\ Known(w, key)
    <2>1. n = Settle(w, Recall(w, key)) /\ Answer(node, x) = Judged(node.name, merged, x)
      BY <1>1, <1>2, <1>13
    <2>2. PICK i \in DOMAIN w.memo : w.memo[i].key = key /\ Recall(w, key) = w.memo[i].value
      BY <1>13 DEF Known, Recall
    <2>3. PICK name, args : Unconfused(args) /\ w.memo[i].key = <<name, Canonical(args)>>
                            /\ w.memo[i].value = Judged(name, args, x)
      BY <2>2 DEF MemoOK
    <2>4. name = node.name /\ Canonical(args) = Canonical(merged)  BY <1>6, <2>2, <2>3
    <2>5. args = merged  BY <1>5, <1>13, <2>3, <2>4, KeysTellApart
    <2> QED  BY <1>8, <2>1, <2>2, <2>3, <2>4, <2>5 DEF n
  <1>14. CASE /\ node.name \in DOMAIN x.registry.predicates /\ Resolves(node.args, x.event)
              /\ HasJson(merged) /\ ~Known(w, key) /\ ~Accepts(pred.schema, merged)
    <2>1. n = Remember(w, key, failed) /\ Answer(node, x) = Judged(node.name, merged, x)
      BY <1>1, <1>2, <1>14
    <2>2. failed = Judged(node.name, merged, x)  BY <1>4, <1>5, <1>14
    <2> QED  BY <1>9, <1>14, <2>1, <2>2 DEF n
  <1>15. CASE /\ node.name \in DOMAIN x.registry.predicates /\ Resolves(node.args, x.event)
              /\ HasJson(merged) /\ ~Known(w, key) /\ Accepts(pred.schema, merged)
    <2>1. n = Remember(asked, key, judged) /\ Answer(node, x) = Judged(node.name, merged, x)
      BY <1>1, <1>2, <1>15
    <2>2. judged = Judged(node.name, merged, x)
      <3>1. judged = IF call.judges = "throws" THEN Open(merged) ELSE call.judges = "true"
        BY <1>5, <1>15 DEF judged
      <3> QED  BY <1>4, <1>15, <3>1
    <2> QED  BY <1>7, <1>9, <1>15, <2>1, <2>2 DEF n
  <1> QED  BY <1>10, <1>11, <1>12, <1>13, <1>14, <1>15

-----------------------------------------------------------------------------
(* What the nodes of a tree mean, and what a walk has found out so far.     *)

Means(tree, x, d, node) == Meanings(tree, x)[d][node]

PlainTree(tree) ==
  /\ \A use \in Uses(tree) : PlainArgs(use.args)
  /\ \A node \in Levels(tree)[MaxDepth] : node.kind # "all"

LEMMA MeansDefined ==
  ASSUME NEW tree, TreeTyped(tree), WithinDepth(tree), PlainTree(tree), NEW x, Plain(x),
         NEW d \in 1..MaxDepth, NEW node \in Levels(tree)[d]
  PROVE  /\ Means(tree, x, d, node) \in BOOLEAN
         /\ node.kind = "fn" => Means(tree, x, d, node) = (x.event.says[node.name] = "true")
         /\ node.kind = "use" => Means(tree, x, d, node) = Answer(node, x)
         /\ node.kind = "not" =>
              Means(tree, x, d, node) = ~Means(tree, x, d + 1, Children(node)[1])
  <1> DEFINE below == Meanings(tree, x)[d + 1]
             value == Meanings(tree, x)[d][node]
             alone == ResolveUse(node, x, Start)
             C     == Children(node)
  <1>1. value = MeaningOf(node, x, below)  BY MeaningsDefined
  <1>2. /\ node.kind \in {"fn", "use", "all", "any", "not"}
        /\ node.kind = "not" => C = <<node.child>>
    BY ChildrenBelow DEF Combinators
  <1>3. /\ value = Means(tree, x, d, node)
        /\ \A i : below[C[i]] = Means(tree, x, d + 1, C[i])
    BY DEF Means
  <1> HIDE DEF below, value, alone, C
  <1>4. CASE node.kind = "fn"
    <2>1. value = (x.event.says[node.name] = "true")  BY <1>1, <1>4 DEF MeaningOf
    <2> QED  BY <1>3, <1>4, <2>1
  <1>5. CASE node.kind = "use"
    <2>1. value = alone.value  BY <1>1, <1>5 DEF MeaningOf, alone
    <2>2. PlainArgs(node.args)  BY <1>5 DEF PlainTree, Uses, Nodes
    <2>3. MemoOK(Start, x) /\ IsWalk(Start)
      <3>1. << >> \in Seq({})  OBVIOUS
      <3>2. DOMAIN << >> = {}  BY <3>1
      <3> QED  BY <3>2, StartIsWalk DEF MemoOK, Start
    <2>4. alone.value = Answer(node, x)  BY <2>2, <2>3, ResolveAnswers DEF alone
    <2> QED  BY <1>3, <1>5, <2>1, <2>4, AnswerIsBoolean
  <1>6. CASE node.kind = "not"
    <2>1. value = ~below[node.child]  BY <1>1, <1>6 DEF MeaningOf
    <2>2. C[1] = node.child  BY <1>2, <1>6
    <2> QED  BY <1>3, <1>6, <2>1, <2>2 DEF C
  <1>7. CASE node.kind \in {"all", "any"}
    <2>1. value \in BOOLEAN  BY <1>1, <1>7 DEF MeaningOf
    <2> QED  BY <1>3, <1>7, <2>1
  <1> QED  BY <1>2, <1>4, <1>5, <1>6, <1>7

(* One child with the deciding value decides; without one the others do.    *)
LEMMA ChildrenDecide ==
  ASSUME NEW tree, TreeTyped(tree), WithinDepth(tree), PlainTree(tree), NEW x, Plain(x),
         NEW d \in 1..MaxDepth, NEW node \in Levels(tree)[d], node.kind \in {"all", "any"}
  PROVE  /\ \A i \in 1..Len(Children(node)) :
              Means(tree, x, d + 1, Children(node)[i]) = Deciding(node) =>
                Means(tree, x, d, node) = Deciding(node)
         /\ (\A i \in 1..Len(Children(node)) :
               Means(tree, x, d + 1, Children(node)[i]) # Deciding(node))
              => Means(tree, x, d, node) = ~Deciding(node)
  <1> DEFINE C     == Children(node)
             below == Meanings(tree, x)[d + 1]
             v     == Meanings(tree, x)[d][node]
  <1>1. v = MeaningOf(node, x, below)  BY MeaningsDefined
  <1>2. DOMAIN C = 1..Len(C) /\ C = node.children  BY ChildrenBelow
  <1>3. \A i \in 1..Len(C) : below[C[i]] \in BOOLEAN
    <2> SUFFICES ASSUME NEW i \in 1..Len(C) PROVE Means(tree, x, d + 1, C[i]) \in BOOLEAN
      BY DEF Means
    <2>1. C[i] \in Levels(tree)[d + 1]  BY ChildrenBelow
    <2>2. d + 1 \in 1..MaxDepth
      <3>1. d \in Nat /\ d <= MaxDepth /\ MaxDepth \in Nat  BY WhenTreeAssumption
      <3>2. d + 1 # MaxDepth + 1  BY <2>1 DEF WithinDepth
      <3> QED  BY <3>1, <3>2
    <2> QED  BY <2>1, <2>2, MeansDefined
  <1> HIDE DEF C, below, v
  <1>4. /\ \A i \in 1..Len(C) : below[C[i]] = Deciding(node) => v = Deciding(node)
        /\ (\A i \in 1..Len(C) : below[C[i]] # Deciding(node)) => v = ~Deciding(node)
    <2>1. CASE node.kind = "all"
      <3>1. Deciding(node) = FALSE  BY <2>1 DEF Deciding
      <3>2. v = (\A i \in DOMAIN node.children : below[node.children[i]])
        BY <1>1, <2>1 DEF MeaningOf
      <3>3. v = (\A i \in 1..Len(C) : below[C[i]])  BY <1>2, <3>2
      <3>4. ASSUME NEW i \in 1..Len(C), below[C[i]] = FALSE PROVE v = FALSE  BY <3>3, <3>4
      <3>5. ASSUME \A i \in 1..Len(C) : below[C[i]] # FALSE PROVE v = TRUE
        <4>1. \A i \in 1..Len(C) : below[C[i]] = TRUE  BY <1>3, <3>5
        <4> QED  BY <3>3, <4>1
      <3> QED  BY <3>1, <3>4, <3>5
    <2>2. CASE node.kind = "any"
      <3>1. Deciding(node) = TRUE  BY <2>2 DEF Deciding
      <3>2. v = (\E i \in DOMAIN node.children : below[node.children[i]])
        BY <1>1, <2>2 DEF MeaningOf
      <3>3. v = (\E i \in 1..Len(C) : below[C[i]])  BY <1>2, <3>2
      <3>4. ASSUME NEW i \in 1..Len(C), below[C[i]] = TRUE PROVE v = TRUE  BY <3>3, <3>4
      <3>5. ASSUME \A i \in 1..Len(C) : below[C[i]] # TRUE PROVE v = FALSE
        <4>1. \A i \in 1..Len(C) : below[C[i]] = FALSE  BY <1>3, <3>5
        <4> QED  BY <3>3, <4>1
      <3> QED  BY <3>1, <3>4, <3>5
    <2> QED  BY <2>1, <2>2
  <1> QED  BY <1>4 DEF C, below, v, Means

(* None of the children a combinator has had so far decided it. *)
Undecided(tree, x, d, node, child) ==
  \A j \in 1..(child - 1) : Means(tree, x, d + 1, Children(node)[j]) # Deciding(node)

FramesOpen(path, tree, x) ==
  \A i \in 1..Len(path) :
    path[i].node.kind \in {"all", "any"} => Undecided(tree, x, i, path[i].node, path[i].child)

AnswersIn(w, tree, x) ==
  /\ w.settled => w.value = Means(tree, x, Len(w.path) + 1, w.node)
  /\ FramesOpen(w.path, tree, x)

LEMMA FramesBelow ==
  ASSUME NEW tree, NEW x, NEW path, IsSeq(path), FramesOpen(path, tree, x),
         NEW node, NEW child,
         node.kind \in {"all", "any"} => Undecided(tree, x, Len(path) + 1, node, child)
  PROVE  FramesOpen(Append(path, [node |-> node, child |-> child]), tree, x)
  <1> DEFINE frame  == [node |-> node, child |-> child]
             longer == Append(path, frame)
  <1>1. frame.node = node /\ frame.child = child  OBVIOUS
  <1> HIDE DEF frame
  <1>2. /\ Len(longer) = Len(path) + 1 /\ longer[Len(path) + 1] = frame
        /\ \A i \in 1..Len(path) : longer[i] = path[i]
        /\ Len(path) \in Nat
    BY AppendSeq, SeqFacts
  <1> HIDE DEF longer
  <1>3. ASSUME NEW i \in 1..Len(longer), longer[i].node.kind \in {"all", "any"}
        PROVE  Undecided(tree, x, i, longer[i].node, longer[i].child)
    <2>1. CASE i = Len(path) + 1  BY <1>1, <1>2, <1>3, <2>1
    <2>2. CASE i # Len(path) + 1
      <3>1. i \in 1..Len(path) /\ longer[i] = path[i]  BY <1>2, <2>2
      <3> QED  BY <1>3, <3>1 DEF FramesOpen
    <2> QED  BY <2>1, <2>2
  <1> QED  BY <1>3 DEF FramesOpen, longer, frame

LEMMA FramesAbove ==
  ASSUME NEW tree, NEW x, NEW path, IsSeq(path), FramesOpen(path, tree, x), path # << >>
  PROVE  /\ FramesOpen(Front(path), tree, x)
         /\ Last(path).node.kind \in {"all", "any"} =>
              Undecided(tree, x, Len(path), Last(path).node, Last(path).child)
  <1> DEFINE short == Front(path)
             last  == Last(path)
  <1>1. /\ Len(path) \in Nat \ {0} /\ Len(short) = Len(path) - 1 /\ last = path[Len(path)]
        /\ \A i \in 1..(Len(path) - 1) : short[i] = path[i]
    BY FrontSeq
  <1> HIDE DEF short, last
  <1>2. ASSUME NEW i \in 1..Len(short), short[i].node.kind \in {"all", "any"}
        PROVE  Undecided(tree, x, i, short[i].node, short[i].child)
    <2>1. i \in 1..(Len(path) - 1) /\ i \in 1..Len(path)  BY <1>1
    <2>2. short[i] = path[i]  BY <1>1, <2>1
    <2> QED  BY <1>2, <2>1, <2>2 DEF FramesOpen
  <1>3. Len(path) \in 1..Len(path)  BY <1>1
  <1>4. last.node.kind \in {"all", "any"} => Undecided(tree, x, Len(path), last.node, last.child)
    BY <1>1, <1>3 DEF FramesOpen
  <1> QED  BY <1>2, <1>4 DEF FramesOpen, short, last

LEMMA NodeAnswers ==
  ASSUME NEW tree, TreeTyped(tree), WithinDepth(tree), PlainTree(tree), NEW x, Plain(x),
         NEW w, WalksIn(w, tree), MemoOK(w, x), AnswersIn(w, tree, x)
  PROVE  MemoOK(EvaluateNode(x, w), x) /\ AnswersIn(EvaluateNode(x, w), tree, x)
  <1> DEFINE n    == EvaluateNode(x, w)
             node == w.node
             d    == Len(w.path) + 1
             says == x.event.says[node.name] = "true"
             none == ~Deciding(node)
             mean == Means(tree, x, d, node)
  <1>1. /\ IsWalk(w) /\ StandsAt(w.path, node, tree) /\ IsSeq(w.path)
        /\ Len(w.path) \in Nat /\ Len(w.path) < MaxDepth /\ MaxDepth \in Nat
    BY SeqFacts, WhenTreeAssumption DEF WalksIn, StandsAt
  <1>2. node \in Levels(tree)[d] /\ d \in 1..MaxDepth
    BY <1>1 DEF StandsAt
  <1>3. /\ node.kind \in {"fn", "use"} \cup Combinators
        /\ IsSeq(Children(node)) /\ Len(Children(node)) \in Nat
        /\ \A i \in 1..Len(Children(node)) : Children(node)[i] \in Levels(tree)[d + 1]
        /\ node.kind = "not" => Children(node) = <<node.child>>
    BY <1>2, ChildrenBelow
  <1>4. FramesOpen(w.path, tree, x)  BY DEF AnswersIn
  <1>5. EvaluateNode(x, w) = n  OBVIOUS
  <1>6. ASSUME NEW value, n = Settle(w, value), value = mean
        PROVE  MemoOK(n, x) /\ AnswersIn(n, tree, x)
    <2> HIDE DEF n
    <2>1. n.settled /\ n.value = value /\ n.path = w.path /\ n.node = node /\ n.memo = w.memo
      BY <1>1, <1>6, SettleFields
    <2> QED  BY <1>4, <1>6, <2>1 DEF MemoOK, AnswersIn
  <1>7. ASSUME node.kind \in Combinators, Children(node) = << >> \/ d = MaxDepth
        PROVE  node.kind = "any" \/ (node.kind = "all" /\ d # MaxDepth)
    <2>1. Len(Children(node)) = 0
      <3>1. CASE Children(node) = << >>  BY <3>1
      <3>2. CASE d = MaxDepth
        <4>1. Levels(tree)[d + 1] = {}  BY <3>2 DEF WithinDepth
        <4> QED  BY <1>3, <4>1
      <3> QED  BY <1>7, <3>1, <3>2
    <2>2. node.kind # "not"
      <3>1. SUFFICES ASSUME node.kind = "not" PROVE FALSE  OBVIOUS
      <3>2. Len(<<node.child>>) = 1  OBVIOUS
      <3> QED  BY <1>3, <2>1, <3>1, <3>2
    <2>3. node.kind = "all" => d # MaxDepth  BY <1>2 DEF PlainTree
    <2> QED  BY <1>7, <2>2, <2>3 DEF Combinators
  <1>8. ASSUME node.kind \in Combinators, Children(node) = << >> \/ d = MaxDepth
        PROVE  mean = none
    <2>1. node.kind \in {"all", "any"}  BY <1>7, <1>8
    <2>2. \A i \in 1..Len(Children(node)) : FALSE
      <3>1. CASE Children(node) = << >>  BY <3>1
      <3>2. CASE d = MaxDepth
        <4>1. Levels(tree)[d + 1] = {}  BY <3>2 DEF WithinDepth
        <4> QED  BY <1>3, <4>1
      <3> QED  BY <1>8, <3>1, <3>2
    <2> HIDE DEF node, d
    <2> QED  BY <1>2, <2>1, <2>2, ChildrenDecide
  <1>9. CASE TooDeep(node, d)
    <2>1. n = Settle(w, FALSE)  BY <1>9 DEF EvaluateNode
    <2>2. d = MaxDepth /\ node.kind \in Combinators  BY <1>1, <1>9 DEF TooDeep
    <2>3. node.kind = "any"  BY <1>7, <2>2
    <2>4. none = FALSE  BY <2>3 DEF Deciding
    <2>5. mean = FALSE  BY <1>8, <2>2, <2>4
    <2> QED  BY <1>6, <2>1, <2>5
  <1>10. CASE ~TooDeep(node, d) /\ node.kind = "fn"
    <2>1. node.kind # "use" /\ node.kind \notin Combinators  BY <1>10 DEF Combinators
    <2>2. n = Settle(w, says)  BY <1>10, <2>1 DEF EvaluateNode
    <2>3. mean = says  BY <1>2, <1>10, MeansDefined
    <2> QED  BY <1>6, <2>2, <2>3
  <1>11. CASE ~TooDeep(node, d) /\ node.kind = "use"
    <2>1. node.kind # "fn" /\ node.kind \notin Combinators  BY <1>11 DEF Combinators
    <2>2. n = ResolveUse(node, x, w)  BY <1>11, <2>1 DEF EvaluateNode
    <2>3. PlainArgs(node.args)  BY <1>2, <1>11 DEF PlainTree, Uses, Nodes
    <2>4. Memorized(w)  BY DEF WalksIn
    <2>5. mean = Answer(node, x)  BY <1>2, <1>11, MeansDefined
    <2> HIDE DEF n, node, d
    <2>6. MemoOK(n, x) /\ n.value = Answer(node, x)  BY <1>1, <2>2, <2>3, ResolveAnswers
    <2>7. n.path = w.path /\ n.node = w.node  BY <1>1, <2>2, <2>4, ResolveKeeps
    <2>8. n.value = Means(tree, x, Len(n.path) + 1, n.node)
      BY <2>5, <2>6, <2>7 DEF node, d
    <2> QED  BY <1>4, <2>6, <2>7, <2>8 DEF AnswersIn, n
  <1>12. CASE ~TooDeep(node, d) /\ node.kind \in Combinators /\ Children(node) = << >>
    <2>1. node.kind # "fn" /\ node.kind # "use"  BY <1>12 DEF Combinators
    <2>2. n = Settle(w, none)  BY <1>12, <2>1 DEF EvaluateNode
    <2> QED  BY <1>6, <1>8, <1>12, <2>2
  <1>13. CASE ~TooDeep(node, d) /\ node.kind \in Combinators /\ Children(node) # << >>
    <2>1. node.kind # "fn" /\ node.kind # "use"  BY <1>13 DEF Combinators
    <2>2. n = Await(w, w.path, node, 1)  BY <1>13, <2>1 DEF EvaluateNode
    <2> HIDE DEF n
    <2>3. /\ ~n.settled /\ n.memo = w.memo
          /\ n.path = Append(w.path, [node |-> node, child |-> 1])
      BY <1>1, <2>2, AwaitFields
    <2>4. Undecided(tree, x, Len(w.path) + 1, node, 1)  BY DEF Undecided
    <2>5. FramesOpen(n.path, tree, x)  BY <1>1, <1>4, <2>3, <2>4, FramesBelow
    <2> QED  BY <2>3, <2>5 DEF MemoOK, AnswersIn, n
  <1> HIDE DEF n
  <1> QED  BY <1>3, <1>9, <1>10, <1>11, <1>12, <1>13

LEMMA SettlesAnswer ==
  ASSUME NEW tree, TreeTyped(tree), WithinDepth(tree), PlainTree(tree), NEW x, Plain(x),
         NEW w, WalksIn(w, tree), MemoOK(w, x), AnswersIn(w, tree, x),
         w.settled, w.path # << >>
  PROVE  MemoOK(ChildSettles(w), x) /\ AnswersIn(ChildSettles(w), tree, x)
  <1> DEFINE node  == Last(w.path).node
             child == Last(w.path).child
             above == Front(w.path)
             up    == MovedTo(w, above, node)
             not   == ~w.value
             value == w.value
             n     == ChildSettles(w)
             d     == Len(w.path)
             C     == Children(node)
             mean  == Means(tree, x, d, node)
  <1>1. /\ IsWalk(w) /\ StandsAt(w.path, w.node, tree) /\ IsSeq(w.path)
        /\ d \in Nat /\ d < MaxDepth /\ MaxDepth \in Nat
    BY SeqFacts, WhenTreeAssumption DEF WalksIn, StandsAt
  <1>2. /\ StandsAt(above, node, tree) /\ node.kind \in Combinators
        /\ child \in 1..Len(C) /\ C[child] = w.node
        /\ d \in 1..MaxDepth /\ Len(above) + 1 = d
    BY <1>1, StandsAbove
  <1>3. IsSeq(above) /\ node \in Levels(tree)[d]
    <2> HIDE DEF above, node, d
    <2> QED  BY <1>2 DEF StandsAt
  <1>4. Len(C) \in Nat /\ (node.kind = "not" => C = <<node.child>>)
    BY <1>2, <1>3, ChildrenBelow
  <1>5. /\ FramesOpen(above, tree, x)
        /\ node.kind \in {"all", "any"} => Undecided(tree, x, d, node, child)
    BY <1>1, FramesAbove DEF AnswersIn
  <1>6. value = Means(tree, x, d + 1, C[child])  BY <1>2 DEF AnswersIn
  <1>7. value \in BOOLEAN
    <2>1. w.node \in Levels(tree)[d + 1] /\ d + 1 \in 1..MaxDepth  BY <1>1 DEF StandsAt
    <2> HIDE DEF node, child, value, C, d
    <2> QED  BY <1>2, <1>6, <2>1, MeansDefined
  <1>8. n = IF node.kind = "not" THEN Settle(up, not)
            ELSE IF value = Deciding(node) \/ child = Len(C) THEN Settle(up, value)
            ELSE Await(w, above, node, child + 1)
    BY DEF ChildSettles, MovedTo
  <1>9. not = ~value  OBVIOUS
  <1>10. \A i \in 1..Len(C) : i < child => i \in 1..(child - 1)  BY <1>2
  <1>11. \A j \in 1..child : j = child \/ j \in 1..(child - 1)
    <2> HIDE DEF child, C
    <2> QED  BY <1>2, <1>4
  <1> HIDE DEF above, up, n, not, value, node, child, C, d
  <1>12. IsWalk(up) /\ up.memo = w.memo /\ up.path = above /\ up.node = node
    BY <1>1, <1>3, UpFields DEF up
  <1>13. ASSUME NEW v, n = Settle(up, v), v = mean
         PROVE  MemoOK(n, x) /\ AnswersIn(n, tree, x)
    <2>1. n.settled /\ n.value = v /\ n.path = above /\ n.node = node /\ n.memo = w.memo
      BY <1>12, <1>13, SettleFields
    <2>2. n.value = Means(tree, x, Len(n.path) + 1, n.node)  BY <1>2, <1>13, <2>1
    <2> QED  BY <1>5, <2>1, <2>2 DEF MemoOK, AnswersIn
  <1>14. ASSUME node.kind \in {"all", "any"}, value # Deciding(node)
         PROVE  Undecided(tree, x, d, node, child + 1)
    <2>1. ASSUME NEW j \in 1..child
          PROVE  Means(tree, x, d + 1, C[j]) # Deciding(node)
      <3>1. CASE j = child  BY <1>6, <1>14, <3>1
      <3>2. CASE j \in 1..(child - 1)  BY <1>5, <1>14, <3>2 DEF Undecided, C
      <3> QED  BY <1>11, <3>1, <3>2
    <2>2. (child + 1) - 1 = child  BY <1>2, <1>4
    <2> QED  BY <2>1, <2>2 DEF Undecided, C
  <1>15. CASE node.kind = "not"
    <2>1. n = Settle(up, not)  BY <1>8, <1>15
    <2>2. Len(C) = 1 /\ child = 1
      <3>1. Len(<<node.child>>) = 1  OBVIOUS
      <3>2. Len(C) = 1
        <4>1. C = <<node.child>>  BY <1>4, <1>15
        <4> QED  BY <3>1, <4>1
      <3>3. child \in 1..1  BY <1>2, <3>2
      <3> QED  BY <3>2, <3>3
    <2>3. mean = ~Means(tree, x, d + 1, C[1])  BY <1>2, <1>3, <1>15, MeansDefined DEF C
    <2>4. mean = not  BY <1>6, <1>9, <2>2, <2>3
    <2> QED  BY <1>13, <2>1, <2>4 DEF n
  <1>16. CASE node.kind \in {"all", "any"} /\ value = Deciding(node)
    <2>1. n = Settle(up, value)  BY <1>8, <1>16
    <2>2. mean = Deciding(node)  BY <1>2, <1>3, <1>6, <1>16, ChildrenDecide DEF C
    <2> QED  BY <1>13, <1>16, <2>1, <2>2 DEF n
  <1>17. CASE node.kind \in {"all", "any"} /\ value # Deciding(node) /\ child = Len(C)
    <2>1. n = Settle(up, value)  BY <1>8, <1>17
    <2>2. Undecided(tree, x, d, node, child + 1)  BY <1>14, <1>17
    <2>3. (child + 1) - 1 = Len(C)  BY <1>4, <1>17
    <2>4. \A i \in 1..Len(C) : Means(tree, x, d + 1, C[i]) # Deciding(node)
      BY <2>2, <2>3 DEF Undecided, C
    <2>5. mean = ~Deciding(node)  BY <1>2, <1>3, <1>17, <2>4, ChildrenDecide DEF C
    <2>6. value = ~Deciding(node)
      <3>1. Deciding(node) \in BOOLEAN  BY DEF Deciding
      <3> QED  BY <1>7, <1>17, <3>1
    <2> QED  BY <1>13, <2>1, <2>5, <2>6 DEF n
  <1>18. CASE node.kind \in {"all", "any"} /\ value # Deciding(node) /\ child # Len(C)
    <2>1. n = Await(w, above, node, child + 1)  BY <1>8, <1>18
    <2>2. /\ ~n.settled /\ n.memo = w.memo
          /\ n.path = Append(above, [node |-> node, child |-> child + 1])
      BY <1>1, <1>3, <2>1, AwaitFields
    <2>3. Undecided(tree, x, Len(above) + 1, node, child + 1)  BY <1>2, <1>14, <1>18
    <2>4. FramesOpen(n.path, tree, x)  BY <1>3, <1>5, <2>2, <2>3, FramesBelow
    <2> QED  BY <2>2, <2>4 DEF MemoOK, AnswersIn, n
  <1> QED  BY <1>2, <1>15, <1>16, <1>17, <1>18 DEF Combinators

-----------------------------------------------------------------------------
(* Selecting from what was selected. *)

LEMMA SelectionSteps ==
  ASSUME NEW R, NEW rows \in Seq(R), NEW where
  PROVE  /\ Selection(rows, where)[0] = << >>
         /\ \A n \in 1..Len(rows) :
              Selection(rows, where)[n] =
                IF where[n] THEN Append(Selection(rows, where)[n - 1], rows[n])
                ELSE Selection(rows, where)[n - 1]
  <1> DEFINE upTo == Selection(rows, where)
  <1>1. \A n \in 0..Len(rows) :
          upTo[n] = IF n = 0 THEN << >>
                    ELSE IF where[n] THEN Append(upTo[n - 1], rows[n]) ELSE upTo[n - 1]
    BY SelectionDefined
  <1> HIDE DEF upTo
  <1>2. Len(rows) \in Nat /\ 0 \in 0..Len(rows) /\ \A n \in 1..Len(rows) : n \in 0..Len(rows) /\ n # 0
    OBVIOUS
  <1>3. upTo[0] = << >>  BY <1>1, <1>2
  <1>4. \A n \in 1..Len(rows) :
          upTo[n] = IF where[n] THEN Append(upTo[n - 1], rows[n]) ELSE upTo[n - 1]
    BY <1>1, <1>2
  <1> QED  BY <1>3, <1>4 DEF upTo

LEMMA SelectionAgrees ==
  ASSUME NEW R, NEW rows \in Seq(R), NEW others \in Seq(R), NEW where, NEW also,
         NEW N \in Nat, N <= Len(rows), N <= Len(others),
         \A i \in 1..N : rows[i] = others[i] /\ where[i] = also[i]
  PROVE  Selection(rows, where)[N] = Selection(others, also)[N]
  <1> DEFINE one == Selection(rows, where)
             two == Selection(others, also)
             T   == { n \in 0..N : one[n] # two[n] }
  <1>1. /\ one[0] = << >> /\ two[0] = << >>
        /\ \A n \in 1..Len(rows) :
             one[n] = IF where[n] THEN Append(one[n - 1], rows[n]) ELSE one[n - 1]
        /\ \A n \in 1..Len(others) :
             two[n] = IF also[n] THEN Append(two[n - 1], others[n]) ELSE two[n - 1]
    BY SelectionSteps
  <1>2. Len(rows) \in Nat /\ Len(others) \in Nat  OBVIOUS
  <1> HIDE DEF one, two
  <1>3. T = {}
    <2> SUFFICES ASSUME T # {} PROVE FALSE  OBVIOUS
    <2>1. T \subseteq Nat  OBVIOUS
    <2>2. PICK n \in T : \A m \in T : n <= m
      <3> HIDE DEF T
      <3> QED  BY <2>1, NatMin
    <2>3. n \in 1..N /\ n - 1 \in 0..N /\ n \in 1..Len(rows) /\ n \in 1..Len(others)
      BY <1>1, <1>2, <2>2
    <2>4. n - 1 \notin T
      <3> HIDE DEF T
      <3> QED  BY <2>2, <2>3
    <2>5. one[n - 1] = two[n - 1]  BY <2>3, <2>4
    <2>6. rows[n] = others[n] /\ where[n] = also[n]  BY <2>3
    <2> QED  BY <1>1, <2>2, <2>3, <2>5, <2>6
  <1>4. N \notin T
    <2> HIDE DEF T
    <2> QED  BY <1>3
  <1> QED  BY <1>4 DEF one, two

Chosen(s, H) == Select(s, [i \in DOMAIN s |-> s[i] \in H])

LEMMA ChosenAppend ==
  ASSUME NEW R, NEW H, NEW s \in Seq(R), NEW e \in R
  PROVE  Chosen(Append(s, e), H) = IF e \in H THEN Append(Chosen(s, H), e) ELSE Chosen(s, H)
  <1> DEFINE longer == Append(s, e)
             N      == Len(s)
             where  == [i \in DOMAIN s |-> s[i] \in H]
             also   == [i \in DOMAIN longer |-> longer[i] \in H]
  <1>1. /\ longer \in Seq(R) /\ Len(longer) = N + 1 /\ longer[N + 1] = e
        /\ \A i \in 1..N : longer[i] = s[i]
    BY AppendProperties
  <1>2. N \in Nat /\ DOMAIN s = 1..N  OBVIOUS
  <1>3. DOMAIN longer = 1..(N + 1)  BY <1>1
  <1> HIDE DEF longer
  <1>4. \A i \in 1..N : s[i] = longer[i] /\ where[i] = also[i]
    <2>1. \A i \in 1..N : i \in 1..(N + 1)  BY <1>2
    <2> QED  BY <1>1, <1>2, <1>3, <2>1
  <1>5. also[N + 1] = (e \in H)
    <2>1. N + 1 \in DOMAIN longer  BY <1>2, <1>3
    <2> QED  BY <1>1, <2>1
  <1>6. Chosen(s, H) = Selection(s, where)[N]  BY DEF Chosen, Select
  <1>7. Chosen(longer, H) = Selection(longer, also)[N + 1]  BY <1>1 DEF Chosen, Select
  <1> HIDE DEF N, where, also
  <1>8. N <= Len(s) /\ N <= Len(longer)  BY <1>1, <1>2 DEF N
  <1>9. Selection(s, where)[N] = Selection(longer, also)[N]
    BY <1>1, <1>2, <1>4, <1>8, SelectionAgrees
  <1>10. Selection(longer, also)[N + 1] =
           IF also[N + 1] THEN Append(Selection(longer, also)[N], e)
           ELSE Selection(longer, also)[N]
    <2>1. N + 1 \in 1..Len(longer) /\ (N + 1) - 1 = N  BY <1>1, <1>2
    <2> QED  BY <1>1, <2>1, SelectionSteps
  <1> QED  BY <1>5, <1>6, <1>7, <1>9, <1>10 DEF longer

LEMMA SelectTwice ==
  ASSUME NEW R, NEW rows \in Seq(R), NEW first, NEW H, NEW both,
         \A i \in 1..Len(rows) : both[i] <=> (first[i] /\ rows[i] \in H)
  PROVE  Chosen(Select(rows, first), H) = Select(rows, both)
  <1> DEFINE N   == Len(rows)
             one == Selection(rows, first)
             two == Selection(rows, both)
             T   == { n \in 0..N : ~(one[n] \in Seq(R) /\ Chosen(one[n], H) = two[n]) }
  <1>1. /\ one[0] = << >> /\ two[0] = << >>
        /\ \A n \in 1..N : one[n] = IF first[n] THEN Append(one[n - 1], rows[n]) ELSE one[n - 1]
        /\ \A n \in 1..N : two[n] = IF both[n] THEN Append(two[n - 1], rows[n]) ELSE two[n - 1]
    BY SelectionSteps
  <1>2. N \in Nat /\ \A n \in 1..N : rows[n] \in R  OBVIOUS
  <1>3. Chosen(<< >>, H) = << >>
    <2> DEFINE empty == << >>
               none  == [i \in DOMAIN empty |-> empty[i] \in H]
    <2>1. empty \in Seq(R) /\ Len(empty) = 0  OBVIOUS
    <2>2. Chosen(empty, H) = Selection(empty, none)[0]  BY <2>1 DEF Chosen, Select
    <2> HIDE DEF empty, none
    <2>3. Selection(empty, none)[0] = << >>  BY <2>1, SelectionSteps
    <2> QED  BY <2>2, <2>3 DEF empty
  <1> HIDE DEF N, one, two
  <1>4. T = {}
    <2> SUFFICES ASSUME T # {} PROVE FALSE  OBVIOUS
    <2>1. T \subseteq Nat  BY <1>2
    <2>2. PICK n \in T : \A m \in T : n <= m
      <3> HIDE DEF T
      <3> QED  BY <2>1, NatMin
    <2>3. n # 0
      <3>1. << >> \in Seq(R)  OBVIOUS
      <3> QED  BY <1>1, <1>3, <2>2, <3>1
    <2>4. n \in 1..N /\ n - 1 \in 0..N  BY <1>2, <2>2, <2>3
    <2>5. n - 1 \notin T
      <3> HIDE DEF T
      <3> QED  BY <2>2, <2>4
    <2> DEFINE s == one[n - 1]
               e == rows[n]
    <2>6. s \in Seq(R) /\ Chosen(s, H) = two[n - 1]  BY <2>4, <2>5
    <2>7. e \in R  BY <1>2, <2>4
    <2>8. both[n] <=> (first[n] /\ e \in H)  BY <2>4 DEF N
    <2>9. /\ one[n] = IF first[n] THEN Append(s, e) ELSE s
          /\ two[n] = IF both[n] THEN Append(Chosen(s, H), e) ELSE Chosen(s, H)
      BY <1>1, <2>4, <2>6
    <2>10. ~(one[n] \in Seq(R) /\ Chosen(one[n], H) = two[n])  BY <2>2
    <2> HIDE DEF T, s, e
    <2>11. CASE first[n]
      <3>1. one[n] = Append(s, e) /\ Append(s, e) \in Seq(R)  BY <2>6, <2>7, <2>9, <2>11
      <3>2. Chosen(Append(s, e), H) = IF e \in H THEN Append(Chosen(s, H), e) ELSE Chosen(s, H)
        BY <2>6, <2>7, ChosenAppend
      <3> QED  BY <2>8, <2>9, <2>10, <2>11, <3>1, <3>2
    <2>12. CASE ~first[n]
      <3>1. one[n] = s /\ ~both[n]  BY <2>8, <2>9, <2>12
      <3> QED  BY <2>6, <2>9, <2>10, <3>1
    <2> QED  BY <2>11, <2>12
  <1>5. N \notin T
    <2> HIDE DEF T
    <2> QED  BY <1>4
  <1>6. Chosen(one[N], H) = two[N]  BY <1>2, <1>5
  <1> QED  BY <1>6 DEF Select, N, one, two

LEMMA SelectionIsSeq ==
  ASSUME NEW R, NEW rows \in Seq(R), NEW where, NEW n \in 0..Len(rows)
  PROVE  Selection(rows, where)[n] \in Seq(R)
  <1> DEFINE N    == Len(rows)
             upTo == Selection(rows, where)
             T    == { k \in 0..N : upTo[k] \notin Seq(R) }
  <1>1. /\ upTo[0] = << >>
        /\ \A k \in 1..N : upTo[k] = IF where[k] THEN Append(upTo[k - 1], rows[k]) ELSE upTo[k - 1]
    BY SelectionSteps
  <1>2. N \in Nat /\ \A k \in 1..N : rows[k] \in R  OBVIOUS
  <1> HIDE DEF N, upTo
  <1>3. T = {}
    <2> SUFFICES ASSUME T # {} PROVE FALSE  OBVIOUS
    <2>1. T \subseteq Nat  BY <1>2
    <2>2. PICK k \in T : \A m \in T : k <= m
      <3> HIDE DEF T
      <3> QED  BY <2>1, NatMin
    <2>3. k # 0
      <3>1. << >> \in Seq(R)  OBVIOUS
      <3> QED  BY <1>1, <2>2, <3>1
    <2>4. k \in 1..N /\ k - 1 \in 0..N  BY <1>2, <2>2, <2>3
    <2>5. k - 1 \notin T
      <3> HIDE DEF T
      <3> QED  BY <2>2, <2>4
    <2>6. upTo[k - 1] \in Seq(R) /\ rows[k] \in R  BY <1>2, <2>4, <2>5
    <2>7. Append(upTo[k - 1], rows[k]) \in Seq(R)
      <3> DEFINE before == upTo[k - 1]
      <3> HIDE DEF before
      <3> QED  BY <2>6 DEF before
    <2> QED  BY <1>1, <2>2, <2>4, <2>6, <2>7
  <1>4. n \notin T /\ n \in 0..N
    <2>1. n \in 0..N  BY DEF N
    <2> HIDE DEF T
    <2> QED  BY <1>3, <2>1
  <1> QED  BY <1>4 DEF upTo

NamesOf(s) == [i \in DOMAIN s |-> s[i].name]

LEMMA NamesAppend ==
  ASSUME NEW R, NEW s \in Seq(R), NEW e \in R
  PROVE  NamesOf(Append(s, e)) = Append(NamesOf(s), e.name)
  <1> DEFINE S == { r.name : r \in R }
             names == NamesOf(s)
             longer == Append(s, e)
             N == Len(s)
  <1>1. N \in Nat /\ names = [i \in 1..N |-> s[i].name]  BY DEF NamesOf
  <1>2. names \in Seq(S) /\ Len(names) = N
    <2>1. \A i \in 1..N : s[i].name \in S  OBVIOUS
    <2>2. names \in [1..N -> S]  BY <1>1, <2>1
    <2> HIDE DEF names, S, N
    <2> QED  BY <1>1, <2>2
  <1>3. /\ longer \in Seq(R) /\ Len(longer) = N + 1 /\ longer[N + 1] = e
        /\ \A i \in 1..N : longer[i] = s[i]
    BY AppendProperties
  <1>4. e.name \in S  OBVIOUS
  <1> HIDE DEF S, names, longer, N
  <1>5. DOMAIN longer = 1..(N + 1)  BY <1>3
  <1>6. /\ Append(names, e.name) \in Seq(S) /\ Len(Append(names, e.name)) = N + 1
        /\ Append(names, e.name)[N + 1] = e.name
        /\ \A i \in 1..N : Append(names, e.name)[i] = names[i]
    BY <1>2, <1>4, AppendProperties
  <1>7. NamesOf(longer) = [i \in 1..(N + 1) |-> longer[i].name]  BY <1>5 DEF NamesOf
  <1>8. ASSUME NEW i \in 1..(N + 1) PROVE longer[i].name = Append(names, e.name)[i]
    <2>1. CASE i = N + 1  BY <1>3, <1>6, <2>1
    <2>2. CASE i # N + 1
      <3>1. i \in 1..N  BY <1>1, <2>2
      <3> QED  BY <1>1, <1>3, <1>6, <3>1
    <2> QED  BY <2>1, <2>2
  <1>9. Append(names, e.name) = [i \in 1..(N + 1) |-> Append(names, e.name)[i]]
    <2> DEFINE all == Append(names, e.name)
    <2>1. all \in Seq(S) /\ Len(all) = N + 1  BY <1>6
    <2> HIDE DEF all
    <2>2. all = [i \in 1..(N + 1) |-> all[i]]  BY <1>1, <2>1
    <2> QED  BY <2>2 DEF all
  <1>10. NamesOf(longer) = Append(names, e.name)  BY <1>7, <1>8, <1>9
  <1> QED  BY <1>10 DEF longer, names

-----------------------------------------------------------------------------
(* What an evaluation has decided so far. *)

Context(ev) == [registry |-> ev.registry, event |-> ev.event]

Holding(ev) ==
  { r \in Range(ev.registry.batch.rules) : Meaning(r.when, Context(ev)) }

Found(ev, k) ==
  Selection(Candidates(ev),
            [i \in DOMAIN Candidates(ev) |-> Candidates(ev)[i] \in Holding(ev)])[k]

DecidedOK(ev) ==
  ev.pc \in Under /\ ~Exceptional(ev.registry.batch, ev.event) =>
    /\ MemoOK(ev.walk, Context(ev))
    /\ ev.pc = "when" => /\ AnswersIn(ev.walk, Candidates(ev)[ev.rule].when, Context(ev))
                         /\ ev.held = NamesOf(Found(ev, ev.rule - 1))
    /\ ev.pc \in {"rules", "over"} => ev.held = NamesOf(Found(ev, ev.rule))

LEMMA SameQuestion ==
  ASSUME NEW ev, NEW n, n.registry = ev.registry, n.event = ev.event
  PROVE  /\ Candidates(n) = Candidates(ev) /\ Context(n) = Context(ev)
         /\ \A k : Found(n, k) = Found(ev, k)
         /\ Exceptional(n.registry.batch, n.event) <=> Exceptional(ev.registry.batch, ev.event)
  <1>1. Candidates(n) = Candidates(ev)  BY SameCandidates
  <1>2. Context(n) = Context(ev)  BY DEF Context
  <1>3. Holding(n) = Holding(ev)  BY <1>2 DEF Holding
  <1> QED  BY <1>1, <1>2, <1>3 DEF Found

(* The candidates are the rules of the batch for the event, in its order. *)
LEMMA CandidatesAre ==
  ASSUME NEW ev, NEW batch, Accepted(batch), ev.registry = BuildRegistry(batch)
  PROVE  Candidates(ev) = Dispatch(batch.rules, ev.event.name)
  <1> DEFINE name  == ev.event.name
             cands == Candidates(ev)
             mine  == Dispatch(batch.rules, name)
             disp  == BuildRegistry(batch).dispatch
  <1>1. cands = IF name \in DOMAIN disp THEN disp[name] ELSE << >>  BY DEF Candidates
  <1>2. /\ name \in DOMAIN disp => disp[name] = mine
        /\ name \in DOMAIN disp <=> \E i \in DOMAIN batch.rules : batch.rules[i].event = name
    BY RegistryFields
  <1>3. mine = Dispatch(batch.rules, name)  OBVIOUS
  <1> HIDE DEF disp, mine, cands, name
  <1>4. /\ IsSeq(mine)
        /\ \A k \in DOMAIN mine : \E i \in DOMAIN batch.rules :
             batch.rules[i] = mine[k] /\ batch.rules[i].event = name
    BY <1>3, DispatchHolds
  <1>5. cands = mine
    <2>1. CASE name \in DOMAIN disp  BY <1>1, <1>2, <2>1
    <2>2. CASE name \notin DOMAIN disp
      <3>1. DOMAIN mine = {}  BY <1>2, <1>4, <2>2
      <3>2. mine \in Seq(Range(mine)) /\ DOMAIN mine = 1..Len(mine)  BY <1>4, SeqFacts
      <3>3. mine = << >>  BY <3>1, <3>2
      <3> QED  BY <1>1, <2>2, <3>3
    <2> QED  BY <2>1, <2>2
  <1> QED  BY <1>5 DEF cands, mine, name

LEMMA CandidateIsRule ==
  ASSUME NEW ev, NEW batch, Accepted(batch), ev.registry = BuildRegistry(batch),
         NEW k \in DOMAIN Candidates(ev)
  PROVE  \E i \in DOMAIN batch.rules : batch.rules[i] = Candidates(ev)[k]
  <1> DEFINE name == ev.event.name
             mine == Dispatch(batch.rules, name)
  <1>1. Candidates(ev) = mine  BY CandidatesAre
  <1>2. mine = Dispatch(batch.rules, name)  OBVIOUS
  <1> HIDE DEF name, mine
  <1>3. /\ IsSeq(mine)
        /\ \A j \in DOMAIN mine : \E i \in DOMAIN batch.rules :
             batch.rules[i] = mine[j] /\ batch.rules[i].event = name
    BY <1>2, DispatchHolds
  <1> QED  BY <1>1, <1>3

LEMMA Unexceptional ==
  ASSUME NEW ev, EvaluationOK(ev), ev.pc \in Under,
         ~Exceptional(ev.registry.batch, ev.event)
  PROVE  /\ Plain(Context(ev))
         /\ \A k \in 1..Len(Candidates(ev)) :
              /\ PlainTree(Candidates(ev)[k].when)
              /\ Candidates(ev)[k] \in Range(ev.registry.batch.rules)
  <1>1. PICK batch : Accepted(batch) /\ ev.registry = BuildRegistry(batch)  BY DEF EvaluationOK
  <1>2. /\ ev.registry.batch = batch /\ ev.registry.predicates = ByName(batch.predicates)
    BY <1>1, RegistryFields
  <1>3. ~Exceptional(batch, ev.event)  BY <1>2
  <1>4. PlainArgs(ev.event.gives)  BY <1>3 DEF Exceptional, Gives, PlainArgs
  <1>5. ASSUME NEW name \in DOMAIN ByName(batch.predicates)
        PROVE  LET pinned == ByName(batch.predicates)[name].pinned
               IN  PlainArgs(pinned) /\ ArgOf(pinned, "failOpen") \in {"true", "undefined"}
    <2>1. name \in Names(batch.predicates)
          /\ ByName(batch.predicates)[name] = First(batch.predicates, name)
      BY DEF ByName
    <2>2. PICK i \in DOMAIN batch.predicates : First(batch.predicates, name) = batch.predicates[i]
      BY <1>1, <2>1, FirstIsOne DEF Accepted, BatchTyped
    <2>3. /\ ArgOf(batch.predicates[i].pinned, "failOpen") \in {"true", "undefined"}
          /\ ~Gives(batch.predicates[i].pinned, Confused)
      BY <1>3 DEF Exceptional
    <2> QED  BY <2>1, <2>2, <2>3 DEF Gives, PlainArgs
  <1>6. Plain(Context(ev))
    <2>1. Context(ev).event = ev.event /\ Context(ev).registry = ev.registry  BY DEF Context
    <2>2. "true" \notin DOMAIN ev.event.gives  BY DEF EvaluationOK
    <2> QED  BY <1>2, <1>4, <1>5, <2>1, <2>2 DEF Plain
  <1>7. ASSUME NEW k \in 1..Len(Candidates(ev))
        PROVE  /\ PlainTree(Candidates(ev)[k].when)
               /\ Candidates(ev)[k] \in Range(ev.registry.batch.rules)
    <2>1. DOMAIN Candidates(ev) = 1..Len(Candidates(ev))  BY UnderWay, SeqFacts
    <2>2. PICK i \in DOMAIN batch.rules : batch.rules[i] = Candidates(ev)[k]
      BY <1>1, <2>1, CandidateIsRule
    <2>3. /\ \A node \in Levels(batch.rules[i].when)[MaxDepth] : node.kind # "all"
          /\ \A use \in Uses(batch.rules[i].when) : ~Gives(use.args, Confused)
      BY <1>3 DEF Exceptional
    <2>4. PlainTree(batch.rules[i].when)  BY <2>3 DEF PlainTree, Gives, PlainArgs
    <2>5. batch.rules[i] \in Range(batch.rules)  BY DEF Range
    <2> QED  BY <1>2, <2>2, <2>4, <2>5
  <1> QED  BY <1>6, <1>7

LEMMA EvaluateDecides ==
  ASSUME EvaluationOK(evaluation), EvaluationOK(evaluation'),
         NEW event \in scene.events, Evaluate(event)
  PROVE  DecidedOK(evaluation')
  <1> DEFINE ev == evaluation
             n  == evaluation'
  <1>1. ev.pc = "none" /\ ev = Idle /\ IsEvaluation(ev) /\ EvaluationOK(n)
    BY DEF Evaluate, EvaluationOK
  <1>2. ev.rule = 0 /\ ev.walk = Start /\ ev.held = << >>  BY <1>1 DEF Idle
  <1>3. CASE registry = None
    <2>1. n = Refused(ev, "rejected", event)  BY <1>3 DEF Evaluate, Refused
    <2> HIDE DEF n, ev
    <2>2. n = [pc |-> "rejected", registry |-> ev.registry, event |-> event, rule |-> ev.rule,
               walk |-> ev.walk, held |-> ev.held, acts |-> ev.acts]
      BY <1>1, <2>1, RefusedUpdate
    <2>3. n.pc \notin Under  BY <2>2 DEF Under
    <2> QED  BY <2>3 DEF DecidedOK, n
  <1>4. CASE registry # None
    <2>1. n = Begun(ev, "rules", registry, event)  BY <1>4 DEF Evaluate, Begun
    <2> HIDE DEF n, ev
    <2>2. n = [pc |-> "rules", registry |-> registry, event |-> event, rule |-> ev.rule,
               walk |-> ev.walk, held |-> ev.held, acts |-> ev.acts]
      BY <1>1, <2>1, BegunUpdate
    <2>3. n.pc = "rules" /\ n.rule = 0 /\ n.walk = Start /\ n.held = << >>
      BY <1>2, <2>2
    <2>4. IsSeq(Candidates(n))  BY <1>1, <2>3, UnderWay DEF Under
    <2>5. Found(n, 0) = << >>
      <3> DEFINE cands == Candidates(n)
                 where == [i \in DOMAIN cands |-> cands[i] \in Holding(n)]
      <3>1. Found(n, 0) = Selection(cands, where)[0]  BY DEF Found
      <3> HIDE DEF where
      <3> QED  BY <2>4, <3>1, SelectionSteps DEF IsSeq
    <2>6. NamesOf(<< >>) = << >>
      <3> DEFINE empty == << >>
      <3>1. DOMAIN empty = {} /\ empty = [i \in {} |-> empty[i]]  OBVIOUS
      <3>2. [i \in {} |-> empty[i].name] = [i \in {} |-> empty[i]]  OBVIOUS
      <3> HIDE DEF empty
      <3>3. NamesOf(empty) = empty  BY <3>1, <3>2 DEF NamesOf
      <3> QED  BY <3>3 DEF empty
    <2>7. MemoOK(Start, Context(n))
      <3>1. << >> \in Seq({})  OBVIOUS
      <3>2. DOMAIN << >> = {}  BY <3>1
      <3> QED  BY <3>2 DEF MemoOK, Start
    <2> QED  BY <2>3, <2>5, <2>6, <2>7 DEF DecidedOK, n
  <1> QED  BY <1>3, <1>4

LEMMA RuleDecides ==
  ASSUME EvaluationOK(evaluation), DecidedOK(evaluation), EvaluateRule
  PROVE  DecidedOK(evaluation')
  <1> DEFINE ev    == evaluation
             n     == evaluation'
             cands == Candidates(ev)
             tree  == cands[ev.rule + 1].when
             walk  == EvaluateWhen(tree, ev.walk)
  <1>1. /\ ev.pc = "rules" /\ ev.pc \in Under /\ n = MovedOn(ev, "when", ev.rule + 1, walk)
    BY DEF EvaluateRule, MovedOn, Under
  <1>2. IsEvaluation(ev) /\ IsWalk(ev.walk) /\ ev.rule \in Nat
    BY <1>1, UnderWay DEF EvaluationOK
  <1>3. ~walk.settled /\ walk.memo = ev.walk.memo /\ walk.path = << >>
    <2> HIDE DEF tree
    <2> QED  BY <1>2, WhenFields
  <1> HIDE DEF walk, n, ev
  <1>4. n = [pc |-> "when", registry |-> ev.registry, event |-> ev.event, rule |-> ev.rule + 1,
             walk |-> walk, held |-> ev.held, acts |-> ev.acts]
    BY <1>1, <1>2, MovedOnUpdate
  <1>5. /\ n.pc = "when" /\ n.registry = ev.registry /\ n.event = ev.event
        /\ n.rule = ev.rule + 1 /\ n.walk = walk /\ n.held = ev.held
    BY <1>4
  <1>6. n.rule - 1 = ev.rule  BY <1>2, <1>5
  <1>7. CASE Exceptional(ev.registry.batch, ev.event)
    BY <1>5, <1>7 DEF DecidedOK, n
  <1>8. CASE ~Exceptional(ev.registry.batch, ev.event)
    <2>1. MemoOK(ev.walk, Context(ev)) /\ ev.held = NamesOf(Found(ev, ev.rule))
      BY <1>1, <1>8 DEF DecidedOK, ev
    <2>2. Context(n) = Context(ev) /\ Found(n, n.rule - 1) = Found(ev, ev.rule)
      BY <1>5, <1>6, SameQuestion
    <2>3. MemoOK(n.walk, Context(n))  BY <1>3, <1>5, <2>1, <2>2 DEF MemoOK
    <2>4. \A t : AnswersIn(n.walk, t, Context(n))
      <3>1. Len(n.walk.path) = 0  BY <1>3, <1>5
      <3> QED  BY <1>3, <1>5, <3>1 DEF AnswersIn, FramesOpen
    <2> QED  BY <1>5, <2>1, <2>2, <2>3, <2>4 DEF DecidedOK, n
  <1> QED  BY <1>7, <1>8

LEMMA WalkDecides ==
  ASSUME EvaluationOK(evaluation), DecidedOK(evaluation), Walk
  PROVE  DecidedOK(evaluation')
  <1> DEFINE ev   == evaluation
             n    == evaluation'
             x    == Context(ev)
             tree == Candidates(ev)[ev.rule].when
  <1>1. ev.pc = "when" /\ ev.pc \in Under  BY DEF Walk, Under
  <1>2. PICK walk : /\ n = [ev EXCEPT !.walk = walk]
                    /\ \/ walk = EvaluateNode(x, ev.walk)
                       \/ ev.walk.settled /\ ev.walk.path # << >> /\ walk = ChildSettles(ev.walk)
    BY DEF Walk, Context
  <1>3. IsEvaluation(ev) /\ WalksIn(ev.walk, tree)
    BY <1>1 DEF EvaluationOK, WalksIn
  <1>4. TreeTyped(tree) /\ WithinDepth(tree) /\ ev.rule \in 1..Len(Candidates(ev))
    BY <1>1, UnderWay
  <1>5. ~Exceptional(ev.registry.batch, ev.event) => Plain(x) /\ PlainTree(tree)
    BY <1>1, <1>4, Unexceptional
  <1> HIDE DEF n, ev, tree, x
  <1>6. n = [pc |-> ev.pc, registry |-> ev.registry, event |-> ev.event, rule |-> ev.rule,
             walk |-> walk, held |-> ev.held, acts |-> ev.acts]
    BY <1>2, <1>3, WalkUpdate
  <1>7. /\ n.pc = "when" /\ n.registry = ev.registry /\ n.event = ev.event
        /\ n.rule = ev.rule /\ n.walk = walk /\ n.held = ev.held
    BY <1>1, <1>6
  <1>8. /\ Candidates(n) = Candidates(ev) /\ Context(n) = x
        /\ Found(n, n.rule - 1) = Found(ev, ev.rule - 1)
    BY <1>7, SameQuestion DEF x
  <1>9. CASE Exceptional(ev.registry.batch, ev.event)
    BY <1>7, <1>9 DEF DecidedOK, n
  <1>10. CASE ~Exceptional(ev.registry.batch, ev.event)
    <2>1. /\ MemoOK(ev.walk, x) /\ AnswersIn(ev.walk, tree, x)
          /\ ev.held = NamesOf(Found(ev, ev.rule - 1))
      BY <1>1, <1>10 DEF DecidedOK, ev, x, tree
    <2>2. MemoOK(walk, x) /\ AnswersIn(walk, tree, x)
      BY <1>2, <1>3, <1>4, <1>5, <1>10, <2>1, NodeAnswers, SettlesAnswer
    <2>3. Candidates(n)[n.rule].when = tree  BY <1>7, <1>8 DEF tree
    <2> QED  BY <1>7, <1>8, <2>1, <2>2, <2>3 DEF DecidedOK, n
  <1> QED  BY <1>9, <1>10

LEMMA ReturnsDecide ==
  ASSUME EvaluationOK(evaluation), DecidedOK(evaluation), WhenReturns
  PROVE  DecidedOK(evaluation')
  <1> DEFINE ev    == evaluation
             n     == evaluation'
             x     == Context(ev)
             k     == ev.rule
             cands == Candidates(ev)
             rule  == cands[k]
             tree  == rule.when
             where == [i \in DOMAIN cands |-> cands[i] \in Holding(ev)]
  <1>1. /\ ev.pc = "when" /\ ev.pc \in Under /\ ev.walk.settled /\ ev.walk.path = << >>
    BY DEF WhenReturns, Under
  <1>2. PICK acts :
          \/ ~ev.walk.value /\ n = [ev EXCEPT !.pc = "rules"]
          \/ n = [ev EXCEPT !.pc = "failed"]
          \/ ev.walk.value /\ n = Fired(ev, "rules", Append(ev.held, rule.name), acts)
    BY DEF WhenReturns, Fired
  <1>3. /\ IsEvaluation(ev) /\ IsWalk(ev.walk)
        /\ StandsAt(ev.walk.path, ev.walk.node, tree)
    BY <1>1 DEF EvaluationOK
  <1>4. /\ TreeTyped(tree) /\ WithinDepth(tree) /\ k \in 1..Len(cands)
        /\ IsSeq(cands) /\ Len(cands) \in Nat /\ DOMAIN cands = 1..Len(cands)
    BY <1>1, UnderWay, SeqFacts
  <1>5. /\ Found(ev, k) = Selection(cands, where)[k]
        /\ Found(ev, k - 1) = Selection(cands, where)[k - 1]
    BY DEF Found
  <1>6. where[k] = (rule \in Holding(ev))  BY <1>4
  <1>7. ~Exceptional(ev.registry.batch, ev.event) =>
          Plain(x) /\ PlainTree(tree) /\ rule \in Range(ev.registry.batch.rules)
    BY <1>1, <1>4, Unexceptional
  <1>8. rule \in Holding(ev) <=>
          rule \in Range(ev.registry.batch.rules) /\ Meaning(tree, x)
    BY DEF Holding
  <1> HIDE DEF n, ev, x, k, cands, rule, tree, where
  <1>a. \E pc \in {"rules", "failed"} : \E held, a :
          /\ n = [pc |-> pc, registry |-> ev.registry, event |-> ev.event, rule |-> ev.rule,
                  walk |-> ev.walk, held |-> held, acts |-> a]
          /\ pc = "rules" => held = IF ev.walk.value THEN Append(ev.held, rule.name) ELSE ev.held
    <2>1. CASE ~ev.walk.value /\ n = [ev EXCEPT !.pc = "rules"]
      <3>1. n = [pc |-> "rules", registry |-> ev.registry, event |-> ev.event, rule |-> ev.rule,
                 walk |-> ev.walk, held |-> ev.held, acts |-> ev.acts]
        BY <1>3, <2>1, PcUpdate
      <3> QED  BY <2>1, <3>1
    <2>2. CASE n = [ev EXCEPT !.pc = "failed"]
      <3>1. n = [pc |-> "failed", registry |-> ev.registry, event |-> ev.event, rule |-> ev.rule,
                 walk |-> ev.walk, held |-> ev.held, acts |-> ev.acts]
        BY <1>3, <2>2, PcUpdate
      <3>2. "failed" # "rules"  OBVIOUS
      <3> QED  BY <3>1, <3>2
    <2>3. CASE ev.walk.value /\ n = Fired(ev, "rules", Append(ev.held, rule.name), acts)
      <3> DEFINE longer == Append(ev.held, rule.name)
      <3> HIDE DEF longer
      <3>1. n = [pc |-> "rules", registry |-> ev.registry, event |-> ev.event, rule |-> ev.rule,
                 walk |-> ev.walk, held |-> longer, acts |-> acts]
        BY <1>3, <2>3, FiredUpdate DEF longer
      <3> QED  BY <2>3, <3>1 DEF longer
    <2> QED  BY <1>2, <2>1, <2>2, <2>3
  <1>b. PICK pc \in {"rules", "failed"} : \E held, a :
          /\ n = [pc |-> pc, registry |-> ev.registry, event |-> ev.event, rule |-> ev.rule,
                  walk |-> ev.walk, held |-> held, acts |-> a]
          /\ pc = "rules" => held = IF ev.walk.value THEN Append(ev.held, rule.name) ELSE ev.held
    BY <1>a
  <1>9. PICK held, a :
          /\ n = [pc |-> pc, registry |-> ev.registry, event |-> ev.event, rule |-> ev.rule,
                  walk |-> ev.walk, held |-> held, acts |-> a]
          /\ pc = "rules" => held = IF ev.walk.value THEN Append(ev.held, rule.name) ELSE ev.held
    BY <1>b
  <1>10. /\ n.pc = pc /\ n.registry = ev.registry /\ n.event = ev.event
         /\ n.rule = ev.rule /\ n.walk = ev.walk /\ n.held = held
    BY <1>9
  <1>11. Context(n) = x /\ Found(n, n.rule) = Found(ev, k)
    BY <1>10, SameQuestion DEF x, k
  <1>12. CASE Exceptional(ev.registry.batch, ev.event)
    BY <1>10, <1>12 DEF DecidedOK, n
  <1>13. CASE ~Exceptional(ev.registry.batch, ev.event)
    <2>1. /\ MemoOK(ev.walk, x) /\ AnswersIn(ev.walk, tree, x)
          /\ ev.held = NamesOf(Found(ev, k - 1))
      BY <1>1, <1>13 DEF DecidedOK, ev, x, k, tree, rule, cands
    <2>2. ev.walk.node = tree
      <3>1. Len(ev.walk.path) + 1 = 1  BY <1>1
      <3>2. ev.walk.node \in Levels(tree)[1]  BY <1>3, <3>1 DEF StandsAt
      <3> QED  BY <3>2, LevelsDefined
    <2>3. ev.walk.value = Meaning(tree, x)
      <3>1. Len(ev.walk.path) + 1 = 1  BY <1>1
      <3> QED  BY <1>1, <2>1, <2>2, <3>1 DEF AnswersIn, Means, Meaning
    <2>4. Found(ev, k) = IF ev.walk.value THEN Append(Found(ev, k - 1), rule)
                         ELSE Found(ev, k - 1)
      <3>1. cands \in Seq(Range(cands)) /\ cands[k] = rule  BY <1>4, SeqFacts DEF rule
      <3>2. Selection(cands, where)[k] =
              IF where[k] THEN Append(Selection(cands, where)[k - 1], cands[k])
              ELSE Selection(cands, where)[k - 1]
        BY <1>4, <3>1, SelectionSteps
      <3>3. where[k] <=> ev.walk.value  BY <1>6, <1>7, <1>8, <1>13, <2>3
      <3> QED  BY <1>5, <3>1, <3>2, <3>3
    <2>5. Found(ev, k - 1) \in Seq(Range(cands)) /\ rule \in Range(cands)
      <3>1. cands \in Seq(Range(cands)) /\ k - 1 \in 0..Len(cands)  BY <1>4, SeqFacts
      <3> QED  BY <1>4, <1>5, <3>1, SelectionIsSeq, SeqFacts DEF rule
    <2>6. NamesOf(Append(Found(ev, k - 1), rule)) = Append(NamesOf(Found(ev, k - 1)), rule.name)
      BY <2>5, NamesAppend
    <2>7. pc = "rules" => held = NamesOf(Found(ev, k))
      <3>1. CASE ev.walk.value  BY <1>9, <2>1, <2>4, <2>6, <3>1
      <3>2. CASE ~ev.walk.value  BY <1>9, <2>1, <2>4, <3>2
      <3> QED  BY <3>1, <3>2
    <2> QED  BY <1>9, <1>10, <1>11, <2>1, <2>7 DEF DecidedOK, n
  <1> QED  BY <1>12, <1>13

LEMMA OverDecides ==
  ASSUME EvaluationOK(evaluation), DecidedOK(evaluation), EvaluationOver
  PROVE  DecidedOK(evaluation')
  <1> DEFINE ev == evaluation
             n  == evaluation'
  <1>1. ev.pc = "rules" /\ ev.pc \in Under /\ n = [ev EXCEPT !.pc = "over"] /\ IsEvaluation(ev)
    BY DEF EvaluationOver, Under, EvaluationOK
  <1>2. ~Exceptional(ev.registry.batch, ev.event) =>
          MemoOK(ev.walk, Context(ev)) /\ ev.held = NamesOf(Found(ev, ev.rule))
    BY <1>1 DEF DecidedOK
  <1> HIDE DEF n, ev
  <1>3. n = [pc |-> "over", registry |-> ev.registry, event |-> ev.event, rule |-> ev.rule,
             walk |-> ev.walk, held |-> ev.held, acts |-> ev.acts]
    BY <1>1, PcUpdate
  <1>4. /\ n.pc = "over" /\ n.registry = ev.registry /\ n.event = ev.event
        /\ n.rule = ev.rule /\ n.walk = ev.walk /\ n.held = ev.held
    BY <1>3
  <1>5. Context(n) = Context(ev) /\ Found(n, n.rule) = Found(ev, ev.rule)
    BY <1>4, SameQuestion
  <1> QED  BY <1>2, <1>4, <1>5 DEF DecidedOK, n

LEMMA DecidedInvariant == Spec => []DecidedOK(evaluation)
  <1>1. Init => DecidedOK(evaluation)
    <2> SUFFICES ASSUME evaluation = Idle PROVE DecidedOK(evaluation)  BY DEF Init
    <2>1. evaluation.pc \notin Under  BY DEF Idle, Under
    <2> QED  BY <2>1 DEF DecidedOK
  <1>2. /\ EvaluationOK(evaluation) /\ EvaluationOK(evaluation)' /\ DecidedOK(evaluation)
        /\ [Next]_vars
        => DecidedOK(evaluation)'
    <2> SUFFICES ASSUME EvaluationOK(evaluation), EvaluationOK(evaluation'),
                        DecidedOK(evaluation), [Next]_vars
                 PROVE  DecidedOK(evaluation')
      OBVIOUS
    <2>1. CASE \E batch \in scene.batches : Register(batch)  BY <2>1 DEF Register
    <2>2. CASE \E event \in scene.events : Evaluate(event)  BY <2>2, EvaluateDecides
    <2>3. CASE EvaluateRule  BY <2>3, RuleDecides
    <2>4. CASE Walk  BY <2>4, WalkDecides
    <2>5. CASE WhenReturns  BY <2>5, ReturnsDecide
    <2>6. CASE EvaluationOver  BY <2>6, OverDecides
    <2>7. CASE UNCHANGED vars  BY <2>7 DEF vars
    <2> QED  BY <2>1, <2>2, <2>3, <2>4, <2>5, <2>6, <2>7 DEF Next
  <1> QED  BY <1>1, <1>2, EvaluationInvariant, PTL DEF Spec

(* A finished evaluation has decided each rule of the event as its tree     *)
(* means, in the order of the batch it began with: for trees of any shape   *)
(* and depth, any number of rules sharing the memo, and any registrations   *)
(* in between, apart from the named exceptions.                             *)
THEOREM RulesAreDecidedAsMeant == Spec => []DecidesAsMeant
  <1>1. EvaluationOK(evaluation) /\ DecidedOK(evaluation) => DecidesAsMeant
    <2> SUFFICES ASSUME EvaluationOK(evaluation), DecidedOK(evaluation),
                        evaluation.pc = "over",
                        ~Exceptional(evaluation.registry.batch, evaluation.event)
                 PROVE  LET ev    == evaluation
                            x     == [registry |-> ev.registry, event |-> ev.event]
                            rules == ev.registry.batch.rules
                            meant == Select(rules, [i \in DOMAIN rules |->
                                       rules[i].event = ev.event.name
                                       /\ Meaning(rules[i].when, x)])
                        IN  ev.held = [i \in DOMAIN meant |-> meant[i].name]
      BY DEF DecidesAsMeant
    <2> DEFINE ev    == evaluation
               x     == [registry |-> ev.registry, event |-> ev.event]
               rules == ev.registry.batch.rules
               both  == [i \in DOMAIN rules |-> rules[i].event = ev.event.name
                                                /\ Meaning(rules[i].when, x)]
               mine  == [i \in DOMAIN rules |-> rules[i].event = ev.event.name]
               H     == Holding(ev)
               cands == Candidates(ev)
    <2>1. ev.pc \in Under /\ ev.rule = Len(cands) /\ ev.held = NamesOf(Found(ev, ev.rule))
      BY DEF Under, EvaluationOK, DecidedOK
    <2>2. PICK batch : Accepted(batch) /\ ev.registry = BuildRegistry(batch)
      BY <2>1 DEF EvaluationOK
    <2>3. rules = batch.rules /\ IsSeq(rules)
      BY <2>2, RegistryFields DEF Accepted, BatchTyped
    <2>4. cands = Select(rules, mine)  BY <2>2, <2>3, CandidatesAre DEF Dispatch
    <2>5. Found(ev, ev.rule) = Chosen(cands, H)  BY <2>1 DEF Found, Chosen, Select
    <2>6. rules \in Seq(Range(rules)) /\ DOMAIN rules = 1..Len(rules)
          /\ \A i \in DOMAIN rules : rules[i] \in Range(rules)
      BY <2>3, SeqFacts
    <2>7. \A i \in DOMAIN rules : rules[i] \in H <=> Meaning(rules[i].when, x)
      BY <2>6 DEF Holding, Context
    <2>8. \A i \in DOMAIN rules :
            /\ mine[i] <=> rules[i].event = ev.event.name
            /\ both[i] <=> (rules[i].event = ev.event.name /\ Meaning(rules[i].when, x))
      OBVIOUS
    <2> HIDE DEF ev, x, rules, both, mine, H, cands
    <2>9. \A i \in 1..Len(rules) : both[i] <=> (mine[i] /\ rules[i] \in H)
      BY <2>6, <2>7, <2>8
    <2>10. Chosen(Select(rules, mine), H) = Select(rules, both)
      <3> DEFINE R == Range(rules)
      <3>1. rules \in Seq(R)  BY <2>6
      <3> HIDE DEF R
      <3>2. ASSUME NEW first, NEW chosen, NEW among,
                   \A i \in 1..Len(rules) : among[i] <=> (first[i] /\ rules[i] \in chosen)
            PROVE  Chosen(Select(rules, first), chosen) = Select(rules, among)
        BY <3>1, <3>2, SelectTwice
      <3> QED  BY <2>9, <3>2
    <2>11. ev.held = NamesOf(Select(rules, both))  BY <2>1, <2>4, <2>5, <2>10
    <2> QED  BY <2>11 DEF NamesOf, ev, x, rules, both
  <1> QED  BY <1>1, EvaluationInvariant, DecidedInvariant, PTL
=============================================================================

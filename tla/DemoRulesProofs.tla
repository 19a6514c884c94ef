-------------------------- MODULE DemoRulesProofs --------------------------
(***************************************************************************)
(* The demo reports on evidence.  RegistrationProofs shows that rules are   *)
(* decided as their trees mean; here that is applied to the demo's batch:   *)
(* what its trees mean in terms of a webhook, and how often a walk of them  *)
(* asks the classifier.                                                     *)
(***************************************************************************)
EXTENDS DemoRules, RegistrationProofs

(* The rules of the demo, one by one. *)
LEMMA DemoRulesAre ==
  /\ DemoBatch.rules = DemoRuleList /\ DemoBatch.predicates = DemoPredicates
  /\ DemoRuleList \in Seq(Range(DemoRuleList)) /\ Len(DemoRuleList) = 6
  /\ DOMAIN DemoRuleList = 1..6
  /\ /\ DemoRuleList[1].name = "infra-pr-from-outsider" /\ DemoRuleList[2].name = "demo-comment-command"
     /\ DemoRuleList[3].name = "flaky-ci-on-pr" /\ DemoRuleList[4].name = "hostile-pr-comment"
     /\ DemoRuleList[5].name = "breaking-release" /\ DemoRuleList[6].name = "issue-closed-quiet"
  /\ /\ DemoRuleList[1].event = "pull_request.opened" /\ DemoRuleList[2].event = "issue_comment.created"
     /\ DemoRuleList[3].event = "workflow_run.completed" /\ DemoRuleList[4].event = "issue_comment.created"
     /\ DemoRuleList[5].event = "release.published" /\ DemoRuleList[6].event = "issues.closed"
  /\ /\ DemoRuleList[1].when = InfraPr /\ DemoRuleList[2].when = Fn("command")
     /\ DemoRuleList[3].when = Fn("failedOnPr") /\ DemoRuleList[4].when = HostileOnPr
     /\ DemoRuleList[5].when = Fn("breaking") /\ DemoRuleList[6].when = Fn("always")
  <1>1. DemoBatch.rules = DemoRuleList /\ DemoBatch.predicates = DemoPredicates  BY DEF DemoBatch
  <1>2. \A n, e, w, s, d, a :
          LET r == DemoRule(n, e, w, s, d, a) IN r.name = n /\ r.event = e /\ r.when = w
    BY DEF DemoRule
  <1>3. PICK r1, r2, r3, r4, r5, r6 :
          /\ DemoRuleList = <<r1, r2, r3, r4, r5, r6>>
          /\ r1.name = "infra-pr-from-outsider" /\ r2.name = "demo-comment-command"
          /\ r3.name = "flaky-ci-on-pr" /\ r4.name = "hostile-pr-comment"
          /\ r5.name = "breaking-release" /\ r6.name = "issue-closed-quiet"
          /\ r1.event = "pull_request.opened" /\ r2.event = "issue_comment.created"
          /\ r3.event = "workflow_run.completed" /\ r4.event = "issue_comment.created"
          /\ r5.event = "release.published" /\ r6.event = "issues.closed"
          /\ r1.when = InfraPr /\ r2.when = Fn("command") /\ r3.when = Fn("failedOnPr")
          /\ r4.when = HostileOnPr /\ r5.when = Fn("breaking") /\ r6.when = Fn("always")
    BY <1>2 DEF DemoRuleList
  <1>4. <<r1, r2, r3, r4, r5, r6>> \in Seq({r1, r2, r3, r4, r5, r6})  OBVIOUS
  <1>5. IsSeq(DemoRuleList)  BY <1>3, <1>4, SeqIsSeq
  <1>6. Len(DemoRuleList) = 6 /\ DOMAIN DemoRuleList = 1..6  BY <1>3
  <1>7. DemoRuleList[1] = r1 /\ DemoRuleList[2] = r2 /\ DemoRuleList[3] = r3
        /\ DemoRuleList[4] = r4 /\ DemoRuleList[5] = r5 /\ DemoRuleList[6] = r6
    BY <1>3
  <1> QED  BY <1>1, <1>3, <1>5, <1>6, <1>7 DEF IsSeq

(* A tree whose children have no children ends with its second level. *)
LEMMA LevelsEnd ==
  ASSUME NEW tree, \A node \in Range(Children(tree)) : Children(node) = << >>,
         NEW d \in 3..(MaxDepth + 1)
  PROVE  Levels(tree)[d] = {}
  <1> DEFINE T == { e \in 3..(MaxDepth + 1) : Levels(tree)[e] # {} }
  <1>1. MaxDepth \in Nat \ {0}  BY WhenTreeAssumption
  <1>2. T \subseteq Nat  OBVIOUS
  <1>3. T = {}
    <2> SUFFICES ASSUME T # {} PROVE FALSE  OBVIOUS
    <2>1. PICK e \in T : \A m \in T : e <= m
      <3> HIDE DEF T
      <3> QED  BY <1>2, NatMin
    <2>2. e \in 3..(MaxDepth + 1) /\ Levels(tree)[e] # {}  OBVIOUS
    <2>3. e - 1 \in 2..MaxDepth /\ e - 1 \in 1..MaxDepth /\ (e - 1) + 1 = e  BY <1>1, <2>2
    <2>4. Levels(tree)[e] = UNION { Range(Children(node)) : node \in Levels(tree)[e - 1] }
      BY <2>3, LevelsDefined
    <2>5. PICK node \in Levels(tree)[e - 1] : Range(Children(node)) # {}  BY <2>2, <2>4
    <2>6. Range(<< >>) = {}
      <3>1. << >> \in Seq({})  OBVIOUS
      <3> QED  BY <3>1 DEF Range
    <2>7. Children(node) # << >>  BY <2>5, <2>6
    <2>8. CASE e = 3
      <3>1. Levels(tree)[1] = {tree} /\ 1 \in 1..MaxDepth /\ 1 + 1 = 2 /\ e - 1 = 2
        BY <1>1, <2>8, LevelsDefined
      <3>2. Levels(tree)[1 + 1] = UNION { Range(Children(n)) : n \in Levels(tree)[1] }
        BY <3>1, LevelsDefined
      <3>3. node \in Range(Children(tree))  BY <3>1, <3>2
      <3> QED  BY <2>7, <3>3
    <2>9. CASE e # 3
      <3>a. e - 1 \in 3..(MaxDepth + 1)  BY <1>1, <2>2, <2>9
      <3>b. Levels(tree)[e - 1] # {}  BY <2>5
      <3>1. e - 1 \in T  BY <3>a, <3>b
      <3> HIDE DEF T
      <3> QED  BY <2>1, <2>2, <3>1
    <2> QED  BY <2>8, <2>9
  <1> QED  BY <1>3

(* The two conditions with more than one node. *)
LEMMA DemoTrees ==
  /\ InfraPr.kind = "all" /\ Len(Children(InfraPr)) = 3
  /\ Children(InfraPr) = InfraPr.children /\ DOMAIN Children(InfraPr) = 1..3
  /\ Children(InfraPr)[1] = Fn("toMain") /\ Children(InfraPr)[2] = Fn("outsider")
  /\ Children(InfraPr)[3] = Fn("touchesInfra")
  /\ HostileOnPr.kind = "all" /\ Len(Children(HostileOnPr)) = 2
  /\ Children(HostileOnPr) = HostileOnPr.children /\ DOMAIN Children(HostileOnPr) = 1..2
  /\ Children(HostileOnPr)[1] = Fn("onPullRequest")
  /\ Children(HostileOnPr)[2] = UseRef("is_hostile_comment", [x |-> "80"])
  <1>1. ASSUME NEW s PROVE AllOf(s).kind = "all" /\ AllOf(s).children = s /\ Children(AllOf(s)) = s
    BY DEF AllOf, Children
  <1>2. ASSUME NEW a, NEW b, NEW c
        PROVE  LET s == <<a, b, c>>
               IN  Len(s) = 3 /\ DOMAIN s = 1..3 /\ s[1] = a /\ s[2] = b /\ s[3] = c
    OBVIOUS
  <1>3. ASSUME NEW a, NEW b
        PROVE  LET s == <<a, b>> IN Len(s) = 2 /\ DOMAIN s = 1..2 /\ s[1] = a /\ s[2] = b
    OBVIOUS
  <1>4. PICK a, b, c : InfraPr = AllOf(<<a, b, c>>) /\ a = Fn("toMain") /\ b = Fn("outsider")
                       /\ c = Fn("touchesInfra")
    BY DEF InfraPr
  <1>5. PICK d, e : HostileOnPr = AllOf(<<d, e>>) /\ d = Fn("onPullRequest")
                    /\ e = UseRef("is_hostile_comment", [x |-> "80"])
    BY DEF HostileOnPr
  <1>6. /\ Children(InfraPr) = <<a, b, c>> /\ InfraPr.kind = "all"
        /\ InfraPr.children = <<a, b, c>>
    BY <1>1, <1>4
  <1>7. /\ Children(HostileOnPr) = <<d, e>> /\ HostileOnPr.kind = "all"
        /\ HostileOnPr.children = <<d, e>>
    BY <1>1, <1>5
  <1> QED  BY <1>2, <1>3, <1>4, <1>5, <1>6, <1>7

(* The leaves of the demo's trees.                                          *)
LEMMA LeafFacts ==
  ASSUME NEW name, NEW args
  PROVE  /\ Fn(name).kind = "fn" /\ Fn(name).name = name /\ Children(Fn(name)) = << >>
         /\ UseRef(name, args).kind = "use" /\ UseRef(name, args).name = name
         /\ UseRef(name, args).args = args /\ Children(UseRef(name, args)) = << >>
  <1>1. /\ Fn(name).kind = "fn" /\ Fn(name).name = name
        /\ UseRef(name, args).kind = "use" /\ UseRef(name, args).name = name
        /\ UseRef(name, args).args = args
    BY DEF Fn, UseRef
  <1>2. \A node : node.kind = "fn" \/ node.kind = "use" => Children(node) = << >>
    BY DEF Children
  <1> QED  BY <1>1, <1>2

(* The nodes of the six conditions: a combinator is on top, and the one     *)
(* predicate they use has a plain argument.                                 *)
LEMMA DemoNodes ==
  ASSUME NEW k \in 1..6, NEW d \in 1..MaxDepth, NEW node \in Levels(DemoRuleList[k].when)[d]
  PROVE  /\ node.kind \in {"all", "fn", "use"} /\ (node.kind = "all" => d = 1)
         /\ node.kind = "use" => node.args = [x |-> "80"] /\ node.name = "is_hostile_comment"
  <1> DEFINE tree == DemoRuleList[k].when
             Leaf(n) == /\ n.kind \in {"fn", "use"} /\ Children(n) = << >>
                        /\ n.kind = "use" => n.args = [x |-> "80"] /\ n.name = "is_hostile_comment"
  <1>1. ASSUME NEW name PROVE Leaf(Fn(name))  BY LeafFacts
  <1>2. Leaf(UseRef("is_hostile_comment", [x |-> "80"]))
    <2> DEFINE args == [x |-> "80"]
    <2> HIDE DEF args
    <2>1. Leaf(UseRef("is_hostile_comment", args))  BY LeafFacts DEF args
    <2> QED  BY <2>1 DEF args
  <1> HIDE DEF Leaf
  <1>3. \/ \E name : tree = Fn(name)
        \/ tree = InfraPr \/ tree = HostileOnPr
    <2>1. k = 1 \/ k = 2 \/ k = 3 \/ k = 4 \/ k = 5 \/ k = 6  OBVIOUS
    <2> QED  BY <2>1, DemoRulesAre
  <1> HIDE DEF tree
  <1>4. (tree.kind = "all" \/ Leaf(tree)) /\ \A n \in Range(Children(tree)) : Leaf(n)
    <2>1. CASE \E name : tree = Fn(name)
      <3>1. PICK name : tree = Fn(name)  BY <2>1
      <3>2. Leaf(tree) /\ Children(tree) = << >>  BY <1>1, <3>1, LeafFacts
      <3>3. Range(<< >>) = {}
        <4>1. << >> \in Seq({})  OBVIOUS
        <4> QED  BY <4>1 DEF Range
      <3> QED  BY <3>2, <3>3
    <2>2. CASE tree = InfraPr
      <3>1. tree.kind = "all" /\ DOMAIN Children(tree) = 1..3  BY <2>2, DemoTrees
      <3>2. ASSUME NEW i \in 1..3 PROVE Leaf(Children(tree)[i])
        <4>1. i = 1 \/ i = 2 \/ i = 3  OBVIOUS
        <4> QED  BY <1>1, <2>2, <4>1, DemoTrees
      <3> QED  BY <3>1, <3>2 DEF Range
    <2>3. CASE tree = HostileOnPr
      <3>1. tree.kind = "all" /\ DOMAIN Children(tree) = 1..2  BY <2>3, DemoTrees
      <3>2. ASSUME NEW i \in 1..2 PROVE Leaf(Children(tree)[i])
        <4>1. i = 1 \/ i = 2  OBVIOUS
        <4> QED  BY <1>1, <1>2, <2>3, <4>1, DemoTrees
      <3> QED  BY <3>1, <3>2 DEF Range
    <2> QED  BY <1>3, <2>1, <2>2, <2>3
  <1>5. MaxDepth \in Nat \ {0} /\ Levels(tree)[1] = {tree}  BY WhenTreeAssumption, LevelsDefined
  <1>6. node \in Levels(tree)[d]  BY DEF tree
  <1>7. CASE d = 1  BY <1>4, <1>5, <1>6, <1>7 DEF Leaf
  <1>8. CASE d = 2
    <2>1. 1 \in 1..MaxDepth /\ 1 + 1 = d  BY <1>5, <1>8
    <2>2. Levels(tree)[1 + 1] = UNION { Range(Children(n)) : n \in Levels(tree)[1] }
      BY <2>1, LevelsDefined
    <2>3. Leaf(node)  BY <1>4, <1>5, <1>6, <2>1, <2>2
    <2> QED  BY <1>8, <2>3 DEF Leaf
  <1>9. CASE d # 1 /\ d # 2
    <2>1. d \in 3..(MaxDepth + 1)  BY <1>5, <1>9
    <2>2. \A n \in Range(Children(tree)) : Children(n) = << >>  BY <1>4 DEF Leaf
    <2> QED  BY <1>6, <2>1, <2>2, LevelsEnd
  <1> QED  BY <1>7, <1>8, <1>9

(* The depth limit is above one, or the batch would have been refused.      *)
LEMMA DemoDepth ==
  ASSUME Accepted(DemoBatch)
  PROVE  MaxDepth >= 2
  <1>1. WithinDepth(HostileOnPr)
    <2>1. 4 \in DOMAIN DemoBatch.rules /\ DemoBatch.rules[4].when = HostileOnPr  BY DemoRulesAre
    <2> QED  BY <2>1, AcceptedRules
  <1>2. MaxDepth \in Nat \ {0} /\ 1 \in 1..MaxDepth  BY WhenTreeAssumption
  <1>3. Levels(HostileOnPr)[1 + 1] # {}
    <2>1. Levels(HostileOnPr)[1 + 1] = UNION { Range(Children(n)) : n \in Levels(HostileOnPr)[1] }
      BY <1>2, LevelsDefined
    <2>2. Levels(HostileOnPr)[1] = {HostileOnPr}  BY LevelsDefined
    <2>3. Children(HostileOnPr)[1] \in Range(Children(HostileOnPr))  BY DemoTrees DEF Range
    <2> QED  BY <2>1, <2>2, <2>3
  <1>4. MaxDepth + 1 # 1 + 1  BY <1>1, <1>3 DEF WithinDepth
  <1> QED  BY <1>2, <1>4

(* The predicate of the demo, as it is registered. *)
LEMMA DemoPredicate ==
  /\ DOMAIN ByName(DemoPredicates) = {"is_hostile_comment"}
  /\ DOMAIN DemoPredicates = {1} /\ DemoPredicates[1].pinned = NoArgs
  /\ ByName(DemoPredicates)["is_hostile_comment"].pinned = NoArgs
  /\ ByName(DemoPredicates)["is_hostile_comment"].schema = [x \in {"x"} |-> {"80"}]
  <1>1. PICK p : /\ DemoPredicates = <<p>> /\ p.name = "is_hostile_comment" /\ p.pinned = NoArgs
                 /\ p.schema = [x \in {"x"} |-> {"80"}]
    <2> DEFINE accepted == [x \in {"x"} |-> {"80"}]
               entity   == Entity("is_hostile_comment", "predicate")
    <2>1. entity = [name |-> "is_hostile_comment", kind |-> "predicate", implemented |-> TRUE,
                    schema |-> NoArgs, pinned |-> NoArgs]
      BY DEF Entity
    <2>2. DemoPredicates = <<[entity EXCEPT !.schema = accepted]>>  BY DEF DemoPredicates
    <2> HIDE DEF accepted, entity
    <2>3. LET p == [entity EXCEPT !.schema = accepted]
          IN  p.name = "is_hostile_comment" /\ p.pinned = NoArgs /\ p.schema = accepted
      BY <2>1
    <2> QED  BY <2>2, <2>3 DEF accepted
  <1>2. DOMAIN DemoPredicates = {1} /\ DemoPredicates[1] = p  BY <1>1
  <1>3. Names(DemoPredicates) = {"is_hostile_comment"}  BY <1>1, <1>2 DEF Names
  <1>4. IsSeq(DemoPredicates)
    <2>1. <<p>> \in Seq({p})  OBVIOUS
    <2> QED  BY <1>1, <2>1, SeqIsSeq
  <1>5. First(DemoPredicates, "is_hostile_comment") = p  BY <1>2, <1>3, <1>4, FirstIsOne
  <1> QED  BY <1>1, <1>2, <1>3, <1>5 DEF ByName

(* No arguments.                                                            *)
LEMMA NoArgsFacts ==
  /\ DOMAIN NoArgs = {} /\ Defined(NoArgs) = {} /\ \A k : ArgOf(NoArgs, k) = "undefined"
  /\ \A values : ~Gives(NoArgs, values)
BY DEF NoArgs, Defined, ArgOf, Gives

(* None of the exceptions of DecidesAsMeant is met by the demo. *)
LEMMA DemoUnexceptional ==
  ASSUME Accepted(DemoBatch), NEW event, event.gives = NoArgs
  PROVE  ~Exceptional(DemoBatch, event)
  <1>1. MaxDepth \in Nat /\ MaxDepth >= 2 /\ MaxDepth \in 1..MaxDepth
    BY DemoDepth, WhenTreeAssumption
  <1>2. DOMAIN DemoBatch.rules = 1..6 /\ DemoBatch.rules = DemoRuleList  BY DemoRulesAre
  <1>3. ASSUME NEW i \in 1..6
        PROVE  /\ \A node \in Levels(DemoRuleList[i].when)[MaxDepth] : node.kind # "all"
               /\ \A use \in Uses(DemoRuleList[i].when) : ~Gives(use.args, Confused)
    <2>1. ASSUME NEW node \in Levels(DemoRuleList[i].when)[MaxDepth] PROVE node.kind # "all"
      BY <1>1, DemoNodes
    <2>2. ASSUME NEW use \in Uses(DemoRuleList[i].when) PROVE ~Gives(use.args, Confused)
      <3>1. PICK d \in 1..MaxDepth : use \in Levels(DemoRuleList[i].when)[d]  BY DEF Uses, Nodes
      <3>2. use.kind = "use"  BY DEF Uses
      <3>3. use.args = [x |-> "80"]  BY <3>1, <3>2, DemoNodes
      <3> QED  BY <3>3 DEF Gives, Confused
    <2> QED  BY <2>1, <2>2
  <1>4. ASSUME NEW i \in DOMAIN DemoBatch.predicates
        PROVE  /\ ArgOf(DemoBatch.predicates[i].pinned, "failOpen") = "undefined"
               /\ ~Gives(DemoBatch.predicates[i].pinned, Confused)
    <2>1. DemoBatch.predicates = DemoPredicates /\ i = 1  BY DemoRulesAre, DemoPredicate
    <2>2. DemoBatch.predicates[i].pinned = NoArgs  BY <2>1, DemoPredicate
    <2> QED  BY <2>2, NoArgsFacts
  <1>5. ~Gives(event.gives, Confused)  BY NoArgsFacts
  <1> QED  BY <1>2, <1>3, <1>4, <1>5 DEF Exceptional

-----------------------------------------------------------------------------
(* What the demo's conditions mean. *)

(* What is remembered settles the node, and the walk stays where it is.     *)
LEMMA RememberSettles ==
  ASSUME NEW w, IsWalk(w), NEW key, NEW value, NEW n, n = Remember(w, key, value)
  PROVE  n.settled /\ n.value = value /\ n.path = w.path /\ n.node = w.node /\ n.calls = w.calls
  <1>1. /\ IsWalk(n) /\ n.settled /\ n.value = value
        /\ n.path = w.path /\ n.node = w.node /\ n.calls = w.calls
        /\ n.memo = Append(w.memo, [key |-> key, value |-> value])
    BY RememberFields
  <1> QED  BY <1>1

(* The question of the demo's predicate, while nothing was asked yet: it is *)
(* put to the classifier once, and what throws is false.                    *)
LEMMA HostileIsAsked ==
  ASSUME NEW x, x.registry = BuildRegistry(DemoBatch), x.event.gives = NoArgs,
         NEW w, IsWalk(w), w.memo = << >>
  PROVE  LET n      == ResolveUse(UseRef("is_hostile_comment", [x |-> "80"]), x, w)
             judges == x.event.judges["is_hostile_comment"]["80"]
         IN  /\ IsSeq(n.calls) /\ Len(n.calls) = Len(w.calls) + 1
             /\ n.settled /\ n.path = w.path /\ n.node = w.node
             /\ n.value <=> judges = "true"
  <1> DEFINE given  == [x |-> "80"]
             node   == UseRef("is_hostile_comment", given)
             pred   == x.registry.predicates[node.name]
             merged == Merged(pred.pinned, Resolve(node.args, x.event))
             fail   == Open(pred.pinned) \/ Open(node.args)
             key    == <<node.name, Canonical(merged)>>
             call   == CallOf(node.name, merged, x)
             failed == fail \/ Open(merged)
             asked  == [w EXCEPT !.calls = Append(w.calls, call)]
             judged == IF call.judges = "throws" THEN failed ELSE call.judges = "true"
             n      == ResolveUse(node, x, w)
             judges == x.event.judges["is_hostile_comment"]["80"]
  <1>1. n = IF node.name \notin DOMAIN x.registry.predicates THEN Settle(w, FALSE)
            ELSE IF ~Resolves(node.args, x.event) THEN Settle(w, fail)
            ELSE IF ~HasJson(merged) THEN Settle(w, failed)
            ELSE IF Known(w, key) THEN Settle(w, Recall(w, key))
            ELSE IF ~Accepts(pred.schema, merged) THEN Remember(w, key, failed)
            ELSE Remember(asked, key, judged)
    BY DEF ResolveUse
  <1>2. node.name = "is_hostile_comment" /\ node.args = given
    <2> HIDE DEF given
    <2> QED  BY LeafFacts
  <1>3. DOMAIN given = {"x"} /\ given["x"] = "80"  OBVIOUS
  <1>4. x.registry.predicates = ByName(DemoPredicates)
    BY RegistryFields, DemoRulesAre
  <1>5. /\ node.name \in DOMAIN x.registry.predicates
        /\ pred.pinned = NoArgs /\ pred.schema = [k \in {"x"} |-> {"80"}]
    BY <1>2, <1>4, DemoPredicate
  <1>6. merged = Merged(NoArgs, Resolve(given, x.event))  BY <1>2, <1>5
  <1>7. call.judges = x.event.judges[node.name][ArgOf(merged, "x")]  BY DEF CallOf
  <1>8. fail = (Open(pred.pinned) \/ Open(node.args))  OBVIOUS
  <1>a. failed = (fail \/ Open(merged))  OBVIOUS
  <1> HIDE DEF given, node, pred, merged, fail, key, call, failed, judged, n, judges
  <1>9. Resolve(given, x.event) = [k \in {"x"} |-> "80"] /\ Resolves(given, x.event)
    <2>1. Resolve(given, x.event) = [k \in {"x"} |-> "80"]
      BY <1>3, NoArgsFacts DEF Resolve
    <2>2. Resolves(given, x.event)  BY <1>3, <2>1 DEF Resolves
    <2> QED  BY <2>1, <2>2
  <1>10. DOMAIN merged = {"x"} /\ merged["x"] = "80"
    BY <1>6, <1>9, NoArgsFacts DEF Merged
  <1>11. HasJson(merged) /\ ArgOf(merged, "x") = "80" /\ ~Open(merged)
    BY <1>10 DEF HasJson, ArgOf, Open
  <1>12. Accepts(pred.schema, merged)
    <2>1. DOMAIN pred.schema = {"x"} /\ pred.schema["x"] = {"80"}  BY <1>5
    <2> QED  BY <1>11, <2>1 DEF Accepts
  <1>13. ~Known(w, key)
    <2>1. << >> \in Seq({})  OBVIOUS
    <2>2. DOMAIN w.memo = {}  BY <2>1
    <2> QED  BY <2>2 DEF Known
  <1>14. n = Remember(asked, key, judged)
    BY <1>1, <1>2, <1>5, <1>9, <1>11, <1>12, <1>13
  <1>15. failed = FALSE
    <2>1. ~Open(pred.pinned)  BY <1>5, NoArgsFacts DEF Open
    <2>2. ~Open(node.args)  BY <1>2, <1>3 DEF Open, ArgOf
    <2> QED  BY <1>8, <1>a, <1>11, <2>1, <2>2
  <1>16. call.judges = judges  BY <1>2, <1>7, <1>11 DEF judges
  <1>17. judged <=> judges = "true"
    <2>1. CASE call.judges = "throws"  BY <1>15, <1>16, <2>1 DEF judged
    <2>2. CASE call.judges # "throws"  BY <1>16, <2>2 DEF judged
    <2> QED  BY <2>1, <2>2
  <1>18. judged = (judges = "true")
    <2>1. judged \in BOOLEAN  BY <1>15 DEF judged
    <2> QED  BY <1>17, <2>1
  <1>19. IsSeq(Append(w.calls, call)) /\ Len(Append(w.calls, call)) = Len(w.calls) + 1
    BY AppendSeq DEF IsWalk
  <1>20. asked = [path |-> w.path, node |-> w.node, settled |-> w.settled, value |-> w.value,
                  memo |-> w.memo, calls |-> Append(w.calls, call)]
    <2> DEFINE r == [path |-> w.path, node |-> w.node, settled |-> w.settled,
                     value |-> w.value, memo |-> w.memo, calls |-> w.calls]
               longer == Append(w.calls, call)
    <2>1. w = r  BY DEF IsWalk
    <2> HIDE DEF longer
    <2>2. [r EXCEPT !.calls = longer] =
            [path |-> w.path, node |-> w.node, settled |-> w.settled, value |-> w.value,
             memo |-> w.memo, calls |-> longer]
      OBVIOUS
    <2> HIDE DEF r
    <2>3. asked = [r EXCEPT !.calls = longer]  BY <2>1 DEF longer
    <2> QED  BY <2>2, <2>3 DEF longer
  <1>21. /\ IsWalk(asked) /\ asked.path = w.path /\ asked.node = w.node
         /\ asked.calls = Append(w.calls, call)
    BY <1>19, <1>20 DEF IsWalk
  <1> HIDE DEF asked
  <1>22. /\ n.settled /\ n.value = judged /\ n.path = w.path /\ n.node = w.node
         /\ n.calls = Append(w.calls, call)
    <2>1. ASSUME NEW before, NEW value, IsWalk(before), n = Remember(before, key, value)
          PROVE  /\ n.settled /\ n.value = value /\ n.path = before.path
                 /\ n.node = before.node /\ n.calls = before.calls
      BY <2>1, RememberSettles
    <2>2. /\ n.settled /\ n.value = judged /\ n.path = asked.path
          /\ n.node = asked.node /\ n.calls = asked.calls
      BY <1>14, <1>21, <2>1
    <2> QED  BY <1>21, <2>2
  <1>23. n = ResolveUse(UseRef("is_hostile_comment", [x |-> "80"]), x, w)  BY DEF n, node, given
  <1> QED  BY <1>18, <1>19, <1>22, <1>23 DEF judges

(* A conjunction on top holds when every child does. *)
LEMMA AllMeans ==
  ASSUME NEW tree, WithinDepth(tree), tree.kind = "all", IsSeq(tree.children), NEW x
  PROVE  Meaning(tree, x) <=>
           \A i \in DOMAIN Children(tree) : Meanings(tree, x)[2][Children(tree)[i]]
  <1>1. 1 \in 1..MaxDepth /\ Levels(tree)[1] = {tree} /\ 1 + 1 = 2
    BY WhenTreeAssumption, LevelsDefined
  <1> DEFINE below == Meanings(tree, x)[2]
  <1>2. Meanings(tree, x)[1][tree] = MeaningOf(tree, x, below)
    <2>1. tree \in Levels(tree)[1]  BY <1>1
    <2>2. Meanings(tree, x)[1][tree] = MeaningOf(tree, x, Meanings(tree, x)[1 + 1])
      BY <1>1, <2>1, MeaningsDefined
    <2> QED  BY <1>1, <2>2
  <1> HIDE DEF below
  <1>3. MeaningOf(tree, x, below) = (\A i \in DOMAIN tree.children : below[tree.children[i]])
    BY DEF MeaningOf
  <1>4. Children(tree) = tree.children  BY DEF Children
  <1> QED  BY <1>2, <1>3, <1>4 DEF Meaning, below

(* What a child of a tree means: what the event says, or what the predicate *)
(* answers.                                                                 *)
LEMMA ChildMeans ==
  ASSUME NEW tree, WithinDepth(tree), NEW x, MaxDepth >= 2, NEW i \in DOMAIN Children(tree)
  PROVE  LET child == Children(tree)[i]
             value == Meanings(tree, x)[2][child]
         IN  /\ child.kind = "fn" => value = (x.event.says[child.name] = "true")
             /\ child.kind = "use" => value = ResolveUse(child, x, Start).value
  <1> DEFINE child == Children(tree)[i]
             below == Meanings(tree, x)[3]
  <1>1. 1 \in 1..MaxDepth /\ 2 \in 1..MaxDepth /\ 1 + 1 = 2 /\ 2 + 1 = 3
        /\ Levels(tree)[1] = {tree}
    BY WhenTreeAssumption, LevelsDefined
  <1>2. child \in Levels(tree)[2]
    <2>1. Levels(tree)[1 + 1] = UNION { Range(Children(n)) : n \in Levels(tree)[1] }
      BY <1>1, LevelsDefined
    <2>2. child \in Range(Children(tree))  BY DEF Range
    <2> QED  BY <1>1, <2>1, <2>2
  <1>3. Meanings(tree, x)[2][child] = MeaningOf(child, x, below)
    <2>1. Meanings(tree, x)[2][child] = MeaningOf(child, x, Meanings(tree, x)[2 + 1])
      BY <1>1, <1>2, MeaningsDefined
    <2> QED  BY <1>1, <2>1
  <1> HIDE DEF child, below
  <1>4. child.kind = "fn" => MeaningOf(child, x, below) = (x.event.says[child.name] = "true")
    BY DEF MeaningOf
  <1>5. child.kind = "use" => MeaningOf(child, x, below) = ResolveUse(child, x, Start).value
    BY DEF MeaningOf
  <1> QED  BY <1>3, <1>4, <1>5 DEF child

(* The condition on pull requests holds where all three functions do.       *)
LEMMA InfraMeans ==
  ASSUME Accepted(DemoBatch), NEW x
  PROVE  Meaning(InfraPr, x) <=>
           /\ x.event.says["toMain"] = "true" /\ x.event.says["outsider"] = "true"
           /\ x.event.says["touchesInfra"] = "true"
  <1> DEFINE C == Children(InfraPr)
             below == Meanings(InfraPr, x)[2]
  <1>1. 1 \in DOMAIN DemoBatch.rules /\ DemoBatch.rules[1].when = InfraPr  BY DemoRulesAre
  <1>2. WithinDepth(InfraPr) /\ TreeTyped(InfraPr)  BY <1>1, AcceptedRules
  <1>3. IsSeq(InfraPr.children)
    <2>1. InfraPr \in Levels(InfraPr)[1] /\ 1 \in 1..MaxDepth  BY WhenTreeAssumption, LevelsDefined
    <2>2. IsSeq(Children(InfraPr))  BY <1>2, <2>1, ChildrenBelow
    <2> QED  BY <2>2, DemoTrees
  <1>4. Meaning(InfraPr, x) <=> \A i \in DOMAIN C : below[C[i]]
    BY <1>2, <1>3, DemoTrees, AllMeans
  <1>5. MaxDepth >= 2  BY DemoDepth
  <1>6. \A i \in DOMAIN C : C[i].kind = "fn" => below[C[i]] = (x.event.says[C[i].name] = "true")
    BY <1>2, <1>5, ChildMeans
  <1>7. /\ DOMAIN C = 1..3
        /\ C[1] = Fn("toMain") /\ C[2] = Fn("outsider") /\ C[3] = Fn("touchesInfra")
    BY DemoTrees
  <1> HIDE DEF C, below
  <1>8. /\ C[1].kind = "fn" /\ C[1].name = "toMain" /\ C[2].kind = "fn" /\ C[2].name = "outsider"
        /\ C[3].kind = "fn" /\ C[3].name = "touchesInfra"
    BY <1>7, LeafFacts
  <1>9. /\ 1 \in DOMAIN C /\ 2 \in DOMAIN C /\ 3 \in DOMAIN C
        /\ \A i \in DOMAIN C : i = 1 \/ i = 2 \/ i = 3
    BY <1>7
  <1>10. /\ below[C[1]] = (x.event.says["toMain"] = "true")
         /\ below[C[2]] = (x.event.says["outsider"] = "true")
         /\ below[C[3]] = (x.event.says["touchesInfra"] = "true")
    BY <1>6, <1>8, <1>9
  <1> QED  BY <1>4, <1>9, <1>10

(* The condition on comments holds on a pull request whose comment the      *)
(* predicate judges hostile.                                                *)
LEMMA HostileMeans ==
  ASSUME Accepted(DemoBatch), NEW x, x.registry = BuildRegistry(DemoBatch), x.event.gives = NoArgs
  PROVE  Meaning(HostileOnPr, x) <=>
           /\ x.event.says["onPullRequest"] = "true"
           /\ x.event.judges["is_hostile_comment"]["80"] = "true"
  <1> DEFINE C == Children(HostileOnPr)
             below == Meanings(HostileOnPr, x)[2]
             use == UseRef("is_hostile_comment", [x |-> "80"])
             alone == ResolveUse(use, x, Start)
  <1>1. 4 \in DOMAIN DemoBatch.rules /\ DemoBatch.rules[4].when = HostileOnPr  BY DemoRulesAre
  <1>2. WithinDepth(HostileOnPr) /\ TreeTyped(HostileOnPr)  BY <1>1, AcceptedRules
  <1>3. IsSeq(HostileOnPr.children)
    <2>1. HostileOnPr \in Levels(HostileOnPr)[1] /\ 1 \in 1..MaxDepth
      BY WhenTreeAssumption, LevelsDefined
    <2>2. IsSeq(Children(HostileOnPr))  BY <1>2, <2>1, ChildrenBelow
    <2> QED  BY <2>2, DemoTrees
  <1>4. Meaning(HostileOnPr, x) <=> \A i \in DOMAIN C : below[C[i]]
    BY <1>2, <1>3, DemoTrees, AllMeans
  <1>5. MaxDepth >= 2  BY DemoDepth
  <1>6. /\ \A i \in DOMAIN C : C[i].kind = "fn" => below[C[i]] = (x.event.says[C[i].name] = "true")
        /\ \A i \in DOMAIN C : C[i].kind = "use" => below[C[i]] = ResolveUse(C[i], x, Start).value
    BY <1>2, <1>5, ChildMeans
  <1>7. DOMAIN C = 1..2 /\ C[1] = Fn("onPullRequest") /\ C[2] = use  BY DemoTrees
  <1>8. alone.value <=> x.event.judges["is_hostile_comment"]["80"] = "true"
    <2>1. IsWalk(Start) /\ Start.memo = << >>  BY StartIsWalk DEF Start
    <2> QED  BY <2>1, HostileIsAsked
  <1>9. use.kind = "use"  BY DEF UseRef
  <1> HIDE DEF C, below, use, alone
  <1>10. C[1].kind = "fn" /\ C[1].name = "onPullRequest"  BY <1>7, LeafFacts
  <1>11. /\ 1 \in DOMAIN C /\ 2 \in DOMAIN C /\ \A i \in DOMAIN C : i = 1 \/ i = 2  BY <1>7
  <1>12. /\ below[C[1]] = (x.event.says["onPullRequest"] = "true")
         /\ below[C[2]] = alone.value
    BY <1>6, <1>7, <1>9, <1>10, <1>11 DEF alone
  <1> QED  BY <1>4, <1>8, <1>11, <1>12

-----------------------------------------------------------------------------
(* The events webhooks become. *)

(* What an event of the handler says, by the webhook it was made of.        *)
LEMMA DemoEventIs ==
  ASSUME NEW e \in DemoEvents
  PROVE  \E w \in Webhooks :
           /\ e.webhook = w /\ e.gives = NoArgs /\ e.name # "unsupported"
           /\ e.name = EngineEventName(w.event, w.action)
           /\ \A f \in DOMAIN Facts(w) : e.says[f] = Truth(Facts(w)[f])
           /\ w.event = "issue_comment" =>
                e.judges["is_hostile_comment"]["80"] = IsHostileComment(w, 80)
  <1>1. PICK w \in Webhooks : e = DemoEvent(w) /\ e.name # "unsupported"  BY DEF DemoEvents
  <1> DEFINE says   == [f \in DOMAIN Facts(w) |-> Truth(Facts(w)[f])]
             judges == [is_hostile_comment |-> [k \in {"80"} |->
                          IF w.event = "issue_comment" THEN IsHostileComment(w, 80) ELSE "throws"]]
             name   == EngineEventName(w.event, w.action)
  <1>2. DemoEvent(w) = [name |-> name, webhook |-> w, gives |-> NoArgs, says |-> says,
                        judges |-> judges]
    BY DEF DemoEvent
  <1>3. \A f \in DOMAIN Facts(w) : says[f] = Truth(Facts(w)[f])  OBVIOUS
  <1>4. w.event = "issue_comment" => judges["is_hostile_comment"]["80"] = IsHostileComment(w, 80)
    OBVIOUS
  <1> HIDE DEF says, judges, name
  <1>5. e.webhook = w /\ e.gives = NoArgs /\ e.says = says /\ e.judges = judges /\ e.name = name
    BY <1>1, <1>2
  <1> QED  BY <1>1, <1>3, <1>4, <1>5 DEF name

(* Facts are told truly.                                                    *)
LEMMA TruthIs ==
  ASSUME NEW b \in BOOLEAN
  PROVE  (Truth(b) = "true") <=> b
BY DEF Truth

(* A webhook has the fields of its kind.                                    *)
LEMMA WebhookKinds ==
  ASSUME NEW w \in Webhooks
  PROVE  /\ w.event = "pull_request" => w \in PullRequests
         /\ w.event = "issue_comment" => w \in Comments
  <1>1. /\ \A v \in PullRequests : v.event = "pull_request"
        /\ \A v \in Comments : v.event = "issue_comment"
        /\ \A v \in Runs : v.event = "workflow_run"
        /\ \A v \in Releases : v.event = "release"
        /\ \A v \in Closings : v.event = "issues"
    BY DEF PullRequests, Comments, Runs, Releases, Closings
  <1> QED  BY <1>1 DEF Webhooks

(* What the conditions see of a pull request: with a token the files alone  *)
(* decide whether it touches the infrastructure.                            *)
LEMMA PullRequestEvent ==
  ASSUME NEW e \in DemoEvents, e.webhook.event = "pull_request"
  PROVE  LET pr == e.webhook
         IN  /\ e.name = "pull_request.opened" <=> pr.action = "opened"
             /\ (e.says["toMain"] = "true") <=> pr.toMain
             /\ (e.says["outsider"] = "true") <=> ~pr.coreTeam
             /\ pr.token => ((e.says["touchesInfra"] = "true") <=>
                               (pr.files = "infra" \/ pr.github = "infra"))
             /\ e.gives = NoArgs
  <1>1. PICK w \in Webhooks :
          /\ e.webhook = w /\ e.gives = NoArgs
          /\ e.name = EngineEventName(w.event, w.action)
          /\ \A f \in DOMAIN Facts(w) : e.says[f] = Truth(Facts(w)[f])
    BY DemoEventIs
  <1>2. w.event = "pull_request" /\ w \in PullRequests  BY <1>1, WebhookKinds
  <1>3. /\ w.action \in {"opened", "closed"} /\ w.toMain \in BOOLEAN /\ w.coreTeam \in BOOLEAN
        /\ w.token \in BOOLEAN
    BY <1>2 DEF PullRequests
  <1>4. Facts(w) = [toMain |-> w.toMain, outsider |-> ~w.coreTeam, touchesInfra |-> TouchesInfra(w)]
    BY <1>2 DEF Facts
  <1>5. /\ e.says["toMain"] = Truth(w.toMain) /\ e.says["outsider"] = Truth(~w.coreTeam)
        /\ e.says["touchesInfra"] = Truth(TouchesInfra(w))
    BY <1>1, <1>4
  <1>6. TouchesInfra(w) \in BOOLEAN
        /\ (w.token => (TouchesInfra(w) <=> (w.files = "infra" \/ w.github = "infra")))
    BY <1>2, <1>3 DEF TouchesInfra, PullRequests
  <1>7. EngineEventName("pull_request", "opened") = "pull_request.opened"
    BY DEF EngineEventName, SupportedEventNames
  <1>8. EngineEventName("pull_request", "closed") = "pull_request.closed"
    BY DEF EngineEventName, SupportedEventNames
  <1>9. e.name = "pull_request.opened" <=> w.action = "opened"
    <2>1. CASE w.action = "opened"  BY <1>1, <1>2, <1>7, <2>1
    <2>2. CASE w.action = "closed"  BY <1>1, <1>2, <1>8, <2>2
    <2> QED  BY <1>3, <2>1, <2>2
  <1>10. /\ (e.says["toMain"] = "true") <=> w.toMain
         /\ (e.says["outsider"] = "true") <=> ~w.coreTeam
         /\ (e.says["touchesInfra"] = "true") <=> TouchesInfra(w)
    <2>1. (~w.coreTeam) \in BOOLEAN  OBVIOUS
    <2> QED  BY <1>3, <1>5, <1>6, <2>1, TruthIs
  <1> QED  BY <1>1, <1>6, <1>9, <1>10

(* What the conditions see of a comment: an unsure or failing classifier    *)
(* never lets the predicate hold.                                           *)
LEMMA CommentEvent ==
  ASSUME NEW e \in DemoEvents, e.webhook.event = "issue_comment"
  PROVE  LET comment == e.webhook
         IN  /\ e.name = "issue_comment.created" /\ e.gives = NoArgs
             /\ comment.onPullRequest \in BOOLEAN
             /\ (e.says["onPullRequest"] = "true") <=> comment.onPullRequest
             /\ e.judges["is_hostile_comment"]["80"] = "true" =>
                  IF comment.url THEN comment.classifier = "sure" ELSE comment.marked
  <1>1. PICK w \in Webhooks :
          /\ e.webhook = w /\ e.gives = NoArgs /\ e.name # "unsupported"
          /\ e.name = EngineEventName(w.event, w.action)
          /\ \A f \in DOMAIN Facts(w) : e.says[f] = Truth(Facts(w)[f])
          /\ w.event = "issue_comment" =>
               e.judges["is_hostile_comment"]["80"] = IsHostileComment(w, 80)
    BY DemoEventIs
  <1>2. w.event = "issue_comment" /\ w \in Comments  BY <1>1, WebhookKinds
  <1>3. /\ w.action \in {"created", "deleted"} /\ w.onPullRequest \in BOOLEAN
        /\ w.url \in BOOLEAN /\ w.marked \in BOOLEAN
        /\ w.classifier \in {"sure", "unsure", "ok", "error", "unreachable"}
    BY <1>2 DEF Comments
  <1>4. Facts(w) = [command |-> w.command, onPullRequest |-> w.onPullRequest]
    BY <1>2 DEF Facts
  <1>5. e.says["onPullRequest"] = Truth(w.onPullRequest)  BY <1>1, <1>4
  <1>6. EngineEventName("issue_comment", "created") = "issue_comment.created"
    BY DEF EngineEventName, SupportedEventNames
  <1>7. EngineEventName("issue_comment", "deleted") = "unsupported"
    BY DEF EngineEventName, SupportedEventNames, BareEventNames
  <1>8. e.name = "issue_comment.created"  BY <1>1, <1>2, <1>3, <1>6, <1>7
  <1>9. IsHostileComment(w, 80) = "true" =>
          IF w.url THEN w.classifier = "sure" ELSE w.marked
    <2> DEFINE verdict == ClassifyComment(w)
    <2>1. IsHostileComment(w, 80) = "true" => verdict.label = "hostile" /\ verdict.confidence >= 80
      BY DEF IsHostileComment
    <2>2. ASSUME NEW l, NEW c PROVE Verdict(l, c).label = l /\ Verdict(l, c).confidence = c
      BY DEF Verdict
    <2>3. CASE ~w.url
      <3>1. verdict = Verdict(IF w.marked THEN "hostile" ELSE "ok", 95)  BY <2>3 DEF ClassifyComment
      <3>2. verdict.label = IF w.marked THEN "hostile" ELSE "ok"  BY <2>2, <3>1
      <3> QED  BY <1>3, <2>1, <2>3, <3>2
    <2>4. CASE w.url /\ w.classifier = "sure"  BY <2>4
    <2>5. CASE w.url /\ w.classifier = "unsure"
      <3>1. verdict = Verdict("hostile", 50)  BY <2>5 DEF ClassifyComment
      <3>2. verdict.confidence = 50  BY <2>2, <3>1
      <3>3. ~(verdict.confidence >= 80)  BY <3>2
      <3> QED  BY <2>1, <3>3
    <2>6. CASE w.url /\ w.classifier \notin {"sure", "unsure"}
      <3>1. verdict = Verdict("ok", 0)  BY <2>6 DEF ClassifyComment
      <3>2. verdict.label = "ok"  BY <2>2, <3>1
      <3> QED  BY <2>1, <3>2
    <2> QED  BY <1>3, <2>3, <2>4, <2>5, <2>6
  <1>10. (e.says["onPullRequest"] = "true") <=> w.onPullRequest  BY <1>3, <1>5, TruthIs
  <1> QED  BY <1>1, <1>2, <1>3, <1>8, <1>9, <1>10

(* An event with a webhook is one the handler made, from the first step of  *)
(* an evaluation to its last.                                               *)
WebhookOK(ev) == "webhook" \in DOMAIN ev.event => ev.event \in DemoEvents

(* Neither the event nor the registry of an evaluation changes under way.   *)
LEMMA StepsKeepQuestion ==
  ASSUME EvaluationOK(evaluation),
         EvaluateRule \/ Walk \/ WhenReturns \/ EvaluationOver \/ UNCHANGED evaluation
  PROVE  evaluation'.event = evaluation.event /\ evaluation'.registry = evaluation.registry
  <1> DEFINE ev == evaluation
             n  == evaluation'
  <1>1. IsEvaluation(ev)  BY DEF EvaluationOK
  <1>2. CASE EvaluateRule
    <2>1. \E rule, walk : n = MovedOn(ev, "when", rule, walk)  BY <1>2 DEF EvaluateRule, MovedOn
    <2> HIDE DEF n, ev
    <2>2. PICK rule, walk : n = MovedOn(ev, "when", rule, walk)  BY <2>1
    <2>3. n = [pc |-> "when", registry |-> ev.registry, event |-> ev.event, rule |-> rule,
               walk |-> walk, held |-> ev.held, acts |-> ev.acts]
      BY <1>1, <2>2, MovedOnUpdate
    <2>4. n.event = ev.event /\ n.registry = ev.registry  BY <2>3
    <2> QED  BY <2>4 DEF n, ev
  <1>3. CASE Walk
    <2>1. \E walk : n = [ev EXCEPT !.walk = walk]  BY <1>3 DEF Walk
    <2> HIDE DEF n, ev
    <2>2. PICK walk : n = [ev EXCEPT !.walk = walk]  BY <2>1
    <2>3. n = [pc |-> ev.pc, registry |-> ev.registry, event |-> ev.event, rule |-> ev.rule,
               walk |-> walk, held |-> ev.held, acts |-> ev.acts]
      BY <1>1, <2>2, WalkUpdate
    <2>4. n.event = ev.event /\ n.registry = ev.registry  BY <2>3
    <2> QED  BY <2>4 DEF n, ev
  <1>4. CASE WhenReturns
    <2>1. \E pc, held, acts : n = [ev EXCEPT !.pc = pc] \/ n = Fired(ev, pc, held, acts)
      BY <1>4 DEF WhenReturns, Fired
    <2> HIDE DEF n, ev
    <2>2. PICK pc, held, acts : n = [ev EXCEPT !.pc = pc] \/ n = Fired(ev, pc, held, acts)
      BY <2>1
    <2>3. CASE n = [ev EXCEPT !.pc = pc]
      <3>1. n = [pc |-> pc, registry |-> ev.registry, event |-> ev.event, rule |-> ev.rule,
                 walk |-> ev.walk, held |-> ev.held, acts |-> ev.acts]
        BY <1>1, <2>3, PcUpdate
      <3>2. n.event = ev.event /\ n.registry = ev.registry  BY <3>1
      <3> QED  BY <3>2 DEF n, ev
    <2>4. CASE n = Fired(ev, pc, held, acts)
      <3>1. n = [pc |-> pc, registry |-> ev.registry, event |-> ev.event, rule |-> ev.rule,
                 walk |-> ev.walk, held |-> held, acts |-> acts]
        BY <1>1, <2>4, FiredUpdate
      <3>2. n.event = ev.event /\ n.registry = ev.registry  BY <3>1
      <3> QED  BY <3>2 DEF n, ev
    <2> QED  BY <2>2, <2>3, <2>4
  <1>5. CASE EvaluationOver
    <2>1. n = [ev EXCEPT !.pc = "over"]  BY <1>5 DEF EvaluationOver
    <2> HIDE DEF n, ev
    <2>2. n = [pc |-> "over", registry |-> ev.registry, event |-> ev.event, rule |-> ev.rule,
               walk |-> ev.walk, held |-> ev.held, acts |-> ev.acts]
      BY <1>1, <2>1, PcUpdate
    <2>3. n.event = ev.event /\ n.registry = ev.registry  BY <2>2
    <2> QED  BY <2>3 DEF n, ev
  <1>6. CASE UNCHANGED evaluation  BY <1>6
  <1> QED  BY <1>2, <1>3, <1>4, <1>5, <1>6

(* Events with a webhook are the handler's all along.                       *)
LEMMA WebhookInvariant == Spec => []WebhookOK(evaluation)
  <1>1. Init => WebhookOK(evaluation)
    <2> SUFFICES ASSUME evaluation = Idle PROVE WebhookOK(evaluation)  BY DEF Init
    <2>1. DOMAIN evaluation.event = {"name"}  BY DEF Idle, None
    <2> QED  BY <2>1 DEF WebhookOK
  <1>2. RegistryOK /\ EvaluationOK(evaluation) /\ WebhookOK(evaluation) /\ [Next]_vars
        => WebhookOK(evaluation)'
    <2> SUFFICES ASSUME RegistryOK, EvaluationOK(evaluation), WebhookOK(evaluation), [Next]_vars
                 PROVE  WebhookOK(evaluation')
      OBVIOUS
    <2>1. CASE \E batch \in scene.batches : Register(batch)
      <3>1. evaluation' = evaluation  BY <2>1 DEF Register
      <3> QED  BY <3>1
    <2>2. CASE \E event \in scene.events : Evaluate(event)
      <3> DEFINE ev == evaluation
                 n  == evaluation'
      <3>1. PICK event \in scene.events : Evaluate(event)  BY <2>2
      <3>2. "webhook" \in DOMAIN event => event \in DemoEvents
        BY DemoAssumption DEF RegistryOK
      <3>3. n = Refused(ev, "rejected", event) \/ n = Begun(ev, "rules", registry, event)
        BY <3>1 DEF Evaluate, Refused, Begun
      <3>4. IsEvaluation(ev)  BY DEF EvaluationOK
      <3> HIDE DEF n, ev
      <3>5. CASE n = Refused(ev, "rejected", event)
        <4>1. n = [pc |-> "rejected", registry |-> ev.registry, event |-> event, rule |-> ev.rule,
                   walk |-> ev.walk, held |-> ev.held, acts |-> ev.acts]
          BY <3>4, <3>5, RefusedUpdate
        <4>2. n.event = event  BY <4>1
        <4> QED  BY <3>2, <4>2 DEF WebhookOK, n
      <3>6. CASE n = Begun(ev, "rules", registry, event)
        <4>1. n = [pc |-> "rules", registry |-> registry, event |-> event, rule |-> ev.rule,
                   walk |-> ev.walk, held |-> ev.held, acts |-> ev.acts]
          BY <3>4, <3>6, BegunUpdate
        <4>2. n.event = event  BY <4>1
        <4> QED  BY <3>2, <4>2 DEF WebhookOK, n
      <3> QED  BY <3>3, <3>5, <3>6
    <2>3. CASE EvaluateRule \/ Walk \/ WhenReturns \/ EvaluationOver \/ UNCHANGED vars
      <3>1. EvaluateRule \/ Walk \/ WhenReturns \/ EvaluationOver \/ UNCHANGED evaluation
        BY <2>3 DEF vars
      <3>2. evaluation'.event = evaluation.event  BY <3>1, StepsKeepQuestion
      <3> QED  BY <3>2 DEF WebhookOK
    <2> QED  BY <2>1, <2>2, <2>3 DEF Next
  <1> QED  BY <1>1, <1>2, RegistryInvariant, EvaluationInvariant, PTL DEF Spec

(* The registry of an evaluation that works with the demo's batch.          *)
LEMMA DemoRegistry ==
  ASSUME NEW ev, EvaluationOK(ev), ev.pc \in Under, ev.registry.batch = DemoBatch
  PROVE  Accepted(DemoBatch) /\ ev.registry = BuildRegistry(DemoBatch)
  <1>1. PICK batch : Accepted(batch) /\ ev.registry = BuildRegistry(batch)  BY DEF EvaluationOK
  <1>2. batch = DemoBatch  BY <1>1, RegistryFields
  <1> QED  BY <1>1, <1>2

(* Which rules of the demo a finished evaluation has decided for. *)
LEMMA DemoDecides ==
  ASSUME EvaluationOK(evaluation), DecidesAsMeant, evaluation.pc = "over",
         evaluation.registry.batch = DemoBatch, evaluation.event.gives = NoArgs, NEW k \in 1..6
  PROVE  Decided(DemoRuleList[k].name) <=>
           DemoRuleList[k].event = evaluation.event.name
           /\ Meaning(DemoRuleList[k].when, Context(evaluation))
  <1> DEFINE ev    == evaluation
             x     == Context(ev)
             rules == DemoRuleList
             where == [i \in DOMAIN rules |-> rules[i].event = ev.event.name
                                               /\ Meaning(rules[i].when, x)]
             meant == Select(rules, where)
             chosen == { i \in 1..Len(rules) : where[i] }
  <1>1. Accepted(DemoBatch)  BY DemoRegistry DEF Under
  <1>2. ~Exceptional(ev.registry.batch, ev.event)  BY <1>1, DemoUnexceptional
  <1>3. ev.held = [i \in DOMAIN meant |-> meant[i].name]
    BY <1>2, DemoRulesAre DEF DecidesAsMeant, Context
  <1>4. rules \in Seq(Range(rules)) /\ Len(rules) = 6 /\ DOMAIN rules = 1..6  BY DemoRulesAre
  <1>5. \A i, j \in 1..6 : rules[i].name = rules[j].name => i = j
    <2> SUFFICES ASSUME NEW i \in 1..6, NEW j \in 1..6, rules[i].name = rules[j].name PROVE i = j
      OBVIOUS
    <2>1. i = 1 \/ i = 2 \/ i = 3 \/ i = 4 \/ i = 5 \/ i = 6  OBVIOUS
    <2>2. j = 1 \/ j = 2 \/ j = 3 \/ j = 4 \/ j = 5 \/ j = 6  OBVIOUS
    <2> QED  BY <2>1, <2>2, DemoRulesAre
  <1>6. \A i \in 1..6 : where[i] <=> rules[i].event = ev.event.name /\ Meaning(rules[i].when, x)
    BY <1>4
  <1>7. chosen = { i \in 1..6 : where[i] }  BY <1>4
  <1>a. \A i : i \in chosen <=> i \in 1..6 /\ where[i]  BY <1>7
  <1>8. meant \in Seq(Range(rules)) /\ Picks(meant, rules, chosen)
    <2> HIDE DEF where, rules
    <2> QED  BY <1>4, SelectPicks
  <1> HIDE DEF ev, x, rules, where, meant, chosen
  <1>9. PICK place \in [1..Len(meant) -> chosen] :
          /\ \A j \in chosen : \E i \in 1..Len(meant) : place[i] = j
          /\ \A i \in 1..Len(meant) : meant[i] = rules[place[i]]
    BY <1>8 DEF Picks
  <1>10. DOMAIN meant = 1..Len(meant)  BY <1>8
  <1>11. DOMAIN ev.held = 1..Len(meant) /\ \A i \in 1..Len(meant) : ev.held[i] = meant[i].name
    BY <1>3, <1>10
  <1>12. Decided(rules[k].name) <=> k \in chosen
    <2>1. ASSUME Decided(rules[k].name) PROVE k \in chosen
      <3>1. PICK i \in 1..Len(meant) : ev.held[i] = rules[k].name  BY <1>11, <2>1 DEF Decided, ev
      <3>2. place[i] \in chosen /\ place[i] \in 1..6 /\ rules[place[i]].name = rules[k].name
        BY <1>9, <1>11, <1>a, <3>1
      <3> QED  BY <1>5, <3>2
    <2>2. ASSUME k \in chosen PROVE Decided(rules[k].name)
      <3>1. PICK i \in 1..Len(meant) : place[i] = k  BY <1>9, <2>2
      <3>2. i \in DOMAIN ev.held /\ ev.held[i] = rules[k].name  BY <1>9, <1>11, <3>1
      <3> QED  BY <3>2 DEF Decided, ev
    <2> QED  BY <2>1, <2>2
  <1> QED  BY <1>6, <1>a, <1>12 DEF rules, x, ev

(* With a token nothing but the files GitHub lists makes a pull request     *)
(* reported, and they always do: for any depth limit, scenes with any other *)
(* batches and events, and registrations at any point of the evaluation.    *)
LEMMA InfraInvariant == Spec => []InfraByItsFiles
  <1>1. EvaluationOK(evaluation) /\ DecidesAsMeant /\ WebhookOK(evaluation) => InfraByItsFiles
    <2> SUFFICES ASSUME EvaluationOK(evaluation), DecidesAsMeant, WebhookOK(evaluation),
                        DemoOver("pull_request"), evaluation.event.webhook.token
                 PROVE  LET pr == evaluation.event.webhook
                        IN  Decided("infra-pr-from-outsider") <=>
                              /\ pr.action = "opened" /\ pr.toMain /\ ~pr.coreTeam
                              /\ pr.files = "infra" \/ pr.github = "infra"
      BY DEF InfraByItsFiles
    <2> DEFINE e  == evaluation.event
               pr == e.webhook
               x  == Context(evaluation)
    <2>1. /\ evaluation.pc = "over" /\ evaluation.registry.batch = DemoBatch
          /\ e \in DemoEvents /\ pr.event = "pull_request"
      BY DEF DemoOver, WebhookOK
    <2>2. x.event = e  BY DEF Context
    <2>3. Accepted(DemoBatch)  BY <2>1, DemoRegistry DEF Under
    <2> HIDE DEF e, x
    <2>4. /\ e.name = "pull_request.opened" <=> pr.action = "opened"
          /\ (e.says["toMain"] = "true") <=> pr.toMain
          /\ (e.says["outsider"] = "true") <=> ~pr.coreTeam
          /\ pr.token => ((e.says["touchesInfra"] = "true") <=> (pr.files = "infra" \/ pr.github = "infra"))
          /\ e.gives = NoArgs
      BY <2>1, PullRequestEvent
    <2>5. Decided("infra-pr-from-outsider") <=> e.name = "pull_request.opened" /\ Meaning(InfraPr, x)
      <3>1. /\ DemoRuleList[1].name = "infra-pr-from-outsider" /\ DemoRuleList[1].when = InfraPr
            /\ DemoRuleList[1].event = "pull_request.opened"
        BY DemoRulesAre
      <3>2. 1 \in 1..6 /\ evaluation.event.gives = NoArgs  BY <2>4 DEF e
      <3>3. Decided(DemoRuleList[1].name) <=>
              DemoRuleList[1].event = evaluation.event.name
              /\ Meaning(DemoRuleList[1].when, Context(evaluation))
        BY <2>1, <3>2, DemoDecides
      <3> QED  BY <3>1, <3>3 DEF e, x
    <2>6. Meaning(InfraPr, x) <=>
            /\ e.says["toMain"] = "true" /\ e.says["outsider"] = "true"
            /\ e.says["touchesInfra"] = "true"
      BY <2>2, <2>3, InfraMeans
    <2>7. pr.token  BY DEF e
    <2> QED  BY <2>4, <2>5, <2>6, <2>7 DEF e
  <1> QED  BY <1>1, EvaluationInvariant, RulesAreDecidedAsMeant, WebhookInvariant, PTL

-----------------------------------------------------------------------------
(* How often the classifier was asked about a comment. *)

(* Two rules of the demo listen to comments; the second one asks.           *)
LEMMA DemoCandidates ==
  ASSUME Accepted(DemoBatch), NEW ev, ev.registry = BuildRegistry(DemoBatch),
         ev.event.name = "issue_comment.created"
  PROVE  /\ Len(Candidates(ev)) = 2
         /\ Candidates(ev)[1].when = Fn("command") /\ Candidates(ev)[2].when = HostileOnPr
  <1> DEFINE rules == DemoRuleList
             where == [i \in DOMAIN rules |-> rules[i].event = "issue_comment.created"]
             upTo  == Selection(rules, where)
  <1>1. rules \in Seq(Range(rules)) /\ Len(rules) = 6 /\ DOMAIN rules = 1..6
        /\ \A i \in 1..6 : rules[i] \in Range(rules)
    BY DemoRulesAre, SeqFacts DEF IsSeq
  <1>2. ~where[1] /\ where[2] /\ ~where[3] /\ where[4] /\ ~where[5] /\ ~where[6]
    <2>1. \A i \in 1..6 : where[i] <=> rules[i].event = "issue_comment.created"  BY <1>1
    <2>2. /\ rules[1].event = "pull_request.opened" /\ rules[2].event = "issue_comment.created"
          /\ rules[3].event = "workflow_run.completed" /\ rules[4].event = "issue_comment.created"
          /\ rules[5].event = "release.published" /\ rules[6].event = "issues.closed"
      BY DemoRulesAre
    <2>3. 1 \in 1..6 /\ 2 \in 1..6 /\ 3 \in 1..6 /\ 4 \in 1..6 /\ 5 \in 1..6 /\ 6 \in 1..6
      OBVIOUS
    <2> HIDE DEF where, rules
    <2> QED  BY <2>1, <2>2, <2>3
  <1>3. Candidates(ev) = upTo[6]
    <2>1. Candidates(ev) = Dispatch(rules, "issue_comment.created")  BY CandidatesAre, DemoRulesAre
    <2>2. Dispatch(rules, "issue_comment.created") = Select(rules, where)  BY DEF Dispatch
    <2> HIDE DEF rules, where
    <2> QED  BY <1>1, <2>1, <2>2 DEF Select, upTo
  <1>4. /\ upTo[0] = << >>
        /\ \A n \in 1..6 : upTo[n] = IF where[n] THEN Append(upTo[n - 1], rules[n]) ELSE upTo[n - 1]
    <2> DEFINE R == Range(rules)
    <2>1. rules \in Seq(R) /\ Len(rules) = 6  BY <1>1
    <2> HIDE DEF rules, where, R
    <2>2. /\ Selection(rules, where)[0] = << >>
          /\ \A n \in 1..Len(rules) :
               Selection(rules, where)[n] =
                 IF where[n] THEN Append(Selection(rules, where)[n - 1], rules[n])
                 ELSE Selection(rules, where)[n - 1]
      BY <2>1, SelectionSteps
    <2> QED  BY <2>1, <2>2 DEF upTo
  <1>5. rules[2].when = Fn("command") /\ rules[4].when = HostileOnPr  BY DemoRulesAre
  <1> HIDE DEF rules, where, upTo
  <1>6. /\ upTo[1] = upTo[0] /\ upTo[2] = Append(upTo[1], rules[2]) /\ upTo[3] = upTo[2]
        /\ upTo[4] = Append(upTo[3], rules[4]) /\ upTo[5] = upTo[4] /\ upTo[6] = upTo[5]
    <2>1. /\ 1 \in 1..6 /\ 2 \in 1..6 /\ 3 \in 1..6 /\ 4 \in 1..6 /\ 5 \in 1..6 /\ 6 \in 1..6
          /\ 1 - 1 = 0 /\ 2 - 1 = 1 /\ 3 - 1 = 2 /\ 4 - 1 = 3 /\ 5 - 1 = 4 /\ 6 - 1 = 5
      OBVIOUS
    <2> QED  BY <1>2, <1>4, <2>1
  <1>7. upTo[6] = Append(Append(<< >>, rules[2]), rules[4])  BY <1>4, <1>6
  <1>8. ASSUME NEW a, NEW b
        PROVE  LET s == Append(Append(<< >>, a), b) IN Len(s) = 2 /\ s[1] = a /\ s[2] = b
    OBVIOUS
  <1> QED  BY <1>3, <1>5, <1>7, <1>8

(* Where a walk can stand in a leaf and in the condition on comments.       *)
LEMMA StandsInLeaf ==
  ASSUME NEW path, NEW node, NEW tree, tree.kind \notin Combinators, StandsAt(path, node, tree)
  PROVE  path = << >> /\ node = tree
  <1>1. IsSeq(path) /\ Len(path) \in Nat /\ path \in Seq(Range(path))  BY SeqFacts DEF StandsAt
  <1>2. Levels(tree)[1] = {tree}  BY LevelsDefined
  <1>3. Len(path) = 0
    <2> SUFFICES ASSUME Len(path) # 0 PROVE FALSE  OBVIOUS
    <2>1. 1 \in 1..Len(path)  BY <1>1
    <2>2. path[1].node \in Levels(tree)[1] /\ path[1].node.kind \in Combinators
      BY <2>1 DEF StandsAt
    <2> QED  BY <1>2, <2>2
  <1>4. path = << >>  BY <1>1, <1>3
  <1>5. node \in Levels(tree)[1]
    <2>1. Len(path) + 1 = 1  BY <1>3
    <2> QED  BY <2>1 DEF StandsAt
  <1> QED  BY <1>2, <1>4, <1>5

(* Where a walk of the condition on comments can stand.                     *)
LEMMA StandsInHostile ==
  ASSUME NEW path, NEW node, StandsAt(path, node, HostileOnPr)
  PROVE  \/ path = << >> /\ node = HostileOnPr
         \/ /\ Len(path) = 1 /\ path # << >> /\ path[1].node = HostileOnPr
            /\ path[1].child \in {1, 2} /\ node = Children(HostileOnPr)[path[1].child]
            /\ Last(path) = path[1] /\ Front(path) = << >>
  <1>1. IsSeq(path) /\ Len(path) \in Nat /\ path \in Seq(Range(path))  BY SeqFacts DEF StandsAt
  <1>2. Levels(HostileOnPr)[1] = {HostileOnPr} /\ Len(Children(HostileOnPr)) = 2
    BY LevelsDefined, DemoTrees
  <1>3. \A i \in 1..Len(path) :
          LET around == path[i].node
          IN  /\ around \in Levels(HostileOnPr)[i] /\ around.kind \in Combinators
              /\ path[i].child \in 1..Len(Children(around))
              /\ Children(around)[path[i].child]
                   = IF i = Len(path) THEN node ELSE path[i + 1].node
    BY DEF StandsAt
  <1>4. CASE Len(path) = 0
    <2>1. path = << >>  BY <1>1, <1>4
    <2>2. Len(path) + 1 = 1  BY <1>4
    <2>3. node \in Levels(HostileOnPr)[1]  BY <2>2 DEF StandsAt
    <2> QED  BY <1>2, <2>1, <2>3
  <1>5. CASE Len(path) # 0
    <2>1. 1 \in 1..Len(path)  BY <1>1, <1>5
    <2>2. path[1].node = HostileOnPr  BY <1>2, <1>3, <2>1
    <2>3. path[1].child \in 1..2  BY <1>2, <1>3, <2>1, <2>2
    <2>4. path[1].child = 1 \/ path[1].child = 2  BY <2>3
    <2>5. Children(HostileOnPr)[path[1].child].kind \notin Combinators
      <3> DEFINE args == [x |-> "80"]
      <3> HIDE DEF args
      <3>1. /\ Children(HostileOnPr)[1] = Fn("onPullRequest")
            /\ Children(HostileOnPr)[2] = UseRef("is_hostile_comment", args)
        BY DemoTrees DEF args
      <3>2. Children(HostileOnPr)[1].kind = "fn" /\ Children(HostileOnPr)[2].kind = "use"
        BY <3>1, LeafFacts
      <3> QED  BY <2>4, <3>2 DEF Combinators
    <2>6. Children(HostileOnPr)[path[1].child] = IF 1 = Len(path) THEN node ELSE path[1 + 1].node
      BY <1>3, <2>1, <2>2
    <2>7. Len(path) = 1
      <3> SUFFICES ASSUME Len(path) # 1 PROVE FALSE  OBVIOUS
      <3> DEFINE N == Len(path)
      <3>a. N \in Nat /\ N # 0 /\ N # 1  BY <1>1, <1>5
      <3> HIDE DEF N
      <3>b. 1 + 1 \in 1..N  BY <3>a
      <3>1. 1 + 1 \in 1..Len(path)  BY <3>b DEF N
      <3>2. path[1 + 1].node.kind \in Combinators  BY <1>3, <3>1
      <3> QED  BY <2>5, <2>6, <3>2
    <2>8. Last(path) = path[1] /\ Front(path) = << >>
      <3>1. path # << >>  BY <2>7
      <3>2. IsSeq(Front(path)) /\ Len(Front(path)) = 0 /\ Last(path) = path[1]
        BY <1>1, <2>7, <3>1, FrontSeq
      <3>3. Front(path) \in Seq(Range(Front(path)))  BY <3>2 DEF IsSeq
      <3> QED  BY <3>2, <3>3
    <2>9. path # << >>  BY <2>7
    <2> QED  BY <2>2, <2>4, <2>6, <2>7, <2>8, <2>9
  <1> QED  BY <1>4, <1>5

(* The calls a walk of the condition on comments has made.                  *)
CallsDue(w, onPullRequest) ==
  IF w.path = << >> THEN IF w.settled /\ onPullRequest THEN 1 ELSE 0
  ELSE IF w.settled /\ w.path[1].child = 2 THEN 1 ELSE 0

AsksOnPr(w, onPullRequest) ==
  /\ Len(w.calls) = CallsDue(w, onPullRequest)
  /\ Len(w.calls) = 0 => w.memo = << >>

HostileContext(x) ==
  /\ Accepted(DemoBatch) /\ x.registry = BuildRegistry(DemoBatch) /\ x.event.gives = NoArgs

(* Evaluating a node asks what is due there.                                *)
LEMMA NodeAsks ==
  ASSUME NEW x, HostileContext(x), NEW w, WalksIn(w, HostileOnPr), ~w.settled,
         NEW onPr, AsksOnPr(w, onPr)
  PROVE  AsksOnPr(EvaluateNode(x, w), onPr)
  <1> DEFINE n == EvaluateNode(x, w)
             says == x.event.says[w.node.name] = "true"
  <1>1. MaxDepth \in Nat /\ MaxDepth >= 2  BY DemoDepth, WhenTreeAssumption DEF HostileContext
  <1>2. IsWalk(w) /\ StandsAt(w.path, w.node, HostileOnPr)  BY DEF WalksIn
  <1>3. Len(w.calls) = 0 /\ w.memo = << >>  BY DEF AsksOnPr, CallsDue
  <1>4. CASE w.path = << >> /\ w.node = HostileOnPr
    <2>1. Len(w.path) = 0  BY <1>4
    <2>2. ~TooDeep(w.node, Len(w.path) + 1)
      <3>1. Len(w.path) + 1 = 1 /\ ~(1 > MaxDepth) /\ 1 # MaxDepth  BY <1>1, <2>1
      <3> QED  BY <3>1 DEF TooDeep
    <2>3. w.node.kind = "all" /\ Children(w.node) # << >>
      <3>1. w.node.kind = "all" /\ Len(Children(w.node)) = 2  BY <1>4, DemoTrees
      <3>2. Len(<< >>) = 0  OBVIOUS
      <3> QED  BY <3>1, <3>2
    <2>4. n = Await(w, w.path, w.node, 1)  BY <2>2, <2>3 DEF EvaluateNode, Combinators
    <2> HIDE DEF n
    <2>5. ~n.settled /\ n.memo = w.memo /\ n.calls = w.calls
          /\ n.path = Append(w.path, [node |-> w.node, child |-> 1])
      <3>1. IsSeq(w.path)  BY <1>2 DEF IsWalk
      <3> QED  BY <1>2, <2>4, <3>1, AwaitFields
    <2>6. CallsDue(n, onPr) = 0  BY <2>5 DEF CallsDue
    <2> QED  BY <1>3, <2>5, <2>6 DEF AsksOnPr, n
  <1>5. CASE /\ Len(w.path) = 1 /\ w.path # << >> /\ w.path[1].child \in {1, 2}
             /\ w.node = Children(HostileOnPr)[w.path[1].child]
    <2>1. ASSUME w.node.kind \notin Combinators PROVE ~TooDeep(w.node, Len(w.path) + 1)
      <3>1. Len(w.path) + 1 = 2 /\ ~(2 > MaxDepth)  BY <1>1, <1>5
      <3> QED  BY <2>1, <3>1 DEF TooDeep
    <2>2. CASE w.path[1].child = 1
      <3>1. w.node.kind = "fn" /\ w.node.kind \notin Combinators
        <4>1. w.node = Fn("onPullRequest")  BY <1>5, <2>2, DemoTrees
        <4> QED  BY <4>1, LeafFacts DEF Combinators
      <3>2. n = Settle(w, says)  BY <2>1, <3>1 DEF EvaluateNode
      <3> HIDE DEF n, says
      <3>3. n.path = w.path /\ n.memo = w.memo /\ n.calls = w.calls
        BY <1>2, <3>2, SettleFields
      <3>4. CallsDue(n, onPr) = 0  BY <1>5, <2>2, <3>3 DEF CallsDue
      <3> QED  BY <1>3, <3>3, <3>4 DEF AsksOnPr, n
    <2>3. CASE w.path[1].child = 2
      <3> DEFINE use == UseRef("is_hostile_comment", [x |-> "80"])
      <3>1. w.node = use  BY <1>5, <2>3, DemoTrees
      <3>2. use.kind = "use"  BY DEF UseRef
      <3> HIDE DEF use
      <3>3. w.node.kind = "use" /\ w.node.kind \notin Combinators  BY <3>1, <3>2 DEF Combinators
      <3>4. n = ResolveUse(use, x, w)  BY <2>1, <3>1, <3>3 DEF EvaluateNode
      <3> HIDE DEF n
      <3>5. Len(n.calls) = Len(w.calls) + 1 /\ n.settled /\ n.path = w.path
        <4> DEFINE answer == ResolveUse(UseRef("is_hostile_comment", [x |-> "80"]), x, w)
        <4>1. n = answer  BY <3>4 DEF use
        <4>2. x.registry = BuildRegistry(DemoBatch) /\ x.event.gives = NoArgs  BY DEF HostileContext
        <4>3. /\ IsSeq(answer.calls) /\ Len(answer.calls) = Len(w.calls) + 1
              /\ answer.settled /\ answer.path = w.path /\ answer.node = w.node
              /\ answer.value <=> x.event.judges["is_hostile_comment"]["80"] = "true"
          BY <1>2, <1>3, <4>2, HostileIsAsked
        <4> HIDE DEF answer
        <4> QED  BY <4>1, <4>3
      <3>6. CallsDue(n, onPr) = 1  BY <1>5, <2>3, <3>5 DEF CallsDue
      <3> QED  BY <1>3, <3>5, <3>6 DEF AsksOnPr, n
    <2> QED  BY <1>5, <2>2, <2>3
  <1> QED  BY <1>2, <1>4, <1>5, StandsInHostile

(* Going on to the next child asks nothing: after a comment that is on no   *)
(* pull request the walk ends before the classifier.                        *)
LEMMA SettlesAsk ==
  ASSUME NEW x, HostileContext(x), NEW w, WalksIn(w, HostileOnPr), w.settled, w.path # << >>,
         AnswersIn(w, HostileOnPr, x), NEW onPr \in BOOLEAN,
         (x.event.says["onPullRequest"] = "true") <=> onPr, AsksOnPr(w, onPr)
  PROVE  AsksOnPr(ChildSettles(w), onPr)
  <1> DEFINE n     == ChildSettles(w)
             child == w.path[1].child
             outer == << >>
             up    == MovedTo(w, outer, HostileOnPr)
             value == w.value
  <1>1. IsWalk(w) /\ StandsAt(w.path, w.node, HostileOnPr)  BY DEF WalksIn
  <1>2. /\ Len(w.path) = 1 /\ w.path[1].node = HostileOnPr /\ child \in {1, 2}
        /\ w.node = Children(HostileOnPr)[child] /\ Last(w.path) = w.path[1] /\ Front(w.path) = outer
    BY <1>1, StandsInHostile
  <1>3. HostileOnPr.kind = "all" /\ Len(Children(HostileOnPr)) = 2 /\ Deciding(HostileOnPr) = FALSE
    BY DemoTrees DEF Deciding
  <1>4. n = IF value = FALSE \/ child = 2 THEN Settle(up, value)
            ELSE Await(w, outer, HostileOnPr, child + 1)
    BY <1>2, <1>3 DEF ChildSettles, MovedTo
  <1>5. MaxDepth >= 2 /\ 1 \in DOMAIN Children(HostileOnPr) /\ WithinDepth(HostileOnPr)
    <2>1. 4 \in DOMAIN DemoBatch.rules /\ DemoBatch.rules[4].when = HostileOnPr  BY DemoRulesAre
    <2>2. Accepted(DemoBatch)  BY DEF HostileContext
    <2>3. WithinDepth(HostileOnPr)  BY <2>1, <2>2, AcceptedRules
    <2>4. MaxDepth >= 2  BY <2>2, DemoDepth
    <2>5. DOMAIN Children(HostileOnPr) = 1..2  BY DemoTrees
    <2> QED  BY <2>3, <2>4, <2>5
  <1>6. Means(HostileOnPr, x, 2, Children(HostileOnPr)[1]) = onPr
    <2>1. Children(HostileOnPr)[1].kind = "fn" /\ Children(HostileOnPr)[1].name = "onPullRequest"
      <3>1. Children(HostileOnPr)[1] = Fn("onPullRequest")  BY DemoTrees
      <3> QED  BY <3>1, LeafFacts
    <2>2. Meanings(HostileOnPr, x)[2][Children(HostileOnPr)[1]]
            = (x.event.says["onPullRequest"] = "true")
      BY <1>5, <2>1, ChildMeans
    <2>3. (x.event.says["onPullRequest"] = "true") = onPr  OBVIOUS
    <2> QED  BY <2>2, <2>3 DEF Means
  <1>7. child = 1 => value = onPr
    <2>1. value = Means(HostileOnPr, x, Len(w.path) + 1, w.node)  BY DEF AnswersIn
    <2>2. Len(w.path) + 1 = 2  BY <1>2
    <2> QED  BY <1>2, <1>6, <2>1, <2>2
  <1>8. child = 2 => onPr
    <2>1. 1 \in 1..Len(w.path)  BY <1>2
    <2>2. Undecided(HostileOnPr, x, 1, HostileOnPr, child)
      BY <1>2, <1>3, <2>1 DEF AnswersIn, FramesOpen
    <2>3. child = 2 => 1 \in 1..(child - 1) /\ 1 + 1 = 2  OBVIOUS
    <2>4. child = 2 => Means(HostileOnPr, x, 1 + 1, Children(HostileOnPr)[1]) # FALSE
      BY <1>3, <2>2, <2>3 DEF Undecided
    <2> QED  BY <1>6, <2>3, <2>4
  <1>9. Len(w.calls) = IF child = 2 THEN 1 ELSE 0  BY DEF AsksOnPr, CallsDue
  <1>10. child = 1 \/ child = 2  BY <1>2
  <1>11. IsSeq(outer)
    <2>1. << >> \in Seq({})  OBVIOUS
    <2> QED  BY <2>1, SeqIsSeq
  <1>12. Len(w.calls) = 0 => w.memo = << >>  BY DEF AsksOnPr
  <1>13. outer = << >>  OBVIOUS
  <1> HIDE DEF n, child, outer, up, value
  <1>14. /\ IsWalk(up) /\ up.memo = w.memo /\ up.calls = w.calls /\ up.path = outer
    BY <1>1, <1>11, UpFields DEF up
  <1>15. CASE n = Settle(up, value) /\ (value = FALSE \/ child = 2)
    <2>1. n.settled /\ n.path = outer /\ n.memo = w.memo /\ n.calls = w.calls
      BY <1>14, <1>15, SettleFields
    <2>2. CallsDue(n, onPr) = IF onPr THEN 1 ELSE 0  BY <1>13, <2>1 DEF CallsDue
    <2>3. onPr <=> child = 2  BY <1>7, <1>8, <1>10, <1>15
    <2> QED  BY <1>9, <1>12, <2>1, <2>2, <2>3 DEF AsksOnPr, n
  <1>16. CASE n = Await(w, outer, HostileOnPr, child + 1) /\ child = 1
    <2>1. ~n.settled /\ n.memo = w.memo /\ n.calls = w.calls
      <3>1. ASSUME NEW i, n = Await(w, outer, HostileOnPr, i)
            PROVE  /\ IsWalk(n) /\ ~n.settled /\ n.memo = w.memo /\ n.calls = w.calls
                   /\ n.path = Append(outer, [node |-> HostileOnPr, child |-> i])
                   /\ n.node = Children(HostileOnPr)[i]
        BY <1>1, <1>11, <3>1, AwaitFields
      <3> QED  BY <1>16, <3>1
    <2>2. CallsDue(n, onPr) = 0  BY <2>1 DEF CallsDue
    <2> QED  BY <1>9, <1>12, <1>16, <2>1, <2>2 DEF AsksOnPr, n
  <1> QED  BY <1>4, <1>10, <1>15, <1>16

(* No question is asked before the second rule on comments, which asks one  *)
(* if the comment is on a pull request.                                     *)
OnComment(ev) ==
  /\ ev.pc \in Under /\ ev.registry.batch = DemoBatch
  /\ "webhook" \in DOMAIN ev.event /\ ev.event.webhook.event = "issue_comment"

AsksOK(ev) ==
  OnComment(ev) =>
    LET onPr == ev.event.webhook.onPullRequest
    IN  /\ Len(ev.walk.calls) = 0 => ev.walk.memo = << >>
        /\ Len(ev.walk.calls) = IF ev.rule < 2 THEN 0
                                ELSE IF ev.pc = "when" THEN CallsDue(ev.walk, onPr)
                                ELSE IF onPr THEN 1 ELSE 0

(* What an evaluation of a comment has to do with.                          *)
LEMMA CommentFacts ==
  ASSUME NEW ev, EvaluationOK(ev), WebhookOK(ev), OnComment(ev)
  PROVE  LET onPr == ev.event.webhook.onPullRequest
         IN  /\ HostileContext(Context(ev)) /\ ~Exceptional(ev.registry.batch, ev.event)
             /\ onPr \in BOOLEAN
             /\ (Context(ev).event.says["onPullRequest"] = "true") <=> onPr
             /\ Len(Candidates(ev)) = 2
             /\ Candidates(ev)[1].when = Fn("command") /\ Candidates(ev)[2].when = HostileOnPr
             /\ ev.rule \in {0, 1, 2} /\ (ev.pc = "when" => ev.rule \in {1, 2})
  <1>1. Accepted(DemoBatch) /\ ev.registry = BuildRegistry(DemoBatch)
    BY DemoRegistry DEF OnComment
  <1>2. ev.event \in DemoEvents /\ ev.event.webhook.event = "issue_comment"
    BY DEF OnComment, WebhookOK
  <1>3. /\ ev.event.name = "issue_comment.created" /\ ev.event.gives = NoArgs
        /\ ev.event.webhook.onPullRequest \in BOOLEAN
        /\ (ev.event.says["onPullRequest"] = "true") <=> ev.event.webhook.onPullRequest
    BY <1>2, CommentEvent
  <1>4. Context(ev).registry = ev.registry /\ Context(ev).event = ev.event  BY DEF Context
  <1>5. HostileContext(Context(ev))  BY <1>1, <1>3, <1>4 DEF HostileContext
  <1>6. ~Exceptional(DemoBatch, ev.event)  BY <1>1, <1>3, DemoUnexceptional
  <1>7. ev.registry.batch = DemoBatch  BY DEF OnComment
  <1>8. /\ Len(Candidates(ev)) = 2
        /\ Candidates(ev)[1].when = Fn("command") /\ Candidates(ev)[2].when = HostileOnPr
    BY <1>1, <1>3, DemoCandidates
  <1>9. /\ ev.rule \in 0..Len(Candidates(ev))
        /\ ev.pc = "when" => ev.rule \in 1..Len(Candidates(ev))
    BY UnderWay DEF OnComment
  <1>10. ev.rule \in {0, 1, 2} /\ (ev.pc = "when" => ev.rule \in {1, 2})
    BY <1>8, <1>9
  <1> QED  BY <1>3, <1>4, <1>5, <1>6, <1>7, <1>8, <1>10

(* Every action of an evaluation keeps to the questions that are due.       *)
LEMMA EvaluateAsks ==
  ASSUME EvaluationOK(evaluation), NEW event \in scene.events, Evaluate(event)
  PROVE  AsksOK(evaluation')
  <1> DEFINE ev == evaluation
             n  == evaluation'
  <1>1. ev = Idle /\ IsEvaluation(ev)  BY DEF Evaluate, EvaluationOK
  <1>2. ev.rule = 0 /\ ev.walk = Start  BY <1>1 DEF Idle
  <1>3. n = Refused(ev, "rejected", event) \/ n = Begun(ev, "rules", registry, event)
    BY DEF Evaluate, Refused, Begun
  <1> HIDE DEF n, ev
  <1>4. CASE n = Refused(ev, "rejected", event)
    <2>1. n = [pc |-> "rejected", registry |-> ev.registry, event |-> event, rule |-> ev.rule,
               walk |-> ev.walk, held |-> ev.held, acts |-> ev.acts]
      BY <1>1, <1>4, RefusedUpdate
    <2>2. n.pc = "rejected"  BY <2>1
    <2> QED  BY <2>2 DEF AsksOK, OnComment, Under, n
  <1>5. CASE n = Begun(ev, "rules", registry, event)
    <2>1. n = [pc |-> "rules", registry |-> registry, event |-> event, rule |-> ev.rule,
               walk |-> ev.walk, held |-> ev.held, acts |-> ev.acts]
      BY <1>1, <1>5, BegunUpdate
    <2>2. n.rule = 0 /\ n.walk = Start  BY <1>2, <2>1
    <2>3. Start.memo = << >> /\ Start.calls = << >>  BY DEF Start
    <2>4. Len(<< >>) = 0 /\ 0 < 2  OBVIOUS
    <2> QED  BY <2>2, <2>3, <2>4 DEF AsksOK, n
  <1> QED  BY <1>3, <1>4, <1>5

LEMMA RuleAsks ==
  ASSUME EvaluationOK(evaluation), WebhookOK(evaluation), AsksOK(evaluation), EvaluateRule
  PROVE  AsksOK(evaluation')
  <1> DEFINE ev   == evaluation
             n    == evaluation'
             tree == Candidates(ev)[ev.rule + 1].when
             walk == EvaluateWhen(tree, ev.walk)
  <1>1. /\ ev.pc = "rules" /\ ev.pc \in Under /\ ev.rule < Len(Candidates(ev))
        /\ n = MovedOn(ev, "when", ev.rule + 1, walk)
    BY DEF EvaluateRule, MovedOn, Under
  <1>2. IsEvaluation(ev) /\ IsWalk(ev.walk)  BY DEF EvaluationOK
  <1>3. ~walk.settled /\ walk.memo = ev.walk.memo /\ walk.calls = ev.walk.calls /\ walk.path = << >>
    <2> HIDE DEF tree
    <2>1. /\ IsWalk(walk) /\ ~walk.settled /\ walk.memo = ev.walk.memo
          /\ walk.calls = ev.walk.calls /\ walk.path = << >> /\ walk.node = tree
      BY <1>2, WhenFields
    <2> QED  BY <2>1
  <1> HIDE DEF walk, n, ev
  <1>4. n = [pc |-> "when", registry |-> ev.registry, event |-> ev.event, rule |-> ev.rule + 1,
             walk |-> walk, held |-> ev.held, acts |-> ev.acts]
    BY <1>1, <1>2, MovedOnUpdate
  <1>5. /\ n.pc = "when" /\ n.registry = ev.registry /\ n.event = ev.event
        /\ n.rule = ev.rule + 1 /\ n.walk = walk
    BY <1>4
  <1> SUFFICES ASSUME OnComment(n) PROVE AsksOK(n)  BY DEF AsksOK, n
  <1>6. OnComment(ev)  BY <1>1, <1>5 DEF OnComment
  <1>7. ev.rule \in {0, 1, 2} /\ Len(Candidates(ev)) = 2  BY <1>6, CommentFacts DEF ev
  <1>8. Len(ev.walk.calls) = 0 /\ ev.walk.memo = << >>
    <2>1. ev.rule < 2  BY <1>1, <1>7
    <2> QED  BY <1>6, <2>1 DEF AsksOK, ev
  <1>9. \A onPr : CallsDue(walk, onPr) = 0  BY <1>3 DEF CallsDue
  <1> QED  BY <1>3, <1>5, <1>8, <1>9 DEF AsksOK

LEMMA WalkAsks ==
  ASSUME EvaluationOK(evaluation), WebhookOK(evaluation), DecidedOK(evaluation),
         AsksOK(evaluation), Walk
  PROVE  AsksOK(evaluation')
  <1> DEFINE ev   == evaluation
             n    == evaluation'
             x    == Context(ev)
             onPr == ev.event.webhook.onPullRequest
             tree == Candidates(ev)[ev.rule].when
  <1>1. ev.pc = "when" /\ ev.pc \in Under  BY DEF Walk, Under
  <1>a. \E walk : /\ n = [ev EXCEPT !.walk = walk]
                  /\ \/ ~ev.walk.settled /\ walk = EvaluateNode(x, ev.walk)
                     \/ ev.walk.settled /\ ev.walk.path # << >> /\ walk = ChildSettles(ev.walk)
    BY DEF Walk, Context
  <1>2. IsEvaluation(ev) /\ WalksIn(ev.walk, tree) /\ IsWalk(ev.walk)
        /\ StandsAt(ev.walk.path, ev.walk.node, tree)
    BY <1>1 DEF EvaluationOK, WalksIn
  <1> HIDE DEF n, ev, x
  <1>3. PICK walk : /\ n = [ev EXCEPT !.walk = walk]
                    /\ \/ ~ev.walk.settled /\ walk = EvaluateNode(x, ev.walk)
                       \/ ev.walk.settled /\ ev.walk.path # << >> /\ walk = ChildSettles(ev.walk)
    BY <1>a
  <1>4. n = [pc |-> ev.pc, registry |-> ev.registry, event |-> ev.event, rule |-> ev.rule,
             walk |-> walk, held |-> ev.held, acts |-> ev.acts]
    BY <1>2, <1>3, WalkUpdate
  <1>5. /\ n.pc = "when" /\ n.registry = ev.registry /\ n.event = ev.event
        /\ n.rule = ev.rule /\ n.walk = walk
    BY <1>1, <1>4
  <1> SUFFICES ASSUME OnComment(n) PROVE AsksOK(n)  BY DEF AsksOK, n
  <1>6. OnComment(ev)  BY <1>1, <1>5 DEF OnComment
  <1>7. /\ HostileContext(x) /\ ~Exceptional(ev.registry.batch, ev.event) /\ onPr \in BOOLEAN
        /\ (x.event.says["onPullRequest"] = "true") <=> onPr
        /\ Candidates(ev)[1].when = Fn("command") /\ Candidates(ev)[2].when = HostileOnPr
        /\ ev.rule = 1 \/ ev.rule = 2
    BY <1>1, <1>6, CommentFacts DEF ev, x
  <1>8. CASE ev.rule = 1
    <2>1. Len(ev.walk.calls) = 0 /\ ev.walk.memo = << >>
      BY <1>6, <1>8 DEF AsksOK, ev
    <2>2. tree = Fn("command")  BY <1>7, <1>8
    <2>3. tree.kind = "fn" /\ tree.kind \notin Combinators  BY <2>2, LeafFacts DEF Combinators
    <2>4. ev.walk.path = << >> /\ ev.walk.node = tree
      <3> HIDE DEF tree
      <3> QED  BY <1>2, <2>3, StandsInLeaf
    <2>5. walk = EvaluateNode(x, ev.walk)  BY <1>3, <2>4
    <2>6. \E v : walk = Settle(ev.walk, v)  BY <2>3, <2>4, <2>5 DEF EvaluateNode
    <2>7. PICK v : walk = Settle(ev.walk, v)  BY <2>6
    <2>8. walk.memo = ev.walk.memo /\ walk.calls = ev.walk.calls  BY <1>2, <2>7, SettleFields
    <2> QED  BY <1>5, <1>8, <2>1, <2>8 DEF AsksOK
  <1>9. CASE ev.rule = 2
    <2>1. tree = HostileOnPr  BY <1>7, <1>9
    <2>2. AsksOnPr(ev.walk, onPr)
      <3>1. ~(2 < 2)  OBVIOUS
      <3> QED  BY <1>1, <1>6, <1>9, <3>1 DEF AsksOK, AsksOnPr, ev
    <2>3. AnswersIn(ev.walk, HostileOnPr, x)
      BY <1>1, <1>7, <2>1 DEF DecidedOK, ev, x
    <2>4. WalksIn(ev.walk, HostileOnPr)  BY <1>2, <2>1
    <2>5. AsksOnPr(walk, onPr)
      <3> HIDE DEF onPr
      <3>1. CASE ~ev.walk.settled /\ walk = EvaluateNode(x, ev.walk)
        BY <1>7, <2>2, <2>4, <3>1, NodeAsks
      <3>2. CASE ev.walk.settled /\ ev.walk.path # << >> /\ walk = ChildSettles(ev.walk)
        BY <1>7, <2>2, <2>3, <2>4, <3>2, SettlesAsk
      <3> QED  BY <1>3, <3>1, <3>2
    <2>6. ~(2 < 2)  OBVIOUS
    <2> QED  BY <1>5, <1>9, <2>5, <2>6 DEF AsksOK, AsksOnPr
  <1> QED  BY <1>7, <1>8, <1>9

(* What leaves the walk alone when the condition is decided. *)
LEMMA ReturnsAsk ==
  ASSUME EvaluationOK(evaluation), WebhookOK(evaluation), AsksOK(evaluation),
         WhenReturns \/ EvaluationOver
  PROVE  AsksOK(evaluation')
  <1> DEFINE ev == evaluation
             n  == evaluation'
  <1>1. \E pc, held, acts :
          /\ n = [ev EXCEPT !.pc = pc] \/ n = Fired(ev, pc, held, acts)
          /\ pc # "when" /\ ev.pc \in Under
          /\ ev.pc = "when" => ev.walk.settled /\ ev.walk.path = << >>
    <2>1. CASE WhenReturns
      <3>a. PICK pc \in {"rules", "failed"} : \E held, acts :
              \/ n = [ev EXCEPT !.pc = pc]
              \/ n = Fired(ev, pc, held, acts)
        BY <2>1 DEF WhenReturns, Fired
      <3>b. pc # "when"  OBVIOUS
      <3>2. ev.pc \in Under /\ ev.walk.settled /\ ev.walk.path = << >>
        BY <2>1 DEF WhenReturns, Under
      <3> HIDE DEF n, ev
      <3> QED  BY <3>a, <3>b, <3>2
    <2>2. CASE EvaluationOver
      <3>1. n = [ev EXCEPT !.pc = "over"] /\ ev.pc \in Under /\ ev.pc # "when" /\ "over" # "when"
        BY <2>2 DEF EvaluationOver, Under
      <3> HIDE DEF n, ev
      <3> QED  BY <3>1
    <2> QED  BY <2>1, <2>2
  <1>2. IsEvaluation(ev)  BY DEF EvaluationOK
  <1> HIDE DEF n, ev
  <1>3. PICK pc, held, acts :
          /\ n = [ev EXCEPT !.pc = pc] \/ n = Fired(ev, pc, held, acts)
          /\ pc # "when" /\ ev.pc \in Under
          /\ ev.pc = "when" => ev.walk.settled /\ ev.walk.path = << >>
    BY <1>1
  <1>4. /\ n.pc = pc /\ n.registry = ev.registry /\ n.event = ev.event
        /\ n.rule = ev.rule /\ n.walk = ev.walk
    <2>1. CASE n = [ev EXCEPT !.pc = pc]
      <3>1. n = [pc |-> pc, registry |-> ev.registry, event |-> ev.event, rule |-> ev.rule,
                 walk |-> ev.walk, held |-> ev.held, acts |-> ev.acts]
        BY <1>2, <2>1, PcUpdate
      <3> QED  BY <3>1
    <2>2. CASE n = Fired(ev, pc, held, acts)
      <3>1. n = [pc |-> pc, registry |-> ev.registry, event |-> ev.event, rule |-> ev.rule,
                 walk |-> ev.walk, held |-> held, acts |-> acts]
        BY <1>2, <2>2, FiredUpdate
      <3> QED  BY <3>1
    <2> QED  BY <1>3, <2>1, <2>2
  <1> SUFFICES ASSUME OnComment(n) PROVE AsksOK(n)  BY DEF AsksOK, n
  <1>5. OnComment(ev)  BY <1>3, <1>4 DEF OnComment
  <1>6. /\ Len(ev.walk.calls) = 0 => ev.walk.memo = << >>
        /\ Len(ev.walk.calls) = IF ev.rule < 2 THEN 0
                                ELSE IF ev.pc = "when" THEN CallsDue(ev.walk, ev.event.webhook.onPullRequest)
                                ELSE IF ev.event.webhook.onPullRequest THEN 1 ELSE 0
    BY <1>5 DEF AsksOK, ev
  <1>7. ev.pc = "when" => CallsDue(ev.walk, ev.event.webhook.onPullRequest)
                            = IF ev.event.webhook.onPullRequest THEN 1 ELSE 0
    <2> SUFFICES ASSUME ev.walk.settled, ev.walk.path = << >>,
                        NEW asked, asked = ev.event.webhook.onPullRequest
                 PROVE  CallsDue(ev.walk, asked) = IF asked THEN 1 ELSE 0
      BY <1>3
    <2> QED  BY DEF CallsDue
  <1> QED  BY <1>3, <1>4, <1>6, <1>7 DEF AsksOK

(* The questions asked are those due.                                       *)
LEMMA AsksInvariant == Spec => []AsksOK(evaluation)
  <1>1. Init => AsksOK(evaluation)
    <2> SUFFICES ASSUME evaluation = Idle PROVE AsksOK(evaluation)  BY DEF Init
    <2>1. evaluation.pc \notin Under  BY DEF Idle, Under
    <2> QED  BY <2>1 DEF AsksOK, OnComment
  <1>2. /\ EvaluationOK(evaluation) /\ WebhookOK(evaluation) /\ DecidedOK(evaluation)
        /\ AsksOK(evaluation) /\ [Next]_vars
        => AsksOK(evaluation)'
    <2> SUFFICES ASSUME EvaluationOK(evaluation), WebhookOK(evaluation), DecidedOK(evaluation),
                        AsksOK(evaluation), [Next]_vars
                 PROVE  AsksOK(evaluation')
      OBVIOUS
    <2>1. CASE \E batch \in scene.batches : Register(batch)  BY <2>1 DEF Register
    <2>2. CASE \E event \in scene.events : Evaluate(event)  BY <2>2, EvaluateAsks
    <2>3. CASE EvaluateRule  BY <2>3, RuleAsks
    <2>4. CASE Walk  BY <2>4, WalkAsks
    <2>5. CASE WhenReturns  BY <2>5, ReturnsAsk
    <2>6. CASE EvaluationOver  BY <2>6, ReturnsAsk
    <2>7. CASE UNCHANGED vars  BY <2>7 DEF vars
    <2> QED  BY <2>1, <2>2, <2>3, <2>4, <2>5, <2>6, <2>7 DEF Next
  <1> QED  BY <1>1, <1>2, EvaluationInvariant, WebhookInvariant, DecidedInvariant, PTL DEF Spec

(* Comments: with a decision as its trees mean and the questions that are   *)
(* due, the second half of the property follows.                            *)
LEMMA HostileInvariant == Spec => []HostileOnlyIfSure
  <1>1. /\ EvaluationOK(evaluation) /\ DecidesAsMeant /\ WebhookOK(evaluation) /\ AsksOK(evaluation)
        => HostileOnlyIfSure
    <2> SUFFICES ASSUME EvaluationOK(evaluation), DecidesAsMeant, WebhookOK(evaluation),
                        AsksOK(evaluation), DemoOver("issue_comment")
                 PROVE  LET comment == evaluation.event.webhook
                        IN  /\ Decided("hostile-pr-comment") =>
                                 /\ comment.onPullRequest
                                 /\ IF comment.url THEN comment.classifier = "sure" ELSE comment.marked
                            /\ Len(evaluation.walk.calls) = IF comment.onPullRequest THEN 1 ELSE 0
      BY DEF HostileOnlyIfSure
    <2> DEFINE ev == evaluation
               e  == ev.event
               comment == e.webhook
               x  == Context(ev)
    <2>1. /\ ev.pc = "over" /\ ev.registry.batch = DemoBatch /\ OnComment(ev)
          /\ e \in DemoEvents /\ comment.event = "issue_comment"
      BY DEF DemoOver, WebhookOK, OnComment, Under
    <2>2. x.event = e /\ x.registry = ev.registry  BY DEF Context
    <2>3. Accepted(DemoBatch) /\ ev.registry = BuildRegistry(DemoBatch)
      BY <2>1, DemoRegistry DEF Under
    <2>4. ev.rule = Len(Candidates(ev)) /\ Len(Candidates(ev)) = 2
      BY <2>1, CommentFacts DEF EvaluationOK
    <2> HIDE DEF e, x, ev
    <2>5. /\ e.gives = NoArgs /\ comment.onPullRequest \in BOOLEAN
          /\ e.name = "issue_comment.created"
          /\ (e.says["onPullRequest"] = "true") <=> comment.onPullRequest
          /\ e.judges["is_hostile_comment"]["80"] = "true" =>
               IF comment.url THEN comment.classifier = "sure" ELSE comment.marked
      BY <2>1, CommentEvent
    <2>6. Decided("hostile-pr-comment") => Meaning(HostileOnPr, x)
      <3>1. /\ DemoRuleList[4].name = "hostile-pr-comment" /\ DemoRuleList[4].when = HostileOnPr
        BY DemoRulesAre
      <3>2. 4 \in 1..6 /\ evaluation.event.gives = NoArgs  BY <2>5 DEF e, ev
      <3>3. Decided(DemoRuleList[4].name) <=>
              DemoRuleList[4].event = evaluation.event.name
              /\ Meaning(DemoRuleList[4].when, Context(evaluation))
        BY <2>1, <3>2, DemoDecides DEF ev
      <3> QED  BY <3>1, <3>3 DEF ev, x
    <2>7. Meaning(HostileOnPr, x) <=>
            /\ e.says["onPullRequest"] = "true"
            /\ e.judges["is_hostile_comment"]["80"] = "true"
      BY <2>2, <2>3, <2>5, HostileMeans
    <2>8. Len(ev.walk.calls) = IF comment.onPullRequest THEN 1 ELSE 0
      <3>1. ~(ev.rule < 2) /\ ev.pc # "when"  BY <2>1, <2>4
      <3> QED  BY <2>1, <3>1 DEF AsksOK, e, ev
    <2> QED  BY <2>5, <2>6, <2>7, <2>8 DEF e, ev
  <1> QED  BY <1>1, EvaluationInvariant, RulesAreDecidedAsMeant, WebhookInvariant, AsksInvariant, PTL

(* The demo reports on evidence: what a failing GitHub or classifier lets   *)
(* the conditions see never makes a rule fire, and one condition asks the   *)
(* classifier about a comment on a pull request, none about another.  For   *)
(* any depth limit the batch is accepted with, scenes with any other        *)
(* batches and events, and registrations at any point of the evaluation.    *)
THEOREM DemoReportsOnEvidence == Spec => []ReportsOnEvidence
  <1>1. InfraByItsFiles /\ HostileOnlyIfSure => ReportsOnEvidence  BY DEF ReportsOnEvidence
  <1> QED  BY <1>1, InfraInvariant, HostileInvariant, PTL
=============================================================================

------------------------------ MODULE WhenTree ------------------------------
(***************************************************************************)
(* The condition of a rule: a tree of functions, references to registered   *)
(* predicates and the combinators all, any and not                          *)
(* (engine/src/engine/predicates.ts, utility/combinators.ts), walked in     *)
(* order, to a bounded depth, with one memo for all rules of an event.  The *)
(* code awaits every node: a walk is taken one node at a time.              *)
(*                                                                          *)
(* An event says what each function finds, what each callback gives and how *)
(* each predicate judges each value of its argument x.  A value of an       *)
(* argument is a string; nested values are left out.                        *)
(***************************************************************************)
EXTENDS Integers, Sequences, SequencesExt

CONSTANT MaxDepth   \* WHEN_TREE_MAX_DEPTH, 30 in the code

ASSUME WhenTreeAssumption == MaxDepth \in Nat \ {0}

Fn(name) == [kind |-> "fn", name |-> name]
UseRef(name, args) == [kind |-> "use", name |-> name, args |-> args]
AllOf(children) == [kind |-> "all", children |-> children]
AnyOf(children) == [kind |-> "any", children |-> children]
NotOf(child) == [kind |-> "not", child |-> child]
None == [name |-> "none"]

Combinators == {"all", "any", "not"}
Children(node) ==
  CASE node.kind \in {"all", "any"} -> node.children
    [] node.kind = "not"            -> <<node.child>>
    [] OTHER                        -> << >>

-----------------------------------------------------------------------------
(* Arguments. *)

NoArgs == [k \in {} |-> "undefined"]
ArgOf(args, k) == IF k \in DOMAIN args THEN args[k] ELSE "undefined"
Defined(args) == { k \in DOMAIN args : args[k] # "undefined" }

(* Some arguments are callbacks; they may throw. *)
Resolve(args, event) ==
  [k \in DOMAIN args |-> IF args[k] \in DOMAIN event.gives THEN event.gives[args[k]] ELSE args[k]]
Resolves(args, event) == \A k \in DOMAIN args : Resolve(args, event)[k] # "throws"

(* What registration pinned wins over the use site, unless it is undefined. *)
Merged(pinned, args) ==
  [k \in DOMAIN args \cup Defined(pinned) |->
     IF k \in Defined(pinned) THEN pinned[k] ELSE args[k]]

(* A schema gives the values it accepts for each argument; "undefined" is   *)
(* among them when the argument is optional.                                *)
Accepts(schema, args) == \A k \in DOMAIN schema : ArgOf(args, k) \in schema[k]

(* JSON with sorted keys.  undefined, null and the numbers that are not     *)
(* finite ("nan") are one value, and a Date has no own keys: all of them    *)
(* are {}.  A bigint throws.                                                *)
JsonOf == [undefined |-> "null", nan |-> "null", monday |-> "{}", tuesday |-> "{}"]
Canonical(args) ==
  [k \in DOMAIN args |-> IF args[k] \in DOMAIN JsonOf THEN JsonOf[args[k]] ELSE args[k]]
HasJson(args) == \A k \in DOMAIN args : args[k] # "bigint"

-----------------------------------------------------------------------------
(* A walk stands at a node: `path` has the combinators around it, outermost *)
(* first, each with the number of the child it awaits.  Once it is settled  *)
(* the node has a value.  The memo and the calls made outlast the tree.     *)
(* x is the registry and the event the walk is about.                       *)

Start == [path |-> << >>, node |-> None, settled |-> TRUE, value |-> FALSE,
          memo |-> << >>, calls |-> << >>]
Settle(w, value) == [w EXCEPT !.settled = TRUE, !.value = value]
Known(w, key) == \E i \in DOMAIN w.memo : w.memo[i].key = key
Recall(w, key) == w.memo[CHOOSE i \in DOMAIN w.memo : w.memo[i].key = key].value

Open(args) == ArgOf(args, "failOpen") = "true"

(* The function of the predicate, once; it may throw.                       *)
CallOf(name, args, x) ==
  [name |-> name, args |-> args, judges |-> x.event.judges[name][ArgOf(args, "x")]]

(* Variant: only true results are remembered. *)
RememberTrue(w, key, value) ==
  IF value THEN [Settle(w, value) EXCEPT !.memo = Append(w.memo, [key |-> key, value |-> value])]
  ELSE Settle(w, value)

Remember(w, key, value) ==
  [Settle(w, value) EXCEPT !.memo = Append(w.memo, [key |-> key, value |-> value])]

(* resolveUse: a predicate whose arguments are no good or whose function    *)
(* throws is false, or true where one of the places said failOpen.          *)
ResolveUse(node, x, w) ==
  LET pred   == x.registry.predicates[node.name]
      merged == Merged(pred.pinned, Resolve(node.args, x.event))
      fail   == Open(pred.pinned) \/ Open(node.args)
      key    == <<node.name, Canonical(merged)>>
      call   == CallOf(node.name, merged, x)
      failed == fail \/ Open(merged)
  IN  IF node.name \notin DOMAIN x.registry.predicates THEN Settle(w, FALSE)
      ELSE IF ~Resolves(node.args, x.event) THEN Settle(w, fail)
      ELSE IF ~HasJson(merged) THEN Settle(w, failed)
      ELSE IF Known(w, key) THEN Settle(w, Recall(w, key))
      ELSE IF ~Accepts(pred.schema, merged) THEN Remember(w, key, failed)
      ELSE Remember([w EXCEPT !.calls = Append(w.calls, call)], key,
                    IF call.judges = "throws" THEN failed ELSE call.judges = "true")

(* Variant: the last level of leaves is cut off. *)
TooDeepEarly(node, depth) == depth >= MaxDepth

TooDeep(node, depth) ==
  depth > MaxDepth \/ (depth = MaxDepth /\ node.kind \in Combinators)

(* A combinator with the path around it awaits its child i. *)
Await(w, path, node, i) ==
  [w EXCEPT !.path = Append(path, [node |-> node, child |-> i]),
            !.node = Children(node)[i], !.settled = FALSE]

(* all and any stop at the first child with the value that decides them. *)
Deciding(node) == node.kind = "any"

EvaluateWhen(tree, w) == [w EXCEPT !.path = << >>, !.node = tree, !.settled = FALSE]

EvaluateNode(x, w) ==
  IF TooDeep(w.node, Len(w.path) + 1) THEN Settle(w, FALSE)
  ELSE CASE w.node.kind = "fn"          -> Settle(w, x.event.says[w.node.name] = "true")
         [] w.node.kind = "use"         -> ResolveUse(w.node, x, w)
         [] w.node.kind \in Combinators ->
              IF Children(w.node) = << >> THEN Settle(w, ~Deciding(w.node))
              ELSE Await(w, w.path, w.node, 1)

ChildSettles(w) ==
  LET node  == Last(w.path).node
      child == Last(w.path).child
      up    == [w EXCEPT !.path = Front(w.path), !.node = node]
  IN  IF node.kind = "not" THEN Settle(up, ~w.value)
      ELSE IF w.value = Deciding(node) \/ child = Len(Children(node)) THEN Settle(up, w.value)
      ELSE Await(w, Front(w.path), node, child + 1)

-----------------------------------------------------------------------------
(* The nodes of a tree, level by level, to the first level that is too deep.*)
Levels(tree) ==
  LET level[d \in 1..(MaxDepth + 1)] ==
        IF d = 1 THEN {tree} ELSE UNION { Range(Children(node)) : node \in level[d - 1] }
  IN  level

Nodes(tree) == UNION { Levels(tree)[d] : d \in 1..MaxDepth }
Uses(tree) == { node \in Nodes(tree) : node.kind = "use" }
WithinDepth(tree) == Levels(tree)[MaxDepth + 1] = {}

(* What a tree within the depth means: no order, no memo, no path.  `below` *)
(* has what the nodes of the next level mean.                               *)
MeaningOf(node, x, below) ==
  CASE node.kind = "fn"  -> x.event.says[node.name] = "true"
    [] node.kind = "use" -> ResolveUse(node, x, Start).value
    [] node.kind = "all" -> \A i \in DOMAIN node.children : below[node.children[i]]
    [] node.kind = "any" -> \E i \in DOMAIN node.children : below[node.children[i]]
    [] node.kind = "not" -> ~below[node.child]

Meanings(tree, x) ==
  LET meaning[d \in 1..(MaxDepth + 1)] ==
        [node \in Levels(tree)[d] |-> MeaningOf(node, x, meaning[d + 1])]
  IN  meaning

Meaning(tree, x) == Meanings(tree, x)[1][tree]
=============================================================================

---------------------------- MODULE Aggregation ----------------------------
(***************************************************************************)
(* Evaluations of a rule with .aggregate(...) that run at the same time on  *)
(* one key: the aggregate strategy of engine/src/engine/strategy-handlers.ts*)
(* over one of three stores, and the aggregated actions of actions.ts.      *)
(*                                                                          *)
(*   memory    appendAndCount of the in-memory store, one synchronous body  *)
(*   plain     a store without appendAndCount: append, then count           *)
(*   postgres  BEGIN, INSERT, SELECT COUNT, COMMIT with READ COMMITTED      *)
(*                                                                          *)
(* Aborts are left to Evaluation; an evaluation here is one that goes on.   *)
(***************************************************************************)
EXTENDS AggregationStore, FiniteSets

CONSTANTS Eval,        \* evaluations whose event matched the rule
          Attached,    \* the attached aggregated actions, in their order; the
                       \* registration lets one be attached twice
          Threshold,   \* strategy.count
          Window,      \* strategy.window
          Backends,    \* the stores to look at
          AtOffsets,   \* strategy.at relative to ctx.now
          MaxPrunes,   \* bound: calls of prune
          MaxTime      \* bound: the clock stops here

ASSUME AggregationAssumption ==
  /\ Attached \in Seq(Range(Attached)) /\ Attached # << >>
  /\ Threshold \in Nat \ {0} /\ Window \in Nat
  /\ Backends \subseteq {"memory", "plain", "postgres"}
  /\ AtOffsets \subseteq Int
  /\ MaxPrunes \in Nat /\ MaxTime \in Nat

Action == Range(Attached)
Place == DOMAIN Attached
Call == Eval \X Place   \* one append and its count: an evaluation, at a place

VARIABLES
  backend,   \* which store this is; never changes
  now,       \* clock.now()
  buckets,   \* the bucket of each aggregated action
  evals,     \* the state of each evaluation
  prunes,
  owed       \* history: the actions an append filled the window of, which
             \* has stayed full since, without a count that fired it

vars == <<backend, now, buckets, evals, prunes, owed>>

Phase == {"idle", "appending", "counting", "committing", "acting", "done", "failed"}
NotShown == [n |-> 0, own |-> FALSE, at |-> -1]

EvalState ==
  [pc : Phase,                       \* the await the evaluation is suspended at
   at : Int,                         \* the `at` of its entries
   next : Place,                     \* the attached action it is at
   count : Nat,                      \* what the SELECT of the transaction said
   counted : [Place -> Int],         \* the time a count was taken for
   counts : [Place -> Nat],          \* ... and what it was
   fires : SUBSET Place,             \* the aggregated actions it queued
   shown : [Place -> [n : Nat, own : BOOLEAN, at : Int]]]   \* what fn was given

Row == [at : Int, by : Call, committed : BOOLEAN]

IdleEval == [pc |-> "idle", at |-> 0, next |-> 1, count |-> 0,
             counted |-> [i \in Place |-> -1], counts |-> [i \in Place |-> 0],
             fires |-> {}, shown |-> [i \in Place |-> NotShown]]

TypeOK ==
  /\ backend \in Backends
  /\ now \in 0..MaxTime /\ prunes \in 0..MaxPrunes
  /\ evals \in [Eval -> EvalState]
  /\ buckets \in [Action -> Seq(Row)]
  /\ owed \subseteq Action

Init ==
  /\ backend \in Backends
  /\ now = 0 /\ prunes = 0
  /\ buckets = [a \in Action |-> << >>]
  /\ evals = [e \in Eval |-> IdleEval]
  /\ owed = {}

-----------------------------------------------------------------------------
(* What the steps of an evaluation share. *)

Current(e) == Attached[evals[e].next]
CallOf(e) == <<e, evals[e].next>>
At(e, pc) == evals[e].pc = pc
EntryOf(c, committed) == [at |-> evals[c[1]].at, by |-> c, committed |-> committed]

(* Under READ COMMITTED uncommitted rows of others are invisible.           *)
Visible(c, rows) == Select(rows, [i \in DOMAIN rows |-> rows[i].committed \/ rows[i].by = c])

(* What a query for call c finds in the window that ends at `until`. *)
Entries(c, bucket, until) ==
  IF backend = "postgres"
  THEN SqlWindow(Visible(c, bucket), until, Window)
  ELSE MemoryWindow(bucket, until, Window)

(* The rows there are in the window: what a count is about, whoever counts  *)
(* and however it is searched for.                                          *)
Within(bucket, time) ==
  { r \in Range(bucket) : r.committed /\ r.at \in (time - Window)..time }
Full(bucket, time) == Cardinality(Within(bucket, time)) >= Threshold

(* Variant: the own entry is counted twice. *)
ReachedEarly(count) == count + 1 >= Threshold

(* Variant: the threshold must be exceeded. *)
Exceeded(count) == count > Threshold

Reached(count) == count >= Threshold

(* Variant: the loop over the attached actions runs once too often. *)
AnotherThrough(e) == evals[e].next <= Len(Attached)

Another(e) == evals[e].next < Len(Attached)

(* The count of the current action has come back: the action is queued when *)
(* the threshold is reached, and the strategy goes on to the next one.      *)
Counted(e, count, when) ==
  LET i     == evals[e].next
      fires == IF Reached(count) THEN evals[e].fires \cup {i} ELSE evals[e].fires
      ev    == [evals[e] EXCEPT !.fires = fires, !.counts[i] = count, !.counted[i] = when]
  IN  evals' = [evals EXCEPT ![e] =
        IF Another(e) THEN [ev EXCEPT !.pc = "appending", !.next = i + 1]
        ELSE [ev EXCEPT !.pc = IF fires = {} THEN "done" ELSE "acting"]]

Put(e, committed) ==
  buckets' = [buckets EXCEPT ![Current(e)] = InsertSorted(@, EntryOf(CallOf(e), committed))]

(* An append that fills the window owes a firing until a count gives one.   *)
Owe(a) == owed' = IF Full(buckets'[a], now) THEN owed \cup {a} ELSE owed
Settle(a, count) == IF Reached(count) THEN owed' = owed \ {a} ELSE Owe(a)

Proceed(e, pc) == evals' = [evals EXCEPT ![e].pc = pc]

-----------------------------------------------------------------------------
(* The evaluation reaches the rule, whose event happened at ctx.now + off.  *)
Begin(e, off) ==
  /\ At(e, "idle")
  /\ evals' = [evals EXCEPT ![e].pc = "appending", ![e].at = now + off]
  /\ UNCHANGED <<backend, now, buckets, prunes, owed>>

(* append of a store without appendAndCount. *)
PlainAppend(e) ==
  /\ At(e, "appending") /\ backend = "plain"
  /\ Put(e, TRUE)
  /\ Owe(Current(e))
  /\ Proceed(e, "counting")
  /\ UNCHANGED <<backend, now, prunes>>

(* Variant: appendAndCount of the in-memory store awaits between the two.   *)
AppendThenCount(e) ==
  /\ At(e, "appending") /\ backend = "memory"
  /\ Put(e, TRUE)
  /\ Owe(Current(e))
  /\ Proceed(e, "counting")
  /\ UNCHANGED <<backend, now, prunes>>

MemoryAppendAndCount(e) ==
  /\ At(e, "appending") /\ backend = "memory"
  /\ Put(e, TRUE)
  /\ LET count == Len(Entries(CallOf(e), buckets'[Current(e)], now))
     IN  Counted(e, count, now) /\ Settle(Current(e), count)
  /\ UNCHANGED <<backend, now, prunes>>

PlainCount(e) ==
  /\ At(e, "counting") /\ backend # "postgres"
  /\ UNCHANGED <<backend, now, buckets, prunes>>
  /\ LET count == Len(Entries(CallOf(e), buckets[Current(e)], now))
     IN  Counted(e, count, now) /\ Settle(Current(e), count)

(* The transaction of the SQL store, one statement at a time.  The time the *)
(* count is for is read when the INSERT is answered, before it is sent.     *)
PgInsert(e) ==
  /\ At(e, "appending") /\ backend = "postgres"
  /\ Put(e, FALSE)
  /\ evals' = [evals EXCEPT ![e].pc = "counting", ![e].counted[evals[e].next] = now]
  /\ UNCHANGED <<backend, now, prunes, owed>>

PgCount(e) ==
  /\ At(e, "counting") /\ backend = "postgres"
  /\ LET until == evals[e].counted[evals[e].next]
     IN  evals' = [evals EXCEPT ![e].pc = "committing",
           ![e].count = Len(Entries(CallOf(e), buckets[Current(e)], until))]
  /\ UNCHANGED <<backend, now, buckets, prunes, owed>>

Own(c, bucket) == { i \in DOMAIN bucket : bucket[i].by = c }
Committed(c, bucket) == [i \in DOMAIN bucket |->
                           IF i \in Own(c, bucket) THEN EntryOf(c, TRUE) ELSE bucket[i]]
Without(c, bucket) == Select(bucket, [i \in DOMAIN bucket |-> bucket[i].by # c])

PgCommit(e) ==
  /\ At(e, "committing")
  /\ buckets' = [buckets EXCEPT ![Current(e)] = Committed(CallOf(e), @)]
  /\ Counted(e, evals[e].count, evals[e].counted[evals[e].next])
  /\ Settle(Current(e), evals[e].count)
  /\ UNCHANGED <<backend, now, prunes>>

(* A statement rejects and the transaction is rolled back, or the answer to *)
(* the COMMIT is lost.  Either way the evaluation fails; what the strategy  *)
(* appended for earlier actions stays.                                      *)
PgFails(e) ==
  /\ backend = "postgres" /\ evals[e].pc \in {"appending", "counting", "committing"}
  /\ \/ buckets' = [buckets EXCEPT ![Current(e)] = Without(CallOf(e), @)]
     \/ /\ At(e, "committing")
        /\ buckets' = [buckets EXCEPT ![Current(e)] = Committed(CallOf(e), @)]
  /\ Proceed(e, "failed")
  /\ UNCHANGED <<backend, now, prunes, owed>>

(* The queued actions run: each lists its entries first.  The in-memory     *)
(* lists are read as soon as the actions start, together.                   *)
List(e, chosen) ==
  LET shown(i) == LET es == Entries(<<e, i>>, buckets[Attached[i]], now)
                  IN  [n |-> Len(es), own |-> Own(<<e, i>>, es) # {}, at |-> now]
      list == [i \in Place |-> IF i \in chosen THEN shown(i) ELSE evals[e].shown[i]]
      ev == [evals[e] EXCEPT !.shown = list]
  IN  /\ At(e, "acting")
      /\ \A i \in chosen : evals[e].shown[i] = NotShown
      /\ evals' = [evals EXCEPT ![e] =
           IF \A i \in ev.fires : ev.shown[i] # NotShown THEN [ev EXCEPT !.pc = "done"] ELSE ev]
      /\ UNCHANGED <<backend, now, buckets, prunes, owed>>

Chosen(e) == IF backend = "postgres" THEN { {i} : i \in evals[e].fires } ELSE { evals[e].fires }

(* prune(olderThanMs) with the window, the shortest age that is safe. *)
Prune ==
  /\ prunes < MaxPrunes
  /\ prunes' = prunes + 1
  /\ buckets' = [a \in Action |->
       IF backend = "postgres" THEN SqlPruned(buckets[a], now - Window)
                               ELSE MemoryPruned(buckets[a], now - Window)]
  /\ UNCHANGED <<backend, now, evals, owed>>

(* Time takes entries out of the window, and what is owed with them. *)
Tick ==
  /\ now < MaxTime /\ now' = now + 1
  /\ owed' = { a \in owed : Full(buckets[a], now') }
  /\ UNCHANGED <<backend, buckets, evals, prunes>>

Step(e) ==
  \/ \E off \in AtOffsets : Begin(e, off)
  \/ PlainAppend(e) \/ MemoryAppendAndCount(e) \/ PlainCount(e)
  \/ PgInsert(e) \/ PgCount(e) \/ PgCommit(e) \/ PgFails(e)
  \/ \E chosen \in Chosen(e) : List(e, chosen)

Next == (\E e \in Eval : Step(e)) \/ Prune \/ Tick

Spec == Init /\ [][Next]_vars

-----------------------------------------------------------------------------
(* Safety. *)

(* How often call c is in bucket a. *)
Times(c, a) == Cardinality(Own(c, buckets[a]))

(* An evaluation that got past an attached action has one entry in its      *)
(* bucket for having been attached there, k when the action is attached k   *)
(* times, unless they were pruned, which only happens outside the window.   *)
(* One that has not come to it has none, and there is none anywhere else.   *)
EntryPerAttachment ==
  \A e \in Eval : \A i \in Place :
    LET passed == evals[e].pc \in {"acting", "done"}
                  \/ (evals[e].pc # "idle" /\ i < evals[e].next)
        times  == Times(<<e, i>>, Attached[i])
    IN  /\ times <= 1
        /\ passed /\ evals[e].at >= now - Window => times = 1
        /\ i > evals[e].next /\ ~passed => times = 0
        /\ \A a \in Action \ {Attached[i]} : Times(<<e, i>>, a) = 0

(* Who runs an aggregated action without delay sees at least as many        *)
(* entries as the threshold, and the own one while it is in the window.     *)
ShownTheThreshold ==
  \A e \in Eval : \A i \in Place :
    LET s == evals[e].shown[i]
    IN  s # NotShown =>
          /\ s.at = evals[e].counted[i] => s.n >= Threshold
          /\ evals[e].at \in (s.at - Window)..s.at => s.own

(* Whenever an append has filled the window and it is still full, the       *)
(* action was fired since, or somebody is about to count it.  (An           *)
(* evaluation that failed told its caller.)                                 *)
NoMissedThreshold ==
  \A a \in owed : \E e \in Eval :
    evals[e].pc \in {"counting", "committing"} /\ Current(e) = a

(* In one process no append that fills the window goes unnoticed, the two   *)
(* awaits of a store without appendAndCount included.                       *)
NoMissedThresholdInProcess == backend # "postgres" => NoMissedThreshold

(* appendAndCount of the in-memory store gives the Nth count to one call    *)
(* only.  adr/006:215 says that it "is non-atomic in the in-memory default  *)
(* - two simultaneous webhooks could both decide they're the Nth event";    *)
(* the code has no await between the two, and they cannot.                  *)
OneNth ==
  LET when(c)   == evals[c[1]].counted[c[2]]
      inTime(c) == evals[c[1]].at \in (when(c) - Window)..when(c)
  IN  backend = "memory" =>
        \A c, d \in Call :
          /\ c # d /\ Attached[c[2]] = Attached[d[2]]
          /\ when(c) = when(d) /\ when(c) >= 0 /\ inTime(c) /\ inTime(d)
          => evals[c[1]].counts[c[2]] # evals[d[1]].counts[d[2]]
=============================================================================

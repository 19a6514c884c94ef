------------------------- MODULE AggregationProofs -------------------------
(***************************************************************************)
(* Aggregation, for any number of evaluations and attached actions, any     *)
(* threshold and window and any number of prunes: what the runs check on    *)
(* two evaluations is proved from the inductive invariant AggregationInv.   *)
(* Its parts speak of a bucket as the set of its rows (AggregationStore-    *)
(* Proofs), and of a count as the number of calls that are seen.            *)
(***************************************************************************)
EXTENDS Aggregation, AggregationStoreProofs

(* The evaluation got past its i-th action; it has appended and is not past.*)
Passed(e, i) ==
  evals[e].pc \in {"acting", "done"} \/ (evals[e].pc # "idle" /\ i < evals[e].next)
Held(e, i) == i = evals[e].next /\ evals[e].pc \in {"counting", "committing"}

Bucket(i) == buckets[Attached[i]]

(* Buckets are sorted, with one row for a call at most. *)
BucketsOK == \A a \in Action : Sorted(buckets[a]) /\ OneEach(buckets[a])

(* A row is of a call that came that far, in the bucket of its action, and  *)
(* it is uncommitted as long as its transaction is open.                    *)
RowOK(a, r) ==
  LET e == r.by[1]
      i == r.by[2]
  IN  /\ Attached[i] = a
      /\ r.at = evals[e].at
      /\ Passed(e, i) \/ Held(e, i) \/ (i = evals[e].next /\ evals[e].pc = "failed")
      /\ r.committed = ~(backend = "postgres" /\ Held(e, i))
RowsOK == \A a \in Action : \A r \in Rows(buckets[a]) : RowOK(a, r)

(* Only age removes the row of an evaluation that goes on. *)
KeptOK ==
  \A e \in Eval : \A i \in Place :
    (Passed(e, i) \/ Held(e, i)) /\ evals[e].at >= now - Window
      => \E r \in Rows(Bucket(i)) : r.by = <<e, i>>

(* Where an evaluation can be suspended, and what it has counted and queued.*)
StageOK(e) ==
  /\ evals[e].pc = "idle" => evals[e].next = 1
  /\ evals[e].pc \in {"acting", "done"} => evals[e].next = Len(Attached)
  /\ evals[e].pc = "counting" => backend # "memory"
  /\ evals[e].pc \in {"committing", "failed"} => backend = "postgres"
  /\ \A i \in Place :
       /\ evals[e].counted[i] \in -1..now
       /\ evals[e].counted[i] # -1 =>
            Passed(e, i) \/ (i = evals[e].next /\ evals[e].pc \in {"counting", "committing", "failed"}
                              /\ backend = "postgres")
       /\ i \in evals[e].fires => Passed(e, i) /\ evals[e].counts[i] >= Threshold
       /\ evals[e].shown[i] # NotShown => evals[e].pc \in {"acting", "done"}
StagesOK == \A e \in Eval : StageOK(e)

(* The calls whose row a query for call c finds in the window. *)
Seen(c, bucket, until) ==
  { d \in Call : \E r \in Rows(bucket) :
      /\ r.by = d /\ r.at >= until - Window /\ r.at <= until
      /\ backend # "postgres" \/ r.committed \/ d = c }

(* While the clock stands still, nothing that was counted disappears. *)
CountsOK ==
  \A e \in Eval : \A i \in Place :
    evals[e].counted[i] = now =>
      /\ Passed(e, i) => evals[e].counts[i] <= Cardinality(Seen(<<e, i>>, Bucket(i), now))
      /\ i = evals[e].next /\ evals[e].pc = "committing"
           => evals[e].count <= Cardinality(Seen(<<e, i>>, Bucket(i), now))

(* What is owed is still there to be counted, and somebody will. *)
OwedOK ==
  backend # "postgres" =>
    \A a \in owed : /\ Full(buckets[a], now)
                    /\ \E e \in Eval : evals[e].pc = "counting" /\ Current(e) = a

AggregationInv ==
  /\ TypeOK /\ BucketsOK /\ RowsOK /\ KeptOK /\ StagesOK /\ CountsOK /\ OwedOK
  /\ ShownTheThreshold /\ OneNth

-----------------------------------------------------------------------------
(* What the definitions give. *)

LEMMA Attaching ==
  /\ Len(Attached) \in Nat /\ Len(Attached) >= 1
  /\ Place = 1..Len(Attached)
  /\ \A i \in Place : i \in Nat /\ Attached[i] \in Action
  <1>1. Attached \in Seq(Action) /\ Attached # << >>
    BY AggregationAssumption DEF Action
  <1>2. Place = 1..Len(Attached) /\ Len(Attached) \in Nat  BY <1>1 DEF Place
  <1>3. Len(Attached) # 0  BY <1>1, EmptySeq
  <1> QED  BY <1>1, <1>2, <1>3

LEMMA EvalTypes ==
  ASSUME TypeOK, NEW e \in Eval
  PROVE  /\ evals[e] \in EvalState
         /\ evals[e].pc \in Phase /\ evals[e].at \in Int /\ evals[e].next \in Place
         /\ evals[e].count \in Nat /\ evals[e].counted \in [Place -> Int]
         /\ evals[e].counts \in [Place -> Nat] /\ evals[e].fires \in SUBSET Place
         /\ evals[e].shown \in [Place -> [n : Nat, own : BOOLEAN, at : Int]]
         /\ Current(e) \in Action /\ Current(e) = Attached[evals[e].next]
         /\ CallOf(e) \in Call /\ CallOf(e) = <<e, evals[e].next>>
  <1>1. evals[e] \in EvalState  BY DEF TypeOK
  <1>2. evals[e].next \in Place  BY <1>1 DEF EvalState
  <1>3. Current(e) \in Action  BY <1>2, Attaching DEF Current
  <1>4. CallOf(e) \in Call  BY <1>2 DEF CallOf, Call
  <1> QED  BY <1>1, <1>2, <1>3, <1>4 DEF EvalState, Current, CallOf

LEMMA CallParts ==
  \A c \in Call : c[1] \in Eval /\ c[2] \in Place /\ c = <<c[1], c[2]>>
BY DEF Call

LEMMA RowTimes ==
  \A r \in Row : r.at \in Int /\ r.by \in Call /\ r.committed \in BOOLEAN
BY DEF Row

LEMMA BucketTypes ==
  ASSUME TypeOK, NEW a \in Action
  PROVE  /\ buckets[a] \in Seq(Row) /\ Len(buckets[a]) \in Nat
         /\ DOMAIN buckets[a] = 1..Len(buckets[a])
         /\ \A i \in 1..Len(buckets[a]) : buckets[a][i] \in Row
         /\ Rows(buckets[a]) \subseteq Row
  <1>1. buckets[a] \in Seq(Row)  BY DEF TypeOK
  <1>2. \A i \in 1..Len(buckets[a]) : buckets[a][i] \in Row
    <2> HIDE DEF Row
    <2> QED  BY <1>1, ElementOfSeq
  <1> QED  BY <1>1, <1>2 DEF Rows

LEMMA Clock ==
  ASSUME TypeOK
  PROVE  now \in Nat /\ Window \in Nat /\ Threshold \in Nat /\ now - Window \in Int
BY AggregationAssumption DEF TypeOK

(* The rows that are left of a selection are those of the chosen places.    *)
LEMMA PickedRows ==
  ASSUME NEW rows \in Seq(Row), NEW result \in Seq(Row),
         NEW chosen \in SUBSET (1..Len(rows)), Picks(result, rows, chosen)
  PROVE  /\ Sorted(rows) => Sorted(result)
         /\ OneEach(rows) => OneEach(result)
         /\ Rows(result) = { rows[i] : i \in chosen }
  <1> HIDE DEF Row
  <1> QED  BY RowTimes, PicksKeeps

(* A query for c finds one entry for each call it sees, and in one process  *)
(* it finds all there is in the window.                                     *)
LEMMA EntriesSeen ==
  ASSUME TypeOK, NEW c \in Call, NEW bucket \in Seq(Row), Sorted(bucket), OneEach(bucket),
         NEW until \in Int
  PROVE  /\ IsFiniteSet(Seen(c, bucket, until))
         /\ Entries(c, bucket, until) \in Seq(Row)
         /\ Len(Entries(c, bucket, until)) \in Nat
         /\ Len(Entries(c, bucket, until)) = Cardinality(Seen(c, bucket, until))
         /\ Own(c, Entries(c, bucket, until)) # {} <=> c \in Seen(c, bucket, until)
         /\ backend # "postgres" /\ (\A r \in Rows(bucket) : r.committed)
              => (Full(bucket, until) <=> Len(Entries(c, bucket, until)) >= Threshold)
  <1> DEFINE found == Entries(c, bucket, until)
             inWindow(r) == r.at >= until - Window /\ r.at <= until
             visible(r) == backend # "postgres" \/ r.committed \/ r.by = c
  <1> HIDE DEF Row
  <1>1. until \in Int /\ Window \in Nat  BY Clock
  <1>2. Rows(bucket) \subseteq Row
    BY ElementOfSeq DEF Rows
  <1>3. /\ found \in Seq(Row) /\ OneEach(found)
        /\ Rows(found) = { r \in Rows(bucket) : inWindow(r) /\ visible(r) }
    <2>1. CASE backend # "postgres"
      <3>1. found = MemoryWindow(bucket, until, Window)  BY <2>1 DEF Entries
      <3>2. /\ found \in Seq(Row)
            /\ Picks(found, bucket, InWindow(bucket, until, Window))
        BY <1>1, <3>1, RowTimes, WindowsAgree
      <3> HIDE DEF found
      <3>3. InWindow(bucket, until, Window) \in SUBSET (1..Len(bucket))  BY DEF InWindow
      <3>4. OneEach(found) /\ Rows(found) = { bucket[i] : i \in InWindow(bucket, until, Window) }
        BY <3>2, <3>3, PickedRows
      <3>5. { bucket[i] : i \in InWindow(bucket, until, Window) }
            = { r \in Rows(bucket) : inWindow(r) /\ visible(r) }
        BY <2>1 DEF InWindow, Rows
      <3> QED  BY <3>2, <3>4, <3>5
    <2>2. CASE backend = "postgres"
      <3> DEFINE where == [i \in DOMAIN bucket |-> bucket[i].committed \/ bucket[i].by = c]
                 rows == Visible(c, bucket)
                 chosen == { i \in 1..Len(bucket) : where[i] }
      <3>1. found = SqlWindow(rows, until, Window)  BY <2>2 DEF Entries
      <3>2. rows \in Seq(Row) /\ Picks(rows, bucket, chosen)
        <4>1. rows = Select(bucket, where)  BY DEF Visible
        <4> HIDE DEF where, rows
        <4> QED  BY <4>1, SelectPicks
      <3>3. DOMAIN bucket = 1..Len(bucket)  OBVIOUS
      <3>4. { bucket[i] : i \in chosen } = { r \in Rows(bucket) : visible(r) }
        BY <2>2, <3>3 DEF Rows
      <3>5. chosen \in SUBSET (1..Len(bucket))  OBVIOUS
      <3> HIDE DEF rows, chosen
      <3>6. OneEach(rows) /\ Rows(rows) = { bucket[i] : i \in chosen }
        BY <3>2, <3>5, PickedRows
      <3>7. found \in Seq(Row) /\ Picks(found, rows, InWindow(rows, until, Window))
        BY <1>1, <3>1, <3>2, RowTimes, WindowsAgree
      <3> HIDE DEF found
      <3>8. InWindow(rows, until, Window) \in SUBSET (1..Len(rows))  BY DEF InWindow
      <3>9. OneEach(found) /\ Rows(found) = { rows[i] : i \in InWindow(rows, until, Window) }
        BY <3>2, <3>6, <3>7, <3>8, PickedRows
      <3>10. { rows[i] : i \in InWindow(rows, until, Window) } = { r \in Rows(rows) : inWindow(r) }
        BY DEF InWindow, Rows
      <3> QED  BY <3>4, <3>6, <3>7, <3>9, <3>10
    <2> QED  BY <2>1, <2>2
  <1> HIDE DEF found
  <1>4. IsFiniteSet(Rows(found)) /\ Cardinality(Rows(found)) = Len(found)
    BY <1>3, RowsCounted
  <1>5. \A r, s \in Rows(found) : r.by = s.by => r = s  BY <1>3 DEF OneEach, Rows
  <1> DEFINE f == [r \in Rows(found) |-> r.by]
  <1>6. f \in Bijection(Rows(found), Seen(c, bucket, until))
    <2>1. f \in [Rows(found) -> Seen(c, bucket, until)]
      <3> SUFFICES ASSUME NEW r \in Rows(found) PROVE r.by \in Seen(c, bucket, until)  OBVIOUS
      <3> QED  BY <1>2, <1>3, RowTimes DEF Seen
    <2>2. \A r, s \in Rows(found) : f[r] = f[s] => r = s  BY <1>5
    <2>3. \A g \in Seen(c, bucket, until) : \E r \in Rows(found) : f[r] = g
      BY <1>3 DEF Seen
    <2> QED  BY <2>1, <2>2, <2>3 DEF Bijection, Injection, Surjection, IsInjective
  <1>7. ExistsBijection(Rows(found), Seen(c, bucket, until))  BY <1>6 DEF ExistsBijection
  <1>8. IsFiniteSet(Seen(c, bucket, until)) /\ Cardinality(Seen(c, bucket, until)) = Len(found)
    BY <1>4, <1>7, FS_Bijection
  <1>9. Own(c, found) # {} <=> c \in Seen(c, bucket, until)
    <2>1. DOMAIN found = 1..Len(found)  BY <1>3
    <2>2. Own(c, found) # {} <=> \E r \in Rows(found) : r.by = c
      BY <2>1 DEF Own, Rows
    <2> QED  BY <1>3, <2>2 DEF Seen
  <1>10. Len(found) \in Nat  BY <1>3
  <1>11. ASSUME backend # "postgres", \A r \in Rows(bucket) : r.committed
         PROVE  Full(bucket, until) <=> Len(found) >= Threshold
    <2>1. Range(bucket) = Rows(bucket)  BY DEF Range, Rows
    <2>2. \A r \in Rows(bucket) : r.at \in (until - Window)..until <=> inWindow(r)
      BY <1>1, <1>2, RowTimes
    <2>3. Within(bucket, until) = Rows(found)
      BY <1>3, <1>11, <2>1, <2>2 DEF Within
    <2> QED  BY <1>4, <2>3 DEF Full
  <1> QED  BY <1>3, <1>8, <1>9, <1>10, <1>11 DEF found

(* A window that has all its rows still, is still full. *)
LEMMA FullKept ==
  ASSUME NEW old \in Seq(Row), NEW new \in Seq(Row), NEW t, NEW u, Full(old, t),
         \A r \in Rows(old) : r.committed /\ r.at \in (t - Window)..t
                              => r \in Rows(new) /\ r.at \in (u - Window)..u
  PROVE  Full(new, u)
  <1> HIDE DEF Row
  <1>1. Range(old) = Rows(old) /\ Range(new) = Rows(new)  BY DEF Range, Rows
  <1>2. Within(old, t) \subseteq Within(new, u)  BY <1>1 DEF Within
  <1>3. IsFiniteSet(Within(new, u))
    <2> DEFINE f == [i \in 1..Len(new) |-> new[i]]
    <2>1. IsFiniteSet(1..Len(new))
      <3>1. Len(new) \in Nat  OBVIOUS
      <3> QED  BY <3>1, FS_Interval
    <2>2. f \in Surjection(1..Len(new), Rows(new))  BY DEF Surjection, Rows
    <2>3. IsFiniteSet(Rows(new))  BY <2>1, <2>2, FS_Surjection
    <2>4. Within(new, u) \subseteq Rows(new)  BY <1>1 DEF Within
    <2> QED  BY <2>3, <2>4, FS_Subset
  <1>4. /\ Cardinality(Within(old, t)) <= Cardinality(Within(new, u))
        /\ Cardinality(Within(old, t)) \in Nat /\ Cardinality(Within(new, u)) \in Nat
    BY <1>2, <1>3, FS_Subset, FS_CardinalityType
  <1>5. Threshold \in Nat  BY AggregationAssumption
  <1> QED  BY <1>4, <1>5 DEF Full

-----------------------------------------------------------------------------
(* What the operations do to a bucket. *)

LEMMA Putting ==
  ASSUME TypeOK, BucketsOK, NEW e \in Eval, NEW committed \in BOOLEAN,
         Put(e, committed), \A r \in Rows(buckets[Current(e)]) : r.by # CallOf(e)
  PROVE  /\ buckets' \in [Action -> Seq(Row)]
         /\ \A a \in Action : Sorted(buckets'[a]) /\ OneEach(buckets'[a])
         /\ \A a \in Action \ {Current(e)} : buckets'[a] = buckets[a]
         /\ Rows(buckets'[Current(e)]) = Rows(buckets[Current(e)]) \cup {EntryOf(CallOf(e), committed)}
  <1> DEFINE a == Current(e)
             entry == EntryOf(CallOf(e), committed)
             new == InsertSorted(buckets[a], entry)
  <1>1. a \in Action  BY EvalTypes
  <1>2. entry \in Row /\ entry.by = CallOf(e)  BY EvalTypes DEF EntryOf, Row
  <1>3. buckets[a] \in Seq(Row) /\ Sorted(buckets[a]) /\ OneEach(buckets[a])
    BY <1>1, BucketTypes DEF BucketsOK
  <1>4. \A r \in Rows(buckets[a]) : r.by # entry.by  BY <1>2
  <1>5. buckets' = [buckets EXCEPT ![a] = new]  BY DEF Put
  <1>6. buckets \in [Action -> Seq(Row)]  BY DEF TypeOK
  <1> HIDE DEF Row, entry, a
  <1>7. /\ new \in Seq(Row) /\ Sorted(new) /\ OneEach(new)
        /\ Rows(new) = Rows(buckets[a]) \cup {entry}
    <2> DEFINE bucket == buckets[a]
    <2>1. bucket \in Seq(Row) /\ Sorted(bucket) /\ OneEach(bucket)
          /\ \A r \in Rows(bucket) : r.by # entry.by
      BY <1>3, <1>4
    <2>2. \A r \in Row : r.at \in Int  BY RowTimes
    <2> HIDE DEF bucket
    <2>3. /\ InsertSorted(bucket, entry) \in Seq(Row)
          /\ Rows(InsertSorted(bucket, entry)) = Rows(bucket) \cup {entry}
          /\ Sorted(InsertSorted(bucket, entry)) /\ OneEach(InsertSorted(bucket, entry))
      BY <1>2, <2>1, <2>2, InsertionSorts
    <2> QED  BY <2>3 DEF bucket
  <1> HIDE DEF new
  <1>8. buckets'[a] = new /\ \A b \in Action \ {a} : buckets'[b] = buckets[b]
    BY <1>1, <1>5, <1>6
  <1>9. buckets' \in [Action -> Seq(Row)]  BY <1>1, <1>5, <1>6, <1>7
  <1>10. \A b \in Action : Sorted(buckets'[b]) /\ OneEach(buckets'[b])
    BY <1>7, <1>8 DEF BucketsOK
  <1> QED  BY <1>7, <1>8, <1>9, <1>10 DEF a, entry

(* The new content of one bucket in place of the old. *)
LEMMA Replacing ==
  ASSUME TypeOK, BucketsOK, NEW a \in Action, NEW new \in Seq(Row), Sorted(new), OneEach(new),
         buckets' = [buckets EXCEPT ![a] = new]
  PROVE  /\ buckets' \in [Action -> Seq(Row)]
         /\ \A b \in Action : Sorted(buckets'[b]) /\ OneEach(buckets'[b])
         /\ \A b \in Action \ {a} : buckets'[b] = buckets[b]
         /\ buckets'[a] = new
  <1> HIDE DEF Row
  <1>1. buckets \in [Action -> Seq(Row)]  BY DEF TypeOK
  <1>2. buckets'[a] = new /\ \A b \in Action \ {a} : buckets'[b] = buckets[b]  BY <1>1
  <1> QED  BY <1>1, <1>2 DEF BucketsOK

LEMMA Committing ==
  ASSUME TypeOK, BucketsOK, NEW e \in Eval,
         \A r \in Rows(buckets[Current(e)]) : r.by = CallOf(e) => r.at = evals[e].at,
         buckets' = [buckets EXCEPT ![Current(e)] = Committed(CallOf(e), @)]
  PROVE  LET old == Rows(buckets[Current(e)])
             new == Rows(buckets'[Current(e)])
         IN  /\ buckets' \in [Action -> Seq(Row)]
             /\ \A a \in Action : Sorted(buckets'[a]) /\ OneEach(buckets'[a])
             /\ \A a \in Action \ {Current(e)} : buckets'[a] = buckets[a]
             /\ \A r \in new : IF r.by = CallOf(e) THEN r = EntryOf(CallOf(e), TRUE) ELSE r \in old
             /\ \A r \in old : IF r.by = CallOf(e) THEN EntryOf(CallOf(e), TRUE) \in new ELSE r \in new
  <1> DEFINE a == Current(e)
             bucket == buckets[a]
             result == Committed(CallOf(e), bucket)
             own == EntryOf(CallOf(e), TRUE)
  <1>1. a \in Action  BY EvalTypes
  <1>2. /\ bucket \in Seq(Row) /\ DOMAIN bucket = 1..Len(bucket) /\ Len(bucket) \in Nat
        /\ \A i \in 1..Len(bucket) : bucket[i] \in Row
        /\ Sorted(bucket) /\ OneEach(bucket)
    BY <1>1, BucketTypes DEF BucketsOK
  <1>3. own \in Row /\ own.by = CallOf(e) /\ own.at = evals[e].at /\ evals[e].at \in Int
    BY EvalTypes DEF EntryOf, Row
  <1>4. buckets' = [buckets EXCEPT ![a] = result]  OBVIOUS
  <1> HIDE DEF Row, own, a
  <1>5. /\ result = [i \in 1..Len(bucket) |-> IF bucket[i].by = CallOf(e) THEN own ELSE bucket[i]]
    BY <1>2 DEF Committed, Own, own
  <1>6. /\ result \in Seq(Row) /\ Len(result) = Len(bucket)
        /\ \A i \in 1..Len(bucket) : result[i] = IF bucket[i].by = CallOf(e) THEN own ELSE bucket[i]
    BY <1>2, <1>3, <1>5
  <1> HIDE DEF result
  <1>7. \A i \in 1..Len(bucket) : result[i].at = bucket[i].at /\ result[i].by = bucket[i].by
    BY <1>3, <1>6 DEF Rows, a
  <1>8. Sorted(result) /\ OneEach(result)  BY <1>2, <1>6, <1>7 DEF Sorted, OneEach
  <1>9. /\ buckets' \in [Action -> Seq(Row)]
        /\ \A b \in Action : Sorted(buckets'[b]) /\ OneEach(buckets'[b])
        /\ \A b \in Action \ {a} : buckets'[b] = buckets[b]
        /\ buckets'[a] = result
    BY <1>1, <1>4, <1>6, <1>8, Replacing
  <1>10. \A r \in Rows(result) : IF r.by = CallOf(e) THEN r = own ELSE r \in Rows(bucket)
    BY <1>3, <1>6 DEF Rows
  <1>11. \A r \in Rows(bucket) : IF r.by = CallOf(e) THEN own \in Rows(result) ELSE r \in Rows(result)
    BY <1>6 DEF Rows
  <1> QED  BY <1>9, <1>10, <1>11 DEF own, a

LEMMA RollingBack ==
  ASSUME TypeOK, BucketsOK, NEW e \in Eval,
         buckets' = [buckets EXCEPT ![Current(e)] = Without(CallOf(e), @)]
  PROVE  /\ buckets' \in [Action -> Seq(Row)]
         /\ \A a \in Action : Sorted(buckets'[a]) /\ OneEach(buckets'[a])
         /\ \A a \in Action \ {Current(e)} : buckets'[a] = buckets[a]
         /\ Rows(buckets'[Current(e)]) = { r \in Rows(buckets[Current(e)]) : r.by # CallOf(e) }
  <1> DEFINE a == Current(e)
             bucket == buckets[a]
             result == Without(CallOf(e), bucket)
             where == [i \in DOMAIN bucket |-> bucket[i].by # CallOf(e)]
             chosen == { i \in 1..Len(bucket) : where[i] }
  <1>1. a \in Action  BY EvalTypes
  <1>2. /\ bucket \in Seq(Row) /\ DOMAIN bucket = 1..Len(bucket)
        /\ Sorted(bucket) /\ OneEach(bucket)
    BY <1>1, BucketTypes DEF BucketsOK
  <1>3. buckets' = [buckets EXCEPT ![a] = result]  OBVIOUS
  <1> HIDE DEF Row, a
  <1>4. { bucket[i] : i \in chosen } = { r \in Rows(bucket) : r.by # CallOf(e) }
    BY <1>2 DEF Rows
  <1>5. chosen \in SUBSET (1..Len(bucket))  OBVIOUS
  <1>6. result \in Seq(Row) /\ Picks(result, bucket, chosen)
    <2>1. result = Select(bucket, where)  BY DEF Without
    <2> HIDE DEF where, result, bucket
    <2> QED  BY <1>2, <2>1, SelectPicks
  <1> HIDE DEF result, chosen
  <1>7. /\ Sorted(result) /\ OneEach(result)
        /\ Rows(result) = { r \in Rows(bucket) : r.by # CallOf(e) }
    BY <1>2, <1>4, <1>5, <1>6, PickedRows
  <1>8. /\ buckets' \in [Action -> Seq(Row)]
        /\ \A b \in Action : Sorted(buckets'[b]) /\ OneEach(buckets'[b])
        /\ \A b \in Action \ {a} : buckets'[b] = buckets[b]
        /\ buckets'[a] = result
    BY <1>1, <1>3, <1>6, <1>7, Replacing
  <1> QED  BY <1>7, <1>8 DEF a

(* prune takes only what is older than the window, and no open transaction. *)
LEMMA Pruning ==
  ASSUME TypeOK, BucketsOK, Prune
  PROVE  /\ buckets' \in [Action -> Seq(Row)]
         /\ \A a \in Action :
              /\ Sorted(buckets'[a]) /\ OneEach(buckets'[a])
              /\ Rows(buckets'[a]) \subseteq Rows(buckets[a])
              /\ \A r \in Rows(buckets[a]) : r.at >= now - Window => r \in Rows(buckets'[a])
  <1> DEFINE pruned(a) == IF backend = "postgres" THEN SqlPruned(buckets[a], now - Window)
                                                  ELSE MemoryPruned(buckets[a], now - Window)
  <1> HIDE DEF Row
  <1>1. ASSUME NEW a \in Action
        PROVE  /\ pruned(a) \in Seq(Row) /\ Sorted(pruned(a)) /\ OneEach(pruned(a))
               /\ Rows(pruned(a)) \subseteq Rows(buckets[a])
               /\ \A r \in Rows(buckets[a]) : r.at >= now - Window => r \in Rows(pruned(a))
    <2> DEFINE bucket == buckets[a]
               result == pruned(a)
               young == { i \in 1..Len(bucket) : bucket[i].at >= now - Window }
               kept == { i \in 1..Len(bucket) : bucket[i].at >= now - Window \/ ~bucket[i].committed }
    <2>1. /\ bucket \in Seq(Row) /\ DOMAIN bucket = 1..Len(bucket)
          /\ Sorted(bucket) /\ OneEach(bucket)
      BY BucketTypes DEF BucketsOK
    <2>2. now - Window \in Int  BY Clock
    <2>3. /\ SqlPruned(bucket, now - Window) \in Seq(Row)
          /\ Picks(SqlPruned(bucket, now - Window), bucket, kept)
          /\ MemoryPruned(bucket, now - Window) \in Seq(Row)
          /\ Picks(MemoryPruned(bucket, now - Window), bucket, young)
      <3> HIDE DEF bucket
      <3>1. \A r \in Row : r.at \in Int /\ r.committed \in BOOLEAN  BY RowTimes
      <3> QED  BY <2>1, <2>2, <3>1, PrunesAgree
    <2>4. PICK chosen \in {young, kept} : result \in Seq(Row) /\ Picks(result, bucket, chosen)
      BY <2>3
    <2> HIDE DEF result
    <2>5. chosen \in SUBSET (1..Len(bucket)) /\ young \subseteq chosen  OBVIOUS
    <2> HIDE DEF kept
    <2>6. Sorted(result) /\ OneEach(result) /\ Rows(result) = { bucket[i] : i \in chosen }
      BY <2>1, <2>4, <2>5, PickedRows
    <2>7. \A r \in Rows(bucket) : r.at >= now - Window => r \in Rows(result)
      BY <2>5, <2>6 DEF Rows
    <2>8. Rows(result) \subseteq Rows(bucket)  BY <2>5, <2>6 DEF Rows
    <2> QED  BY <2>4, <2>6, <2>7, <2>8 DEF result
  <1>2. buckets' = [a \in Action |-> pruned(a)]  BY DEF Prune
  <1> HIDE DEF pruned
  <1> QED  BY <1>1, <1>2

-----------------------------------------------------------------------------
(* What the steps of an evaluation do to it. *)

OthersStay(e) ==
  evals' \in [Eval -> EvalState] /\ \A f \in Eval \ {e} : evals'[f] = evals[f]

LEMMA Updating ==
  ASSUME TypeOK, NEW e \in Eval, NEW ev \in EvalState, evals' = [evals EXCEPT ![e] = ev]
  PROVE  OthersStay(e) /\ evals'[e] = ev
  <1> HIDE DEF EvalState
  <1>1. evals \in [Eval -> EvalState]  BY DEF TypeOK
  <1> QED  BY <1>1 DEF OthersStay

LEMMA Proceeding ==
  ASSUME TypeOK, NEW e \in Eval, NEW pc \in Phase, Proceed(e, pc)
  PROVE  /\ OthersStay(e)
         /\ evals'[e] = [evals[e] EXCEPT !.pc = pc]
         /\ evals'[e].pc = pc /\ evals'[e].at = evals[e].at /\ evals'[e].next = evals[e].next
         /\ evals'[e].count = evals[e].count /\ evals'[e].counted = evals[e].counted
         /\ evals'[e].counts = evals[e].counts /\ evals'[e].fires = evals[e].fires
         /\ evals'[e].shown = evals[e].shown
  <1> DEFINE ev == [evals[e] EXCEPT !.pc = pc]
  <1>1. evals[e] \in EvalState  BY EvalTypes
  <1>2. ev \in EvalState  BY <1>1 DEF EvalState
  <1>3. evals' = [evals EXCEPT ![e] = ev]  BY DEF Proceed
  <1>4. /\ ev.pc = pc /\ ev.at = evals[e].at /\ ev.next = evals[e].next
        /\ ev.count = evals[e].count /\ ev.counted = evals[e].counted
        /\ ev.counts = evals[e].counts /\ ev.fires = evals[e].fires
        /\ ev.shown = evals[e].shown
    BY <1>1 DEF EvalState
  <1> HIDE DEF ev
  <1>5. OthersStay(e) /\ evals'[e] = ev  BY <1>2, <1>3, Updating
  <1> QED  BY <1>4, <1>5 DEF ev

LEMMA Beginning ==
  ASSUME TypeOK, NEW e \in Eval, NEW off \in AtOffsets, Begin(e, off)
  PROVE  /\ OthersStay(e)
         /\ evals'[e].pc = "appending" /\ evals'[e].at = now + off
         /\ evals'[e].next = evals[e].next
         /\ evals'[e].count = evals[e].count /\ evals'[e].counted = evals[e].counted
         /\ evals'[e].counts = evals[e].counts /\ evals'[e].fires = evals[e].fires
         /\ evals'[e].shown = evals[e].shown
  <1> DEFINE ev == [evals[e] EXCEPT !.pc = "appending", !.at = now + off]
  <1>1. evals[e] \in EvalState  BY EvalTypes
  <1>2. now + off \in Int  BY AggregationAssumption, Clock
  <1>3. ev \in EvalState  BY <1>1, <1>2 DEF EvalState, Phase
  <1>4. evals' = [evals EXCEPT ![e] = ev]  BY DEF Begin
  <1>5. /\ ev.pc = "appending" /\ ev.at = now + off /\ ev.next = evals[e].next
        /\ ev.count = evals[e].count /\ ev.counted = evals[e].counted
        /\ ev.counts = evals[e].counts /\ ev.fires = evals[e].fires
        /\ ev.shown = evals[e].shown
    BY <1>1 DEF EvalState
  <1> HIDE DEF ev
  <1>6. OthersStay(e) /\ evals'[e] = ev  BY <1>3, <1>4, Updating
  <1> QED  BY <1>5, <1>6

LEMMA Counting ==
  ASSUME TypeOK, NEW e \in Eval, NEW count \in Nat, NEW when \in Int, Counted(e, count, when)
  PROVE  /\ OthersStay(e)
         /\ evals'[e].at = evals[e].at /\ evals'[e].count = evals[e].count
         /\ evals'[e].shown = evals[e].shown
         /\ \A i \in Place :
              /\ evals'[e].counts[i] = IF i = evals[e].next THEN count ELSE evals[e].counts[i]
              /\ evals'[e].counted[i] = IF i = evals[e].next THEN when ELSE evals[e].counted[i]
         /\ evals'[e].fires = IF Reached(count) THEN evals[e].fires \cup {evals[e].next}
                              ELSE evals[e].fires
         /\ \/ /\ evals'[e].pc = "appending" /\ evals'[e].next = evals[e].next + 1
               /\ evals[e].next < Len(Attached)
            \/ /\ evals'[e].pc \in {"acting", "done"} /\ evals'[e].next = evals[e].next
               /\ evals[e].next = Len(Attached)
  <1> DEFINE n == evals[e].next
             fires == IF Reached(count) THEN evals[e].fires \cup {n} ELSE evals[e].fires
             ev == [evals[e] EXCEPT !.fires = fires, !.counts[n] = count, !.counted[n] = when]
             on == [ev EXCEPT !.pc = "appending", !.next = n + 1]
             last == [ev EXCEPT !.pc = IF fires = {} THEN "done" ELSE "acting"]
  <1>1. /\ evals[e] \in EvalState /\ n \in Place
        /\ evals[e].fires \in SUBSET Place
        /\ evals[e].counts \in [Place -> Nat] /\ evals[e].counted \in [Place -> Int]
    BY EvalTypes
  <1>2. fires \in SUBSET Place  BY <1>1
  <1>3. /\ evals' = [evals EXCEPT ![e] = IF Another(e) THEN on ELSE last]
    BY DEF Counted
  <1> HIDE DEF fires
  <1>4. /\ [evals[e].counts EXCEPT ![n] = count] \in [Place -> Nat]
        /\ [evals[e].counted EXCEPT ![n] = when] \in [Place -> Int]
        /\ \A i \in Place :
             /\ [evals[e].counts EXCEPT ![n] = count][i] =
                  IF i = n THEN count ELSE evals[e].counts[i]
             /\ [evals[e].counted EXCEPT ![n] = when][i] =
                  IF i = n THEN when ELSE evals[e].counted[i]
    BY <1>1
  <1>5. /\ ev \in EvalState
        /\ ev.pc = evals[e].pc /\ ev.at = evals[e].at /\ ev.next = n
        /\ ev.count = evals[e].count /\ ev.shown = evals[e].shown /\ ev.fires = fires
        /\ ev.counts = [evals[e].counts EXCEPT ![n] = count]
        /\ ev.counted = [evals[e].counted EXCEPT ![n] = when]
    BY <1>1, <1>2, <1>4 DEF EvalState
  <1> HIDE DEF ev
  <1>6. Len(Attached) \in Nat /\ Place = 1..Len(Attached)  BY Attaching
  <1>7. CASE Another(e)
    <2>1. n < Len(Attached)  BY <1>7 DEF Another
    <2>2. n + 1 \in Place  BY <1>1, <1>6, <2>1
    <2>3. /\ on \in EvalState /\ on.pc = "appending" /\ on.next = n + 1
          /\ on.at = ev.at /\ on.count = ev.count /\ on.shown = ev.shown /\ on.fires = ev.fires
          /\ on.counts = ev.counts /\ on.counted = ev.counted
      BY <1>5, <2>2 DEF EvalState, Phase
    <2> HIDE DEF on
    <2>4. OthersStay(e) /\ evals'[e] = on  BY <1>3, <1>7, <2>3, Updating
    <2> QED  BY <1>4, <1>5, <2>1, <2>3, <2>4 DEF fires
  <1>8. CASE ~Another(e)
    <2>1. n = Len(Attached)  BY <1>1, <1>6, <1>8 DEF Another
    <2>2. /\ last \in EvalState /\ last.pc \in {"acting", "done"} /\ last.next = n
          /\ last.at = ev.at /\ last.count = ev.count /\ last.shown = ev.shown
          /\ last.fires = ev.fires /\ last.counts = ev.counts /\ last.counted = ev.counted
      BY <1>5 DEF EvalState, Phase
    <2> HIDE DEF last
    <2>3. OthersStay(e) /\ evals'[e] = last  BY <1>3, <1>8, <2>2, Updating
    <2> QED  BY <1>4, <1>5, <2>1, <2>2, <2>3 DEF fires
  <1> QED  BY <1>7, <1>8

(* The INSERT of the transaction, and the time its count will be for. *)
LEMMA PgInserting ==
  ASSUME TypeOK, NEW e \in Eval, PgInsert(e)
  PROVE  /\ OthersStay(e)
         /\ evals'[e].pc = "counting" /\ evals'[e].at = evals[e].at
         /\ evals'[e].next = evals[e].next
         /\ \A i \in Place : evals'[e].counted[i] =
              IF i = evals[e].next THEN now ELSE evals[e].counted[i]
         /\ evals'[e].counts = evals[e].counts /\ evals'[e].fires = evals[e].fires
         /\ evals'[e].shown = evals[e].shown
  <1> DEFINE n == evals[e].next
             ev == [evals[e] EXCEPT !.pc = "counting", !.counted[n] = now]
  <1>1. evals[e] \in EvalState /\ n \in Place /\ evals[e].counted \in [Place -> Int]
    BY EvalTypes
  <1>2. evals' = [evals EXCEPT ![e] = ev]
    <2>1. evals \in [Eval -> EvalState]  BY DEF TypeOK
    <2> QED  BY <1>1, <2>1 DEF PgInsert
  <1>3. /\ [evals[e].counted EXCEPT ![n] = now] \in [Place -> Int]
        /\ \A i \in Place : [evals[e].counted EXCEPT ![n] = now][i] =
             IF i = n THEN now ELSE evals[e].counted[i]
    BY <1>1, Clock
  <1> HIDE DEF n
  <1>4. /\ ev \in EvalState
        /\ ev.pc = "counting" /\ ev.at = evals[e].at /\ ev.next = evals[e].next
        /\ ev.counted = [evals[e].counted EXCEPT ![n] = now]
        /\ ev.counts = evals[e].counts /\ ev.fires = evals[e].fires
        /\ ev.shown = evals[e].shown
    BY <1>1, <1>3 DEF EvalState, Phase
  <1> HIDE DEF ev
  <1>5. OthersStay(e) /\ evals'[e] = ev  BY <1>2, <1>4, Updating
  <1> QED  BY <1>3, <1>4, <1>5 DEF n

LEMMA PgCounting ==
  ASSUME TypeOK, BucketsOK, NEW e \in Eval, PgCount(e)
  PROVE  LET until == evals[e].counted[evals[e].next]
             count == Len(Entries(CallOf(e), buckets[Current(e)], until))
         IN  /\ OthersStay(e)
             /\ evals'[e].pc = "committing" /\ evals'[e].at = evals[e].at
             /\ evals'[e].next = evals[e].next
             /\ evals'[e].count = count /\ count \in Nat
             /\ count = Cardinality(Seen(CallOf(e), buckets[Current(e)], until))
             /\ evals'[e].counted = evals[e].counted
             /\ evals'[e].counts = evals[e].counts /\ evals'[e].fires = evals[e].fires
             /\ evals'[e].shown = evals[e].shown
  <1> DEFINE until == evals[e].counted[evals[e].next]
             bucket == buckets[Current(e)]
             count == Len(Entries(CallOf(e), bucket, until))
             ev == [evals[e] EXCEPT !.pc = "committing", !.count = count]
  <1>1. evals[e] \in EvalState /\ Current(e) \in Action /\ CallOf(e) \in Call /\ until \in Int
    BY EvalTypes
  <1>2. bucket \in Seq(Row) /\ Sorted(bucket) /\ OneEach(bucket)
    BY <1>1, BucketTypes DEF BucketsOK
  <1>3. evals' = [evals EXCEPT ![e] = ev]  BY DEF PgCount
  <1> HIDE DEF bucket, until
  <1>4. count \in Nat /\ count = Cardinality(Seen(CallOf(e), bucket, until))
    BY <1>1, <1>2, EntriesSeen
  <1> HIDE DEF count
  <1>5. /\ ev \in EvalState
        /\ ev.pc = "committing" /\ ev.at = evals[e].at /\ ev.next = evals[e].next
        /\ ev.count = count /\ ev.counted = evals[e].counted
        /\ ev.counts = evals[e].counts /\ ev.fires = evals[e].fires
        /\ ev.shown = evals[e].shown
    BY <1>1, <1>4 DEF EvalState, Phase
  <1> HIDE DEF ev
  <1>6. OthersStay(e) /\ evals'[e] = ev  BY <1>3, <1>5, Updating
  <1> QED  BY <1>4, <1>5, <1>6 DEF bucket, count, until

LEMMA Listing ==
  ASSUME TypeOK, BucketsOK, NEW e \in Eval, NEW chosen \in Chosen(e), List(e, chosen)
  PROVE  /\ OthersStay(e)
         /\ evals[e].pc = "acting" /\ evals'[e].pc \in {"acting", "done"}
         /\ evals'[e].at = evals[e].at /\ evals'[e].next = evals[e].next
         /\ evals'[e].count = evals[e].count /\ evals'[e].counted = evals[e].counted
         /\ evals'[e].counts = evals[e].counts /\ evals'[e].fires = evals[e].fires
         /\ chosen \subseteq evals[e].fires
         /\ \A i \in Place :
              IF i \in chosen
              THEN /\ evals'[e].shown[i].n = Cardinality(Seen(<<e, i>>, Bucket(i), now))
                   /\ evals'[e].shown[i].own <=> <<e, i>> \in Seen(<<e, i>>, Bucket(i), now)
                   /\ evals'[e].shown[i].at = now
              ELSE evals'[e].shown[i] = evals[e].shown[i]
  <1> DEFINE es(i) == Entries(<<e, i>>, buckets[Attached[i]], now)
             shown(i) == [n |-> Len(es(i)), own |-> Own(<<e, i>>, es(i)) # {}, at |-> now]
             list == [i \in Place |-> IF i \in chosen THEN shown(i) ELSE evals[e].shown[i]]
             ev == [evals[e] EXCEPT !.shown = list]
             last == [ev EXCEPT !.pc = "done"]
             Shown == [n : Nat, own : BOOLEAN, at : Int]
  <1>1. evals[e] \in EvalState /\ evals[e].shown \in [Place -> Shown]  BY EvalTypes
  <1>2. evals[e].pc = "acting"  BY DEF List, At
  <1>3. chosen \subseteq evals[e].fires  BY DEF Chosen
  <1>4. \A i \in Place :
          /\ shown(i) \in Shown
          /\ shown(i).n = Cardinality(Seen(<<e, i>>, Bucket(i), now))
          /\ shown(i).own <=> <<e, i>> \in Seen(<<e, i>>, Bucket(i), now)
          /\ shown(i).at = now
    <2> SUFFICES ASSUME NEW i \in Place
                 PROVE  /\ shown(i) \in Shown
                        /\ shown(i).n = Cardinality(Seen(<<e, i>>, Bucket(i), now))
                        /\ shown(i).own <=> <<e, i>> \in Seen(<<e, i>>, Bucket(i), now)
                        /\ shown(i).at = now
      OBVIOUS
    <2>1. /\ <<e, i>> \in Call /\ now \in Int
          /\ Bucket(i) \in Seq(Row) /\ Sorted(Bucket(i)) /\ OneEach(Bucket(i))
      BY Attaching, BucketTypes, Clock DEF BucketsOK, Bucket, Call
    <2>2. /\ Len(es(i)) \in Nat
          /\ Len(es(i)) = Cardinality(Seen(<<e, i>>, Bucket(i), now))
          /\ Own(<<e, i>>, es(i)) # {} <=> <<e, i>> \in Seen(<<e, i>>, Bucket(i), now)
      <3> HIDE DEF Row
      <3> QED  BY <2>1, EntriesSeen DEF Bucket
    <2> HIDE DEF es
    <2> QED  BY <2>1, <2>2
  <1>5. /\ evals' = [evals EXCEPT ![e] =
              IF \A i \in ev.fires : ev.shown[i] # NotShown THEN last ELSE ev]
    BY DEF List
  <1> HIDE DEF shown, Shown
  <1>6. list \in [Place -> Shown]  BY <1>1, <1>4
  <1> HIDE DEF list
  <1>7. /\ ev \in EvalState /\ last \in EvalState
        /\ ev.pc = "acting" /\ last.pc = "done"
        /\ ev.at = evals[e].at /\ ev.next = evals[e].next /\ ev.count = evals[e].count
        /\ ev.counted = evals[e].counted /\ ev.counts = evals[e].counts
        /\ ev.fires = evals[e].fires /\ ev.shown = list
        /\ last.at = evals[e].at /\ last.next = evals[e].next /\ last.count = evals[e].count
        /\ last.counted = evals[e].counted /\ last.counts = evals[e].counts
        /\ last.fires = evals[e].fires /\ last.shown = list
    BY <1>1, <1>2, <1>6 DEF EvalState, Phase, Shown
  <1> HIDE DEF ev, last
  <1>8. PICK new \in {ev, last} : evals' = [evals EXCEPT ![e] = new]  BY <1>5
  <1>9. OthersStay(e) /\ evals'[e] = new  BY <1>7, <1>8, Updating
  <1>10. new.shown = list /\ new.pc \in {"acting", "done"}  BY <1>7, <1>8
  <1>11. \A i \in Place :
           list[i] = IF i \in chosen THEN shown(i) ELSE evals[e].shown[i]
    BY DEF list
  <1> QED  BY <1>2, <1>3, <1>4, <1>7, <1>8, <1>9, <1>10, <1>11

-----------------------------------------------------------------------------
(* What every step of an evaluation e has in common: it touches no row of   *)
(* another call and no bucket but that of its current action.               *)

Moves(e) ==
  /\ backend' = backend /\ now' = now /\ prunes' = prunes
  /\ OthersStay(e)
  /\ buckets' \in [Action -> Seq(Row)]
  /\ \A a \in Action : Sorted(buckets'[a]) /\ OneEach(buckets'[a])
  /\ \A a \in Action \ {Current(e)} : buckets'[a] = buckets[a]
  /\ \A r : r.by # CallOf(e) =>
       (r \in Rows(buckets'[Current(e)]) <=> r \in Rows(buckets[Current(e)]))
  /\ \A i \in Place : i # evals[e].next =>
       (Passed(e, i)' <=> Passed(e, i)) /\ ~Held(e, i)'
  /\ evals[e].pc # "idle" => evals'[e].at = evals[e].at
  /\ \A i \in Place : i = evals[e].next =>
       /\ \A r \in Rows(buckets'[Current(e)]) : r.by = CallOf(e) =>
            /\ r.at = evals'[e].at
            /\ Passed(e, i)' \/ Held(e, i)' \/ (i = evals'[e].next /\ evals'[e].pc = "failed")
            /\ r.committed = ~(backend = "postgres" /\ Held(e, i)')
       /\ (Passed(e, i)' \/ Held(e, i)') /\ evals'[e].at >= now - Window
            => \E r \in Rows(buckets'[Current(e)]) : r.by = CallOf(e)
  /\ \A r \in Rows(buckets[Current(e)]) :
       r.by = CallOf(e) /\ (evals'[e].pc # "failed" \/ backend # "postgres" \/ r.committed) =>
         \E s \in Rows(buckets'[Current(e)]) :
           s.by = CallOf(e) /\ s.at = r.at /\ (r.committed => s.committed)

LEMMA MovesKeepRows ==
  ASSUME TypeOK, RowsOK, NEW e \in Eval, Moves(e)
  PROVE  RowsOK'
  <1> SUFFICES ASSUME NEW a \in Action, NEW r \in Rows(buckets'[a])
               PROVE  RowOK(a, r)'
    BY DEF RowsOK
  <1>1. /\ evals[e].next \in Place /\ Current(e) \in Action
        /\ Current(e) = Attached[evals[e].next] /\ CallOf(e) = <<e, evals[e].next>>
    BY EvalTypes
  <1>2. backend' = backend  BY DEF Moves
  <1>3. a # Current(e) => r \in Rows(buckets[a])  BY DEF Moves
  <1>4. CASE r.by # CallOf(e)
    <2>1. r \in Rows(buckets[a])  BY <1>3, <1>4 DEF Moves
    <2>2. RowOK(a, r)  BY <2>1 DEF RowsOK
    <2>3. r.by \in Call  BY <2>1, BucketTypes, RowTimes
    <2>4. r.by[1] \in Eval /\ r.by[2] \in Place /\ r.by = <<r.by[1], r.by[2]>>
      BY <2>3, CallParts
    <2>5. CASE r.by[1] # e
      <3>1. evals'[r.by[1]] = evals[r.by[1]]  BY <2>4, <2>5 DEF Moves, OthersStay
      <3> QED  BY <1>2, <2>2, <3>1 DEF RowOK, Passed, Held
    <2>6. CASE r.by[1] = e
      <3>1. r.by[2] # evals[e].next  BY <1>1, <1>4, <2>4, <2>6
      <3>2. /\ Attached[r.by[2]] = a /\ r.at = evals[e].at /\ Passed(e, r.by[2])
            /\ r.committed = ~(backend = "postgres" /\ Held(e, r.by[2]))
        BY <2>2, <2>6, <3>1 DEF RowOK, Held
      <3>3. ~Held(e, r.by[2])  BY <3>1 DEF Held
      <3>4. evals[e].pc # "idle"  BY <3>2 DEF Passed
      <3>5. PICK i \in Place : i = r.by[2]  BY <2>4
      <3>6. evals'[e].at = evals[e].at /\ Passed(e, i)' /\ ~Held(e, i)'
        BY <3>1, <3>2, <3>4, <3>5 DEF Moves
      <3>7. r.committed = TRUE  BY <3>2, <3>3
      <3>8. (~(backend' = "postgres" /\ Held(e, i)')) = TRUE  BY <3>6
      <3>9. /\ Attached[i] = a /\ r.at = evals'[e].at /\ Passed(e, i)'
            /\ r.committed = ~(backend' = "postgres" /\ Held(e, i)')
        BY <3>2, <3>5, <3>6, <3>7, <3>8
      <3> QED  BY <2>6, <3>5, <3>9 DEF RowOK
    <2> QED  BY <2>5, <2>6
  <1>5. CASE r.by = CallOf(e)
    <2>1. r.by[1] = e /\ r.by[2] = evals[e].next  BY <1>1, <1>5
    <2>2. a = Current(e)
      <3> SUFFICES ASSUME a # Current(e) PROVE FALSE  OBVIOUS
      <3>1. RowOK(a, r)  BY <1>3 DEF RowsOK
      <3> QED  BY <1>1, <2>1, <3>1 DEF RowOK
    <2>3. PICK i \in Place : i = evals[e].next  BY <1>1
    <2>4. /\ r.at = evals'[e].at
          /\ Passed(e, i)' \/ Held(e, i)' \/ (i = evals'[e].next /\ evals'[e].pc = "failed")
          /\ r.committed = ~(backend = "postgres" /\ Held(e, i)')
      BY <1>5, <2>2, <2>3 DEF Moves
    <2> QED  BY <1>1, <1>2, <2>1, <2>2, <2>3, <2>4 DEF RowOK
  <1> QED  BY <1>4, <1>5

LEMMA MovesKeepKept ==
  ASSUME TypeOK, KeptOK, NEW e \in Eval, Moves(e)
  PROVE  KeptOK'
  <1> SUFFICES ASSUME NEW f \in Eval, NEW i \in Place,
                      Passed(f, i)' \/ Held(f, i)', evals'[f].at >= now - Window
               PROVE  \E r \in Rows(buckets'[Attached[i]]) : r.by = <<f, i>>
    BY DEF KeptOK, Bucket, Moves
  <1>1. /\ Attached[i] \in Action /\ evals[e].next \in Place
        /\ Current(e) = Attached[evals[e].next] /\ CallOf(e) = <<e, evals[e].next>>
    BY EvalTypes, Attaching
  <1>2. CASE f = e /\ i = evals[e].next
    BY <1>1, <1>2 DEF Moves
  <1>3. CASE ~(f = e /\ i = evals[e].next)
    <2>1. Passed(f, i) \/ Held(f, i)
      <3>1. CASE f = e  BY <1>3, <3>1 DEF Moves
      <3>2. CASE f # e
        <4>1. evals'[f] = evals[f]  BY <3>2 DEF Moves, OthersStay
        <4> QED  BY <4>1 DEF Passed, Held
      <3> QED  BY <3>1, <3>2
    <2>2. evals[f].pc # "idle"  BY <2>1 DEF Passed, Held
    <2>3. evals'[f].at = evals[f].at  BY <2>2 DEF Moves, OthersStay
    <2>4. PICK r \in Rows(buckets[Attached[i]]) : r.by = <<f, i>>
      BY <2>1, <2>3 DEF KeptOK, Bucket
    <2>5. r.by # CallOf(e)  BY <1>1, <1>3, <2>4
    <2>6. r \in Rows(buckets'[Attached[i]])  BY <1>1, <2>4, <2>5 DEF Moves
    <2> QED  BY <2>4, <2>6
  <1> QED  BY <1>2, <1>3

(* No call that was seen is gone, unless the transaction is rolled back.    *)
LEMMA MovesKeepSeen ==
  ASSUME TypeOK, RowsOK, NEW e \in Eval, Moves(e), NEW c \in Call, NEW a \in Action,
         c = CallOf(e) => evals'[e].pc # "failed"
  PROVE  Seen(c, buckets[a], now) \subseteq Seen(c, buckets[a], now)'
  <1> DEFINE old == Rows(buckets[a])
             new == Rows(buckets'[a])
             sees(r) == backend # "postgres" \/ r.committed \/ r.by = c
  <1>1. Current(e) \in Action  BY EvalTypes
  <1>2. backend' = backend /\ now' = now  BY DEF Moves
  <1>3. ASSUME NEW r \in old, sees(r)
        PROVE  \E s \in new : s.by = r.by /\ s.at = r.at /\ sees(s)
    <2>1. CASE a # Current(e)
      <3>1. old = new  BY <2>1 DEF Moves
      <3> QED  BY <1>3, <3>1
    <2>2. CASE a = Current(e) /\ r.by # CallOf(e)
      <3>1. r \in new  BY <2>2 DEF Moves
      <3> QED  BY <1>3, <3>1
    <2>3. CASE a = Current(e) /\ r.by = CallOf(e)
      <3>1. evals'[e].pc # "failed" \/ backend # "postgres" \/ r.committed
        BY <1>3, <2>3
      <3>2. PICK s \in new : s.by = CallOf(e) /\ s.at = r.at /\ (r.committed => s.committed)
        BY <2>3, <3>1 DEF Moves
      <3>3. sees(s)  BY <1>3, <2>3, <3>2
      <3> QED  BY <2>3, <3>2, <3>3
    <2> QED  BY <2>1, <2>2, <2>3
  <1> SUFFICES ASSUME NEW d \in Call, NEW r \in old, r.by = d,
                      r.at >= now - Window, r.at <= now, sees(r)
               PROVE  \E s \in new : s.by = d /\ s.at >= now - Window /\ s.at <= now /\ sees(s)
    BY <1>2 DEF Seen
  <1> QED  BY <1>3

LEMMA SeenFinite ==
  ASSUME NEW bucket \in Seq(Row)
  PROVE  IsFiniteSet({ r.by : r \in Rows(bucket) })
  <1> DEFINE f == [i \in 1..Len(bucket) |-> bucket[i].by]
  <1>1. IsFiniteSet(1..Len(bucket))
    <2>1. Len(bucket) \in Nat  OBVIOUS
    <2> QED  BY <2>1, FS_Interval
  <1>2. { f[i] : i \in 1..Len(bucket) } = { r.by : r \in Rows(bucket) }  BY DEF Rows
  <1>3. f \in Surjection(1..Len(bucket), { f[i] : i \in 1..Len(bucket) })
    BY DEF Surjection
  <1> HIDE DEF f
  <1> QED  BY <1>1, <1>2, <1>3, FS_Surjection

(* ... so that what was counted stays true: for the other calls.            *)
LEMMA MovesKeepCounts ==
  ASSUME AggregationInv, NEW e \in Eval, Moves(e), NEW c \in Call, NEW a \in Action,
         c = CallOf(e) => evals'[e].pc # "failed"
  PROVE  /\ Cardinality(Seen(c, buckets[a], now)) \in Nat
         /\ Cardinality(Seen(c, buckets[a], now)') \in Nat
         /\ Cardinality(Seen(c, buckets[a], now)) <= Cardinality(Seen(c, buckets[a], now)')
  <1>1. Seen(c, buckets[a], now) \subseteq Seen(c, buckets[a], now)'
    BY MovesKeepSeen DEF AggregationInv
  <1>2. IsFiniteSet(Seen(c, buckets[a], now)')
    <2>1. buckets'[a] \in Seq(Row)  BY DEF Moves
    <2>2. IsFiniteSet({ r.by : r \in Rows(buckets'[a]) })
      <3> HIDE DEF Row
      <3> QED  BY <2>1, SeenFinite
    <2>3. Seen(c, buckets[a], now)' \subseteq { r.by : r \in Rows(buckets'[a]) }
      BY DEF Seen
    <2> QED  BY <2>2, <2>3, FS_Subset
  <1>3. IsFiniteSet(Seen(c, buckets[a], now))  BY <1>1, <1>2, FS_Subset
  <1> QED  BY <1>1, <1>2, <1>3, FS_CardinalityType, FS_Subset

-----------------------------------------------------------------------------
(* The rest of the invariant, as the step of one evaluation changes it.     *)

(* What e was shown is what ShownTheThreshold asks for. *)
ShownOK(e) ==
  \A i \in Place :
    LET s == evals[e].shown[i]
    IN  s # NotShown =>
          /\ s.at = evals[e].counted[i] => s.n >= Threshold
          /\ evals[e].at \in (s.at - Window)..s.at => s.own

(* Two calls that counted in the same instant counted differently. *)
Apart(c, d) ==
  /\ Attached[c[2]] = Attached[d[2]]
  /\ evals[c[1]].counted[c[2]] = evals[d[1]].counted[d[2]] /\ evals[c[1]].counted[c[2]] >= 0
  /\ evals[c[1]].at \in (evals[c[1]].counted[c[2]] - Window)..evals[c[1]].counted[c[2]]
  /\ evals[d[1]].at \in (evals[d[1]].counted[d[2]] - Window)..evals[d[1]].counted[d[2]]
  => evals[c[1]].counts[c[2]] # evals[d[1]].counts[d[2]]

Keeps(e) ==
  /\ StageOK(e)'
  /\ \A i \in Place : i # evals[e].next =>
       evals'[e].counted[i] = evals[e].counted[i] /\ evals'[e].counts[i] = evals[e].counts[i]
  /\ evals'[e].next # evals[e].next => evals'[e].pc # "committing"
  /\ \A i \in Place : i = evals[e].next /\ evals'[e].counted[i] = now =>
       /\ Passed(e, i)' => evals'[e].counts[i] <= Cardinality(Seen(<<e, i>>, Bucket(i), now)')
       /\ i = evals'[e].next /\ evals'[e].pc = "committing"
            => evals'[e].count <= Cardinality(Seen(<<e, i>>, Bucket(i), now)')
  /\ owed' \subseteq Action /\ OwedOK'
  /\ ShownOK(e)'
  /\ backend = "memory" =>
       \A i \in Place : i = evals[e].next => \A d \in Call \ {<<e, i>>} : Apart(<<e, i>>, d)'

LEMMA PairsApart ==
  OneNth <=> (backend = "memory" => \A c \in Call : \A d \in Call \ {c} : Apart(c, d))
BY DEF OneNth, Apart

LEMMA AllShown == ShownTheThreshold <=> \A e \in Eval : ShownOK(e)
BY DEF ShownTheThreshold, ShownOK

(* What is known of a call other than the current one of e stays as it is.  *)
LEMMA OtherCalls ==
  ASSUME AggregationInv, NEW e \in Eval, Moves(e), Keeps(e), NEW d \in Call, d # CallOf(e)
  PROVE  /\ evals'[d[1]].counted[d[2]] = evals[d[1]].counted[d[2]]
         /\ evals'[d[1]].counts[d[2]] = evals[d[1]].counts[d[2]]
         /\ evals'[d[1]].at = evals[d[1]].at \/ evals[d[1]].counted[d[2]] = -1
  <1>1. d[1] \in Eval /\ d[2] \in Place /\ d = <<d[1], d[2]>>  BY CallParts
  <1>2. CASE d[1] # e
    <2>1. evals'[d[1]] = evals[d[1]]  BY <1>1, <1>2 DEF Moves, OthersStay
    <2> QED  BY <2>1
  <1>3. CASE d[1] = e
    <2>1. d[2] # evals[e].next  BY <1>1, <1>3 DEF CallOf
    <2>2. /\ evals'[e].counted[d[2]] = evals[e].counted[d[2]]
          /\ evals'[e].counts[d[2]] = evals[e].counts[d[2]]
      BY <1>1, <2>1 DEF Keeps
    <2>3. evals[e].pc # "idle" => evals'[e].at = evals[e].at  BY DEF Moves
    <2>4. ASSUME evals[e].pc = "idle" PROVE evals[e].counted[d[2]] = -1
      BY <1>1, <2>4 DEF AggregationInv, StagesOK, StageOK, Passed
    <2> QED  BY <1>3, <2>2, <2>3, <2>4
  <1> QED  BY <1>2, <1>3

LEMMA StepKeeps ==
  ASSUME AggregationInv, NEW e \in Eval, Moves(e), Keeps(e)
  PROVE  AggregationInv'
  <1>1. /\ backend' = backend /\ now' = now /\ prunes' = prunes
        /\ evals' \in [Eval -> EvalState] /\ \A f \in Eval \ {e} : evals'[f] = evals[f]
    BY DEF Moves, OthersStay
  <1>2. TypeOK'
    <2> HIDE DEF EvalState, Row
    <2> QED  BY <1>1 DEF AggregationInv, TypeOK, Moves, Keeps
  <1>3. BucketsOK'  BY DEF Moves, BucketsOK
  <1>4. RowsOK'  BY MovesKeepRows DEF AggregationInv
  <1>5. KeptOK'  BY MovesKeepKept DEF AggregationInv
  <1>6. StagesOK'
    <2> SUFFICES ASSUME NEW f \in Eval PROVE StageOK(f)'  BY DEF StagesOK
    <2>1. CASE f = e  BY <2>1 DEF Keeps
    <2>2. CASE f # e
      BY <1>1, <2>2 DEF AggregationInv, StagesOK, StageOK, Passed
    <2> QED  BY <2>1, <2>2
  <1>7. CountsOK'
    <2> SUFFICES ASSUME NEW f \in Eval, NEW i \in Place, evals'[f].counted[i] = now
                 PROVE  /\ Passed(f, i)' => evals'[f].counts[i]
                                              <= Cardinality(Seen(<<f, i>>, Bucket(i), now)')
                        /\ i = evals'[f].next /\ evals'[f].pc = "committing"
                             => evals'[f].count <= Cardinality(Seen(<<f, i>>, Bucket(i), now)')
      BY <1>1 DEF CountsOK
    <2>1. /\ Attached[i] \in Action /\ <<f, i>> \in Call
          /\ evals[f].counts[i] \in Nat /\ evals[f].count \in Nat
      BY EvalTypes, Attaching DEF AggregationInv, Call
    <2>2. CASE f = e /\ i = evals[e].next
      BY <2>2 DEF Keeps
    <2>3. CASE ~(f = e /\ i = evals[e].next)
      <3>1. <<f, i>> # CallOf(e)  BY <2>3 DEF CallOf
      <3>2. /\ Cardinality(Seen(<<f, i>>, Bucket(i), now)) \in Nat
            /\ Cardinality(Seen(<<f, i>>, Bucket(i), now)') \in Nat
            /\ Cardinality(Seen(<<f, i>>, Bucket(i), now))
                 <= Cardinality(Seen(<<f, i>>, Bucket(i), now)')
        <4> DEFINE c == <<f, i>>
        <4>1. c \in Call /\ c # CallOf(e)  BY <2>1, <3>1
        <4> HIDE DEF c
        <4>2. /\ Cardinality(Seen(c, buckets[Attached[i]], now)) \in Nat
              /\ Cardinality(Seen(c, buckets[Attached[i]], now)') \in Nat
              /\ Cardinality(Seen(c, buckets[Attached[i]], now))
                   <= Cardinality(Seen(c, buckets[Attached[i]], now)')
          BY <2>1, <4>1, MovesKeepCounts
        <4> QED  BY <4>2 DEF c, Bucket
      <3>3. /\ evals[f].counted[i] = now /\ evals'[f].counts[i] = evals[f].counts[i]
            /\ Passed(f, i)' => Passed(f, i)
            /\ i = evals'[f].next /\ evals'[f].pc = "committing" =>
                 /\ i = evals[f].next /\ evals[f].pc = "committing"
                 /\ evals'[f].count = evals[f].count
        <4>1. CASE f = e  BY <2>3, <4>1 DEF Keeps, Moves
        <4>2. CASE f # e  BY <1>1, <4>2 DEF Passed
        <4> QED  BY <4>1, <4>2
      <3>4. /\ Passed(f, i) => evals[f].counts[i] <= Cardinality(Seen(<<f, i>>, Bucket(i), now))
            /\ i = evals[f].next /\ evals[f].pc = "committing"
                 => evals[f].count <= Cardinality(Seen(<<f, i>>, Bucket(i), now))
        BY <3>3 DEF AggregationInv, CountsOK
      <3> QED  BY <2>1, <3>2, <3>3, <3>4
    <2> QED  BY <2>2, <2>3
  <1>8. OwedOK'  BY DEF Keeps
  <1>9. ShownTheThreshold'
    <2>1. \A f \in Eval : ShownOK(f)  BY AllShown DEF AggregationInv
    <2>2. \A f \in Eval : ShownOK(f)'
      <3> SUFFICES ASSUME NEW f \in Eval PROVE ShownOK(f)'  OBVIOUS
      <3>1. CASE f = e  BY <3>1 DEF Keeps
      <3>2. CASE f # e  BY <1>1, <2>1, <3>2 DEF ShownOK
      <3> QED  BY <3>1, <3>2
    <2> QED  BY <2>2 DEF ShownTheThreshold, ShownOK
  <1>10. OneNth'
    <2> SUFFICES ASSUME backend = "memory", NEW c \in Call, NEW d \in Call, c # d
                 PROVE  Apart(c, d)'
      BY <1>1 DEF OneNth, Apart
    <2>1. Apart(c, d)  BY PairsApart DEF AggregationInv
    <2>2. PICK i \in Place : i = evals[e].next /\ CallOf(e) = <<e, i>>
      BY EvalTypes DEF AggregationInv
    <2>3. \A b \in Call \ {<<e, i>>} : Apart(<<e, i>>, b)'
      BY <2>2 DEF Keeps
    <2>4. CASE c # CallOf(e) /\ d # CallOf(e)
      <3>1. \A b \in {c, d} :
              /\ evals'[b[1]].counted[b[2]] = evals[b[1]].counted[b[2]]
              /\ evals'[b[1]].counts[b[2]] = evals[b[1]].counts[b[2]]
              /\ evals'[b[1]].at = evals[b[1]].at \/ evals[b[1]].counted[b[2]] = -1
        BY <2>4, OtherCalls
      <3>2. CASE \E b \in {c, d} : evals[b[1]].counted[b[2]] = -1
        <4>1. \E b \in {c, d} : evals'[b[1]].counted[b[2]] = -1  BY <3>1, <3>2
        <4> QED  BY <4>1 DEF Apart
      <3>3. CASE \A b \in {c, d} : evals'[b[1]].at = evals[b[1]].at
        BY <2>1, <3>1, <3>3 DEF Apart
      <3> QED  BY <3>1, <3>2, <3>3
    <2>5. CASE c = CallOf(e)  BY <2>2, <2>3, <2>5
    <2>6. CASE d = CallOf(e)
      <3>1. d = <<e, i>> /\ c \in Call \ {d}  BY <2>2, <2>6
      <3>2. Apart(d, c)'  BY <2>3, <3>1
      <3> QED  BY <3>2 DEF Apart
    <2> QED  BY <2>4, <2>5, <2>6
  <1> QED
    BY <1>2, <1>3, <1>4, <1>5, <1>6, <1>7, <1>8, <1>9, <1>10 DEF AggregationInv

-----------------------------------------------------------------------------
(* Steps that count nothing and show nothing. *)

(* What is owed stays so in a step that takes no row, if e was not about to *)
(* count; what an append owes is added.                                     *)
LEMMA OwedKept ==
  ASSUME AggregationInv, NEW e \in Eval, Moves(e),
         \A a \in Action : Rows(buckets[a]) \subseteq Rows(buckets'[a]),
         \A a \in owed' : a \in owed /\ (evals[e].pc # "counting" \/ a # Current(e))
  PROVE  OwedOK'
  <1> SUFFICES ASSUME backend # "postgres", NEW a \in owed'
               PROVE  /\ Full(buckets'[a], now)
                      /\ \E f \in Eval : evals'[f].pc = "counting" /\ Attached[evals'[f].next] = a
    BY DEF OwedOK, Moves, Current, Full, Within
  <1>1. a \in Action /\ a \in owed  BY DEF AggregationInv, TypeOK
  <1>2. Full(buckets[a], now)  BY <1>1 DEF AggregationInv, OwedOK
  <1>3. buckets[a] \in Seq(Row) /\ buckets'[a] \in Seq(Row)
    BY <1>1, BucketTypes DEF AggregationInv, Moves
  <1>4. Full(buckets'[a], now)
    <2> HIDE DEF Row
    <2> QED  BY <1>1, <1>2, <1>3, FullKept
  <1>5. PICK f \in Eval : evals[f].pc = "counting" /\ Current(f) = a
    BY <1>1 DEF AggregationInv, OwedOK
  <1>6. f # e  BY <1>5
  <1>7. evals'[f] = evals[f]  BY <1>6 DEF Moves, OthersStay
  <1> QED  BY <1>4, <1>5, <1>7 DEF Current

LEMMA QuietKeeps ==
  ASSUME AggregationInv, NEW e \in Eval, Moves(e), owed' \subseteq Action, OwedOK',
         evals[e].pc \notin {"acting", "done", "failed"},
         evals'[e].pc \notin {"idle", "acting", "done", "committing"},
         evals[e].pc = "committing" => evals'[e].pc = "failed",
         evals'[e].pc = "counting" => backend # "memory",
         evals'[e].pc = "failed" => backend = "postgres",
         evals'[e].next = evals[e].next,
         \A i \in Place :
           \/ evals'[e].counted[i] = evals[e].counted[i]
              /\ (evals[e].pc = "counting" => evals'[e].pc = "failed")
           \/ /\ i = evals[e].next /\ evals'[e].counted[i] = now
              /\ evals'[e].pc = "counting" /\ backend = "postgres",
         evals'[e].counts = evals[e].counts, evals'[e].fires = evals[e].fires,
         evals'[e].shown = evals[e].shown
  PROVE  Keeps(e)
  <1>1. /\ backend' = backend /\ now' = now /\ now \in Nat
        /\ evals[e].pc # "idle" => evals'[e].at = evals[e].at
    BY Clock DEF AggregationInv, Moves
  <1>2. StageOK(e)  BY DEF AggregationInv, StagesOK
  <1>3. StageOK(e)'
    <2>1. \A i \in Place : Passed(e, i) => Passed(e, i)'
      BY DEF Passed
    <2>2. ASSUME NEW i \in Place
          PROVE  /\ evals'[e].counted[i] \in -1..now
                 /\ evals'[e].counted[i] # -1 =>
                      Passed(e, i)' \/ (i = evals'[e].next
                        /\ evals'[e].pc \in {"counting", "committing", "failed"}
                        /\ backend = "postgres")
      <3>1. CASE evals'[e].counted[i] = evals[e].counted[i]
                 /\ (evals[e].pc = "counting" => evals'[e].pc = "failed")
        BY <1>2, <2>1, <3>1 DEF StageOK
      <3>2. CASE i = evals[e].next /\ evals'[e].counted[i] = now
                 /\ evals'[e].pc = "counting" /\ backend = "postgres"
        BY <1>1, <3>2
      <3> QED  BY <3>1, <3>2
    <2> QED  BY <1>1, <1>2, <2>1, <2>2 DEF StageOK, Passed
  <1>4. \A i \in Place :
          i = evals[e].next => ~Passed(e, i)' /\ ~(i = evals'[e].next /\ evals'[e].pc = "committing")
    <2>1. evals[e].next \in Nat  BY EvalTypes, Attaching DEF AggregationInv
    <2> QED  BY <2>1 DEF Passed
  <1>5. \A i \in Place : evals'[e].shown[i] = NotShown  BY <1>2 DEF StageOK
  <1>6. ShownOK(e)'  BY <1>5 DEF ShownOK
  <1>7. ASSUME backend = "memory", NEW i \in Place, i = evals[e].next
        PROVE  \A d \in Call \ {<<e, i>>} : Apart(<<e, i>>, d)'
    <2>1. evals[e].pc \in {"idle", "appending"}
      <3>1. evals[e].pc \in Phase  BY EvalTypes DEF AggregationInv
      <3> QED  BY <1>2, <1>7, <3>1 DEF StageOK, Phase
    <2>2. ~Passed(e, i)  BY <1>7, <2>1, EvalTypes, Attaching DEF AggregationInv, Passed
    <2>3. evals'[e].counted[i] = -1  BY <1>2, <1>7, <2>2 DEF StageOK
    <2> QED  BY <2>3 DEF Apart
  <1>8. \A i \in Place : i # evals[e].next =>
          evals'[e].counted[i] = evals[e].counted[i] /\ evals'[e].counts[i] = evals[e].counts[i]
    OBVIOUS
  <1> QED  BY <1>3, <1>4, <1>6, <1>7, <1>8 DEF Keeps

(* A call has no row in the bucket before its append. *)
LEMMA NoRowYet ==
  ASSUME AggregationInv, NEW e \in Eval, evals[e].pc \in {"idle", "appending"}
  PROVE  \A r \in Rows(buckets[Current(e)]) : r.by # CallOf(e)
  <1> SUFFICES ASSUME NEW r \in Rows(buckets[Current(e)]), r.by = CallOf(e) PROVE FALSE
    OBVIOUS
  <1>1. evals[e].next \in Nat /\ Current(e) \in Action /\ CallOf(e) = <<e, evals[e].next>>
    BY EvalTypes, Attaching DEF AggregationInv
  <1>2. RowOK(Current(e), r)  BY <1>1 DEF AggregationInv, RowsOK
  <1>3. Passed(e, evals[e].next) \/ Held(e, evals[e].next) \/ evals[e].pc = "failed"
    BY <1>1, <1>2 DEF RowOK
  <1> QED  BY <1>1, <1>3 DEF Passed, Held

(* The clock, the store and the buckets stay as they are. *)
LEMMA SameBuckets ==
  ASSUME AggregationInv, NEW e \in Eval, OthersStay(e),
         UNCHANGED <<backend, now, buckets, prunes>>,
         evals[e].pc # "idle" => evals'[e].at = evals[e].at,
         \A i \in Place : i # evals[e].next =>
           (Passed(e, i)' <=> Passed(e, i)) /\ ~Held(e, i)',
         \A i \in Place : i = evals[e].next =>
           /\ Passed(e, i)' \/ Held(e, i)' => Passed(e, i) \/ Held(e, i)
           /\ Passed(e, i) => Passed(e, i)'
           /\ Held(e, i) => Passed(e, i)' \/ Held(e, i)'
           /\ backend = "postgres" => (Held(e, i) <=> Held(e, i)'),
         evals[e].pc # "failed"
  PROVE  Moves(e)
  <1>1. /\ buckets' = buckets /\ buckets \in [Action -> Seq(Row)]
        /\ \A a \in Action : Sorted(buckets[a]) /\ OneEach(buckets[a])
    BY DEF AggregationInv, TypeOK, BucketsOK
  <1>2. Current(e) \in Action /\ Current(e) = Attached[evals[e].next]
        /\ CallOf(e) = <<e, evals[e].next>>
    BY EvalTypes DEF AggregationInv
  <1>3. ASSUME NEW i \in Place, i = evals[e].next,
               NEW r \in Rows(buckets[Current(e)]), r.by = CallOf(e)
        PROVE  /\ r.at = evals'[e].at /\ (Passed(e, i)' \/ Held(e, i)')
               /\ r.committed = ~(backend = "postgres" /\ Held(e, i)')
    <2>1. RowOK(Current(e), r)  BY <1>2 DEF AggregationInv, RowsOK
    <2>2. /\ r.at = evals[e].at
          /\ Passed(e, i) \/ Held(e, i)
          /\ r.committed = ~(backend = "postgres" /\ Held(e, i))
      BY <1>2, <1>3, <2>1 DEF RowOK
    <2>3. evals[e].pc # "idle"  BY <2>2 DEF Passed, Held
    <2> QED  BY <1>3, <2>2, <2>3
  <1>4. ASSUME NEW i \in Place, i = evals[e].next,
               Passed(e, i)' \/ Held(e, i)', evals'[e].at >= now - Window
        PROVE  \E r \in Rows(buckets[Current(e)]) : r.by = CallOf(e)
    <2>1. Passed(e, i) \/ Held(e, i)  BY <1>4
    <2>2. evals[e].pc # "idle"  BY <2>1 DEF Passed, Held
    <2>3. evals[e].at >= now - Window  BY <1>4, <2>2
    <2> QED  BY <1>2, <1>4, <2>1, <2>3 DEF AggregationInv, KeptOK, Bucket
  <1> HIDE DEF Row
  <1> QED  BY <1>1, <1>3, <1>4 DEF Moves

LEMMA BeginMoves ==
  ASSUME AggregationInv, NEW e \in Eval, NEW off \in AtOffsets, Begin(e, off)
  PROVE  Moves(e) /\ Keeps(e)
  <1>1. /\ OthersStay(e)
        /\ evals'[e].pc = "appending" /\ evals'[e].next = evals[e].next
        /\ evals'[e].counted = evals[e].counted
        /\ evals'[e].counts = evals[e].counts /\ evals'[e].fires = evals[e].fires
        /\ evals'[e].shown = evals[e].shown
    BY Beginning DEF AggregationInv
  <1>2. evals[e].pc = "idle" /\ UNCHANGED <<backend, now, buckets, prunes, owed>>
    BY DEF Begin, At
  <1>3. evals[e].next = 1  BY <1>2 DEF AggregationInv, StagesOK, StageOK
  <1>4. \A i \in Place : ~Passed(e, i) /\ ~Passed(e, i)' /\ ~Held(e, i) /\ ~Held(e, i)'
    BY <1>1, <1>2, <1>3, Attaching DEF Passed, Held
  <1>5. Moves(e)  BY <1>1, <1>2, <1>4, SameBuckets
  <1>6. owed' \subseteq Action /\ OwedOK'
    BY <1>2, <1>5, OwedKept DEF AggregationInv, TypeOK
  <1>7. Keeps(e)  BY <1>1, <1>2, <1>5, <1>6, QuietKeeps
  <1> QED  BY <1>5, <1>7

(* append, as a call of its own or as the first statement. *)
LEMMA AppendMoves ==
  ASSUME AggregationInv, NEW e \in Eval, PlainAppend(e) \/ PgInsert(e)
  PROVE  Moves(e) /\ Keeps(e)
  <1> DEFINE committed == backend # "postgres"
             entry == EntryOf(CallOf(e), committed)
             a == Current(e)
  <1>1. /\ evals[e].pc = "appending" /\ backend # "memory"
        /\ Put(e, committed) /\ UNCHANGED <<backend, now, prunes>>
    BY DEF PlainAppend, PgInsert, At
  <1> HIDE DEF committed
  <1>2. committed \in BOOLEAN /\ committed = (backend # "postgres")  BY DEF committed
  <1>3. /\ OthersStay(e)
        /\ evals'[e].pc = "counting" /\ evals'[e].at = evals[e].at
        /\ evals'[e].next = evals[e].next
        /\ \A i \in Place : evals'[e].counted[i] =
             IF i = evals[e].next /\ backend = "postgres" THEN now ELSE evals[e].counted[i]
        /\ evals'[e].counts = evals[e].counts /\ evals'[e].fires = evals[e].fires
        /\ evals'[e].shown = evals[e].shown
    <2>1. CASE PlainAppend(e)
      <3>1. backend # "postgres" /\ Proceed(e, "counting")  BY <2>1 DEF PlainAppend
      <3> QED  BY <3>1, Proceeding DEF AggregationInv, Phase
    <2>2. CASE PgInsert(e)
      <3>1. backend = "postgres"  BY <2>2 DEF PgInsert
      <3> QED  BY <2>2, <3>1, PgInserting DEF AggregationInv
    <2> QED  BY <2>1, <2>2
  <1>4. \A r \in Rows(buckets[a]) : r.by # CallOf(e)  BY <1>1, NoRowYet
  <1>5. /\ buckets' \in [Action -> Seq(Row)]
        /\ \A b \in Action : Sorted(buckets'[b]) /\ OneEach(buckets'[b])
        /\ \A b \in Action \ {a} : buckets'[b] = buckets[b]
        /\ Rows(buckets'[a]) = Rows(buckets[a]) \cup {entry}
    BY <1>1, <1>2, <1>4, Putting DEF AggregationInv
  <1>6. a \in Action /\ a = Attached[evals[e].next] /\ CallOf(e) = <<e, evals[e].next>>
    BY EvalTypes DEF AggregationInv
  <1>7. entry.by = CallOf(e) /\ entry.at = evals[e].at /\ entry.committed = committed
    BY <1>6 DEF EntryOf
  <1>8. \A i \in Place :
          /\ Held(e, i)' <=> i = evals[e].next
          /\ Passed(e, i)' <=> Passed(e, i)
    BY <1>1, <1>3 DEF Held, Passed
  <1> HIDE DEF Row, entry
  <1>9. Moves(e)
    BY <1>1, <1>2, <1>3, <1>4, <1>5, <1>7, <1>8 DEF Moves
  <1>10. owed' \subseteq Action /\ OwedOK'
    <2>1. CASE PgInsert(e)
      <3>1. backend' = "postgres" /\ owed' = owed  BY <2>1 DEF PgInsert
      <3> QED  BY <3>1 DEF AggregationInv, TypeOK, OwedOK
    <2>2. CASE PlainAppend(e)
      <3>1. /\ owed' = IF Full(buckets'[a], now) THEN owed \cup {a} ELSE owed
            /\ owed \subseteq Action
        BY <2>2 DEF PlainAppend, Owe, AggregationInv, TypeOK
      <3>2. now' = now /\ backend' = backend /\ backend # "postgres"
        BY <2>2 DEF PlainAppend
      <3>3. ASSUME NEW b \in owed'
            PROVE  /\ Full(buckets'[b], now)
                   /\ \E f \in Eval : evals'[f].pc = "counting" /\ Attached[evals'[f].next] = b
        <4>1. CASE b \in owed
          <5>1. b \in Action /\ Full(buckets[b], now)  BY <3>1, <3>2, <4>1 DEF AggregationInv, OwedOK
          <5>2. buckets[b] \in Seq(Row) /\ buckets'[b] \in Seq(Row)
            BY <1>5, <5>1, BucketTypes DEF AggregationInv
          <5>3. Rows(buckets[b]) \subseteq Rows(buckets'[b])  BY <1>5, <5>1
          <5>4. Full(buckets'[b], now)  BY <5>1, <5>2, <5>3, FullKept
          <5>5. PICK f \in Eval : evals[f].pc = "counting" /\ Current(f) = b
            BY <3>2, <4>1 DEF AggregationInv, OwedOK
          <5>6. evals'[f] = evals[f]  BY <1>1, <1>3, <5>5 DEF OthersStay
          <5> QED  BY <5>4, <5>5, <5>6 DEF Current
        <4>2. CASE b \notin owed
          <5>1. b = a /\ Full(buckets'[a], now)  BY <3>1, <3>3, <4>2
          <5> QED  BY <1>3, <1>6, <5>1
        <4> QED  BY <4>1, <4>2
      <3>4. owed' \subseteq Action  BY <1>6, <3>1
      <3> QED  BY <3>2, <3>3, <3>4 DEF OwedOK, Current, Full, Within
    <2> QED  BY <2>1, <2>2
  <1>11. Keeps(e)  BY <1>1, <1>3, <1>9, <1>10, QuietKeeps
  <1> QED  BY <1>9, <1>11

(* A statement rejects, or the answer to the COMMIT is lost. *)
LEMMA PgFailsMoves ==
  ASSUME AggregationInv, NEW e \in Eval, PgFails(e)
  PROVE  Moves(e) /\ Keeps(e)
  <1> DEFINE old == Rows(buckets[Current(e)])
             new == Rows(buckets'[Current(e)])
             c == CallOf(e)
  <1>1. /\ evals[e].pc \in {"appending", "counting", "committing"} /\ backend = "postgres"
        /\ Proceed(e, "failed") /\ UNCHANGED <<backend, now, prunes, owed>>
    BY DEF PgFails
  <1>2. /\ OthersStay(e)
        /\ evals'[e].pc = "failed" /\ evals'[e].at = evals[e].at
        /\ evals'[e].next = evals[e].next
        /\ evals'[e].counted = evals[e].counted
        /\ evals'[e].counts = evals[e].counts /\ evals'[e].fires = evals[e].fires
        /\ evals'[e].shown = evals[e].shown
    BY <1>1, Proceeding DEF AggregationInv, Phase
  <1>3. /\ evals[e].next \in Place /\ evals[e].next \in Nat /\ Current(e) \in Action
        /\ c = <<e, evals[e].next>>
    BY EvalTypes, Attaching DEF AggregationInv
  <1>4. \A r \in old : r.by = c => r.at = evals[e].at /\ ~r.committed
    <2> SUFFICES ASSUME NEW r \in old, r.by = c PROVE r.at = evals[e].at /\ ~r.committed
      OBVIOUS
    <2>1. RowOK(Current(e), r)  BY <1>3 DEF AggregationInv, RowsOK
    <2>2. /\ r.at = evals[e].at
          /\ Passed(e, evals[e].next) \/ Held(e, evals[e].next) \/ evals[e].pc = "failed"
          /\ r.committed = ~(backend = "postgres" /\ Held(e, evals[e].next))
      BY <1>3, <2>1 DEF RowOK
    <2>3. Held(e, evals[e].next)  BY <1>1, <1>3, <2>2 DEF Passed
    <2> QED  BY <1>1, <2>2, <2>3
  <1>5. /\ buckets' \in [Action -> Seq(Row)]
        /\ \A a \in Action : Sorted(buckets'[a]) /\ OneEach(buckets'[a])
        /\ \A a \in Action \ {Current(e)} : buckets'[a] = buckets[a]
        /\ \A r : r.by # c => (r \in new <=> r \in old)
        /\ \A r \in new : r.by = c => r.at = evals[e].at /\ r.committed = TRUE
    <2>1. CASE buckets' = [buckets EXCEPT ![Current(e)] = Without(CallOf(e), @)]
      BY <2>1, RollingBack DEF AggregationInv
    <2>2. CASE buckets' = [buckets EXCEPT ![Current(e)] = Committed(CallOf(e), @)]
      <3>1. /\ buckets' \in [Action -> Seq(Row)]
            /\ \A a \in Action : Sorted(buckets'[a]) /\ OneEach(buckets'[a])
            /\ \A a \in Action \ {Current(e)} : buckets'[a] = buckets[a]
            /\ \A r \in new : IF r.by = CallOf(e) THEN r = EntryOf(CallOf(e), TRUE) ELSE r \in old
            /\ \A r \in old : IF r.by = CallOf(e) THEN EntryOf(CallOf(e), TRUE) \in new
                              ELSE r \in new
        BY <1>4, <2>2, Committing DEF AggregationInv
      <3>2. EntryOf(CallOf(e), TRUE).at = evals[e].at /\ EntryOf(CallOf(e), TRUE).committed = TRUE
        BY <1>3 DEF EntryOf
      <3> HIDE DEF old, new
      <3> QED  BY <3>1, <3>2
    <2> QED  BY <2>1, <2>2 DEF PgFails
  <1>6. \A i \in Place :
          /\ ~Held(e, i)'
          /\ Passed(e, i)' <=> i < evals[e].next
          /\ Passed(e, i) <=> i < evals[e].next
    BY <1>1, <1>2 DEF Held, Passed
  <1> HIDE DEF Row
  <1>7. Moves(e)
    <2>1. \A i \in Place : i # evals[e].next =>
            (Passed(e, i)' <=> Passed(e, i)) /\ ~Held(e, i)'
      BY <1>6
    <2>2. ASSUME NEW i \in Place, i = evals[e].next
          PROVE  /\ \A r \in new : r.by = c =>
                      /\ r.at = evals'[e].at
                      /\ Passed(e, i)' \/ Held(e, i)'
                           \/ (i = evals'[e].next /\ evals'[e].pc = "failed")
                      /\ r.committed = ~(backend = "postgres" /\ Held(e, i)')
                 /\ ~(Passed(e, i)' \/ Held(e, i)')
      <3>1. evals'[e].next = i  BY <1>2, <2>2
      <3>2. ~Passed(e, i)' /\ ~Held(e, i)'  BY <1>3, <1>6, <2>2
      <3>3. (~(backend = "postgres" /\ Held(e, i)')) = TRUE  BY <3>2
      <3> QED  BY <1>2, <1>5, <3>1, <3>2, <3>3
    <2>3. \A r \in old :
            ~(r.by = c /\ (evals'[e].pc # "failed" \/ backend # "postgres" \/ r.committed))
      BY <1>1, <1>2, <1>4
    <2> QED  BY <1>1, <1>2, <1>5, <2>1, <2>2, <2>3 DEF Moves
  <1>8. owed' \subseteq Action /\ OwedOK'
    BY <1>1 DEF AggregationInv, TypeOK, OwedOK
  <1>9. Keeps(e)  BY <1>1, <1>2, <1>7, <1>8, QuietKeeps
  <1> QED  BY <1>7, <1>9

-----------------------------------------------------------------------------
(* Steps that count. *)

LEMMA CountedStands ==
  ASSUME AggregationInv, NEW e \in Eval, NEW count \in Nat, NEW when \in Int,
         Counted(e, count, when), evals[e].pc \in {"appending", "counting", "committing"}
  PROVE  /\ \A i \in Place :
              /\ Passed(e, i)' <=> Passed(e, i) \/ i = evals[e].next
              /\ Passed(e, i) <=> i < evals[e].next
              /\ ~Held(e, i)'
         /\ evals'[e].pc \in {"appending", "acting", "done"}
  <1>1. /\ evals[e].next \in Place /\ evals[e].next \in Nat /\ Len(Attached) \in Nat
        /\ Place = 1..Len(Attached)
    BY EvalTypes, Attaching DEF AggregationInv
  <1>2. \A i \in Place : i \in Nat /\ i <= Len(Attached)  BY <1>1
  <1>3. \A i \in Place : Passed(e, i) <=> i < evals[e].next  BY DEF Passed
  <1>4. CASE /\ evals'[e].pc = "appending" /\ evals'[e].next = evals[e].next + 1
    BY <1>1, <1>2, <1>3, <1>4 DEF Passed, Held
  <1>5. CASE evals'[e].pc \in {"acting", "done"} /\ evals[e].next = Len(Attached)
    <2>1. \A i \in Place : Passed(e, i)' /\ ~Held(e, i)'  BY <1>5 DEF Passed, Held
    <2> QED  BY <1>1, <1>2, <1>3, <1>5, <2>1
  <1> QED  BY <1>4, <1>5, Counting DEF AggregationInv

LEMMA CountedKeeps ==
  ASSUME AggregationInv, NEW e \in Eval, Moves(e), NEW count \in Nat, NEW when \in Int,
         when \in -1..now, Counted(e, count, when), evals[e].pc \in {"appending", "counting", "committing"},
         owed' \subseteq Action, OwedOK',
         when = now => count <= Cardinality(Seen(CallOf(e), buckets'[Current(e)], now)),
         backend = "memory" =>
           /\ when = now
           /\ evals[e].at \in (now - Window)..now =>
                \A d \in Call \ {CallOf(e)} :
                  Attached[d[2]] = Current(e) /\ evals[d[1]].counted[d[2]] = now =>
                    evals[d[1]].counts[d[2]] < count
  PROVE  Keeps(e)
  <1>1. /\ now \in Nat /\ when \in Int /\ Threshold \in Nat
        /\ evals[e].next \in Place /\ evals[e].next \in Nat
        /\ Current(e) = Attached[evals[e].next] /\ CallOf(e) = <<e, evals[e].next>>
    BY EvalTypes, Attaching, Clock DEF AggregationInv
  <1>2. backend' = backend /\ now' = now  BY DEF Moves
  <1>3. /\ evals'[e].at = evals[e].at /\ evals'[e].count = evals[e].count
        /\ evals'[e].shown = evals[e].shown
        /\ evals'[e].fires = IF Reached(count) THEN evals[e].fires \cup {evals[e].next}
                             ELSE evals[e].fires
        /\ \/ /\ evals'[e].pc = "appending" /\ evals'[e].next = evals[e].next + 1
              /\ evals[e].next < Len(Attached)
           \/ /\ evals'[e].pc \in {"acting", "done"} /\ evals'[e].next = evals[e].next
              /\ evals[e].next = Len(Attached)
    BY Counting DEF AggregationInv
  <1>4. \A i \in Place :
          /\ evals'[e].counts[i] = IF i = evals[e].next THEN count ELSE evals[e].counts[i]
          /\ evals'[e].counted[i] = IF i = evals[e].next THEN when ELSE evals[e].counted[i]
    BY Counting DEF AggregationInv
  <1>5. \A i \in Place :
          /\ Passed(e, i)' <=> Passed(e, i) \/ i = evals[e].next
          /\ Passed(e, i) <=> i < evals[e].next
    BY <1>1, CountedStands
  <1>6. StageOK(e)  BY DEF AggregationInv, StagesOK
  <1>7. \A i \in Place : evals[e].shown[i] = NotShown  BY <1>6 DEF StageOK
  <1>8. Reached(count) <=> count >= Threshold  BY DEF Reached
  <1>9. StageOK(e)'
    <2>1. ASSUME NEW i \in Place
          PROVE  /\ evals'[e].counted[i] \in -1..now
                 /\ evals'[e].counted[i] # -1 => Passed(e, i)'
                 /\ i \in evals'[e].fires =>
                      Passed(e, i)' /\ evals'[e].counts[i] >= Threshold
                 /\ evals'[e].shown[i] = NotShown
      <3>1. CASE i = evals[e].next
        <4>1. Passed(e, i)' /\ ~Passed(e, i)  BY <1>1, <1>5, <3>1
        <4>2. i \notin evals[e].fires  BY <1>6, <4>1 DEF StageOK
        <4> QED  BY <1>3, <1>4, <1>7, <1>8, <3>1, <4>1, <4>2
      <3>2. CASE i # evals[e].next
        <4>1. /\ evals'[e].counted[i] = evals[e].counted[i]
              /\ evals'[e].counts[i] = evals[e].counts[i]
              /\ i \in evals'[e].fires => i \in evals[e].fires
              /\ Passed(e, i) => Passed(e, i)'
          BY <1>3, <1>4, <1>5, <3>2
        <4> QED  BY <1>3, <1>6, <1>7, <3>2, <4>1 DEF StageOK
      <3> QED  BY <3>1, <3>2
    <2> QED  BY <1>2, <1>3, <2>1 DEF StageOK
  <1>10. /\ \A i \in Place : i # evals[e].next =>
              evals'[e].counted[i] = evals[e].counted[i] /\ evals'[e].counts[i] = evals[e].counts[i]
         /\ evals'[e].pc # "committing"
    BY <1>3, <1>4
  <1>11. ASSUME NEW i \in Place, i = evals[e].next, evals'[e].counted[i] = now
         PROVE  evals'[e].counts[i] <= Cardinality(Seen(<<e, i>>, Bucket(i), now)')
    <2>1. Seen(<<e, i>>, Bucket(i), now)' = Seen(<<e, i>>, buckets'[Attached[i]], now)
      BY <1>2 DEF Seen, Bucket
    <2>2. when = now /\ evals'[e].counts[i] = count  BY <1>4, <1>11
    <2> QED  BY <1>1, <1>11, <2>1, <2>2
  <1>12. ShownOK(e)'  BY <1>3, <1>7 DEF ShownOK
  <1>13. ASSUME backend = "memory", NEW i \in Place, i = evals[e].next,
                NEW d \in Call \ {<<e, i>>}
         PROVE  Apart(<<e, i>>, d)'
    <2>1. d[1] \in Eval /\ d[2] \in Place /\ d = <<d[1], d[2]>>  BY CallParts
    <2>2. /\ evals'[d[1]].counted[d[2]] = evals[d[1]].counted[d[2]]
          /\ evals'[d[1]].counts[d[2]] = evals[d[1]].counts[d[2]]
      <3>1. CASE d[1] = e
        <4>1. d[2] # evals[e].next  BY <1>13, <2>1, <3>1
        <4> QED  BY <1>4, <2>1, <3>1, <4>1
      <3>2. CASE d[1] # e
        <4>1. evals'[d[1]] = evals[d[1]]  BY <2>1, <3>2 DEF Moves, OthersStay
        <4> QED  BY <4>1
      <3> QED  BY <3>1, <3>2
    <2>3. /\ evals'[e].counted[i] = now /\ evals'[e].counts[i] = count
          /\ evals'[e].at = evals[e].at
      BY <1>3, <1>4, <1>13
    <2>4. evals[d[1]].counts[d[2]] \in Nat  BY <2>1, EvalTypes DEF AggregationInv
    <2>5. ASSUME Attached[d[2]] = Attached[i], evals[d[1]].counted[d[2]] = now,
                 evals[e].at \in (now - Window)..now
          PROVE  evals[d[1]].counts[d[2]] # count
      <3>1. d \in Call \ {CallOf(e)}  BY <1>1, <1>13
      <3>2. Attached[d[2]] = Current(e)  BY <1>1, <1>13, <2>5
      <3>3. evals[d[1]].counts[d[2]] < count  BY <1>13, <2>5, <3>1, <3>2
      <3> QED  BY <2>4, <3>3
    <2> QED  BY <2>2, <2>3, <2>5 DEF Apart
  <1> QED
    BY <1>9, <1>10, <1>11, <1>12, <1>13 DEF Keeps

(* appendAndCount in memory: no call that counted now has counted this one. *)
LEMMA MemoryAppendAndCountMoves ==
  ASSUME AggregationInv, NEW e \in Eval, MemoryAppendAndCount(e)
  PROVE  Moves(e) /\ Keeps(e)
  <1> DEFINE a == Current(e)
             c == CallOf(e)
             i == evals[e].next
             entry == EntryOf(c, TRUE)
             count == Len(Entries(c, buckets'[a], now))
  <1>1. /\ evals[e].pc = "appending" /\ backend = "memory"
        /\ Put(e, TRUE) /\ Counted(e, count, now) /\ Settle(a, count)
        /\ UNCHANGED <<backend, now, prunes>>
    BY DEF MemoryAppendAndCount, At
  <1>2. /\ now \in Nat /\ now \in Int /\ now \in -1..now
        /\ i \in Place /\ a \in Action /\ Attached[i] = a /\ c \in Call /\ c = <<e, i>>
    BY EvalTypes, Clock DEF AggregationInv
  <1>3. \A r \in Rows(buckets[a]) : r.by # c  BY <1>1, NoRowYet
  <1>4. /\ buckets' \in [Action -> Seq(Row)]
        /\ \A b \in Action : Sorted(buckets'[b]) /\ OneEach(buckets'[b])
        /\ \A b \in Action \ {a} : buckets'[b] = buckets[b]
        /\ Rows(buckets'[a]) = Rows(buckets[a]) \cup {entry}
    BY <1>1, <1>3, Putting DEF AggregationInv
  <1>5. entry.by = c /\ entry.at = evals[e].at /\ entry.committed = TRUE
    BY <1>2 DEF EntryOf
  <1>6. /\ IsFiniteSet(Seen(c, buckets'[a], now)) /\ count \in Nat
        /\ count = Cardinality(Seen(c, buckets'[a], now))
        /\ (\A r \in Rows(buckets'[a]) : r.committed) =>
             (Full(buckets'[a], now) <=> count >= Threshold)
    <2>1. buckets'[a] \in Seq(Row) /\ Sorted(buckets'[a]) /\ OneEach(buckets'[a])
      BY <1>2, <1>4
    <2> HIDE DEF Row
    <2> QED  BY <1>1, <1>2, <2>1, EntriesSeen DEF AggregationInv
  <1> HIDE DEF a, c, i, count, entry, Row
  <1>7. /\ OthersStay(e) /\ evals'[e].at = evals[e].at
        /\ evals'[e].pc \in {"appending", "acting", "done"}
    BY <1>1, <1>2, <1>6, Counting, CountedStands DEF AggregationInv
  <1>8. \A j \in Place :
          /\ Passed(e, j)' <=> Passed(e, j) \/ j = i
          /\ ~Held(e, j)'
    BY <1>1, <1>2, <1>6, CountedStands DEF i
  <1>9. Moves(e)
    <2>1. ASSUME NEW j \in Place, j = i, NEW r \in Rows(buckets'[a]), r.by = c
          PROVE  /\ r.at = evals'[e].at /\ Passed(e, j)'
                 /\ r.committed = ~(backend = "postgres" /\ Held(e, j)')
      <3>1. r = entry  BY <1>3, <1>4, <2>1
      <3>2. (~(backend = "postgres" /\ Held(e, j)')) = TRUE  BY <1>8
      <3>3. Passed(e, j)'  BY <1>8, <2>1
      <3> QED  BY <1>5, <1>7, <3>1, <3>2, <3>3
    <2>2. \E r \in Rows(buckets'[a]) : r.by = c  BY <1>4, <1>5
    <2>3. \A r : r.by # c => (r \in Rows(buckets'[a]) <=> r \in Rows(buckets[a]))
      BY <1>4, <1>5
    <2> QED  BY <1>1, <1>3, <1>4, <1>7, <1>8, <2>1, <2>2, <2>3 DEF Moves, a, c, i
  <1>10. ASSUME evals[e].at \in (now - Window)..now, NEW d \in Call \ {c},
                Attached[d[2]] = a, evals[d[1]].counted[d[2]] = now
         PROVE  evals[d[1]].counts[d[2]] < count
    <2>1. d[1] \in Eval /\ d[2] \in Place /\ d = <<d[1], d[2]>>  BY CallParts
    <2>2. Passed(d[1], d[2])
      <3>1. evals[d[1]].counted[d[2]] # -1  BY <1>2, <1>10
      <3> QED  BY <1>1, <2>1, <3>1 DEF AggregationInv, StagesOK, StageOK
    <2>3. evals[d[1]].counts[d[2]] <= Cardinality(Seen(d, buckets[a], now))
      BY <1>10, <2>1, <2>2 DEF AggregationInv, CountsOK, Bucket
    <2>4. Seen(d, buckets[a], now) \subseteq Seen(c, buckets'[a], now) \ {c}
      BY <1>1, <1>3, <1>4 DEF Seen
    <2>5. c \in Seen(c, buckets'[a], now)
      <3>1. entry \in Rows(buckets'[a])  BY <1>4
      <3>2. now - Window \in Int /\ now \in Int  BY Clock DEF AggregationInv
      <3>3. evals[e].at >= now - Window /\ evals[e].at <= now  BY <1>10, <3>2
      <3> QED  BY <1>2, <1>5, <3>1, <3>3 DEF Seen
    <2>6. /\ Cardinality(Seen(c, buckets'[a], now) \ {c}) = count - 1
          /\ IsFiniteSet(Seen(c, buckets'[a], now) \ {c})
      BY <1>6, <2>5, FS_RemoveElement
    <2>7. /\ IsFiniteSet(Seen(d, buckets[a], now))
          /\ Cardinality(Seen(d, buckets[a], now)) <= count - 1
      BY <2>4, <2>6, FS_Subset
    <2>8. Cardinality(Seen(d, buckets[a], now)) \in Nat  BY <2>7, FS_CardinalityType
    <2>9. evals[d[1]].counts[d[2]] \in Nat  BY <2>1, EvalTypes DEF AggregationInv
    <2> QED  BY <1>6, <2>3, <2>7, <2>8, <2>9
  <1>11. owed' \subseteq Action /\ OwedOK'
    <2>1. owed = {}
      BY <1>1 DEF AggregationInv, OwedOK, StagesOK, StageOK
    <2>2. \A r \in Rows(buckets[a]) : r.committed = TRUE
      <3> SUFFICES ASSUME NEW r \in Rows(buckets[a]) PROVE r.committed = TRUE  OBVIOUS
      <3>1. RowOK(a, r)  BY <1>2 DEF AggregationInv, RowsOK
      <3>2. (~(backend = "postgres" /\ Held(r.by[1], r.by[2]))) = TRUE  BY <1>1
      <3> QED  BY <3>1, <3>2 DEF RowOK
    <2>3. \A r \in Rows(buckets'[a]) : r.committed  BY <1>4, <1>5, <2>2
    <2>4. Full(buckets'[a], now) <=> Reached(count)  BY <1>6, <2>3 DEF Reached
    <2>5. owed' = {}  BY <1>1, <2>1, <2>4 DEF Settle, Owe
    <2> QED  BY <2>5 DEF OwedOK
  <1>12. count <= Cardinality(Seen(CallOf(e), buckets'[Current(e)], now))
    BY <1>6 DEF a, c
  <1>13. Keeps(e)
    BY <1>1, <1>2, <1>6, <1>9, <1>10, <1>11, <1>12, CountedKeeps DEF a, c
  <1> QED  BY <1>9, <1>13

(* count of a store without appendAndCount: who fills the window or comes   *)
(* after it while it is full, fires.                                        *)
LEMMA PlainCountMoves ==
  ASSUME AggregationInv, NEW e \in Eval, PlainCount(e)
  PROVE  Moves(e) /\ Keeps(e)
  <1> DEFINE a == Current(e)
             c == CallOf(e)
             count == Len(Entries(c, buckets[a], now))
  <1>1. /\ evals[e].pc = "counting" /\ backend # "postgres"
        /\ Counted(e, count, now) /\ Settle(a, count)
        /\ UNCHANGED <<backend, now, buckets, prunes>>
    BY DEF PlainCount, At
  <1>2. backend # "memory"  BY <1>1 DEF AggregationInv, StagesOK, StageOK
  <1>3. /\ now \in Nat /\ now \in Int /\ now \in -1..now /\ a \in Action /\ c \in Call
        /\ evals[e].next \in Nat
    BY EvalTypes, Clock, Attaching DEF AggregationInv
  <1>4. /\ count \in Nat /\ count = Cardinality(Seen(c, buckets[a], now))
        /\ (\A r \in Rows(buckets[a]) : r.committed) =>
             (Full(buckets[a], now) <=> count >= Threshold)
    <2>1. buckets[a] \in Seq(Row) /\ Sorted(buckets[a]) /\ OneEach(buckets[a])
      BY <1>3, BucketTypes DEF AggregationInv, BucketsOK
    <2> HIDE DEF Row
    <2> QED  BY <1>1, <1>3, <2>1, EntriesSeen DEF AggregationInv
  <1>5. count <= Cardinality(Seen(CallOf(e), buckets'[Current(e)], now))
    BY <1>1, <1>4
  <1> HIDE DEF a, c, count
  <1>6. OthersStay(e) /\ evals'[e].at = evals[e].at
    BY <1>1, <1>3, <1>4, Counting DEF AggregationInv
  <1>7. \A i \in Place :
          /\ Passed(e, i)' <=> Passed(e, i) \/ i = evals[e].next
          /\ ~Held(e, i)'
          /\ Held(e, i) <=> i = evals[e].next
          /\ Passed(e, i) <=> i < evals[e].next
    BY <1>1, <1>3, <1>4, CountedStands DEF Held
  <1>8. Moves(e)  BY <1>1, <1>6, <1>7, SameBuckets
  <1>9. owed' \subseteq Action /\ OwedOK'
    <2>1. \A r \in Rows(buckets[a]) : r.committed = TRUE
      <3> SUFFICES ASSUME NEW r \in Rows(buckets[a]) PROVE r.committed = TRUE  OBVIOUS
      <3>1. RowOK(a, r)  BY <1>3 DEF AggregationInv, RowsOK
      <3>2. (~(backend = "postgres" /\ Held(r.by[1], r.by[2]))) = TRUE  BY <1>1
      <3> QED  BY <3>1, <3>2 DEF RowOK
    <2>2. Full(buckets[a], now) <=> Reached(count)  BY <1>4, <2>1 DEF Reached
    <2>3. \A b \in owed : b \in Action /\ Full(buckets[b], now)
      BY <1>1 DEF AggregationInv, TypeOK, OwedOK
    <2>4. owed' = owed \ {a}  BY <1>1, <2>2, <2>3 DEF Settle, Owe
    <2>5. OwedOK'  BY <1>1, <1>8, <2>4, OwedKept DEF a
    <2> QED  BY <2>3, <2>4, <2>5
  <1>10. Keeps(e)  BY <1>1, <1>2, <1>3, <1>4, <1>5, <1>8, <1>9, CountedKeeps
  <1> QED  BY <1>8, <1>10

(* The SELECT of the transaction. *)
LEMMA PgCountMoves ==
  ASSUME AggregationInv, NEW e \in Eval, PgCount(e)
  PROVE  Moves(e) /\ Keeps(e)
  <1> DEFINE until == evals[e].counted[evals[e].next]
             count == Len(Entries(CallOf(e), buckets[Current(e)], until))
  <1>1. /\ evals[e].pc = "counting" /\ backend = "postgres"
        /\ UNCHANGED <<backend, now, buckets, prunes, owed>>
    BY DEF PgCount, At
  <1>2. /\ now \in Nat /\ evals[e].next \in Place /\ evals[e].next \in Nat
        /\ Current(e) = Attached[evals[e].next] /\ CallOf(e) = <<e, evals[e].next>>
    BY EvalTypes, Clock, Attaching DEF AggregationInv
  <1>3. /\ OthersStay(e)
        /\ evals'[e].pc = "committing" /\ evals'[e].at = evals[e].at
        /\ evals'[e].next = evals[e].next /\ evals'[e].count = count
        /\ count \in Nat /\ count = Cardinality(Seen(CallOf(e), buckets[Current(e)], until))
        /\ evals'[e].counted = evals[e].counted
        /\ evals'[e].counts = evals[e].counts /\ evals'[e].fires = evals[e].fires
        /\ evals'[e].shown = evals[e].shown
    BY PgCounting DEF AggregationInv
  <1> HIDE DEF count
  <1>4. \A i \in Place :
          /\ Passed(e, i)' <=> Passed(e, i)
          /\ Passed(e, i) <=> i < evals[e].next
          /\ Held(e, i)' <=> i = evals[e].next
          /\ Held(e, i) <=> i = evals[e].next
    BY <1>1, <1>3 DEF Passed, Held
  <1>5. Moves(e)  BY <1>1, <1>3, <1>4, SameBuckets
  <1>6. StageOK(e)  BY DEF AggregationInv, StagesOK
  <1>7. StageOK(e)'  BY <1>1, <1>3, <1>4, <1>6 DEF StageOK
  <1>8. ASSUME NEW i \in Place, i = evals[e].next, evals'[e].counted[i] = now
        PROVE  ~Passed(e, i)' /\ evals'[e].count <= Cardinality(Seen(<<e, i>>, Bucket(i), now)')
    <2>1. Seen(<<e, i>>, Bucket(i), now)' = Seen(<<e, i>>, buckets[Attached[i]], now)
      BY <1>1 DEF Seen, Bucket
    <2>2. until = now  BY <1>3, <1>8
    <2>3. count <= Cardinality(Seen(<<e, i>>, buckets[Attached[i]], now))
      BY <1>2, <1>3, <1>8, <2>2
    <2> QED  BY <1>2, <1>3, <1>4, <1>8, <2>1, <2>3
  <1>9. ShownOK(e)'  BY <1>1, <1>3, <1>6 DEF StageOK, ShownOK
  <1>10. owed' \subseteq Action /\ OwedOK'
    BY <1>1 DEF AggregationInv, TypeOK, OwedOK
  <1> QED
    BY <1>1, <1>3, <1>5, <1>7, <1>8, <1>9, <1>10 DEF Keeps
(* The COMMIT, with the count of the SELECT. *)
LEMMA PgCommitMoves ==
  ASSUME AggregationInv, NEW e \in Eval, PgCommit(e)
  PROVE  Moves(e) /\ Keeps(e)
  <1> DEFINE a == Current(e)
             c == CallOf(e)
             count == evals[e].count
             when == evals[e].counted[evals[e].next]
             old == Rows(buckets[a])
             new == Rows(buckets'[a])
             own == EntryOf(c, TRUE)
  <1>1. /\ evals[e].pc = "committing"
        /\ buckets' = [buckets EXCEPT ![a] = Committed(c, @)]
        /\ Counted(e, count, when) /\ Settle(a, count)
        /\ UNCHANGED <<backend, now, prunes>>
    BY DEF PgCommit, At
  <1>2. /\ now \in Nat /\ a \in Action /\ count \in Nat /\ when \in Int
        /\ evals[e].next \in Place /\ evals[e].next \in Nat
        /\ a = Attached[evals[e].next] /\ c \in Call /\ c = <<e, evals[e].next>>
    BY EvalTypes, Clock, Attaching DEF AggregationInv
  <1>3. backend = "postgres" /\ when \in -1..now
    BY <1>1, <1>2 DEF AggregationInv, StagesOK, StageOK
  <1>4. \A r \in old : r.by = c => r.at = evals[e].at
    <2> SUFFICES ASSUME NEW r \in old, r.by = c PROVE r.at = evals[e].at  OBVIOUS
    <2>1. RowOK(a, r)  BY <1>2 DEF AggregationInv, RowsOK
    <2> QED  BY <1>2, <2>1 DEF RowOK
  <1>5. /\ buckets' \in [Action -> Seq(Row)]
        /\ \A b \in Action : Sorted(buckets'[b]) /\ OneEach(buckets'[b])
        /\ \A b \in Action \ {a} : buckets'[b] = buckets[b]
        /\ \A r \in new : IF r.by = c THEN r = own ELSE r \in old
        /\ \A r \in old : IF r.by = c THEN own \in new ELSE r \in new
    BY <1>1, <1>4, Committing DEF AggregationInv
  <1>6. own.by = c /\ own.at = evals[e].at /\ own.committed = TRUE
    BY <1>2 DEF EntryOf
  <1> HIDE DEF a, c, count, when, old, new, own, Row
  <1>7. /\ OthersStay(e) /\ evals'[e].at = evals[e].at
        /\ evals'[e].pc \in {"appending", "acting", "done"}
    BY <1>1, <1>2, Counting, CountedStands DEF AggregationInv
  <1>8. \A i \in Place :
          /\ Passed(e, i)' <=> Passed(e, i) \/ i = evals[e].next
          /\ ~Held(e, i)'
          /\ Held(e, i) <=> i = evals[e].next
    BY <1>1, <1>2, CountedStands DEF Held
  <1>9. ASSUME NEW i \in Place, i = evals[e].next
        PROVE  /\ \A r \in new : r.by = c =>
                    /\ r.at = evals'[e].at /\ Passed(e, i)'
                    /\ r.committed = ~(backend = "postgres" /\ Held(e, i)')
               /\ evals'[e].at >= now - Window => \E r \in new : r.by = c
    <2>1. Passed(e, i)' /\ Held(e, i)  BY <1>8, <1>9
    <2>2. (~(backend = "postgres" /\ Held(e, i)')) = TRUE  BY <1>8
    <2>3. ASSUME evals'[e].at >= now - Window PROVE \E r \in new : r.by = c
      <3>1. \E r \in old : r.by = c
        BY <1>2, <1>7, <1>9, <2>1, <2>3 DEF AggregationInv, KeptOK, Bucket, old
      <3> QED  BY <1>5, <1>6, <3>1
    <2> QED  BY <1>5, <1>6, <1>7, <2>1, <2>2, <2>3
  <1>10. \A r \in old : r.by = c => \E s \in new : s.by = c /\ s.at = r.at /\ s.committed
    BY <1>4, <1>5, <1>6
  <1>11. \A r : r.by # c => (r \in new <=> r \in old)
    <2> SUFFICES ASSUME NEW r, r.by # c PROVE r \in new <=> r \in old  OBVIOUS
    <2> QED  BY <1>5
  <1>12. Moves(e)
    BY <1>1, <1>5, <1>7, <1>8, <1>9, <1>10, <1>11 DEF Moves, a, c, old, new
  <1>13. ASSUME when = now
         PROVE  count <= Cardinality(Seen(CallOf(e), buckets'[Current(e)], now))
    <2>1. evals'[e].pc # "failed"  BY <1>7
    <2>2. count <= Cardinality(Seen(c, buckets[a], now))
      BY <1>1, <1>2, <1>13 DEF AggregationInv, CountsOK, Bucket, when, count
    <2>3. /\ Cardinality(Seen(c, buckets[a], now)) \in Nat
          /\ Cardinality(Seen(c, buckets'[a], now)) \in Nat
          /\ Cardinality(Seen(c, buckets[a], now)) <= Cardinality(Seen(c, buckets'[a], now))
      <3>1. PICK d \in Call : d = c  BY <1>2
      <3>2. PICK b \in Action : b = a  BY <1>2
      <3>3. /\ Cardinality(Seen(d, buckets[b], now)) \in Nat
            /\ Cardinality(Seen(d, buckets[b], now)') \in Nat
            /\ Cardinality(Seen(d, buckets[b], now)) <= Cardinality(Seen(d, buckets[b], now)')
        BY <1>12, <2>1, MovesKeepCounts
      <3>4. Seen(d, buckets[b], now)' = Seen(d, buckets'[b], now)  BY <1>1 DEF Seen
      <3> QED  BY <3>1, <3>2, <3>3, <3>4
    <2> QED  BY <1>2, <2>2, <2>3 DEF a, c
  <1>14. owed' \subseteq Action /\ OwedOK'
    <2>1. owed' \subseteq owed \cup {a}  BY <1>1 DEF Settle, Owe
    <2> QED  BY <1>1, <1>2, <1>3, <2>1 DEF AggregationInv, TypeOK, OwedOK
  <1>15. Keeps(e)
    BY <1>1, <1>2, <1>3, <1>12, <1>13, <1>14, CountedKeeps
  <1> QED  BY <1>12, <1>15

-----------------------------------------------------------------------------
(* Steps that change no bucket and no count. *)

(* The list an aggregated action is given. *)
LEMMA ListMoves ==
  ASSUME AggregationInv, NEW e \in Eval, NEW chosen \in Chosen(e), List(e, chosen)
  PROVE  Moves(e) /\ Keeps(e)
  <1>1. /\ OthersStay(e)
        /\ evals[e].pc = "acting" /\ evals'[e].pc \in {"acting", "done"}
        /\ evals'[e].at = evals[e].at /\ evals'[e].next = evals[e].next
        /\ evals'[e].count = evals[e].count /\ evals'[e].counted = evals[e].counted
        /\ evals'[e].counts = evals[e].counts /\ evals'[e].fires = evals[e].fires
        /\ chosen \subseteq evals[e].fires
        /\ \A i \in Place :
             IF i \in chosen
             THEN /\ evals'[e].shown[i].n = Cardinality(Seen(<<e, i>>, Bucket(i), now))
                  /\ evals'[e].shown[i].own <=> <<e, i>> \in Seen(<<e, i>>, Bucket(i), now)
                  /\ evals'[e].shown[i].at = now
             ELSE evals'[e].shown[i] = evals[e].shown[i]
    BY Listing DEF AggregationInv
  <1>2. UNCHANGED <<backend, now, buckets, prunes, owed>>  BY DEF List
  <1>3. \A i \in Place :
          /\ Passed(e, i) /\ Passed(e, i)' /\ ~Held(e, i) /\ ~Held(e, i)'
    BY <1>1 DEF Passed, Held
  <1>4. Moves(e)  BY <1>1, <1>2, <1>3, SameBuckets
  <1>5. StageOK(e)  BY DEF AggregationInv, StagesOK
  <1>6. StageOK(e)'  BY <1>1, <1>2, <1>3, <1>5 DEF StageOK
  <1>7. ASSUME NEW i \in Place, i = evals[e].next, evals'[e].counted[i] = now
        PROVE  evals'[e].counts[i] <= Cardinality(Seen(<<e, i>>, Bucket(i), now)')
    <2>1. Seen(<<e, i>>, Bucket(i), now)' = Seen(<<e, i>>, Bucket(i), now)
      BY <1>2 DEF Seen, Bucket
    <2>2. evals[e].counts[i] <= Cardinality(Seen(<<e, i>>, Bucket(i), now))
      BY <1>1, <1>3, <1>7 DEF AggregationInv, CountsOK
    <2> QED  BY <1>1, <2>1, <2>2
  <1>8. owed' \subseteq Action /\ OwedOK'
    <2>1. \A a \in owed' : a \in owed /\ evals[e].pc # "counting"  BY <1>1, <1>2
    <2> QED  BY <1>2, <1>4, <2>1, OwedKept DEF AggregationInv, TypeOK
  <1>9. ShownOK(e)'
    <2> SUFFICES ASSUME NEW i \in Place, evals'[e].shown[i] # NotShown
                 PROVE  LET s == evals'[e].shown[i]
                        IN  /\ s.at = evals[e].counted[i] => s.n >= Threshold
                            /\ evals[e].at \in (s.at - Window)..s.at => s.own
      BY <1>1 DEF ShownOK
    <2>1. ShownOK(e)  BY AllShown DEF AggregationInv
    <2>2. CASE i \notin chosen  BY <1>1, <2>1, <2>2 DEF ShownOK
    <2>3. CASE i \in chosen
      <3> DEFINE c == <<e, i>>
                 seen == Seen(c, Bucket(i), now)
      <3>1. c \in Call /\ Attached[i] \in Action  BY Attaching DEF Call
      <3>2. evals[e].counts[i] >= Threshold  BY <1>1, <1>5, <2>3 DEF StageOK
      <3>3. /\ evals[e].counts[i] \in Nat /\ Threshold \in Nat /\ now \in Int
            /\ now - Window \in Int /\ evals[e].at \in Int
        BY EvalTypes, Clock DEF AggregationInv
      <3>4. IsFiniteSet(seen) /\ Cardinality(seen) \in Nat
        <4>1. Bucket(i) \in Seq(Row) /\ Sorted(Bucket(i)) /\ OneEach(Bucket(i))
          BY <3>1, BucketTypes DEF AggregationInv, BucketsOK, Bucket
        <4> HIDE DEF c, Row
        <4> QED  BY <3>1, <3>3, <4>1, EntriesSeen, FS_CardinalityType DEF AggregationInv
      <3>5. ASSUME now = evals[e].counted[i]
            PROVE  Cardinality(seen) >= Threshold
        <4>1. evals[e].counts[i] <= Cardinality(seen)
          BY <1>3, <3>5 DEF AggregationInv, CountsOK
        <4> HIDE DEF seen
        <4> QED  BY <3>2, <3>3, <3>4, <4>1
      <3>6. ASSUME evals[e].at \in (now - Window)..now
            PROVE  c \in seen
        <4>1. evals[e].at >= now - Window /\ evals[e].at <= now  BY <3>3, <3>6
        <4>2. PICK r \in Rows(Bucket(i)) : r.by = c
          BY <1>3, <4>1 DEF AggregationInv, KeptOK
        <4>3. RowOK(Attached[i], r)  BY <3>1, <4>2 DEF AggregationInv, RowsOK, Bucket
        <4>4. r.at = evals[e].at  BY <4>2, <4>3 DEF RowOK
        <4> QED  BY <3>1, <4>1, <4>2, <4>4 DEF Seen
      <3> HIDE DEF seen
      <3>7. /\ evals'[e].shown[i].n = Cardinality(seen)
            /\ evals'[e].shown[i].own <=> c \in seen
            /\ evals'[e].shown[i].at = now
        BY <1>1, <2>3 DEF seen
      <3> QED  BY <3>5, <3>6, <3>7
    <2> QED  BY <2>2, <2>3
  <1>10. ASSUME backend = "memory", NEW i \in Place, NEW d \in Call \ {<<e, i>>}
         PROVE  Apart(<<e, i>>, d)'
    <2>1. Apart(<<e, i>>, d)
      <3>1. <<e, i>> \in Call  BY DEF Call
      <3> QED  BY <1>10, <3>1, PairsApart DEF AggregationInv
    <2>2. d[1] \in Eval  BY CallParts
    <2>3. /\ evals'[d[1]].counted = evals[d[1]].counted
          /\ evals'[d[1]].counts = evals[d[1]].counts
          /\ evals'[d[1]].at = evals[d[1]].at
      <3>1. CASE d[1] = e  BY <1>1, <3>1
      <3>2. CASE d[1] # e  BY <1>1, <2>2, <3>2 DEF OthersStay
      <3> QED  BY <3>1, <3>2
    <2> QED  BY <1>1, <2>1, <2>3 DEF Apart
  <1> QED  BY <1>1, <1>4, <1>6, <1>7, <1>8, <1>9, <1>10 DEF Keeps

LEMMA PruneKeeps ==
  ASSUME AggregationInv, Prune
  PROVE  AggregationInv'
  <1>1. UNCHANGED <<backend, now, evals, owed>> /\ prunes < MaxPrunes /\ prunes' = prunes + 1
    BY DEF Prune
  <1>2. /\ buckets' \in [Action -> Seq(Row)]
        /\ \A a \in Action :
             /\ Sorted(buckets'[a]) /\ OneEach(buckets'[a])
             /\ Rows(buckets'[a]) \subseteq Rows(buckets[a])
             /\ \A r \in Rows(buckets[a]) : r.at >= now - Window => r \in Rows(buckets'[a])
    BY Pruning DEF AggregationInv
  <1>3. \A i \in Place : Attached[i] \in Action  BY Attaching
  <1>4. TypeOK'
    <2>1. prunes' \in 0..MaxPrunes
      BY <1>1, AggregationAssumption DEF AggregationInv, TypeOK
    <2> HIDE DEF EvalState, Row
    <2> QED  BY <1>1, <1>2, <2>1 DEF AggregationInv, TypeOK
  <1>5. BucketsOK'  BY <1>2 DEF BucketsOK
  <1>6. RowsOK'
    <2> SUFFICES ASSUME NEW a \in Action, NEW r \in Rows(buckets'[a]) PROVE RowOK(a, r)'
      BY DEF RowsOK
    <2>1. RowOK(a, r)  BY <1>2 DEF AggregationInv, RowsOK
    <2> QED  BY <1>1, <2>1 DEF RowOK, Passed, Held
  <1>7. KeptOK'
    <2> SUFFICES ASSUME NEW e \in Eval, NEW i \in Place,
                        Passed(e, i) \/ Held(e, i), evals[e].at >= now - Window
                 PROVE  \E r \in Rows(buckets'[Attached[i]]) : r.by = <<e, i>>
      BY <1>1 DEF KeptOK, Passed, Held, Bucket
    <2>1. PICK r \in Rows(Bucket(i)) : r.by = <<e, i>>  BY DEF AggregationInv, KeptOK
    <2>2. RowOK(Attached[i], r)  BY <1>3, <2>1 DEF AggregationInv, RowsOK, Bucket
    <2>3. r.at = evals[e].at  BY <2>1, <2>2 DEF RowOK
    <2> QED  BY <1>2, <1>3, <2>1, <2>3 DEF Bucket
  <1>8. StagesOK'  BY <1>1 DEF AggregationInv, StagesOK, StageOK, Passed
  <1>9. CountsOK'
    <2> SUFFICES ASSUME NEW e \in Eval, NEW i \in Place,
                        evals[e].counted[i] = now
                 PROVE  /\ Passed(e, i) => evals[e].counts[i]
                              <= Cardinality(Seen(<<e, i>>, buckets'[Attached[i]], now))
                        /\ i = evals[e].next /\ evals[e].pc = "committing"
                             => evals[e].count
                                  <= Cardinality(Seen(<<e, i>>, buckets'[Attached[i]], now))
      <3>1. \A d \in Eval : \A k : Passed(d, k)' <=> Passed(d, k)  BY <1>1 DEF Passed
      <3>2. \A d : \A k : Seen(d, Bucket(k), now)' = Seen(d, buckets'[Attached[k]], now)
        BY <1>1 DEF Seen, Bucket
      <3> QED  BY <1>1, <3>1, <3>2 DEF CountsOK
    <2>1. Seen(<<e, i>>, buckets'[Attached[i]], now) = Seen(<<e, i>>, Bucket(i), now)
      BY <1>2, <1>3 DEF Seen, Bucket
    <2> QED  BY <2>1 DEF AggregationInv, CountsOK
  <1>10. OwedOK'
    <2> SUFFICES ASSUME backend # "postgres", NEW a \in owed
                 PROVE  /\ Full(buckets'[a], now)
                        /\ \E e \in Eval : evals[e].pc = "counting" /\ Current(e) = a
      BY <1>1 DEF OwedOK, Current, Full, Within
    <2>1. /\ a \in Action /\ Full(buckets[a], now)
          /\ \E e \in Eval : evals[e].pc = "counting" /\ Current(e) = a
      BY DEF AggregationInv, TypeOK, OwedOK
    <2>2. buckets[a] \in Seq(Row) /\ Rows(buckets[a]) \subseteq Row /\ buckets'[a] \in Seq(Row)
      BY <1>2, <2>1, BucketTypes DEF AggregationInv
    <2>3. now \in Int /\ now - Window \in Int  BY Clock DEF AggregationInv
    <2>4. \A r \in Rows(buckets[a]) : r.at \in (now - Window)..now => r \in Rows(buckets'[a])
      BY <1>2, <2>1, <2>2, <2>3, RowTimes
    <2>5. Full(buckets'[a], now)
      <3> HIDE DEF Row
      <3> QED  BY <2>1, <2>2, <2>4, FullKept
    <2> QED  BY <2>1, <2>5
  <1>11. ShownTheThreshold' /\ OneNth'
    BY <1>1 DEF AggregationInv, ShownTheThreshold, OneNth
  <1> QED
    BY <1>4, <1>5, <1>6, <1>7, <1>8, <1>9, <1>10, <1>11 DEF AggregationInv

LEMMA TickKeeps ==
  ASSUME AggregationInv, Tick
  PROVE  AggregationInv'
  <1>1. /\ UNCHANGED <<backend, buckets, evals, prunes>> /\ now < MaxTime /\ now' = now + 1
        /\ owed' = { a \in owed : Full(buckets[a], now') }
    BY DEF Tick
  <1>2. now \in Nat /\ now \in 0..MaxTime /\ MaxTime \in Nat /\ Window \in Nat
    BY Clock, AggregationAssumption DEF AggregationInv, TypeOK
  <1>3. TypeOK'
    <2>1. now' \in 0..MaxTime  BY <1>1, <1>2
    <2> HIDE DEF EvalState, Row
    <2> QED  BY <1>1, <2>1 DEF AggregationInv, TypeOK
  <1>4. BucketsOK'  BY <1>1 DEF AggregationInv, BucketsOK
  <1>5. RowsOK'
    <2> SUFFICES ASSUME NEW a \in Action, NEW r \in Rows(buckets[a]) PROVE RowOK(a, r)'
      BY <1>1 DEF RowsOK
    <2>1. RowOK(a, r)  BY DEF AggregationInv, RowsOK
    <2> QED  BY <1>1, <2>1 DEF RowOK, Passed, Held
  <1>6. KeptOK'
    <2> SUFFICES ASSUME NEW e \in Eval, NEW i \in Place,
                        Passed(e, i) \/ Held(e, i), evals[e].at >= now' - Window
                 PROVE  \E r \in Rows(Bucket(i)) : r.by = <<e, i>>
      BY <1>1 DEF KeptOK, Passed, Held, Bucket
    <2>1. evals[e].at \in Int  BY EvalTypes DEF AggregationInv
    <2>2. evals[e].at >= now - Window  BY <1>1, <1>2, <2>1
    <2> QED  BY <2>2 DEF AggregationInv, KeptOK
  <1>7. StagesOK'
    <2> SUFFICES ASSUME NEW e \in Eval PROVE StageOK(e)'  BY DEF StagesOK
    <2>1. StageOK(e)  BY DEF AggregationInv, StagesOK
    <2>2. -1..now \subseteq -1..now'  BY <1>1, <1>2
    <2> QED  BY <1>1, <2>1, <2>2 DEF StageOK, Passed
  <1>8. CountsOK'
    <2> SUFFICES ASSUME NEW e \in Eval, NEW i \in Place,
                        evals[e].counted[i] = now'
                 PROVE  FALSE
      BY <1>1 DEF CountsOK
    <2>1. evals[e].counted[i] \in -1..now
      BY DEF AggregationInv, StagesOK, StageOK
    <2> QED  BY <1>1, <1>2, <2>1
  <1>9. OwedOK'
    <2> SUFFICES ASSUME backend # "postgres", NEW a \in owed'
                 PROVE  \E e \in Eval : evals[e].pc = "counting" /\ Current(e) = a
      BY <1>1 DEF OwedOK, Current, Full, Within
    <2> QED  BY <1>1 DEF AggregationInv, OwedOK
  <1>10. ShownTheThreshold' /\ OneNth'
    BY <1>1 DEF AggregationInv, ShownTheThreshold, OneNth
  <1> QED  BY <1>3, <1>4, <1>5, <1>6, <1>7, <1>8, <1>9, <1>10 DEF AggregationInv

-----------------------------------------------------------------------------
(* The invariant. *)

LEMMA AggregationInit == Init => AggregationInv
  <1> SUFFICES ASSUME Init PROVE AggregationInv  OBVIOUS
  <1>1. /\ backend \in Backends /\ now = 0 /\ prunes = 0 /\ owed = {}
        /\ \A a \in Action : buckets[a] = << >>
        /\ \A e \in Eval : evals[e] = IdleEval
    BY DEF Init
  <1>2. \A a \in Action : Rows(buckets[a]) = {} /\ Len(buckets[a]) = 0
    BY <1>1 DEF Rows
  <1>3. \A i \in Place : Attached[i] \in Action /\ i \in Nat /\ i >= 1
    BY Attaching
  <1>4. /\ Len(Attached) \in Nat /\ Len(Attached) >= 1 /\ Place = 1..Len(Attached)
        /\ Window \in Nat /\ Threshold \in Nat /\ MaxTime \in Nat /\ MaxPrunes \in Nat
    BY Attaching, AggregationAssumption
  <1>5. /\ IdleEval \in EvalState /\ IdleEval.pc = "idle" /\ IdleEval.next = 1
        /\ \A i \in Place :
             /\ IdleEval.counted[i] = -1 /\ IdleEval.shown[i] = NotShown
             /\ i \notin IdleEval.fires
    <2>1. NotShown \in [n : Nat, own : BOOLEAN, at : Int]  BY DEF NotShown
    <2>2. 1 \in Place  BY <1>4
    <2> HIDE DEF NotShown
    <2> QED  BY <2>1, <2>2 DEF IdleEval, EvalState, Phase
  <1>6. TypeOK
    <2>1. now \in 0..MaxTime /\ prunes \in 0..MaxPrunes  BY <1>1, <1>4
    <2>2. evals = [e \in Eval |-> IdleEval] /\ buckets = [a \in Action |-> << >>]
      BY DEF Init
    <2>3. << >> \in Seq(Row)  OBVIOUS
    <2> HIDE DEF EvalState, Row
    <2> QED  BY <1>1, <1>5, <2>1, <2>2, <2>3 DEF TypeOK
  <1>7. BucketsOK
    <2>1. 1..0 = {}  OBVIOUS
    <2> QED  BY <1>2, <2>1 DEF BucketsOK, Sorted, OneEach
  <1>8. RowsOK  BY <1>2 DEF RowsOK
  <1>9. \A e \in Eval : \A i \in Place : ~Passed(e, i) /\ ~Held(e, i)
    BY <1>1, <1>5 DEF Passed, Held
  <1>10. KeptOK  BY <1>9 DEF KeptOK
  <1>11. StagesOK
    <2> HIDE DEF NotShown, IdleEval
    <2> QED  BY <1>1, <1>5 DEF StagesOK, StageOK
  <1>12. CountsOK
    <2> HIDE DEF IdleEval
    <2> QED  BY <1>1, <1>5 DEF CountsOK
  <1>13. OwedOK  BY <1>1 DEF OwedOK
  <1>14. ShownTheThreshold
    <2> HIDE DEF NotShown, IdleEval
    <2> QED  BY <1>1, <1>5 DEF ShownTheThreshold
  <1>15. OneNth
    <2> HIDE DEF IdleEval
    <2>1. \A c \in Call : ~(evals[c[1]].counted[c[2]] >= 0)
      <3> SUFFICES ASSUME NEW c \in Call PROVE evals[c[1]].counted[c[2]] = -1  OBVIOUS
      <3> QED  BY <1>1, <1>5, CallParts
    <2> QED  BY <2>1 DEF OneNth
  <1> QED
    BY <1>6, <1>7, <1>8, <1>10, <1>11, <1>12, <1>13, <1>14, <1>15 DEF AggregationInv

LEMMA AggregationStep ==
  AggregationInv /\ [Next]_vars => AggregationInv'
  <1> SUFFICES ASSUME AggregationInv, [Next]_vars PROVE AggregationInv'  OBVIOUS
  <1>1. ASSUME NEW e \in Eval, Step(e) PROVE AggregationInv'
    <2>1. Moves(e) /\ Keeps(e)
      <3>1. ASSUME NEW off \in AtOffsets, Begin(e, off) PROVE Moves(e) /\ Keeps(e)
        BY <3>1, BeginMoves
      <3>2. CASE PlainAppend(e) \/ PgInsert(e)  BY <3>2, AppendMoves
      <3>3. CASE MemoryAppendAndCount(e)  BY <3>3, MemoryAppendAndCountMoves
      <3>4. CASE PlainCount(e)  BY <3>4, PlainCountMoves
      <3>5. CASE PgCount(e)  BY <3>5, PgCountMoves
      <3>6. CASE PgCommit(e)  BY <3>6, PgCommitMoves
      <3>7. CASE PgFails(e)  BY <3>7, PgFailsMoves
      <3>8. ASSUME NEW chosen \in Chosen(e), List(e, chosen) PROVE Moves(e) /\ Keeps(e)
        BY <3>8, ListMoves
      <3> QED  BY <1>1, <3>1, <3>2, <3>3, <3>4, <3>5, <3>6, <3>7, <3>8 DEF Step
    <2> QED  BY <2>1, StepKeeps
  <1>2. CASE Prune  BY <1>2, PruneKeeps
  <1>3. CASE Tick  BY <1>3, TickKeeps
  <1>4. CASE UNCHANGED vars
    <2>1. UNCHANGED <<backend, now, buckets, evals, prunes, owed>>  BY <1>4 DEF vars
    <2>2. TypeOK'
      <3> HIDE DEF EvalState, Row
      <3> QED  BY <2>1 DEF AggregationInv, TypeOK
    <2>3. BucketsOK' /\ KeptOK'
      BY <2>1 DEF AggregationInv, BucketsOK, KeptOK, Passed, Held, Bucket
    <2>4. RowsOK'
      <3> SUFFICES ASSUME NEW a \in Action, NEW r \in Rows(buckets[a]) PROVE RowOK(a, r)'
        BY <2>1 DEF RowsOK
      <3>1. RowOK(a, r)  BY DEF AggregationInv, RowsOK
      <3> QED  BY <2>1, <3>1 DEF RowOK, Passed, Held
    <2>5. StagesOK'  BY <2>1 DEF AggregationInv, StagesOK, StageOK, Passed
    <2>6. CountsOK'
      <3>1. CountsOK  BY DEF AggregationInv
      <3>2. \A e \in Eval : \A i : Passed(e, i)' <=> Passed(e, i)  BY <2>1 DEF Passed
      <3>3. \A c : \A i : Seen(c, Bucket(i), now)' = Seen(c, Bucket(i), now)
        BY <2>1 DEF Seen, Bucket
      <3> QED  BY <2>1, <3>1, <3>2, <3>3 DEF CountsOK
    <2>7. OwedOK'
      BY <2>1 DEF AggregationInv, OwedOK, Current, Full, Within
    <2>8. ShownTheThreshold' /\ OneNth'
      BY <2>1 DEF AggregationInv, ShownTheThreshold, OneNth
    <2> QED  BY <2>2, <2>3, <2>4, <2>5, <2>6, <2>7, <2>8 DEF AggregationInv
  <1> QED  BY <1>1, <1>2, <1>3, <1>4 DEF Next

LEMMA AggregationInvariant == Spec => []AggregationInv
BY AggregationInit, AggregationStep, PTL DEF Spec

-----------------------------------------------------------------------------
(* What it gives. *)

(* The state of the evaluations and of the buckets stays within its types. *)
THEOREM AggregationTypes == Spec => []TypeOK
  <1>1. AggregationInv => TypeOK  BY DEF AggregationInv
  <1> QED  BY <1>1, AggregationInvariant, PTL

(* An evaluation has one entry for each time an action it got past is       *)
(* attached, in that action's bucket and in no other, in each of the stores *)
(* and whatever the others, prune and failing transactions do.              *)
THEOREM EntriesAreOnce == Spec => []EntryPerAttachment
  <1>1. AggregationInv => EntryPerAttachment
    <2> SUFFICES ASSUME AggregationInv, NEW e \in Eval, NEW i \in Place
                 PROVE  /\ Times(<<e, i>>, Attached[i]) <= 1
                        /\ Passed(e, i) /\ evals[e].at >= now - Window
                             => Times(<<e, i>>, Attached[i]) = 1
                        /\ i > evals[e].next /\ ~Passed(e, i)
                             => Times(<<e, i>>, Attached[i]) = 0
                        /\ \A a \in Action \ {Attached[i]} : Times(<<e, i>>, a) = 0
      BY DEF EntryPerAttachment, Passed
    <2>1. Attached[i] \in Action /\ evals[e].next \in Nat
      BY EvalTypes, Attaching DEF AggregationInv
    <2>2. ASSUME NEW a \in Action
          PROVE  IF \E r \in Rows(buckets[a]) : r.by = <<e, i>>
                 THEN /\ Times(<<e, i>>, a) = 1 /\ a = Attached[i]
                      /\ Passed(e, i) \/ i = evals[e].next
                 ELSE Times(<<e, i>>, a) = 0
      <3> DEFINE c == <<e, i>>
                 bucket == buckets[a]
                 own == Own(c, bucket)
      <3>1. DOMAIN bucket = 1..Len(bucket) /\ OneEach(bucket)
        BY BucketTypes DEF AggregationInv, BucketsOK
      <3>2. Times(c, a) = Cardinality(own)  BY DEF Times
      <3> HIDE DEF bucket
      <3>3. CASE \E r \in Rows(bucket) : r.by = c
        <4> HIDE DEF c
        <4>1. PICK k \in 1..Len(bucket) : bucket[k].by = c  BY <3>3 DEF Rows
        <4>2. own = {k}  BY <3>1, <4>1 DEF Own, OneEach
        <4> HIDE DEF own
        <4>3. Times(c, a) = 1  BY <3>2, <4>2, FS_Singleton
        <4>4. PICK r \in Rows(bucket) : r.by = c  BY <3>3
        <4>5. RowOK(a, r)  BY <4>4 DEF AggregationInv, RowsOK, bucket
        <4>6. a = Attached[i] /\ (Passed(e, i) \/ i = evals[e].next)
          BY <4>4, <4>5 DEF RowOK, Held, c
        <4> QED  BY <3>3, <4>3, <4>6 DEF c, bucket
      <3>4. CASE ~ \E r \in Rows(bucket) : r.by = c
        <4> HIDE DEF c
        <4>1. own = {}  BY <3>1, <3>4 DEF Own, Rows
        <4> HIDE DEF own
        <4>2. Times(c, a) = 0  BY <3>2, <4>1, FS_EmptySet
        <4> QED  BY <3>4, <4>2 DEF c, bucket
      <3> QED  BY <3>3, <3>4
    <2>3. Passed(e, i) /\ evals[e].at >= now - Window
            => \E r \in Rows(buckets[Attached[i]]) : r.by = <<e, i>>
      BY DEF AggregationInv, KeptOK, Bucket
    <2>4. \A a \in Action \ {Attached[i]} : Times(<<e, i>>, a) = 0  BY <2>2
    <2>5. i \in Nat  BY Attaching
    <2> QED  BY <2>1, <2>2, <2>3, <2>4, <2>5
  <1> QED  BY <1>1, AggregationInvariant, PTL

(* What an aggregated action is given at the time of its count has as many  *)
(* entries as the threshold, and its own as long as it is in the window.    *)
THEOREM ListsReachTheThreshold == Spec => []ShownTheThreshold
  <1>1. AggregationInv => ShownTheThreshold  BY DEF AggregationInv
  <1> QED  BY <1>1, AggregationInvariant, PTL

(* With a store in the process no append that filled a window that is still *)
(* full goes without a firing or a count to come, however the evaluations   *)
(* interleave, between an append and its count too.                         *)
THEOREM NoCrossingGoesMissed == Spec => []NoMissedThresholdInProcess
  <1>1. AggregationInv => NoMissedThresholdInProcess
    BY DEF AggregationInv, OwedOK, NoMissedThresholdInProcess, NoMissedThreshold
  <1> QED  BY <1>1, AggregationInvariant, PTL

(* With the in-memory store no two calls on one bucket are the Nth in the   *)
(* same instant.                                                            *)
THEOREM TheNthIsOne == Spec => []OneNth
  <1>1. AggregationInv => OneNth  BY DEF AggregationInv
  <1> QED  BY <1>1, AggregationInvariant, PTL
=============================================================================

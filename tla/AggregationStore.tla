-------------------------- MODULE AggregationStore --------------------------
(***************************************************************************)
(* The operations of an aggregation store on one bucket: the binary         *)
(* searches of engine/src/utility/aggregation-store.ts and the queries of   *)
(* demo/src/postgres-storage.ts.  A bucket is the sequence of its entries   *)
(* by `at`, entries with the same `at` in the order of their arrival (the   *)
(* `id` column of the table).                                               *)
(***************************************************************************)
EXTENDS Integers, Sequences, SequencesExt, SequenceSelection

(* The searches of the store halve the range lo..hi until it is empty;      *)
(* left[i] says whether element i lies to the left of what is looked for.   *)
Search(left) ==
  LET search[range \in (0..Len(left)) \X (0..Len(left))] ==
        LET lo  == range[1]
            hi  == range[2]
            mid == (lo + hi) \div 2
        IN  IF lo >= hi THEN lo
            ELSE IF left[mid + 1] THEN search[<<mid + 1, hi>>] ELSE search[<<lo, mid>>]
  IN  search

Bisect(left) == Search(left)[<<0, Len(left)>>]

LowerBound(bucket, target) == Bisect([i \in DOMAIN bucket |-> bucket[i].at < target])

UpperBound(bucket, target) == Bisect([i \in DOMAIN bucket |-> bucket[i].at <= target])

InsertSorted(bucket, entry) == InsertAt(bucket, UpperBound(bucket, entry.at) + 1, entry)

(* list and count in memory: the entries in [now - window, now]. *)
MemoryWindow(bucket, now, window) ==
  SubSeq(bucket, LowerBound(bucket, now - window) + 1, UpperBound(bucket, now))

(* list and countWith in SQL: at_ms >= now - window AND at_ms <= now. *)
SqlWindow(rows, now, window) ==
  Select(rows, [i \in DOMAIN rows |-> rows[i].at >= now - window /\ rows[i].at <= now])

(* Variant: an entry at the cutoff goes too. *)
PrunedThrough(bucket, cutoff) == SubSeq(bucket, UpperBound(bucket, cutoff) + 1, Len(bucket))

MemoryPruned(bucket, cutoff) == SubSeq(bucket, LowerBound(bucket, cutoff) + 1, Len(bucket))

SqlPruned(rows, cutoff) ==
  Select(rows, [i \in DOMAIN rows |-> ~(rows[i].committed /\ rows[i].at < cutoff)])
=============================================================================

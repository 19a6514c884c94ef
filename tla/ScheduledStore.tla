--------------------------- MODULE ScheduledStore ---------------------------
(***************************************************************************)
(* The store of deferred checks behind `.schedule(...)` rules: one record   *)
(* per (ruleId, keyId), and a lease per record while a claim works on it.   *)
(*                                                                          *)
(* Two backends implement it, the in-memory maps of                         *)
(* engine/src/utility/scheduled-store.ts and the table of                   *)
(* demo/src/postgres-storage.ts; an operation is one atomic step in both    *)
(* (a synchronous function body, a single SQL statement).  The operators    *)
(* below are the effect of one call; the modules that EXTEND this one       *)
(* decide when the call takes effect.  They leave no variable of this       *)
(* module unspecified.                                                      *)
(*                                                                          *)
(* A (ruleId, keyId) pair is a Slot.  The payload is left out: the store    *)
(* never looks at it.  `gen` is not in the code: it numbers the triggering  *)
(* events of a slot so that properties can tell a record from the one that  *)
(* replaced it.                                                             *)
(***************************************************************************)
EXTENDS Integers, FiniteSets, Sequences

CONSTANTS Slot,        \* (ruleId, keyId) pairs
          NoRecord,    \* no entry in the inner map, no row
          NoLease,     \* no entry in the lease map, leased_until_ms IS NULL
          NoDeadline   \* ScheduledCheck.deadline === undefined

(* What the store keeps of a pending check. *)
ScheduledCheck ==
  [slot : Slot, gen : Nat, runAt : Nat, scheduledAt : Nat,
   deadline : Nat \cup {NoDeadline}]

ASSUME StoreAssumption ==
  /\ IsFiniteSet(Slot)
  /\ NoRecord \notin ScheduledCheck /\ NoRecord \notin Nat
  /\ NoLease \notin Nat
  /\ NoDeadline \notin Nat

VARIABLES records,     \* ruleId -> keyId -> ScheduledCheck
          leases       \* slot -> leased until (ms)

storeVars == <<records, leases>>

StoreTypeOK ==
  /\ records \in [Slot -> ScheduledCheck \cup {NoRecord}]
  /\ leases \in [Slot -> Nat \cup {NoLease}]
  /\ \A s \in Slot : records[s] # NoRecord => records[s].slot = s

StoreInit ==
  /\ records = [s \in Slot |-> NoRecord]
  /\ leases = [s \in Slot |-> NoLease]

(* A fresh record replaces whatever the slot holds and drops its lease. *)
Enqueue(rec) ==
  /\ records' = [records EXCEPT ![rec.slot] = rec]
  /\ leases' = [leases EXCEPT ![rec.slot] = NoLease]

(* Variants of the operations below, each with one slip; nothing here uses   *)
(* them.  A property is worth its run when one of them breaks it.           *)
ClaimableDespiteLease(t) ==
  { s \in Slot : records[s] # NoRecord /\ records[s].runAt <= t }

ClaimableEarly(t) ==
  { s \in Slot : /\ records[s] # NoRecord
                 /\ leases[s] # NoLease => leases[s] <= t }

ClaimWithoutLease(t, limit, leaseMs, batch) == UNCHANGED storeVars

RemoveKeepingLease(s) ==
  /\ records' = [records EXCEPT ![s] = NoRecord]
  /\ UNCHANGED leases

RemoveEverySlot(s) ==
  /\ records' = [u \in Slot |-> NoRecord]
  /\ leases' = [u \in Slot |-> NoLease]

(* The records a claim at time t may take: due, and not under a lease.  (In *)
(* memory the key of a lease is `${ruleId}:${keyId}`: slots whose names are *)
(* told apart only by where the colon stands share a lease.  Here each slot *)
(* has its own.)                                                            *)
Claimable(t) ==
  { s \in Slot : /\ records[s] # NoRecord
                 /\ records[s].runAt <= t
                 /\ leases[s] # NoLease => leases[s] <= t }

(* The batches a claim at time t may return: at most `limit` of the         *)
(* claimable records, the earliest runAt first, ties in any order (Map      *)
(* insertion order in memory, rule and key order in SQL).                   *)
Batches(t, limit) ==
  LET due  == Claimable(t)
      size == IF Cardinality(due) <= limit THEN Cardinality(due) ELSE limit
  IN  { b \in [1..size -> { records[s] : s \in due }] :
          /\ \A i, j \in 1..size : i < j => b[i] # b[j] /\ b[i].runAt <= b[j].runAt
          /\ \A s \in due : \A i \in 1..size :
               (\A j \in 1..size : b[j] # records[s]) => b[i].runAt <= records[s].runAt }

Claim(t, limit, leaseMs, batch) ==
  /\ batch \in Batches(t, limit)
  /\ leases' = [s \in Slot |->
                  IF leaseMs > 0 /\ \E i \in DOMAIN batch : batch[i].slot = s
                  THEN t + leaseMs ELSE leases[s]]
  /\ UNCHANGED records

(* Removal is by slot: it does not say which record it means to remove. *)
Remove(s) ==
  /\ records' = [records EXCEPT ![s] = NoRecord]
  /\ leases' = [leases EXCEPT ![s] = NoLease]

(* Postpones the record the slot holds now, if any, and frees its lease. *)
Reschedule(s, newRunAt) ==
  IF records[s] = NoRecord
  THEN UNCHANGED storeVars
  ELSE /\ records' = [records EXCEPT ![s] = [@ EXCEPT !.runAt = newRunAt]]
       /\ leases' = [leases EXCEPT ![s] = NoLease]

=============================================================================

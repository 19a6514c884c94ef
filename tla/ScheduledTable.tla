---------------------------- MODULE ScheduledTable ----------------------------
(***************************************************************************)
(* The table demo_scheduled_checks of demo/src/postgres-storage.ts: one     *)
(* statement per operation, the lease a column of the row it guards.  It    *)
(* implements the two maps of ScheduledStore: what one statement does to    *)
(* the table, the operation does to the maps, so that what the runs and the *)
(* theorems of ScheduledWorker say of a durable store they say of this one. *)
(*                                                                          *)
(* Statements take effect one after the other.  A claim that skips the rows *)
(* another claim has locked is one that comes after it, when these rows are *)
(* leased; a claim that skips a row which is being replaced or removed      *)
(* leaves it to the next tick, which is not modelled.                       *)
(***************************************************************************)
EXTENDS Integers, FiniteSets, Sequences, TLAPS

CONSTANTS Slot,        \* (rule_id, key_id) pairs, the primary key
          NoRow,       \* no row with this key
          Null,        \* leased_until_ms IS NULL
          NoDeadline   \* deadline_ms IS NULL

VARIABLE rows

Check == [slot : Slot, gen : Nat, runAt : Nat, scheduledAt : Nat,
          deadline : Nat \cup {NoDeadline}]
Row == [slot : Slot, gen : Nat, runAt : Nat, scheduledAt : Nat,
        deadline : Nat \cup {NoDeadline}, leasedUntil : Nat \cup {Null}]

(* No row at all is told from every row and from every check. *)
Distinguished == NoRow \notin Row \cup Check

TableOK ==
  /\ rows \in [Slot -> Row \cup {NoRow}]
  /\ \A s \in Slot : rows[s] # NoRow => rows[s].slot = s

TableInit == rows = [s \in Slot |-> NoRow]

(* What the code sees of a row. *)
ToScheduledCheck(row) ==
  [slot |-> row.slot, gen |-> row.gen, runAt |-> row.runAt, scheduledAt |-> row.scheduledAt,
   deadline |-> row.deadline]

(* INSERT ... ON CONFLICT DO UPDATE ... leased_until_ms = NULL *)
Upsert(check) ==
  rows' = [rows EXCEPT ![check.slot] =
             [slot |-> check.slot, gen |-> check.gen, runAt |-> check.runAt,
              scheduledAt |-> check.scheduledAt, deadline |-> check.deadline, leasedUntil |-> Null]]

(* WHERE run_at_ms <= $1 AND (leased_until_ms IS NULL OR leased_until_ms <= $1) *)
Due(t) ==
  { s \in Slot : /\ rows[s] # NoRow
                 /\ rows[s].runAt <= t
                 /\ rows[s].leasedUntil = Null \/ rows[s].leasedUntil <= t }

(* ORDER BY run_at_ms LIMIT $2; rule_id and key_id break ties, in an order  *)
(* that is left open.                                                       *)
Selections(t, limit) ==
  LET due  == Due(t)
      size == IF Cardinality(due) <= limit THEN Cardinality(due) ELSE limit
  IN  { q \in [1..size -> due] :
          /\ \A i, j \in 1..size : i < j => q[i] # q[j] /\ rows[q[i]].runAt <= rows[q[j]].runAt
          /\ \A s \in due : \A i \in 1..size :
               (\A j \in 1..size : q[j] # s) => rows[q[i]].runAt <= rows[s].runAt }

(* UPDATE ... SET leased_until_ms = $3 FROM due RETURNING ... *)
UpdateClaimed(t, leaseMs, q) ==
  rows' = [s \in Slot |-> IF \E i \in DOMAIN q : q[i] = s
                          THEN [rows[s] EXCEPT !.leasedUntil = t + leaseMs] ELSE rows[s]]

Returned(q) == [i \in DOMAIN q |-> ToScheduledCheck(rows[q[i]])]

ClaimDue(t, limit, leaseMs) == \E q \in Selections(t, limit) : UpdateClaimed(t, leaseMs, q)

(* DELETE ... WHERE rule_id = $1 AND key_id = $2 *)
Delete(s) == rows' = [rows EXCEPT ![s] = NoRow]

(* UPDATE ... SET run_at_ms = $3, leased_until_ms = NULL WHERE ... *)
Postpone(s, newRunAt) ==
  IF rows[s] = NoRow THEN UNCHANGED rows
  ELSE rows' = [rows EXCEPT ![s] = [[rows[s] EXCEPT !.runAt = newRunAt] EXCEPT !.leasedUntil = Null]]

TableNext ==
  \/ \E check \in Check : Upsert(check)
  \/ \E t \in Nat, limit, leaseMs \in Nat \ {0} : ClaimDue(t, limit, leaseMs)
  \/ \E s \in Slot : Delete(s)
  \/ \E s \in Slot, newRunAt \in Nat : Postpone(s, newRunAt)

TableSpec == TableInit /\ [][TableNext]_rows

-----------------------------------------------------------------------------
(* The maps of the in-memory store a table stands for. *)

Records == [s \in Slot |-> IF rows[s] = NoRow THEN NoRow ELSE ToScheduledCheck(rows[s])]
Leases == [s \in Slot |-> IF rows[s] = NoRow THEN Null ELSE rows[s].leasedUntil]

Store == INSTANCE ScheduledStore WITH
  NoRecord <- NoRow, NoLease <- Null, records <- Records, leases <- Leases

StoreNext ==
  \/ \E rec \in Store!ScheduledCheck : Store!Enqueue(rec)
  \/ \E t \in Nat, limit, leaseMs \in Nat \ {0} :
       \E batch \in Store!Batches(t, limit) : Store!Claim(t, limit, leaseMs, batch)
  \/ \E s \in Slot : Store!Remove(s)
  \/ \E s \in Slot, newRunAt \in Nat : Store!Reschedule(s, newRunAt)

ImplementsStore == Store!StoreInit /\ [][StoreNext]_<<Records, Leases>>
-----------------------------------------------------------------------------
(* The rows keep their type. *)
LEMMA RowsTyped == ASSUME Distinguished PROVE TableSpec => []TableOK
<1> USE DEF TableOK
<1>1. TableInit => TableOK
  BY DEF TableInit
<1>2. ASSUME TableOK, [TableNext]_rows PROVE TableOK'
  <2>1. CASE UNCHANGED rows
    BY <1>2, <2>1
  <2>2. CASE \E check \in Check : Upsert(check)
    BY <1>2, <2>2 DEF Upsert, Check, Row
  <2>3. CASE \E t \in Nat, limit, leaseMs \in Nat \ {0} : ClaimDue(t, limit, leaseMs)
    <3>0. PICK t \in Nat, limit, leaseMs \in Nat \ {0} : ClaimDue(t, limit, leaseMs)
      BY <2>3
    <3>1. PICK q \in Selections(t, limit) : UpdateClaimed(t, leaseMs, q)
      BY <3>0 DEF ClaimDue
    <3>2. \A i \in DOMAIN q : q[i] \in Slot /\ rows[q[i]] # NoRow
      BY DEF Selections, Due
    <3>3. QED
      BY <1>2, <3>1, <3>2 DEF UpdateClaimed, Row
  <2>4. CASE \E s \in Slot : Delete(s)
    BY <1>2, <2>4 DEF Delete
  <2>5. CASE \E s \in Slot, newRunAt \in Nat : Postpone(s, newRunAt)
    <3>1. PICK s \in Slot, newRunAt \in Nat : Postpone(s, newRunAt)
      BY <2>5
    <3>2. rows[s] # NoRow =>
            [[rows[s] EXCEPT !.runAt = newRunAt] EXCEPT !.leasedUntil = Null] \in { r \in Row : r.slot = s }
      BY <1>2 DEF Row
    <3>3. QED
      BY <1>2, <3>1, <3>2 DEF Postpone
  <2>6. QED
    BY <1>2, <2>1, <2>2, <2>3, <2>4, <2>5 DEF TableNext
<1>3. QED
  BY <1>1, <1>2, PTL DEF TableSpec

(* The maps hold what the rows hold. *)
LEMMA MapsOfRows ==
  ASSUME Distinguished, TableOK
  PROVE  \A s \in Slot :
           /\ rows[s] = NoRow => Records[s] = NoRow /\ Leases[s] = Null
           /\ rows[s] # NoRow => /\ Records[s] = ToScheduledCheck(rows[s])
                                /\ Records[s] \in Check /\ Records[s] # NoRow
                                /\ Records[s].slot = s /\ Records[s].runAt = rows[s].runAt
                                /\ Leases[s] = rows[s].leasedUntil
  BY DEF Distinguished, TableOK, Records, Leases, ToScheduledCheck, Row, Check

(* INSERT ... ON CONFLICT is enqueue. *)
LEMMA UpsertIsEnqueue ==
  ASSUME Distinguished, TableOK, TableOK', NEW check \in Check, Upsert(check)
  PROVE  Store!Enqueue(check)
<1> DEFINE row == [slot |-> check.slot, gen |-> check.gen, runAt |-> check.runAt,
                   scheduledAt |-> check.scheduledAt, deadline |-> check.deadline,
                   leasedUntil |-> Null]
<1>1. /\ check.slot \in Slot
      /\ rows' = [rows EXCEPT ![check.slot] = row]
  BY DEF Upsert, Check
<1>2. row \in Row /\ row # NoRow /\ ToScheduledCheck(row) = check /\ row.leasedUntil = Null
  BY DEF Distinguished, Row, Check, ToScheduledCheck
<1> HIDE DEF row
<1>3. Records' = [Records EXCEPT ![check.slot] = check]
  BY <1>1, <1>2 DEF Records, TableOK
<1>4. Leases' = [Leases EXCEPT ![check.slot] = Null]
  BY <1>1, <1>2 DEF Leases, TableOK
<1>5. QED
  BY <1>3, <1>4 DEF Store!Enqueue

(* DELETE is remove. *)
LEMMA DeleteIsRemove ==
  ASSUME Distinguished, TableOK, NEW s \in Slot, Delete(s)
  PROVE  Store!Remove(s)
<1>1. Records' = [Records EXCEPT ![s] = NoRow]
  BY DEF Delete, Records, TableOK
<1>2. Leases' = [Leases EXCEPT ![s] = Null]
  BY DEF Delete, Leases, TableOK
<1>3. QED
  BY <1>1, <1>2 DEF Store!Remove

(* UPDATE ... SET run_at_ms is reschedule. *)
LEMMA PostponeIsReschedule ==
  ASSUME Distinguished, TableOK, NEW s \in Slot, NEW newRunAt \in Nat, Postpone(s, newRunAt)
  PROVE  Store!Reschedule(s, newRunAt)
<1>1. CASE rows[s] = NoRow
  <2>1. Records[s] = NoRow
    BY <1>1, MapsOfRows
  <2>2. Records' = Records /\ Leases' = Leases
    BY <1>1 DEF Postpone, Records, Leases
  <2>3. QED
    BY <2>1, <2>2 DEF Store!Reschedule, Store!storeVars
<1>2. CASE rows[s] # NoRow
  <2> DEFINE row == [[rows[s] EXCEPT !.runAt = newRunAt] EXCEPT !.leasedUntil = Null]
  <2>1. rows' = [rows EXCEPT ![s] = row]
    BY <1>2 DEF Postpone
  <2>2. /\ row \in Row /\ row # NoRow /\ row.leasedUntil = Null
        /\ ToScheduledCheck(row) = [ToScheduledCheck(rows[s]) EXCEPT !.runAt = newRunAt]
    <3>1. rows[s] \in Row
      BY <1>2 DEF TableOK
    <3>2. row \in Row /\ row.leasedUntil = Null
      BY <3>1 DEF Row
    <3>3. row # NoRow
      BY <3>2 DEF Distinguished
    <3>4. /\ row.slot = rows[s].slot /\ row.gen = rows[s].gen /\ row.runAt = newRunAt
          /\ row.scheduledAt = rows[s].scheduledAt /\ row.deadline = rows[s].deadline
      BY <3>1 DEF Row
    <3>5. ToScheduledCheck(row) = [ToScheduledCheck(rows[s]) EXCEPT !.runAt = newRunAt]
      BY <3>4 DEF ToScheduledCheck
    <3>6. QED
      BY <3>2, <3>3, <3>5
  <2> HIDE DEF row
  <2>3. Records[s] = ToScheduledCheck(rows[s]) /\ Records[s] # NoRow
    BY <1>2, MapsOfRows
  <2>4. Records' = [Records EXCEPT ![s] = [Records[s] EXCEPT !.runAt = newRunAt]]
    BY <2>1, <2>2, <2>3 DEF Records, TableOK
  <2>5. Leases' = [Leases EXCEPT ![s] = Null]
    BY <2>1, <2>2 DEF Leases, TableOK
  <2>6. QED
    BY <2>3, <2>4, <2>5 DEF Store!Reschedule
<1>3. QED
  BY <1>1, <1>2

(* The WHERE clause finds what the loop over the maps finds. *)
LEMMA DueIsClaimable ==
  ASSUME Distinguished, TableOK, NEW t \in Nat
  PROVE  Store!Claimable(t) = Due(t)
  BY MapsOfRows DEF Due, Store!Claimable

(* Both modules count the same. *)
LEMMA SameCardinality == ASSUME NEW S PROVE Store!Cardinality(S) = Cardinality(S)
  BY DEF Store!Cardinality, Cardinality

(* UPDATE ... FROM due RETURNING is claim. *)
LEMMA UpdateIsClaim ==
  ASSUME Distinguished, TableOK, NEW t \in Nat, NEW limit \in Nat \ {0}, NEW leaseMs \in Nat \ {0},
         NEW q \in Selections(t, limit), UpdateClaimed(t, leaseMs, q)
  PROVE  /\ Returned(q) \in Store!Batches(t, limit)
         /\ Store!Claim(t, limit, leaseMs, Returned(q))
<1> DEFINE due  == Due(t)
           size == IF Cardinality(due) <= limit THEN Cardinality(due) ELSE limit
           batch == Returned(q)
<1>1. /\ q \in [1..size -> due]
      /\ \A i, j \in 1..size : i < j => q[i] # q[j] /\ rows[q[i]].runAt <= rows[q[j]].runAt
      /\ \A s \in due : \A i \in 1..size :
           (\A j \in 1..size : q[j] # s) => rows[q[i]].runAt <= rows[s].runAt
  BY DEF Selections
<1>2. \A s \in due : /\ s \in Slot /\ rows[s] # NoRow
                     /\ Records[s] = ToScheduledCheck(rows[s])
                     /\ Records[s].slot = s /\ Records[s].runAt = rows[s].runAt
  BY MapsOfRows DEF Due
<1>3. Store!Claimable(t) = due
  BY DueIsClaimable
<1> HIDE DEF due, size
<1>4. DOMAIN batch = 1..size /\ \A i \in 1..size : q[i] \in due /\ batch[i] = Records[q[i]]
  BY <1>1, <1>2 DEF Returned
<1>5. batch \in [1..size -> { Records[s] : s \in due }]
  BY <1>4, <1>1 DEF Returned
<1>6. \A i, j \in 1..size : i < j => batch[i] # batch[j] /\ batch[i].runAt <= batch[j].runAt
  BY <1>1, <1>2, <1>4
<1>7. \A s \in due : \A i \in 1..size :
        (\A j \in 1..size : batch[j] # Records[s]) => batch[i].runAt <= Records[s].runAt
  BY <1>1, <1>2, <1>4
<1>8. batch \in Store!Batches(t, limit)
  <2>1. size = IF Store!Cardinality(due) <= limit THEN Store!Cardinality(due) ELSE limit
    BY SameCardinality DEF size
  <2>2. QED
    BY <1>3, <1>5, <1>6, <1>7, <2>1 DEF Store!Batches
<1>9. Records' = Records
  <2>1. ASSUME NEW s \in Slot PROVE Records'[s] = Records[s]
    <3>1. CASE \E i \in DOMAIN q : q[i] = s
      <4> DEFINE row == [rows[s] EXCEPT !.leasedUntil = t + leaseMs]
      <4>1. rows[s] \in Row /\ rows[s] # NoRow
        BY <3>1, <1>1, <1>2 DEF TableOK
      <4>2. row \in Row /\ row # NoRow /\ ToScheduledCheck(row) = ToScheduledCheck(rows[s])
        BY <4>1 DEF Row, Distinguished, ToScheduledCheck
      <4>3. rows'[s] = row
        BY <3>1 DEF UpdateClaimed
      <4> HIDE DEF row
      <4>4. QED
        BY <4>1, <4>2, <4>3 DEF Records
    <3>2. CASE ~ \E i \in DOMAIN q : q[i] = s
      BY <3>2 DEF UpdateClaimed, Records
    <3>3. QED
      BY <3>1, <3>2
  <2>2. QED
    BY <2>1 DEF Records
<1>10. Leases' = [s \in Slot |-> IF \E i \in DOMAIN batch : batch[i].slot = s
                                THEN t + leaseMs ELSE Leases[s]]
  <2>1. ASSUME NEW s \in Slot
        PROVE  Leases'[s] = IF \E i \in DOMAIN batch : batch[i].slot = s THEN t + leaseMs ELSE Leases[s]
    <3>1. (\E i \in DOMAIN batch : batch[i].slot = s) <=> (\E i \in DOMAIN q : q[i] = s)
      BY <1>1, <1>2, <1>4
    <3>2. CASE \E i \in DOMAIN q : q[i] = s
      <4> DEFINE row == [rows[s] EXCEPT !.leasedUntil = t + leaseMs]
      <4>1. rows[s] \in Row
        BY <3>2, <1>1, <1>2 DEF TableOK
      <4>2. row \in Row /\ row # NoRow /\ row.leasedUntil = t + leaseMs
        BY <4>1 DEF Row, Distinguished
      <4>3. rows'[s] = row
        BY <3>2 DEF UpdateClaimed
      <4> HIDE DEF row
      <4>4. QED
        BY <3>1, <3>2, <4>2, <4>3 DEF Leases
    <3>3. CASE ~ \E i \in DOMAIN q : q[i] = s
      <4>1. rows'[s] = rows[s]
        BY <3>3 DEF UpdateClaimed
      <4>2. QED
        BY <3>1, <3>3, <4>1 DEF Leases
    <3>4. QED
      BY <3>2, <3>3
  <2>2. QED
    BY <2>1 DEF Leases
<1>11. QED
  BY <1>8, <1>9, <1>10 DEF Store!Claim

(* The table of the demo implements the store the worker was written for.   *)
THEOREM TableImplementsStore == ASSUME Distinguished PROVE TableSpec => ImplementsStore
<1>1. TableInit => Store!StoreInit
  BY DEF TableInit, Store!StoreInit, Records, Leases
<1>2. ASSUME TableOK, TableOK', [TableNext]_rows PROVE [StoreNext]_<<Records, Leases>>
  <2>1. CASE UNCHANGED rows
    BY <2>1 DEF Records, Leases
  <2>2. ASSUME NEW check \in Check, Upsert(check) PROVE StoreNext
    BY <1>2, <2>2, UpsertIsEnqueue DEF StoreNext, Store!ScheduledCheck, Check
  <2>3. ASSUME NEW t \in Nat, NEW limit \in Nat \ {0}, NEW leaseMs \in Nat \ {0},
               ClaimDue(t, limit, leaseMs)
        PROVE  StoreNext
    BY <1>2, <2>3, UpdateIsClaim DEF ClaimDue, StoreNext
  <2>4. ASSUME NEW s \in Slot, Delete(s) PROVE StoreNext
    BY <1>2, <2>4, DeleteIsRemove DEF StoreNext
  <2>5. ASSUME NEW s \in Slot, NEW newRunAt \in Nat, Postpone(s, newRunAt) PROVE StoreNext
    BY <1>2, <2>5, PostponeIsReschedule DEF StoreNext
  <2>6. QED
    BY <1>2, <2>1, <2>2, <2>3, <2>4, <2>5 DEF TableNext
<1>3. QED
  BY <1>1, <1>2, RowsTyped, PTL DEF TableSpec, ImplementsStore
=============================================================================

------------------------ MODULE ScheduledWorkerProofs ------------------------
(***************************************************************************)
(* Theorems about ScheduledWorker, for every value of its constants: its    *)
(* types and the rules of the store first, then what a lease is for.        *)
(***************************************************************************)
EXTENDS ScheduledWorker, FiniteSetTheorems, SequenceTheorems, TLAPS

(* A batch returned by the store is a sequence of checks it holds. *)
LEMMA BatchesType ==
  ASSUME StoreTypeOK, NEW t, NEW batch \in Batches(t, Limit)
  PROVE  /\ batch \in Seq(ScheduledCheck)
         /\ \A i \in DOMAIN batch : \E s \in Slot :
              batch[i] = records[s] /\ records[s] # NoRecord /\ batch[i].slot = s
<1> DEFINE due  == Claimable(t)
           size == IF Cardinality(due) <= Limit THEN Cardinality(due) ELSE Limit
<1>1. due \subseteq Slot
  BY DEF Claimable
<1>2. size \in Nat
  BY <1>1, StoreAssumption, WorkerAssumption, FS_Subset, FS_CardinalityType
<1>3. batch \in [1..size -> { records[s] : s \in due }]
  BY DEF Batches
<1>4. { records[s] : s \in due } \subseteq ScheduledCheck
  BY DEF StoreTypeOK, Claimable
<1>5. \A i \in 1..size : \E s \in due : batch[i] = records[s]
  BY <1>3
<1>6. \A s \in due : s \in Slot /\ records[s] # NoRecord /\ records[s].slot = s
  BY DEF Claimable, StoreTypeOK
<1> HIDE DEF due, size
<1>7. batch \in Seq(ScheduledCheck)
  BY <1>2, <1>3, <1>4
<1>8. DOMAIN batch = 1..size
  BY <1>3
<1> QED
  BY <1>5, <1>6, <1>7, <1>8

LEMMA ClaimType ==
  ASSUME StoreTypeOK, NEW t \in Nat, NEW batch \in Batches(t, Limit),
         Claim(t, Limit, LeaseMs, batch)
  PROVE  StoreTypeOK'
<1>1. LeaseMs \in Nat
  BY WorkerAssumption DEF LeaseMs
<1>2. leases' \in [Slot -> Nat \cup {NoLease}]
  BY <1>1 DEF Claim, StoreTypeOK
<1> QED
  BY <1>2 DEF Claim, StoreTypeOK

LEMMA RemoveType ==
  ASSUME StoreTypeOK, NEW s \in Slot, Remove(s)
  PROVE  StoreTypeOK'
BY DEF Remove, StoreTypeOK

LEMMA RescheduleType ==
  ASSUME StoreTypeOK, NEW s \in Slot, NEW t \in Nat, Reschedule(s, t)
  PROVE  StoreTypeOK'
<1>1. CASE records[s] = NoRecord
  BY <1>1 DEF Reschedule, StoreTypeOK, storeVars
<1>2. CASE records[s] # NoRecord
  <2>1. records[s] \in ScheduledCheck
    BY <1>2 DEF StoreTypeOK
  <2>2. [records[s] EXCEPT !.runAt = t] \in ScheduledCheck
    BY <2>1 DEF ScheduledCheck
  <2>3. [records[s] EXCEPT !.runAt = t].slot = s
    BY <2>1, <1>2 DEF ScheduledCheck, StoreTypeOK
  <2> QED
    BY <1>2, <2>2, <2>3 DEF Reschedule, StoreTypeOK
<1> QED
  BY <1>1, <1>2

-----------------------------------------------------------------------------
(* The record at hand. *)
LEMMA CurrentType ==
  ASSUME BatchesTypeOK, NEW b \in Batch, batches[b].todo # << >>
  PROVE  /\ batches[b].todo \in Seq(ScheduledCheck)
         /\ Current(b) \in ScheduledCheck
         /\ Current(b).slot \in Slot
         /\ Current(b) = batches[b].todo[1]
         /\ 1 \in DOMAIN batches[b].todo
<1>1. batches[b].todo \in Seq(ScheduledCheck)
  BY DEF BatchesTypeOK, BatchState
<1>2. Current(b) \in ScheduledCheck /\ Current(b) = batches[b].todo[1]
  BY <1>1 DEF Current
<1>3. 1 \in DOMAIN batches[b].todo
  BY <1>1
<1> QED
  BY <1>1, <1>2, <1>3 DEF ScheduledCheck

LEMMA FinishType ==
  ASSUME BatchesTypeOK, NEW b \in Batch, Finish(b)
  PROVE  BatchesTypeOK'
<1>1. Idle \in BatchState
  BY DEF Idle, BatchState, Phase, Outcome
<1> QED
  BY <1>1 DEF Finish, BatchesTypeOK, Idle, Phase

LEMMA ProceedType ==
  ASSUME BatchesTypeOK, NEW b \in Batch, batches[b].todo # << >>, Proceed(b)
  PROVE  BatchesTypeOK'
<1>1. CASE Len(batches[b].todo) = 1
  BY <1>1, FinishType DEF Proceed
<1>2. CASE Len(batches[b].todo) # 1
  <2>1. batches[b].todo \in Seq(ScheduledCheck)
    BY CurrentType
  <2>2. Tail(batches[b].todo) \in Seq(ScheduledCheck) /\ Tail(batches[b].todo) # << >>
    <3> DEFINE q == batches[b].todo
    <3>1. q \in Seq(ScheduledCheck) /\ q # << >> /\ Len(q) # 1
      BY <2>1, <1>2
    <3> HIDE DEF q
    <3>2. Tail(q) \in Seq(ScheduledCheck) /\ Len(Tail(q)) = Len(q) - 1
      BY <3>1, HeadTailProperties
    <3>3. Len(q) - 1 # 0
      BY <3>1
    <3>4. Tail(q) # << >>
      BY <3>2, <3>3, EmptySeq
    <3> QED
      BY <3>2, <3>4 DEF q
  <2> DEFINE next == [Idle EXCEPT !.pc = "next", !.todo = Tail(batches[b].todo)]
  <2>3. next \in BatchState /\ next.todo # << >>
    BY <2>2 DEF Idle, BatchState, Phase, Outcome
  <2>4. batches' = [batches EXCEPT ![b] = next] /\ draining' = draining
    BY <1>2 DEF Proceed
  <2> HIDE DEF next
  <2> QED
    BY <2>3, <2>4 DEF BatchesTypeOK
<1> QED
  BY <1>1, <1>2

LEMMA AwaitRemoveType ==
  ASSUME BatchesTypeOK, NEW b \in Batch, batches[b].todo # << >>,
         NEW outcome \in Outcome, AwaitRemove(b, outcome)
  PROVE  BatchesTypeOK'
<1> DEFINE next == [Idle EXCEPT !.pc = "removing", !.todo = batches[b].todo,
                                !.outcome = outcome]
<1>1. next \in BatchState /\ next.todo # << >>
  BY CurrentType DEF Idle, BatchState, Phase
<1>2. batches' = [batches EXCEPT ![b] = next] /\ draining' = draining
  BY DEF AwaitRemove
<1> HIDE DEF next
<1> QED
  BY <1>1, <1>2 DEF BatchesTypeOK

LEMMA ClearAttemptsType ==
  ASSUME AttemptsTypeOK, NEW rec, ClearAttempts(rec)
  PROVE  AttemptsTypeOK'
BY DEF AttemptsTypeOK, ClearAttempts, Restrict

LEMMA HandleFailureType ==
  ASSUME BatchesTypeOK, AttemptsTypeOK, NEW b \in Batch, batches[b].todo # << >>,
         HandleFailure(b)
  PROVE  BatchesTypeOK' /\ AttemptsTypeOK'
<1> DEFINE rec == Current(b)
           n   == Attempts(rec) + 1
<1>1. rec \in ScheduledCheck
  BY CurrentType
<1>2. AttemptKey(rec) \in Slot \X Nat
  BY <1>1 DEF AttemptKey, ScheduledCheck
<1>3. n \in Nat
  BY DEF Attempts, AttemptsTypeOK
<1>4. CASE n < MaxAttempts
  <2>1. StoreAttempts(rec, n) /\ Proceed(b)
    BY <1>4 DEF HandleFailure
  <2> HIDE DEF n, rec
  <2>2. AttemptsTypeOK'
    BY <2>1, <1>2, <1>3 DEF StoreAttempts, AttemptsTypeOK
  <2> QED
    BY <2>1, <2>2, ProceedType
<1>5. CASE ~(n < MaxAttempts)
  <2>1. ClearAttempts(rec) /\ AwaitRemove(b, "max_attempts_exceeded")
    BY <1>5 DEF HandleFailure
  <2> QED
    BY <2>1, ClearAttemptsType, AwaitRemoveType DEF Outcome
<1> QED
  BY <1>4, <1>5

(* Whatever a round of a check came to, the history keeps its type. *)
LEMMA RoundType ==
  ASSUME BatchesTypeOK, HistoryTypeOK, NEW b \in Batch, batches[b].todo # << >>,
         RoundFails(b) \/ RoundIsOver(b), UNCHANGED <<triggers, crashes, stops, acted>>
  PROVE  HistoryTypeOK'
<1> DEFINE d == Trigger(Current(b))
<1>1. d \in Slot \X Nat \X Nat
  BY CurrentType DEF Trigger, ScheduledCheck
<1>2. Failures(d) + 1 \in Nat
  BY DEF Failures, HistoryTypeOK
<1>3. CASE RoundFails(b)
  <2>1. failures' = [x \in DOMAIN failures \cup {d} |->
                       IF x = d THEN Failures(d) + 1 ELSE failures[x]]
    BY <1>3 DEF RoundFails
  <2> HIDE DEF d
  <2> QED
    BY <2>1, <1>1, <1>2 DEF HistoryTypeOK
<1>4. CASE RoundIsOver(b)
  <2>1. failures' = Restrict(failures, DOMAIN failures \ {d})
    BY <1>4 DEF RoundIsOver
  <2> HIDE DEF d
  <2> QED
    BY <2>1 DEF HistoryTypeOK, Restrict
<1> QED
  BY <1>3, <1>4

-----------------------------------------------------------------------------
(* Type correctness. *)
LEMMA InitType == Init => TypeOK
<1> SUFFICES ASSUME Init PROVE TypeOK
  OBVIOUS
<1>1. StoreTypeOK
  BY DEF Init, StoreInit, StoreTypeOK
<1>2. Idle \in BatchState
  BY DEF Idle, BatchState, Phase, Outcome
<1>3. BatchesTypeOK
  BY <1>2 DEF Init, BatchesTypeOK, Idle
<1> QED
  BY <1>1, <1>3
  DEF Init, TypeOK, ControlTypeOK, AttemptsTypeOK, HistoryTypeOK

LEMMA ScheduleType ==
  ASSUME TypeOK, NEW s \in Slot, NEW t \in 0..now, Schedule(s, t)
  PROVE  TypeOK'
<1> DEFINE rec == [slot |-> s, gen |-> triggers[s] + 1, runAt |-> t + Delay,
                   scheduledAt |-> t,
                   deadline |-> IF Deadline = NoDeadline THEN NoDeadline ELSE t + Deadline]
<1>1. t \in Nat /\ Delay \in Nat /\ (Deadline = NoDeadline \/ Deadline \in Nat)
  BY WorkerAssumption DEF TypeOK, ControlTypeOK
<1>2. rec \in ScheduledCheck /\ rec.slot = s
  BY <1>1 DEF ScheduledCheck, TypeOK, HistoryTypeOK
<1>3. Enqueue(rec)
  BY DEF Schedule
<1> HIDE DEF rec
<1>4. StoreTypeOK'
  BY <1>2, <1>3 DEF Enqueue, StoreTypeOK, TypeOK
<1>5. HistoryTypeOK'
  BY DEF Schedule, TypeOK, HistoryTypeOK
<1> QED
  BY <1>4, <1>5
  DEF Schedule, workerVars, TypeOK, ControlTypeOK, BatchesTypeOK, AttemptsTypeOK

LEMMA StopType ==
  ASSUME TypeOK, Stop
  PROVE  TypeOK'
<1>1. \A b \in Batch : [batches[b] EXCEPT !.aborted = TRUE] \in BatchState
  BY DEF TypeOK, BatchesTypeOK, BatchState
<1>2. BatchesTypeOK'
  BY <1>1 DEF Stop, TypeOK, BatchesTypeOK, BatchState
<1> QED
  BY <1>2 DEF Stop, storeVars, TypeOK, StoreTypeOK, ControlTypeOK, AttemptsTypeOK,
              HistoryTypeOK

LEMMA CrashType ==
  ASSUME TypeOK, Crash
  PROVE  TypeOK'
<1>1. Idle \in BatchState
  BY DEF Idle, BatchState, Phase, Outcome
<1>2. BatchesTypeOK'
  BY <1>1 DEF Crash, BatchesTypeOK, Idle
<1>3. StoreTypeOK'
  BY DEF Crash, storeVars, TypeOK, StoreTypeOK
<1>4. AttemptsTypeOK'
  <2>1. attempts' = [k \in {} |-> 0]
    BY DEF Crash
  <2>2. DOMAIN attempts' = {}
    BY <2>1
  <2> QED
    BY <2>2 DEF AttemptsTypeOK
<1>5. ControlTypeOK'
  BY DEF Crash, TypeOK, ControlTypeOK
<1>6. HistoryTypeOK'
  BY DEF Crash, TypeOK, HistoryTypeOK
<1> QED
  BY <1>2, <1>3, <1>4, <1>5, <1>6 DEF TypeOK

LEMMA RunTickType ==
  ASSUME TypeOK, RunTick
  PROVE  TypeOK'
<1>1. [Idle EXCEPT !.pc = "claiming", !.at = now] \in BatchState
  <2>1. now \in Nat
    BY DEF TypeOK, ControlTypeOK
  <2>2. Idle \in BatchState
    BY DEF Idle, BatchState, Phase, Outcome
  <2>3. "claiming" \in Phase
    BY DEF Phase
  <2> QED
    BY <2>1, <2>2, <2>3 DEF BatchState
<1>2. BatchesTypeOK'
  BY <1>1 DEF RunTick, TypeOK, BatchesTypeOK, Idle
<1>3. timer' \in Nat
  BY WorkerAssumption DEF RunTick, TypeOK, ControlTypeOK
<1> QED
  BY <1>2, <1>3 DEF RunTick, storeVars, history, TypeOK, StoreTypeOK, ControlTypeOK,
                    AttemptsTypeOK, HistoryTypeOK

(* The steps of a batch, one case per action. *)
LEMMA BatchStepType ==
  ASSUME TypeOK, NEW b \in Batch, BatchStep(b)
  PROVE  TypeOK'
<1> USE DEF TypeOK
<1>a. batches[b] \in BatchState
  BY DEF BatchesTypeOK
<1>b. ASSUME batches[b].pc \in Phase \ {"idle", "claiming"}
      PROVE  /\ batches[b].todo # << >>
             /\ Current(b) \in ScheduledCheck
             /\ Current(b).slot \in Slot
  BY <1>b, CurrentType DEF BatchesTypeOK
<1>1. CASE ClaimReturns(b)
  <2>1. PICK batch \in Batches(batches[b].at, Limit) :
          /\ Claim(batches[b].at, Limit, LeaseMs, batch)
          /\ IF batch = << >>
             THEN Finish(b)
             ELSE /\ batches' = [batches EXCEPT ![b] =
                                   [Idle EXCEPT !.pc = "next", !.todo = batch]]
                  /\ UNCHANGED draining
    BY <1>1 DEF ClaimReturns
  <2>2. batch \in Seq(ScheduledCheck)
    BY BatchesType
  <2>3. StoreTypeOK'
    BY <2>1, <1>a, ClaimType DEF BatchState
  <2>4. BatchesTypeOK'
    <3>1. CASE batch = << >>
      BY <2>1, <3>1, FinishType
    <3>2. CASE batch # << >>
      <4> DEFINE next == [Idle EXCEPT !.pc = "next", !.todo = batch]
      <4>1. next \in BatchState /\ next.todo # << >>
        BY <2>2, <3>2 DEF Idle, BatchState, Phase, Outcome
      <4>2. batches' = [batches EXCEPT ![b] = next] /\ draining' = draining
        BY <2>1, <3>2
      <4> HIDE DEF next
      <4> QED
        BY <4>1, <4>2 DEF BatchesTypeOK
    <3> QED
      BY <3>1, <3>2
  <2> QED
    BY <1>1, <2>3, <2>4 DEF ClaimReturns, history, ControlTypeOK, AttemptsTypeOK,
                            HistoryTypeOK
<1>2. CASE ClaimFails(b)
  <2>1. StoreTypeOK'
    BY <1>2, <1>a, ClaimType DEF ClaimFails, BatchState, storeVars, StoreTypeOK
  <2>2. BatchesTypeOK'
    BY <1>2, FinishType DEF ClaimFails
  <2> QED
    BY <1>2, <2>1, <2>2 DEF ClaimFails, history, ControlTypeOK, AttemptsTypeOK, HistoryTypeOK
<1>3. CASE StartCheck(b)
  <2>1. [batches[b] EXCEPT !.pc = "checking", !.startedAt = now] \in BatchState
    BY <1>a DEF BatchState, Phase, ControlTypeOK
  <2>2. batches[b].todo # << >>
    BY <1>3, <1>b DEF StartCheck, Phase
  <2>3. BatchesTypeOK'
    <3>1. CASE AwaitRemove(b, "orphan")
      BY <2>2, <3>1, <1>a, AwaitRemoveType DEF Outcome
    <3>2. CASE ~AwaitRemove(b, "orphan")
      <4> DEFINE next == [batches[b] EXCEPT !.pc = "checking", !.startedAt = now]
      <4>1. batches' = [batches EXCEPT ![b] = next] /\ draining' = draining
        BY <1>3, <3>2 DEF StartCheck
      <4>2. next \in BatchState /\ next.pc = "checking" /\ next.todo # << >>
        BY <2>1, <2>2, <1>a DEF BatchState
      <4> HIDE DEF next
      <4> QED
        BY <1>a, <4>1, <4>2 DEF BatchesTypeOK
    <3> QED
      BY <3>1, <3>2
  <2> QED
    BY <1>3, <2>3 DEF StartCheck, history, storeVars, StoreTypeOK, ControlTypeOK,
                      AttemptsTypeOK, HistoryTypeOK
<1>4. CASE CheckPasses(b)
  <2>1. [batches[b] EXCEPT !.pc = "acting"] \in BatchState
    BY <1>a DEF BatchState, Phase
  <2>2. batches[b].todo # << >>
    BY <1>4, <1>b DEF CheckPasses, Phase
  <2>3. BatchesTypeOK'
    BY <1>4, <2>1, <2>2, <1>a DEF CheckPasses, BatchesTypeOK, BatchState
  <2> QED
    BY <1>4, <2>3 DEF CheckPasses, history, storeVars, StoreTypeOK, ControlTypeOK,
                      AttemptsTypeOK, HistoryTypeOK
<1>5. CASE CheckSkips(b)
  <2>1. BatchesTypeOK'
    BY <1>5, <1>b, AwaitRemoveType DEF CheckSkips, Phase, Outcome
  <2> QED
    BY <1>5, <2>1 DEF CheckSkips, history, storeVars, StoreTypeOK, ControlTypeOK,
                      AttemptsTypeOK, HistoryTypeOK
<1>6. CASE CheckRejected(b)
  <2>1. BatchesTypeOK' /\ AttemptsTypeOK'
    BY <1>6, <1>b, HandleFailureType DEF CheckRejected, Phase
  <2>2. HistoryTypeOK'
    BY <1>6, <1>b, RoundType DEF CheckRejected, Phase
  <2> QED
    BY <1>6, <2>1, <2>2 DEF CheckRejected, storeVars, StoreTypeOK, ControlTypeOK
<1>7. ASSUME NEW after \in After, CheckRechecks(b, after)
      PROVE  TypeOK'
  <2>1. batches[b].todo # << >>
    BY <1>7, <1>b DEF CheckRechecks, Phase
  <2>2. now + after \in Nat
    BY WorkerAssumption DEF ControlTypeOK
  <2> DEFINE next == [Idle EXCEPT !.pc = "rescheduling", !.todo = batches[b].todo,
                                  !.newRunAt = now + after]
  <2>3. next \in BatchState /\ next.todo # << >>
    BY <1>a, <2>1, <2>2 DEF Idle, BatchState, Phase, Outcome
  <2>4. \/ AwaitRemove(b, "deadline_exceeded")
        \/ batches' = [batches EXCEPT ![b] = next] /\ draining' = draining
    BY <1>7 DEF CheckRechecks
  <2> HIDE DEF next
  <2>5. BatchesTypeOK'
    BY <2>1, <2>3, <2>4, AwaitRemoveType DEF BatchesTypeOK, Outcome
  <2> QED
    BY <1>7, <2>5 DEF CheckRechecks, history, storeVars, StoreTypeOK, ControlTypeOK,
                      AttemptsTypeOK, HistoryTypeOK
<1>8. CASE ActionsSucceed(b)
  <2>1. BatchesTypeOK'
    BY <1>8, <1>b, AwaitRemoveType DEF ActionsSucceed, Phase, Outcome
  <2>2. Decision(Current(b)) \in Slot \X Nat
    BY <1>8, <1>b DEF ActionsSucceed, Phase, Decision, ScheduledCheck
  <2> QED
    BY <1>8, <2>1, <2>2 DEF ActionsSucceed, storeVars, StoreTypeOK, ControlTypeOK,
                            AttemptsTypeOK, HistoryTypeOK
<1>9. CASE ActionsFail(b)
  <2>1. BatchesTypeOK' /\ AttemptsTypeOK'
    BY <1>9, <1>b, HandleFailureType DEF ActionsFail, Phase
  <2>2. HistoryTypeOK'
    BY <1>9, <1>b, RoundType DEF ActionsFail, Phase
  <2> QED
    BY <1>9, <2>1, <2>2 DEF ActionsFail, storeVars, StoreTypeOK, ControlTypeOK
<1>10. CASE Watchdog(b)
  <2>1. [batches[b] EXCEPT !.aborted = TRUE] \in BatchState
    BY <1>a DEF BatchState
  <2>2. BatchesTypeOK'
    BY <1>10, <2>1, <1>a DEF Watchdog, BatchesTypeOK, BatchState
  <2> QED
    BY <1>10, <2>2 DEF Watchdog, history, storeVars, StoreTypeOK, ControlTypeOK,
                       AttemptsTypeOK, HistoryTypeOK
<1>11. CASE ScopeRejects(b)
  <2>1. BatchesTypeOK' /\ AttemptsTypeOK'
    BY <1>11, <1>b, HandleFailureType DEF ScopeRejects, InScope, Phase
  <2>2. HistoryTypeOK'
    BY <1>11, <1>b, RoundType DEF ScopeRejects, InScope, Phase
  <2> QED
    BY <1>11, <2>1, <2>2 DEF ScopeRejects, storeVars, StoreTypeOK, ControlTypeOK
<1>12. CASE RemoveReturns(b)
  <2>1. BatchesTypeOK'
    BY <1>12, <1>b, ProceedType DEF RemoveReturns, Phase
  <2>2. StoreTypeOK'
    BY <1>12, <1>b, RemoveType DEF RemoveReturns, Phase
  <2>3. AttemptsTypeOK'
    BY <1>12, ClearAttemptsType DEF RemoveReturns, AttemptsTypeOK
  <2>4. HistoryTypeOK'
    BY <1>12, <1>b, RoundType DEF RemoveReturns, Phase, HistoryTypeOK
  <2> QED
    BY <1>12, <2>1, <2>2, <2>3, <2>4 DEF RemoveReturns, ControlTypeOK
<1>13. CASE RemoveFails(b)
  <2>1. BatchesTypeOK' /\ AttemptsTypeOK'
    BY <1>13, <1>b, FinishType, HandleFailureType DEF RemoveFails, Phase, AttemptsTypeOK
  <2>2. StoreTypeOK'
    BY <1>13, <1>b, RemoveType DEF RemoveFails, Phase, storeVars, StoreTypeOK
  <2>3. HistoryTypeOK'
    BY <1>13, <1>b, RoundType DEF RemoveFails, Phase, HistoryTypeOK
  <2> QED
    BY <1>13, <2>1, <2>2, <2>3 DEF RemoveFails, ControlTypeOK
<1>14. CASE RescheduleReturns(b)
  <2>1. BatchesTypeOK'
    BY <1>14, <1>b, ProceedType DEF RescheduleReturns, Phase
  <2>2. StoreTypeOK'
    BY <1>14, <1>a, <1>b, RescheduleType DEF RescheduleReturns, Phase, BatchState
  <2>3. AttemptsTypeOK'
    BY <1>14, ClearAttemptsType DEF RescheduleReturns
  <2>4. HistoryTypeOK'
    BY <1>14, <1>b, RoundType DEF RescheduleReturns, Phase
  <2> QED
    BY <1>14, <2>1, <2>2, <2>3, <2>4 DEF RescheduleReturns, ControlTypeOK
<1>15. CASE RescheduleFails(b)
  <2>1. BatchesTypeOK' /\ AttemptsTypeOK'
    BY <1>15, <1>b, HandleFailureType DEF RescheduleFails, Phase
  <2>2. StoreTypeOK'
    BY <1>15, <1>a, <1>b, RescheduleType
    DEF RescheduleFails, Phase, BatchState, storeVars, StoreTypeOK
  <2>3. HistoryTypeOK'
    BY <1>15, <1>b, RoundType DEF RescheduleFails, Phase
  <2> QED
    BY <1>15, <2>1, <2>2, <2>3 DEF RescheduleFails, ControlTypeOK
<1> QED
  BY <1>1, <1>2, <1>3, <1>4, <1>5, <1>6, <1>7, <1>8, <1>9, <1>10, <1>11, <1>12, <1>13,
     <1>14, <1>15
  DEF BatchStep

LEMMA NextType == TypeOK /\ [Next]_vars => TypeOK'
<1> SUFFICES ASSUME TypeOK, [Next]_vars PROVE TypeOK'
  OBVIOUS
<1>1. CASE Register
  BY <1>1 DEF Register, storeVars, history, TypeOK, StoreTypeOK, ControlTypeOK,
              BatchesTypeOK, AttemptsTypeOK, HistoryTypeOK
<1>2. CASE \E s \in Slot : \E t \in 0..now : Schedule(s, t)
  BY <1>2, ScheduleType
<1>3. CASE Start
  <2>1. timer' \in Nat
    BY <1>3, WorkerAssumption DEF Start, TypeOK, ControlTypeOK
  <2> QED
    BY <1>3, <2>1 DEF Start, storeVars, history, TypeOK, StoreTypeOK, ControlTypeOK,
                      BatchesTypeOK, AttemptsTypeOK, HistoryTypeOK
<1>4. CASE Stop
  BY <1>4, StopType
<1>5. CASE Crash
  BY <1>5, CrashType
<1>6. CASE RunTick
  BY <1>6, RunTickType
<1>7. CASE \E b \in Batch : BatchStep(b)
  BY <1>7, BatchStepType
<1>8. CASE ClockAdvances
  BY <1>8 DEF ClockAdvances, storeVars, workerVars, history, TypeOK, StoreTypeOK,
              ControlTypeOK, BatchesTypeOK, AttemptsTypeOK, HistoryTypeOK
<1>9. CASE UNCHANGED vars
  BY <1>9 DEF vars, storeVars, workerVars, history, TypeOK, StoreTypeOK, ControlTypeOK,
              BatchesTypeOK, AttemptsTypeOK, HistoryTypeOK
<1> QED
  BY <1>1, <1>2, <1>3, <1>4, <1>5, <1>6, <1>7, <1>8, <1>9 DEF Next, AtHorizon

(* Every variable keeps its type, and a batch that is past its claim always *)
(* has a record to handle: the loop of processClaim never runs off the end  *)
(* of what was claimed.                                                     *)
THEOREM TypeCorrect == Spec => []TypeOK
BY InitType, NextType, PTL DEF Spec

-----------------------------------------------------------------------------
(* What a step of a batch does to the store and to its own state. *)

(* The store is left alone, or one call takes effect. *)
StoreEffect(b) ==
  \/ UNCHANGED storeVars
  \/ /\ batches[b].pc = "claiming"
     /\ \E batch \in Batches(batches[b].at, Limit) :
          Claim(batches[b].at, Limit, LeaseMs, batch)
  \/ batches[b].pc = "removing" /\ Remove(Current(b).slot)
  \/ /\ batches[b].pc = "rescheduling"
     /\ Reschedule(Current(b).slot, batches[b].newRunAt)

LEMMA StoreEffects ==
  ASSUME TypeOK, NEW b \in Batch, BatchStep(b)
  PROVE  StoreEffect(b)
<1>1. CASE ClaimReturns(b) \/ ClaimFails(b)
  BY <1>1 DEF ClaimReturns, ClaimFails, StoreEffect
<1>2. CASE \/ StartCheck(b) \/ CheckPasses(b) \/ CheckSkips(b) \/ CheckRejected(b)
           \/ \E after \in After : CheckRechecks(b, after)
           \/ ActionsSucceed(b) \/ ActionsFail(b) \/ Watchdog(b) \/ ScopeRejects(b)
  BY <1>2 DEF StartCheck, CheckPasses, CheckSkips, CheckRejected, CheckRechecks,
              ActionsSucceed, ActionsFail, Watchdog, ScopeRejects, StoreEffect
<1>3. CASE RemoveReturns(b) \/ RemoveFails(b)
  BY <1>3 DEF RemoveReturns, RemoveFails, StoreEffect
<1>4. CASE RescheduleReturns(b) \/ RescheduleFails(b)
  BY <1>4 DEF RescheduleReturns, RescheduleFails, StoreEffect
<1> QED
  BY <1>1, <1>2, <1>3, <1>4 DEF BatchStep

(* The batch goes on: it keeps its records, drops the first or is over. *)
GoesOn(b) ==
  /\ \A d \in Batch \ {b} : batches'[d] = batches[d]
  /\ draining' = draining \/ (draining' = draining \ {b} /\ batches'[b].pc = "idle")
  /\ batches'[b].todo \in {<< >>, batches[b].todo, Tail(batches[b].todo)}

LEMMA ProceedGoesOn ==
  ASSUME TypeOK, NEW b \in Batch, Proceed(b) \/ Finish(b)
  PROVE  GoesOn(b) /\ batches'[b].outcome = "none" /\ batches'[b].pc # "rescheduling"
<1>1. CASE Finish(b)
  BY <1>1 DEF Finish, Idle, GoesOn, TypeOK, BatchesTypeOK
<1>2. CASE Proceed(b) /\ Len(batches[b].todo) # 1
  <2> DEFINE next == [Idle EXCEPT !.pc = "next", !.todo = Tail(batches[b].todo)]
  <2>1. batches' = [batches EXCEPT ![b] = next] /\ draining' = draining
    BY <1>2 DEF Proceed
  <2>2. /\ next.pc = "next" /\ next.outcome = "none"
        /\ next.todo = Tail(batches[b].todo)
    BY DEF Idle
  <2> HIDE DEF next
  <2> QED
    BY <2>1, <2>2 DEF GoesOn, TypeOK, BatchesTypeOK
<1> QED
  BY <1>1, <1>2 DEF Proceed

LEMMA AwaitRemoveGoesOn ==
  ASSUME TypeOK, NEW b \in Batch, NEW outcome, AwaitRemove(b, outcome)
  PROVE  /\ GoesOn(b) /\ batches'[b].todo = batches[b].todo
         /\ batches'[b].outcome = outcome /\ batches'[b].pc = "removing"
<1> DEFINE next == [Idle EXCEPT !.pc = "removing", !.todo = batches[b].todo,
                                !.outcome = outcome]
<1>1. batches' = [batches EXCEPT ![b] = next] /\ draining' = draining
  BY DEF AwaitRemove
<1>2. next.pc = "removing" /\ next.outcome = outcome /\ next.todo = batches[b].todo
  BY DEF Idle
<1> HIDE DEF next
<1> QED
  BY <1>1, <1>2 DEF GoesOn, TypeOK, BatchesTypeOK

LEMMA HandleFailureGoesOn ==
  ASSUME TypeOK, NEW b \in Batch, HandleFailure(b)
  PROVE  /\ GoesOn(b) /\ batches'[b].pc # "rescheduling"
         /\ batches'[b].outcome = "max_attempts_exceeded" =>
              ~(Attempts(Current(b)) + 1 < MaxAttempts)
<1>1. CASE Attempts(Current(b)) + 1 < MaxAttempts /\ Proceed(b)
  BY <1>1, ProceedGoesOn
<1>2. CASE /\ ~(Attempts(Current(b)) + 1 < MaxAttempts)
           /\ AwaitRemove(b, "max_attempts_exceeded")
  BY <1>2, AwaitRemoveGoesOn
<1> QED
  BY <1>1, <1>2 DEF HandleFailure

(* The last attempt of the current record has failed. *)
GivesUp(b) ==
  HandleFailure(b) /\ RoundFails(b) /\ ~(Attempts(Current(b)) + 1 < MaxAttempts)

(* The records a batch has after a step, and what its phase then means. *)
BatchEffect(b) ==
  /\ Running(b)
  /\ \A d \in Batch \ {b} : batches'[d] = batches[d]
  /\ draining' = draining \/ (draining' = draining \ {b} /\ batches'[b].pc = "idle")
  /\ \/ batches'[b].todo \in {<< >>, batches[b].todo, Tail(batches[b].todo)}
     \/ batches'[b].todo \in Batches(batches[b].at, Limit) /\ UNCHANGED records
  /\ batches'[b].outcome = "max_attempts_exceeded" =>
       batches[b].outcome = "max_attempts_exceeded" \/ GivesUp(b)
  /\ batches'[b].pc = "rescheduling" =>
       /\ batches'[b].todo = batches[b].todo
       /\ \/ Current(b).deadline = NoDeadline
          \/ batches'[b].newRunAt <= Current(b).deadline

LEMMA BatchEffects ==
  ASSUME TypeOK, NEW b \in Batch, BatchStep(b)
  PROVE  BatchEffect(b)
<1> USE DEF Running, GoesOn, BatchEffect
<1>a. batches \in [Batch -> BatchState]
  BY DEF TypeOK, BatchesTypeOK
<1>1. CASE ClaimReturns(b)
  <2>1. CASE Finish(b)
    BY <1>1, <2>1, ProceedGoesOn DEF ClaimReturns
  <2>2. CASE \E batch \in Batches(batches[b].at, Limit) :
               /\ batches' = [batches EXCEPT ![b] = [Idle EXCEPT !.pc = "next", !.todo = batch]]
               /\ UNCHANGED <<draining, records>>
    <3>1. PICK batch \in Batches(batches[b].at, Limit) :
            /\ batches' = [batches EXCEPT ![b] = [Idle EXCEPT !.pc = "next", !.todo = batch]]
            /\ UNCHANGED <<draining, records>>
      BY <2>2
    <3> DEFINE next == [Idle EXCEPT !.pc = "next", !.todo = batch]
    <3>2. next.pc = "next" /\ next.todo = batch /\ next.outcome = "none"
      BY DEF Idle
    <3> HIDE DEF next
    <3>3. batches' = [batches EXCEPT ![b] = next] /\ UNCHANGED <<draining, records>>
      BY <3>1 DEF next
    <3>4. batches[b].pc = "claiming"
      BY <1>1 DEF ClaimReturns
    <3> QED
      BY <3>2, <3>3, <3>4, <1>a
  <2> QED
    BY <1>1, <2>1, <2>2 DEF ClaimReturns, Claim
<1>2. CASE ClaimFails(b)
  BY <1>2, ProceedGoesOn DEF ClaimFails
<1>3. CASE StartCheck(b)
  <2>1. CASE AwaitRemove(b, "orphan")
    BY <1>3, <2>1, AwaitRemoveGoesOn DEF StartCheck
  <2>2. CASE ~AwaitRemove(b, "orphan")
    <3> DEFINE next == [batches[b] EXCEPT !.pc = "checking", !.startedAt = now]
    <3>1. /\ batches' = [batches EXCEPT ![b] = next]
          /\ draining' = draining /\ batches[b].pc = "next"
      BY <1>3, <2>2 DEF StartCheck
    <3>2. /\ next.pc = "checking" /\ next.outcome = batches[b].outcome
          /\ next.todo = batches[b].todo
      BY <1>a DEF BatchState
    <3> HIDE DEF next
    <3> QED
      BY <1>a, <3>1, <3>2
  <2> QED
    BY <2>1, <2>2
<1>4. CASE CheckPasses(b)
  BY <1>4, <1>a DEF CheckPasses, BatchState
<1>5. CASE CheckSkips(b)
  BY <1>5, AwaitRemoveGoesOn DEF CheckSkips
<1>6. CASE CheckRejected(b)
  BY <1>6, HandleFailureGoesOn DEF CheckRejected, GivesUp
<1>7. ASSUME NEW after \in After, CheckRechecks(b, after)
      PROVE  BatchEffect(b)
  <2> DEFINE next == [Idle EXCEPT !.pc = "rescheduling", !.todo = batches[b].todo,
                                  !.newRunAt = now + after]
  <2>1. CASE AwaitRemove(b, "deadline_exceeded")
    <3>1. batches[b].pc = "checking"
      BY <1>7 DEF CheckRechecks
    <3>2. /\ GoesOn(b) /\ batches'[b].todo = batches[b].todo
          /\ batches'[b].outcome = "deadline_exceeded" /\ batches'[b].pc = "removing"
      BY <2>1, AwaitRemoveGoesOn
    <3> QED
      BY <3>1, <3>2
  <2>2. CASE ~AwaitRemove(b, "deadline_exceeded")
    <3>1. /\ batches' = [batches EXCEPT ![b] = next] /\ draining' = draining
          /\ Current(b).deadline = NoDeadline \/ ~(now + after > Current(b).deadline)
      BY <1>7, <2>2 DEF CheckRechecks
    <3>2. /\ next.pc = "rescheduling" /\ next.outcome = "none"
          /\ next.todo = batches[b].todo /\ next.newRunAt = now + after
      BY DEF Idle
    <3>3. Running(b)
      BY <1>7 DEF CheckRechecks
    <3>4. Current(b).deadline = NoDeadline \/ now + after <= Current(b).deadline
      <4>1. Current(b) \in ScheduledCheck
        BY <1>7, CurrentType DEF CheckRechecks, TypeOK, BatchesTypeOK, Phase
      <4>2. now + after \in Nat
        BY WorkerAssumption DEF TypeOK, ControlTypeOK
      <4> QED
        BY <3>1, <4>1, <4>2 DEF ScheduledCheck
    <3> HIDE DEF next
    <3> QED
      BY <3>1, <3>2, <3>3, <3>4, <1>a
  <2> QED
    BY <2>1, <2>2
<1>8. CASE ActionsSucceed(b)
  BY <1>8, AwaitRemoveGoesOn DEF ActionsSucceed
<1>9. CASE ActionsFail(b)
  BY <1>9, HandleFailureGoesOn DEF ActionsFail, GivesUp
<1>10. CASE Watchdog(b)
  BY <1>10, <1>a DEF Watchdog, BatchState, InScope
<1>11. CASE ScopeRejects(b)
  BY <1>11, HandleFailureGoesOn DEF ScopeRejects, InScope, GivesUp
<1>12. CASE RemoveReturns(b)
  BY <1>12, ProceedGoesOn DEF RemoveReturns
<1>13. CASE RemoveFails(b)
  BY <1>13, ProceedGoesOn, HandleFailureGoesOn DEF RemoveFails, GivesUp
<1>14. CASE RescheduleReturns(b)
  BY <1>14, ProceedGoesOn DEF RescheduleReturns
<1>15. CASE RescheduleFails(b)
  BY <1>15, HandleFailureGoesOn DEF RescheduleFails, GivesUp
<1> QED
  BY <1>1, <1>2, <1>3, <1>4, <1>5, <1>6, <1>7, <1>8, <1>9, <1>10, <1>11, <1>12, <1>13,
     <1>14, <1>15
  DEF BatchStep

-----------------------------------------------------------------------------
(* No lease outlives its record, whatever order claims, writes, events and  *)
(* crashes come in: a later record of the slot is never hidden by it.       *)
THEOREM LeasesGuardRecords == Spec => []NoLeaseWithoutRecord
<1>1. Init => NoLeaseWithoutRecord
  BY DEF Init, StoreInit, NoLeaseWithoutRecord
<1>2. TypeOK /\ NoLeaseWithoutRecord /\ [Next]_vars => NoLeaseWithoutRecord'
  <2> SUFFICES ASSUME TypeOK, NoLeaseWithoutRecord, [Next]_vars
               PROVE  NoLeaseWithoutRecord'
    OBVIOUS
  <2>1. CASE UNCHANGED storeVars
    BY <2>1 DEF storeVars, NoLeaseWithoutRecord
  <2>2. ASSUME NEW s \in Slot, NEW t \in 0..now, Schedule(s, t)
        PROVE  NoLeaseWithoutRecord'
    BY <2>2 DEF Schedule, Enqueue, TypeOK, StoreTypeOK, NoLeaseWithoutRecord
  <2>3. CASE Crash
    BY <2>3 DEF Crash, storeVars, NoLeaseWithoutRecord
  <2>4. ASSUME NEW b \in Batch, BatchStep(b)
        PROVE  NoLeaseWithoutRecord'
    <3>1. ASSUME NEW batch \in Batches(batches[b].at, Limit),
                 Claim(batches[b].at, Limit, LeaseMs, batch)
          PROVE  NoLeaseWithoutRecord'
      <4>1. \A i \in DOMAIN batch : records[batch[i].slot] # NoRecord
        BY BatchesType DEF TypeOK
      <4> QED
        BY <3>1, <4>1 DEF Claim, NoLeaseWithoutRecord
    <3>2. CASE Remove(Current(b).slot)
      BY <3>2 DEF Remove, TypeOK, StoreTypeOK, NoLeaseWithoutRecord
    <3>3. CASE Reschedule(Current(b).slot, batches[b].newRunAt)
      BY <3>3, <2>1 DEF Reschedule, TypeOK, StoreTypeOK, NoLeaseWithoutRecord
    <3> QED
      BY <2>1, <2>4, <3>1, <3>2, <3>3, StoreEffects DEF StoreEffect
  <2> QED
    BY <2>1, <2>2, <2>3, <2>4
    DEF Next, Register, Start, Stop, RunTick, ClockAdvances, AtHorizon, vars
<1> QED
  BY <1>1, <1>2, TypeCorrect, PTL DEF Spec

(* The promise stop() returns waits for every batch that still runs: the    *)
(* snapshot of `inflight` it takes misses none, since no tick starts a      *)
(* batch afterwards.                                                        *)
THEOREM StopWaitsForAll == Spec => []StopCoversBatches
<1>1. Init => StopCoversBatches
  BY DEF Init, StopCoversBatches
<1>2. TypeOK /\ StopCoversBatches /\ [Next]_vars => StopCoversBatches'
  <2> SUFFICES ASSUME TypeOK, StopCoversBatches, [Next]_vars
               PROVE  StopCoversBatches'
    OBVIOUS
  <2>1. CASE UNCHANGED <<mode, batches, draining>>
    BY <2>1 DEF StopCoversBatches, Running
  <2>2. CASE Start \/ Crash \/ RunTick
    BY <2>2 DEF Start, Crash, RunTick, StopCoversBatches
  <2>3. CASE Stop
    BY <2>3 DEF Stop, StopCoversBatches, Running, TypeOK, BatchesTypeOK, BatchState
  <2>4. ASSUME NEW b \in Batch, BatchStep(b)
        PROVE  StopCoversBatches'
    <3>1. mode' = mode
      BY <2>4
      DEF BatchStep, ClaimReturns, ClaimFails, StartCheck, CheckPasses, CheckSkips,
          CheckRejected, CheckRechecks, ActionsSucceed, ActionsFail, Watchdog,
          ScopeRejects, RemoveReturns, RemoveFails, RescheduleReturns, RescheduleFails
    <3> QED
      BY <2>4, <3>1, BatchEffects DEF BatchEffect, StopCoversBatches, Running
  <2> QED
    BY <2>1, <2>2, <2>3, <2>4
    DEF Next, Register, Schedule, ClockAdvances, AtHorizon, vars, workerVars
<1> QED
  BY <1>1, <1>2, TypeCorrect, PTL DEF Spec

-----------------------------------------------------------------------------
(* Why a postponed record never waits past its deadline although the worker *)
(* compares with the deadline of the record it claimed and the store then   *)
(* postpones the record it holds (which may be a later one): the deadline   *)
(* is a fixed distance from the trigger, and what a batch holds was never   *)
(* triggered after what the store holds.                                    *)

OnTime(rec) ==
  /\ rec.scheduledAt <= now
  /\ rec.deadline = IF Deadline = NoDeadline THEN NoDeadline ELSE rec.scheduledAt + Deadline

RecordsOnTime == \A s \in Slot : records[s] # NoRecord => OnTime(records[s])

HeldAreNotNewer ==
  \A b \in Batch : \A i \in DOMAIN batches[b].todo :
    LET rec == batches[b].todo[i]
    IN  /\ OnTime(rec)
        /\ records[rec.slot] # NoRecord => rec.scheduledAt <= records[rec.slot].scheduledAt

PostponesInTime ==
  \A b \in Batch :
    batches[b].pc = "rescheduling" =>
      \/ Current(b).deadline = NoDeadline
      \/ batches[b].newRunAt <= Current(b).deadline

DeadlineInv ==
  RecordsOnTime /\ HeldAreNotNewer /\ PostponesInTime /\ PostponedWithinDeadline

(* What a batch holds after a step of its own it held before or claimed. *)
LEMMA HeldRecords ==
  ASSUME TypeOK, NEW b \in Batch, BatchStep(b),
         NEW d \in Batch, NEW i \in DOMAIN batches'[d].todo
  PROVE  \/ \E j \in DOMAIN batches[d].todo : batches'[d].todo[i] = batches[d].todo[j]
         \/ /\ UNCHANGED records
            /\ \E s \in Slot : records[s] # NoRecord /\ batches'[d].todo[i] = records[s]
<1>1. CASE d # b
  BY <1>1, BatchEffects DEF BatchEffect
<1>2. CASE batches'[b].todo \in {<< >>, batches[b].todo} /\ d = b
  BY <1>2
<1>3. CASE batches'[b].todo = Tail(batches[b].todo) /\ batches[b].todo # << >> /\ d = b
  <2> DEFINE q == batches[b].todo
  <2>1. q \in Seq(ScheduledCheck) /\ q # << >>
    BY <1>3 DEF TypeOK, BatchesTypeOK, BatchState
  <2>2. i \in DOMAIN Tail(q)
    BY <1>3
  <2> HIDE DEF q
  <2>3. i + 1 \in DOMAIN q /\ Tail(q)[i] = q[i + 1]
    BY <2>1, <2>2, HeadTailProperties
  <2> QED
    BY <1>3, <2>3 DEF q
<1>4. CASE batches[b].todo = << >> /\ batches'[b].todo = Tail(batches[b].todo) /\ d = b
  <2>1. Tail(<< >>) = << >>
    OBVIOUS
  <2> QED
    BY <1>4, <2>1
<1>5. CASE batches'[b].todo \in Batches(batches[b].at, Limit) /\ UNCHANGED records /\ d = b
  BY <1>5, BatchesType DEF TypeOK
<1> QED
  BY <1>1, <1>2, <1>3, <1>4, <1>5, BatchEffects DEF BatchEffect

(* A batch changes a record only by removing it or by postponing it. *)
LEMMA RecordAfterBatchStep ==
  ASSUME TypeOK, NEW b \in Batch, BatchStep(b), NEW s \in Slot, records'[s] # NoRecord
  PROVE  /\ records[s] # NoRecord
         /\ \/ records'[s] = records[s]
            \/ /\ batches[b].pc = "rescheduling" /\ Current(b).slot = s
               /\ records'[s] = [records[s] EXCEPT !.runAt = batches[b].newRunAt]
<1> USE DEF TypeOK, StoreTypeOK
<1>1. CASE UNCHANGED records
  BY <1>1
<1>2. CASE Remove(Current(b).slot)
  BY <1>2 DEF Remove
<1>3. CASE batches[b].pc = "rescheduling" /\ Reschedule(Current(b).slot, batches[b].newRunAt)
  BY <1>3 DEF Reschedule, storeVars
<1> QED
  BY <1>1, <1>2, <1>3, StoreEffects DEF StoreEffect, Claim, storeVars

(* Whatever it does, a record that is still there is about the same event.  *)
LEMMA RecordStays ==
  ASSUME TypeOK, NEW b \in Batch, BatchStep(b), NEW s \in Slot, records'[s] # NoRecord
  PROVE  /\ records[s] # NoRecord /\ records[s] \in ScheduledCheck
         /\ records'[s].slot = records[s].slot /\ records'[s].gen = records[s].gen
<1>1. /\ records[s] # NoRecord
      /\ records'[s] = records[s] \/ \E t : records'[s] = [records[s] EXCEPT !.runAt = t]
  BY RecordAfterBatchStep
<1>2. records \in [Slot -> ScheduledCheck \cup {NoRecord}]
  BY DEF TypeOK, StoreTypeOK
<1>3. records[s] \in ScheduledCheck
  BY <1>1, <1>2
<1>4. \A t : LET r == [records[s] EXCEPT !.runAt = t]
            IN  r.slot = records[s].slot /\ r.gen = records[s].gen
  BY <1>3 DEF ScheduledCheck
<1> QED
  BY <1>1, <1>3, <1>4

LEMMA DeadlineInvInit == Init => DeadlineInv
BY DEF Init, StoreInit, Idle, DeadlineInv, RecordsOnTime, HeldAreNotNewer, PostponesInTime,
       PostponedWithinDeadline

LEMMA DeadlineInvSchedule ==
  ASSUME WriteLag = 0, TypeOK, DeadlineInv, NEW s \in Slot, NEW t \in 0..now, Schedule(s, t)
  PROVE  DeadlineInv'
<1> DEFINE rec == [slot |-> s, gen |-> triggers[s] + 1, runAt |-> t + Delay,
                   scheduledAt |-> t,
                   deadline |-> IF Deadline = NoDeadline THEN NoDeadline ELSE t + Deadline]
<1>1. t = now /\ now \in Nat /\ Delay \in Nat
  BY WorkerAssumption DEF Schedule, TypeOK, ControlTypeOK
<1>2. /\ rec.slot = s /\ rec.runAt = t + Delay /\ rec.scheduledAt = t
      /\ rec.deadline = IF Deadline = NoDeadline THEN NoDeadline ELSE t + Deadline
  OBVIOUS
<1>3. /\ records' = [records EXCEPT ![s] = rec]
      /\ now' = now /\ batches' = batches
  BY DEF Schedule, Enqueue, workerVars
<1> HIDE DEF rec
<1>4. RecordsOnTime'
  BY <1>1, <1>2, <1>3 DEF DeadlineInv, RecordsOnTime, OnTime, TypeOK, StoreTypeOK
<1>5. HeldAreNotNewer'
  BY <1>1, <1>2, <1>3 DEF DeadlineInv, HeldAreNotNewer, OnTime, TypeOK, StoreTypeOK
<1>6. PostponesInTime'
  BY <1>3 DEF DeadlineInv, PostponesInTime, Current
<1>7. PostponedWithinDeadline'
  BY <1>1, <1>2, <1>3 DEF DeadlineInv, PostponedWithinDeadline, TypeOK, StoreTypeOK
<1> QED
  BY <1>4, <1>5, <1>6, <1>7 DEF DeadlineInv

LEMMA DeadlineInvBatchStep ==
  ASSUME TypeOK, DeadlineInv, NEW b \in Batch, BatchStep(b)
  PROVE  DeadlineInv'
<1>1. now' = now
  BY DEF BatchStep, ClaimReturns, ClaimFails, StartCheck, CheckPasses, CheckSkips,
         CheckRejected, CheckRechecks, ActionsSucceed, ActionsFail, Watchdog,
         ScopeRejects, RemoveReturns, RemoveFails, RescheduleReturns, RescheduleFails
(* What a record keeps when the batch postpones it. *)
<1>2. ASSUME NEW s \in Slot, records'[s] # NoRecord
      PROVE  /\ records[s] # NoRecord
             /\ records'[s].scheduledAt = records[s].scheduledAt
             /\ records'[s].deadline = records[s].deadline
             /\ \/ records'[s].runAt = records[s].runAt
                \/ /\ batches[b].pc = "rescheduling" /\ Current(b).slot = s
                   /\ records'[s].runAt = batches[b].newRunAt
  <2>1. records[s] # NoRecord
    BY <1>2, RecordAfterBatchStep
  <2>2. records[s] \in ScheduledCheck
    BY <2>1 DEF TypeOK, StoreTypeOK
  <2>3. ASSUME NEW t
        PROVE  LET rec == [records[s] EXCEPT !.runAt = t]
               IN  /\ rec.scheduledAt = records[s].scheduledAt
                   /\ rec.deadline = records[s].deadline
                   /\ rec.runAt = t
    BY <2>2 DEF ScheduledCheck
  <2>4. CASE records'[s] = records[s]
    BY <2>1, <2>4
  <2>5. CASE /\ batches[b].pc = "rescheduling" /\ Current(b).slot = s
             /\ records'[s] = [records[s] EXCEPT !.runAt = batches[b].newRunAt]
    BY <2>1, <2>3, <2>5
  <2> QED
    BY <1>2, <2>4, <2>5, RecordAfterBatchStep
<1>3. RecordsOnTime'
  BY <1>1, <1>2 DEF DeadlineInv, RecordsOnTime, OnTime
<1>4. HeldAreNotNewer'
  <2> SUFFICES ASSUME NEW d \in Batch, NEW i \in DOMAIN batches'[d].todo
               PROVE  LET rec == batches'[d].todo[i]
                      IN  /\ OnTime(rec)
                          /\ records'[rec.slot] # NoRecord =>
                               rec.scheduledAt <= records'[rec.slot].scheduledAt
    BY <1>1 DEF HeldAreNotNewer, OnTime
  <2> DEFINE rec == batches'[d].todo[i]
  <2>1. CASE \E j \in DOMAIN batches[d].todo : rec = batches[d].todo[j]
    <3>1. PICK j \in DOMAIN batches[d].todo : rec = batches[d].todo[j]
      BY <2>1
    <3>2. rec \in ScheduledCheck
      BY <3>1 DEF TypeOK, BatchesTypeOK, BatchState
    <3>3. /\ OnTime(rec)
          /\ records[rec.slot] # NoRecord => rec.scheduledAt <= records[rec.slot].scheduledAt
      BY <3>1 DEF DeadlineInv, HeldAreNotNewer
    <3> HIDE DEF rec
    <3>4. rec.slot \in Slot
      BY <3>2 DEF ScheduledCheck
    <3> QED
      BY <1>2, <3>3, <3>4 DEF rec
  <2>2. CASE \E s \in Slot : UNCHANGED records /\ records[s] # NoRecord /\ rec = records[s]
    <3>1. PICK s \in Slot : UNCHANGED records /\ records[s] # NoRecord /\ rec = records[s]
      BY <2>2
    <3>2. rec.slot = s /\ rec.scheduledAt \in Nat
      BY <3>1 DEF TypeOK, StoreTypeOK, ScheduledCheck
    <3> HIDE DEF rec
    <3> QED
      BY <3>1, <3>2 DEF DeadlineInv, RecordsOnTime, rec
  <2> QED
    BY <2>1, <2>2, HeldRecords
<1>5. PostponesInTime'
  BY BatchEffects DEF BatchEffect, DeadlineInv, PostponesInTime, Current
<1>6. PostponedWithinDeadline'
  <2> SUFFICES ASSUME NEW s \in Slot, records'[s] # NoRecord,
                      records'[s].deadline # NoDeadline,
                      records'[s].runAt > records'[s].scheduledAt + Delay
               PROVE  records'[s].runAt <= records'[s].deadline
    BY DEF PostponedWithinDeadline
  <2>1. CASE records'[s].runAt = records[s].runAt
    BY <1>2, <2>1 DEF DeadlineInv, PostponedWithinDeadline
  <2>2. CASE /\ batches[b].pc = "rescheduling" /\ Current(b).slot = s
             /\ records'[s].runAt = batches[b].newRunAt
    <3>1. records[s] \in ScheduledCheck /\ records[s] # NoRecord
      BY <1>2 DEF TypeOK, StoreTypeOK
    <3>2. OnTime(records[s]) /\ Deadline \in Nat
      BY <1>2, <3>1, WorkerAssumption DEF DeadlineInv, RecordsOnTime, OnTime
    <3>3. batches[b].todo # << >>
      BY <2>2 DEF TypeOK, BatchesTypeOK, Phase
    <3>4. OnTime(Current(b)) /\ Current(b).scheduledAt <= records[s].scheduledAt
      BY <2>2, <3>1, <3>3, CurrentType DEF TypeOK, DeadlineInv, HeldAreNotNewer
    <3>5. batches[b].newRunAt <= Current(b).deadline
      BY <2>2, <3>2, <3>4, StoreAssumption, CurrentType, <3>3
      DEF DeadlineInv, PostponesInTime, OnTime, TypeOK, ScheduledCheck
    <3>6. batches[b].newRunAt \in Nat /\ Current(b) \in ScheduledCheck
      BY <3>3, CurrentType DEF TypeOK, BatchesTypeOK, BatchState
    <3>7. /\ Current(b).deadline = Current(b).scheduledAt + Deadline
          /\ records[s].deadline = records[s].scheduledAt + Deadline
      BY <3>2, <3>4, StoreAssumption DEF OnTime
    <3> QED
      BY <1>2, <2>2, <3>1, <3>2, <3>4, <3>5, <3>6, <3>7 DEF ScheduledCheck
  <2> QED
    BY <1>2, <2>1, <2>2
<1> QED
  BY <1>3, <1>4, <1>5, <1>6 DEF DeadlineInv

LEMMA DeadlineInvNext ==
  ASSUME WriteLag = 0, TypeOK, DeadlineInv, [Next]_vars
  PROVE  DeadlineInv'
<1> USE DEF DeadlineInv
<1>1. ASSUME now' = now \/ now' = now + 1, UNCHANGED <<records, batches>>
      PROVE  DeadlineInv'
  <2>1. \A t : now \in Nat /\ t \in Nat /\ t <= now => t <= now'
    BY <1>1
  <2>2. now \in Nat
    BY DEF TypeOK, ControlTypeOK
  <2>3. RecordsOnTime'
    BY <1>1, <2>1, <2>2 DEF RecordsOnTime, OnTime, TypeOK, StoreTypeOK, ScheduledCheck
  <2>4. HeldAreNotNewer'
    <3>1. \A b \in Batch : \A i \in DOMAIN batches[b].todo :
            batches[b].todo[i] \in ScheduledCheck
      BY DEF TypeOK, BatchesTypeOK, BatchState
    <3> QED
      BY <1>1, <2>1, <2>2, <3>1 DEF HeldAreNotNewer, OnTime, ScheduledCheck
  <2>5. PostponesInTime'
    BY <1>1 DEF PostponesInTime, Current
  <2>6. PostponedWithinDeadline'
    BY <1>1 DEF PostponedWithinDeadline
  <2> QED
    BY <2>3, <2>4, <2>5, <2>6
<1>2. CASE Register \/ Start \/ ClockAdvances \/ UNCHANGED vars
  BY <1>1, <1>2 DEF Register, Start, ClockAdvances, vars, storeVars, workerVars
<1>3. ASSUME NEW s \in Slot, NEW t \in 0..now, Schedule(s, t)
      PROVE  DeadlineInv'
  BY <1>3, DeadlineInvSchedule
<1>4. CASE Stop
  <2>1. \A b \in Batch : /\ batches'[b].pc = batches[b].pc
                         /\ batches'[b].todo = batches[b].todo
                         /\ batches'[b].newRunAt = batches[b].newRunAt
    BY <1>4 DEF Stop, TypeOK, BatchesTypeOK, BatchState
  <2>2. now' = now /\ records' = records
    BY <1>4 DEF Stop, storeVars
  <2> QED
    BY <2>1, <2>2 DEF RecordsOnTime, HeldAreNotNewer, OnTime, PostponesInTime, Current,
                      PostponedWithinDeadline
<1>5. CASE Crash
  <2>1. \A b \in Batch : batches'[b].pc = "idle" /\ batches'[b].todo = << >>
    BY <1>5 DEF Crash, Idle
  <2>2. now' = now /\ (records' = records \/ \A s \in Slot : records'[s] = NoRecord)
    BY <1>5 DEF Crash, storeVars
  <2> QED
    BY <2>1, <2>2 DEF RecordsOnTime, HeldAreNotNewer, OnTime, PostponesInTime,
                      PostponedWithinDeadline
<1>6. CASE RunTick
  <2>1. now' = now /\ records' = records
    BY <1>6 DEF RunTick, storeVars
  <2>2. \A d \in Batch : \/ batches'[d] = batches[d]
                         \/ batches'[d].pc = "claiming" /\ batches'[d].todo = << >>
    <3>1. ASSUME NEW b \in Batch,
                 batches' = [batches EXCEPT ![b] = [Idle EXCEPT !.pc = "claiming", !.at = now]]
          PROVE  \A d \in Batch : \/ batches'[d] = batches[d]
                                  \/ batches'[d].pc = "claiming" /\ batches'[d].todo = << >>
      <4> DEFINE next == [Idle EXCEPT !.pc = "claiming", !.at = now]
      <4>1. /\ batches' = [batches EXCEPT ![b] = next]
            /\ next.pc = "claiming" /\ next.todo = << >>
        BY <3>1 DEF Idle
      <4> HIDE DEF next
      <4> QED
        BY <4>1 DEF TypeOK, BatchesTypeOK
    <3> QED
      BY <1>6, <3>1 DEF RunTick
  <2> QED
    BY <2>1, <2>2 DEF RecordsOnTime, HeldAreNotNewer, OnTime, PostponesInTime, Current,
                      PostponedWithinDeadline
<1>7. ASSUME NEW b \in Batch, BatchStep(b)
      PROVE  DeadlineInv'
  BY <1>7, DeadlineInvBatchStep
<1> QED
  BY <1>2, <1>3, <1>4, <1>5, <1>6, <1>7 DEF Next, AtHorizon

(* When an enqueue lands as soon as it has read the clock (the in-memory    *)
(* store), a postponed record never waits past its own deadline, whichever  *)
(* batch postponed it and whatever record of the slot that batch had        *)
(* claimed.                                                                 *)
THEOREM RechecksEndAtTheDeadline ==
  ASSUME WriteLag = 0
  PROVE  Spec => []PostponedWithinDeadline
<1>1. TypeOK /\ DeadlineInv /\ [Next]_vars => DeadlineInv'
  BY DeadlineInvNext
<1>2. DeadlineInv => PostponedWithinDeadline
  BY DEF DeadlineInv
<1> QED
  BY <1>1, <1>2, DeadlineInvInit, TypeCorrect, PTL DEF Spec

-----------------------------------------------------------------------------
(* A slot never goes back to a decision that was replaced or retired: no    *)
(* write of a batch, however late, brings an old record back.               *)
THEOREM NoRevival == Spec => NeverRevives
<1>1. ASSUME TypeOK, [Next]_vars, NEW s \in Slot, records'[s] # NoRecord,
             records[s] = NoRecord \/ records'[s].gen # records[s].gen
      PROVE  records'[s].gen > triggers[s]
  <2>1. ASSUME NEW u \in Slot, NEW t \in 0..now, Schedule(u, t)
        PROVE  records'[s].gen > triggers[s]
    <3> DEFINE rec == [slot |-> u, gen |-> triggers[u] + 1, runAt |-> t + Delay,
                       scheduledAt |-> t,
                       deadline |-> IF Deadline = NoDeadline THEN NoDeadline ELSE t + Deadline]
    <3>1. rec.slot = u /\ rec.gen = triggers[u] + 1
      OBVIOUS
    <3>2. records' = [records EXCEPT ![u] = rec]
      BY <2>1 DEF Schedule, Enqueue
    <3> HIDE DEF rec
    <3>3. records \in [Slot -> ScheduledCheck \cup {NoRecord}] /\ triggers[u] \in Nat
      BY <1>1 DEF TypeOK, StoreTypeOK, HistoryTypeOK
    <3>4. CASE u = s
      <4>1. records'[s] = rec
        BY <3>2, <3>3, <3>4
      <4> QED
        BY <3>1, <3>3, <3>4, <4>1
    <3>5. CASE u # s
      <4>1. records'[s] = records[s]
        BY <3>2, <3>3, <3>5
      <4> QED
        BY <1>1, <4>1
    <3> QED
      BY <3>4, <3>5
  <2>2. ASSUME NEW b \in Batch, BatchStep(b)
        PROVE  FALSE
    <3>1. records[s] # NoRecord /\ records'[s].gen = records[s].gen
      BY <1>1, <2>2, RecordStays
    <3> QED
      BY <1>1, <3>1
  <2>3. CASE UNCHANGED records
    BY <1>1, <2>3
  <2>4. CASE Crash
    BY <1>1, <2>3, <2>4 DEF Crash, storeVars
  <2> QED
    BY <1>1, <2>1, <2>2, <2>3, <2>4
    DEF Next, Register, Start, Stop, RunTick, ClockAdvances, AtHorizon, vars, storeVars
<1>2. TypeOK /\ [Next]_vars =>
        [\A s \in Slot :
           records'[s] # NoRecord /\ (records[s] = NoRecord \/ records'[s].gen # records[s].gen)
             => records'[s].gen > triggers[s]]_vars
  BY <1>1
<1> QED
  BY <1>2, TypeCorrect, PTL DEF Spec, NeverRevives

-----------------------------------------------------------------------------

(***************************************************************************)
(* What the leases of the scheduled store are for: a record is handled by   *)
(* one batch at a time, and by nobody else until its lease runs out.        *)
(*                                                                          *)
(* Nothing in scheduled-worker.ts renews a lease, and store.remove names a  *)
(* slot, not a record.  So a batch owns what it works on only where three   *)
(* things hold that the code does not enforce; they are the hypothesis of   *)
(* every theorem here:                                                      *)
(*   - a slot is not triggered again while it is pending;                   *)
(*   - store calls neither fail nor let time pass (the in-memory store);    *)
(*   - the lease is long enough for a batch of all slots, one evaluation    *)
(*     timeout after the other.                                             *)
(* Crashes, stop(), late enqueues, failing checks and actions, and every    *)
(* interleaving of batches are allowed.                                     *)
(***************************************************************************)

LeaseOutlastsBatch ==
  /\ ~Supersede /\ ~StoreLatency /\ ~StoreMayFail
  /\ Cardinality(Slot) * EvalTimeout < LeaseMs

(* The longest time k checks take. *)
Spent(k) == k * EvalTimeout

(* The inductive invariant, in parts. *)

(* Between its claim and its last record a batch has records, else none.    *)
EmptyHanded ==
  \A b \in Batch : batches[b].pc \in {"idle", "claiming"} => batches[b].todo = << >>

(* Time stands still between the tick and the claim.                        *)
ClaimsAreFresh == \A b \in Batch : batches[b].pc = "claiming" => batches[b].at = now

(* No scope outlives its watchdog.                                          *)
ScopesInTime ==
  \A b \in Batch :
    InScope(b) => batches[b].startedAt <= now /\ now <= batches[b].startedAt + EvalTimeout

(* No slot is held twice, neither by two batches nor by one.                *)
SlotsDisjoint ==
  \A b, d \in Batch : \A i \in DOMAIN batches[b].todo : \A j \in DOMAIN batches[d].todo :
    batches[b].todo[i].slot = batches[d].todo[j].slot => b = d /\ i = j

(* What is held is what the store has, under a lease.                       *)
HeldIsStored ==
  \A b \in Batch : \A i \in DOMAIN batches[b].todo :
    LET rec == batches[b].todo[i]
    IN  records[rec.slot] = rec /\ leases[rec.slot] # NoLease

(* A lease covers the checks that are left in the batch: the one at hand,   *)
(* from its beginning, and those after it.                                  *)
LeasesLast ==
  \A b \in Batch : \A i \in DOMAIN batches[b].todo :
    LET left  == Len(batches[b].todo)
        until == leases[batches[b].todo[i].slot]
    IN  /\ batches[b].pc = "next" => until > now + Spent(left)
        /\ InScope(b) => until > batches[b].startedAt + Spent(left)
        /\ batches[b].pc \in {"removing", "rescheduling"} => until > now + Spent(left - 1)

OwnInv ==
  /\ EmptyHanded /\ ClaimsAreFresh /\ ScopesInTime
  /\ SlotsDisjoint /\ HeldIsStored /\ LeasesLast

(* Records are not due before their delay, and only due records are held.   *)
DelayInv ==
  /\ \A s \in Slot : records[s] # NoRecord =>
       records[s].runAt >= records[s].scheduledAt + Delay
  /\ \A b \in Batch : \A i \in DOMAIN batches[b].todo : batches[b].todo[i].runAt <= now
  /\ \A b \in Batch : batches[b].pc = "rescheduling" =>
       batches[b].newRunAt >= Current(b).scheduledAt + Delay
  /\ NotBeforeDelay

(* A record that is given up has no attempts left in the map.               *)
AttemptsInv ==
  /\ AttemptsOnlyForPending
  /\ \A b \in Batch :
       batches[b].pc = "removing" /\ batches[b].outcome = "max_attempts_exceeded"
         => AttemptKey(Current(b)) \notin DOMAIN attempts

(* Decisions are numbered by the triggers of their slot.                    *)
NumberedByTriggers ==
  /\ \A s \in Slot : records[s] # NoRecord => records[s].gen <= triggers[s]
  /\ \A a \in acted : a[2] <= triggers[a[1]]

(* A pending decision whose actions are done is being removed for that.     *)
ActedIsRemoved ==
  \A s \in Slot :
    records[s] # NoRecord /\ Decision(records[s]) \in acted =>
      \E b \in Batch : /\ batches[b].pc = "removing" /\ batches[b].outcome = "pass"
                       /\ Current(b).slot = s

ActedInv == NumberedByTriggers /\ ActedIsRemoved

-----------------------------------------------------------------------------
(* The kinds of steps a batch takes when no store call fails. *)

(* The first record is done with; the others move up. *)
Advances(b) ==
  /\ \A d \in Batch \ {b} : batches'[d] = batches[d]
  /\ batches'[b].pc \in {"idle", "next"}
  /\ batches'[b].pc = "idle" => batches'[b].todo = << >>
  /\ Len(batches'[b].todo) = Len(batches[b].todo) - 1
  /\ \A i \in DOMAIN batches'[b].todo :
       /\ i + 1 \in DOMAIN batches[b].todo /\ i + 1 # 1
       /\ batches'[b].todo[i] = batches[b].todo[i + 1]

(* The record at hand stays at hand; the store is left alone. *)
Stays(b) ==
  /\ UNCHANGED storeVars
  /\ \A d \in Batch \ {b} : batches'[d] = batches[d]
  /\ batches'[b].todo = batches[b].todo
  /\ \/ batches[b].pc = "next" /\ batches'[b].pc = "checking" /\ batches'[b].startedAt = now
     \/ InScope(b) /\ InScope(b)' /\ batches'[b].startedAt = batches[b].startedAt
     \/ (batches[b].pc = "next" \/ InScope(b)) /\ batches'[b].pc = "removing"
     \/ /\ InScope(b) /\ batches'[b].pc = "rescheduling"
        /\ \E after \in Nat : batches'[b].newRunAt = now + after
  /\ \/ /\ UNCHANGED attempts
        /\ batches'[b].pc = "removing" => batches'[b].outcome # "max_attempts_exceeded"
     \/ ClearAttempts(Current(b))
  /\ \/ UNCHANGED acted
     \/ /\ batches[b].pc = "acting"
        /\ batches'[b].pc = "removing" /\ batches'[b].outcome = "pass"
        /\ acted' = acted \cup {Decision(Current(b))}

(* An attempt at the first record has failed; it keeps its lease. *)
PutsOff(b) ==
  /\ InScope(b)
  /\ UNCHANGED <<storeVars, acted>>
  /\ StoreAttempts(Current(b), Attempts(Current(b)) + 1)
  /\ Advances(b)

(* A call of the store has taken effect on the first record. *)
Settles(b) ==
  /\ \/ batches[b].pc = "removing" /\ Remove(Current(b).slot)
     \/ /\ batches[b].pc = "rescheduling"
        /\ Reschedule(Current(b).slot, batches[b].newRunAt)
  /\ \/ ClearAttempts(Current(b))
     \/ UNCHANGED attempts /\ batches[b].pc = "removing"
                           /\ batches[b].outcome = "max_attempts_exceeded"
  /\ Advances(b)
  /\ UNCHANGED acted

(* No step of the batch: it keeps what it has, or has nothing. *)
Undisturbed(b) ==
  \/ /\ batches'[b].pc = batches[b].pc
     /\ batches'[b].at = batches[b].at
     /\ batches'[b].todo = batches[b].todo
     /\ batches'[b].startedAt = batches[b].startedAt
     /\ batches'[b].outcome = batches[b].outcome
     /\ batches'[b].newRunAt = batches[b].newRunAt
  \/ /\ batches'[b].todo = << >>
     /\ \/ batches'[b].pc = "idle"
        \/ batches'[b].pc = "claiming" /\ batches'[b].at = now
     /\ ~Running(b) \/ Crash

(* The records of a batch after Proceed are those after the first one. *)
LEMMA ProceedAdvances ==
  ASSUME TypeOK, NEW b \in Batch, batches[b].todo # << >>, Proceed(b)
  PROVE  Advances(b)
<1> DEFINE q == batches[b].todo
<1>1. q \in Seq(ScheduledCheck) /\ q # << >> /\ batches \in [Batch -> BatchState]
  BY DEF TypeOK, BatchesTypeOK, BatchState
<1>2. CASE Len(q) = 1
  <2>1. batches' = [batches EXCEPT ![b] = Idle]
    BY <1>2 DEF Proceed, Finish
  <2>2. batches'[b].pc = "idle" /\ batches'[b].todo = << >>
    BY <1>1, <2>1 DEF Idle
  <2>3. Len(batches'[b].todo) = Len(q) - 1
    BY <1>2, <2>2
  <2>4. \A d \in Batch \ {b} : batches'[d] = batches[d]
    BY <1>1, <2>1
  <2> QED
    BY <2>2, <2>3, <2>4 DEF Advances
<1>3. CASE Len(q) # 1
  <2> DEFINE next == [Idle EXCEPT !.pc = "next", !.todo = Tail(q)]
  <2>1. batches' = [batches EXCEPT ![b] = next]
    BY <1>3 DEF Proceed
  <2>2. next.pc = "next" /\ next.todo = Tail(q)
    BY DEF Idle
  <2> HIDE DEF next
  <2>3. /\ batches'[b].pc = "next" /\ batches'[b].todo = Tail(q)
        /\ \A d \in Batch \ {b} : batches'[d] = batches[d]
    BY <1>1, <2>1, <2>2
  <2> HIDE DEF q
  <2>4. Len(Tail(q)) = Len(q) - 1
    BY <1>1, HeadTailProperties
  <2>5. \A i \in DOMAIN Tail(q) : i + 1 \in DOMAIN q /\ i + 1 # 1 /\ Tail(q)[i] = q[i + 1]
    <3> SUFFICES ASSUME NEW i \in DOMAIN Tail(q)
                 PROVE  i + 1 \in DOMAIN q /\ i + 1 # 1 /\ Tail(q)[i] = q[i + 1]
      OBVIOUS
    <3>1. Tail(q) \in Seq(ScheduledCheck)
      BY <1>1, HeadTailProperties
    <3>2. i \in 1..(Len(q) - 1) /\ Len(q) \in Nat
      BY <1>1, <2>4, <3>1
    <3>3. i + 1 \in 1..Len(q) /\ i + 1 # 1
      BY <3>2
    <3>4. Tail(q)[i] = q[i + 1]
      BY <1>1, <3>2, HeadTailProperties
    <3> QED
      BY <1>1, <3>3, <3>4
  <2> QED
    BY <2>3, <2>4, <2>5 DEF Advances, q
<1> QED
  BY <1>2, <1>3

(* The record at hand is to be removed. *)
LEMMA AwaitRemoveStays ==
  ASSUME TypeOK, NEW b \in Batch, NEW outcome \in Outcome, AwaitRemove(b, outcome),
         batches[b].pc = "next" \/ InScope(b), UNCHANGED storeVars,
         \/ UNCHANGED attempts /\ outcome # "max_attempts_exceeded"
         \/ ClearAttempts(Current(b)),
         \/ UNCHANGED acted
         \/ /\ batches[b].pc = "acting" /\ outcome = "pass"
            /\ acted' = acted \cup {Decision(Current(b))}
  PROVE  Stays(b)
<1>1. /\ batches'[b].todo = batches[b].todo /\ batches'[b].outcome = outcome
      /\ batches'[b].pc = "removing"
      /\ \A d \in Batch \ {b} : batches'[d] = batches[d]
  BY AwaitRemoveGoesOn DEF GoesOn
<1> QED
  BY <1>1 DEF Stays

(* A failure of the attempt at hand either puts the record off or gives it up. *)
LEMMA FailureKinds ==
  ASSUME TypeOK, NEW b \in Batch, InScope(b), HandleFailure(b), UNCHANGED <<storeVars, acted>>
  PROVE  PutsOff(b) \/ Stays(b)
<1>1. batches[b].todo # << >>
  BY DEF InScope, TypeOK, BatchesTypeOK, Phase
<1>2. CASE StoreAttempts(Current(b), Attempts(Current(b)) + 1) /\ Proceed(b)
  BY <1>1, <1>2, ProceedAdvances DEF PutsOff
<1>3. CASE ClearAttempts(Current(b)) /\ AwaitRemove(b, "max_attempts_exceeded")
  BY <1>3, AwaitRemoveStays DEF Outcome
<1> QED
  BY <1>2, <1>3 DEF HandleFailure

(* When no store call fails, a batch takes one of four kinds of steps. *)
LEMMA BatchStepKinds ==
  ASSUME TypeOK, ~StoreMayFail, NEW b \in Batch, BatchStep(b)
  PROVE  /\ UNCHANGED <<now, triggers, mode, crashes>>
         /\ \/ ClaimReturns(b) /\ UNCHANGED <<attempts, acted>>
            \/ Stays(b) \/ PutsOff(b) \/ Settles(b)
<1>a. batches \in [Batch -> BatchState]
  BY DEF TypeOK, BatchesTypeOK
<1>b. UNCHANGED <<now, triggers, mode, crashes>>
  BY DEF BatchStep, ClaimReturns, ClaimFails, StartCheck, CheckPasses, CheckSkips,
         CheckRejected, CheckRechecks, ActionsSucceed, ActionsFail, Watchdog,
         ScopeRejects, RemoveReturns, RemoveFails, RescheduleReturns, RescheduleFails, history
<1> SUFFICES \/ ClaimReturns(b) /\ UNCHANGED <<attempts, acted>>
             \/ Stays(b) \/ PutsOff(b) \/ Settles(b)
  BY <1>b
<1>1. CASE ClaimReturns(b)
  BY <1>1 DEF ClaimReturns, history
<1>2. ASSUME NEW state, batches' = [batches EXCEPT ![b] = state]
      PROVE  batches'[b] = state /\ \A d \in Batch \ {b} : batches'[d] = batches[d]
  BY <1>2, <1>a
<1>3. CASE StartCheck(b)
  <2>1. UNCHANGED <<storeVars, attempts, acted>>
    BY <1>3 DEF StartCheck, history
  <2>2. CASE AwaitRemove(b, "orphan")
    BY <1>3, <2>1, <2>2, AwaitRemoveStays DEF StartCheck, Outcome
  <2>3. CASE ~AwaitRemove(b, "orphan")
    <3> DEFINE state == [batches[b] EXCEPT !.pc = "checking", !.startedAt = now]
    <3>1. batches' = [batches EXCEPT ![b] = state] /\ batches[b].pc = "next"
      BY <1>3, <2>3 DEF StartCheck
    <3>2. state.pc = "checking" /\ state.startedAt = now /\ state.todo = batches[b].todo
      BY <1>a DEF BatchState
    <3> HIDE DEF state
    <3>3. batches'[b] = state /\ \A d \in Batch \ {b} : batches'[d] = batches[d]
      BY <3>1, <1>2
    <3> QED
      BY <2>1, <3>1, <3>2, <3>3 DEF Stays
  <2> QED
    BY <2>2, <2>3
<1>4. CASE CheckPasses(b)
  <2> DEFINE state == [batches[b] EXCEPT !.pc = "acting"]
  <2>1. batches' = [batches EXCEPT ![b] = state] /\ batches[b].pc = "checking"
    BY <1>4 DEF CheckPasses
  <2>2. /\ state.pc = "acting" /\ state.startedAt = batches[b].startedAt
        /\ state.todo = batches[b].todo
    BY <1>a DEF BatchState
  <2> HIDE DEF state
  <2>3. batches'[b] = state /\ \A d \in Batch \ {b} : batches'[d] = batches[d]
    BY <2>1, <1>2
  <2>4. UNCHANGED <<storeVars, attempts, acted>>
    BY <1>4 DEF CheckPasses, history
  <2> QED
    BY <2>1, <2>2, <2>3, <2>4 DEF Stays, InScope
<1>5. CASE Watchdog(b)
  <2> DEFINE state == [batches[b] EXCEPT !.aborted = TRUE]
  <2>1. batches' = [batches EXCEPT ![b] = state] /\ InScope(b)
    BY <1>5 DEF Watchdog
  <2>2. /\ state.pc = batches[b].pc /\ state.startedAt = batches[b].startedAt
        /\ state.todo = batches[b].todo
    BY <1>a DEF BatchState
  <2> HIDE DEF state
  <2>3. batches'[b] = state /\ \A d \in Batch \ {b} : batches'[d] = batches[d]
    BY <2>1, <1>2
  <2>4. UNCHANGED <<storeVars, attempts, acted>>
    BY <1>5 DEF Watchdog, history
  <2> QED
    BY <2>1, <2>2, <2>3, <2>4 DEF Stays, InScope
<1>6. CASE CheckSkips(b)
  BY <1>6, AwaitRemoveStays DEF CheckSkips, InScope, Outcome, history
<1>7. CASE ActionsSucceed(b)
  BY <1>7, AwaitRemoveStays DEF ActionsSucceed, InScope, Outcome
<1>8. CASE CheckRejected(b) \/ ActionsFail(b) \/ ScopeRejects(b)
  BY <1>8, FailureKinds DEF CheckRejected, ActionsFail, ScopeRejects, InScope, history
<1>9. ASSUME NEW after \in After, CheckRechecks(b, after)
      PROVE  Stays(b)
  <2>1. UNCHANGED <<storeVars, attempts, acted>> /\ InScope(b)
    BY <1>9 DEF CheckRechecks, history, InScope
  <2>2. CASE AwaitRemove(b, "deadline_exceeded")
    BY <2>1, <2>2, AwaitRemoveStays DEF Outcome
  <2>3. CASE ~AwaitRemove(b, "deadline_exceeded")
    <3> DEFINE state == [Idle EXCEPT !.pc = "rescheduling", !.todo = batches[b].todo,
                                     !.newRunAt = now + after]
    <3>1. batches' = [batches EXCEPT ![b] = state]
      BY <1>9, <2>3 DEF CheckRechecks
    <3>2. /\ state.pc = "rescheduling" /\ state.newRunAt = now + after
          /\ state.todo = batches[b].todo
      BY DEF Idle
    <3> HIDE DEF state
    <3>3. batches'[b] = state /\ \A d \in Batch \ {b} : batches'[d] = batches[d]
      BY <3>1, <1>2
    <3>4. after \in Nat
      BY WorkerAssumption
    <3> QED
      BY <2>1, <3>2, <3>3, <3>4 DEF Stays
  <2> QED
    BY <2>2, <2>3
<1>10. ASSUME RemoveReturns(b) \/ RescheduleReturns(b)
       PROVE  Settles(b)
  <2>1. batches[b].todo # << >>
    BY <1>10 DEF RemoveReturns, RescheduleReturns, TypeOK, BatchesTypeOK, Phase
  <2>2. Advances(b)
    BY <1>10, <2>1, ProceedAdvances DEF RemoveReturns, RescheduleReturns
  <2> QED
    BY <1>10, <2>2 DEF RemoveReturns, RescheduleReturns, Settles, history
<1> QED
  BY <1>1, <1>3, <1>4, <1>5, <1>6, <1>7, <1>8, <1>9, <1>10
  DEF BatchStep, ClaimFails, RemoveFails, RescheduleFails

(* The steps of the engine around the batches. *)
EngineStep == Register \/ Start \/ Stop \/ Crash \/ RunTick \/ UNCHANGED vars

(* They leave the batches and, but for a crash, the store alone. *)
LEMMA EngineStepsKeep ==
  ASSUME TypeOK, EngineStep
  PROVE  /\ now' = now
         /\ \A b \in Batch : Undisturbed(b)
         /\ Crash \/ UNCHANGED <<storeVars, attempts, acted, triggers>>
<1>a. batches \in [Batch -> BatchState]
  BY DEF TypeOK, BatchesTypeOK
<1>1. /\ now' = now
      /\ Crash \/ UNCHANGED <<storeVars, attempts, acted, triggers>>
  BY DEF EngineStep, Register, Start, Stop, Crash, RunTick, vars, workerVars, history
<1>2. CASE UNCHANGED batches
  BY <1>1, <1>2 DEF Undisturbed
<1>3. CASE Stop
  <2>1. \A b \in Batch : \/ batches'[b] = batches[b]
                         \/ batches'[b] = [batches[b] EXCEPT !.aborted = TRUE]
    BY <1>3 DEF Stop
  <2>2. ASSUME NEW b \in Batch
        PROVE  Undisturbed(b)
    <3>1. batches[b] \in BatchState
      BY <1>a
    <3>2. CASE batches'[b] = batches[b]
      BY <3>2 DEF Undisturbed
    <3>3. CASE batches'[b] = [batches[b] EXCEPT !.aborted = TRUE]
      BY <3>1, <3>3 DEF Undisturbed, BatchState
    <3> QED
      BY <2>1, <3>2, <3>3
  <2> QED
    BY <1>1, <2>2
<1>4. CASE Crash
  <2>1. \A b \in Batch : batches'[b].pc = "idle" /\ batches'[b].todo = << >>
    BY <1>4 DEF Crash, Idle
  <2> QED
    BY <1>1, <1>4, <2>1 DEF Undisturbed
<1>5. ASSUME NEW b \in Batch, ~Running(b),
             batches' = [batches EXCEPT ![b] = [Idle EXCEPT !.pc = "claiming", !.at = now]]
      PROVE  \A d \in Batch : Undisturbed(d)
  <2> DEFINE state == [Idle EXCEPT !.pc = "claiming", !.at = now]
  <2>1. batches' = [batches EXCEPT ![b] = state]
    BY <1>5
  <2>2. state.pc = "claiming" /\ state.at = now /\ state.todo = << >>
    BY DEF Idle
  <2> HIDE DEF state
  <2>3. batches'[b] = state /\ \A d \in Batch : d # b => batches'[d] = batches[d]
    BY <1>a, <2>1
  <2> QED
    BY <1>5, <2>2, <2>3 DEF Undisturbed
<1> QED
  BY <1>1, <1>2, <1>3, <1>4, <1>5
  DEF EngineStep, Register, Start, RunTick, vars, workerVars

-----------------------------------------------------------------------------
(* Leases and ownership. *)

LEMMA TimesStep ==
  ASSUME NEW k \in Nat, NEW d \in Nat, NEW e \in Nat
  PROVE  /\ k * e \in Nat
         /\ (k + 1) * e = k * e + e
         /\ k * e <= (k + d) * e
OBVIOUS

(* One more check takes one more timeout; more checks never take less. *)
LEMMA SpentStep ==
  ASSUME NEW k \in Nat
  PROVE  /\ Spent(k) \in Nat
         /\ Spent(k + 1) = Spent(k) + EvalTimeout
         /\ \A n \in Nat : k <= n => Spent(k) <= Spent(n)
<1>1. EvalTimeout \in Nat
  BY WorkerAssumption
<1>2. ASSUME NEW n \in Nat, k <= n PROVE Spent(k) <= Spent(n)
  <2>1. n - k \in Nat /\ k + (n - k) = n
    BY <1>2
  <2> QED
    BY <1>1, <2>1, TimesStep DEF Spent
<1> QED
  BY <1>1, <1>2, TimesStep DEF Spent

(* What every record held is: a check, at one of the places of its batch. *)
LEMMA HeldType ==
  ASSUME TypeOK, NEW b \in Batch, NEW i \in DOMAIN batches[b].todo
  PROVE  /\ batches[b].todo \in Seq(ScheduledCheck)
         /\ batches[b].todo[i] \in ScheduledCheck
         /\ batches[b].todo[i].slot \in Slot
         /\ Len(batches[b].todo) \in Nat /\ Len(batches[b].todo) >= 1
         /\ i \in 1..Len(batches[b].todo)
         /\ leases[batches[b].todo[i].slot] \in Nat \cup {NoLease}
<1> DEFINE q == batches[b].todo
<1>1. q \in Seq(ScheduledCheck)
  BY DEF TypeOK, BatchesTypeOK, BatchState
<1>2. i \in DOMAIN q
  OBVIOUS
<1> HIDE DEF q
<1>3. q[i] \in ScheduledCheck /\ i \in 1..Len(q) /\ Len(q) \in Nat /\ Len(q) >= 1
  BY <1>1, <1>2
<1>4. q[i].slot \in Slot
  BY <1>3 DEF ScheduledCheck
<1> QED
  BY <1>1, <1>3, <1>4 DEF q, TypeOK, StoreTypeOK

(* The parts of the invariant say that no lease has run out. *)
LEMMA OwnInvOwns ==
  ASSUME TypeOK, OwnInv
  PROVE  OwnsWhatItHandles
<1> SUFFICES ASSUME NEW b \in Batch, NEW i \in DOMAIN batches[b].todo
             PROVE  leases[batches[b].todo[i].slot] > now
  BY DEF OwnsWhatItHandles, OwnInv, HeldIsStored
<1> DEFINE left  == Len(batches[b].todo)
           until == leases[batches[b].todo[i].slot]
<1>1. left \in Nat /\ left >= 1 /\ left - 1 \in Nat /\ until \in Nat
  BY HeldType DEF OwnInv, HeldIsStored
<1>2. /\ Spent(left - 1) \in Nat /\ Spent(left) \in Nat
      /\ Spent(left) = Spent(left - 1) + EvalTimeout
  <2>1. (left - 1) + 1 = left
    BY <1>1
  <2> HIDE DEF left
  <2> QED
    BY <1>1, <2>1, SpentStep
<1>3. now \in Nat /\ EvalTimeout \in Nat /\ batches[b] \in BatchState
  BY WorkerAssumption DEF TypeOK, ControlTypeOK, BatchesTypeOK
<1>4. batches[b].pc \notin {"idle", "claiming"}
  BY <1>1 DEF OwnInv, EmptyHanded
<1>5. /\ batches[b].pc = "next" => until > now + Spent(left)
      /\ InScope(b) => until > batches[b].startedAt + Spent(left)
      /\ batches[b].pc \in {"removing", "rescheduling"} => until > now + Spent(left - 1)
  BY DEF OwnInv, LeasesLast
<1> HIDE DEF left, until
<1>6. CASE batches[b].pc = "next" \/ batches[b].pc \in {"removing", "rescheduling"}
  <2>1. until > now
    BY <1>1, <1>2, <1>3, <1>5, <1>6
  <2> QED
    BY <2>1 DEF until
<1>7. CASE InScope(b)
  <2>1. batches[b].startedAt \in Nat /\ now <= batches[b].startedAt + EvalTimeout
    BY <1>3, <1>7 DEF OwnInv, ScopesInTime, BatchState
  <2>2. until > now
    BY <1>1, <1>2, <1>3, <1>5, <1>7, <2>1
  <2> QED
    BY <2>2 DEF until
<1> QED
  BY <1>3, <1>4, <1>6, <1>7 DEF BatchState, Phase, InScope

(* Moving on to the next record keeps the invariant when the step leaves the *)
(* other records and their leases alone and the lease of what remains is     *)
(* long enough.                                                              *)
LEMMA OwnAdvances ==
  ASSUME TypeOK, TypeOK', OwnInv, NEW b \in Batch, Running(b), Advances(b), now' = now,
         batches[b].pc # "claiming",
         \A d \in Batch : \A i \in DOMAIN batches[d].todo :
           (d = b /\ i = 1) \/ LET s == batches[d].todo[i].slot
                             IN  records'[s] = records[s] /\ leases'[s] = leases[s],
         \A i \in DOMAIN batches[b].todo :
           leases[batches[b].todo[i].slot] > now + Spent(Len(batches[b].todo) - 1)
  PROVE  OwnInv'
<1> DEFINE old(d, i) == IF d = b THEN i + 1 ELSE i
<1>1. ASSUME NEW d \in Batch, NEW i \in DOMAIN batches'[d].todo
      PROVE  /\ old(d, i) \in DOMAIN batches[d].todo
             /\ batches'[d].todo[i] = batches[d].todo[old(d, i)]
             /\ ~(d = b /\ old(d, i) = 1)
  BY <1>1 DEF Advances
<1>2. ASSUME NEW d \in Batch, NEW i \in DOMAIN batches'[d].todo,
             NEW e \in Batch, NEW j \in DOMAIN batches'[e].todo,
             batches'[d].todo[i].slot = batches'[e].todo[j].slot
      PROVE  d = e /\ i = j
  <2>1. d = e /\ old(d, i) = old(e, j)
    <3> DEFINE m == old(d, i)
               n == old(e, j)
    <3>1. m \in DOMAIN batches[d].todo /\ batches'[d].todo[i] = batches[d].todo[m]
      BY <1>1
    <3>2. n \in DOMAIN batches[e].todo /\ batches'[e].todo[j] = batches[e].todo[n]
      BY <1>1
    <3> HIDE DEF m, n
    <3>3. d = e /\ m = n
      BY <1>2, <3>1, <3>2 DEF OwnInv, SlotsDisjoint
    <3> QED
      BY <3>3 DEF m, n
  <2>2. i \in Int /\ j \in Int
    <3>1. batches'[d].todo \in Seq(ScheduledCheck) /\ batches'[e].todo \in Seq(ScheduledCheck)
      BY DEF TypeOK, BatchesTypeOK, BatchState
    <3> QED
      BY <1>2, <3>1
  <2> QED
    BY <2>1, <2>2
<1>3. SlotsDisjoint'
  BY <1>2 DEF SlotsDisjoint
<1>4. ASSUME NEW d \in Batch, NEW i \in DOMAIN batches'[d].todo
      PROVE  LET rec == batches'[d].todo[i]
             IN  /\ records'[rec.slot] = rec
                 /\ leases'[rec.slot] = leases[rec.slot] /\ leases[rec.slot] # NoLease
  <2> HIDE DEF old
  <2> QED
    BY <1>1, <1>4 DEF OwnInv, HeldIsStored
<1>5. HeldIsStored'
  BY <1>4 DEF HeldIsStored
<1>6. LeasesLast'
  <2> SUFFICES ASSUME NEW d \in Batch, NEW i \in DOMAIN batches'[d].todo
               PROVE  LET left  == Len(batches'[d].todo)
                          until == leases'[batches'[d].todo[i].slot]
                      IN  /\ batches'[d].pc = "next" => until > now' + Spent(left)
                          /\ InScope(d)' => until > batches'[d].startedAt + Spent(left)
                          /\ batches'[d].pc \in {"removing", "rescheduling"} =>
                               until > now' + Spent(left - 1)
    BY DEF LeasesLast, InScope
  <2>1. CASE d = b
    <3>1. leases'[batches'[d].todo[i].slot] > now + Spent(Len(batches[b].todo) - 1)
      BY <1>1, <1>4, <2>1
    <3>2. Len(batches'[d].todo) = Len(batches[b].todo) - 1 /\ batches'[d].pc \in {"idle", "next"}
      BY <2>1 DEF Advances
    <3> QED
      BY <3>1, <3>2, <2>1 DEF InScope
  <2>2. CASE d # b
    <3>1. batches'[d] = batches[d]
      BY <2>2 DEF Advances
    <3>2. leases'[batches'[d].todo[i].slot] = leases[batches'[d].todo[i].slot]
      BY <1>4
    <3> QED
      BY <3>1, <3>2 DEF OwnInv, LeasesLast, InScope
  <2> QED
    BY <2>1, <2>2
<1>7. EmptyHanded' /\ ClaimsAreFresh' /\ ScopesInTime'
  BY DEF OwnInv, EmptyHanded, ClaimsAreFresh, ScopesInTime, Advances, InScope
<1> QED
  BY <1>3, <1>5, <1>6, <1>7 DEF OwnInv

(* Claimed records are free: no batch in flight holds their slots. *)
LEMMA ClaimedAreFree ==
  ASSUME TypeOK, OwnInv, NEW b \in Batch, batches[b].pc = "claiming",
         NEW batch \in Batches(batches[b].at, Limit), NEW k \in DOMAIN batch,
         NEW d \in Batch, NEW i \in DOMAIN batches[d].todo
  PROVE  batches[d].todo[i].slot # batch[k].slot
<1>1. batches[b].at = now
  BY DEF OwnInv, ClaimsAreFresh
<1>2. \E s \in Claimable(now) : batch[k] = records[s]
  BY <1>1 DEF Batches
<1>3. PICK s \in Claimable(now) : batch[k] = records[s]
  BY <1>2
<1>4. batch[k].slot = s /\ (leases[s] # NoLease => leases[s] <= now)
  BY <1>3 DEF Claimable, TypeOK, StoreTypeOK
<1>5. leases[batches[d].todo[i].slot] # NoLease /\ leases[batches[d].todo[i].slot] > now
  BY OwnInvOwns DEF OwnsWhatItHandles
<1>6. leases[batches[d].todo[i].slot] \in Nat /\ now \in Nat
  BY <1>5, HeldType DEF TypeOK, ControlTypeOK
<1> QED
  BY <1>4, <1>5, <1>6

(* The records of a claim are different ones, and no more than there are slots. *)
LEMMA ClaimedAreDistinct ==
  ASSUME TypeOK, NEW t, NEW batch \in Batches(t, Limit)
  PROVE  /\ \A i, j \in DOMAIN batch : batch[i].slot = batch[j].slot => i = j
         /\ Len(batch) \in Nat /\ Len(batch) <= Cardinality(Slot)
         /\ Cardinality(Slot) \in Nat
<1> DEFINE due  == Claimable(t)
           size == IF Cardinality(due) <= Limit THEN Cardinality(due) ELSE Limit
<1>1. due \subseteq Slot
  BY DEF Claimable
<1>2. IsFiniteSet(due) /\ Cardinality(due) \in Nat /\ Cardinality(due) <= Cardinality(Slot)
  BY <1>1, StoreAssumption, FS_Subset, FS_CardinalityType
<1>3. size \in Nat /\ size <= Cardinality(Slot) /\ Cardinality(Slot) \in Nat
  BY <1>2, StoreAssumption, WorkerAssumption, FS_CardinalityType
<1>4. /\ batch \in [1..size -> { records[s] : s \in due }]
      /\ \A i, j \in 1..size : i < j => batch[i] # batch[j]
  BY DEF Batches
<1>5. \A i \in DOMAIN batch : batch[i] = records[batch[i].slot]
  BY BatchesType DEF TypeOK
<1> HIDE DEF size, due
<1>6. DOMAIN batch = 1..size
  BY <1>4
<1>7. Len(batch) = size
  <2>1. batch \in Seq(ScheduledCheck)
    BY BatchesType DEF TypeOK
  <2> QED
    BY <2>1, <1>3, <1>6
<1>8. ASSUME NEW i \in 1..size, NEW j \in 1..size, batch[i].slot = batch[j].slot
      PROVE  i = j
  <2>1. batch[i] = batch[j]
    BY <1>5, <1>6, <1>8
  <2>2. ~(i < j) /\ ~(j < i)
    BY <1>4, <2>1
  <2> QED
    BY <1>3, <2>2
<1> QED
  BY <1>3, <1>6, <1>7, <1>8

(* What a claim that returns does: the batch has what was claimed. *)
LEMMA ClaimEffect ==
  ASSUME TypeOK, NEW b \in Batch, ClaimReturns(b)
  PROVE  \E batch \in Batches(batches[b].at, Limit) :
           /\ Claim(batches[b].at, Limit, LeaseMs, batch)
           /\ \A d \in Batch \ {b} : batches'[d] = batches[d]
           /\ batches'[b].todo = batch
           /\ batches'[b].pc = IF batch = << >> THEN "idle" ELSE "next"
<1>a. batches \in [Batch -> BatchState]
  BY DEF TypeOK, BatchesTypeOK
<1>1. PICK batch \in Batches(batches[b].at, Limit) :
        /\ Claim(batches[b].at, Limit, LeaseMs, batch)
        /\ IF batch = << >>
           THEN Finish(b)
           ELSE /\ batches' = [batches EXCEPT ![b] = [Idle EXCEPT !.pc = "next", !.todo = batch]]
                /\ UNCHANGED draining
  BY DEF ClaimReturns
<1>2. CASE batch = << >>
  <2>1. batches' = [batches EXCEPT ![b] = Idle]
    BY <1>1, <1>2 DEF Finish
  <2>2. batches'[b].pc = "idle" /\ batches'[b].todo = batch
    BY <1>2, <1>a, <2>1 DEF Idle
  <2> QED
    BY <1>1, <1>2, <1>a, <2>1, <2>2
<1>3. CASE batch # << >>
  <2> DEFINE state == [Idle EXCEPT !.pc = "next", !.todo = batch]
  <2>1. batches' = [batches EXCEPT ![b] = state]
    BY <1>1, <1>3
  <2>2. state.pc = "next" /\ state.todo = batch
    BY DEF Idle
  <2> HIDE DEF state
  <2> QED
    BY <1>1, <1>3, <2>1, <2>2, <1>a
<1> QED
  BY <1>2, <1>3

(* A claim hands its batch records no one else holds, for long enough. *)
LEMMA OwnClaims ==
  ASSUME LeaseOutlastsBatch, TypeOK, TypeOK', OwnInv, NEW b \in Batch, ClaimReturns(b)
  PROVE  OwnInv'
<1>b. now' = now /\ batches[b].pc = "claiming" /\ batches[b].at = now /\ batches[b].todo = << >>
  BY DEF ClaimReturns, OwnInv, ClaimsAreFresh, EmptyHanded
<1>1. PICK batch \in Batches(batches[b].at, Limit) :
        /\ Claim(batches[b].at, Limit, LeaseMs, batch)
        /\ \A d \in Batch \ {b} : batches'[d] = batches[d]
        /\ batches'[b].todo = batch
        /\ batches'[b].pc = IF batch = << >> THEN "idle" ELSE "next"
  BY ClaimEffect
<1>2. /\ \A d \in Batch \ {b} : batches'[d] = batches[d]
      /\ batches'[b].todo = batch
      /\ batches'[b].pc = IF batch = << >> THEN "idle" ELSE "next"
  BY <1>1
<1>3. \A k \in DOMAIN batch : /\ batch[k] = records[batch[k].slot]
                              /\ batch[k].slot \in Slot
  BY BatchesType DEF TypeOK
<1>4. \A d \in Batch : \A i \in DOMAIN batches[d].todo : \A k \in DOMAIN batch :
        batches[d].todo[i].slot # batch[k].slot
  BY <1>b, ClaimedAreFree
<1>5. LeaseMs \in Nat /\ LeaseMs > 0 /\ now \in Nat
  BY WorkerAssumption DEF LeaseMs, TypeOK, ControlTypeOK
<1>6. /\ records' = records
      /\ \A s \in Slot : (\E k \in DOMAIN batch : batch[k].slot = s) =>
                           leases'[s] = now + LeaseMs
      /\ \A s \in Slot : (\A k \in DOMAIN batch : batch[k].slot # s) => leases'[s] = leases[s]
  BY <1>1, <1>b, <1>5 DEF Claim
<1>7. \A d \in Batch \ {b} : \A i \in DOMAIN batches[d].todo :
        leases'[batches[d].todo[i].slot] = leases[batches[d].todo[i].slot]
  BY <1>4, <1>6, HeldType
<1>8. \A k \in DOMAIN batch : leases'[batch[k].slot] = now + LeaseMs
  BY <1>3, <1>6
<1>9. SlotsDisjoint'
  BY <1>2, <1>4, ClaimedAreDistinct DEF OwnInv, SlotsDisjoint
<1>10. HeldIsStored'
  <2>1. now + LeaseMs # NoLease
    BY <1>5, StoreAssumption
  <2> QED
    BY <1>2, <1>3, <1>6, <1>7, <1>8, <2>1 DEF OwnInv, HeldIsStored
<1>11. LeasesLast'
  <2>1. ASSUME batch # << >>
        PROVE  now + LeaseMs > now + Spent(Len(batch))
    <3>1. Spent(Len(batch)) <= Spent(Cardinality(Slot)) /\ Spent(Len(batch)) \in Nat
      BY ClaimedAreDistinct, SpentStep
    <3>2. Spent(Cardinality(Slot)) < LeaseMs /\ Spent(Cardinality(Slot)) \in Nat
      BY ClaimedAreDistinct, SpentStep DEF LeaseOutlastsBatch, Spent
    <3> QED
      BY <1>5, <3>1, <3>2
  <2> SUFFICES ASSUME NEW d \in Batch, NEW i \in DOMAIN batches'[d].todo
               PROVE  LET left  == Len(batches'[d].todo)
                          until == leases'[batches'[d].todo[i].slot]
                      IN  /\ batches'[d].pc = "next" => until > now' + Spent(left)
                          /\ InScope(d)' => until > batches'[d].startedAt + Spent(left)
                          /\ batches'[d].pc \in {"removing", "rescheduling"} =>
                               until > now' + Spent(left - 1)
    BY DEF LeasesLast, InScope
  <2>2. CASE d = b
    BY <1>b, <1>2, <1>8, <2>1, <2>2 DEF InScope
  <2>3. CASE d # b
    BY <1>b, <1>2, <1>7, <2>3 DEF OwnInv, LeasesLast, InScope
  <2> QED
    BY <2>2, <2>3
<1>12. EmptyHanded' /\ ClaimsAreFresh' /\ ScopesInTime'
  BY <1>b, <1>2 DEF OwnInv, EmptyHanded, ClaimsAreFresh, ScopesInTime, InScope
<1> QED
  BY <1>9, <1>10, <1>11, <1>12 DEF OwnInv

(* While a record is at hand its lease runs no faster than the time its     *)
(* check may take.                                                          *)
LEMMA OwnStays ==
  ASSUME TypeOK, TypeOK', OwnInv, NEW b \in Batch, Stays(b), now' = now
  PROVE  OwnInv'
<1>1. /\ \A d \in Batch \ {b} : batches'[d] = batches[d]
      /\ batches'[b].todo = batches[b].todo
      /\ records' = records /\ leases' = leases
  BY DEF Stays, storeVars
<1>2. now \in Nat /\ EvalTimeout \in Nat /\ batches[b] \in BatchState
  BY WorkerAssumption DEF TypeOK, ControlTypeOK, BatchesTypeOK
<1>3. batches'[b].pc \notin {"idle", "claiming"}
  BY DEF Stays, InScope
<1>4. EmptyHanded' /\ ClaimsAreFresh'
  BY <1>1, <1>3 DEF OwnInv, EmptyHanded, ClaimsAreFresh
<1>5. ScopesInTime'
  <2>1. InScope(b)' => \/ batches'[b].startedAt = now
                       \/ InScope(b) /\ batches'[b].startedAt = batches[b].startedAt
    BY DEF Stays, InScope
  <2>2. InScope(b)' => batches'[b].startedAt <= now' /\ now' <= batches'[b].startedAt + EvalTimeout
    BY <1>2, <2>1 DEF OwnInv, ScopesInTime
  <2> QED
    BY <1>1, <2>2 DEF OwnInv, ScopesInTime, InScope
<1>6. SlotsDisjoint' /\ HeldIsStored'
  BY <1>1 DEF OwnInv, SlotsDisjoint, HeldIsStored
<1>7. LeasesLast'
  <2> SUFFICES ASSUME NEW d \in Batch, NEW i \in DOMAIN batches[d].todo
               PROVE  LET left  == Len(batches[d].todo)
                          until == leases[batches[d].todo[i].slot]
                      IN  /\ batches'[d].pc = "next" => until > now + Spent(left)
                          /\ InScope(d)' => until > batches'[d].startedAt + Spent(left)
                          /\ batches'[d].pc \in {"removing", "rescheduling"} =>
                               until > now + Spent(left - 1)
    BY <1>1 DEF LeasesLast, InScope
  <2> DEFINE left  == Len(batches[d].todo)
             until == leases[batches[d].todo[i].slot]
  <2>1. /\ batches[d].pc = "next" => until > now + Spent(left)
        /\ InScope(d) => until > batches[d].startedAt + Spent(left)
        /\ batches[d].pc \in {"removing", "rescheduling"} => until > now + Spent(left - 1)
    BY DEF OwnInv, LeasesLast
  <2>2. CASE d # b
    BY <1>1, <2>1, <2>2 DEF InScope
  <2>3. CASE d = b
    <3>1. left \in Nat /\ left - 1 \in Nat /\ until \in Nat /\ (left - 1) + 1 = left
      BY HeldType DEF OwnInv, HeldIsStored
    <3> HIDE DEF left, until
    <3>2. /\ Spent(left - 1) \in Nat /\ Spent(left) \in Nat
          /\ Spent(left) = Spent(left - 1) + EvalTimeout
      BY <3>1, SpentStep
    <3>3. InScope(b) => /\ batches[b].startedAt \in Nat
                        /\ now <= batches[b].startedAt + EvalTimeout
      BY <1>2 DEF OwnInv, ScopesInTime, BatchState
    <3>4. CASE batches[b].pc = "next"
      <4>1. until > now + Spent(left) /\ until > now + Spent(left - 1)
        BY <2>1, <2>3, <3>1, <3>2, <3>4, <1>2
      <4>2. InScope(b)' => batches'[b].startedAt = now
        BY <3>4 DEF Stays, InScope
      <4>3. batches'[b].pc # "next"
        BY DEF Stays, InScope
      <4> QED
        BY <2>3, <4>1, <4>2, <4>3 DEF until, left
    <3>5. CASE InScope(b)
      <4>1. until > batches[b].startedAt + Spent(left) /\ until > now + Spent(left - 1)
        BY <2>1, <2>3, <3>1, <3>2, <3>3, <3>5, <1>2
      <4>2. InScope(b)' => batches'[b].startedAt = batches[b].startedAt
        BY <3>5 DEF Stays, InScope
      <4>3. batches'[b].pc # "next"
        BY DEF Stays, InScope
      <4> QED
        BY <2>3, <4>1, <4>2, <4>3 DEF until, left
    <3> QED
      BY <3>4, <3>5 DEF Stays
  <2> QED
    BY <2>2, <2>3
<1> QED
  BY <1>4, <1>5, <1>6, <1>7 DEF OwnInv

LEMMA OwnPutsOff ==
  ASSUME TypeOK, TypeOK', OwnInv, NEW b \in Batch, PutsOff(b), now' = now
  PROVE  OwnInv'
<1>1. InScope(b) /\ Advances(b) /\ records' = records /\ leases' = leases
  BY DEF PutsOff, storeVars
<1>2. now \in Nat /\ EvalTimeout \in Nat /\ batches[b] \in BatchState
  BY WorkerAssumption DEF TypeOK, ControlTypeOK, BatchesTypeOK
<1>3. batches[b].startedAt \in Nat /\ now <= batches[b].startedAt + EvalTimeout
  BY <1>1, <1>2 DEF OwnInv, ScopesInTime, BatchState
<1>4. ASSUME NEW i \in DOMAIN batches[b].todo
      PROVE  leases[batches[b].todo[i].slot] > now + Spent(Len(batches[b].todo) - 1)
  <2> DEFINE left  == Len(batches[b].todo)
             until == leases[batches[b].todo[i].slot]
  <2>1. left \in Nat /\ left - 1 \in Nat /\ until \in Nat /\ (left - 1) + 1 = left
    BY HeldType DEF OwnInv, HeldIsStored
  <2>2. until > batches[b].startedAt + Spent(left)
    BY <1>1 DEF OwnInv, LeasesLast
  <2> HIDE DEF left, until
  <2>3. Spent(left - 1) \in Nat /\ Spent(left) = Spent(left - 1) + EvalTimeout
    BY <2>1, SpentStep
  <2>4. until > now + Spent(left - 1)
    BY <1>2, <1>3, <2>1, <2>2, <2>3
  <2> QED
    BY <2>4 DEF until, left
<1>5. Running(b) /\ batches[b].pc # "claiming"
  BY <1>1 DEF InScope, Running
<1> QED
  BY <1>1, <1>4, <1>5, OwnAdvances

(* A removal or a postponement touches one slot: that of the record at hand. *)
LEMMA SettlesOneSlot ==
  ASSUME TypeOK, OwnInv, NEW b \in Batch, Settles(b)
  PROVE  /\ Current(b).slot \in Slot
         /\ Current(b) = batches[b].todo[1] /\ 1 \in DOMAIN batches[b].todo
         /\ records[Current(b).slot] = Current(b)
         /\ leases[Current(b).slot] # NoLease
         /\ leases' = [leases EXCEPT ![Current(b).slot] = NoLease]
         /\ \/ /\ batches[b].pc = "removing"
               /\ records' = [records EXCEPT ![Current(b).slot] = NoRecord]
            \/ /\ batches[b].pc = "rescheduling"
               /\ records' = [records EXCEPT ![Current(b).slot] =
                                [Current(b) EXCEPT !.runAt = batches[b].newRunAt]]
         /\ \A d \in Batch : \A i \in DOMAIN batches[d].todo :
              (d = b /\ i = 1) \/ batches[d].todo[i].slot # Current(b).slot
<1>1. batches[b].todo # << >>
  BY DEF Settles, TypeOK, BatchesTypeOK, Phase
<1>2. /\ Current(b).slot \in Slot
      /\ Current(b) = batches[b].todo[1] /\ 1 \in DOMAIN batches[b].todo
      /\ Current(b) \in ScheduledCheck
  BY <1>1, CurrentType DEF TypeOK
<1>3. records[Current(b).slot] = Current(b) /\ leases[Current(b).slot] # NoLease
  BY <1>2 DEF OwnInv, HeldIsStored
<1>4. records[Current(b).slot] # NoRecord
  BY <1>2, <1>3, StoreAssumption
<1>5. \A d \in Batch : \A i \in DOMAIN batches[d].todo :
        (d = b /\ i = 1) \/ batches[d].todo[i].slot # Current(b).slot
  BY <1>2 DEF OwnInv, SlotsDisjoint
<1>6. CASE batches[b].pc = "removing" /\ Remove(Current(b).slot)
  BY <1>2, <1>3, <1>5, <1>6 DEF Remove
<1>7. CASE batches[b].pc = "rescheduling" /\ Reschedule(Current(b).slot, batches[b].newRunAt)
  BY <1>2, <1>3, <1>4, <1>5, <1>7 DEF Reschedule
<1> QED
  BY <1>6, <1>7 DEF Settles

LEMMA OwnSettles ==
  ASSUME TypeOK, TypeOK', OwnInv, NEW b \in Batch, Settles(b), now' = now
  PROVE  OwnInv'
<1>1. \A d \in Batch : \A i \in DOMAIN batches[d].todo :
        (d = b /\ i = 1) \/ LET s == batches[d].todo[i].slot
                          IN  records'[s] = records[s] /\ leases'[s] = leases[s]
  <2>1. ASSUME NEW s \in Slot, s # Current(b).slot
        PROVE  records'[s] = records[s] /\ leases'[s] = leases[s]
    <3>1. /\ records \in [Slot -> ScheduledCheck \cup {NoRecord}]
          /\ leases \in [Slot -> Nat \cup {NoLease}]
      BY DEF TypeOK, StoreTypeOK
    <3> QED
      BY <2>1, <3>1, SettlesOneSlot
  <2>2. \A d \in Batch : \A i \in DOMAIN batches[d].todo :
          (d = b /\ i = 1) \/ batches[d].todo[i].slot # Current(b).slot
    BY SettlesOneSlot
  <2>3. \A d \in Batch : \A i \in DOMAIN batches[d].todo : batches[d].todo[i].slot \in Slot
    BY HeldType
  <2> QED
    BY <2>1, <2>2, <2>3
<1>2. batches[b].pc \in {"removing", "rescheduling"} /\ Advances(b)
  BY DEF Settles
<1>3. \A i \in DOMAIN batches[b].todo :
        leases[batches[b].todo[i].slot] > now + Spent(Len(batches[b].todo) - 1)
  BY <1>2 DEF OwnInv, LeasesLast
<1> QED
  BY <1>1, <1>2, <1>3, OwnAdvances DEF Running

(* Steps that leave the records held and the progress of their batches alone. *)
LEMMA OwnKept ==
  ASSUME TypeOK, OwnInv, now' = now,
         \A b \in Batch : Undisturbed(b),
         \A b \in Batch : \A i \in DOMAIN batches'[b].todo :
           LET s == batches[b].todo[i].slot
           IN  records'[s] = records[s] /\ leases'[s] = leases[s]
  PROVE  OwnInv'
<1>1. EmptyHanded' /\ ClaimsAreFresh' /\ ScopesInTime'
  BY DEF Undisturbed, OwnInv, EmptyHanded, ClaimsAreFresh, ScopesInTime, InScope
<1>2. \A b \in Batch : \A i \in DOMAIN batches'[b].todo :
        /\ batches'[b].todo = batches[b].todo
        /\ batches'[b].pc = batches[b].pc
        /\ batches'[b].startedAt = batches[b].startedAt
  BY DEF Undisturbed
<1>3. SlotsDisjoint'
  BY <1>2 DEF OwnInv, SlotsDisjoint
<1>4. HeldIsStored'
  BY <1>2 DEF OwnInv, HeldIsStored
<1>5. LeasesLast'
  <2> SUFFICES ASSUME NEW b \in Batch, NEW i \in DOMAIN batches'[b].todo
               PROVE  LET left  == Len(batches'[b].todo)
                          until == leases'[batches'[b].todo[i].slot]
                      IN  /\ batches'[b].pc = "next" => until > now' + Spent(left)
                          /\ InScope(b)' => until > batches'[b].startedAt + Spent(left)
                          /\ batches'[b].pc \in {"removing", "rescheduling"} =>
                               until > now' + Spent(left - 1)
    BY DEF LeasesLast, InScope
  <2>1. leases'[batches'[b].todo[i].slot] = leases[batches[b].todo[i].slot]
    BY <1>2
  <2> QED
    BY <1>2, <2>1 DEF OwnInv, LeasesLast, InScope
<1> QED
  BY <1>1, <1>3, <1>4, <1>5 DEF OwnInv

(* While a record is in a scope that has time left, the clock may advance;  *)
(* in every other phase a continuation is due and it may not.               *)
LEMMA OwnClock ==
  ASSUME LeaseOutlastsBatch, TypeOK, OwnInv, ClockAdvances
  PROVE  OwnInv'
<1>1. /\ now' = now + 1 /\ now \in Nat /\ EvalTimeout \in Nat
      /\ UNCHANGED <<records, leases, batches>>
  BY WorkerAssumption DEF ClockAdvances, TypeOK, ControlTypeOK, storeVars, workerVars
<1>2. ASSUME NEW b \in Batch
      PROVE  /\ batches[b].pc \in {"idle", "checking", "acting"}
             /\ InScope(b) => batches[b].startedAt <= now /\ now < batches[b].startedAt + EvalTimeout
             /\ batches[b].startedAt \in Nat
  <2>1. batches[b].pc \in Phase /\ batches[b].startedAt \in Nat
    BY DEF TypeOK, BatchesTypeOK, BatchState
  <2>2. batches[b].pc # "next" /\ ~InStoreCall(b)
    BY DEF ClockAdvances, ContinuationsDue, LeaseOutlastsBatch
  <2>3. InScope(b) => ~(now >= batches[b].startedAt + EvalTimeout) /\ batches[b].startedAt <= now
    BY DEF ClockAdvances, TimersDue, OwnInv, ScopesInTime
  <2> QED
    BY <1>1, <2>1, <2>2, <2>3 DEF Phase, InStoreCall
<1>3. EmptyHanded' /\ ClaimsAreFresh'
  BY <1>1, <1>2 DEF OwnInv, EmptyHanded, ClaimsAreFresh
<1>4. ScopesInTime'
  BY <1>1, <1>2 DEF ScopesInTime, InScope
<1>5. SlotsDisjoint' /\ HeldIsStored'
  BY <1>1 DEF OwnInv, SlotsDisjoint, HeldIsStored
<1>6. LeasesLast'
  <2>1. \A b \in Batch : batches'[b].pc \in {"idle", "checking", "acting"}
    BY <1>1, <1>2
  <2> QED
    BY <1>1, <2>1 DEF OwnInv, LeasesLast, InScope
<1> QED
  BY <1>3, <1>4, <1>5, <1>6 DEF OwnInv

LEMMA OwnInvInit == Init => OwnInv
BY DEF Init, Idle, OwnInv, EmptyHanded, ClaimsAreFresh, ScopesInTime, SlotsDisjoint,
       HeldIsStored, LeasesLast, InScope

LEMMA OwnInvNext ==
  ASSUME LeaseOutlastsBatch, TypeOK, OwnInv, [Next]_vars
  PROVE  OwnInv'
<1>t. TypeOK'
  BY NextType
<1>1. CASE EngineStep
  <2>1. now' = now /\ \A b \in Batch : Undisturbed(b)
    BY <1>1, EngineStepsKeep
  <2>2. \A b \in Batch : \A i \in DOMAIN batches'[b].todo : UNCHANGED storeVars
    <3>1. CASE Crash
      BY <3>1 DEF Crash, Idle
    <3> QED
      BY <1>1, <3>1, EngineStepsKeep
  <2> QED
    BY <2>1, <2>2, OwnKept DEF storeVars
<1>2. ASSUME NEW s \in Slot, NEW t \in 0..now, Schedule(s, t)
      PROVE  OwnInv'
  <2> DEFINE rec == [slot |-> s, gen |-> triggers[s] + 1, runAt |-> t + Delay,
                     scheduledAt |-> t,
                     deadline |-> IF Deadline = NoDeadline THEN NoDeadline ELSE t + Deadline]
  <2>1. Enqueue(rec) /\ rec.slot = s /\ now' = now /\ batches' = batches
    BY <1>2 DEF Schedule, workerVars
  <2> HIDE DEF rec
  <2>2. \A b \in Batch : \A i \in DOMAIN batches[b].todo : batches[b].todo[i].slot # s
    BY <1>2 DEF Schedule, LeaseOutlastsBatch
  <2>3. \A b \in Batch : \A i \in DOMAIN batches'[b].todo :
          LET u == batches[b].todo[i].slot
          IN  records'[u] = records[u] /\ leases'[u] = leases[u]
    BY <2>1, <2>2, HeldType DEF Enqueue, TypeOK, StoreTypeOK
  <2> QED
    BY <2>1, <2>3, OwnKept DEF Undisturbed
<1>3. CASE ClockAdvances
  BY <1>3, OwnClock
<1>4. ASSUME NEW b \in Batch, BatchStep(b)
      PROVE  OwnInv'
  BY <1>4, <1>t, BatchStepKinds, OwnClaims, OwnStays, OwnPutsOff, OwnSettles
  DEF LeaseOutlastsBatch
<1> QED
  BY <1>1, <1>2, <1>3, <1>4 DEF Next, AtHorizon, EngineStep

LEMMA OwnInvariance ==
  ASSUME LeaseOutlastsBatch
  PROVE  Spec => []OwnInv
<1>1. TypeOK /\ OwnInv /\ [Next]_vars => OwnInv'
  BY OwnInvNext
<1> QED
  BY <1>1, OwnInvInit, TypeCorrect, PTL DEF Spec

(* A batch owns what it works on: while a record waits in a batch for its   *)
(* outcome, the store still holds that very record under a lease that has   *)
(* not run out, whatever the other batches, events, stop() and crashes do.  *)
THEOREM BatchesOwnTheirRecords ==
  ASSUME LeaseOutlastsBatch
  PROVE  Spec => []OwnsWhatItHandles
BY OwnInvOwns, OwnInvariance, TypeCorrect, PTL

-----------------------------------------------------------------------------
(* Delays.  A record that is postponed goes on from the time of its check,  *)
(* and what is postponed is the record that was checked.                    *)

(* The record at hand: it was claimed, and is not due before its delay.     *)
LEMMA CurrentIsDue ==
  ASSUME TypeOK, OwnInv, DelayInv, NEW b \in Batch,
         batches[b].pc \notin {"idle", "claiming"}
  PROVE  /\ Current(b) \in ScheduledCheck
         /\ Current(b).scheduledAt + Delay <= now
         /\ batches[b].todo # << >>
<1>1. /\ Current(b) \in ScheduledCheck /\ Current(b).slot \in Slot
      /\ Current(b) = batches[b].todo[1] /\ 1 \in DOMAIN batches[b].todo
      /\ batches[b].todo # << >>
  <2>1. batches[b].todo # << >>
    BY DEF TypeOK, BatchesTypeOK, BatchState
  <2> QED
    BY <2>1, CurrentType DEF TypeOK
<1>2. records[Current(b).slot] = Current(b) /\ Current(b).runAt <= now
  BY <1>1 DEF OwnInv, HeldIsStored, DelayInv
<1>3. Current(b).runAt >= Current(b).scheduledAt + Delay
  BY <1>1, <1>2, StoreAssumption DEF DelayInv
<1>4. now \in Nat /\ Delay \in Nat
  BY WorkerAssumption DEF TypeOK, ControlTypeOK
<1> QED
  BY <1>1, <1>2, <1>3, <1>4 DEF ScheduledCheck

(* The part of DelayInv that is about one batch. *)
BatchIsDue(b) ==
  /\ \A i \in DOMAIN batches[b].todo : batches[b].todo[i].runAt <= now
  /\ batches[b].pc = "rescheduling" =>
       batches[b].newRunAt >= Current(b).scheduledAt + Delay
  /\ InScope(b) => batches[b].startedAt >= Current(b).scheduledAt + Delay

RecordsAreDue ==
  \A s \in Slot : records[s] # NoRecord => records[s].runAt >= records[s].scheduledAt + Delay

LEMMA DelayInvParts == DelayInv <=> RecordsAreDue /\ \A b \in Batch : BatchIsDue(b)
BY DEF DelayInv, NotBeforeDelay, BatchIsDue, RecordsAreDue

(* A batch is undisturbed while time passes or the engine takes a step. *)
LEMMA DueWhenUndisturbed ==
  ASSUME TypeOK, NEW b \in Batch, BatchIsDue(b), Undisturbed(b), now' = now \/ now' = now + 1
  PROVE  BatchIsDue(b)'
<1>1. \A i \in DOMAIN batches[b].todo : batches[b].todo[i].runAt <= now'
  <2>1. ASSUME NEW i \in DOMAIN batches[b].todo
        PROVE  batches[b].todo[i].runAt <= now'
    <3>1. batches[b].todo[i].runAt \in Nat /\ batches[b].todo[i].runAt <= now /\ now \in Nat
      BY HeldType DEF BatchIsDue, ScheduledCheck, TypeOK, ControlTypeOK
    <3> QED
      BY <3>1
  <2> QED
    BY <2>1
<1> QED
  BY <1>1 DEF Undisturbed, BatchIsDue, InScope, Current

LEMMA DueAfterBatchStep ==
  ASSUME LeaseOutlastsBatch, TypeOK, OwnInv, DelayInv, NEW b \in Batch, BatchStep(b)
  PROVE  BatchIsDue(b)'
<1>a. now' = now /\ now \in Nat /\ Delay \in Nat
  BY BatchStepKinds, WorkerAssumption DEF LeaseOutlastsBatch, TypeOK, ControlTypeOK
<1>1. CASE ClaimReturns(b)
  <2>1. batches[b].at = now
    BY <1>1 DEF ClaimReturns, OwnInv, ClaimsAreFresh
  <2>2. PICK batch \in Batches(now, Limit) :
          /\ batches'[b].todo = batch
          /\ batches'[b].pc = IF batch = << >> THEN "idle" ELSE "next"
    BY <1>1, <2>1, ClaimEffect
  <2>3. \A i \in DOMAIN batch : \E s \in Claimable(now) : batch[i] = records[s]
    BY DEF Batches
  <2>4. \A i \in DOMAIN batch : batch[i].runAt <= now
    BY <2>3 DEF Claimable
  <2> QED
    BY <1>a, <2>2, <2>4 DEF BatchIsDue, InScope
<1>2. CASE Stays(b)
  <2>1. batches[b].pc \notin {"idle", "claiming"}
    BY <1>2 DEF Stays, InScope
  <2>2. /\ Current(b) \in ScheduledCheck /\ Current(b).scheduledAt + Delay <= now
        /\ Current(b)' = Current(b) /\ batches'[b].todo = batches[b].todo
    BY <1>2, <2>1, CurrentIsDue DEF Stays, Current
  <2>3. BatchIsDue(b)
    BY DelayInvParts
  <2>4. CASE batches'[b].pc = "checking" /\ batches'[b].startedAt = now
    BY <1>a, <2>2, <2>3, <2>4 DEF BatchIsDue, InScope, ScheduledCheck
  <2>5. CASE InScope(b) /\ InScope(b)' /\ batches'[b].startedAt = batches[b].startedAt
    BY <1>a, <2>2, <2>3, <2>5 DEF BatchIsDue, InScope
  <2>6. CASE batches'[b].pc = "removing"
    BY <1>a, <2>2, <2>3, <2>6 DEF BatchIsDue, InScope
  <2>7. CASE /\ batches'[b].pc = "rescheduling"
             /\ \E after \in Nat : batches'[b].newRunAt = now + after
    <3>1. batches'[b].newRunAt >= Current(b).scheduledAt + Delay
      BY <1>a, <2>2, <2>7 DEF ScheduledCheck
    <3> QED
      BY <1>a, <2>2, <2>3, <2>7, <3>1 DEF BatchIsDue, InScope
  <2> QED
    BY <1>2, <2>4, <2>5, <2>6, <2>7 DEF Stays
<1>3. CASE Advances(b)
  <2>1. BatchIsDue(b)
    BY DelayInvParts
  <2>2. \A i \in DOMAIN batches'[b].todo : batches'[b].todo[i].runAt <= now
    BY <1>3, <2>1 DEF BatchIsDue, Advances
  <2> QED
    BY <1>3, <1>a, <2>2 DEF BatchIsDue, InScope, Advances
<1> QED
  BY <1>1, <1>2, <1>3, BatchStepKinds DEF LeaseOutlastsBatch, PutsOff, Settles

LEMMA RecordsDueAfterBatchStep ==
  ASSUME LeaseOutlastsBatch, TypeOK, OwnInv, DelayInv, NEW b \in Batch, BatchStep(b)
  PROVE  RecordsAreDue'
<1>1. CASE UNCHANGED records
  BY <1>1 DEF RecordsAreDue, DelayInv
<1>2. CASE Settles(b)
  <2> SUFFICES ASSUME NEW s \in Slot, records'[s] # NoRecord
               PROVE  records'[s].runAt >= records'[s].scheduledAt + Delay
    BY DEF RecordsAreDue
  <2>1. CASE records'[s] = records[s]
    BY <2>1 DEF DelayInv
  <2>2. CASE /\ batches[b].pc = "rescheduling"
             /\ records'[s] = [Current(b) EXCEPT !.runAt = batches[b].newRunAt]
    <3>1. Current(b) \in ScheduledCheck
      BY <2>2, CurrentIsDue
    <3>2. /\ records'[s].runAt = batches[b].newRunAt
          /\ records'[s].scheduledAt = Current(b).scheduledAt
      BY <2>2, <3>1 DEF ScheduledCheck
    <3> QED
      BY <2>2, <3>2 DEF DelayInv
  <2> QED
    BY <1>2, <2>1, <2>2, SettlesOneSlot DEF TypeOK, StoreTypeOK
<1>3. CASE ClaimReturns(b)
  BY <1>1, <1>3, ClaimEffect DEF Claim
<1> QED
  BY <1>1, <1>2, <1>3, BatchStepKinds DEF LeaseOutlastsBatch, Stays, PutsOff, storeVars

LEMMA DelayInvNext ==
  ASSUME LeaseOutlastsBatch, TypeOK, OwnInv, DelayInv, [Next]_vars
  PROVE  DelayInv'
<1>a. RecordsAreDue /\ \A b \in Batch : BatchIsDue(b)
  BY DelayInvParts
<1> SUFFICES RecordsAreDue' /\ \A b \in Batch : BatchIsDue(b)'
  BY DEF DelayInv, NotBeforeDelay, BatchIsDue, RecordsAreDue, InScope, Current
<1>1. CASE EngineStep
  <2>1. RecordsAreDue'
    BY <1>1, <1>a, EngineStepsKeep DEF RecordsAreDue, Crash, storeVars
  <2> QED
    BY <1>1, <1>a, <2>1, EngineStepsKeep, DueWhenUndisturbed
<1>2. ASSUME NEW s \in Slot, NEW t \in 0..now, Schedule(s, t)
      PROVE  RecordsAreDue' /\ \A b \in Batch : BatchIsDue(b)'
  <2> DEFINE rec == [slot |-> s, gen |-> triggers[s] + 1, runAt |-> t + Delay,
                     scheduledAt |-> t,
                     deadline |-> IF Deadline = NoDeadline THEN NoDeadline ELSE t + Deadline]
  <2>1. Enqueue(rec) /\ rec.slot = s /\ now' = now /\ batches' = batches
    BY <1>2 DEF Schedule, workerVars
  <2>2. rec.runAt = t + Delay /\ rec.scheduledAt = t /\ t \in Int /\ Delay \in Nat
    BY WorkerAssumption
  <2> HIDE DEF rec
  <2>3. RecordsAreDue'
    <3>1. rec.runAt >= rec.scheduledAt + Delay
      BY <2>2
    <3> QED
      BY <1>a, <2>1, <3>1 DEF Enqueue, TypeOK, StoreTypeOK, RecordsAreDue
  <2>4. \A b \in Batch : Undisturbed(b)
    BY <2>1 DEF Undisturbed
  <2> QED
    BY <1>a, <2>1, <2>3, <2>4, DueWhenUndisturbed
<1>3. CASE ClockAdvances
  <2>1. now' = now + 1 /\ UNCHANGED <<records, batches>>
    BY <1>3 DEF ClockAdvances, storeVars, workerVars
  <2>2. \A b \in Batch : Undisturbed(b)
    BY <2>1 DEF Undisturbed
  <2>3. RecordsAreDue'
    BY <1>a, <2>1 DEF RecordsAreDue
  <2> QED
    BY <1>a, <2>1, <2>2, <2>3, DueWhenUndisturbed
<1>4. ASSUME NEW b \in Batch, BatchStep(b)
      PROVE  RecordsAreDue' /\ \A d \in Batch : BatchIsDue(d)'
  <2>1. \A d \in Batch \ {b} : batches'[d] = batches[d] /\ now' = now
    BY <1>4, BatchEffects, BatchStepKinds DEF BatchEffect, LeaseOutlastsBatch
  <2>2. \A d \in Batch \ {b} : BatchIsDue(d)'
    BY <1>a, <2>1 DEF BatchIsDue, InScope, Current
  <2> QED
    BY <1>4, <2>2, DueAfterBatchStep, RecordsDueAfterBatchStep
<1> QED
  BY <1>1, <1>2, <1>3, <1>4 DEF Next, AtHorizon, EngineStep

(* No check of a decision starts before the delay of its trigger is over:   *)
(* neither after a recheck, whose record store.reschedule updates by slot,  *)
(* nor when the lease of a process that died has run out.                   *)
THEOREM ChecksWaitForTheirDelay ==
  ASSUME LeaseOutlastsBatch
  PROVE  Spec => []NotBeforeDelay
<1>1. Init => DelayInv
  BY DEF Init, StoreInit, Idle, DelayInv, NotBeforeDelay, InScope
<1>2. TypeOK /\ OwnInv /\ DelayInv /\ [Next]_vars => DelayInv'
  BY DelayInvNext
<1>3. DelayInv => NotBeforeDelay
  BY DEF DelayInv
<1> QED
  BY <1>1, <1>2, <1>3, OwnInvariance, TypeCorrect, PTL DEF Spec

-----------------------------------------------------------------------------
(* Failed attempts.  The map of attempts is keyed by the trigger of a check; *)
(* nothing sweeps it, so a key that outlives its check stays for good.       *)

LEMMA AttemptsAfterBatchStep ==
  ASSUME LeaseOutlastsBatch, TypeOK, OwnInv, AttemptsInv, NEW b \in Batch, BatchStep(b)
  PROVE  AttemptsInv'
<1> DEFINE key == AttemptKey(Current(b))
<1>1. \A d \in Batch \ {b} : batches'[d] = batches[d]
  BY BatchEffects DEF BatchEffect
<1>2. ASSUME DOMAIN attempts' \subseteq DOMAIN attempts,
             batches'[b].pc = "removing" /\ batches'[b].outcome = "max_attempts_exceeded"
               => AttemptKey(Current(b)') \notin DOMAIN attempts'
      PROVE  \A d \in Batch :
               batches'[d].pc = "removing" /\ batches'[d].outcome = "max_attempts_exceeded"
                 => AttemptKey(Current(d)') \notin DOMAIN attempts'
  BY <1>1, <1>2 DEF AttemptsInv, Current
<1>3. CASE ClaimReturns(b) /\ UNCHANGED attempts
  <2>1. batches'[b].pc \in {"idle", "next"} /\ records' = records
    BY <1>3, ClaimEffect DEF Claim
  <2> QED
    BY <1>2, <1>3, <2>1 DEF AttemptsInv, AttemptsOnlyForPending, Current, AttemptKey
<1>4. CASE Stays(b)
  <2>1. records' = records /\ Current(b)' = Current(b)
    BY <1>4 DEF Stays, storeVars, Current
  <2>2. /\ DOMAIN attempts' \subseteq DOMAIN attempts
        /\ \/ key \notin DOMAIN attempts'
           \/ batches'[b].pc = "removing" => batches'[b].outcome # "max_attempts_exceeded"
    BY <1>4 DEF Stays, ClearAttempts, Restrict
  <2> QED
    BY <1>2, <2>1, <2>2 DEF AttemptsInv, AttemptsOnlyForPending, Current, AttemptKey
<1>5. CASE PutsOff(b)
  <2>1. /\ records' = records /\ batches'[b].pc \in {"idle", "next"}
        /\ DOMAIN attempts' = DOMAIN attempts \cup {key}
    BY <1>5 DEF PutsOff, storeVars, Advances, StoreAttempts
  <2>2. batches[b].todo # << >>
    BY <1>5 DEF PutsOff, InScope, TypeOK, BatchesTypeOK, Phase
  <2>3. /\ Current(b) \in ScheduledCheck /\ Current(b).slot \in Slot
        /\ Current(b) = batches[b].todo[1] /\ 1 \in DOMAIN batches[b].todo
    BY <2>2, CurrentType DEF TypeOK
  <2>4. records[Current(b).slot] = Current(b) /\ Current(b) # NoRecord
    BY <2>3, StoreAssumption DEF OwnInv, HeldIsStored
  <2>5. AttemptsOnlyForPending'
    BY <2>1, <2>3, <2>4 DEF AttemptsInv, AttemptsOnlyForPending, AttemptKey
  <2>6. ASSUME NEW d \in Batch, batches'[d].pc = "removing",
               batches'[d].outcome = "max_attempts_exceeded"
        PROVE  AttemptKey(Current(d)') \notin DOMAIN attempts'
    <3>1. d # b /\ batches'[d] = batches[d]
      BY <1>1, <2>1, <2>6
    <3>2. batches[d].todo # << >>
      BY <2>6, <3>1 DEF TypeOK, BatchesTypeOK, Phase
    <3>3. Current(d) = batches[d].todo[1] /\ 1 \in DOMAIN batches[d].todo
      BY <3>2, CurrentType DEF TypeOK
    <3>4. Current(d).slot # Current(b).slot
      BY <2>3, <3>1, <3>3 DEF OwnInv, SlotsDisjoint
    <3>5. AttemptKey(Current(d)) # key
      BY <3>4 DEF AttemptKey
    <3>6. AttemptKey(Current(d)) \notin DOMAIN attempts
      BY <2>6, <3>1 DEF AttemptsInv
    <3> QED
      BY <2>1, <3>1, <3>5, <3>6 DEF Current
  <2> QED
    BY <2>5, <2>6 DEF AttemptsInv, Current, AttemptKey
<1>6. CASE Settles(b)
  <2>1. DOMAIN attempts' \subseteq DOMAIN attempts /\ key \notin DOMAIN attempts'
    BY <1>6 DEF Settles, ClearAttempts, Restrict, AttemptsInv
  <2>2. /\ records[Current(b).slot] = Current(b)
        /\ \A u \in Slot : u # Current(b).slot => records'[u] = records[u]
    BY <1>6, SettlesOneSlot DEF TypeOK, StoreTypeOK
  <2>3. AttemptsOnlyForPending'
    BY <2>1, <2>2 DEF AttemptsInv, AttemptsOnlyForPending, AttemptKey
  <2>4. batches'[b].pc \in {"idle", "next"}
    BY <1>6 DEF Settles, Advances
  <2> QED
    BY <1>2, <2>1, <2>3, <2>4 DEF AttemptsInv, Current, AttemptKey
<1> QED
  BY <1>3, <1>4, <1>5, <1>6, BatchStepKinds DEF LeaseOutlastsBatch

LEMMA AttemptsInvNext ==
  ASSUME LeaseOutlastsBatch, TypeOK, OwnInv, AttemptsInv, [Next]_vars
  PROVE  AttemptsInv'
<1>1. ASSUME UNCHANGED attempts,
             \A s \in Slot : records[s] # NoRecord => records'[s] = records[s],
             \A b \in Batch : Undisturbed(b)
      PROVE  AttemptsInv'
  <2>1. AttemptsOnlyForPending'
    BY <1>1 DEF AttemptsInv, AttemptsOnlyForPending, AttemptKey
  <2>2. \A b \in Batch :
          batches'[b].pc = "removing" /\ batches'[b].outcome = "max_attempts_exceeded"
            => AttemptKey(Current(b)') \notin DOMAIN attempts'
    BY <1>1 DEF AttemptsInv, Undisturbed, Current
  <2> QED
    BY <2>1, <2>2 DEF AttemptsInv, Current, AttemptKey
<1>2. CASE EngineStep /\ ~Crash
  BY <1>1, <1>2, EngineStepsKeep DEF storeVars
<1>3. CASE Crash
  <2>1. attempts' = [k \in {} |-> 0] /\ \A b \in Batch : batches'[b].pc = "idle"
    BY <1>3 DEF Crash, Idle
  <2>2. DOMAIN attempts' = {}
    BY <2>1
  <2> QED
    BY <2>1, <2>2 DEF AttemptsInv, AttemptsOnlyForPending
<1>4. ASSUME NEW s \in Slot, NEW t \in 0..now, Schedule(s, t)
      PROVE  AttemptsInv'
  <2> DEFINE rec == [slot |-> s, gen |-> triggers[s] + 1, runAt |-> t + Delay,
                     scheduledAt |-> t,
                     deadline |-> IF Deadline = NoDeadline THEN NoDeadline ELSE t + Deadline]
  <2>1. Enqueue(rec) /\ rec.slot = s /\ UNCHANGED <<batches, attempts>> /\ records[s] = NoRecord
    BY <1>4 DEF Schedule, workerVars, LeaseOutlastsBatch
  <2> HIDE DEF rec
  <2>2. \A u \in Slot : records[u] # NoRecord => records'[u] = records[u]
    BY <2>1 DEF Enqueue, TypeOK, StoreTypeOK
  <2>3. \A b \in Batch : Undisturbed(b)
    BY <2>1 DEF Undisturbed
  <2> QED
    BY <1>1, <2>1, <2>2, <2>3
<1>5. CASE ClockAdvances
  BY <1>1, <1>5 DEF ClockAdvances, storeVars, workerVars, Undisturbed
<1>6. ASSUME NEW b \in Batch, BatchStep(b)
      PROVE  AttemptsInv'
  BY <1>6, AttemptsAfterBatchStep
<1> QED
  BY <1>2, <1>3, <1>4, <1>5, <1>6 DEF Next, AtHorizon, EngineStep

(* Failures are counted only for checks that are still pending: whichever   *)
(* way a check ends (pass, skip, deadline, orphan, given up), and however   *)
(* its attempts interleave with other batches, its key leaves the map.      *)
THEOREM AttemptsEndWithTheirCheck ==
  ASSUME LeaseOutlastsBatch
  PROVE  Spec => []AttemptsOnlyForPending
<1>1. Init => AttemptsInv
  BY DEF Init, Idle, AttemptsInv, AttemptsOnlyForPending
<1>2. TypeOK /\ OwnInv /\ AttemptsInv /\ [Next]_vars => AttemptsInv'
  BY AttemptsInvNext
<1>3. AttemptsInv => AttemptsOnlyForPending
  BY DEF AttemptsInv
<1> QED
  BY <1>1, <1>2, <1>3, OwnInvariance, TypeCorrect, PTL DEF Spec

-----------------------------------------------------------------------------
(* Removal by slot. *)

(* A pending decision disappears only through the batch that claimed that   *)
(* very decision, although store.remove names no more than its slot: no     *)
(* other step takes a record out of a store that survives crashes.          *)
THEOREM OnlyItsBatchRemoves ==
  ASSUME LeaseOutlastsBatch, Durable \/ MaxCrashes = 0
  PROVE  Spec => RemovedByItsOwnBatch
<1>1. ASSUME TypeOK, OwnInv, [Next]_vars, NEW s \in Slot,
             records[s] # NoRecord, records'[s] = NoRecord
      PROVE  \E b \in Batch : /\ batches[b].pc = "removing"
                              /\ Decision(Current(b)) = Decision(records[s])
  <2>1. CASE UNCHANGED records
    BY <1>1, <2>1
  <2>2. CASE EngineStep
    <3>1. Crash => UNCHANGED storeVars
      BY <1>1, WorkerAssumption DEF Crash, TypeOK, HistoryTypeOK
    <3> QED
      BY <1>1, <2>1, <2>2, <3>1, EngineStepsKeep DEF storeVars
  <2>3. ASSUME NEW u \in Slot, NEW t \in 0..now, Schedule(u, t)
        PROVE  UNCHANGED records \/ records[s] # records'[s] => u = s /\ records[s] = NoRecord
    BY <1>1, <2>3 DEF Schedule, Enqueue, TypeOK, StoreTypeOK, LeaseOutlastsBatch
  <2>4. ASSUME NEW b \in Batch, BatchStep(b)
        PROVE  /\ batches[b].pc = "removing"
               /\ Decision(Current(b)) = Decision(records[s])
    <3>1. CASE UNCHANGED records
      BY <1>1, <3>1
    <3>2. CASE ClaimReturns(b)
      BY <1>1, <3>1, <3>2, ClaimEffect DEF Claim
    <3>3. CASE Settles(b)
      <4>1. s = Current(b).slot
        BY <1>1, <3>3, SettlesOneSlot DEF TypeOK, StoreTypeOK
      <4>2. records[s] = Current(b)
        BY <1>1, <3>3, <4>1, SettlesOneSlot
      <4>3. batches[b].pc # "rescheduling"
        <5> SUFFICES ASSUME batches[b].pc = "rescheduling" PROVE FALSE
          OBVIOUS
        <5>1. records'[s] = [Current(b) EXCEPT !.runAt = batches[b].newRunAt]
          BY <1>1, <3>3, <4>1, SettlesOneSlot DEF TypeOK, StoreTypeOK
        <5>2. Current(b) \in ScheduledCheck /\ batches[b].newRunAt \in Nat
          BY <1>1, <4>2 DEF TypeOK, StoreTypeOK, BatchesTypeOK, BatchState
        <5>3. records'[s] \in ScheduledCheck
          BY <5>1, <5>2 DEF ScheduledCheck
        <5> QED
          BY <1>1, <5>3, StoreAssumption
      <4> QED
        BY <3>3, <4>2, <4>3 DEF Settles
    <3> QED
      BY <1>1, <2>4, <3>1, <3>2, <3>3, BatchStepKinds
      DEF LeaseOutlastsBatch, Stays, PutsOff, storeVars
  <2> QED
    BY <1>1, <2>1, <2>2, <2>3, <2>4 DEF Next, AtHorizon, EngineStep, ClockAdvances, storeVars
<1>2. TypeOK /\ OwnInv /\ [Next]_vars =>
        [\A s \in Slot :
           records[s] # NoRecord /\ records'[s] = NoRecord =>
             \E b \in Batch : /\ batches[b].pc = "removing"
                              /\ Decision(Current(b)) = Decision(records[s])]_vars
  BY <1>1
<1> QED
  BY <1>2, OwnInvariance, TypeCorrect, PTL DEF Spec, RemovedByItsOwnBatch

-----------------------------------------------------------------------------
(* The life cycle of a decision, step by step. *)

(* The record at hand is the pending decision of its slot. *)
LEMMA CurrentIsPending ==
  ASSUME TypeOK, OwnInv, NEW b \in Batch, batches[b].pc \notin {"idle", "claiming"}
  PROVE  /\ Current(b) \in ScheduledCheck /\ Current(b).slot \in Slot
         /\ Current(b) = batches[b].todo[1] /\ 1 \in DOMAIN batches[b].todo
         /\ records[Current(b).slot] = Current(b) /\ Current(b) # NoRecord
         /\ leases[Current(b).slot] # NoLease
         /\ \A d \in Batch : \A i \in DOMAIN batches[d].todo :
              batches[d].todo[i].slot = Current(b).slot => d = b /\ i = 1
<1>1. batches[b].todo # << >>
  BY DEF TypeOK, BatchesTypeOK, BatchState
<1>2. /\ Current(b) \in ScheduledCheck /\ Current(b).slot \in Slot
      /\ Current(b) = batches[b].todo[1] /\ 1 \in DOMAIN batches[b].todo
  BY <1>1, CurrentType DEF TypeOK
<1>3. /\ records[Current(b).slot] = Current(b) /\ leases[Current(b).slot] # NoLease
      /\ Current(b) # NoRecord
  BY <1>2, StoreAssumption DEF OwnInv, HeldIsStored
<1>4. \A d \in Batch : \A i \in DOMAIN batches[d].todo :
        batches[d].todo[i].slot = Current(b).slot => d = b /\ i = 1
  BY <1>2 DEF OwnInv, SlotsDisjoint
<1> QED
  BY <1>2, <1>3, <1>4

LEMMA NumberedAfterBatchStep ==
  ASSUME LeaseOutlastsBatch, TypeOK, OwnInv, NumberedByTriggers, NEW b \in Batch, BatchStep(b)
  PROVE  NumberedByTriggers'
<1>a. triggers' = triggers
  BY BatchStepKinds DEF LeaseOutlastsBatch
<1>1. ASSUME NEW s \in Slot, records'[s] # NoRecord
      PROVE  records'[s].gen <= triggers'[s]
  <2>1. records[s] # NoRecord /\ records'[s].gen = records[s].gen
    BY <1>1, RecordStays
  <2> QED
    BY <1>a, <2>1 DEF NumberedByTriggers
<1>2. ASSUME NEW a \in acted'
      PROVE  a[2] <= triggers'[a[1]]
  <2>1. CASE a \in acted
    BY <1>a, <2>1 DEF NumberedByTriggers
  <2>2. CASE a \notin acted
    <3>1. batches[b].pc = "acting" /\ a = Decision(Current(b))
      BY <1>2, <2>2, BatchStepKinds DEF LeaseOutlastsBatch, Stays, PutsOff, Settles
    <3>2. Current(b).gen <= triggers[Current(b).slot]
      BY <3>1, CurrentIsPending DEF NumberedByTriggers
    <3> QED
      BY <1>a, <3>1, <3>2 DEF Decision
  <2> QED
    BY <2>1, <2>2
<1> QED
  BY <1>1, <1>2 DEF NumberedByTriggers

LEMMA ActedAfterBatchStep ==
  ASSUME LeaseOutlastsBatch, TypeOK, OwnInv, ActedIsRemoved, NEW b \in Batch, BatchStep(b)
  PROVE  ActedIsRemoved'
<1> DEFINE Witness(d, s) == /\ batches[d].pc = "removing" /\ batches[d].outcome = "pass"
                            /\ Current(d).slot = s
<1> SUFFICES ASSUME NEW s \in Slot, records'[s] # NoRecord, Decision(records'[s]) \in acted'
             PROVE  \E d \in Batch : Witness(d, s)'
  BY DEF ActedIsRemoved, Current, Decision
<1>a. /\ records[s] # NoRecord /\ records[s] \in ScheduledCheck /\ records[s].slot = s
      /\ Decision(records'[s]) = Decision(records[s])
  <2>1. /\ records[s] # NoRecord /\ records[s] \in ScheduledCheck
        /\ records'[s].slot = records[s].slot /\ records'[s].gen = records[s].gen
    BY RecordStays
  <2>2. records[s].slot = s
    BY <2>1 DEF TypeOK, StoreTypeOK
  <2> QED
    BY <2>1, <2>2 DEF Decision
<1>1. CASE Decision(records[s]) \in acted
  <2>1. PICK d \in Batch : Witness(d, s)
    BY <1>a, <1>1 DEF ActedIsRemoved
  <2>2. ASSUME d = b PROVE FALSE
    <3>1. Settles(b)
      BY <2>1, <2>2, BatchStepKinds
      DEF LeaseOutlastsBatch, ClaimReturns, Stays, PutsOff, InScope
    <3>2. records' = [records EXCEPT ![s] = NoRecord]
      BY <2>1, <2>2, <3>1, SettlesOneSlot
    <3> QED
      BY <3>2 DEF TypeOK, StoreTypeOK
  <2>3. batches'[d] = batches[d]
    BY <2>2, BatchEffects DEF BatchEffect
  <2> QED
    BY <2>1, <2>3 DEF Current
<1>2. CASE Decision(records[s]) \notin acted
  <2>1. /\ batches[b].pc = "acting" /\ batches'[b].todo = batches[b].todo
        /\ batches'[b].pc = "removing" /\ batches'[b].outcome = "pass"
        /\ Decision(records[s]) = Decision(Current(b))
    BY <1>a, <1>2, BatchStepKinds DEF LeaseOutlastsBatch, Stays, PutsOff, Settles
  <2>2. Current(b).slot = s
    BY <1>a, <2>1 DEF Decision
  <2> QED
    BY <2>1, <2>2 DEF Current
<1> QED
  BY <1>1, <1>2

LEMMA ActedInvNext ==
  ASSUME LeaseOutlastsBatch, MaxCrashes = 0, TypeOK, OwnInv, ActedInv, [Next]_vars
  PROVE  ActedInv'
<1>0. ~Crash
  BY DEF Crash, TypeOK, HistoryTypeOK
<1>1. ASSUME UNCHANGED <<records, acted, triggers>>, \A b \in Batch : Undisturbed(b)
      PROVE  ActedInv'
  <2>1. NumberedByTriggers'
    BY <1>1 DEF ActedInv, NumberedByTriggers
  <2>2. ASSUME NEW b \in Batch, batches[b].pc = "removing"
        PROVE  /\ batches'[b].pc = "removing" /\ batches'[b].outcome = batches[b].outcome
               /\ Current(b)' = Current(b)
    BY <1>0, <1>1, <2>2 DEF Undisturbed, Running, Current
  <2>3. ActedIsRemoved'
    BY <1>1, <2>2 DEF ActedInv, ActedIsRemoved, Decision
  <2> QED
    BY <2>1, <2>3 DEF ActedInv
<1>2. CASE EngineStep
  BY <1>0, <1>1, <1>2, EngineStepsKeep DEF storeVars
<1>3. ASSUME NEW s \in Slot, NEW t \in 0..now, Schedule(s, t)
      PROVE  ActedInv'
  <2> DEFINE rec == [slot |-> s, gen |-> triggers[s] + 1, runAt |-> t + Delay,
                     scheduledAt |-> t,
                     deadline |-> IF Deadline = NoDeadline THEN NoDeadline ELSE t + Deadline]
  <2>1. /\ Enqueue(rec) /\ rec.slot = s /\ rec.gen = triggers[s] + 1
        /\ UNCHANGED <<batches, acted>>
        /\ triggers' = [triggers EXCEPT ![s] = @ + 1]
    BY <1>3 DEF Schedule, workerVars
  <2> HIDE DEF rec
  <2>2. /\ \A u \in Slot : u # s => records'[u] = records[u] /\ triggers'[u] = triggers[u]
        /\ records'[s] = rec /\ triggers'[s] = triggers[s] + 1
        /\ \A u \in Slot : triggers[u] \in Nat
    BY <2>1 DEF Enqueue, TypeOK, StoreTypeOK, HistoryTypeOK
  <2>3. ASSUME NEW a \in acted
        PROVE  a[1] \in Slot /\ a[2] \in Nat /\ a[2] <= triggers[a[1]] /\ a[2] <= triggers'[a[1]]
    <3>1. a[1] \in Slot /\ a[2] \in Nat /\ a[2] <= triggers[a[1]]
      BY DEF ActedInv, NumberedByTriggers, TypeOK, HistoryTypeOK
    <3> QED
      BY <2>2, <3>1
  <2>4. NumberedByTriggers'
    BY <2>1, <2>2, <2>3 DEF ActedInv, NumberedByTriggers
  <2>5. Decision(rec) \notin acted
    <3>1. ASSUME Decision(rec) \in acted PROVE FALSE
      <4>1. rec.gen <= triggers[s]
        BY <2>1, <2>3, <3>1 DEF Decision
      <4> QED
        BY <2>1, <2>2, <4>1
    <3> QED
      BY <3>1
  <2>6. ActedIsRemoved'
    BY <2>1, <2>2, <2>5 DEF ActedInv, ActedIsRemoved, Current, Decision
  <2> QED
    BY <2>4, <2>6 DEF ActedInv
<1>4. CASE ClockAdvances
  BY <1>1, <1>4 DEF ClockAdvances, storeVars, workerVars, history, Undisturbed
<1>5. ASSUME NEW b \in Batch, BatchStep(b)
      PROVE  ActedInv'
  BY <1>5, NumberedAfterBatchStep, ActedAfterBatchStep DEF ActedInv
<1> QED
  BY <1>2, <1>3, <1>4, <1>5 DEF Next, AtHorizon, EngineStep

(* What the decisions see of a step: the numbers of the pending records and *)
(* the slots under a lease.                                                 *)
Number(s) == IF records[s] = NoRecord THEN NoRecord ELSE records[s].gen
Leased == { s \in Slot : leases[s] # NoLease }

LEMMA BatchStepIsDecisionStep ==
  ASSUME LeaseOutlastsBatch, TypeOK, OwnInv, ActedInv, NEW b \in Batch, BatchStep(b)
  PROVE  [Decisions!Next]_(Decisions!vars)
<1> DEFINE slot == Current(b).slot
<1>1. CASE UNCHANGED <<storeVars, acted>>
  BY <1>1 DEF Decisions!vars, storeVars
<1>2. CASE ClaimReturns(b) /\ UNCHANGED acted
  <2>1. PICK batch \in Batches(batches[b].at, Limit) : Claim(batches[b].at, Limit, LeaseMs, batch)
    BY <1>2, ClaimEffect
  <2> DEFINE S == { s \in Slot : \E i \in DOMAIN batch : batch[i].slot = s }
  <2>2. LeaseMs > 0 /\ batches[b].at + LeaseMs # NoLease /\ records' = records
    <3>1. batches[b].at \in Nat
      BY DEF TypeOK, BatchesTypeOK, BatchState
    <3>2. LeaseMs \in Nat /\ LeaseMs > 0
      <4>1. PollMs \in Nat /\ MinLease \in Nat /\ MinLease > 0
        BY WorkerAssumption
      <4> QED
        BY <4>1 DEF LeaseMs
    <3>3. batches[b].at + LeaseMs \in Nat
      BY <3>1, <3>2
    <3>4. records' = records
      BY <2>1 DEF Claim
    <3> QED
      BY <3>2, <3>3, <3>4, StoreAssumption
  <2>3. Leased' = Leased \cup S
    BY <2>1, <2>2 DEF Claim, Leased
  <2>4. \A s \in S : records[s] # NoRecord /\ records[s].gen # NoRecord
    <3>1. \A s \in S : records[s] # NoRecord
      BY <2>1, BatchesType DEF TypeOK
    <3> QED
      BY <3>1, StoreAssumption DEF TypeOK, StoreTypeOK, ScheduledCheck
  <2>5. Decisions!TakeUp(S)
    BY <1>2, <2>2, <2>3, <2>4 DEF Decisions!TakeUp, Leased
  <2>6. S \in SUBSET Slot
    OBVIOUS
  <2> HIDE DEF S
  <2> QED
    BY <2>5, <2>6 DEF Decisions!Next
<1>3. CASE /\ batches[b].pc = "acting" /\ UNCHANGED storeVars
           /\ acted' = acted \cup {Decision(Current(b))}
  <2>1. slot \in Slot /\ records[slot] = Current(b) /\ records[slot] # NoRecord
    BY <1>3, CurrentIsPending
  <2>2. slot \in Leased
    BY <1>3, CurrentIsPending DEF Leased
  <2>3. Decision(Current(b)) = <<slot, Current(b).gen>>
    BY DEF Decision
  <2>4. Decision(Current(b)) \notin acted
    <3> SUFFICES ASSUME NEW d \in Batch, batches[d].pc = "removing", Current(d).slot = slot
                 PROVE  FALSE
      BY <2>1 DEF ActedInv, ActedIsRemoved
    <3>1. d = b
      BY <1>3, CurrentIsPending
    <3> QED
      BY <1>3, <3>1
  <2>5. Decisions!Act(slot)
    BY <1>3, <2>1, <2>2, <2>3, <2>4 DEF Decisions!Act, Leased, storeVars
  <2> HIDE DEF slot
  <2> QED
    BY <2>1, <2>5 DEF Decisions!Next
<1>4. CASE Settles(b) /\ UNCHANGED acted
  <2>1. PICK s \in Slot : s = slot
    BY <1>4, CurrentIsPending DEF Settles
  <2>2. /\ records[s] = Current(b) /\ Current(b) \in ScheduledCheck
        /\ s \in Leased
    BY <1>4, <2>1, CurrentIsPending DEF Settles, Leased
  <2>3. Leased' = Leased \ {s}
    BY <1>4, <2>1, SettlesOneSlot DEF Leased, TypeOK, StoreTypeOK
  <2>4. CASE batches[b].pc = "removing"
    <3>1. records' = [records EXCEPT ![s] = NoRecord]
      BY <1>4, <2>1, <2>4, SettlesOneSlot
    <3>2. [u \in Slot |-> Number(u)]' = [[u \in Slot |-> Number(u)] EXCEPT ![s] = NoRecord]
      BY <3>1 DEF Number, TypeOK, StoreTypeOK
    <3>3. Decisions!Retire(s)
      BY <1>4, <2>2, <2>3, <3>2 DEF Decisions!Retire, Leased, Number
    <3> QED
      BY <3>3 DEF Decisions!Next
  <2>5. CASE batches[b].pc = "rescheduling"
    <3> DEFINE rec == [Current(b) EXCEPT !.runAt = batches[b].newRunAt]
    <3>1. records' = [records EXCEPT ![s] = rec]
      BY <1>4, <2>1, <2>5, SettlesOneSlot
    <3>2. rec \in ScheduledCheck /\ rec.gen = Current(b).gen
      BY <2>2 DEF TypeOK, BatchesTypeOK, BatchState, ScheduledCheck
    <3> HIDE DEF rec
    <3>3. rec # NoRecord /\ Current(b) # NoRecord
      BY <2>2, <3>2, StoreAssumption
    <3>4. [u \in Slot |-> Number(u)]' = [u \in Slot |-> Number(u)]
      BY <2>2, <3>1, <3>2, <3>3 DEF Number, TypeOK, StoreTypeOK
    <3>5. <<s, Current(b).gen>> \notin acted
      <4> SUFFICES ASSUME NEW d \in Batch, batches[d].pc = "removing", Current(d).slot = s
                   PROVE  FALSE
        BY <2>1, <2>2, <3>3 DEF ActedInv, ActedIsRemoved, Decision
      <4>1. d = b
        BY <2>1, <2>5, CurrentIsPending
      <4> QED
        BY <2>5, <4>1
    <3>6. Decisions!Postpone(s)
      BY <1>4, <2>2, <2>3, <3>3, <3>4, <3>5 DEF Decisions!Postpone, Leased, Number
    <3> QED
      BY <3>6 DEF Decisions!Next
  <2> QED
    BY <1>4, <2>4, <2>5 DEF Settles
<1> QED
  BY <1>1, <1>2, <1>3, <1>4, BatchStepKinds DEF LeaseOutlastsBatch, Stays, PutsOff, Settles


LEMMA NextIsDecisionStep ==
  ASSUME LeaseOutlastsBatch, MaxCrashes = 0, TypeOK, OwnInv, ActedInv, [Next]_vars
  PROVE  [Decisions!Next]_(Decisions!vars)
<1>0. ~Crash
  BY DEF Crash, TypeOK, HistoryTypeOK
<1>1. CASE UNCHANGED <<storeVars, acted>>
  BY <1>1 DEF Decisions!vars, storeVars
<1>2. CASE EngineStep \/ ClockAdvances
  BY <1>0, <1>1, <1>2, EngineStepsKeep DEF ClockAdvances, history
<1>3. ASSUME NEW s \in Slot, NEW t \in 0..now, Schedule(s, t)
      PROVE  Decisions!Next
  <2> DEFINE rec == [slot |-> s, gen |-> triggers[s] + 1, runAt |-> t + Delay,
                     scheduledAt |-> t,
                     deadline |-> IF Deadline = NoDeadline THEN NoDeadline ELSE t + Deadline]
  <2>1. /\ Enqueue(rec) /\ rec.slot = s /\ rec.gen = triggers[s] + 1
        /\ UNCHANGED acted /\ records[s] = NoRecord
    BY <1>3 DEF Schedule, LeaseOutlastsBatch
  <2>2. rec \in ScheduledCheck
    <3>1. t \in Nat /\ Delay \in Nat /\ (Deadline = NoDeadline \/ Deadline \in Nat)
      BY WorkerAssumption DEF TypeOK, ControlTypeOK
    <3> QED
      BY <3>1 DEF ScheduledCheck, TypeOK, HistoryTypeOK
  <2> HIDE DEF rec
  <2>3. rec # NoRecord /\ rec.gen \in Nat
    BY <2>2, StoreAssumption DEF ScheduledCheck
  <2>4. /\ records' = [records EXCEPT ![s] = rec]
        /\ leases' = [leases EXCEPT ![s] = NoLease]
    BY <2>1 DEF Enqueue
  <2>5. Leased' = Leased \ {s}
    BY <2>4 DEF Leased, TypeOK, StoreTypeOK
  <2>6. Number(s)' = rec.gen /\ \A u \in Slot : u # s => Number(u)' = Number(u)
    BY <2>3, <2>4 DEF Number, TypeOK, StoreTypeOK
  <2>7. <<s, rec.gen>> \notin acted
    <3>1. ASSUME <<s, rec.gen>> \in acted PROVE FALSE
      <4>1. rec.gen <= triggers[s]
        BY <3>1 DEF ActedInv, NumberedByTriggers
      <4>2. triggers[s] \in Nat
        BY DEF TypeOK, HistoryTypeOK
      <4> QED
        BY <2>1, <4>1, <4>2
    <3> QED
      BY <3>1
  <2>8. [u \in Slot |-> Number(u)]' = [[u \in Slot |-> Number(u)] EXCEPT ![s] = rec.gen]
    BY <2>6
  <2>9. Decisions!Open(s)
    BY <2>1, <2>3, <2>5, <2>6, <2>7, <2>8 DEF Decisions!Open, Leased, Number
  <2> QED
    BY <2>9 DEF Decisions!Next
<1>4. ASSUME NEW b \in Batch, BatchStep(b)
      PROVE  [Decisions!Next]_(Decisions!vars)
  BY <1>4, BatchStepIsDecisionStep
<1> QED
  BY <1>2, <1>3, <1>4 DEF Next, AtHorizon, EngineStep

(* The worker, its store, timers, leases and retries implement the life     *)
(* cycle of ScheduledDecisions: every trigger opens a decision; only a      *)
(* decision that was taken up is acted upon, postponed or retired, and none *)
(* is acted upon twice or postponed once it was acted upon.                 *)
THEOREM WorkerImplementsDecisions ==
  ASSUME LeaseOutlastsBatch, MaxCrashes = 0
  PROVE  Spec => ImplementsDecisions
<1>1. Init => Decisions!Init
  BY DEF Init, StoreInit, Decisions!Init
<1>2. Init => ActedInv
  BY DEF Init, StoreInit, ActedInv, NumberedByTriggers, ActedIsRemoved
<1>3. TypeOK /\ OwnInv /\ ActedInv /\ [Next]_vars => ActedInv'
  BY ActedInvNext
<1>4. TypeOK /\ OwnInv /\ ActedInv /\ [Next]_vars => [Decisions!Next]_(Decisions!vars)
  BY NextIsDecisionStep
<1> QED
  BY <1>1, <1>2, <1>3, <1>4, OwnInvariance, TypeCorrect, PTL
  DEF Spec, ImplementsDecisions, Decisions!Spec

-----------------------------------------------------------------------------
(* Why a check is given up only after its own attempts: the count of a key  *)
(* and its history rise together and are cleared together, so that the      *)
(* count never exceeds the failures in a row of the one trigger it counts.  *)

SharesKey(rec, d) == d # Trigger(rec) /\ d[1] = rec.slot /\ d[2] = rec.scheduledAt

CountedFailures ==
  \A rec \in ScheduledCheck :
    \/ Attempts(rec) <= Failures(Trigger(rec))
    \/ \E d \in DOMAIN failures : SharesKey(rec, d)

(* How a step leaves the two counts, and when a check is given up. *)
LEMMA CountsOfABatchStep ==
  ASSUME NEW b \in Batch, BatchStep(b)
  PROVE  \/ UNCHANGED <<attempts, failures>>
         \/ HandleFailure(b) /\ RoundFails(b)
         \/ ClearAttempts(Current(b)) /\ RoundIsOver(b)
BY DEF BatchStep, ClaimReturns, ClaimFails, StartCheck, CheckPasses, CheckSkips, CheckRejected,
       CheckRechecks, ActionsSucceed, ActionsFail, Watchdog, ScopeRejects, RemoveReturns,
       RemoveFails, RescheduleReturns, RescheduleFails, history

LEMMA CountsAfterAFailure ==
  ASSUME TypeOK, CountedFailures, NEW b \in Batch, batches[b].todo # << >>,
         HandleFailure(b), RoundFails(b)
  PROVE  CountedFailures'
<1> DEFINE cur == Current(b)
<1>1. cur \in ScheduledCheck
  BY CurrentType DEF TypeOK
<1>2. \A r \in ScheduledCheck : Attempts(r) \in Nat /\ Failures(Trigger(r)) \in Nat
  BY DEF TypeOK, AttemptsTypeOK, HistoryTypeOK, Attempts, Failures
<1>3. /\ DOMAIN failures' = DOMAIN failures \cup {Trigger(cur)}
      /\ \A d \in DOMAIN failures' :
           failures'[d] = IF d = Trigger(cur) THEN Failures(d) + 1 ELSE failures[d]
  BY DEF RoundFails
<1>4. \A r \in ScheduledCheck :
        IF AttemptKey(r) = AttemptKey(cur) THEN Attempts(r)' \in {0, Attempts(cur) + 1}
                                           ELSE Attempts(r)' = Attempts(r)
  <2>1. CASE Attempts(cur) + 1 < MaxAttempts
    <3>1. StoreAttempts(cur, Attempts(cur) + 1)
      BY <2>1 DEF HandleFailure
    <3> DEFINE key == AttemptKey(cur)
               n   == Attempts(cur) + 1
    <3>2. n \in Nat
      BY <1>1, <1>2
    <3>3. attempts' = [k \in DOMAIN attempts \cup {key} |-> IF k = key THEN n ELSE attempts[k]]
      BY <3>1 DEF StoreAttempts
    <3> SUFFICES ASSUME NEW r \in ScheduledCheck
                 PROVE  IF AttemptKey(r) = key THEN Attempts(r)' \in {0, n}
                                               ELSE Attempts(r)' = Attempts(r)
      OBVIOUS
    <3> HIDE DEF key, n
    <3>4. CASE AttemptKey(r) = key
      BY <3>2, <3>3, <3>4 DEF Attempts
    <3>5. CASE AttemptKey(r) # key
      BY <3>3, <3>5 DEF Attempts
    <3> QED
      BY <3>4, <3>5
  <2>2. CASE ~(Attempts(cur) + 1 < MaxAttempts)
    <3> DEFINE key == AttemptKey(cur)
    <3>1. attempts' = Restrict(attempts, DOMAIN attempts \ {key})
      BY <2>2 DEF HandleFailure, ClearAttempts
    <3> SUFFICES ASSUME NEW r \in ScheduledCheck
                 PROVE  IF AttemptKey(r) = key THEN Attempts(r)' \in {0, Attempts(cur) + 1}
                                               ELSE Attempts(r)' = Attempts(r)
      OBVIOUS
    <3>2. 0 <= Attempts(cur) + 1
      BY <1>1, <1>2
    <3> HIDE DEF key
    <3>3. CASE AttemptKey(r) = key
      BY <3>1, <3>2, <3>3 DEF Attempts, Restrict
    <3>4. CASE AttemptKey(r) # key
      BY <3>1, <3>4 DEF Attempts, Restrict
    <3> QED
      BY <3>3, <3>4
  <2> QED
    BY <2>1, <2>2
<1> HIDE DEF cur
<1> SUFFICES ASSUME NEW rec \in ScheduledCheck, ~\E d \in DOMAIN failures' : SharesKey(rec, d)
             PROVE  Attempts(rec)' <= Failures(Trigger(rec))'
  BY DEF CountedFailures, SharesKey, Trigger
<1>5. Attempts(rec) <= Failures(Trigger(rec))
  BY <1>3 DEF CountedFailures
<1>6. CASE AttemptKey(rec) = AttemptKey(cur)
  <2>1. Trigger(rec) = Trigger(cur)
    <3>1. rec.slot = cur.slot /\ rec.scheduledAt = cur.scheduledAt
      BY <1>6 DEF AttemptKey
    <3>2. Trigger(cur)[1] = rec.slot /\ Trigger(cur)[2] = rec.scheduledAt
      BY <3>1 DEF Trigger
    <3>3. ~SharesKey(rec, Trigger(cur))
      BY <1>3
    <3> QED
      BY <3>2, <3>3 DEF SharesKey
  <2>2. Failures(Trigger(rec))' = Failures(Trigger(rec)) + 1
    BY <1>3, <2>1 DEF Failures, Trigger
  <2>3. Attempts(rec) = Attempts(cur)
    BY <1>6 DEF Attempts
  <2> QED
    BY <1>1, <1>2, <1>4, <1>5, <1>6, <2>2, <2>3
<1>7. CASE AttemptKey(rec) # AttemptKey(cur)
  <2>1. Failures(Trigger(rec))' = Failures(Trigger(rec))
    BY <1>3, <1>7 DEF Failures, Trigger, AttemptKey
  <2> QED
    BY <1>4, <1>5, <1>7, <2>1
<1> QED
  BY <1>6, <1>7

LEMMA CountsAfterARound ==
  ASSUME TypeOK, CountedFailures, NEW b \in Batch, ClearAttempts(Current(b)), RoundIsOver(b)
  PROVE  CountedFailures'
<1> DEFINE cur == Current(b)
<1>1. \A r \in ScheduledCheck : Attempts(r) \in Nat /\ Failures(Trigger(r)) \in Nat
  BY DEF TypeOK, AttemptsTypeOK, HistoryTypeOK, Attempts, Failures
<1>2. /\ DOMAIN failures' = DOMAIN failures \ {Trigger(cur)}
      /\ \A d \in DOMAIN failures' : failures'[d] = failures[d]
  BY DEF RoundIsOver, Restrict
<1>3. \A r \in ScheduledCheck :
        Attempts(r)' = IF AttemptKey(r) = AttemptKey(cur) THEN 0 ELSE Attempts(r)
  BY DEF ClearAttempts, Restrict, Attempts, AttemptKey
<1> HIDE DEF cur
<1>4. \A d : Failures(d)' = IF d = Trigger(cur) THEN 0 ELSE Failures(d)
  BY <1>2 DEF Failures
<1> SUFFICES ASSUME NEW rec \in ScheduledCheck, ~\E d \in DOMAIN failures' : SharesKey(rec, d)
             PROVE  Attempts(rec)' <= Failures(Trigger(rec))'
  BY DEF CountedFailures, SharesKey, Trigger
<1>5. CASE AttemptKey(rec) = AttemptKey(cur)
  BY <1>1, <1>3, <1>4, <1>5 DEF Trigger
<1>6. CASE AttemptKey(rec) # AttemptKey(cur)
  <2>1. ~SharesKey(rec, Trigger(cur)) /\ Trigger(rec) # Trigger(cur)
    BY <1>6 DEF SharesKey, AttemptKey, Trigger
  <2>2. ~\E d \in DOMAIN failures : SharesKey(rec, d)
    BY <1>2, <2>1
  <2> QED
    BY <1>3, <1>4, <1>6, <2>1, <2>2 DEF CountedFailures, Trigger
<1> QED
  BY <1>5, <1>6

LEMMA AFailureIsCounted ==
  ASSUME HistoryTypeOK, NEW b \in Batch, RoundFails(b)
  PROVE  failures' # failures
<1> DEFINE t == Trigger(Current(b))
<1>1. t \in DOMAIN failures' /\ failures'[t] = Failures(t) + 1
  BY DEF RoundFails
<1>2. Failures(t) \in Nat
  BY DEF HistoryTypeOK, Failures
<1>3. t \in DOMAIN failures => failures[t] = Failures(t)
  BY DEF Failures
<1> QED
  BY <1>1, <1>2, <1>3

(* A batch whose round fails is at a record. *)
LEMMA AtARecord ==
  ASSUME TypeOK, NEW b \in Batch, BatchStep(b), HandleFailure(b), RoundFails(b)
  PROVE  batches[b].todo # << >>
<1> SUFFICES ASSUME batches[b].pc \in {"idle", "claiming"} PROVE FALSE
  BY DEF TypeOK, BatchesTypeOK, BatchState
<1>1. ClaimReturns(b) \/ ClaimFails(b)
  BY DEF BatchStep, StartCheck, CheckPasses, CheckSkips, CheckRejected, CheckRechecks,
         ActionsSucceed, ActionsFail, Watchdog, ScopeRejects, RemoveReturns, RemoveFails,
         RescheduleReturns, RescheduleFails, InScope
<1>2. failures' = failures
  BY <1>1 DEF ClaimReturns, ClaimFails, history
<1> QED
  BY <1>2, AFailureIsCounted DEF TypeOK

(* Only a batch whose last attempt failed gives its check up. *)
LEMMA OnlyTheLastAttemptGivesUp ==
  ASSUME TypeOK, [Next]_vars, NEW b \in Batch,
         batches[b].outcome # "max_attempts_exceeded",
         batches'[b].outcome = "max_attempts_exceeded"
  PROVE  BatchStep(b) /\ GivesUp(b)
<1>1. ASSUME NEW d \in Batch, BatchStep(d)
      PROVE  BatchStep(b) /\ GivesUp(b)
  <2>1. d = b
    BY <1>1, BatchEffects DEF BatchEffect
  <2> QED
    BY <1>1, <2>1, BatchEffects DEF BatchEffect
<1>2. ~Crash
  BY DEF Crash, Idle
<1>3. ~Stop
  <2> SUFFICES ASSUME Stop PROVE FALSE
    OBVIOUS
  <2>1. batches[b] \in BatchState
    BY DEF TypeOK, BatchesTypeOK
  <2>2. batches'[b] \in {batches[b], [batches[b] EXCEPT !.aborted = TRUE]}
    BY DEF Stop
  <2> QED
    BY <2>1, <2>2 DEF BatchState
<1>4. ~RunTick
  <2> SUFFICES ASSUME RunTick PROVE FALSE
    OBVIOUS
  <2>1. PICK d \in Batch :
          batches' = [batches EXCEPT ![d] = [Idle EXCEPT !.pc = "claiming", !.at = now]]
    BY DEF RunTick
  <2> DEFINE next == [Idle EXCEPT !.pc = "claiming", !.at = now]
  <2>2. next.outcome = "none"
    BY DEF Idle
  <2> HIDE DEF next
  <2> QED
    BY <2>1, <2>2 DEF next, TypeOK, BatchesTypeOK
<1> QED
  BY <1>1, <1>2, <1>3, <1>4
  DEF Next, Register, Schedule, Start, ClockAdvances, AtHorizon, vars, workerVars

LEMMA CountedFailuresNext == TypeOK /\ CountedFailures /\ [Next]_vars => CountedFailures'
<1> SUFFICES ASSUME TypeOK, CountedFailures, [Next]_vars
             PROVE  CountedFailures'
  OBVIOUS
<1>1. CASE UNCHANGED <<attempts, failures>>
  BY <1>1 DEF CountedFailures, Attempts, Failures
<1>2. CASE Crash
  <2>1. attempts' = [k \in {} |-> 0]
    BY <1>2 DEF Crash
  <2>2. failures' = [d \in {} |-> 0]
    BY <1>2 DEF Crash
  <2>3. \A rec \in ScheduledCheck : Attempts(rec)' = 0
    BY <2>1 DEF Attempts
  <2>4. \A rec \in ScheduledCheck : Failures(Trigger(rec))' = 0
    BY <2>2 DEF Failures, Trigger
  <2> QED
    BY <2>3, <2>4 DEF CountedFailures
<1>3. ASSUME NEW b \in Batch, BatchStep(b)
      PROVE  CountedFailures'
  <2>1. CASE HandleFailure(b) /\ RoundFails(b)
    BY <1>3, <2>1, AtARecord, CountsAfterAFailure
  <2>2. CASE ClearAttempts(Current(b)) /\ RoundIsOver(b)
    BY <2>2, CountsAfterARound
  <2> QED
    BY <1>1, <1>3, <2>1, <2>2, CountsOfABatchStep
<1> QED
  BY <1>1, <1>2, <1>3
  DEF Next, Register, Schedule, Start, Stop, RunTick, ClockAdvances, AtHorizon, vars,
      workerVars, history

(* A check is given up only when MaxAttempts rounds of its own trigger have *)
(* failed in a row, unless another trigger of its key at the same reading   *)
(* of the clock has failures of its own (the two share their count).        *)
THEOREM NoTriggerUsesUpAnothersAttempts == Spec => GivenUpAfterItsAttempts
<1> DEFINE Step == \A b \in Batch :
             /\ batches[b].outcome # "max_attempts_exceeded"
             /\ batches'[b].outcome = "max_attempts_exceeded"
             => LET rec == Current(b)
                IN  \/ /\ Trigger(rec) \in DOMAIN failures'
                       /\ failures'[Trigger(rec)] >= MaxAttempts
                    \/ \E d \in DOMAIN failures' \ {Trigger(rec)} :
                         d[1] = rec.slot /\ d[2] = rec.scheduledAt
<1>1. TypeOK /\ CountedFailures /\ [Next]_vars => Step
  <2> SUFFICES ASSUME TypeOK, CountedFailures, [Next]_vars, NEW b \in Batch,
                      batches[b].outcome # "max_attempts_exceeded",
                      batches'[b].outcome = "max_attempts_exceeded"
               PROVE  LET rec == Current(b)
                      IN  \/ /\ Trigger(rec) \in DOMAIN failures'
                             /\ failures'[Trigger(rec)] >= MaxAttempts
                          \/ \E d \in DOMAIN failures' \ {Trigger(rec)} :
                               d[1] = rec.slot /\ d[2] = rec.scheduledAt
    OBVIOUS
  <2>1. BatchStep(b) /\ GivesUp(b)
    BY OnlyTheLastAttemptGivesUp
  <2>2. batches[b].todo # << >>
    BY <2>1, AtARecord DEF GivesUp
  <2>3. Current(b) \in ScheduledCheck
    BY <2>2, CurrentType DEF TypeOK
  <2>4. CASE Attempts(Current(b)) <= Failures(Trigger(Current(b)))
    <3> DEFINE t == Trigger(Current(b))
    <3>1. t \in DOMAIN failures' /\ failures'[t] = Failures(t) + 1
      BY <2>1 DEF GivesUp, RoundFails
    <3>2. Failures(t) \in Nat /\ Attempts(Current(b)) \in Nat /\ MaxAttempts \in Nat
      BY <2>3, WorkerAssumption
      DEF TypeOK, AttemptsTypeOK, HistoryTypeOK, Attempts, Failures
    <3> QED
      BY <2>1, <2>4, <3>1, <3>2 DEF GivesUp
  <2>5. CASE \E d \in DOMAIN failures : SharesKey(Current(b), d)
    BY <2>1, <2>5 DEF GivesUp, RoundFails, SharesKey
  <2> QED
    BY <2>3, <2>4, <2>5 DEF CountedFailures
<1>2. Init => CountedFailures
  <2> SUFFICES ASSUME Init PROVE CountedFailures
    OBVIOUS
  <2>1. \A rec \in ScheduledCheck : Attempts(rec) = 0
    BY DEF Init, Attempts
  <2>2. \A rec \in ScheduledCheck : Failures(Trigger(rec)) = 0
    BY DEF Init, Failures
  <2> QED
    BY <2>1, <2>2 DEF CountedFailures
<1> QED
  BY <1>1, <1>2, CountedFailuresNext, TypeCorrect, PTL DEF Spec, GivenUpAfterItsAttempts

=============================================================================

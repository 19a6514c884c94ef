--------------------------- MODULE ScheduledWorker ---------------------------
(***************************************************************************)
(* The poll loop of engine/src/engine/scheduled-worker.ts, together with    *)
(* the `schedule` strategy that feeds its store.                            *)
(*                                                                          *)
(* A tick re-arms the timer and starts a batch (processClaim) without       *)
(* waiting for earlier batches; a batch claims due records and handles them *)
(* one after the other.  Every await of a batch is a place where timers,    *)
(* other batches, new triggering events, stop() and a crash interleave.     *)
(*                                                                          *)
(* Timers fire when they are due (clock time does not pass a due timer) and *)
(* promise continuations run before time passes.  How long a check or an    *)
(* action takes is up to user code; how long a store call takes is bounded  *)
(* only when StoreLatency is FALSE (the in-memory store).                   *)
(***************************************************************************)
EXTENDS ScheduledStore, Functions

CONSTANTS Batch,          \* identities of the batches running at the same time
          NoRegistry,     \* the engine before its first register()
          Registries,     \* what register() may install: the slots whose rule
                          \* is registered with the schedule strategy
          Delay,          \* strategy.delay
          Deadline,       \* strategy.deadline, or NoDeadline
          After,          \* the `after` a check may ask for
          PollMs,         \* schedPollMs
          MinLease,       \* the 30_000 of processClaim
          EvalTimeout,    \* evalTimeoutMs
          Limit,          \* the 100 of processClaim
          MaxAttempts,    \* DEFAULT_SCHEDULED_MAX_ATTEMPTS
          Durable,        \* does the store survive the process?
          StoreLatency,   \* may time pass while a store call is pending?
          WriteLag,       \* how late an enqueue may land after it read the clock
          StoreMayFail,   \* may a store call reject?
          Supersede,      \* may a slot be triggered again while it is pending?
          MaxTriggers,    \* bound: triggering events per slot
          QuietAfter,     \* bound: the time after which no event arrives, no
                          \* process stops or dies, and the worker is up
          MaxCrashes,     \* bound: crashes of the process
          MaxStops,       \* bound: calls of stop()
          MaxTime         \* bound: the clock stops here

ASSUME WorkerAssumption ==
  /\ {Delay, PollMs, MinLease, EvalTimeout, Limit, MaxAttempts, WriteLag} \subseteq Nat
  /\ PollMs > 0 /\ MinLease > 0
  /\ Deadline \in Nat \cup {NoDeadline}
  /\ After \subseteq Nat
  /\ {Durable, StoreLatency, StoreMayFail, Supersede} \subseteq BOOLEAN
  /\ {MaxTriggers, QuietAfter, MaxCrashes, MaxStops, MaxTime} \subseteq Nat
  /\ Registries \subseteq SUBSET Slot
  /\ NoRegistry \notin Registries

VARIABLES
  now,         \* clock.now()
  registry,    \* what getRegistry() returns
  mode,        \* started/stopped: "new", "running" or "stopped"
  timer,       \* when schedTimer fires (meaningful while running)
  batches,     \* the state of each processClaim call
  draining,    \* the batches a pending stop() waits for
  attempts,    \* the attempts map: (slot, scheduledAt) -> failures
  triggers,    \* triggering events so far, per slot
  crashes, stops,
  acted,       \* (slot, gen) whose actions have all succeeded
  failures     \* (slot, scheduledAt, gen) -> its rounds that failed in a row

workerVars == <<registry, mode, timer, batches, draining, attempts>>
history == <<triggers, crashes, stops, acted, failures>>
vars == <<storeVars, now, workerVars, history>>

Phase == {"idle", "claiming", "next", "checking", "acting", "removing", "rescheduling"}
Outcome == {"none", "pass", "skip", "deadline_exceeded", "orphan", "max_attempts_exceeded"}

BatchState ==
  [pc : Phase,               \* the await the batch is suspended at
   at : Nat,                 \* `now` of processClaim while the claim is pending
   todo : Seq(ScheduledCheck), \* the record being handled and those after it
   startedAt : Nat,          \* when the scope of the current check was created
   aborted : BOOLEAN,        \* scope.signal.aborted
   outcome : Outcome,        \* why the record is being removed
   newRunAt : Nat]

Idle == [pc |-> "idle", at |-> 0, todo |-> << >>, startedAt |-> 0,
         aborted |-> FALSE, outcome |-> "none", newRunAt |-> 0]

(* Variants, each with one slip; see ScheduledStore. *)
KeyOfSlot(rec) == <<rec.slot, 0>>           \* attempts are counted per slot

ShorterLease == IF 2 * PollMs < MinLease THEN 2 * PollMs ELSE MinLease

LeaseMs == IF 2 * PollMs > MinLease THEN 2 * PollMs ELSE MinLease

Running(b) == batches[b].pc # "idle"
Current(b) == Head(batches[b].todo)
InScope(b) == batches[b].pc \in {"checking", "acting"}
InStoreCall(b) == batches[b].pc \in {"claiming", "removing", "rescheduling"}
Decision(rec) == <<rec.slot, rec.gen>>

ControlTypeOK ==
  /\ now \in Nat /\ timer \in Nat
  /\ registry \in Registries \cup {NoRegistry}
  /\ mode \in {"new", "running", "stopped"}

(* A batch that is past its claim has a record to handle. *)
BatchesTypeOK ==
  /\ batches \in [Batch -> BatchState]
  /\ \A b \in Batch : batches[b].pc \in Phase \ {"idle", "claiming"} => batches[b].todo # << >>
  /\ draining \subseteq Batch

AttemptsTypeOK ==
  /\ DOMAIN attempts \subseteq Slot \X Nat
  /\ \A k \in DOMAIN attempts : attempts[k] \in Nat

HistoryTypeOK ==
  /\ triggers \in [Slot -> Nat]
  /\ crashes \in Nat /\ stops \in Nat
  /\ acted \subseteq Slot \X Nat
  /\ DOMAIN failures \subseteq Slot \X Nat \X Nat
  /\ \A d \in DOMAIN failures : failures[d] \in Nat

(* Every variable has its type, and a batch at a record has that record.    *)
TypeOK ==
  StoreTypeOK /\ ControlTypeOK /\ BatchesTypeOK /\ AttemptsTypeOK /\ HistoryTypeOK

Init ==
  /\ StoreInit
  /\ now = 0 /\ timer = 0
  /\ registry = NoRegistry
  /\ mode = "new"
  /\ batches = [b \in Batch |-> Idle]
  /\ draining = {}
  /\ attempts = [k \in {} |-> 0]
  /\ triggers = [s \in Slot |-> 0]
  /\ crashes = 0 /\ stops = 0
  /\ acted = {}
  /\ failures = [d \in {} |-> 0]

-----------------------------------------------------------------------------
(* The pieces the steps of a batch share. *)

AttemptKey(rec) == <<rec.slot, rec.scheduledAt>>

Attempts(rec) ==
  IF AttemptKey(rec) \in DOMAIN attempts THEN attempts[AttemptKey(rec)] ELSE 0

StoreAttempts(rec, n) ==
  attempts' = [k \in DOMAIN attempts \cup {AttemptKey(rec)} |->
                 IF k = AttemptKey(rec) THEN n ELSE attempts[k]]

KeepAttempts(rec) == UNCHANGED attempts     \* variant

ClearAttempts(rec) == attempts' = Restrict(attempts, DOMAIN attempts \ {AttemptKey(rec)})

(* Promise continuations are queued.  The event loop runs them before the   *)
(* next timer callback or call from outside, and before time passes.        *)
ContinuationsDue ==
  \E b \in Batch : \/ batches[b].pc = "next"
                   \/ InScope(b) /\ batches[b].aborted
                   \/ InStoreCall(b) /\ ~StoreLatency

(* The batch is over: its promise settles and leaves `inflight`. *)
Finish(b) ==
  /\ batches' = [batches EXCEPT ![b] = Idle]
  /\ draining' = draining \ {b}

(* Variant: the loop runs once too often. *)
ProceedPastTheEnd(b) ==
  /\ batches' = [batches EXCEPT ![b] =
                   [Idle EXCEPT !.pc = "next", !.todo = Tail(batches[b].todo)]]
  /\ UNCHANGED draining

(* The for loop moves on to the record after the current one. *)
Proceed(b) ==
  IF Len(batches[b].todo) = 1
  THEN Finish(b)
  ELSE /\ batches' = [batches EXCEPT ![b] =
                        [Idle EXCEPT !.pc = "next", !.todo = Tail(batches[b].todo)]]
       /\ UNCHANGED draining

(* The batch suspends at the store call that removes the current record. *)
AwaitRemove(b, outcome) ==
  /\ batches' = [batches EXCEPT ![b] =
                   [Idle EXCEPT !.pc = "removing", !.todo = batches[b].todo,
                                !.outcome = outcome]]
  /\ UNCHANGED draining

(* runScheduledCheck rejected: count the attempt, give up at the last one.  *)
(* The record stays, under its lease, unless it is given up.                *)
HandleFailure(b) ==
  LET rec == Current(b)
      n   == Attempts(rec) + 1
  IN  IF n < MaxAttempts
      THEN StoreAttempts(rec, n) /\ Proceed(b)
      ELSE ClearAttempts(rec) /\ AwaitRemove(b, "max_attempts_exceeded")

(* History: how often in a row the rounds of a trigger have failed. *)
Trigger(rec) == <<rec.slot, rec.scheduledAt, rec.gen>>

Failures(d) == IF d \in DOMAIN failures THEN failures[d] ELSE 0

RoundFails(b) ==
  LET d == Trigger(Current(b))
  IN  failures' = [x \in DOMAIN failures \cup {d} |->
                     IF x = d THEN Failures(d) + 1 ELSE failures[x]]

RoundIsOver(b) == failures' = Restrict(failures, DOMAIN failures \ {Trigger(Current(b))})

-----------------------------------------------------------------------------
(* The engine around the worker. *)

(* register(): the registry is replaced wholesale. *)
Register ==
  /\ ~ContinuationsDue
  /\ \E R \in Registries \ {registry} : registry' = R
  /\ UNCHANGED <<storeVars, now, mode, timer, batches, draining, attempts, history>>

(* The schedule strategy of an evaluation: the clock was read at t and the  *)
(* write lands now.  The evaluation holds the registry it started with, so  *)
(* the rule need not be registered any more.                                *)
Schedule(s, t) ==
  /\ registry # NoRegistry
  /\ now - t <= WriteLag
  /\ triggers[s] < MaxTriggers /\ now <= QuietAfter
  /\ \/ Supersede
     \/ /\ records[s] = NoRecord
        /\ \A b \in Batch : \A i \in DOMAIN batches[b].todo : batches[b].todo[i].slot # s
  /\ Enqueue([slot |-> s, gen |-> triggers[s] + 1, runAt |-> t + Delay, scheduledAt |-> t,
              deadline |-> IF Deadline = NoDeadline THEN NoDeadline ELSE t + Deadline])
  /\ triggers' = [triggers EXCEPT ![s] = @ + 1]
  /\ UNCHANGED <<now, workerVars, crashes, stops, acted, failures>>

(* start(): does nothing when started already; it comes before QuietAfter.  *)
Start ==
  /\ mode # "running" /\ ~ContinuationsDue
  /\ now <= QuietAfter
  /\ mode' = "running"
  /\ timer' = now + PollMs
  /\ UNCHANGED <<storeVars, now, registry, batches, draining, attempts, history>>

(* Variant: stop() waits for the batches whose scopes it aborted. *)
StopWaitsForScopes ==
  /\ mode = "running" /\ ~ContinuationsDue
  /\ stops < MaxStops /\ now <= QuietAfter
  /\ mode' = "stopped"
  /\ timer' = 0
  /\ batches' = [b \in Batch |-> IF InScope(b) THEN [batches[b] EXCEPT !.aborted = TRUE]
                                               ELSE batches[b]]
  /\ draining' = { b \in Batch : InScope(b) }
  /\ stops' = stops + 1
  /\ UNCHANGED <<storeVars, now, registry, attempts, triggers, crashes, acted, failures>>

(* stop(): cancel the timer, abort the scopes that exist, and wait for the  *)
(* batches that are running.                                                *)
Stop ==
  /\ mode = "running" /\ ~ContinuationsDue
  /\ stops < MaxStops /\ now <= QuietAfter
  /\ mode' = "stopped"
  /\ timer' = 0
  /\ batches' = [b \in Batch |-> IF InScope(b) THEN [batches[b] EXCEPT !.aborted = TRUE]
                                               ELSE batches[b]]
  /\ draining' = { b \in Batch : Running(b) }
  /\ stops' = stops + 1
  /\ UNCHANGED <<storeVars, now, registry, attempts, triggers, crashes, acted, failures>>

(* The process dies and comes back; whatever was in memory is gone. *)
Crash ==
  /\ crashes < MaxCrashes /\ now <= QuietAfter
  /\ crashes' = crashes + 1
  /\ mode' = "new" /\ timer' = 0
  /\ registry' = NoRegistry
  /\ batches' = [b \in Batch |-> Idle]
  /\ draining' = {}
  /\ attempts' = [k \in {} |-> 0] /\ failures' = [d \in {} |-> 0]
  /\ IF Durable THEN UNCHANGED storeVars
     ELSE /\ records' = [s \in Slot |-> NoRecord]
          /\ leases' = [s \in Slot |-> NoLease]
  /\ UNCHANGED <<now, triggers, stops, acted>>

-----------------------------------------------------------------------------
(* The poll loop and its batches. *)

(* The timer fires: re-arm, then start a batch unless nothing is registered. *)
RunTick ==
  /\ mode = "running" /\ timer <= now /\ ~ContinuationsDue
  /\ timer' = now + PollMs
  /\ IF registry = NoRegistry
     THEN UNCHANGED batches
     ELSE \E b \in Batch :
            /\ ~Running(b)
            /\ batches' = [batches EXCEPT ![b] = [Idle EXCEPT !.pc = "claiming", !.at = now]]
  /\ UNCHANGED <<storeVars, now, registry, mode, draining, attempts, history>>

ClaimReturns(b) ==
  /\ batches[b].pc = "claiming"
  /\ \E batch \in Batches(batches[b].at, Limit) :
       /\ Claim(batches[b].at, Limit, LeaseMs, batch)
       /\ IF batch = << >>
          THEN Finish(b)
          ELSE /\ batches' = [batches EXCEPT ![b] = [Idle EXCEPT !.pc = "next", !.todo = batch]]
               /\ UNCHANGED draining
  /\ UNCHANGED <<now, registry, mode, timer, attempts, history>>

(* The claim rejects, before or after it took effect: the batch is over. *)
ClaimFails(b) ==
  /\ StoreMayFail
  /\ batches[b].pc = "claiming"
  /\ \/ UNCHANGED storeVars
     \/ \E batch \in Batches(batches[b].at, Limit) :
          Claim(batches[b].at, Limit, LeaseMs, batch)
  /\ Finish(b)
  /\ UNCHANGED <<now, registry, mode, timer, attempts, history>>

(* The head of the loop, up to the first await of runScheduledCheck: the    *)
(* rule is looked up now; a fresh scope starts its watchdog.  (The registry *)
(* is never null here: a batch starts only when there is one.)              *)
StartCheck(b) ==
  /\ batches[b].pc = "next"
  /\ IF Current(b).slot \in registry
     THEN /\ batches' = [batches EXCEPT ![b] = [@ EXCEPT !.pc = "checking", !.startedAt = now]]
          /\ UNCHANGED draining
     ELSE AwaitRemove(b, "orphan")
  /\ UNCHANGED <<storeVars, now, registry, mode, timer, attempts, history>>

(* check(ctx) says pass: the attached actions start, in the same scope. *)
CheckPasses(b) ==
  /\ batches[b].pc = "checking" /\ ~batches[b].aborted
  /\ batches' = [batches EXCEPT ![b] = [@ EXCEPT !.pc = "acting"]]
  /\ UNCHANGED <<storeVars, now, registry, mode, timer, draining, attempts, history>>

(* check(ctx) says skip, or throws while its scope is not aborted. *)
CheckSkips(b) ==
  /\ batches[b].pc = "checking" /\ ~batches[b].aborted
  /\ AwaitRemove(b, "skip")
  /\ UNCHANGED <<storeVars, now, registry, mode, timer, attempts, history>>

(* Variant: compares the deadline with the time of the check. *)
ChecksDeadlineNow(b, after) ==
  LET deadline == Current(b).deadline
  IN  /\ batches[b].pc = "checking" /\ ~batches[b].aborted
      /\ IF deadline # NoDeadline /\ now > deadline
         THEN AwaitRemove(b, "deadline_exceeded")
         ELSE /\ batches' = [batches EXCEPT ![b] =
                               [Idle EXCEPT !.pc = "rescheduling", !.todo = batches[b].todo,
                                            !.newRunAt = now + after]]
              /\ UNCHANGED draining
      /\ UNCHANGED <<storeVars, now, registry, mode, timer, attempts, history>>

(* check(ctx) asks to be run again after a while. *)
CheckRechecks(b, after) ==
  LET newRunAt == now + after
      deadline == Current(b).deadline
  IN  /\ batches[b].pc = "checking" /\ ~batches[b].aborted
      /\ IF deadline # NoDeadline /\ newRunAt > deadline
         THEN AwaitRemove(b, "deadline_exceeded")
         ELSE /\ batches' = [batches EXCEPT ![b] =
                               [Idle EXCEPT !.pc = "rescheduling", !.todo = batches[b].todo,
                                            !.newRunAt = newRunAt]]
              /\ UNCHANGED draining
      /\ UNCHANGED <<storeVars, now, registry, mode, timer, attempts, history>>

(* check(ctx) asks for a recheck after something that is no duration:       *)
(* parseDuration throws outside the catch that turns errors into a skip.    *)
CheckRejected(b) ==
  /\ batches[b].pc = "checking" /\ ~batches[b].aborted
  /\ HandleFailure(b) /\ RoundFails(b)
  /\ UNCHANGED <<storeVars, now, registry, mode, timer, triggers, crashes, stops, acted>>

(* Every action fulfilled. *)
ActionsSucceed(b) ==
  /\ batches[b].pc = "acting" /\ ~batches[b].aborted
  /\ acted' = acted \cup {Decision(Current(b))}
  /\ AwaitRemove(b, "pass")
  /\ UNCHANGED <<storeVars, now, registry, mode, timer, attempts, triggers, crashes, stops,
                 failures>>

(* Some action rejected; the others may have done their work. *)
ActionsFail(b) ==
  /\ batches[b].pc = "acting"
  /\ HandleFailure(b) /\ RoundFails(b)
  /\ UNCHANGED <<storeVars, now, registry, mode, timer, triggers, crashes, stops, acted>>

(* Variant: the watchdog is cleared once the check has answered. *)
WatchdogOfCheck(b) ==
  /\ batches[b].pc = "checking" /\ ~batches[b].aborted /\ ~ContinuationsDue
  /\ now >= batches[b].startedAt + EvalTimeout
  /\ batches' = [batches EXCEPT ![b] = [@ EXCEPT !.aborted = TRUE]]
  /\ UNCHANGED <<storeVars, now, registry, mode, timer, draining, attempts, history>>

(* The watchdog of the scope fires. *)
Watchdog(b) ==
  /\ InScope(b) /\ ~batches[b].aborted /\ ~ContinuationsDue
  /\ now >= batches[b].startedAt + EvalTimeout
  /\ batches' = [batches EXCEPT ![b] = [@ EXCEPT !.aborted = TRUE]]
  /\ UNCHANGED <<storeVars, now, registry, mode, timer, draining, attempts, history>>

(* scope.run rejects because its signal was aborted; the check or the       *)
(* actions go on unobserved.                                                *)
ScopeRejects(b) ==
  /\ InScope(b) /\ batches[b].aborted
  /\ HandleFailure(b) /\ RoundFails(b)
  /\ UNCHANGED <<storeVars, now, registry, mode, timer, triggers, crashes, stops, acted>>

(* store.remove has taken effect and returned.  A record that was given up  *)
(* has no attempts left to clear.                                           *)
RemoveReturns(b) ==
  /\ batches[b].pc = "removing"
  /\ Remove(Current(b).slot)
  /\ IF batches[b].outcome = "max_attempts_exceeded"
     THEN UNCHANGED <<attempts, failures>>
     ELSE ClearAttempts(Current(b)) /\ RoundIsOver(b)
  /\ Proceed(b)
  /\ UNCHANGED <<now, registry, mode, timer, triggers, crashes, stops, acted>>

(* Variant: writes the claimed record back instead of updating the stored one. *)
RescheduleWritesBack(b) ==
  /\ batches[b].pc = "rescheduling"
  /\ Enqueue([Current(b) EXCEPT !.runAt = batches[b].newRunAt])
  /\ ClearAttempts(Current(b))
  /\ Proceed(b) /\ RoundIsOver(b)
  /\ UNCHANGED <<now, registry, mode, timer, triggers, crashes, stops, acted>>

(* store.reschedule has taken effect and returned. *)
RescheduleReturns(b) ==
  /\ batches[b].pc = "rescheduling"
  /\ Reschedule(Current(b).slot, batches[b].newRunAt)
  /\ ClearAttempts(Current(b))
  /\ Proceed(b) /\ RoundIsOver(b)
  /\ UNCHANGED <<now, registry, mode, timer, triggers, crashes, stops, acted>>

(* store.remove rejects, with or without effect.  Inside runScheduledCheck  *)
(* that is a failed attempt; while giving a record up it reaches the outer  *)
(* catch, which abandons the rest of the batch.                             *)
RemoveFails(b) ==
  /\ StoreMayFail
  /\ batches[b].pc = "removing"
  /\ UNCHANGED storeVars \/ Remove(Current(b).slot)
  /\ IF batches[b].outcome = "max_attempts_exceeded"
     THEN Finish(b) /\ UNCHANGED <<attempts, failures>>
     ELSE HandleFailure(b) /\ RoundFails(b)
  /\ UNCHANGED <<now, registry, mode, timer, triggers, crashes, stops, acted>>

RescheduleFails(b) ==
  /\ StoreMayFail
  /\ batches[b].pc = "rescheduling"
  /\ UNCHANGED storeVars \/ Reschedule(Current(b).slot, batches[b].newRunAt)
  /\ HandleFailure(b) /\ RoundFails(b)
  /\ UNCHANGED <<now, registry, mode, timer, triggers, crashes, stops, acted>>

-----------------------------------------------------------------------------
(* Time. *)

TimersDue ==
  \/ mode = "running" /\ timer <= now
  \/ \E b \in Batch : InScope(b) /\ now >= batches[b].startedAt + EvalTimeout

ClockAdvances ==
  /\ now < MaxTime
  /\ mode = "new" \/ registry = NoRegistry => now < QuietAfter
  /\ ~TimersDue /\ ~ContinuationsDue
  /\ now' = now + 1
  /\ UNCHANGED <<storeVars, workerVars, history>>

(* The bound on time, not a behaviour of the system. *)
AtHorizon == now = MaxTime /\ UNCHANGED vars

BatchStep(b) ==
  \/ ClaimReturns(b) \/ ClaimFails(b)
  \/ StartCheck(b)
  \/ CheckPasses(b) \/ CheckSkips(b) \/ CheckRejected(b)
  \/ \E after \in After : CheckRechecks(b, after)
  \/ ActionsSucceed(b) \/ ActionsFail(b)
  \/ Watchdog(b) \/ ScopeRejects(b)
  \/ RemoveReturns(b) \/ RemoveFails(b)
  \/ RescheduleReturns(b) \/ RescheduleFails(b)

Next ==
  \/ Register
  \/ \E s \in Slot : \E t \in 0..now : Schedule(s, t)
  \/ Start \/ Stop \/ Crash
  \/ RunTick
  \/ \E b \in Batch : BatchStep(b)
  \/ ClockAdvances
  \/ AtHorizon

Spec == Init /\ [][Next]_vars

(* Fairness: timers fire, continuations run, store calls settle, and the    *)
(* service registers its rules and starts the worker after every boot       *)
(* (demo/src/index.ts).  Nothing is assumed of checks, actions or events.   *)
Fairness ==
  /\ WF_vars(ClockAdvances)
  /\ WF_vars(RunTick)
  /\ WF_vars(mode = "new" /\ Start)
  /\ WF_vars(registry = NoRegistry /\ Register)
  /\ \A b \in Batch : /\ WF_vars(ClaimReturns(b))
                      /\ WF_vars(StartCheck(b))
                      /\ WF_vars(Watchdog(b))
                      /\ WF_vars(ScopeRejects(b))
                      /\ WF_vars(RemoveReturns(b))
                      /\ WF_vars(RescheduleReturns(b))

FairSpec == Spec /\ Fairness

-----------------------------------------------------------------------------
(* Safety. *)

(* A lease never outlives the record it guards: no operation, in any order, *)
(* leaves a lease behind that would hide a record enqueued later or leak.   *)
NoLeaseWithoutRecord ==
  \A s \in Slot : leases[s] # NoLease => records[s] # NoRecord

(* A record that was postponed never waits past its deadline, whichever     *)
(* batch postponed it and whatever record it had claimed (worker:203).      *)
PostponedWithinDeadline ==
  \A s \in Slot :
    LET rec == records[s]
    IN  rec # NoRecord /\ rec.deadline # NoDeadline /\ rec.runAt > rec.scheduledAt + Delay
          => rec.runAt <= rec.deadline

(* A batch owns what it works on: as long as a record waits in a batch for  *)
(* its outcome, the store still holds that very record, under a lease that  *)
(* has not run out.                                                         *)
OwnsWhatItHandles ==
  \A b \in Batch : \A i \in DOMAIN batches[b].todo :
    LET rec == batches[b].todo[i]
    IN  /\ records[rec.slot] = rec
        /\ leases[rec.slot] # NoLease
        /\ leases[rec.slot] > now

(* No two batches in flight hold the same decision.                         *)
ClaimsDisjoint ==
  \A b, d \in Batch : \A i \in DOMAIN batches[b].todo : \A j \in DOMAIN batches[d].todo :
    Decision(batches[b].todo[i]) = Decision(batches[d].todo[j]) => b = d

(* No check of a decision starts before the delay of its trigger is over.   *)
NotBeforeDelay ==
  \A b \in Batch :
    InScope(b) => batches[b].startedAt >= Current(b).scheduledAt + Delay

(* Failures are counted only for checks that are still pending: the map of  *)
(* attempts does not grow with checks that are over.                        *)
AttemptsOnlyForPending ==
  \A k \in DOMAIN attempts :
    \E s \in Slot : records[s] # NoRecord /\ AttemptKey(records[s]) = k

(* Once stop() was called, every batch that still runs is one it waits for. *)
StopCoversBatches ==
  mode = "stopped" => \A b \in Batch : Running(b) => b \in draining

-----------------------------------------------------------------------------
(* What a step may never do. *)

(* A pending decision disappears only through a batch that has claimed that *)
(* very decision: it is never discarded on behalf of an older one.          *)
RemovedByItsOwnBatch ==
  [][\A s \in Slot :
       records[s] # NoRecord /\ records'[s] = NoRecord =>
         \E b \in Batch : /\ batches[b].pc = "removing"
                          /\ Decision(Current(b)) = Decision(records[s])]_vars

(* A check is given up only when MaxAttempts rounds of its own trigger have  *)
(* failed in a row, in the check, its actions or the store call after them:  *)
(* no other trigger of its key and no batch beside it uses up its attempts,  *)
(* and a postponement gives it all of them again (worker:217-240).  Two      *)
(* triggers of one key at the same reading of the clock share their count.   *)
GivenUpAfterItsAttempts ==
  [][\A b \in Batch :
       /\ batches[b].outcome # "max_attempts_exceeded"
       /\ batches'[b].outcome = "max_attempts_exceeded"
       => LET rec == Current(b)
          IN  \/ /\ Trigger(rec) \in DOMAIN failures'
                 /\ failures'[Trigger(rec)] >= MaxAttempts
              \/ \E d \in DOMAIN failures' \ {Trigger(rec)} :
                   d[1] = rec.slot /\ d[2] = rec.scheduledAt]_vars

(* A slot never goes back to a decision that was replaced or retired.       *)
NeverRevives ==
  [][\A s \in Slot :
       records'[s] # NoRecord /\ (records[s] = NoRecord \/ records'[s].gen # records[s].gen)
         => records'[s].gen > triggers[s]]_vars

(* The worker implements the life cycle of ScheduledDecisions; a slot is    *)
(* taken up while its record is leased.                                     *)
Decisions ==
  INSTANCE ScheduledDecisions WITH
    Nothing <- NoRecord,
    pending <- [s \in Slot |-> IF records[s] = NoRecord THEN NoRecord ELSE records[s].gen],
    taken   <- { s \in Slot : leases[s] # NoLease }

ImplementsDecisions == Decisions!Spec

-----------------------------------------------------------------------------
(* Liveness. *)

(* Every pending decision is eventually taken unless the worker is stopped, *)
(* whatever its check, its actions or a crash do: rechecks end at the       *)
(* deadline, failures at the last attempt.                                  *)
EventuallyDecided ==
  \A s \in Slot : records[s] # NoRecord ~> records[s] = NoRecord \/ mode = "stopped"

(* stop() resolves even when checks and actions ignore their signal.        *)
StopResolves == mode = "stopped" ~> draining = {}

=============================================================================

# A verification development for the GitHub rule engine

This directory holds TLA+ modules for the rule engine of this repository
(`engine/`, with the demo service of `demo/` around it), the TLC configurations
that check them on small instances, and proofs that the TLA+ proof system
checks. Paths below are relative to the repository; in `PROJECT.json` they carry
the prefix `src/`.

## 1. The system

A GitHub webhook is accepted by the demo service and handed to
`engine.evaluate`. Rules whose `when` tree matches run their actions at once,
count the event towards an aggregation threshold, or schedule a check for
later. Everything runs in one Node.js process: user code and the engine
interleave at every `await`, timers fire between promise continuations, and the
stores may live in PostgreSQL and outlive the process.

| component | state it keeps | operations | hard because |
|---|---|---|---|
| scheduled store (`engine/src/utility/scheduled-store.ts`, `demo/src/postgres-storage.ts`) | one record per (rule, key), one lease per record | enqueue, claim, remove, reschedule | removal and reschedule name a slot, not a record; leases expire |
| scheduled worker (`engine/src/engine/scheduled-worker.ts`) | started/stopped, poll timer, running batches, scopes, attempts map | start, stop, tick, claim, check, act, recheck, give up | batches overlap; stop, new events and expiring leases interleave with them |
| integration adapter (`engine/src/engine/adapter.ts`) | cache of promises, semaphore and its waiters, breaker counters | call, hand over a slot, retry, open/half-open/close, expire, evict | a promise is shared by callers with different signals; results arrive late |
| aggregation store and strategy (`aggregation-store.ts`, `strategy-handlers.ts`) | time-ordered entries per (rule, action, key) | append, count, list, prune | append and count must be one step in PostgreSQL; window boundaries |
| event evaluation (`engine.ts`, `evaluation-runner.ts`, `actions.ts`) | registry, running evaluations, scopes | register, evaluate, stop | timeout, caller's abort and stop race with the work |
| cancellation scope (`utility/cancellation.ts`) | abort controller, watchdog | run, abort, dispose | a race between work and abort; the loser keeps running |
| when-trees and predicates (`predicates.ts`) | memo per evaluation | evaluate a tree | short-circuit order, depth limit, errors as `false` |
| registration and builders (`registration.ts`, `builders/`) | the registry being built | register | reference and depth checks |
| webhook ingress, service life cycle (`demo/src/server.ts`, `index.ts`) | HTTP requests | accept, evaluate, answer, shut down | caller retries after a 5xx |
| demo rules (`demo/src/rules.ts`) | notifications | conditions that ask GitHub and a classifier | answers that fail, are late or cost money |
| emitter, contexts, durations, clock, dashboard, logger | none that outlives a call | | |

Interactions: the ingress calls `evaluate`; an evaluation reads the registry it
started with, calls predicates (which call adapters), appends to the aggregation
store or enqueues into the scheduled store, then runs actions. The worker polls
the scheduled store, looks rules up in the *current* registry, and runs their
checks and actions in a cancellation scope of its own. `stop()` aborts all
scopes and waits for what is in flight.

What has to hold, per component: a decision (one triggering event of one key) is
taken by its own check, once, not before its delay and not after its deadline,
and eventually; attempts, leases and slots are given back; a cache never serves
a failure; an aggregate action sees at least as many entries as its threshold;
every evaluation ends with exactly one outcome; `stop()` resolves and nothing
starts after it. `PROJECT.json` lists the hazards line by line.

## 2. Modules

| module | models |
|---|---|
| `ScheduledStore` | the store of deferred checks: what one call of enqueue, claim, remove or reschedule does, in memory and in SQL |
| `ScheduledWorker` | the poll loop with its batches, the `schedule` strategy that feeds it, start/stop, crash and restart, slow and failing store calls; its properties |
| `ScheduledDecisions` | what a `.schedule(...)` rule promises: decisions are opened, taken up, postponed, acted upon once, retired |
| `ScheduledWorkerProofs` | theorems about `ScheduledWorker`: those that need no hypothesis on its intervals, then those about batches that own what they work on, and that the worker implements `ScheduledDecisions` |
| `MCScheduledWorker` | instances for TLC |
| `Adapter` | the layers around an integration: cache, semaphore, breaker, retry, and the abort of a call at each of its awaits; its properties |
| `FairSemaphore` | what the concurrency limit promises: slots in the order of arrival, nobody waits while one is free |
| `AdapterProofs` | theorems about the semaphore of `Adapter`, among them that it implements `FairSemaphore`, and about its breaker, retries and cache |
| `MCAdapter` | instances for TLC |
| `SequenceSelection` | the rows of a sequence a condition holds for, in order: a WHERE clause or a filter |
| `AggregationStore` | the operations on one bucket: binary searches in memory, queries in SQL |
| `AggregationStoreProofs` | what these operations compute, for buckets of any length |
| `Aggregation` | the aggregate strategy over three stores (in memory, without `appendAndCount`, PostgreSQL one statement at a time), the lists its actions are shown, prune; its properties |
| `AggregationProofs` | theorems about `Aggregation` |
| `MCAggregation` | instances for TLC |
| `Evaluation` | `evaluate()` from await to await: the loop over the rules, the strategies, the actions, the race with the watchdog, and `stop()` |
| `Service` | composes `Evaluation` with the handler of a webhook, the notification store, boot, shutdown, crash and callers that retry; its properties |
| `ServiceProofs` | theorems about `Service` and the evaluations in it |
| `MCService` | instances for TLC |
| `WhenTree` | conditions: the walk of a tree, arguments, memo, and what a tree means |
| `Registration` | `register()` with everything it checks, and what an evaluation then decides, with registrations in between; its properties |
| `RegistrationProofs` | theorems about `Registration` and the walk of a condition |
| `DemoRules` | the webhooks, events and rules of the demo, as a batch for `Registration`; its properties |
| `DemoRulesProofs` | the theorem about the rules of the demo, built on `RegistrationProofs` |
| `MCDefinitions` | instances of `WhenTree`, `Registration` and `DemoRules` for TLC |
| `ScheduledTable` | the SQL statements on the table of scheduled checks, and the proof that they implement `ScheduledStore` |

`MCDefinitions` extends `DemoRules`, which extends `Registration` and `WhenTree`;
`Service` extends `Evaluation`; `ScheduledWorker` extends `ScheduledStore`;
`AggregationStore` and `Registration` extend `SequenceSelection`.
`Evaluation` leaves open what `Registration` (which rules hold, which actions a
strategy takes), `Aggregation` (whether a threshold is reached) and
`ScheduledWorker` (what becomes of an enqueued check) determine; each of them
leaves open what the others say.

### ScheduledStore and ScheduledWorker

`records` and `leases` are the two maps of `createInMemoryScheduledStore` (two
groups of columns of one table in PostgreSQL). A call takes effect in one step:
the bodies of the in-memory store are synchronous, the SQL store uses one
statement per operation. `Batches` leaves the order of records that are due at
the same time open, since the two backends break ties differently. PostgreSQL's
`FOR UPDATE SKIP LOCKED` lets two concurrent claims skip each other's rows; that is
the order in which one comes after the other and finds these rows leased. A claim
that skips a row some other statement has locked leaves it to the next tick; the
model has no such claim.

A `processClaim` call is a member of `Batch`; `batches[b].pc` is the `await` it
is suspended at:

| pc | the code is at |
|---|---|
| `claiming` | `await schedStore.claim` |
| `next` | the head of the `for` loop, before `runScheduledCheck` |
| `checking` | `scope.run(check)` |
| `acting` | `scope.run(runPendingActions)` |
| `removing` | `await schedStore.remove`, for the reason in `outcome` |
| `rescheduling` | `await schedStore.reschedule` |

Actions correspond to the code between two awaits. `CheckPasses`, `CheckSkips`,
`CheckRechecks` and `CheckRejected` are the answers of user code; an error
thrown by a check is a skip (line 142), a malformed recheck duration is a failed
attempt (line 202 lies outside that `catch`). `Watchdog` and `Stop` set
`aborted`, and `ScopeRejects` is the rejection of `scope.run` that follows.
`RemoveFails` and `RescheduleFails` cover a store call that rejects before or
after it took effect.

Scheduling: Node runs queued promise continuations before the next timer or
external call, so `Register`, `Start`, `Stop`, ticks and the passing of time
wait while one is queued (`ContinuationsDue`). A store call is a queued
continuation too when `StoreLatency` is FALSE (in memory); otherwise it may take
any time. Timers fire before the clock moves past them.

Abstractions: payloads, emitted events and contexts are left out. All rules have
one delay and one deadline. The clock counts in poll-interval units instead of
milliseconds; the constants 100, 30 000 ms and 10 attempts are parameters
(`Limit`, `MinLease`, `MaxAttempts`). The registry is the set of slots whose rule
exists and is a `schedule` rule. `gen` numbers the triggering events of a slot;
it does not exist in the code and no guard reads it.
`triggers`, `crashes`, `stops`, `acted` and `failures` are history; `failures` counts,
for each trigger of a slot, its rounds that failed in a row. In memory the key of
a lease is `${ruleId}:${keyId}` (`scheduled-store.ts:28`), so that two slots whose names
differ only in where the colon stands share a lease; in the model each has its own.

### Adapter and FairSemaphore

A `Call` is one invocation of a wrapped method. A call that misses the cache
starts a *flight* of its own, a run of `runThroughLayers`; a call that hits
awaits the promise of an earlier flight, which `shares` names. `flights[c].pc` is
the place a flight is suspended at:

| pc | the code is at |
|---|---|
| `queued` | `await acquire(...)`, in `waiters` |
| `admitted` | `acquire` has resolved, `beforeBreakerCall` comes next |
| `calling` | `await fn(input)` |
| `sleeping` | `await sleep(...)` between two tries |
| `succeeding`, `failing` | `runWithRetry` has settled, the breaker has not counted it yet |
| `ok`, `failed` | the promise is settled and the slot given back |

`Abort` is the signal of a call; in `queued` and `sleeping` the listener of the
code runs within it. `Evict` is the `catch` handler that `setCached` hangs on the
promise: it runs one continuation after the failure and deletes by key.
`FailsFast`, `AfterSuccess` and `AfterFailure` are the functions of the breaker,
the percentage compared without division. The cache is the sequence of the Map's
entries in insertion order.

Abstractions: the emitted event, the arguments and results of methods and the
text of errors are left out. A key is a model value; `canonicalJson` is taken to
map equal inputs to equal keys. `sleep` with a positive time counts in clock
units; `MethodFails` keeps the exponential backoff and the jitter. `Concurrency`
is finite: without a limit no call waits. `probe` and `startedAt` are history.

### AggregationStore and Aggregation

A bucket is the sequence of entries of one (rule, action, key). `Bisect` is the
loop both searches of the in-memory store share, written as a recursive function on the
range that is left (`Search`); the SQL queries are selections (`Select`).
An evaluation has one state per await of the strategy: `appending`, `counting`,
`committing`, then `acting` while its actions list their entries. Rows of an open
transaction carry `committed = FALSE` and are visible to their own evaluation
only, as under READ COMMITTED; the time a transaction counts for is read when its
INSERT is answered (`PgInsert`), before the SELECT is sent. `Attached` is a sequence
that may name an action twice: neither `rule.ts:45` nor `registration.ts:121` minds. Then
every event puts two entries into one bucket and is counted twice; a `Call` is
an evaluation and a place in that sequence. `AtOffsets` lets the time of an event
(`strategy.at`) lie before and after the clock. `owed` is history: the actions whose
window an append filled and that has stayed full since, without a count that
fired them. It is judged by the committed rows there are (`Full`), not by what a count
found. Payloads, `transform` and events are left out, and the time `list` asks for
is read in the step that answers it.

### Evaluation and Service

`evals[e].pc` is the await an evaluation is suspended at:

| pc | the code is at |
|---|---|
| `when` | `await evaluateWhen` |
| `appending`, `enqueueing` | the store calls of `handleAggregateStrategy`, `handleScheduleStrategy` |
| `next` | the end of `handleRuleStrategy`, before the next rule |
| `acting` | `Promise.allSettled` of the pending actions |

`outcome` is what `evaluate()` settled with, apart from `pc`: an evaluation that
was aborted has settled, yet its runner goes on to the next place where it looks
at the signal, and started actions go on until they are done. `stop` goes
through the three awaits of `engine.stop()`; `waited` is the snapshot it takes.
What `Begins` calls a beginning is the next condition of a rule, a store call of a
strategy, or an action. The leaves of a tree under way (`predicates.ts:48`) and the
function of an aggregated action after its list (`actions.ts:58`) look at no signal
and do begin after an abort; they are part of a step the evaluation already took.

In `Service` an evaluation is a request, `<<delivery, try>>`. `http` is the state of
its handler, `phase` and `pool` that of the process and of the PostgreSQL pool,
`adding` the calls of `store.add` under way. A crash forgets everything but the
tables; a statement under way may have run or not.

Shutdown is in the steps of the code: `app.close()` takes no request from then on
(`Shutdown`); its hook calls `engine.stop()`, at once or after Fastify has answered
requests it took (`OnClose`); once that resolves, `pool.end()` refuses new statements
and waits for the clients that are checked out (`CloseStorage`; `clients` are the
statements under way then); when all are back the pool has ended (`StorageClosed`), and
`Closed` follows when the requests are answered. Queries that wait for a free client
of the pool are not told from those under way. The caller sends a delivery
again after an error, after a crash, or when it got tired of waiting, while the
first try goes on. `when` marks a rule whose condition may say no; whether it
holds, thresholds are reached and steps fail is open.

### WhenTree, Registration and DemoRules

An event says what the functions in the conditions find, what callbacks in
arguments give and how predicates judge each value. A condition is walked as
`evaluateNode` walks it: the code awaits every node, and a step of the model is one
node. A walk stands at `node`; `path` has the recursive calls that wait for it, each
a combinator with the number of the child it awaits. `EvaluateNode` is the call for
a node, up to its value or to the call for its first child; `ChildSettles` is what
a combinator does with the value of a child. The memo and the calls made go on
from rule to rule. `Levels` are the nodes of a tree by their depth, down to the first
that is too deep, which is as far as `checkUse` looks; `Meaning` says what a tree
within the depth means: no order, no memo, no path. `Issues` is the list
`buildRegistry` collects.

| pc | the code is at |
|---|---|
| `rules` | the head of the `for` loop, or before its end |
| `when` | `await evaluateWhen`, in one of the nodes |
| `over`, `failed`, `rejected` | settled: all rules decided; a strategy threw; nothing registered |

`register()` may come between any two of these steps. `DemoRules` gives a webhook
the facts its rules depend on, among them what GitHub and the classifier answer, and
`DemoBatch` is what `createDemoEngine` registers. Values of arguments are strings, and
nested values are left out; `Canonical` keeps what the conversion confuses (undefined,
null and numbers that are not finite; all Dates) and what it throws on.

### ScheduledTable

One action per statement of `PostgresScheduledStore`. `Records` and `Leases` are the
maps a table stands for.

## 3. Runs

| run | question | bounds |
|---|---|---|
| `sched_owned` | under the conditions the design relies on (one trigger pending per key, a batch fits into its lease), is a decision handled by one batch, not before its delay, and are its attempts forgotten; does the worker implement `ScheduledDecisions`? | 2 keys, 3 overlapping batches, 2 triggers per key, 1 stop, time 8 |
| `sched_any` | what holds without those conditions: slow and failing stores, superseding triggers, expired leases, unregistered rules, a crash; is a check given up only after as many failures of its own as it has attempts? | 2 keys, 2 batches, limit 1, 2 triggers per key, 1 crash, 1 stop, time 3 |
| `sched_live` | is every decision eventually taken, and does `stop()` resolve, when checks and actions hang? | 2 keys, 2 batches, 1 crash, 1 stop, deadline 3, 2 attempts, time 14 |
| `adapter_layers` | is each slot given back once, in turn, whatever path a call takes; does the breaker ever stay half-open or close with old counts; does an abort end the retries; is the limit a fair semaphore? | 4 calls, 2 slots, 2 tries, breaker with reset time 1, time 1 |
| `adapter_live` | does a small cache ever keep a failure; does every call settle when methods hang until they are aborted? | 3 calls, 2 keys, 1 entry, TTL 1, 1 slot, breaker, time 1 |
| `agg_backends` | does every evaluation have one entry per attachment, is an action shown the count it fired for, is a threshold ever crossed unnoticed within one process? | 2 evaluations, 2 actions, one attached twice, threshold 2, window 1, 3 stores, 1 prune, time 2 |
| `service` | do answers tell the truth about the notifications, does anything go on behind an answer or begin after an abort, is every request answered, does a shutdown end in order? | 1 delivery, 2 tries, two dispatch lists, both stores, 1 crash |
| `definitions` | are rules decided as their trees mean, is each question asked once, does only a batch without a fault go live, is nothing attached in vain, do the demo's rules report on evidence? | depth limit 3, 2 registrations, 234 scenes |
| `sched_supersede`, `sched_defaults`, `adapter_shared_abort`, `agg_postgres` | see below: each must be violated | |

For the worker, two keys suffice for a batch of more than one record and for two batches that
share the store; three batches let a third claim while one record is checked and
another acted upon. The lease is 3 units, the timeout 1, so a lease expires
within the time bound when it can. Triggers stop at `QuietAfter`, and the worker
is up by then, so that in `sched_live` the last decision has the time it may need
(deadline, attempts times lease, one restart) before the clock stops. Instead of
deadlocking there, the model stutters (`AtHorizon`).

Fairness (in `FairSpec`): timers fire, queued continuations run, store calls
settle, and the service registers its rules and starts the worker after a boot
(`demo/src/index.ts`). No fairness is assumed of checks, actions, triggering
events or of `stop`.

For the adapter, four calls on two slots give a queue of two, which is what it
takes to see an order, and late results that arrive while a probe is under way.
Aborted calls fail at once, so that the breaker opens at 0, probes at 1 and may
open again. One entry and two keys push entries out under their flights. Calls
arrive up to `MaxTime`; a backoff may run past it.

`FairSpec` of the adapter assumes that timers and continuations run, and that a
method under way answers or has its signal aborted in the end (the watchdog of
its scope does it if nothing else) and then settles. Nothing is assumed of the
signal of a call in the queue: it must be woken. A method that ignores its
signal and never answers keeps its slot for good: the code has no defence
against it.

For the aggregation, two evaluations and a threshold of 2 are the least in which
one append may hide another; two actions let a transaction fail after another
has committed, and the second attachment of one lets a single event fill a window. Three offsets and a window of 1 put entries before, on and
after both edges. Deadlock is not checked: evaluations end.

For the service, one delivery with two tries gives two evaluations at a time. One
dispatch list aggregates with a plain action beside it, the other schedules and
then asks a condition: together they reach every await. There is no clock;
a watchdog may fire at any time, which includes the time the code gives it.
`FairSpec` assumes that handlers and continuations run, that watchdogs fire, that
the hooks of `app.close()` run one after the other and that the worker's `stop()`
resolves (`StopResolves` of `sched_live`). Nothing is assumed of conditions,
stores and actions: they may hang. A shutdown is the one thing that then may never
end, since `pool.end()` waits for its clients: `ShutdownEnds` has the hypothesis that
no statement stays out for ever (`[]<>(clients = {})`).

For the definitions, a scene is a set of batches and a set of events. In the tree
scenes two rules of one event share the memo: 54 trees of depths up to the limit
against three that ask related questions, with predicates and callbacks that throw
or give what does not suit. In the others a good batch, a questionable one (every
kind of issue, singly), and two more are registered before and during an
evaluation. The limit of 30 is 3 here; only its comparison with the depth matters.
Deadlock is not checked: an evaluation ends.

### Where the code does not do what the repository says

Each is a run that TLC must find violated:

- `sched_supersede`: a key is triggered again while its check is in flight; the
  old check's outcome removes the new record (`scheduled-worker.ts:199`, also
  196, 204, 238 and 118), although the newer event should supersede
  (`scheduled-store.ts:59`, ADR-007). `NotBeforeDelay` fails for the same reason:
  `reschedule` (line 207) may pull the new record to a time before its delay is
  over.
- `sched_defaults`: with the default intervals (poll 10 s, lease 30 s, timeout
  15 s) three slow checks outlast the lease of their batch and the next tick
  claims the last record again, within one process.
- `adapter_shared_abort`: calls with one key share the promise of the first,
  which follows the signal of the first; when that is aborted they all reject,
  although ADR-005 says they reuse the result regardless of the signal.
- `agg_postgres`: the transactions of two deliveries overlap; neither counts the
  row of the other, the threshold is reached and nothing fires
  (`postgres-storage.ts:245`), although ADR-006 asks distributed backends for an
  atomic append and count.

One sentence errs the other way. ADR-006 (line 215) says that `appendAndCount` "is
non-atomic in the in-memory default — two simultaneous webhooks could both decide
they're the Nth event". The in-memory method has no `await` between the append and
the count (`aggregation-store.ts`), so that they cannot: `OneNth` in `agg_backends`, and
`TheNthIsOne` for any number of webhooks. Of a store without `appendAndCount` it is
true, and `OneNth` does not speak of it.

Read off the code while modelling, without a run of their own.

*Scheduled checks.* After `stop()` the rest of a claimed batch is still checked, and
`stop()` resolves only after each had its timeout. `public/stores.ts:117` says the
in-memory store is passed a lease of 0 or ignores it; the worker always passes at
least 30 s and the store honours it (the safety of `sched_owned` needs that).

*Adapter.* A flight that fails after its entry expired deletes the fresh entry of
its successor (`adapter.ts:250`), so that the integration is asked again within the
TTL. With a backoff of 0 `sleep` does not look at the signal, so retries go on
after an abort. Retries of a call go on while the breaker is open; a late failure
renews the open period; a half-open breaker lets any number of calls through,
and any success closes it, also that of a call made before it opened.

*Aggregation.* `prune` has no caller, so the in-memory buckets only grow. Each
attached action counts in a bucket of its own; one that is attached twice counts every
event twice and fires after about half as many events.

*Evaluation.* What an aborted evaluation had started goes on after `stop()` has
resolved, and `evaluate()` still accepts events then; both may meet a pool that is
closed (they are the exceptions in `CleanShutdown`).

*Conditions.* `canonicalJson` writes every Date, Map or Set as `{}`
(`canonical.ts:22`): use sites that differ only in a Date share one answer, and
calls of an integration one cache entry, although ADR-004 says different
arguments do not collide. NaN and the infinities become `null` (line 28), like
undefined. A predicate registered with `failOpen: false` is opened by
one use site that says `failOpen: true`, and through the memo for the other rules of
the event. An `all` without children at the deepest level is accepted and then
cut to false. These are the exceptions in `DecidesAsMeant`, which says nothing of
a batch or an event in which a Date, a null or a NaN occurs at all, a predicate pins
`failOpen` to anything but true, or any `all` stands on the deepest level. Durations are
not validated by `register()`: a bad one fails the first evaluation that reaches
it, and with it the rules that come later.

*Demo.* An error status of the classifier becomes an "ok" that is cached like an
answer and neither retried nor counted by the breaker (`rules.ts:410`). The key of
`flaky-ci-on-pr` is the name of the branch when GitHub lists no pull request, so
that pull requests from forks may share one. A closed issue that was reopened
and closed again may be reported when the webhook that would have replaced the
check is late. Without a GitHub token a quiet check never learns the state of its
issue and is dropped at the deadline.

## 4. Proofs

Every theorem holds for all values of the constants that satisfy the `ASSUME` of its
module: finitely many keys and calls; intervals, limits and bounds that are
naturals (poll interval, lease, slots, tries, threshold and tree depth positive); a sequence
of attached actions that is not empty; evaluations that are the requests; and model
values that differ from numbers and records. Where a theorem needs more, the
hypothesis stands in the theorem and below.

### The worker

`ScheduledWorkerProofs` needs no more than that: any number of keys, batches, crashes
and failing or slow store calls, leases of any length.

- `TypeCorrect`: `TypeOK` is inductive.
- `LeasesGuardRecords`: `NoLeaseWithoutRecord` is inductive relative to `TypeOK`.
- `StopWaitsForAll`: `StopCoversBatches`, because no batch starts while stopped.
- `NoTriggerUsesUpAnothersAttempts`: the action property `GivenUpAfterItsAttempts`. The
  code counts by slot and `scheduledAt` and clears an entry along some paths only; the
  history `failures` counts by trigger. `CountedFailures` says that the count a record
  meets in the map is at most the failures in a row of its own trigger, through batches
  that overlap, removals that fail after the actions and records that are replaced,
  unless another trigger of the slot has the same `scheduledAt`: two triggers of one key
  at one reading of the clock share an entry, and the property excepts them.
- `RechecksEndAtTheDeadline`: `PostponedWithinDeadline` when `WriteLag = 0`. It is
  not inductive by itself: the worker compares with the deadline of the record
  it *claimed*, the store postpones the record it *holds*. `DeadlineInv` adds that
  deadlines are a fixed distance from their trigger (`RecordsOnTime`), that what a
  batch holds was not triggered after what the store holds (`HeldAreNotNewer`) and
  that a batch about to reschedule respects its own deadline (`PostponesInTime`).
- `NoRevival`: the action property `NeverRevives`.

They rest on lemmas about what `Finish`, `Proceed`, `AwaitRemove` and
`HandleFailure` do, and on two summaries of a batch's step (`StoreEffects`,
`BatchEffects`).

The second half of the module is about what leases are for. The code neither renews a
lease nor names a record when it removes or postpones one, so its theorems have
the hypothesis `LeaseOutlastsBatch`: no slot is triggered again while it is
pending, store calls neither fail nor take time, and one timeout for each slot
fits into a lease. These are the conditions of the run `sched_owned`, and the
violated runs `sched_supersede` and `sched_defaults` show what happens without the
first and the last. Crashes, `stop()`, failing user code and every interleaving
of batches remain.

- `BatchesOwnTheirRecords`: `OwnsWhatItHandles`. Its invariant `OwnInv` is the timing
  argument: with `left` records to go, the lease lasts longer than `left` timeouts
  (`LeasesLast`), no scope outlives its watchdog (`ScopesInTime`), a claim takes place
  at the time of its tick (`ClaimsAreFresh`), no slot is held twice (`SlotsDisjoint`),
  and what is held is what is stored (`HeldIsStored`).
- `ChecksWaitForTheirDelay` (`NotBeforeDelay`) and `AttemptsEndWithTheirCheck`
  (`AttemptsOnlyForPending`), from `OwnInv` and an invariant of their own each.
- `OnlyItsBatchRemoves`: an action property no run states, that a pending decision leaves a
  store which survives crashes only through the batch that claimed it.
- `WorkerImplementsDecisions`: the refinement of `ScheduledDecisions`, without crashes.
  With one it fails, and so would the code: a process that dies between the actions
  and the removal acts on the decision again. The mapping needs that an acted
  decision that is still stored is being removed for that (`ActedIsRemoved`).

### The adapter

`AdapterProofs` proves:

- `TypeCorrect`: `TypeOK` of the adapter; it includes that a flight sleeps only
  before its last try and that only calls that were made have a flight.
- `NoSlotLeaks` and `NoDeadWaiter`: `SlotsAccounted` and `WaitersAreAlive`. They
  are inductive together (`SemaphoreInv`): a slot is handed over instead of freed
  exactly when somebody waits, so the count stays exact only because the queue
  holds nothing but flights that wait, each once.
- `FairLimit`: `Spec => ImplementsSemaphore`. Every step is a step of
  `FairSemaphore` on (`Holders`, `waiters`) or leaves both alone: a miss enters or
  waits, the three ways to end a flight with a slot leave, an abort in the queue
  gives up.

They rest on lemmas about sequences of distinct elements (`SpliceLeaves`,
`TailLeaves`, `AppendAdds`) and on what `Release` does (`ReleaseEffect`).

On top of `SemaphoreInv` it proves:

- `ClosedIsHealthy` and `HalfOpenIsDecided`: `ClosedMeansHealthy` and `HalfOpenHasProbe`,
  inductive together (`BreakerInv`). A step that lets a probe go decides the state of
  the breaker, and every other step leaves the probes in their slots.
- `AbortEndsRetries`: `NoRetryAfterAbort` when `Backoff > 0`. With a backoff of 0, `sleep`
  returns before it looks at the signal and the retries do go on. `RetryInv` says that no
  aborted flight sleeps; that a delay takes time at all rests on `PowerOfTwo`,
  which counts subsets because the prover knows nothing of powers.
- `NoFailureServed`: `CacheServesNoFailure`. `CacheInv` ties an entry to its flight
  and has every failed one wait for its catch handler.

### Aggregation

`AggregationStoreProofs` is about one bucket of any length. `LowerBoundSplits` and
`UpperBoundSplits` say that the binary searches stop at an index within the bucket,
and on a sorted bucket at the edge they look for; `SelectPicks` says what a selection
is. From these:

- `InsertionSorts`: an insertion adds its row and keeps the bucket sorted;
- `WindowsAgree`: on a sorted bucket the in-memory store and the SQL query give
  the same entries in the same order;
- `PrunesAgree`: likewise for `prune`, but for the rows of open transactions.

The search and the selection are recursive. The library's induction theorems are
out of the prover's reach, so the argument is by smallest counterexample: the set of
lengths for which the claim fails is a set of naturals, `NatMin` (derived from the
well-foundedness of finite sets under inclusion) gives its least element, and the step
below it is the contradiction.

`AggregationProofs` proves `AggregationTypes`, `EntriesAreOnce` (`EntryPerAttachment`),
`ListsReachTheThreshold`, `NoCrossingGoesMissed` (`NoMissedThresholdInProcess`) and
`TheNthIsOne`: all five invariants of `agg_backends`, for any number of evaluations,
attached actions (the same one any number of times), prunes, and offsets of event times, any
threshold and window, and each store. None of them is inductive. `AggregationInv`
needs that buckets are sorted and have one row per evaluation and attachment (`BucketsOK`); that a row
is uncommitted exactly while the transaction of its evaluation is open (`RowsOK`), without
which nothing is known of what a PostgreSQL count sees; that only age removes the
row of an evaluation that goes on (`KeptOK`), as `prune` and rollbacks run in between;
and, the heart of it, that while the clock stands still a count never exceeds what the
evaluation could still see (`CountsOK`), which is why an action listed at that
moment is shown the threshold. `CountsOK` bounds counts by the calls seen
(`Seen`), a set, and leaves the order of entries to the lemmas on one bucket. `OwedOK` is
about the two awaits of a store without `appendAndCount`: an action that is owed a
firing has a full window, and an evaluation whose count is still to come will see it.

### Evaluations and the service

`ServiceProofs` proves all the safety `service` checks, for any deliveries, tries,
crashes and dispatch lists: `ServiceTypes`, `ResultsAreComplete` (`NothingLeftBehind`),
`StopIsComplete` (`StopWaits`), `AnswersAreTrue` (`AcceptedMeansNotified`),
`ShutdownIsClean` (`CleanShutdown`) and the action property `AbortEndsTheRun`
(`NothingBeginsAfterAbort`). `ServiceInv` has the types, what is true of the record of an
evaluation at each await (`EvalsOK`: before the actions nothing queued has started,
a result that is not an abort means everything is over), what `stop()` has in hand
(`StopOK`), that a 202 stands for an evaluation that ended well (`AnswersOK`) and that the
notification of an action that succeeded is in a store that keeps it (`StoredOK`). The
lemmas on the record of one evaluation say what a step leaves behind (`EvalOK`) and what
it cannot take back (`Moves`), so that the rest of the proof never looks inside
the loop over the rules. `clients` needs no invariant beyond its type: what is said of
the pool is said from the moment it begins to end.

### Registration and conditions

`RegistrationProofs` proves what `definitions` checks of `Registration`, for any
batches and events, trees of any shape, any depth limit, and any number of rules that
share a memo:

- `TheRegistryIsSound` (`OnlySoundBatchesGoLive`) and `AttachmentsTakeEffect`
  (`NothingAttachedIsDropped`), from `RegistryOK`: what is registered was accepted as a
  whole. `AcceptedRules`, `AcceptedEntities`, `AcceptedRuleArgs` and `AcceptedKinds` turn the
  absence of issues into what the dispatch relies on: that the loops over the issues miss
  no entity although they look names up in maps that keep the first of each name.
- `QuestionsAreAskedOnce` (`EachQuestionOnce`), from `EvaluationOK`: a walk stands at a node
  of the tree of its candidate, each combinator of the path is on its level and
  awaits a child on the next; every call has its key in the memo, and no two calls
  have one key. The first half is why the depth limit never cuts an accepted tree.
- `RulesAreDecidedAsMeant` (`DecidesAsMeant`), from `DecidedOK`: an answer in the memo is
  what the predicate would answer to the same arguments, since without the
  exceptions a key stands for one set of arguments (`KeysTellApart`); a settled node has
  the value its tree means there, and no combinator of the path was decided by a
  child before the one it awaits (`ChildrenDecide`); what held so far is a
  selection of the candidates, and the candidates are a selection of the batch
  (`SelectTwice`).

The path takes the place of an induction over trees: a step of the walk looks at one node and
the frame above it, and the invariant relates each of these to what its level means.
That levels, meanings and selections are what their definitions say
(`LevelsDefined`, `MeaningsDefined`, `SelectionSteps`) goes by smallest counterexample, as
above.

The hypotheses are those of `RegistrationAssumption`: lists are sequences, nodes are of
the five kinds, and no callback is named "true".

### The rules of the demo

`DemoRulesProofs` proves `DemoReportsOnEvidence` (`ReportsOnEvidence`) for scenes with any
other batches and events beside the demo's, any depth limit that accepts its batch, and
registrations at any step. Besides `RegistrationAssumption` it assumes that an event
with a webhook is one the handler made of it (`DemoAssumption`); that this stays so
under way is `WebhookOK`.

- Pull requests (`InfraInvariant`): by `RulesAreDecidedAsMeant` a finished evaluation has
  decided for a rule exactly if its event is the rule's and its tree holds
  (`DemoDecides`; names of the demo's rules are distinct and none of its trees is
  among the exceptions, `DemoUnexceptional`). `InfraMeans` is what the tree means, and
  `PullRequestEvent` what its three functions find: with a token, the files alone.
- Comments (`HostileInvariant`): the same for what is decided, with `CommentEvent` for the
  answers of the classifier. How often it is asked is no matter of what trees mean and
  needs an invariant of its own: `AsksOK` says that no question is asked before the
  second rule on comments, and then those due at the point the walk has reached
  (`CallsDue`). Where a walk of that tree can stand is four places
  (`StandsInHostile`); it goes on to the classifier only if the child before it
  held, which `DecidedOK` says of every settled node (`SettlesAsk`).

### The SQL store

`ScheduledTable` proves `TableImplementsStore`: every statement on the table does to
the maps the table stands for (`Records`, `Leases`) what the operation of
`ScheduledStore` does, for any set of keys, provided "no row" is told from rows and
checks (`Distinguished`) and leases are longer than 0, which is all the worker
asks for. The typing of the rows (`RowsTyped`) is needed because the lease of a row
is read as a number.

### Only model-checked

- Liveness (`EventuallyDecided`, `StopResolves`, `EveryCallSettles`,
  `EveryRequestAnswered`, `ShutdownEnds`): the prover handles no fairness.
- The refinement of `ScheduledDecisions` for slots that are triggered again while
  pending and stores that are slow: it does not hold there.

## 5. Plan

Every component that keeps state is modelled, and every safety property of a passing
run, invariant or action property, is a theorem. What is left lies outside the
models: the order in which two enqueues of one key land in PostgreSQL, and
integrations at registration (section 6).

## 6. Not modelled

- The signal a caller may pass to `evaluate()`: no caller in the repository does.
- Integrations at registration (names and adapters): `Adapter` starts from one that
  was built.
- The check of `issue-closed-quiet`: `ScheduledWorker` lets a check answer anything.
- The order in which two enqueues of one key that race to PostgreSQL land.
- Contexts, texts, URLs, payloads and the conversion of rows: data without control.
- The emitter (its subscribers run inside `emit` and what they throw is dropped),
  the clock, the type declarations, the dashboard and the logger.
- HTTP, the signature of a webhook, and SQL parsing: I/O. `Service` takes their
  verdicts as inputs.

------------------------------ MODULE Adapter ------------------------------
(***************************************************************************)
(* The adapter around one external integration, engine/src/engine/adapter.ts: *)
(* cache, semaphore, circuit breaker and retry around a method of user code. *)
(*                                                                          *)
(* A Call is one invocation of a wrapped method.  A call that misses the    *)
(* cache starts a flight, a run through the layers, named after it; a call  *)
(* that hits awaits the promise of an earlier flight.  Each await of a      *)
(* flight is a phase; steps of different flights interleave there.          *)
(***************************************************************************)
EXTENDS Integers, FiniteSets, Sequences

CONSTANTS Call,         \* invocations of a wrapped method
          Key,          \* method name and canonical input without the signal
          NoCall,
          Cached,       \* is there a cache?
          Ttl, CacheMax,
          Concurrency,
          HasBreaker,   \* is there a breaker?
          Pct, ResetMs, \* errorThresholdPct, resetMs
          MaxTries,     \* retry.attempts
          Backoff,      \* retry.backoffMs
          Jitter,       \* retry.jitter
          MaxTime       \* bound: the clock stops here unless a timer is pending

ASSUME AdapterAssumption ==
  /\ IsFiniteSet(Call) /\ NoCall \notin Call
  /\ {Ttl, CacheMax, Pct, ResetMs, Backoff, MaxTime} \subseteq Nat
  /\ {Concurrency, MaxTries} \subseteq Nat \ {0}
  /\ {Cached, HasBreaker, Jitter} \subseteq BOOLEAN

VARIABLES
  now,        \* clock.now()
  shares,     \* the flight whose promise a call awaits, NoCall before the call
  flights,
  aborted,    \* the calls whose input.signal is aborted
  active,     \* slots taken
  waiters,    \* the flights waiting for a slot
  breaker,
  cache,      \* the entries of the Map in insertion order, oldest first
  evicting    \* rejected flights whose catch handler has not run yet

vars == <<now, shares, flights, aborted, active, waiters, breaker, cache, evicting>>

(* Where a flight is suspended; "succeeding" and "failing" when             *)
(* runWithRetry has settled and runThroughLayers has not gone on yet.       *)
Phase == {"none", "queued", "admitted", "calling", "sleeping", "succeeding",
          "failing", "ok", "failed"}

Flight ==
  [pc : Phase, key : Key \cup {NoCall}, tries : 0..MaxTries, wakeAt : Int,
   startedAt : Nat,
   probe : BOOLEAN]   \* history: did it pass the breaker when half-open?

NoFlight == [pc |-> "none", key |-> NoCall, tries |-> 0, wakeAt |-> 0,
             startedAt |-> 0, probe |-> FALSE]

CacheEntry == [key : Key, flight : Call, expiresAt : Nat]
Breaker == [state : {"closed", "open", "half-open"}, openedAt : Nat,
            successes : Nat, failures : Nat]

(* Every variable has its type; no flight tries more often than allowed,    *)
(* and a backoff lies between two tries; only calls that were made fly.     *)
TypeOK ==
  /\ now \in Nat
  /\ shares \in [Call -> Call \cup {NoCall}]
  /\ flights \in [Call -> Flight]
  /\ \A c \in Call : flights[c].pc = "sleeping" => flights[c].tries < MaxTries
  /\ \A c \in Call : shares[c] = NoCall => flights[c].pc = "none"
  /\ aborted \subseteq Call
  /\ active \in Nat
  /\ waiters \in Seq(Call)
  /\ breaker \in Breaker
  /\ cache \in Seq(CacheEntry)
  /\ evicting \subseteq Call

Init ==
  /\ now = 0
  /\ shares = [c \in Call |-> NoCall]
  /\ flights = [c \in Call |-> NoFlight]
  /\ aborted = {}
  /\ active = 0
  /\ waiters = << >>
  /\ breaker = [state |-> "closed", openedAt |-> 0, successes |-> 0, failures |-> 0]
  /\ cache = << >>
  /\ evicting = {}

At(c, phase) == flights[c].pc = phase
Go(c, phase) == flights' = [flights EXCEPT ![c].pc = phase]

(* The flights that hold a slot. *)
Holders == { c \in Call : flights[c].pc \in {"admitted", "calling", "sleeping",
                                             "succeeding", "failing"} }

(* Promise continuations run before the next timer. *)
ContinuationsDue ==
  evicting # {} \/ \E c \in Call : flights[c].pc \in {"admitted", "succeeding", "failing"}

-----------------------------------------------------------------------------
(* Cache. *)

Splice(q, i) == [j \in 1..(Len(q) - 1) |-> IF j < i THEN q[j] ELSE q[j + 1]]

Without(q, k) ==
  LET at == { i \in DOMAIN q : q[i].key = k }
  IN  IF at = {} THEN q ELSE Splice(q, CHOOSE i \in at : TRUE)
Hits(k) == { i \in DOMAIN cache : cache[i].key = k /\ cache[i].expiresAt > now }

Trim(q) == IF Len(q) <= CacheMax THEN q ELSE SubSeq(q, Len(q) - CacheMax + 1, Len(q))

(* setCached hangs a handler on the promise of every flight it stores. *)
Evicted(S) == evicting' = IF Cached THEN evicting \cup S ELSE evicting

(* A hit moves the entry to the young end of the Map. *)
CallHits(c, k) ==
  /\ shares[c] = NoCall /\ now <= MaxTime
  /\ Cached
  /\ \E i \in Hits(k) : /\ shares' = [shares EXCEPT ![c] = cache[i].flight]
                        /\ cache' = Append(Without(cache, k), cache[i])
  /\ UNCHANGED <<now, flights, aborted, active, waiters, breaker, evicting>>

(* The flight of c starts in acquire: it takes a free slot, fails if its    *)
(* signal is aborted, and waits otherwise.                                  *)
Acquire(c, k) ==
  LET flight(phase) == [NoFlight EXCEPT !.pc = phase, !.key = k, !.startedAt = now]
  IN  \/ /\ active < Concurrency
         /\ active' = active + 1
         /\ flights' = [flights EXCEPT ![c] = flight("admitted")]
         /\ UNCHANGED <<waiters, evicting>>
      \/ /\ active >= Concurrency /\ c \in aborted
         /\ flights' = [flights EXCEPT ![c] = flight("failed")]
         /\ Evicted({c})
         /\ UNCHANGED <<active, waiters>>
      \/ /\ active >= Concurrency /\ c \notin aborted
         /\ flights' = [flights EXCEPT ![c] = flight("queued")]
         /\ waiters' = Append(waiters, c)
         /\ UNCHANGED <<active, evicting>>

(* A miss starts a flight and stores its promise: an expired entry is       *)
(* replaced and the oldest ones make room.                                  *)
CallMisses(c, k) ==
  /\ shares[c] = NoCall /\ now <= MaxTime
  /\ Cached => Hits(k) = {}
  /\ shares' = [shares EXCEPT ![c] = c]
  /\ Acquire(c, k)
  /\ cache' = IF Cached
              THEN Trim(Append(Without(cache, k),
                               [key |-> k, flight |-> c, expiresAt |-> now + Ttl]))
              ELSE cache
  /\ UNCHANGED <<now, aborted, breaker>>

(* The catch handler of setCached: it deletes what is stored under the key. *)
Evict(c) ==
  /\ c \in evicting
  /\ evicting' = evicting \ {c}
  /\ cache' = Without(cache, flights[c].key)
  /\ UNCHANGED <<now, shares, flights, aborted, active, waiters, breaker>>

-----------------------------------------------------------------------------
(* Semaphore. *)

(* Mutants of Release: it hands its slot over and frees it as well, hands   *)
(* it to the youngest waiter, or frees it and wakes nobody.                 *)
ReleaseTwice(c, outcome) ==
  /\ active' = active - 1
  /\ IF waiters = << >>
     THEN Go(c, outcome) /\ UNCHANGED waiters
     ELSE /\ flights' = [flights EXCEPT ![c].pc = outcome, ![Head(waiters)].pc = "admitted"]
          /\ waiters' = Tail(waiters)
ReleaseToYoungest(c, outcome) ==
  IF waiters = << >>
  THEN Go(c, outcome) /\ active' = active - 1 /\ UNCHANGED waiters
  ELSE /\ flights' = [flights EXCEPT ![c].pc = outcome,
                                     ![waiters[Len(waiters)]].pc = "admitted"]
       /\ waiters' = SubSeq(waiters, 1, Len(waiters) - 1)
       /\ UNCHANGED active
ReleaseWakesNobody(c, outcome) ==
  Go(c, outcome) /\ active' = active - 1 /\ UNCHANGED waiters

(* runThroughLayers settles and its slot goes to the first waiter.  (The    *)
(* loop that skips aborted waiters finds none: an abort takes its waiter    *)
(* out of the queue at once, see WaitersAreAlive.)                          *)
Release(c, outcome) ==
  IF waiters = << >>
  THEN /\ Go(c, outcome)
       /\ active' = active - 1
       /\ UNCHANGED waiters
  ELSE /\ flights' = [flights EXCEPT ![c].pc = outcome, ![Head(waiters)].pc = "admitted"]
       /\ waiters' = Tail(waiters)
       /\ UNCHANGED active

(* The listener of a waiter: it leaves the queue and its call rejects.      *)
GiveUp(c) ==
  /\ Go(c, "failed")
  /\ \E i \in DOMAIN waiters : waiters[i] = c /\ waiters' = Splice(waiters, i)
  /\ Evicted({c})

(* Mutants of Abort: the waiter rejects but stays in the queue, or a        *)
(* backoff runs to its end.                                                 *)
AbortLeavesWaiter(c) ==
  /\ c \notin aborted
  /\ aborted' = aborted \cup {c}
  /\ CASE At(c, "queued") -> Go(c, "failed") /\ Evicted({c}) /\ UNCHANGED waiters
       [] At(c, "sleeping") -> Go(c, "failing") /\ UNCHANGED <<waiters, evicting>>
       [] OTHER -> UNCHANGED <<flights, waiters, evicting>>
  /\ UNCHANGED <<now, shares, active, breaker, cache>>
AbortWaitsForTimer(c) ==
  /\ c \notin aborted
  /\ aborted' = aborted \cup {c}
  /\ IF At(c, "queued")
     THEN GiveUp(c)
     ELSE UNCHANGED <<flights, waiters, evicting>>
  /\ UNCHANGED <<now, shares, active, breaker, cache>>

(* The signal of a call is aborted: a waiter leaves the queue and rejects,  *)
(* a backoff ends, a method may or may not take notice.                     *)
Abort(c) ==
  /\ c \notin aborted
  /\ aborted' = aborted \cup {c}
  /\ CASE At(c, "queued") -> GiveUp(c)
       [] At(c, "sleeping") -> Go(c, "failing") /\ UNCHANGED <<waiters, evicting>>
       [] OTHER -> UNCHANGED <<flights, waiters, evicting>>
  /\ UNCHANGED <<now, shares, active, breaker, cache>>

-----------------------------------------------------------------------------
(* Breaker. *)

Opened(b) == [b EXCEPT !.state = "open", !.openedAt = now]

(* A mutant: the probe closes the breaker and leaves the old counts. *)
CloseKeepingCounts ==
  CASE ~HasBreaker -> breaker
    [] HasBreaker /\ breaker.state = "half-open" -> [breaker EXCEPT !.state = "closed"]
    [] OTHER -> [breaker EXCEPT !.successes = @ + 1]

AfterSuccess ==
  CASE ~HasBreaker -> breaker
    [] HasBreaker /\ breaker.state = "half-open" ->
         [breaker EXCEPT !.state = "closed", !.successes = 0, !.failures = 0]
    [] OTHER -> [breaker EXCEPT !.successes = @ + 1]

(* A mutant: the failure of a probe is counted and does not reopen.         *)
CountHalfOpen ==
  LET counted == [breaker EXCEPT !.failures = @ + 1]
  IN  IF /\ HasBreaker /\ breaker.state # "half-open"
         /\ counted.failures * 100 >= Pct * (counted.successes + counted.failures)
      THEN Opened(counted)
      ELSE IF HasBreaker THEN counted ELSE breaker

AfterFailure ==
  LET counted == [breaker EXCEPT !.failures = @ + 1]
  IN  CASE ~HasBreaker -> breaker
        [] HasBreaker /\ breaker.state = "half-open" -> Opened(breaker)
        [] OTHER -> IF counted.failures * 100 >= Pct * (counted.successes + counted.failures)
                    THEN Opened(counted) ELSE counted

FailsFast == HasBreaker /\ breaker.state = "open" /\ now - breaker.openedAt < ResetMs

(* The flight has its slot: the breaker lets it try, or it fails fast,      *)
(* which counts neither as a success nor as a failure.                      *)
Enter(c) ==
  /\ At(c, "admitted")
  /\ IF FailsFast
     THEN Release(c, "failed") /\ Evicted({c}) /\ UNCHANGED breaker
     ELSE /\ breaker' = IF breaker.state = "open" THEN [breaker EXCEPT !.state = "half-open"]
                                                  ELSE breaker
          /\ flights' = [flights EXCEPT ![c].pc = "calling", ![c].tries = 1,
                                        ![c].probe = breaker'.state = "half-open"]
          /\ UNCHANGED <<active, waiters, evicting>>
  /\ UNCHANGED <<now, shares, aborted, cache>>

(* The breaker counts the outcome of all tries together; the slot is freed. *)
LeaveOk(c) ==
  /\ At(c, "succeeding")
  /\ breaker' = AfterSuccess
  /\ Release(c, "ok")
  /\ UNCHANGED <<now, shares, aborted, cache, evicting>>

(* A mutant: the rejection of an aborted call stays in the cache.           *)
LeaveUnevicted(c) ==
  /\ At(c, "failing")
  /\ breaker' = AfterFailure
  /\ Release(c, "failed")
  /\ Evicted({c} \ aborted)
  /\ UNCHANGED <<now, shares, aborted, cache>>

LeaveFailed(c) ==
  /\ At(c, "failing")
  /\ breaker' = AfterFailure
  /\ Release(c, "failed")
  /\ Evicted({c})
  /\ UNCHANGED <<now, shares, aborted, cache>>

-----------------------------------------------------------------------------
(* Retry. *)

MethodSucceeds(c) ==
  /\ At(c, "calling")
  /\ Go(c, "succeeding")
  /\ UNCHANGED <<now, shares, aborted, active, waiters, breaker, cache, evicting>>

(* A mutant: one more try than configured. *)
OneTryTooMany(c) ==
  /\ At(c, "calling")
  /\ IF flights[c].tries > MaxTries \/ c \in aborted THEN Go(c, "failing")
     ELSE flights' = [flights EXCEPT ![c].tries = @ + 1]
  /\ UNCHANGED <<now, shares, aborted, active, waiters, breaker, cache, evicting>>

(* The method rejects.  Before the last try the flight sleeps, unless its   *)
(* signal is aborted; without a backoff it tries again at once.             *)
MethodFails(c) ==
  /\ At(c, "calling")
  /\ \E jitter \in IF Jitter /\ Backoff > 0 THEN 0..(Backoff - 1) ELSE {0} :
       LET delay == Backoff * 2 ^ (flights[c].tries - 1) + jitter
       IN  \/ flights[c].tries = MaxTries /\ Go(c, "failing")
           \/ /\ flights[c].tries < MaxTries /\ delay = 0
              /\ flights' = [flights EXCEPT ![c].tries = @ + 1]
           \/ flights[c].tries < MaxTries /\ delay > 0 /\ c \in aborted /\ Go(c, "failing")
           \/ /\ flights[c].tries < MaxTries /\ delay > 0 /\ c \notin aborted
              /\ flights' = [flights EXCEPT ![c].pc = "sleeping", ![c].wakeAt = now + delay]
  /\ UNCHANGED <<now, shares, aborted, active, waiters, breaker, cache, evicting>>

Wake(c) ==
  /\ At(c, "sleeping") /\ flights[c].wakeAt <= now /\ ~ContinuationsDue
  /\ flights' = [flights EXCEPT ![c].pc = "calling", ![c].tries = @ + 1]
  /\ UNCHANGED <<now, shares, aborted, active, waiters, breaker, cache, evicting>>

-----------------------------------------------------------------------------
ClockAdvances ==
  /\ now < MaxTime \/ \E c \in Call : At(c, "sleeping")
  /\ ~ContinuationsDue
  /\ \A c \in Call : At(c, "sleeping") => flights[c].wakeAt > now
  /\ now' = now + 1
  /\ UNCHANGED <<shares, flights, aborted, active, waiters, breaker, cache, evicting>>

(* The bound on time, not a behaviour of the system. *)
AtHorizon == now >= MaxTime /\ UNCHANGED vars

CallStep(c) ==
  \/ \E k \in Key : CallHits(c, k) \/ CallMisses(c, k)
  \/ Abort(c) \/ Evict(c)
  \/ Enter(c) \/ MethodSucceeds(c) \/ MethodFails(c) \/ Wake(c)
  \/ LeaveOk(c) \/ LeaveFailed(c)

Next == (\E c \in Call : CallStep(c)) \/ ClockAdvances \/ AtHorizon

Spec == Init /\ [][Next]_vars

(* Fairness: timers fire and continuations run.  A method answers, or its   *)
(* signal is aborted in the end (the watchdog of its scope, if nothing      *)
(* else) and then it settles; until then it may hang.  Nothing is assumed   *)
(* of the signal of a call that waits.                                      *)
Fairness ==
  /\ WF_vars(ClockAdvances)
  /\ \A c \in Call :
       /\ WF_vars(Evict(c)) /\ WF_vars(Enter(c)) /\ WF_vars(Wake(c))
       /\ WF_vars(LeaveOk(c)) /\ WF_vars(LeaveFailed(c))
       /\ WF_vars(\/ At(c, "calling") /\ Abort(c)
                  \/ MethodSucceeds(c) \/ MethodFails(c))
       /\ WF_vars(c \in aborted /\ (MethodSucceeds(c) \/ MethodFails(c)))

FairSpec == Spec /\ Fairness

-----------------------------------------------------------------------------
(* Safety. *)

(* The counter of taken slots is exact: no path of a flight, whether it     *)
(* fails fast, is aborted or is handed a slot, leaks one or frees one twice; *)
(* and nobody waits while a slot is free.                                   *)
SlotsAccounted ==
  /\ active = Cardinality(Holders)
  /\ active <= Concurrency
  /\ waiters # << >> => active = Concurrency

(* Those in the queue are the flights that wait, each once, and none of     *)
(* them is aborted: no slot is handed to a call that has given up.          *)
WaitersAreAlive ==
  /\ { waiters[i] : i \in DOMAIN waiters } = { c \in Call : At(c, "queued") }
  /\ \A i, j \in DOMAIN waiters : waiters[i] = waiters[j] => i = j
  /\ \A c \in aborted : ~At(c, "queued")

(* A half-open breaker has a call under way that will close or reopen it:   *)
(* it never stays half-open with nobody left to decide.                     *)
HalfOpenHasProbe ==
  breaker.state = "half-open" =>
    \E c \in Call : flights[c].probe /\ c \in Holders

(* A closed breaker is below its threshold: the counts that opened it once  *)
(* are not left behind to reopen it.                                        *)
ClosedMeansHealthy ==
  breaker.state = "closed" =>
    \/ breaker.failures = 0
    \/ breaker.failures * 100 < Pct * (breaker.successes + breaker.failures)

(* The cache holds one entry per key, within its size, and a failure only   *)
(* until the handler that removes it has run.                               *)
CacheServesNoFailure ==
  /\ Len(cache) <= CacheMax
  /\ \A i, j \in DOMAIN cache : cache[i].key = cache[j].key => i = j
  /\ \A i \in DOMAIN cache :
       LET e == cache[i]
       IN  /\ flights[e.flight].key = e.key
           /\ At(e.flight, "failed") => e.flight \in evicting

-----------------------------------------------------------------------------
(* What a step may never do. *)

(* No retry starts after the signal of its call was aborted.                *)
NoRetryAfterAbort ==
  [][\A c \in aborted : flights'[c].tries > 1 => flights'[c].tries = flights[c].tries]_vars

(* Aborting the signal of one call takes no result away from another call   *)
(* whose own signal is not aborted.                                         *)
NoForeignAbort ==
  [][\A d \in Call :
       /\ shares[d] # NoCall /\ d \notin aborted'
       /\ flights[shares[d]].pc \notin {"failing", "failed"}
       /\ flights'[shares[d]].pc \in {"failing", "failed"}
       => aborted' = aborted]_vars

(* The concurrency limit is a fair semaphore.                               *)
Semaphore == INSTANCE FairSemaphore WITH
               Client <- Call, Limit <- Concurrency, holding <- Holders, queue <- waiters
ImplementsSemaphore == Semaphore!Spec

-----------------------------------------------------------------------------
(* Liveness. *)

(* Every call gets its answer, its own or that of the call it shares: no    *)
(* waiter is forgotten, even when methods hang until they are aborted.      *)
EveryCallSettles ==
  \A c \in Call : \A f \in Call :
    shares[c] = f ~> flights[f].pc \in {"ok", "failed"}

=============================================================================

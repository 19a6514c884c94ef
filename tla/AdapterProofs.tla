---------------------------- MODULE AdapterProofs ----------------------------
(***************************************************************************)
(* Theorems about Adapter, for every value of its constants.                *)
(***************************************************************************)
EXTENDS Adapter, FiniteSetTheorems, SequenceTheorems, TLAPS

(* Removing one element from a sequence leaves the others, in their order.  *)
LEMMA SpliceType ==
  ASSUME NEW S, NEW q \in Seq(S), NEW i \in DOMAIN q
  PROVE  /\ Splice(q, i) \in Seq(S)
         /\ Len(Splice(q, i)) = Len(q) - 1
         /\ DOMAIN Splice(q, i) = 1..(Len(q) - 1)
         /\ \A j \in 1..(Len(q) - 1) : Splice(q, i)[j] = IF j < i THEN q[j] ELSE q[j + 1]
<1>1. Len(q) - 1 \in Nat /\ i \in 1..Len(q)
  OBVIOUS
<1>2. \A j \in 1..(Len(q) - 1) : (IF j < i THEN q[j] ELSE q[j + 1]) \in S
  BY <1>1
<1>3. Splice(q, i) \in [1..(Len(q) - 1) -> S]
  BY <1>2 DEF Splice
<1>4. Splice(q, i) \in Seq(S)
  BY <1>1, <1>3
<1>5. Len(Splice(q, i)) = Len(q) - 1
  BY <1>1, <1>3, <1>4
<1> QED
  BY <1>3, <1>4, <1>5 DEF Splice

(* What is left of a queue of distinct elements after a removal. *)
LEMMA SpliceLeaves ==
  ASSUME NEW S, NEW q \in Seq(S), NEW i \in DOMAIN q,
         \A j, k \in DOMAIN q : q[j] = q[k] => j = k
  PROVE  /\ { Splice(q, i)[j] : j \in DOMAIN Splice(q, i) } = { q[j] : j \in DOMAIN q } \ {q[i]}
         /\ \A j, k \in DOMAIN Splice(q, i) : Splice(q, i)[j] = Splice(q, i)[k] => j = k
<1> DEFINE r == Splice(q, i)
<1>1. /\ DOMAIN r = 1..(Len(q) - 1)
      /\ \A j \in 1..(Len(q) - 1) : r[j] = IF j < i THEN q[j] ELSE q[j + 1]
      /\ i \in 1..Len(q) /\ Len(q) \in Nat /\ DOMAIN q = 1..Len(q)
  <2>1. i \in 1..Len(q) /\ Len(q) \in Nat /\ DOMAIN q = 1..Len(q)
    OBVIOUS
  <2>2. /\ DOMAIN r = 1..(Len(q) - 1)
        /\ \A j \in 1..(Len(q) - 1) : r[j] = IF j < i THEN q[j] ELSE q[j + 1]
    BY SpliceType, Zenon
  <2> QED
    BY <2>1, <2>2
<1> HIDE DEF r
<1>2. ASSUME NEW j \in DOMAIN r, NEW k \in DOMAIN r, r[j] = r[k]
      PROVE  j = k
  <2>1. CASE j < i /\ k < i
    BY <1>1, <1>2, <2>1
  <2>2. CASE j < i /\ ~(k < i)
    BY <1>1, <1>2, <2>2
  <2>3. CASE ~(j < i) /\ k < i
    BY <1>1, <1>2, <2>3
  <2>4. CASE ~(j < i) /\ ~(k < i)
    <3>1. q[j + 1] = q[k + 1] /\ j + 1 \in DOMAIN q /\ k + 1 \in DOMAIN q
      BY <1>1, <1>2, <2>4
    <3>2. j + 1 = k + 1
      BY <3>1
    <3> QED
      BY <1>1, <3>2
  <2> QED
    BY <2>1, <2>2, <2>3, <2>4
<1>3. ASSUME NEW j \in DOMAIN r
      PROVE  r[j] \in { q[k] : k \in DOMAIN q } \ {q[i]}
  <2>1. CASE j < i
    BY <1>1, <2>1
  <2>2. CASE ~(j < i)
    <3>1. r[j] = q[j + 1] /\ j + 1 \in DOMAIN q /\ j + 1 # i
      BY <1>1, <2>2
    <3> QED
      BY <3>1
  <2> QED
    BY <2>1, <2>2
<1>4. ASSUME NEW k \in DOMAIN q, q[k] # q[i]
      PROVE  q[k] \in { r[j] : j \in DOMAIN r }
  <2>1. CASE k < i
    BY <1>1, <2>1
  <2>2. CASE ~(k < i)
    <3>1. k # i
      BY <1>4
    <3>2. k - 1 \in DOMAIN r /\ r[k - 1] = q[k]
      BY <1>1, <2>2, <3>1
    <3> QED
      BY <3>2
  <2> QED
    BY <2>1, <2>2
<1> QED
  BY <1>2, <1>3, <1>4 DEF r

(* What is left of a queue of distinct elements when its head is taken. *)
LEMMA TailLeaves ==
  ASSUME NEW S, NEW q \in Seq(S), q # << >>,
         \A j, k \in DOMAIN q : q[j] = q[k] => j = k
  PROVE  /\ Head(q) \in S /\ Tail(q) \in Seq(S)
         /\ Head(q) \in { q[j] : j \in DOMAIN q }
         /\ { Tail(q)[j] : j \in DOMAIN Tail(q) } = { q[j] : j \in DOMAIN q } \ {Head(q)}
         /\ \A j, k \in DOMAIN Tail(q) : Tail(q)[j] = Tail(q)[k] => j = k
<1> DEFINE r == Tail(q)
<1>1. /\ Len(q) \in Nat \ {0} /\ DOMAIN q = 1..Len(q)
      /\ r \in Seq(S) /\ DOMAIN r = 1..(Len(q) - 1)
      /\ \A j \in 1..(Len(q) - 1) : r[j] = q[j + 1]
      /\ Head(q) = q[1] /\ q[1] \in S
  BY HeadTailProperties
<1> HIDE DEF r
<1>2. ASSUME NEW j \in DOMAIN r, NEW k \in DOMAIN r, r[j] = r[k]
      PROVE  j = k
  <2>1. j + 1 = k + 1
    BY <1>1, <1>2
  <2> QED
    BY <1>1, <2>1
<1>3. ASSUME NEW j \in DOMAIN r
      PROVE  r[j] \in { q[k] : k \in DOMAIN q } \ {q[1]}
  <2>1. r[j] = q[j + 1] /\ j + 1 \in DOMAIN q /\ 1 \in DOMAIN q /\ j + 1 # 1
    BY <1>1
  <2> QED
    BY <2>1
<1>4. ASSUME NEW k \in DOMAIN q, q[k] # q[1]
      PROVE  q[k] \in { r[j] : j \in DOMAIN r }
  <2>1. k - 1 \in DOMAIN r /\ r[k - 1] = q[k]
    BY <1>1, <1>4
  <2> QED
    BY <2>1
<1>5. q[1] \in { q[j] : j \in DOMAIN q }
  BY <1>1
<1> QED
  BY <1>1, <1>2, <1>3, <1>4, <1>5 DEF r

(* What joins a queue of distinct elements. *)
LEMMA AppendAdds ==
  ASSUME NEW S, NEW q \in Seq(S), NEW e \in S, e \notin { q[j] : j \in DOMAIN q },
         \A j, k \in DOMAIN q : q[j] = q[k] => j = k
  PROVE  /\ { Append(q, e)[j] : j \in DOMAIN Append(q, e) } = { q[j] : j \in DOMAIN q } \cup {e}
         /\ \A j, k \in DOMAIN Append(q, e) : Append(q, e)[j] = Append(q, e)[k] => j = k
<1> DEFINE r == Append(q, e)
<1>1. /\ Len(q) \in Nat /\ DOMAIN q = 1..Len(q)
      /\ r \in Seq(S) /\ DOMAIN r = 1..(Len(q) + 1)
      /\ \A j \in 1..Len(q) : r[j] = q[j]
      /\ r[Len(q) + 1] = e
  OBVIOUS
<1> HIDE DEF r
<1>2. \A j \in DOMAIN r : j \in DOMAIN q \/ j = Len(q) + 1
  BY <1>1
<1>3. \A j, k \in DOMAIN r : r[j] = r[k] => j = k
  BY <1>1, <1>2
<1>4. { r[j] : j \in DOMAIN r } = { q[j] : j \in DOMAIN q } \cup {e}
  BY <1>1, <1>2
<1> QED
  BY <1>1, <1>3, <1>4 DEF r

-----------------------------------------------------------------------------
(* The semaphore. *)

LEMMA HoldersFinite == IsFiniteSet(Holders) /\ Cardinality(Holders) \in Nat
<1>1. Holders \in SUBSET Call
  BY DEF Holders
<1> QED
  BY <1>1, AdapterAssumption, FS_Subset, FS_CardinalityType

(* What the invariants of the semaphore speak of; kept by every step that   *)
(* moves no flight into, out of or past the queue and the slots.            *)
SemaphoreInv == SlotsAccounted /\ WaitersAreAlive

(* A flight goes to another await. *)
LEMMA FlightMoves ==
  ASSUME NEW f \in [Call -> Flight], NEW c \in Call, NEW pc \in Phase
  PROVE  LET g == [f EXCEPT ![c].pc = pc]
         IN  /\ g \in [Call -> Flight] /\ g[c].pc = pc
             /\ \A d \in Call : d # c => g[d] = f[d]
<1> DEFINE next == [f[c] EXCEPT !.pc = pc]
           g    == [f EXCEPT ![c] = next]
<1>1. f[c] \in Flight
  OBVIOUS
<1>2. next \in Flight /\ next.pc = pc
  BY <1>1 DEF Flight
<1> HIDE DEF next
<1>3. g \in [Call -> Flight] /\ g[c] = next /\ \A d \in Call : d # c => g[d] = f[d]
  BY <1>2
<1>4. g = [f EXCEPT ![c].pc = pc]
  BY DEF next
<1> QED
  BY <1>2, <1>3, <1>4

(* A slot is given back: it goes to the first waiter, or is free again.     *)
LEMMA ReleaseEffect ==
  ASSUME TypeOK, SemaphoreInv, NEW c \in Holders, NEW outcome \in {"ok", "failed"},
         Release(c, outcome), aborted' = aborted
  PROVE  /\ flights' \in [Call -> Flight]
         /\ \A d \in Call : flights'[d].pc = "sleeping" => flights'[d] = flights[d]
         /\ \A d \in Call : flights[d].pc = "none" => flights'[d].pc = "none"
         /\ active' \in Nat
         /\ waiters' \in Seq(Call)
         /\ SemaphoreInv'
         /\ IF waiters = << >>
            THEN Holders' = Holders \ {c} /\ waiters' = waiters
            ELSE Holders' = (Holders \ {c}) \cup {Head(waiters)} /\ waiters' = Tail(waiters)
<1> DEFINE Queued == { d \in Call : At(d, "queued") }
<1>1. /\ flights \in [Call -> Flight] /\ active \in Nat /\ waiters \in Seq(Call)
      /\ c \in Call /\ Concurrency \in Nat \ {0}
      /\ flights[c].pc \in {"admitted", "calling", "sleeping", "succeeding", "failing"}
  BY AdapterAssumption DEF TypeOK, Holders
<1>2. /\ active = Cardinality(Holders) /\ active <= Concurrency
      /\ waiters # << >> => active = Concurrency
      /\ { waiters[i] : i \in DOMAIN waiters } = Queued
      /\ \A i, j \in DOMAIN waiters : waiters[i] = waiters[j] => i = j
      /\ \A d \in aborted : ~At(d, "queued")
  BY DEF SemaphoreInv, SlotsAccounted, WaitersAreAlive
<1>3. CASE waiters = << >>
  <2>1. /\ flights' = [flights EXCEPT ![c].pc = outcome]
        /\ active' = active - 1 /\ waiters' = waiters
    BY <1>3 DEF Release, Go
  <2>2. flights' \in [Call -> Flight]
    <3>1. outcome \in Phase
      BY DEF Phase
    <3> QED
      BY <1>1, <2>1, <3>1, FlightMoves
  <2>3. \A d \in Call : flights'[d].pc = IF d = c THEN outcome ELSE flights[d].pc
    BY <1>1, <2>1 DEF Flight
  <2>4. \A d \in Call : d # c => flights'[d] = flights[d]
    BY <1>1, <2>1
  <2>5. Holders' = Holders \ {c}
    BY <1>1, <2>3 DEF Holders
  <2>6. Cardinality(Holders') = active - 1 /\ active - 1 \in Nat
    <3>1. IsFiniteSet(Holders \ {c}) /\ Cardinality(Holders \ {c}) = active - 1
      BY <1>2, HoldersFinite, FS_RemoveElement
    <3>2. Cardinality(Holders \ {c}) \in Nat
      BY <3>1, FS_CardinalityType
    <3> QED
      BY <2>5, <3>1, <3>2
  <2>7. SlotsAccounted'
    BY <1>1, <1>2, <1>3, <2>1, <2>6 DEF SlotsAccounted
  <2>8. { d \in Call : flights'[d].pc = "queued" } = Queued
    BY <1>1, <2>3 DEF At
  <2>9. WaitersAreAlive'
    BY <1>1, <1>2, <2>1, <2>3, <2>8 DEF WaitersAreAlive, At, TypeOK
  <2> QED
    BY <1>1, <1>3, <2>1, <2>2, <2>3, <2>4, <2>5, <2>6, <2>7, <2>9 DEF SemaphoreInv
<1>4. CASE waiters # << >>
  <2> DEFINE h == Head(waiters)
  <2>1. /\ flights' = [flights EXCEPT ![c].pc = outcome, ![h].pc = "admitted"]
        /\ active' = active /\ waiters' = Tail(waiters)
    BY <1>4 DEF Release
  <2>2. /\ h \in Call /\ Tail(waiters) \in Seq(Call)
        /\ h \in { waiters[i] : i \in DOMAIN waiters }
        /\ { waiters'[i] : i \in DOMAIN waiters' } = { waiters[i] : i \in DOMAIN waiters } \ {h}
        /\ \A i, j \in DOMAIN waiters' : waiters'[i] = waiters'[j] => i = j
    <3> DEFINE r == Tail(waiters)
    <3>1. /\ h \in Call /\ r \in Seq(Call)
          /\ h \in { waiters[i] : i \in DOMAIN waiters }
          /\ { r[i] : i \in DOMAIN r } = { waiters[i] : i \in DOMAIN waiters } \ {h}
          /\ \A i, j \in DOMAIN r : r[i] = r[j] => i = j
      BY <1>1, <1>2, <1>4, TailLeaves, Zenon
    <3>2. waiters' = r
      BY <2>1
    <3> HIDE DEF r, h
    <3> QED
      BY <3>1, <3>2, Zenon DEF r
  <2>3. h \in Queued /\ h # c /\ h \notin Holders /\ h \notin aborted
    BY <1>1, <1>2, <2>2 DEF At, Holders
  <2> HIDE DEF h
  <2>4. flights' \in [Call -> Flight]
    <3> DEFINE f == [flights EXCEPT ![c].pc = outcome]
    <3>a. outcome \in Phase /\ "admitted" \in Phase
      BY DEF Phase
    <3>1. f \in [Call -> Flight]
      BY <1>1, <3>a, FlightMoves
    <3>2. flights' = [f EXCEPT ![h].pc = "admitted"]
      BY <2>1
    <3> HIDE DEF f
    <3> QED
      BY <2>2, <3>a, <3>1, <3>2, FlightMoves
  <2>5. \A d \in Call : flights'[d].pc = IF d = h THEN "admitted"
                                         ELSE IF d = c THEN outcome ELSE flights[d].pc
    <3> DEFINE f == [flights EXCEPT ![c].pc = outcome]
    <3>1. f \in [Call -> Flight]
      BY <1>1 DEF Flight, Phase
    <3>2. \A d \in Call : f[d].pc = IF d = c THEN outcome ELSE flights[d].pc
      BY <1>1 DEF Flight
    <3>3. flights' = [f EXCEPT ![h].pc = "admitted"]
      BY <2>1
    <3> HIDE DEF f
    <3>4. \A d \in Call : flights'[d].pc = IF d = h THEN "admitted" ELSE f[d].pc
      BY <2>2, <3>1, <3>3 DEF Flight
    <3> QED
      BY <3>2, <3>4
  <2>6. \A d \in Call : d # c /\ d # h => flights'[d] = flights[d]
    BY <1>1, <2>1, <2>2
  <2>7. Holders' = (Holders \ {c}) \cup {h}
    BY <1>1, <2>2, <2>3, <2>5 DEF Holders
  <2>8. Cardinality(Holders') = active
    <3>1. IsFiniteSet(Holders \ {c}) /\ Cardinality(Holders \ {c}) = active - 1
      BY <1>2, HoldersFinite, FS_RemoveElement
    <3>2. h \notin Holders \ {c}
      BY <2>3
    <3>3. Cardinality((Holders \ {c}) \cup {h}) = Cardinality(Holders \ {c}) + 1
      BY <3>1, <3>2, FS_AddElement
    <3> QED
      BY <1>1, <2>7, <3>1, <3>3
  <2>9. SlotsAccounted'
    BY <1>2, <1>4, <2>1, <2>8 DEF SlotsAccounted
  <2>10. { d \in Call : flights'[d].pc = "queued" } = Queued \ {h}
    BY <1>1, <2>3, <2>5 DEF At
  <2>11. WaitersAreAlive'
    BY <1>1, <1>2, <2>2, <2>5, <2>10 DEF WaitersAreAlive, At, TypeOK
  <2>12. flights[h].pc # "none" /\ flights[c].pc # "none"
    BY <1>1, <2>3 DEF At
  <2>13. \A d \in Call : flights[d].pc = "none" => flights'[d].pc = "none"
    BY <2>5, <2>12
  <2> QED
    BY <1>1, <1>4, <2>1, <2>2, <2>4, <2>5, <2>6, <2>7, <2>9, <2>11, <2>13 DEF SemaphoreInv, h
<1> QED
  BY <1>3, <1>4

(* A step that moves no flight into or out of the queue and the slots.      *)
LEMMA UnmovedEffect ==
  ASSUME TypeOK, SemaphoreInv,
         active' = active, waiters' = waiters, aborted' = aborted,
         \A d \in Call : (d \in Holders') <=> (d \in Holders),
         \A d \in Call : (flights'[d].pc = "queued") <=> (flights[d].pc = "queued")
  PROVE  SemaphoreInv' /\ Holders' = Holders
<1>1. Holders' = Holders
  <2>1. Holders' \subseteq Call /\ Holders \subseteq Call
    BY DEF Holders
  <2> QED
    BY <2>1, Zenon
<1>2. { d \in Call : flights'[d].pc = "queued" } = { d \in Call : flights[d].pc = "queued" }
  BY Zenon
<1>3. SlotsAccounted'
  BY <1>1 DEF SemaphoreInv, SlotsAccounted
<1>4. WaitersAreAlive'
  BY <1>2 DEF SemaphoreInv, WaitersAreAlive, At, TypeOK
<1> QED
  BY <1>1, <1>3, <1>4 DEF SemaphoreInv

-----------------------------------------------------------------------------
(* Types. *)

LEMMA WithoutType ==
  ASSUME NEW q \in Seq(CacheEntry), NEW k
  PROVE  Without(q, k) \in Seq(CacheEntry)
<1> DEFINE at == { i \in DOMAIN q : q[i].key = k }
<1>1. CASE at = {}
  BY <1>1 DEF Without
<1>2. CASE at # {}
  <2>1. (CHOOSE i \in at : TRUE) \in DOMAIN q
    BY <1>2
  <2>2. Splice(q, CHOOSE i \in at : TRUE) \in Seq(CacheEntry)
    BY <2>1, SpliceType, Zenon
  <2> QED
    BY <1>2, <2>2 DEF Without
<1> QED
  BY <1>1, <1>2

LEMMA TrimType ==
  ASSUME NEW q \in Seq(CacheEntry)
  PROVE  Trim(q) \in Seq(CacheEntry)
<1>1. CacheMax \in Nat
  BY AdapterAssumption
<1>2. CASE Len(q) <= CacheMax
  BY <1>2 DEF Trim
<1>3. CASE ~(Len(q) <= CacheMax)
  <2>1. \A i \in (Len(q) - CacheMax + 1)..Len(q) : q[i] \in CacheEntry
    BY <1>1, <1>3
  <2>2. SubSeq(q, Len(q) - CacheMax + 1, Len(q)) \in Seq(CacheEntry)
    BY <1>1, <1>3, <2>1, SubSeqProperties
  <2> QED
    BY <1>3, <2>2 DEF Trim
<1> QED
  BY <1>2, <1>3

LEMMA BreakerType ==
  ASSUME TypeOK
  PROVE  AfterSuccess \in Breaker /\ AfterFailure \in Breaker
<1>1. breaker \in Breaker /\ now \in Nat
  BY DEF TypeOK
<1>2. AfterSuccess \in Breaker
  <2> DEFINE b1 == [breaker EXCEPT !.state = "closed"]
             b2 == [b1 EXCEPT !.successes = 0]
             b3 == [b2 EXCEPT !.failures = 0]
  <2>1. b1 \in Breaker
    BY <1>1 DEF Breaker
  <2> HIDE DEF b1
  <2>2. b2 \in Breaker
    BY <2>1 DEF Breaker
  <2> HIDE DEF b2
  <2>3. b3 \in Breaker
    BY <2>2 DEF Breaker
  <2>4. [breaker EXCEPT !.successes = @ + 1] \in Breaker
    BY <1>1 DEF Breaker
  <2>5. AfterSuccess \in {breaker, b3, [breaker EXCEPT !.successes = @ + 1]}
    BY DEF AfterSuccess, b1, b2
  <2> QED
    BY <1>1, <2>3, <2>4, <2>5
<1>3. \A b \in Breaker : Opened(b) \in Breaker
  BY <1>1 DEF Opened, Breaker
<1>4. [breaker EXCEPT !.failures = @ + 1] \in Breaker
  BY <1>1 DEF Breaker
<1>5. AfterFailure \in Breaker
  BY <1>1, <1>3, <1>4 DEF AfterFailure
<1> QED
  BY <1>2, <1>5

LEMMA InitTypeOK == Init => TypeOK
<1> SUFFICES ASSUME Init PROVE TypeOK
  OBVIOUS
<1>1. flights \in [Call -> Flight] /\ \A c \in Call : flights[c].pc = "none"
  BY AdapterAssumption DEF Init, NoFlight, Flight, Phase
<1>2. breaker \in Breaker
  BY DEF Init, Breaker
<1> QED
  BY <1>1, <1>2 DEF Init, TypeOK

LEMMA CallHitsType ==
  ASSUME TypeOK, NEW c \in Call, NEW k \in Key, CallHits(c, k)
  PROVE  TypeOK'
<1>1. PICK i \in Hits(k) : /\ shares' = [shares EXCEPT ![c] = cache[i].flight]
                           /\ cache' = Append(Without(cache, k), cache[i])
  BY DEF CallHits
<1>2. cache[i] \in CacheEntry
  BY <1>1 DEF Hits, TypeOK
<1>3. /\ shares' \in [Call -> Call \cup {NoCall}]
      /\ \A d \in Call : shares'[d] = NoCall => flights'[d].pc = "none"
  <2>1. cache[i].flight \in Call /\ flights' = flights
    BY <1>2 DEF CacheEntry, CallHits
  <2> QED
    BY <1>1, <2>1, AdapterAssumption DEF TypeOK
<1>4. cache' \in Seq(CacheEntry)
  <2>1. Without(cache, k) \in Seq(CacheEntry)
    BY WithoutType DEF TypeOK
  <2> QED
    BY <1>1, <1>2, <2>1
<1> QED
  BY <1>3, <1>4 DEF CallHits, TypeOK

LEMMA CallMissesType ==
  ASSUME TypeOK, NEW c \in Call, NEW k \in Key, CallMisses(c, k)
  PROVE  TypeOK'
<1> DEFINE flight(phase) == [NoFlight EXCEPT !.pc = phase, !.key = k, !.startedAt = now]
           entry == [key |-> k, flight |-> c, expiresAt |-> now + Ttl]
<1>1. /\ now \in Nat /\ Ttl \in Nat /\ active \in Nat
      /\ MaxTries \in Nat \ {0} /\ flights \in [Call -> Flight]
  BY AdapterAssumption DEF TypeOK
<1>2. \A phase \in {"admitted", "failed", "queued"} :
        flight(phase) \in Flight /\ flight(phase).pc # "sleeping"
  <2> TAKE phase \in {"admitted", "failed", "queued"}
  <2> DEFINE f1 == [NoFlight EXCEPT !.pc = phase]
             f2 == [f1 EXCEPT !.key = k]
             f3 == [f2 EXCEPT !.startedAt = now]
  <2>0. NoFlight \in Flight
    BY <1>1 DEF NoFlight, Flight, Phase
  <2>1. f1 \in Flight /\ f1.pc = phase
    BY <2>0 DEF Flight, Phase
  <2> HIDE DEF f1
  <2>2. f2 \in Flight /\ f2.pc = phase
    BY <2>1 DEF Flight
  <2> HIDE DEF f2
  <2>3. f3 \in Flight /\ f3.pc = phase
    BY <1>1, <2>2 DEF Flight
  <2>4. f3 = flight(phase)
    BY DEF f1, f2
  <2> QED
    BY <2>3, <2>4
<1>3. cache' \in Seq(CacheEntry)
  <2>1. entry \in CacheEntry
    BY <1>1 DEF CacheEntry
  <2>2. Without(cache, k) \in Seq(CacheEntry)
    BY WithoutType DEF TypeOK
  <2>3. Append(Without(cache, k), entry) \in Seq(CacheEntry)
    BY <2>1, <2>2
  <2>4. Trim(Append(Without(cache, k), entry)) \in Seq(CacheEntry)
    BY <2>3, TrimType
  <2> QED
    BY <2>4 DEF CallMisses, Acquire, TypeOK
<1> HIDE DEF flight
<1>4. \E phase \in {"admitted", "failed", "queued"} :
        flights' = [flights EXCEPT ![c] = flight(phase)]
  BY DEF CallMisses, Acquire, flight
<1>5. /\ flights' \in [Call -> Flight]
      /\ \A d \in Call : flights'[d].pc = "sleeping" => flights'[d].tries < MaxTries
      /\ \A d \in Call : shares'[d] = NoCall => flights'[d].pc = "none"
  <2>1. shares' = [shares EXCEPT ![c] = c] /\ NoCall # c
    BY AdapterAssumption DEF CallMisses, Acquire
  <2>2. \A d \in Call : shares'[d] = NoCall => d # c /\ shares[d] = NoCall
    BY <2>1 DEF TypeOK
  <2> QED
    BY <1>1, <1>2, <1>4, <2>2 DEF TypeOK
<1>6. shares' \in [Call -> Call \cup {NoCall}]
  BY DEF CallMisses, Acquire, TypeOK
<1>7. active' \in Nat /\ waiters' \in Seq(Call) /\ evicting' \subseteq Call
  <2>1. active' \in Nat
    BY <1>1 DEF CallMisses, Acquire
  <2>2. waiters' = waiters \/ waiters' = Append(waiters, c)
    BY DEF CallMisses, Acquire
  <2>3. waiters' \in Seq(Call)
    BY <2>2 DEF TypeOK
  <2>4. evicting' = evicting \/ evicting' = evicting \cup {c}
    BY DEF CallMisses, Acquire, Evicted
  <2> QED
    BY <2>1, <2>3, <2>4 DEF TypeOK
<1> QED
  BY <1>3, <1>5, <1>6, <1>7 DEF CallMisses, Acquire, TypeOK

LEMMA EvictType ==
  ASSUME TypeOK, NEW c \in Call, Evict(c)
  PROVE  TypeOK'
<1>1. cache' \in Seq(CacheEntry)
  BY WithoutType DEF Evict, TypeOK
<1> QED
  BY <1>1 DEF Evict, TypeOK

(* A flight that is ended where it waits. *)
LEMMA WakesType ==
  ASSUME TypeOK, NEW c \in Call, NEW pc \in {"failed", "failing"},
         flights' = [flights EXCEPT ![c].pc = pc]
  PROVE  /\ flights' \in [Call -> Flight]
         /\ \A d \in Call : flights'[d].pc = "sleeping" => flights'[d].tries < MaxTries
<1>1. /\ flights \in [Call -> Flight]
      /\ \A d \in Call : flights[d].pc = "sleeping" => flights[d].tries < MaxTries
  BY DEF TypeOK
<1>2. pc \in Phase
  BY DEF Phase
<1>3. /\ flights' \in [Call -> Flight] /\ flights'[c].pc = pc
      /\ \A d \in Call : d # c => flights'[d] = flights[d]
  BY <1>1, <1>2, FlightMoves
<1> QED
  BY <1>1, <1>3

LEMMA AbortType ==
  ASSUME TypeOK, NEW c \in Call, Abort(c)
  PROVE  TypeOK'
<1>1. CASE At(c, "queued")
  <2>1. flights' = [flights EXCEPT ![c].pc = "failed"]
    BY <1>1 DEF Abort, GiveUp, Go, At
  <2>2. PICK i \in DOMAIN waiters : waiters' = Splice(waiters, i)
    BY <1>1 DEF Abort, GiveUp, At
  <2>3. waiters' \in Seq(Call)
    BY <2>2, SpliceType DEF TypeOK
  <2>4. /\ flights' \in [Call -> Flight]
        /\ \A d \in Call : flights'[d].pc = "sleeping" => flights'[d].tries < MaxTries
    BY <2>1, WakesType
  <2>6. \A d \in Call : shares[d] = NoCall => flights'[d].pc = "none"
    BY <1>1, <2>1 DEF At, TypeOK
  <2>5. evicting' \subseteq Call
    BY <1>1 DEF Abort, GiveUp, At, Evicted, TypeOK
  <2> QED
    BY <2>3, <2>4, <2>5, <2>6 DEF Abort, GiveUp, TypeOK
<1>2. CASE At(c, "sleeping")
  <2>1. flights' = [flights EXCEPT ![c].pc = "failing"] /\ UNCHANGED <<waiters, evicting>>
    BY <1>2 DEF Abort, GiveUp, Go, At
  <2>2. /\ flights' \in [Call -> Flight]
        /\ \A d \in Call : flights'[d].pc = "sleeping" => flights'[d].tries < MaxTries
    BY <2>1, WakesType
  <2>3. \A d \in Call : shares[d] = NoCall => flights'[d].pc = "none"
    BY <1>2, <2>1 DEF At, TypeOK
  <2> QED
    BY <2>1, <2>2, <2>3 DEF Abort, GiveUp, TypeOK
<1>3. CASE ~At(c, "queued") /\ ~At(c, "sleeping")
  BY <1>3 DEF Abort, GiveUp, TypeOK
<1> QED
  BY <1>1, <1>2, <1>3

(* The steps that give a slot back. *)
LEMMA ReleaseType ==
  ASSUME TypeOK, SemaphoreInv, NEW c \in Holders, NEW outcome \in {"ok", "failed"},
         Release(c, outcome), breaker' \in Breaker, evicting' \subseteq Call,
         UNCHANGED <<now, shares, aborted, cache>>
  PROVE  TypeOK'
BY ReleaseEffect DEF TypeOK

LEMMA EnterType ==
  ASSUME TypeOK, SemaphoreInv, NEW c \in Call, Enter(c)
  PROVE  TypeOK'
<1>1. c \in Holders
  BY DEF Enter, At, Holders
<1>2. CASE FailsFast
  <2>1. Release(c, "failed") /\ Evicted({c}) /\ breaker' = breaker
    BY <1>2 DEF Enter
  <2>2. evicting' \subseteq Call /\ breaker' \in Breaker
    BY <2>1 DEF Evicted, TypeOK
  <2> QED
    BY <1>1, <2>1, <2>2, ReleaseType DEF Enter
<1>3. CASE ~FailsFast
  <2>1. breaker' \in Breaker
    BY <1>3 DEF Enter, TypeOK, Breaker
  <2>2. /\ flights' \in [Call -> Flight]
        /\ \A d \in Call : flights'[d].pc = "sleeping" => flights'[d].tries < MaxTries
    <3> DEFINE p == (breaker'.state = "half-open")
    <3>1. flights' = [flights EXCEPT ![c].pc = "calling", ![c].tries = 1, ![c].probe = p]
      BY <1>3 DEF Enter
    <3>2. p \in BOOLEAN /\ 1 \in 0..MaxTries
      BY AdapterAssumption
    <3> HIDE DEF p
    <3>3. flights[c] \in Flight
      BY DEF TypeOK
    <3>4. /\ [flights[c] EXCEPT !.pc = "calling", !.tries = 1, !.probe = p] \in Flight
          /\ [flights[c] EXCEPT !.pc = "calling", !.tries = 1, !.probe = p].pc = "calling"
      BY <3>2, <3>3 DEF Flight, Phase
    <3>5. flights' = [flights EXCEPT ![c] = [flights[c] EXCEPT !.pc = "calling", !.tries = 1,
                                                              !.probe = p]]
      BY <3>1 DEF TypeOK
    <3> QED
      BY <3>4, <3>5 DEF TypeOK
  <2>3. \A d \in Call : shares[d] = NoCall => flights'[d].pc = "none"
    BY <1>3 DEF Enter, At, TypeOK
  <2> QED
    BY <1>3, <2>1, <2>2, <2>3 DEF Enter, TypeOK
<1> QED
  BY <1>2, <1>3

LEMMA LeaveType ==
  ASSUME TypeOK, SemaphoreInv, NEW c \in Call, LeaveOk(c) \/ LeaveFailed(c)
  PROVE  TypeOK'
<1>1. c \in Holders
  BY DEF LeaveOk, LeaveFailed, At, Holders
<1>2. CASE LeaveOk(c)
  <2>1. breaker' \in Breaker /\ evicting' \subseteq Call
    BY <1>2, BreakerType DEF LeaveOk, TypeOK
  <2> QED
    BY <1>1, <1>2, <2>1, ReleaseType DEF LeaveOk
<1>3. CASE LeaveFailed(c)
  <2>1. breaker' \in Breaker /\ evicting' \subseteq Call
    BY <1>3, BreakerType DEF LeaveFailed, Evicted, TypeOK
  <2> QED
    BY <1>1, <1>3, <2>1, ReleaseType DEF LeaveFailed
<1> QED
  BY <1>2, <1>3

LEMMA MethodType ==
  ASSUME TypeOK, NEW c \in Call, MethodSucceeds(c) \/ MethodFails(c)
  PROVE  TypeOK'
<1>1. /\ flights \in [Call -> Flight] /\ now \in Nat /\ flights[c].tries \in 0..MaxTries
      /\ Backoff \in Nat /\ MaxTries \in Nat \ {0}
      /\ \A d \in Call : flights[d].pc = "sleeping" => flights[d].tries < MaxTries
  BY AdapterAssumption DEF TypeOK, Flight
<1>2. SUFFICES /\ flights' \in [Call -> Flight]
               /\ \A d \in Call : flights'[d].pc = "sleeping" => flights'[d].tries < MaxTries
  <2>1. \A d \in Call : d # c => flights'[d] = flights[d]
    BY <1>1 DEF MethodSucceeds, MethodFails, Go
  <2>2. flights[c].pc # "none"
    BY DEF MethodSucceeds, MethodFails, At
  <2> QED
    BY <2>1, <2>2 DEF MethodSucceeds, MethodFails, TypeOK
<1>3. CASE \E phase \in {"succeeding", "failing"} : Go(c, phase)
  BY <1>1, <1>3 DEF Go, Flight, Phase
<1>4. CASE /\ flights[c].pc = "calling" /\ flights[c].tries < MaxTries
           /\ flights' = [flights EXCEPT ![c].tries = @ + 1]
  BY <1>1, <1>4 DEF Flight
<1>5. CASE /\ flights[c].tries < MaxTries
           /\ \E t \in Int : flights' = [flights EXCEPT ![c].pc = "sleeping", ![c].wakeAt = t]
  <2>1. PICK t \in Int : flights' = [flights EXCEPT ![c].pc = "sleeping", ![c].wakeAt = t]
    BY <1>5
  <2> DEFINE f == [flights[c] EXCEPT !.pc = "sleeping"]
             g == [f EXCEPT !.wakeAt = t]
  <2>2. f \in Flight /\ f.tries = flights[c].tries
    BY <1>1 DEF Flight, Phase
  <2>3. flights' = [flights EXCEPT ![c] = g]
    BY <1>1, <2>1
  <2> HIDE DEF f
  <2>4. g \in Flight /\ g.tries = flights[c].tries
    BY <2>2 DEF Flight
  <2> HIDE DEF g
  <2> QED
    BY <1>1, <1>5, <2>3, <2>4
<1>6. ASSUME MethodFails(c)
      PROVE  \/ Go(c, "failing")
             \/ /\ flights[c].pc = "calling" /\ flights[c].tries < MaxTries
                /\ flights' = [flights EXCEPT ![c].tries = @ + 1]
             \/ /\ flights[c].tries < MaxTries
                /\ \E t \in Int : flights' = [flights EXCEPT ![c].pc = "sleeping",
                                                             ![c].wakeAt = t]
  <2>1. PICK jitter \in IF Jitter /\ Backoff > 0 THEN 0..(Backoff - 1) ELSE {0} :
          LET delay == Backoff * 2 ^ (flights[c].tries - 1) + jitter
          IN  \/ flights[c].tries = MaxTries /\ Go(c, "failing")
              \/ /\ flights[c].tries < MaxTries /\ delay = 0
                 /\ flights' = [flights EXCEPT ![c].tries = @ + 1]
              \/ flights[c].tries < MaxTries /\ delay > 0 /\ c \in aborted /\ Go(c, "failing")
              \/ /\ flights[c].tries < MaxTries /\ delay > 0 /\ c \notin aborted
                 /\ flights' = [flights EXCEPT ![c].pc = "sleeping", ![c].wakeAt = now + delay]
    BY <1>6 DEF MethodFails
  <2> DEFINE delay == Backoff * 2 ^ (flights[c].tries - 1) + jitter
  <2>2. now + delay \in Int
    BY <1>1, <2>1
  <2>3. flights[c].pc = "calling"
    BY <1>6 DEF MethodFails, At
  <2> HIDE DEF delay
  <2> QED
    BY <2>1, <2>2, <2>3 DEF delay
<1> QED
  BY <1>3, <1>4, <1>5, <1>6 DEF MethodSucceeds

LEMMA WakeType ==
  ASSUME TypeOK, NEW c \in Call, Wake(c)
  PROVE  TypeOK'
<1>1. /\ flights \in [Call -> Flight] /\ flights[c].tries < MaxTries
      /\ flights[c].tries \in 0..MaxTries /\ MaxTries \in Nat \ {0}
  BY AdapterAssumption DEF TypeOK, Wake, At, Flight
<1> DEFINE f == [flights[c] EXCEPT !.pc = "calling"]
           g == [f EXCEPT !.tries = flights[c].tries + 1]
<1>2. f \in Flight /\ f.pc = "calling"
  BY <1>1 DEF Flight, Phase
<1>3. flights' = [flights EXCEPT ![c] = g]
  BY <1>1 DEF Wake
<1> HIDE DEF f
<1>4. g \in Flight /\ g.pc = "calling"
  BY <1>1, <1>2 DEF Flight
<1> HIDE DEF g
<1>5. \A d \in Call : shares[d] = NoCall => flights'[d].pc = "none"
  BY <1>1, <1>3 DEF Wake, At, TypeOK
<1> QED
  BY <1>1, <1>3, <1>4, <1>5 DEF Wake, TypeOK

-----------------------------------------------------------------------------
(* What each step does to the slots and the queue. *)

(* The instance of the abstract semaphore counts as this module does.       *)
LEMMA SameCardinality ==
  ASSUME NEW S
  PROVE  Semaphore!Cardinality(S) = Cardinality(S)
BY DEF Semaphore!Cardinality, Cardinality

(* A call arrives: it takes a slot, waits, or fails at once.                *)
LEMMA CallMissesSlots ==
  ASSUME TypeOK, SemaphoreInv, NEW c \in Call, NEW k \in Key, CallMisses(c, k)
  PROVE  /\ SemaphoreInv'
         /\ \/ Semaphore!Enter(c) \/ Semaphore!Wait(c)
            \/ UNCHANGED <<Holders, waiters>>
<1> DEFINE flight(phase) == [NoFlight EXCEPT !.pc = phase, !.key = k, !.startedAt = now]
           Queued == { d \in Call : flights[d].pc = "queued" }
<1>1. /\ active \in Nat /\ Concurrency \in Nat /\ waiters \in Seq(Call)
      /\ flights \in [Call -> Flight] /\ c \notin Holders /\ c \notin Queued
      /\ aborted' = aborted /\ aborted \subseteq Call
  BY AdapterAssumption DEF TypeOK, Holders, CallMisses, Acquire, At
<1>2. /\ active = Cardinality(Holders) /\ active <= Concurrency
      /\ waiters # << >> => active = Concurrency
      /\ { waiters[i] : i \in DOMAIN waiters } = Queued
      /\ \A i, j \in DOMAIN waiters : waiters[i] = waiters[j] => i = j
      /\ \A d \in aborted : d \notin Queued
  BY DEF SemaphoreInv, SlotsAccounted, WaitersAreAlive, At, TypeOK
<1>3. \A phase \in Phase : flight(phase).pc = phase
  BY DEF NoFlight
<1> HIDE DEF flight
<1>4. CASE active < Concurrency /\ active' = active + 1 /\ waiters' = waiters
           /\ flights' = [flights EXCEPT ![c] = flight("admitted")]
  <2>1. \A d \in Call : flights'[d].pc = IF d = c THEN "admitted" ELSE flights[d].pc
    BY <1>1, <1>3, <1>4 DEF Phase
  <2>2. Holders' = Holders \cup {c}
    BY <2>1 DEF Holders
  <2>3. Cardinality(Holders') = active + 1
    BY <1>1, <1>2, <2>2, HoldersFinite, FS_AddElement
  <2>4. waiters = << >>
    BY <1>1, <1>2, <1>4
  <2>5. { d \in Call : flights'[d].pc = "queued" } = Queued
    BY <1>1, <2>1
  <2>6. SlotsAccounted'
    BY <1>1, <1>4, <2>3, <2>4 DEF SlotsAccounted
  <2>7. WaitersAreAlive'
    BY <1>1, <1>2, <1>4, <2>1, <2>5 DEF WaitersAreAlive, At
  <2>8. Semaphore!Enter(c)
    <3>1. Cardinality(Holders) < Concurrency
      BY <1>1, <1>2, <1>4
    <3> QED
      BY <1>1, <1>4, <2>2, <2>4, <3>1, SameCardinality DEF Semaphore!Enter
  <2> QED
    BY <2>6, <2>7, <2>8 DEF SemaphoreInv
<1>5. CASE active >= Concurrency /\ active' = active /\ waiters' = waiters
           /\ flights' = [flights EXCEPT ![c] = flight("failed")]
  <2>1. \A d \in Call : flights'[d].pc = IF d = c THEN "failed" ELSE flights[d].pc
    BY <1>1, <1>3, <1>5 DEF Phase
  <2>2. \A d \in Call : (d \in Holders') <=> (d \in Holders)
    BY <1>1, <2>1 DEF Holders
  <2>3. \A d \in Call : (flights'[d].pc = "queued") <=> (flights[d].pc = "queued")
    BY <1>1, <2>1
  <2> QED
    BY <1>1, <1>5, <2>2, <2>3, UnmovedEffect
<1>6. CASE active >= Concurrency /\ c \notin aborted /\ active' = active
           /\ waiters' = Append(waiters, c)
           /\ flights' = [flights EXCEPT ![c] = flight("queued")]
  <2>1. \A d \in Call : flights'[d].pc = IF d = c THEN "queued" ELSE flights[d].pc
    BY <1>1, <1>3, <1>6 DEF Phase
  <2>2. Holders' = Holders
    BY <1>1, <2>1 DEF Holders
  <2>3. active = Concurrency
    BY <1>1, <1>2, <1>6
  <2>4. SlotsAccounted'
    BY <1>2, <1>6, <2>2, <2>3 DEF SlotsAccounted
  <2>5. { d \in Call : flights'[d].pc = "queued" } = Queued \cup {c}
    BY <1>1, <2>1
  <2>6. /\ { waiters'[i] : i \in DOMAIN waiters' } = Queued \cup {c}
        /\ \A i, j \in DOMAIN waiters' : waiters'[i] = waiters'[j] => i = j
    <3> DEFINE r == Append(waiters, c)
    <3>1. c \notin { waiters[j] : j \in DOMAIN waiters }
      BY <1>1, <1>2
    <3>2. /\ { r[j] : j \in DOMAIN r } = { waiters[j] : j \in DOMAIN waiters } \cup {c}
          /\ \A i, j \in DOMAIN r : r[i] = r[j] => i = j
      BY <1>1, <1>2, <3>1, AppendAdds, Zenon
    <3>3. waiters' = r
      BY <1>6
    <3> HIDE DEF r
    <3> QED
      BY <1>2, <3>2, <3>3
  <2>7. \A d \in aborted' : flights'[d].pc # "queued"
    BY <1>1, <1>2, <1>6, <2>1 DEF TypeOK
  <2>8. WaitersAreAlive'
    BY <2>5, <2>6, <2>7 DEF WaitersAreAlive, At
  <2>9. Semaphore!Wait(c)
    <3>1. c \notin { waiters[i] : i \in DOMAIN waiters }
      BY <1>1, <1>2
    <3>2. Cardinality(Holders) = Concurrency
      BY <1>2, <2>3
    <3> QED
      BY <1>1, <1>6, <2>2, <3>1, <3>2, SameCardinality DEF Semaphore!Wait, Semaphore!Waiting
  <2> QED
    BY <2>4, <2>8, <2>9 DEF SemaphoreInv
<1> QED
  BY <1>4, <1>5, <1>6 DEF CallMisses, Acquire, flight

(* The steps that move no flight. *)
LEMMA UnmovedSlots ==
  ASSUME TypeOK, SemaphoreInv, NEW c \in Call,
         \/ Evict(c) \/ ClockAdvances \/ \E k \in Key : CallHits(c, k)
         \/ MethodSucceeds(c) \/ MethodFails(c) \/ Wake(c)
         \/ (Enter(c) /\ ~FailsFast)
  PROVE  SemaphoreInv' /\ UNCHANGED <<Holders, waiters>>
<1>1. flights \in [Call -> Flight]
  BY DEF TypeOK
<1>2. active' = active /\ waiters' = waiters /\ aborted' = aborted
  BY DEF Evict, ClockAdvances, CallHits, MethodSucceeds, MethodFails, Wake, Enter
<1>3. CASE flights' = flights
  <2>1. Holders' = Holders
    BY <1>3 DEF Holders
  <2>2. \A d \in Call : (d \in Holders') <=> (d \in Holders)
    BY <2>1
  <2>3. \A d \in Call : (flights'[d].pc = "queued") <=> (flights[d].pc = "queued")
    BY <1>3
  <2> QED
    BY <1>2, <2>2, <2>3, UnmovedEffect
<1>4. CASE /\ c \in Holders
           /\ \A d \in Call : d # c => flights'[d] = flights[d]
           /\ flights'[c].pc \in {"calling", "sleeping", "succeeding", "failing"}
  <2>1. \A d \in Call : (d \in Holders') <=> (d \in Holders)
    BY <1>4 DEF Holders
  <2>2. \A d \in Call : (flights'[d].pc = "queued") <=> (flights[d].pc = "queued")
    BY <1>4 DEF Holders
  <2> QED
    BY <1>2, <2>1, <2>2, UnmovedEffect
<1>5. CASE Evict(c) \/ ClockAdvances \/ \E k \in Key : CallHits(c, k)
  BY <1>3, <1>5 DEF Evict, ClockAdvances, CallHits
<1>6. CASE MethodSucceeds(c) \/ MethodFails(c)
  <2>1. c \in Holders
    BY <1>6 DEF MethodSucceeds, MethodFails, At, Holders
  <2>2. \A d \in Call : d # c => flights'[d] = flights[d]
    BY <1>1, <1>6 DEF MethodSucceeds, MethodFails, Go
  <2>3. flights'[c].pc \in {"calling", "sleeping", "succeeding", "failing"}
    BY <1>1, <1>6 DEF MethodSucceeds, MethodFails, Go, At, Flight
  <2> QED
    BY <1>4, <2>1, <2>2, <2>3
<1>7. CASE Wake(c) \/ (Enter(c) /\ ~FailsFast)
  <2>1. c \in Holders
    BY <1>7 DEF Wake, Enter, At, Holders
  <2>2. \A d \in Call : d # c => flights'[d] = flights[d]
    BY <1>1, <1>7 DEF Wake, Enter
  <2>3. flights'[c].pc = "calling"
    BY <1>1, <1>7 DEF Wake, Enter, Flight
  <2> QED
    BY <1>4, <2>1, <2>2, <2>3
<1> QED
  BY <1>5, <1>6, <1>7

(* The steps that give a slot back. *)
LEMMA ReleaseSlots ==
  ASSUME TypeOK, SemaphoreInv, NEW c \in Call,
         (Enter(c) /\ FailsFast) \/ LeaveOk(c) \/ LeaveFailed(c)
  PROVE  SemaphoreInv' /\ Semaphore!Leave(c)
<1>1. c \in Holders
  BY DEF Enter, LeaveOk, LeaveFailed, At, Holders
<1>2. aborted' = aborted /\ \E outcome \in {"ok", "failed"} : Release(c, outcome)
  BY DEF Enter, LeaveOk, LeaveFailed
<1>3. /\ SemaphoreInv'
      /\ IF waiters = << >>
         THEN Holders' = Holders \ {c} /\ waiters' = waiters
         ELSE Holders' = (Holders \ {c}) \cup {Head(waiters)} /\ waiters' = Tail(waiters)
  BY <1>1, <1>2, ReleaseEffect
<1> QED
  BY <1>1, <1>3 DEF Semaphore!Leave

(* A signal is aborted. *)
LEMMA AbortSlots ==
  ASSUME TypeOK, SemaphoreInv, NEW c \in Call, Abort(c)
  PROVE  SemaphoreInv' /\ (Semaphore!GiveUp(c) \/ UNCHANGED <<Holders, waiters>>)
<1> DEFINE Queued == { d \in Call : flights[d].pc = "queued" }
<1>1. /\ flights \in [Call -> Flight] /\ waiters \in Seq(Call) /\ active' = active
      /\ aborted' = aborted \cup {c} /\ aborted \subseteq Call
  BY DEF TypeOK, Abort, GiveUp
<1>2. /\ active = Cardinality(Holders) /\ active <= Concurrency
      /\ waiters # << >> => active = Concurrency
      /\ { waiters[i] : i \in DOMAIN waiters } = Queued
      /\ \A i, j \in DOMAIN waiters : waiters[i] = waiters[j] => i = j
      /\ \A d \in aborted : flights[d].pc # "queued"
  BY DEF SemaphoreInv, SlotsAccounted, WaitersAreAlive, At
<1>3. CASE flights[c].pc = "queued"
  <2>1. flights' = [flights EXCEPT ![c].pc = "failed"]
    BY <1>3 DEF Abort, GiveUp, Go, At
  <2>2. PICK i \in DOMAIN waiters : waiters[i] = c /\ waiters' = Splice(waiters, i)
    BY <1>3 DEF Abort, GiveUp, At
  <2>3. \A d \in Call : flights'[d].pc = IF d = c THEN "failed" ELSE flights[d].pc
    BY <1>1, <2>1 DEF Flight
  <2>4. Holders' = Holders
    BY <1>3, <2>3 DEF Holders
  <2>5. waiters # << >>
    BY <2>2
  <2>6. SlotsAccounted'
    BY <1>1, <1>2, <2>4, <2>5 DEF SlotsAccounted
  <2>7. /\ { Splice(waiters, i)[j] : j \in DOMAIN Splice(waiters, i) } = Queued \ {c}
        /\ \A j, k \in DOMAIN Splice(waiters, i) :
             Splice(waiters, i)[j] = Splice(waiters, i)[k] => j = k
    BY <1>1, <1>2, <2>2, SpliceLeaves
  <2>8. { d \in Call : flights'[d].pc = "queued" } = Queued \ {c}
    BY <1>3, <2>3
  <2>9. \A d \in aborted' : flights'[d].pc # "queued"
    BY <1>1, <1>2, <2>3
  <2>10. WaitersAreAlive'
    BY <2>2, <2>7, <2>8, <2>9 DEF WaitersAreAlive, At
  <2>11. Semaphore!GiveUp(c)
    BY <2>2, <2>4 DEF Semaphore!GiveUp, Splice
  <2> QED
    BY <2>6, <2>10, <2>11 DEF SemaphoreInv
<1>4. CASE flights[c].pc # "queued"
  <2>1. waiters' = waiters
    BY <1>4 DEF Abort, GiveUp, At
  <2>2. \/ flights' = flights
        \/ /\ flights[c].pc = "sleeping"
           /\ flights' = [flights EXCEPT ![c].pc = "failing"]
    BY <1>4 DEF Abort, GiveUp, At, Go
  <2>3. /\ \A d \in Call : (flights'[d].pc = "queued") <=> (flights[d].pc = "queued")
        /\ \A d \in Call : (d \in Holders') <=> (d \in Holders)
    BY <1>1, <2>2 DEF Flight, Holders
  <2>4. Holders' = Holders
    BY <2>3 DEF Holders
  <2>5. SlotsAccounted'
    BY <1>1, <1>2, <2>1, <2>4 DEF SlotsAccounted
  <2>6. { d \in Call : flights'[d].pc = "queued" } = Queued
    BY <2>3
  <2>7. \A d \in aborted' : flights'[d].pc # "queued"
    BY <1>1, <1>2, <1>4, <2>3
  <2>8. WaitersAreAlive'
    BY <1>2, <2>1, <2>6, <2>7 DEF WaitersAreAlive, At
  <2> QED
    BY <2>1, <2>4, <2>5, <2>8 DEF SemaphoreInv
<1> QED
  BY <1>3, <1>4

-----------------------------------------------------------------------------
(* The theorems. *)

LEMMA InitSemaphoreInv == Init => SemaphoreInv /\ Semaphore!Init
<1> SUFFICES ASSUME Init PROVE SemaphoreInv /\ Semaphore!Init
  OBVIOUS
<1>1. \A c \in Call : flights[c].pc = "none"
  BY DEF Init, NoFlight
<1>2. Holders = {} /\ { c \in Call : flights[c].pc = "queued" } = {}
  BY <1>1 DEF Holders
<1>3. Cardinality(Holders) = 0
  BY <1>2, FS_EmptySet
<1>4. SlotsAccounted
  BY <1>3, AdapterAssumption DEF Init, SlotsAccounted
<1>5. WaitersAreAlive
  BY <1>2 DEF Init, WaitersAreAlive, At
<1> QED
  BY <1>2, <1>4, <1>5 DEF Init, SemaphoreInv, Semaphore!Init

(* One step of the adapter keeps the invariant and is a step of the         *)
(* abstract semaphore, or none.                                             *)
LEMMA StepEffect ==
  ASSUME TypeOK, SemaphoreInv, [Next]_vars
  PROVE  TypeOK' /\ SemaphoreInv' /\ [Semaphore!Next]_<<Holders, waiters>>
<1>1. CASE UNCHANGED vars
  <2>1. TypeOK'
    BY <1>1 DEF vars, TypeOK
  <2>2. Holders' = Holders /\ waiters' = waiters
    BY <1>1 DEF vars, Holders
  <2>3. SemaphoreInv'
    BY <1>1, <2>2 DEF vars, SemaphoreInv, SlotsAccounted, WaitersAreAlive, At
  <2> QED
    BY <2>1, <2>2, <2>3
<1>2. CASE ClockAdvances
  <2>1. TypeOK'
    BY <1>2 DEF ClockAdvances, TypeOK
  <2>2. flights' = flights /\ active' = active /\ waiters' = waiters /\ aborted' = aborted
    BY <1>2 DEF ClockAdvances
  <2>3. SemaphoreInv' /\ Holders' = Holders
    BY <2>2, UnmovedEffect DEF Holders
  <2> QED
    BY <2>1, <2>2, <2>3
<1>3. ASSUME NEW c \in Call, CallStep(c)
      PROVE  TypeOK' /\ SemaphoreInv' /\ [Semaphore!Next]_<<Holders, waiters>>
  <2>1. ASSUME NEW k \in Key, CallMisses(c, k)
        PROVE  TypeOK' /\ SemaphoreInv' /\ [Semaphore!Next]_<<Holders, waiters>>
    BY <2>1, CallMissesType, CallMissesSlots DEF Semaphore!Next
  <2>2. ASSUME NEW k \in Key, CallHits(c, k)
        PROVE  TypeOK' /\ SemaphoreInv' /\ [Semaphore!Next]_<<Holders, waiters>>
    BY <2>2, CallHitsType, UnmovedSlots
  <2>3. CASE Abort(c)
    BY <2>3, AbortType, AbortSlots DEF Semaphore!Next
  <2>4. CASE Evict(c)
    BY <2>4, EvictType, UnmovedSlots
  <2>5. CASE Enter(c)
    BY <2>5, EnterType, UnmovedSlots, ReleaseSlots DEF Semaphore!Next
  <2>6. CASE MethodSucceeds(c) \/ MethodFails(c)
    BY <2>6, MethodType, UnmovedSlots
  <2>7. CASE Wake(c)
    BY <2>7, WakeType, UnmovedSlots
  <2>8. CASE LeaveOk(c) \/ LeaveFailed(c)
    BY <2>8, LeaveType, ReleaseSlots DEF Semaphore!Next
  <2> QED
    BY <1>3, <2>1, <2>2, <2>3, <2>4, <2>5, <2>6, <2>7, <2>8 DEF CallStep
<1> QED
  BY <1>1, <1>2, <1>3 DEF Next, AtHorizon

LEMMA Invariance == Spec => [](TypeOK /\ SemaphoreInv)
<1>1. Init => TypeOK /\ SemaphoreInv
  BY InitTypeOK, InitSemaphoreInv
<1>2. (TypeOK /\ SemaphoreInv) /\ [Next]_vars => (TypeOK /\ SemaphoreInv)'
  BY StepEffect
<1> QED
  BY <1>1, <1>2, PTL DEF Spec

(* The adapter keeps its variables in their types, for any number of calls, *)
(* tries and slots (buildAdapter).                                          *)
THEOREM TypeCorrect == Spec => []TypeOK
BY Invariance, PTL

(* The count of taken slots is exact and nobody waits while one is free     *)
(* (acquire, createRelease).                                                *)
THEOREM NoSlotLeaks == Spec => []SlotsAccounted
<1>1. TypeOK /\ SemaphoreInv => SlotsAccounted
  BY DEF SemaphoreInv
<1> QED
  BY <1>1, Invariance, PTL

(* A slot is handed only to a call that still waits for it (createRelease). *)
THEOREM NoDeadWaiter == Spec => []WaitersAreAlive
<1>1. TypeOK /\ SemaphoreInv => WaitersAreAlive
  BY DEF SemaphoreInv
<1> QED
  BY <1>1, Invariance, PTL

(* acquire and createRelease implement a fair semaphore: at most            *)
(* Concurrency slots, given out in the order of arrival.                    *)
THEOREM FairLimit == Spec => ImplementsSemaphore
<1>1. Init => Semaphore!Init
  BY InitSemaphoreInv
<1>2. TypeOK /\ SemaphoreInv /\ [Next]_vars => [Semaphore!Next]_<<Holders, waiters>>
  BY StepEffect
<1> QED
  BY <1>1, <1>2, Invariance, PTL DEF Spec, ImplementsSemaphore, Semaphore!Spec

-----------------------------------------------------------------------------
(* The cache, the breaker and the retries: they rest on the types and the   *)
(* semaphore invariant above.                                               *)

(* A power of two is a positive number: it counts the subsets of a set.     *)
LEMMA PowerOfTwo ==
  ASSUME NEW n \in Nat
  PROVE  2 ^ n \in Nat /\ 2 ^ n > 0
<1>1. IsFiniteSet(1..n) /\ Cardinality(1..n) = n
  BY FS_Interval
<1>2. IsFiniteSet(SUBSET (1..n)) /\ Cardinality(SUBSET (1..n)) = 2 ^ n
  BY <1>1, FS_SUBSET
<1>3. {} \in SUBSET (1..n)
  OBVIOUS
<1>4. Cardinality(SUBSET (1..n)) \in Nat /\ Cardinality(SUBSET (1..n)) # 0
  BY <1>2, <1>3, FS_EmptySet, FS_CardinalityType
<1> QED
  BY <1>2, <1>4

(* Every flight but that of the caller is left alone, or is a waiter that   *)
(* gets the slot of the caller (createRelease).                             *)
LEMMA OtherFlights ==
  ASSUME TypeOK, SemaphoreInv, NEW c \in Call, CallStep(c),
         NEW d \in Call, d # c
  PROVE  \/ flights'[d] = flights[d]
         \/ /\ flights[d].pc = "queued"
            /\ flights'[d] = [flights[d] EXCEPT !.pc = "admitted"]
<1>1. flights \in [Call -> Flight]
  BY DEF TypeOK
<1>2. ASSUME NEW outcome \in {"ok", "failed"}, Release(c, outcome)
      PROVE  \/ flights'[d] = flights[d]
             \/ /\ flights[d].pc = "queued"
                /\ flights'[d] = [flights[d] EXCEPT !.pc = "admitted"]
  <2>1. CASE waiters = << >>
    BY <1>1, <1>2, <2>1 DEF Release, Go
  <2>2. CASE waiters # << >>
    <3> DEFINE h == Head(waiters)
    <3>1. h \in Call /\ h \in { waiters[i] : i \in DOMAIN waiters }
      BY <2>2 DEF TypeOK
    <3>2. flights[h].pc = "queued"
      BY <3>1 DEF SemaphoreInv, WaitersAreAlive, At
    <3>3. flights' = [flights EXCEPT ![c].pc = outcome, ![h].pc = "admitted"]
      BY <1>2, <2>2 DEF Release
    <3> HIDE DEF h
    <3>4. CASE d = h
      BY <1>1, <3>1, <3>2, <3>3, <3>4
    <3>5. CASE d # h
      BY <1>1, <3>1, <3>3, <3>5
    <3> QED
      BY <3>4, <3>5
  <2> QED
    BY <2>1, <2>2
<1>3. CASE (Enter(c) /\ FailsFast) \/ LeaveOk(c) \/ LeaveFailed(c)
  BY <1>2, <1>3 DEF Enter, LeaveOk, LeaveFailed
<1>4. CASE Enter(c) /\ ~FailsFast
  BY <1>1, <1>4 DEF Enter
<1>5. CASE \E k \in Key : CallHits(c, k)
  BY <1>5 DEF CallHits
<1>6. CASE \E k \in Key : CallMisses(c, k)
  BY <1>1, <1>6 DEF CallMisses, Acquire
<1>7. CASE Abort(c)
  BY <1>1, <1>7 DEF Abort, GiveUp, Go
<1>8. CASE Evict(c)
  BY <1>8 DEF Evict
<1>9. CASE MethodSucceeds(c) \/ MethodFails(c) \/ Wake(c)
  BY <1>1, <1>9 DEF MethodSucceeds, MethodFails, Wake, Go
<1> QED
  BY <1>3, <1>4, <1>5, <1>6, <1>7, <1>8, <1>9 DEF CallStep

(* The caller that gives its slot back only changes its phase.              *)
LEMMA OwnRelease ==
  ASSUME TypeOK, SemaphoreInv, NEW c \in Holders, NEW outcome \in {"ok", "failed"},
         Release(c, outcome)
  PROVE  flights'[c] = [flights[c] EXCEPT !.pc = outcome]
<1>1. flights \in [Call -> Flight] /\ c \in Call /\ flights[c].pc # "queued"
  BY DEF TypeOK, Holders
<1>2. CASE waiters = << >>
  BY <1>1, <1>2 DEF Release, Go
<1>3. CASE waiters # << >>
  <2> DEFINE h == Head(waiters)
             f == [flights EXCEPT ![c].pc = outcome]
  <2>1. h \in Call /\ h \in { waiters[i] : i \in DOMAIN waiters }
    BY <1>3 DEF TypeOK
  <2>2. h # c
    BY <1>1, <2>1 DEF SemaphoreInv, WaitersAreAlive, At
  <2>3. flights' = [f EXCEPT ![h].pc = "admitted"]
    BY <1>3 DEF Release
  <2>4. f[c] = [flights[c] EXCEPT !.pc = outcome]
    BY <1>1
  <2> HIDE DEF h, f
  <2>5. flights'[c] = f[c]
    BY <1>1, <2>1, <2>2, <2>3 DEF f
  <2> QED
    BY <2>4, <2>5
<1> QED
  BY <1>2, <1>3

-----------------------------------------------------------------------------
(* The breaker. *)

(* One more outcome raises what the threshold is compared with.             *)
LEMMA OneMore ==
  ASSUME NEW p \in Nat, NEW a \in Nat, NEW b \in Nat
  PROVE  p * (a + b) \in Nat /\ p * (a + 1 + b) = p * (a + b) + p
OBVIOUS

(* Without a breaker nothing is counted; with one, a closed breaker is      *)
(* healthy and a half-open one is waiting for somebody.                     *)
BreakerInv ==
  /\ ~HasBreaker => breaker.state = "closed" /\ breaker.failures = 0
  /\ ClosedMeansHealthy
  /\ HalfOpenHasProbe

(* A flight that leaves decides: the breaker is healthy or open afterwards. *)
LEMMA LeavingDecides ==
  ASSUME TypeOK, BreakerInv, breaker' \in {AfterSuccess, AfterFailure}
  PROVE  /\ ~HasBreaker => breaker'.state = "closed" /\ breaker'.failures = 0
         /\ ClosedMeansHealthy'
         /\ breaker'.state # "half-open"
<1>1. /\ breaker \in Breaker /\ now \in Nat /\ Pct \in Nat
      /\ breaker.failures \in Nat /\ breaker.successes \in Nat
      /\ breaker.state \in {"closed", "open", "half-open"}
  BY AdapterAssumption DEF TypeOK, Breaker
<1>2. CASE ~HasBreaker
  <2>1. breaker' = breaker
    BY <1>2, Zenon DEF AfterSuccess, AfterFailure
  <2> QED
    BY <1>2, <2>1 DEF BreakerInv, ClosedMeansHealthy
<1>3. CASE HasBreaker /\ breaker' = AfterSuccess
  <2>1. CASE breaker.state = "half-open"
    <3>1. /\ breaker' = [breaker EXCEPT !.state = "closed", !.successes = 0, !.failures = 0]
      BY <1>3, <2>1 DEF AfterSuccess
    <3> QED
      BY <1>1, <1>3, <3>1 DEF Breaker, ClosedMeansHealthy
  <2>2. CASE breaker.state # "half-open"
    <3>1. breaker' = [breaker EXCEPT !.successes = @ + 1]
      BY <1>3, <2>2 DEF AfterSuccess
    <3>2. /\ breaker'.state = breaker.state /\ breaker'.failures = breaker.failures
          /\ breaker'.successes = breaker.successes + 1
      BY <1>1, <3>1 DEF Breaker
    <3>3. Pct * (breaker.successes + 1 + breaker.failures)
            = Pct * (breaker.successes + breaker.failures) + Pct
      BY <1>1, OneMore
    <3>4. Pct * (breaker.successes + breaker.failures) \in Nat
      BY <1>1
    <3>5. ClosedMeansHealthy'
      BY <1>1, <3>2, <3>3, <3>4 DEF BreakerInv, ClosedMeansHealthy
    <3> QED
      BY <1>3, <2>2, <3>2, <3>5
  <2> QED
    BY <2>1, <2>2
<1>4. CASE HasBreaker /\ breaker' = AfterFailure
  <2> DEFINE counted == [breaker EXCEPT !.failures = @ + 1]
  <2>1. /\ counted \in Breaker /\ counted.state = breaker.state
        /\ counted.failures \in Nat /\ counted.successes \in Nat
    BY <1>1 DEF Breaker
  <2>2. CASE breaker.state = "half-open"
    <3>1. breaker' = Opened(breaker)
      BY <1>4, <2>2 DEF AfterFailure
    <3> QED
      BY <1>1, <1>4, <3>1 DEF Opened, Breaker, ClosedMeansHealthy
  <2>3. CASE breaker.state # "half-open"
    <3>1. breaker' = IF counted.failures * 100 >= Pct * (counted.successes + counted.failures)
                     THEN Opened(counted) ELSE counted
      BY <1>4, <2>3 DEF AfterFailure
    <3> HIDE DEF counted
    <3>2. Opened(counted).state = "open"
      BY <2>1 DEF Opened, Breaker
    <3>3. counted.failures * 100 \in Nat /\ Pct * (counted.successes + counted.failures) \in Nat
      BY <1>1, <2>1
    <3>4. CASE breaker' = Opened(counted)
      BY <1>4, <3>2, <3>4 DEF ClosedMeansHealthy
    <3>5. CASE /\ breaker' = counted
               /\ ~(counted.failures * 100 >= Pct * (counted.successes + counted.failures))
      BY <1>4, <2>1, <2>3, <3>3, <3>5 DEF ClosedMeansHealthy
    <3> QED
      BY <3>1, <3>4, <3>5
  <2> QED
    BY <2>2, <2>3
<1> QED
  BY <1>2, <1>3, <1>4

(* A probe stays a probe, and keeps its slot, until it leaves.              *)
LEMMA ProbesStay ==
  ASSUME TypeOK, SemaphoreInv, NEW c \in Call, CallStep(c),
         ~LeaveOk(c), ~LeaveFailed(c), ~Enter(c),
         NEW d \in Holders, flights[d].probe
  PROVE  flights'[d].probe /\ d \in Holders'
<1>1. flights \in [Call -> Flight] /\ d \in Call
  BY DEF TypeOK, Holders
<1>2. CASE d # c
  <2>1. flights'[d] = flights[d]
    BY <1>1, <1>2, OtherFlights DEF Holders
  <2> QED
    BY <1>1, <2>1 DEF Holders
<1>3. CASE d = c
  <2>1. \/ flights' = flights
        \/ /\ flights'[c].pc \in {"calling", "sleeping", "succeeding", "failing"}
           /\ flights'[c].probe = flights[c].probe
    <3>1. CASE \E k \in Key : CallHits(c, k)
      BY <3>1 DEF CallHits
    <3>2. CASE \E k \in Key : CallMisses(c, k)
      BY <1>3, <3>2 DEF CallMisses, TypeOK, Holders
    <3>3. CASE Abort(c)
      BY <1>1, <1>3, <3>3 DEF Abort, At, Holders, Go, Flight
    <3>4. CASE Evict(c)
      BY <3>4 DEF Evict
    <3>5. CASE MethodSucceeds(c)
      BY <1>1, <3>5 DEF MethodSucceeds, Go, Flight
    <3>6. CASE MethodFails(c)
      BY <1>1, <3>6 DEF MethodFails, Go, At, Flight
    <3>7. CASE Wake(c)
      BY <1>1, <3>7 DEF Wake, Flight
    <3> QED
      BY <3>1, <3>2, <3>3, <3>4, <3>5, <3>6, <3>7 DEF CallStep
  <2> QED
    BY <1>1, <1>3, <2>1 DEF Holders
<1> QED
  BY <1>2, <1>3

LEMMA BreakerInvStep ==
  ASSUME TypeOK, SemaphoreInv, BreakerInv, [Next]_vars
  PROVE  BreakerInv'
<1>1. CASE UNCHANGED vars \/ ClockAdvances
  <2>1. breaker' = breaker /\ flights' = flights
    BY <1>1 DEF vars, ClockAdvances
  <2>2. Holders' = Holders
    BY <2>1 DEF Holders
  <2> QED
    BY <2>1, <2>2 DEF BreakerInv, ClosedMeansHealthy, HalfOpenHasProbe
<1>2. ASSUME NEW c \in Call, CallStep(c)
      PROVE  BreakerInv'
  <2>1. CASE LeaveOk(c) \/ LeaveFailed(c)
    <3>1. breaker' \in {AfterSuccess, AfterFailure}
      BY <2>1 DEF LeaveOk, LeaveFailed
    <3> QED
      BY <3>1, LeavingDecides DEF BreakerInv, HalfOpenHasProbe
  <2>2. CASE Enter(c)
    <3>1. CASE FailsFast
      <4>1. breaker' = breaker /\ breaker.state = "open"
        BY <2>2, <3>1 DEF Enter, FailsFast
      <4> QED
        BY <4>1 DEF BreakerInv, ClosedMeansHealthy, HalfOpenHasProbe
    <3>2. CASE ~FailsFast
      <4> DEFINE p == (breaker'.state = "half-open")
      <4>1. /\ breaker' = IF breaker.state = "open" THEN [breaker EXCEPT !.state = "half-open"]
                                                    ELSE breaker
            /\ flights' = [flights EXCEPT ![c].pc = "calling", ![c].tries = 1, ![c].probe = p]
        BY <2>2, <3>2 DEF Enter
      <4>2. breaker \in Breaker /\ flights \in [Call -> Flight]
        BY DEF TypeOK
      <4>3. /\ ~HasBreaker => breaker'.state = "closed" /\ breaker'.failures = 0
            /\ ClosedMeansHealthy'
        BY <4>1, <4>2 DEF BreakerInv, ClosedMeansHealthy, Breaker
      <4>4. flights'[c].pc = "calling" /\ flights'[c].probe = p
        <5> HIDE DEF p
        <5> QED
          BY <4>1, <4>2 DEF Flight
      <4>5. HalfOpenHasProbe'
        BY <4>4 DEF HalfOpenHasProbe, Holders
      <4> QED
        BY <4>3, <4>5 DEF BreakerInv
    <3> QED
      BY <3>1, <3>2
  <2>3. CASE ~LeaveOk(c) /\ ~LeaveFailed(c) /\ ~Enter(c)
    <3>1. breaker' = breaker
      BY <1>2, <2>3 DEF CallStep, CallHits, CallMisses, Abort, Evict, MethodSucceeds,
                        MethodFails, Wake
    <3>2. HalfOpenHasProbe'
      BY <1>2, <2>3, <3>1, ProbesStay DEF BreakerInv, HalfOpenHasProbe, Holders
    <3> QED
      BY <3>1, <3>2 DEF BreakerInv, ClosedMeansHealthy
  <2> QED
    BY <2>1, <2>2, <2>3
<1> QED
  BY <1>1, <1>2 DEF Next, AtHorizon

LEMMA BreakerInvariance == Spec => []BreakerInv
<1>1. Init => BreakerInv
  BY DEF Init, BreakerInv, ClosedMeansHealthy, HalfOpenHasProbe
<1>2. (TypeOK /\ SemaphoreInv) /\ BreakerInv /\ [Next]_vars => BreakerInv'
  BY BreakerInvStep
<1> QED
  BY <1>1, <1>2, Invariance, PTL DEF Spec

(* A closed breaker is below its threshold (recordSuccess, recordFailure):  *)
(* the counts that opened it once are not left behind to reopen it.         *)
THEOREM ClosedIsHealthy == Spec => []ClosedMeansHealthy
<1>1. BreakerInv => ClosedMeansHealthy
  BY DEF BreakerInv
<1> QED
  BY <1>1, BreakerInvariance, PTL

(* A half-open breaker always has a flight under way that will decide.      *)
THEOREM HalfOpenIsDecided == Spec => []HalfOpenHasProbe
<1>1. BreakerInv => HalfOpenHasProbe
  BY DEF BreakerInv
<1> QED
  BY <1>1, BreakerInvariance, PTL

-----------------------------------------------------------------------------
(* Retries. *)

(* No flight sleeps between two tries once its signal is aborted, and a     *)
(* flight counts the try it is in.                                          *)
RetryInv ==
  /\ \A c \in aborted : flights[c].pc # "sleeping"
  /\ \A c \in Call : flights[c].pc \in {"calling", "sleeping"} => flights[c].tries >= 1

(* With a backoff, every delay between two tries takes time.                *)
LEMMA DelayTakesTime ==
  ASSUME Backoff > 0, NEW n \in Nat, NEW jitter \in Nat
  PROVE  Backoff * 2 ^ n + jitter # 0
<1> DEFINE power == 2 ^ n
<1>1. power \in Nat /\ power > 0 /\ Backoff \in Nat
  BY PowerOfTwo, AdapterAssumption
<1> HIDE DEF power
<1>2. Backoff * power > 0
  BY <1>1
<1>3. Backoff * power + jitter # 0
  BY <1>1, <1>2
<1> QED
  BY <1>3 DEF power

(* What a step does to the flight of its own call.                          *)
LEMMA OwnRetry ==
  ASSUME Backoff > 0, TypeOK, SemaphoreInv, RetryInv, NEW c \in Call, CallStep(c)
  PROVE  /\ aborted' = aborted \/ aborted' = aborted \cup {c}
         /\ c \in aborted /\ flights'[c].tries > 1 => flights'[c].tries = flights[c].tries
         /\ c \in aborted' => flights'[c].pc # "sleeping"
         /\ flights'[c].pc \in {"calling", "sleeping"} => flights'[c].tries >= 1
<1>1. /\ flights \in [Call -> Flight] /\ aborted \subseteq Call
      /\ flights[c].tries \in Nat
  BY AdapterAssumption DEF TypeOK, Flight
<1>2. CASE \E k \in Key : CallHits(c, k)
  BY <1>2 DEF CallHits, RetryInv
<1>3. CASE \E k \in Key : CallMisses(c, k)
  <2>1. PICK k \in Key : CallMisses(c, k)
    BY <1>3
  <2> DEFINE flight(phase) == [NoFlight EXCEPT !.pc = phase, !.key = k, !.startedAt = now]
  <2>2. \A phase \in Phase : flight(phase).tries = 0 /\ flight(phase).pc = phase
    BY DEF NoFlight
  <2> HIDE DEF flight
  <2>3. \E phase \in {"admitted", "failed", "queued"} :
          flights' = [flights EXCEPT ![c] = flight(phase)]
    BY <2>1 DEF CallMisses, Acquire, flight
  <2> QED
    BY <1>1, <2>1, <2>2, <2>3 DEF CallMisses, Phase
<1>4. CASE Abort(c)
  BY <1>1, <1>4 DEF Abort, GiveUp, Go, At, Flight, RetryInv
<1>5. CASE Evict(c)
  BY <1>5 DEF Evict, RetryInv
<1>6. CASE (Enter(c) /\ FailsFast) \/ LeaveOk(c) \/ LeaveFailed(c)
  <2>1. c \in Holders /\ aborted' = aborted /\ \E o \in {"ok", "failed"} : Release(c, o)
    BY <1>6 DEF Enter, LeaveOk, LeaveFailed, At, Holders
  <2>2. \E o \in {"ok", "failed"} : flights'[c] = [flights[c] EXCEPT !.pc = o]
    BY <2>1, OwnRelease
  <2> QED
    BY <1>1, <2>1, <2>2 DEF Flight
<1>7. CASE Enter(c) /\ ~FailsFast
  BY <1>1, <1>7 DEF Enter, Flight
<1>8. CASE MethodSucceeds(c)
  BY <1>1, <1>8 DEF MethodSucceeds, Go, Flight
<1>9. CASE MethodFails(c)
  <2>1. aborted' = aborted /\ flights[c].tries >= 1
    BY <1>9 DEF MethodFails, RetryInv, At
  <2>2. PICK jitter \in IF Jitter /\ Backoff > 0 THEN 0..(Backoff - 1) ELSE {0} :
          LET delay == Backoff * 2 ^ (flights[c].tries - 1) + jitter
          IN  \/ flights[c].tries = MaxTries /\ Go(c, "failing")
              \/ /\ flights[c].tries < MaxTries /\ delay = 0
                 /\ flights' = [flights EXCEPT ![c].tries = @ + 1]
              \/ flights[c].tries < MaxTries /\ delay > 0 /\ c \in aborted /\ Go(c, "failing")
              \/ /\ flights[c].tries < MaxTries /\ delay > 0 /\ c \notin aborted
                 /\ flights' = [flights EXCEPT ![c].pc = "sleeping", ![c].wakeAt = now + delay]
    BY <1>9 DEF MethodFails
  <2> DEFINE delay == Backoff * 2 ^ (flights[c].tries - 1) + jitter
  <2>3. delay # 0
    <3>1. jitter \in Nat
      BY AdapterAssumption
    <3>2. flights[c].tries - 1 \in Nat
      BY <1>1, <2>1
    <3> QED
      BY <3>1, <3>2, DelayTakesTime, Zenon
  <2> HIDE DEF delay
  <2>4. \/ Go(c, "failing")
        \/ /\ c \notin aborted
           /\ flights' = [flights EXCEPT ![c].pc = "sleeping", ![c].wakeAt = now + delay]
    BY <2>2, <2>3 DEF delay
  <2> QED
    BY <1>1, <2>1, <2>4 DEF Go, Flight
<1>10. CASE Wake(c)
  BY <1>1, <1>10 DEF Wake, At, RetryInv, Flight
<1> QED
  BY <1>2, <1>3, <1>4, <1>5, <1>6, <1>7, <1>8, <1>9, <1>10 DEF CallStep

(* With a backoff, a step of an aborted call starts no further try.         *)
LEMMA RetryStep ==
  ASSUME Backoff > 0, TypeOK, SemaphoreInv, RetryInv, [Next]_vars
  PROVE  /\ RetryInv'
         /\ \A d \in aborted : flights'[d].tries > 1 => flights'[d].tries = flights[d].tries
<1>1. flights \in [Call -> Flight] /\ aborted \subseteq Call
  BY DEF TypeOK
<1>2. CASE UNCHANGED vars \/ ClockAdvances
  BY <1>2 DEF vars, ClockAdvances, RetryInv
<1>3. ASSUME NEW c \in Call, CallStep(c)
      PROVE  /\ RetryInv'
             /\ \A d \in aborted : flights'[d].tries > 1 => flights'[d].tries = flights[d].tries
  <2>1. ASSUME NEW d \in Call, d # c
        PROVE  /\ flights'[d].tries = flights[d].tries
               /\ flights'[d].pc \in {"calling", "sleeping"} => flights'[d].pc = flights[d].pc
    <3>1. flights[d] \in Flight
      BY <1>1
    <3>2. CASE flights'[d] = flights[d]
      BY <3>2
    <3>3. CASE flights'[d] = [flights[d] EXCEPT !.pc = "admitted"]
      BY <3>1, <3>3 DEF Flight
    <3> QED
      BY <1>3, <2>1, <3>2, <3>3, OtherFlights
  <2> QED
    BY <1>1, <1>3, <2>1, OwnRetry DEF RetryInv
<1> QED
  BY <1>2, <1>3 DEF Next, AtHorizon

(* With a backoff, no retry starts after the signal of its call was aborted *)
(* (runWithRetry, sleep).  Without one it does: the delay of 0 returns      *)
(* before it looks at the signal.                                           *)
THEOREM AbortEndsRetries ==
  ASSUME Backoff > 0
  PROVE  Spec => NoRetryAfterAbort
<1>1. Init => RetryInv
  BY DEF Init, RetryInv, NoFlight
<1>2. (TypeOK /\ SemaphoreInv) /\ RetryInv /\ [Next]_vars => RetryInv'
  BY RetryStep
<1>3. (TypeOK /\ SemaphoreInv) /\ RetryInv /\ [Next]_vars =>
        [\A c \in aborted : flights'[c].tries > 1 => flights'[c].tries = flights[c].tries]_vars
  BY RetryStep
<1> QED
  BY <1>1, <1>2, <1>3, Invariance, PTL DEF Spec, NoRetryAfterAbort

-----------------------------------------------------------------------------
(* The cache. *)

(* The entries of a Map: no key twice. *)
DistinctKeys(q) == \A i, j \in DOMAIN q : q[i].key = q[j].key => i = j

(* Deleting a key from a Map leaves the entries of the other keys.          *)
LEMMA WithoutLeaves ==
  ASSUME NEW q \in Seq(CacheEntry), DistinctKeys(q), NEW k
  PROVE  /\ Without(q, k) \in Seq(CacheEntry)
         /\ DistinctKeys(Without(q, k))
         /\ \A i \in DOMAIN Without(q, k) :
              Without(q, k)[i].key # k /\ \E j \in DOMAIN q : Without(q, k)[i] = q[j]
         /\ Len(Without(q, k)) <= Len(q)
         /\ (\E i \in DOMAIN q : q[i].key = k) => Len(Without(q, k)) = Len(q) - 1
<1> DEFINE at == { i \in DOMAIN q : q[i].key = k }
<1>1. Without(q, k) \in Seq(CacheEntry)
  BY WithoutType
<1>2. CASE at = {}
  <2>1. Without(q, k) = q
    BY <1>2 DEF Without
  <2>2. \A i \in DOMAIN q : q[i].key # k
    BY <1>2
  <2> QED
    BY <2>1, <2>2
<1>3. CASE at # {}
  <2> DEFINE n == CHOOSE i \in at : TRUE
             r == Splice(q, n)
  <2>1. n \in at
    BY <1>3
  <2>2. n \in DOMAIN q /\ q[n].key = k
    BY <2>1
  <2>3. Without(q, k) = r
    BY <1>3 DEF Without
  <2> HIDE DEF n, at
  <2>4. /\ r \in Seq(CacheEntry) /\ Len(r) = Len(q) - 1 /\ DOMAIN r = 1..(Len(q) - 1)
        /\ \A j \in 1..(Len(q) - 1) : r[j] = IF j < n THEN q[j] ELSE q[j + 1]
    BY <2>2, SpliceType, Zenon
  <2>5. n \in 1..Len(q) /\ Len(q) \in Nat /\ DOMAIN q = 1..Len(q)
    BY <2>2
  <2> HIDE DEF r
  <2> DEFINE was(j) == IF j < n THEN j ELSE j + 1
  <2>6. \A j \in DOMAIN r : was(j) \in DOMAIN q /\ was(j) # n /\ r[j] = q[was(j)]
    BY <2>4, <2>5
  <2>7. \A i, j \in DOMAIN r : was(i) = was(j) => i = j
    BY <2>4, <2>5
  <2> HIDE DEF was
  <2>8. DistinctKeys(r)
    BY <2>6, <2>7 DEF DistinctKeys
  <2>9. \A i \in DOMAIN r : r[i].key # k /\ \E j \in DOMAIN q : r[i] = q[j]
    BY <2>2, <2>6 DEF DistinctKeys
  <2> QED
    BY <2>3, <2>4, <2>5, <2>8, <2>9
<1> QED
  BY <1>2, <1>3

(* An entry of a new key joins the Map at its young end.                    *)
LEMMA AppendEntry ==
  ASSUME NEW q \in Seq(CacheEntry), DistinctKeys(q), NEW e \in CacheEntry,
         \A i \in DOMAIN q : q[i].key # e.key
  PROVE  /\ Append(q, e) \in Seq(CacheEntry)
         /\ DistinctKeys(Append(q, e))
         /\ \A i \in DOMAIN Append(q, e) :
              Append(q, e)[i] = e \/ \E j \in DOMAIN q : Append(q, e)[i] = q[j]
         /\ Len(Append(q, e)) = Len(q) + 1
<1> DEFINE r == Append(q, e)
<1>1. /\ r \in Seq(CacheEntry) /\ Len(r) = Len(q) + 1 /\ Len(q) \in Nat
      /\ DOMAIN q = 1..Len(q) /\ DOMAIN r = 1..(Len(q) + 1)
      /\ r[Len(q) + 1] = e /\ \A i \in 1..Len(q) : r[i] = q[i]
  OBVIOUS
<1> HIDE DEF r
<1>2. \A i \in DOMAIN r : i = Len(q) + 1 \/ i \in DOMAIN q
  BY <1>1
<1>3. \A i \in DOMAIN r : r[i] = e \/ \E j \in DOMAIN q : r[i] = q[j]
  BY <1>1, <1>2
<1>4. DistinctKeys(r)
  BY <1>1, <1>2 DEF DistinctKeys
<1> QED
  BY <1>1, <1>3, <1>4 DEF r

(* The oldest entries make room. *)
LEMMA TrimLeaves ==
  ASSUME NEW q \in Seq(CacheEntry), DistinctKeys(q)
  PROVE  /\ Trim(q) \in Seq(CacheEntry)
         /\ DistinctKeys(Trim(q))
         /\ \A i \in DOMAIN Trim(q) : \E j \in DOMAIN q : Trim(q)[i] = q[j]
         /\ Len(Trim(q)) <= CacheMax
<1>1. CacheMax \in Nat /\ Len(q) \in Nat /\ DOMAIN q = 1..Len(q)
  BY AdapterAssumption
<1>2. CASE Len(q) <= CacheMax
  BY <1>2 DEF Trim
<1>3. CASE ~(Len(q) <= CacheMax)
  <2> DEFINE m == Len(q) - CacheMax
             r == Trim(q)
  <2>1. m \in 1..Len(q) /\ m \in Nat
    BY <1>1, <1>3
  <2>2. r = SubSeq(q, m + 1, Len(q))
    BY <1>3 DEF Trim
  <2>3. \A i \in (m + 1)..Len(q) : q[i] \in CacheEntry
    BY <1>1, <2>1
  <2> HIDE DEF m, r
  <2>4. /\ r \in Seq(CacheEntry)
        /\ Len(r) = IF m + 1 <= Len(q) THEN Len(q) - (m + 1) + 1 ELSE 0
        /\ \A i \in 1..(Len(q) - (m + 1) + 1) : r[i] = q[m + 1 + i - 1]
    <3>1. m + 1 \in Int /\ Len(q) \in Int
      BY <1>1, <2>1
    <3> QED
      BY <2>2, <2>3, <3>1, SubSeqProperties
  <2>5. Len(r) = Len(q) - m /\ DOMAIN r = 1..(Len(q) - m)
    <3>1. Len(q) \in Nat /\ m \in Nat /\ m <= Len(q)
      BY <1>1, <2>1
    <3>2. Len(r) = Len(q) - m
      BY <2>4, <3>1
    <3>3. DOMAIN r = 1..Len(r)
      BY <2>4
    <3> QED
      BY <3>2, <3>3
  <2>6. \A i \in DOMAIN r : m + i \in DOMAIN q /\ r[i] = q[m + i]
    <3> TAKE i \in DOMAIN r
    <3>1. i \in 1..(Len(q) - m)
      BY <2>5
    <3>2. i \in 1..(Len(q) - (m + 1) + 1) /\ m + 1 + i - 1 = m + i /\ m + i \in 1..Len(q)
      BY <1>1, <2>1, <3>1
    <3> QED
      BY <1>1, <2>4, <3>2
  <2>7. DistinctKeys(r)
    <3>1. ASSUME NEW i \in DOMAIN r, NEW j \in DOMAIN r, r[i].key = r[j].key
          PROVE  i = j
      <4>1. m + i = m + j
        BY <2>6, <3>1 DEF DistinctKeys
      <4> QED
        BY <2>1, <2>5, <4>1
    <3> QED
      BY <3>1 DEF DistinctKeys
  <2>8. Len(r) <= CacheMax
    BY <1>1, <2>1, <2>5 DEF m
  <2> QED
    BY <2>4, <2>6, <2>7, <2>8 DEF r
<1> QED
  BY <1>2, <1>3

(* An entry is that of a call that was made, under its key, and a failed    *)
(* one is about to be removed.                                              *)
EntryServes(e) ==
  /\ shares[e.flight] # NoCall
  /\ flights[e.flight].key = e.key
  /\ flights[e.flight].pc = "failed" => e.flight \in evicting

CacheInv ==
  /\ Cached \/ cache = << >>
  /\ DistinctKeys(cache) /\ Len(cache) <= CacheMax
  /\ \A i \in DOMAIN cache : EntryServes(cache[i])

(* The flight of a call that was made keeps its key, and its failure is     *)
(* followed by its catch handler (setCached).                               *)
LEMMA FailuresAreCaught ==
  ASSUME TypeOK, SemaphoreInv, Cached, NEW c \in Call, CallStep(c), ~Evict(c),
         NEW e \in CacheEntry, EntryServes(e)
  PROVE  EntryServes(e)'
<1> DEFINE d == e.flight
<1>1. flights \in [Call -> Flight] /\ shares \in [Call -> Call \cup {NoCall}] /\ d \in Call
  BY DEF TypeOK, CacheEntry
<1>2. shares'[d] # NoCall
  <2>1. \/ shares' = shares
        \/ \E f \in Call : shares' = [shares EXCEPT ![c] = f]
    <3>1. CASE \E k \in Key : CallHits(c, k)
      <4>1. PICK k \in Key : CallHits(c, k)
        BY <3>1
      <4>2. PICK i \in Hits(k) : shares' = [shares EXCEPT ![c] = cache[i].flight]
        BY <4>1 DEF CallHits
      <4>3. cache[i].flight \in Call
        <5>1. cache[i] \in CacheEntry
          BY DEF Hits, TypeOK
        <5> QED
          BY <5>1 DEF CacheEntry
      <4> QED
        BY <4>2, <4>3
    <3>2. CASE \E k \in Key : CallMisses(c, k)
      BY <3>2 DEF CallMisses
    <3>3. CASE ~\E k \in Key : CallHits(c, k) \/ CallMisses(c, k)
      BY <3>3 DEF CallStep, Abort, Evict, Enter, MethodSucceeds, MethodFails, Wake,
                  LeaveOk, LeaveFailed
    <3> QED
      BY <3>1, <3>2, <3>3
  <2> QED
    BY <1>1, <2>1, AdapterAssumption DEF EntryServes
<1>3. evicting \subseteq evicting'
  BY DEF CallStep, CallHits, CallMisses, Acquire, Abort, GiveUp, Enter, MethodSucceeds,
         MethodFails, Wake, LeaveOk, LeaveFailed, Evicted
<1>4. CASE d # c
  <2>1. flights[d] \in Flight
    BY <1>1
  <2>2. CASE flights'[d] = flights[d]
    BY <1>2, <1>3, <2>2 DEF EntryServes
  <2>3. CASE flights'[d] = [flights[d] EXCEPT !.pc = "admitted"]
    <3>1. flights'[d].key = flights[d].key /\ flights'[d].pc = "admitted"
      BY <2>1, <2>3 DEF Flight
    <3> QED
      BY <1>2, <3>1 DEF EntryServes
  <2> QED
    BY <1>1, <1>4, <2>2, <2>3, OtherFlights
<1>5. CASE d = c
  <2>1. shares[c] # NoCall
    BY <1>5 DEF EntryServes
  <2>2. CASE (Enter(c) /\ FailsFast) \/ LeaveOk(c) \/ LeaveFailed(c)
    <3>1. PICK o \in {"ok", "failed"} : Release(c, o) /\ (o = "failed" => Evicted({c}))
      BY <2>2 DEF Enter, LeaveOk, LeaveFailed
    <3>2. c \in Holders
      BY <2>2 DEF Enter, LeaveOk, LeaveFailed, At, Holders
    <3>3. flights'[c] = [flights[c] EXCEPT !.pc = o]
      BY <3>1, <3>2, OwnRelease
    <3> QED
      BY <1>1, <1>2, <1>5, <3>1, <3>3 DEF Flight, Evicted, EntryServes
  <2>3. CASE Enter(c) /\ ~FailsFast
    <3>1. flights'[c].key = flights[c].key /\ flights'[c].pc = "calling"
      BY <1>1, <2>3 DEF Enter, Flight
    <3> QED
      BY <1>2, <1>5, <3>1 DEF EntryServes
  <2>4. CASE Abort(c)
    <3>1. \/ flights' = flights
          \/ flights' = [flights EXCEPT ![c].pc = "failed"] /\ c \in evicting'
          \/ flights' = [flights EXCEPT ![c].pc = "failing"]
      BY <2>4 DEF Abort, GiveUp, Go, Evicted
    <3> QED
      BY <1>1, <1>2, <1>3, <1>5, <3>1 DEF EntryServes, Flight
  <2>5. CASE MethodSucceeds(c) \/ MethodFails(c) \/ Wake(c)
    <3>1. flights'[c].key = flights[c].key /\ (flights'[c].pc = "failed" => flights[c].pc = "failed")
      BY <1>1, <2>5 DEF MethodSucceeds, MethodFails, Wake, Go, Flight
    <3> QED
      BY <1>2, <1>3, <1>5, <3>1 DEF EntryServes
  <2> QED
    BY <2>1, <2>2, <2>3, <2>4, <2>5 DEF CallStep, CallHits, CallMisses
<1> QED
  BY <1>4, <1>5

LEMMA CacheInvHit ==
  ASSUME TypeOK, SemaphoreInv, CacheInv, NEW c \in Call, NEW k \in Key, CallHits(c, k)
  PROVE  CacheInv'
<1> DEFINE rest == Without(cache, k)
<1>1. Cached /\ CallStep(c)
  BY DEF CallHits, CallStep
<1>2. PICK i \in Hits(k) : cache' = Append(rest, cache[i])
  BY DEF CallHits
<1>3. i \in DOMAIN cache /\ cache[i].key = k /\ cache[i] \in CacheEntry /\ cache \in Seq(CacheEntry)
  BY DEF Hits, TypeOK
<1>4. /\ rest \in Seq(CacheEntry) /\ DistinctKeys(rest)
      /\ \A j \in DOMAIN rest : rest[j].key # k /\ \E n \in DOMAIN cache : rest[j] = cache[n]
      /\ Len(rest) = Len(cache) - 1
  BY <1>3, WithoutLeaves DEF CacheInv
<1> HIDE DEF rest
<1>5. /\ DistinctKeys(cache') /\ Len(cache') = Len(rest) + 1
      /\ \A j \in DOMAIN cache' : cache'[j] = cache[i] \/ \E n \in DOMAIN rest : cache'[j] = rest[n]
  BY <1>2, <1>3, <1>4, AppendEntry
<1>6. \A j \in DOMAIN cache' : \E n \in DOMAIN cache : cache'[j] = cache[n]
  BY <1>3, <1>4, <1>5
<1>7. \A j \in DOMAIN cache' : EntryServes(cache[j])'
  <2>1. ~Evict(c)
    BY DEF CallHits, Evict
  <2>2. \A e \in CacheEntry : EntryServes(e) => EntryServes(e)'
    BY <1>1, <2>1, FailuresAreCaught
  <2> QED
    BY <1>6, <2>2 DEF EntryServes, CacheInv, TypeOK
<1>8. Len(cache') <= CacheMax
  BY <1>3, <1>4, <1>5 DEF CacheInv
<1> QED
  BY <1>1, <1>5, <1>7, <1>8 DEF CacheInv

LEMMA CacheInvMiss ==
  ASSUME TypeOK, SemaphoreInv, CacheInv, NEW c \in Call, NEW k \in Key, CallMisses(c, k)
  PROVE  CacheInv'
<1>1. CASE ~Cached
  BY <1>1 DEF CacheInv, CallMisses
<1>2. CASE Cached
  <2> DEFINE rest == Without(cache, k)
             new  == [key |-> k, flight |-> c, expiresAt |-> now + Ttl]
             all  == Append(rest, new)
  <2>1. CallStep(c) /\ ~Evict(c)
    BY DEF CallStep, CallMisses, Evict, Acquire, Evicted
  <2>2. cache' = Trim(all)
    BY <1>2 DEF CallMisses
  <2>3. new \in CacheEntry /\ new.key = k /\ new.flight = c
    BY AdapterAssumption DEF TypeOK, CacheEntry
  <2>4. cache \in Seq(CacheEntry)
    BY DEF TypeOK
  <2>5. /\ rest \in Seq(CacheEntry) /\ DistinctKeys(rest)
        /\ \A j \in DOMAIN rest : rest[j].key # k /\ \E n \in DOMAIN cache : rest[j] = cache[n]
    BY <2>4, WithoutLeaves DEF CacheInv
  <2> HIDE DEF rest, new
  <2>6. /\ all \in Seq(CacheEntry) /\ DistinctKeys(all)
        /\ \A j \in DOMAIN all : all[j] = new \/ \E n \in DOMAIN rest : all[j] = rest[n]
    BY <2>3, <2>5, AppendEntry
  <2> HIDE DEF all
  <2>7. /\ DistinctKeys(cache') /\ Len(cache') <= CacheMax
        /\ \A j \in DOMAIN cache' : \E n \in DOMAIN all : cache'[j] = all[n]
    BY <2>2, <2>6, TrimLeaves
  <2>8. \A j \in DOMAIN cache' : cache'[j] = new \/ \E n \in DOMAIN cache : cache'[j] = cache[n]
    BY <2>5, <2>6, <2>7
  <2>9. EntryServes(new)'
    <3>1. /\ shares' = [shares EXCEPT ![c] = c]
          /\ shares \in [Call -> Call \cup {NoCall}] /\ flights \in [Call -> Flight]
      BY DEF CallMisses, TypeOK
    <3> DEFINE flight(phase) == [NoFlight EXCEPT !.pc = phase, !.key = k, !.startedAt = now]
    <3>2. \A phase \in Phase : flight(phase).key = k /\ flight(phase).pc = phase
      BY DEF NoFlight
    <3> HIDE DEF flight
    <3>3. \E phase \in {"admitted", "failed", "queued"} :
            /\ flights' = [flights EXCEPT ![c] = flight(phase)]
            /\ phase = "failed" => c \in evicting'
      BY <1>2 DEF CallMisses, Acquire, Evicted, flight
    <3>4. flights'[c].key = k /\ (flights'[c].pc = "failed" => c \in evicting')
      BY <3>1, <3>2, <3>3 DEF Phase
    <3>5. shares'[c] # NoCall
      BY <3>1, AdapterAssumption
    <3> QED
      BY <2>3, <3>4, <3>5 DEF EntryServes, new
  <2>10. \A j \in DOMAIN cache' : EntryServes(cache[j])'
    <3>1. \A e \in CacheEntry : EntryServes(e) => EntryServes(e)'
      BY <1>2, <2>1, FailuresAreCaught
    <3> QED
      BY <2>3, <2>8, <2>9, <3>1 DEF EntryServes, CacheInv, TypeOK, new
  <2> QED
    BY <1>2, <2>7, <2>10 DEF CacheInv
<1> QED
  BY <1>1, <1>2

LEMMA CacheInvEvict ==
  ASSUME TypeOK, SemaphoreInv, CacheInv, NEW c \in Call, Evict(c)
  PROVE  CacheInv'
<1> DEFINE k    == flights[c].key
           rest == Without(cache, k)
<1>1. /\ cache' = rest /\ evicting' = evicting \ {c}
      /\ UNCHANGED <<shares, flights>>
  BY DEF Evict
<1>2. cache \in Seq(CacheEntry)
  BY DEF TypeOK
<1>3. /\ rest \in Seq(CacheEntry) /\ DistinctKeys(rest)
      /\ \A j \in DOMAIN rest : rest[j].key # k /\ \E n \in DOMAIN cache : rest[j] = cache[n]
      /\ Len(rest) <= Len(cache)
  BY <1>2, WithoutLeaves DEF CacheInv
<1>4. Cached \/ rest = << >>
  <2>1. CASE cache = << >>
    BY <2>1 DEF Without
  <2> QED
    BY <2>1 DEF CacheInv
<1> HIDE DEF rest
<1>5. \A j \in DOMAIN rest : EntryServes(rest[j]) /\ rest[j].flight # c
  BY <1>3 DEF CacheInv, EntryServes
<1>6. Len(rest) <= CacheMax
  <2>1. Len(rest) \in Nat /\ Len(cache) \in Nat /\ CacheMax \in Nat
    BY <1>2, <1>3, AdapterAssumption
  <2> QED
    BY <1>3, <2>1 DEF CacheInv
<1> QED
  BY <1>1, <1>3, <1>4, <1>5, <1>6 DEF CacheInv, EntryServes

LEMMA CacheInvStep ==
  ASSUME TypeOK, SemaphoreInv, CacheInv, [Next]_vars
  PROVE  CacheInv'
<1>1. CASE UNCHANGED vars \/ ClockAdvances
  BY <1>1 DEF vars, ClockAdvances, CacheInv, EntryServes
<1>2. ASSUME NEW c \in Call, CallStep(c),
             ~Evict(c), \A k \in Key : ~CallHits(c, k) /\ ~CallMisses(c, k)
      PROVE  CacheInv'
  <2>1. cache' = cache
    BY <1>2 DEF CallStep, Abort, Enter, MethodSucceeds, MethodFails, Wake, LeaveOk, LeaveFailed
  <2>2. CASE ~Cached
    BY <2>1, <2>2 DEF CacheInv
  <2>3. CASE Cached
    <3>1. \A e \in CacheEntry : EntryServes(e) => EntryServes(e)'
      BY <1>2, <2>3, FailuresAreCaught
    <3>2. \A i \in DOMAIN cache : cache[i] \in CacheEntry
      BY DEF TypeOK
    <3> QED
      BY <2>1, <2>3, <3>1, <3>2 DEF CacheInv, EntryServes
  <2> QED
    BY <2>2, <2>3
<1> QED
  BY <1>1, <1>2, CacheInvHit, CacheInvMiss, CacheInvEvict DEF Next, AtHorizon

(* The cache keeps one entry per key, within its size, and a failed promise *)
(* only until its catch handler has run (setCached, get).                   *)
THEOREM NoFailureServed == Spec => []CacheServesNoFailure
<1>1. Init => CacheInv
  BY AdapterAssumption DEF Init, CacheInv, DistinctKeys
<1>2. (TypeOK /\ SemaphoreInv) /\ CacheInv /\ [Next]_vars => CacheInv'
  BY CacheInvStep
<1>3. CacheInv => CacheServesNoFailure
  BY DEF CacheInv, DistinctKeys, EntryServes, CacheServesNoFailure, At
<1> QED
  BY <1>1, <1>2, <1>3, Invariance, PTL DEF Spec

=============================================================================

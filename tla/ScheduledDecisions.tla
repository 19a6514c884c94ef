------------------------ MODULE ScheduledDecisions ------------------------
(***************************************************************************)
(* What a `.schedule(...)` rule promises, without clocks, leases, batches   *)
(* or failures: every triggering event opens a decision for its slot; the   *)
(* decision waits, is taken up, and is then either postponed, acted upon    *)
(* once, or retired.  Only a decision that has been taken up is acted upon, *)
(* postponed or retired, and one that was acted upon is never postponed.    *)
(***************************************************************************)
EXTENDS Naturals

CONSTANTS Slot, Nothing

VARIABLES pending,   \* the number of the decision a slot is waiting for, or Nothing
          taken,     \* the slots whose decision has been taken up
          acted      \* the decisions whose actions were performed

Init ==
  /\ pending = [s \in Slot |-> Nothing]
  /\ taken = {}
  /\ acted = {}

(* A new event opens a decision; an older one of the slot is superseded.    *)
(* Decisions of a slot are numbered in the order they are opened.           *)
Open(s) ==
  /\ pending'[s] \in Nat
  /\ pending[s] = Nothing \/ pending[s] < pending'[s]
  /\ <<s, pending'[s]>> \notin acted
  /\ pending' = [pending EXCEPT ![s] = pending'[s]]
  /\ taken' = taken \ {s}
  /\ UNCHANGED acted

TakeUp(S) ==
  /\ \A s \in S : pending[s] # Nothing
  /\ taken' = taken \cup S
  /\ UNCHANGED <<pending, acted>>

Act(s) ==
  /\ s \in taken /\ <<s, pending[s]>> \notin acted
  /\ acted' = acted \cup {<<s, pending[s]>>}
  /\ UNCHANGED <<pending, taken>>

Postpone(s) ==
  /\ s \in taken /\ <<s, pending[s]>> \notin acted
  /\ taken' = taken \ {s}
  /\ UNCHANGED <<pending, acted>>

Retire(s) ==
  /\ s \in taken
  /\ pending' = [pending EXCEPT ![s] = Nothing]
  /\ taken' = taken \ {s}
  /\ UNCHANGED acted

Next ==
  \/ \E s \in Slot : Open(s) \/ Act(s) \/ Postpone(s) \/ Retire(s)
  \/ \E S \in SUBSET Slot : TakeUp(S)

vars == <<pending, taken, acted>>

Spec == Init /\ [][Next]_vars

=============================================================================

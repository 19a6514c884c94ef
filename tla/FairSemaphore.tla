--------------------------- MODULE FairSemaphore ---------------------------
(***************************************************************************)
(* What the concurrency limit of an integration promises: at most Limit     *)
(* clients hold a slot, slots are given out in the order of arrival, and    *)
(* nobody waits while a slot is free.  A waiting client may give up.        *)
(***************************************************************************)
EXTENDS Naturals, FiniteSets, Sequences

CONSTANTS Client, Limit

VARIABLES holding,   \* the clients that hold a slot
          queue      \* the clients that wait, in the order they came

Init == holding = {} /\ queue = << >>

Waiting == { queue[i] : i \in DOMAIN queue }

Enter(c) ==
  /\ c \notin holding
  /\ Cardinality(holding) < Limit /\ queue = << >>
  /\ holding' = holding \cup {c}
  /\ UNCHANGED queue

Wait(c) ==
  /\ c \notin holding \cup Waiting
  /\ Cardinality(holding) = Limit
  /\ queue' = Append(queue, c)
  /\ UNCHANGED holding

GiveUp(c) ==
  /\ \E i \in DOMAIN queue :
       /\ queue[i] = c
       /\ queue' = [j \in 1..(Len(queue) - 1) |-> IF j < i THEN queue[j] ELSE queue[j + 1]]
  /\ UNCHANGED holding

Leave(c) ==
  /\ c \in holding
  /\ IF queue = << >>
     THEN holding' = holding \ {c} /\ UNCHANGED queue
     ELSE /\ holding' = (holding \ {c}) \cup {Head(queue)}
          /\ queue' = Tail(queue)

Next == \E c \in Client : Enter(c) \/ Wait(c) \/ GiveUp(c) \/ Leave(c)

Spec == Init /\ [][Next]_<<holding, queue>>

=============================================================================

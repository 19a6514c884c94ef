------------------------- MODULE MCScheduledWorker -------------------------
(***************************************************************************)
(* Instances of ScheduledWorker for TLC.  One unit of time is the poll      *)
(* interval unless a configuration says otherwise.                          *)
(***************************************************************************)
EXTENDS ScheduledWorker, TLC

AllRegistered == {Slot}                 \* one registry, every rule in it
SomeUnregistered == {Slot, {}}          \* a second register() drops the rules

BatchSymmetry == Permutations(Batch)
Symmetric == Permutations(Batch) \cup Permutations(Slot)
=============================================================================

------------------------------ MODULE MCAdapter ------------------------------
(***************************************************************************)
(* Instances of Adapter for TLC.                                            *)
(***************************************************************************)
EXTENDS Adapter, TLC

Symmetric == Permutations(Call) \cup Permutations(Key)
CallSymmetry == Permutations(Call)
=============================================================================

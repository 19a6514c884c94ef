------------------------- MODULE SequenceSelection -------------------------
(***************************************************************************)
(* The rows of a sequence a condition holds for, in their order: a WHERE    *)
(* clause, or a loop that passes over the other rows.  where[i] says        *)
(* whether it holds for row i.                                              *)
(***************************************************************************)
EXTENDS Integers, Sequences

Selection(rows, where) ==
  LET upTo[n \in 0..Len(rows)] ==
        IF n = 0 THEN << >>
        ELSE IF where[n] THEN Append(upTo[n - 1], rows[n]) ELSE upTo[n - 1]
  IN  upTo

Select(rows, where) == Selection(rows, where)[Len(rows)]
=============================================================================

------------------------------ MODULE Listing ------------------------------
(* The list that a loop over 1 .. n makes of the numbers it selects.       *)
EXTENDS Integers, Sequences

(* Those in S, in ascending order. *)
InOrder(S, n) ==
    LET upto[r \in 0 .. n] ==
            IF r = 0 THEN <<>> ELSE IF r \in S THEN Append(upto[r - 1], r) ELSE upto[r - 1]
    IN upto[n]
=============================================================================

------------------------------ MODULE Ordering ------------------------------
(***************************************************************************)
(* A set in an order: what ORDER BY of a statement, sort.SliceStable and   *)
(* the sort parameter of the provider make of their rows.  The order is    *)
(* the set of the pairs whose first element comes before the second, and   *)
(* the place of an element is the number of those that come before it.     *)
(***************************************************************************)
EXTENDS Integers, FiniteSets

Earlier(S, R, e) == {d \in S : <<d, e>> \in R}

InOrder(S, R) ==
  [i \in 1..Cardinality(S) |-> CHOOSE e \in S : Cardinality(Earlier(S, R, e)) = i - 1]

(* No two elements of S are left without an order by R. *)
Orders(R, S) ==
  /\ \A d \in S : <<d, d>> \notin R
  /\ \A d, e \in S : d # e => <<d, e>> \in R \/ <<e, d>> \in R
  /\ \A c, d, e \in S : <<c, d>> \in R /\ <<d, e>> \in R => <<c, e>> \in R
=============================================================================

-------------------------- MODULE MCConcertEvents --------------------------
(* Instances of ConcertEvents for TLC: the first event has two artists, so *)
(* that it makes two rows of the joins, and a search may find one of them. *)
EXTENDS ConcertEvents, TLC

MCBegins == [e \in Events |-> <<0, 1, 2, 3>>[e]]
MCLineup == [e \in Events |-> IF e = 1 THEN {"a", "b"} ELSE {"a"}]
MCQueries ==
  {[anyArtist |-> TRUE, artists |-> {}, anyInterest |-> FALSE],
   [anyArtist |-> FALSE, artists |-> {"b"}, anyInterest |-> TRUE]}
MCSymmetry == Permutations(Slots) \cup Permutations(Statuses)
=============================================================================

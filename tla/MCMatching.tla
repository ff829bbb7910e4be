----------------------------- MODULE MCMatching -----------------------------
(* Small instance of Matching: questions that differ from the first in one *)
(* field each, and one that only looks different; three users and all      *)
(* lists of two items up to MaxLen.                                        *)
EXTENDS Matching

CONSTANTS alice, bob, abba, blur

First == [user |-> alice, basis |-> "artists", rng |-> "short_term",
          limit |-> 10, overlaps |-> 1, filter |-> ""]

MCAsked ==
  {First,
   [First EXCEPT !.overlaps = 0],
   [First EXCEPT !.basis = "tracks"],
   [First EXCEPT !.user = bob],
   [First EXCEPT !.limit = -1]}

MCAskedFew == {First, [First EXCEPT !.rng = "ever"], [First EXCEPT !.overlaps = 99]}

(* The second and the third user have the same name. *)
MCNameOf == [v \in People |-> IF v = 1 THEN 2 ELSE 1]

(* Requests and items differ in nothing but their names. *)
MCSymmetry == Permutations(Requests) \cup Permutations(Items)
=============================================================================

------------------------------ MODULE Matching ------------------------------
(***************************************************************************)
(* The matching service as a whole: the cache and the requests of          *)
(* MatchCache over the lists that Similarity scores.                       *)
(***************************************************************************)
EXTENDS MatchCache, Similarity

allVars == <<vars, lists>>

MatchingInit == Init /\ SimilarityInit

(* Bound: neither part reads a variable of the other, so their product is  *)
(* cut down to one part at a time: requests run while all lists are empty, *)
(* and lists change while no request has run.                              *)
MatchingNext ==
  \/ SimilarityInit /\ Next /\ UNCHANGED lists
  \/ Init /\ SimilarityNext /\ UNCHANGED vars

MatchingSpec == MatchingInit /\ [][MatchingNext]_allVars

(* The same without the cut, for the proofs: lists change under requests   *)
(* that are on their way.                                                  *)
ServiceNext ==
  \/ Next /\ UNCHANGED lists
  \/ SimilarityNext /\ UNCHANGED vars

ServiceSpec == MatchingInit /\ [][ServiceNext]_allVars
=============================================================================

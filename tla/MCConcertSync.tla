--------------------------- MODULE MCConcertSync ---------------------------
(* Instances of ConcertSync for TLC: three events in the first of two      *)
(* segments, the third of them on the boundary of both.                    *)
EXTENDS ConcertSync

MCBegins == [e \in Events |-> <<0, 1, 2, 3>>[e]]
=============================================================================

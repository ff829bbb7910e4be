--------------------------- MODULE MCSpotifySync ---------------------------
(* Small instances of SpotifySync. *)
EXTENDS SpotifySync, TLC

(* The handlers are interchangeable; used by the safety run only. *)
HandlerSymmetry == Permutations(Handlers)
=============================================================================

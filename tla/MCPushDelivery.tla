--------------------------- MODULE MCPushDelivery ---------------------------
(* Two fan-outs at a time, to a browser that two users share and a phone.  *)
EXTENDS PushDelivery, TLC

CONSTANTS alice, bob, b1, i1, s1, s2

SenderSymmetry == Permutations(Senders)

(* The limiter needs three windows for its property to say anything; the   *)
(* addresses have no use for the clock.  Bound: past the first hand of it  *)
(* only behaviours without rows are explored.                              *)
RowsInFirstWindow == now > Window => rows = {}
=============================================================================

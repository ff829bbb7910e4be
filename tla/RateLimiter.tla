---------------------------- MODULE RateLimiter ----------------------------
(***************************************************************************)
(* The in-memory limiter of one user, written three times in the backend:  *)
(* FindMusicMatches (5 per 10s, backend/cmd/wrappers.go) and the two push  *)
(* test endpoints (3 per 60s, backend/cmd/push_handlers.go).  A request    *)
(* passes one critical section of the limiter's mutex.                     *)
(***************************************************************************)
EXTENDS Integers, Sequences

CONSTANTS
  Limit,    \* requests admitted per window
  Window,   \* length of a window, in units of the clock
  MaxTime,  \* bound: the clock stops here
  MaxCount  \* bound: requests counted in one window

ASSUME LimiterAssumption ==
  /\ Limit \in Nat \ {0} /\ Window \in Nat /\ MaxTime \in Nat
  /\ MaxCount \in Nat /\ Limit < MaxCount

VARIABLES
  now,          \* the time
  windowStart,  \* st.windowStart
  count,        \* st.count; 0: the user has no entry yet
  admitted      \* history: when the admitted requests passed

vars == <<now, windowStart, count, admitted>>

TypeOK ==
  /\ now \in 0..MaxTime
  /\ windowStart \in 0..now
  /\ count \in 0..MaxCount
  /\ admitted \in Seq(0..now)

Init == now = 0 /\ windowStart = 0 /\ count = 0 /\ admitted = <<>>

Tick ==
  /\ now < MaxTime /\ now' = now + 1
  /\ UNCHANGED <<windowStart, count, admitted>>

(* The entry is missing or its window is over. *)
Stale == count = 0 \/ now - windowStart > Window

\* Mutant: the count is compared before it is incremented.
overLimitEarly(cur) == cur - 1 > Limit

overLimit(cur) == cur > Limit

\* Mutant: the entry holds the end of the window.
RequestStoresEnd ==
  /\ Stale \/ count < MaxCount
  /\ count' = IF Stale THEN 1 ELSE count + 1
  /\ windowStart' = IF Stale THEN now + Window ELSE windowStart
  /\ admitted' = IF overLimit(count') THEN admitted ELSE Append(admitted, now)
  /\ UNCHANGED now

Request ==
  /\ Stale \/ count < MaxCount
  /\ count' = IF Stale THEN 1 ELSE count + 1
  /\ windowStart' = IF Stale THEN now ELSE windowStart
  /\ admitted' = IF overLimit(count') THEN admitted ELSE Append(admitted, now)
  /\ UNCHANGED now

Next == Tick \/ Request

Spec == Init /\ [][Next]_vars

-----------------------------------------------------------------------------
(* What a fixed window does guarantee: fewer than twice the limit are      *)
(* admitted within the length of a window, wherever it is laid and however *)
(* many refused requests lie in between.  Of two windows only the second   *)
(* can be filled at its start, where one admission opens it.               *)
LessThanTwice ==
  \A i, k \in 1..Len(admitted) :
    k - i + 1 >= 2 * Limit => admitted[k] - admitted[i] > Window
=============================================================================

----------------------------- MODULE PushQueue -----------------------------
(***************************************************************************)
(* What the push dispatcher promises its callers, without goroutines,      *)
(* locks or start-up: a bounded FIFO hand-off.  A job that was offered is  *)
(* either refused, and then nothing ever happens to it, or accepted, and   *)
(* then it is taken once, in the order of acceptance, and finished.        *)
(* Nothing is accepted after the queue was closed.                         *)
(***************************************************************************)
EXTENDS Naturals, Sequences

CONSTANTS
  Jobs,      \* the jobs that callers may offer
  QueueSize  \* capacity of the channel

VARIABLES
  fate,   \* where each job stands
  queue,  \* accepted jobs nobody has taken yet
  open    \* the queue accepts jobs

vars == <<fate, queue, open>>

Fates == {"offered", "refused", "accepted", "taken", "finished"}

TypeOK ==
  /\ fate \in [Jobs -> Fates]
  /\ queue \in Seq(Jobs)
  /\ open \in BOOLEAN

Init ==
  /\ fate = [j \in Jobs |-> "offered"]
  /\ queue = <<>>
  /\ open = TRUE

Accept(j) ==
  /\ fate[j] = "offered" /\ open /\ Len(queue) < QueueSize
  /\ fate' = [fate EXCEPT ![j] = "accepted"]
  /\ queue' = Append(queue, j)
  /\ UNCHANGED open

Refuse(j) ==
  /\ fate[j] = "offered"
  /\ fate' = [fate EXCEPT ![j] = "refused"]
  /\ UNCHANGED <<queue, open>>

Take ==
  /\ queue # <<>>
  /\ fate[Head(queue)] = "accepted"
  /\ fate' = [fate EXCEPT ![Head(queue)] = "taken"]
  /\ queue' = Tail(queue)
  /\ UNCHANGED open

Finish(j) ==
  /\ fate[j] = "taken"
  /\ fate' = [fate EXCEPT ![j] = "finished"]
  /\ UNCHANGED <<queue, open>>

Close ==
  /\ open /\ open' = FALSE
  /\ UNCHANGED <<fate, queue>>

Next ==
  \/ Take \/ Close
  \/ \E j \in Jobs : Accept(j) \/ Refuse(j) \/ Finish(j)

Spec == Init /\ [][Next]_vars

(* Accepted jobs do not wait for ever. *)
FairSpec == Spec /\ WF_vars(Take) /\ \A j \in Jobs : WF_vars(Finish(j))
=============================================================================

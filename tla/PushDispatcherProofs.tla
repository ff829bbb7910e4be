------------------------ MODULE PushDispatcherProofs ------------------------
(***************************************************************************)
(* What the dispatcher guarantees for every number of calls, workers and   *)
(* queue slots: no accepted job is lost or served twice, Stop drains a     *)
(* dispatcher that was started at boot, and the dispatcher implements the  *)
(* bounded FIFO hand-off of PushQueue.                                     *)
(***************************************************************************)
EXTENDS PushDispatcher, TLAPS

-----------------------------------------------------------------------------
(* Sequences without repetitions, as the channel's buffer is one. *)

In(q, x) == \E i \in 1..Len(q) : q[i] = x
NoRepeats(q) == \A i, k \in 1..Len(q) : q[i] = q[k] => i = k

(* What a send does to the contents of the buffer. *)
LEMMA AppendContents ==
  ASSUME NEW S, NEW q \in Seq(S), NEW x \in S
  PROVE  /\ Append(q, x) \in Seq(S)
         /\ \A y : In(Append(q, x), y) <=> In(q, y) \/ y = x
         /\ NoRepeats(q) /\ ~In(q, x) => NoRepeats(Append(q, x))
<1> DEFINE r == Append(q, x)
<1>1. r \in Seq(S) /\ Len(q) \in Nat /\ Len(r) = Len(q) + 1
  OBVIOUS
<1>2. \A i \in 1..Len(q) : r[i] = q[i]
  OBVIOUS
<1>3. r[Len(q) + 1] = x
  OBVIOUS
<1> HIDE DEF r
<1>4. \A y : In(r, y) <=> In(q, y) \/ y = x
  <2> TAKE y
  <2>1. ASSUME In(r, y) PROVE In(q, y) \/ y = x
    <3>1. PICK i \in 1..Len(r) : r[i] = y
      BY <2>1 DEF In
    <3>2. i \in 1..Len(q) \/ i = Len(q) + 1
      BY <1>1
    <3> QED
      BY <3>1, <3>2, <1>2, <1>3 DEF In
  <2>2. ASSUME In(q, y) PROVE In(r, y)
    <3>1. PICK i \in 1..Len(q) : q[i] = y
      BY <2>2 DEF In
    <3>2. i \in 1..Len(r)
      BY <1>1
    <3> QED
      BY <3>1, <3>2, <1>2 DEF In
  <2>3. In(r, x)
    <3>1. Len(q) + 1 \in 1..Len(r)
      BY <1>1
    <3> QED
      BY <3>1, <1>3 DEF In
  <2> QED
    BY <2>1, <2>2, <2>3
<1>5. ASSUME NoRepeats(q), ~In(q, x) PROVE NoRepeats(r)
  <2> SUFFICES ASSUME NEW i \in 1..Len(r), NEW k \in 1..Len(r), r[i] = r[k]
               PROVE  i = k
    BY DEF NoRepeats
  <2>1. i \in 1..Len(q) \/ i = Len(q) + 1
    BY <1>1
  <2>2. k \in 1..Len(q) \/ k = Len(q) + 1
    BY <1>1
  <2> QED
    BY <2>1, <2>2, <1>2, <1>3, <1>5 DEF In, NoRepeats
<1> QED
  BY <1>1, <1>4, <1>5 DEF r

(* What a receive does to the contents of the buffer. *)
LEMMA TailContents ==
  ASSUME NEW S, NEW q \in Seq(S), q # <<>>
  PROVE  /\ Head(q) \in S /\ Tail(q) \in Seq(S)
         /\ \A y : In(q, y) <=> In(Tail(q), y) \/ y = Head(q)
         /\ NoRepeats(q) => NoRepeats(Tail(q)) /\ ~In(Tail(q), Head(q))
<1> DEFINE r == Tail(q)
           x == Head(q)
<1>1. /\ x \in S /\ r \in Seq(S)
      /\ Len(q) \in Nat /\ Len(q) > 0 /\ Len(r) = Len(q) - 1 /\ q[1] = x
  OBVIOUS
<1>2. \A i \in 1..Len(r) : r[i] = q[i + 1]
  OBVIOUS
<1> HIDE DEF r, x
<1>3. \A i \in 1..Len(r) : i + 1 \in 1..Len(q) /\ i + 1 # 1
  BY <1>1
<1>4. \A i \in 1..Len(q) : i = 1 \/ i - 1 \in 1..Len(r)
  BY <1>1
<1>5. \A y : In(q, y) <=> In(r, y) \/ y = x
  <2> TAKE y
  <2>1. ASSUME In(q, y) PROVE In(r, y) \/ y = x
    <3>1. PICK i \in 1..Len(q) : q[i] = y
      BY <2>1 DEF In
    <3>2. CASE i = 1
      BY <3>1, <3>2, <1>1
    <3>3. CASE i - 1 \in 1..Len(r)
      <4>1. r[i - 1] = q[i]
        BY <3>3, <1>2
      <4> QED
        BY <4>1, <3>1, <3>3 DEF In
    <3> QED
      BY <3>2, <3>3, <1>4
  <2>2. ASSUME In(r, y) PROVE In(q, y)
    BY <2>2, <1>2, <1>3 DEF In
  <2>3. In(q, x)
    <3>1. 1 \in 1..Len(q)
      BY <1>1
    <3> QED
      BY <3>1, <1>1 DEF In
  <2> QED
    BY <2>1, <2>2, <2>3
<1>6. ASSUME NoRepeats(q) PROVE NoRepeats(r) /\ ~In(r, x)
  <2>1. NoRepeats(r)
    <3> SUFFICES ASSUME NEW i \in 1..Len(r), NEW k \in 1..Len(r), r[i] = r[k]
                 PROVE  i = k
      BY DEF NoRepeats
    <3>1. i + 1 = k + 1
      BY <1>2, <1>3, <1>6 DEF NoRepeats
    <3> QED
      BY <3>1
  <2>2. ~In(r, x)
    <3> SUFFICES ASSUME NEW i \in 1..Len(r), r[i] = x PROVE FALSE
      BY DEF In
    <3>1. 1 \in 1..Len(q)
      BY <1>1
    <3> QED
      BY <3>1, <1>1, <1>2, <1>3, <1>6 DEF NoRepeats
  <2> QED
    BY <2>1, <2>2
<1> QED
  BY <1>1, <1>5, <1>6 DEF r, x

-----------------------------------------------------------------------------
(* Types *)

USE DispatcherAssumption

(* Moving one call to a known control point keeps pc well typed. *)
LEMMA GotoType ==
  ASSUME TypeOK, NEW j \in Jobs,
         NEW to \in Entering \cup Refusals \cup {"accepted"}, Goto(j, to)
  PROVE  pc' \in [Jobs -> Entering \cup Refusals \cup {"accepted"}]
BY DEF TypeOK, Goto

(* Every step keeps the types, and with them the bounds: at most           *)
(* NumWorkers goroutines are spawned, and every worker holds a job or none. *)
LEMMA TypePreserved ==
  ASSUME TypeOK, [Next]_vars
  PROVE  TypeOK'
<1> USE DEF TypeOK, startVars, workerVars
<1>1. ASSUME NEW j \in Jobs, Snapshot(j) PROVE TypeOK'
  <2>1. pc' \in [Jobs -> Entering \cup Refusals \cup {"accepted"}]
    BY <1>1, GotoType DEF Snapshot, Entering, Refusals
  <2> QED
    BY <2>1, <1>1 DEF Snapshot
<1>2. ASSUME NEW j \in Jobs, EnterStart(j) PROVE TypeOK'
  <2>1. pc' \in [Jobs -> Entering \cup Refusals \cup {"accepted"}]
    BY <1>2, GotoType DEF EnterStart, Entering, Refusals
  <2> QED
    BY <2>1, <1>2 DEF EnterStart
<1>3. ASSUME NEW j \in Jobs, AwaitStart(j) PROVE TypeOK'
  <2>1. pc' \in [Jobs -> Entering \cup Refusals \cup {"accepted"}]
    BY <1>3, GotoType DEF AwaitStart, Entering, Refusals
  <2> QED
    BY <2>1, <1>3 DEF AwaitStart
<1>4. ASSUME NEW j \in Jobs, Spawn(j) PROVE TypeOK'
  BY <1>4 DEF Spawn, MisuseNoticed
<1>5. ASSUME NEW j \in Jobs, LeaveStart(j) PROVE TypeOK'
  <2>1. pc' \in [Jobs -> Entering \cup Refusals \cup {"accepted"}]
    BY <1>5, GotoType DEF LeaveStart, Entering, Refusals
  <2> QED
    BY <2>1, <1>5 DEF LeaveStart
<1>6. ASSUME NEW j \in Jobs, Send(j) PROVE TypeOK'
  <2>1. pc' \in [Jobs -> Entering \cup Refusals \cup {"accepted"}]
    BY <1>6, GotoType DEF Send, Entering, Refusals
  <2> QED
    BY <2>1, <1>6, AppendContents DEF Send
<1>7. ASSUME NEW j \in Jobs, SendPanics(j) PROVE TypeOK'
  <2>1. pc' \in [Jobs -> Entering \cup Refusals \cup {"accepted"}]
    BY <1>7, GotoType DEF SendPanics, Entering, Refusals
  <2> QED
    BY <2>1, <1>7 DEF SendPanics
<1>8. ASSUME NEW j \in Jobs, GiveUp(j) PROVE TypeOK'
  <2>1. pc' \in [Jobs -> Entering \cup Refusals \cup {"accepted"}]
    BY <1>8, GotoType DEF GiveUp, Entering, Refusals
  <2> QED
    BY <2>1, <1>8 DEF GiveUp
<1>9. ASSUME NEW j \in Jobs, ContextEnds(j) PROVE TypeOK'
  BY <1>9 DEF ContextEnds
<1>10. ASSUME NEW w \in Workers, Receive(w) PROVE TypeOK'
  BY <1>10, TailContents DEF Receive
<1>11. ASSUME NEW w \in Workers, Handle(w) PROVE TypeOK'
  BY <1>11 DEF Handle
<1>12. ASSUME NEW w \in Workers, Exit(w) PROVE TypeOK'
  BY <1>12 DEF Exit
<1>13. ASSUME StopCloses PROVE TypeOK'
  BY <1>13 DEF StopCloses
<1>14. ASSUME StopReturns PROVE TypeOK'
  BY <1>14 DEF StopReturns
<1>15. ASSUME NEW j \in Jobs, AddPanics(j) PROVE TypeOK'
  <2>1. pc' \in [Jobs -> Entering \cup Refusals \cup {"accepted"}]
    BY <1>15, GotoType DEF AddPanics, Entering, Refusals
  <2> QED
    BY <2>1, <1>15 DEF AddPanics, MisuseNoticed
<1>16. CASE UNCHANGED vars
  BY <1>16 DEF vars
<1> QED
  BY <1>1, <1>2, <1>3, <1>4, <1>5, <1>6, <1>7, <1>8, <1>9, <1>10, <1>11, <1>12,
     <1>13, <1>14, <1>15, <1>16 DEF Next, Enqueue, Worker

(* The state of the dispatcher is well typed in every behaviour, for any   *)
(* number of calls, workers and queue slots.                               *)
THEOREM TypeCorrect == Spec => []TypeOK
<1>1. Init => TypeOK
  BY DEF Init, TypeOK, Entering, Workers
<1>2. TypeOK /\ [Next]_vars => TypeOK'
  BY TypePreserved
<1> QED
  BY <1>1, <1>2, PTL DEF Spec

-----------------------------------------------------------------------------
(* Conservation *)

OneHolder == \A v, w \in Workers : holding[v] = holding[w] /\ holding[v] # "none" => v = w

(* Conservation in terms of the contents of the buffer. *)
LEMMA ConservationByContents ==
  Conservation <=> NoRepeats(queue) /\ OneHolder /\ \A j \in Jobs : Placed(j)
BY DEF Conservation, NoRepeats, OneHolder

(* A step that moves no job, and neither accepts nor forgets one, keeps    *)
(* every job in its place.                                                 *)
LEMMA NothingMoved ==
  ASSUME Conservation, UNCHANGED <<queue, holding, handled>>,
         \A k \in Jobs : pc'[k] = "accepted" <=> pc[k] = "accepted"
  PROVE  Conservation'
BY DEF Conservation, Placed, InQueue, Held

(* A call that goes to a control point other than "accepted", from one     *)
(* other than "accepted", does not change which jobs are accepted.         *)
LEMMA GotoKeepsAccepted ==
  ASSUME TypeOK, NEW j \in Jobs, NEW to, to # "accepted", pc[j] # "accepted", Goto(j, to)
  PROVE  \A k \in Jobs : pc'[k] = "accepted" <=> pc[k] = "accepted"
BY DEF TypeOK, Goto

(* No step loses a job, gives it to two workers, or puts a refused job in  *)
(* the queue.                                                              *)
LEMMA ConservationPreserved ==
  ASSUME TypeOK, Conservation, [Next]_vars
  PROVE  Conservation'
<1> USE DEF startVars, workerVars
<1>1. ASSUME NEW j \in Jobs, Snapshot(j) PROVE Conservation'
  BY <1>1, GotoKeepsAccepted, NothingMoved DEF Snapshot
<1>2. ASSUME NEW j \in Jobs, EnterStart(j) PROVE Conservation'
  BY <1>2, GotoKeepsAccepted, NothingMoved DEF EnterStart
<1>3. ASSUME NEW j \in Jobs, AwaitStart(j) PROVE Conservation'
  BY <1>3, GotoKeepsAccepted, NothingMoved DEF AwaitStart
<1>4. ASSUME NEW j \in Jobs, LeaveStart(j) PROVE Conservation'
  BY <1>4, GotoKeepsAccepted, NothingMoved DEF LeaveStart
<1>5. ASSUME NEW j \in Jobs, SendPanics(j) \/ AddPanics(j) PROVE Conservation'
  BY <1>5, GotoKeepsAccepted, NothingMoved DEF SendPanics, AddPanics
<1>6. ASSUME NEW j \in Jobs, GiveUp(j) PROVE Conservation'
  BY <1>6, GotoKeepsAccepted, NothingMoved DEF GiveUp
<1>7. ASSUME NEW j \in Jobs, Spawn(j) PROVE Conservation'
  BY <1>7, NothingMoved DEF Spawn
<1>8. ASSUME NEW j \in Jobs, ContextEnds(j) PROVE Conservation'
  BY <1>8, NothingMoved DEF ContextEnds
<1>9. ASSUME NEW w \in Workers, Exit(w) PROVE Conservation'
  BY <1>9, NothingMoved DEF Exit
<1>10. ASSUME StopCloses PROVE Conservation'
  BY <1>10, NothingMoved DEF StopCloses
<1>11. ASSUME StopReturns PROVE Conservation'
  BY <1>11, NothingMoved DEF StopReturns
<1>12. ASSUME NEW j \in Jobs, Send(j) PROVE Conservation'
  <2>1. queue \in Seq(Jobs) /\ queue' = Append(queue, j) /\ UNCHANGED <<holding, handled>>
    BY <1>12 DEF Send, TypeOK
  <2>2. pc[j] = "send" /\ pc' = [pc EXCEPT ![j] = "accepted"]
    BY <1>12 DEF Send, Goto
  <2>3. ~In(queue, j) /\ ~Held(j) /\ j \notin handled
    BY <2>2 DEF Conservation, Placed, InQueue, In
  <2>4. NoRepeats(queue')
    BY <2>1, <2>3, AppendContents, ConservationByContents
  <2>5. \A y : In(queue', y) <=> In(queue, y) \/ y = j
    BY <2>1, AppendContents
  <2>6. OneHolder'
    BY <2>1, ConservationByContents DEF OneHolder
  <2>7. ASSUME NEW k \in Jobs PROVE Placed(k)'
    <3>1. Placed(k)
      BY DEF Conservation
    <3>2. In(queue', k) <=> In(queue, k) \/ k = j
      BY <2>5
    <3>3. pc'[k] = "accepted" <=> pc[k] = "accepted" \/ k = j
      BY <2>2 DEF TypeOK
    <3> QED
      BY <3>1, <3>2, <3>3, <2>1, <2>3 DEF Placed, InQueue, In, Held
  <2> QED
    BY <2>4, <2>6, <2>7 DEF Conservation, NoRepeats, OneHolder
<1>13. ASSUME NEW w \in Workers, Receive(w) PROVE Conservation'
  <2> DEFINE h == Head(queue)
  <2>1. /\ queue \in Seq(Jobs) /\ queue # <<>> /\ queue' = Tail(queue)
        /\ holding[w] = "none" /\ holding' = [holding EXCEPT ![w] = h]
        /\ UNCHANGED <<pc, handled>>
    BY <1>13 DEF Receive, TypeOK
  <2>2. h \in Jobs /\ \A y : In(queue, y) <=> In(queue', y) \/ y = h
    BY <2>1, TailContents
  <2>3. NoRepeats(queue') /\ ~In(queue', h)
    BY <2>1, TailContents, ConservationByContents
  <2>4. ~Held(h) /\ h \notin handled /\ pc[h] = "accepted"
    BY <2>2 DEF Conservation, Placed, InQueue, In
  <2> HIDE DEF h
  <2>5. \A v \in Workers : holding'[v] = IF v = w THEN h ELSE holding[v]
    BY <2>1 DEF TypeOK
  <2>6. OneHolder'
    BY <2>4, <2>5, ConservationByContents DEF OneHolder, Held
  <2>7. \A k \in Jobs : Held(k)' <=> Held(k) \/ k = h
    BY <2>1, <2>5 DEF Held
  <2>8. ASSUME NEW k \in Jobs PROVE Placed(k)'
    <3>1. Placed(k) /\ (Held(k)' <=> Held(k) \/ k = h)
      BY <2>7 DEF Conservation
    <3>2. In(queue, k) <=> In(queue', k) \/ k = h
      BY <2>2
    <3> QED
      BY <3>1, <3>2, <2>1, <2>3, <2>4 DEF Placed, InQueue, In
  <2> QED
    BY <2>3, <2>6, <2>8 DEF Conservation, NoRepeats, OneHolder
<1>14. ASSUME NEW w \in Workers, Handle(w) PROVE Conservation'
  <2> DEFINE h == holding[w]
  <2>1. /\ h \in Jobs /\ handled' = handled \cup {h} /\ UNCHANGED <<pc, queue>>
        /\ holding' = [holding EXCEPT ![w] = "none"]
    BY <1>14 DEF Handle, TypeOK
  <2>2. Held(h) /\ h \notin handled /\ ~InQueue(h) /\ pc[h] = "accepted"
    BY <2>1 DEF Conservation, Placed, Held
  <2>3. \A v \in Workers : holding[v] = h => v = w
    BY <2>1 DEF Conservation
  <2>4. \A v \in Workers : holding'[v] = IF v = w THEN "none" ELSE holding[v]
    BY <2>1 DEF TypeOK
  <2>5. \A k \in Jobs : Held(k)' <=> Held(k) /\ k # h
    BY <2>3, <2>4 DEF Held
  <2> HIDE DEF h
  <2>6. OneHolder'
    BY <2>4 DEF OneHolder, Conservation
  <2>7. ASSUME NEW k \in Jobs PROVE Placed(k)'
    <3>1. Placed(k) /\ (Held(k)' <=> Held(k) /\ k # h) /\ (InQueue(k)' <=> InQueue(k))
      BY <2>1, <2>5 DEF Conservation, InQueue
    <3> QED
      BY <3>1, <2>1, <2>2 DEF Placed
  <2>8. NoRepeats(queue')
    BY <2>1, ConservationByContents
  <2> QED
    BY <2>6, <2>7, <2>8 DEF Conservation, NoRepeats, OneHolder
<1>15. CASE UNCHANGED vars
  BY <1>15, NothingMoved DEF vars
<1> QED
  BY <1>1, <1>2, <1>3, <1>4, <1>5, <1>6, <1>7, <1>8, <1>9, <1>10, <1>11, <1>12,
     <1>13, <1>14, <1>15 DEF Next, Enqueue, Worker

(* Every accepted job is in the channel once, with one worker, or handled, *)
(* whatever calls, starts, stops and expiring contexts are interleaved.    *)
THEOREM NoJobLost == Spec => []Conservation
<1>1. Init => Conservation
  BY DEF Init, Conservation, Placed, InQueue, Held
<1>2. TypeOK /\ Conservation /\ [Next]_vars => Conservation'
  BY ConservationPreserved
<1> QED
  BY <1>1, <1>2, TypeCorrect, PTL DEF Spec

-----------------------------------------------------------------------------
(* Stop, when main has called Start *)

(* All workers exist from the start, and a worker returns only from a      *)
(* closed and empty channel, which stays closed and empty.                 *)
Drained ==
  /\ started /\ spawned = NumWorkers
  /\ \A j \in Jobs : pc[j] \notin {"start", "spawn"}
  /\ \A w \in exited : ~open /\ queue = <<>> /\ holding[w] = "none"
  /\ stopPc = "returned" => exited = Workers

Drain == starter = "boot" => Drained

(* A dispatcher once started at boot stays one: startOnce has run.         *)
LEMMA BootStays ==
  ASSUME [Next]_vars, starter' = "boot"
  PROVE  starter = "boot"
BY DispatcherAssumption
DEF Next, Enqueue, Worker, Snapshot, EnterStart, AwaitStart, Spawn, AddPanics, LeaveStart, Send,
  SendPanics, GiveUp, ContextEnds, Receive, Handle, Exit, StopCloses, StopReturns,
  startVars, vars

(* No step of a dispatcher that was started at boot wakes a worker that    *)
(* has returned or fills the drained channel again.                        *)
LEMMA DrainedPreserved ==
  ASSUME TypeOK, Drained, starter = "boot", [Next]_vars
  PROVE  Drained'
<1> USE DEF startVars, workerVars, Drained, TypeOK
<1>1. ASSUME NEW j \in Jobs, Snapshot(j) PROVE Drained'
  BY <1>1 DEF Snapshot, Goto
<1>2. ASSUME NEW j \in Jobs, \/ EnterStart(j) \/ AwaitStart(j) \/ Spawn(j)
                            \/ AddPanics(j) \/ LeaveStart(j)
      PROVE  Drained'
  BY <1>2 DEF EnterStart, AwaitStart, Spawn, AddPanics, LeaveStart
<1>3. ASSUME NEW j \in Jobs, Send(j) PROVE Drained'
  BY <1>3 DEF Send, Goto
<1>4. ASSUME NEW j \in Jobs, SendPanics(j) PROVE Drained'
  BY <1>4 DEF SendPanics, Goto
<1>5. ASSUME NEW j \in Jobs, GiveUp(j) PROVE Drained'
  BY <1>5 DEF GiveUp, Goto
<1>6. ASSUME NEW j \in Jobs, ContextEnds(j) PROVE Drained'
  BY <1>6 DEF ContextEnds
<1>7. ASSUME NEW w \in Workers, Receive(w) PROVE Drained'
  BY <1>7 DEF Receive
<1>8. ASSUME NEW w \in Workers, Handle(w) PROVE Drained'
  BY <1>8 DEF Handle
<1>9. ASSUME NEW w \in Workers, Exit(w) PROVE Drained'
  BY <1>9 DEF Exit, Alive
<1>10. CASE StopCloses
  BY <1>10 DEF StopCloses
<1>11. CASE StopReturns
  <2>1. \A w \in Workers : w <= spawned
    BY DEF Workers
  <2> QED
    BY <2>1, <1>11 DEF StopReturns, Alive
<1>12. CASE UNCHANGED vars
  BY <1>12 DEF vars
<1> QED
  BY <1>1, <1>2, <1>3, <1>4, <1>5, <1>6, <1>7, <1>8, <1>9, <1>10, <1>11, <1>12
  DEF Next, Enqueue, Worker

(* Invariance of Drain.                                                    *)
LEMMA DrainInvariant == Spec => []Drain
<1>1. Init => Drain
  BY DispatcherAssumption DEF Init, Drain, Drained
<1>2. TypeOK /\ Drain /\ [Next]_vars => Drain'
  BY BootStays, DrainedPreserved DEF Drain
<1> QED
  BY <1>1, <1>2, TypeCorrect, PTL DEF Spec

(* push_dispatcher.go:118, for a dispatcher started at boot: when Stop has *)
(* returned, every accepted job has been handled.                          *)
THEOREM StopWaits == Spec => []StopDrains
<1>1. TypeOK /\ Conservation /\ Drain => StopDrains
  <2> SUFFICES ASSUME TypeOK, Conservation, Drained, stopPc = "returned",
                      NEW j \in Jobs, pc[j] = "accepted"
               PROVE  j \in handled
    BY DEF StopDrains, Drain
  <2>1. 1 \in exited /\ exited = Workers
    BY DEF Drained, Workers
  <2>2. ~InQueue(j)
    BY <2>1 DEF Drained, InQueue
  <2>3. ~Held(j)
    BY <2>1 DEF Drained, Held
  <2> QED
    BY <2>2, <2>3 DEF Conservation, Placed
<1> QED
  BY <1>1, TypeCorrect, NoJobLost, DrainInvariant, PTL

-----------------------------------------------------------------------------
(* The context of the workers *)

(* Before anybody has started the dispatcher no worker has done anything.  *)
Unstarted ==
  starter = "none" =>
    /\ spawned = 0 /\ handled = {}
    /\ \A w \in Workers : holding[w] = "none"
    /\ \A j \in Jobs : pc[j] # "spawn"

(* Only EnterStart ends that phase, and workers are spawned after it.      *)
LEMMA UnstartedPreserved ==
  ASSUME TypeOK, Unstarted, [Next]_vars
  PROVE  Unstarted'
<1> SUFFICES ASSUME starter' = "none" PROVE Unstarted'
  BY DEF Unstarted
<1> USE DEF startVars, workerVars, Unstarted, TypeOK
<1>1. ASSUME NEW j \in Jobs, EnterStart(j) PROVE FALSE
  BY <1>1 DEF EnterStart
<1>2. ASSUME NEW j \in Jobs, Snapshot(j) \/ AwaitStart(j) \/ Send(j) \/ SendPanics(j) \/ GiveUp(j)
      PROVE  Unstarted'
  BY <1>2 DEF Snapshot, AwaitStart, Send, SendPanics, GiveUp, Goto
<1>3. ASSUME NEW j \in Jobs, Spawn(j) \/ AddPanics(j) \/ LeaveStart(j) PROVE Unstarted'
  BY <1>3 DEF Spawn, AddPanics, LeaveStart
<1>4. ASSUME NEW j \in Jobs, ContextEnds(j) PROVE Unstarted'
  BY <1>4 DEF ContextEnds
<1>5. ASSUME NEW w \in Workers, Receive(w) \/ Handle(w) \/ Exit(w) PROVE Unstarted'
  <2>1. starter = "none"
    BY <1>5 DEF Receive, Handle, Exit
  <2>2. holding[w] = "none" /\ ~Alive(w)
    BY <2>1 DEF Alive, Workers
  <2> QED
    BY <2>2, <1>5 DEF Receive, Handle, Exit
<1>6. CASE StopCloses \/ StopReturns \/ UNCHANGED vars
  BY <1>6 DEF StopCloses, StopReturns, vars
<1> QED
  BY <1>1, <1>2, <1>3, <1>4, <1>5, <1>6 DEF Next, Enqueue, Worker

(* Invariance of Unstarted.                                                *)
LEMMA UnstartedInvariant == Spec => []Unstarted
<1>1. Init => Unstarted
  BY DispatcherAssumption DEF Init, Unstarted
<1> QED
  BY <1>1, UnstartedPreserved, TypeCorrect, PTL DEF Spec

(* A context that has ended stays so, and the workers keep their context.  *)
LEMMA ContextStaysDead ==
  ASSUME TypeOK, [Next]_vars, StartContextLive'
  PROVE  StartContextLive \/ starter = "none"
<1>1. starter' = starter \/ starter = "none"
  BY DEF Next, Enqueue, Worker, Snapshot, EnterStart, AwaitStart, Spawn, AddPanics, LeaveStart, Send,
    SendPanics, GiveUp, ContextEnds, Receive, Handle, Exit, StopCloses, StopReturns,
    startVars, vars
<1>2. \A j \in Jobs : ctxDone[j] => ctxDone'[j]
  BY DEF Next, Enqueue, Worker, Snapshot, EnterStart, AwaitStart, Spawn, AddPanics, LeaveStart, Send,
    SendPanics, GiveUp, ContextEnds, Receive, Handle, Exit, StopCloses, StopReturns, vars,
    TypeOK
<1> QED
  BY <1>1, <1>2 DEF StartContextLive, TypeOK

(* The workers skip no delivery because the request that caused it is      *)
(* over; only the end of the context they were started with matters.       *)
THEOREM DeliveryOutlivesRequest == Spec => []HandledIsAttempted
<1>1. Init => HandledIsAttempted
  BY DEF Init, HandledIsAttempted
<1>2. TypeOK /\ Unstarted /\ HandledIsAttempted /\ [Next]_vars => HandledIsAttempted'
  <2> SUFFICES ASSUME TypeOK, Unstarted, HandledIsAttempted, [Next]_vars, StartContextLive'
               PROVE  (handled \ NilJobs \subseteq attempted)'
    BY DEF HandledIsAttempted
  <2>1. handled \ NilJobs \subseteq attempted
    BY ContextStaysDead DEF HandledIsAttempted, Unstarted
  <2>2. ASSUME NEW w \in Workers, Handle(w) PROVE (handled \ NilJobs \subseteq attempted)'
    <3>1. StartContextLive
      BY <2>2 DEF Handle, startVars, StartContextLive
    <3> QED
      BY <2>1, <2>2, <3>1 DEF Handle
  <2>3. ASSUME UNCHANGED <<handled, attempted>>
        PROVE  (handled \ NilJobs \subseteq attempted)'
    BY <2>1, <2>3
  <2>4. CASE \E w \in Workers : Handle(w)
    BY <2>2, <2>4
  <2>5. CASE ~\E w \in Workers : Handle(w)
    BY <2>3, <2>5 DEF Next, Enqueue, Worker, Snapshot, EnterStart, AwaitStart, Spawn,
       AddPanics, LeaveStart, Send, SendPanics, GiveUp, ContextEnds, Receive, Exit, StopCloses,
       StopReturns, workerVars, vars
  <2> QED
    BY <2>4, <2>5
<1> QED
  BY <1>1, <1>2, TypeCorrect, UnstartedInvariant, PTL DEF Spec

-----------------------------------------------------------------------------
(* Refinement of PushQueue *)

USE DEF Entering, Refusals

(* A step that moves no job leaves alone the fate of a call that stays     *)
(* where it is.                                                            *)
LEMMA SameFates ==
  ASSUME UNCHANGED <<holding, handled>>, NEW k, pc'[k] = pc[k]
  PROVE  Fate(k)' = Fate(k)
BY DEF Fate, Held

(* The image of a step under the mapping, when it changes the fate of one  *)
(* call only.                                                              *)
LEMMA OneFate ==
  ASSUME NEW j \in Jobs, \A k \in Jobs \ {j} : Fate(k)' = Fate(k)
  PROVE  [k \in Jobs |-> Fate(k)]' =
           [[k \in Jobs |-> Fate(k)] EXCEPT ![j] = Fate(j)']
OBVIOUS

(* A call that is refused is refused in the abstract queue.                *)
LEMMA RefusalStep ==
  ASSUME TypeOK, NEW j \in Jobs, pc[j] \in Entering, NEW to \in Refusals, Goto(j, to),
         UNCHANGED <<queue, open, holding, handled>>
  PROVE  Abstract!Refuse(j)
<1>1. pc'[j] = to /\ \A k \in Jobs \ {j} : pc'[k] = pc[k]
  BY DEF TypeOK, Goto
<1>2. \A k \in Jobs \ {j} : Fate(k)' = Fate(k)
  BY <1>1, SameFates
<1>3. Fate(j) = "offered" /\ Fate(j)' = "refused"
  BY <1>1 DEF Fate
<1> QED
  BY <1>2, <1>3, OneFate DEF Abstract!Refuse

(* A call that moves on towards the send is not seen by the abstract queue. *)
LEMMA EnteringStep ==
  ASSUME TypeOK, NEW j \in Jobs, pc[j] \in Entering, NEW to \in Entering, Goto(j, to),
         UNCHANGED <<queue, open, holding, handled>>
  PROVE  UNCHANGED Abstract!vars
<1>1. pc'[j] = to /\ \A k \in Jobs \ {j} : pc'[k] = pc[k]
  BY DEF TypeOK, Goto
<1>2. \A k \in Jobs \ {j} : Fate(k)' = Fate(k)
  BY <1>1, SameFates
<1>3. Fate(j)' = Fate(j)
  BY <1>1 DEF Fate
<1>4. [k \in Jobs |-> Fate(k)]' = [k \in Jobs |-> Fate(k)]
  BY <1>2, <1>3
<1> QED
  BY <1>4 DEF Abstract!vars

(* Every step of the dispatcher is a step of the abstract queue, or none.  *)
LEMMA StepSimulation ==
  ASSUME TypeOK, Conservation, [Next]_vars
  PROVE  [Abstract!Next]_(Abstract!vars)
<1> USE DEF startVars, workerVars
<1> DEFINE Simulated == Abstract!Next \/ UNCHANGED Abstract!vars
<1>1. ASSUME NEW j \in Jobs, Snapshot(j) PROVE Simulated
  <2>1. pc[j] \in Entering /\ UNCHANGED <<queue, open, holding, handled>>
    BY <1>1 DEF Snapshot
  <2>2. CASE ~open
    BY <2>1, <2>2, <1>1, RefusalStep DEF Snapshot, Abstract!Next
  <2>3. CASE open /\ started
    BY <2>1, <2>3, <1>1, EnteringStep DEF Snapshot
  <2>4. CASE open /\ ~started
    BY <2>1, <2>4, <1>1, EnteringStep DEF Snapshot
  <2> QED
    BY <2>2, <2>3, <2>4
<1>2. ASSUME NEW j \in Jobs, EnterStart(j) PROVE Simulated
  BY <1>2, EnteringStep DEF EnterStart
<1>3. ASSUME NEW j \in Jobs, AwaitStart(j) PROVE Simulated
  BY <1>3, EnteringStep DEF AwaitStart
<1>4. ASSUME NEW j \in Jobs, LeaveStart(j) PROVE Simulated
  BY <1>4, EnteringStep DEF LeaveStart
<1>5. ASSUME UNCHANGED <<pc, queue, open, holding, handled>> PROVE Simulated
  <2>1. [k \in Jobs |-> Fate(k)]' = [k \in Jobs |-> Fate(k)]
    BY <1>5, SameFates
  <2> QED
    BY <2>1, <1>5 DEF Abstract!vars
<1>6. ASSUME NEW j \in Jobs, Spawn(j) PROVE Simulated
  BY <1>6, <1>5 DEF Spawn
<1>7. ASSUME NEW j \in Jobs, ContextEnds(j) PROVE Simulated
  BY <1>7, <1>5 DEF ContextEnds
<1>8. ASSUME NEW w \in Workers, Exit(w) PROVE Simulated
  BY <1>8, <1>5 DEF Exit
<1>9. CASE StopReturns
  BY <1>9, <1>5 DEF StopReturns
<1>10. CASE StopCloses
  <2>1. [k \in Jobs |-> Fate(k)]' = [k \in Jobs |-> Fate(k)]
    BY <1>10, SameFates DEF StopCloses
  <2>2. CASE open
    BY <2>1, <2>2, <1>10 DEF StopCloses, Abstract!Close, Abstract!Next
  <2>3. CASE ~open
    BY <2>1, <2>3, <1>10 DEF StopCloses, Abstract!vars, TypeOK
  <2> QED
    BY <2>2, <2>3
<1>11. ASSUME NEW j \in Jobs, SendPanics(j) \/ AddPanics(j) PROVE Simulated
  BY <1>11, RefusalStep DEF SendPanics, AddPanics, Abstract!Next
<1>12. ASSUME NEW j \in Jobs, GiveUp(j) PROVE Simulated
  BY <1>12, RefusalStep DEF GiveUp, Abstract!Next
<1>13. ASSUME NEW j \in Jobs, Send(j) PROVE Simulated
  <2>1. /\ open /\ Len(queue) < QueueSize /\ queue' = Append(queue, j)
        /\ pc[j] = "send" /\ UNCHANGED <<open, holding, handled>>
    BY <1>13 DEF Send
  <2>2. pc'[j] = "accepted" /\ \A k \in Jobs \ {j} : pc'[k] = pc[k]
    BY <1>13 DEF Send, Goto, TypeOK
  <2>3. \A k \in Jobs \ {j} : Fate(k)' = Fate(k)
    BY <2>1, <2>2, SameFates
  <2>4. ~Held(j)' /\ j \notin handled'
    BY <2>1 DEF Conservation, Placed, Held
  <2>5. Fate(j) = "offered" /\ Fate(j)' = "accepted"
    BY <2>1, <2>2, <2>4 DEF Fate
  <2>6. Abstract!Accept(j)
    BY <2>1, <2>3, <2>5, OneFate DEF Abstract!Accept
  <2> QED
    BY <2>6 DEF Abstract!Next
<1>14. ASSUME NEW w \in Workers, Receive(w) PROVE Simulated
  <2>0. PICK h \in Jobs : h = Head(queue)
    BY <1>14, TailContents DEF Receive, TypeOK
  <2>1. /\ queue \in Seq(Jobs) /\ queue # <<>> /\ queue' = Tail(queue)
        /\ holding[w] = "none" /\ holding' = [holding EXCEPT ![w] = h]
        /\ UNCHANGED <<pc, open, handled>>
    BY <1>14, <2>0 DEF Receive, TypeOK
  <2>2. In(queue, h)
    BY <2>0, <2>1, TailContents
  <2>3. ~Held(h) /\ h \notin handled /\ pc[h] = "accepted"
    BY <2>2 DEF Conservation, Placed, InQueue, In
  <2>4. \A v \in Workers : holding'[v] = IF v = w THEN h ELSE holding[v]
    BY <2>1 DEF TypeOK
  <2>5. \A k \in Jobs : Held(k)' <=> Held(k) \/ k = h
    BY <2>1, <2>4 DEF Held
  <2>6. \A k \in Jobs \ {h} : Fate(k)' = Fate(k)
    BY <2>1, <2>5 DEF Fate
  <2>7. Fate(h) = "accepted" /\ Fate(h)' = "taken"
    BY <2>1, <2>2, <2>3, <2>5 DEF Fate
  <2>8. [k \in Jobs |-> Fate(k)]' = [[k \in Jobs |-> Fate(k)] EXCEPT ![h] = "taken"]
    BY <2>2, <2>6, <2>7, OneFate
  <2>9. [k \in Jobs |-> Fate(k)][h] = "accepted"
    BY <2>2, <2>7
  <2>10. Abstract!Take
    BY <2>0, <2>1, <2>8, <2>9 DEF Abstract!Take
  <2> QED
    BY <2>10 DEF Abstract!Next
<1>15. ASSUME NEW w \in Workers, Handle(w) PROVE Simulated
  <2>0. PICK h \in Jobs : h = holding[w]
    BY <1>15 DEF Handle, TypeOK
  <2>1. /\ handled' = handled \cup {h} /\ UNCHANGED <<pc, queue, open>>
        /\ holding' = [holding EXCEPT ![w] = "none"]
    BY <1>15, <2>0 DEF Handle, TypeOK
  <2>2. Held(h) /\ h \notin handled /\ pc[h] = "accepted"
    BY <2>0, <1>15 DEF Handle, TypeOK, Conservation, Placed, Held
  <2>3. \A v \in Workers : holding'[v] = IF v = w THEN "none" ELSE holding[v]
    BY <2>1 DEF TypeOK
  <2>4. \A k \in Jobs \ {h} : Held(k)' <=> Held(k)
    BY <2>0, <2>3 DEF Held
  <2>5. \A k \in Jobs \ {h} : Fate(k)' = Fate(k)
    BY <2>1, <2>4 DEF Fate
  <2>6. Fate(h) = "taken" /\ Fate(h)' = "finished"
    BY <2>1, <2>2 DEF Fate
  <2>7. Abstract!Finish(h)
    BY <2>1, <2>5, <2>6, OneFate DEF Abstract!Finish
  <2> QED
    BY <2>1, <2>7 DEF Abstract!Next
<1>16. CASE UNCHANGED vars
  BY <1>16, <1>5 DEF vars
<1> QED
  BY <1>1, <1>2, <1>3, <1>4, <1>6, <1>7, <1>8, <1>9, <1>10, <1>11, <1>12, <1>13,
     <1>14, <1>15, <1>16 DEF Next, Enqueue, Worker

(* The dispatcher implements the bounded FIFO hand-off of PushQueue: jobs  *)
(* are accepted within the capacity and before the close, taken once and   *)
(* in the order of acceptance.                                             *)
THEOREM DispatcherRefinesQueue == Spec => RefinesQueue
<1>1. Init => Abstract!Init
  <2>1. Init => [j \in Jobs |-> Fate(j)] = [j \in Jobs |-> "offered"]
    BY DEF Init, Fate
  <2> QED
    BY <2>1 DEF Init, Abstract!Init
<1>2. TypeOK /\ Conservation /\ [Next]_vars => [Abstract!Next]_(Abstract!vars)
  BY StepSimulation
<1> QED
  BY <1>1, <1>2, TypeCorrect, NoJobLost, PTL DEF Spec, RefinesQueue, Abstract!Spec
=============================================================================

--------------------------- MODULE PushDispatcher ---------------------------
(***************************************************************************)
(* backend/business/push_dispatcher.go: Enqueue, Start, the workers and    *)
(* Stop, at the grain of the RWMutex, the two sync.Onces, the WaitGroup    *)
(* and the channel.  Every call of Enqueue carries one job, so calls and   *)
(* jobs have the same names.  Start is called by main before it serves     *)
(* requests, or by the first Enqueue that finds the dispatcher not started *)
(* (push_dispatcher.go:152): a behaviour begins in either of the two ways. *)
(***************************************************************************)
EXTENDS Naturals, Sequences, FiniteSets

CONSTANTS
  Jobs,        \* the calls of Enqueue, and their jobs
  NilJobs,     \* those whose UserID is uuid.Nil
  NumWorkers,  \* d.workers
  QueueSize    \* capacity of the channel

ASSUME DispatcherAssumption ==
  /\ NilJobs \subseteq Jobs
  /\ NumWorkers \in Nat \ {0}
  /\ QueueSize \in Nat \ {0}
  /\ "boot" \notin Jobs /\ "none" \notin Jobs

VARIABLES
  pc,         \* control point or result of an Enqueue call
  ctxDone,    \* the call's context is cancelled or past its deadline
  started,    \* d.started
  starter,    \* whose call runs in startOnce: "none", "boot" or a job
  spawned,    \* goroutines launched by Start
  startDone,  \* startOnce has completed
  queue,      \* the channel's buffer
  open,       \* the channel is open: d.closed is its negation
  holding,    \* job a worker is at; "none" between jobs
  exited,     \* workers that returned
  handled,    \* jobs whose iteration of the worker loop is over
  attempted,  \* jobs passed to SendToUser under a live context
  stopPc      \* control point of Stop

startVars == <<started, starter, spawned, startDone>>
workerVars == <<holding, exited, handled, attempted>>
vars == <<pc, ctxDone, startVars, queue, open, workerVars, stopPc>>

Workers == 1..NumWorkers
Entering == {"idle", "start", "spawn", "send"}
Refusals == {"closed", "ctx"}

TypeOK ==
  /\ pc \in [Jobs -> Entering \cup Refusals \cup {"accepted"}]
  /\ ctxDone \in [Jobs -> BOOLEAN]
  /\ started \in BOOLEAN
  /\ starter \in Jobs \cup {"none", "boot"}
  /\ spawned \in 0..NumWorkers
  /\ startDone \in BOOLEAN
  /\ queue \in Seq(Jobs)
  /\ open \in BOOLEAN
  /\ holding \in [Workers -> Jobs \cup {"none"}]
  /\ exited \subseteq Workers
  /\ handled \subseteq Jobs
  /\ attempted \subseteq Jobs
  /\ stopPc \in {"idle", "wait", "returned", "panicked"}

Init ==
  /\ pc = [j \in Jobs |-> "idle"]
  /\ ctxDone = [j \in Jobs |-> FALSE]
  /\ started \in BOOLEAN
  /\ starter = IF started THEN "boot" ELSE "none"
  /\ spawned = IF started THEN NumWorkers ELSE 0
  /\ startDone = started
  /\ queue = <<>>
  /\ open = TRUE
  /\ holding = [w \in Workers |-> "none"]
  /\ exited = {}
  /\ handled = {}
  /\ attempted = {}
  /\ stopPc = "idle"

Goto(j, to) == pc' = [pc EXCEPT ![j] = to]

-----------------------------------------------------------------------------
(* Enqueue *)

(* The snapshot under RLock. *)
Snapshot(j) ==
  /\ pc[j] = "idle"
  /\ Goto(j, IF ~open THEN "closed" ELSE IF started THEN "send" ELSE "start")
  /\ UNCHANGED <<ctxDone, startVars, queue, open, workerVars, stopPc>>

(* startOnce.Do: the first caller runs the function and sets d.started     *)
(* under the lock; the others wait for it to return.                       *)
EnterStart(j) ==
  /\ pc[j] = "start" /\ starter = "none"
  /\ starter' = j
  /\ started' = TRUE
  /\ Goto(j, "spawn")
  /\ UNCHANGED <<ctxDone, spawned, startDone, queue, open, workerVars, stopPc>>

AwaitStart(j) ==
  /\ pc[j] = "start" /\ startDone
  /\ Goto(j, "send")
  /\ UNCHANGED <<ctxDone, startVars, queue, open, workerVars, stopPc>>

\* Mutant: the loop runs once too often.
SpawnOneMore(j) ==
  /\ pc[j] = "spawn" /\ spawned <= NumWorkers
  /\ spawned' = spawned + 1
  /\ UNCHANGED <<pc, ctxDone, started, starter, startDone, queue, open, workerVars, stopPc>>

(* The counter is zero again and Stop may still be on its way out of       *)
(* wg.Wait: a WaitGroup must not be added to now.                          *)
Woken == stopPc = "wait" /\ spawned > 0 /\ spawned < NumWorkers /\ 1..spawned \subseteq exited

(* Stop, or the wg.Done that wakes it, finds the counter changed: a panic  *)
(* that nobody recovers.  It ends the process; here the rest may go on.    *)
MisuseNoticed == stopPc' = "panicked" \/ UNCHANGED stopPc

(* wg.Add(1) and the go statement, once per worker. *)
Spawn(j) ==
  /\ pc[j] = "spawn" /\ spawned < NumWorkers
  /\ spawned' = spawned + 1
  /\ IF Woken THEN MisuseNoticed ELSE UNCHANGED stopPc
  /\ UNCHANGED <<pc, ctxDone, started, starter, startDone, queue, open, workerVars>>

(* wg.Add itself panics, which Enqueue recovers; startOnce is over.        *)
AddPanics(j) ==
  /\ pc[j] = "spawn" /\ Woken
  /\ startDone' = TRUE
  /\ Goto(j, "closed")
  /\ MisuseNoticed
  /\ UNCHANGED <<ctxDone, started, starter, spawned, queue, open, workerVars>>

LeaveStart(j) ==
  /\ pc[j] = "spawn" /\ spawned = NumWorkers
  /\ startDone' = TRUE
  /\ Goto(j, "send")
  /\ UNCHANGED <<ctxDone, started, starter, spawned, queue, open, workerVars, stopPc>>

\* Mutant: the channel stays usable after Stop has set d.closed.
SendAfterClose(j) ==
  /\ pc[j] = "send" /\ Len(queue) < QueueSize
  /\ queue' = Append(queue, j)
  /\ Goto(j, "accepted")
  /\ UNCHANGED <<ctxDone, startVars, open, workerVars, stopPc>>

(* The select: send, or the context; a send on the closed channel panics   *)
(* and is recovered.                                                       *)
Send(j) ==
  /\ pc[j] = "send" /\ open /\ Len(queue) < QueueSize
  /\ queue' = Append(queue, j)
  /\ Goto(j, "accepted")
  /\ UNCHANGED <<ctxDone, startVars, open, workerVars, stopPc>>

\* Mutant: Stop sets d.closed and leaves the channel open, so that nothing
\* but its context wakes a blocked sender.
ClosedUnnoticed(j) ==
  /\ pc[j] = "send" /\ ~open /\ ctxDone[j]
  /\ Goto(j, "closed")
  /\ UNCHANGED <<ctxDone, startVars, queue, open, workerVars, stopPc>>

SendPanics(j) ==
  /\ pc[j] = "send" /\ ~open
  /\ Goto(j, "closed")
  /\ UNCHANGED <<ctxDone, startVars, queue, open, workerVars, stopPc>>

\* Mutant: the context is looked at after the send, not instead of it.
GiveUpAfterSend(j) ==
  /\ pc[j] = "send" /\ ctxDone[j] /\ open /\ Len(queue) < QueueSize
  /\ queue' = Append(queue, j)
  /\ Goto(j, "ctx")
  /\ UNCHANGED <<ctxDone, startVars, open, workerVars, stopPc>>

GiveUp(j) ==
  /\ pc[j] = "send" /\ ctxDone[j]
  /\ Goto(j, "ctx")
  /\ UNCHANGED <<ctxDone, startVars, queue, open, workerVars, stopPc>>

(* The deadline of the request passes, or its handler returns. *)
ContextEnds(j) ==
  /\ ~ctxDone[j]
  /\ ctxDone' = [ctxDone EXCEPT ![j] = TRUE]
  /\ UNCHANGED <<pc, startVars, queue, open, workerVars, stopPc>>

-----------------------------------------------------------------------------
(* A worker: for job := range d.queue *)

Alive(w) == w <= spawned /\ w \notin exited

Receive(w) ==
  /\ Alive(w) /\ holding[w] = "none" /\ queue # <<>>
  /\ holding' = [holding EXCEPT ![w] = Head(queue)]
  /\ queue' = Tail(queue)
  /\ UNCHANGED <<pc, ctxDone, startVars, open, exited, handled, attempted, stopPc>>

(* Start's ctx: the background context of main, or the context of the      *)
(* request that happened to start the dispatcher.                          *)
StartContextLive == starter = "boot" \/ (starter \in Jobs /\ ~ctxDone[starter])

\* Mutant: the worker sends under the context of the job's own request.
HandleUnderRequest(w) ==
  /\ holding[w] # "none"
  /\ handled' = handled \cup {holding[w]}
  /\ attempted' = IF ~ctxDone[holding[w]] THEN attempted \cup ({holding[w]} \ NilJobs)
                                          ELSE attempted
  /\ holding' = [holding EXCEPT ![w] = "none"]
  /\ UNCHANGED <<pc, ctxDone, startVars, queue, open, exited, stopPc>>

\* Mutant: a job without a user ends the worker with no wg.Done.
HandleNilReturns(w) ==
  /\ holding[w] \notin NilJobs \cup {"none"}
  /\ handled' = handled \cup {holding[w]}
  /\ attempted' = IF StartContextLive THEN attempted \cup {holding[w]} ELSE attempted
  /\ holding' = [holding EXCEPT ![w] = "none"]
  /\ UNCHANGED <<pc, ctxDone, startVars, queue, open, exited, stopPc>>

(* SendToUser, whose errors are only logged; a nil user is skipped.        *)
Handle(w) ==
  /\ holding[w] # "none"
  /\ handled' = handled \cup {holding[w]}
  /\ attempted' = IF StartContextLive THEN attempted \cup ({holding[w]} \ NilJobs)
                                      ELSE attempted
  /\ holding' = [holding EXCEPT ![w] = "none"]
  /\ UNCHANGED <<pc, ctxDone, startVars, queue, open, exited, stopPc>>

\* Mutant: the worker looks at d.closed, not at the channel.
ExitWhenClosed(w) ==
  /\ Alive(w) /\ holding[w] = "none" /\ ~open
  /\ exited' = exited \cup {w}
  /\ UNCHANGED <<pc, ctxDone, startVars, queue, open, holding, handled, attempted, stopPc>>

(* The range loop ends when the channel is closed and drained: wg.Done.    *)
Exit(w) ==
  /\ Alive(w) /\ holding[w] = "none" /\ queue = <<>> /\ ~open
  /\ exited' = exited \cup {w}
  /\ UNCHANGED <<pc, ctxDone, startVars, queue, open, holding, handled, attempted, stopPc>>

-----------------------------------------------------------------------------
(* Stop *)

StopCloses ==
  /\ stopPc = "idle"
  /\ open' = FALSE
  /\ stopPc' = "wait"
  /\ UNCHANGED <<pc, ctxDone, startVars, queue, workerVars>>

(* wg.Wait returns as soon as the counter is zero. *)
StopReturns ==
  /\ stopPc = "wait" /\ \A w \in Workers : ~Alive(w)
  /\ stopPc' = "returned"
  /\ UNCHANGED <<pc, ctxDone, startVars, queue, open, workerVars>>

-----------------------------------------------------------------------------
Enqueue(j) ==
  \/ Snapshot(j) \/ EnterStart(j) \/ AwaitStart(j) \/ Spawn(j) \/ AddPanics(j) \/ LeaveStart(j)
  \/ Send(j) \/ SendPanics(j) \/ GiveUp(j)

Worker(w) == Receive(w) \/ Handle(w) \/ Exit(w)

Next ==
  \/ \E j \in Jobs : Enqueue(j) \/ ContextEnds(j)
  \/ \E w \in Workers : Worker(w)
  \/ StopCloses \/ StopReturns

Spec == Init /\ [][Next]_vars

(* Goroutines that can run do run, and SendToUser returns (every provider  *)
(* call has a client timeout).  No context has to end, nobody has to stop  *)
(* the dispatcher, and a call need not be made.                            *)
Fairness ==
  /\ \A w \in Workers : WF_vars(Worker(w))
  /\ \A j \in Jobs : WF_vars(pc[j] # "idle" /\ Enqueue(j))
  /\ WF_vars(StopReturns)

FairSpec == Spec /\ Fairness

-----------------------------------------------------------------------------
InQueue(j) == \E i \in 1..Len(queue) : queue[i] = j
Held(j) == \E w \in Workers : holding[w] = j

Placed(j) ==
  /\ pc[j] = "accepted" <=> InQueue(j) \/ Held(j) \/ j \in handled
  /\ ~(InQueue(j) /\ Held(j))
  /\ ~(InQueue(j) /\ j \in handled)
  /\ ~(Held(j) /\ j \in handled)

(* Every accepted job is in exactly one place: once in the channel, with   *)
(* one worker, or handled; and no refused or unfinished call left its job  *)
(* in any of them.  Two workers never get the same job, and closing the    *)
(* channel loses none.                                                     *)
Conservation ==
  /\ \A i, k \in 1..Len(queue) : queue[i] = queue[k] => i = k
  /\ \A v, w \in Workers : holding[v] = holding[w] /\ holding[v] # "none" => v = w
  /\ \A j \in Jobs : Placed(j)

(* push_dispatcher.go:118: Stop waits for workers to finish.  When it has  *)
(* returned, every accepted job was handled and no worker is sending: if   *)
(* main started the workers.  After a start by Enqueue it need not hold:   *)
(* started is set before the first wg.Add, so a second call may have its   *)
(* job accepted while wg.Wait finds the counter at zero.                   *)
StopDrains ==
  starter = "boot" /\ stopPc = "returned"
  => \A j \in Jobs : pc[j] = "accepted" => j \in handled

(* Every handled job reached SendToUser under a live context, as long as   *)
(* the one context all workers share lives, and whatever becomes of the    *)
(* job's own request: for ever under main's, until its first caller's      *)
(* request ends under an auto-start.                                       *)
HandledIsAttempted == StartContextLive => handled \ NilJobs \subseteq attempted

(* The promise of PushQueue, with each call's place in the dispatcher      *)
(* mapped to its fate.                                                     *)
Fate(j) ==
  IF pc[j] \in Entering THEN "offered"
  ELSE IF pc[j] \in Refusals THEN "refused"
  ELSE IF j \in handled THEN "finished"
  ELSE IF Held(j) THEN "taken"
  ELSE "accepted"

Abstract == INSTANCE PushQueue WITH fate <- [j \in Jobs |-> Fate(j)]

RefinesQueue == Abstract!Spec
RefinesFairQueue == Abstract!FairSpec

(* A Stop that was called returns, however many senders are blocked.  It   *)
(* never panics on workers that main has started; on those that an Enqueue *)
(* is starting meanwhile it may.                                           *)
StopTerminates ==
  stopPc = "wait" ~> stopPc = "returned" \/ (stopPc = "panicked" /\ starter # "boot")

(* No caller stays blocked in Enqueue once the dispatcher is stopped.      *)
StopUnblocksSenders ==
  \A j \in Jobs : (pc[j] = "send" /\ ~open) ~> pc[j] \in Refusals
=============================================================================

------------------------- MODULE PushDeliveryProofs -------------------------
(***************************************************************************)
(* Proofs about PushDelivery, for any number of users, addresses and       *)
(* fan-outs, any limit and any window: first about its request limiter     *)
(* alone, then about the whole.                                            *)
(*                                                                         *)
(* RateLimiter: of the requests admitted so far the last Admitted belong   *)
(* to the current window, which the first of them opened; those before     *)
(* them passed no later than it began, and all but the last Limit - 1 of   *)
(* these a whole window earlier still.                                     *)
(*                                                                         *)
(* PushDelivery: every step is a step of the limiter or leaves it alone,   *)
(* so what was shown of it carries over.  The rest follows from an         *)
(* invariant that follows each fan-out: a row it was told is gone is       *)
(* either no longer there or about to be deleted (Condemned), what it      *)
(* missed it has recorded (Recorded), and what it is about to delete is    *)
(* dead for good (DeadInHand).                                             *)
(***************************************************************************)
EXTENDS PushDelivery, TLAPS

(* Requests admitted in the current window. *)
Admitted == IF count <= Limit THEN count ELSE Limit

Earlier == Len(admitted) - Admitted

Inv ==
  /\ TypeOK
  /\ Admitted <= Len(admitted)
  /\ count = 0 => admitted = <<>>
  /\ \A i \in 1..Len(admitted) : admitted[i] <= now
  /\ \A i \in 1..Len(admitted) : i > Earlier => windowStart <= admitted[i]
  /\ \A i \in 1..Len(admitted) : i <= Earlier => admitted[i] <= windowStart
  /\ \A i \in 1..Len(admitted) : i = Earlier + 1 => admitted[i] = windowStart
  /\ \A i \in 1..Len(admitted) :
       i <= Earlier - Limit + 1 => windowStart - admitted[i] > Window
  /\ LessThanTwice

(* Before the first request there is nothing to relate. *)
LEMMA InitInv == Init => Inv
  BY LimiterAssumption, SMT
  DEF Init, Inv, TypeOK, Admitted, Earlier, LessThanTwice

(* The passing of time touches no entry. *)
LEMMA TickKeepsInv == Inv /\ Tick => Inv'
<1> SUFFICES ASSUME Inv, Tick PROVE Inv'
  OBVIOUS
<1>1. TypeOK'
  BY LimiterAssumption, SMT DEF Inv, TypeOK, Tick
<1>2. Admitted' = Admitted /\ Earlier' = Earlier
  BY DEF Tick, Admitted, Earlier
<1> QED
  BY <1>1, <1>2, LimiterAssumption, SMT DEF Inv, TypeOK, Tick, LessThanTwice

(* A request that continues a window adds at most one admission to it; one *)
(* that begins a window makes every earlier admission an earlier window's. *)
LEMMA RequestKeepsInv == Inv /\ Request => Inv'
<1> SUFFICES ASSUME Inv, Request PROVE Inv'
  OBVIOUS
<1> USE LimiterAssumption
<1>1. CASE overLimit(count')
  <2>1. /\ ~Stale /\ count' = count + 1 /\ count >= Limit /\ count' \in 0..MaxCount
        /\ UNCHANGED <<now, windowStart, admitted>>
    BY <1>1, SMT DEF Inv, TypeOK, Request, overLimit, Stale
  <2>2. Admitted = Limit /\ Admitted' = Limit
    BY <2>1, SMT DEF Inv, TypeOK, Admitted
  <2>3. Earlier' = Earlier
    BY <2>1, <2>2 DEF Earlier
  <2>4. TypeOK'
    BY <2>1, SMT DEF Inv, TypeOK
  <2> QED
    BY <2>1, <2>2, <2>3, <2>4, SMT DEF Inv, TypeOK, LessThanTwice
<1>2. CASE ~overLimit(count')
  <2> DEFINE n == Len(admitted)
  <2>1. /\ now' = now /\ count' \in 1..Limit
        /\ admitted' = Append(admitted, now)
        /\ admitted \in Seq(0..now) /\ n \in Nat /\ now \in 0..now
    BY <1>2, SMT DEF Inv, TypeOK, Request, overLimit, Stale
  <2>2. /\ Len(admitted') = n + 1
        /\ admitted'[n + 1] = now
        /\ \A i \in 1..n : admitted'[i] = admitted[i] /\ admitted[i] \in 0..now
        /\ admitted' \in Seq(0..now)
    <3> DEFINE S == 0..now
    <3>1. admitted \in Seq(S) /\ now \in S
      BY <2>1
    <3> HIDE DEF S
    <3>2. /\ Append(admitted, now) \in Seq(S)
          /\ Len(Append(admitted, now)) = n + 1
          /\ Append(admitted, now)[n + 1] = now
          /\ \A i \in 1..n : /\ Append(admitted, now)[i] = admitted[i]
                            /\ admitted[i] \in S
      BY <3>1, SMT
    <3> QED
      BY <2>1, <3>2 DEF S
  <2>3. TypeOK'
    <3>1. windowStart' \in 0..now /\ count' \in 0..MaxCount /\ now \in 0..MaxTime
      BY <2>1, SMT DEF Inv, TypeOK, Request
    <3> QED
      BY <2>1, <2>2, <3>1 DEF TypeOK
  <2>4. Admitted' = count'
    BY <2>1, SMT DEF Admitted
  <2>a. /\ windowStart \in 0..now /\ now \in Nat /\ count \in Nat
        /\ Limit \in Nat /\ Limit >= 1 /\ Window \in Nat
    BY <2>1, SMT DEF Inv, TypeOK
  <2>b. /\ \A i \in 1..n : i > Earlier => windowStart <= admitted[i]
        /\ \A i \in 1..n : i <= Earlier => admitted[i] <= windowStart
        /\ \A i \in 1..n : i = Earlier + 1 => admitted[i] = windowStart
        /\ \A i \in 1..n : i <= Earlier - Limit + 1 => windowStart - admitted[i] > Window
        /\ \A i, k \in 1..n : k - i + 1 >= 2 * Limit => admitted[k] - admitted[i] > Window
        /\ count = 0 => n = 0
    BY DEF Inv, LessThanTwice
  <2>d. Earlier = n - Admitted /\ Earlier' = Len(admitted') - Admitted'
    BY DEF Earlier
  <2>c. SUFFICES /\ Admitted' <= n + 1
                 /\ \A i \in 1..n + 1 : i > Earlier' => windowStart' <= admitted'[i]
                 /\ \A i \in 1..n + 1 : i <= Earlier' => admitted'[i] <= windowStart'
                 /\ \A i \in 1..n + 1 : i = Earlier' + 1 => admitted'[i] = windowStart'
                 /\ \A i \in 1..n + 1 :
                      i <= Earlier' - Limit + 1 => windowStart' - admitted'[i] > Window
                 /\ \A i \in 1..n : i <= n + 2 - 2 * Limit => now - admitted[i] > Window
    <3>1. \A i \in 1..n + 1 : admitted'[i] <= now'
      BY <2>1, <2>2, <2>a, SMT
    <3>2. LessThanTwice'
      <4> SUFFICES ASSUME NEW i \in 1..n + 1, NEW k \in 1..n + 1, k - i + 1 >= 2 * Limit
                   PROVE  admitted'[k] - admitted'[i] > Window
        BY <2>2 DEF LessThanTwice
      <4> HIDE DEF n
      <4>1. i \in 1..n /\ (k = n + 1 \/ k \in 1..n)
        BY <2>1, <2>a, SMT
      <4>2. CASE k = n + 1
        BY <2>1, <2>2, <2>a, <2>c, <4>1, <4>2, SMT
      <4>3. CASE k \in 1..n
        BY <2>2, <2>b, <4>1, <4>3
      <4> QED
        BY <4>1, <4>2, <4>3
    <3>3. count' # 0
      BY <2>1, SMT
    <3> QED
      BY <2>2, <2>3, <2>c, <3>1, <3>2, <3>3 DEF Inv
  <2> HIDE DEF n
  <2>5. CASE Stale
    <3>1. windowStart' = now /\ count' = 1 /\ Admitted' = 1 /\ Earlier' = n
      BY <2>1, <2>2, <2>4, <2>5, SMT DEF Request, Earlier
    <3>2. \A i \in 1..n : i <= n - Limit + 1 => now - admitted[i] > Window
      <4>1. CASE count = 0
        BY <2>1, <2>b, <4>1, SMT
      <4>2. CASE now - windowStart > Window
        <5>1. Admitted <= Limit /\ Earlier = n - Admitted /\ Admitted \in Nat
          BY <2>a, SMT DEF Admitted, Earlier, n
        <5>2. \A i \in 1..n : i <= n - Limit + 1 => admitted[i] <= windowStart
          BY <2>1, <2>a, <2>b, <5>1, SMT
        <5> QED
          BY <2>1, <2>2, <2>a, <4>2, <5>2, SMT
      <4> QED
        BY <2>5, <4>1, <4>2 DEF Stale
    <3> QED
      BY <2>1, <2>2, <2>a, <3>1, <3>2, SMT
  <2>6. CASE ~Stale
    <3>a. windowStart' = windowStart /\ count >= 1 /\ count' = count + 1
      BY <2>6, <2>a, SMT DEF Request, Stale
    <3>b. Admitted = count
      BY <2>1, <2>a, <3>a, SMT DEF Admitted
    <3>c. Earlier = n - Admitted
      BY <2>d
    <3>d. Len(admitted') = n + 1
      BY <2>2
    <3>e. Earlier' = Len(admitted') - Admitted'
      BY <2>d
    <3>f. Earlier' = (n + 1) - Admitted'
      BY <3>d, <3>e
    <3>1. /\ windowStart' = windowStart /\ count >= 1 /\ count' = count + 1
          /\ Admitted = count /\ Earlier = n - count /\ Earlier' = Earlier
      BY <2>1, <2>4, <2>a, <3>a, <3>b, <3>c, <3>f, SMT
    <3>2. Admitted <= n
      BY DEF Inv, n
    <3> QED
      BY <2>1, <2>2, <2>4, <2>a, <2>b, <3>1, <3>2, SMT
  <2> QED
    BY <2>5, <2>6
<1> QED
  BY <1>1, <1>2

(* Every behaviour keeps the invariant. *)
THEOREM Invariance == Spec => []Inv
<1>1. Init => Inv
  BY InitInv
<1>2. Inv /\ [Next]_vars => Inv'
  <2> SUFFICES ASSUME Inv, [Next]_vars PROVE Inv'
    OBVIOUS
  <2>1. CASE UNCHANGED vars
    BY <2>1 DEF vars, Inv, TypeOK, Admitted, Earlier, LessThanTwice
  <2> QED
    BY <2>1, TickKeepsInv, RequestKeepsInv DEF Next
<1> QED
  BY <1>1, <1>2, PTL DEF Spec

(* The entry of a user keeps its type. *)
THEOREM TypeCorrect == Spec => []TypeOK
<1>1. Inv => TypeOK
  BY DEF Inv
<1> QED
  BY <1>1, Invariance, PTL

(* Whatever the limit, the window and the timing of the requests, fewer    *)
(* than twice the limit pass within the length of a window.                *)
THEOREM AdmitsLessThanTwice == Spec => []LessThanTwice
<1>1. Inv => LessThanTwice
  BY DEF Inv
<1> QED
  BY <1>1, Invariance, PTL

-----------------------------------------------------------------------------
Condemned ==
  \A s \in Senders :
    condemned[s] \cap rows \subseteq IF pc[s] = "prune" THEN Doomed(s, cur[s]) ELSE {}

Recorded == \A s \in Senders : missed[s] # {} => err[s]

DeadInHand ==
  \A s \in Senders :
    pc[s] = "prune" => cur[s] \in Addresses /\ (cur[s] \notin IPhones => cur[s] \notin alive)

DeliveryInv == DeliveryTypeOK /\ Condemned /\ Recorded /\ DeadInHand

-----------------------------------------------------------------------------
(* A behaviour of PushDelivery is one of the limiter. *)
THEOREM DeliveryLimits == DeliverySpec => Spec
<1>1. DeliveryInit => Init
  BY DEF DeliveryInit
<1>2. ASSUME [DeliveryNext]_allVars PROVE [Next]_vars
  <2> USE DEF limiterVars, vars, Next
  <2>1. ASSUME NEW s \in Senders, TestPush(s) PROVE [Next]_vars
    BY <2>1 DEF TestPush
  <2>2. ASSUME NEW s \in Senders, FanOut(s) PROVE [Next]_vars
    BY <2>2 DEF FanOut, List, ListFails, Prune, AllSent, Send, Deliver, SendError, Refused, Gone
  <2>3. ASSUME NEW s \in Senders, NEW u \in Users, SendToUser(s, u) PROVE [Next]_vars
    BY <2>3 DEF SendToUser
  <2>4. ASSUME NEW u \in Users, NEW a \in Addresses, Requests(u, a) PROVE [Next]_vars
    BY <2>4 DEF Requests, Subscribe, RegisterDeviceToken, DeleteDeviceToken, Post
  <2>5. CASE World
    BY <2>5 DEF World, Die, Reinstall
  <2>6. CASE Tick /\ UNCHANGED deliveryVars
    BY <2>6
  <2>7. CASE UNCHANGED allVars
    BY <2>7 DEF allVars
  <2> QED BY <1>2, <2>1, <2>2, <2>3, <2>4, <2>5, <2>6, <2>7 DEF DeliveryNext
<1> QED BY <1>1, <1>2, PTL DEF DeliverySpec, Spec

(* The test handler admits fewer than twice its limit within a window,     *)
(* whatever fan-outs run beside it.                                        *)
THEOREM DeliveryIsLimited == DeliverySpec => [](TypeOK /\ LessThanTwice)
  BY DeliveryLimits, TypeCorrect, AdmitsLessThanTwice, PTL

-----------------------------------------------------------------------------
(* The initial states satisfy the invariant. *)
LEMMA DeliveryInitInv == DeliveryInit => DeliveryInv
  BY DEF DeliveryInit, DeliveryInv, DeliveryTypeOK, Condemned, Recorded, DeadInHand

(* Rows are posted: none of them is one that a fan-out was told about. *)
LEMMA PostKeepsInv ==
  ASSUME DeliveryInv, NEW u \in Users, NEW a \in Addresses,
         Subscribe(u, a) \/ RegisterDeviceToken(u, a)
  PROVE  DeliveryInv'
<1>1. /\ UNCHANGED <<alive, pc, phase, to, todo, cur, err, missed>>
      /\ condemned' = [s \in Senders |-> condemned[s] \ {<<v, a>> : v \in Users}]
      /\ rows' \subseteq rows \cup {<<u, a>>}
      /\ a \in Browsers => rows' = {r \in rows : r[2] # a} \cup {<<u, a>>}
  BY DeliveryAssumption
  DEF Subscribe, RegisterDeviceToken, Post, UpsertPushSubscription, UpsertDeviceToken, fanOutVars
<1>2. <<u, a>> \in Rows
  BY DEF Rows
<1>3. DeliveryTypeOK'
  <2>1. rows' \subseteq Rows
    BY <1>1, <1>2 DEF DeliveryInv, DeliveryTypeOK
  <2>2. \A q, r \in rows' : q[2] = r[2] /\ q[2] \in Browsers => q = r
    BY <1>1 DEF DeliveryInv, DeliveryTypeOK
  <2>3. condemned' \in [Senders -> SUBSET Rows]
    BY <1>1 DEF DeliveryInv, DeliveryTypeOK
  <2> QED BY <1>1, <2>1, <2>2, <2>3 DEF DeliveryInv, DeliveryTypeOK
<1>4. Condemned'
  BY <1>1 DEF DeliveryInv, Condemned, Doomed
<1>5. Recorded' /\ DeadInHand'
  BY <1>1 DEF DeliveryInv, Recorded, DeadInHand
<1> QED BY <1>3, <1>4, <1>5 DEF DeliveryInv

(* Rows are deleted, addresses die, and APNs tokens come back to life. *)
LEMMA WorldKeepsInv ==
  ASSUME DeliveryInv, NEW a \in Addresses,
         (\E u \in Users : DeleteDeviceToken(u, a)) \/ Die(a) \/ Reinstall(a)
  PROVE  DeliveryInv'
<1>1. /\ UNCHANGED <<pc, phase, to, todo, cur, err, missed, condemned>>
      /\ rows' \subseteq rows
      /\ alive' \subseteq Addresses /\ alive' \subseteq alive \cup IPhones
  BY DEF DeleteDeviceToken, Die, Reinstall, fanOutVars, DeliveryInv, DeliveryTypeOK
<1>2. DeliveryTypeOK'
  BY <1>1 DEF DeliveryInv, DeliveryTypeOK
<1>3. Condemned' /\ Recorded' /\ DeadInHand'
  BY <1>1 DEF DeliveryInv, Condemned, Doomed, Recorded, DeadInHand
<1> QED BY <1>2, <1>3 DEF DeliveryInv

(* A fan-out begins with a clean slate. *)
LEMMA BeginKeepsInv ==
  ASSUME DeliveryInv, NEW s \in Senders, NEW u \in Users, NEW kind \in {"web", "test"},
         NEW at \in {"list", "done"}, Begin(s, u, kind, at)
  PROVE  DeliveryInv'
<1>1. DeliveryTypeOK'
  BY DEF Begin, DeliveryInv, DeliveryTypeOK
<1>2. Condemned'
  BY DEF Begin, DeliveryInv, DeliveryTypeOK, Condemned, Doomed
<1>3. Recorded' /\ DeadInHand'
  BY DEF Begin, DeliveryInv, DeliveryTypeOK, Recorded, DeadInHand
<1> QED BY <1>1, <1>2, <1>3 DEF DeliveryInv

(* The steps around the sends: listing, its failure, the end of a channel. *)
LEMMA PhaseKeepsInv ==
  ASSUME DeliveryInv, NEW s \in Senders, List(s) \/ ListFails(s) \/ AllSent(s)
  PROVE  DeliveryInv'
<1>1. UNCHANGED <<rows, alive, to, cur, missed, condemned>>
  BY DEF List, ListFails, AllSent
<1>2. pc[s] # "prune" /\ \E at \in {"list", "send", "done"} : pc' = [pc EXCEPT ![s] = at]
  BY DEF List, ListFails, AllSent, EndPhase
<1>3. phase' \in [Senders -> {"web", "native", "test"}]
  BY DEF List, ListFails, AllSent, EndPhase, DeliveryInv, DeliveryTypeOK
<1>4. todo' \in [Senders -> SUBSET Addresses]
  <2>1. Listed(s) \subseteq Addresses
    BY DEF Listed, PushSubscriptions, DeviceTokens, Addresses
  <2>2. todo' = todo \/ todo' = [todo EXCEPT ![s] = Listed(s)]
    BY DEF List, ListFails, AllSent
  <2> QED BY <2>1, <2>2 DEF DeliveryInv, DeliveryTypeOK
<1>5. err' = err \/ err' = [err EXCEPT ![s] = TRUE]
  BY DEF List, ListFails, AllSent, Fails
<1>6. err' \in [Senders -> BOOLEAN]
  BY <1>5 DEF DeliveryInv, DeliveryTypeOK
<1>7. DeliveryTypeOK'
  BY <1>1, <1>2, <1>3, <1>4, <1>6 DEF DeliveryInv, DeliveryTypeOK
<1>8. Condemned' /\ DeadInHand'
  BY <1>1, <1>2 DEF DeliveryInv, DeliveryTypeOK, Condemned, Doomed, DeadInHand
<1>9. Recorded'
  BY <1>1, <1>5 DEF DeliveryInv, DeliveryTypeOK, Recorded
<1> QED BY <1>7, <1>8, <1>9 DEF DeliveryInv

(* A send that does not find the address gone. *)
LEMMA SendKeepsInv ==
  ASSUME DeliveryInv, NEW s \in Senders, NEW a \in Addresses,
         Deliver(s, a) \/ SendError(s, a) \/ Refused(s, a)
  PROVE  DeliveryInv'
<1>1. /\ UNCHANGED <<rows, alive, pc, phase, to, cur, condemned>>
      /\ todo' = [todo EXCEPT ![s] = @ \ {a}]
      /\ \/ UNCHANGED <<missed, err>>
         \/ /\ missed' = [missed EXCEPT ![s] = @ \cup {a}]
            /\ err' = [err EXCEPT ![s] = TRUE]
  BY DEF Deliver, SendError, Refused, Sent, Misses, Fails
<1>2. err' \in [Senders -> BOOLEAN]
  BY <1>1 DEF DeliveryInv, DeliveryTypeOK
<1>3. missed' \in [Senders -> SUBSET Addresses]
  BY <1>1 DEF DeliveryInv, DeliveryTypeOK
<1>4. DeliveryTypeOK'
  BY <1>1, <1>2, <1>3 DEF DeliveryInv, DeliveryTypeOK
<1>5. Condemned' /\ DeadInHand'
  BY <1>1 DEF DeliveryInv, Condemned, Doomed, DeadInHand
<1>6. Recorded'
  BY <1>1 DEF DeliveryInv, DeliveryTypeOK, Recorded
<1> QED BY <1>4, <1>5, <1>6 DEF DeliveryInv

(* The provider calls the address gone. *)
LEMMA GoneKeepsInv ==
  ASSUME DeliveryInv, NEW s \in Senders, NEW a \in Addresses, Gone(s, a)
  PROVE  DeliveryInv'
<1>1. /\ pc[s] = "send" /\ a \notin alive
      /\ UNCHANGED <<rows, alive, phase, to, missed>>
      /\ pc' = [pc EXCEPT ![s] = "prune"] /\ cur' = [cur EXCEPT ![s] = a]
      /\ todo' = [todo EXCEPT ![s] = @ \ {a}]
      /\ condemned' = [condemned EXCEPT ![s] = @ \cup (Doomed(s, a) \cap rows)]
      /\ err' = err \/ err' = [err EXCEPT ![s] = TRUE]
  BY DEF Gone, Sent, Fails
<1>2. DeliveryTypeOK'
  BY <1>1 DEF DeliveryInv, DeliveryTypeOK
<1>3. Condemned'
  BY <1>1 DEF DeliveryInv, DeliveryTypeOK, Condemned, Doomed
<1>4. Recorded' /\ DeadInHand'
  BY <1>1 DEF DeliveryInv, DeliveryTypeOK, Recorded, DeadInHand
<1> QED BY <1>2, <1>3, <1>4 DEF DeliveryInv

(* The deletion works, or fails and is forgotten. *)
LEMMA PruneKeepsInv ==
  ASSUME DeliveryInv, NEW s \in Senders, Prune(s)
  PROVE  DeliveryInv'
<1>1. /\ pc[s] = "prune" /\ UNCHANGED <<alive, phase, to, todo, err, missed>>
      /\ pc' = [pc EXCEPT ![s] = "send"] /\ cur' = [cur EXCEPT ![s] = None]
      /\ \/ rows' = rows \ Doomed(s, cur[s]) /\ UNCHANGED condemned
         \/ /\ condemned' = [condemned EXCEPT ![s] = @ \ Doomed(s, cur[s])]
            /\ UNCHANGED rows
  BY DEF Prune
<1>2. DeliveryTypeOK'
  BY <1>1 DEF DeliveryInv, DeliveryTypeOK
<1>3. Condemned'
  BY <1>1 DEF DeliveryInv, DeliveryTypeOK, Condemned, Doomed
<1>4. Recorded' /\ DeadInHand'
  BY <1>1 DEF DeliveryInv, DeliveryTypeOK, Recorded, DeadInHand
<1> QED BY <1>2, <1>3, <1>4 DEF DeliveryInv

-----------------------------------------------------------------------------
(* The invariant holds in every behaviour. *)
THEOREM DeliveryInvariance == DeliverySpec => []DeliveryInv
<1>1. DeliveryInv /\ [DeliveryNext]_allVars => DeliveryInv'
  <2> SUFFICES ASSUME DeliveryInv, [DeliveryNext]_allVars PROVE DeliveryInv'
    OBVIOUS
  <2>1. ASSUME NEW s \in Senders, TestPush(s) \/ \E u \in Users : SendToUser(s, u)
        PROVE  DeliveryInv'
    BY <2>1, BeginKeepsInv, DeliveryAssumption DEF TestPush, SendToUser
  <2>2. ASSUME NEW s \in Senders, FanOut(s) PROVE DeliveryInv'
    BY <2>2, PhaseKeepsInv, PruneKeepsInv, SendKeepsInv, GoneKeepsInv DEF FanOut, Send
  <2>3. ASSUME NEW u \in Users, NEW a \in Addresses, Requests(u, a) PROVE DeliveryInv'
    BY <2>3, PostKeepsInv, WorldKeepsInv DEF Requests
  <2>4. CASE World
    BY <2>4, WorldKeepsInv DEF World
  <2>5. CASE UNCHANGED deliveryVars
    BY <2>5 DEF deliveryVars, fanOutVars, DeliveryInv, DeliveryTypeOK, Condemned, Doomed,
       Recorded, DeadInHand
  <2> QED BY <2>1, <2>2, <2>3, <2>4, <2>5 DEF DeliveryNext, allVars
<1> QED BY DeliveryInitInv, <1>1, PTL DEF DeliverySpec

(* Rows, addresses and fan-outs keep their types; an endpoint has one row. *)
THEOREM DeliveryTypeCorrect == DeliverySpec => []DeliveryTypeOK
  BY DeliveryInvariance, PTL DEF DeliveryInv

(* A fan-out that is over has left no row behind that it was told is gone, *)
(* unless its deletion failed or the row was posted again.                 *)
THEOREM StaleRowsGo == DeliverySpec => []GoneIsPruned
<1>1. DeliveryInv => GoneIsPruned
  BY DEF DeliveryInv, Condemned, GoneIsPruned
<1> QED BY <1>1, DeliveryInvariance, PTL

(* A fan-out that answers nil has missed no address, whichever channel and *)
(* send failed first (unified_push_service.go:60).                         *)
THEOREM NoSilentMiss == DeliverySpec => []ErrorsAreReported
<1>1. DeliveryInv => ErrorsAreReported
  BY DEF DeliveryInv, Recorded, ErrorsAreReported
<1> QED BY <1>1, DeliveryInvariance, PTL

(* The late deletion of a fan-out removes no row of a living browser or    *)
(* Android phone, whoever owns the row by then (push_service.go:191).      *)
THEOREM LivingRowsStay == DeliverySpec => PruneOnlyDead
<1> DEFINE Spared ==
      \A s \in Senders :
        pc[s] = "prune" /\ pc'[s] # "prune" =>
          \A r \in rows \ rows' : r[2] \notin IPhones => r[2] \notin alive
<1>1. DeliveryInv /\ [DeliveryNext]_allVars => [Spared]_allVars
  <2> SUFFICES ASSUME DeliveryInv, DeliveryNext, NEW s \in Senders,
                      pc[s] = "prune", pc'[s] # "prune"
               PROVE  \A r \in rows \ rows' : r[2] \notin IPhones => r[2] \notin alive
    OBVIOUS
  <2>1. Prune(s)
    <3>1. pc \in [Senders -> {"idle", "list", "send", "prune", "done"}]
      BY DEF DeliveryInv, DeliveryTypeOK
    <3>2. ASSUME NEW x \in Senders, TestPush(x) \/ \E u \in Users : SendToUser(x, u) PROVE FALSE
      BY <3>1, <3>2 DEF TestPush, SendToUser, Begin
    <3>3. ASSUME NEW x \in Senders, FanOut(x) PROVE Prune(s)
      <4>1. CASE Prune(x)
        BY <3>1, <4>1 DEF Prune
      <4>2. CASE List(x) \/ ListFails(x) \/ AllSent(x)
        BY <3>1, <4>2 DEF List, ListFails, AllSent, EndPhase
      <4>3. CASE \E a \in Addresses : Send(x, a)
        BY <3>1, <4>3 DEF Send, Deliver, SendError, Refused, Gone
      <4> QED BY <3>3, <4>1, <4>2, <4>3 DEF FanOut
    <3>4. ASSUME NEW u \in Users, NEW a \in Addresses, Requests(u, a) PROVE FALSE
      BY <3>4 DEF Requests, Subscribe, RegisterDeviceToken, DeleteDeviceToken, Post
    <3>5. ASSUME World PROVE FALSE
      BY <3>5 DEF World, Die, Reinstall
    <3>6. ASSUME UNCHANGED deliveryVars PROVE FALSE
      BY <3>6 DEF deliveryVars
    <3> QED BY <3>2, <3>3, <3>4, <3>5, <3>6 DEF DeliveryNext
  <2>2. rows \ rows' \subseteq Doomed(s, cur[s])
    BY <2>1 DEF Prune
  <2>3. \A r \in Doomed(s, cur[s]) : r[2] = cur[s]
    BY DEF Doomed
  <2> QED BY <2>2, <2>3 DEF DeliveryInv, DeadInHand
<1> QED BY <1>1, DeliveryInvariance, PTL DEF DeliverySpec, PruneOnlyDead
=============================================================================

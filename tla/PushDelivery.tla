---------------------------- MODULE PushDelivery ----------------------------
(***************************************************************************)
(* The delivery of push notifications: the fan-outs that the workers of    *)
(* the dispatcher run (UnifiedPushService.SendToUser,                      *)
(* backend/business/unified_push_service.go and push_service.go), the test *)
(* handler behind its limiter (backend/cmd/push_handlers.go), the          *)
(* handlers that store and remove addresses, and the providers.            *)
(*                                                                         *)
(* An address is the endpoint of a browser's subscription or the token of  *)
(* a phone.  A fan-out lists the rows of its user once, sends to one after *)
(* the other, and deletes a row whose address the provider calls gone:     *)
(* each of these is a step of its own, and the rows move on in between.    *)
(* Content, keys and the unread counts of the test handler are left out.   *)
(***************************************************************************)
EXTENDS RateLimiter, FiniteSets

CONSTANTS
  Users,
  Browsers,  \* endpoints of web push subscriptions
  IPhones,   \* APNs tokens
  Androids,  \* FCM tokens
  Enabled,   \* the addresses whose channel the configuration enables
  Tester,    \* the user whose test pushes the limiter counts
  Senders,   \* fan-outs at a time: workers of the dispatcher, handlers
  None       \* nobody, no address

Phones == IPhones \cup Androids
Addresses == Browsers \cup Phones
Rows == Users \X Addresses

ASSUME DeliveryAssumption ==
  /\ Tester \in Users /\ Enabled \subseteq Addresses
  /\ Browsers \cap Phones = {} /\ IPhones \cap Androids = {}
  /\ None \notin Users \cup Addresses

VARIABLES
  rows,       \* push_subscriptions and push_device_tokens
  alive,      \* addresses the provider can deliver to
  pc,         \* control point of a fan-out
  phase,      \* what it sends to: web or native addresses, or a test
  to,         \* its user
  todo,       \* addresses it listed and has not sent to
  cur,        \* the address it is about to delete
  err,        \* firstErr # nil
  missed,     \* history: addresses it could not reach, or whose phone's
              \* provider refused
  condemned   \* history: rows it was told are gone, unless the deletion
              \* failed or the row was posted again

limiterVars == <<now, windowStart, count, admitted>>
fanOutVars == <<phase, to, todo, cur, err, missed>>
deliveryVars == <<rows, alive, pc, fanOutVars, condemned>>
allVars == <<limiterVars, deliveryVars>>

DeliveryTypeOK ==
  /\ rows \subseteq Rows /\ alive \subseteq Addresses
  /\ \A q, r \in rows : q[2] = r[2] /\ q[2] \in Browsers => q = r
  /\ pc \in [Senders -> {"idle", "list", "send", "prune", "done"}]
  /\ phase \in [Senders -> {"web", "native", "test"}]
  /\ to \in [Senders -> Users \cup {None}]
  /\ todo \in [Senders -> SUBSET Addresses]
  /\ cur \in [Senders -> Addresses \cup {None}]
  /\ err \in [Senders -> BOOLEAN]
  /\ missed \in [Senders -> SUBSET Addresses]
  /\ condemned \in [Senders -> SUBSET Rows]

DeliveryInit ==
  /\ Init
  /\ rows = {} /\ alive = Addresses
  /\ pc = [s \in Senders |-> "idle"]
  /\ phase = [s \in Senders |-> "web"]
  /\ to = [s \in Senders |-> None]
  /\ todo = [s \in Senders |-> {}]
  /\ cur = [s \in Senders |-> None]
  /\ err = [s \in Senders |-> FALSE]
  /\ missed = [s \in Senders |-> {}]
  /\ condemned = [s \in Senders |-> {}]

-----------------------------------------------------------------------------
(* The handlers that write addresses, and the world.                       *)

(* A posted row is no longer the one a fan-out was told about. *)
Post(u, a) ==
  /\ condemned' = [s \in Senders |-> condemned[s] \ {<<v, a>> : v \in Users}]
  /\ UNCHANGED <<limiterVars, alive, pc, fanOutVars>>

\* Mutant: the row of a browser is unique per user, as that of a phone is.
SubscribePerUser(u, a) ==
  /\ a \in Browsers
  /\ rows' = rows \cup {<<u, a>>}
  /\ Post(u, a)

(* ON CONFLICT (endpoint): the row belongs to the user who posts it last.  *)
UpsertPushSubscription(u, a) == rows' = {r \in rows : r[2] # a} \cup {<<u, a>>}

(* ON CONFLICT (user_id, platform, token): one phone may have rows of      *)
(* several users.                                                          *)
UpsertDeviceToken(u, a) == rows' = rows \cup {<<u, a>>}

(* NewSubscribeHandler.  The browser may post an endpoint that is gone:    *)
(* its retry keeps an old subscription.                                    *)
Subscribe(u, a) ==
  /\ a \in Browsers
  /\ UpsertPushSubscription(u, a)
  /\ Post(u, a)

(* NewRegisterDeviceTokenHandler.  An app posts the token it was given.    *)
RegisterDeviceToken(u, a) ==
  /\ a \in Phones /\ a \in alive
  /\ UpsertDeviceToken(u, a)
  /\ Post(u, a)

DeleteDeviceToken(u, a) ==
  /\ a \in Phones /\ <<u, a>> \in rows
  /\ rows' = rows \ {<<u, a>>}
  /\ UNCHANGED <<limiterVars, alive, pc, fanOutVars, condemned>>

(* Unsubscribed, uninstalled, expired.  An endpoint and an FCM token are   *)
(* never given out again; APNs may give a phone its token back.            *)
Die(a) ==
  /\ a \in alive /\ alive' = alive \ {a}
  /\ UNCHANGED <<limiterVars, rows, pc, fanOutVars, condemned>>

Reinstall(a) ==
  /\ a \in IPhones \ alive /\ alive' = alive \cup {a}
  /\ UNCHANGED <<limiterVars, rows, pc, fanOutVars, condemned>>

World == \E a \in Addresses : Die(a) \/ Reinstall(a)

-----------------------------------------------------------------------------
(* A fan-out begins. *)

(* What each kind of fan-out may send to: nothing, if the configuration    *)
(* disables the channel or has no keys for it.                             *)
Reach(kind) == (IF kind = "native" THEN Phones ELSE Browsers) \cap Enabled

Begin(s, u, kind, at) ==
  /\ pc[s] \in {"idle", "done"}
  /\ pc' = [pc EXCEPT ![s] = at]
  /\ phase' = [phase EXCEPT ![s] = kind]
  /\ to' = [to EXCEPT ![s] = u]
  /\ err' = [err EXCEPT ![s] = FALSE]
  /\ todo' = [todo EXCEPT ![s] = {}]
  /\ missed' = [missed EXCEPT ![s] = {}]
  /\ condemned' = [condemned EXCEPT ![s] = {}]
  /\ UNCHANGED <<rows, alive, cur>>

(* A worker of the dispatcher has taken a job. *)
SendToUser(s, u) ==
  /\ Begin(s, u, "web", "list")
  /\ UNCHANGED limiterVars

(* NewTestHandler: one critical section of the limiter, then the fan-out;  *)
(* a request over the limit is answered 429 and sends nothing.             *)
TestPush(s) ==
  /\ Reach("test") # {}
  /\ Request
  /\ Begin(s, Tester, "test", IF overLimit(count') THEN "done" ELSE "list")

-----------------------------------------------------------------------------
(* Its steps. *)

PushSubscriptions(u) == {a \in Browsers : <<u, a>> \in rows}

DeviceTokens(u) == {a \in Phones : <<u, a>> \in rows}

Listed(s) ==
  Reach(phase[s]) \cap (PushSubscriptions(to[s]) \cup DeviceTokens(to[s]))

(* The web part is over, however it went: on to the phones. *)
EndPhase(s) ==
  IF phase[s] = "web"
    THEN pc' = [pc EXCEPT ![s] = "list"] /\ phase' = [phase EXCEPT ![s] = "native"]
    ELSE pc' = [pc EXCEPT ![s] = "done"] /\ UNCHANGED phase

Fails(s) == err' = [err EXCEPT ![s] = TRUE]

List(s) ==
  /\ pc[s] = "list"
  /\ pc' = [pc EXCEPT ![s] = "send"]
  /\ todo' = [todo EXCEPT ![s] = Listed(s)]
  /\ UNCHANGED <<limiterVars, rows, alive, phase, to, cur, err, missed, condemned>>

(* The query fails, or web push is enabled with keys that do not fit       *)
(* (ensureEnabled).                                                        *)
ListFails(s) ==
  /\ pc[s] = "list" /\ Reach(phase[s]) # {}
  /\ Fails(s) /\ EndPhase(s)
  /\ UNCHANGED <<limiterVars, rows, alive, to, todo, cur, missed, condemned>>

Sent(s, a) == todo' = [todo EXCEPT ![s] = @ \ {a}]

Misses(s, a) == missed' = [missed EXCEPT ![s] = @ \cup {a}]

\* Mutant: firstErr holds what the last send returned.
DeliverClearsError(s, a) ==
  /\ pc[s] = "send" /\ a \in todo[s] /\ a \in alive
  /\ Sent(s, a)
  /\ err' = [err EXCEPT ![s] = FALSE]
  /\ UNCHANGED <<limiterVars, rows, alive, pc, phase, to, cur, missed, condemned>>

Deliver(s, a) ==
  /\ pc[s] = "send" /\ a \in todo[s] /\ a \in alive
  /\ Sent(s, a)
  /\ UNCHANGED <<limiterVars, rows, alive, pc, phase, to, cur, err, missed, condemned>>

\* Mutant: an address that could not be reached is pruned as well.
SendErrorPrunes(s, a) ==
  /\ pc[s] = "send" /\ a \in todo[s]
  /\ Sent(s, a) /\ Misses(s, a) /\ Fails(s)
  /\ pc' = [pc EXCEPT ![s] = "prune"]
  /\ cur' = [cur EXCEPT ![s] = a]
  /\ UNCHANGED <<limiterVars, rows, alive, phase, to, condemned>>

(* The provider is not reached: the row stays. *)
SendError(s, a) ==
  /\ pc[s] = "send" /\ a \in todo[s]
  /\ Sent(s, a) /\ Misses(s, a) /\ Fails(s)
  /\ UNCHANGED <<limiterVars, rows, alive, pc, phase, to, cur, condemned>>

(* It refuses with another status or reason than gone.  The web service    *)
(* logs that and returns no error; the test handler counts it as failed.   *)
Refused(s, a) ==
  /\ pc[s] = "send" /\ a \in todo[s]
  /\ Sent(s, a)
  /\ IF phase[s] = "native" THEN Misses(s, a) /\ Fails(s) ELSE UNCHANGED <<missed, err>>
  /\ UNCHANGED <<limiterVars, rows, alive, pc, phase, to, cur, condemned>>

(* The row, of whichever user, is the one that is deleted: by endpoint, or *)
(* by user and token.                                                      *)
Doomed(s, a) == IF a \in Browsers THEN Users \X {a} ELSE {<<to[s], a>>}

\* Mutant: the error of a phone is recorded first and ends its turn.
GoneErrorFirst(s, a) ==
  /\ pc[s] = "send" /\ a \in todo[s] /\ a \notin alive
  /\ Sent(s, a)
  /\ condemned' = [condemned EXCEPT ![s] = @ \cup (Doomed(s, a) \cap rows)]
  /\ IF phase[s] = "native"
       THEN Fails(s) /\ UNCHANGED <<pc, cur>>
       ELSE /\ pc' = [pc EXCEPT ![s] = "prune"] /\ cur' = [cur EXCEPT ![s] = a]
            /\ UNCHANGED err
  /\ UNCHANGED <<limiterVars, rows, alive, phase, to, missed>>

(* 404 or 410 of a web push service; Unregistered, BadDeviceToken or       *)
(* DeviceTokenNotForTopic of APNs; 404, 410 or UNREGISTERED of FCM.        *)
Gone(s, a) ==
  /\ pc[s] = "send" /\ a \in todo[s] /\ a \notin alive
  /\ Sent(s, a)
  /\ condemned' = [condemned EXCEPT ![s] = @ \cup (Doomed(s, a) \cap rows)]
  /\ pc' = [pc EXCEPT ![s] = "prune"]
  /\ cur' = [cur EXCEPT ![s] = a]
  /\ IF phase[s] = "native" THEN Fails(s) ELSE UNCHANGED err
  /\ UNCHANGED <<limiterVars, rows, alive, phase, to, missed>>

(* A deletion that fails is logged or ignored. *)
Prune(s) ==
  /\ pc[s] = "prune"
  /\ \/ rows' = rows \ Doomed(s, cur[s]) /\ UNCHANGED condemned
     \/ /\ condemned' = [condemned EXCEPT ![s] = @ \ Doomed(s, cur[s])]
        /\ UNCHANGED rows
  /\ pc' = [pc EXCEPT ![s] = "send"]
  /\ cur' = [cur EXCEPT ![s] = None]
  /\ UNCHANGED <<limiterVars, alive, phase, to, todo, err, missed>>

AllSent(s) ==
  /\ pc[s] = "send" /\ todo[s] = {}
  /\ EndPhase(s)
  /\ UNCHANGED <<limiterVars, rows, alive, to, todo, cur, err, missed, condemned>>

-----------------------------------------------------------------------------
Send(s, a) == Deliver(s, a) \/ SendError(s, a) \/ Refused(s, a) \/ Gone(s, a)

FanOut(s) ==
  \/ List(s) \/ ListFails(s) \/ Prune(s) \/ AllSent(s)
  \/ \E a \in Addresses : Send(s, a)

Requests(u, a) == Subscribe(u, a) \/ RegisterDeviceToken(u, a) \/ DeleteDeviceToken(u, a)

DeliveryNext ==
  \/ \E s \in Senders : TestPush(s) \/ FanOut(s) \/ \E u \in Users : SendToUser(s, u)
  \/ \E u \in Users, a \in Addresses : Requests(u, a)
  \/ World
  \/ Tick /\ UNCHANGED deliveryVars

DeliverySpec == DeliveryInit /\ [][DeliveryNext]_allVars

-----------------------------------------------------------------------------
(* push_service.go:46: stale subscriptions are pruned.  A fan-out that is  *)
(* over has left no row behind whose address the provider called gone,     *)
(* except those whose deletion failed and those posted again meanwhile.    *)
GoneIsPruned ==
  \A s \in Senders : pc[s] = "done" => condemned[s] \cap rows = {}

(* However late a deletion comes after its list, and whoever owns the row  *)
(* by then: a fan-out deletes no row of an address that is alive.  It      *)
(* rests on the providers never giving an endpoint or an FCM token out     *)
(* again, and does not hold for the APNs token of a reinstalled app.       *)
PruneOnlyDead ==
  [][\A s \in Senders :
       pc[s] = "prune" /\ pc'[s] # "prune" =>
         \A r \in rows \ rows' : r[2] \notin IPhones => r[2] \notin alive]_allVars

(* unified_push_service.go:60: the first error of either channel is the     *)
(* fan-out's answer, however the sends before and after it went: one that  *)
(* returns nil has missed no address, but for those whose web push service *)
(* answered and refused (which push_service.go:50 calls success, too).     *)
ErrorsAreReported ==
  \A s \in Senders : pc[s] = "done" /\ phase[s] = "native" /\ ~err[s] => missed[s] = {}
=============================================================================

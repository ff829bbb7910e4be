----------------------------- MODULE MatchCache -----------------------------
(***************************************************************************)
(* FindMusicMatches and its TTL cache                                      *)
(* (backend/business/matching_service.go): concurrent requests look an     *)
(* answer up, compute it when there is none, and store it; the ingestion   *)
(* of top artists calls back to invalidate the entries of its user.        *)
(*                                                                         *)
(* An answer is what was asked and the time the database was read.  The    *)
(* key, a string joined by colons, is the sequence of its fields: only the *)
(* last one, the name filter, can contain a colon.                         *)
(***************************************************************************)
EXTENDS Integers, SequencesExt

CONSTANTS
  Users,          \* users who ask and whose top artists are ingested
  Requests,       \* concurrent calls of FindMusicMatches
  Asked,          \* the questions they may ask
  AllowedRanges, DefaultRange,          \* cfg.Matching
  DefaultLimit, MaxLimit, MaxOverlaps,  \* cfg.Matching; 0: no maximum
  TracksEnabled,  \* cfg.Matching.TracksEnabled
  TTL,            \* the 30 seconds an entry lives
  None,           \* no question, no answer
  QueryTime,      \* assumed: longest time from reading the database to set
  MaxTime,        \* bound: the clock stops here
  MaxStores       \* bound: snapshots stored per user

ASSUME CacheAssumption ==
  /\ Asked \subseteq [user : Users, basis : {"artists", "tracks"}, rng : STRING,
                     limit : Int, overlaps : Int, filter : STRING]
  /\ DefaultRange \in AllowedRanges /\ AllowedRanges \subseteq STRING
  /\ {DefaultLimit, MaxLimit, MaxOverlaps, TTL, QueryTime, MaxTime,
      MaxStores} \subseteq Nat
  /\ TracksEnabled \in BOOLEAN

VARIABLES
  now,     \* the time
  data,    \* similarityCache.data
  pc,      \* control point of a request
  asked,   \* its question as it is worked on, defaults and limits applied
  answer,  \* what it computed or served; None if nothing
  stores   \* snapshots of a user's top artists stored

vars == <<now, data, pc, asked, answer, stores>>

-----------------------------------------------------------------------------
AtMost(n, max) == IF max > 0 /\ n > max THEN max ELSE n

(* Defaults and validation: an unknown range is the default one, limits    *)
(* are clamped.                                                            *)
Normal(q) ==
  [q EXCEPT !.rng = IF @ \in AllowedRanges THEN @ ELSE DefaultRange,
            !.limit = AtMost(IF @ <= 0 THEN DefaultLimit ELSE @, MaxLimit),
            !.overlaps = AtMost(IF @ < 0 THEN 0 ELSE @, MaxOverlaps)]

\* Mutant: the limit on overlaps is left out of the key.
CacheKeyNoOverlaps(q) == <<"spotify", q.basis, q.user, q.rng, q.limit, q.filter>>

cacheKey(q) ==
  <<"spotify", q.basis, q.user, q.rng, q.limit, q.overlaps, q.filter>>

Questions == {Normal(q) : q \in Asked}
Keys == {cacheKey(q) : q \in Questions}
Answers == [to : Questions, readAt : 0..MaxTime, age : 0..MaxTime]

TypeOK ==
  /\ now \in 0..MaxTime
  /\ DOMAIN data \subseteq Keys
  /\ \A k \in DOMAIN data : /\ data[k].expires \in 0..(MaxTime + TTL)
                            /\ data[k].matches \in Answers
  /\ pc \in [Requests -> {"idle", "query", "set"}]
  /\ asked \in [Requests -> Questions \cup {None}]
  /\ answer \in [Requests -> Answers \cup {None}]
  /\ stores \in [Users -> 0..MaxStores]

Init ==
  /\ now = 0
  /\ data = <<>>
  /\ pc = [r \in Requests |-> "idle"]
  /\ asked = [r \in Requests |-> None]
  /\ answer = [r \in Requests |-> None]
  /\ stores = [u \in Users |-> 0]

Hit(k) == k \in DOMAIN data /\ now <= data[k].expires

Ask(r, q) == asked' = [asked EXCEPT ![r] = Normal(q)]

Goto(r, to) == pc' = [pc EXCEPT ![r] = to]

(* What the client is sent: the matches, as old as they are by now. *)
Serve(r, m) == answer' = [answer EXCEPT ![r] = [m EXCEPT !.age = now - m.readAt]]

-----------------------------------------------------------------------------
(* Every question passes validation except one about tracks while that     *)
(* basis is switched off.                                                  *)
Accepted(q) == q.basis = "artists" \/ TracksEnabled

\* Mutant: a hit renews the entry.
LookupHitRenews(r, q) ==
  LET k == cacheKey(Normal(q))
  IN  /\ pc[r] = "idle" /\ Accepted(q) /\ Hit(k)
      /\ Ask(r, q)
      /\ Serve(r, data[k].matches)
      /\ data' = [data EXCEPT ![k].expires = now + TTL]
      /\ UNCHANGED <<now, pc, stores>>

(* cache.get: an entry is served until its expiry has passed. *)
LookupHit(r, q) ==
  LET k == cacheKey(Normal(q))
  IN  /\ pc[r] = "idle" /\ Accepted(q) /\ Hit(k)
      /\ Ask(r, q)
      /\ Serve(r, data[k].matches)
      /\ UNCHANGED <<now, data, pc, stores>>

LookupMiss(r, q) ==
  /\ pc[r] = "idle" /\ Accepted(q) /\ ~Hit(cacheKey(Normal(q)))
  /\ Ask(r, q)
  /\ answer' = [answer EXCEPT ![r] = None]
  /\ Goto(r, "query")
  /\ UNCHANGED <<now, data, stores>>

(* The similarity query sees the database at one moment; what it found is  *)
(* scored and sorted afterwards, outside the lock.                         *)
QueryOK(r) ==
  /\ pc[r] = "query"
  /\ answer' = [answer EXCEPT ![r] = [to |-> asked[r], readAt |-> now, age |-> 0]]
  /\ Goto(r, "set")
  /\ UNCHANGED <<now, data, asked, stores>>

QueryFails(r) ==
  /\ pc[r] = "query"
  /\ Goto(r, "idle")
  /\ asked' = [asked EXCEPT ![r] = None]
  /\ UNCHANGED <<now, data, answer, stores>>

Put(k, entry) == [x \in DOMAIN data \cup {k} |-> IF x = k THEN entry ELSE data[x]]

\* Mutant: an entry expires TTL after the previous one of its key would have.
SetExtends(r) ==
  LET k == cacheKey(asked[r])
      old == IF k \in DOMAIN data THEN data[k].expires ELSE now
  IN  /\ pc[r] = "set"
      /\ data' = Put(k, [expires |-> old + TTL, matches |-> answer[r]])
      /\ Serve(r, answer[r])
      /\ Goto(r, "idle")
      /\ UNCHANGED <<now, asked, stores>>

(* cache.set overwrites, even an entry that was computed later. *)
Set(r) ==
  LET k == cacheKey(asked[r])
  IN  /\ pc[r] = "set"
      /\ data' = Put(k, [expires |-> now + TTL, matches |-> answer[r]])
      /\ Serve(r, answer[r])
      /\ Goto(r, "idle")
      /\ UNCHANGED <<now, asked, stores>>

(* The keys of the cache that begin with "spotify:" + userID + ":".        *)
Doomed(u) == {k \in DOMAIN data : IsPrefix(<<"spotify", u>>, k)}

(* StoreSpotifyTopArtists has upserted a snapshot and calls its hook,      *)
(* invalidateUser.  A failed batch calls no hook, and StoreSpotifyTopTracks *)
(* has none.                                                               *)
StoreSpotifyTopArtists(u) ==
  /\ stores[u] < MaxStores
  /\ stores' = [stores EXCEPT ![u] = @ + 1]
  /\ data' = [k \in DOMAIN data \ Doomed(u) |-> data[k]]
  /\ UNCHANGED <<now, pc, asked, answer>>

Tick ==
  /\ now < MaxTime
  /\ \A r \in Requests : pc[r] = "set" => now - answer[r].readAt < QueryTime
  /\ now' = now + 1
  /\ UNCHANGED <<data, pc, asked, answer, stores>>

FindMusicMatches(r) ==
  \/ \E q \in Asked : LookupHit(r, q) \/ LookupMiss(r, q)
  \/ QueryOK(r) \/ QueryFails(r) \/ Set(r)

Next ==
  \/ \E r \in Requests : FindMusicMatches(r)
  \/ \E u \in Users : StoreSpotifyTopArtists(u)
  \/ Tick

Spec == Init /\ [][Next]_vars

-----------------------------------------------------------------------------
(* An answer, cached or not, is the answer to the question that was asked: *)
(* same user, basis, range, limits and filter.                             *)
AnswersItsQuestion ==
  \A r \in Requests :
    pc[r] = "idle" /\ answer[r] # None /\ asked[r] # None
    => answer[r].to = asked[r]

(* With the invalidation out of order, this is what bounds how stale the   *)
(* matches are that a client sees: the lifetime of an entry and the time a *)
(* slow request may sit on what it read, hits and late fills included.     *)
AgeBounded ==
  \A r \in Requests : answer[r] # None => answer[r].age <= TTL + QueryTime

(* matching_service.go:64: invalidateUser removes all cached similarity    *)
(* entries for a given user ID.  After a snapshot of the user was stored   *)
(* no answer computed for the user is left in the cache.                   *)
InvalidationClears ==
  [][\A u \in Users :
       stores'[u] # stores[u] => \A k \in DOMAIN data' : data'[k].matches.to.user # u]_vars
=============================================================================

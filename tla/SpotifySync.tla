---------------------------- MODULE SpotifySync ----------------------------
(***************************************************************************)
(* The Spotify ingestion service (backend/business/spotify/service.go) and *)
(* the HTTP wrappers that drive it (backend/cmd/wrappers.go), seen from    *)
(* one user: Service.jobs and Service.lastStart are maps keyed by username *)
(* and no operation reads another user's entry.                            *)
(*                                                                         *)
(* Job j is the j-th SyncJob allocated for the user.  Service.jobs always  *)
(* holds the newest one, "cur", and its fields are the job variables; an   *)
(* older one may still be written by a handler that kept a pointer to it,  *)
(* and is never read again.  Every allocation launches one runJob          *)
(* goroutine, worker j, which does not remember its job: each critical     *)
(* section reads jobs[username] again.  One action is one critical section *)
(* of Service.mu or one unlocked step of a handler.                        *)
(***************************************************************************)
EXTENDS Integers

CONSTANTS
  Handlers,   \* concurrent SyncSpotify / RetrySpotifySync requests
  MaxJobs,    \* bound: jobs allocated in a behaviour
  PollLimit,  \* tokenWaitTimeout / tokenWaitInterval
  NumRanges,  \* the time ranges: short, medium and long term
  HasEncKey   \* SPOTIFY_REFRESH_TOKEN_KEY is set: tokens can be persisted

ASSUME BoundsAssumption ==
  /\ MaxJobs \in Nat \ {0}
  /\ PollLimit \in Nat
  /\ NumRanges \in 1..95
  /\ HasEncKey \in BOOLEAN

VARIABLES
  cur,        \* which job jobs[username] is; 0: there is none
  status,     \* its SyncJob.Status
  progress,   \* its SyncJob.Progress
  token,      \* its SyncJob.AccessToken and UserID are set
  cooling,    \* time.Since(lastStart) < cooldown
  wpc,        \* control point of the runJob goroutines
  waited,     \* polls already made without a token
  rng,        \* range a worker is at
  gotAny,     \* len(succeeded) > 0
  hpc,        \* control point of a handler
  hjob,       \* its *SyncJob; 0: the rate-limited throw-away job
  reply,      \* the promise its last answer made, if any
  persisted,  \* spotify tokens stored in the database
  ready       \* the database holds top artists or tracks of the user

jobVars == <<cur, status, progress, token, cooling>>
workerVars == <<wpc, waited, rng, gotAny>>
handlerVars == <<hpc, hjob, reply>>
dbVars == <<persisted, ready>>
vars == <<jobVars, workerVars, handlerVars, dbVars>>

Jobs == 1..MaxJobs
Ranges == 1..NumRanges

(***************************************************************************)
(* Status is a Go string, two machine words.  The wrappers assign it       *)
(* without the lock, so a reader may see the pointer of one value with the *)
(* length of another; the five statuses have five different lengths, and a *)
(* mixed pair is equal to none of them.                                    *)
(***************************************************************************)
Statuses == {"none", "pending", "in_progress", "complete", "failed", "cancelled"}
Word == [ptr : Statuses, len : Statuses]
Whole(s) == [ptr |-> s, len |-> s]
Is(s) == status = Whole(s)
Running == Is("pending") \/ Is("in_progress")

WorkerPCs == {"none", "poll", "timeout", "fetch", "user", "artists", "tracks",
              "progress", "final", "done"}
IngestPCs == {"fetch", "user", "artists", "tracks", "progress", "final"}
HandlerPCs == {"idle", "exchange", "persist", "settokens", "fail", "fail_ptr",
               "fail_len", "rexchange", "rpersist"}

(* "accepted" and "retry_accepted" are the 202 answers that follow a       *)
(* successful exchange; the other answers promise nothing.                 *)
Replies == {"none", "accepted", "retry_accepted"}

TypeOK ==
  /\ cur \in 0..MaxJobs
  /\ status \in Word
  /\ progress \in 0..100
  /\ token \in BOOLEAN
  /\ cooling \in BOOLEAN
  /\ wpc \in [Jobs -> WorkerPCs]
  /\ waited \in [Jobs -> 0..PollLimit]
  /\ rng \in [Jobs -> Ranges]
  /\ gotAny \in [Jobs -> BOOLEAN]
  /\ hpc \in [Handlers -> HandlerPCs]
  /\ hjob \in [Handlers -> 0..MaxJobs]
  /\ reply \in [Handlers -> Replies]
  /\ persisted \in BOOLEAN
  /\ ready \in BOOLEAN

Init ==
  /\ cur = 0
  /\ status = Whole("none")
  /\ progress = 0
  /\ token = FALSE
  /\ cooling = FALSE
  /\ wpc = [j \in Jobs |-> "none"]
  /\ waited = [j \in Jobs |-> 0]
  /\ rng = [j \in Jobs |-> 1]
  /\ gotAny = [j \in Jobs |-> FALSE]
  /\ hpc = [h \in Handlers |-> "idle"]
  /\ hjob = [h \in Handlers |-> 0]
  /\ reply = [h \in Handlers |-> "none"]
  /\ persisted = FALSE
  /\ ready = FALSE

-----------------------------------------------------------------------------
(* Helpers shared by the handlers. *)

Goto(h, pc) == hpc' = [hpc EXCEPT ![h] = pc]

(* A new request got hold of job j and goes on to exchange its code. *)
Begin(h, j, pc) ==
  /\ Goto(h, pc)
  /\ hjob' = [hjob EXCEPT ![h] = j]
  /\ reply' = [reply EXCEPT ![h] = "none"]

(* The answer is sent and the handler's locals are gone; hjob is kept for  *)
(* the properties when the answer promised something about the job.        *)
Answer(h, r) ==
  /\ Goto(h, "idle")
  /\ reply' = [reply EXCEPT ![h] = r]
  /\ hjob' = [hjob EXCEPT ![h] = IF r = "none" THEN 0 ELSE @]

(* A new SyncJob replaces jobs[username], and "go runJob" starts. *)
Launch ==
  /\ cur < MaxJobs
  /\ cur' = cur + 1
  /\ status' = Whole("pending")
  /\ progress' = 0
  /\ token' = FALSE
  /\ wpc' = [wpc EXCEPT ![cur + 1] = "poll"]
  /\ cooling' = TRUE
  /\ UNCHANGED <<waited, rng, gotAny, dbVars>>

-----------------------------------------------------------------------------
(* SyncSpotify: StartSync, exchange of the code, PersistTokens,            *)
(* SetJobTokens.                                                           *)

StartSyncJoins(h) ==
  /\ hpc[h] = "idle" /\ Running
  /\ Begin(h, cur, "exchange")
  /\ UNCHANGED <<jobVars, workerVars, dbVars>>

StartSyncLimited(h) ==
  /\ hpc[h] = "idle" /\ ~Running /\ cooling
  /\ Begin(h, 0, "exchange")
  /\ UNCHANGED <<jobVars, workerVars, dbVars>>

StartSyncNew(h) ==
  /\ hpc[h] = "idle" /\ ~Running /\ ~cooling
  /\ Launch
  /\ Begin(h, cur + 1, "exchange")

(* ExchangeCodeForTokens fails, or succeeds for a user with a UserID, or   *)
(* succeeds for a caller known only by the legacy X-User-Username header,  *)
(* whose tokens are dropped.                                               *)
Exchange(h) ==
  /\ hpc[h] = "exchange"
  /\ \/ Goto(h, "fail") /\ UNCHANGED <<hjob, reply>>
     \/ Goto(h, "persist") /\ UNCHANGED <<hjob, reply>>
     \/ Answer(h, "none")
  /\ UNCHANGED <<jobVars, workerVars, dbVars>>

\* Mutant: a failed PersistTokens is ignored, as RetrySpotifySync ignores it.
PersistTokensErrorIgnored(h) ==
  /\ hpc[h] = "persist"
  /\ persisted' \in {persisted, persisted \/ HasEncKey}
  /\ Goto(h, "settokens")
  /\ UNCHANGED <<jobVars, workerVars, hjob, reply, ready>>

(* Without a key nothing is stored, and that is not an error. *)
PersistTokens(h) ==
  /\ hpc[h] = "persist"
  /\ \/ HasEncKey /\ Goto(h, "fail") /\ UNCHANGED persisted
     \/ Goto(h, "settokens") /\ persisted' = (persisted \/ HasEncKey)
  /\ UNCHANGED <<jobVars, workerVars, hjob, reply, ready>>

\* Mutant: only a job that is already in progress is given the tokens.
SetJobTokensInProgress(h) ==
  /\ hpc[h] = "settokens"
  /\ token' = (token \/ Is("in_progress"))
  /\ Answer(h, "accepted")
  /\ UNCHANGED <<cur, status, progress, cooling, workerVars, dbVars>>

(* SetJobTokens writes to whatever job the map holds, whatever its status. *)
SetJobTokens(h) ==
  /\ hpc[h] = "settokens"
  /\ token' = (cur # 0)
  /\ Answer(h, "accepted")
  /\ UNCHANGED <<cur, status, progress, cooling, workerVars, dbVars>>

(* job.Status = StatusFailed, outside Service.mu: two word stores, in      *)
(* either order.  The throw-away job and a job that has been replaced have *)
(* no other reader.                                                        *)
FailUnread(h) ==
  /\ hpc[h] = "fail" /\ hjob[h] # cur
  /\ Answer(h, "none")
  /\ UNCHANGED <<jobVars, workerVars, dbVars>>

FailFirstWord(h) ==
  /\ hpc[h] = "fail" /\ hjob[h] = cur
  /\ \/ /\ status' = [status EXCEPT !.ptr = "failed"]
        /\ Goto(h, "fail_len")
     \/ /\ status' = [status EXCEPT !.len = "failed"]
        /\ Goto(h, "fail_ptr")
  /\ UNCHANGED <<cur, progress, token, cooling, workerVars, hjob, reply, dbVars>>

FailSecondWord(h) ==
  /\ hpc[h] \in {"fail_len", "fail_ptr"}
  /\ status' = IF hjob[h] # cur THEN status
                ELSE IF hpc[h] = "fail_len" THEN [status EXCEPT !.len = "failed"]
                ELSE [status EXCEPT !.ptr = "failed"]
  /\ Answer(h, "none")
  /\ UNCHANGED <<cur, progress, token, cooling, workerVars, dbVars>>

-----------------------------------------------------------------------------
(* RetrySpotifySync: RetrySync ignores the cooldown; the exchanged tokens  *)
(* are persisted, errors ignored, and never given to the job.              *)

RetrySyncConflict(h) ==
  /\ hpc[h] = "idle" /\ Running
  /\ Answer(h, "none")
  /\ UNCHANGED <<jobVars, workerVars, dbVars>>

RetrySyncNew(h) ==
  /\ hpc[h] = "idle" /\ ~Running
  /\ Launch
  /\ Begin(h, cur + 1, "rexchange")

RetryExchange(h) ==
  /\ hpc[h] = "rexchange"
  /\ \/ Answer(h, "none")
     \/ Goto(h, "rpersist") /\ UNCHANGED <<hjob, reply>>
  /\ UNCHANGED <<jobVars, workerVars, dbVars>>

RetryPersist(h) ==
  /\ hpc[h] = "rpersist"
  /\ persisted' \in {persisted, persisted \/ HasEncKey}
  /\ Answer(h, "retry_accepted")
  /\ UNCHANGED <<jobVars, workerVars, ready>>

-----------------------------------------------------------------------------
(* CancelSync; a call with no running job changes nothing. *)
CancelSync ==
  /\ status' = IF Running THEN Whole("cancelled") ELSE status
  /\ UNCHANGED <<cur, progress, token, cooling, workerVars, handlerVars, dbVars>>

CooldownOver ==
  /\ cooling /\ cooling' = FALSE
  /\ UNCHANGED <<cur, status, progress, token, workerVars, handlerVars, dbVars>>

-----------------------------------------------------------------------------
(* runJob *)

WGoto(w, pc) == wpc' = [wpc EXCEPT ![w] = pc]

(* The goroutine returns and its locals are gone. *)
Return(w) ==
  /\ WGoto(w, "done")
  /\ waited' = [waited EXCEPT ![w] = 0]
  /\ rng' = [rng EXCEPT ![w] = 1]
  /\ gotAny' = [gotAny EXCEPT ![w] = FALSE]

\* Mutant: a cancelled job is waited for like one without tokens.
PollCancelledContinues(w) ==
  /\ wpc[w] = "poll" /\ Is("cancelled")
  /\ UNCHANGED vars

PollCancelled(w) ==
  /\ wpc[w] = "poll" /\ Is("cancelled")
  /\ Return(w)
  /\ UNCHANGED <<jobVars, handlerVars, dbVars>>

PollToken(w) ==
  /\ wpc[w] = "poll" /\ ~Is("cancelled") /\ token
  /\ status' = Whole("in_progress")
  /\ progress' = 5
  /\ WGoto(w, "fetch")
  /\ waited' = [waited EXCEPT ![w] = 0]
  /\ UNCHANGED <<cur, token, cooling, rng, gotAny, handlerVars, dbVars>>

\* Mutant: "waited" is not advanced by the sleep.
PollAgainUncounted(w) ==
  /\ wpc[w] = "poll" /\ ~Is("cancelled") /\ ~token
  /\ IF waited[w] > PollLimit THEN WGoto(w, "timeout") ELSE UNCHANGED wpc
  /\ UNCHANGED <<jobVars, waited, rng, gotAny, handlerVars, dbVars>>

(* No token yet: sleep and poll again, or give up after PollLimit polls. *)
PollAgain(w) ==
  /\ wpc[w] = "poll" /\ ~Is("cancelled") /\ ~token
  /\ IF waited[w] >= PollLimit
       THEN WGoto(w, "timeout") /\ UNCHANGED waited
       ELSE waited' = [waited EXCEPT ![w] = @ + 1] /\ UNCHANGED wpc
  /\ UNCHANGED <<jobVars, rng, gotAny, handlerVars, dbVars>>

\* Mutant: the worker gives up without failing the job.
TimeoutSilent(w) ==
  /\ wpc[w] = "timeout"
  /\ Return(w)
  /\ UNCHANGED <<jobVars, handlerVars, dbVars>>

(* The lock is taken again, and the status is not looked at again. *)
Timeout(w) ==
  /\ wpc[w] = "timeout"
  /\ status' = Whole("failed")
  /\ Return(w)
  /\ UNCHANGED <<cur, progress, token, cooling, handlerVars, dbVars>>

(* fetchTopItems reads the token of the current job, then calls Spotify. *)
Fetch(w) ==
  /\ wpc[w] = "fetch"
  /\ \/ WGoto(w, "progress") /\ UNCHANGED gotAny
     \/ /\ token
        /\ gotAny' = [gotAny EXCEPT ![w] = TRUE]
        /\ WGoto(w, "user")
  /\ UNCHANGED <<jobVars, waited, rng, handlerVars, dbVars>>

ReadUser(w) ==
  /\ wpc[w] = "user"
  /\ WGoto(w, IF token THEN "artists" ELSE "progress")
  /\ UNCHANGED <<jobVars, waited, rng, gotAny, handlerVars, dbVars>>

(* Store errors are logged and the range still counts as succeeded. *)
StoreArtists(w) ==
  /\ wpc[w] = "artists"
  /\ ready' \in {ready, TRUE}
  /\ WGoto(w, "tracks")
  /\ UNCHANGED <<jobVars, waited, rng, gotAny, handlerVars, persisted>>

StoreTracks(w) ==
  /\ wpc[w] = "tracks"
  /\ ready' \in {ready, TRUE}
  /\ WGoto(w, "progress")
  /\ UNCHANGED <<jobVars, waited, rng, gotAny, handlerVars, persisted>>

PerRange == (100 - 5) \div NumRanges

\* Mutant: the range counted twice.
RangeProgressOffByOne(r) == 5 + PerRange * (r + 1)

RangeProgress(r) == 5 + PerRange * r

\* Mutant: progress is reported whatever the status of the current job.
ReportRangeAlways(w) ==
  /\ wpc[w] = "progress"
  /\ progress' = RangeProgress(rng[w])
  /\ IF rng[w] < NumRanges
       THEN rng' = [rng EXCEPT ![w] = @ + 1] /\ WGoto(w, "fetch")
       ELSE UNCHANGED rng /\ WGoto(w, "final")
  /\ UNCHANGED <<cur, status, token, cooling, waited, gotAny, handlerVars, dbVars>>

ReportRange(w) ==
  /\ wpc[w] = "progress"
  /\ progress' = IF Is("in_progress") THEN RangeProgress(rng[w]) ELSE progress
  /\ IF rng[w] < NumRanges
       THEN rng' = [rng EXCEPT ![w] = @ + 1] /\ WGoto(w, "fetch")
       ELSE UNCHANGED rng /\ WGoto(w, "final")
  /\ UNCHANGED <<cur, status, token, cooling, waited, gotAny, handlerVars, dbVars>>

(* The last critical section: only a job that is in progress is closed. *)
Finalize(w) ==
  /\ wpc[w] = "final"
  /\ IF Is("in_progress")
       THEN IF gotAny[w]
              THEN /\ status' = Whole("complete")
                   /\ progress' = 100
              ELSE /\ status' = Whole("failed")
                   /\ UNCHANGED progress
       ELSE UNCHANGED <<status, progress>>
  /\ Return(w)
  /\ UNCHANGED <<cur, token, cooling, handlerVars, dbVars>>

-----------------------------------------------------------------------------
SyncSpotify(h) ==
  \/ StartSyncJoins(h) \/ StartSyncLimited(h) \/ StartSyncNew(h)
  \/ Exchange(h) \/ PersistTokens(h) \/ SetJobTokens(h)
  \/ FailUnread(h) \/ FailFirstWord(h) \/ FailSecondWord(h)

RetrySpotifySync(h) ==
  RetrySyncConflict(h) \/ RetrySyncNew(h) \/ RetryExchange(h) \/ RetryPersist(h)

runJob(w) ==
  \/ PollCancelled(w) \/ PollToken(w) \/ PollAgain(w) \/ Timeout(w)
  \/ Fetch(w) \/ ReadUser(w) \/ StoreArtists(w) \/ StoreTracks(w)
  \/ ReportRange(w) \/ Finalize(w)

Next ==
  \/ \E h \in Handlers : SyncSpotify(h) \/ RetrySpotifySync(h)
  \/ CancelSync
  \/ CooldownOver
  \/ \E w \in Jobs : runJob(w)

Spec == Init /\ [][Next]_vars

(* The Go scheduler runs every runnable goroutine, the polling sleeps end, *)
(* every call to Spotify is cut off by the client's 15s timeout, and its   *)
(* chain of next links ends (fetchAll itself bounds items, not pages).     *)
(* Nothing is assumed of users and handlers.                               *)
Fairness == \A w \in Jobs : WF_vars(runJob(w))

FairSpec == Spec /\ Fairness

-----------------------------------------------------------------------------
(* Safety: what holds in spite of stale workers and unlocked writes. *)

(* A job shown as pending or in progress always has a goroutine behind it  *)
(* that will close it.  Workers return from five places of runJob and may  *)
(* act on a job that is not theirs; none of them may leave the current job *)
(* running with nobody to finish it, for StartSync would then join it and  *)
(* RetrySync refuse with 409 for ever.                                     *)
RunningHasWorker ==
  Running => \E w \in Jobs : wpc[w] \notin {"none", "done"}

(* "complete" and "100%" are shown together: no late ReportRange of a      *)
(* worker left over from an earlier job takes the percentage of a complete *)
(* job back, and no other way to complete exists.                          *)
CompleteIsFull == Is("complete") => progress = 100

(* A SyncSpotify request answered 202 after its exchange leaves no pending *)
(* job without tokens, even when other requests joined, cancelled or       *)
(* replaced the job between StartSync and SetJobTokens.                    *)
AcceptedSyncHasTokens ==
  \A h \in Handlers :
    /\ hpc[h] = "idle" /\ reply[h] = "accepted"
    /\ hjob[h] = cur /\ Is("pending")
    => token

(* Where tokens can be persisted, listening data is stored only for a user *)
(* whose tokens were persisted first: when PersistTokens fails no worker   *)
(* may ingest under that grant.                                            *)
IngestionNeedsGrant == HasEncKey /\ ready => persisted

-----------------------------------------------------------------------------
(* Liveness, under Fairness. *)

(* A running job stops running, whatever its handlers do: tokens arrive,   *)
(* the wait for them times out, or the job is cancelled or replaced.       *)
RunningJobEnds ==
  \A j \in Jobs : (cur = j /\ Running) ~> ~(cur = j /\ Running)

(* Every goroutine returns: no runJob is left behind by cancel and retry.  *)
WorkersReturn == \A w \in Jobs : (wpc[w] = "poll") ~> (wpc[w] = "done")

-----------------------------------------------------------------------------
(* What the comments and the API description say, and the code does not. *)

(* wrappers.go:231: RetrySpotifySync restarts a sync.  A retry answered    *)
(* 202 after a successful exchange leaves no pending job without tokens.   *)
AcceptedRetryHasTokens ==
  \A h \in Handlers :
    /\ hpc[h] = "idle" /\ reply[h] = "retry_accepted"
    /\ hjob[h] = cur /\ Is("pending")
    => token
=============================================================================

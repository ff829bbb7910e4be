------------------------- MODULE SpotifySyncProofs -------------------------
(***************************************************************************)
(* Safety of SpotifySync for every number of handlers, jobs, polls and     *)
(* ranges.  Inv is inductive; each part of it is used by the one before.   *)
(***************************************************************************)
EXTENDS SpotifySync, TLAPS

(* The worker launched for a pending job is still waiting for its tokens.  *)
PendingHasOwnWorker ==
  Is("pending") => cur \in Jobs /\ wpc[cur] \in {"poll", "timeout"}

(* Some worker, not always the job's own, is ingesting for a job that is   *)
(* in progress.                                                            *)
InProgressHasIngestor ==
  Is("in_progress") => \E w \in Jobs : wpc[w] \in IngestPCs

(* Jobs that handlers point to have been allocated. *)
PointersAllocated == \A h \in Handlers : hjob[h] <= cur

(* Tokens reach a job, and data the database, only through a grant that    *)
(* was persisted, where grants can be.                                     *)
Granted == HasEncKey => persisted

GrantFlow ==
  /\ token => Granted
  /\ \A h \in Handlers : hpc[h] = "settokens" => Granted
  /\ \A w \in Jobs : wpc[w] \in {"artists", "tracks"} => Granted
  /\ IngestionNeedsGrant

(* The inductive invariant.  PointersAllocated is there for                *)
(* AcceptedSyncHasTokens: a joined job exists, so SetJobTokens finds one.  *)
Inv ==
  /\ TypeOK
  /\ PendingHasOwnWorker
  /\ InProgressHasIngestor
  /\ CompleteIsFull
  /\ PointersAllocated
  /\ AcceptedSyncHasTokens
  /\ GrantFlow

-----------------------------------------------------------------------------
(* The percentages a worker reports stay within 0..100. *)
LEMMA RangeProgressBound ==
  ASSUME NEW r \in Ranges
  PROVE  RangeProgress(r) \in 0..100
<1>1. NumRanges \in 1..95
  BY BoundsAssumption
<1>2. /\ PerRange \in Nat
      /\ PerRange * NumRanges \in Nat
      /\ PerRange * NumRanges <= 95
  BY <1>1, Z3 DEF PerRange
<1>3. PerRange * r <= PerRange * NumRanges
  BY <1>1, <1>2, Z3 DEF Ranges
<1>4. PerRange * r \in Nat
  BY <1>1, <1>2 DEF Ranges
<1>5. 5 + PerRange * r \in 0..100
  BY <1>2, <1>3, <1>4
<1> QED
  BY <1>5 DEF RangeProgress

-----------------------------------------------------------------------------
(* The values the string writes leave behind are pairs of words. *)
LEMMA Words ==
  /\ \A s \in Statuses : Whole(s) \in Word
  /\ \A x \in Word : [x EXCEPT !.ptr = "failed"] \in Word
                  /\ [x EXCEPT !.len = "failed"] \in Word
  /\ {"none", "pending", "in_progress", "complete", "failed", "cancelled"} = Statuses
BY DEF Whole, Word, Statuses

(* What the assumptions on the bounds say of the smallest values. *)
LEMMA Small ==
  /\ 1 \in Ranges
  /\ HasEncKey \in BOOLEAN
  /\ 0 \in 0..MaxJobs
  /\ 0 \in 0..PollLimit
  /\ \A i \in 0..MaxJobs : i < MaxJobs => i + 1 \in Jobs /\ i + 1 \in 0..MaxJobs
BY BoundsAssumption DEF Ranges, Jobs

(* Type correctness: no step of any handler, worker or user leaves the     *)
(* declared ranges; in particular progress stays a percentage.             *)
LEMMA TypeInitial == Init => TypeOK
<1> SUFFICES ASSUME Init PROVE TypeOK
  OBVIOUS
<1>1. status \in Word /\ progress \in 0..100
  BY Words DEF Init
<1>2. /\ token \in BOOLEAN /\ cooling \in BOOLEAN
      /\ persisted \in BOOLEAN /\ ready \in BOOLEAN
  BY DEF Init
<1>3. /\ wpc \in [Jobs -> WorkerPCs] /\ waited \in [Jobs -> 0..PollLimit]
      /\ rng \in [Jobs -> Ranges] /\ gotAny \in [Jobs -> BOOLEAN]
  BY Small DEF Init, WorkerPCs
<1>4. /\ hpc \in [Handlers -> HandlerPCs] /\ hjob \in [Handlers -> 0..MaxJobs]
      /\ reply \in [Handlers -> Replies]
  BY Small DEF Init, HandlerPCs, Replies
<1> QED
  BY <1>1, <1>2, <1>3, <1>4, Small DEF TypeOK, Init

(* A new job and its goroutine are well typed: launching stays below MaxJobs. *)
LEMMA LaunchTypes ==
  ASSUME TypeOK, NEW h \in Handlers, NEW pc \in HandlerPCs,
         Launch, Begin(h, cur + 1, pc)
  PROVE  TypeOK'
<1>1. cur + 1 \in Jobs /\ cur + 1 \in 0..MaxJobs
  BY Small DEF Launch, TypeOK
<1>2. status' \in Word /\ progress' \in 0..100
  BY Words DEF Launch
<1>3. token' \in BOOLEAN /\ cooling' \in BOOLEAN
  BY DEF Launch
<1>4. wpc' \in [Jobs -> WorkerPCs]
  BY <1>1 DEF Launch, TypeOK, WorkerPCs
<1>5. /\ hpc' \in [Handlers -> HandlerPCs]
      /\ hjob' \in [Handlers -> 0..MaxJobs]
      /\ reply' \in [Handlers -> Replies]
  BY <1>1 DEF Begin, Goto, TypeOK, Replies
<1>6. UNCHANGED <<waited, rng, gotAny, persisted, ready>> /\ cur' = cur + 1
  BY DEF Launch, dbVars
<1> QED
  BY <1>1, <1>2, <1>3, <1>4, <1>5, <1>6 DEF TypeOK

(* No step of a handler, a worker or a user breaks the types. *)
LEMMA TypePreserved == TypeOK /\ [Next]_vars => TypeOK'
<1> SUFFICES ASSUME TypeOK, [Next]_vars PROVE TypeOK'
  OBVIOUS
<1> USE Words, Small DEF TypeOK, jobVars, workerVars, handlerVars, dbVars
<1>1. ASSUME NEW h \in Handlers, SyncSpotify(h) PROVE TypeOK'
  <2> USE DEF Goto, HandlerPCs, Replies
  <2>1. CASE StartSyncJoins(h)
    BY <2>1 DEF StartSyncJoins, Begin
  <2>2. CASE StartSyncLimited(h)
    BY <2>2 DEF StartSyncLimited, Begin
  <2>3. CASE StartSyncNew(h)
    BY <2>3, LaunchTypes DEF StartSyncNew
  <2>4. CASE Exchange(h)
    BY <2>4 DEF Exchange, Answer
  <2>5. CASE PersistTokens(h)
    BY <2>5 DEF PersistTokens
  <2>6. CASE SetJobTokens(h)
    BY <2>6 DEF SetJobTokens, Answer
  <2>7. CASE FailUnread(h)
    BY <2>7 DEF FailUnread, Answer
  <2>8. CASE FailFirstWord(h)
    BY <2>8 DEF FailFirstWord
  <2>9. CASE FailSecondWord(h)
    BY <2>9 DEF FailSecondWord, Answer
  <2> QED
    BY <1>1, <2>1, <2>2, <2>3, <2>4, <2>5, <2>6, <2>7, <2>8, <2>9 DEF SyncSpotify
<1>2. ASSUME NEW h \in Handlers, RetrySpotifySync(h) PROVE TypeOK'
  <2> USE DEF Goto, HandlerPCs, Replies
  <2>1. CASE RetrySyncConflict(h)
    BY <2>1 DEF RetrySyncConflict, Answer
  <2>2. CASE RetrySyncNew(h)
    BY <2>2, LaunchTypes DEF RetrySyncNew
  <2>3. CASE RetryExchange(h)
    BY <2>3 DEF RetryExchange, Answer
  <2>4. CASE RetryPersist(h)
    BY <2>4 DEF RetryPersist, Answer
  <2> QED
    BY <1>2, <2>1, <2>2, <2>3, <2>4 DEF RetrySpotifySync
<1>3. CASE CancelSync
  BY <1>3 DEF CancelSync
<1>4. CASE CooldownOver
  BY <1>4 DEF CooldownOver
<1>5. ASSUME NEW w \in Jobs, runJob(w) PROVE TypeOK'
  <2> USE DEF WGoto, WorkerPCs
  <2>1. CASE PollCancelled(w)
    BY <2>1 DEF PollCancelled, Return
  <2>2. CASE PollToken(w)
    BY <2>2 DEF PollToken
  <2>3. CASE PollAgain(w)
    <3>1. waited[w] < PollLimit => waited[w] + 1 \in 0..PollLimit
      BY BoundsAssumption
    <3> QED
      BY <2>3, <3>1, BoundsAssumption DEF PollAgain
  <2>4. CASE Timeout(w)
    BY <2>4 DEF Timeout, Return
  <2>5. CASE Fetch(w)
    BY <2>5 DEF Fetch
  <2>6. CASE ReadUser(w) \/ StoreArtists(w) \/ StoreTracks(w)
    BY <2>6 DEF ReadUser, StoreArtists, StoreTracks
  <2>7. CASE ReportRange(w)
    <3>1. RangeProgress(rng[w]) \in 0..100
      BY RangeProgressBound
    <3>2. rng[w] < NumRanges => rng[w] + 1 \in Ranges
      BY BoundsAssumption DEF Ranges
    <3> QED
      BY <2>7, <3>1, <3>2 DEF ReportRange
  <2>8. CASE Finalize(w)
    BY <2>8 DEF Finalize, Return
  <2> QED
    BY <1>5, <2>1, <2>2, <2>3, <2>4, <2>5, <2>6, <2>7, <2>8 DEF runJob
<1>6. CASE UNCHANGED vars
  BY <1>6 DEF vars
<1> QED
  BY <1>1, <1>2, <1>3, <1>4, <1>5, <1>6 DEF Next

(* The state of the service is well typed in every behaviour: the progress *)
(* stays a percentage, and a torn status stays made of two known words.    *)
THEOREM TypeCorrect == Spec => []TypeOK
  BY TypeInitial, TypePreserved, PTL DEF Spec

-----------------------------------------------------------------------------
(* Every part of Inv but the types is preserved, one group of actions at a *)
(* time.                                                                   *)

(* The statuses differ as strings. *)
LEMMA Distinct ==
  \A s, t \in Statuses : Whole(s) = Whole(t) => s = t
BY DEF Whole

(* Half a write of "failed" makes no whole status other than "failed". *)
LEMMA HalfWrites ==
  ASSUME NEW x \in Word, NEW s \in Statuses \ {"failed"}
  PROVE  /\ [x EXCEPT !.ptr = "failed"] # Whole(s)
         /\ [x EXCEPT !.len = "failed"] # Whole(s)
BY DEF Word, Whole

(* Only the job's own worker, or any worker that changes the status away   *)
(* from pending, leaves the polling loop.                                  *)
LEMMA OwnWorkerPreserved ==
  ASSUME TypeOK, PendingHasOwnWorker, [Next]_vars
  PROVE  PendingHasOwnWorker'
<1> USE DEF TypeOK, PendingHasOwnWorker, Is, jobVars, workerVars, handlerVars, dbVars
<1>1. ASSUME NEW h \in Handlers, StartSyncNew(h) \/ RetrySyncNew(h)
      PROVE  PendingHasOwnWorker'
  <2>1. cur + 1 \in Jobs
    BY <1>1, Small DEF StartSyncNew, RetrySyncNew, Launch
  <2> QED
    BY <1>1, <2>1 DEF StartSyncNew, RetrySyncNew, Launch
<1>2. ASSUME NEW h \in Handlers, FailFirstWord(h) \/ FailSecondWord(h)
      PROVE  PendingHasOwnWorker'
  BY <1>2, HalfWrites, Words DEF FailFirstWord, FailSecondWord
<1>3. ASSUME NEW h \in Handlers, SyncSpotify(h) \/ RetrySpotifySync(h)
      PROVE  PendingHasOwnWorker'
  <2>1. CASE \/ StartSyncJoins(h) \/ StartSyncLimited(h) \/ Exchange(h)
             \/ PersistTokens(h) \/ SetJobTokens(h) \/ FailUnread(h)
             \/ RetrySyncConflict(h) \/ RetryExchange(h) \/ RetryPersist(h)
    BY <2>1 DEF StartSyncJoins, StartSyncLimited, Exchange, PersistTokens,
       SetJobTokens, FailUnread, RetrySyncConflict, RetryExchange, RetryPersist
  <2> QED
    BY <1>1, <1>2, <1>3, <2>1 DEF SyncSpotify, RetrySpotifySync
<1>4. CASE CancelSync \/ CooldownOver \/ UNCHANGED vars
  BY <1>4, Distinct, Words DEF CancelSync, CooldownOver, vars
<1>5. ASSUME NEW w \in Jobs, runJob(w) PROVE PendingHasOwnWorker'
  <2>1. CASE PollCancelled(w)
    BY <2>1, Distinct, Words DEF PollCancelled, Return, WGoto
  <2>2. CASE PollToken(w) \/ Timeout(w)
    BY <2>2, Distinct, Words DEF PollToken, Timeout
  <2>3. CASE PollAgain(w)
    BY <2>3 DEF PollAgain, WGoto
  <2>4. CASE Fetch(w) \/ ReadUser(w) \/ StoreArtists(w) \/ StoreTracks(w)
             \/ ReportRange(w)
    BY <2>4 DEF Fetch, ReadUser, StoreArtists, StoreTracks, ReportRange, WGoto
  <2>5. CASE Finalize(w)
    BY <2>5, Distinct, Words DEF Finalize, Return, WGoto
  <2> QED
    BY <1>5, <2>1, <2>2, <2>3, <2>4, <2>5 DEF runJob
<1> QED
  BY <1>3, <1>4, <1>5 DEF Next

(* The worker that moves a job to in_progress ingests from then on, and a  *)
(* worker that stops ingesting closes whatever job is in progress.         *)
LEMMA IngestorPreserved ==
  ASSUME TypeOK, InProgressHasIngestor, [Next]_vars
  PROVE  InProgressHasIngestor'
<1> USE DEF TypeOK, InProgressHasIngestor, Is, jobVars, workerVars, handlerVars, dbVars
<1>1. ASSUME NEW h \in Handlers, StartSyncNew(h) \/ RetrySyncNew(h)
      PROVE  InProgressHasIngestor'
  BY <1>1, Distinct, Words DEF StartSyncNew, RetrySyncNew, Launch
<1>2. ASSUME NEW h \in Handlers, FailFirstWord(h) \/ FailSecondWord(h)
      PROVE  InProgressHasIngestor'
  BY <1>2, HalfWrites, Words DEF FailFirstWord, FailSecondWord
<1>3. ASSUME NEW h \in Handlers, SyncSpotify(h) \/ RetrySpotifySync(h)
      PROVE  InProgressHasIngestor'
  <2>1. CASE \/ StartSyncJoins(h) \/ StartSyncLimited(h) \/ Exchange(h)
             \/ PersistTokens(h) \/ SetJobTokens(h) \/ FailUnread(h)
             \/ RetrySyncConflict(h) \/ RetryExchange(h) \/ RetryPersist(h)
    BY <2>1 DEF StartSyncJoins, StartSyncLimited, Exchange, PersistTokens,
       SetJobTokens, FailUnread, RetrySyncConflict, RetryExchange, RetryPersist
  <2> QED
    BY <1>1, <1>2, <1>3, <2>1 DEF SyncSpotify, RetrySpotifySync
<1>4. CASE CancelSync \/ CooldownOver \/ UNCHANGED vars
  BY <1>4, Distinct, Words DEF CancelSync, CooldownOver, vars
<1>5. ASSUME NEW w \in Jobs, runJob(w) PROVE InProgressHasIngestor'
  <2> USE DEF WGoto, IngestPCs
  <2>1. CASE PollCancelled(w) \/ Timeout(w)
    BY <2>1, Distinct, Words DEF PollCancelled, Timeout, Return
  <2>2. CASE PollToken(w)
    BY <2>2 DEF PollToken
  <2>3. CASE PollAgain(w)
    BY <2>3 DEF PollAgain
  <2>4. CASE Fetch(w) \/ ReadUser(w) \/ StoreArtists(w) \/ StoreTracks(w)
             \/ ReportRange(w)
    <3>1. wpc'[w] \in IngestPCs
      BY <2>4 DEF Fetch, ReadUser, StoreArtists, StoreTracks, ReportRange
    <3> QED
      BY <3>1
  <2>5. CASE Finalize(w)
    BY <2>5, Distinct, Words DEF Finalize
  <2> QED
    BY <1>5, <2>1, <2>2, <2>3, <2>4, <2>5 DEF runJob
<1> QED
  BY <1>3, <1>4, <1>5 DEF Next

(* Progress is written only below in_progress, or with the status.         *)
LEMMA CompletePreserved ==
  ASSUME TypeOK, CompleteIsFull, [Next]_vars
  PROVE  CompleteIsFull'
<1> USE DEF TypeOK, CompleteIsFull, Is, jobVars, workerVars, handlerVars, dbVars
<1>1. ASSUME NEW h \in Handlers, SyncSpotify(h) \/ RetrySpotifySync(h)
      PROVE  CompleteIsFull'
  <2>1. CASE StartSyncNew(h) \/ RetrySyncNew(h)
    BY <2>1, Distinct, Words DEF StartSyncNew, RetrySyncNew, Launch
  <2>2. CASE FailFirstWord(h) \/ FailSecondWord(h)
    BY <2>2, HalfWrites, Words DEF FailFirstWord, FailSecondWord
  <2>3. CASE \/ StartSyncJoins(h) \/ StartSyncLimited(h) \/ Exchange(h)
             \/ PersistTokens(h) \/ SetJobTokens(h) \/ FailUnread(h)
             \/ RetrySyncConflict(h) \/ RetryExchange(h) \/ RetryPersist(h)
    BY <2>3 DEF StartSyncJoins, StartSyncLimited, Exchange, PersistTokens,
       SetJobTokens, FailUnread, RetrySyncConflict, RetryExchange, RetryPersist
  <2> QED
    BY <1>1, <2>1, <2>2, <2>3 DEF SyncSpotify, RetrySpotifySync
<1>2. CASE CancelSync \/ CooldownOver \/ UNCHANGED vars
  BY <1>2, Distinct, Words DEF CancelSync, CooldownOver, vars
<1>3. ASSUME NEW w \in Jobs, runJob(w) PROVE CompleteIsFull'
  <2>1. CASE PollToken(w) \/ Timeout(w) \/ Finalize(w)
    BY <2>1, Distinct, Words DEF PollToken, Timeout, Finalize
  <2>2. CASE ReportRange(w)
    BY <2>2, Distinct, Words DEF ReportRange
  <2>3. CASE \/ PollCancelled(w) \/ PollAgain(w) \/ Fetch(w) \/ ReadUser(w)
             \/ StoreArtists(w) \/ StoreTracks(w)
    BY <2>3 DEF PollCancelled, PollAgain, Fetch, ReadUser, StoreArtists, StoreTracks
  <2> QED
    BY <1>3, <2>1, <2>2, <2>3 DEF runJob
<1> QED
  BY <1>1, <1>2, <1>3 DEF Next

(* A handler keeps a pointer to an existing job or to the throw-away one,  *)
(* and jobs are only added.                                                *)
LEMMA PointersPreserved ==
  ASSUME TypeOK, PointersAllocated, [Next]_vars
  PROVE  PointersAllocated'
<1> USE DEF TypeOK, PointersAllocated, Begin, Answer, Goto,
        jobVars, workerVars, handlerVars, dbVars
<1>1. ASSUME NEW h \in Handlers, SyncSpotify(h) \/ RetrySpotifySync(h)
      PROVE  PointersAllocated'
  <2>1. CASE StartSyncNew(h) \/ RetrySyncNew(h)
    BY <2>1 DEF StartSyncNew, RetrySyncNew, Launch
  <2>2. CASE StartSyncJoins(h) \/ StartSyncLimited(h)
    BY <2>2 DEF StartSyncJoins, StartSyncLimited
  <2>3. CASE \/ Exchange(h) \/ PersistTokens(h) \/ SetJobTokens(h)
             \/ FailUnread(h) \/ FailSecondWord(h)
             \/ RetrySyncConflict(h) \/ RetryExchange(h) \/ RetryPersist(h)
    <3>1. UNCHANGED cur /\ (UNCHANGED hjob \/ hjob' = [hjob EXCEPT ![h] = 0]
                            \/ hjob' = [hjob EXCEPT ![h] = @])
      BY <2>3 DEF Exchange, PersistTokens, SetJobTokens, FailUnread, FailSecondWord,
         RetrySyncConflict, RetryExchange, RetryPersist
    <3> QED
      BY <3>1
  <2>4. CASE FailFirstWord(h)
    BY <2>4 DEF FailFirstWord
  <2> QED
    BY <1>1, <2>1, <2>2, <2>3, <2>4 DEF SyncSpotify, RetrySpotifySync
<1>2. CASE CancelSync \/ CooldownOver \/ UNCHANGED vars
  BY <1>2 DEF CancelSync, CooldownOver, vars
<1>3. ASSUME NEW w \in Jobs, runJob(w) PROVE PointersAllocated'
  BY <1>3 DEF runJob, PollCancelled, PollToken, PollAgain, Timeout, Fetch, ReadUser,
     StoreArtists, StoreTracks, ReportRange, Finalize
<1> QED
  BY <1>1, <1>2, <1>3 DEF Next

(* Only a new job lacks tokens that an accepted handler gave, and the      *)
(* handler of a new job has not answered yet.                              *)
LEMMA AcceptedPreserved ==
  ASSUME TypeOK, PointersAllocated, PendingHasOwnWorker, AcceptedSyncHasTokens,
         [Next]_vars
  PROVE  AcceptedSyncHasTokens'
<1> USE DEF TypeOK, PointersAllocated, AcceptedSyncHasTokens, Is, Goto,
        jobVars, workerVars, handlerVars, dbVars
<1>1. ASSUME NEW h \in Handlers, SyncSpotify(h) \/ RetrySpotifySync(h)
      PROVE  AcceptedSyncHasTokens'
  <2>1. CASE StartSyncNew(h) \/ RetrySyncNew(h)
    BY <2>1 DEF StartSyncNew, RetrySyncNew, Launch, Begin
  <2>2. CASE FailFirstWord(h) \/ FailSecondWord(h)
    BY <2>2, HalfWrites, Words DEF FailFirstWord, FailSecondWord, Answer
  <2>3. CASE StartSyncJoins(h) \/ StartSyncLimited(h)
    BY <2>3 DEF StartSyncJoins, StartSyncLimited, Begin
  <2>4. CASE SetJobTokens(h)
    <3>1. Is("pending") => cur # 0
      BY DEF PendingHasOwnWorker, Jobs
    <3> QED
      BY <2>4, <3>1 DEF SetJobTokens, Answer
  <2>5. CASE \/ Exchange(h) \/ PersistTokens(h) \/ FailUnread(h)
             \/ RetrySyncConflict(h) \/ RetryExchange(h) \/ RetryPersist(h)
    BY <2>5 DEF Exchange, PersistTokens, FailUnread, RetrySyncConflict,
       RetryExchange, RetryPersist, Answer
  <2> QED
    BY <1>1, <2>1, <2>2, <2>3, <2>4, <2>5 DEF SyncSpotify, RetrySpotifySync
<1>2. CASE CancelSync \/ CooldownOver \/ UNCHANGED vars
  BY <1>2, Distinct, Words DEF CancelSync, CooldownOver, vars
<1>3. ASSUME NEW w \in Jobs, runJob(w) PROVE AcceptedSyncHasTokens'
  <2>1. CASE PollToken(w) \/ Timeout(w) \/ Finalize(w)
    BY <2>1, Distinct, Words DEF PollToken, Timeout, Finalize
  <2>2. CASE \/ PollCancelled(w) \/ PollAgain(w) \/ Fetch(w) \/ ReadUser(w)
             \/ StoreArtists(w) \/ StoreTracks(w) \/ ReportRange(w)
    BY <2>2 DEF PollCancelled, PollAgain, Fetch, ReadUser, StoreArtists,
       StoreTracks, ReportRange
  <2> QED
    BY <1>3, <2>1, <2>2 DEF runJob
<1> QED
  BY <1>1, <1>2, <1>3 DEF Next

(* Nothing is persisted twice or forgotten: persisted never becomes FALSE, *)
(* and each stage of the grant is entered from the one before.             *)
LEMMA GrantPreserved ==
  ASSUME TypeOK, GrantFlow, [Next]_vars
  PROVE  GrantFlow'
<1> USE BoundsAssumption DEF TypeOK, GrantFlow, Granted, IngestionNeedsGrant, Goto, WGoto,
        jobVars, workerVars, handlerVars, dbVars
<1>1. ASSUME NEW h \in Handlers, SyncSpotify(h) \/ RetrySpotifySync(h)
      PROVE  GrantFlow'
  <2>1. CASE StartSyncNew(h) \/ RetrySyncNew(h)
    BY <2>1 DEF StartSyncNew, RetrySyncNew, Launch, Begin
  <2>2. CASE \/ StartSyncJoins(h) \/ StartSyncLimited(h) \/ Exchange(h)
             \/ FailUnread(h) \/ FailFirstWord(h) \/ FailSecondWord(h)
             \/ RetrySyncConflict(h) \/ RetryExchange(h)
    <3>1. UNCHANGED <<wpc, token, persisted, ready>>
      BY <2>2 DEF StartSyncJoins, StartSyncLimited, Exchange, FailUnread,
         FailFirstWord, FailSecondWord, RetrySyncConflict, RetryExchange
    <3>2. \A g \in Handlers : hpc'[g] = "settokens" => hpc[g] = "settokens"
      BY <2>2 DEF StartSyncJoins, StartSyncLimited, Exchange, FailUnread,
         FailFirstWord, FailSecondWord, RetrySyncConflict, RetryExchange,
         Answer, Begin
    <3> QED
      BY <3>1, <3>2
  <2>3. CASE PersistTokens(h)
    BY <2>3 DEF PersistTokens
  <2>4. CASE SetJobTokens(h)
    BY <2>4 DEF SetJobTokens, Answer
  <2>5. CASE RetryPersist(h)
    BY <2>5 DEF RetryPersist, Answer
  <2> QED
    BY <1>1, <2>1, <2>2, <2>3, <2>4, <2>5 DEF SyncSpotify, RetrySpotifySync
<1>2. CASE CancelSync \/ CooldownOver \/ UNCHANGED vars
  BY <1>2 DEF CancelSync, CooldownOver, vars
<1>3. ASSUME NEW w \in Jobs, runJob(w) PROVE GrantFlow'
  <2>1. CASE PollCancelled(w) \/ Timeout(w) \/ Finalize(w)
    BY <2>1 DEF PollCancelled, Timeout, Finalize, Return
  <2>2. CASE PollToken(w) \/ PollAgain(w) \/ Fetch(w) \/ ReportRange(w)
    BY <2>2 DEF PollToken, PollAgain, Fetch, ReportRange
  <2>3. CASE ReadUser(w)
    BY <2>3 DEF ReadUser
  <2>4. CASE StoreArtists(w) \/ StoreTracks(w)
    BY <2>4 DEF StoreArtists, StoreTracks
  <2> QED
    BY <1>3, <2>1, <2>2, <2>3, <2>4 DEF runJob
<1> QED
  BY <1>1, <1>2, <1>3 DEF Next

-----------------------------------------------------------------------------
(* The invariant holds before the first request. *)
LEMMA InvInitial == Init => Inv
<1> SUFFICES ASSUME Init PROVE Inv
  OBVIOUS
<1>1. TypeOK
  BY TypeInitial
<1>2. PendingHasOwnWorker /\ InProgressHasIngestor /\ CompleteIsFull
  BY Distinct, Words DEF Init, PendingHasOwnWorker, InProgressHasIngestor,
     CompleteIsFull, Is
<1>3. PointersAllocated /\ AcceptedSyncHasTokens
  BY DEF Init, PointersAllocated, AcceptedSyncHasTokens
<1>4. GrantFlow
  BY DEF Init, GrantFlow, Granted, IngestionNeedsGrant
<1> QED
  BY <1>1, <1>2, <1>3, <1>4 DEF Inv

(* Every step of the service preserves the invariant. *)
LEMMA InvPreserved == Inv /\ [Next]_vars => Inv'
  BY TypePreserved, OwnWorkerPreserved, IngestorPreserved, CompletePreserved,
     PointersPreserved, AcceptedPreserved, GrantPreserved DEF Inv

(* The invariant holds in every behaviour. *)
LEMMA InvAlways == Spec => []Inv
  BY InvInitial, InvPreserved, PTL DEF Spec

(* A job that GetStatus shows as pending or in progress has a runJob       *)
(* goroutine that has not returned: its own while pending, one that is     *)
(* ingesting while in progress.                                            *)
THEOREM NoOrphanedJob == Spec => []RunningHasWorker
<1>1. Inv => RunningHasWorker
  <2> SUFFICES ASSUME Inv, Running
               PROVE  \E w \in Jobs : wpc[w] \notin {"none", "done"}
    BY DEF RunningHasWorker
  <2>1. CASE Is("pending")
    BY <2>1 DEF Inv, PendingHasOwnWorker
  <2>2. CASE Is("in_progress")
    BY <2>2 DEF Inv, InProgressHasIngestor, IngestPCs
  <2> QED
    BY <2>1, <2>2 DEF Running
<1> QED
  BY <1>1, InvAlways, PTL

(* A complete job shows 100 percent, whatever stale runJob goroutines do.  *)
THEOREM CompleteStaysFull == Spec => []CompleteIsFull
  BY InvAlways, PTL DEF Inv

(* SyncSpotify answers 202 only when its pending job, if it still is the   *)
(* current one, has been given the tokens.                                 *)
THEOREM AcceptedGetsTokens == Spec => []AcceptedSyncHasTokens
  BY InvAlways, PTL DEF Inv

(* Top artists and tracks are stored only after PersistTokens succeeded,   *)
(* when an encryption key is configured.                                   *)
THEOREM GrantBeforeData == Spec => []IngestionNeedsGrant
<1>1. Inv => IngestionNeedsGrant
  BY DEF Inv, GrantFlow
<1> QED
  BY <1>1, InvAlways, PTL
=============================================================================

# Formal models of kellogg-music-match

TLA+ modules that model the stateful core of the backend (`src/backend`), TLC
configurations that check them on small instances, and proofs checked by TLAPS.
Paths below are relative to the repository; `business/`, `cmd/` and `db/` are
short for `src/backend/business/` and so on. `PROJECT.json` maps every
definition to the lines it models.

## 1. The system

The backend is one Go process (`cmd/main.go`) over PostgreSQL. It serves an
HTTP API to an Angular client, ingests users' top artists and tracks from
Spotify, matches users by shared taste, synchronises concerts from Ticketmaster
once a day and sends push notifications. The handlers are written against
shared in-memory structures (job map, cache, limiters, dispatcher) and single
SQL statements. The components do not use transactions across statements.

| Component | Source | State it keeps | Operations | Talks to |
|---|---|---|---|---|
| Spotify ingestion | `business/spotify/service.go`, `cmd/wrappers.go` 171-260 | `jobs`, `lastStart` (maps under `mu`), a `SyncJob` per user, a goroutine per job | StartSync, RetrySync, CancelSync, SetJobTokens, GetStatus, ExchangeCodeForTokens, PersistTokens, runJob | Spotify, user repository (tokens, snapshots); the repository calls back into the match cache |
| Push dispatcher | `business/push_dispatcher.go` | channel, workers, `started`, `closed`, WaitGroup | Enqueue, EnqueueToUsers, Start, Stop | push delivery |
| Push delivery | `business/push_service.go`, `unified_push_service.go`, `cmd/push_handlers.go`, `cmd/push_debug.go` | tables of subscriptions and device tokens | SendToUser, the test handler, subscribe, register and delete a token, pruning of what is gone | web push, APNs, FCM; run by the dispatcher's workers |
| Concert sync | `business/concert/*` | tables of venues, events, artists; `ticker`, `stopped` | Start, syncLoop, syncEvents, Stop | Ticketmaster |
| Concert API and interest | `business/concert_api_service.go`, `concert_service.go`, `generated_*_adapter.go` | `user_concert_event_interest` | list, set and clear interest | event tables; rows vanish with their event (cascade) |
| Password reset | `business/password_reset_service.go` | `password_reset_tokens`, the password hash | ForgotPassword, ResetPassword | email, user repository |
| Registration, login, JWT | `business/auth_service.go`, `jwt_service.go`, `cmd/jwt_middleware.go` | users | RegisterUser, LoginUser, token validation | user repository |
| Matching and its cache | `business/matching_service.go`, the similarity queries of `db/sqlc/queries.sql.go` | `similarityCache` | FindMusicMatches, InvalidateSimilarityCache | similarity queries; invalidated by the ingestion of artists |
| Request limiters | `cmd/wrappers.go` 82-165, `cmd/push_handlers.go` | a window and a count per user | one critical section per request | - |
| User repository | `business/database.go`, `db/queries/queries.sql` | PostgreSQL | statements | everything |
| Feedback, health, email | `business/feedback_service.go`, `health_service.go`, `email_service.go` | - | one statement or one mail each | - |
| Token encryption | `business/crypto/encryption.go` | - | AES-GCM seal and open | - |
| Start-up | `cmd/main.go`, `config`, `logger`, `telemetry` | - | wiring, order of start and of deferred stops | all |
| Client | `src/ui/src/app` | the events page's list, offset and flags; polling timers; stored subscription | search and scroll, callback page, push subscription | API |
| Schema, deployment | `db/schema/migrations`, `src/pulumi`, `src/scripts`, `src/archive` | - | declarative | - |

What is hard in it, and where correctness is at stake:

* **Spotify ingestion.** The handler and the job's goroutine meet only in the
  map. The goroutine does not remember its job: each critical section reads
  `jobs[username]` again, so after a cancel and a retry two goroutines may work
  on one job. The handlers keep a pointer to the job and write its status
  outside the lock. Correct means: a running job always has somebody to end it;
  a complete job shows 100 %; an accepted request's job gets its tokens; nothing
  is ingested that was not granted; every goroutine returns.
* **Push dispatcher.** `closed` is read under a lock and the send happens after
  it. `started` is visible before a worker is counted. Callers may block on a
  full channel while Stop closes it. Correct means: a bounded FIFO hand-off
  without loss or duplication, and a Stop that returns and drains.
* **Concert sync.** Windows cut into segments and pages of a catalogue that
  changes while it is read; two page-number conventions; partial upserts; a
  goroutine that makes its ticker after Stop may have looked for one. Correct
  means: nothing reachable is skipped, only passed events are removed, and the
  goroutine ends.
* **Password reset.** Four statements, any of which may fail, with concurrent
  requests for one token. Correct means: a token that was retired is dead, a
  link is not burnt by a failure, and a token works once.
* **Match cache.** Key, invalidation prefix and normalisation are written in
  different places; slow requests fill the cache late. Correct means: an answer
  fits its question, its age is bounded, and ingestion invalidates it.
* **Similarity.** SQL ranks by a raw sum and cuts, Go ranks what is left by a
  normalised score. Correct means: the score is symmetric and at most 1, the
  right overlaps are cut off, the filter comes before the cut, and the answer is
  ordered as the API says.
* **Snapshots.** A list is stored rank by rank over an older one, possibly by two
  workers. Correct means: the views never show a mixture of two syncs.
* **Push delivery.** Rows are listed once, sent to slowly and deleted by
  address after the provider's answer, while handlers and providers move on.
  Correct means: what is gone is pruned, what is alive is not, and errors are
  reported although the fan-out goes on.
* **Accounts.** Check-then-insert registration, a login that reads a hash and
  uses it later, tokens that outlive passwords, resets in between. Correct means:
  accounts are unique, refusals have a reason, and a token speaks for whom the
  password was given.
* **Events page.** Two statements over joins that multiply rows, and a list
  filled by overlapping loads while the tables change. Correct means: an
  undisturbed list is whole, and the page never sticks.
* **Limiters.** A fixed window whose boundary lets two bursts meet.

`PROJECT.json` lists the hazards at their lines, each with the properties
that would catch it or with a note why none does.

## 2. The modules

```
PushQueue <= PushDispatcher          (implements)
SpotifySync  -> Ingestion            (EXTENDS: what the workers store)
PasswordReset -> Accounts            (registration, login, JWT around it)
RateLimiter  -> PushDelivery         (the test handler's limiter)
ConcertSync  -> ConcertEvents        (the events page over the synced tables)
MatchCache, Similarity -> Matching   (the matching service as a whole)
Ordering: sorting, for ConcertSync and Similarity
```

The `MC` modules give the constants of a run their values. `*Proofs` modules
hold the theorems: `SpotifySyncProofs`, `IngestionProofs`,
`PushDispatcherProofs`; `PushDeliveryProofs` (with those of the limiter);
`AccountsProofs` (with those of the password reset); `ConcertProofs`;
`MatchingProofs`; and `DataProofs`, which knows orders, listings and sums and
nothing of the system.

`Ordering` is what ORDER BY, `sort.SliceStable` and the provider's
`sort=date,asc` do: the place of an element is the number of those before it,
the order being a set of pairs. It takes the place of the library's sorting
operators, whose definitions are out of the prover's reach.

### SpotifySync (with MCSpotifySync, SpotifySyncProofs)

One user's view: no operation reads another user's map entry. Job `j` is the
`j`-th `SyncJob` allocated, worker `j` the goroutine launched with it. `cur`,
`status`, `progress`, `token` are the job the map holds. An older job can still be
written through a kept pointer, and nobody reads it. `cooling` abstracts
`time.Since(lastStart) < cooldown`. One action is one critical section of
`Service.mu`, or one unlocked step of a handler.

* `status` is a Go string, two machine words. `SyncSpotify` assigns
  `job.Status = failed` without the lock (wrappers.go 183, 191): that is a data
  race, so the two words are stored separately and in either order
  (`FailFirstWord`, `FailSecondWord`). The five values differ in length, so a
  mixed pair equals no constant.
* `Exchange` fails, succeeds, or succeeds for a caller that has no user id and
  whose tokens are dropped. A successful answer of Spotify is assumed to carry
  an access token, so that `SetJobTokens` sets a nonempty one.
* `token` stands for `AccessToken # ""`. Nothing clears it, so it only resets
  when the job is replaced.
* A range is fetch (two endpoints), two stores and a progress report; errors of
  the stores are ignored as in the code.

### Ingestion

`SpotifySync` with the snapshot tables and the views `v_current_spotify_top_*`.
A list is known by the stamp `fetchedAt` that its worker took when it read the
user; `clock` is `time.Now()`, strictly growing. A batch insert writes the ranks
of the list it has, all or none (pgx sends it as one implicit transaction), and
an empty list writes nothing. `last` and `inOrder` are history variables for
the property: which list was stored last, and whether any list was stored after
a younger one. `Kinds` bounds which of the two tables is watched; they have the
same statements.

### PushQueue and PushDispatcher (with PushDispatcherProofs)

`PushQueue` is the promise to callers: a job offered is refused, and then nothing
happens to it, or accepted, and then taken once, in order, and finished.
`PushDispatcher` is the code: the snapshot under `RLock`, `startOnce` (the first
caller runs it, the others wait), one `wg.Add`/`go` per step, the select, the
recovered panic of a send on the closed channel, the workers' range loop, and
Stop. A behaviour begins with the workers started by main, which is what the
program does, or without them, and then the first `Enqueue` starts them
(push_dispatcher.go 152). In the second case Stop may already wait while workers
are added. If those added so far have returned, the counter is back at zero and
the waiter on its way out (`Woken`), and another `wg.Add` is misuse of the
WaitGroup: it goes unnoticed, or Stop panics (`MisuseNoticed`), or `wg.Add` itself
does, which `Enqueue` recovers (`AddPanics`). The panic of Stop ends the process;
the model lets the others go on, which adds behaviours and removes none. `Fate` maps an `Enqueue` call's place to its fate in
`PushQueue`, and `RefinesFairQueue` says that the dispatcher implements it.

### ConcertSync (with MCConcertSync, ConcertProofs)

The goroutine of `Start` at the grain of its calls to the provider and the
repository, the ticker, Stop, main's closing of the repository, and the
provider's catalogue, which may change at any time (`Relist`). Time is the
clock at the venues in hours; `ServerAhead` is by how much the server's clock
face is ahead, because `event_date` is a TIMESTAMP with the venue's local time
and the cutoff is `time.Now()` stripped of its zone. `truncated`, `steady` and
`failed` are history variables that say what a cycle was told about.
`ManualSync` and `GetSyncStatus` have no callers and are left out.

### PasswordReset

The tokens of one user and the concurrent calls of `ResetPassword`, statement by
statement; each may fail. `wrote` is a history variable: the resets whose mark
or deletion reached the table.

### RateLimiter

The entry of one user and the history of admitted times. The three copies of
the limiter in the code differ in their numbers.

### PushDelivery (with MCPushDelivery, PushDeliveryProofs)

`SendToUser` as the dispatcher's workers run it, first over the web
subscriptions and then over the phones, and the test handler with its limiter
(`Request` of `RateLimiter`). A fan-out lists once, then each address is one
send and possibly one deletion, so handlers, other fan-outs and the providers
(`World`) come in between. A subscription is unique by endpoint and changes its
owner; a device token is unique per user, so that one phone may have a row of
each user that signed in on it. `alive` is external: an endpoint and an FCM
token are never given out again, an APNs token may be. `missed` and `condemned`
are history variables.

### Accounts (with MCAccounts, AccountsProofs)

Registration (three statements and a signature), login (a query, a comparison,
a signature) and the middleware, which serves a request by its token or, if it
has none, by the name in its legacy header (`Requests`, `Served`, `UserContext`),
around the `ForgotPassword` and `ResetPassword`
of `PasswordReset`, whose steps are taken as they are and whose token table
belongs to the account with the address `ForgotMail`. An account is named after
the registration that made it, a password after the call that set it. `outdated` is
a history variable: the passwords that were replaced when a login began.

### Similarity, MatchCache and Matching (with MCMatching, MatchingProofs)

`Similarity` is what an answer holds. It computes the joins, weights and order
of the similarity query and the score, sort and truncation that Go makes of its
rows. The generated file has that query four times, for artists and tracks, with
and without the name filter, in the same words; each definition here is mapped
to one of the copies. Weights are multiples of `Unit`, so that sums and
quotients are exact; the code's floats differ from these by rounding, so nothing
here says that the clamp of matching_service.go 282-293 has no work to do. A score
that is equal in exact arithmetic may differ by rounding in the code, and then
decides the order before overlap and name do. `Matching` puts it together with `MatchCache`. Neither reads the
other's variables, so the product that TLC runs (`MatchingSpec`) is cut to one
part at a time; `ServiceSpec`, without the cut, lets lists change under requests.

In `MatchCache` requests normalise their question, look it up, query, and store
the answer; the hook of `StoreSpotifyTopArtists` invalidates. An answer is its
question, the time the database was read, and the age it had when served. The
key is the sequence of the fields that the code joins by colons; joining is
injective as only the last field, the name filter, can contain a colon.

### ConcertEvents (with MCConcertEvents, ConcertProofs)

The events page over the tables that `ConcertSync` fills: `GET /chicago/events`
is two statements (a page of the listing, then the count), the browser loads the
next page as the user scrolls, and every toggle or search resets the list
without cancelling the loads under way. Interest rows vanish with their event.
`calm` is a history variable: nothing disturbed the present list. The goroutine's
own steps and the page's are not interleaved in the run (the product is too
large): while the page is open, writes and removals of `TablesMove`, the same
statements in any order, stand for it. `PageSpec` is the composition without
that cut, in which every step of the sync comes between any two of the page's
(`SyncStep`); the theorems are about it, and the cut one inherits them.

## 3. The runs

| Run | Bounds | What it shows |
|---|---|---|
| `SpotifySyncSafety` | 2 handlers, 2 jobs, 1 poll, 2 ranges; handlers symmetric; 3.7 M states | Types; `RunningHasWorker`, `CompleteIsFull`, `AcceptedSyncHasTokens`, `IngestionNeedsGrant` |
| `IngestionFair` | 1 handler, 2 jobs, 1 range, lists of up to 2 items in one table, fair workers; 143 k | `CurrentIsOneList`; `RunningJobEnds`, `WorkersReturn` |
| `PushDispatcherFair` | 3 calls (one for the nil user), 2 workers, 1 slot, both ways to start; 79 k | `Conservation`, `StopDrains`, `HandledIsAttempted`, `RefinesFairQueue`, `StopTerminates`, `StopUnblocksSenders` |
| `PushDeliverySafety` | 2 fan-outs, 2 users, a browser and a phone they share; limit 2 in a window of 1, 3 ticks, rows in the first window only (`RowsInFirstWindow`); 2.0 M | Types; `LessThanTwice`, `GoneIsPruned`, `PruneOnlyDead`, `ErrorsAreReported` |
| `ConcertEventsSafety` | 3 events on 2 segments, pages of 2 for the sync and of 1 for the browser, 2 loads at a time, 2 queries, 2 kinds of interest; 1.0 M | `CycleCoversWindow`, `ListIsWhole`, `ScrollNeverSticks` |
| `ConcertSyncLiveness` | 3 events, pages of 1, cap of 2 pages, 1 hour; 0.5 M | `CycleCoversWindow` at the depth cap; `StopEndsGoroutine` |
| `AccountsSafety` | 2 registrations over 2 names and 2 addresses, 1 login, 1 reset token, 2 resets, tokens of 1 hour; 2.1 M | Types; `UniqueAccounts`, `RefusalIsFounded`, `ServedIsAuthentic`, `SpentTokenIsDead`, `LinkDiesByReset` |
| `MatchingSafety` | 2 requests, 3 questions, two of them the same after normalisation, TTL 2; 3 users, all lists of up to 4 of 2 items, ranks to 3; 0.5 M | `AnswersItsQuestion`, `AgeBounded`; `ScoresAreFair`, `TruncationKeepsBest`, `AnswersAsPromised` |
| `SpotifySync_AcceptedRetryHasTokens` | as the safety run, 3 ranges | violated |
| `ConcertSync_CleanupRemovesOnlyPassed` | server one hour ahead | violated |
| `PasswordReset_TokenUsedOnce` | 2 tokens, 3 resets | violated |
| `MatchCache_InvalidationClears` | 2 users, 1 request, 5 questions | violated |

Why the bounds are enough. A second job and a second handler give every
replacement of a job by another request and a goroutine left over from the first
job; a third adds no new kind of interleaving, since a worker knows only "the
current job", and the proofs cover every number. Two ranges give a first, a last
and a boundary. Lists of one and two items give a shorter list over a longer one
and the reverse, and two jobs give a store in the wrong order. Three `Enqueue`
calls over one slot and two workers give a full queue, a blocked sender, a
racing starter and an idle worker. Two fan-outs over a shared browser and a
shared phone give a pruning under the other's list, a row taken over by another
user and posted again before the deletion. Three events put two on one page, one
on a segment boundary and pages of both kinds (full, partly filled); the depth
cap needs more pages than the cap, which the run with pages of one has. A
browser page of one event makes every event its own load, and two slots give an
overtaken answer; the first event has two artists, so it makes two rows of the
join. Two registrations that may want the same name or address, one login and
two resets give every race of the accounts; one token instead of two costs
nothing, since the proofs of `PasswordReset` hold for any number. The limiter
admits two in a window, and its clock goes into a second window and past its
end. Four admissions happen (at 0, 1, 2 and 2, say), so `LessThanTwice` has
instances; the last three of these lie within the length of a window, so the
property is tight: one less than twice the limit would be refuted. The addresses have no use for the clock, so
`RowsInFirstWindow`, the `CONSTRAINT` of that run, goes past the first window only
without rows; the proofs cover both without it. Two requests are enough for a late fill
over a newer one. Lists of two items with repetitions and cut at rank 3 give
every pattern of equal, crossed, tied and absent ranks in which two users can
overlap twice; three users give a tie with a cut. Named bounds: `MaxJobs`,
`PollLimit`, `MaxRank`, `Kinds`, `MaxHour`, `MaxTime`, `MaxCount`, `MaxStores`,
`MaxLen`, `Shelf`, `RowsInFirstWindow`. `QueryTime` is an assumption: the longest time between
reading the database and storing the answer, which the code does not bound by
itself.

Deadlock is checked except where the model really stops: dispatcher (all calls
answered, workers gone), accounts and password reset (all requests done) and push
delivery (the bounds of the limiter's clock and count).

Symmetry is used in safety runs only, for sets whose members are interchangeable
in the specification and in the properties.

### Fairness

* `SpotifySync` and `Ingestion`: weak fairness of each goroutine: the Go
  scheduler runs it, the poll sleeps are finite, and every HTTP call is cut off
  by the client's 15 s timeout (service.go 127). It also assumes that a chain of
  `next` links ends: `fetchAll` bounds the items, not the pages (service.go
  496). Handlers and users are not fair: a handler may hang for ever between
  StartSync and SetJobTokens.
* `PushDispatcher`: weak fairness of each worker, of each call once made, and of
  the return of Stop; `SendToUser` returns because the providers' clients have
  timeouts. Contexts need not end and Stop need not be called.
* `ConcertSync`: weak fairness of the goroutine, and strong fairness of the stop
  case of the select: `select` chooses at random among the ready cases, so it
  does not pass over one for ever.

### What the code does and its documentation does not say

Each violation run above belongs to a finding in `PROJECT.json`:

* A retry (`RetrySpotifySync`) persists its tokens but never calls
  `SetJobTokens`: the retried job can only time out.
* The cleanup compares clock faces of different zones, and deletes events (and
  by cascade users' interest in them) some hours before they begin.
* A reset token is checked, and retired only two statements later: two requests
  can both change the password, and so can one after the bookkeeping failed.
* `invalidateUser` deletes the prefix `spotify:<user>:` although the keys begin
  `spotify:<basis>:<user>:` - nothing is ever deleted.

Further behaviour, found while modelling and not the subject of a run:

*Ingestion.* A cancelled job goes on to fetch and store its remaining ranges
(service.go 223); an ended job may change its status again, by the unlocked
writes, by the timeout (service.go 204-214, which re-locks without looking) and
by a poll that finds tokens (service.go 197-202); a SyncSpotify within the
cooldown is answered 202 "syncing" for a throw-away job (service.go 149); a job
whose stores all failed completes (service.go 247); the handler main.go 207-241
replaces the generated status endpoint and drops the progress; two workers of
one user may store in the order opposite to their stamps, and then the views
show less than a whole list (`inOrder` of `Ingestion` says when); an empty top
list keeps the old one.

*Dispatcher, sync, limiters.* A started-by-Enqueue dispatcher uses the context
of its first request for all later jobs, and its Stop may return before it has
drained (`HandledIsAttempted` and `StopDrains` say exactly when) or panic on the
WaitGroup (`StopTerminates`); main starts the workers, so that none of this occurs
in the program as it is wired; the first
cycle of the concert sync may begin after Stop; the limiters are fixed windows
although wrappers.go 83 calls them sliding, so nearly twice the limit
passes in a burst (`LessThanTwice`: one less, and that is reached), and their maps keep an entry per user for ever; the
process has no signal handler, so the deferred Stops run only when the listener
fails.

*Push delivery.* A web push service that answers with an error other than 404
and 410 is logged and taken for a success (push_service.go 50); the APNs token
of an app that was reinstalled during a slow fan-out is deleted although it
lives again (`PruneOnlyDead` excludes it); a phone that two users signed in on
gets the notifications of both.

*Events page.* `GetChicagoEventByID` (concert/repository.go 302-345) reads one
row at offset 0, so that only the earliest event is ever found; ties of
`event_date` have no further order, so an event may repeat or be skipped across
pages (`ListIsWhole` asks for distinct hours); a search by artist also narrows
the artists shown with an event; the answer of an older search may arrive after
that of a newer one, be shown and advance the offset, and `hasMore` and
`isLoadingMore` survive a reset (chicago-events.component.ts 693).

*Accounts.* The middleware serves a request without `Authorization` under
whatever name its `X-User-Username` header gives (jwt_middleware.go 54-70;
asserted in jwt_middleware_test.go 219-233, and documented as deprecated in
openapi.yaml 678-685). Such a request has a name and no user id. The handlers
that need an id refuse it (push, status) or store nothing (the tokens of a sync),
and those that go by name serve it (matches, feedback, the job map). A SyncSpotify with
the header alone is therefore answered 202 with its tokens dropped: the caller
without a user id of `SpotifySync`'s `Exchange`. `ServedIsAuthentic` speaks of
requests that are served with an id.

*Matching.* The description in openapi.yaml 661-667 is of an older algorithm: it
promises up to 5 matches and a score of 70 % overlap and 30 % Jaccard similarity.
The code returns up to the requested limit (matching_service.go 175-180, with a
configured default and maximum), and its score is the rank-weighted similarity
divided by its ceiling (lines 269-294). What the description says of the
order (line 669) and the name filter (671-675) is what the code does and what
`AnswersAsPromised` checks. SQL cuts the list by the raw similarity, Go orders what is left by
the normalised score, so a user with a higher score may be cut off
(`AnswersAsPromised` says what holds).

## 4. The proofs

All are proved for every value of the constants that satisfies the `ASSUME` of
the module, which TLC evaluates in the runs.

* **SpotifySyncProofs**: `TypeCorrect`, `NoOrphanedJob` (`RunningHasWorker`),
  `CompleteStaysFull`, `AcceptedGetsTokens`, `GrantBeforeData`. The inductive
  invariant is the conjunction of: types; a pending job's own worker is polling
  or timing out (`PendingHasOwnWorker`); a job in progress has some worker past
  polling (`InProgressHasIngestor`), which is needed since only such a worker
  closes it; complete jobs are full; the pointers that handlers hold were
  allocated; an accepted sync has tokens; and the order of grant, tokens and
  data (`GrantFlow`: where a key is configured, a token, a handler about to set
  tokens and a worker ingesting each imply a persisted grant).
* **PushDispatcherProofs**: `TypeCorrect`; `NoJobLost` (`Conservation`, inductive
  with the types, from two lemmas on what append and tail do to the contents of
  a sequence without repetitions); `StopWaits` (`StopDrains`, from `Drain`: if
  main started the workers, all exist and a worker has returned only from a
  closed and empty channel); `DeliveryOutlivesRequest`
  (`HandledIsAttempted`, from `Unstarted`: before the first start nothing was
  handled; and from contexts staying ended); `DispatcherRefinesQueue`: every
  step is a step of `PushQueue`, or leaves its variables unchanged.
* **AccountsProofs**, first about `PasswordReset`: `TypeCorrect`,
  `SpentStaysDead`, `LinkNotBurnt`. The invariant adds: a token is inserted once
  (so a retired row never returns), a token that is held has a row, and only a
  reset past its check has written. Then about the whole:
  `AccountsResets` shows that a behaviour of `Accounts` is
  one of `PasswordReset`, so that its theorems carry over (`ResetsCarryOver`).
  `AccountsAreUnique`, `NoMutualRefusal` and `SessionsAreAuthentic` follow from
  what each control point has seen (`RegisterFlow`, `LoginFlow`) and from
  passwords never coming back (`NoReturn`: none that a login found replaced is
  set again, since every call sets its own, once). `SessionsAreAuthentic` is about
  whatever the middleware serves with an id: by its cases this is a request with
  a token, and the token's claim, the account and the login's name and password
  belong together.
* **PushDeliveryProofs**, first about `RateLimiter`: `TypeCorrect`,
  `AdmitsLessThanTwice` (`LessThanTwice`). The invariant says that the last
  `Admitted` admissions belong to the current window and the first of these
  opened it, that those before them passed no later than that, and that all of
  these but the last `Limit - 1` passed a whole window before it began. Then:
  `DeliveryLimits` shows that a behaviour of `PushDelivery` is one of the limiter,
  so that this holds beside any fan-outs (`DeliveryIsLimited`). `StaleRowsGo`, `NoSilentMiss` and `LivingRowsStay` (an action
  property) follow from an invariant on each fan-out: rows it was told are gone
  are no longer there or about to be deleted, what it missed it recorded, and
  what it holds for deletion is dead for good.
* **IngestionProofs**: `IngestionIsSync` carries the theorems of `SpotifySync`
  over (`SyncCarriesOver`). `ViewsShowOneList` follows from rows and stamps
  being written together, and from the last list being younger than every row it
  leaves behind while stores keep the order of the stamps.
* **ConcertProofs**, about the sync: `SyncTypes` and `CycleIsComplete`
  (`CycleCoversWindow`), for any catalogue, page size, depth cap and number of
  segments. The property speaks of the end of a cycle, so the invariant
  (`SyncInv`) has to say how far the cycle has come: of a catalogue that did not
  change, the segments before the current one are covered, the events on the
  pages before the current one are stored or failed, and those of the current
  page are so or still in the batch (`Progress`); and a page in hand is within
  the depth cap (`PageWithin`). At the last page this meets what `HasMore`, the
  zero-based page number and the cap say, where an off-by-one would lose events.
  `CleanupOnVenueTime` narrows a finding down: with `ServerAhead = 0` the cleanup
  removes passed events only, so the difference of the clocks is its whole cause.
  About the page (`PageSpec`): `PageTypes`, `UndisturbedListIsWhole`
  (`ListIsWhole`), `PageCanScroll` (`ScrollNeverSticks`) and
  `CycleIsCompleteBesidePage`. `ListIsWhole` is not inductive: it says nothing
  while a load is on its way. `OneList` does: an undisturbed list, over events
  that begin at different hours, is a beginning of the listing, and either nothing is under way or exactly one load, which
  holds the rows that follow. Beside it `ScrollNeverSticks` and the types of
  loads are inductive. `BoundedPage` hands all this to the composition TLC runs.
* **MatchingProofs**, about `MatchCache`: `TypeCorrect`, `NoMixUp`
  (`AnswersItsQuestion`), `Freshness` (`AgeBounded`). `KeyInjective` shows that
  the key separates normalised questions. The invariant says that an entry lies
  under the key of its question and expires at most TTL and one slow query after
  its data was read (`EntriesFit`), which a late fill over a newer entry keeps,
  and that a request is within its time. About the service (`ServiceSpec`):
  `FairScores` (`ScoresAreFair`): an overlap weighs at most its ceiling, that of
  the better of its ranks, and as much only when the ranks agree; the same goes
  for their sums, and turning every pair round turns one user's sum into the
  other's. The arithmetic is exact, rounding is not covered. `BestOverlapsShown`
  (`TruncationKeepsBest`) and `AnswersKeepPromise` (`AnswersAsPromised`, with the
  order by score, then overlap, then name), which
  hold for any limit, where TLC looks at limits of 1 and 2 (`BestForAnyLimit`,
  `PromisedForAnyLimit`): what is cut from the end of a sorted listing is not
  before what is left; `ServiceKeepsCache`, and `BoundedService` for the
  composition TLC runs. The invariant is that of the cache with the types of the
  lists: lists change, but what is said of them is a fact about every list.
* **DataProofs** holds lemmas on data only, which the others cite: that a finite
  set put in order is a sorted permutation of it (the places of its elements are
  injective and within its cardinality, so they are all there), that there is only one
  such listing, and that sums over finite sets exist, do not depend on the order in which the fold takes the elements
  (`SumRemove`), are monotone and survive a renaming.

What is said of sums and listings of any size needs induction over finite sets.
The library's induction theorems take an operator as a parameter and cannot be
used; instead, a claim that fails has a smallest set for which it fails, as
inclusion is well-founded on the subsets of a finite set (`SubsetMin`, from
`FS_StrictSubsetOrderingWellFounded` and `WFMin`), and that set leads to a
contradiction. A fold of the community modules is the choice of a recursive
function on the subsets, whose existence is shown the same way (`FoldExists`).

The proofs assume what the modules assume of their constants: finite sets of
events and people, numbers in their ranges, and at least one query for the
events page. Nothing is assumed of the sizes.

Only model-checked: the liveness properties (`RunningJobEnds`, `WorkersReturn`,
`StopTerminates`, `StopUnblocksSenders`, `StopEndsGoroutine`) and the fair half of
the refinement (`RefinesFairQueue`), since fairness and ENABLED are out of the
prover's reach; its safety half is `DispatcherRefinesQueue`. Every other property
of a passing run is the subject of a theorem. Of the four violation runs'
properties, one is shown to hold where its cause is absent
(`CleanupOnVenueTime`).

## 5. Not modelled

* The encryption wrapper and the signatures of tokens: a library's algorithms.
* Configuration, logging, telemetry, deployment, scripts, and the archived importer.
* Feedback, health, email contents: one statement or one mail without state.
* Conversions to API types, texts and layout; the debug endpoints, which read
  only; `ManualSync`, `GetSyncStatus`, `GenerateRefreshToken`, `matching.go` and
  `store.go`, which nobody calls; `generated_events_adapter.go`, whose build tag
  no build sets.
* In the client, everything but the loading of the events list: the optimistic
  interest buttons, the callback page and the retry of a push subscription. The
  statuses that the callback page polls are those of `SpotifySync`.
* The end of a chain of `next` links (service.go 496), and the loss of queued
  work when the process dies: nothing of it is persisted, and the models say
  what holds when Stop is called.
* Most constraints of the schema; the unique keys and cascades that the modules
  rely on are named in them.

What could be added: the callback page as a client of `SpotifySync`, and the
interest buttons with their rollback as a further client of `ConcertEvents`. The
product of `ConcertEvents`' two halves is beyond the runs' limits; the proofs
cover it.

## 6. Running

```
tlasany M.tla                          # parse
tlc -workers 2 -config X.cfg M         # check; runs and modules as in PROJECT.json
tlapm SpotifySyncProofs.tla            # prove; likewise the other *Proofs modules
```

The definitions preceded by `\* Mutant:` are changed copies of the definition
that follows them. They are not part of a specification; each breaks
one property, which shows that the property depends on the code's behaviour.

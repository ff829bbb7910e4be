---------------------------- MODULE ConcertSync ----------------------------
(***************************************************************************)
(* The concert synchronisation (backend/business/concert/sync_service.go): *)
(* the goroutine main starts, which runs one cycle, creates the 24h ticker *)
(* and then becomes the loop; main's shutdown; the provider's catalogue,   *)
(* which changes while it is being paged through; and the two tables a     *)
(* cycle writes, concert_events and concert_event_artists.                 *)
(*                                                                         *)
(* Time is counted in hours at the venues.  An event is a number, and      *)
(* events that begin together are listed in the order of their numbers.    *)
(***************************************************************************)
EXTENDS Integers, SequencesExt, Ordering

CONSTANTS
  Events,         \* events the provider may list
  Begins,         \* the hour an event begins
  ServerAhead,    \* hours the server's clock is ahead of the venues'
  PageSize,       \* TICKETMASTER_MAX_RESULTS
  MaxPages,       \* pages below the depth cap: 1000 / PageSize, rounded up
  NumSegments,    \* segments of the search window
  SegmentHours,   \* length of a segment
  MaxHour         \* bound: the clock stops here

ASSUME SyncAssumption ==
  /\ Events \subseteq Nat /\ IsFiniteSet(Events)
  /\ Begins \in [Events -> Nat]
  /\ ServerAhead \in Nat
  /\ {PageSize, MaxPages, NumSegments, SegmentHours} \subseteq Nat \ {0}
  /\ MaxHour \in Nat

VARIABLES
  now,        \* the time
  listed,     \* events in the provider's catalogue
  stored,     \* rows of concert_events
  billed,     \* events whose artists are all in concert_event_artists
  pc,         \* control point of the goroutine
  initial,    \* it is in the cycle that Start runs
  t0,         \* fullStartUTC of the cycle
  segment,    \* segmentIndex
  page,       \* page, from 1
  batch,      \* events of the page that are not yet upserted
  more,       \* result.HasMore and page < result.TotalPages
  ticker,     \* SyncService.ticker
  tick,       \* a tick lies in the ticker's channel
  stopped,    \* SyncService.stopped; stopChan is closed
  repoOpen,   \* main has not closed the repository
  steady,     \* history: the catalogue is as it was when the cycle began
  truncated,  \* history: a 400 ended a segment early
  failed      \* history: events whose upsert failed in this cycle

cycleVars == <<t0, segment, page, batch, more>>
historyVars == <<steady, truncated, failed>>
dbVars == <<stored, billed>>
lifeVars == <<ticker, tick, stopped, repoOpen>>
worldVars == <<now, listed>>
vars == <<worldVars, dbVars, pc, initial, cycleVars, lifeVars, historyVars>>

PCs == {"boot", "search", "retry", "upsert", "cleanup", "ticker", "select",
        "returned"}

TypeOK ==
  /\ now \in 0..MaxHour /\ t0 \in 0..MaxHour
  /\ listed \subseteq Events
  /\ billed \subseteq stored /\ stored \subseteq Events
  /\ pc \in PCs
  /\ initial \in BOOLEAN
  /\ segment \in 0..(NumSegments - 1)
  /\ page \in 1..(MaxPages + 1)
  /\ batch \in Seq(Events) /\ Len(batch) <= PageSize
  /\ more \in BOOLEAN
  /\ ticker \in {"nil", "on", "off"}
  /\ {tick, stopped, repoOpen, steady, truncated} \subseteq BOOLEAN
  /\ failed \subseteq Events

Init ==
  /\ now = 0 /\ t0 = 0
  /\ listed \in SUBSET Events
  /\ stored = {} /\ billed = {}
  /\ pc = "boot" /\ initial = TRUE
  /\ segment = 0 /\ page = 1 /\ batch = <<>> /\ more = FALSE
  /\ ticker = "nil" /\ tick = FALSE
  /\ stopped = FALSE /\ repoOpen = TRUE
  /\ steady = TRUE /\ truncated = FALSE /\ failed = {}

-----------------------------------------------------------------------------
(* The provider: events of a pinned window, by date, cut into pages.       *)

Window(s) == (t0 + s * SegmentHours)..(t0 + (s + 1) * SegmentHours)

ByDate ==
  {p \in Events \X Events :
     \/ Begins[p[1]] < Begins[p[2]]
     \/ Begins[p[1]] = Begins[p[2]] /\ p[1] < p[2]}

Catalogue(s) == InOrder({e \in listed : Begins[e] \in Window(s)}, ByDate)

Page(s, p) ==
  LET all == Catalogue(s)
      last == IF p * PageSize < Len(all) THEN p * PageSize ELSE Len(all)
  IN  SubSeq(all, (p - 1) * PageSize + 1, last)

\* Mutant: the last page is taken for a page past the end.
HasMoreOffByOne(s, p) == (p + 1) * PageSize < Len(Catalogue(s))

HasMore(s, p) == p * PageSize < Len(Catalogue(s))

Relist ==
  /\ \E e \in Events : listed' = IF e \in listed THEN listed \ {e} ELSE listed \cup {e}
  /\ steady' = FALSE
  /\ UNCHANGED <<now, dbVars, pc, initial, cycleVars, lifeVars, truncated, failed>>

Clock ==
  /\ now < MaxHour /\ now' = now + 1
  /\ UNCHANGED <<listed, dbVars, pc, initial, cycleVars, lifeVars, historyVars>>

-----------------------------------------------------------------------------
(* syncEvents.  The delays between pages are part of the next search.      *)

BeginCycle ==
  /\ pc' = "search"
  /\ t0' = now /\ segment' = 0 /\ page' = 1 /\ batch' = <<>> /\ more' = FALSE
  /\ steady' = TRUE /\ truncated' = FALSE /\ failed' = {}

(* What follows a cycle: Start makes the ticker, the loop waits again. *)
EndCycle ==
  /\ pc' = IF initial THEN "ticker" ELSE "select"
  /\ t0' = 0 /\ segment' = 0 /\ page' = 1 /\ batch' = <<>> /\ more' = FALSE
  /\ steady' = TRUE /\ truncated' = FALSE /\ failed' = {}

NextSegment ==
  /\ IF segment + 1 < NumSegments
       THEN segment' = segment + 1 /\ pc' = "search"
       ELSE segment' = segment /\ pc' = "cleanup"
  /\ page' = 1 /\ batch' = <<>> /\ more' = FALSE
  /\ UNCHANGED t0

DepthCap ==
  /\ pc = "search" /\ page > MaxPages
  /\ NextSegment
  /\ UNCHANGED <<worldVars, dbVars, initial, lifeVars, historyVars>>

(* A page arrives; an empty one ends the segment. *)
Receive ==
  /\ batch' = Page(segment, page)
  /\ more' = HasMore(segment, page)
  /\ pc' = "upsert"
  /\ UNCHANGED <<t0, segment, page>>

ReceiveOrEnd ==
  IF Page(segment, page) = <<>> THEN NextSegment ELSE Receive

SearchOK ==
  /\ pc = "search" /\ page <= MaxPages
  /\ ReceiveOrEnd
  /\ UNCHANGED <<worldVars, dbVars, initial, lifeVars, historyVars>>

Search400 ==
  /\ pc = "search" /\ page \in 2..MaxPages
  /\ pc' = "retry"
  /\ UNCHANGED <<worldVars, dbVars, initial, cycleVars, lifeVars, historyVars>>

RetryOK ==
  /\ pc = "retry"
  /\ ReceiveOrEnd
  /\ UNCHANGED <<worldVars, dbVars, initial, lifeVars, historyVars>>

Retry400 ==
  /\ pc = "retry"
  /\ NextSegment
  /\ truncated' = TRUE
  /\ UNCHANGED <<worldVars, dbVars, initial, lifeVars, steady, failed>>

(* Any other error, a 400 on the first page and a provider that is not     *)
(* configured (IsHealthy) abandon the cycle.                               *)
SearchFails ==
  /\ \/ pc = "search" /\ page <= MaxPages
     \/ pc = "retry"
  /\ EndCycle
  /\ UNCHANGED <<worldVars, dbVars, initial, lifeVars>>

\* Mutant: a failed upsert leaves the loop over the page.
UpsertEventBreaks ==
  /\ pc = "upsert" /\ batch # <<>>
  /\ \/ /\ repoOpen
        /\ stored' = stored \cup {Head(batch)} /\ billed' = billed \cup {Head(batch)}
        /\ batch' = Tail(batch)
        /\ UNCHANGED failed
     \/ /\ failed' = failed \cup {Head(batch)}
        /\ batch' = <<>>
        /\ UNCHANGED dbVars
  /\ UNCHANGED <<worldVars, pc, initial, t0, segment, page, more, lifeVars, steady, truncated>>

Store(e) == stored' = stored \cup {e} /\ billed' = billed \cup {e}

(* UpsertEvent: venue, event, then its artists one by one, without a       *)
(* transaction.  A failure leaves what was written; a row that is there    *)
(* already keeps its artists.                                              *)
UpsertEvent ==
  /\ pc = "upsert" /\ batch # <<>>
  /\ LET e == Head(batch)
     IN  \/ repoOpen /\ Store(e) /\ UNCHANGED failed
         \/ /\ failed' = failed \cup {e}
            /\ stored' \in {stored, IF repoOpen THEN stored \cup {e} ELSE stored}
            /\ UNCHANGED billed
  /\ batch' = Tail(batch)
  /\ UNCHANGED <<worldVars, pc, initial, t0, segment, page, more, lifeVars, steady, truncated>>

PageSynced ==
  /\ pc = "upsert" /\ batch = <<>>
  /\ IF more
       THEN pc' = "search" /\ page' = page + 1 /\ UNCHANGED <<t0, segment, batch, more>>
       ELSE NextSegment
  /\ UNCHANGED <<worldVars, dbVars, initial, lifeVars, historyVars>>

(* DELETE ... WHERE event_date < cutoff.  event_date is a TIMESTAMP that   *)
(* holds the venue's local time, and the cutoff, time.Now(), is stripped   *)
(* of its zone and compared by the server's clock face.                    *)
Passed(e) == Begins[e] < now + ServerAhead

RemovePassed ==
  /\ stored' = {e \in stored : ~Passed(e)}
  /\ billed' = {e \in billed : ~Passed(e)}

\* Mutant: the artist rows of a removed event stay (no ON DELETE CASCADE).
CleanupLeavesArtists ==
  /\ pc = "cleanup"
  /\ \/ repoOpen /\ stored' = {e \in stored : ~Passed(e)} /\ UNCHANGED billed
     \/ UNCHANGED dbVars
  /\ EndCycle
  /\ UNCHANGED <<worldVars, initial, lifeVars>>

Cleanup ==
  /\ pc = "cleanup"
  /\ \/ repoOpen /\ RemovePassed
     \/ UNCHANGED dbVars
  /\ EndCycle
  /\ UNCHANGED <<worldVars, initial, lifeVars>>

-----------------------------------------------------------------------------
(* Start, syncLoop, Stop and main's shutdown. *)

Start ==
  /\ pc = "boot"
  /\ BeginCycle
  /\ UNCHANGED <<worldVars, dbVars, initial, lifeVars>>

(* Stop may have been called before: it saw no ticker to stop. *)
MakeTicker ==
  /\ pc = "ticker"
  /\ ticker' = "on"
  /\ pc' = "select" /\ initial' = FALSE
  /\ UNCHANGED <<worldVars, dbVars, cycleVars, tick, stopped, repoOpen, historyVars>>

TickerFires ==
  /\ ticker = "on" /\ ~tick
  /\ tick' = TRUE
  /\ UNCHANGED <<worldVars, dbVars, pc, initial, cycleVars, ticker, stopped, repoOpen, historyVars>>

(* select takes any of the cases that are ready. *)
LoopTicks ==
  /\ pc = "select" /\ tick
  /\ tick' = FALSE
  /\ BeginCycle
  /\ UNCHANGED <<worldVars, dbVars, initial, ticker, stopped, repoOpen>>

\* Mutant: the loop looks at the ticker that Stop stopped.
LoopStopsOnTicker ==
  /\ pc = "select" /\ ticker = "off"
  /\ pc' = "returned"
  /\ UNCHANGED <<worldVars, dbVars, initial, cycleVars, lifeVars, historyVars>>

LoopStops ==
  /\ pc = "select" /\ stopped
  /\ pc' = "returned"
  /\ UNCHANGED <<worldVars, dbVars, initial, cycleVars, lifeVars, historyVars>>

(* Stop does not wait for the goroutine. *)
Stop ==
  /\ ~stopped /\ stopped' = TRUE
  /\ ticker' = IF ticker = "on" THEN "off" ELSE ticker
  /\ UNCHANGED <<worldVars, dbVars, pc, initial, cycleVars, tick, repoOpen, historyVars>>

CloseRepository ==
  /\ stopped /\ repoOpen /\ repoOpen' = FALSE
  /\ UNCHANGED <<worldVars, dbVars, pc, initial, cycleVars, ticker, tick, stopped, historyVars>>

syncEvents ==
  \/ DepthCap \/ SearchOK \/ Search400 \/ RetryOK \/ Retry400 \/ SearchFails
  \/ UpsertEvent \/ PageSynced \/ Cleanup

Goroutine == Start \/ syncEvents \/ MakeTicker \/ LoopTicks \/ LoopStops

Next == Goroutine \/ TickerFires \/ Stop \/ CloseRepository \/ Relist \/ Clock

Spec == Init /\ [][Next]_vars

(* A goroutine that can run does, and every call to the provider and the   *)
(* database returns.  A select whose cases are ready again and again does  *)
(* not pass over one of them for ever: it picks at random.                 *)
FairSpec == Spec /\ WF_vars(Goroutine) /\ SF_vars(LoopStops)

-----------------------------------------------------------------------------
(* A cycle that reaches its cleanup over an unchanged catalogue has stored *)
(* every listed event of the window with its artists, except those it was  *)
(* told about: events beyond the depth cap, pages the provider refused     *)
(* twice, events whose own upsert failed.  No page is skipped at a page or *)
(* segment boundary, and one failing event costs no other.                 *)
InReach(s) == LET all == Catalogue(s)
              IN  {all[i] : i \in {i \in 1..Len(all) : i <= MaxPages * PageSize}}

CycleCoversWindow ==
  pc = "cleanup" /\ steady /\ ~truncated
  => \A s \in 0..(NumSegments - 1) : InReach(s) \ failed \subseteq billed

(* Stop is not waited for, but it is obeyed: however long the cycles and   *)
(* even if the ticker was made after Stop, the goroutine returns.          *)
StopEndsGoroutine == stopped ~> pc = "returned"

(* sync_service.go:240: the cleanup removes events that have passed.       *)
CleanupRemovesOnlyPassed ==
  [][\A e \in stored \ stored' : Begins[e] < now]_vars
=============================================================================

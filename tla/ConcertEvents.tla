--------------------------- MODULE ConcertEvents ---------------------------
(***************************************************************************)
(* The events page and the tables under it: the two statements of          *)
(* GET /chicago/events (backend/business/concert_api_service.go and        *)
(* concert/repository.go), the interest rows, and the page's list, which   *)
(* the browser (ui/src/app/chicago-events.component.ts) fills one page at  *)
(* a time while ConcertSync writes and removes events.                     *)
(*                                                                         *)
(* Every event is on sale and in Chicago.  An event whose upsert failed    *)
(* half-way shows none of its artists.                                     *)
(***************************************************************************)
EXTENDS ConcertSync

CONSTANTS
  Users, Statuses,  \* signed-in users; INTERESTED, GOING, LOOKING_FOR_GROUP
  Lineup,           \* artists of an event
  Queries,          \* searches the user makes, see Admits
  Limit,            \* pageSize of the browser
  Slots,            \* loads the browser has under way at a time
  Shelf             \* bound: events written while the page is open

ASSUME PageAssumption ==
  /\ Limit \in Nat \ {0} /\ Shelf \subseteq Events
  /\ DOMAIN Lineup = Events /\ Queries # {}
  /\ \A q \in Queries : DOMAIN q = {"anyArtist", "artists", "anyInterest"}

VARIABLES
  interest,      \* rows of user_concert_event_interest
  active,        \* the query of the list
  shown,         \* events
  currentOffset,
  hasMore,
  isLoadingMore,
  loads,         \* requests under way
  calm           \* history: nothing disturbed the list since it was reset

interestVars == <<interest>>
pageVars == <<active, shown, currentOffset, hasMore, isLoadingMore>>
browserVars == <<pageVars, loads, calm>>
eventsVars == <<vars, interestVars, browserVars>>

NoLoad == [phase |-> "none"]

BrowserInit ==
  /\ active = CHOOSE q \in Queries : TRUE
  /\ shown = <<>> /\ currentOffset = 0
  /\ hasMore = FALSE /\ isLoadingMore = FALSE
  /\ loads = [s \in Slots |-> NoLoad] /\ calm = FALSE

EventsInit == Init /\ interest = {} /\ BrowserInit

EventsTypeOK ==
  /\ TypeOK
  /\ interest \subseteq [user : Users, event : stored, status : Statuses]
  /\ \A r, t \in interest : r.user = t.user /\ r.event = t.event => r = t
  /\ active \in Queries
  /\ shown \in Seq(Events) /\ currentOffset \in Nat
  /\ {hasMore, isLoadingMore, calm} \subseteq BOOLEAN
  /\ loads \in [Slots -> {NoLoad} \cup
       [phase : {"list", "count", "answered"}, isInitialLoad : BOOLEAN,
        query : Queries, offset : Nat, rows : Seq(Events), more : BOOLEAN]]

-----------------------------------------------------------------------------
(* SetEventInterest, RemoveEventInterest and the rows' foreign key.        *)

Disturb == calm' = FALSE

SetEventInterest ==
  /\ \E u \in Users, e \in stored, st \in Statuses :
       interest' = {r \in interest : <<r.user, r.event>> # <<u, e>>}
                     \cup {[user |-> u, event |-> e, status |-> st]}
  /\ Disturb
  /\ UNCHANGED <<vars, pageVars, loads>>

RemoveEventInterest ==
  /\ \E r \in interest : interest' = interest \ {r}
  /\ Disturb
  /\ UNCHANGED <<vars, pageVars, loads>>

\* Mutant: the foreign key has no ON DELETE CASCADE.
CascadeMissing == UNCHANGED interest

Cascade == interest' = {r \in interest : r.event \in stored'}

(* What a cycle does to the tables, and the clock, seen from the page. *)
TablesMove ==
  /\ \/ \E e \in Shelf :
          /\ Store(e) \/ (stored' = stored \cup {e} /\ UNCHANGED billed)
          /\ UNCHANGED now
     \/ RemovePassed /\ UNCHANGED now
     \/ now < MaxHour /\ now' = now + 1 /\ UNCHANGED dbVars
  /\ Cascade /\ Disturb
  /\ UNCHANGED <<listed, pc, initial, cycleVars, lifeVars, historyVars,
                 pageVars, loads>>

-----------------------------------------------------------------------------
(* GetChicagoEvents.  The joins yield a row per artist and interest of an  *)
(* event; WHERE judges the artist of each row.                             *)

NoRow == "null"

JoinRows(e) ==
  LET artists == IF e \in billed THEN Lineup[e] ELSE {}
      rows    == {r \in interest : r.event = e}
      Outer(S) == IF S = {} THEN {NoRow} ELSE S
  IN  Outer(artists) \X Outer(rows)

(* CURRENT_TIMESTAMP is compared with the same clock face as the cutoff.   *)
Admits(q, e, row) ==
  /\ ~Passed(e)
  /\ q.anyArtist \/ row[1] \in q.artists
  /\ q.anyInterest => \E r \in interest : r.event = e

Matches(q) == {e \in stored : \E row \in JoinRows(e) : Admits(q, e, row)}

(* ORDER BY event_date: events that begin together come in any order. *)
Listings(q) ==
  {l \in SetToSeqs(Matches(q)) :
     \A i, j \in DOMAIN l : i < j => Begins[l[i]] <= Begins[l[j]]}

Rows(l, offset) ==
  SubSeq(l, offset + 1,
         IF offset + Limit < Len(l) THEN offset + Limit ELSE Len(l))

\* Mutant: COUNT without DISTINCT.
CountRows(q) ==
  Cardinality(UNION {{e} \X {row \in JoinRows(e) : Admits(q, e, row)} : e \in stored})

Count(q) == Cardinality(Matches(q))

(* A statement fails: 500, which the browser takes for an empty last page. *)
LoadFails(s) ==
  /\ loads[s].phase \in {"list", "count"}
  /\ loads' = [loads EXCEPT ![s].phase = "answered", ![s].rows = <<>>, ![s].more = FALSE]
  /\ Disturb
  /\ UNCHANGED <<vars, interestVars, pageVars>>

ListStatement(s) ==
  /\ loads[s].phase = "list"
  /\ \E l \in Listings(loads[s].query) :
       loads' = [loads EXCEPT ![s].phase = "count",
                              ![s].rows = Rows(l, loads[s].offset)]
  /\ UNCHANGED <<vars, interestVars, pageVars, calm>>

CountStatement(s) ==
  /\ loads[s].phase = "count"
  /\ loads' = [loads EXCEPT ![s].phase = "answered",
                 ![s].more = loads[s].offset + Limit < Count(loads[s].query)]
  /\ UNCHANGED <<vars, interestVars, pageVars, calm>>

-----------------------------------------------------------------------------
(* The page. *)

Quiet == \A s \in Slots : loads[s] = NoLoad

Load(s, first, q, offset) ==
  /\ loads[s] = NoLoad
  /\ loads' = [loads EXCEPT ![s] =
       [phase |-> "list", isInitialLoad |-> first, query |-> q,
        offset |-> offset, rows |-> <<>>, more |-> FALSE]]

(* resetAndSearch and retry, from a search, a toggle or the first visit.   *)
(* hasMore and isLoadingMore keep their values, and loads go on.           *)
ResetAndSearch(s) ==
  /\ active' \in Queries
  /\ shown' = <<>> /\ currentOffset' = 0
  /\ Load(s, TRUE, active', 0)
  /\ calm' = Quiet
  /\ UNCHANGED <<vars, interestVars, hasMore, isLoadingMore>>

LoadMoreEvents(s) ==
  /\ hasMore /\ ~isLoadingMore
  /\ isLoadingMore' = TRUE
  /\ Load(s, FALSE, active, currentOffset)
  /\ calm' = (calm /\ Quiet)
  /\ UNCHANGED <<vars, interestVars, active, shown, currentOffset, hasMore>>

\* Mutant: only a load that was no initial one ends isLoadingMore.
ArriveKeepsLoading(s) ==
  /\ loads[s].phase = "answered"
  /\ shown' = IF loads[s].isInitialLoad THEN loads[s].rows ELSE shown \o loads[s].rows
  /\ hasMore' = loads[s].more
  /\ currentOffset' = currentOffset + Len(loads[s].rows)
  /\ isLoadingMore' = (isLoadingMore /\ loads[s].rows = <<>>)
  /\ loads' = [loads EXCEPT ![s] = NoLoad]
  /\ UNCHANGED <<vars, interestVars, active, calm>>

(* The answer is not asked which list it was for. *)
Arrive(s) ==
  /\ loads[s].phase = "answered"
  /\ shown' = IF loads[s].isInitialLoad THEN loads[s].rows ELSE shown \o loads[s].rows
  /\ hasMore' = loads[s].more
  /\ currentOffset' = currentOffset + Len(loads[s].rows)
  /\ isLoadingMore' = FALSE
  /\ loads' = [loads EXCEPT ![s] = NoLoad]
  /\ UNCHANGED <<vars, interestVars, active, calm>>

Browse(s) == ResetAndSearch(s) \/ LoadMoreEvents(s) \/ Arrive(s)
Request(s) == ListStatement(s) \/ CountStatement(s) \/ LoadFails(s)

(* Bound: the goroutine's own steps are taken while the page is unopened,  *)
(* and while the page is open its writes come from TablesMove, which no    *)
(* catalogue restricts.                                                    *)
EventsNext ==
  \/ /\ BrowserInit /\ interest = {}
     /\ pc = "boot" => stored = {}
     /\ Next
     /\ UNCHANGED <<interestVars, browserVars>>
  \/ /\ pc = "boot" /\ listed = {}
     /\ \/ TablesMove \/ SetEventInterest \/ RemoveEventInterest
        \/ \E s \in Slots : Browse(s) \/ Request(s)

EventsSpec == EventsInit /\ [][EventsNext]_eventsVars

(* The composition without that bound: every step of the sync, at any      *)
(* time, reaches the interest rows and whoever has the page open.          *)
SyncStep ==
  /\ Next /\ Cascade
  /\ calm' = (calm /\ UNCHANGED <<now, dbVars>>)
  /\ UNCHANGED <<pageVars, loads>>

PageNext ==
  \/ SyncStep \/ SetEventInterest \/ RemoveEventInterest
  \/ \E s \in Slots : Browse(s) \/ Request(s)

PageSpec == EventsInit /\ [][PageNext]_eventsVars

-----------------------------------------------------------------------------
(* A list that was filled without a disturbance (an overlapping load, a    *)
(* failing statement, a write, the clock) and whose events begin at        *)
(* different hours is a beginning of what the query matches, no event      *)
(* twice and none left out, and hasMore says whether there is more.        *)
ListIsWhole ==
  Quiet /\ calm =>
    \A l \in Listings(active) :
      (\A d, e \in stored : d # e => Begins[d] # Begins[e]) =>
        IsPrefix(shown, l) /\ hasMore = (Len(shown) < Len(l))

(* Whatever loads overlapped or failed, the page can load again when none  *)
(* is under way: isLoadingMore does not outlive the loads.                 *)
ScrollNeverSticks == Quiet => ~isLoadingMore
=============================================================================

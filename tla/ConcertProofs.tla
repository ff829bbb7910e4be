--------------------------- MODULE ConcertProofs ---------------------------
(***************************************************************************)
(* Proofs about ConcertSync and ConcertEvents.                             *)
(***************************************************************************)
EXTENDS ConcertEvents, DataProofs, SequenceTheorems

-----------------------------------------------------------------------------
(* The provider's pages. *)

Found(s) == {e \in listed : Begins[e] \in Window(s)}

LEMMA ByDateOrders == \A S \in SUBSET Events : Orders(ByDate, S)
<1> TAKE S \in SUBSET Events
<1>1. \A e \in S : e \in Nat /\ e \in Events /\ Begins[e] \in Nat
  BY SyncAssumption
<1>2. \A d, e \in S : <<d, e>> \in ByDate <=>
        Begins[d] < Begins[e] \/ (Begins[d] = Begins[e] /\ d < e)
  BY <1>1 DEF ByDate
<1> HIDE DEF ByDate
<1>3. \A d \in S : <<d, d>> \notin ByDate
  BY <1>1, <1>2
<1>4. \A d, e \in S : d # e => <<d, e>> \in ByDate \/ <<e, d>> \in ByDate
  BY <1>1, <1>2
<1>5. \A c, d, e \in S : <<c, d>> \in ByDate /\ <<d, e>> \in ByDate => <<c, e>> \in ByDate
  BY <1>1, <1>2
<1> QED BY <1>3, <1>4, <1>5 DEF Orders

(* The catalogue of a segment lists each of its events once. *)
LEMMA CatalogueLists ==
  ASSUME listed \subseteq Events, NEW s
  PROVE  /\ Catalogue(s) \in Seq(Events)
         /\ Len(Catalogue(s)) = Cardinality(Found(s))
         /\ Listing(Catalogue(s), Len(Catalogue(s)), Found(s), ByDate)
<1>1. Found(s) \in SUBSET Events /\ IsFiniteSet(Found(s))
  BY SyncAssumption, FS_Subset DEF Found
<1>2. Orders(ByDate, Found(s))
  BY <1>1, ByDateOrders
<1>3. Catalogue(s) = InOrder(Found(s), ByDate)
  BY DEF Catalogue, Found
<1>4. /\ Cardinality(Found(s)) \in Nat
      /\ Listing(Catalogue(s), Cardinality(Found(s)), Found(s), ByDate)
  BY <1>1, <1>2, <1>3, InOrderSorts
<1>5. Catalogue(s) \in [1..Cardinality(Found(s)) -> Found(s)]
  BY <1>4 DEF Listing
<1>6. Catalogue(s) \in Seq(Found(s)) /\ Len(Catalogue(s)) = Cardinality(Found(s))
  BY <1>4, <1>5
<1> QED BY <1>1, <1>4, <1>6

(* A page holds what lies between its bounds, and an empty page lies past  *)
(* the end.                                                                *)
LEMMA Pages ==
  ASSUME listed \subseteq Events, NEW s, NEW p \in Nat \ {0}
  PROVE  /\ Page(s, p) \in Seq(Events) /\ Len(Page(s, p)) <= PageSize
         /\ p * PageSize \in Nat /\ (p - 1) * PageSize \in Nat
         /\ \A i \in 1..Len(Catalogue(s)) :
              (p - 1) * PageSize < i /\ i <= p * PageSize
                => Catalogue(s)[i] \in ToSet(Page(s, p))
         /\ Page(s, p) = <<>> => Len(Catalogue(s)) <= (p - 1) * PageSize
<1> DEFINE all == Catalogue(s)
           from == (p - 1) * PageSize
           last == IF p * PageSize < Len(all) THEN p * PageSize ELSE Len(all)
<1>1. PageSize \in Nat \ {0}
  BY SyncAssumption
<1>2. p * PageSize = from + PageSize /\ from \in Nat /\ p * PageSize \in Nat
  BY <1>1, Z3
<1>3. all \in Seq(Events) /\ Len(all) \in Nat
  BY CatalogueLists
<1>4. Page(s, p) = SubSeq(all, from + 1, last)
  BY DEF Page
<1> HIDE DEF all, from
<1>5. last \in Nat /\ last <= Len(all) /\ last <= from + PageSize
  BY <1>2, <1>3
<1>6. /\ Page(s, p) \in Seq(Events)
      /\ Len(Page(s, p)) = IF from + 1 <= last THEN last - from ELSE 0
      /\ \A i \in 1..(last - from) : Page(s, p)[i] = all[from + i]
  BY <1>2, <1>3, <1>4, <1>5
<1>7. ASSUME NEW i \in 1..Len(all), from < i, i <= p * PageSize
      PROVE  all[i] \in ToSet(Page(s, p))
  <2>1. i <= last /\ i - from \in 1..(last - from)
    BY <1>2, <1>3, <1>5, <1>7
  <2>2. Page(s, p)[i - from] = all[i] /\ i - from \in DOMAIN Page(s, p)
    BY <1>2, <1>3, <1>5, <1>6, <1>7, <2>1
  <2> QED BY <2>2 DEF ToSet
<1>8. Page(s, p) = <<>> => Len(all) <= from
  BY <1>1, <1>2, <1>3, <1>5, <1>6
<1>9. Len(Page(s, p)) <= PageSize
  BY <1>1, <1>2, <1>5, <1>6
<1> QED BY <1>2, <1>6, <1>7, <1>8, <1>9 DEF all, from

-----------------------------------------------------------------------------
(* The inductive invariant of a cycle: of a catalogue that stays as it is, *)
(* the segments before the current one are covered, and of the current one *)
(* the pages before the current one and what was taken from its batch.     *)
PageWithin == pc \in {"retry", "upsert"} => page <= MaxPages

Covered(s) == InReach(s) \ failed \subseteq billed

(* The first k events of the current segment are handled or in hand. *)
Handled(k, inHand) ==
  \A i \in 1..Len(Catalogue(segment)) :
    i <= k => Catalogue(segment)[i] \in billed \cup failed \cup inHand

Progress ==
  steady /\ ~truncated =>
    /\ pc \in {"search", "retry", "upsert"} => \A s \in 0..(segment - 1) : Covered(s)
    /\ pc \in {"search", "retry"} => Handled((page - 1) * PageSize, {})
    /\ pc = "upsert" => more = HasMore(segment, page)
                       /\ Handled(page * PageSize, ToSet(batch))

SyncInv == TypeOK /\ PageWithin /\ Progress /\ CycleCoversWindow

-----------------------------------------------------------------------------
(* Type correctness, from the variables of the cycle to those of the rest. *)
CycleTypes ==
  /\ pc \in PCs /\ t0 \in 0..MaxHour
  /\ segment \in 0..(NumSegments - 1) /\ page \in 1..(MaxPages + 1)
  /\ batch \in Seq(Events) /\ Len(batch) <= PageSize /\ more \in BOOLEAN

(* Bounds that the initial values and the steps need. *)
LEMMA Bounds ==
  /\ MaxHour \in Nat /\ NumSegments \in Nat \ {0} /\ MaxPages \in Nat \ {0}
  /\ PageSize \in Nat \ {0}
  /\ 0 \in 0..MaxHour /\ 0 \in 0..(NumSegments - 1) /\ 1 \in 1..(MaxPages + 1)
  /\ <<>> \in Seq(Events) /\ Len(<<>>) <= PageSize
BY SyncAssumption

(* Beginning and ending a cycle or a segment sets well-typed values. *)
LEMMA CycleMoves ==
  ASSUME TypeOK, BeginCycle \/ EndCycle \/ NextSegment
  PROVE  CycleTypes'
<1>1. CASE BeginCycle
  BY <1>1, Bounds DEF BeginCycle, CycleTypes, TypeOK, PCs
<1>2. CASE EndCycle
  BY <1>2, Bounds DEF EndCycle, CycleTypes, PCs
<1>3. CASE NextSegment
  <2>1. segment' \in 0..(NumSegments - 1)
    BY <1>3, Bounds DEF NextSegment, TypeOK
  <2>2. pc' \in PCs
    BY <1>3 DEF NextSegment, PCs
  <2> QED BY <1>3, <2>1, <2>2, Bounds DEF NextSegment, CycleTypes, TypeOK
<1> QED BY <1>1, <1>2, <1>3

(* A page that arrives is a short sequence of events. *)
LEMMA ReceiveTypes ==
  ASSUME TypeOK, ReceiveOrEnd
  PROVE  CycleTypes'
<1>1. CASE NextSegment
  BY <1>1, CycleMoves
<1>2. CASE Receive
  <2>1. page \in Nat \ {0} /\ listed \subseteq Events
    BY Bounds DEF TypeOK
  <2>2. batch' \in Seq(Events) /\ Len(batch') <= PageSize
    BY <1>2, <2>1, Pages DEF Receive
  <2>3. more' \in BOOLEAN
    BY <1>2 DEF Receive, HasMore
  <2> QED BY <1>2, <2>2, <2>3 DEF Receive, CycleTypes, TypeOK, PCs
<1> QED BY <1>1, <1>2 DEF ReceiveOrEnd

LEMMA TypeInitial == Init => TypeOK
<1> SUFFICES ASSUME Init PROVE TypeOK
  OBVIOUS
<1> QED BY Bounds DEF Init, TypeOK, PCs

(* No step of the goroutine, the ticker, main, the provider or the clock   *)
(* leaves the types; a page beyond the depth cap is not asked for.         *)
LEMMA TypePreserved ==
  ASSUME TypeOK, PageWithin, Next
  PROVE  TypeOK'
<1>0. /\ {tick, stopped, repoOpen, steady, truncated} \subseteq BOOLEAN
      /\ initial \in BOOLEAN /\ more \in BOOLEAN
  BY DEF TypeOK
<1> USE <1>0 DEF worldVars, dbVars, lifeVars, historyVars, cycleVars
<1>1. CASE DepthCap
  BY <1>1, CycleMoves DEF DepthCap, CycleTypes, TypeOK
<1>2. CASE SearchOK
  BY <1>2, ReceiveTypes DEF SearchOK, CycleTypes, TypeOK
<1>3. CASE Search400
  BY <1>3 DEF Search400, TypeOK, PCs
<1>4. CASE RetryOK
  BY <1>4, ReceiveTypes DEF RetryOK, CycleTypes, TypeOK
<1>5. CASE Retry400
  BY <1>5, CycleMoves DEF Retry400, CycleTypes, TypeOK
<1>6. CASE SearchFails
  BY <1>6, CycleMoves DEF SearchFails, EndCycle, CycleTypes, TypeOK
<1>7. CASE UpsertEvent
  <2>1. Head(batch) \in Events /\ batch' \in Seq(Events) /\ Len(batch') <= PageSize
    BY <1>7, Bounds DEF UpsertEvent, TypeOK
  <2>2. billed' \subseteq stored' /\ stored' \subseteq Events /\ failed' \subseteq Events
    BY <1>7, <2>1 DEF UpsertEvent, Store, TypeOK
  <2> QED BY <1>7, <2>1, <2>2 DEF UpsertEvent, TypeOK
<1>8. CASE PageSynced
  <2>1. CASE more
    BY <1>8, <2>1, Bounds DEF PageSynced, PageWithin, TypeOK, PCs
  <2>2. CASE ~more
    BY <1>8, <2>2, CycleMoves DEF PageSynced, CycleTypes, TypeOK
  <2> QED BY <2>1, <2>2
<1>9. CASE Cleanup
  BY <1>9, CycleMoves DEF Cleanup, RemovePassed, EndCycle, CycleTypes, TypeOK
<1>10. CASE Start
  BY <1>10, CycleMoves DEF Start, BeginCycle, CycleTypes, TypeOK
<1>11. CASE MakeTicker
  BY <1>11 DEF MakeTicker, TypeOK, PCs
<1>12. CASE LoopTicks
  BY <1>12, CycleMoves DEF LoopTicks, BeginCycle, CycleTypes, TypeOK
<1>13. CASE LoopStops
  BY <1>13 DEF LoopStops, TypeOK, PCs
<1>14. CASE TickerFires
  BY <1>14 DEF TickerFires, TypeOK
<1>15. CASE Stop
  BY <1>15 DEF Stop, TypeOK
<1>16. CASE CloseRepository
  BY <1>16 DEF CloseRepository, TypeOK
<1>17. CASE Relist
  BY <1>17 DEF Relist, TypeOK
<1>18. CASE Clock
  BY <1>18, Bounds DEF Clock, TypeOK
<1> QED
  BY <1>1, <1>2, <1>3, <1>4, <1>5, <1>6, <1>7, <1>8, <1>9, <1>10, <1>11, <1>12,
     <1>13, <1>14, <1>15, <1>16, <1>17, <1>18 DEF Next, Goroutine, syncEvents

-----------------------------------------------------------------------------
(* A catalogue that is not relisted is the same for the whole cycle. *)
LEMMA SameCatalogue ==
  ASSUME UNCHANGED <<listed, t0>>
  PROVE  /\ \A s : Catalogue(s)' = Catalogue(s) /\ InReach(s)' = InReach(s)
         /\ \A s, p : HasMore(s, p)' = HasMore(s, p) /\ Page(s, p)' = Page(s, p)
<1>1. \A s : Catalogue(s)' = Catalogue(s)
  BY DEF Catalogue, Window
<1> QED BY <1>1 DEF InReach, HasMore, Page

(* What is covered stays covered while rows and failures only grow. *)
LEMMA CoveredGrows ==
  ASSUME UNCHANGED <<listed, t0>>, billed \subseteq billed', failed \subseteq failed',
         NEW s, Covered(s)
  PROVE  Covered(s)'
<1>1. InReach(s)' = InReach(s)
  BY SameCatalogue
<1> QED BY <1>1 DEF Covered

(* A segment whose events are handled, all of them or as many as the depth *)
(* cap lets through, is covered.                                           *)
LEMMA HandledCovers ==
  ASSUME TypeOK, NEW k \in Nat, Handled(k, {}),
         k >= Len(Catalogue(segment)) \/ k >= MaxPages * PageSize
  PROVE  Covered(segment)
<1> SUFFICES ASSUME NEW e \in InReach(segment), e \notin failed
             PROVE  e \in billed
  BY DEF Covered
<1>1. Len(Catalogue(segment)) \in Nat
  BY CatalogueLists DEF TypeOK
<1>2. MaxPages * PageSize \in Nat
  BY Bounds, Z3
<1>3. PICK i \in 1..Len(Catalogue(segment)) :
        i <= MaxPages * PageSize /\ Catalogue(segment)[i] = e
  BY DEF InReach
<1>4. i <= k
  BY <1>1, <1>2, <1>3
<1> QED BY <1>3, <1>4 DEF Handled

(* A segment that is left when it is covered leaves the next one, or the   *)
(* cleanup, with all before it covered.                                    *)
LEMMA SegmentLeft ==
  ASSUME TypeOK, NextSegment, UNCHANGED <<listed, billed, failed, steady>>,
         steady /\ ~truncated => \A s \in 0..segment : Covered(s),
         truncated' = truncated \/ truncated'
  PROVE  Progress' /\ CycleCoversWindow'
<1> SUFFICES ASSUME steady', ~truncated'
             PROVE  Progress' /\ CycleCoversWindow'
  BY DEF Progress, CycleCoversWindow
<1>1. \A s \in 0..segment : Covered(s)'
  BY CoveredGrows DEF NextSegment
<1>2. segment \in Nat /\ NumSegments \in Nat /\ segment <= NumSegments - 1
  BY Bounds DEF TypeOK
<1>3. CASE segment + 1 < NumSegments
  <2>1. pc' = "search" /\ page' = 1 /\ segment' = segment + 1
    BY <1>3 DEF NextSegment
  <2>2. \A s \in 0..(segment' - 1) : Covered(s)'
    BY <1>1, <1>2, <2>1
  <2>3. Handled((page - 1) * PageSize, {})'
    <3>1. (page' - 1) * PageSize = 0
      BY <2>1, Bounds
    <3> QED BY <3>1 DEF Handled
  <2> QED BY <2>1, <2>2, <2>3 DEF Progress, CycleCoversWindow
<1>4. CASE ~(segment + 1 < NumSegments)
  <2>1. pc' = "cleanup" /\ segment = NumSegments - 1
    BY <1>2, <1>4 DEF NextSegment
  <2>2. \A s \in 0..(NumSegments - 1) : (InReach(s) \ failed \subseteq billed)'
    BY <1>1, <2>1 DEF Covered
  <2> QED BY <2>1, <2>2 DEF Progress, CycleCoversWindow
<1> QED BY <1>3, <1>4

(* A page that arrives, empty or not. *)
LEMMA ReceiveProgress ==
  ASSUME SyncInv, pc \in {"search", "retry"}, page <= MaxPages, ReceiveOrEnd,
         UNCHANGED <<listed, billed, failed, steady, truncated>>
  PROVE  Progress' /\ CycleCoversWindow'
<1> USE DEF SyncInv
<1>1. listed \subseteq Events /\ page \in Nat \ {0} /\ (page - 1) * PageSize \in Nat
      /\ segment \in Nat /\ Len(Catalogue(segment)) \in Nat
  BY Bounds, Pages, CatalogueLists DEF TypeOK
<1>2. CASE Page(segment, page) = <<>>
  <2>1. NextSegment
    BY <1>2 DEF ReceiveOrEnd
  <2>2. ASSUME steady, ~truncated
        PROVE  \A s \in 0..segment : Covered(s)
    <3>1. Len(Catalogue(segment)) <= (page - 1) * PageSize
      BY <1>1, <1>2, Pages
    <3>2. Covered(segment)
      BY <1>1, <2>2, <3>1, HandledCovers DEF Progress
    <3> QED BY <1>1, <2>2, <3>2 DEF Progress
  <2> QED BY <2>1, <2>2, SegmentLeft
<1>3. CASE Page(segment, page) # <<>>
  <2>1. Receive
    BY <1>3 DEF ReceiveOrEnd
  <2> SUFFICES ASSUME steady', ~truncated'
               PROVE  Progress'
    BY <2>1 DEF Progress, CycleCoversWindow, Receive
  <2>2. UNCHANGED <<listed, t0, segment, page>> /\ pc' = "upsert"
    BY <2>1 DEF Receive
  <2>3. \A s \in 0..(segment' - 1) : Covered(s)'
    BY <2>2, CoveredGrows DEF Progress
  <2>4. (more = HasMore(segment, page))'
    BY <2>1, <2>2, SameCatalogue DEF Receive
  <2>5. Handled(page * PageSize, ToSet(batch))'
    <3> SUFFICES ASSUME NEW i \in 1..Len(Catalogue(segment)), i <= page * PageSize
                 PROVE  Catalogue(segment)[i] \in billed \cup failed \cup ToSet(batch')
      BY <2>2, SameCatalogue DEF Handled
    <3>1. CASE i <= (page - 1) * PageSize
      BY <3>1 DEF Progress, Handled
    <3>2. CASE (page - 1) * PageSize < i
      BY <1>1, <2>1, <3>2, Pages DEF Receive
    <3> QED BY <1>1, <3>1, <3>2
  <2> QED BY <2>2, <2>3, <2>4, <2>5 DEF Progress
<1> QED BY <1>2, <1>3

(* The event at the head of the batch is stored or has failed. *)
LEMMA UpsertProgress ==
  ASSUME SyncInv, UpsertEvent
  PROVE  Progress' /\ CycleCoversWindow'
<1> USE DEF SyncInv
<1>1. /\ pc = "upsert" /\ batch # <<>> /\ batch' = Tail(batch)
      /\ UNCHANGED <<listed, t0, pc, segment, page, more, steady, truncated>>
  BY DEF UpsertEvent, worldVars
<1> SUFFICES ASSUME steady, ~truncated
             PROVE  Progress'
  BY <1>1 DEF Progress, CycleCoversWindow
<1>2. billed \subseteq billed' /\ failed \subseteq failed' /\ Head(batch) \in billed' \cup failed'
  BY DEF UpsertEvent, Store, dbVars
<1>3. ToSet(batch) \subseteq {Head(batch)} \cup ToSet(batch')
  <2>1. batch \in Seq(Events)
    BY DEF TypeOK
  <2>2. \A i \in 1..Len(batch) : i = 1 \/ (i - 1 \in 1..Len(Tail(batch)) /\ batch[i] = Tail(batch)[i - 1])
    BY <1>1, <2>1
  <2>3. DOMAIN batch = 1..Len(batch) /\ batch[1] = Head(batch)
        /\ DOMAIN Tail(batch) = 1..Len(Tail(batch))
    BY <1>1, <2>1
  <2>4. \A i \in 1..Len(batch) : batch[i] \in {Head(batch)} \cup ToSet(Tail(batch))
    BY <2>2, <2>3 DEF ToSet
  <2>5. ToSet(batch) = {batch[i] : i \in 1..Len(batch)}
    BY <2>3 DEF ToSet
  <2> QED BY <1>1, <2>4, <2>5
<1>4. \A s \in 0..(segment' - 1) : Covered(s)'
  BY <1>1, <1>2, CoveredGrows DEF Progress
<1>5. (more = HasMore(segment, page))'
  BY <1>1, SameCatalogue DEF Progress
<1>6. Handled(page * PageSize, ToSet(batch))'
  <2>1. Handled(page * PageSize, ToSet(batch))
    BY <1>1 DEF Progress
  <2> QED BY <1>1, <1>2, <1>3, <2>1, SameCatalogue DEF Handled
<1> QED BY <1>1, <1>4, <1>5, <1>6 DEF Progress

(* When a page is done, the next one is asked for or the segment is left.  *)
LEMMA PageProgress ==
  ASSUME SyncInv, PageSynced
  PROVE  Progress' /\ CycleCoversWindow'
<1> USE DEF SyncInv
<1>1. /\ pc = "upsert" /\ batch = <<>> /\ UNCHANGED <<listed, t0, billed, failed, steady, truncated>>
  BY DEF PageSynced, worldVars, dbVars, historyVars, NextSegment
<1>2. /\ listed \subseteq Events /\ page \in Nat \ {0} /\ page * PageSize \in Nat
      /\ segment \in Nat /\ Len(Catalogue(segment)) \in Nat
  BY Bounds, Pages, CatalogueLists DEF TypeOK
<1>3. ASSUME steady, ~truncated
      PROVE  Handled(page * PageSize, {})
  BY <1>1, <1>3 DEF Progress, Handled, ToSet
<1>4. CASE more
  <2>1. pc' = "search" /\ page' = page + 1 /\ UNCHANGED segment
    BY <1>4 DEF PageSynced
  <2> SUFFICES ASSUME steady, ~truncated
               PROVE  Progress'
    BY <1>1, <2>1 DEF Progress, CycleCoversWindow
  <2>2. \A s \in 0..(segment' - 1) : Covered(s)'
    BY <1>1, <2>1, CoveredGrows DEF Progress
  <2>3. page' - 1 = page
    BY <1>2, <2>1
  <2>4. Handled((page - 1) * PageSize, {})'
    BY <1>1, <1>3, <2>1, <2>3, SameCatalogue DEF Handled
  <2> QED BY <2>1, <2>2, <2>4 DEF Progress
<1>5. CASE ~more
  <2>1. NextSegment
    BY <1>5 DEF PageSynced
  <2>2. ASSUME steady, ~truncated
        PROVE  \A s \in 0..segment : Covered(s)
    <3>0. ~HasMore(segment, page)
      BY <1>1, <1>5, <2>2 DEF Progress
    <3>1. page * PageSize >= Len(Catalogue(segment))
      BY <1>2, <3>0 DEF HasMore
    <3>2. Covered(segment)
      BY <1>2, <1>3, <2>2, <3>1, HandledCovers
    <3> QED BY <1>1, <1>2, <2>2, <3>2 DEF Progress
  <2> QED BY <1>1, <2>1, <2>2, SegmentLeft
<1> QED BY <1>4, <1>5

(* Pages beyond the depth cap are given up; what they held is out of reach. *)
LEMMA DepthProgress ==
  ASSUME SyncInv, DepthCap
  PROVE  Progress' /\ CycleCoversWindow'
<1> USE DEF SyncInv
<1>1. /\ pc = "search" /\ page > MaxPages /\ NextSegment
      /\ UNCHANGED <<listed, billed, failed, steady, truncated>>
  BY DEF DepthCap, worldVars, dbVars, historyVars
<1>2. ASSUME steady, ~truncated
      PROVE  \A s \in 0..segment : Covered(s)
  <2>1. page = MaxPages + 1 /\ MaxPages \in Nat /\ segment \in Nat
    BY <1>1, Bounds DEF TypeOK
  <2>2. page - 1 = MaxPages /\ MaxPages * PageSize \in Nat
    BY <2>1, Bounds, Z3
  <2>3. Handled(MaxPages * PageSize, {})
    BY <1>1, <1>2, <2>2 DEF Progress
  <2>4. Covered(segment)
    BY <2>2, <2>3, HandledCovers
  <2> QED BY <1>1, <1>2, <2>1, <2>4 DEF Progress
<1> QED BY <1>1, <1>2, SegmentLeft

(* A new cycle has everything before it and nothing behind it. *)
LEMMA BeginProgress ==
  ASSUME BeginCycle
  PROVE  Progress' /\ CycleCoversWindow'
<1>1. pc' = "search" /\ segment' = 0 /\ page' = 1
  BY DEF BeginCycle
<1>2. (page' - 1) * PageSize = 0
  BY <1>1, Bounds
<1>3. Handled((page - 1) * PageSize, {})'
  BY <1>2 DEF Handled
<1> QED BY <1>1, <1>3 DEF Progress, CycleCoversWindow

(* Every step of the goroutine and of its surroundings keeps the invariant. *)
LEMMA SyncPreserved ==
  ASSUME SyncInv, Next
  PROVE  SyncInv'
<1> USE DEF SyncInv
<1>0. TypeOK'
  BY TypePreserved
<1>1. PageWithin'
  <2>1. page <= MaxPages /\ pc \in {"search", "retry"} /\ ReceiveOrEnd => PageWithin'
    BY DEF ReceiveOrEnd, Receive, NextSegment, PageWithin
  <2>2. NextSegment \/ BeginCycle \/ EndCycle => PageWithin'
    BY DEF NextSegment, BeginCycle, EndCycle, PageWithin
  <2> QED
    BY <2>1, <2>2
    DEF Next, Goroutine, syncEvents, DepthCap, SearchOK, Search400, RetryOK, Retry400,
        SearchFails, UpsertEvent, PageSynced, Cleanup, Start, MakeTicker, LoopTicks,
        LoopStops, TickerFires, Stop, CloseRepository, Relist, Clock, PageWithin, cycleVars
<1>2. Progress' /\ CycleCoversWindow'
  <2> USE DEF worldVars, dbVars, lifeVars, historyVars, cycleVars
  <2>1. CASE DepthCap
    BY <2>1, DepthProgress
  <2>2. CASE SearchOK
    BY <2>2, ReceiveProgress DEF SearchOK
  <2>3. CASE Search400
    <3>1. Handled((page - 1) * PageSize, {})' <=> Handled((page - 1) * PageSize, {})
      BY <2>3, SameCatalogue DEF Search400, Handled
    <3>2. \A s : Covered(s) => Covered(s)'
      BY <2>3, CoveredGrows DEF Search400
    <3> QED BY <2>3, <3>1, <3>2 DEF Search400, Progress, CycleCoversWindow
  <2>4. CASE RetryOK
    BY <2>4, ReceiveProgress DEF RetryOK, PageWithin
  <2>5. CASE Retry400 \/ Relist
    <3>1. truncated' \/ ~steady'
      BY <2>5 DEF Retry400, Relist
    <3> QED BY <3>1 DEF Progress, CycleCoversWindow
  <2>6. CASE SearchFails \/ Cleanup \/ MakeTicker \/ LoopStops
    <3>1. pc' \in {"ticker", "select", "returned"}
      BY <2>6 DEF SearchFails, Cleanup, EndCycle, MakeTicker, LoopStops
    <3> QED BY <3>1 DEF Progress, CycleCoversWindow
  <2>7. CASE UpsertEvent
    BY <2>7, UpsertProgress
  <2>8. CASE PageSynced
    BY <2>8, PageProgress
  <2>9. CASE Start \/ LoopTicks
    BY <2>9, BeginProgress DEF Start, LoopTicks
  <2>10. CASE TickerFires \/ Stop \/ CloseRepository \/ Clock
    <3>1. UNCHANGED <<listed, dbVars, pc, cycleVars, historyVars>>
      BY <2>10 DEF TickerFires, Stop, CloseRepository, Clock
    <3>2. /\ Handled((page - 1) * PageSize, {})' <=> Handled((page - 1) * PageSize, {})
          /\ Handled(page * PageSize, ToSet(batch))' <=> Handled(page * PageSize, ToSet(batch))
          /\ HasMore(segment, page)' = HasMore(segment, page)
          /\ \A s : InReach(s)' = InReach(s)
          /\ \A s : Covered(s)' <=> Covered(s)
      BY <3>1, SameCatalogue DEF Handled, Covered
    <3> QED BY <3>1, <3>2 DEF Progress, CycleCoversWindow
  <2> QED
    BY <2>1, <2>2, <2>3, <2>4, <2>5, <2>6, <2>7, <2>8, <2>9, <2>10
    DEF Next, Goroutine, syncEvents
<1> QED BY <1>0, <1>1, <1>2

(* Nothing that a cycle depends on changes in a stuttering step. *)
LEMMA SyncStutters ==
  ASSUME SyncInv, UNCHANGED vars
  PROVE  SyncInv'
<1> USE DEF vars, worldVars, dbVars, lifeVars, historyVars, cycleVars
<1>1. /\ Handled((page - 1) * PageSize, {})' <=> Handled((page - 1) * PageSize, {})
      /\ Handled(page * PageSize, ToSet(batch))' <=> Handled(page * PageSize, ToSet(batch))
      /\ HasMore(segment, page)' = HasMore(segment, page)
      /\ \A s : InReach(s)' = InReach(s)
      /\ \A s : Covered(s)' <=> Covered(s)
  BY SameCatalogue DEF Handled, Covered
<1>2. TypeOK' /\ PageWithin'
  BY DEF SyncInv, TypeOK, PageWithin
<1>3. Progress' /\ CycleCoversWindow'
  BY <1>1 DEF SyncInv, Progress, CycleCoversWindow
<1> QED BY <1>2, <1>3 DEF SyncInv

LEMMA SyncInitial == Init => SyncInv
  BY TypeInitial DEF Init, SyncInv, PageWithin, Progress, CycleCoversWindow

(* The goroutine's variables keep their types in every run of the sync. *)
THEOREM SyncTypes == Spec => []TypeOK
<1>1. SyncInv /\ [Next]_vars => SyncInv'
  BY SyncPreserved, SyncStutters
<1>2. SyncInv => TypeOK
  BY DEF SyncInv
<1> QED BY <1>1, <1>2, SyncInitial, PTL DEF Spec

(* Whatever the catalogue, the page size, the depth cap and the segments,  *)
(* a cycle that reaches its cleanup over an unchanged catalogue has        *)
(* stored, with their artists, all events within reach that did not fail.  *)
THEOREM CycleIsComplete == Spec => []CycleCoversWindow
<1>1. SyncInv /\ [Next]_vars => SyncInv'
  BY SyncPreserved, SyncStutters
<1>2. SyncInv => CycleCoversWindow
  BY DEF SyncInv
<1> QED BY <1>1, <1>2, SyncInitial, PTL DEF Spec

(* An event is removed only by a cleanup, and only if it has passed by the *)
(* server's clock.                                                         *)
LEMMA RemovedHavePassed ==
  ASSUME [Next]_vars, NEW e \in stored \ stored'
  PROVE  pc = "cleanup" /\ Begins[e] < now + ServerAhead
<1> USE DEF dbVars, historyVars, lifeVars, worldVars, cycleVars
<1>1. CASE syncEvents
  <2>1. CASE DepthCap \/ SearchOK \/ Search400 \/ RetryOK \/ Retry400 \/ SearchFails \/ PageSynced
    BY <2>1 DEF DepthCap, SearchOK, Search400, RetryOK, Retry400, SearchFails, PageSynced
  <2>2. CASE UpsertEvent
    BY <2>2 DEF UpsertEvent, Store
  <2>3. CASE Cleanup
    BY <2>3 DEF Cleanup, RemovePassed, Passed
  <2> QED BY <1>1, <2>1, <2>2, <2>3 DEF syncEvents
<1>2. CASE Start \/ MakeTicker \/ LoopTicks \/ LoopStops
  BY <1>2 DEF Start, MakeTicker, LoopTicks, LoopStops
<1>3. CASE TickerFires \/ Stop \/ CloseRepository \/ Relist \/ Clock
  BY <1>3 DEF TickerFires, Stop, CloseRepository, Relist, Clock
<1>4. CASE UNCHANGED vars
  BY <1>4 DEF vars
<1> QED BY <1>1, <1>2, <1>3, <1>4 DEF Next, Goroutine

(* The cleanup keeps its promise (sync_service.go:240) where the server    *)
(* runs on the venues' time: the difference of the clocks is all that can  *)
(* make it remove an event to come.                                        *)
THEOREM CleanupOnVenueTime ==
  ASSUME ServerAhead = 0
  PROVE  Spec => CleanupRemovesOnlyPassed
<1>1. TypeOK /\ [Next]_vars => [\A e \in stored \ stored' : Begins[e] < now]_vars
  <2> SUFFICES ASSUME TypeOK, [Next]_vars, NEW e \in stored \ stored'
               PROVE  Begins[e] < now
    OBVIOUS
  <2>1. Begins[e] < now + ServerAhead
    BY RemovedHavePassed
  <2>2. now \in Int
    BY SyncAssumption DEF TypeOK
  <2> QED BY <2>1, <2>2
<1> QED BY <1>1, SyncTypes, PTL DEF Spec, CleanupRemovesOnlyPassed

-----------------------------------------------------------------------------
(* The list of the page.  While nothing disturbs it and the events begin   *)
(* at different hours, it is a beginning of the listing, and the load that *)
(* is under way, if there is one, continues it.                            *)
Spread == \A d, e \in stored : d # e => Begins[d] # Begins[e]

Begun(l) ==
  /\ Len(shown) <= Len(l) /\ shown = SubSeq(l, 1, Len(shown))
  /\ currentOffset = Len(shown)

Continues(l, s) ==
  /\ loads[s] # NoLoad /\ \A t \in Slots \ {s} : loads[t] = NoLoad
  /\ loads[s].query = active /\ loads[s].offset = Len(shown)
  /\ loads[s].isInitialLoad => shown = <<>>
  /\ loads[s].phase \in {"count", "answered"} => loads[s].rows = Rows(l, Len(shown))
  /\ loads[s].phase = "answered" => loads[s].more = (Len(shown) + Limit < Len(l))

OneList ==
  calm /\ Spread => \A l \in Listings(active) :
    /\ Begun(l)
    /\ \/ Quiet /\ hasMore = (Len(shown) < Len(l))
       \/ \E s \in Slots : Continues(l, s)

EventsInv == SyncInv /\ EventsTypeOK /\ ScrollNeverSticks /\ OneList

-----------------------------------------------------------------------------
(* The listing of a query. *)
ByHour == {p \in Events \X Events : Begins[p[1]] < Begins[p[2]]}

(* A listing has the matching events, each once. *)
LEMMA ListingType ==
  ASSUME TypeOK, NEW q, NEW l \in Listings(q)
  PROVE  /\ l \in Seq(Events) /\ Len(l) = Count(q) /\ Len(l) \in Nat
         /\ l \in [1..Len(l) -> Matches(q)]
         /\ \A e \in Matches(q) : \E i \in 1..Len(l) : l[i] = e
         /\ \A i, k \in 1..Len(l) : i # k => l[i] # l[k]
         /\ \A i, k \in 1..Len(l) : i < k => Begins[l[i]] <= Begins[l[k]]
<1> DEFINE n == Cardinality(Matches(q))
<1>1. Matches(q) \in SUBSET Events /\ Matches(q) \subseteq stored
  BY DEF Matches, TypeOK
<1>2. IsFiniteSet(Matches(q)) /\ n \in Nat
  BY <1>1, SyncAssumption, FS_Subset, FS_CardinalityType
<1>3. l \in [1..n -> Matches(q)] /\ \A i, k \in 1..n : i # k => l[i] # l[k]
  BY DEF Listings, SetToSeqs
<1>4. l \in Seq(Events) /\ Len(l) = n
  BY <1>1, <1>2, <1>3
<1>5. l \in Injection(1..n, Matches(q))
  BY <1>3, Fun_IsInj
<1>6. IsFiniteSet(1..n) /\ Cardinality(1..n) = n
  BY <1>2, FS_Interval
<1>7. l \in Surjection(1..n, Matches(q))
  BY <1>2, <1>5, <1>6, FS_Injection
<1>8. \A e \in Matches(q) : \E i \in 1..n : l[i] = e
  BY <1>7 DEF Surjection
<1>9. \A i, k \in DOMAIN l : i < k => Begins[l[i]] <= Begins[l[k]]
  BY DEF Listings
<1> QED BY <1>2, <1>3, <1>4, <1>8, <1>9 DEF Count

(* Events that begin at different hours can be listed in one way only. *)
LEMMA OneListing ==
  ASSUME TypeOK, Spread, NEW q, NEW l \in Listings(q), NEW m \in Listings(q)
  PROVE  l = m
<1> DEFINE S == Matches(q)
<1>1. S \subseteq Events /\ \A e \in S : Begins[e] \in Nat
  BY SyncAssumption DEF Matches, TypeOK
<1>2. \A d, e \in S : d # e => Begins[d] # Begins[e]
  BY DEF Spread, Matches
<1>3. \A d, e \in S : <<d, e>> \in ByHour <=> Begins[d] < Begins[e]
  BY <1>1 DEF ByHour
<1>4. Orders(ByHour, S)
  <2> HIDE DEF S
  <2>1. \A d \in S : <<d, d>> \notin ByHour
    BY <1>1, <1>3
  <2>2. \A d, e \in S : d # e => <<d, e>> \in ByHour \/ <<e, d>> \in ByHour
    BY <1>1, <1>2, <1>3
  <2>3. \A c, d, e \in S : <<c, d>> \in ByHour /\ <<d, e>> \in ByHour => <<c, e>> \in ByHour
    BY <1>1, <1>3
  <2> QED BY <2>1, <2>2, <2>3 DEF Orders
<1>5. ASSUME NEW x \in Listings(q)
      PROVE  Count(q) \in Nat /\ Listing(x, Count(q), S, ByHour)
  <2>1. /\ x \in [1..Len(x) -> S] /\ Len(x) = Count(q) /\ Count(q) \in Nat
        /\ \A e \in S : \E i \in 1..Len(x) : x[i] = e
        /\ \A i, k \in 1..Len(x) : i # k => x[i] # x[k]
        /\ \A i, k \in 1..Len(x) : i < k => Begins[x[i]] <= Begins[x[k]]
    BY ListingType
  <2>2. ASSUME NEW i \in 1..Len(x), NEW k \in 1..Len(x), i < k
        PROVE  <<x[i], x[k]>> \in ByHour
    <3>1. x[i] \in S /\ x[k] \in S /\ x[i] # x[k] /\ Begins[x[i]] <= Begins[x[k]]
      BY <2>1, <2>2
    <3> QED BY <1>1, <1>2, <1>3, <3>1
  <2> QED BY <2>1, <2>2 DEF Listing
<1> QED BY <1>4, <1>5, ListedOneWay

(* The rows of a page continue what lies before its offset. *)
LEMMA RowsContinue ==
  ASSUME NEW l \in Seq(Events), NEW o \in 0..Len(l)
  PROVE  /\ Rows(l, o) \in Seq(Events)
         /\ SubSeq(l, 1, o) \o Rows(l, o) = SubSeq(l, 1, o + Len(Rows(l, o)))
         /\ o + Len(Rows(l, o)) \in 0..Len(l)
         /\ o + Limit < Len(l) <=> o + Len(Rows(l, o)) < Len(l)
<1> DEFINE last == IF o + Limit < Len(l) THEN o + Limit ELSE Len(l)
<1>1. Limit \in Nat \ {0} /\ Len(l) \in Nat
  BY PageAssumption
<1>2. last \in o..Len(l) /\ (o + Limit < Len(l) <=> last < Len(l))
  BY <1>1
<1>3. Rows(l, o) = SubSeq(l, o + 1, last)
  BY DEF Rows
<1> HIDE DEF last
<1>4. Rows(l, o) \in Seq(Events) /\ Len(Rows(l, o)) = last - o
  BY <1>1, <1>2, <1>3
<1>5. SubSeq(l, 1, o) \o SubSeq(l, o + 1, last) = SubSeq(l, 1, last)
  BY <1>1, <1>2
<1> QED BY <1>1, <1>2, <1>3, <1>4, <1>5

-----------------------------------------------------------------------------
(* A load is nothing or a record of a request. *)
Answer == [phase : {"list", "count", "answered"}, isInitialLoad : BOOLEAN,
           query : Queries, offset : Nat, rows : Seq(Events), more : BOOLEAN]

LEMMA Loads ==
  ASSUME EventsTypeOK, NEW s \in Slots
  PROVE  /\ loads[s] \in {NoLoad} \cup Answer
         /\ loads[s].phase # "none" => loads[s] \in Answer
         /\ loads[s] \in Answer => loads[s] # NoLoad /\ loads[s].phase \in {"list", "count", "answered"}
<1>1. loads[s] \in {NoLoad} \cup Answer
  BY DEF EventsTypeOK, Answer
<1>2. NoLoad.phase = "none"
  BY DEF NoLoad
<1>3. \A a \in Answer : a.phase \in {"list", "count", "answered"}
  BY DEF Answer
<1> QED BY <1>1, <1>2, <1>3

(* What the page shows does not matter to the sync. *)
LEMMA SyncUntouched ==
  ASSUME SyncInv, UNCHANGED vars
  PROVE  /\ SyncInv' /\ UNCHANGED <<now, stored, billed>>
         /\ (Spread' <=> Spread)
BY SyncStutters DEF vars, worldVars, dbVars, Spread

(* A query finds the same while tables and clock stand still. *)
LEMMA SameListings ==
  ASSUME UNCHANGED <<now, stored, billed, interest>>
  PROVE  \A q : Listings(q)' = Listings(q) /\ Count(q)' = Count(q)
<1>1. \A q : Matches(q)' = Matches(q)
  BY DEF Matches, JoinRows, Admits, Passed
<1> QED BY <1>1 DEF Listings, Count

(* The rows of interest keep their types, and one for a user and an event, *)
(* when the event of a row may be removed.                                 *)
LEMMA CascadeTypes ==
  ASSUME EventsTypeOK, Cascade
  PROVE  /\ interest' \subseteq [user : Users, event : stored', status : Statuses]
         /\ \A r, t \in interest' : r.user = t.user /\ r.event = t.event => r = t
BY DEF EventsTypeOK, Cascade

(* The sync writes: rows go with their events, and the list is disturbed.  *)
LEMMA SyncStepKeeps ==
  ASSUME EventsInv, SyncStep
  PROVE  EventsInv'
<1> USE DEF EventsInv
<1>1. SyncInv'
  BY SyncPreserved DEF SyncStep
<1>2. EventsTypeOK'
  BY <1>1, CascadeTypes DEF SyncStep, EventsTypeOK, SyncInv, pageVars
<1>3. ScrollNeverSticks'
  BY DEF SyncStep, ScrollNeverSticks, Quiet, pageVars
<1>4. OneList'
  <2>1. CASE ~calm'
    BY <2>1 DEF OneList
  <2>2. CASE calm'
    <3>1. calm /\ UNCHANGED <<now, stored, billed, active, shown, currentOffset, hasMore, loads>>
      BY <2>2 DEF SyncStep, pageVars, dbVars
    <3>2. interest' = interest
      BY <3>1 DEF SyncStep, Cascade, EventsTypeOK
    <3>3. (Spread' <=> Spread) /\ \A q : Listings(q)' = Listings(q)
      BY <3>1, <3>2, SameListings DEF Spread
    <3> QED BY <3>1, <3>3 DEF OneList, Begun, Continues, Quiet
  <2> QED BY <2>1, <2>2
<1> QED BY <1>1, <1>2, <1>3, <1>4

(* The bounded composition's writes do no more. *)
LEMMA TablesMoveKeeps ==
  ASSUME EventsInv, pc = "boot", TablesMove
  PROVE  EventsInv'
<1> USE DEF EventsInv
<1>1. /\ now' \in 0..MaxHour /\ billed' \subseteq stored' /\ stored' \subseteq Events
  BY Bounds, PageAssumption DEF TablesMove, Store, RemovePassed, SyncInv, TypeOK, dbVars
<1>2. UNCHANGED <<listed, pc, initial, cycleVars, lifeVars, historyVars, pageVars, loads>> /\ ~calm'
  BY DEF TablesMove, Disturb
<1>3. TypeOK'
  BY <1>1, <1>2 DEF SyncInv, TypeOK, cycleVars, lifeVars, historyVars
<1>4. SyncInv'
  BY <1>2, <1>3 DEF SyncInv, PageWithin, Progress, CycleCoversWindow
<1>5. EventsTypeOK'
  BY <1>2, <1>3, CascadeTypes DEF TablesMove, Disturb, EventsTypeOK, pageVars
<1>6. ScrollNeverSticks'
  BY <1>2 DEF ScrollNeverSticks, Quiet, pageVars
<1>7. OneList'
  BY <1>2 DEF OneList
<1> QED BY <1>4, <1>5, <1>6, <1>7

(* So do the users' interests. *)
LEMMA InterestKeeps ==
  ASSUME EventsInv, SetEventInterest \/ RemoveEventInterest
  PROVE  EventsInv'
<1> USE DEF EventsInv
<1>1. UNCHANGED <<vars, pageVars, loads>> /\ ~calm'
  BY DEF SetEventInterest, RemoveEventInterest, Disturb
<1>2. SyncInv' /\ UNCHANGED stored
  BY <1>1, SyncUntouched
<1>3. /\ interest' \subseteq [user : Users, event : stored, status : Statuses]
      /\ \A r, t \in interest' : r.user = t.user /\ r.event = t.event => r = t
  <2>1. CASE SetEventInterest
    <3>1. PICK u \in Users, e \in stored, st \in Statuses :
            interest' = {r \in interest : <<r.user, r.event>> # <<u, e>>}
                          \cup {[user |-> u, event |-> e, status |-> st]}
      BY <2>1 DEF SetEventInterest
    <3> QED BY <3>1 DEF EventsTypeOK
  <2>2. CASE RemoveEventInterest
    BY <2>2 DEF RemoveEventInterest, EventsTypeOK
  <2> QED BY <2>1, <2>2
<1>4. EventsTypeOK'
  BY <1>1, <1>2, <1>3 DEF SetEventInterest, RemoveEventInterest, Disturb, EventsTypeOK, SyncInv, pageVars
<1>5. ScrollNeverSticks'
  BY <1>1 DEF ScrollNeverSticks, Quiet, pageVars
<1>6. OneList'
  BY <1>1 DEF OneList
<1> QED BY <1>2, <1>4, <1>5, <1>6

(* A request to the server changes nothing but its own load.  What it is   *)
(* told is the continuation of the list, as long as nothing disturbs it.   *)
LEMMA RequestKeeps ==
  ASSUME EventsInv, NEW s \in Slots, Request(s)
  PROVE  EventsInv'
<1> USE DEF EventsInv
<1>1. UNCHANGED <<vars, interestVars, pageVars>>
  BY DEF Request, ListStatement, CountStatement, LoadFails
<1>2. SyncInv' /\ UNCHANGED <<now, stored, billed, interest>> /\ (Spread' <=> Spread)
  BY <1>1, SyncUntouched DEF interestVars
<1>3. loads[s] \in Answer /\ loads[s].phase \in {"list", "count"}
  BY Loads DEF Request, ListStatement, CountStatement, LoadFails
<1>4. \E a \in Answer : loads' = [loads EXCEPT ![s] = a]
  <2>1. CASE ListStatement(s)
    <3>1. PICK l \in Listings(loads[s].query) :
            loads' = [loads EXCEPT ![s].phase = "count", ![s].rows = Rows(l, loads[s].offset)]
      BY <2>1 DEF ListStatement
    <3>2. l \in Seq(Events)
      BY ListingType DEF SyncInv
    <3>3. Rows(l, loads[s].offset) \in Seq(Events)
      BY <1>3, <3>2, PageAssumption DEF Answer, Rows
    <3>4. [loads[s] EXCEPT !.phase = "count", !.rows = Rows(l, loads[s].offset)] \in Answer
      BY <1>3, <3>3 DEF Answer
    <3>5. loads' = [loads EXCEPT ![s] =
                      [loads[s] EXCEPT !.phase = "count", !.rows = Rows(l, loads[s].offset)]]
      BY <3>1
    <3> QED BY <3>4, <3>5
  <2>2. CASE CountStatement(s)
    <3> DEFINE further == loads[s].offset + Limit < Count(loads[s].query)
    <3>1. loads' = [loads EXCEPT ![s] = [loads[s] EXCEPT !.phase = "answered", !.more = further]]
      BY <2>2 DEF CountStatement
    <3>2. further \in BOOLEAN
      OBVIOUS
    <3> HIDE DEF further
    <3>3. [loads[s] EXCEPT !.phase = "answered", !.more = further] \in Answer
      BY <1>3, <3>2 DEF Answer
    <3> QED BY <3>1, <3>3
  <2>3. CASE LoadFails(s)
    <3>1. [loads[s] EXCEPT !.phase = "answered", !.rows = <<>>, !.more = FALSE] \in Answer
      BY <1>3, Bounds DEF Answer
    <3>2. loads' = [loads EXCEPT ![s] =
                      [loads[s] EXCEPT !.phase = "answered", !.rows = <<>>, !.more = FALSE]]
      BY <2>3 DEF LoadFails
    <3> QED BY <3>1, <3>2
  <2> QED BY <2>1, <2>2, <2>3 DEF Request
<1>5. loads'[s] \in Answer /\ \A t \in Slots \ {s} : loads'[t] = loads[t]
  BY <1>4 DEF EventsTypeOK
<1>6. EventsTypeOK'
  <2>1. calm' \in BOOLEAN
    BY DEF Request, ListStatement, CountStatement, LoadFails, Disturb, EventsTypeOK
  <2>2. loads' \in [Slots -> {NoLoad} \cup Answer]
    BY <1>4 DEF EventsTypeOK, Answer
  <2> QED BY <1>1, <1>2, <2>1, <2>2 DEF EventsTypeOK, SyncInv, interestVars, pageVars, Answer
<1>7. ~Quiet'
  <2>1. loads'[s] # NoLoad
    BY <1>5 DEF Answer, NoLoad
  <2> QED BY <2>1 DEF Quiet
<1>8. OneList'
  <2> SUFFICES ASSUME calm', Spread, NEW l \in Listings(active)
               PROVE  Begun(l)' /\ \E t \in Slots : Continues(l, t)'
    BY <1>1, <1>2, SameListings DEF OneList, pageVars
  <2>1. calm /\ ~LoadFails(s)
    BY DEF Request, ListStatement, CountStatement, LoadFails, Disturb
  <2>2. loads[s] # NoLoad
    BY <1>3, Loads
  <2>3. Begun(l) /\ Continues(l, s)
    BY <2>1, <2>2 DEF OneList, Quiet, Continues
  <2>4. Begun(l)'
    BY <1>1, <2>3 DEF Begun, pageVars
  <2>5. /\ l \in Seq(Events) /\ Len(l) = Count(active) /\ loads[s].query = active
        /\ loads[s].offset = Len(shown)
    BY <2>3, ListingType DEF SyncInv, Continues
  <2>6. CASE ListStatement(s)
    <3>1. PICK m \in Listings(loads[s].query) :
            loads' = [loads EXCEPT ![s].phase = "count", ![s].rows = Rows(m, loads[s].offset)]
      BY <2>6 DEF ListStatement
    <3>2. m = l
      BY <2>5, OneListing DEF SyncInv
    <3>3. loads'[s] = [loads[s] EXCEPT !.phase = "count", !.rows = Rows(l, Len(shown))]
      BY <2>5, <3>1, <3>2 DEF EventsTypeOK
    <3>4. /\ loads'[s].phase = "count" /\ loads'[s].rows = Rows(l, Len(shown))
          /\ loads'[s].query = loads[s].query /\ loads'[s].offset = loads[s].offset
          /\ loads'[s].isInitialLoad = loads[s].isInitialLoad
      BY <1>3, <3>3 DEF Answer
    <3>5. loads'[s] # NoLoad
      BY <1>5 DEF Answer, NoLoad
    <3>6. Continues(l, s)'
      BY <1>1, <1>5, <2>3, <3>4, <3>5 DEF Continues, pageVars
    <3> QED BY <2>4, <3>6
  <2>7. CASE CountStatement(s)
    <3> DEFINE further == loads[s].offset + Limit < Count(loads[s].query)
    <3>1. loads'[s] = [loads[s] EXCEPT !.phase = "answered", !.more = further]
      BY <2>7 DEF CountStatement, EventsTypeOK
    <3>2. /\ loads'[s].phase = "answered" /\ loads'[s].rows = loads[s].rows
          /\ loads'[s].query = loads[s].query /\ loads'[s].offset = loads[s].offset
          /\ loads'[s].isInitialLoad = loads[s].isInitialLoad
          /\ loads'[s].more = further
      BY <1>3, <3>1 DEF Answer
    <3>3. further = (Len(shown) + Limit < Len(l))
      BY <2>5
    <3>4. loads[s].rows = Rows(l, Len(shown))
      BY <2>3, <2>7 DEF Continues, CountStatement
    <3>5. loads'[s] # NoLoad
      BY <1>5 DEF Answer, NoLoad
    <3>6. Continues(l, s)'
      BY <1>1, <1>5, <2>3, <3>2, <3>3, <3>4, <3>5 DEF Continues, pageVars
    <3> QED BY <2>4, <3>6
  <2> QED BY <2>1, <2>6, <2>7 DEF Request
<1> QED BY <1>2, <1>6, <1>7, <1>8 DEF ScrollNeverSticks

(* The page begins a load, for a new list or for more of the old one.      *)
LEMMA LoadKeeps ==
  ASSUME EventsInv, NEW s \in Slots, ResetAndSearch(s) \/ LoadMoreEvents(s)
  PROVE  EventsInv'
<1> USE DEF EventsInv
<1>1. UNCHANGED <<vars, interestVars, hasMore>> /\ loads[s] = NoLoad
  BY DEF ResetAndSearch, LoadMoreEvents, Load
<1>2. SyncInv' /\ UNCHANGED <<now, stored, billed, interest>> /\ (Spread' <=> Spread)
  BY <1>1, SyncUntouched DEF interestVars
<1>3. PICK first \in BOOLEAN :
        loads' = [loads EXCEPT ![s] =
          [phase |-> "list", isInitialLoad |-> first, query |-> active',
           offset |-> currentOffset', rows |-> <<>>, more |-> FALSE]]
  BY DEF ResetAndSearch, LoadMoreEvents, Load, EventsTypeOK
<1>4. active' \in Queries /\ currentOffset' \in Nat /\ shown' \in Seq(Events)
  <2>1. CASE ResetAndSearch(s)
    <3>1. active' \in Queries
      BY <2>1 DEF ResetAndSearch
    <3> QED BY <2>1, <3>1, Bounds DEF ResetAndSearch
  <2>2. CASE LoadMoreEvents(s)
    BY <2>2 DEF LoadMoreEvents, EventsTypeOK
  <2> QED BY <2>1, <2>2
<1>5. loads'[s] \in Answer /\ \A t \in Slots \ {s} : loads'[t] = loads[t]
  BY <1>3, <1>4, Bounds DEF EventsTypeOK, Answer
<1>6. isLoadingMore' \in BOOLEAN /\ calm' \in BOOLEAN
  BY DEF ResetAndSearch, LoadMoreEvents, EventsTypeOK, Quiet
<1>7. EventsTypeOK'
  <2>1. loads' \in [Slots -> {NoLoad} \cup Answer]
    BY <1>3, <1>5 DEF EventsTypeOK, Answer
  <2> QED
    BY <1>1, <1>2, <1>4, <1>6, <2>1 DEF EventsTypeOK, SyncInv, interestVars, Answer
<1>8. loads'[s] # NoLoad /\ ~Quiet'
  BY <1>5 DEF Quiet, Answer, NoLoad
<1>9. OneList'
  <2> SUFFICES ASSUME calm', Spread, NEW l \in Listings(active')
               PROVE  Begun(l)' /\ Continues(l, s)'
    BY <1>1, <1>2, SameListings DEF OneList
  <2>1. Quiet /\ \A t \in Slots \ {s} : loads'[t] = NoLoad
    BY <1>5 DEF ResetAndSearch, LoadMoreEvents, Quiet
  <2>2. Begun(l)' /\ (loads'[s].isInitialLoad => shown' = <<>>)
    <3>1. CASE ResetAndSearch(s)
      <4>1. l \in Seq(Events)
        BY <1>4, ListingType DEF SyncInv
      <4> QED BY <3>1, <4>1 DEF ResetAndSearch, Begun
    <3>2. CASE LoadMoreEvents(s)
      <4>1. UNCHANGED <<active, shown, currentOffset>> /\ calm /\ ~loads'[s].isInitialLoad
        BY <3>2 DEF LoadMoreEvents, Load, EventsTypeOK
      <4>2. Begun(l)
        BY <4>1 DEF OneList
      <4> QED BY <4>1, <4>2 DEF Begun
    <3> QED BY <3>1, <3>2
  <2>3. loads'[s].query = active' /\ loads'[s].offset = currentOffset' /\ loads'[s].phase = "list"
    BY <1>3 DEF EventsTypeOK
  <2> QED BY <1>8, <2>1, <2>2, <2>3 DEF Begun, Continues
<1> QED BY <1>2, <1>7, <1>8, <1>9 DEF ScrollNeverSticks

(* An answer that was awaited alone continues the list it was asked for.   *)
LEMMA ArriveKeeps ==
  ASSUME EventsInv, NEW s \in Slots, Arrive(s)
  PROVE  EventsInv'
<1> USE DEF EventsInv
<1>1. /\ UNCHANGED <<vars, interestVars, active, calm>> /\ ~isLoadingMore'
      /\ shown' = (IF loads[s].isInitialLoad THEN loads[s].rows ELSE shown \o loads[s].rows)
      /\ hasMore' = loads[s].more /\ currentOffset' = currentOffset + Len(loads[s].rows)
      /\ loads' = [loads EXCEPT ![s] = NoLoad]
  BY DEF Arrive
<1>2. SyncInv' /\ UNCHANGED <<now, stored, billed, interest>> /\ (Spread' <=> Spread)
  BY <1>1, SyncUntouched DEF interestVars
<1>3. loads[s] \in Answer /\ loads[s].phase = "answered"
  BY Loads DEF Arrive
<1>4. loads[s].rows \in Seq(Events) /\ loads[s].more \in BOOLEAN
  BY <1>3 DEF Answer
<1>5. EventsTypeOK'
  <2>1. shown' \in Seq(Events) /\ currentOffset' \in Nat
    BY <1>1, <1>4 DEF EventsTypeOK
  <2>2. loads' \in [Slots -> {NoLoad} \cup Answer]
    BY <1>1 DEF EventsTypeOK, Answer
  <2>3. hasMore' \in BOOLEAN /\ isLoadingMore' \in BOOLEAN
    BY <1>4 DEF Arrive
  <2> QED
    BY <1>1, <1>2, <2>1, <2>2, <2>3 DEF EventsTypeOK, SyncInv, interestVars, Answer
<1>6. OneList'
  <2> SUFFICES ASSUME calm, Spread, NEW l \in Listings(active)
               PROVE  Begun(l)' /\ Quiet' /\ (hasMore = (Len(shown) < Len(l)))'
    BY <1>1, <1>2, SameListings DEF OneList
  <2>1. loads[s] # NoLoad
    BY <1>3, Loads
  <2>2. Begun(l) /\ Continues(l, s)
    BY <2>1 DEF OneList, Quiet, Continues
  <2>3. Quiet'
    BY <1>1, <2>2 DEF Quiet, Continues, EventsTypeOK
  <2>4. l \in Seq(Events) /\ shown \in Seq(Events)
    BY ListingType DEF SyncInv, EventsTypeOK
  <2>5. Len(shown) \in 0..Len(l)
    BY <2>2, <2>4 DEF Begun
  <2> DEFINE o == Len(shown)
             rows == Rows(l, o)
  <2>6. loads[s].rows = rows /\ loads[s].more = (o + Limit < Len(l))
    BY <1>3, <2>2 DEF Continues
  <2>7. /\ rows \in Seq(Events) /\ SubSeq(l, 1, o) \o rows = SubSeq(l, 1, o + Len(rows))
        /\ o + Len(rows) \in 0..Len(l)
        /\ o + Limit < Len(l) <=> o + Len(rows) < Len(l)
    BY <2>4, <2>5, RowsContinue
  <2>8. shown' = shown \o rows
    BY <1>1, <2>2, <2>6, <2>7 DEF Continues
  <2> HIDE DEF rows
  <2>9. Len(shown') = o + Len(rows) /\ shown' = SubSeq(l, 1, o + Len(rows))
    <3>1. Len(shown \o rows) = o + Len(rows)
      BY <2>4, <2>7
    <3>2. shown = SubSeq(l, 1, o)
      BY <2>2 DEF Begun
    <3>3. shown \o rows = SubSeq(l, 1, o + Len(rows))
      BY <2>7, <3>2, Zenon
    <3> QED BY <2>8, <3>1, <3>3
  <2>10. currentOffset' = Len(shown') /\ Len(shown') <= Len(l)
    BY <1>1, <2>2, <2>4, <2>6, <2>7, <2>9 DEF Begun
  <2>11. hasMore' = (Len(shown') < Len(l))
    BY <1>1, <2>6, <2>7, <2>9
  <2> QED BY <2>3, <2>9, <2>10, <2>11 DEF Begun
<1> QED BY <1>1, <1>2, <1>5, <1>6 DEF ScrollNeverSticks

LEMMA EventsInitial == EventsInit => EventsInv
<1> SUFFICES ASSUME EventsInit PROVE EventsInv
  OBVIOUS
<1>1. SyncInv
  BY SyncInitial DEF EventsInit
<1>2. active \in Queries
  BY PageAssumption DEF EventsInit, BrowserInit
<1>3. EventsTypeOK
  BY <1>1, <1>2, Bounds DEF EventsInit, BrowserInit, EventsTypeOK, SyncInv
<1> QED
  BY <1>1, <1>3 DEF EventsInit, BrowserInit, EventsInv, ScrollNeverSticks, OneList

LEMMA EventsStutters ==
  ASSUME EventsInv, UNCHANGED eventsVars
  PROVE  EventsInv'
<1> USE DEF EventsInv, eventsVars, interestVars, browserVars, pageVars
<1>1. SyncInv' /\ UNCHANGED <<now, stored, billed, interest>> /\ (Spread' <=> Spread)
  BY SyncUntouched
<1>2. EventsTypeOK' /\ ScrollNeverSticks'
  BY <1>1 DEF EventsTypeOK, SyncInv, ScrollNeverSticks, Quiet
<1>3. OneList'
  BY <1>1, SameListings DEF OneList, Begun, Continues, Quiet
<1> QED BY <1>1, <1>2, <1>3

LEMMA PagePreserved == EventsInv /\ [PageNext]_eventsVars => EventsInv'
  BY EventsStutters, SyncStepKeeps, InterestKeeps, RequestKeeps, LoadKeeps, ArriveKeeps
  DEF PageNext, Browse

(* The bounded composition takes steps of the whole one, and TablesMove.   *)
LEMMA EventsPreserved == EventsInv /\ [EventsNext]_eventsVars => EventsInv'
<1> SUFFICES ASSUME EventsInv, EventsNext
             PROVE  EventsInv'
  BY EventsStutters
<1>1. CASE Next /\ BrowserInit /\ interest = {} /\ UNCHANGED <<interestVars, browserVars>>
  <2>1. SyncStep
    BY <1>1 DEF SyncStep, Cascade, BrowserInit, interestVars, browserVars
  <2> QED BY <2>1, SyncStepKeeps
<1>2. CASE pc = "boot" /\ TablesMove
  BY <1>2, TablesMoveKeeps
<1>3. CASE PageNext
  BY <1>3, PagePreserved
<1> QED BY <1>1, <1>2, <1>3 DEF EventsNext, PageNext

(* The list shows what it should, from the invariant of the list.          *)
LEMMA ListFollows == EventsInv => EventsTypeOK /\ CycleCoversWindow /\ ListIsWhole /\ ScrollNeverSticks
<1> SUFFICES ASSUME EventsInv
             PROVE  ListIsWhole
  BY DEF EventsInv, SyncInv
<1> SUFFICES ASSUME Quiet, calm, NEW l \in Listings(active), Spread
             PROVE  IsPrefix(shown, l) /\ hasMore = (Len(shown) < Len(l))
  BY DEF ListIsWhole, Spread
<1>1. Begun(l) /\ hasMore = (Len(shown) < Len(l))
  BY DEF EventsInv, OneList, Quiet, Continues
<1>2. shown \in Seq(Events)
  BY DEF EventsInv, EventsTypeOK
<1> QED BY <1>1, <1>2 DEF Begun, IsPrefix

(* The types of tables, page and loads, for the whole composition.         *)
THEOREM PageTypes == PageSpec => []EventsTypeOK
  BY EventsInitial, PagePreserved, ListFollows, PTL DEF PageSpec

(* However the sync, the users' interests and overlapping loads interleave, *)
(* a list that was filled undisturbed is a beginning of what the query      *)
(* matches, for any page size and any queries.                              *)
THEOREM UndisturbedListIsWhole == PageSpec => []ListIsWhole
  BY EventsInitial, PagePreserved, ListFollows, PTL DEF PageSpec

(* When no load is under way, the page can load again. *)
THEOREM PageCanScroll == PageSpec => []ScrollNeverSticks
  BY EventsInitial, PagePreserved, ListFollows, PTL DEF PageSpec

(* A page that is open, and the rows users write, cost a cycle no event.   *)
THEOREM CycleIsCompleteBesidePage == PageSpec => []CycleCoversWindow
  BY EventsInitial, PagePreserved, ListFollows, PTL DEF PageSpec

(* The bounded composition that is model-checked has them all, too.        *)
THEOREM BoundedPage ==
  EventsSpec => [](EventsTypeOK /\ CycleCoversWindow /\ ListIsWhole /\ ScrollNeverSticks)
  BY EventsInitial, EventsPreserved, ListFollows, PTL DEF EventsSpec
=============================================================================

-------------------------- MODULE IngestionProofs --------------------------
(***************************************************************************)
(* Proofs about Ingestion, for any number of jobs, ranges and ranks, and   *)
(* for both tables.  Every step is a step of SpotifySync or leaves its     *)
(* variables alone, so what was proved of it carries over.  The current    *)
(* list is whole because a row's list and its stamp are written together   *)
(* (Stamped), and because, as long as lists are stored in the order of     *)
(* their stamps, the last one stored is younger than every row that it     *)
(* leaves behind (LastIsYoungest).                                         *)
(***************************************************************************)
EXTENDS Ingestion, SpotifySyncProofs

SnapshotTypeOK ==
  /\ clock \in Nat
  /\ stamp \in [Jobs -> Nat]
  /\ rows \in [Kinds -> [Ranges -> [Ranks -> [list : Nat, fetched : Nat]]]]
  /\ last \in [Kinds -> [Ranges -> [list : Nat, length : 0..MaxRank]]]
  /\ inOrder \in [Kinds -> [Ranges -> BOOLEAN]]

Stamped ==
  \A k \in Kinds, r \in Ranges, i \in Ranks : rows[k][r][i].list = rows[k][r][i].fetched

Youngest(k, r) ==
  /\ last[k][r].length = 0 => last[k][r].list = 0
  /\ \A i \in Ranks :
       IF i <= last[k][r].length
         THEN rows[k][r][i].fetched = last[k][r].list /\ 0 < last[k][r].list
         ELSE rows[k][r][i].fetched = 0 \/ rows[k][r][i].fetched < last[k][r].list

LastIsYoungest == \A k \in Kinds, r \in Ranges : inOrder[k][r] => Youngest(k, r)

SnapshotInv == SnapshotTypeOK /\ Stamped /\ LastIsYoungest

-----------------------------------------------------------------------------
(* A behaviour of Ingestion is one of SpotifySync. *)
THEOREM IngestionIsSync == IngestionSpec => Spec
<1>1. IngestionInit => Init
  BY DEF IngestionInit
<1>2. ASSUME [IngestionNext]_ingestionVars PROVE [Next]_vars
  <2>1. CASE Requests
    BY <2>1 DEF Requests, Next
  <2>2. ASSUME NEW w \in Jobs, Ingest(w) PROVE Next
    BY <2>2 DEF Ingest, runJob, Next
  <2>3. CASE UNCHANGED ingestionVars
    BY <2>3 DEF ingestionVars
  <2> QED BY <1>2, <2>1, <2>2, <2>3 DEF IngestionNext
<1> QED BY <1>1, <1>2, PTL DEF IngestionSpec, Spec

(* What the handlers and workers guarantee does not depend on what the     *)
(* workers find in the database.                                           *)
THEOREM SyncCarriesOver ==
  IngestionSpec => [](TypeOK /\ RunningHasWorker /\ CompleteIsFull
                       /\ AcceptedSyncHasTokens /\ IngestionNeedsGrant)
  BY IngestionIsSync, TypeCorrect, NoOrphanedJob, CompleteStaysFull, AcceptedGetsTokens,
     GrantBeforeData, PTL

-----------------------------------------------------------------------------
(* The empty tables satisfy the invariant. *)
LEMMA SnapshotInitInv == IngestionInit => SnapshotInv
<1> SUFFICES ASSUME IngestionInit PROVE SnapshotInv
  OBVIOUS
<1>1. MaxRank \in Nat /\ Ranks = 1..MaxRank
  BY RankAssumption DEF Ranks
<1>2. SnapshotTypeOK
  BY <1>1 DEF IngestionInit, SnapshotTypeOK
<1>3. Stamped /\ LastIsYoungest
  BY <1>1 DEF IngestionInit, Stamped, LastIsYoungest, Youngest
<1> QED BY <1>2, <1>3 DEF SnapshotInv

(* A store writes a prefix of the ranks with one stamp, which is younger   *)
(* than the last one's if the order is still kept.                         *)
LEMMA StoreKeepsInv ==
  ASSUME SnapshotInv, TypeOK, NEW w \in Jobs, NEW k \in {"artists", "tracks"},
         StoreBatch(w, k), UNCHANGED <<clock, stamp>>
  PROVE  SnapshotInv'
<1> DEFINE r == rng[w]
           t == stamp[w]
<1>1. r \in Ranges /\ t \in Nat /\ MaxRank \in Nat /\ Ranks = 1..MaxRank
  BY RankAssumption DEF TypeOK, SnapshotInv, SnapshotTypeOK, Ranks
<1>2. CASE UNCHANGED snapshotVars
  BY <1>2 DEF snapshotVars, SnapshotInv, SnapshotTypeOK, Stamped, LastIsYoungest, Youngest
<1>3. ASSUME NEW n \in Ranks, k \in Kinds,
             rows' = [rows EXCEPT ![k][r] =
                       [i \in Ranks |-> IF i <= n THEN UpsertRow(rows[k][r][i], t)
                                                  ELSE rows[k][r][i]]],
             last' = [last EXCEPT ![k][r] = [list |-> t, length |-> n]],
             inOrder' = [inOrder EXCEPT ![k][r] = @ /\ last[k][r].list < t]
      PROVE  SnapshotInv'
  <2> HIDE DEF r, t
  <2>1. \A i \in Ranks :
          rows'[k][r][i] = IF i <= n THEN [list |-> t, fetched |-> t] ELSE rows[k][r][i]
    BY <1>1, <1>3 DEF UpsertRow, SnapshotInv, SnapshotTypeOK
  <2>2. last'[k][r] = [list |-> t, length |-> n]
    BY <1>1, <1>3 DEF SnapshotInv, SnapshotTypeOK
  <2>3. inOrder'[k][r] => inOrder[k][r] /\ last[k][r].list < t
    BY <1>1, <1>3 DEF SnapshotInv, SnapshotTypeOK
  <2>4. ASSUME NEW j \in Kinds, NEW q \in Ranges, j # k \/ q # r
        PROVE  rows'[j][q] = rows[j][q] /\ last'[j][q] = last[j][q] /\ inOrder'[j][q] = inOrder[j][q]
    BY <1>1, <1>3, <2>4 DEF SnapshotInv, SnapshotTypeOK
  <2>5. SnapshotTypeOK'
    <3>1. rows' \in [Kinds -> [Ranges -> [Ranks -> [list : Nat, fetched : Nat]]]]
      <4> DEFINE List == [i \in Ranks |-> IF i <= n THEN UpsertRow(rows[k][r][i], t)
                                                    ELSE rows[k][r][i]]
      <4>1. rows \in [Kinds -> [Ranges -> [Ranks -> [list : Nat, fetched : Nat]]]]
        BY DEF SnapshotInv, SnapshotTypeOK
      <4>2. rows[k][r] \in [Ranks -> [list : Nat, fetched : Nat]]
        BY <1>1, <1>3, <4>1
      <4>3. List \in [Ranks -> [list : Nat, fetched : Nat]]
        BY <1>1, <4>2 DEF UpsertRow
      <4>4. rows' = [rows EXCEPT ![k][r] = List]
        BY <1>3
      <4> HIDE DEF List
      <4> QED BY <1>1, <1>3, <4>1, <4>3, <4>4
    <3>2. last' \in [Kinds -> [Ranges -> [list : Nat, length : 0..MaxRank]]]
      BY <1>1, <1>3 DEF SnapshotInv, SnapshotTypeOK
    <3>3. inOrder' \in [Kinds -> [Ranges -> BOOLEAN]]
      BY <1>1, <1>3 DEF SnapshotInv, SnapshotTypeOK
    <3> QED BY <3>1, <3>2, <3>3 DEF SnapshotInv, SnapshotTypeOK
  <2>6. Stamped'
    <3> SUFFICES ASSUME NEW j \in Kinds, NEW q \in Ranges, NEW i \in Ranks
                 PROVE  rows'[j][q][i].list = rows'[j][q][i].fetched
      BY DEF Stamped
    <3>1. CASE j = k /\ q = r
      BY <1>1, <2>1, <3>1 DEF SnapshotInv, Stamped
    <3>2. CASE j # k \/ q # r
      BY <2>4, <3>2 DEF SnapshotInv, Stamped
    <3> QED BY <3>1, <3>2
  <2>7. LastIsYoungest'
    <3> SUFFICES ASSUME NEW j \in Kinds, NEW q \in Ranges, inOrder'[j][q]
                 PROVE  Youngest(j, q)'
      BY DEF LastIsYoungest
    <3>1. CASE j = k /\ q = r
      <4>1. Youngest(k, r) /\ last[k][r].list < t
        BY <1>1, <1>3, <2>3, <3>1 DEF SnapshotInv, LastIsYoungest
      <4>2. /\ last[k][r].list \in Nat
            /\ \A i \in Ranks : rows[k][r][i].fetched \in Nat
        <5>1. last[k][r] \in [list : Nat, length : 0..MaxRank]
          BY <1>1, <1>3 DEF SnapshotInv, SnapshotTypeOK
        <5>2. \A i \in Ranks : rows[k][r][i] \in [list : Nat, fetched : Nat]
          BY <1>1, <1>3 DEF SnapshotInv, SnapshotTypeOK
        <5> QED BY <5>1, <5>2
      <4>3. ASSUME NEW i \in Ranks
            PROVE  IF i <= n THEN rows'[k][r][i].fetched = t /\ 0 < t
                             ELSE rows'[k][r][i].fetched = 0 \/ rows'[k][r][i].fetched < t
        BY <1>1, <2>1, <4>1, <4>2 DEF Youngest
      <4>4. last'[k][r].list = t /\ last'[k][r].length = n
        BY <2>2
      <4>5. n # 0
        BY <1>1
      <4> QED BY <3>1, <4>3, <4>4, <4>5, <2>2 DEF Youngest
    <3>2. CASE j # k \/ q # r
      BY <2>4, <3>2 DEF SnapshotInv, LastIsYoungest, Youngest
    <3> QED BY <3>1, <3>2
  <2> QED BY <2>5, <2>6, <2>7 DEF SnapshotInv
<1> QED BY <1>2, <1>3 DEF StoreBatch

(* The other steps leave the tables alone. *)
LEMMA StampKeepsInv ==
  ASSUME SnapshotInv, UNCHANGED snapshotVars,
         UNCHANGED <<clock, stamp>> \/ \E w \in Jobs : Stamp(w)
  PROVE  SnapshotInv'
<1>1. clock' \in Nat /\ stamp' \in [Jobs -> Nat]
  BY DEF Stamp, SnapshotInv, SnapshotTypeOK
<1> QED
  BY <1>1 DEF snapshotVars, SnapshotInv, SnapshotTypeOK, Stamped, LastIsYoungest, Youngest

(* The invariant holds in every behaviour. *)
THEOREM SnapshotInvariance == IngestionSpec => []SnapshotInv
<1>1. SnapshotInv /\ TypeOK /\ [IngestionNext]_ingestionVars => SnapshotInv'
  <2> SUFFICES ASSUME SnapshotInv, TypeOK, [IngestionNext]_ingestionVars PROVE SnapshotInv'
    OBVIOUS
  <2>1. CASE Requests
    BY <2>1, StampKeepsInv DEF Requests
  <2>2. ASSUME NEW w \in Jobs, Ingest(w) PROVE SnapshotInv'
    BY <2>2, StampKeepsInv, StoreKeepsInv DEF Ingest
  <2>3. CASE UNCHANGED ingestionVars
    BY <2>3, StampKeepsInv DEF ingestionVars
  <2> QED BY <2>1, <2>2, <2>3 DEF IngestionNext
<1> QED BY SnapshotInitInv, <1>1, SyncCarriesOver, PTL DEF IngestionSpec

(* The views never show a mixture of two syncs, and while lists are stored *)
(* in the order of their stamps they show the whole of the last one.       *)
THEOREM ViewsShowOneList == IngestionSpec => []CurrentIsOneList
<1>1. SnapshotInv => CurrentIsOneList
  <2> SUFFICES ASSUME SnapshotInv, NEW k \in Kinds, NEW r \in Ranges
               PROVE  /\ \A i, j \in Current(k, r) : rows[k][r][i].list = rows[k][r][j].list
                      /\ inOrder[k][r] =>
                           /\ Current(k, r) = 1..last[k][r].length
                           /\ \A i \in Current(k, r) : rows[k][r][i].list = last[k][r].list
    BY DEF CurrentIsOneList
  <2>1. /\ MaxRank \in Nat /\ Ranks = 1..MaxRank
        /\ \A i \in Ranks : rows[k][r][i].fetched \in Nat
                            /\ rows[k][r][i].list = rows[k][r][i].fetched
        /\ last[k][r].list \in Nat /\ last[k][r].length \in 0..MaxRank
    BY RankAssumption DEF Ranks, SnapshotInv, SnapshotTypeOK, Stamped
  <2>2. \A i, j \in Current(k, r) : rows[k][r][i].list = rows[k][r][j].list
    BY <2>1 DEF Current
  <2>3. ASSUME inOrder[k][r]
        PROVE  /\ Current(k, r) = 1..last[k][r].length
               /\ \A i \in Current(k, r) : rows[k][r][i].list = last[k][r].list
    <3>1. Youngest(k, r)
      BY <2>3 DEF SnapshotInv, LastIsYoungest
    <3>2. ASSUME NEW i \in 1..last[k][r].length
          PROVE  i \in Current(k, r) /\ rows[k][r][i].list = last[k][r].list
      BY <2>1, <3>1 DEF Current, Youngest
    <3>3. ASSUME NEW i \in Current(k, r) PROVE i \in 1..last[k][r].length
      <4> SUFFICES ASSUME i \in Ranks, ~(i <= last[k][r].length) PROVE FALSE
        BY <2>1 DEF Current
      <4>1. 0 < rows[k][r][i].fetched /\ rows[k][r][i].fetched < last[k][r].list
        BY <2>1, <3>1 DEF Current, Youngest
      <4>2. last[k][r].length # 0
        BY <2>1, <3>1, <4>1 DEF Youngest
      <4>3. rows[k][r][1].fetched = last[k][r].list /\ 1 \in Ranks
        BY <2>1, <3>1, <4>2 DEF Youngest
      <4>4. rows[k][r][1].fetched <= rows[k][r][i].fetched
        BY <4>3 DEF Current
      <4> QED BY <2>1, <4>1, <4>3, <4>4
    <3> QED BY <3>2, <3>3
  <2> QED BY <2>2, <2>3
<1> QED BY <1>1, SnapshotInvariance, PTL
=============================================================================

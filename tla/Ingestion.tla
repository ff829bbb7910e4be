----------------------------- MODULE Ingestion -----------------------------
(***************************************************************************)
(* What the workers of SpotifySync leave in the database: the snapshot     *)
(* tables of top artists and tracks (StoreSpotifyTopArtists, StoreSpotify- *)
(* TopTracks in backend/business/database.go), one row per user, range and *)
(* rank, and the views v_current_spotify_top_* that the rest of the system *)
(* reads: the rows with the greatest fetched_at.                           *)
(*                                                                         *)
(* A list is known by the stamp fetchedAt that its worker gave it.         *)
(***************************************************************************)
EXTENDS SpotifySync

CONSTANTS
  Kinds,        \* bound: which of the tables, artists and tracks, are watched
  MaxRank       \* bound: items of a list

ASSUME RankAssumption == Kinds \subseteq {"artists", "tracks"} /\ MaxRank \in Nat \ {0}

VARIABLES
  clock,     \* time.Now(), which advances whenever it is read
  stamp,     \* fetchedAt of a worker's present range; 0: none yet
  rows,      \* the tables: list and fetched_at of each rank, 0: no row
  last,      \* history: the list stored last, and its length
  inOrder    \* history: no list was stored after a younger one

snapshotVars == <<rows, last, inOrder>>
ingestionVars == <<vars, clock, stamp, snapshotVars>>

Ranks == 1..MaxRank

IngestionInit ==
  /\ Init
  /\ clock = 0
  /\ stamp = [w \in Jobs |-> 0]
  /\ rows = [k \in Kinds |-> [r \in Ranges |-> [i \in Ranks |-> [list |-> 0, fetched |-> 0]]]]
  /\ last = [k \in Kinds |-> [r \in Ranges |-> [list |-> 0, length |-> 0]]]
  /\ inOrder = [k \in Kinds |-> [r \in Ranges |-> TRUE]]

-----------------------------------------------------------------------------
\* Mutant: ON CONFLICT DO UPDATE leaves fetched_at as it was.
UpsertRowKeepsFetched(row, list) ==
  [list |-> list, fetched |-> IF row.fetched = 0 THEN list ELSE row.fetched]

UpsertRow(row, list) == [list |-> list, fetched |-> list]

(* A batch outside a transaction is one: all its rows or none.  An empty   *)
(* list writes nothing, and what is stored stays.                          *)
StoreBatch(w, k) ==
  LET r == rng[w]
      Upserted(n) == [i \in Ranks |-> IF i <= n THEN UpsertRow(rows[k][r][i], stamp[w])
                                                ELSE rows[k][r][i]]
  IN  \/ \E n \in Ranks :
           /\ ready' /\ k \in Kinds
           /\ rows' = [rows EXCEPT ![k][r] = Upserted(n)]
           /\ last' = [last EXCEPT ![k][r] = [list |-> stamp[w], length |-> n]]
           /\ inOrder' = [inOrder EXCEPT ![k][r] = @ /\ last[k][r].list < stamp[w]]
      \/ (ready' = ready \/ k \notin Kinds) /\ UNCHANGED snapshotVars

(* fetchedAt := time.Now(), read with the user's ID. *)
Stamp(w) ==
  IF token
  THEN /\ clock' = clock + 1
       /\ stamp' = [stamp EXCEPT ![w] = clock']
  ELSE UNCHANGED <<clock, stamp>>

(* runJob, with what it stores. *)
Ingest(w) ==
  \/ /\ PollCancelled(w) \/ PollToken(w) \/ PollAgain(w) \/ Timeout(w) \/ Fetch(w)
        \/ ReportRange(w) \/ Finalize(w)
     /\ UNCHANGED <<clock, stamp, snapshotVars>>
  \/ ReadUser(w) /\ Stamp(w) /\ UNCHANGED snapshotVars
  \/ StoreArtists(w) /\ StoreBatch(w, "artists") /\ UNCHANGED <<clock, stamp>>
  \/ StoreTracks(w) /\ StoreBatch(w, "tracks") /\ UNCHANGED <<clock, stamp>>

Requests ==
  /\ \/ \E h \in Handlers : SyncSpotify(h) \/ RetrySpotifySync(h)
     \/ CancelSync
     \/ CooldownOver
  /\ UNCHANGED <<clock, stamp, snapshotVars>>

IngestionNext == Requests \/ \E w \in Jobs : Ingest(w)

IngestionSpec ==
  /\ IngestionInit /\ [][IngestionNext]_ingestionVars
  /\ \A w \in Jobs : WF_ingestionVars(Ingest(w))

-----------------------------------------------------------------------------
(* v_current_spotify_top_artists and v_current_spotify_top_tracks: the     *)
(* rows than which none was fetched later.                                 *)
Current(k, r) ==
  {i \in Ranks : /\ rows[k][r][i].list # 0
                 /\ \A j \in Ranks : rows[k][r][j].fetched <= rows[k][r][i].fetched}

(* The current items are never a mixture of two syncs, although a shorter  *)
(* list leaves rows of a longer one behind and two workers may store for   *)
(* one user; and as long as lists are stored in the order of their stamps  *)
(* they are the whole of the last one.                                     *)
CurrentIsOneList ==
  \A k \in Kinds, r \in Ranges :
    /\ \A i, j \in Current(k, r) : rows[k][r][i].list = rows[k][r][j].list
    /\ inOrder[k][r] =>
         /\ Current(k, r) = 1..last[k][r].length
         /\ \A i \in Current(k, r) : rows[k][r][i].list = last[k][r].list
=============================================================================

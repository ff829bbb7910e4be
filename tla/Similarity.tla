----------------------------- MODULE Similarity -----------------------------
(***************************************************************************)
(* What an answer of FindMusicMatches holds: the similarity queries        *)
(* (backend/db/sqlc/queries.sql.go; one text for artists and one for       *)
(* tracks, each with and without a name filter) and the scores and the     *)
(* order that backend/business/matching_service.go makes of their rows.    *)
(*                                                                         *)
(* The current list of a user is a sequence of items, best first; an item  *)
(* may appear twice, since rows are unique per rank.  Users are numbered   *)
(* by created_at.  Weights are multiples of 1/Unit, so all of them are     *)
(* integers; a score is a pair <<numerator, denominator>>.                 *)
(***************************************************************************)
EXTENDS Integers, FiniteSetsExt, SequencesExt, Ordering

CONSTANTS
  People,   \* users, in the order in which their accounts were made
  Items,    \* artists, or tracks
  MaxLen,   \* bound: items in a list
  TopN,     \* cfg.Matching.ArtistTopN or TrackTopN
  NameOf    \* where a user's full name stands in the order of names

ASSUME SimilarityAssumption ==
  /\ People \subseteq Nat /\ IsFiniteSet(People)
  /\ MaxLen \in Nat /\ TopN \in Nat \ {0}
  /\ NameOf \in [People -> Nat]

VARIABLE lists  \* the current list of a user in one range

Lists == BoundedSeq(Items, MaxLen)

Unit == ProductSet(1..(2 * TopN))

Ranks(list) == {i \in DOMAIN list : i <= TopN}

(* The join of anchor and others: the pairs of ranks of a shared item. *)
Overlap(a, o) == {p \in Ranks(a) \X Ranks(o) : a[p[1]] = o[p[2]]}

Weight(p) == Unit \div (p[1] + p[2])

similarity(a, o) == MapThenSumSet(Weight, Overlap(a, o))

\* Mutant: the overlaps are ordered by the anchor's ranks alone.
BetterForAnchor(p, q) ==
  p[1] < q[1] \/ (p[1] = q[1] /\ p[2] < q[2])

(* ORDER BY (anchor_rank + other_rank), anchor_rank, other_rank. *)
BetterOverlap(p, q) ==
  \/ p[1] + p[2] < q[1] + q[2]
  \/ (p[1] + p[2] = q[1] + q[2] /\ p[1] < q[1])

(* The overlaps that are returned: the first ovLimit, or all if it is 0.   *)
overlaps(a, o, ovLimit) ==
  LET all == Overlap(a, o)
      Better(p) == {q \in all : BetterOverlap(q, p)}
  IN  {p \in all : ovLimit = 0 \/ Cardinality(Better(p)) < ovLimit}

\* Mutant: the ceiling of an overlap is that of the anchor's rank.
BestOfAnchor(p) == p[1]

(* The smaller of the two ranks. *)
best(p) == IF p[2] < p[1] THEN p[2] ELSE p[1]

maxPossible(a, o) ==
  LET Ceiling(p) == Unit \div (2 * best(p))
  IN  MapThenSumSet(Ceiling, Overlap(a, o))

(* Before the clamp. *)
norm(a, o) == <<similarity(a, o), maxPossible(a, o)>>

Less(x, y) == x[1] * y[2] < y[1] * x[2]

-----------------------------------------------------------------------------
SimilarityInit == lists = [u \in People |-> <<>>]

(* A sync of the user has stored a snapshot, the views show its rows.  The *)
(* lists only ever differ by whole snapshots of one user.                  *)
StoreList(u, list) == lists' = [lists EXCEPT ![u] = list]

SimilarityNext == \E u \in People, list \in Lists : StoreList(u, list)

-----------------------------------------------------------------------------
FirstOf(n, s) == SubSeq(s, 1, Min({n, Len(s)}))

Similarities(u) == [v \in People |-> similarity(lists[u], lists[v])]

(* The rows of a query: ORDER BY similarity DESC, created_at ASC. *)
MoreSimilar(sim) ==
  {p \in People \X People : \/ sim[p[1]] > sim[p[2]]
                           \/ (sim[p[1]] = sim[p[2]] /\ p[1] < p[2])}

BySimilarity(S, sim) == InOrder({v \in S : sim[v] > 0}, MoreSimilar(sim))

(* The first n rows; matching: the users whose name contains the filter,   *)
(* People without one.                                                     *)
FindSimilarUsers(u, n, matching) ==
  FirstOf(n, BySimilarity(matching \ {u}, Similarities(u)))

\* Mutant: rows of the same score are left in the order of the query.
SortByScore(rows, score, count) ==
  LET Higher(v, w) == Less(score[w], score[v])
      order == InOrder(DOMAIN rows,
                       {p \in (DOMAIN rows) \X (DOMAIN rows) :
                          \/ Higher(rows[p[1]], rows[p[2]])
                          \/ ~Higher(rows[p[2]], rows[p[1]]) /\ p[1] < p[2]})
  IN  [i \in DOMAIN rows |-> rows[order[i]]]

(* sort.SliceStable, by score, number of overlaps and name. *)
SortMatches(rows, score, count) ==
  LET Higher(v, w) == Less(score[w], score[v])
      Precedes(i, k) ==
        LET v == rows[i]
            w == rows[k]
        IN  \/ Higher(v, w)
            \/ /\ ~Higher(w, v)
               /\ \/ count[v] > count[w]
                  \/ count[v] = count[w] /\ NameOf[v] < NameOf[w]
                  \/ count[v] = count[w] /\ NameOf[v] = NameOf[w] /\ i < k
      order == InOrder(DOMAIN rows,
                       {p \in (DOMAIN rows) \X (DOMAIN rows) : Precedes(p[1], p[2])})
  IN  [i \in DOMAIN rows |-> rows[order[i]]]

Scores(u) == [v \in People |-> norm(lists[u], lists[v])]

OverlapCounts(u) == [v \in People |-> Cardinality(Overlap(lists[u], lists[v]))]

FindMatches(u, n, matching) ==
  SortMatches(FindSimilarUsers(u, n, matching), Scores(u), OverlapCounts(u))

-----------------------------------------------------------------------------
(* docs/music_matching.md:65 and the comment on line 264, of the exact     *)
(* score (the code's floats may leave it by their rounding, which is what  *)
(* its clamp to 0..1 is for): it never exceeds 1, it is 1 exactly when     *)
(* every shared item has the same rank in both lists, and two users see    *)
(* the same score of each other.  Not so for the anchor-based ceiling that *)
(* the comment says it replaced.                                           *)
ScoresAreFair ==
  \A u, v \in People :
    LET a == lists[u]
        o == lists[v]
    IN  similarity(a, o) > 0 =>
          /\ similarity(a, o) <= maxPossible(a, o)
          /\ similarity(a, o) = maxPossible(a, o) <=> \A p \in Overlap(a, o) : p[1] = p[2]
          /\ norm(a, o) = norm(o, a)

(* What is shown, k items at most, of what the lists a and o share. *)
BestShown(a, o, k) ==
  LET shown == overlaps(a, o, k)
      cut == Overlap(a, o) \ shown
      mirrored == {<<p[2], p[1]>> : p \in overlaps(o, a, k)}
  IN  /\ cut # {} => Cardinality(shown) = k
      /\ \A p \in shown, q \in cut : p[1] + p[2] <= q[1] + q[2]
      /\ (\A p \in shown, q \in cut : p[1] + p[2] # q[1] + q[2]) => shown = mirrored

(* docs/music_matching.md:38: the list of overlaps is truncated after it   *)
(* was ordered: what is cut off of a match is never closer to the top of   *)
(* both lists than what is shown, and the two users are shown the same     *)
(* items, unless two of them are equally close.                            *)
TruncationKeepsBest ==
  \A u, v \in {w \in People : lists[w] # <<>>}, k \in 1..2 :
    BestShown(lists[u], lists[v], k)

(* v may come before w: by score, then overlap, then name. *)
InTurn(v, w, score, count) ==
  /\ ~Less(score[v], score[w])
  /\ ~Less(score[w], score[v]) =>
       /\ count[v] >= count[w]
       /\ count[v] = count[w] => NameOf[v] <= NameOf[w]

(* What an answer to u has to be. *)
Promised(u, n, matching, found) ==
  LET sim == Similarities(u)
      left == {v \in matching \ {u} : sim[v] > 0} \ ToSet(found)
  IN  /\ ToSet(found) \subseteq matching \ {u}
      /\ left # {} => Len(found) = n
      /\ \A v \in ToSet(found), w \in left : sim[v] >= sim[w]
      /\ LET score == Scores(u)
             count == OverlapCounts(u)
         IN  \A i \in 2..Len(found) : InTurn(found[i - 1], found[i], score, count)

(* openapi.yaml:669-675: results are sorted by score, then overlap, then   *)
(* name, and with a filter they are restricted to the users whose name     *)
(* matches, regardless of their similarity rank.  (Lines 661-667 speak of  *)
(* a limit and a score that the code does not have.)  Every such user with *)
(* something in common is in the answer as long as it has room, and nobody *)
(* in it is less similar than one it left out; yet SQL cuts by similarity  *)
(* and Go sorts by score.  The asker may be among those that match.        *)
AnswersAsPromised ==
  \A u \in {w \in People : lists[w] # <<>>}, n \in 1..2 :
    \A matching \in {People} \cup SUBSET (People \ {u}) :
      Promised(u, n, matching, FindMatches(u, n, matching))
=============================================================================

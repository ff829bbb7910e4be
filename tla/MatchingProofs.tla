--------------------------- MODULE MatchingProofs ---------------------------
(***************************************************************************)
(* Proofs about the matching service: first its cache, then what the       *)
(* answers hold, then both together.                                       *)
(*                                                                         *)
(* The cache, for any number of users, requests and questions, any         *)
(* lifetime and any bound on the clock.  The inductive invariant says of   *)
(* every entry that it lies under the key of the question it answers and   *)
(* expires at most TTL and one slow query after its data was read          *)
(* (EntriesFit), and of every request that it is within the time it may    *)
(* take (Underway).                                                        *)
(*                                                                         *)
(* The answers, for any users, any lists of any length and any TopN.  That *)
(* lists are sequences of items is all the invariant they need: the rest   *)
(* are facts about the scores, which are sums over the shared items, and   *)
(* about the orders of rows and overlaps.                                  *)
(***************************************************************************)
EXTENDS Matching, DataProofs, SequenceTheorems

Question == [user : Users, basis : {"artists", "tracks"}, rng : STRING,
             limit : Int, overlaps : Int, filter : STRING]

EntriesFit ==
  \A k \in DOMAIN data :
    /\ cacheKey(data[k].matches.to) = k
    /\ data[k].matches.readAt <= now
    /\ data[k].expires <= data[k].matches.readAt + QueryTime + TTL

Underway ==
  \A r \in Requests :
    /\ pc[r] # "idle" => asked[r] \in Questions
    /\ pc[r] = "set" => /\ answer[r] \in Answers /\ answer[r].to = asked[r]
                        /\ answer[r].readAt <= now
                        /\ now - answer[r].readAt <= QueryTime

Inv == TypeOK /\ EntriesFit /\ Underway /\ AnswersItsQuestion /\ AgeBounded

-----------------------------------------------------------------------------
(* Defaults and limits leave a question a question. *)
LEMMA NormalType == \A q \in Asked : Normal(q) \in Question
<1> TAKE q \in Asked
<1>1. q \in Question
  BY CacheAssumption DEF Question
<1> DEFINE rng == IF q.rng \in AllowedRanges THEN q.rng ELSE DefaultRange
           limit == AtMost(IF q.limit <= 0 THEN DefaultLimit ELSE q.limit, MaxLimit)
           shared == AtMost(IF q.overlaps < 0 THEN 0 ELSE q.overlaps, MaxOverlaps)
<1>2. rng \in STRING
  BY <1>1, CacheAssumption DEF Question
<1>3. limit \in Int /\ shared \in Int
  BY <1>1, CacheAssumption DEF Question, AtMost
<1>4. Normal(q) = [q EXCEPT !.rng = rng, !.limit = limit, !.overlaps = shared]
  BY DEF Normal
<1> HIDE DEF rng, limit, shared
<1> QED
  BY <1>1, <1>2, <1>3, <1>4 DEF Question

(* Different questions have different keys: nothing is left out of a key. *)
LEMMA KeyInjective == \A p, q \in Questions : cacheKey(p) = cacheKey(q) => p = q
<1> SUFFICES ASSUME NEW p \in Question, NEW q \in Question, cacheKey(p) = cacheKey(q)
             PROVE  p = q
  BY NormalType DEF Questions
<1>1. /\ p.user = q.user /\ p.basis = q.basis /\ p.rng = q.rng
      /\ p.limit = q.limit /\ p.overlaps = q.overlaps /\ p.filter = q.filter
  BY DEF cacheKey
<1> QED BY <1>1 DEF Question

(* What the client is sent stays an answer, as old as its data. *)
LEMMA Aged ==
  ASSUME NEW m \in Answers, now \in 0..MaxTime, m.readAt <= now
  PROVE  LET a == [m EXCEPT !.age = now - m.readAt]
         IN  a \in Answers /\ a.to = m.to /\ a.readAt = m.readAt /\ a.age = now - m.readAt
  BY CacheAssumption DEF Answers

-----------------------------------------------------------------------------
(* The initial states satisfy the invariant. *)
LEMMA InitInv == Init => Inv
  BY CacheAssumption
  DEF Init, Inv, TypeOK, EntriesFit, Underway, AnswersItsQuestion, AgeBounded

(* A request served from the cache. *)
LEMMA HitKeepsInv ==
  ASSUME Inv, NEW r \in Requests, NEW q \in Asked, LookupHit(r, q)
  PROVE  Inv'
<1> DEFINE k == cacheKey(Normal(q))
           m == data[k].matches
<1> USE CacheAssumption
<1>1. /\ k \in DOMAIN data /\ now <= data[k].expires /\ pc[r] = "idle"
      /\ asked' = [asked EXCEPT ![r] = Normal(q)]
      /\ answer' = [answer EXCEPT ![r] = [m EXCEPT !.age = now - m.readAt]]
      /\ UNCHANGED <<now, data, pc, stores>>
  BY DEF LookupHit, Hit, Ask, Serve
<1>2. /\ m \in Answers /\ m.readAt <= now /\ now - m.readAt <= TTL + QueryTime
      /\ now \in 0..MaxTime
  BY <1>1 DEF Inv, TypeOK, EntriesFit, Answers
<1>3. m.to = Normal(q) /\ Normal(q) \in Questions
  BY <1>1, <1>2, KeyInjective DEF Inv, EntriesFit, Questions, Answers
<1>4. [m EXCEPT !.age = now - m.readAt] \in Answers
      /\ [m EXCEPT !.age = now - m.readAt].to = m.to
      /\ [m EXCEPT !.age = now - m.readAt].age = now - m.readAt
  BY <1>2, Aged
<1> HIDE DEF k, m
<1>5. TypeOK'
  BY <1>1, <1>3, <1>4 DEF Inv, TypeOK, Questions, Keys
<1>6. EntriesFit' /\ Underway'
  BY <1>1 DEF Inv, TypeOK, EntriesFit, Underway, cacheKey
<1>7. AnswersItsQuestion'
  BY <1>1, <1>3, <1>4 DEF Inv, TypeOK, AnswersItsQuestion
<1>8. AgeBounded'
  BY <1>1, <1>2, <1>4 DEF Inv, TypeOK, AgeBounded
<1> QED BY <1>5, <1>6, <1>7, <1>8 DEF Inv

(* A request that is on its own: a miss, a query that works or fails. *)
LEMMA QueryKeepsInv ==
  ASSUME Inv, NEW r \in Requests,
         (\E q \in Asked : LookupMiss(r, q)) \/ QueryOK(r) \/ QueryFails(r)
  PROVE  Inv'
<1> USE CacheAssumption
<1>1. ASSUME NEW q \in Asked, LookupMiss(r, q) PROVE Inv'
  <2>1. Normal(q) \in Questions
    BY DEF Questions
  <2> QED BY <1>1, <2>1 DEF LookupMiss, Ask, Goto, Inv, TypeOK, EntriesFit, Underway,
                 AnswersItsQuestion, AgeBounded
<1>2. CASE QueryOK(r)
  <2>1. /\ answer' = [answer EXCEPT ![r] = [to |-> asked[r], readAt |-> now, age |-> 0]]
        /\ pc' = [pc EXCEPT ![r] = "set"] /\ asked[r] \in Questions
        /\ UNCHANGED <<now, data, asked, stores>>
    BY <1>2 DEF QueryOK, Goto, Inv, Underway
  <2>2. [to |-> asked[r], readAt |-> now, age |-> 0] \in Answers
    BY <2>1 DEF Inv, TypeOK, Answers
  <2>3. TypeOK'
    BY <2>1, <2>2 DEF Inv, TypeOK
  <2>4. EntriesFit' /\ Underway'
    BY <2>1, <2>2 DEF Inv, TypeOK, EntriesFit, Underway
  <2>5. AnswersItsQuestion' /\ AgeBounded'
    BY <2>1 DEF Inv, TypeOK, AnswersItsQuestion, AgeBounded
  <2> QED BY <2>3, <2>4, <2>5 DEF Inv
<1>3. CASE QueryFails(r)
  BY <1>3 DEF QueryFails, Goto, Inv, TypeOK, EntriesFit, Underway, AnswersItsQuestion, AgeBounded
<1> QED BY <1>1, <1>2, <1>3

(* An answer is stored and served. *)
LEMMA SetKeepsInv ==
  ASSUME Inv, NEW r \in Requests, Set(r)
  PROVE  Inv'
<1> DEFINE k == cacheKey(asked[r])
           m == answer[r]
           entry == [expires |-> now + TTL, matches |-> m]
           served == [m EXCEPT !.age = now - m.readAt]
<1> USE CacheAssumption
<1>1. /\ pc[r] = "set" /\ data' = Put(k, entry)
      /\ answer' = [answer EXCEPT ![r] = served]
      /\ pc' = [pc EXCEPT ![r] = "idle"]
      /\ UNCHANGED <<now, asked, stores>>
  BY DEF Set, Serve, Goto
<1>2. /\ m \in Answers /\ m.to = asked[r] /\ asked[r] \in Questions /\ m.readAt <= now
      /\ now - m.readAt <= QueryTime /\ m.readAt \in Nat /\ now \in 0..MaxTime
  BY <1>1 DEF Inv, Underway, TypeOK, Answers
<1>3. served \in Answers /\ served.to = m.to /\ served.age = now - m.readAt
  BY <1>2, Aged
<1>4. entry.expires = now + TTL /\ entry.matches = m /\ k \in Keys
  BY <1>2 DEF Keys
<1> HIDE DEF k, m, entry, served
<1>5. /\ DOMAIN data' = {k} \cup DOMAIN data
      /\ data'[k] = entry
      /\ \A x \in DOMAIN data : x # k => data'[x] = data[x]
  BY <1>1 DEF Put
<1>6. TypeOK'
  BY <1>1, <1>2, <1>3, <1>4, <1>5 DEF Inv, TypeOK
<1>7. EntriesFit'
  <2> SUFFICES ASSUME NEW x \in DOMAIN data'
               PROVE  /\ cacheKey(data'[x].matches.to) = x
                      /\ data'[x].matches.readAt <= now
                      /\ data'[x].expires <= data'[x].matches.readAt + QueryTime + TTL
    BY <1>1 DEF EntriesFit, cacheKey
  <2>1. CASE x = k
    BY <2>1, <1>2, <1>4, <1>5 DEF k
  <2>2. CASE x # k
    BY <2>2, <1>5 DEF Inv, EntriesFit
  <2> QED BY <2>1, <2>2
<1>8. Underway'
  BY <1>1 DEF Inv, TypeOK, Underway
<1>9. AnswersItsQuestion'
  BY <1>1, <1>2, <1>3 DEF Inv, TypeOK, AnswersItsQuestion
<1>10. AgeBounded'
  BY <1>1, <1>2, <1>3 DEF Inv, TypeOK, AgeBounded
<1> QED BY <1>6, <1>7, <1>8, <1>9, <1>10 DEF Inv

(* Entries disappear. *)
LEMMA StoreKeepsInv ==
  ASSUME Inv, NEW u \in Users, StoreSpotifyTopArtists(u)
  PROVE  Inv'
<1>1. /\ stores[u] < MaxStores /\ stores' = [stores EXCEPT ![u] = @ + 1]
      /\ UNCHANGED <<now, pc, asked, answer>>
      /\ DOMAIN data' \subseteq DOMAIN data
      /\ \A k \in DOMAIN data' : data'[k] = data[k]
  BY DEF StoreSpotifyTopArtists
<1>2. TypeOK'
  BY <1>1, CacheAssumption DEF Inv, TypeOK
<1>3. EntriesFit'
  BY <1>1 DEF Inv, EntriesFit, cacheKey
<1>4. Underway' /\ AnswersItsQuestion' /\ AgeBounded'
  BY <1>1 DEF Inv, Underway, AnswersItsQuestion, AgeBounded
<1> QED BY <1>2, <1>3, <1>4 DEF Inv

(* Time passes, but not beyond what a request may take. *)
LEMMA TickKeepsInv == ASSUME Inv, Tick PROVE Inv'
<1> USE CacheAssumption
<1>1. /\ now' = now + 1 /\ now < MaxTime /\ UNCHANGED <<data, pc, asked, answer, stores>>
      /\ \A r \in Requests : pc[r] = "set" => now - answer[r].readAt < QueryTime
  BY DEF Tick
<1>2. TypeOK'
  BY <1>1 DEF Inv, TypeOK
<1>3. EntriesFit'
  BY <1>1 DEF Inv, TypeOK, EntriesFit, cacheKey, Answers
<1>4. Underway'
  BY <1>1 DEF Inv, TypeOK, Underway, Answers
<1>5. AnswersItsQuestion' /\ AgeBounded'
  BY <1>1 DEF Inv, AnswersItsQuestion, AgeBounded
<1> QED BY <1>2, <1>3, <1>4, <1>5 DEF Inv

(* Every step keeps the invariant. *)
LEMMA InvPreserved == Inv /\ [Next]_vars => Inv'
<1> SUFFICES ASSUME Inv, [Next]_vars PROVE Inv'
  OBVIOUS
<1>1. CASE \E r \in Requests : FindMusicMatches(r)
  BY <1>1, HitKeepsInv, QueryKeepsInv, SetKeepsInv DEF FindMusicMatches
<1>2. CASE \E u \in Users : StoreSpotifyTopArtists(u)
  BY <1>2, StoreKeepsInv
<1>3. CASE Tick
  BY <1>3, TickKeepsInv
<1>4. CASE UNCHANGED vars
  BY <1>4 DEF vars, Inv, TypeOK, EntriesFit, Underway, AnswersItsQuestion, AgeBounded, cacheKey
<1> QED BY <1>1, <1>2, <1>3, <1>4 DEF Next

(* The invariant holds in every behaviour. *)
THEOREM Invariance == Spec => []Inv
  BY InitInv, InvPreserved, PTL DEF Spec

(* Clock, cache and requests keep their types. *)
THEOREM TypeCorrect == Spec => []TypeOK
  BY Invariance, PTL DEF Inv

(* An answer fits its question, from the cache or not: the key leaves out  *)
(* nothing that the answer depends on (matching_service.go:223).           *)
THEOREM NoMixUp == Spec => []AnswersItsQuestion
  BY Invariance, PTL DEF Inv

(* No client is sent data older than the lifetime of an entry and the      *)
(* longest query together, although nothing is ever invalidated.           *)
THEOREM Freshness == Spec => []AgeBounded
  BY Invariance, PTL DEF Inv

-----------------------------------------------------------------------------
(* A shared item is a pair of ranks that the queries look at. *)
LEMMA OverlapType ==
  ASSUME NEW a \in Seq(Items), NEW o \in Seq(Items)
  PROVE  /\ Overlap(a, o) \in SUBSET ((1..TopN) \X (1..TopN))
         /\ IsFiniteSet(Overlap(a, o))
<1> USE SimilarityAssumption
<1>1. Overlap(a, o) \in SUBSET ((1..TopN) \X (1..TopN))
  <2>1. \A l \in Seq(Items) : DOMAIN l = 1..Len(l) /\ Len(l) \in Nat
    OBVIOUS
  <2>2. Ranks(a) \subseteq 1..TopN /\ Ranks(o) \subseteq 1..TopN
    BY <2>1 DEF Ranks
  <2> QED BY <2>2 DEF Overlap
<1>2. IsFiniteSet((1..TopN) \X (1..TopN))
  <2>1. IsFiniteSet(1..TopN)
    BY FS_Interval
  <2> QED BY <2>1, FS_Product
<1> QED BY <1>1, <1>2, FS_Subset

(* Unit is a multiple of every sum of two ranks: weights are exact, and a  *)
(* lower place weighs less.                                                *)
LEMMA Shares ==
  ASSUME NEW m \in 1..(2 * TopN), NEW n \in 1..(2 * TopN), m <= n
  PROVE  /\ Unit \div m \in Nat \ {0}
         /\ Unit \div n \in Nat \ {0}
         /\ Unit \div n <= Unit \div m
         /\ Unit \div n = Unit \div m <=> m = n
<1> USE SimilarityAssumption
<1>1. 2 * TopN \in Nat
  OBVIOUS
<1>2. PICK j \in Nat \ {0} : Unit = m * j
  BY <1>1, ProductIsMultiple DEF Unit
<1>3. PICK k \in Nat \ {0} : Unit = n * k
  BY <1>1, ProductIsMultiple DEF Unit
<1>4. Unit \div m = j /\ Unit \div n = k
  BY <1>2, <1>3, Quotient
<1>5. m \in Nat \ {0} /\ n \in Nat \ {0}
  OBVIOUS
<1>6. CASE m = n
  BY <1>4, <1>6
<1>7. CASE m < n
  <2>1. m * k < n * k
    BY <1>5, <1>7
  <2>2. m * k < m * j
    BY <1>2, <1>3, <2>1
  <2>3. k < j
    BY <1>5, <2>2, Cancel
  <2> QED BY <1>4, <1>7, <2>3
<1> QED BY <1>4, <1>5, <1>6, <1>7

(* The summand of maxPossible. *)
Ceiling(p) == Unit \div (2 * best(p))

(* No overlap weighs more than its ceiling: only equal ranks weigh as much. *)
LEMMA WeightType ==
  ASSUME NEW p \in (1..TopN) \X (1..TopN)
  PROVE  /\ Weight(p) \in Nat \ {0} /\ Ceiling(p) \in Nat \ {0}
         /\ Weight(p) <= Ceiling(p)
         /\ Weight(p) = Ceiling(p) <=> p[1] = p[2]
<1> USE SimilarityAssumption
<1>1. p[1] \in 1..TopN /\ p[2] \in 1..TopN
  OBVIOUS
<1> DEFINE m == 2 * best(p)
           n == p[1] + p[2]
<1>2. /\ m \in 1..(2 * TopN) /\ n \in 1..(2 * TopN) /\ m <= n
      /\ m = n <=> p[1] = p[2]
  BY <1>1 DEF best
<1>3. Weight(p) = Unit \div n /\ Ceiling(p) = Unit \div m
  BY DEF Weight, Ceiling
<1> HIDE DEF m, n
<1> QED BY <1>2, <1>3, Shares

(* Both parts of a score are sums over the shared items. *)
LEMMA ScoreSums ==
  ASSUME NEW a \in Seq(Items), NEW o \in Seq(Items)
  PROVE  LET S == Overlap(a, o)
             w == [p \in S |-> Weight(p)]
             c == [p \in S |-> Ceiling(p)]
         IN  /\ \E g : SumOf(g, w, S) /\ g[S] = similarity(a, o)
             /\ \E h : SumOf(h, c, S) /\ h[S] = maxPossible(a, o)
<1> DEFINE S == Overlap(a, o)
           w == [p \in S |-> Weight(p)]
           c == [p \in S |-> Ceiling(p)]
           G == CHOOSE iter : iter = [s \in SUBSET S |->
                  IF s = {} THEN 0
                  ELSE Weight(CHOOSE x \in s : TRUE) + iter[s \ {CHOOSE x \in s : TRUE}]]
           H == CHOOSE iter : iter = [s \in SUBSET S |->
                  IF s = {} THEN 0
                  ELSE (Unit \div (2 * best(CHOOSE x \in s : TRUE)))
                         + iter[s \ {CHOOSE x \in s : TRUE}]]
<1>1. \A p \in S : Weight(p) \in Int /\ Ceiling(p) \in Int
  BY OverlapType, WeightType
<1>2. w \in [S -> Int] /\ c \in [S -> Int]
  BY <1>1
<1>3. similarity(a, o) = G[S]
  BY DEF similarity, MapThenSumSet, MapThenFoldSet
<1>4. maxPossible(a, o) = H[S]
  BY DEF maxPossible, MapThenSumSet, MapThenFoldSet
<1>5. \A s \in SUBSET S : s # {} => Pick(s) \in S
  BY Picked
<1>6. PICK g : Sums(g, w, S)
  <2> HIDE DEF w, S
  <2> QED BY <1>2, OverlapType, SumsExist DEF S
<1>7. PICK h : Sums(h, c, S)
  <2> HIDE DEF c, S
  <2> QED BY <1>2, OverlapType, SumsExist DEF S
<1>8. \A f : (f = [s \in SUBSET S |-> IF s = {} THEN 0
                     ELSE Weight(CHOOSE x \in s : TRUE) + f[s \ {CHOOSE x \in s : TRUE}]])
             <=> Sums(f, w, S)
  <2> TAKE f
  <2>1. \A s \in SUBSET S : s # {} => w[Pick(s)] = Weight(CHOOSE x \in s : TRUE)
    BY <1>5 DEF Pick
  <2> HIDE DEF w
  <2> QED BY <2>1 DEF Sums, Pick
<1>9. \A f : (f = [s \in SUBSET S |-> IF s = {} THEN 0
                     ELSE (Unit \div (2 * best(CHOOSE x \in s : TRUE)))
                            + f[s \ {CHOOSE x \in s : TRUE}]])
             <=> Sums(f, c, S)
  <2> TAKE f
  <2>1. \A s \in SUBSET S : s # {} =>
          c[Pick(s)] = Unit \div (2 * best(CHOOSE x \in s : TRUE))
    BY <1>5 DEF Pick, Ceiling
  <2> HIDE DEF c
  <2> QED BY <2>1 DEF Sums, Pick
<1>12. IsFiniteSet(S)
  BY OverlapType
<1> HIDE DEF S, w, c
<1>10. SumOf(G, w, S)
  <2>1. Sums(G, w, S)
    BY <1>6, <1>8
  <2> QED BY <1>2, <1>12, <2>1 DEF SumOf
<1>11. SumOf(H, c, S)
  <2>1. Sums(H, c, S)
    BY <1>7, <1>9
  <2> QED BY <1>2, <1>12, <2>1 DEF SumOf
<1> HIDE DEF G, H
<1> QED BY <1>3, <1>4, <1>10, <1>11 DEF S, w, c

(* Two users share the same items, with their ranks the other way round.   *)
LEMMA Mirror ==
  ASSUME NEW a \in Seq(Items), NEW o \in Seq(Items)
  PROVE  /\ Overlap(o, a) = {<<p[2], p[1]>> : p \in Overlap(a, o)}
         /\ \A p \in Overlap(a, o) : p = <<p[1], p[2]>>
         /\ \A p \in Overlap(a, o) : /\ Weight(<<p[2], p[1]>>) = Weight(p)
                                     /\ Ceiling(<<p[2], p[1]>>) = Ceiling(p)
<1>1. \A p \in Overlap(a, o) : p = <<p[1], p[2]>> /\ p[1] \in 1..TopN /\ p[2] \in 1..TopN
  BY OverlapType
<1>2. Overlap(o, a) = {<<p[2], p[1]>> : p \in Overlap(a, o)}
  <2>1. ASSUME NEW q \in Overlap(o, a)
        PROVE  \E p \in Overlap(a, o) : q = <<p[2], p[1]>>
    <3> DEFINE r == <<q[2], q[1]>>
    <3>1. r \in Overlap(a, o) /\ q = <<r[2], r[1]>>
      BY <2>1 DEF Overlap
    <3> QED BY <3>1
  <2>2. ASSUME NEW p \in Overlap(a, o)
        PROVE  <<p[2], p[1]>> \in Overlap(o, a)
    BY <2>2 DEF Overlap
  <2> QED BY <2>1, <2>2
<1>3. ASSUME NEW p \in Overlap(a, o)
      PROVE  Weight(<<p[2], p[1]>>) = Weight(p) /\ Ceiling(<<p[2], p[1]>>) = Ceiling(p)
  <2>1. p[1] \in Nat /\ p[2] \in Nat
    BY <1>1, SimilarityAssumption
  <2>2. p[2] + p[1] = p[1] + p[2] /\ best(<<p[2], p[1]>>) = best(p)
    BY <2>1 DEF best
  <2> QED BY <2>2 DEF Weight, Ceiling
<1> QED BY <1>1, <1>2, <1>3

(* A score is the same in both directions. *)
LEMMA SameScore ==
  ASSUME NEW a \in Seq(Items), NEW o \in Seq(Items)
  PROVE  norm(a, o) = norm(o, a)
<1> DEFINE S == Overlap(a, o)
           R == Overlap(o, a)
           w == [p \in S |-> Weight(p)]
           c == [p \in S |-> Ceiling(p)]
           v == [p \in R |-> Weight(p)]
           d == [p \in R |-> Ceiling(p)]
           f == [p \in S |-> <<p[2], p[1]>>]
<1>3. PICK g : SumOf(g, w, S) /\ g[S] = similarity(a, o)
  BY ScoreSums
<1>4. PICK h : SumOf(h, v, R) /\ h[R] = similarity(o, a)
  BY ScoreSums
<1>5. PICK i : SumOf(i, c, S) /\ i[S] = maxPossible(a, o)
  BY ScoreSums
<1>6. PICK k : SumOf(k, d, R) /\ k[R] = maxPossible(o, a)
  BY ScoreSums
<1>7. /\ \A p \in S : f[p] \in R /\ v[f[p]] = w[p]
      /\ \A p \in S : f[p] \in R /\ d[f[p]] = c[p]
      /\ \A q \in R : \E p \in S : f[p] = q
  <2>1. \A p \in S : f[p] = <<p[2], p[1]>>
    OBVIOUS
  <2>2. R = {<<p[2], p[1]>> : p \in S}
    BY Mirror
  <2>3. \A p \in S : f[p] \in R
    BY <2>1, <2>2
  <2>4. \A p \in S : Weight(f[p]) = Weight(p) /\ Ceiling(f[p]) = Ceiling(p)
    BY <2>1, Mirror
  <2>5. \A q \in R : \E p \in S : f[p] = q
    BY <2>1, <2>2
  <2> HIDE DEF S, R, f
  <2> QED BY <2>3, <2>4, <2>5
<1>8. \A p, q \in S : f[p] = f[q] => p = q
  <2> TAKE p, q \in S
  <2>1. p = <<p[1], p[2]>> /\ q = <<q[1], q[2]>>
    BY Mirror
  <2>2. f[p] = <<p[2], p[1]>> /\ f[q] = <<q[2], q[1]>>
    OBVIOUS
  <2> QED BY <2>1, <2>2
<1> HIDE DEF S, R, w, c, v, d, f
<1>9. g[S] = h[R]
  BY <1>3, <1>4, <1>7, <1>8, SumRenamed
<1>10. i[S] = k[R]
  BY <1>5, <1>6, <1>7, <1>8, SumRenamed
<1> QED BY <1>3, <1>4, <1>5, <1>6, <1>9, <1>10 DEF norm

(* A score is between 0 and 1, and when it is 1. *)
LEMMA ScoreBounds ==
  ASSUME NEW a \in Seq(Items), NEW o \in Seq(Items)
  PROVE  /\ similarity(a, o) \in Nat /\ maxPossible(a, o) \in Nat
         /\ similarity(a, o) <= maxPossible(a, o)
         /\ similarity(a, o) = maxPossible(a, o) <=> \A p \in Overlap(a, o) : p[1] = p[2]
<1> DEFINE S == Overlap(a, o)
           w == [p \in S |-> Weight(p)]
           c == [p \in S |-> Ceiling(p)]
           z == [p \in S |-> 0]
           y == [s \in SUBSET S |-> 0]
<1>1. PICK g : SumOf(g, w, S) /\ g[S] = similarity(a, o)
  BY ScoreSums
<1>2. PICK h : SumOf(h, c, S) /\ h[S] = maxPossible(a, o)
  BY ScoreSums
<1>3. /\ \A p \in S : w[p] <= c[p]
      /\ \A p \in S : w[p] = c[p] <=> p[1] = p[2]
      /\ \A p \in S : z[p] <= w[p]
  BY OverlapType, WeightType
<1>4. SumOf(y, z, S) /\ y[S] = 0
  <2>1. \A s \in SUBSET S : s # {} => Pick(s) \in S /\ s \ {Pick(s)} \in SUBSET S
    BY Picked
  <2>2. y = [s \in SUBSET S |-> IF s = {} THEN 0 ELSE z[Pick(s)] + y[s \ {Pick(s)}]]
    BY <2>1
  <2>3. IsFiniteSet(S) /\ z \in [S -> Int]
    BY OverlapType
  <2>4. y[S] = 0
    OBVIOUS
  <2> HIDE DEF y, z, S
  <2> QED BY <2>2, <2>3, <2>4 DEF Sums, SumOf
<1> HIDE DEF S, w, c, y, z
<1>5. y[S] <= g[S] /\ g[S] \in Int
  BY <1>1, <1>3, <1>4, SumMonotone
<1>6. /\ h[S] \in Int /\ g[S] <= h[S]
      /\ g[S] = h[S] <=> \A p \in S : w[p] = c[p]
  BY <1>1, <1>2, <1>3, SumMonotone
<1>7. (\A p \in S : w[p] = c[p]) <=> \A p \in S : p[1] = p[2]
  BY <1>3
<1> QED BY <1>1, <1>2, <1>4, <1>5, <1>6, <1>7 DEF S

(* The invariant of the lists: they are lists of items. *)
SimilarityTypes == lists \in [People -> Seq(Items)]

(* All scores are fair, whatever the lists. *)
LEMMA Fair == ASSUME SimilarityTypes PROVE ScoresAreFair
<1> SUFFICES ASSUME NEW u \in People, NEW v \in People
             PROVE  LET a == lists[u]
                        o == lists[v]
                    IN  similarity(a, o) > 0 =>
                          /\ similarity(a, o) <= maxPossible(a, o)
                          /\ similarity(a, o) = maxPossible(a, o)
                               <=> \A p \in Overlap(a, o) : p[1] = p[2]
                          /\ norm(a, o) = norm(o, a)
  BY DEF ScoresAreFair
<1>1. lists[u] \in Seq(Items) /\ lists[v] \in Seq(Items)
  BY DEF SimilarityTypes
<1> QED BY <1>1, ScoreBounds, SameScore

-----------------------------------------------------------------------------
(* The order of overlaps. *)
Places(S) == {p \in S \X S : BetterOverlap(p[1], p[2])}

Ahead(S, p) == {q \in S : BetterOverlap(q, p)}

(* It leaves no two overlaps without an order. *)
LEMMA PlacesOrder ==
  ASSUME NEW S \in SUBSET ((1..TopN) \X (1..TopN))
  PROVE  /\ Orders(Places(S), S)
         /\ \A p \in S : Ahead(S, p) = Earlier(S, Places(S), p)
<1>1. \A p \in S : p = <<p[1], p[2]>> /\ p[1] \in Int /\ p[2] \in Int
  OBVIOUS
<1>2. \A p, q \in S : <<p, q>> \in Places(S) <=> BetterOverlap(p, q)
  BY DEF Places
<1>3. \A p \in S : ~BetterOverlap(p, p)
  BY <1>1 DEF BetterOverlap
<1>4. \A p, q \in S : p # q => BetterOverlap(p, q) \/ BetterOverlap(q, p)
  <2> TAKE p, q \in S
  <2>1. p[1] = q[1] /\ p[2] = q[2] => p = q
    BY <1>1
  <2>2. /\ p[1] \in Int /\ p[2] \in Int /\ q[1] \in Int /\ q[2] \in Int
    BY <1>1
  <2> QED BY <2>1, <2>2 DEF BetterOverlap
<1>5. \A p, q, r \in S : BetterOverlap(p, q) /\ BetterOverlap(q, r) => BetterOverlap(p, r)
  <2> TAKE p, q, r \in S
  <2>1. /\ p[1] \in Int /\ p[2] \in Int /\ q[1] \in Int /\ q[2] \in Int
        /\ r[1] \in Int /\ r[2] \in Int
    BY <1>1
  <2> QED BY <2>1 DEF BetterOverlap
<1>6. Orders(Places(S), S)
  BY <1>2, <1>3, <1>4, <1>5 DEF Orders
<1>7. \A p \in S : Ahead(S, p) = Earlier(S, Places(S), p)
  BY <1>2 DEF Ahead, Earlier
<1> QED BY <1>6, <1>7

(* What is shown of a match, for any limit. *)
LEMMA Shown ==
  ASSUME NEW a \in Seq(Items), NEW o \in Seq(Items), NEW k \in Nat \ {0}
  PROVE  LET all == Overlap(a, o)
             shown == overlaps(a, o, k)
         IN  /\ shown = {p \in all : Cardinality(Ahead(all, p)) < k}
             /\ \A p \in all : IsFiniteSet(Ahead(all, p)) /\ Cardinality(Ahead(all, p)) \in Nat
             /\ IsFiniteSet(shown) /\ Cardinality(shown) \in Nat /\ Cardinality(shown) <= k
             /\ shown # all => Cardinality(shown) = k
             /\ \A p \in shown, q \in all \ shown : p[1] + p[2] <= q[1] + q[2]
<1> DEFINE all == Overlap(a, o)
           shown == overlaps(a, o, k)
           R == Places(all)
<1>1. all \in SUBSET ((1..TopN) \X (1..TopN)) /\ IsFiniteSet(all)
  BY OverlapType
<1>2. Orders(R, all) /\ \A p \in all : Ahead(all, p) = Earlier(all, R, p)
  <2> HIDE DEF all
  <2> QED BY <1>1, PlacesOrder
<1>3. shown = {p \in all : Cardinality(Ahead(all, p)) < k}
  BY DEF overlaps, Ahead
<1>4. \A p \in all : IsFiniteSet(Ahead(all, p)) /\ Cardinality(Ahead(all, p)) \in Nat
  <2> TAKE p \in all
  <2>1. Ahead(all, p) \in SUBSET all
    BY DEF Ahead
  <2> HIDE DEF all
  <2> QED BY <1>1, <2>1, FS_Subset, FS_CardinalityType
<1>5. shown = {p \in all : Cardinality(Earlier(all, R, p)) < k}
  <2> HIDE DEF all, shown, R
  <2> QED BY <1>2, <1>3
<1>6. /\ IsFiniteSet(shown) /\ Cardinality(shown) \in Nat /\ Cardinality(shown) <= k
      /\ shown # all => Cardinality(shown) = k
  <2> HIDE DEF all, shown, R
  <2>1. k \in Nat
    OBVIOUS
  <2> DEFINE first == {p \in all : Cardinality(Earlier(all, R, p)) < k}
  <2>2. /\ IsFiniteSet(first) /\ Cardinality(first) \in Nat /\ Cardinality(first) <= k
        /\ first # all => Cardinality(first) = k
    BY <1>1, <1>2, <2>1, FirstPlaces
  <2>3. shown = first
    BY <1>5
  <2> HIDE DEF first
  <2> QED BY <2>2, <2>3
<1>7. ASSUME NEW p \in shown, NEW q \in all \ shown
      PROVE  p[1] + p[2] <= q[1] + q[2]
  <2>1. p \in all /\ q \in all /\ q \notin shown
    BY <1>3, <1>7
  <2>2. /\ p[1] \in Int /\ p[2] \in Int /\ q[1] \in Int /\ q[2] \in Int
    BY <1>1, <2>1
  <2>3. ~(p[1] + p[2] <= q[1] + q[2]) => <<q, p>> \in R
    BY <2>1, <2>2 DEF Places, BetterOverlap
  <2>4. <<q, p>> \in R => Cardinality(Earlier(all, R, q)) < Cardinality(Earlier(all, R, p))
    <3> HIDE DEF all, R
    <3> QED BY <1>1, <1>2, <2>1, PlacesGrow
  <2>5. Cardinality(Earlier(all, R, p)) \in Nat /\ Cardinality(Earlier(all, R, q)) \in Nat
    BY <1>2, <1>4, <2>1
  <2>6. Cardinality(Earlier(all, R, p)) < k /\ ~(Cardinality(Earlier(all, R, q)) < k)
    <3> HIDE DEF all, R, shown
    <3> QED BY <1>5, <2>1
  <2> HIDE DEF all, R, shown
  <2> QED BY <2>3, <2>4, <2>5, <2>6
<1> QED BY <1>3, <1>4, <1>6, <1>7

(* If no tie is cut, the two users are shown the same items. *)
LEMMA ShownToBoth ==
  ASSUME NEW a \in Seq(Items), NEW o \in Seq(Items), NEW k \in Nat \ {0},
         \A p \in overlaps(a, o, k), q \in Overlap(a, o) \ overlaps(a, o, k) :
           p[1] + p[2] # q[1] + q[2]
  PROVE  overlaps(a, o, k) = {<<p[2], p[1]>> : p \in overlaps(o, a, k)}
<1> DEFINE all == Overlap(a, o)
           other == Overlap(o, a)
           shown == overlaps(a, o, k)
           theirs == overlaps(o, a, k)
           Swap(p) == <<p[2], p[1]>>
<1>1. /\ shown = {p \in all : Cardinality(Ahead(all, p)) < k}
      /\ theirs = {p \in other : Cardinality(Ahead(other, p)) < k}
      /\ \A p \in all : IsFiniteSet(Ahead(all, p)) /\ Cardinality(Ahead(all, p)) \in Nat
      /\ \A p \in other : IsFiniteSet(Ahead(other, p)) /\ Cardinality(Ahead(other, p)) \in Nat
      /\ IsFiniteSet(shown) /\ Cardinality(shown) \in Nat /\ Cardinality(shown) <= k
      /\ shown # all => Cardinality(shown) = k
      /\ \A p \in shown, q \in all \ shown : p[1] + p[2] <= q[1] + q[2]
  BY Shown
<1>2. /\ other = {Swap(p) : p \in all} /\ all = {Swap(p) : p \in other}
      /\ \A p \in all : Swap(Swap(p)) = p
      /\ \A p \in other : Swap(Swap(p)) = p
  BY Mirror
<1>3. \A p \in all : p[1] \in Int /\ p[2] \in Int
  BY OverlapType
<1>4. \A p, q \in all : BetterOverlap(Swap(q), Swap(p)) =>
                          q[1] + q[2] <= p[1] + p[2] /\ q # p
  BY <1>3 DEF BetterOverlap
<1>5. \A p, q \in all : q[1] + q[2] < p[1] + p[2] => BetterOverlap(Swap(q), Swap(p))
  BY <1>3 DEF BetterOverlap
<1>6. \A p \in shown, q \in all \ shown : p[1] + p[2] < q[1] + q[2]
  <2> TAKE p \in shown, q \in all \ shown
  <2>1. p \in all /\ q \in all
    BY <1>1
  <2>2. p[1] + p[2] # q[1] + q[2] /\ p[1] + p[2] <= q[1] + q[2]
    BY <1>1
  <2> QED BY <1>3, <2>1, <2>2
<1>7. \A p \in all : Swap(p)[1] = p[2] /\ Swap(p)[2] = p[1]
  OBVIOUS
<1> HIDE DEF all, other, shown, theirs, Swap
<1>8. ASSUME NEW p \in shown
      PROVE  Swap(p) \in theirs
  <2> DEFINE A == Ahead(other, Swap(p))
             back == {Swap(q) : q \in shown \ {p}}
  <2>1. p \in all /\ Swap(p) \in other
    BY <1>1, <1>2
  <2>2. A \subseteq back
    <3> SUFFICES ASSUME NEW r \in A PROVE r \in back
      OBVIOUS
    <3>1. PICK q \in all : r = Swap(q)
      BY <1>2 DEF Ahead
    <3>2. BetterOverlap(Swap(q), Swap(p))
      BY <3>1 DEF Ahead
    <3>3. q[1] + q[2] <= p[1] + p[2] /\ q # p
      BY <1>4, <2>1, <3>2
    <3>4. q \notin shown => p[1] + p[2] < q[1] + q[2]
      BY <1>6
    <3>5. q \in shown
      BY <1>3, <2>1, <3>3, <3>4
    <3> QED BY <3>1, <3>3, <3>5
  <2>3. IsFiniteSet(shown \ {p}) /\ Cardinality(shown \ {p}) = Cardinality(shown) - 1
    BY <1>1, FS_RemoveElement
  <2>4. IsFiniteSet(back) /\ Cardinality(back) <= Cardinality(shown \ {p})
    <3> DEFINE from == shown \ {p}
               f == [q \in from |-> Swap(q)]
    <3>1. f \in Surjection(from, back)
      BY Fun_IsSurj
    <3>2. IsFiniteSet(from)
      BY <2>3
    <3> HIDE DEF from, f, back
    <3> QED BY <3>1, <3>2, FS_Surjection DEF from
  <2>5. Cardinality(A) <= Cardinality(back) /\ Cardinality(A) \in Nat
    <3> HIDE DEF back
    <3> QED BY <1>1, <2>1, <2>2, <2>4, FS_Subset
  <2>6. Cardinality(back) \in Nat
    <3> HIDE DEF back
    <3> QED BY <2>4, FS_CardinalityType
  <2>7. Cardinality(A) < k
    <3> HIDE DEF A, back
    <3> QED BY <1>1, <2>3, <2>4, <2>5, <2>6
  <2> QED BY <1>1, <2>1, <2>7
<1>9. ASSUME NEW p \in all \ shown
      PROVE  Swap(p) \notin theirs
  <2> DEFINE A == Ahead(other, Swap(p))
             back == {Swap(q) : q \in shown}
  <2>1. p \in all /\ Swap(p) \in other
    BY <1>1, <1>2
  <2>2. back \subseteq A
    <3> SUFFICES ASSUME NEW q \in shown PROVE Swap(q) \in A
      OBVIOUS
    <3>1. q \in all /\ Swap(q) \in other
      BY <1>1, <1>2
    <3>2. BetterOverlap(Swap(q), Swap(p))
      BY <1>5, <1>6, <2>1, <3>1
    <3> QED BY <3>1, <3>2 DEF Ahead
  <2>3. Cardinality(shown) = k
    BY <1>1, <2>1
  <2>4. Cardinality(back) = k
    <3> DEFINE f == [q \in shown |-> Swap(q)]
    <3>1. shown \subseteq all
      BY <1>1
    <3>2. \A q, r \in shown : f[q] = f[r] => q = r
      BY <1>2, <3>1
    <3>3. f \in [shown -> back] /\ \A r \in back : \E q \in shown : f[q] = r
      OBVIOUS
    <3> HIDE DEF f, back
    <3>4. f \in Bijection(shown, back)
      BY <3>2, <3>3, Fun_IsBij
    <3> QED BY <1>1, <2>3, <3>4, FS_Bijection, Fun_ExistsBij
  <2>5. Cardinality(back) <= Cardinality(A) /\ Cardinality(A) \in Nat
    <3> HIDE DEF back
    <3> QED BY <1>1, <2>1, <2>2, FS_Subset
  <2>6. ~(Cardinality(A) < k)
    BY <2>4, <2>5
  <2> QED BY <1>1, <2>1, <2>6
<1>10. theirs \subseteq other /\ shown \subseteq all
  BY <1>1
<1>11. shown = {Swap(p) : p \in theirs}
  <2>1. ASSUME NEW p \in shown PROVE \E q \in theirs : p = Swap(q)
    BY <1>2, <1>8, <1>10
  <2>2. ASSUME NEW q \in theirs PROVE Swap(q) \in shown
    BY <1>2, <1>9, <1>10
  <2> QED BY <2>1, <2>2
<1> QED BY <1>11 DEF shown, theirs, Swap

(* The best are shown, for any limit. *)
LEMMA BestKept ==
  ASSUME NEW a \in Seq(Items), NEW o \in Seq(Items), NEW k \in Nat \ {0}
  PROVE  BestShown(a, o, k)
<1> DEFINE shown == overlaps(a, o, k)
           cut == Overlap(a, o) \ shown
<1>1. /\ shown # Overlap(a, o) => Cardinality(shown) = k
      /\ \A p \in shown, q \in cut : p[1] + p[2] <= q[1] + q[2]
  BY Shown
<1>2. (\A p \in shown, q \in cut : p[1] + p[2] # q[1] + q[2])
        => shown = {<<p[2], p[1]>> : p \in overlaps(o, a, k)}
  BY ShownToBoth
<1>3. cut # {} => shown # Overlap(a, o)
  OBVIOUS
<1> QED BY <1>1, <1>2, <1>3 DEF BestShown

-----------------------------------------------------------------------------
(* A score with a denominator. *)
Score == Int \X (Nat \ {0})

(* To have no less is transitive, as long as no denominator is 0. *)
LEMMA NotLess ==
  ASSUME NEW x \in Score, NEW y \in Score, NEW z \in Score
  PROVE  /\ Less(x, y) => ~Less(y, x)
         /\ ~Less(x, y) /\ ~Less(y, z) => ~Less(x, z)
<1> DEFINE m == x[1]
           n == x[2]
           p == y[1]
           q == y[2]
           r == z[1]
           s == z[2]
<1>1. /\ m \in Int /\ p \in Int /\ r \in Int
      /\ n \in Nat \ {0} /\ q \in Nat \ {0} /\ s \in Nat \ {0}
  BY DEF Score
<1>2. /\ Less(x, y) <=> m * q < p * n
      /\ Less(y, x) <=> p * n < m * q
      /\ Less(y, z) <=> p * s < r * q
      /\ Less(x, z) <=> m * s < r * n
  BY DEF Less
<1> HIDE DEF m, n, p, q, r, s
<1>3. m * q < p * n => ~(p * n < m * q)
  BY <1>1
<1>4. ASSUME p * n <= m * q, r * q <= p * s
      PROVE  r * n <= m * s
  <2>1. (p * n) * s <= (m * q) * s
    <3>1. p * n \in Int /\ m * q \in Int
      BY <1>1
    <3> QED BY <1>1, <1>4, <3>1
  <2>2. (r * q) * n <= (p * s) * n
    <3>1. r * q \in Int /\ p * s \in Int
      BY <1>1
    <3> QED BY <1>1, <1>4, <3>1
  <2>3. (p * n) * s = (p * s) * n /\ (r * q) * n = q * (r * n) /\ (m * q) * s = q * (m * s)
    BY <1>1
  <2>4. /\ r * n \in Int /\ m * s \in Int /\ (p * n) * s \in Int
        /\ q * (r * n) \in Int /\ q * (m * s) \in Int
    BY <1>1
  <2>5. q * (r * n) <= q * (m * s)
    BY <2>1, <2>2, <2>3, <2>4
  <2>6. q * (m * s) < q * (r * n) <=> m * s < r * n
    BY <1>1, <2>4, Cancel
  <2> QED BY <2>4, <2>5, <2>6
<1>5. /\ m * q \in Int /\ p * n \in Int /\ p * s \in Int /\ r * q \in Int
      /\ m * s \in Int /\ r * n \in Int
  BY <1>1
<1> QED BY <1>2, <1>3, <1>4, <1>5

(* The order that SortMatches puts the rows in. *)
SortOrder(rows, score, count) ==
  {p \in (DOMAIN rows) \X (DOMAIN rows) :
     LET v == rows[p[1]]
         w == rows[p[2]]
     IN  \/ Less(score[w], score[v])
         \/ /\ ~Less(score[v], score[w])
            /\ \/ count[v] > count[w]
               \/ count[v] = count[w] /\ NameOf[v] < NameOf[w]
               \/ count[v] = count[w] /\ NameOf[v] = NameOf[w] /\ p[1] < p[2]}

(* No two rows are left without an order, whatever their scores. *)
LEMMA SortIsTotal ==
  ASSUME NEW m \in Nat, NEW rows \in [1..m -> People], NEW score, NEW count,
         \A i \in 1..m : score[rows[i]] \in Score /\ count[rows[i]] \in Nat
  PROVE  Orders(SortOrder(rows, score, count), 1..m)
<1> DEFINE Worse(i, k) == Less(score[rows[i]], score[rows[k]])
           more(i) == count[rows[i]]
           name(i) == NameOf[rows[i]]
           R == SortOrder(rows, score, count)
<1>1. \A i, k \in 1..m : <<i, k>> \in R <=>
        \/ Worse(k, i)
        \/ /\ ~Worse(i, k)
           /\ \/ more(i) > more(k)
              \/ more(i) = more(k) /\ name(i) < name(k)
              \/ more(i) = more(k) /\ name(i) = name(k) /\ i < k
  BY DEF SortOrder
<1>2. \A i \in 1..m : more(i) \in Nat /\ name(i) \in Nat
  BY SimilarityAssumption
<1>3. \A i, k, j \in 1..m : /\ Worse(i, k) => ~Worse(k, i)
                            /\ ~Worse(i, k) /\ ~Worse(k, j) => ~Worse(i, j)
  BY NotLess
<1> HIDE DEF Worse, more, name, R
<1>4. \A i \in 1..m : <<i, i>> \notin R
  BY <1>1, <1>2, <1>3
<1>5. \A i, k \in 1..m : i # k => <<i, k>> \in R \/ <<k, i>> \in R
  <2> TAKE i, k \in 1..m
  <2>1. more(i) \in Nat /\ name(i) \in Nat /\ more(k) \in Nat /\ name(k) \in Nat
    BY <1>2
  <2>2. CASE Worse(i, k) \/ Worse(k, i)
    BY <1>1, <2>2
  <2>3. CASE ~Worse(i, k) /\ ~Worse(k, i)
    BY <1>1, <2>1, <2>3
  <2> QED BY <2>2, <2>3
<1>6. \A i, k, j \in 1..m : <<i, k>> \in R /\ <<k, j>> \in R => <<i, j>> \in R
  <2> SUFFICES ASSUME NEW i \in 1..m, NEW k \in 1..m, NEW j \in 1..m,
                      <<i, k>> \in R, <<k, j>> \in R
               PROVE  <<i, j>> \in R
    OBVIOUS
  <2> DEFINE Then(b, c) == \/ more(b) > more(c)
                           \/ more(b) = more(c) /\ name(b) < name(c)
                           \/ more(b) = more(c) /\ name(b) = name(c) /\ b < c
  <2>1. /\ Worse(k, i) \/ (~Worse(i, k) /\ Then(i, k))
        /\ Worse(j, k) \/ (~Worse(k, j) /\ Then(k, j))
        /\ <<i, j>> \in R <=> (Worse(j, i) \/ (~Worse(i, j) /\ Then(i, j)))
    BY <1>1
  <2>2. /\ more(i) \in Nat /\ name(i) \in Nat /\ more(k) \in Nat /\ name(k) \in Nat
        /\ more(j) \in Nat /\ name(j) \in Nat
    BY <1>2
  <2>3. Then(i, k) /\ Then(k, j) => Then(i, j)
    BY <2>2
  <2> HIDE DEF Then
  <2>4. ~Worse(i, k) /\ ~Worse(k, j)
    BY <1>3, <2>1
  <2>5. ~Worse(i, j)
    BY <1>3, <2>4
  <2>6. CASE Worse(j, i)
    BY <2>1, <2>6
  <2>7. CASE ~Worse(j, i)
    <3>1. ~Worse(k, i)
      BY <1>3, <2>4, <2>7
    <3>2. ~Worse(j, k)
      BY <1>3, <2>4, <2>7
    <3> QED BY <2>1, <2>3, <2>5, <3>1, <3>2
  <2> QED BY <2>6, <2>7
<1> QED BY <1>4, <1>5, <1>6 DEF Orders, R

(* The rows of a query have scores. *)
Scored(rows, m, score, count) ==
  /\ rows \in [1..m -> People]
  /\ \A i \in 1..m : score[rows[i]] \in Score /\ count[rows[i]] \in Nat

(* found is the rows, each next to those it may stand next to. *)
ByScore(found, rows, m, score, count) ==
  /\ found \in [1..m -> People]
  /\ \A i \in 1..m : \E k \in 1..m : found[i] = rows[k]
  /\ \A k \in 1..m : \E i \in 1..m : found[i] = rows[k]
  /\ \A i \in 2..m : InTurn(found[i - 1], found[i], score, count)

(* The rows come back in another order, no two of them the wrong way round. *)
LEMMA Resorted ==
  ASSUME NEW m \in Nat, NEW rows, NEW score, NEW count, Scored(rows, m, score, count)
  PROVE  ByScore(SortMatches(rows, score, count), rows, m, score, count)
<1> DEFINE R == SortOrder(rows, score, count)
           order == InOrder(1..m, R)
           found == SortMatches(rows, score, count)
<1>0. /\ rows \in [1..m -> People]
      /\ \A i \in 1..m : score[rows[i]] \in Score /\ count[rows[i]] \in Nat
  BY DEF Scored
<1>1. DOMAIN rows = 1..m
  BY <1>0
<1>2. found = [i \in 1..m |-> rows[order[i]]]
  BY <1>1 DEF SortMatches, SortOrder
<1>3. Orders(R, 1..m)
  BY <1>0, SortIsTotal
<1>4. IsFiniteSet(1..m) /\ Cardinality(1..m) = m
  BY FS_Interval
<1>5. Listing(order, m, 1..m, R)
  <2> HIDE DEF R
  <2> QED BY <1>3, <1>4, InOrderSorts
<1> HIDE DEF order
<1>6. /\ order \in [1..m -> 1..m]
      /\ \A k \in 1..m : \E i \in 1..m : order[i] = k
      /\ \A i, k \in 1..m : i < k => <<order[i], order[k]>> \in R
  <2> HIDE DEF R
  <2> QED BY <1>5 DEF Listing
<1>7. ASSUME NEW i \in 2..m
      PROVE  InTurn(found[i - 1], found[i], score, count)
  <2>1. i - 1 \in 1..m /\ i \in 1..m /\ i - 1 < i
    OBVIOUS
  <2> DEFINE v == rows[order[i - 1]]
             w == rows[order[i]]
  <2>2. found[i - 1] = v /\ found[i] = w
    BY <1>2, <2>1
  <2>3. <<order[i - 1], order[i]>> \in R
    BY <1>6, <2>1
  <2>4. \/ Less(score[w], score[v])
        \/ /\ ~Less(score[v], score[w])
           /\ \/ count[v] > count[w]
              \/ count[v] = count[w] /\ NameOf[v] <= NameOf[w]
    <3>1. NameOf[v] \in Nat /\ NameOf[w] \in Nat
      BY <1>0, <1>6, <2>1, SimilarityAssumption
    <3> QED BY <2>3, <3>1 DEF SortOrder
  <2>5. order[i - 1] \in 1..m /\ order[i] \in 1..m
    BY <1>6, <2>1
  <2>6. /\ score[v] \in Score /\ score[w] \in Score
        /\ count[v] \in Nat /\ count[w] \in Nat
    BY <1>0, <2>5
  <2> HIDE DEF v, w, found
  <2>7. ~Less(score[v], score[w])
    BY <2>4, <2>6, NotLess
  <2> QED BY <2>2, <2>4, <2>6, <2>7 DEF InTurn
<1>8. found \in [1..m -> People]
  BY <1>0, <1>2, <1>6
<1>9. \A i \in 1..m : \E k \in 1..m : found[i] = rows[k]
  BY <1>2, <1>6
<1>10. ASSUME NEW k \in 1..m
       PROVE  \E i \in 1..m : found[i] = rows[k]
  <2>1. PICK i \in 1..m : order[i] = k
    BY <1>6
  <2>2. found[i] = rows[order[i]]
    BY <1>2
  <2> QED BY <2>1, <2>2
<1> HIDE DEF found
<1> QED BY <1>7, <1>8, <1>9, <1>10 DEF ByScore, found

-----------------------------------------------------------------------------
(* The first n rows of a query. *)
LEMMA FirstRows ==
  ASSUME NEW N \in Nat, NEW n \in Nat, NEW S, NEW R, NEW l, Listing(l, N, S, R)
  PROVE  LET m == IF n < N THEN n ELSE N
         IN  FirstOf(n, l) = [i \in 1..m |-> l[i]]
<1> DEFINE m == IF n < N THEN n ELSE N
<1>1. l \in Seq(S) /\ Len(l) = N
  <2>1. l \in [1..N -> S]
    BY DEF Listing
  <2> QED BY <2>1
<1>2. Min({n, Len(l)}) = m
  <2>1. m \in {n, N} /\ \A x \in {n, N} : m <= x
    OBVIOUS
  <2>2. \A y \in {n, N} : (\A x \in {n, N} : y <= x) => y = m
    OBVIOUS
  <2> HIDE DEF m
  <2> QED BY <1>1, <2>1, <2>2 DEF Min
<1>3. SubSeq(l, 1, m) = [i \in 1..m |-> l[i]]
  <2>1. m \in Nat /\ m <= N
    OBVIOUS
  <2> HIDE DEF m
  <2> QED BY <1>1, <2>1
<1> QED BY <1>2, <1>3 DEF FirstOf

(* No two users are left without an order: accounts are made one by one. *)
LEMMA SimilarOrder ==
  ASSUME NEW sim \in [People -> Nat], NEW S \in SUBSET People
  PROVE  Orders(MoreSimilar(sim), S)
<1>1. \A v, w \in S : <<v, w>> \in MoreSimilar(sim) <=>
         sim[v] > sim[w] \/ (sim[v] = sim[w] /\ v < w)
  BY DEF MoreSimilar
<1>2. \A v \in S : v \in Nat /\ sim[v] \in Nat
  BY SimilarityAssumption
<1> HIDE DEF MoreSimilar
<1> QED BY <1>1, <1>2 DEF Orders

(* An answer is what it has to be, for any limit. *)
LEMMA Kept ==
  ASSUME SimilarityTypes, NEW u \in People, NEW matching \in SUBSET People, NEW n \in Nat
  PROVE  Promised(u, n, matching, FindMatches(u, n, matching))
<1> DEFINE sim == Similarities(u)
           S == {v \in matching \ {u} : sim[v] > 0}
           N == Cardinality(S)
           R == MoreSimilar(sim)
           all == InOrder(S, R)
           m == IF n < N THEN n ELSE N
           rows == FindSimilarUsers(u, n, matching)
           score == Scores(u)
           count == OverlapCounts(u)
           found == FindMatches(u, n, matching)
<1>1. \A v \in People : lists[v] \in Seq(Items)
  BY DEF SimilarityTypes
<1>2. sim \in [People -> Nat] /\ \A v \in People : sim[v] = similarity(lists[u], lists[v])
  BY <1>1, ScoreBounds DEF Similarities
<1>3. S \in SUBSET People /\ IsFiniteSet(S)
  BY SimilarityAssumption, FS_Subset
<1>4. Orders(R, S)
  <2> HIDE DEF sim, S
  <2> QED BY <1>2, <1>3, SimilarOrder
<1>5. N \in Nat /\ Listing(all, N, S, R)
  <2> HIDE DEF S, R
  <2> QED BY <1>3, <1>4, InOrderSorts
<1>6. all \in [1..N -> S] /\ \A v \in S : \E i \in 1..N : all[i] = v
  <2> HIDE DEF S, R, all, N
  <2> QED BY <1>5 DEF Listing
<1>7. m \in Nat /\ m <= N /\ (m # N => m = n)
  <2> HIDE DEF N
  <2> QED BY <1>5
<1>8. rows = [i \in 1..m |-> all[i]]
  <2>1. rows = FirstOf(n, all)
    BY DEF FindSimilarUsers, BySimilarity
  <2> HIDE DEF S, R, all, N, rows
  <2>2. FirstOf(n, all) = [i \in 1..m |-> all[i]]
    BY <1>5, FirstRows
  <2> QED BY <2>1, <2>2
<1>9. \A v \in S : score[v] \in Score /\ count[v] \in Nat
  <2> TAKE v \in S
  <2>1. v \in People /\ lists[v] \in Seq(Items) /\ lists[u] \in Seq(Items)
    BY <1>1
  <2>2. similarity(lists[u], lists[v]) > 0
    BY <1>2
  <2>3. norm(lists[u], lists[v]) \in Score
    BY <2>1, <2>2, ScoreBounds DEF norm, Score
  <2>4. Cardinality(Overlap(lists[u], lists[v])) \in Nat
    BY <2>1, OverlapType, FS_CardinalityType
  <2> QED BY <2>1, <2>3, <2>4 DEF Scores, OverlapCounts
<1>10. found = SortMatches(rows, score, count)
  BY DEF FindMatches
<1> DEFINE left == S \ ToSet(found)
<1>11. Promised(u, n, matching, found) <=>
         /\ ToSet(found) \subseteq matching \ {u}
         /\ left # {} => Len(found) = n
         /\ \A v \in ToSet(found), w \in left : sim[v] >= sim[w]
         /\ \A i \in 2..Len(found) : InTurn(found[i - 1], found[i], score, count)
  BY DEF Promised
<1>12. S \subseteq matching \ {u}
  OBVIOUS
<1> HIDE DEF sim, S, N, R, all, m, rows, score, count, found
<1>13. rows \in [1..m -> People] /\ \A i \in 1..m : rows[i] = all[i] /\ rows[i] \in S
  BY <1>3, <1>5, <1>6, <1>7, <1>8
<1>14. \A i \in 1..m : score[rows[i]] \in Score /\ count[rows[i]] \in Nat
  BY <1>9, <1>13
<1>15. /\ found \in [1..m -> People]
       /\ \A i \in 1..m : \E k \in 1..m : found[i] = rows[k]
       /\ \A k \in 1..m : \E i \in 1..m : found[i] = rows[k]
       /\ \A i \in 2..m : InTurn(found[i - 1], found[i], score, count)
  <2>1. Scored(rows, m, score, count)
    BY <1>13, <1>14 DEF Scored
  <2>2. ByScore(found, rows, m, score, count)
    BY <1>7, <1>10, <2>1, Resorted
  <2> QED BY <2>2 DEF ByScore
<1>16. found \in Seq(People) /\ Len(found) = m
  <2>1. found \in [1..m -> People] /\ m \in Nat
    BY <1>7, <1>15
  <2> QED BY <2>1
<1>17. ToSet(found) = {rows[i] : i \in 1..m}
  <2>1. ToSet(found) = {found[i] : i \in 1..m}
    BY <1>15, <1>16 DEF ToSet
  <2>2. ASSUME NEW x \in ToSet(found)
        PROVE  x \in {rows[i] : i \in 1..m}
    <3>1. PICK i \in 1..m : x = found[i]
      BY <2>1
    <3>2. PICK k \in 1..m : found[i] = rows[k]
      BY <1>15
    <3> QED BY <3>1, <3>2
  <2>3. \A x \in {rows[i] : i \in 1..m} : x \in ToSet(found)
    BY <1>15, <2>1
  <2> QED BY <2>2, <2>3
<1>18. left # {} => m = n
  <2> SUFFICES ASSUME NEW w \in left, m = N PROVE FALSE
    BY <1>7
  <2>1. PICK i \in 1..N : all[i] = w
    BY <1>6
  <2> QED BY <1>13, <1>17, <2>1
<1>19. ASSUME NEW v \in ToSet(found), NEW w \in left
       PROVE  sim[v] >= sim[w]
  <2>1. PICK i \in 1..m : rows[i] = v
    BY <1>17
  <2>2. PICK k \in 1..N : all[k] = w
    BY <1>6
  <2>3. k \notin 1..m
    BY <1>13, <1>17, <2>2
  <2>4. i \in 1..N /\ i < k /\ all[i] = v
    BY <1>5, <1>7, <1>13, <2>1, <2>3
  <2>5. <<v, w>> \in R
    BY <1>5, <2>2, <2>4 DEF Listing
  <2>6. v \in People /\ w \in People
    BY <1>3, <1>13, <2>1
  <2> QED BY <1>2, <2>5, <2>6 DEF R, MoreSimilar
<1>20. ToSet(found) \subseteq matching \ {u}
  BY <1>12, <1>13, <1>17
<1> QED BY <1>11, <1>15, <1>16, <1>18, <1>19, <1>20 DEF found

-----------------------------------------------------------------------------
(* Both parts of the service. *)
ServiceInv == Inv /\ SimilarityTypes

(* A step of either part keeps the invariants of both. *)
LEMMA ServicePreserved == ServiceInv /\ [ServiceNext]_allVars => ServiceInv'
<1> SUFFICES ASSUME ServiceInv, [ServiceNext]_allVars PROVE ServiceInv'
  OBVIOUS
<1>1. Inv'
  BY InvPreserved DEF ServiceInv, ServiceNext, allVars
<1>2. SimilarityTypes'
  <2>1. CASE UNCHANGED lists
    BY <2>1 DEF ServiceInv, SimilarityTypes
  <2>2. ASSUME NEW u \in People, NEW list \in Lists, StoreList(u, list)
        PROVE  SimilarityTypes'
    <3>1. list \in Seq(Items)
      BY SimilarityAssumption DEF Lists, BoundedSeq, SeqOf
    <3> QED BY <2>2, <3>1 DEF StoreList, ServiceInv, SimilarityTypes
  <2> QED BY <2>1, <2>2 DEF ServiceNext, SimilarityNext, allVars
<1> QED BY <1>1, <1>2 DEF ServiceInv

(* They hold initially. *)
LEMMA ServiceInitial == MatchingInit => ServiceInv
<1> SUFFICES ASSUME MatchingInit PROVE ServiceInv
  OBVIOUS
<1>1. <<>> \in Seq(Items)
  OBVIOUS
<1> QED BY <1>1, InitInv DEF MatchingInit, SimilarityInit, ServiceInv, SimilarityTypes

(* What TLC runs are steps of the service. *)
LEMMA CutIsService == [MatchingNext]_allVars => [ServiceNext]_allVars
  BY DEF MatchingNext, ServiceNext

(* TLC looks at limits of 1 and 2: nothing depends on them. *)
BestForAnyLimit ==
  \A u, v \in People, k \in Nat \ {0} : BestShown(lists[u], lists[v], k)

PromisedForAnyLimit ==
  \A u \in People, matching \in SUBSET People, n \in Nat :
    Promised(u, n, matching, FindMatches(u, n, matching))

(* What the invariant says to the clients. *)
LEMMA Promises ==
  ServiceInv => /\ TypeOK /\ AnswersItsQuestion /\ AgeBounded
                /\ ScoresAreFair
                /\ TruncationKeepsBest /\ BestForAnyLimit
                /\ AnswersAsPromised /\ PromisedForAnyLimit
<1> SUFFICES ASSUME ServiceInv
             PROVE  /\ TypeOK /\ AnswersItsQuestion /\ AgeBounded
                    /\ ScoresAreFair
                    /\ TruncationKeepsBest /\ BestForAnyLimit
                    /\ AnswersAsPromised /\ PromisedForAnyLimit
  OBVIOUS
<1>1. TypeOK /\ AnswersItsQuestion /\ AgeBounded /\ SimilarityTypes
  BY DEF ServiceInv, Inv
<1>2. AnswersAsPromised /\ PromisedForAnyLimit
  BY <1>1, Kept DEF AnswersAsPromised, PromisedForAnyLimit
<1>3. \A u \in People : lists[u] \in Seq(Items)
  BY <1>1 DEF SimilarityTypes
<1>4. BestForAnyLimit /\ TruncationKeepsBest
  BY <1>3, BestKept DEF BestForAnyLimit, TruncationKeepsBest
<1> QED BY <1>1, <1>2, <1>4, Fair

(* Both parts keep their invariants while lists change under requests. *)
THEOREM ServiceInvariance == ServiceSpec => []ServiceInv
  BY ServiceInitial, ServicePreserved, PTL DEF ServiceSpec

(* Whatever the lists, an exact score never exceeds 1, is 1 exactly when   *)
(* every shared item has the same rank in both, and is the same for both   *)
(* users (docs/music_matching.md:65).  What the clamp in                   *)
(* matching_service.go:283 cuts off is rounding.                           *)
THEOREM FairScores == ServiceSpec => []ScoresAreFair
  BY ServiceInvariance, Promises, PTL

(* Whatever the lists, the overlaps that any limit cuts off are never       *)
(* closer to the top of both lists than those shown, and without a tie the *)
(* two users are shown the same ones (docs/music_matching.md:38).          *)
THEOREM BestOverlapsShown == ServiceSpec => [](TruncationKeepsBest /\ BestForAnyLimit)
  BY ServiceInvariance, Promises, PTL

(* Whatever the lists, the names and the filter, an answer leaves out      *)
(* nobody who is more similar than somebody in it, and comes in the order  *)
(* of the scores (openapi.yaml:669).                                       *)
THEOREM AnswersKeepPromise == ServiceSpec => [](AnswersAsPromised /\ PromisedForAnyLimit)
  BY ServiceInvariance, Promises, PTL

(* The service does what its cache alone does: an answer fits its question *)
(* and is at most as old as a lifetime and a slow query.                   *)
THEOREM ServiceKeepsCache == ServiceSpec => [](TypeOK /\ AnswersItsQuestion /\ AgeBounded)
  BY ServiceInvariance, Promises, PTL

(* The specification that TLC runs is a part of it.                        *)
THEOREM BoundedService ==
  MatchingSpec => [](/\ TypeOK /\ AnswersItsQuestion /\ AgeBounded
                     /\ ScoresAreFair /\ TruncationKeepsBest /\ AnswersAsPromised)
<1>1. MatchingSpec => ServiceSpec
  BY CutIsService, PTL DEF MatchingSpec, ServiceSpec
<1> QED BY <1>1, ServiceInvariance, Promises, PTL
=============================================================================

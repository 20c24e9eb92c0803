--------------------------- MODULE FeedPagingProofs ---------------------------
(***************************************************************************)
(* Proofs about FeedPaging, for any articles, dates, sources, topics,      *)
(* pillars and caps, any page size, and any finite number of calls in      *)
(* progress together.                                                      *)
(***************************************************************************)
EXTENDS FeedPaging, FiniteSetTheorems, SequenceTheorems, WellFoundedInduction, TLAPS

-----------------------------------------------------------------------------
(* Pages *)

\* The constants as numbers.
LEMMA Numbers ==
  /\ Limit \in Nat /\ Limit >= 1 /\ EveryN \in Nat /\ EveryN >= 1
  /\ MaxPerSource \in Nat /\ MaxPerSource >= 1 /\ MaxPerTopic \in Nat /\ MaxPerTopic >= 1
  /\ Latest \in Nat /\ Now \in Nat /\ Now = Latest + 1 /\ Null = 0
  /\ \A a \in Articles : PublishedAt(a) \in 1..Latest
  BY ListingAssumption, FeedAssumption DEF Now, Null

\* An oldest member exists.
LEMMA Oldest ==
  ASSUME NEW D, D \subseteq Nat, D # {}
  PROVE  \E d \in D : \A e \in D : d <= e
  <1>. DEFINE R == OpToRel(<, Nat)
  <1>1. \A m, n \in Nat : m < n => <<m, n>> \in R
    BY DEF OpToRel
  <1>2. IsWellFoundedOn(R, Nat)
    BY NatLessThanWellFounded
  <1>. HIDE DEF R
  <1>3. PICK d \in D : \A e \in D : ~(<<e, d>> \in R)
    BY <1>2, WFMin, Zenon
  <1>4. ASSUME NEW e \in D PROVE d <= e
    <2>1. d \in Nat /\ e \in Nat
      OBVIOUS
    <2>2. ~(e < d)
      BY <1>1, <1>3, <2>1, Zenon
    <2>. QED BY <2>1, <2>2
  <1>. QED BY <1>4

\* A last place exists.
LEMMA LastPlace ==
  ASSUME NEW n \in Nat, NEW D \in SUBSET (1..n), D # {}
  PROVE  \E d \in D : \A e \in D : e <= d
  <1>. DEFINE B == {n - e : e \in D}
  <1>1. B \subseteq Nat
    OBVIOUS
  <1>2. B # {}
    <2>1. PICK d \in D : TRUE
      OBVIOUS
    <2>2. n - d \in B
      OBVIOUS
    <2>. QED BY <2>2
  <1>3. PICK b \in B : \A e \in B : b <= e
    BY <1>1, <1>2, Oldest
  <1>4. PICK d \in D : b = n - d
    OBVIOUS
  <1>5. \A e \in D : n - d <= n - e
    BY <1>3, <1>4
  <1>. QED BY <1>5

\* Places before each of which there are fewer than m of them are m at most.
LEMMA UpToTheLast ==
  ASSUME NEW n \in Nat, NEW S \in SUBSET (1..n), S # {}, NEW m \in Nat,
         \A k \in S : Cardinality({j \in S : j < k}) < m
  PROVE  Cardinality(S) <= m
  <1>1. PICK d \in S : \A e \in S : e <= d
    BY LastPlace
  <1>2. {j \in S : j < d} = S \ {d}
    <2>1. ASSUME NEW j \in S PROVE j < d <=> j # d
      <3>1. j \in Nat /\ d \in Nat /\ j <= d
        BY <1>1
      <3>. QED BY <3>1
    <2>. QED BY <2>1
  <1>3. IsFiniteSet(S)
    <2>1. IsFiniteSet(1..n)
      BY FS_Interval
    <2>. QED BY <2>1, FS_Subset
  <1>4. Cardinality(S) \in Nat
    BY <1>3, FS_CardinalityType
  <1>5. Cardinality(S \ {d}) = Cardinality(S) - 1
    BY <1>3, FS_RemoveElement
  <1>6. Cardinality(S \ {d}) < m
    BY <1>2
  <1>. QED BY <1>4, <1>5, <1>6

\* What PageOf keeps of a sequence.
LEMMA PageOfPrefix ==
  ASSUME NEW S, NEW q \in Seq(S)
  PROVE  /\ PageOf(q) \in Seq(S)
         /\ Len(PageOf(q)) = Least(Limit, Len(q))
         /\ \A i \in DOMAIN PageOf(q) : i \in DOMAIN q /\ PageOf(q)[i] = q[i]
  <1>. DEFINE n == Least(Limit, Len(q))
  <1>1. n \in Nat /\ n <= Len(q)
    BY Numbers DEF Least
  <1>2. \A i \in 1..n : q[i] \in S
    BY <1>1
  <1>3. /\ SubSeq(q, 1, n) \in Seq(S)
        /\ Len(SubSeq(q, 1, n)) = IF 1 <= n THEN n - 1 + 1 ELSE 0
        /\ \A i \in 1..(n - 1 + 1) : SubSeq(q, 1, n)[i] = q[1 + i - 1]
    BY <1>1, <1>2, SubSeqProperties
  <1>. QED BY <1>1, <1>3 DEF PageOf

\* The caps of mmr.py on a feed.
WithinCaps(feed) ==
    \A i \in DOMAIN feed :
        /\ Cardinality(OfSource(feed, Source(feed[i]))) <= MaxPerSource
        /\ Cardinality(OfTopic(feed, Topic(feed[i]))) <= MaxPerTopic

\* A feed keeps the caps when every article had room: the last of its source had, and so
\* the last of its topic.
LEMMA RoomKeepsCaps ==
  ASSUME NEW A, NEW feed \in Seq(A),
         \A i \in DOMAIN feed : Room(SubSeq(feed, 1, i - 1), feed[i])
  PROVE  Len(feed) <= Limit /\ WithinCaps(feed)
  <1>1. DOMAIN feed = 1..Len(feed) /\ Len(feed) \in Nat
    OBVIOUS
  <1>2. ASSUME NEW i \in 1..Len(feed)
        PROVE  /\ Len(SubSeq(feed, 1, i - 1)) = i - 1
               /\ DOMAIN SubSeq(feed, 1, i - 1) = 1..(i - 1)
               /\ \A j \in 1..(i - 1) : SubSeq(feed, 1, i - 1)[j] = feed[j]
    <2>1. i - 1 \in Nat /\ \A j \in 1..(i - 1) : feed[j] \in A
      BY <1>1
    <2>2. /\ SubSeq(feed, 1, i - 1) \in Seq(A)
          /\ Len(SubSeq(feed, 1, i - 1)) = IF 1 <= i - 1 THEN (i - 1) - 1 + 1 ELSE 0
          /\ \A j \in 1..((i - 1) - 1 + 1) : SubSeq(feed, 1, i - 1)[j] = feed[1 + j - 1]
      BY <2>1, SubSeqProperties
    <2>. QED BY <2>1, <2>2
  <1>3. Len(feed) <= Limit
    <2>1. CASE Len(feed) = 0
      BY <2>1, Numbers
    <2>2. CASE Len(feed) # 0
      <3>1. Len(feed) \in 1..Len(feed)
        BY <1>1, <2>2
      <3>2. Len(SubSeq(feed, 1, Len(feed) - 1)) < Limit
        BY <1>1, <3>1 DEF Room
      <3>. QED BY <1>1, <1>2, <3>1, <3>2, Numbers
    <2>. QED BY <2>1, <2>2
  <1>4. ASSUME NEW i \in DOMAIN feed
        PROVE  /\ Cardinality(OfSource(feed, Source(feed[i]))) <= MaxPerSource
               /\ Cardinality(OfTopic(feed, Topic(feed[i]))) <= MaxPerTopic
    <2>1. Cardinality(OfSource(feed, Source(feed[i]))) <= MaxPerSource
      <3>. DEFINE S == OfSource(feed, Source(feed[i]))
      <3>1. S \in SUBSET (1..Len(feed)) /\ i \in S
        BY <1>1, <1>4 DEF OfSource
      <3>2. ASSUME NEW k \in S PROVE Cardinality({j \in S : j < k}) < MaxPerSource
        <4>1. k \in 1..Len(feed) /\ Source(feed[k]) = Source(feed[i])
          BY <1>1 DEF OfSource
        <4>2. OfSource(SubSeq(feed, 1, k - 1), Source(feed[k]))
                = {j \in 1..(k - 1) : Source(feed[j]) = Source(feed[i])}
          BY <1>2, <4>1 DEF OfSource
        <4>3. {j \in 1..(k - 1) : Source(feed[j]) = Source(feed[i])} = {j \in S : j < k}
          BY <1>1, <4>1 DEF OfSource
        <4>. QED BY <1>1, <4>1, <4>2, <4>3 DEF Room
      <3>. HIDE DEF S
      <3>3. Cardinality(S) <= MaxPerSource
        BY <1>1, <3>1, <3>2, UpToTheLast, Numbers
      <3>. QED BY <3>3 DEF S
    <2>2. Cardinality(OfTopic(feed, Topic(feed[i]))) <= MaxPerTopic
      <3>. DEFINE S == OfTopic(feed, Topic(feed[i]))
      <3>1. S \in SUBSET (1..Len(feed)) /\ i \in S
        BY <1>1, <1>4 DEF OfTopic
      <3>2. ASSUME NEW k \in S PROVE Cardinality({j \in S : j < k}) < MaxPerTopic
        <4>1. k \in 1..Len(feed) /\ Topic(feed[k]) = Topic(feed[i])
          BY <1>1 DEF OfTopic
        <4>2. OfTopic(SubSeq(feed, 1, k - 1), Topic(feed[k]))
                = {j \in 1..(k - 1) : Topic(feed[j]) = Topic(feed[i])}
          BY <1>2, <4>1 DEF OfTopic
        <4>3. {j \in 1..(k - 1) : Topic(feed[j]) = Topic(feed[i])} = {j \in S : j < k}
          BY <1>1, <4>1 DEF OfTopic
        <4>. QED BY <1>1, <4>1, <4>2, <4>3 DEF Room
      <3>. HIDE DEF S
      <3>3. Cardinality(S) <= MaxPerTopic
        BY <1>1, <3>1, <3>2, UpToTheLast, Numbers
      <3>. QED BY <3>3 DEF S
    <2>. QED BY <2>1, <2>2
  <1>. QED BY <1>3, <1>4 DEF WithinCaps

\* A feed of the re-ranker: of the candidates, not empty, not too long, within the caps.
LEMMA Reranked ==
  ASSUME NEW candidates, IsFiniteSet(candidates), candidates # {},
         NEW items \in Scorings(candidates), NEW feed \in Rerank(items)
  PROVE  /\ feed \in Seq(candidates) /\ Len(feed) \in 1..Limit
         /\ WithinCaps(feed)
  <1>1. PICK S \in SUBSET candidates, E \in SUBSET candidates :
           /\ S = candidates \/ Cardinality(S) = 3 * Limit
           /\ items = (S \X {0}) \cup (E \X {1})
    BY DEF Scorings
  <1>2. \A x \in items : x[1] \in candidates
    BY <1>1
  <1>3. IsFiniteSet(items)
    <2>1. IsFiniteSet(S) /\ IsFiniteSet(E)
      BY FS_Subset
    <2>2. IsFiniteSet({0}) /\ IsFiniteSet({1})
      BY FS_Singleton
    <2>. QED BY <1>1, <2>1, <2>2, FS_Product, FS_Union
  <1>4. items # {}
    <2>1. S # {}
      <3>1. CASE S = candidates
        BY <3>1
      <3>2. CASE Cardinality(S) = 3 * Limit
        BY <3>2, FS_EmptySet, Numbers
      <3>. QED BY <1>1, <3>1, <3>2
    <2>2. PICK a \in S : TRUE
      BY <2>1
    <2>3. <<a, 0>> \in S \X {0}
      OBVIOUS
    <2>. QED BY <1>1, <2>3
  <1>5. PICK r \in UNION {SetToSeqs(T) : T \in {U \in SUBSET items : Cardinality(U) <= Limit}} :
           /\ feed = [i \in DOMAIN r |-> r[i][1]]
           /\ \A i \in DOMAIN r : Room(SubSeq(feed, 1, i - 1), r[i][1])
           /\ \A x \in items \ ToSet(r) : ~Room(feed, x[1])
    BY DEF Rerank
  <1>6. r \in Seq(items)
    <2>1. PICK T \in SUBSET items : r \in SetToSeqs(T)
      BY <1>5
    <2>2. Cardinality(T) \in Nat
      BY <1>3, FS_Subset, FS_CardinalityType
    <2>3. r \in [1..Cardinality(T) -> T]
      BY <2>1 DEF SetToSeqs
    <2>. QED BY <2>2, <2>3
  <1>7. feed \in Seq(candidates) /\ Len(feed) = Len(r)
    <2>1. Len(r) \in Nat /\ DOMAIN r = 1..Len(r)
      BY <1>6
    <2>2. feed \in [1..Len(r) -> candidates]
      BY <1>2, <1>5, <1>6, <2>1
    <2>. QED BY <2>1, <2>2
  <1>8. Len(r) # 0
    <2>. SUFFICES ASSUME Len(r) = 0 PROVE FALSE
      OBVIOUS
    <2>1. ToSet(r) = {}
      BY <1>6 DEF ToSet
    <2>2. PICK x \in items : ~Room(feed, x[1])
      BY <1>4, <1>5, <2>1
    <2>3. OfSource(feed, Source(x[1])) = {} /\ OfTopic(feed, Topic(x[1])) = {}
      BY <1>7 DEF OfSource, OfTopic
    <2>. QED BY <1>7, <2>2, <2>3, FS_EmptySet, Numbers DEF Room
  <1>9. \A i \in DOMAIN feed : Room(SubSeq(feed, 1, i - 1), feed[i])
    BY <1>5, <1>6, <1>7
  <1>10. Len(feed) <= Limit /\ WithinCaps(feed)
    BY <1>7, <1>9, RoomKeepsCaps
  <1>. QED BY <1>6, <1>7, <1>8, <1>10, Numbers

\* Where an article of the feed that is not injected was in it.
Place(feed, trending, p) ==
    p - Least(p \div (EveryN + 1), Least(Len(trending), Len(feed) \div EveryN))

Injected(feed, trending, p) ==
    /\ p % (EveryN + 1) = 0
    /\ p \div (EveryN + 1) <= Least(Len(trending), Len(feed) \div EveryN)

\* Division by EveryN + 1, whose quotients n are the numbers of trending articles before.
LEMMA Division ==
  ASSUME NEW p \in Nat
  PROVE  /\ p \div (EveryN + 1) \in Nat /\ p % (EveryN + 1) \in 0..EveryN
         /\ p = (p \div (EveryN + 1)) * EveryN + p \div (EveryN + 1) + (p % (EveryN + 1))
  <1>. DEFINE N == EveryN + 1
  <1>1. N \in Nat \ {0}
    BY Numbers
  <1>2. p = N * (p \div N) + (p % N) /\ 0 <= p % N /\ p % N < N /\ p \div N \in Nat
    BY <1>1
  <1>. QED BY <1>2, Numbers

\* The page without the trending articles has places of the feed, each once.
LEMMA PlacesApart ==
  ASSUME NEW A, NEW feed \in Seq(A), NEW B, NEW trending \in Seq(B),
         NEW p \in 1..(Len(feed) + Least(Len(trending), Len(feed) \div EveryN)),
         NEW o \in 1..(Len(feed) + Least(Len(trending), Len(feed) \div EveryN)),
         p < o, ~Injected(feed, trending, p), ~Injected(feed, trending, o)
  PROVE  Place(feed, trending, p) < Place(feed, trending, o)
  <1>. DEFINE n == Least(Len(trending), Len(feed) \div EveryN)
              q == p \div (EveryN + 1)
              r == p % (EveryN + 1)
              t == o \div (EveryN + 1)
              u == o % (EveryN + 1)
  <1>1. Len(feed) \div EveryN \in Nat /\ n \in Nat
    BY Numbers DEF Least
  <1>2. q \in Nat /\ r \in 0..EveryN /\ p = q * EveryN + q + r
    BY Division
  <1>3. t \in Nat /\ u \in 0..EveryN /\ o = t * EveryN + t + u
    BY Division
  <1>4. r = 0 => q > n
    BY <1>1, <1>2 DEF Injected
  <1>5. u = 0 => t > n
    BY <1>1, <1>3 DEF Injected
  <1>. HIDE DEF n, q, r, t, u
  <1>6. q <= t
    <2>. SUFFICES ASSUME q >= t + 1 PROVE FALSE
      BY <1>2, <1>3
    <2>1. q * EveryN >= t * EveryN + EveryN
      BY <1>2, <1>3, Numbers
    <2>. QED BY <1>2, <1>3, <2>1, Numbers
  <1>7. p - Least(q, n) < o - Least(t, n)
    <2>1. CASE q = t
      BY <1>1, <1>2, <1>3, <2>1 DEF Least
    <2>2. CASE q < t
      <3>. DEFINE k == t - q - 1
      <3>1. k \in Nat /\ t = q + 1 + k
        BY <1>2, <1>3, <2>2
      <3>. HIDE DEF k
      <3>2. t * EveryN = q * EveryN + EveryN + k * EveryN /\ k * EveryN \in Nat
        BY <1>2, <3>1, Numbers
      <3>3. o - p = 1 + k + k * EveryN + EveryN + u - r
        BY <1>2, <1>3, <3>1, <3>2, Numbers
      <3>4. CASE u = 0
        BY <1>1, <1>2, <1>3, <1>5, <3>1, <3>2, <3>3, <3>4, Numbers DEF Least
      <3>5. CASE u >= 1
        BY <1>1, <1>2, <1>3, <3>1, <3>2, <3>3, <3>5, Numbers DEF Least
      <3>. QED BY <1>3, <3>4, <3>5
    <2>. QED BY <1>2, <1>3, <1>6, <2>1, <2>2
  <1>. QED BY <1>7 DEF Place, n, q, t

\* inject_trending keeps the feed, from its first article on, and adds trending ones.
MixOf(A, B, feed, trending, mixed) ==
    /\ mixed \in Seq(A \cup B) /\ Len(mixed) >= 1 /\ mixed[1] \in A
    /\ \A p \in DOMAIN mixed : mixed[p] \notin B =>
         /\ ~Injected(feed, trending, p)
         /\ Place(feed, trending, p) \in 1..Len(feed)
         /\ mixed[p] = feed[Place(feed, trending, p)]

LEMMA Mixed ==
  ASSUME NEW A, NEW feed \in Seq(A), Len(feed) >= 1, NEW B, NEW trending \in Seq(B)
  PROVE  MixOf(A, B, feed, trending, InjectTrending(feed, trending))
  <1>. PICK mixed : mixed = InjectTrending(feed, trending)
    OBVIOUS
  <1>. DEFINE n == Least(Len(trending), Len(feed) \div EveryN)
  <1>1. n \in Nat /\ n <= Len(trending) /\ Len(feed) \div EveryN \in Nat
        /\ n * EveryN <= Len(feed)
    <2>1. /\ Len(feed) \div EveryN \in Nat
          /\ Len(feed) = EveryN * (Len(feed) \div EveryN) + (Len(feed) % EveryN)
          /\ Len(feed) % EveryN \in Nat
      BY Numbers
    <2>2. n \in Nat /\ n <= Len(feed) \div EveryN /\ n <= Len(trending)
      BY <2>1 DEF Least
    <2>3. EveryN * (Len(feed) \div EveryN) <= Len(feed)
      BY <2>1, Numbers
    <2>. HIDE DEF n
    <2>4. \A m \in Nat : n <= m => n * EveryN <= EveryN * m
      BY <2>2, Numbers
    <2>. QED BY <2>1, <2>2, <2>3, <2>4, Numbers
  <1>2. mixed = [p \in 1..(Len(feed) + n) |->
                   IF Injected(feed, trending, p) THEN trending[p \div (EveryN + 1)]
                                                  ELSE feed[Place(feed, trending, p)]]
    BY DEF InjectTrending, Injected, Place
  <1>3. ASSUME NEW p \in 1..(Len(feed) + n), Injected(feed, trending, p)
        PROVE  trending[p \div (EveryN + 1)] \in B
    <2>. DEFINE q == p \div (EveryN + 1)
    <2>1. q \in Nat /\ p = q * EveryN + q /\ q <= n
      BY <1>3, Division, Numbers DEF Injected
    <2>. HIDE DEF q
    <2>2. q # 0
      BY <2>1, Numbers
    <2>3. q \in 1..Len(trending)
      BY <1>1, <2>1, <2>2
    <2>. QED BY <2>3 DEF q
  <1>4. ASSUME NEW p \in 1..(Len(feed) + n), ~Injected(feed, trending, p)
        PROVE  Place(feed, trending, p) \in 1..Len(feed)
    <2>. DEFINE q == p \div (EveryN + 1)
                r == p % (EveryN + 1)
    <2>1. q \in Nat /\ r \in 0..EveryN /\ p = q * EveryN + q + r
      BY Division
    <2>2. r = 0 => q > n
      BY <1>1, <1>4, <2>1 DEF Injected
    <2>3. Place(feed, trending, p) = p - Least(q, n)
      BY DEF Place
    <2>. HIDE DEF q, r, n
    <2>4. CASE q <= n
      <3>1. Least(q, n) = q
        BY <1>1, <2>1, <2>4 DEF Least
      <3>2. q * EveryN + EveryN <= Len(feed) \/ q = n
        <4>1. ASSUME q + 1 <= n PROVE q * EveryN + EveryN <= n * EveryN
          BY <1>1, <2>1, <4>1, Numbers
        <4>. QED BY <1>1, <2>1, <2>4, <4>1, Numbers
      <3>. QED BY <1>1, <2>1, <2>2, <2>3, <2>4, <3>1, <3>2, Numbers
    <2>5. CASE q > n
      <3>1. Least(q, n) = n
        BY <1>1, <2>1, <2>5 DEF Least
      <3>2. q * EveryN \in Nat
        BY <2>1, Numbers
      <3>. QED BY <1>1, <2>1, <2>3, <2>5, <3>1, <3>2
    <2>. QED BY <1>1, <2>1, <2>4, <2>5
  <1>5. ~Injected(feed, trending, 1)
    <2>1. 1 \div (EveryN + 1) = 0 /\ 1 % (EveryN + 1) = 1
      BY Numbers
    <2>. QED BY <2>1 DEF Injected
  <1>6. 1 \in 1..(Len(feed) + n)
    BY <1>1
  <1>. HIDE DEF n
  <1>7. DOMAIN mixed = 1..(Len(feed) + n) /\ Len(feed) + n \in Nat
    BY <1>1, <1>2
  <1>8. \A p \in DOMAIN mixed : mixed[p] \in A \cup B
    BY <1>2, <1>3, <1>4, <1>7
  <1>9. mixed \in [1..(Len(feed) + n) -> A \cup B]
    BY <1>2, <1>7, <1>8
  <1>10. mixed \in Seq(A \cup B) /\ Len(mixed) = Len(feed) + n
    BY <1>7, <1>9
  <1>11. mixed[1] \in A
    BY <1>2, <1>4, <1>5, <1>6
  <1>12. ASSUME NEW p \in DOMAIN mixed
         PROVE  mixed[p] \notin B =>
                  /\ ~Injected(feed, trending, p)
                  /\ Place(feed, trending, p) \in 1..Len(feed)
                  /\ mixed[p] = feed[Place(feed, trending, p)]
    BY <1>2, <1>3, <1>4, <1>7
  <1>. QED BY <1>1, <1>10, <1>11, <1>12 DEF MixOf

\* Places of a page that are places of the feed are no more than those.
LEMMA PlacesCount ==
  ASSUME NEW A, NEW feed \in Seq(A), NEW B, NEW trending \in Seq(B),
         NEW Y \in SUBSET (DOMAIN feed),
         NEW X \in SUBSET (1..(Len(feed) + Least(Len(trending), Len(feed) \div EveryN))),
         \A p \in X : ~Injected(feed, trending, p) /\ Place(feed, trending, p) \in Y
  PROVE  Cardinality(X) <= Cardinality(Y)
  <1>. DEFINE f == [p \in X |-> Place(feed, trending, p)]
  <1>1. f \in [X -> Y]
    OBVIOUS
  <1>2. ASSUME NEW p \in X, NEW o \in X, p # o PROVE f[p] # f[o]
    <2>1. p \in Int /\ o \in Int /\ f[p] \in Int /\ f[o] \in Int
      BY <1>1
    <2>2. CASE p < o
      BY <2>1, <2>2, PlacesApart
    <2>3. CASE o < p
      BY <2>1, <2>3, PlacesApart
    <2>. QED BY <1>2, <2>1, <2>2, <2>3
  <1>. HIDE DEF f
  <1>3. f \in Injection(X, Y)
    BY <1>1, <1>2 DEF Injection, IsInjective
  <1>4. IsFiniteSet(Y)
    BY FS_Interval, FS_Subset
  <1>. QED BY <1>3, <1>4, FS_Injection

\* A page that get_feed makes of candidates begins with one of them, has only them and
\* trending articles, and keeps the caps on all but trending articles.
LEMMA PageMade ==
  ASSUME NEW candidates \in SUBSET Articles, IsFiniteSet(candidates), candidates # {},
         IsFiniteSet(present),
         NEW items \in Scorings(candidates), NEW page \in Pages(items)
  PROVE  /\ page \in Seq(candidates \cup (Trending \cap present))
         /\ Len(page) \in 1..Limit /\ page[1] \in candidates
         /\ \A a \in Articles :
              LET ranked == {i \in DOMAIN page : page[i] \notin Trending}
              IN  /\ Cardinality(ranked \cap OfSource(page, Source(a))) <= MaxPerSource
                  /\ Cardinality(ranked \cap OfTopic(page, Topic(a))) <= MaxPerTopic
  <1>i. PICK feed \in Rerank(items) :
           page \in {PageOf(InjectTrending(feed, trending)) :
                       trending \in SetToSeqs((Trending \cap present) \ ToSet(feed))}
    BY DEF Pages
  <1>1. PICK trending \in SetToSeqs((Trending \cap present) \ ToSet(feed)) :
           page = PageOf(InjectTrending(feed, trending))
    BY <1>i
  <1>iii. PICK mixed : mixed = InjectTrending(feed, trending)
    OBVIOUS
  <1>. DEFINE B == (Trending \cap present) \ ToSet(feed)
              ranked == {i \in DOMAIN page : page[i] \notin Trending}
              n == Least(Len(trending), Len(feed) \div EveryN)
  <1>2. feed \in Seq(candidates) /\ Len(feed) \in 1..Limit /\ WithinCaps(feed)
    BY <1>i, Reranked
  <1>3. trending \in Seq(B)
    <2>1. IsFiniteSet(B)
      BY FS_Subset
    <2>2. Cardinality(B) \in Nat
      BY <2>1, FS_CardinalityType
    <2>. HIDE DEF B
    <2>3. trending \in [1..Cardinality(B) -> B]
      BY <1>1 DEF SetToSeqs, B
    <2>. QED BY <2>2, <2>3
  <1>4. /\ mixed \in Seq(candidates \cup B) /\ Len(mixed) >= 1 /\ mixed[1] \in candidates
        /\ \A p \in DOMAIN mixed : mixed[p] \notin B =>
             /\ ~Injected(feed, trending, p)
             /\ Place(feed, trending, p) \in 1..Len(feed)
             /\ mixed[p] = feed[Place(feed, trending, p)]
    <2>1. Len(feed) >= 1
      BY <1>2
    <2>. HIDE DEF B
    <2>2. MixOf(candidates, B, feed, trending, mixed)
      BY <1>iii, <1>2, <1>3, <2>1, Mixed
    <2>. QED BY <2>2 DEF MixOf
  <1>5. DOMAIN mixed = 1..(Len(feed) + n)
    BY <1>iii DEF InjectTrending
  <1>. HIDE DEF B, n
  <1>6. /\ page \in Seq(candidates \cup B) /\ Len(page) = Least(Limit, Len(mixed))
        /\ \A i \in DOMAIN page : i \in DOMAIN mixed /\ page[i] = mixed[i]
    BY <1>iii, <1>1, <1>4, PageOfPrefix
  <1>7. Len(mixed) \in Nat
    BY <1>4
  <1>8. Len(page) \in 1..Limit /\ page[1] \in candidates
    BY <1>4, <1>6, <1>7, Numbers DEF Least
  <1>9. ASSUME NEW i \in ranked
        PROVE  /\ i \in 1..(Len(feed) + n) /\ ~Injected(feed, trending, i)
               /\ Place(feed, trending, i) \in 1..Len(feed)
               /\ page[i] = feed[Place(feed, trending, i)]
    BY <1>4, <1>5, <1>6 DEF B
  <1>10. ASSUME NEW a \in Articles
         PROVE  /\ Cardinality(ranked \cap OfSource(page, Source(a))) <= MaxPerSource
                /\ Cardinality(ranked \cap OfTopic(page, Topic(a))) <= MaxPerTopic
    <2>1. ASSUME NEW X \in SUBSET ranked, NEW Y \in SUBSET (DOMAIN feed), NEW m \in Nat,
                 \A i \in X : Place(feed, trending, i) \in Y,
                 \A y \in Y : Cardinality(Y) <= m
          PROVE  Cardinality(X) <= m
      <3>1. CASE X = {}
        BY <3>1, FS_EmptySet
      <3>2. ASSUME NEW i \in X PROVE Cardinality(Y) <= m
        BY <2>1
      <3>3. Cardinality(X) <= Cardinality(Y)
        BY <1>2, <1>3, <1>9, <2>1, PlacesCount DEF n
      <3>4. IsFiniteSet(X) /\ IsFiniteSet(Y)
        <4>1. IsFiniteSet(DOMAIN feed) /\ IsFiniteSet(DOMAIN page)
          BY <1>2, <1>8, <1>6, FS_Interval
        <4>. QED BY <4>1, FS_Subset
      <3>5. Cardinality(X) \in Nat /\ Cardinality(Y) \in Nat
        BY <3>4, FS_CardinalityType
      <3>. QED BY <3>1, <3>2, <3>3, <3>5
    <2>. HIDE DEF ranked
    <2>2. /\ \A i \in ranked \cap OfSource(page, Source(a)) :
                Place(feed, trending, i) \in OfSource(feed, Source(a))
          /\ \A i \in ranked \cap OfTopic(page, Topic(a)) :
                Place(feed, trending, i) \in OfTopic(feed, Topic(a))
      BY <1>9 DEF OfSource, OfTopic
    <2>3. /\ \A y \in OfSource(feed, Source(a)) :
                Cardinality(OfSource(feed, Source(a))) <= MaxPerSource
          /\ \A y \in OfTopic(feed, Topic(a)) :
                Cardinality(OfTopic(feed, Topic(a))) <= MaxPerTopic
      <3>1. ASSUME NEW y \in OfSource(feed, Source(a))
            PROVE  Cardinality(OfSource(feed, Source(a))) <= MaxPerSource
        <4>1. y \in DOMAIN feed /\ Source(feed[y]) = Source(a)
          BY DEF OfSource
        <4>2. Cardinality(OfSource(feed, Source(feed[y]))) <= MaxPerSource
          BY <1>2, <4>1 DEF WithinCaps
        <4>. QED BY <4>1, <4>2
      <3>2. ASSUME NEW y \in OfTopic(feed, Topic(a))
            PROVE  Cardinality(OfTopic(feed, Topic(a))) <= MaxPerTopic
        <4>1. y \in DOMAIN feed /\ Topic(feed[y]) = Topic(a)
          BY DEF OfTopic
        <4>2. Cardinality(OfTopic(feed, Topic(feed[y]))) <= MaxPerTopic
          BY <1>2, <4>1 DEF WithinCaps
        <4>. QED BY <4>1, <4>2
      <3>. QED BY <3>1, <3>2
    <2>4. OfSource(feed, Source(a)) \subseteq DOMAIN feed
          /\ OfTopic(feed, Topic(a)) \subseteq DOMAIN feed
      BY DEF OfSource, OfTopic
    <2>5. Cardinality(ranked \cap OfSource(page, Source(a))) <= MaxPerSource
      BY <2>1, <2>2, <2>3, <2>4, Numbers
    <2>6. Cardinality(ranked \cap OfTopic(page, Topic(a))) <= MaxPerTopic
      BY <2>1, <2>2, <2>3, <2>4, Numbers
    <2>. QED BY <2>5, <2>6
  <1>11. page \in Seq(candidates \cup (Trending \cap present))
    BY <1>6 DEF B
  <1>. QED BY <1>8, <1>10, <1>11

\* The cursor of a page is the date of its oldest article.
LEMMA CursorOfPage ==
  ASSUME NEW page \in Seq(Articles), page # <<>>
  PROVE  /\ NextCursor(page) \in 1..Latest
         /\ \A k \in DOMAIN page : NextCursor(page) <= PublishedAt(page[k])
  <1>. DEFINE D == {PublishedAt(page[k]) : k \in DOMAIN page}
  <1>1. D \subseteq Nat /\ \A d \in D : d \in 1..Latest
    BY Numbers
  <1>2. D # {}
    OBVIOUS
  <1>3. PICK d \in D : \A e \in D : d <= e
    BY <1>1, <1>2, Oldest
  <1>4. /\ d \in 1..Latest /\ \E k \in DOMAIN page : PublishedAt(page[k]) = d
        /\ \A k \in DOMAIN page : PublishedAt(page[k]) >= d
    BY <1>1, <1>3
  <1>5. /\ NextCursor(page) \in 1..Latest
        /\ \A k \in DOMAIN page : PublishedAt(page[k]) >= NextCursor(page)
    BY <1>4 DEF NextCursor
  <1>. QED BY <1>5, Numbers

\* A page of the public list: sorted, cut, with the date of its last article when rows
\* are left, which are no newer.
LEMMA PageListed ==
  ASSUME NEW rows \in SUBSET Articles, IsFiniteSet(rows), NEW before \in 1..Now,
         NEW p \in Choosable, NEW q \in Listings(rows, before, p)
  PROVE  /\ PageOf(q) \in Seq(rows) /\ Len(PageOf(q)) <= Limit
         /\ NextOf(q) \in 0..Latest /\ NextOf(q) < before
         /\ \A i \in DOMAIN PageOf(q) :
              PublishedAt(PageOf(q)[i]) < before /\ PublishedAt(PageOf(q)[i]) >= NextOf(q)
         /\ \A a \in Listable(rows, before, p) \ ToSet(PageOf(q)) :
              /\ NextOf(q) # Null /\ PageOf(q) # <<>>
              /\ \/ PublishedAt(a) < NextOf(q)
                 \/ \E b \in rows \ {a} : PublishedAt(b) = PublishedAt(a)
  <1>. DEFINE S == Listable(rows, before, p)
  <1>1. /\ S \subseteq rows /\ IsFiniteSet(S) /\ Cardinality(S) \in Nat
        /\ \A a \in S : PublishedAt(a) < before
    BY FS_Subset, FS_CardinalityType DEF Listable
  <1>. HIDE DEF S
  <1>2. /\ q \in [1..Cardinality(S) -> S]
        /\ \A i, j \in 1..Cardinality(S) : i # j => q[i] # q[j]
        /\ \A i, j \in DOMAIN q : i < j => PublishedAt(q[i]) >= PublishedAt(q[j])
    BY DEF Listings, SetToSeqs, S
  <1>3. q \in Seq(S) /\ Len(q) = Cardinality(S) /\ DOMAIN q = 1..Len(q) /\ Len(q) \in Nat
    BY <1>1, <1>2
  <1>4. \A a \in S : \E i \in DOMAIN q : q[i] = a
    <2>1. q \in Injection(1..Cardinality(S), S)
      BY <1>2 DEF Injection, IsInjective
    <2>2. Cardinality(1..Cardinality(S)) = Cardinality(S)
      BY <1>1, FS_Interval
    <2>3. q \in Surjection(1..Cardinality(S), S)
      BY <1>1, <2>1, <2>2, FS_Injection
    <2>. QED BY <1>2, <2>3 DEF Surjection
  <1>5. /\ PageOf(q) \in Seq(S) /\ Len(PageOf(q)) = Least(Limit, Len(q))
        /\ \A i \in DOMAIN PageOf(q) : i \in DOMAIN q /\ PageOf(q)[i] = q[i]
    BY <1>3, PageOfPrefix
  <1>6. Len(PageOf(q)) <= Limit /\ Len(PageOf(q)) \in Nat
    BY <1>3, <1>5, Numbers DEF Least
  <1>7. PageOf(q) \in Seq(rows)
    BY <1>1, <1>5
  <1>8. \A i \in DOMAIN q : q[i] \in S /\ PublishedAt(q[i]) \in 1..Latest
                            /\ PublishedAt(q[i]) < before
    BY <1>1, <1>3, Numbers
  <1>9. CASE Len(q) <= Limit
    <2>1. NextOf(q) = 0
      BY <1>3, <1>9, Numbers DEF NextOf
    <2>2. Len(PageOf(q)) = Len(q)
      BY <1>3, <1>5, <1>9, Numbers DEF Least
    <2>3. \A a \in S : a \in ToSet(PageOf(q))
      BY <1>3, <1>4, <1>5, <2>2 DEF ToSet
    <2>. QED BY <1>5, <1>6, <1>7, <1>8, <2>1, <2>3, Numbers DEF S
  <1>10. CASE Len(q) > Limit
    <2>1. NextOf(q) = PublishedAt(q[Limit]) /\ Limit \in DOMAIN q
      BY <1>3, <1>10, Numbers DEF NextOf
    <2>2. Len(PageOf(q)) = Limit /\ DOMAIN PageOf(q) = 1..Limit
      BY <1>3, <1>5, <1>6, <1>10, Numbers DEF Least
    <2>3. ASSUME NEW i \in DOMAIN PageOf(q)
          PROVE  PublishedAt(PageOf(q)[i]) < before /\ PublishedAt(PageOf(q)[i]) >= NextOf(q)
      <3>1. i \in DOMAIN q /\ PageOf(q)[i] = q[i] /\ i <= Limit /\ i \in Nat
        BY <1>5, <2>2, Numbers
      <3>2. PublishedAt(q[i]) >= PublishedAt(q[Limit])
        BY <1>2, <1>8, <2>1, <3>1, Numbers
      <3>. QED BY <1>8, <2>1, <3>1, <3>2
    <2>4. ASSUME NEW a \in S, a \notin ToSet(PageOf(q))
          PROVE  \/ PublishedAt(a) < NextOf(q)
                 \/ \E b \in rows \ {a} : PublishedAt(b) = PublishedAt(a)
      <3>1. PICK i \in DOMAIN q : q[i] = a
        BY <1>4
      <3>2. ~(i <= Limit)
        <4>. SUFFICES ASSUME i <= Limit PROVE FALSE
          OBVIOUS
        <4>1. i \in 1..Limit
          BY <1>3, Numbers
        <4>2. PageOf(q)[i] = a
          BY <1>5, <2>2, <3>1, <4>1
        <4>. QED BY <2>2, <2>4, <4>1, <4>2 DEF ToSet
      <3>3. Limit < i /\ i # Limit
        BY <1>3, <3>2, Numbers
      <3>4. PublishedAt(q[Limit]) >= PublishedAt(a)
        BY <1>2, <2>1, <3>1, <3>3
      <3>5. q[Limit] # a /\ q[Limit] \in rows
        BY <1>1, <1>2, <1>3, <1>8, <2>1, <3>1, <3>3
      <3>6. PublishedAt(q[Limit]) \in Nat /\ PublishedAt(a) \in Nat
        BY <1>8, <2>1, <3>1, Numbers
      <3>. QED BY <2>1, <3>4, <3>5, <3>6
    <2>5. NextOf(q) \in 1..Latest /\ NextOf(q) < before
      BY <1>8, <2>1
    <2>6. PageOf(q) # <<>>
      BY <2>2, Numbers
    <2>. QED BY <1>6, <1>7, <2>3, <2>4, <2>5, <2>6, Numbers DEF S
  <1>. QED BY <1>3, <1>9, <1>10, Numbers

-----------------------------------------------------------------------------
(* The invariant *)

Call == [at : CallStates, before : 1..Now, pillar : Choosable, reset : BOOLEAN,
         page : Seq(Articles), next : 0..Latest, new : SUBSET Articles]

\* The caps of mmr.py on a page, the trending articles left out.
CapsOn(page) ==
    \A a \in Articles :
        LET ranked == {i \in DOMAIN page : page[i] \notin Trending}
        IN  /\ Cardinality(ranked \cap OfSource(page, Source(a))) <= MaxPerSource
            /\ Cardinality(ranked \cap OfTopic(page, Topic(a))) <= MaxPerTopic

\* A call has a page once it has made one, and its cursor goes back in time.  What a
\* reader was answered is recorded, or was listed in the order of the dates.
Fit(call, stored, recorded, anyone) ==
    /\ call \in Call
    /\ call.new \subseteq ToSet(call.page) /\ ToSet(call.page) \subseteq stored
    /\ Len(call.page) <= Limit
    /\ call.at \in {"idle", "asked"} => call.page = <<>> /\ call.next = Null /\ call.new = {}
    /\ call.next < call.before
    /\ IF anyone
       THEN /\ call.at # "picked"
            /\ call.at = "answered" =>
                 \A a \in ToSet(call.page) :
                    PublishedAt(a) < call.before /\ PublishedAt(a) >= call.next
       ELSE /\ call.at = "answered" => ToSet(call.page) \subseteq recorded
            /\ CapsOn(call.page)

CallsOK == calls \in [Calls -> Call] /\ \A c \in Calls : Fit(calls[c], present, seen, public)

StoreOK ==
    /\ present \subseteq Articles /\ IsFiniteSet(present) /\ seen \subseteq present
    /\ public \in BOOLEAN

\* The call load() awaits was made from the cursor as it is; a reset has emptied the list.
PositionOK ==
    /\ pillar \in Choosable /\ cursor \in 0..Latest /\ exhausted \in BOOLEAN
    /\ current \in Calls \cup {None} /\ (exhausted => current = None)
    /\ list \subseteq present /\ due \subseteq present
    /\ ~public => list \subseteq seen
    /\ current # None =>
         /\ calls[current].at # "idle"
         /\ calls[current].before = IF cursor = Null THEN Now ELSE cursor
         /\ calls[current].reset => cursor = Null /\ list = {}

\* The pages still to come that count an article as new.
Promised(a) == {c \in Calls : calls[c].at = "picked" /\ a \in calls[c].new}

\* Every call gives an article once; once it is recorded, no other call picks it as new.
ServedOK ==
    /\ served \in [Articles -> 0..Many]
    /\ \A a \in Articles :
         /\ a \notin seen => served[a] = 0
         /\ served[a] + Cardinality(Promised(a)) <= Cardinality(Calls)

\* The public list goes from the newest article to the cursor.
ListOK ==
    /\ \A a \in list : PublishedAt(a) >= cursor
    /\ cursor = Null /\ ~exhausted => list = {}

OfPillar(a, p) == p = All \/ p \in TagPillars(a)

Tied(a) == \E b \in present \ {a} : PublishedAt(b) = PublishedAt(a)

\* What is due and not listed is older than the cursor, and of the pillar of the page that
\* is loading and of the one to follow it; it is on that page, or older than its cursor.
DueOK ==
    /\ ~exhausted => \A a \in due : OfPillar(a, pillar)
    /\ current # None => \A a \in due : OfPillar(a, calls[current].pillar)
    /\ \A a \in due \ list : Tied(a) \/ (~exhausted /\ (cursor # Null => PublishedAt(a) < cursor))
    /\ current # None /\ calls[current].at = "answered" =>
         \A a \in due \ (list \cup ToSet(calls[current].page)) :
            \/ Tied(a)
            \/ /\ calls[current].page # <<>> /\ calls[current].next # Null
               /\ PublishedAt(a) < calls[current].next

IInv == StoreOK /\ CallsOK /\ PositionOK /\ ServedOK /\ (public => ListOK /\ DueOK)

LEMMA CallCount ==
  /\ IsFiniteSet(Calls) /\ Cardinality(Calls) \in Nat /\ Many = Cardinality(Calls) + 1
  /\ Many \in Nat
  BY FeedAssumption, FS_CardinalityType DEF Many

LEMMA NoCaps == CapsOn(<<>>)
  <1>1. \A X : {} \cap X = {}
    OBVIOUS
  <1>2. {i \in DOMAIN <<>> : <<>>[i] \notin Trending} = {}
    OBVIOUS
  <1>. QED BY <1>1, <1>2, FS_EmptySet, Numbers DEF CapsOn

LEMMA NoCallFits == ASSUME NEW P, NEW S, NEW b PROVE Fit(NoCall, P, S, b)
  <1>1. NoCall \in Call
    BY Numbers DEF NoCall, Call, CallStates, Choosable
  <1>2. ToSet(<<>>) = {} /\ Len(<<>>) = 0
    BY DEF ToSet
  <1>. QED BY <1>1, <1>2, NoCaps, Numbers DEF Fit, NoCall

LEMMA Initially == Init => IInv
  <1>. SUFFICES ASSUME Init PROVE IInv
    OBVIOUS
  <1>. USE DEF Init
  <1>1. StoreOK
    BY FS_EmptySet DEF StoreOK
  <1>2. CallsOK
    <2>1. NoCall \in Call
      BY NoCallFits DEF Fit
    <2>. QED BY <2>1, NoCallFits DEF CallsOK
  <1>3. PositionOK
    <2>1. pillar \in Choosable
      BY DEF Choosable
    <2>2. cursor \in 0..Latest
      BY Numbers
    <2>3. exhausted \in BOOLEAN
      OBVIOUS
    <2>4. list \subseteq present /\ due \subseteq present /\ list \subseteq seen
      OBVIOUS
    <2>. QED BY <2>1, <2>2, <2>3, <2>4 DEF PositionOK
  <1>4. ServedOK
    <2>1. \A a : Promised(a) = {}
      BY DEF Promised, NoCall
    <2>. QED BY <2>1, CallCount, FS_EmptySet DEF ServedOK
  <1>5. ListOK /\ DueOK
    BY DEF ListOK, DueOK
  <1>. QED BY <1>1, <1>2, <1>3, <1>4, <1>5 DEF IInv

\* Articles and impressions are only added.
LEMMA FitStays ==
  ASSUME NEW call, NEW P, NEW S, NEW b, NEW P2, NEW S2, P \subseteq P2, S \subseteq S2,
         Fit(call, P, S, b)
  PROVE  Fit(call, P2, S2, b)
  BY DEF Fit

\* A step that changes one call.
LEMMA CallsKept ==
  ASSUME IInv, NEW c \in Calls, NEW call, calls' = [calls EXCEPT ![c] = call],
         present \subseteq present', seen \subseteq seen', public' = public,
         Fit(call, present', seen', public)
  PROVE  CallsOK'
  <1>1. call \in Call
    BY DEF Fit
  <1>2. calls' \in [Calls -> Call]
    BY <1>1 DEF IInv, CallsOK
  <1>3. ASSUME NEW d \in Calls PROVE Fit(calls'[d], present', seen', public')
    <2>1. CASE d = c
      BY <2>1 DEF IInv, CallsOK
    <2>2. CASE d # c
      <3>1. Fit(calls[d], present, seen, public) /\ calls'[d] = calls[d]
        BY <2>2 DEF IInv, CallsOK
      <3>. QED BY <3>1, FitStays
    <2>. QED BY <2>1, <2>2
  <1>. QED BY <1>2, <1>3 DEF CallsOK

\* A step that promises no page.
LEMMA ServedKept ==
  ASSUME IInv, UNCHANGED <<served, seen>>, \A a \in Articles : Promised(a)' \subseteq Promised(a)
  PROVE  ServedOK'
  <1>1. ASSUME NEW a \in Articles
        PROVE  served[a] + Cardinality(Promised(a)') <= Cardinality(Calls)
    <2>1. IsFiniteSet(Promised(a)) /\ served[a] + Cardinality(Promised(a)) <= Cardinality(Calls)
      BY CallCount, FS_Subset DEF IInv, ServedOK, Promised
    <2>2. Cardinality(Promised(a)') <= Cardinality(Promised(a))
          /\ Cardinality(Promised(a)') \in Nat /\ Cardinality(Promised(a)) \in Nat
      BY <2>1, FS_Subset, FS_CardinalityType
    <2>3. served[a] \in Nat
      BY CallCount DEF IInv, ServedOK
    <2>. QED BY <2>1, <2>2, <2>3, CallCount
  <1>. QED BY <1>1 DEF IInv, ServedOK

-----------------------------------------------------------------------------
(* Every action keeps the invariant *)

\* get_feed picks a page of candidates the user has not seen.
LEMMA PickKeeps == ASSUME IInv, NEW c \in Calls, Pick(c) PROVE IInv'
  <1>. DEFINE old == calls[c]
              candidates == Candidates(old.before, old.pillar)
              picked(page) == [old EXCEPT !.at = "picked", !.page = page,
                                          !.next = NextCursor(page), !.new = ToSet(page) \ seen]
  <1>1. /\ ~public /\ old.at = "asked"
        /\ UNCHANGED <<present, seen, served, public, pillar, cursor, exhausted, list, due,
                       current>>
    BY DEF Pick, database, position
  <1>2. old \in Call /\ Fit(old, present, seen, public)
        /\ StoreOK /\ PositionOK /\ ServedOK /\ calls \in [Calls -> Call]
    BY DEF IInv, CallsOK
  <1>3. \/ calls' = [calls EXCEPT ![c] = [old EXCEPT !.at = "answered"]]
        \/ /\ candidates # {}
           /\ \E items \in Scorings(candidates) : \E page \in Pages(items) :
                calls' = [calls EXCEPT ![c] = picked(page)]
    BY DEF Pick
  <1>4. PICK call \in Call :
           /\ calls' = [calls EXCEPT ![c] = call] /\ Fit(call, present, seen, public)
           /\ call.at \in {"picked", "answered"} /\ call.new \cap seen = {}
           /\ call.at = "answered" => call.new = {}
           /\ call.before = old.before /\ call.reset = old.reset
    <2>1. CASE calls' = [calls EXCEPT ![c] = [old EXCEPT !.at = "answered"]]
      <3>. DEFINE call == [old EXCEPT !.at = "answered"]
      <3>1. /\ call \in Call /\ call.at = "answered" /\ call.page = <<>> /\ call.new = {}
            /\ call.next = old.next /\ call.before = old.before /\ call.reset = old.reset
        BY <1>1, <1>2 DEF Call, CallStates, Fit
      <3>2. ToSet(<<>>) = {} /\ Len(<<>>) = 0
        BY DEF ToSet
      <3>. HIDE DEF call
      <3>3. Fit(call, present, seen, public)
        BY <1>1, <1>2, <3>1, <3>2, NoCaps, Numbers DEF Fit
      <3>. QED BY <2>1, <3>1, <3>3 DEF call
    <2>2. ASSUME candidates # {}, NEW items \in Scorings(candidates), NEW page \in Pages(items),
                 calls' = [calls EXCEPT ![c] = picked(page)]
          PROVE  /\ picked(page) \in Call /\ Fit(picked(page), present, seen, public)
                 /\ picked(page).at = "picked" /\ picked(page).new \cap seen = {}
                 /\ picked(page).before = old.before /\ picked(page).reset = old.reset
      <3>1. /\ candidates \in SUBSET Articles /\ IsFiniteSet(candidates)
            /\ candidates \subseteq present /\ IsFiniteSet(present)
            /\ \A a \in candidates : PublishedAt(a) < old.before
        <4>1. candidates \subseteq present /\ \A a \in candidates : PublishedAt(a) < old.before
          BY DEF Candidates
        <4>. QED BY <1>2, <4>1, FS_Subset DEF StoreOK
      <3>. HIDE DEF candidates
      <3>2. /\ page \in Seq(candidates \cup (Trending \cap present))
            /\ Len(page) \in 1..Limit /\ page[1] \in candidates /\ CapsOn(page)
        BY <2>2, <3>1, PageMade DEF CapsOn
      <3>3. page \in Seq(Articles) /\ ToSet(page) \subseteq present /\ page # <<>>
            /\ 1 \in DOMAIN page /\ Len(page) <= Limit
        <4>1. DOMAIN page = 1..Len(page) /\ \A i \in 1..Len(page) : page[i] \in present
          BY <3>1, <3>2
        <4>2. ToSet(page) \subseteq present
          BY <4>1 DEF ToSet
        <4>3. page \in Seq(Articles)
          BY <1>2, <3>1, <3>2 DEF StoreOK
        <4>. QED BY <3>2, <4>1, <4>2, <4>3
      <3>4. NextCursor(page) \in 1..Latest /\ NextCursor(page) <= PublishedAt(page[1])
        BY <3>3, CursorOfPage
      <3>5. NextCursor(page) < old.before
        <4>1. PublishedAt(page[1]) \in Nat /\ old.before \in Nat
              /\ PublishedAt(page[1]) < old.before
          BY <1>2, <3>1, <3>2, Numbers DEF Call
        <4>. QED BY <3>4, <4>1
      <3>. DEFINE call == picked(page)
      <3>6. /\ call.at = "picked" /\ call.page = page /\ call.next = NextCursor(page)
            /\ call.new = ToSet(page) \ seen
            /\ call.before = old.before /\ call.reset = old.reset
        BY <1>2 DEF Call
      <3>7. call \in Call
        <4>1. NextCursor(page) \in 0..Latest /\ ToSet(page) \ seen \in SUBSET Articles
          BY <1>2, <3>3, <3>4, Numbers DEF StoreOK
        <4>. QED BY <1>2, <3>3, <4>1 DEF Call, CallStates
      <3>. HIDE DEF call
      <3>8. Fit(call, present, seen, public)
        BY <1>1, <3>2, <3>3, <3>5, <3>6, <3>7 DEF Fit
      <3>. QED BY <3>6, <3>7, <3>8 DEF call
    <2>. QED BY <1>3, <2>1, <2>2
  <1>5. calls'[c] = call /\ \A d \in Calls \ {c} : calls'[d] = calls[d]
    BY <1>2, <1>4
  <1>6. CallsOK'
    BY <1>1, <1>4, CallsKept
  <1>7. PositionOK' /\ StoreOK'
    <2>1. current # None =>
             /\ calls'[current].at # "idle" /\ calls'[current].before = calls[current].before
             /\ calls'[current].reset = calls[current].reset
      BY <1>2, <1>4, <1>5 DEF PositionOK
    <2>. QED BY <1>1, <1>2, <2>1 DEF PositionOK, StoreOK
  <1>8. ServedOK'
    <2>1. ASSUME NEW a \in Articles
          PROVE  served[a] + Cardinality(Promised(a)') <= Cardinality(Calls)
      <3>1. CASE a \in call.new
        <4>1. served[a] = 0
          BY <1>2, <1>4, <3>1 DEF ServedOK
        <4>2. Cardinality(Promised(a)') <= Cardinality(Calls)
              /\ Cardinality(Promised(a)') \in Nat
          BY CallCount, FS_Subset, FS_CardinalityType DEF Promised
        <4>. QED BY <4>1, <4>2
      <3>2. CASE a \notin call.new
        <4>1. Promised(a)' = Promised(a)
          BY <1>1, <1>5, <3>2 DEF Promised
        <4>. QED BY <1>2, <4>1 DEF ServedOK
      <3>. QED BY <3>1, <3>2
    <2>. QED BY <1>1, <1>2, <2>1 DEF ServedOK
  <1>. QED BY <1>1, <1>6, <1>7, <1>8 DEF IInv

\* A step that leaves the position of the user, and what matters to it of his call.
LEMMA PositionKept ==
  ASSUME IInv, UNCHANGED <<public, pillar, cursor, exhausted, list, due, current>>,
         present \subseteq present', seen \subseteq seen',
         current # None => /\ calls'[current].at # "idle"
                           /\ calls'[current].before = calls[current].before
                           /\ calls'[current].reset = calls[current].reset
  PROVE  PositionOK'
  BY DEF IInv, PositionOK

\* ... and leaves his call alone.
LEMMA ListKept ==
  ASSUME IInv, UNCHANGED <<public, pillar, cursor, exhausted, list, due, current>>,
         present \subseteq present', seen \subseteq seen',
         current # None => calls'[current] = calls[current]
  PROVE  PositionOK' /\ (public' => ListOK' /\ DueOK')
  <1>1. PositionOK'
    <2>1. current # None => calls[current].at # "idle"
      BY DEF IInv, PositionOK
    <2>. QED BY <2>1, PositionKept
  <1>2. ASSUME public PROVE ListOK' /\ DueOK'
    <2>1. ListOK /\ DueOK
      BY <1>2 DEF IInv
    <2>2. ListOK'
      BY <2>1 DEF ListOK
    <2>3. \A a : Tied(a) => Tied(a)'
      BY DEF Tied
    <2>4. DueOK'
      BY <2>1, <2>3 DEF DueOK, OfPillar
    <2>. QED BY <2>2, <2>4
  <1>. QED BY <1>1, <1>2

\* The impressions of a page are recorded, or the call fails.
LEMMA RecordKeeps == ASSUME IInv, NEW c \in Calls, Record(c) PROVE IInv'
  <1>. DEFINE old == calls[c]
  <1>1. /\ old \in Call /\ Fit(old, present, seen, public)
        /\ StoreOK /\ PositionOK /\ ServedOK /\ calls \in [Calls -> Call]
    BY DEF IInv, CallsOK
  <1>2. /\ old.at = "picked" /\ ~public
        /\ UNCHANGED <<present, public, pillar, cursor, exhausted, list, due, current>>
    BY <1>1 DEF Record, position, Fit
  <1>3. old.new \subseteq ToSet(old.page) /\ ToSet(old.page) \subseteq present
    BY <1>1 DEF Fit
  <1>4. ASSUME NEW at \in {"answered", "failed"},
               calls' = [calls EXCEPT ![c] = [old EXCEPT !.at = at]],
               seen \subseteq seen', seen' \subseteq present',
               at = "answered" => ToSet(old.page) \subseteq seen'
        PROVE  CallsOK' /\ PositionOK' /\ StoreOK'
    <2>. DEFINE call == [old EXCEPT !.at = at]
    <2>1. /\ call \in Call /\ call.at = at /\ call.page = old.page /\ call.new = old.new
          /\ call.next = old.next /\ call.before = old.before /\ call.reset = old.reset
      BY <1>1, <1>4 DEF Call, CallStates
    <2>2. calls'[c] = call /\ \A d \in Calls \ {c} : calls'[d] = calls[d]
      BY <1>1, <1>4
    <2>3. calls' = [calls EXCEPT ![c] = call]
      BY <1>4
    <2>. HIDE DEF call
    <2>4. Fit(call, present', seen', public)
      BY <1>1, <1>2, <1>4, <2>1 DEF Fit
    <2>5. CallsOK'
      BY <1>2, <1>4, <2>3, <2>4, CallsKept
    <2>6. current # None => /\ calls'[current].at # "idle"
                            /\ calls'[current].before = calls[current].before
                            /\ calls'[current].reset = calls[current].reset
      BY <1>1, <1>4, <2>1, <2>2 DEF PositionOK
    <2>7. PositionOK'
      BY <1>2, <1>4, <2>6, PositionKept
    <2>. QED BY <1>1, <1>2, <1>4, <2>5, <2>7 DEF StoreOK
  <1>5. CASE /\ calls' = [calls EXCEPT ![c] = [old EXCEPT !.at = "answered"]]
             /\ seen' = seen \cup ToSet(old.page)
             /\ served' = [a \in Articles |-> IF a \in old.new THEN Least(Many, served[a] + 1)
                                                               ELSE served[a]]
    <2>1. CallsOK' /\ PositionOK' /\ StoreOK'
      BY <1>1, <1>2, <1>3, <1>4, <1>5 DEF StoreOK
    <2>2. served' \in [Articles -> 0..Many]
      <3>1. ASSUME NEW a \in Articles PROVE Least(Many, served[a] + 1) \in 0..Many
        BY <1>1, CallCount DEF Least, ServedOK
      <3>. QED BY <1>1, <1>5, <3>1 DEF ServedOK
    <2>3. ASSUME NEW a \in Articles
          PROVE  /\ a \notin seen' => served'[a] = 0
                 /\ served'[a] + Cardinality(Promised(a)') <= Cardinality(Calls)
      <3>1. /\ IsFiniteSet(Promised(a)) /\ Cardinality(Promised(a)) \in Nat /\ served[a] \in Nat
            /\ served[a] + Cardinality(Promised(a)) <= Cardinality(Calls)
            /\ a \notin seen => served[a] = 0
        BY <1>1, CallCount, FS_Subset, FS_CardinalityType DEF ServedOK, Promised
      <3>2. Promised(a)' = Promised(a) \ {c}
        BY <1>1, <1>5 DEF Promised, Call
      <3>3. CASE a \in old.new
        <4>1. c \in Promised(a)
          BY <1>2, <3>3 DEF Promised
        <4>2. Cardinality(Promised(a)') = Cardinality(Promised(a)) - 1
          BY <3>1, <3>2, <4>1, FS_RemoveElement
        <4>3. served'[a] = Least(Many, served[a] + 1) /\ a \in seen'
          BY <1>3, <1>5, <3>3
        <4>4. served'[a] <= served[a] + 1 /\ served'[a] \in Nat
          BY <3>1, <4>3, CallCount DEF Least
        <4>. QED BY <3>1, <4>2, <4>3, <4>4, CallCount
      <3>4. CASE a \notin old.new
        <4>1. Promised(a)' = Promised(a)
          BY <3>2, <3>4 DEF Promised
        <4>2. served'[a] = served[a]
          BY <1>5, <3>4
        <4>. QED BY <1>5, <3>1, <4>1, <4>2
      <3>. QED BY <3>3, <3>4
    <2>4. ServedOK'
      BY <2>2, <2>3 DEF ServedOK
    <2>. QED BY <1>2, <2>1, <2>4 DEF IInv
  <1>6. CASE /\ calls' = [calls EXCEPT ![c] = [old EXCEPT !.at = "failed"]]
             /\ UNCHANGED <<seen, served>>
    <2>1. CallsOK' /\ PositionOK' /\ StoreOK'
      BY <1>1, <1>2, <1>4, <1>6 DEF StoreOK
    <2>2. \A a \in Articles : Promised(a)' \subseteq Promised(a)
      BY <1>1, <1>6 DEF Promised, Call
    <2>3. ServedOK'
      BY <1>6, <2>2, ServedKept
    <2>. QED BY <1>2, <2>1, <2>3 DEF IInv
  <1>. QED BY <1>5, <1>6 DEF Record

\* list_articles answers: what is due is on the page, or older than its cursor.
LEMMA ListKeeps == ASSUME IInv, NEW c \in Calls, List(c) PROVE IInv'
  <1>. DEFINE old == calls[c]
  <1>1. /\ old \in Call /\ Fit(old, present, seen, public)
        /\ StoreOK /\ PositionOK /\ ServedOK /\ calls \in [Calls -> Call]
    BY DEF IInv, CallsOK
  <1>2. /\ old.at = "asked" /\ public
        /\ UNCHANGED <<present, seen, served, public, pillar, cursor, exhausted, list, due,
                       current>>
    BY DEF List, database, position
  <1>3. ListOK /\ DueOK
    BY <1>2 DEF IInv
  <1>4. PICK rows \in Listings(present, old.before, old.pillar) :
           calls' = [calls EXCEPT ![c] = [old EXCEPT !.at = "answered", !.page = PageOf(rows),
                                                     !.next = NextOf(rows)]]
    BY DEF List
  <1>. DEFINE call == [old EXCEPT !.at = "answered", !.page = PageOf(rows), !.next = NextOf(rows)]
  <1>5. /\ PageOf(rows) \in Seq(present) /\ Len(PageOf(rows)) <= Limit
        /\ NextOf(rows) \in 0..Latest /\ NextOf(rows) < old.before
        /\ \A i \in DOMAIN PageOf(rows) :
              /\ PublishedAt(PageOf(rows)[i]) < old.before
              /\ PublishedAt(PageOf(rows)[i]) >= NextOf(rows)
        /\ \A a \in Listable(present, old.before, old.pillar) \ ToSet(PageOf(rows)) :
              /\ NextOf(rows) # Null /\ PageOf(rows) # <<>>
              /\ \/ PublishedAt(a) < NextOf(rows)
                 \/ \E b \in present \ {a} : PublishedAt(b) = PublishedAt(a)
    <2>1. /\ present \in SUBSET Articles /\ IsFiniteSet(present)
          /\ old.before \in 1..Now /\ old.pillar \in Choosable
      BY <1>1 DEF StoreOK, Call
    <2>. HIDE DEF old
    <2>. QED BY <2>1, PageListed
  <1>6. /\ call.at = "answered" /\ call.page = PageOf(rows) /\ call.next = NextOf(rows)
        /\ call.new = {} /\ call.before = old.before /\ call.reset = old.reset
        /\ call.pillar = old.pillar /\ calls' = [calls EXCEPT ![c] = call]
    BY <1>1, <1>2, <1>4 DEF Call, Fit
  <1>7. call \in Call
    <2>1. PageOf(rows) \in Seq(Articles)
      BY <1>1, <1>5 DEF StoreOK
    <2>. QED BY <1>1, <1>5, <2>1 DEF Call, CallStates
  <1>. HIDE DEF call
  <1>8. calls'[c] = call /\ \A d \in Calls \ {c} : calls'[d] = calls[d]
    BY <1>1, <1>6
  <1>9. CallsOK'
    <2>1. \A a \in ToSet(call.page) :
             a \in present /\ PublishedAt(a) < call.before /\ PublishedAt(a) >= call.next
      BY <1>5, <1>6 DEF ToSet
    <2>2. Fit(call, present, seen, public)
      BY <1>2, <1>5, <1>6, <1>7, <2>1 DEF Fit
    <2>. QED BY <1>2, <1>6, <2>2, CallsKept
  <1>10. PositionOK' /\ StoreOK'
    <2>1. current # None => /\ calls'[current].at # "idle"
                            /\ calls'[current].before = calls[current].before
                            /\ calls'[current].reset = calls[current].reset
                            /\ calls'[current].pillar = calls[current].pillar
      BY <1>1, <1>6, <1>8 DEF PositionOK
    <2>. QED BY <1>1, <1>2, <2>1, PositionKept DEF StoreOK
  <1>11. ServedOK'
    <2>1. \A a \in Articles : Promised(a)' \subseteq Promised(a)
      BY <1>6, <1>8 DEF Promised
    <2>. QED BY <1>2, <2>1, ServedKept
  <1>12. ListOK'
    BY <1>2, <1>3 DEF ListOK
  <1>13. DueOK'
    <2>1. ASSUME current = c, NEW a \in due \ (list \cup ToSet(call.page))
          PROVE  Tied(a) \/ (call.page # <<>> /\ call.next # Null /\ PublishedAt(a) < call.next)
      <3>1. CASE Tied(a)
        BY <3>1
      <3>2. CASE ~Tied(a)
        <4>1. OfPillar(a, old.pillar) /\ (cursor # Null => PublishedAt(a) < cursor)
          BY <1>1, <1>3, <2>1, <3>2, FeedAssumption DEF DueOK
        <4>2. a \in present /\ PublishedAt(a) < Now
          BY <1>1, Numbers DEF PositionOK, StoreOK
        <4>3. PublishedAt(a) < old.before
          BY <1>1, <2>1, <4>1, <4>2, FeedAssumption DEF PositionOK
        <4>4. a \in Listable(present, old.before, old.pillar) \ ToSet(PageOf(rows))
          BY <1>6, <2>1, <4>1, <4>2, <4>3 DEF Listable, OfPillar
        <4>. QED BY <1>5, <1>6, <3>2, <4>4 DEF Tied
      <3>. QED BY <3>1, <3>2
    <2>2. current # None => calls'[current].pillar = calls[current].pillar
      BY <1>1, <1>6, <1>8 DEF PositionOK
    <2>3. \A a : Tied(a)' = Tied(a)
      BY <1>2 DEF Tied
    <2>4. current # None /\ calls'[current].at = "answered" =>
            \A a \in due \ (list \cup ToSet(calls'[current].page)) :
               \/ Tied(a)
               \/ /\ calls'[current].page # <<>> /\ calls'[current].next # Null
                  /\ PublishedAt(a) < calls'[current].next
      <3>1. CASE current = c
        BY <1>8, <2>1, <3>1
      <3>2. CASE current # c /\ current # None
        <4>1. calls'[current] = calls[current]
          BY <1>1, <1>8, <3>2 DEF PositionOK
        <4>. QED BY <1>3, <3>2, <4>1 DEF DueOK
      <3>. QED BY <3>1, <3>2
    <2>. QED BY <1>2, <1>3, <2>2, <2>3, <2>4 DEF DueOK
  <1>. QED BY <1>2, <1>9, <1>10, <1>11, <1>12, <1>13 DEF IInv

\* A call is over.
LEMMA ForgetKeeps == ASSUME IInv, NEW c \in Calls, Forget(c) PROVE IInv'
  <1>1. /\ c # current /\ calls' = [calls EXCEPT ![c] = NoCall]
        /\ UNCHANGED <<present, seen, served, public, pillar, cursor, exhausted, list, due,
                       current>>
    BY DEF Forget, database, position
  <1>2. calls \in [Calls -> Call] /\ PositionOK /\ StoreOK
    BY DEF IInv, CallsOK
  <1>3. CallsOK'
    BY <1>1, NoCallFits, CallsKept
  <1>4. \A a \in Articles : Promised(a)' \subseteq Promised(a)
    BY <1>1, <1>2 DEF Promised, NoCall
  <1>5. ServedOK'
    BY <1>1, <1>4, ServedKept
  <1>6. current # None => calls'[current] = calls[current]
    BY <1>1, <1>2 DEF PositionOK
  <1>7. PositionOK' /\ (public' => ListOK' /\ DueOK')
    BY <1>1, <1>6, ListKept
  <1>. QED BY <1>1, <1>2, <1>3, <1>5, <1>7 DEF IInv, StoreOK

\* An article is stored.
LEMMA PublishKeeps == ASSUME IInv, NEW a \in Articles, Publish(a) PROVE IInv'
  <1>1. /\ present' = present \cup {a}
        /\ UNCHANGED <<seen, served, calls, public, pillar, cursor, exhausted, list, due,
                       current>>
    BY DEF Publish, position
  <1>2. StoreOK'
    BY <1>1, FS_AddElement DEF IInv, StoreOK
  <1>3. CallsOK'
    <2>1. ASSUME NEW d \in Calls PROVE Fit(calls[d], present', seen, public)
      <3>1. Fit(calls[d], present, seen, public)
        BY DEF IInv, CallsOK
      <3>. QED BY <1>1, <3>1, FitStays
    <2>. QED BY <1>1, <2>1 DEF IInv, CallsOK
  <1>4. ServedOK'
    <2>1. \A b \in Articles : Promised(b)' \subseteq Promised(b)
      BY <1>1 DEF Promised
    <2>. QED BY <1>1, <2>1, ServedKept
  <1>5. PositionOK' /\ (public' => ListOK' /\ DueOK')
    BY <1>1, ListKept
  <1>. QED BY <1>2, <1>3, <1>4, <1>5 DEF IInv

\* load() asks for a page from the cursor, or from the present; while a page is loading, or
\* after the last one, only the pillar is another.
LEMMA LoadKeeps ==
  ASSUME IInv, NEW reset \in BOOLEAN, NEW p \in Choosable, Load(reset, p), pillar' = p,
         reset \/ p = pillar,
         UNCHANGED <<present, seen, served, public, exhausted>>
  PROVE  IInv'
  <1>1. CallsOK /\ StoreOK /\ PositionOK /\ ServedOK /\ calls \in [Calls -> Call]
    BY DEF IInv, CallsOK
  <1>2. CASE current # None \/ exhausted
    <2>1. UNCHANGED <<cursor, list, current, calls>> /\ due' = StillDue(p)
      BY <1>2 DEF Load
    <2>2. /\ due' \subseteq due
          /\ exhausted \/ \A a \in due' : OfPillar(a, p)
      BY <2>1 DEF StillDue, Listable, OfPillar
    <2>3. CallsOK' /\ StoreOK'
      BY <1>1, <2>1 DEF CallsOK, StoreOK
    <2>4. PositionOK'
      BY <1>1, <2>1, <2>2 DEF PositionOK
    <2>5. ServedOK'
      BY <1>1, <2>1 DEF ServedOK, Promised
    <2>6. ASSUME public PROVE ListOK' /\ DueOK'
      <3>1. ListOK /\ DueOK
        BY <2>6 DEF IInv
      <3>2. ListOK'
        BY <2>1, <3>1 DEF ListOK
      <3>3. \A a : Tied(a)' = Tied(a) /\ \A r : OfPillar(a, r)' = OfPillar(a, r)
        BY DEF Tied, OfPillar
      <3>4. ~exhausted' => \A a \in due' : OfPillar(a, pillar')
        BY <2>2
      <3>5. current' # None => \A a \in due' : OfPillar(a, calls'[current'].pillar)
        BY <2>1, <2>2, <3>1 DEF DueOK
      <3>6. DueOK'
        BY <2>1, <2>2, <3>1, <3>3, <3>4, <3>5 DEF DueOK, Tied, OfPillar
      <3>. QED BY <3>2, <3>6
    <2>. QED BY <2>3, <2>4, <2>5, <2>6 DEF IInv
  <1>3. CASE ~(current # None \/ exhausted)
    <2>. DEFINE from == IF reset THEN Null ELSE cursor
                before == IF from = Null THEN Now ELSE from
                call(c) == [calls[c] EXCEPT !.at = "asked", !.pillar = p, !.reset = reset,
                                            !.before = before]
    <2>1. PICK c \in Calls :
             /\ calls[c].at = "idle" /\ calls' = [calls EXCEPT ![c] = call(c)]
             /\ current' = c /\ cursor' = from
             /\ list' = (IF reset THEN {} ELSE list)
             /\ due' = IF public /\ from = Null THEN Listable(present, Now, p) ELSE due
      BY <1>3 DEF Load
    <2>2. current = None /\ exhausted = FALSE /\ exhausted' = FALSE
      BY <1>1, <1>3 DEF PositionOK
    <2>3. from \in 0..Latest /\ before \in 1..Now /\ (from # Null => ~reset /\ p = pillar)
      BY <1>1, Numbers DEF PositionOK
    <2>. HIDE DEF from, before
    <2>4. calls[c] \in Call /\ Fit(calls[c], present, seen, public)
      BY <1>1 DEF CallsOK
    <2>5. /\ call(c) \in Call /\ call(c).at = "asked" /\ call(c).pillar = p
          /\ call(c).reset = reset /\ call(c).before = before
          /\ call(c).page = <<>> /\ call(c).next = Null /\ call(c).new = {}
      BY <2>1, <2>3, <2>4 DEF Call, CallStates, Fit
    <2>6. calls'[c] = call(c) /\ \A d \in Calls \ {c} : calls'[d] = calls[d]
      BY <1>1, <2>1
    <2>. HIDE DEF call
    <2>7. Fit(call(c), present, seen, public)
      <3>1. ToSet(<<>>) = {} /\ Len(<<>>) = 0
        BY DEF ToSet
      <3>. QED BY <2>3, <2>5, <3>1, NoCaps, Numbers DEF Fit
    <2>8. CallsOK' /\ StoreOK'
      BY <1>1, <2>1, <2>7, CallsKept DEF StoreOK
    <2>9. PositionOK'
      <3>1. Listable(present, Now, p) \subseteq present
        BY DEF Listable
      <3>2. list' \subseteq list /\ due' \subseteq present
        BY <1>1, <2>1, <3>1 DEF PositionOK
      <3>3. reset => cursor' = Null /\ list' = {}
        BY <2>1 DEF from
      <3>4. before = IF cursor' = Null THEN Now ELSE cursor'
        BY <2>1 DEF before
      <3>. QED BY <1>1, <2>1, <2>2, <2>3, <2>5, <2>6, <3>2, <3>3, <3>4 DEF PositionOK
    <2>10. ServedOK'
      <3>1. \A a \in Articles : Promised(a)' \subseteq Promised(a)
        BY <2>5, <2>6 DEF Promised
      <3>. QED BY <3>1, ServedKept
    <2>11. ASSUME public PROVE ListOK' /\ DueOK'
      <3>1. ListOK /\ DueOK
        BY <2>11 DEF IInv
      <3>2. ListOK'
        <4>1. CASE reset
          BY <2>1, <4>1 DEF ListOK
        <4>2. CASE ~reset
          <5>1. cursor' = cursor /\ list' = list
            BY <2>1, <4>2 DEF from
          <5>. QED BY <2>2, <3>1, <5>1 DEF ListOK
        <4>. QED BY <4>1, <4>2
      <3>3. \A a : Tied(a)' = Tied(a)
        BY DEF Tied
      <3>4. CASE from = Null
        <4>1. due' = Listable(present, Now, p)
          BY <2>1, <2>11, <3>4
        <4>2. \A a \in due' : OfPillar(a, p)
          BY <4>1 DEF Listable, OfPillar
        <4>. QED BY <2>1, <2>2, <2>5, <2>6, <3>2, <3>4, <4>2 DEF DueOK
      <3>5. CASE from # Null
        <4>1. /\ due' = due /\ list' = list /\ cursor' = cursor /\ p = pillar
          BY <2>1, <2>3, <3>5 DEF from
        <4>2. \A a \in due : OfPillar(a, p)
          BY <2>2, <3>1, <4>1 DEF DueOK
        <4>3. \A a \in due' \ list' :
                Tied(a)' \/ (~exhausted' /\ (cursor' # Null => PublishedAt(a) < cursor'))
          BY <3>1, <3>3, <4>1 DEF DueOK
        <4>. QED BY <2>1, <2>2, <2>5, <2>6, <3>2, <4>1, <4>2, <4>3 DEF DueOK
      <3>. QED BY <3>4, <3>5
    <2>. QED BY <2>8, <2>9, <2>10, <2>11 DEF IInv
  <1>. QED BY <1>2, <1>3

LEMMA ScrollKeeps == ASSUME IInv, Scroll PROVE IInv'
  <1>1. pillar \in Choosable
    BY DEF IInv, PositionOK
  <1>2. pillar' = pillar /\ Load(FALSE, pillar)
        /\ UNCHANGED <<present, seen, served, public, exhausted>>
    BY DEF Scroll, database
  <1>. QED BY <1>1, <1>2, LoadKeeps

LEMMA SetPillarKeeps == ASSUME IInv, NEW p \in Choosable, SetPillar(p) PROVE IInv'
  <1>1. pillar' = p /\ Load(TRUE, p) /\ UNCHANGED <<present, seen, served, public, exhausted>>
    BY DEF SetPillar, database
  <1>. QED BY <1>1, LoadKeeps

\* The feed is opened again.
LEMMA OpenKeeps == ASSUME IInv, Open PROVE IInv'
  <1>1. /\ pillar' = All /\ cursor' = Null /\ exhausted' = FALSE
        /\ current' = None /\ list' = {} /\ due' = {}
        /\ UNCHANGED <<present, seen, served, calls, public>>
    BY DEF Open, database
  <1>2. CallsOK' /\ StoreOK'
    BY <1>1 DEF IInv, CallsOK, StoreOK
  <1>3. PositionOK'
    <2>1. pillar' \in Choosable
      BY <1>1 DEF Choosable
    <2>2. cursor' \in 0..Latest
      BY <1>1, Numbers
    <2>. QED BY <1>1, <2>1, <2>2 DEF PositionOK
  <1>4. ServedOK'
    BY <1>1 DEF IInv, ServedOK, Promised
  <1>5. ListOK' /\ DueOK'
    BY <1>1 DEF ListOK, DueOK
  <1>. QED BY <1>2, <1>3, <1>4, <1>5 DEF IInv

\* A page is displayed: its cursor is before the last one, and nothing that is due is lost.
LEMMA RenderKeeps ==
  ASSUME IInv, NEW c \in Calls, Render(c)
  PROVE  IInv' /\ (cursor # Null /\ cursor' # Null /\ cursor' # cursor => cursor' < cursor)
  <1>. DEFINE old == calls[c]
  <1>1. /\ old \in Call /\ Fit(old, present, seen, public)
        /\ StoreOK /\ PositionOK /\ ServedOK /\ calls \in [Calls -> Call]
    BY DEF IInv, CallsOK
  <1>2. /\ c = current /\ old.at = "answered"
        /\ calls' = [calls EXCEPT ![c] = NoCall] /\ current' = None
        /\ list' = (IF old.reset THEN {} ELSE list) \cup ToSet(old.page)
        /\ UNCHANGED <<present, seen, served, public, pillar, due>>
    BY DEF Render, database
  <1>3. \/ old.page = <<>> /\ exhausted' = TRUE /\ cursor' = cursor
        \/ old.page # <<>> /\ cursor' = old.next /\ exhausted' = (old.next = Null)
    BY DEF Render, Shown
  <1>4. /\ current # None /\ exhausted = FALSE
        /\ old.before = IF cursor = Null THEN Now ELSE cursor
        /\ old.reset => cursor = Null /\ list = {}
    BY <1>1, <1>2, FeedAssumption DEF PositionOK
  <1>5. /\ old.next \in 0..Latest /\ old.next < old.before
        /\ ToSet(old.page) \subseteq present
    BY <1>1 DEF Fit, Call
  <1>6. CallsOK' /\ StoreOK'
    BY <1>1, <1>2, NoCallFits, CallsKept DEF StoreOK
  <1>7. PositionOK'
    <2>1. list' \subseteq list \cup ToSet(old.page)
      BY <1>2
    <2>2. ~public => ToSet(old.page) \subseteq seen
      BY <1>1, <1>2 DEF Fit
    <2>3. cursor' \in 0..Latest /\ exhausted' \in BOOLEAN
      BY <1>1, <1>3, <1>5 DEF PositionOK
    <2>. QED BY <1>1, <1>2, <1>5, <2>1, <2>2, <2>3 DEF PositionOK
  <1>8. ServedOK'
    <2>1. \A a \in Articles : Promised(a)' \subseteq Promised(a)
      BY <1>1, <1>2 DEF Promised, NoCall
    <2>. QED BY <1>2, <2>1, ServedKept
  <1>9. ASSUME public PROVE ListOK' /\ DueOK'
    <2>1. ListOK /\ DueOK
      BY <1>9 DEF IInv
    <2>2. \A a \in ToSet(old.page) : PublishedAt(a) >= old.next
      BY <1>1, <1>2, <1>9 DEF Fit
    <2>3. list \cup ToSet(old.page) = list'
      BY <1>2, <1>4
    <2>4. ListOK'
      <3>1. CASE old.page = <<>>
        <4>1. ToSet(old.page) = {}
          BY <3>1 DEF ToSet
        <4>. QED BY <1>3, <2>1, <2>3, <3>1, <4>1 DEF ListOK
      <3>2. CASE old.page # <<>>
        <4>1. ASSUME NEW a \in list PROVE PublishedAt(a) >= old.next
          <5>1. cursor # Null /\ PublishedAt(a) >= cursor
            BY <1>4, <2>1, <4>1 DEF ListOK
          <5>2. PublishedAt(a) \in Nat /\ cursor \in Nat
            BY <1>1, <4>1, Numbers DEF PositionOK, StoreOK
          <5>. QED BY <1>4, <1>5, <5>1, <5>2
        <4>. QED BY <1>3, <2>2, <2>3, <3>2, <4>1 DEF ListOK
      <3>. QED BY <3>1, <3>2
    <2>5. ASSUME NEW a \in due \ list'
          PROVE  Tied(a) \/ (~exhausted' /\ cursor' # Null /\ PublishedAt(a) < cursor')
      <3>1. \/ Tied(a)
            \/ old.page # <<>> /\ old.next # Null /\ PublishedAt(a) < old.next
        BY <1>2, <1>4, <2>1, <2>3, <2>5 DEF DueOK
      <3>. QED BY <1>3, <3>1
    <2>6. \A a : Tied(a)' = Tied(a)
      BY <1>2 DEF Tied
    <2>7. \A a \in due : OfPillar(a, pillar)
      BY <1>4, <2>1 DEF DueOK
    <2>8. DueOK'
      BY <1>2, <2>5, <2>6, <2>7 DEF DueOK, OfPillar
    <2>. QED BY <2>4, <2>8
  <1>10. cursor # Null /\ cursor' # Null /\ cursor' # cursor => cursor' < cursor
    BY <1>3, <1>4, <1>5
  <1>. QED BY <1>2, <1>6, <1>7, <1>8, <1>9, <1>10 DEF IInv

\* The page does not come.
LEMMA NoPageKeeps ==
  ASSUME IInv, current' = None,
         UNCHANGED <<present, seen, served, calls, public, pillar, cursor, exhausted, list, due>>
  PROVE  IInv'
  <1>1. CallsOK' /\ StoreOK' /\ ServedOK'
    BY DEF IInv, CallsOK, StoreOK, ServedOK, Promised
  <1>2. PositionOK'
    BY DEF IInv, PositionOK
  <1>3. public => ListOK' /\ DueOK'
    BY DEF IInv, ListOK, DueOK, Tied, OfPillar
  <1>. QED BY <1>1, <1>2, <1>3 DEF IInv

\* One step of the system, and what it makes of the cursor.
LEMMA StepKeeps ==
  ASSUME IInv, [Next]_vars
  PROVE  IInv' /\ [cursor # Null /\ cursor' # Null => cursor' < cursor]_cursor
  <1>. DEFINE Back == [cursor # Null /\ cursor' # Null => cursor' < cursor]_cursor
  <1>1. CASE Scroll
    <2>1. cursor' = cursor
      BY <1>1 DEF Scroll, Load
    <2>. QED BY <1>1, <2>1, ScrollKeeps
  <1>2. ASSUME NEW c \in Calls, Pick(c) PROVE IInv' /\ Back
    BY <1>2, PickKeeps DEF Pick, position
  <1>3. ASSUME NEW c \in Calls, List(c) PROVE IInv' /\ Back
    BY <1>3, ListKeeps DEF List, position
  <1>4. ASSUME NEW c \in Calls, Record(c) PROVE IInv' /\ Back
    BY <1>4, RecordKeeps DEF Record, position
  <1>5. ASSUME NEW c \in Calls, Forget(c) PROVE IInv' /\ Back
    BY <1>5, ForgetKeeps DEF Forget, position
  <1>6. ASSUME NEW c \in Calls, Render(c) PROVE IInv' /\ Back
    BY <1>6, RenderKeeps
  <1>7. ASSUME NEW c \in Calls, Fail(c) \/ Lose(c) PROVE IInv' /\ Back
    <2>1. /\ current' = None
          /\ UNCHANGED <<present, seen, served, calls, public, pillar, cursor, exhausted, list,
                         due>>
      BY <1>7 DEF Fail, Lose, database, position
    <2>. QED BY <2>1, NoPageKeeps
  <1>8. CASE Open
    BY <1>8, OpenKeeps DEF Open
  <1>9. ASSUME NEW p \in Choosable, SetPillar(p) PROVE IInv' /\ Back
    <2>1. cursor' = cursor \/ cursor' = Null
      BY <1>9 DEF SetPillar, Load
    <2>. QED BY <1>9, <2>1, SetPillarKeeps
  <1>10. ASSUME NEW a \in Articles, Publish(a) PROVE IInv' /\ Back
    BY <1>10, PublishKeeps DEF Publish, position
  <1>11. CASE UNCHANGED vars
    <2>1. /\ UNCHANGED <<present, seen, served, calls, public, pillar, cursor, exhausted, list,
                         due, current>>
      BY <1>11 DEF vars, database, position
    <2>2. CallsOK' /\ StoreOK' /\ ServedOK'
      BY <2>1 DEF IInv, CallsOK, StoreOK, ServedOK, Promised
    <2>3. PositionOK' /\ (public' => ListOK' /\ DueOK')
      BY <2>1, ListKept
    <2>. QED BY <2>1, <2>2, <2>3 DEF IInv
  <1>. QED BY <1>1, <1>2, <1>3, <1>4, <1>5, <1>6, <1>7, <1>8, <1>9, <1>10, <1>11
           DEF Next, Scrolling, Disturbed

THEOREM Invariance == Spec => []IInv
  <1>1. Init => IInv
    BY Initially
  <1>2. IInv /\ [Next]_vars => IInv'
    BY StepKeeps
  <1>. QED BY <1>1, <1>2, PTL DEF Spec

-----------------------------------------------------------------------------
(* What it gives *)

\* An article is put on a page as new only by calls in progress together, once by each, and
\* what is displayed is recorded (get_feed, whatever is lost, reset or opened again).
THEOREM Impressions == Spec => []FeedInv
  <1>1. IInv => FeedInv
    <2>. SUFFICES ASSUME IInv PROVE FeedInv
      OBVIOUS
    <2>1. TypeOK
      <3>1. /\ calls \in [Calls -> Call]
            /\ \A c \in Calls :
                 /\ calls[c].new \subseteq ToSet(calls[c].page)
                 /\ ToSet(calls[c].page) \subseteq present
                 /\ Len(calls[c].page) <= Limit
        BY DEF IInv, CallsOK, Fit
      <3>2. /\ present \subseteq Articles /\ seen \subseteq present
            /\ served \in [Articles -> 0..Many]
            /\ pillar \in Choosable
            /\ cursor \in 0..Latest /\ exhausted \in BOOLEAN
            /\ current \in Calls \cup {None} /\ (exhausted => current = None)
            /\ list \subseteq present /\ due \subseteq present /\ public \in BOOLEAN
        BY DEF IInv, StoreOK, ServedOK, PositionOK
      <3>. QED BY <3>1, <3>2 DEF TypeOK, Call
    <2>2. ServedBounded
      <3>1. ASSUME NEW a \in Articles PROVE served[a] <= Cardinality(Calls)
        <4>1. /\ Cardinality(Promised(a)) \in Nat /\ served[a] \in Nat
              /\ served[a] + Cardinality(Promised(a)) <= Cardinality(Calls)
          BY CallCount, FS_Subset, FS_CardinalityType DEF IInv, ServedOK, Promised
        <4>. QED BY <4>1, CallCount
      <3>. QED BY <3>1 DEF ServedBounded
    <2>3. DisplayedIsSeen
      BY DEF IInv, PositionOK, DisplayedIsSeen
    <2>. QED BY <2>1, <2>2, <2>3 DEF FeedInv
  <1>. QED BY <1>1, Invariance, PTL

\* The trending articles of a page left out, no source and no topic has more than its cap
\* (mmr_rerank and inject_trending, for any scores).
THEOREM Caps == Spec => []CapsKept
  <1>1. IInv => CapsKept
    <2>. SUFFICES ASSUME IInv, ~public PROVE CapsKept
      BY DEF CapsKept
    <2>1. \A c \in Calls : CapsOn(calls[c].page)
      BY DEF IInv, CallsOK, Fit
    <2>. QED BY <2>1 DEF CapsKept, CapsOn
  <1>. QED BY <1>1, Invariance, PTL

\* The public list has every article that was due, unless it shares its date, and no page
\* repeats what is listed (list_articles' cursor, as feed.js follows it).
THEOREM Listed == Spec => []ListedWell
  <1>1. IInv => ListedWell
    <2>. SUFFICES ASSUME IInv PROVE ListedWell
      OBVIOUS
    <2>1. ListedWhole
      BY DEF IInv, DueOK, Tied, ListedWhole
    <2>2. ASSUME NEW c \in Calls, public, c = current, calls[c].at = "answered",
                 ~calls[c].reset, NEW a \in ToSet(calls[c].page), a \in list
          PROVE  FALSE
      <3>1. /\ StoreOK /\ PositionOK /\ ListOK /\ current # None
        BY <2>2, FeedAssumption DEF IInv
      <3>2. PublishedAt(a) < calls[c].before
        BY <2>2 DEF IInv, CallsOK, Fit
      <3>3. cursor # Null /\ PublishedAt(a) >= cursor
        BY <2>2, <3>1 DEF ListOK, PositionOK
      <3>4. calls[c].before = cursor
        BY <2>2, <3>1, <3>3 DEF PositionOK
      <3>5. PublishedAt(a) \in Nat /\ cursor \in Nat
        BY <2>2, <3>1, Numbers DEF PositionOK, StoreOK
      <3>. QED BY <3>2, <3>3, <3>4, <3>5
    <2>3. ListedOnce
      BY <2>2 DEF ListedOnce
    <2>. QED BY <2>1, <2>3 DEF ListedWell
  <1>. QED BY <1>1, Invariance, PTL

\* Page by page the cursor goes back in time; only a reset takes it to the present (Render,
\* whose page was asked for at the cursor as it still is).
THEOREM Descends == Spec => CursorDescends
  <1>1. IInv /\ [Next]_vars => [cursor # Null /\ cursor' # Null => cursor' < cursor]_cursor
    BY StepKeeps
  <1>. QED BY <1>1, Invariance, PTL DEF Spec, CursorDescends
===============================================================================

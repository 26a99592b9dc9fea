---------------------------- MODULE ClaimOrderProofs ----------------------------
(****************************************************************************)
(* Proofs about ClaimOrder, for any rows, thresholds, claims and batch      *)
(* sizes: that claims never share a target, and that the four partial reads *)
(* of a claim add up to one read of the whole queue in order, also when     *)
(* other claims lock rows between them.                                     *)
(*                                                                          *)
(* The reads sort by counting: the position of a row is the number of rows  *)
(* before it.  The first part shows what follows from that for any order.   *)
(****************************************************************************)
EXTENDS ClaimOrder, FiniteSetTheorems, SequenceTheorems, TLAPS

USE IdsAssumption, RowsAssumption, ClaimAssumption

-----------------------------------------------------------------------------
(* Sorting by counting                                                     *)

\* The keys order the rows, strictly and totally.
Orders(key) ==
    /\ \A i, j \in Ids :
           i # j => Less(key[i], key[j]) \/ Less(key[j], key[i])
    /\ \A i \in Ids : ~Less(key[i], key[i])
    /\ \A i, j, k \in Ids :
           Less(key[i], key[j]) /\ Less(key[j], key[k]) => Less(key[i], key[k])

Rank(i, S, key) == Cardinality(Earlier(i, S, key))

\* The rank map, and the ranks there are.
RankMap(S, T, key) == [i \in T |-> Rank(i, S, key)]

LEMMA RowsFinite ==
    ASSUME NEW S \in SUBSET Ids
    PROVE  IsFiniteSet(S) /\ Cardinality(S) \in Nat
<1>1. IsFiniteSet(S)
  BY FS_Subset
<1>2. QED
  BY <1>1, FS_CardinalityType

LEMMA SubsetSize ==
    ASSUME NEW S \in SUBSET Ids, NEW T \in SUBSET S
    PROVE  /\ T \in SUBSET Ids /\ Cardinality(T) \in Nat
           /\ Cardinality(T) <= Cardinality(S)
           /\ Cardinality(S) = Cardinality(T) => S = T
<1>1. IsFiniteSet(S) /\ T \in SUBSET Ids
  BY RowsFinite
<1>2. Cardinality(T) \in Nat
  BY <1>1, RowsFinite
<1>3. QED
  BY <1>1, <1>2, FS_Subset

LEMMA RankType ==
    ASSUME NEW S \in SUBSET Ids, NEW key, NEW i
    PROVE  /\ Earlier(i, S, key) \in SUBSET S
           /\ Rank(i, S, key) \in Nat /\ Rank(i, S, key) <= Cardinality(S)
<1>1. Earlier(i, S, key) \in SUBSET S
  BY DEF Earlier
<1>2. QED
  BY <1>1, SubsetSize DEF Rank

\* What comes before has the smaller rank.
LEMMA RankGrows ==
    ASSUME NEW S \in SUBSET Ids, NEW key, Orders(key), NEW i \in S, NEW j \in Ids,
           Less(key[i], key[j])
    PROVE  Rank(i, S, key) < Rank(j, S, key)
<1> DEFINE E == Earlier(i, S, key)
           F == Earlier(j, S, key)
<1>1. E \subseteq F
  BY DEF Orders, Earlier
<1>2. i \in F /\ i \notin E
  BY DEF Orders, Earlier
<1>3. F \in SUBSET Ids
  BY RankType
<1>4. Cardinality(E) \in Nat /\ Cardinality(F) \in Nat
  BY RankType DEF Rank
<1>5. Cardinality(E) <= Cardinality(F) /\ Cardinality(E) # Cardinality(F)
  BY <1>1, <1>2, <1>3, SubsetSize
<1>6. QED
  BY <1>4, <1>5 DEF Rank

LEMMA RankDistinct ==
    ASSUME NEW S \in SUBSET Ids, NEW key, Orders(key), NEW i \in S, NEW j \in S,
           Rank(i, S, key) = Rank(j, S, key)
    PROVE  i = j
<1>1. Rank(i, S, key) \in Nat
  BY RankType
<1>2. i # j => Less(key[i], key[j]) \/ Less(key[j], key[i])
  BY DEF Orders
<1>3. ~Less(key[i], key[j])
  <2>1. SUFFICES ASSUME Less(key[i], key[j]) PROVE FALSE
    OBVIOUS
  <2>2. Rank(i, S, key) < Rank(j, S, key)
    BY <2>1, RankGrows
  <2>3. QED
    BY <1>1, <2>2
<1>4. ~Less(key[j], key[i])
  <2>1. SUFFICES ASSUME Less(key[j], key[i]) PROVE FALSE
    OBVIOUS
  <2>2. Rank(j, S, key) < Rank(i, S, key)
    BY <2>1, RankGrows
  <2>3. QED
    BY <1>1, <2>2
<1>5. QED
  BY <1>2, <1>3, <1>4

LEMMA RankBelow ==
    ASSUME NEW S \in SUBSET Ids, NEW key, Orders(key), NEW i \in S
    PROVE  Rank(i, S, key) \in 0..Cardinality(S) - 1
<1> DEFINE E == Earlier(i, S, key)
<1>1. E \in SUBSET S /\ i \notin E
  BY DEF Orders, Earlier
<1>2. Cardinality(E) \in Nat /\ Cardinality(S) \in Nat
  BY <1>1, SubsetSize, RowsFinite
<1>3. Cardinality(E) <= Cardinality(S) /\ Cardinality(E) # Cardinality(S)
  BY <1>1, SubsetSize
<1>4. QED
  BY <1>2, <1>3 DEF Rank

LEMMA Below ==
    ASSUME NEW n \in Nat
    PROVE  IsFiniteSet(0..n - 1) /\ Cardinality(0..n - 1) = n
<1>1. 0 \in Int /\ n - 1 \in Int
  OBVIOUS
<1>2. /\ IsFiniteSet(0..n - 1)
      /\ Cardinality(0..n - 1) = IF 0 > n - 1 THEN 0 ELSE n - 1 - 0 + 1
  BY <1>1, FS_Interval
<1>3. (IF 0 > n - 1 THEN 0 ELSE n - 1 - 0 + 1) = n
  OBVIOUS
<1>4. QED
  BY <1>2, <1>3

\* Every rank is taken.
LEMMA RankTaken ==
    ASSUME NEW S \in SUBSET Ids, NEW key, Orders(key),
           NEW k \in 0..Cardinality(S) - 1
    PROVE  \E i \in S : Rank(i, S, key) = k
<1> DEFINE n == Cardinality(S)
           f == RankMap(S, S, key)
<1>1. n \in Nat
  BY RowsFinite
<1>2. IsFiniteSet(0..n - 1) /\ Cardinality(0..n - 1) = n
  BY <1>1, Below
<1>3. f \in Injection(S, 0..n - 1)
  <2>1. f \in [S -> 0..n - 1]
    BY RankBelow DEF RankMap
  <2>2. ASSUME NEW i \in S, NEW j \in S, f[i] = f[j]
        PROVE  i = j
    <3>1. Rank(i, S, key) = Rank(j, S, key)
      BY <2>2 DEF RankMap
    <3>2. QED
      BY <3>1, RankDistinct
  <2>3. DOMAIN f = S
    BY DEF RankMap
  <2> HIDE DEF f
  <2>4. QED
    BY <2>1, <2>2, <2>3 DEF Injection, IsInjective
<1>4. f \in Surjection(S, 0..n - 1)
  <2> HIDE DEF f, n
  <2>1. Cardinality(S) = Cardinality(0..n - 1)
    BY <1>2 DEF n
  <2>2. QED
    BY <1>2, <1>3, <2>1, FS_Injection
<1>5. \E i \in S : f[i] = k
  BY <1>4 DEF Surjection
<1>6. QED
  BY <1>5 DEF RankMap

-----------------------------------------------------------------------------
(* The first rows, and all of them in order                                *)

\* The row at each position.
LEMMA SortedRanks ==
    ASSUME NEW S \in SUBSET Ids, NEW key, Orders(key)
    PROVE  /\ Sorted(S, key) \in Seq(S) /\ Sorted(S, key) \in Seq(Ids)
           /\ Len(Sorted(S, key)) = Cardinality(S)
           /\ DOMAIN Sorted(S, key) = 1..Cardinality(S)
           /\ \A n \in 1..Cardinality(S) :
                  /\ Sorted(S, key)[n] \in S
                  /\ Rank(Sorted(S, key)[n], S, key) = n - 1
<1> DEFINE N == Cardinality(S)
           s == Sorted(S, key)
<1>1. N \in Nat
  BY RowsFinite
<1>2. ASSUME NEW n \in 1..N
      PROVE  s[n] \in S /\ Rank(s[n], S, key) = n - 1
  <2>1. n - 1 \in 0..N - 1
    BY <1>1
  <2>2. \E i \in S : Cardinality(Earlier(i, S, key)) = n - 1
    BY <2>1, RankTaken DEF Rank
  <2>3. s[n] = CHOOSE i \in S : Cardinality(Earlier(i, S, key)) = n - 1
    BY DEF Sorted
  <2> HIDE DEF s
  <2>4. QED
    BY <2>2, <2>3 DEF Rank
<1>3. s \in [1..N -> S]
  BY <1>2 DEF Sorted
<1> HIDE DEF s, N
<1>4. s \in Seq(S) /\ Len(s) = N /\ DOMAIN s = 1..N
  BY <1>1, <1>3
<1>5. s \in Seq(Ids)
  <2>1. s \in [1..N -> Ids]
    BY <1>3
  <2>2. QED
    BY <1>1, <2>1
<1>6. QED
  BY <1>2, <1>4, <1>5 DEF s, N

\* No row comes twice, none is left out.
LEMMA SortedRows ==
    ASSUME NEW S \in SUBSET Ids, NEW key, Orders(key)
    PROVE  /\ Range(Sorted(S, key)) = S
           /\ \A m, n \in DOMAIN Sorted(S, key) :
                  Sorted(S, key)[m] = Sorted(S, key)[n] => m = n
<1> DEFINE N == Cardinality(S)
           s == Sorted(S, key)
<1>1. N \in Nat /\ DOMAIN s = 1..N
  BY RowsFinite, SortedRanks
<1>2. \A n \in 1..N : s[n] \in S /\ Rank(s[n], S, key) = n - 1
  BY SortedRanks
<1>3. ASSUME NEW i \in S PROVE \E n \in 1..N : s[n] = i
  <2>1. Rank(i, S, key) \in 0..N - 1
    BY RankBelow
  <2>2. Rank(i, S, key) + 1 \in 1..N
    BY <1>1, <2>1
  <2>3. PICK n \in 1..N : n = Rank(i, S, key) + 1
    BY <2>2
  <2>4. n - 1 = Rank(i, S, key)
    BY <2>1, <2>3
  <2>5. s[n] \in S /\ Rank(s[n], S, key) = Rank(i, S, key)
    BY <1>2, <2>4
  <2> HIDE DEF s
  <2>6. s[n] = i
    BY <2>5, RankDistinct
  <2>7. QED
    BY <2>6
<1> HIDE DEF s, N
<1>4. Range(s) = S
  BY <1>1, <1>2, <1>3 DEF Range
<1>5. \A m, n \in DOMAIN s : s[m] = s[n] => m = n
  BY <1>1, <1>2
<1>6. QED
  BY <1>4, <1>5 DEF s

\* The first n rows are n rows, or all there are.
LEMMA FirstSize ==
    ASSUME NEW S \in SUBSET Ids, NEW key, Orders(key), NEW n \in Nat
    PROVE  /\ First(n, S, key) \in SUBSET S
           /\ Cardinality(First(n, S, key)) =
                  IF n < Cardinality(S) THEN n ELSE Cardinality(S)
<1> DEFINE F == First(n, S, key)
           N == Cardinality(S)
           m == IF n < N THEN n ELSE N
           f == RankMap(S, F, key)
<1>1. F \in SUBSET S
  BY DEF First
<1>2. N \in Nat /\ m \in Nat /\ m <= N
  BY RowsFinite
<1>3. \A i \in F : i \in S /\ Rank(i, S, key) < n
  BY DEF First, Rank
<1>4. \A i \in F : Rank(i, S, key) \in 0..m - 1
  <2> SUFFICES ASSUME NEW i \in F PROVE Rank(i, S, key) \in 0..m - 1
    OBVIOUS
  <2>1. Rank(i, S, key) \in 0..N - 1 /\ Rank(i, S, key) < n
    BY <1>3, RankBelow
  <2> HIDE DEF N, F
  <2>2. QED
    BY <1>2, <2>1
<1>5. f \in Injection(F, 0..m - 1)
  <2>1. f \in [F -> 0..m - 1] /\ DOMAIN f = F
    BY <1>4 DEF RankMap
  <2>2. ASSUME NEW i \in F, NEW j \in F, f[i] = f[j]
        PROVE  i = j
    <3>1. Rank(i, S, key) = Rank(j, S, key)
      BY <2>2 DEF RankMap
    <3>2. QED
      BY <1>3, <3>1, RankDistinct
  <2> HIDE DEF f, F, m
  <2>3. QED
    BY <2>1, <2>2 DEF Injection, IsInjective
<1>6. f \in Surjection(F, 0..m - 1)
  <2>1. ASSUME NEW k \in 0..m - 1
        PROVE  \E i \in F : f[i] = k
    <3>1. k \in 0..N - 1 /\ k < n
      BY <1>2
    <3>2. PICK i \in S : Rank(i, S, key) = k
      BY <3>1, RankTaken
    <3>3. i \in F
      BY <3>1, <3>2 DEF First, Rank
    <3>4. QED
      BY <3>2, <3>3 DEF RankMap
  <2>2. f \in [F -> 0..m - 1]
    BY <1>4 DEF RankMap
  <2> HIDE DEF f, F, m
  <2>3. QED
    BY <2>1, <2>2 DEF Surjection
<1>7. IsFiniteSet(0..m - 1) /\ Cardinality(0..m - 1) = m
  BY <1>2, Below
<1> HIDE DEF f, F, m
<1>8. Cardinality(F) = m
  BY <1>5, <1>6, <1>7, FS_Injection
<1>9. QED
  BY <1>1, <1>8 DEF F, m

-----------------------------------------------------------------------------
(* The orders of the reads and of the queue                                *)

LEMMA LessThree ==
    ASSUME NEW s, NEW t, DOMAIN s = 1..3
    PROVE  Less(s, t) <=> \/ s[1] < t[1] \/ (s[2] < t[2] /\ s[1] = t[1])
                          \/ (s[3] < t[3] /\ s[1] = t[1] /\ s[2] = t[2])
<1>1. DOMAIN s = {1, 2, 3}
  OBVIOUS
<1>2. 1..1 - 1 = {} /\ 1..2 - 1 = {1} /\ 1..3 - 1 = {1, 2}
  OBVIOUS
<1>3. QED
  BY <1>1, <1>2 DEF Less

LEMMA LessFour ==
    ASSUME NEW s, NEW t, DOMAIN s = 1..4
    PROVE  Less(s, t) <=> \/ s[1] < t[1] \/ (s[2] < t[2] /\ s[1] = t[1])
                          \/ (s[3] < t[3] /\ s[1] = t[1] /\ s[2] = t[2])
                          \/ (s[4] < t[4] /\ s[1] = t[1] /\ s[2] = t[2]
                                  /\ s[3] = t[3])
<1>1. DOMAIN s = {1, 2, 3, 4}
  OBVIOUS
<1>2. /\ 1..1 - 1 = {} /\ 1..2 - 1 = {1} /\ 1..3 - 1 = {1, 2}
      /\ 1..4 - 1 = {1, 2, 3}
  OBVIOUS
<1>3. QED
  BY <1>1, <1>2 DEF Less

\* A row's key and its place in the queue, spelt out.
LEMMA RowFields ==
    ASSUME queue \in [Ids -> Rows], NEW i \in Ids
    PROVE  /\ queue[i].count \in Nat /\ queue[i].date \in Nat
           /\ queue[i].checks \in Nat /\ queue[i].tried \in Nat
           /\ queue[i].status \in {"pending", "failed", "unavailable"}
           /\ i \in Nat
  BY DEF RowType

LEMMA KeysOrder ==
    ASSUME queue \in [Ids -> Rows], NEW s \in 1..4
    PROVE  Orders(Keys(s))
<1> DEFINE key == Keys(s)
           a == [i \in Ids |-> key[i][1]]
           b == [i \in Ids |-> key[i][2]]
<1>1. ASSUME NEW i \in Ids
      PROVE  \E x, y \in Int : key[i] = <<x, y, i>>
  <2>1. /\ queue[i].count \in Nat /\ queue[i].date \in Nat
        /\ queue[i].checks \in Nat /\ queue[i].tried \in Nat
    BY RowFields
  <2>2. key[i] = Key(i, s)
    BY DEF Keys
  <2>3. CASE s = 1
    BY <2>1, <2>2, <2>3 DEF Key
  <2>4. CASE s = 2
    BY <2>1, <2>2, <2>4 DEF Key
  <2>5. CASE s = 3
    BY <2>1, <2>2, <2>5 DEF Key
  <2>6. CASE s = 4
    BY <2>1, <2>2, <2>6 DEF Key
  <2>7. QED
    BY <2>3, <2>4, <2>5, <2>6
<1> HIDE DEF key
<1>2. \A i \in Ids : a[i] \in Int /\ b[i] \in Int /\ i \in Int
                       /\ key[i] = <<a[i], b[i], i>>
  BY <1>1
<1> HIDE DEF a, b
<1>3. \A i, j \in Ids :
          Less(key[i], key[j]) <=>
              \/ a[i] < a[j] \/ (a[i] = a[j] /\ b[i] < b[j])
              \/ (a[i] = a[j] /\ b[i] = b[j] /\ i < j)
  <2> SUFFICES ASSUME NEW i \in Ids, NEW j \in Ids
               PROVE  Less(key[i], key[j]) <=>
                          \/ a[i] < a[j] \/ (a[i] = a[j] /\ b[i] < b[j])
                          \/ (a[i] = a[j] /\ b[i] = b[j] /\ i < j)
    OBVIOUS
  <2>1. /\ a[i] \in Int /\ b[i] \in Int /\ i \in Int
        /\ a[j] \in Int /\ b[j] \in Int /\ j \in Int
        /\ key[i] = <<a[i], b[i], i>> /\ key[j] = <<a[j], b[j], j>>
    BY <1>2
  <2>2. /\ DOMAIN key[i] = 1..3 /\ key[i][1] = a[i] /\ key[i][2] = b[i]
        /\ key[i][3] = i
        /\ key[j][1] = a[j] /\ key[j][2] = b[j] /\ key[j][3] = j
    BY <2>1
  <2>3. QED
    BY <2>1, <2>2, LessThree
<1>4. QED
  BY <1>2, <1>3 DEF Orders, key

LEMMA QueueOrders ==
    ASSUME queue \in [Ids -> Rows]
    PROVE  Orders(QueueOrder)
<1> DEFINE key == QueueOrder
           g == [i \in Ids |-> key[i][1]]
           a == [i \in Ids |-> key[i][2]]
           b == [i \in Ids |-> key[i][3]]
<1>1. ASSUME NEW i \in Ids
      PROVE  \E w, x, y \in Int : key[i] = <<w, x, y, i>>
  <2>1. /\ queue[i].count \in Nat /\ queue[i].date \in Nat
        /\ queue[i].checks \in Nat /\ queue[i].tried \in Nat
    BY RowFields
  <2>2. key[i] = QueuePlace(i) /\ Group(i) \in 1..4
    BY DEF QueueOrder, Group
  <2>3. CASE Group(i) = 1
    BY <2>1, <2>2, <2>3 DEF QueuePlace
  <2>4. CASE Group(i) = 2
    BY <2>1, <2>2, <2>4 DEF QueuePlace
  <2>5. CASE Group(i) = 3
    BY <2>1, <2>2, <2>5 DEF QueuePlace
  <2>6. CASE Group(i) = 4
    BY <2>1, <2>2, <2>6 DEF QueuePlace
  <2>7. QED
    BY <2>2, <2>3, <2>4, <2>5, <2>6
<1> HIDE DEF key
<1>2. \A i \in Ids : /\ g[i] \in Int /\ a[i] \in Int /\ b[i] \in Int
                     /\ i \in Int /\ key[i] = <<g[i], a[i], b[i], i>>
  <2> SUFFICES ASSUME NEW i \in Ids
               PROVE  /\ g[i] \in Int /\ a[i] \in Int /\ b[i] \in Int
                      /\ i \in Int /\ key[i] = <<g[i], a[i], b[i], i>>
    OBVIOUS
  <2>1. PICK w, x, y \in Int : key[i] = <<w, x, y, i>>
    BY <1>1
  <2>2. g[i] = w /\ a[i] = x /\ b[i] = y
    BY <2>1
  <2>3. i \in Int
    OBVIOUS
  <2> HIDE DEF g, a, b
  <2>4. QED
    BY <2>1, <2>2, <2>3
<1> HIDE DEF g, a, b
<1>3. \A i, j \in Ids :
          Less(key[i], key[j]) <=>
              \/ g[i] < g[j]
              \/ g[i] = g[j] /\ (a[i] < a[j] \/ (a[i] = a[j] /\ b[i] < b[j])
                                  \/ (a[i] = a[j] /\ b[i] = b[j] /\ i < j))
  <2> SUFFICES ASSUME NEW i \in Ids, NEW j \in Ids
               PROVE  Less(key[i], key[j]) <=>
                          \/ g[i] < g[j]
                          \/ g[i] = g[j] /\ (a[i] < a[j] \/ (a[i] = a[j] /\ b[i] < b[j])
                                              \/ (a[i] = a[j] /\ b[i] = b[j] /\ i < j))
    OBVIOUS
  <2>1. /\ g[i] \in Int /\ a[i] \in Int /\ b[i] \in Int /\ i \in Int
        /\ g[j] \in Int /\ a[j] \in Int /\ b[j] \in Int /\ j \in Int
        /\ key[i] = <<g[i], a[i], b[i], i>>
        /\ key[j] = <<g[j], a[j], b[j], j>>
    BY <1>2
  <2>2. /\ DOMAIN key[i] = 1..4 /\ key[i][1] = g[i] /\ key[i][2] = a[i]
        /\ key[i][3] = b[i] /\ key[i][4] = i
        /\ key[j][1] = g[j] /\ key[j][2] = a[j] /\ key[j][3] = b[j]
        /\ key[j][4] = j
    BY <2>1
  <2>3. QED
    BY <2>1, <2>2, LessFour
<1>4. QED
  BY <1>2, <1>3 DEF Orders, key

-----------------------------------------------------------------------------
(* Claims share nothing                                                    *)

\* A claim picks rows it has locked, each once.
Held(p, l) ==
    /\ p \in Seq(Ids) /\ l \in SUBSET Ids /\ Range(p) \subseteq l
    /\ \A m, n \in DOMAIN p : p[m] = p[n] => m = n

\* It keeps to its limit, and holds nothing before it begins.
OneClaim(st, n, p, l) ==
    /\ st \in 0..5 /\ n \in Limits \cup {0}
    /\ Held(p, l) /\ Len(p) <= n
    /\ st = 0 => p = <<>> /\ l = {}

SharedTypes ==
    /\ queue \in [Ids -> Rows] /\ leased \subseteq Ids /\ lapses \in 0..LeaseLimit
    /\ stage \in [Claims -> 0..5] /\ limit \in [Claims -> Limits \cup {0}]
    /\ picked \in [Claims -> Seq(Ids)] /\ locked \in [Claims -> SUBSET Ids]
    /\ offered \in [Claims -> SUBSET Ids]
    /\ undisturbed \in [Claims -> BOOLEAN]

\* Rows are locked by one claim, and not while they are leased.
Apart ==
    /\ \A c \in Claims : locked[c] \cap leased = {}
    /\ \A c, d \in Claims : c # d => locked[c] \cap locked[d] = {}

ClaimInv ==
    /\ SharedTypes /\ Apart
    /\ \A c \in Claims : OneClaim(stage[c], limit[c], picked[c], locked[c])

LEMMA HeldTogether ==
    ASSUME NEW p, NEW l, NEW q, NEW m, Held(p, l), Held(q, m),
           Range(p) \cap Range(q) = {}
    PROVE  Held(p \o q, l \cup m) /\ Len(p \o q) = Len(p) + Len(q)
<1>1. p \in Seq(Ids) /\ q \in Seq(Ids)
  BY DEF Held
<1>2. /\ p \o q \in Seq(Ids) /\ Len(p \o q) = Len(p) + Len(q)
      /\ \A i \in 1..Len(p) + Len(q) :
             (p \o q)[i] = IF i <= Len(p) THEN p[i] ELSE q[i - Len(p)]
  BY <1>1, ConcatProperties
<1>3. /\ DOMAIN p = 1..Len(p) /\ DOMAIN q = 1..Len(q) /\ Len(p) \in Nat
      /\ Len(q) \in Nat /\ DOMAIN (p \o q) = 1..Len(p \o q)
  BY <1>1, <1>2
<1>4. \A i \in DOMAIN (p \o q) :
          \/ /\ i \in DOMAIN p /\ (p \o q)[i] = p[i]
             /\ (p \o q)[i] \in Range(p)
          \/ /\ i - Len(p) \in DOMAIN q /\ (p \o q)[i] = q[i - Len(p)]
             /\ (p \o q)[i] \in Range(q)
  BY <1>2, <1>3 DEF Range
<1>5. Range(p \o q) \subseteq l \cup m
  BY <1>4 DEF Held, Range
<1>6. \A i, j \in DOMAIN (p \o q) : (p \o q)[i] = (p \o q)[j] => i = j
  BY <1>3, <1>4 DEF Held
<1>7. QED
  BY <1>2, <1>5, <1>6 DEF Held

\* What a read locks was free, and not picked before.
LEMMA CandidatesFree ==
    ASSUME ClaimInv, NEW c \in Claims, NEW s \in 1..4
    PROVE  /\ Candidates(c, s) \in SUBSET Ids
           /\ Candidates(c, s) \subseteq Free(c)
           /\ Candidates(c, s) \cap Range(picked[c]) = {}
<1>1. \A n, S, key : First(n, S, key) \subseteq S
  BY DEF First
<1>2. Candidates(c, s) \subseteq Free(c) \cap NotYet(c)
  BY <1>1 DEF Candidates
<1>3. QED
  BY <1>2 DEF Free, NotYet

LEMMA MissingType ==
    ASSUME ClaimInv, NEW c \in Claims
    PROVE  Missing(c) \in Nat /\ Len(picked[c]) + Missing(c) = limit[c]
<1>1. /\ limit[c] \in Limits \cup {0} /\ picked[c] \in Seq(Ids)
      /\ Len(picked[c]) <= limit[c]
  BY DEF ClaimInv, OneClaim, Held
<1>2. limit[c] \in Nat /\ Len(picked[c]) \in Nat
  <2>1. \A k \in Limits \cup {0} : k \in Nat
    OBVIOUS
  <2>2. limit[c] \in Nat
    BY <1>1, <2>1
  <2>3. \A q \in Seq(Ids) : Len(q) \in Nat
    OBVIOUS
  <2>4. QED
    BY <1>1, <2>2, <2>3
<1> DEFINE n == limit[c]
           m == Len(picked[c])
<1>3. Missing(c) = n - m
  BY DEF Missing
<1> HIDE DEF n, m
<1>4. n \in Nat /\ m \in Nat /\ m <= n
  BY <1>1, <1>2 DEF n, m
<1>5. QED
  BY <1>3, <1>4 DEF n, m

LEMMA PicksHeld ==
    ASSUME ClaimInv, NEW c \in Claims, NEW s \in 1..4
    PROVE  /\ Held(Picks(c, s), Candidates(c, s))
           /\ Len(Picks(c, s)) <= Missing(c)
<1> DEFINE C == Candidates(c, s)
           key == Keys(s)
           F == First(Missing(c), C, key)
<1>1. C \in SUBSET Ids /\ Missing(c) \in Nat /\ Orders(key)
  BY CandidatesFree, MissingType, KeysOrder DEF ClaimInv, SharedTypes
<1> HIDE DEF C, key
<1>2. /\ F \in SUBSET C
      /\ Cardinality(F) = IF Missing(c) < Cardinality(C) THEN Missing(c)
                          ELSE Cardinality(C)
  BY <1>1, FirstSize
<1>3. F \in SUBSET Ids /\ Cardinality(C) \in Nat
  BY <1>1, <1>2, RowsFinite
<1> HIDE DEF F
<1>4. /\ Sorted(F, key) \in Seq(Ids) /\ Len(Sorted(F, key)) = Cardinality(F)
      /\ Range(Sorted(F, key)) = F
      /\ \A m, n \in DOMAIN Sorted(F, key) :
             Sorted(F, key)[m] = Sorted(F, key)[n] => m = n
  BY <1>1, <1>3, SortedRanks, SortedRows
<1>5. Held(Sorted(F, key), C) /\ Len(Sorted(F, key)) <= Missing(c)
  BY <1>1, <1>2, <1>3, <1>4 DEF Held
<1>6. QED
  BY <1>5 DEF Picks, F, C, key

-----------------------------------------------------------------------------
LEMMA InitClaims == ClaimInit => ClaimInv
<1> SUFFICES ASSUME ClaimInit PROVE ClaimInv
  OBVIOUS
<1>1. <<>> \in Seq(Ids) /\ Len(<<>>) = 0 /\ Range(<<>>) = {}
  BY DEF Range
<1>2. Held(<<>>, {})
  BY <1>1 DEF Held
<1>3. \A c \in Claims : OneClaim(stage[c], limit[c], picked[c], locked[c])
  BY <1>1, <1>2 DEF ClaimInit, OneClaim
<1>4. QED
  BY <1>1, <1>3 DEF ClaimInit, ClaimInv, SharedTypes, Apart

\* One claim takes a step, the others keep what they have.
LEMMA BeginKeeps ==
    ASSUME ClaimInv, NEW c \in Claims, NEW n \in Limits, Begin(c, n)
    PROVE  ClaimInv'
<1>1. SharedTypes'
  <2>1. Free(c) \in SUBSET Ids
    BY DEF Free
  <2>2. QED
    BY <2>1 DEF ClaimInv, SharedTypes, Begin
<1>2. Apart'
  BY DEF Begin, ClaimInv, Apart
<1>3. ASSUME NEW d \in Claims
      PROVE  OneClaim(stage'[d], limit'[d], picked'[d], locked'[d])
  <2>1. OneClaim(stage[d], limit[d], picked[d], locked[d])
    BY DEF ClaimInv
  <2>2. CASE d # c
    BY <2>1, <2>2 DEF Begin, ClaimInv, SharedTypes
  <2>3. CASE d = c
    <3>1. /\ stage'[d] = 1 /\ limit'[d] = n /\ picked'[d] = picked[d]
          /\ locked'[d] = locked[d] /\ picked[d] = <<>>
      BY <2>1, <2>3 DEF Begin, ClaimInv, SharedTypes, OneClaim
    <3>2. Len(<<>>) = 0 /\ n \in Nat
      OBVIOUS
    <3>3. QED
      BY <2>1, <3>1, <3>2 DEF OneClaim
  <2>4. QED
    BY <2>2, <2>3
<1>4. QED
  BY <1>1, <1>2, <1>3 DEF ClaimInv

LEMMA ReadKeeps ==
    ASSUME ClaimInv, NEW c \in Claims, ReadStage(c)
    PROVE  ClaimInv'
<1> DEFINE s == stage[c]
           p == picked[c] \o Picks(c, s)
           l == locked[c] \cup Candidates(c, s)
<1>1. s \in 1..4 /\ stage' = [stage EXCEPT ![c] = s + 1]
  BY DEF ReadStage
<1>2. /\ Held(p, l) /\ Len(p) <= limit[c]
      /\ l \cap leased = {} /\ \A d \in Claims \ {c} : l \cap locked[d] = {}
  <2>1. /\ Candidates(c, s) \in SUBSET Ids
        /\ Candidates(c, s) \subseteq Free(c)
        /\ Candidates(c, s) \cap Range(picked[c]) = {}
    BY <1>1, CandidatesFree
  <2>2. Held(Picks(c, s), Candidates(c, s)) /\ Len(Picks(c, s)) <= Missing(c)
    BY <1>1, PicksHeld
  <2>3. Held(picked[c], locked[c])
    BY DEF ClaimInv, OneClaim
  <2>4. Range(picked[c]) \cap Range(Picks(c, s)) = {}
    BY <2>1, <2>2 DEF Held
  <2>5. Held(p, l) /\ Len(p) = Len(picked[c]) + Len(Picks(c, s))
    BY <2>2, <2>3, <2>4, HeldTogether
  <2>6. Len(p) <= limit[c]
    <3> DEFINE k == Len(picked[c])
               m == Len(Picks(c, s))
               r == Missing(c)
    <3>1. /\ k \in Nat /\ m \in Nat /\ r \in Nat /\ m <= r
          /\ k + r = limit[c] /\ Len(p) = k + m
      BY <2>2, <2>3, <2>5, MissingType DEF Held
    <3> HIDE DEF k, m, r, p, s
    <3>2. QED
      BY <3>1
  <2>7. /\ l \cap leased = {}
        /\ \A d \in Claims \ {c} : l \cap locked[d] = {}
    BY <2>1 DEF Free, ClaimInv, Apart
  <2>8. QED
    BY <2>5, <2>6, <2>7
<1> HIDE DEF s, p, l
<1>3. \/ picked' = [picked EXCEPT ![c] = p] /\ locked' = [locked EXCEPT ![c] = l]
      \/ UNCHANGED <<picked, locked>>
  BY DEF ReadStage, s, p, l
<1>4. UNCHANGED <<queue, leased, limit, undisturbed, lapses>>
  BY DEF ReadStage
<1>5. SharedTypes'
  <2>1. stage' \in [Claims -> 0..5]
    BY <1>1 DEF ClaimInv, SharedTypes
  <2>2. picked' \in [Claims -> Seq(Ids)] /\ locked' \in [Claims -> SUBSET Ids]
    BY <1>2, <1>3 DEF ClaimInv, SharedTypes, Held
  <2>3. offered' \in [Claims -> SUBSET Ids]
    BY DEF ReadStage, ClaimInv, SharedTypes
  <2>4. QED
    BY <1>4, <2>1, <2>2, <2>3 DEF ClaimInv, SharedTypes
<1>6. Apart'
  <2>1. CASE picked' = [picked EXCEPT ![c] = p] /\ locked' = [locked EXCEPT ![c] = l]
    <3>1. locked'[c] = l /\ \A d \in Claims \ {c} : locked'[d] = locked[d]
      BY <2>1 DEF ClaimInv, SharedTypes
    <3>2. QED
      BY <1>2, <1>4, <3>1 DEF ClaimInv, Apart
  <2>2. CASE UNCHANGED <<picked, locked>>
    BY <1>4, <2>2 DEF ClaimInv, Apart
  <2>3. QED
    BY <1>3, <2>1, <2>2
<1>7. ASSUME NEW d \in Claims
      PROVE  OneClaim(stage'[d], limit'[d], picked'[d], locked'[d])
  <2>1. OneClaim(stage[d], limit[d], picked[d], locked[d])
    BY DEF ClaimInv
  <2>2. CASE d # c
    BY <1>1, <1>3, <1>4, <2>1, <2>2 DEF ClaimInv, SharedTypes
  <2>3. CASE d = c
    <3>1. stage'[d] = s + 1 /\ s + 1 \in 1..5 /\ limit'[d] = limit[d]
      BY <1>1, <1>4, <2>3 DEF ClaimInv, SharedTypes
    <3>2. \/ picked'[d] = p /\ locked'[d] = l
          \/ picked'[d] = picked[d] /\ locked'[d] = locked[d]
      BY <1>3, <2>3 DEF ClaimInv, SharedTypes
    <3>3. QED
      BY <1>2, <2>1, <2>3, <3>1, <3>2 DEF OneClaim
  <2>4. QED
    BY <2>2, <2>3
<1>8. QED
  BY <1>5, <1>6, <1>7 DEF ClaimInv

LEMMA LeaseKeeps ==
    ASSUME ClaimInv, NEW c \in Claims, Lease(c)
    PROVE  ClaimInv'
<1>1. <<>> \in Seq(Ids) /\ Len(<<>>) = 0 /\ Range(<<>>) = {} /\ DOMAIN <<>> = {}
  BY DEF Range
<1>2. Range(picked[c]) \subseteq locked[c] /\ locked[c] \subseteq Ids
  BY DEF ClaimInv, OneClaim, Held
<1>3. SharedTypes'
  <2>1. picked' \in [Claims -> Seq(Ids)] /\ locked' \in [Claims -> SUBSET Ids]
    BY <1>1 DEF Lease, ClaimInv, SharedTypes
  <2>2. /\ stage' \in [Claims -> 0..5] /\ limit' \in [Claims -> Limits \cup {0}]
        /\ offered' \in [Claims -> SUBSET Ids]
        /\ undisturbed' \in [Claims -> BOOLEAN]
    BY DEF Lease, ClaimInv, SharedTypes
  <2>3. leased' \subseteq Ids
    BY <1>2 DEF Lease, ClaimInv, SharedTypes
  <2>4. QED
    BY <2>1, <2>2, <2>3 DEF Lease, ClaimInv, SharedTypes
<1>4. Apart'
  <2>1. locked'[c] = {} /\ \A d \in Claims \ {c} : locked'[d] = locked[d]
    BY DEF Lease, ClaimInv, SharedTypes
  <2>2. leased' = leased \cup Range(picked[c])
    BY DEF Lease
  <2>3. QED
    BY <1>2, <2>1, <2>2 DEF ClaimInv, Apart
<1>5. ASSUME NEW d \in Claims
      PROVE  OneClaim(stage'[d], limit'[d], picked'[d], locked'[d])
  <2>1. OneClaim(stage[d], limit[d], picked[d], locked[d])
    BY DEF ClaimInv
  <2>2. CASE d # c
    BY <2>1, <2>2 DEF Lease, ClaimInv, SharedTypes
  <2>3. CASE d = c
    <3>1. /\ stage'[d] = 0 /\ limit'[d] = 0 /\ picked'[d] = <<>>
          /\ locked'[d] = {}
      BY <2>3 DEF Lease, ClaimInv, SharedTypes
    <3>2. Held(<<>>, {})
      BY <1>1 DEF Held
    <3>3. QED
      BY <1>1, <3>1, <3>2 DEF OneClaim
  <2>4. QED
    BY <2>2, <2>3
<1>6. QED
  BY <1>3, <1>4, <1>5 DEF ClaimInv

LEMMA LapseKeeps ==
    ASSUME ClaimInv, NEW i \in Ids, Lapse(i)
    PROVE  ClaimInv'
<1>1. SharedTypes'
  BY DEF Lapse, ClaimInv, SharedTypes
<1>2. Apart' /\ \A c \in Claims : OneClaim(stage'[c], limit'[c], picked'[c], locked'[c])
  BY DEF Lapse, ClaimInv, Apart
<1>3. QED
  BY <1>1, <1>2 DEF ClaimInv

LEMMA NextClaims == ClaimInv /\ [ClaimNext]_claimVars => ClaimInv'
<1> SUFFICES ASSUME ClaimInv, [ClaimNext]_claimVars PROVE ClaimInv'
  OBVIOUS
<1>1. CASE ClaimNext
  BY <1>1, BeginKeeps, ReadKeeps, LeaseKeeps, LapseKeeps DEF ClaimNext
<1>2. CASE UNCHANGED claimVars
  BY <1>2 DEF claimVars, ClaimInv, SharedTypes, Apart
<1>3. QED
  BY <1>1, <1>2

LEMMA ClaimsHold == ClaimSpec => []ClaimInv
  BY InitClaims, NextClaims, PTL DEF ClaimSpec

\* A claim picks as many rows as it was asked for at most, and only rows it
\* has locked.
THEOREM ClaimsTyped == ClaimSpec => []ClaimTypeOK
<1>1. ClaimInv => ClaimTypeOK
  BY DEF ClaimInv, SharedTypes, OneClaim, Held, ClaimTypeOK
<1>2. QED
  BY <1>1, ClaimsHold, PTL

\* However claims overlap, no row is picked by two of them, or picked twice,
\* or picked while it is leased.
THEOREM NothingClaimedTwice == ClaimSpec => []ClaimsDisjoint
<1>1. ClaimInv => ClaimsDisjoint
  BY DEF ClaimInv, Apart, OneClaim, Held, ClaimsDisjoint
<1>2. QED
  BY <1>1, ClaimsHold, PTL

-----------------------------------------------------------------------------
(* Reads that follow each other                                            *)

\* A sequence that has every row at its rank is the sorted one.
LEMMA SortedUnique ==
    ASSUME NEW S \in SUBSET Ids, NEW key, Orders(key), NEW q \in Seq(Ids),
           Len(q) = Cardinality(S),
           \A n \in 1..Len(q) : q[n] \in S /\ Rank(q[n], S, key) = n - 1
    PROVE  q = Sorted(S, key)
<1> DEFINE s == Sorted(S, key)
<1>1. /\ s \in Seq(Ids) /\ Len(s) = Len(q)
      /\ \A n \in 1..Len(q) : s[n] \in S /\ Rank(s[n], S, key) = n - 1
  BY SortedRanks
<1> HIDE DEF s
<1>2. ASSUME NEW n \in 1..Len(q) PROVE q[n] = s[n]
  <2>1. /\ q[n] \in S /\ s[n] \in S
        /\ Rank(q[n], S, key) = Rank(s[n], S, key)
    BY <1>1
  <2>2. QED
    BY <2>1, RankDistinct
<1>3. q = s
  BY <1>1, <1>2
<1>4. QED
  BY <1>3 DEF s

\* Orders that agree on some rows sort them alike.
Alike(N, key, other) ==
    \A i, j \in N : Less(key[i], key[j]) <=> Less(other[i], other[j])

LEMMA SameFirst ==
    ASSUME NEW N \in SUBSET Ids, NEW key, NEW other, Alike(N, key, other), NEW n
    PROVE  First(n, N, key) = First(n, N, other)
<1>1. \A i \in N : Earlier(i, N, key) = Earlier(i, N, other)
  BY DEF Earlier, Alike
<1>2. QED
  BY <1>1 DEF First

LEMMA SameOrder ==
    ASSUME NEW N \in SUBSET Ids, NEW S \in SUBSET N, NEW key, NEW other,
           Orders(key), Orders(other), Alike(N, key, other)
    PROVE  Sorted(S, key) = Sorted(S, other)
<1>1. \A i \in S : Earlier(i, S, key) = Earlier(i, S, other)
  BY DEF Earlier, Alike
<1>2. S \in SUBSET Ids
  OBVIOUS
<1> DEFINE q == Sorted(S, key)
<1>3. /\ q \in Seq(Ids) /\ Len(q) = Cardinality(S)
      /\ \A k \in 1..Len(q) : q[k] \in S /\ Rank(q[k], S, key) = k - 1
  BY <1>2, SortedRanks
<1>4. \A k \in 1..Len(q) : Rank(q[k], S, other) = k - 1
  BY <1>1, <1>3 DEF Rank
<1> HIDE DEF q
<1>5. q = Sorted(S, other)
  BY <1>2, <1>3, <1>4, SortedUnique
<1>6. QED
  BY <1>5 DEF q

LEMMA SizeOfUnion ==
    ASSUME NEW A \in SUBSET Ids, NEW B \in SUBSET Ids, A \cap B = {}
    PROVE  Cardinality(A \cup B) = Cardinality(A) + Cardinality(B)
<1>1. IsFiniteSet(A) /\ IsFiniteSet(B)
  BY RowsFinite
<1>2. /\ Cardinality(A \cup B) =
             Cardinality(A) + Cardinality(B) - Cardinality(A \cap B)
      /\ Cardinality(A \cap B) = 0
  BY <1>1, FS_Union, FS_EmptySet
<1>3. Cardinality(A) \in Nat /\ Cardinality(B) \in Nat
  BY RowsFinite
<1>4. QED
  BY <1>2, <1>3

\* All rows of G come before those of N.
Before(G, N, key) == \A g \in G, x \in N : Less(key[g], key[x])

\* Such sets are disjoint; ranks in the first stay, in the second they move up.
LEMMA JoinSize ==
    ASSUME NEW G \in SUBSET Ids, NEW N \in SUBSET Ids, NEW key, Orders(key),
           Before(G, N, key)
    PROVE  /\ G \cap N = {} /\ G \cup N \in SUBSET Ids
           /\ Cardinality(G \cup N) = Cardinality(G) + Cardinality(N)
           /\ Cardinality(G) \in Nat /\ Cardinality(N) \in Nat
<1>1. G \cap N = {}
  BY DEF Orders, Before
<1>2. QED
  BY <1>1, SizeOfUnion, RowsFinite

LEMMA RankLow ==
    ASSUME NEW G \in SUBSET Ids, NEW N \in SUBSET Ids, NEW key, Orders(key),
           Before(G, N, key), NEW g \in G
    PROVE  Rank(g, G \cup N, key) = Rank(g, G, key)
<1>1. Earlier(g, G \cup N, key) = Earlier(g, G, key)
  BY DEF Earlier, Orders, Before
<1>2. QED
  BY <1>1 DEF Rank

LEMMA RankHigh ==
    ASSUME NEW G \in SUBSET Ids, NEW N \in SUBSET Ids, NEW key, Orders(key),
           Before(G, N, key), NEW x \in N
    PROVE  Rank(x, G \cup N, key) = Cardinality(G) + Rank(x, N, key)
<1>1. Earlier(x, G \cup N, key) = G \cup Earlier(x, N, key)
  BY DEF Earlier, Before
<1>2. Earlier(x, N, key) \in SUBSET N
  BY DEF Earlier
<1>3. G \cap Earlier(x, N, key) = {}
  BY <1>2 DEF Orders, Before
<1>4. QED
  BY <1>1, <1>2, <1>3, SizeOfUnion DEF Rank

Joined(p, q) == p \o q

LEMMA SortedJoin ==
    ASSUME NEW G \in SUBSET Ids, NEW N \in SUBSET Ids, NEW key, Orders(key),
           Before(G, N, key)
    PROVE  Sorted(G \cup N, key) = Joined(Sorted(G, key), Sorted(N, key))
<1> DEFINE p == Sorted(G, key)
           q == Sorted(N, key)
           a == Cardinality(G)
           b == Cardinality(N)
<1>1. /\ p \in Seq(Ids) /\ Len(p) = a /\ q \in Seq(Ids) /\ Len(q) = b
      /\ \A n \in 1..a : p[n] \in G /\ Rank(p[n], G, key) = n - 1
      /\ \A n \in 1..b : q[n] \in N /\ Rank(q[n], N, key) = n - 1
  BY SortedRanks
<1>2. /\ a \in Nat /\ b \in Nat
      /\ G \cup N \in SUBSET Ids /\ Cardinality(G \cup N) = a + b
      /\ \A g \in G : Rank(g, G \cup N, key) = Rank(g, G, key)
      /\ \A x \in N : Rank(x, G \cup N, key) = a + Rank(x, N, key)
  <2>1. /\ a \in Nat /\ b \in Nat
        /\ G \cup N \in SUBSET Ids /\ Cardinality(G \cup N) = a + b
    BY JoinSize
  <2> HIDE DEF a, b
  <2>2. ASSUME NEW g \in G PROVE Rank(g, G \cup N, key) = Rank(g, G, key)
    BY RankLow
  <2>3. ASSUME NEW x \in N PROVE Rank(x, G \cup N, key) = a + Rank(x, N, key)
    BY RankHigh DEF a
  <2>4. QED
    BY <2>1, <2>2, <2>3
<1> HIDE DEF p, q, a, b
<1>3. /\ p \o q \in Seq(Ids) /\ Len(p \o q) = a + b
      /\ \A n \in 1..a + b : (p \o q)[n] = IF n <= a THEN p[n] ELSE q[n - a]
  BY <1>1, ConcatProperties
<1>4. ASSUME NEW n \in 1..a + b
      PROVE  (p \o q)[n] \in G \cup N /\ Rank((p \o q)[n], G \cup N, key) = n - 1
  <2>1. CASE n <= a
    <3>1. (p \o q)[n] = p[n] /\ n \in 1..a
      BY <1>2, <1>3, <2>1
    <3>2. QED
      BY <1>1, <1>2, <3>1
  <2>2. CASE ~(n <= a)
    <3>0. n - a \in 1..b
      BY <1>2, <2>2
    <3>1. (p \o q)[n] = q[n - a] /\ n - a \in 1..b
      BY <1>3, <2>2, <3>0
    <3>2. q[n - a] \in N /\ Rank(q[n - a], N, key) = n - a - 1
      BY <1>1, <3>1
    <3>3. Rank(q[n - a], G \cup N, key) = a + (n - a - 1)
      BY <1>2, <3>2
    <3>4. a + (n - a - 1) = n - 1
      BY <1>2
    <3>5. QED
      BY <3>1, <3>2, <3>3, <3>4
  <2>3. QED
    BY <2>1, <2>2
<1>5. p \o q = Sorted(G \cup N, key)
  BY <1>2, <1>3, <1>4, SortedUnique
<1>6. QED
  BY <1>5 DEF p, q, Joined

\* The first n rows of both are those of the one, and then of the other.
LEMMA FirstJoin ==
    ASSUME NEW G \in SUBSET Ids, NEW N \in SUBSET Ids, NEW key, Orders(key),
           Before(G, N, key), NEW n \in Nat, NEW m \in Nat,
           m = n - Cardinality(First(n, G, key))
    PROVE  First(n, G \cup N, key) = First(n, G, key) \cup First(m, N, key)
<1> DEFINE a == Cardinality(G)
<1>1. /\ a \in Nat
      /\ \A g \in G : Rank(g, G \cup N, key) = Rank(g, G, key)
      /\ \A x \in N : Rank(x, G \cup N, key) = a + Rank(x, N, key)
  <2>1. a \in Nat
    BY RowsFinite
  <2> HIDE DEF a
  <2>2. ASSUME NEW g \in G PROVE Rank(g, G \cup N, key) = Rank(g, G, key)
    BY RankLow
  <2>3. ASSUME NEW x \in N PROVE Rank(x, G \cup N, key) = a + Rank(x, N, key)
    BY RankHigh DEF a
  <2>4. QED
    BY <2>1, <2>2, <2>3
<1>2. \A x \in N : Rank(x, N, key) \in Nat
  BY RankType
<1>3. Cardinality(First(n, G, key)) = IF n < a THEN n ELSE a
  BY FirstSize
<1> HIDE DEF a
<1>4. m = IF n < a THEN 0 ELSE n - a
  BY <1>1, <1>3
<1>5. \A x \in N : a + Rank(x, N, key) < n <=> Rank(x, N, key) < m
  BY <1>1, <1>2, <1>4
<1>6. \A i : /\ i \in First(n, G \cup N, key) <=>
                  i \in G \cup N /\ Rank(i, G \cup N, key) < n
             /\ i \in First(n, G, key) <=> i \in G /\ Rank(i, G, key) < n
             /\ i \in First(m, N, key) <=> i \in N /\ Rank(i, N, key) < m
  BY DEF First, Rank
<1>7. ASSUME NEW i
      PROVE  i \in First(n, G \cup N, key) <=>
                 i \in First(n, G, key) \cup First(m, N, key)
  <2>1. G \cap N = {}
    BY JoinSize
  <2>2. CASE i \in G
    BY <1>1, <1>6, <2>1, <2>2, Zenon
  <2>3. CASE i \in N
    <3>1. Rank(i, G \cup N, key) = a + Rank(i, N, key) /\ i \notin G
      BY <1>1, <2>1, <2>3
    <3>2. a + Rank(i, N, key) < n <=> Rank(i, N, key) < m
      BY <1>5, <2>3
    <3>3. Rank(i, G \cup N, key) < n <=> Rank(i, N, key) < m
      BY <3>1, <3>2, Zenon
    <3>4. QED
      BY <1>6, <2>3, <3>1, <3>3, Zenon
  <2>4. CASE i \notin G /\ i \notin N
    BY <1>6, <2>4, Zenon
  <2>5. QED
    BY <2>2, <2>3, <2>4
<1>8. QED
  BY <1>7, Zenon

\* The first rows of a part that holds the first rows of all.
LEMMA FirstOfPart ==
    ASSUME NEW N \in SUBSET Ids, NEW C \in SUBSET N, NEW key, Orders(key),
           NEW m \in Nat, First(m, N, key) \subseteq C
    PROVE  First(m, C, key) = First(m, N, key)
<1>0. C \in SUBSET Ids
  OBVIOUS
<1>1. \A S, i : i \in First(m, S, key) <=> i \in S /\ Rank(i, S, key) < m
  BY DEF First, Rank
<1>2. ASSUME NEW i \in C
      PROVE  /\ Rank(i, C, key) \in Nat /\ Rank(i, N, key) \in Nat
             /\ Rank(i, C, key) <= Rank(i, N, key)
  <2>1. Earlier(i, C, key) \subseteq Earlier(i, N, key)
    BY DEF Earlier
  <2>2. Earlier(i, N, key) \in SUBSET Ids
    BY DEF Earlier
  <2>3. QED
    BY <1>0, <2>1, <2>2, SubsetSize, RankType DEF Rank
<1>3. ASSUME NEW i \in C, Rank(i, C, key) < m
      PROVE  Rank(i, N, key) < m
  <2> SUFFICES ASSUME ~(Rank(i, N, key) < m) PROVE FALSE
    OBVIOUS
  <2> DEFINE F == First(m, N, key)
             E == Earlier(i, C, key)
  <2>1. F \subseteq E
    <3> SUFFICES ASSUME NEW j \in F PROVE Less(key[j], key[i])
      BY DEF Earlier
    <3>1. j \in N /\ Rank(j, N, key) < m
      BY <1>1
    <3>2. Rank(j, N, key) \in Nat /\ Rank(i, N, key) \in Nat
      BY RankType
    <3>3. i # j
      BY <3>1
    <3>4. ~Less(key[i], key[j])
      <4>1. SUFFICES ASSUME Less(key[i], key[j]) PROVE FALSE
        OBVIOUS
      <4>2. Rank(i, N, key) < Rank(j, N, key)
        BY <3>1, <4>1, RankGrows
      <4>3. QED
        BY <3>1, <3>2, <4>2
    <3>5. QED
      BY <3>1, <3>3, <3>4 DEF Orders
  <2>2. Cardinality(F) = m
    <3>1. Rank(i, N, key) \in 0..Cardinality(N) - 1
      BY RankBelow
    <3>2. m < Cardinality(N)
      BY <3>1, RowsFinite
    <3>3. QED
      BY <3>2, FirstSize
  <2>3. E \in SUBSET Ids /\ Cardinality(E) = Rank(i, C, key)
    BY <1>0, RankType DEF Rank
  <2>4. Cardinality(F) <= Cardinality(E)
    <3> HIDE DEF F, E
    <3>1. QED
      BY <2>1, <2>3, SubsetSize
  <2>5. Rank(i, C, key) \in Nat
    BY <1>2
  <2>6. QED
    BY <1>3, <2>2, <2>3, <2>4, <2>5
<1>4. ASSUME NEW i \in C, Rank(i, N, key) < m
      PROVE  Rank(i, C, key) < m
  <2>1. /\ Rank(i, C, key) \in Nat /\ Rank(i, N, key) \in Nat
        /\ Rank(i, C, key) <= Rank(i, N, key)
    BY <1>2
  <2>2. QED
    BY <1>4, <2>1
<1>5. ASSUME NEW i
      PROVE  i \in First(m, C, key) <=> i \in First(m, N, key)
  <2>1. i \in First(m, C, key) <=> i \in C /\ Rank(i, C, key) < m
    BY <1>1, Zenon
  <2>2. i \in First(m, N, key) <=> i \in N /\ Rank(i, N, key) < m
    BY <1>1, Zenon
  <2>3. i \in First(m, N, key) => i \in C
    OBVIOUS
  <2>4. i \in C => (Rank(i, C, key) < m <=> Rank(i, N, key) < m)
    BY <1>3, <1>4, Zenon
  <2>5. i \in C => i \in N
    OBVIOUS
  <2>6. QED
    BY <2>1, <2>2, <2>3, <2>4, <2>5, Zenon
<1>6. QED
  BY <1>5, Zenon

-----------------------------------------------------------------------------
(* A claim follows the order                                               *)

\* The rows the reads of a claim ask for; those of the groups before s, and
\* those of group s.
Asked(i) == Due(i) \/ Recheckable(i)
Upto(S, s) == {i \in S : Asked(i) /\ Group(i) < s}
Layer(S, s) == {i \in S : Asked(i) /\ Group(i) = s}

\* The first n rows of the groups before s, in the order of the queue.
Begun(S, n, s) == Sorted(First(n, Upto(S, s), QueueOrder), QueueOrder)

\* An undisturbed claim finds the rows it was offered, those that others have
\* not locked, and has picked what they have first in the groups it has read.
Follows(c) ==
    /\ stage[c] \in 1..5 /\ offered[c] = Free(c)
    /\ picked[c] = Begun(offered[c], limit[c], stage[c])

OrderInv == ClaimInv /\ \A c \in Claims : undisturbed[c] => Follows(c)

\* A read asks for its group, and for nothing else that is not picked yet.
LEMMA GroupRead ==
    ASSUME queue \in [Ids -> Rows], NEW i \in Ids, NEW s \in 1..4
    PROVE  /\ Group(i) \in 1..4
           /\ Wanted(i, s) /\ ~(Asked(i) /\ Group(i) < s) <=>
                  Asked(i) /\ Group(i) = s
<1>1. Recheckable(i) => ~Due(i)
  BY DEF Recheckable, Due
<1>2. /\ Due(i) /\ Priority(i) => Group(i) = 1
      /\ Due(i) /\ ~Priority(i) /\ queue[i].date # NoDate => Group(i) = 2
      /\ Due(i) /\ ~Priority(i) /\ queue[i].date = NoDate => Group(i) = 3
      /\ ~Due(i) => Group(i) = 4
  BY DEF Group
<1>3. CASE s = 1
  BY <1>1, <1>2, <1>3 DEF Wanted, Asked
<1>4. CASE s = 2
  BY <1>1, <1>2, <1>4 DEF Wanted, Asked
<1>5. CASE s = 3
  BY <1>1, <1>2, <1>5 DEF Wanted, Asked
<1>6. CASE s = 4
  BY <1>1, <1>2, <1>6 DEF Wanted, Asked
<1>7. QED
  BY <1>3, <1>4, <1>5, <1>6

\* The place of a row is its group, and its key in the read of that group.
LEMMA PlaceOfKey ==
    ASSUME queue \in [Ids -> Rows], NEW i \in Ids, NEW s \in 1..4, Group(i) = s
    PROVE  \E x, y \in Int : /\ Keys(s)[i] = <<x, y, i>>
                             /\ QueueOrder[i] = <<s, x, y, i>>
<1>1. /\ queue[i].count \in Nat /\ queue[i].date \in Nat
      /\ queue[i].checks \in Nat /\ queue[i].tried \in Nat
  BY RowFields
<1>2. Keys(s)[i] = Key(i, s) /\ QueueOrder[i] = QueuePlace(i)
  BY DEF Keys, QueueOrder
<1>3. CASE s = 1
  BY <1>1, <1>2, <1>3 DEF Key, QueuePlace
<1>4. CASE s = 2
  BY <1>1, <1>2, <1>4 DEF Key, QueuePlace
<1>5. CASE s = 3
  BY <1>1, <1>2, <1>5 DEF Key, QueuePlace
<1>6. CASE s = 4
  BY <1>1, <1>2, <1>6 DEF Key, QueuePlace
<1>7. QED
  BY <1>3, <1>4, <1>5, <1>6

\* Within a group the read sorts as the queue does.
LEMMA LayerOrder ==
    ASSUME queue \in [Ids -> Rows], NEW s \in 1..4,
           NEW i \in Ids, NEW j \in Ids, Group(i) = s, Group(j) = s
    PROVE  Less(Keys(s)[i], Keys(s)[j]) <=> Less(QueueOrder[i], QueueOrder[j])
<1> DEFINE k == Keys(s)
           o == QueueOrder
<1>1. PICK x, y \in Int : k[i] = <<x, y, i>> /\ o[i] = <<s, x, y, i>>
  BY PlaceOfKey
<1>2. PICK z, w \in Int : k[j] = <<z, w, j>> /\ o[j] = <<s, z, w, j>>
  BY PlaceOfKey
<1> HIDE DEF k, o
<1>3. Less(k[i], k[j]) <=> \/ x < z \/ (y < w /\ x = z)
                           \/ (i < j /\ x = z /\ y = w)
  <2>1. DOMAIN k[i] = 1..3
    BY <1>1
  <2>2. /\ k[i][1] = x /\ k[i][2] = y /\ k[i][3] = i
        /\ k[j][1] = z /\ k[j][2] = w /\ k[j][3] = j
    BY <1>1, <1>2
  <2>3. QED
    BY <2>1, <2>2, LessThree
<1>4. Less(o[i], o[j]) <=> \/ s < s \/ (x < z /\ s = s) \/ (y < w /\ s = s /\ x = z)
                           \/ (i < j /\ s = s /\ x = z /\ y = w)
  <2>1. DOMAIN o[i] = 1..4
    BY <1>1
  <2>2. /\ o[i][1] = s /\ o[i][2] = x /\ o[i][3] = y /\ o[i][4] = i
        /\ o[j][1] = s /\ o[j][2] = z /\ o[j][3] = w /\ o[j][4] = j
    BY <1>1, <1>2
  <2>3. QED
    BY <2>1, <2>2, LessFour
<1>5. ~(s < s)
  OBVIOUS
<1>6. QED
  BY <1>3, <1>4, <1>5 DEF k, o

\* The groups come one after the other.
LEMMA LayerBefore ==
    ASSUME queue \in [Ids -> Rows], NEW S \in SUBSET Ids, NEW s \in 1..4
    PROVE  /\ Upto(S, s) \in SUBSET S /\ Layer(S, s) \in SUBSET S
           /\ Upto(S, s + 1) = Upto(S, s) \cup Layer(S, s)
           /\ Before(Upto(S, s), Layer(S, s), QueueOrder)
<1>1. \A i \in S : Group(i) \in 1..4
  BY GroupRead
<1>2. Upto(S, s + 1) = Upto(S, s) \cup Layer(S, s)
  <2>1. \A g \in 1..4 : g < s + 1 <=> g < s \/ g = s
    OBVIOUS
  <2>2. QED
    BY <1>1, <2>1 DEF Upto, Layer
<1>3. ASSUME NEW g \in Upto(S, s), NEW x \in Layer(S, s)
      PROVE  Less(QueueOrder[g], QueueOrder[x])
  <2>1. /\ g \in Ids /\ Group(g) \in 1..4 /\ Group(g) < s
        /\ x \in Ids /\ Group(x) = s
    BY <1>1 DEF Upto, Layer
  <2>2. \A i \in Ids : Group(i) \in 1..4 => /\ DOMAIN QueueOrder[i] = 1..4
                                            /\ QueueOrder[i][1] = Group(i)
    <3> SUFFICES ASSUME NEW i \in Ids, Group(i) \in 1..4
                 PROVE  /\ DOMAIN QueueOrder[i] = 1..4
                        /\ QueueOrder[i][1] = Group(i)
      OBVIOUS
    <3>1. PICK v, w \in Int : QueueOrder[i] = <<Group(i), v, w, i>>
      BY PlaceOfKey
    <3>2. QED
      BY <3>1
  <2>3. /\ DOMAIN QueueOrder[g] = 1..4 /\ QueueOrder[g][1] = Group(g)
        /\ QueueOrder[x][1] = s
    BY <2>1, <2>2
  <2>4. QED
    BY <2>1, <2>3, LessFour
<1>4. QED
  BY <1>2, <1>3 DEF Upto, Layer, Before

\* What is picked up to a group, and the first of that group for the rest.
LEMMA OneMoreGroup ==
    ASSUME queue \in [Ids -> Rows], NEW S \in SUBSET Ids, NEW s \in 1..4,
           NEW n \in Nat, NEW m \in Nat,
           m = n - Cardinality(First(n, Upto(S, s), QueueOrder))
    PROVE  Begun(S, n, s + 1) =
               Joined(Begun(S, n, s),
                      Sorted(First(m, Layer(S, s), Keys(s)), Keys(s)))
<1> DEFINE G == Upto(S, s)
           N == Layer(S, s)
           o == QueueOrder
           k == Keys(s)
           F == First(n, G, o)
           L == First(m, N, o)
<1>1. /\ G \in SUBSET Ids /\ N \in SUBSET Ids
      /\ Upto(S, s + 1) = G \cup N /\ Before(G, N, o)
  BY LayerBefore
<1>2. Orders(o) /\ Orders(k)
  BY QueueOrders, KeysOrder
<1>3. Alike(N, k, o)
  BY LayerOrder DEF Layer, Alike
<1>4. m = n - Cardinality(F)
  OBVIOUS
<1> HIDE DEF G, N, o, k
<1>5. First(n, G \cup N, o) = F \cup L
  BY <1>1, <1>2, <1>4, FirstJoin
<1>6. /\ F \in SUBSET G /\ L \in SUBSET N
  BY <1>1, <1>2, FirstSize
<1>7. Before(F, L, o) /\ F \in SUBSET Ids /\ L \in SUBSET Ids
  BY <1>1, <1>6 DEF Before
<1>8. First(m, N, k) = L
  BY <1>1, <1>3, SameFirst DEF L
<1> HIDE DEF F, L
<1>9. Sorted(L, k) = Sorted(L, o)
  BY <1>1, <1>2, <1>3, <1>6, SameOrder
<1>10. Sorted(F \cup L, o) = Joined(Sorted(F, o), Sorted(L, o))
  BY <1>2, <1>7, SortedJoin
<1>11. Sorted(First(n, G \cup N, o), o) =
          Joined(Sorted(F, o), Sorted(First(m, N, k), k))
  BY <1>5, <1>8, <1>9, <1>10
<1>12. QED
  BY <1>1, <1>11 DEF Begun, G, N, o, k, F

\* The querysets of a read: one for each status, each cut off.
FromParts(m, N, key) ==
    UNION {First(m, {i \in N : queue[i].status = st}, key) :
               st \in {"pending", "failed", "unavailable"}}

\* The querysets of a read are cut off, but not too early: taken together
\* they hold the first rows of the group.
LEMMA CutOff ==
    ASSUME queue \in [Ids -> Rows], NEW N \in SUBSET Ids, NEW key, Orders(key),
           NEW m \in Nat, NEW C, C = FromParts(m, N, key)
    PROVE  First(m, C, key) = First(m, N, key)
<1> DEFINE Part(st) == {i \in N : queue[i].status = st}
<1>1. \A st : First(m, Part(st), key) \subseteq N
  BY DEF First
<1>2. C \in SUBSET N
  BY <1>1 DEF FromParts
<1>3. ASSUME NEW i \in First(m, N, key) PROVE i \in C
  <2>1. i \in N /\ Rank(i, N, key) < m
    BY DEF First, Rank
  <2>2. PICK st \in {"pending", "failed", "unavailable"} : queue[i].status = st
    BY <2>1, RowFields
  <2>3. Part(st) \in SUBSET Ids /\ i \in Part(st)
    BY <2>1, <2>2
  <2>4. Earlier(i, Part(st), key) \in SUBSET Earlier(i, N, key)
    BY DEF Earlier
  <2>5. Earlier(i, N, key) \in SUBSET Ids
    BY DEF Earlier
  <2>6. Rank(i, Part(st), key) <= Rank(i, N, key)
    BY <2>4, <2>5, SubsetSize DEF Rank
  <2>7. Rank(i, Part(st), key) \in Nat /\ Rank(i, N, key) \in Nat
    BY <2>3, RankType
  <2>8. Rank(i, Part(st), key) < m
    BY <2>1, <2>6, <2>7
  <2>9. i \in First(m, Part(st), key)
    BY <2>3, <2>8 DEF First, Rank
  <2>10. QED
    BY <2>9 DEF FromParts
<1>4. First(m, N, key) \subseteq C
  BY <1>3
<1>5. QED
  BY <1>2, <1>4, FirstOfPart

\* A claim leaves out the rows it has picked: what it asks for is the group.
LEMMA ReadAsks ==
    ASSUME ClaimInv, NEW c \in Claims, NEW s \in 1..4, NEW S \in SUBSET Ids,
           S = Free(c), Range(picked[c]) = Upto(S, s)
    PROVE  {i \in Free(c) \cap NotYet(c) : Wanted(i, s)} = Layer(S, s)
<1>3. Free(c) \cap NotYet(c) = S \ Upto(S, s)
  BY DEF NotYet, Free
<1>4. \A i \in S : Wanted(i, s) /\ ~(Asked(i) /\ Group(i) < s) <=>
                      Asked(i) /\ Group(i) = s
  BY GroupRead DEF ClaimInv, SharedTypes
<1>5. \A i \in S : i \in Upto(S, s) <=> Asked(i) /\ Group(i) < s
  BY DEF Upto
<1>6. \A i \in S : i \in S \ Upto(S, s) /\ Wanted(i, s) <=>
                      Asked(i) /\ Group(i) = s
  BY <1>4, <1>5
<1>7. QED
  BY <1>3, <1>6 DEF Layer

\* So it picks the first of the group.
LEMMA ReadPicks ==
    ASSUME ClaimInv, NEW c \in Claims, NEW s \in 1..4, NEW S \in SUBSET Ids,
           S = Free(c), Range(picked[c]) = Upto(S, s)
    PROVE  Picks(c, s) =
               Sorted(First(Missing(c), Layer(S, s), Keys(s)), Keys(s))
<1> DEFINE N == Layer(S, s)
           k == Keys(s)
           m == Missing(c)
           C == Candidates(c, s)
<1>1. C = FromParts(m, N, k)
  <2> DEFINE W == {i \in Free(c) \cap NotYet(c) : Wanted(i, s)}
  <2>1. C = FromParts(m, W, k)
    BY DEF Candidates, FromParts
  <2>2. W = N
    BY ReadAsks
  <2>3. QED
    BY <2>1, <2>2
<1>2. m \in Nat /\ Orders(k) /\ queue \in [Ids -> Rows] /\ N \in SUBSET Ids
  BY MissingType, KeysOrder DEF ClaimInv, SharedTypes, Layer
<1>3. Picks(c, s) = Sorted(First(m, C, k), k)
  BY DEF Picks
<1> HIDE DEF N, k, m, C
<1>4. First(m, C, k) = First(m, N, k)
  BY <1>1, <1>2, CutOff
<1>5. QED
  BY <1>3, <1>4 DEF N, k, m

LEMMA ReadFollows ==
    ASSUME ClaimInv, NEW c \in Claims, ReadStage(c), Follows(c)
    PROVE  picked'[c] = Begun(offered[c], limit[c], stage[c] + 1)
<1> DEFINE s == stage[c]
           S == offered[c]
           n == limit[c]
           m == Missing(c)
           G == Upto(S, s)
           N == Layer(S, s)
           o == QueueOrder
           F == First(n, G, o)
           L == First(m, N, Keys(s))
           q == Sorted(L, Keys(s))
<1>1. /\ s \in 1..4 /\ S \in SUBSET Ids /\ queue \in [Ids -> Rows]
      /\ S = Free(c) /\ picked[c] = Sorted(F, o) /\ picked[c] = Begun(S, n, s)
  BY DEF ReadStage, Follows, Begun, ClaimInv, SharedTypes
<1>2. n \in Nat
  <2>1. \A k \in Limits \cup {0} : k \in Nat
    OBVIOUS
  <2>2. QED
    BY <2>1 DEF ClaimInv, SharedTypes
<1>3. /\ m \in Nat /\ Len(picked[c]) \in Nat /\ Len(picked[c]) + m = n
  <2>1. picked[c] \in Seq(Ids)
    BY DEF ClaimInv, SharedTypes
  <2>2. QED
    BY <2>1, MissingType
<1>4. IF m > 0
      THEN picked' = [picked EXCEPT ![c] = @ \o Picks(c, s)]
      ELSE UNCHANGED picked
  BY DEF ReadStage
<1>5. picked \in [Claims -> Seq(Ids)]
  BY DEF ClaimInv, SharedTypes
<1>6. Orders(o) /\ Orders(Keys(s)) /\ G \in SUBSET Ids /\ N \in SUBSET Ids
  BY <1>1, QueueOrders, KeysOrder DEF Upto, Layer
<1> HIDE DEF s, S, n, m, o
<1>7. /\ F \in SUBSET G /\ F \in SUBSET Ids
      /\ Cardinality(F) = IF n < Cardinality(G) THEN n ELSE Cardinality(G)
  BY <1>2, <1>6, FirstSize
<1>8. Cardinality(G) \in Nat /\ Cardinality(F) \in Nat
  BY <1>6, <1>7, RowsFinite
<1>9. Len(picked[c]) = Cardinality(F) /\ Range(picked[c]) = F
  <2> HIDE DEF F
  <2>1. Len(Sorted(F, o)) = Cardinality(F) /\ Range(Sorted(F, o)) = F
    BY <1>6, <1>7, SortedRanks, SortedRows
  <2>2. QED
    BY <1>1, <2>1
<1>10. m = n - Cardinality(F)
  BY <1>2, <1>3, <1>8, <1>9
<1>11. Begun(S, n, s + 1) = Joined(Begun(S, n, s), q)
  BY <1>1, <1>2, <1>3, <1>10, OneMoreGroup DEF o
<1>12. picked'[c] = picked[c] \o q
  <2>1. CASE m > 0
    <3>1. Cardinality(F) = Cardinality(G)
      BY <1>2, <1>7, <1>8, <1>10, <2>1
    <3>2. F = G
      BY <1>6, <1>7, <3>1, SubsetSize
    <3>3. Picks(c, s) = q
      BY <1>1, <1>9, <3>2, ReadPicks DEF m
    <3>4. QED
      BY <1>4, <1>5, <2>1, <3>3
  <2>2. CASE ~(m > 0)
    <3>1. m = 0 /\ picked'[c] = picked[c]
      BY <1>3, <1>4, <2>2
    <3>2. L = {}
      <4>1. \A i \in N : Rank(i, N, Keys(s)) \in Nat
        BY <1>6, RankType
      <4>2. QED
        BY <3>1, <4>1 DEF First, Rank
    <3>3. q = <<>>
      <4>1. Cardinality(L) = 0 /\ L \in SUBSET Ids
        BY <3>2, FS_EmptySet
      <4> HIDE DEF L
      <4>2. Sorted(L, Keys(s)) \in Seq(Ids) /\ Len(Sorted(L, Keys(s))) = 0
        BY <1>6, <4>1, SortedRanks
      <4>3. QED
        BY <4>2
    <3>4. picked[c] \in Seq(Ids)
      BY <1>5
    <3>5. picked[c] \o <<>> = picked[c]
      BY <3>4
    <3>6. QED
      BY <3>1, <3>3, <3>5
  <2>3. QED
    BY <2>1, <2>2
<1>13. QED
  BY <1>1, <1>11, <1>12 DEF Joined, s, S, n

-----------------------------------------------------------------------------
LEMMA InitOrder == ClaimInit => OrderInv
  BY InitClaims DEF ClaimInit, OrderInv

LEMMA SameQueue ==
    ASSUME queue' = queue
    PROVE  QueueOrder' = QueueOrder
  BY DEF QueueOrder, QueuePlace, Group, Due, Priority

\* What a claim that takes no step has picked stays in order, as long as the
\* rows it is offered are the free ones and their first ones are the same.
LEMMA StillFollows ==
    ASSUME NEW d \in Claims, Follows(d), queue' = queue,
           stage'[d] = stage[d], limit'[d] = limit[d], picked'[d] = picked[d],
           offered'[d] = Free(d)',
           First(limit[d], Upto(offered'[d], stage[d]), QueueOrder) =
               First(limit[d], Upto(offered[d], stage[d]), QueueOrder)
    PROVE  Follows(d)'
<1>1. Begun(offered[d], limit[d], stage[d])' =
          Begun(offered'[d], limit[d], stage[d])
  <2>1. QueueOrder' = QueueOrder
    BY SameQueue
  <2>2. Upto(offered[d], stage[d])' = Upto(offered'[d], stage[d])
    BY DEF Upto, Asked, Group, Due, Priority, Recheckable
  <2>3. QED
    BY <2>1, <2>2 DEF Begun, First, Sorted, Earlier
<1>2. Begun(offered'[d], limit[d], stage[d]) = Begun(offered[d], limit[d], stage[d])
  BY DEF Begun
<1>3. QED
  BY <1>1, <1>2 DEF Follows

\* A step that changes nothing for a claim.
LEMMA Untouched ==
    ASSUME NEW d \in Claims, Follows(d), queue' = queue,
           stage'[d] = stage[d], limit'[d] = limit[d], picked'[d] = picked[d],
           offered'[d] = offered[d], Free(d)' = Free(d)
    PROVE  Follows(d)'
<1>1. offered'[d] = Free(d)'
  BY DEF Follows
<1>2. QED
  BY <1>1, StillFollows

LEMMA BeginOrder ==
    ASSUME OrderInv, NEW c \in Claims, NEW n \in Limits, Begin(c, n)
    PROVE  OrderInv'
<1>1. ClaimInv /\ ClaimInv'
  BY BeginKeeps DEF OrderInv
<1>2. \A d \in Claims : Free(d)' = Free(d)
  BY DEF Begin, Free
<1>3. Follows(c)'
  <2>2. /\ stage'[c] = 1 /\ limit'[c] = n /\ offered'[c] = Free(c)
        /\ picked'[c] = <<>> /\ queue' = queue
    BY <1>1 DEF Begin, ClaimInv, SharedTypes, OneClaim
  <2>4. Begun(offered[c], limit[c], stage[c])' = <<>>
    <3>1. \A i \in Ids : ~(Group(i) < 1)
      <4>1. \A i \in Ids : Group(i) \in 1..4
        BY <1>1, GroupRead DEF ClaimInv, SharedTypes
      <4>2. QED
        BY <4>1
    <3>2. Upto(Free(c), 1) = {}
      BY <3>1 DEF Upto, Free
    <3>3. First(n, {}, QueueOrder) = {}
      BY DEF First
    <3>4. Sorted({}, QueueOrder) = <<>>
      <4>1. Orders(QueueOrder) /\ {} \in SUBSET Ids /\ Cardinality({}) = 0
        BY <1>1, QueueOrders, FS_EmptySet DEF ClaimInv, SharedTypes
      <4>2. Sorted({}, QueueOrder) \in Seq(Ids) /\ Len(Sorted({}, QueueOrder)) = 0
        BY <4>1, SortedRanks
      <4>3. QED
        BY <4>2
    <3>5. Begun(Free(c), n, 1) = <<>>
      BY <3>2, <3>3, <3>4 DEF Begun
    <3>6. QueueOrder' = QueueOrder
      BY <2>2 DEF QueueOrder, QueuePlace, Group, Due, Priority
    <3>7. Upto(offered[c], stage[c])' = Upto(Free(c), 1)
      BY <2>2 DEF Upto, Asked, Group, Due, Priority, Recheckable
    <3>8. QED
      BY <2>2, <3>5, <3>6, <3>7 DEF Begun, First, Sorted, Earlier
  <2>5. QED
    BY <1>2, <2>2, <2>4 DEF Follows
<1>4. ASSUME NEW d \in Claims, undisturbed'[d], d # c
      PROVE  Follows(d)'
  <2>1. Follows(d)
    BY <1>1, <1>4 DEF Begin, OrderInv, ClaimInv, SharedTypes
  <2>2. /\ stage'[d] = stage[d] /\ limit'[d] = limit[d] /\ picked'[d] = picked[d]
        /\ offered'[d] = offered[d] /\ queue' = queue
    BY <1>1, <1>4 DEF Begin, ClaimInv, SharedTypes
  <2>3. QED
    BY <1>2, <2>1, <2>2, Untouched
<1>5. QED
  BY <1>1, <1>3, <1>4 DEF OrderInv

\* What another claim locks was free, and is none of the rows picked here.
LEMMA LockedByOther ==
    ASSUME OrderInv, NEW c \in Claims, ReadStage(c), NEW d \in Claims, d # c,
           Follows(d)
    PROVE  /\ offered'[d] = offered[d] \ locked'[c] /\ offered'[d] = Free(d)'
           /\ Range(picked[d]) \subseteq offered'[d]
<1>1. ClaimInv /\ ClaimInv'
  BY ReadKeeps DEF OrderInv
<1>2. /\ offered'[d] = offered[d] \ locked'[c] /\ leased' = leased
      /\ offered[d] = Free(d)
  BY <1>1 DEF ReadStage, ClaimInv, SharedTypes, Follows
<1>3. /\ \A e \in Claims \ {c} : locked'[e] = locked[e]
      /\ locked[c] \subseteq locked'[c]
  <2>1. \/ locked' = [locked EXCEPT ![c] = @ \cup Candidates(c, stage[c])]
        \/ locked' = locked
    BY DEF ReadStage
  <2>2. locked \in [Claims -> SUBSET Ids]
    BY <1>1 DEF ClaimInv, SharedTypes
  <2>3. QED
    BY <2>1, <2>2
<1>4. Free(d)' = Free(d) \ locked'[c]
  <2>1. ASSUME NEW i \in Ids
        PROVE  (\E e \in Claims \ {d} : i \in locked'[e]) <=>
                   (\E e \in Claims \ {d} : i \in locked[e]) \/ i \in locked'[c]
    BY <1>3
  <2>2. /\ \A i : i \in Free(d) <=>
                   /\ i \in Ids /\ i \notin leased
                   /\ ~\E e \in Claims \ {d} : i \in locked[e]
        /\ \A i : i \in Free(d)' <=>
                   /\ i \in Ids /\ i \notin leased
                   /\ ~\E e \in Claims \ {d} : i \in locked'[e]
    BY <1>2 DEF Free
  <2>3. QED
    BY <2>1, <2>2, Zenon
<1>5. Range(picked[d]) \subseteq locked[d] /\ locked[d] = locked'[d]
  BY <1>1, <1>3 DEF ClaimInv, OneClaim, Held
<1>6. locked'[d] \cap locked'[c] = {}
  BY <1>1 DEF ClaimInv, Apart
<1>7. Range(picked[d]) \subseteq Free(d)
  <2>1. locked[d] \subseteq Ids /\ locked[d] \cap leased = {}
    BY <1>1 DEF ClaimInv, SharedTypes, Apart
  <2>2. \A e \in Claims \ {d} : locked[d] \cap locked[e] = {}
    BY <1>1 DEF ClaimInv, Apart
  <2>3. QED
    BY <1>5, <2>1, <2>2 DEF Free
<1>8. QED
  BY <1>2, <1>4, <1>5, <1>6, <1>7

LEMMA ReadOrder ==
    ASSUME OrderInv, NEW c \in Claims, ReadStage(c)
    PROVE  OrderInv'
<1>1. ClaimInv /\ ClaimInv'
  BY ReadKeeps DEF OrderInv
<1>2. ASSUME undisturbed'[c] PROVE Follows(c)'
  <2>1. Follows(c)
    BY <1>2 DEF ReadStage, OrderInv
  <2>2. /\ stage'[c] = stage[c] + 1 /\ stage[c] \in 1..4
        /\ limit'[c] = limit[c] /\ offered'[c] = offered[c]
        /\ leased' = leased /\ queue' = queue
    BY <1>1 DEF ReadStage, ClaimInv, SharedTypes
  <2>3. \A e \in Claims \ {c} : locked'[e] = locked[e]
    <3>1. \/ locked' = [locked EXCEPT ![c] = @ \cup Candidates(c, stage[c])]
          \/ locked' = locked
      BY DEF ReadStage
    <3>2. locked \in [Claims -> SUBSET Ids]
      BY <1>1 DEF ClaimInv, SharedTypes
    <3>3. QED
      BY <3>1, <3>2
  <2>4. Free(c)' = Free(c)
    <3>1. UNION {locked'[e] : e \in Claims \ {c}} =
              UNION {locked[e] : e \in Claims \ {c}}
      BY <2>3
    <3>2. QED
      BY <2>2, <3>1 DEF Free
  <2>5. picked'[c] = Begun(offered[c], limit[c], stage[c] + 1)
    BY <1>1, <2>1, ReadFollows
  <2>6. Begun(offered[c], limit[c], stage[c])' =
            Begun(offered[c], limit[c], stage[c] + 1)
    BY <2>2 DEF Begun, Upto, First, Sorted, Earlier, QueueOrder, QueuePlace,
            Group, Asked, Due, Priority, Recheckable
  <2>7. QED
    BY <2>1, <2>2, <2>4, <2>5, <2>6 DEF Follows
<1>3. ASSUME NEW d \in Claims, undisturbed'[d], d # c
      PROVE  Follows(d)'
  <2>1. Follows(d)
    BY <1>3 DEF ReadStage, OrderInv
  <2>2. /\ stage'[d] = stage[d] /\ limit'[d] = limit[d] /\ picked'[d] = picked[d]
        /\ queue' = queue
    <3>1. picked'[d] = picked[d]
      BY <1>1, <1>3 DEF ReadStage, ClaimInv, SharedTypes
    <3>2. QED
      BY <1>1, <1>3, <3>1 DEF ReadStage, ClaimInv, SharedTypes
  <2>3. /\ offered'[d] = offered[d] \ locked'[c] /\ offered'[d] = Free(d)'
        /\ Range(picked[d]) \subseteq offered'[d]
    BY <1>3, <2>1, LockedByOther
  <2> DEFINE n == limit[d]
             o == QueueOrder
             N == Upto(offered[d], stage[d])
             C == Upto(offered'[d], stage[d])
  <2>4. N \in SUBSET Ids /\ C \in SUBSET N
    BY <1>1, <2>3 DEF Upto, ClaimInv, SharedTypes
  <2>5. n \in Nat /\ Orders(o)
    <3>1. \A k \in Limits \cup {0} : k \in Nat
      OBVIOUS
    <3>2. n \in Nat
      BY <1>1, <3>1 DEF ClaimInv, SharedTypes
    <3>3. QED
      BY <1>1, <3>2, QueueOrders DEF ClaimInv, SharedTypes
  <2>6. First(n, N, o) \subseteq C
    <3>1. picked[d] = Sorted(First(n, N, o), o)
      BY <2>1 DEF Follows, Begun
    <3>2. First(n, N, o) \in SUBSET N
      BY DEF First
    <3>3. Range(picked[d]) = First(n, N, o)
      <4>1. First(n, N, o) \in SUBSET Ids
        BY <2>4, <3>2
      <4> HIDE DEF n, N, o
      <4>2. QED
        BY <2>5, <3>1, <4>1, SortedRows
    <3>4. First(n, N, o) \subseteq offered'[d]
      BY <2>3, <3>3
    <3>5. QED
      BY <3>2, <3>4 DEF Upto
  <2>7. First(n, C, o) = First(n, N, o)
    <3> HIDE DEF n, N, C, o
    <3>1. QED
      BY <2>4, <2>5, <2>6, FirstOfPart
  <2>8. QED
    BY <2>1, <2>2, <2>3, <2>7, StillFollows
<1>4. QED
  BY <1>1, <1>2, <1>3 DEF OrderInv

\* A claim that ends takes what it has picked, the rows it had locked: for the
\* others nothing becomes free, and nothing is gone.
LEMMA LeaseOrder ==
    ASSUME OrderInv, NEW c \in Claims, Lease(c)
    PROVE  OrderInv'
<1>1. ClaimInv /\ ClaimInv'
  BY LeaseKeeps DEF OrderInv
<1>2. ASSUME NEW d \in Claims, undisturbed'[d]
      PROVE  Follows(d)'
  <2>1. d # c /\ Follows(d) /\ locked[c] \subseteq Range(picked[c])
    BY <1>2 DEF Lease, OrderInv
  <2>2. /\ stage'[d] = stage[d] /\ limit'[d] = limit[d] /\ picked'[d] = picked[d]
        /\ offered'[d] = offered[d] /\ queue' = queue
    BY <1>1, <2>1 DEF Lease, ClaimInv, SharedTypes
  <2>3. Range(picked[c]) = locked[c]
    BY <1>1, <2>1 DEF ClaimInv, OneClaim, Held
  <2>4. leased' = leased \cup locked[c]
    BY <2>3 DEF Lease
  <2>5. locked'[c] = {} /\ \A e \in Claims \ {c} : locked'[e] = locked[e]
    BY <1>1 DEF Lease, ClaimInv, SharedTypes
  <2>6. locked[c] \cup UNION {locked'[e] : e \in Claims \ {d}} =
            UNION {locked[e] : e \in Claims \ {d}}
    BY <2>1, <2>5
  <2>7. Free(d)' = Free(d)
    BY <2>4, <2>6 DEF Free
  <2>8. QED
    BY <2>1, <2>2, <2>7, Untouched
<1>3. QED
  BY <1>1, <1>2 DEF OrderInv

LEMMA NextOrder == OrderInv /\ [ClaimNext]_claimVars => OrderInv'
<1> SUFFICES ASSUME OrderInv, [ClaimNext]_claimVars PROVE OrderInv'
  OBVIOUS
<1>1. ClaimInv'
  BY NextClaims DEF OrderInv
<1>2. ASSUME NEW i \in Ids, Lapse(i) PROVE OrderInv'
  BY <1>1, <1>2 DEF OrderInv, Lapse
<1>3. CASE ClaimNext
  BY <1>2, <1>3, BeginOrder, ReadOrder, LeaseOrder DEF ClaimNext
<1>4. CASE UNCHANGED claimVars
  <2>1. /\ UNCHANGED <<queue, leased, stage, limit, picked, locked>>
        /\ UNCHANGED <<offered, undisturbed>>
    BY <1>4 DEF claimVars
  <2>2. ASSUME NEW d \in Claims, undisturbed'[d] PROVE Follows(d)'
    <3>1. Follows(d)
      BY <2>1, <2>2 DEF OrderInv
    <3>2. Free(d)' = Free(d)
      BY <2>1 DEF Free
    <3>3. /\ stage'[d] = stage[d] /\ limit'[d] = limit[d]
          /\ picked'[d] = picked[d] /\ offered'[d] = offered[d]
          /\ queue' = queue
      BY <2>1
    <3>4. QED
      BY <3>1, <3>2, <3>3, Untouched
  <2>3. QED
    BY <1>1, <2>2 DEF OrderInv
<1>5. QED
  BY <1>3, <1>4

\* When a claim is about to lease, it has picked the first targets of the
\* whole queue in their order, as many as it was asked for, of those that were
\* free when it began and that no other claim locked before it: the four
\* partial reads, each sorted by a key of its own and cut off, add up to one,
\* whatever claims begin, read and lease in between.  Not covered are claims
\* during which rows become free: by a lease that runs out, or by another
\* claim that ends with more rows locked than picked.
THEOREM ReadsFollowOrder == ClaimSpec => []FollowsOrder
<1>1. OrderInv => FollowsOrder
  <2> SUFFICES ASSUME OrderInv, NEW c \in Claims, stage[c] = 5, undisturbed[c]
               PROVE  picked[c] = InOrder(offered[c], limit[c])
    BY DEF FollowsOrder
  <2>1. picked[c] = Begun(offered[c], limit[c], 5)
    BY DEF OrderInv, Follows
  <2>2. \A i \in offered[c] : Group(i) < 5
    <3>1. \A i \in Ids : Group(i) \in 1..4
      BY GroupRead DEF OrderInv, ClaimInv, SharedTypes
    <3>2. offered[c] \in SUBSET Ids
      BY DEF OrderInv, ClaimInv, SharedTypes
    <3>3. \A g \in 1..4 : g < 5
      OBVIOUS
    <3>4. QED
      BY <3>1, <3>2, <3>3
  <2>3. Upto(offered[c], 5) = {i \in offered[c] : Due(i) \/ Recheckable(i)}
    BY <2>2 DEF Upto, Asked
  <2>4. QED
    BY <2>1, <2>3 DEF Begun, InOrder
<1>2. QED
  BY <1>1, InitOrder, NextOrder, PTL DEF ClaimSpec
=============================================================================

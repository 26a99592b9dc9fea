------------------------------ MODULE ReportProofs ------------------------------
(****************************************************************************)
(* Proofs about Report and WatchMetrics, for any donations, catalogues,     *)
(* parties, reference rows and lengths of the list of top videos.           *)
(*                                                                          *)
(* The figures of the report add up because all of them are sums over the   *)
(* same watches, taken in different groups.  The first part shows that a    *)
(* sum over a finite set does not depend on the order it is taken in, nor   *)
(* on a grouping; the second that ranking by counting sorts.                *)
(****************************************************************************)
EXTENDS Report, FiniteSetTheorems, WellFoundedInduction, TLAPS

LOCAL INSTANCE FiniteSetsExt

-----------------------------------------------------------------------------
(* Induction, with the statement given as the set of what it holds for.     *)

LEMMA LeastNumber ==
    ASSUME NEW S \in SUBSET Nat, S # {}
    PROVE  \E n \in S : \A m \in S : n <= m
<1>1. IsWellFoundedOn(OpToRel(<, Nat), Nat)
  BY NatLessThanWellFounded
<1>2. PICK n \in S : \A m \in S : <<m, n>> \notin OpToRel(<, Nat)
  BY <1>1, WFMin
<1>3. \A m \in S : ~(m < n)
  BY <1>2 DEF OpToRel
<1>4. QED
  BY <1>3

LEMMA NumberInduction ==
    ASSUME NEW M, 0 \in M, \A n \in Nat : n \in M => n + 1 \in M
    PROVE  \A n \in Nat : n \in M
<1>1. SUFFICES ASSUME NEW k \in Nat, k \notin M PROVE FALSE
  OBVIOUS
<1> DEFINE Left == {n \in Nat : n \notin M}
<1>2. Left \in SUBSET Nat /\ Left # {}
  BY <1>1
<1>3. PICK n \in Left : \A m \in Left : n <= m
  <2> HIDE DEF Left
  <2>1. QED
    BY <1>2, LeastNumber
<1>4. n \in Nat /\ n # 0 /\ n \notin M
  OBVIOUS
<1>5. n - 1 \in Nat /\ n - 1 \notin Left
  BY <1>3, <1>4
<1>6. n - 1 \in M
  BY <1>5
<1>7. (n - 1) + 1 \in M
  BY <1>5, <1>6
<1>8. QED
  BY <1>4, <1>7

LEMMA OneLess ==
    ASSUME NEW T, IsFiniteSet(T), NEW n \in Nat, Cardinality(T) = n + 1
    PROVE  /\ T # {}
           /\ \A x \in T : IsFiniteSet(T \ {x}) /\ Cardinality(T \ {x}) = n
<1>1. T # {}
  <2>1. n + 1 # 0
    OBVIOUS
  <2>2. QED
    BY <2>1, FS_EmptySet
<1>2. ASSUME NEW x \in T PROVE IsFiniteSet(T \ {x}) /\ Cardinality(T \ {x}) = n
  <2>1. IsFiniteSet(T \ {x}) /\ Cardinality(T \ {x}) = Cardinality(T) - 1
    BY FS_RemoveElement
  <2>2. (n + 1) - 1 = n
    OBVIOUS
  <2>3. QED
    BY <2>1, <2>2
<1>3. QED
  BY <1>1, <1>2

LEMMA SetInduction ==
    ASSUME NEW S, IsFiniteSet(S), NEW M, {} \in M,
           \A T \in SUBSET S : \A x \in S \ T : T \in M => T \cup {x} \in M
    PROVE  \A T \in SUBSET S : T \in M
<1> DEFINE N == {n \in Nat : \A T \in SUBSET S : Cardinality(T) = n => T \in M}
<1>1. \A T \in SUBSET S : IsFiniteSet(T) /\ Cardinality(T) \in Nat
  BY FS_Subset, FS_CardinalityType
<1>2. 0 \in N
  <2>1. \A T \in SUBSET S : Cardinality(T) = 0 => T = {}
    BY <1>1, FS_EmptySet
  <2>2. QED
    BY <2>1
<1>3. ASSUME NEW n \in Nat, n \in N PROVE n + 1 \in N
  <2>1. SUFFICES ASSUME NEW T \in SUBSET S, Cardinality(T) = n + 1 PROVE T \in M
    OBVIOUS
  <2>2. T # {} /\ \A x \in T : Cardinality(T \ {x}) = n
    BY <1>1, <2>1, OneLess
  <2>3. PICK x \in T : TRUE
    BY <2>2
  <2>4. Cardinality(T \ {x}) = n
    BY <2>2
  <2>5. T \ {x} \in M
    BY <1>3, <2>4
  <2>6. (T \ {x}) \cup {x} \in M
    BY <2>5
  <2>7. (T \ {x}) \cup {x} = T
    OBVIOUS
  <2>8. QED
    BY <2>6, <2>7
<1>4. \A n \in Nat : n \in N
  <2> HIDE DEF N
  <2>1. QED
    BY <1>2, <1>3, NumberInduction
<1>5. QED
  BY <1>1, <1>4

-----------------------------------------------------------------------------
(* Sums over finite sets.                                                   *)

Chosen(s) == CHOOSE x \in s : TRUE
Folds(f, S, g) ==
    g = [s \in SUBSET S |-> IF s = {} THEN 0 ELSE f[Chosen(s)] + g[s \ {Chosen(s)}]]

LEMMA SumIsFold ==
    ASSUME NEW f, NEW S
    PROVE  SumFunctionOnSet(f, S) = (CHOOSE g : Folds(f, S, g))[S]
BY Zenon DEF SumFunctionOnSet, FoldFunctionOnSet, MapThenFoldSet, Folds, Chosen

LEMMA ChosenIn ==
    ASSUME NEW s, s # {}
    PROVE  Chosen(s) \in s
BY DEF Chosen

\* The fold is defined: it is built up for the sets of each size.
LEMMA FoldExists ==
    ASSUME NEW f, NEW S, IsFiniteSet(S)
    PROVE  \E g : Folds(f, S, g)
<1> DEFINE Upto(n) == {s \in SUBSET S : Cardinality(s) <= n}
           Value(g, s) == IF s = {} THEN 0 ELSE f[Chosen(s)] + g[s \ {Chosen(s)}]
           M == {n \in Nat : \E g : g = [s \in Upto(n) |-> Value(g, s)]}
<1>1. \A T \in SUBSET S : /\ IsFiniteSet(T) /\ Cardinality(T) \in Nat
                          /\ Cardinality(T) <= Cardinality(S)
  BY FS_Subset, FS_CardinalityType
<1>2. ASSUME NEW n \in Nat, NEW s \in Upto(n + 1), s # {}
      PROVE  s \ {Chosen(s)} \in Upto(n)
  <2>1. Chosen(s) \in s
    BY <1>2, ChosenIn
  <2>2. Cardinality(s \ {Chosen(s)}) = Cardinality(s) - 1
    BY <1>1, <2>1, FS_RemoveElement
  <2>3. QED
    BY <1>1, <2>2
<1>3. 0 \in M
  <2>1. Upto(0) = {{}}
    <3>1. \A s \in SUBSET S : Cardinality(s) <= 0 => s = {}
      BY <1>1, FS_EmptySet
    <3>2. {} \in Upto(0)
      BY FS_EmptySet
    <3>3. QED
      BY <3>1, <3>2
  <2> DEFINE g == [s \in {{}} |-> 0]
  <2>2. g = [s \in Upto(0) |-> Value(g, s)]
    <3>1. \A s \in {{}} : Value(g, s) = 0
      OBVIOUS
    <3>2. QED
      BY <2>1, <3>1
  <2>3. QED
    BY <2>2
<1>4. ASSUME NEW n \in Nat, n \in M PROVE n + 1 \in M
  <2>1. PICK g : g = [s \in Upto(n) |-> Value(g, s)]
    BY <1>4
  <2> DEFINE h == [s \in Upto(n + 1) |-> Value(g, s)]
  <2>2. \A s \in Upto(n) : s \in Upto(n + 1)
    BY <1>1
  <2>3. \A s \in Upto(n) : h[s] = g[s]
    <3>1. \A s \in Upto(n) : g[s] = Value(g, s)
      <4> HIDE DEF Value, Upto
      <4>1. QED
        BY <2>1
    <3>2. \A s \in Upto(n) : h[s] = Value(g, s)
      <4> HIDE DEF Value, Upto
      <4>1. QED
        BY <2>2
    <3>3. QED
      BY <3>1, <3>2
  <2>4. \A s \in Upto(n + 1) : Value(g, s) = Value(h, s)
    <3> HIDE DEF h, Upto
    <3>1. QED
      BY <1>2, <2>3
  <2>5. h = [s \in Upto(n + 1) |-> Value(h, s)]
    <3> HIDE DEF Upto, Value
    <3>1. QED
      BY <2>4
  <2>6. \E k : k = [s \in Upto(n + 1) |-> Value(k, s)]
    <3> HIDE DEF h, Upto, Value
    <3>1. QED
      BY <2>5
  <2>7. QED
    <3> HIDE DEF h, Upto, Value
    <3>1. n + 1 \in Nat
      OBVIOUS
    <3>2. QED
      BY <2>6, <3>1
<1>5. Cardinality(S) \in M
  <2> HIDE DEF M
  <2>1. QED
    BY <1>1, <1>3, <1>4, NumberInduction
<1>6. PICK g : g = [s \in Upto(Cardinality(S)) |-> Value(g, s)]
  BY <1>5
<1>7. Upto(Cardinality(S)) = SUBSET S
  BY <1>1
<1>8. g = [s \in SUBSET S |-> Value(g, s)]
  <2> HIDE DEF Upto, Value
  <2>1. QED
    BY <1>6, <1>7
<1>9. QED
  BY <1>8 DEF Folds

\* Folds over two sets agree where both are defined.
LEMMA FoldsAgree ==
    ASSUME NEW f, NEW S, IsFiniteSet(S), NEW T \in SUBSET S,
           NEW g, Folds(f, S, g), NEW h, Folds(f, T, h)
    PROVE  \A s \in SUBSET T : g[s] = h[s]
<1> DEFINE M == {n \in Nat : \A s \in SUBSET T : Cardinality(s) = n => g[s] = h[s]}
<1>1. \A s \in SUBSET S : IsFiniteSet(s) /\ Cardinality(s) \in Nat
  BY FS_Subset, FS_CardinalityType
<1>2. \A s \in SUBSET T :
          /\ s = {} => g[s] = 0 /\ h[s] = 0
          /\ s # {} => /\ g[s] = f[Chosen(s)] + g[s \ {Chosen(s)}]
                       /\ h[s] = f[Chosen(s)] + h[s \ {Chosen(s)}]
  BY DEF Folds
<1>3. 0 \in M
  <2>1. \A s \in SUBSET T : Cardinality(s) = 0 => s = {}
    BY <1>1, FS_EmptySet
  <2>2. QED
    BY <1>2, <2>1
<1>4. ASSUME NEW n \in Nat, n \in M PROVE n + 1 \in M
  <2>1. SUFFICES ASSUME NEW s \in SUBSET T, Cardinality(s) = n + 1 PROVE g[s] = h[s]
    OBVIOUS
  <2>2. s # {} /\ \A x \in s : Cardinality(s \ {x}) = n
    BY <1>1, <2>1, OneLess
  <2>3. Chosen(s) \in s
    BY <2>2, ChosenIn
  <2>5. Cardinality(s \ {Chosen(s)}) = n
    BY <2>2, <2>3
  <2>6. s \ {Chosen(s)} \in SUBSET T
    OBVIOUS
  <2>7. g[s \ {Chosen(s)}] = h[s \ {Chosen(s)}]
    BY <1>4, <2>5, <2>6
  <2>8. QED
    BY <1>2, <2>2, <2>7
<1>5. \A n \in Nat : n \in M
  <2> HIDE DEF M
  <2>1. QED
    BY <1>3, <1>4, NumberInduction
<1>6. QED
  BY <1>1, <1>5

LEMMA SumUnfolds ==
    ASSUME NEW f, NEW S, IsFiniteSet(S)
    PROVE  /\ S = {} => SumFunctionOnSet(f, S) = 0
           /\ S # {} => SumFunctionOnSet(f, S)
                            = f[Chosen(S)] + SumFunctionOnSet(f, S \ {Chosen(S)})
<1> DEFINE T == S \ {Chosen(S)}
           g == CHOOSE g : Folds(f, S, g)
           h == CHOOSE h : Folds(f, T, h)
<1>1. T \in SUBSET S /\ IsFiniteSet(T)
  BY FS_Subset
<1>2. Folds(f, S, g) /\ Folds(f, T, h)
  BY <1>1, FoldExists
<1>3. SumFunctionOnSet(f, S) = g[S] /\ SumFunctionOnSet(f, T) = h[T]
  BY SumIsFold
<1> HIDE DEF g, h, T
<1>4. g[T] = h[T]
  BY <1>1, <1>2, FoldsAgree
<1>5. g[S] = IF S = {} THEN 0 ELSE f[Chosen(S)] + g[T]
  BY <1>2 DEF Folds, T
<1>6. QED
  BY <1>3, <1>4, <1>5 DEF T

LEMMA SumEmpty == \A f : SumFunctionOnSet(f, {}) = 0
BY SumUnfolds, FS_EmptySet

\* All values of f on S are numbers.
Numbers(f, S) == \A x \in S : f[x] \in Int

LEMMA SumType ==
    ASSUME NEW f, NEW S, IsFiniteSet(S), Numbers(f, S)
    PROVE  SumFunctionOnSet(f, S) \in Int
<1> DEFINE M == {n \in Nat : \A T \in SUBSET S :
                                 Cardinality(T) = n => SumFunctionOnSet(f, T) \in Int}
<1>1. \A T \in SUBSET S : IsFiniteSet(T) /\ Cardinality(T) \in Nat
  BY FS_Subset, FS_CardinalityType
<1>2. 0 \in M
  <2>1. \A T \in SUBSET S : Cardinality(T) = 0 => T = {}
    BY <1>1, FS_EmptySet
  <2>2. QED
    BY <2>1, SumEmpty
<1>3. ASSUME NEW n \in Nat, n \in M PROVE n + 1 \in M
  <2>1. SUFFICES ASSUME NEW T \in SUBSET S, Cardinality(T) = n + 1
                 PROVE  SumFunctionOnSet(f, T) \in Int
    OBVIOUS
  <2>2. IsFiniteSet(T) /\ T # {} /\ \A x \in T : Cardinality(T \ {x}) = n
    BY <1>1, <2>1, OneLess
  <2>3. Chosen(T) \in T
    BY <2>2, ChosenIn
  <2>4. Cardinality(T \ {Chosen(T)}) = n
    BY <2>2, <2>3
  <2>5. SumFunctionOnSet(f, T \ {Chosen(T)}) \in Int
    BY <1>3, <2>4
  <2>6. f[Chosen(T)] \in Int
    BY <2>3 DEF Numbers
  <2>7. SumFunctionOnSet(f, T) = f[Chosen(T)] + SumFunctionOnSet(f, T \ {Chosen(T)})
    BY <2>2, SumUnfolds
  <2>8. QED
    BY <2>5, <2>6, <2>7
<1>4. \A n \in Nat : n \in M
  <2> HIDE DEF M
  <2>1. QED
    BY <1>2, <1>3, NumberInduction
<1>5. QED
  BY <1>1, <1>4

\* Any element may be taken first.
LEMMA SumTakes ==
    ASSUME NEW f, NEW S, IsFiniteSet(S), Numbers(f, S), NEW y \in S
    PROVE  SumFunctionOnSet(f, S) = f[y] + SumFunctionOnSet(f, S \ {y})
<1> DEFINE Takes(T, x) ==
               SumFunctionOnSet(f, T) = f[x] + SumFunctionOnSet(f, T \ {x})
           M == {n \in Nat : \A T \in SUBSET S : Cardinality(T) = n => \A x \in T : Takes(T, x)}
<1>1. \A T \in SUBSET S : IsFiniteSet(T) /\ Cardinality(T) \in Nat
  BY FS_Subset, FS_CardinalityType
<1>2. 0 \in M
  <2>1. \A T \in SUBSET S : Cardinality(T) = 0 => T = {}
    BY <1>1, FS_EmptySet
  <2>2. QED
    BY <2>1
<1>3. ASSUME NEW n \in Nat, n \in M PROVE n + 1 \in M
  <2>1. SUFFICES ASSUME NEW T \in SUBSET S, Cardinality(T) = n + 1, NEW x \in T
                 PROVE  Takes(T, x)
    OBVIOUS
  <2> DEFINE c == Chosen(T)
  <2>2. IsFiniteSet(T) /\ T # {}
    BY <1>1, <2>1
  <2>3. c \in T
    BY <2>2, ChosenIn
  <2>4. Takes(T, c)
    BY <2>2, SumUnfolds
  <2> HIDE DEF c
  <2>5. CASE x = c
    BY <2>4, <2>5
  <2>6. CASE x # c
    <3>1. Cardinality(T \ {c}) = n /\ Cardinality(T \ {x}) = n
      BY <1>1, <2>1, <2>3, OneLess
    <3>2. Takes(T \ {c}, x) /\ Takes(T \ {x}, c)
      BY <1>3, <2>3, <2>6, <3>1
    <3>3. (T \ {c}) \ {x} = (T \ {x}) \ {c}
      OBVIOUS
    <3>4. f[c] \in Int /\ f[x] \in Int
      BY <2>3 DEF Numbers
    <3>5. SumFunctionOnSet(f, (T \ {c}) \ {x}) \in Int
      <4>1. IsFiniteSet((T \ {c}) \ {x}) /\ Numbers(f, (T \ {c}) \ {x})
        BY <1>1 DEF Numbers
      <4>2. QED
        BY <4>1, SumType
    <3>6. /\ SumFunctionOnSet(f, T)
                 = f[c] + (f[x] + SumFunctionOnSet(f, (T \ {c}) \ {x}))
          /\ SumFunctionOnSet(f, T \ {x})
                 = f[c] + SumFunctionOnSet(f, (T \ {c}) \ {x})
      BY <2>4, <3>2, <3>3
    <3>7. f[c] + (f[x] + SumFunctionOnSet(f, (T \ {c}) \ {x}))
              = f[x] + (f[c] + SumFunctionOnSet(f, (T \ {c}) \ {x}))
      BY <3>4, <3>5
    <3>8. QED
      BY <3>6, <3>7
  <2>7. QED
    BY <2>5, <2>6
<1>4. \A n \in Nat : n \in M
  <2> HIDE DEF M
  <2>1. QED
    BY <1>2, <1>3, NumberInduction
<1>5. QED
  BY <1>1, <1>4

LEMMA SumAdds ==
    ASSUME NEW f, NEW T, IsFiniteSet(T), Numbers(f, T), NEW x, x \notin T, f[x] \in Int
    PROVE  SumFunctionOnSet(f, T \cup {x}) = f[x] + SumFunctionOnSet(f, T)
<1>1. IsFiniteSet(T \cup {x}) /\ Numbers(f, T \cup {x})
  BY FS_AddElement DEF Numbers
<1>2. (T \cup {x}) \ {x} = T
  OBVIOUS
<1>3. SumFunctionOnSet(f, T \cup {x}) = f[x] + SumFunctionOnSet(f, (T \cup {x}) \ {x})
  BY <1>1, SumTakes
<1>4. QED
  BY <1>2, <1>3

LEMMA SumSame ==
    ASSUME NEW f, NEW g, NEW S, IsFiniteSet(S), Numbers(f, S), \A x \in S : f[x] = g[x]
    PROVE  SumFunctionOnSet(f, S) = SumFunctionOnSet(g, S)
<1> DEFINE M == {T \in SUBSET S : SumFunctionOnSet(f, T) = SumFunctionOnSet(g, T)}
<1>1. {} \in M
  BY SumEmpty
<1>2. ASSUME NEW T \in SUBSET S, NEW x \in S \ T, T \in M PROVE T \cup {x} \in M
  <2>1. /\ IsFiniteSet(T) /\ Numbers(f, T) /\ Numbers(g, T)
        /\ f[x] \in Int /\ g[x] = f[x]
    BY FS_Subset DEF Numbers
  <2>2. /\ SumFunctionOnSet(f, T \cup {x}) = f[x] + SumFunctionOnSet(f, T)
        /\ SumFunctionOnSet(g, T \cup {x}) = g[x] + SumFunctionOnSet(g, T)
    BY <2>1, SumAdds
  <2>3. QED
    BY <1>2, <2>1, <2>2
<1>3. S \in M
  <2> HIDE DEF M
  <2>1. QED
    BY <1>1, <1>2, SetInduction
<1>4. QED
  BY <1>3

LEMMA SumConstant ==
    ASSUME NEW f, NEW S, IsFiniteSet(S), NEW k \in Int, \A x \in S : f[x] = k
    PROVE  SumFunctionOnSet(f, S) = k * Cardinality(S)
<1> DEFINE M == {T \in SUBSET S : SumFunctionOnSet(f, T) = k * Cardinality(T)}
<1>1. {} \in M
  <2>1. k * 0 = 0
    OBVIOUS
  <2>2. QED
    BY <2>1, SumEmpty, FS_EmptySet
<1>2. ASSUME NEW T \in SUBSET S, NEW x \in S \ T, T \in M PROVE T \cup {x} \in M
  <2>1. IsFiniteSet(T) /\ Numbers(f, T) /\ f[x] = k /\ Cardinality(T) \in Nat
    BY FS_Subset, FS_CardinalityType DEF Numbers
  <2>2. SumFunctionOnSet(f, T \cup {x}) = k + k * Cardinality(T)
    BY <1>2, <2>1, SumAdds
  <2>3. Cardinality(T \cup {x}) = Cardinality(T) + 1
    BY <2>1, FS_AddElement
  <2>4. \A n \in Nat : k + k * n = k * (n + 1)
    OBVIOUS
  <2>5. QED
    BY <2>1, <2>2, <2>3, <2>4
<1>3. S \in M
  <2> HIDE DEF M
  <2>1. QED
    BY <1>1, <1>2, SetInduction
<1>4. QED
  BY <1>3

LEMMA SumJoins ==
    ASSUME NEW f, NEW S, IsFiniteSet(S), Numbers(f, S), NEW R, IsFiniteSet(R), Numbers(f, R),
           S \cap R = {}
    PROVE  SumFunctionOnSet(f, S \cup R) = SumFunctionOnSet(f, S) + SumFunctionOnSet(f, R)
<1> DEFINE M == {T \in SUBSET R : SumFunctionOnSet(f, S \cup T)
                                      = SumFunctionOnSet(f, S) + SumFunctionOnSet(f, T)}
<1>1. {} \in M
  <2>1. S \cup {} = S /\ SumFunctionOnSet(f, S) \in Int
    BY SumType
  <2>2. QED
    BY <2>1, SumEmpty
<1>2. ASSUME NEW T \in SUBSET R, NEW x \in R \ T, T \in M PROVE T \cup {x} \in M
  <2>1. /\ IsFiniteSet(T) /\ Numbers(f, T) /\ f[x] \in Int /\ x \notin S \cup T
        /\ Numbers(f, S \cup T)
    BY FS_Subset DEF Numbers
  <2>2. IsFiniteSet(S \cup T)
    BY <2>1, FS_Union
  <2>3. /\ SumFunctionOnSet(f, T \cup {x}) = f[x] + SumFunctionOnSet(f, T)
        /\ SumFunctionOnSet(f, (S \cup T) \cup {x}) = f[x] + SumFunctionOnSet(f, S \cup T)
    BY <2>1, <2>2, SumAdds
  <2>4. (S \cup T) \cup {x} = S \cup (T \cup {x})
    OBVIOUS
  <2>5. SumFunctionOnSet(f, S) \in Int /\ SumFunctionOnSet(f, T) \in Int
    BY <2>1, SumType
  <2>6. SumFunctionOnSet(f, S \cup (T \cup {x}))
            = f[x] + (SumFunctionOnSet(f, S) + SumFunctionOnSet(f, T))
    BY <1>2, <2>3, <2>4
  <2>7. f[x] + (SumFunctionOnSet(f, S) + SumFunctionOnSet(f, T))
            = SumFunctionOnSet(f, S) + (f[x] + SumFunctionOnSet(f, T))
    BY <2>1, <2>5
  <2>8. QED
    BY <2>3, <2>6, <2>7
<1>3. R \in M
  <2> HIDE DEF M
  <2>1. QED
    BY <1>1, <1>2, SetInduction
<1>4. QED
  BY <1>3

\* h sums up w by the keys of K.
SumsBy(h, K, key, w, I) ==
    /\ \A i \in I : key[i] \in K
    /\ \A x \in K : h[x] = SumFunctionOnSet(w, {i \in I : key[i] = x})

\* A sum may be taken group by group.
LEMMA SumGroups ==
    ASSUME NEW I, IsFiniteSet(I), NEW K, IsFiniteSet(K), NEW w, Numbers(w, I),
           NEW key, NEW h, SumsBy(h, K, key, w, I)
    PROVE  SumFunctionOnSet(h, K) = SumFunctionOnSet(w, I)
<1> DEFINE Part(T, x) == {i \in T : key[i] = x}
           Parts(T) == [x \in K |-> SumFunctionOnSet(w, Part(T, x))]
           M == {T \in SUBSET I : SumFunctionOnSet(Parts(T), K) = SumFunctionOnSet(w, T)}
<1>1. \A T \in SUBSET I : /\ IsFiniteSet(T) /\ Numbers(w, T)
                          /\ \A x : IsFiniteSet(Part(T, x)) /\ Numbers(w, Part(T, x))
  BY FS_Subset DEF Numbers
<1>2. \A T \in SUBSET I : Numbers(Parts(T), K)
  <2>1. \A T \in SUBSET I : \A x : SumFunctionOnSet(w, Part(T, x)) \in Int
    <3> HIDE DEF Part
    <3>1. QED
      BY <1>1, SumType
  <2>2. QED
    BY <2>1 DEF Numbers
<1>3. {} \in M
  <2>1. \A x : Part({}, x) = {}
    OBVIOUS
  <2>2. \A x \in K : Parts({})[x] = 0
    BY <2>1, SumEmpty
  <2>3. SumFunctionOnSet(Parts({}), K) = 0 * Cardinality(K)
    <3> HIDE DEF Parts
    <3>1. QED
      BY <2>2, SumConstant
  <2>4. Cardinality(K) \in Nat
    BY FS_CardinalityType
  <2>5. 0 * Cardinality(K) = 0
    BY <2>4
  <2>6. QED
    BY <2>3, <2>5, SumEmpty
<1>4. ASSUME NEW T \in SUBSET I, NEW j \in I \ T, T \in M PROVE T \cup {j} \in M
  <2> DEFINE y == key[j]
             U == T \cup {j}
             a == Parts(T)
             b == Parts(U)
  <2>1. y \in K /\ U \in SUBSET I /\ w[j] \in Int
    BY DEF Numbers, SumsBy
  <2>2. b[y] = w[j] + a[y]
    <3>1. Part(U, y) = Part(T, y) \cup {j} /\ j \notin Part(T, y)
      OBVIOUS
    <3>2. SumFunctionOnSet(w, Part(T, y) \cup {j}) = w[j] + SumFunctionOnSet(w, Part(T, y))
      <4> HIDE DEF Part
      <4>1. QED
        BY <1>1, <2>1, <3>1, SumAdds
    <3>3. QED
      BY <2>1, <3>1, <3>2
  <2>3. \A x \in K \ {y} : b[x] = a[x]
    <3>1. \A x \in K \ {y} : Part(U, x) = Part(T, x)
      OBVIOUS
    <3>2. QED
      BY <3>1
  <2>4. Numbers(a, K) /\ Numbers(b, K)
    BY <1>2, <2>1
  <2>5. SumFunctionOnSet(w, U) = w[j] + SumFunctionOnSet(w, T)
    BY <1>1, <2>1, SumAdds
  <2>6. SumFunctionOnSet(a, K) = SumFunctionOnSet(w, T)
    BY <1>4
  <2> HIDE DEF a, b, y, U
  <2>7. /\ SumFunctionOnSet(a, K) = a[y] + SumFunctionOnSet(a, K \ {y})
        /\ SumFunctionOnSet(b, K) = b[y] + SumFunctionOnSet(b, K \ {y})
    BY <2>1, <2>4, SumTakes
  <2>8. /\ SumFunctionOnSet(b, K \ {y}) = SumFunctionOnSet(a, K \ {y})
        /\ SumFunctionOnSet(a, K \ {y}) \in Int /\ a[y] \in Int
    <3>1. IsFiniteSet(K \ {y}) /\ Numbers(a, K \ {y}) /\ Numbers(b, K \ {y})
      BY <2>4, FS_RemoveElement DEF Numbers
    <3>2. QED
      BY <2>1, <2>3, <2>4, <3>1, SumSame, SumType DEF Numbers
  <2>9. SumFunctionOnSet(b, K) = w[j] + SumFunctionOnSet(a, K)
    BY <2>1, <2>2, <2>7, <2>8
  <2>10. QED
    BY <2>1, <2>5, <2>6, <2>9 DEF b, U
<1>5. I \in M
  <2> HIDE DEF M
  <2>1. QED
    BY <1>3, <1>4, SetInduction
<1>6. SumFunctionOnSet(h, K) = SumFunctionOnSet(Parts(I), K)
  <2>1. \A x \in K : Parts(I)[x] = h[x]
    BY DEF SumsBy
  <2>2. Numbers(Parts(I), K)
    BY <1>2
  <2> HIDE DEF Parts
  <2>3. QED
    BY <2>1, <2>2, SumSame
<1>7. QED
  BY <1>5, <1>6

-----------------------------------------------------------------------------
(* Counting.                                                                *)

LEMMA RangeFinite ==
    ASSUME NEW f, IsFiniteSet(DOMAIN f)
    PROVE  IsFiniteSet(Range(f))
<1> DEFINE g == [x \in DOMAIN f |-> f[x]]
<1>1. g \in Surjection(DOMAIN f, Range(f))
  BY DEF Surjection, Range
<1>2. QED
  <2> HIDE DEF g
  <2>1. QED
    BY <1>1, FS_Surjection

LEMMA CountByPart ==
    ASSUME NEW f, IsFiniteSet(DOMAIN f), NEW K \in SUBSET Range(f)
    PROVE  SumFunctionOnSet(CountBy(f), K) = Cardinality({i \in DOMAIN f : f[i] \in K})
<1> DEFINE I == {i \in DOMAIN f : f[i] \in K}
           w == [i \in DOMAIN f |-> 1]
<1>1. IsFiniteSet(K)
  BY RangeFinite, FS_Subset
<1>2. \A J \in SUBSET DOMAIN f : /\ IsFiniteSet(J) /\ SumFunctionOnSet(w, J) = Cardinality(J)
                                 /\ Numbers(w, J)
  <2>1. SUFFICES ASSUME NEW J \in SUBSET DOMAIN f
                 PROVE  /\ IsFiniteSet(J) /\ SumFunctionOnSet(w, J) = Cardinality(J)
                        /\ Numbers(w, J)
    OBVIOUS
  <2>2. IsFiniteSet(J) /\ Cardinality(J) \in Nat /\ \A i \in J : w[i] = 1
    BY FS_Subset, FS_CardinalityType
  <2> HIDE DEF w
  <2>3. SumFunctionOnSet(w, J) = 1 * Cardinality(J)
    BY <2>2, SumConstant
  <2>4. QED
    BY <2>2, <2>3 DEF Numbers
<1>3. \A x \in K : CountBy(f)[x] = SumFunctionOnSet(w, {i \in I : f[i] = x})
  <2>1. SUFFICES ASSUME NEW x \in K
                 PROVE  CountBy(f)[x] = SumFunctionOnSet(w, {i \in I : f[i] = x})
    OBVIOUS
  <2>2. {i \in I : f[i] = x} = {i \in DOMAIN f : f[i] = x}
    OBVIOUS
  <2>3. CountBy(f)[x] = Cardinality({i \in DOMAIN f : f[i] = x})
    BY DEF CountBy
  <2>4. SumFunctionOnSet(w, {i \in DOMAIN f : f[i] = x})
            = Cardinality({i \in DOMAIN f : f[i] = x})
    <3> HIDE DEF w
    <3>1. QED
      BY <1>2
  <2>5. QED
    BY <2>2, <2>3, <2>4
<1>4. I \in SUBSET DOMAIN f /\ \A i \in I : f[i] \in K
  OBVIOUS
<1>5. SumsBy(CountBy(f), K, f, w, I)
  <2> HIDE DEF I, w
  <2>1. QED
    BY <1>3, <1>4 DEF SumsBy
<1> HIDE DEF I, w
<1>6. SumFunctionOnSet(CountBy(f), K) = SumFunctionOnSet(w, I)
  BY <1>1, <1>2, <1>4, <1>5, SumGroups
<1>7. QED
  BY <1>2, <1>4, <1>6 DEF I

LEMMA CountByTotal ==
    ASSUME NEW f, IsFiniteSet(DOMAIN f)
    PROVE  SumFunction(CountBy(f)) = Cardinality(DOMAIN f)
<1>1. DOMAIN CountBy(f) = Range(f)
  BY DEF CountBy
<1>2. {i \in DOMAIN f : f[i] \in Range(f)} = DOMAIN f
  BY DEF Range
<1>3. SumFunction(CountBy(f)) = SumFunctionOnSet(CountBy(f), Range(f))
  BY <1>1 DEF SumFunction
<1>4. QED
  BY <1>2, <1>3, CountByPart

-----------------------------------------------------------------------------
(* Ranking by counting.                                                     *)

\* R orders S, strictly and totally.
Orders(R, S) ==
    /\ \A x, y \in S : x # y => <<x, y>> \in R \/ <<y, x>> \in R
    /\ \A x \in S : <<x, x>> \notin R
    /\ \A x, y, z \in S : <<x, y>> \in R /\ <<y, z>> \in R => <<x, z>> \in R

Front(x, S, R) == {y \in S : <<y, x>> \in R}
Rank(x, S, R) == Cardinality(Front(x, S, R))

LEMMA RankType ==
    ASSUME NEW S, IsFiniteSet(S), NEW R, Orders(R, S), NEW x \in S
    PROVE  /\ IsFiniteSet(Front(x, S, R)) /\ Cardinality(S) \in Nat
           /\ Rank(x, S, R) \in 0..(Cardinality(S) - 1)
<1>1. Front(x, S, R) \in SUBSET S /\ x \notin Front(x, S, R)
  BY DEF Orders, Front
<1>2. /\ IsFiniteSet(Front(x, S, R)) /\ Rank(x, S, R) <= Cardinality(S)
      /\ Rank(x, S, R) # Cardinality(S)
  BY <1>1, FS_Subset DEF Rank
<1>3. Rank(x, S, R) \in Nat /\ Cardinality(S) \in Nat
  BY <1>2, FS_CardinalityType DEF Rank
<1>4. QED
  BY <1>2, <1>3

LEMMA RankGrows ==
    ASSUME NEW S, IsFiniteSet(S), NEW R, Orders(R, S), NEW x \in S, NEW y \in S, <<x, y>> \in R
    PROVE  Rank(x, S, R) < Rank(y, S, R)
<1>1. Front(x, S, R) \in SUBSET Front(y, S, R)
  BY DEF Orders, Front
<1>2. x \in Front(y, S, R) /\ x \notin Front(x, S, R)
  BY DEF Orders, Front
<1>3. IsFiniteSet(Front(y, S, R))
  BY RankType
<1>4. Rank(x, S, R) <= Rank(y, S, R) /\ Rank(x, S, R) # Rank(y, S, R)
  BY <1>1, <1>2, <1>3, FS_Subset DEF Rank
<1>5. Rank(x, S, R) \in Int /\ Rank(y, S, R) \in Int
  BY RankType
<1>6. QED
  BY <1>4, <1>5

LEMMA RankOrders ==
    ASSUME NEW S, IsFiniteSet(S), NEW R, Orders(R, S), NEW x \in S, NEW y \in S
    PROVE  /\ Rank(x, S, R) = Rank(y, S, R) => x = y
           /\ Rank(x, S, R) < Rank(y, S, R) => <<x, y>> \in R
<1>1. Rank(x, S, R) \in Int /\ Rank(y, S, R) \in Int
  BY RankType
<1>2. <<x, y>> \in R => Rank(x, S, R) < Rank(y, S, R)
  BY RankGrows
<1>3. <<y, x>> \in R => Rank(y, S, R) < Rank(x, S, R)
  BY RankGrows
<1>4. x = y \/ <<x, y>> \in R \/ <<y, x>> \in R
  BY DEF Orders
<1>5. QED
  BY <1>1, <1>2, <1>3, <1>4

\* Every rank is taken.
LEMMA RankTaken ==
    ASSUME NEW S, IsFiniteSet(S), NEW R, Orders(R, S), NEW k \in 0..(Cardinality(S) - 1)
    PROVE  \E x \in S : Rank(x, S, R) = k
<1> DEFINE n == Cardinality(S)
           Ranks == 0..(n - 1)
           f == [x \in S |-> Rank(x, S, R)]
<1>1. n \in Nat
  BY FS_CardinalityType
<1>2. IsFiniteSet(Ranks) /\ Cardinality(Ranks) = n
  <2>1. /\ IsFiniteSet(Ranks)
        /\ Cardinality(Ranks) = IF 0 > n - 1 THEN 0 ELSE n - 1 - 0 + 1
    <3>1. 0 \in Int /\ n - 1 \in Int
      BY <1>1
    <3> HIDE DEF n
    <3>2. QED
      BY <3>1, FS_Interval
  <2>2. (IF 0 > n - 1 THEN 0 ELSE n - 1 - 0 + 1) = n
    BY <1>1
  <2>3. QED
    BY <2>1, <2>2
<1>3. f \in Injection(S, Ranks)
  <2>1. f \in [S -> Ranks]
    BY RankType
  <2>2. \A x, y \in S : f[x] = f[y] => x = y
    BY RankOrders
  <2>3. DOMAIN f = S
    OBVIOUS
  <2> HIDE DEF f, Ranks
  <2>4. QED
    BY <2>1, <2>2, <2>3 DEF Injection, IsInjective
<1>4. f \in Surjection(S, Ranks)
  <2> HIDE DEF f, Ranks
  <2>1. Cardinality(S) = Cardinality(Ranks)
    BY <1>2
  <2>2. QED
    BY <1>2, <1>3, <2>1, FS_Injection
<1>5. \E x \in S : f[x] = k
  <2> HIDE DEF f
  <2>1. QED
    BY <1>4 DEF Surjection
<1>6. QED
  BY <1>5

\* The order R puts the elements of S one after another.
InTurn(r, n, S, R) ==
    /\ r \in [1..n -> S]
    /\ \A x \in S : \E m \in 1..n : r[m] = x
    /\ \A k, m \in 1..n : k < m => <<r[k], r[m]>> \in R /\ r[k] # r[m]

LEMMA RankedSorts ==
    ASSUME NEW S, IsFiniteSet(S), NEW R, Orders(R, S)
    PROVE  /\ Cardinality(S) \in Nat
           /\ InTurn(Ranked(S, R), Cardinality(S), S, R)
<1> DEFINE n == Cardinality(S)
           r == Ranked(S, R)
<1>1. n \in Nat
  BY FS_CardinalityType
<1>2. ASSUME NEW m \in 1..n PROVE r[m] \in S /\ Rank(r[m], S, R) = m - 1
  <2>1. m - 1 \in 0..(n - 1)
    BY <1>1
  <2>2. \E x \in S : Rank(x, S, R) = m - 1
    BY <2>1, RankTaken
  <2>3. r[m] = CHOOSE x \in S : Rank(x, S, R) = m - 1
    BY DEF Ranked, Rank, Front
  <2> HIDE DEF r
  <2>4. QED
    BY <2>2, <2>3
<1>3. r \in [1..n -> S]
  BY <1>2 DEF Ranked
<1> HIDE DEF r, n
<1>4. ASSUME NEW x \in S PROVE \E m \in 1..n : r[m] = x
  <2> DEFINE m == Rank(x, S, R) + 1
  <2>1. m \in 1..n /\ m - 1 = Rank(x, S, R)
    BY <1>1, RankType DEF n
  <2>2. r[m] \in S /\ Rank(r[m], S, R) = Rank(x, S, R)
    BY <1>2, <2>1
  <2>3. r[m] = x
    <3> HIDE DEF m
    <3>1. QED
      BY <2>2, RankOrders
  <2>4. QED
    BY <2>1, <2>3
<1>5. ASSUME NEW k \in 1..n, NEW m \in 1..n, k < m
      PROVE  <<r[k], r[m]>> \in R /\ r[k] # r[m]
  <2>1. /\ r[k] \in S /\ r[m] \in S
        /\ Rank(r[k], S, R) < Rank(r[m], S, R)
    BY <1>1, <1>2, <1>5
  <2>2. <<r[k], r[m]>> \in R
    BY <2>1, RankOrders
  <2>3. QED
    BY <2>1, <2>2 DEF Orders
<1>6. QED
  BY <1>1, <1>3, <1>4, <1>5 DEF InTurn, n, r

LEMMA BeforeOrders ==
    ASSUME NEW f, DOMAIN f \subseteq Int, Numbers(f, DOMAIN f)
    PROVE  Orders(Before(f), DOMAIN f)
<1>1. \A x, y \in DOMAIN f :
          <<x, y>> \in Before(f) <=> f[x] < f[y] \/ (f[x] = f[y] /\ x < y)
  BY DEF Before
<1>2. \A x \in DOMAIN f : f[x] \in Int /\ x \in Int
  BY DEF Numbers
<1>3. QED
  BY <1>1, <1>2 DEF Orders

\* A sequence that does not fall.
Rising(s) == \A k, m \in 1..Len(s) : k <= m => s[k] <= s[m]

LEMMA SortedRises ==
    ASSUME NEW f, IsFiniteSet(DOMAIN f), DOMAIN f \subseteq Int, Numbers(f, DOMAIN f)
    PROVE  /\ InTurn(InOrder(f), Cardinality(DOMAIN f), DOMAIN f, Before(f))
           /\ Sorted(f) \in Seq(Int) /\ Len(Sorted(f)) = Cardinality(DOMAIN f)
           /\ DOMAIN InOrder(f) = 1..Len(Sorted(f))
           /\ \A n \in 1..Len(Sorted(f)) : Sorted(f)[n] = f[InOrder(f)[n]]
           /\ Rising(Sorted(f))
<1> DEFINE n == Cardinality(DOMAIN f)
           r == InOrder(f)
           s == Sorted(f)
<1>1. n \in Nat /\ InTurn(r, n, DOMAIN f, Before(f))
  BY BeforeOrders, RankedSorts DEF InOrder
<1>2. r \in [1..n -> DOMAIN f]
  BY <1>1 DEF InTurn
<1>3. s = [m \in 1..n |-> f[r[m]]]
  BY <1>2 DEF Sorted
<1> HIDE DEF n, r, s
<1>4. \A m \in 1..n : f[r[m]] \in Int
  BY <1>2 DEF Numbers
<1>5. s \in [1..n -> Int]
  BY <1>3, <1>4
<1>6. s \in Seq(Int) /\ Len(s) = n
  BY <1>1, <1>5
<1>7. ASSUME NEW k \in 1..n, NEW m \in 1..n, k <= m PROVE s[k] <= s[m]
  <2>1. CASE k = m
    BY <1>5, <2>1
  <2>2. CASE k < m
    <3>1. <<r[k], r[m]>> \in Before(f)
      BY <1>1, <2>2 DEF InTurn
    <3>2. f[r[k]] < f[r[m]] \/ f[r[k]] = f[r[m]]
      BY <3>1 DEF Before
    <3>3. QED
      BY <1>3, <1>4, <3>2
  <2>3. QED
    BY <1>1, <1>7, <2>1, <2>2
<1>8. QED
  BY <1>1, <1>2, <1>3, <1>6, <1>7 DEF Rising, n, r, s

-----------------------------------------------------------------------------
(* The gaps between the watches, and the sessions.                          *)

GapsOf(s) == [i \in Pairs(s) |-> Gap(s, i)]

LEMMA IntervalSize ==
    ASSUME NEW a \in Int, NEW b \in Int, a <= b + 1
    PROVE  IsFiniteSet(a..b) /\ Cardinality(a..b) = b - a + 1
<1>1. IsFiniteSet(a..b) /\ Cardinality(a..b) = IF a > b THEN 0 ELSE b - a + 1
  BY FS_Interval
<1>2. QED
  BY <1>1

LEMMA PairsType ==
    ASSUME NEW s \in Seq(Int), NEW P \in SUBSET Pairs(s)
    PROVE  /\ IsFiniteSet(P) /\ Numbers(GapsOf(s), P)
           /\ Gaps(s, P) = SumFunctionOnSet(GapsOf(s), P) /\ Gaps(s, P) \in Int
<1>1. Len(s) \in Nat /\ \A i \in Pairs(s) : i \in 1..Len(s) /\ i + 1 \in 1..Len(s)
  BY DEF Pairs
<1>2. IsFiniteSet(Pairs(s))
  <2>1. 1 \in Int /\ Len(s) - 1 \in Int
    BY <1>1
  <2>2. QED
    BY <2>1, FS_Interval DEF Pairs
<1>3. IsFiniteSet(P)
  BY <1>2, FS_Subset
<1>4. \A i \in Pairs(s) : GapsOf(s)[i] = Gap(s, i) /\ Gap(s, i) \in Int
  BY <1>1 DEF GapsOf, Gap
<1> DEFINE f == [i \in P |-> Gap(s, i)]
<1>5. Numbers(f, P) /\ Numbers(GapsOf(s), P) /\ \A i \in P : f[i] = GapsOf(s)[i]
  BY <1>4 DEF Numbers
<1>6. Gaps(s, P) = SumFunctionOnSet(f, P)
  BY DEF Gaps, SumFunction
<1> HIDE DEF f
<1>7. QED
  BY <1>3, <1>5, <1>6, SumSame, SumType

\* The gaps between two watches add up to the time between them.
LEMMA GapsTelescope ==
    ASSUME NEW s \in Seq(Int), NEW a \in 1..Len(s), NEW b \in a..Len(s)
    PROVE  /\ a..(b - 1) \in SUBSET Pairs(s)
           /\ SumFunctionOnSet(GapsOf(s), a..(b - 1)) = s[b] - s[a]
<1> DEFINE g == GapsOf(s)
           M == {d \in Nat : a + d <= Len(s) =>
                                 SumFunctionOnSet(g, a..(a + d - 1)) = s[a + d] - s[a]}
<1>1. Len(s) \in Nat /\ \A i \in 1..Len(s) : s[i] \in Int
  OBVIOUS
<1>2. 0 \in M
  <2>1. a..(a + 0 - 1) = {} /\ a + 0 = a /\ s[a] - s[a] = 0
    BY <1>1
  <2>2. SumFunctionOnSet(g, {}) = 0
    BY SumEmpty
  <2>3. QED
    BY <2>1, <2>2
<1>3. ASSUME NEW d \in Nat, d \in M PROVE d + 1 \in M
  <2>1. SUFFICES ASSUME a + (d + 1) <= Len(s)
                 PROVE  SumFunctionOnSet(g, a..(a + (d + 1) - 1)) = s[a + (d + 1)] - s[a]
    OBVIOUS
  <2> DEFINE I == a..(a + d - 1)
             j == a + d
  <2>2. /\ a..(a + (d + 1) - 1) = I \cup {j} /\ j \notin I
        /\ I \cup {j} \in SUBSET Pairs(s) /\ j + 1 = a + (d + 1)
        /\ j \in 1..Len(s) /\ j + 1 \in 1..Len(s)
    <3>1. a \in Nat \ {0} /\ j \in Nat /\ j + 1 = a + (d + 1)
      BY <1>1
    <3>2. j \in 1..Len(s) /\ j + 1 \in 1..Len(s)
      BY <1>1, <2>1, <3>1
    <3>3. \A i \in Int : i \in a..(a + (d + 1) - 1) <=> i \in a..(a + d - 1) \/ i = a + d
      BY <3>1
    <3>4. j \notin I
      BY <3>1
    <3>5. \A i \in a..(a + (d + 1) - 1) : i \in Pairs(s)
      BY <1>1, <2>1, <3>1 DEF Pairs
    <3>6. a..(a + (d + 1) - 1) = I \cup {j}
      BY <3>1, <3>3
    <3>7. QED
      BY <3>1, <3>2, <3>4, <3>5, <3>6
  <2>3. g[j] = s[j + 1] - s[j]
    BY <2>2 DEF GapsOf, Gap
  <2>4. SumFunctionOnSet(g, I) = s[j] - s[a]
    BY <1>1, <1>3, <2>1
  <2> HIDE DEF I, j, g
  <2>5. IsFiniteSet(I) /\ Numbers(g, I)
    BY <2>2, PairsType DEF g
  <2>6. s[j + 1] \in Int /\ s[j] \in Int /\ s[a] \in Int
    BY <1>1, <2>2
  <2>7. SumFunctionOnSet(g, I \cup {j}) = g[j] + SumFunctionOnSet(g, I)
    BY <2>2, <2>3, <2>5, <2>6, SumAdds
  <2>8. (s[j + 1] - s[j]) + (s[j] - s[a]) = s[j + 1] - s[a]
    BY <2>6
  <2>9. QED
    BY <2>2, <2>3, <2>4, <2>7, <2>8
<1>4. b - a \in M
  <2>1. b - a \in Nat
    BY <1>1
  <2> HIDE DEF M
  <2>2. QED
    BY <1>2, <1>3, <2>1, NumberInduction
<1>5. a + (b - a) = b
  BY <1>1
<1>6. SumFunctionOnSet(g, a..(b - 1)) = s[b] - s[a]
  BY <1>1, <1>4, <1>5
<1>7. a..(b - 1) \in SUBSET Pairs(s)
  BY <1>1 DEF Pairs
<1>8. QED
  BY <1>6, <1>7

LEMMA SessionType ==
    ASSUME NEW s \in Seq(Int)
    PROVE  /\ Len(s) \in Nat /\ Splits(s) \in SUBSET Pairs(s) /\ IsFiniteSet(Sessions(s))
           /\ \A t \in Sessions(s) :
                  /\ t[1] \in 1..Len(s) /\ t[2] \in t[1]..Len(s)
                  /\ t = <<t[1], t[2]>>
<1>1. Len(s) \in Nat
  OBVIOUS
<1>2. IsFiniteSet(1..Len(s))
  BY <1>1, FS_Interval
<1>3. IsFiniteSet((1..Len(s)) \X (1..Len(s)))
  BY <1>2, FS_Product
<1>4. Sessions(s) \in SUBSET ((1..Len(s)) \X (1..Len(s)))
  BY DEF Sessions
<1>5. IsFiniteSet(Sessions(s))
  BY <1>3, <1>4, FS_Subset
<1>6. Splits(s) \in SUBSET Pairs(s)
  BY DEF Splits
<1>7. QED
  BY <1>1, <1>5, <1>6 DEF Sessions

\* Every watch is in a session: from the last split before it, or the start,
\* to the first split from it on, or the end.
LEMMA InSession ==
    ASSUME NEW s \in Seq(Int), NEW i \in 1..Len(s)
    PROVE  \E t \in Sessions(s) : t[1] <= i /\ i <= t[2]
<1> DEFINE n == Len(s)
           Starts == {a \in 1..i : \A j \in a..(i - 1) : j \notin Splits(s)}
           Ends == {b \in i..n : b = n \/ b \in Splits(s)}
<1>1. n \in Nat /\ i \in Nat
  OBVIOUS
<1>2. PICK a \in Starts : \A m \in Starts : a <= m
  <2>1. i \in Starts /\ Starts \in SUBSET Nat
    BY <1>1
  <2> HIDE DEF Starts
  <2>2. QED
    BY <2>1, LeastNumber
<1>3. PICK b \in Ends : \A m \in Ends : b <= m
  <2>1. n \in Ends /\ Ends \in SUBSET Nat
    BY <1>1
  <2> HIDE DEF Ends
  <2>2. QED
    BY <2>1, LeastNumber
<1>4. a = 1 \/ a - 1 \in Splits(s)
  <2>1. SUFFICES ASSUME a # 1, a - 1 \notin Splits(s) PROVE FALSE
    OBVIOUS
  <2>2. a - 1 \in Starts
    <3>1. a - 1 \in 1..i
      BY <1>1, <2>1
    <3>2. ASSUME NEW j \in (a - 1)..(i - 1) PROVE j \notin Splits(s)
      <4>1. j = a - 1 \/ j \in a..(i - 1)
        BY <1>1
      <4>2. QED
        BY <2>1, <4>1
    <3>3. QED
      BY <3>1, <3>2
  <2>3. a <= a - 1
    BY <1>2, <2>2
  <2>4. QED
    BY <1>1, <2>3
<1>5. ASSUME NEW j \in a..(b - 1) PROVE j \notin Splits(s)
  <2>1. CASE j < i
    BY <1>1, <2>1
  <2>2. CASE j >= i
    <3>1. j \in i..n /\ ~(b <= j)
      BY <1>1, <2>2
    <3>2. j \notin Ends
      BY <1>3, <3>1
    <3>3. QED
      BY <3>1, <3>2
  <2>3. QED
    BY <1>1, <2>1, <2>2
<1>6. <<a, b>> \in Sessions(s)
  <2>1. a \in 1..n /\ b \in 1..n /\ a <= b /\ (b = n \/ b \in Splits(s))
    BY <1>1
  <2>2. QED
    BY <1>4, <1>5, <2>1 DEF Sessions
<1>7. <<a, b>>[1] <= i /\ i <= <<a, b>>[2]
  BY <1>1
<1>8. QED
  BY <1>6, <1>7

LEMMA SessionsApart ==
    ASSUME NEW s \in Seq(Int), NEW i \in 1..Len(s),
           NEW t \in Sessions(s), t[1] <= i, i <= t[2],
           NEW u \in Sessions(s), u[1] <= i, i <= u[2]
    PROVE  t = u
<1>1. Len(s) \in Nat
  OBVIOUS
<1>2. \A x, y \in Sessions(s) :
          x[1] <= i /\ i <= x[2] /\ y[1] <= i /\ i <= y[2] => ~(x[1] < y[1]) /\ ~(x[2] < y[2])
  <2>1. SUFFICES ASSUME NEW x \in Sessions(s), NEW y \in Sessions(s),
                        x[1] <= i, i <= x[2], y[1] <= i, i <= y[2]
                 PROVE  ~(x[1] < y[1]) /\ ~(x[2] < y[2])
    OBVIOUS
  <2>2. /\ x[1] \in 1..Len(s) /\ x[2] \in 1..Len(s) /\ y[1] \in 1..Len(s) /\ y[2] \in 1..Len(s)
        /\ x[2] = Len(s) \/ x[2] \in Splits(s)
        /\ y[1] = 1 \/ y[1] - 1 \in Splits(s)
        /\ \A j \in x[1]..(x[2] - 1) : j \notin Splits(s)
        /\ \A j \in y[1]..(y[2] - 1) : j \notin Splits(s)
    BY DEF Sessions
  <2>3. ~(x[1] < y[1])
    <3>1. SUFFICES ASSUME x[1] < y[1] PROVE FALSE
      OBVIOUS
    <3>2. y[1] - 1 \in x[1]..(x[2] - 1) /\ y[1] # 1
      <4>1. x[1] \in Nat \ {0} /\ x[2] \in Int /\ y[1] \in Int /\ i \in Int
        BY <1>1, <2>2
      <4>2. QED
        BY <2>1, <3>1, <4>1
    <3>3. QED
      BY <2>2, <3>2
  <2>4. ~(x[2] < y[2])
    <3>1. SUFFICES ASSUME x[2] < y[2] PROVE FALSE
      OBVIOUS
    <3>2. x[2] \in y[1]..(y[2] - 1) /\ x[2] # Len(s)
      BY <1>1, <2>1, <2>2, <3>1
    <3>3. QED
      BY <2>2, <3>2
  <2>5. QED
    BY <2>3, <2>4
<1>3. /\ t[1] \in Int /\ t[2] \in Int /\ t = <<t[1], t[2]>>
      /\ u[1] \in Int /\ u[2] \in Int /\ u = <<u[1], u[2]>>
  BY <1>1, SessionType
<1>4. t[1] = u[1] /\ t[2] = u[2]
  BY <1>2, <1>3
<1>5. QED
  BY <1>3, <1>4

SessionOf(s) ==
    [i \in 1..Len(s) |-> CHOOSE t \in Sessions(s) : t[1] <= i /\ i <= t[2]]

LEMMA SessionMembers ==
    ASSUME NEW s \in Seq(Int)
    PROVE  /\ \A i \in 1..Len(s) : SessionOf(s)[i] \in Sessions(s)
           /\ \A t \in Sessions(s) :
                  /\ {i \in 1..Len(s) : SessionOf(s)[i] = t} = t[1]..t[2]
                  /\ {i \in Pairs(s) \ Splits(s) : SessionOf(s)[i] = t} = t[1]..(t[2] - 1)
<1> DEFINE k == SessionOf(s)
<1>1. ASSUME NEW i \in 1..Len(s)
      PROVE  k[i] \in Sessions(s) /\ k[i][1] <= i /\ i <= k[i][2]
  <2>1. k[i] = CHOOSE t \in Sessions(s) : t[1] <= i /\ i <= t[2]
    BY DEF SessionOf
  <2> HIDE DEF k
  <2>2. QED
    BY <2>1, InSession
<1> HIDE DEF k
<1>2. Len(s) \in Nat
  OBVIOUS
<1>3. ASSUME NEW t \in Sessions(s), NEW i \in 1..Len(s)
      PROVE  k[i] = t <=> i \in t[1]..t[2]
  <2>1. t[1] \in Int /\ t[2] \in Int
    BY <1>2, SessionType
  <2>2. ASSUME i \in t[1]..t[2] PROVE k[i] = t
    <3>1. t[1] <= i /\ i <= t[2]
      BY <2>1, <2>2
    <3>2. QED
      BY <1>1, <3>1, SessionsApart
  <2>3. ASSUME k[i] = t PROVE i \in t[1]..t[2]
    BY <1>1, <1>2, <2>1, <2>3
  <2>4. QED
    BY <2>2, <2>3
<1>4. ASSUME NEW t \in Sessions(s)
      PROVE  /\ {i \in 1..Len(s) : k[i] = t} = t[1]..t[2]
             /\ {i \in Pairs(s) \ Splits(s) : k[i] = t} = t[1]..(t[2] - 1)
  <2>1. t[1] \in 1..Len(s) /\ t[2] \in t[1]..Len(s)
    BY SessionType
  <2>2. t[1]..t[2] \subseteq 1..Len(s)
    BY <1>2, <2>1
  <2>3. {i \in 1..Len(s) : k[i] = t} = t[1]..t[2]
    BY <1>3, <2>2
  <2>4. ASSUME NEW i \in Pairs(s) \ Splits(s) PROVE k[i] = t <=> i \in t[1]..(t[2] - 1)
    <3>1. i \in 1..Len(s) /\ i # Len(s)
      BY <1>2 DEF Pairs
    <3>2. i # t[2]
      BY <3>1 DEF Sessions
    <3>3. i \in t[1]..t[2] <=> i \in t[1]..(t[2] - 1)
      BY <1>2, <2>1, <3>1, <3>2
    <3>4. QED
      BY <1>3, <3>1, <3>3
  <2>5. ASSUME NEW i \in t[1]..(t[2] - 1) PROVE i \in Pairs(s) \ Splits(s)
    <3>1. i \in Pairs(s)
      BY <1>2, <2>1 DEF Pairs
    <3>2. QED
      BY <3>1 DEF Sessions
  <2>6. QED
    BY <2>3, <2>4, <2>5
<1>5. QED
  BY <1>1, <1>4 DEF k

\* The sessions share out the watches, and the gaps that are not splits.
LEMMA SessionSums ==
    ASSUME NEW s \in Seq(Int)
    PROVE  /\ SumFunction([t \in Sessions(s) |-> t[2] - t[1] + 1]) = Len(s)
           /\ SumFunction([t \in Sessions(s) |-> Duration(s, t)])
                  = SumFunctionOnSet(GapsOf(s), Pairs(s) \ Splits(s))
<1> DEFINE K == Sessions(s)
           k == SessionOf(s)
           lengths == [t \in K |-> t[2] - t[1] + 1]
           times == [t \in K |-> Duration(s, t)]
           w == [i \in 1..Len(s) |-> 1]
           g == GapsOf(s)
           I == Pairs(s) \ Splits(s)
<1>1. /\ Len(s) \in Nat /\ IsFiniteSet(K)
      /\ \A t \in K : t[1] \in 1..Len(s) /\ t[2] \in t[1]..Len(s)
  BY SessionType
<1>2. /\ \A i \in 1..Len(s) : k[i] \in K
      /\ \A t \in K : /\ {i \in 1..Len(s) : k[i] = t} = t[1]..t[2]
                      /\ {i \in I : k[i] = t} = t[1]..(t[2] - 1)
  BY SessionMembers
<1>3. IsFiniteSet(1..Len(s)) /\ Cardinality(1..Len(s)) = Len(s)
  <2>1. 1 <= Len(s) + 1 /\ Len(s) - 1 + 1 = Len(s)
    BY <1>1
  <2>2. QED
    BY <1>1, <2>1, IntervalSize
<1>4. SumFunctionOnSet(w, 1..Len(s)) = Len(s) /\ Numbers(w, 1..Len(s))
  <2>1. \A i \in 1..Len(s) : w[i] = 1
    OBVIOUS
  <2> HIDE DEF w
  <2>2. SumFunctionOnSet(w, 1..Len(s)) = 1 * Len(s)
    BY <1>3, <2>1, SumConstant
  <2>3. QED
    BY <1>1, <2>1, <2>2 DEF Numbers
<1>5. \A t \in K : lengths[t] = SumFunctionOnSet(w, {i \in 1..Len(s) : k[i] = t})
  <2>1. SUFFICES ASSUME NEW t \in K
                 PROVE  lengths[t] = SumFunctionOnSet(w, t[1]..t[2])
    BY <1>2
  <2>2. t[1] \in Int /\ t[2] \in Int /\ t[1] <= t[2] + 1 /\ t[1]..t[2] \subseteq 1..Len(s)
    BY <1>1
  <2>3. IsFiniteSet(t[1]..t[2]) /\ Cardinality(t[1]..t[2]) = t[2] - t[1] + 1
    BY <2>2, IntervalSize
  <2>4. \A i \in t[1]..t[2] : w[i] = 1
    BY <2>2
  <2>5. lengths[t] = t[2] - t[1] + 1
    OBVIOUS
  <2> HIDE DEF w, lengths
  <2>6. SumFunctionOnSet(w, t[1]..t[2]) = 1 * Cardinality(t[1]..t[2])
    <3> DEFINE J == t[1]..t[2]
    <3>1. IsFiniteSet(J) /\ \A i \in J : w[i] = 1
      BY <2>3, <2>4
    <3> HIDE DEF J
    <3>2. SumFunctionOnSet(w, J) = 1 * Cardinality(J)
      BY <3>1, SumConstant
    <3>3. QED
      BY <3>2 DEF J
  <2>7. 1 * (t[2] - t[1] + 1) = t[2] - t[1] + 1
    BY <2>2
  <2>8. QED
    BY <2>3, <2>5, <2>6, <2>7
<1>6. SumFunctionOnSet(lengths, K) = Len(s)
  <2> DEFINE N == 1..Len(s)
  <2>1. IsFiniteSet(N) /\ IsFiniteSet(K) /\ Numbers(w, N) /\ SumsBy(lengths, K, k, w, N)
    <3> HIDE DEF lengths, w, k, K
    <3>1. QED
      BY <1>1, <1>2, <1>3, <1>4, <1>5 DEF SumsBy
  <2>2. SumFunctionOnSet(w, N) = Len(s)
    BY <1>4
  <2> HIDE DEF lengths, w, k, K, N
  <2>3. SumFunctionOnSet(lengths, K) = SumFunctionOnSet(w, N)
    BY <2>1, SumGroups
  <2>4. QED
    BY <2>2, <2>3
<1>7. IsFiniteSet(I) /\ Numbers(g, I) /\ \A i \in I : i \in 1..Len(s)
  <2>1. I \in SUBSET Pairs(s)
    OBVIOUS
  <2>2. \A i \in Pairs(s) : i \in 1..Len(s)
    BY <1>1 DEF Pairs
  <2>3. QED
    BY <2>1, <2>2, PairsType
<1>8. \A t \in K : times[t] = SumFunctionOnSet(g, {i \in I : k[i] = t})
  <2>1. SUFFICES ASSUME NEW t \in K
                 PROVE  times[t] = SumFunctionOnSet(g, t[1]..(t[2] - 1))
    BY <1>2
  <2>2. times[t] = s[t[2]] - s[t[1]]
    BY DEF Duration
  <2>3. QED
    BY <1>1, <2>2, GapsTelescope
<1>9. SumFunctionOnSet(times, K) = SumFunctionOnSet(g, I)
  <2> HIDE DEF times, g, k, K, I
  <2>1. IsFiniteSet(I) /\ IsFiniteSet(K) /\ Numbers(g, I) /\ SumsBy(times, K, k, g, I)
    BY <1>1, <1>2, <1>7, <1>8 DEF SumsBy
  <2>2. QED
    BY <2>1, SumGroups
<1>10. QED
  BY <1>6, <1>9 DEF SumFunction

-----------------------------------------------------------------------------
(* The watches of a history.                                                *)

LEMMA WatchesType ==
    ASSUME NEW h \in Seq(Record)
    PROVE  /\ DOMAIN Watches(h) = {i \in DOMAIN h : InWindow(h[i]) /\ WithVideo(h[i])}
           /\ DOMAIN Watches(h) \subseteq 1..Len(h) /\ DOMAIN Watches(h) \subseteq Int
           /\ IsFiniteSet(DOMAIN Watches(h))
           /\ \A i \in DOMAIN Watches(h) : Watches(h)[i] = h[i] /\ h[i] \in Record
           /\ Engagements(h) = Watches(h)
<1>1. /\ DOMAIN Watches(h) = {i \in DOMAIN h : InWindow(h[i]) /\ WithVideo(h[i])}
      /\ \A i \in DOMAIN Watches(h) : Watches(h)[i] = h[i]
  BY DEF Watches, RestrictValues, Restrict
<1>2. Engagements(h) = Watches(h)
  BY DEF Watches, Engagements
<1>3. DOMAIN h = 1..Len(h) /\ Len(h) \in Nat /\ \A i \in DOMAIN h : h[i] \in Record
  OBVIOUS
<1>4. IsFiniteSet(1..Len(h))
  BY <1>3, FS_Interval
<1>5. DOMAIN Watches(h) \in SUBSET (1..Len(h))
  BY <1>1, <1>3
<1>6. IsFiniteSet(DOMAIN Watches(h))
  BY <1>4, <1>5, FS_Subset
<1>7. DOMAIN Watches(h) \subseteq Int
  BY <1>3, <1>5
<1>8. QED
  BY <1>1, <1>2, <1>3, <1>5, <1>6, <1>7

StampsOf(h) == Stamps(Watches(h))
OrderOf(h) == InOrder(Moments(Watches(h)))

LEMMA StampsType ==
    ASSUME NEW h \in Seq(Record)
    PROVE  /\ StampsOf(h) \in Seq(Int) /\ Len(StampsOf(h)) = Cardinality(DOMAIN Watches(h))
           /\ DOMAIN OrderOf(h) = 1..Len(StampsOf(h))
           /\ \A n \in 1..Len(StampsOf(h)) :
                  /\ OrderOf(h)[n] \in DOMAIN Watches(h)
                  /\ StampsOf(h)[n] = Watches(h)[OrderOf(h)[n]].at
<1> DEFINE f == Moments(Watches(h))
<1>1. DOMAIN f = DOMAIN Watches(h) /\ \A i \in DOMAIN f : f[i] = Watches(h)[i].at
  BY DEF Moments
<1>2. IsFiniteSet(DOMAIN f) /\ DOMAIN f \subseteq Int
  BY <1>1, WatchesType
<1>3. Numbers(f, DOMAIN f)
  <2>1. \A i \in DOMAIN Watches(h) : Watches(h)[i] \in Record
    BY WatchesType
  <2>2. \A i \in DOMAIN f : f[i] \in Int
    BY <1>1, <2>1 DEF Record
  <2>3. QED
    BY <2>2 DEF Numbers
<1>4. StampsOf(h) = Sorted(f) /\ OrderOf(h) = InOrder(f)
  BY DEF StampsOf, OrderOf, Stamps
<1> HIDE DEF f
<1>5. /\ InTurn(InOrder(f), Cardinality(DOMAIN f), DOMAIN f, Before(f))
      /\ Sorted(f) \in Seq(Int) /\ Len(Sorted(f)) = Cardinality(DOMAIN f)
      /\ DOMAIN InOrder(f) = 1..Len(Sorted(f))
      /\ \A n \in 1..Len(Sorted(f)) : Sorted(f)[n] = f[InOrder(f)[n]]
  BY <1>2, <1>3, SortedRises
<1>6. \A n \in 1..Len(Sorted(f)) : InOrder(f)[n] \in DOMAIN f
  BY <1>5 DEF InTurn
<1>7. QED
  BY <1>1, <1>4, <1>5, <1>6

\* The gaps up to the break, taken by video.
DwellSums(dwell) == SumFunction([v \in DOMAIN dwell |-> dwell[v][1]])

LEMMA DwellAdds ==
    ASSUME NEW h \in Seq(Record)
    PROVE  DwellSums(Dwell(h))
               = SumFunctionOnSet(GapsOf(StampsOf(h)), Pairs(StampsOf(h)) \ Splits(StampsOf(h)))
<1> DEFINE W == Watches(h)
           order == OrderOf(h)
           s == StampsOf(h)
           I == Pairs(s) \ Splits(s)
           g == GapsOf(s)
           video == [n \in 1..Len(s) |-> W[order[n]].video]
           K == {video[n] : n \in I}
           times == [v \in K |-> Gaps(s, {n \in I : video[n] = v})]
<1>1. /\ s \in Seq(Int) /\ DOMAIN order = 1..Len(s)
      /\ \A n \in 1..Len(s) : s[n] = W[order[n]].at
  BY StampsType
<1>2. s = [n \in DOMAIN order |-> W[order[n]].at]
  <2>1. s = [n \in 1..Len(s) |-> s[n]]
    BY <1>1
  <2> HIDE DEF s, W, order
  <2>2. QED
    BY <1>1, <2>1
<1>3. Len(s) \in Nat /\ \A n \in Pairs(s) : n \in 1..Len(s) /\ n + 1 \in 1..Len(s)
  BY <1>1 DEF Pairs
<1>4. I = {n \in Pairs(s) : Gap(s, n) <= SessionBreak}
  <2>1. \A n \in Pairs(s) : Gap(s, n) \in Int
    BY <1>1, <1>3 DEF Gap
  <2>2. \A n \in Pairs(s) : ~(Gap(s, n) > SessionBreak) <=> Gap(s, n) <= SessionBreak
    BY <2>1 DEF SessionBreak
  <2>3. QED
    BY <2>2 DEF Splits
<1>5. /\ DOMAIN Dwell(h) = K
      /\ \A v \in K : Dwell(h)[v][1] = times[v]
  <2> DEFINE t == [n \in DOMAIN order |-> W[order[n]].at]
             close == {n \in Pairs(t) : Gap(t, n) <= SessionBreak}
             D == [v \in {W[order[n]].video : n \in close} |->
                      <<Gaps(t, {n \in close : W[order[n]].video = v}),
                        Cardinality({n \in close : W[order[n]].video = v})>>]
  <2>1. Dwell(h) = D
    BY DEF Dwell, OrderOf
  <2>2. t = s /\ close = I
    <3> HIDE DEF s, W, order, I
    <3>1. t = s
      BY <1>2
    <3>2. QED
      BY <1>4, <3>1
  <2> HIDE DEF t, close
  <2>3. \A n \in close : W[order[n]].video = video[n]
    BY <1>3, <2>2
  <2>4. {W[order[n]].video : n \in close} = K
    BY <2>2, <2>3
  <2>5. \A v \in K : {n \in close : W[order[n]].video = v} = {n \in I : video[n] = v}
    BY <2>2, <2>3
  <2> HIDE DEF s, W, order, I, video, K
  <2>6. DOMAIN D = K /\ \A v \in K : D[v][1] = Gaps(s, {n \in I : video[n] = v})
    BY <2>2, <2>4, <2>5
  <2>7. QED
    BY <2>1, <2>6
<1>6. \A P \in SUBSET Pairs(s) : /\ IsFiniteSet(P) /\ Numbers(g, P)
                                 /\ Gaps(s, P) = SumFunctionOnSet(g, P)
  BY <1>1, PairsType
<1>7. IsFiniteSet(I) /\ Numbers(g, I) /\ I \in SUBSET Pairs(s)
  BY <1>6
<1>8. IsFiniteSet(K)
  <2> DEFINE f == [n \in I |-> video[n]]
  <2>1. DOMAIN f = I /\ Range(f) = K
    BY DEF Range
  <2> HIDE DEF f, K, I
  <2>2. QED
    BY <1>7, <2>1, RangeFinite
<1>9. \A v \in K : times[v] = SumFunctionOnSet(g, {n \in I : video[n] = v})
  <2>1. \A v : {n \in I : video[n] = v} \in SUBSET Pairs(s)
    BY <1>7
  <2> HIDE DEF I, video, g, K, s
  <2>2. QED
    BY <1>6, <2>1
<1>10. \A n \in I : video[n] \in K
  OBVIOUS
<1>11. SumFunctionOnSet(times, K) = SumFunctionOnSet(g, I)
  <2> HIDE DEF times, g, video, K, I
  <2>1. SumsBy(times, K, video, g, I)
    BY <1>9, <1>10 DEF SumsBy
  <2>2. QED
    BY <1>7, <1>8, <2>1, SumGroups
<1>12. [v \in DOMAIN Dwell(h) |-> Dwell(h)[v][1]] = times
  <2> HIDE DEF K, s, I, video
  <2>1. QED
    BY <1>5
<1>13. DwellSums(Dwell(h)) = SumFunctionOnSet(times, K)
  <2>1. DOMAIN times = K
    OBVIOUS
  <2> HIDE DEF times, K
  <2>2. QED
    BY <1>12, <2>1 DEF DwellSums, SumFunction
<1>14. QED
  BY <1>11, <1>13

\* The gaps below the break, taken by day, and those of exactly the break.
LEMMA DaysAdd ==
    ASSUME NEW s \in Seq(Int)
    PROVE  /\ IsFiniteSet(DOMAIN SecondsByDay(s)) /\ SumFunction(SecondsByDay(s)) \in Int
           /\ SumFunction(SecondsByDay(s))
                  + SessionBreak * Cardinality({i \in Pairs(s) : Gap(s, i) = SessionBreak})
                  = SumFunctionOnSet(GapsOf(s), Pairs(s) \ Splits(s))
<1> DEFINE g == GapsOf(s)
           I == {i \in Pairs(s) : Gap(s, i) < SessionBreak}
           B == {i \in Pairs(s) : Gap(s, i) = SessionBreak}
           day == [i \in 1..Len(s) |-> DayOf(s[i])]
           K == {DayOf(s[i]) : i \in 1..Len(s)}
           daily == SecondsByDay(s)
<1>1. Len(s) \in Nat /\ \A i \in Pairs(s) : i \in 1..Len(s) /\ i + 1 \in 1..Len(s)
  BY DEF Pairs
<1>2. \A P \in SUBSET Pairs(s) : /\ IsFiniteSet(P) /\ Numbers(g, P)
                                 /\ Gaps(s, P) = SumFunctionOnSet(g, P)
                                 /\ Gaps(s, P) \in Int
  BY PairsType
<1>3. IsFiniteSet(K)
  <2>1. DOMAIN day = 1..Len(s) /\ Range(day) = K
    BY DEF Range
  <2>2. IsFiniteSet(1..Len(s))
    BY <1>1, FS_Interval
  <2> HIDE DEF day, K
  <2>3. QED
    BY <2>1, <2>2, RangeFinite
<1>4. DOMAIN daily = K
  BY DEF SecondsByDay
<1>5. \A d \in K : daily[d] = SumFunctionOnSet(g, {i \in I : day[i] = d})
  <2>1. SUFFICES ASSUME NEW d \in K
                 PROVE  daily[d] = SumFunctionOnSet(g, {i \in I : day[i] = d})
    OBVIOUS
  <2> DEFINE P == {i \in Pairs(s) : Gap(s, i) < SessionBreak /\ DayOf(s[i]) = d}
  <2>2. daily[d] = Gaps(s, P)
    BY DEF SecondsByDay
  <2>3. P = {i \in I : day[i] = d} /\ P \in SUBSET Pairs(s)
    BY <1>1
  <2> HIDE DEF P, daily, g, I, day
  <2>4. QED
    BY <1>2, <2>2, <2>3
<1>6. /\ IsFiniteSet(I) /\ IsFiniteSet(K) /\ Numbers(g, I) /\ \A i \in I : day[i] \in K
      /\ I \in SUBSET Pairs(s) /\ B \in SUBSET Pairs(s)
  BY <1>1, <1>2, <1>3
<1>7. SumFunctionOnSet(daily, K) = SumFunctionOnSet(g, I)
  <2> HIDE DEF daily, g, day, K, I
  <2>1. SumsBy(daily, K, day, g, I)
    BY <1>5, <1>6 DEF SumsBy
  <2>2. QED
    BY <1>6, <2>1, SumGroups
<1>8. SumFunctionOnSet(g, B) = SessionBreak * Cardinality(B)
  <2>1. IsFiniteSet(B) /\ SessionBreak \in Int
    BY <1>2, <1>6 DEF SessionBreak
  <2>2. \A i \in B : g[i] = SessionBreak
    BY DEF GapsOf
  <2> HIDE DEF g, B
  <2>3. QED
    BY <2>1, <2>2, SumConstant
<1>9. I \cup B = Pairs(s) \ Splits(s) /\ I \cap B = {}
  <2>1. \A i \in Pairs(s) : Gap(s, i) \in Int
    BY <1>1 DEF Gap
  <2>2. \A i \in Pairs(s) : /\ ~(Gap(s, i) > SessionBreak)
                                   <=> Gap(s, i) < SessionBreak \/ Gap(s, i) = SessionBreak
                            /\ ~(Gap(s, i) < SessionBreak /\ Gap(s, i) = SessionBreak)
    BY <2>1 DEF SessionBreak
  <2>3. QED
    BY <2>2 DEF Splits
<1>10. SumFunctionOnSet(g, I \cup B) = SumFunctionOnSet(g, I) + SumFunctionOnSet(g, B)
  <2>1. IsFiniteSet(B) /\ Numbers(g, B)
    BY <1>2, <1>6
  <2> HIDE DEF g, I, B
  <2>2. QED
    BY <1>6, <1>9, <2>1, SumJoins
<1>11. SumFunction(daily) = SumFunctionOnSet(daily, K)
  BY <1>4 DEF SumFunction
<1>12. SumFunctionOnSet(g, I) \in Int
  <2> HIDE DEF g, I
  <2>1. QED
    BY <1>6, SumType
<1>13. QED
  BY <1>3, <1>4, <1>7, <1>8, <1>9, <1>10, <1>11, <1>12

-----------------------------------------------------------------------------
(* The values of the metrics.                                               *)

Fraction(v) == v[1] \in Int /\ v[2] \in Int

EngagedLists == {"liked_videos", "shared_videos", "video_bookmarks", "comments"}
Engaged(data) ==
    UNION {{<<list, i>> : i \in DOMAIN Engagements(data[list])} : list \in EngagedLists}

LEMMA ListsType ==
    ASSUME NEW data \in DonationData
    PROVE  /\ data.watch_history \in Seq(Record) /\ data.liked_videos \in Seq(Record)
           /\ \A list \in EngagedLists : data[list] \in Seq(Record)
BY DEF DonationData, EngagedLists

LEMMA EngagedFinite ==
    ASSUME NEW data \in DonationData
    PROVE  IsFiniteSet(Engaged(data))
<1> DEFINE Of(list) == {<<list, i>> : i \in DOMAIN Engagements(data[list])}
<1>1. ASSUME NEW list \in EngagedLists PROVE IsFiniteSet(Of(list))
  <2> DEFINE D == DOMAIN Engagements(data[list])
             f == [i \in D |-> <<list, i>>]
  <2>1. IsFiniteSet(D)
    BY ListsType, WatchesType
  <2>2. DOMAIN f = D /\ Range(f) = Of(list)
    BY DEF Range
  <2> HIDE DEF f, D, Of
  <2>3. QED
    BY <2>1, <2>2, RangeFinite
<1>2. Engaged(data) = (Of("liked_videos") \cup Of("shared_videos"))
                          \cup (Of("video_bookmarks") \cup Of("comments"))
  <2> DEFINE P(list) == Of(list)
  <2>1. Engaged(data) = UNION {Of(list) : list \in EngagedLists}
    BY DEF Engaged
  <2> HIDE DEF Of
  <2>2. QED
    BY <2>1 DEF EngagedLists
<1>3. /\ IsFiniteSet(Of("liked_videos")) /\ IsFiniteSet(Of("shared_videos"))
      /\ IsFiniteSet(Of("video_bookmarks")) /\ IsFiniteSet(Of("comments"))
  BY <1>1 DEF EngagedLists
<1>4. QED
  <2> HIDE DEF Of
  <2>1. /\ IsFiniteSet(Of("liked_videos") \cup Of("shared_videos"))
        /\ IsFiniteSet(Of("video_bookmarks") \cup Of("comments"))
    BY <1>3, FS_Union
  <2>2. QED
    BY <1>2, <2>1, FS_Union

LEMMA EngagementType ==
    ASSUME NEW data \in DonationData, NEW political
    PROVE  /\ DOMAIN EngagementMetrics(data, political) \subseteq {"frac_political_engagement"}
           /\ \A m \in DOMAIN EngagementMetrics(data, political) :
                  Fraction(EngagementMetrics(data, political)[m])
<1> DEFINE P == {e \in Engaged(data) : data[e[1]][e[2]].video \in political}
<1>1. IsFiniteSet(P) /\ IsFiniteSet(Engaged(data))
  BY EngagedFinite, FS_Subset
<1>2. Cardinality(P) \in Int /\ Cardinality(Engaged(data)) \in Int
  BY <1>1, FS_CardinalityType
<1>3. EngagementMetrics(data, political)
          = IF Engaged(data) = {} THEN <<>>
            ELSE [frac_political_engagement |-> <<Cardinality(P), Cardinality(Engaged(data))>>]
  BY DEF EngagementMetrics, Engaged, EngagedLists
<1> HIDE DEF P
<1>4. QED
  BY <1>2, <1>3 DEF Fraction

WatchMetricNames ==
    {"avg_session_length_sec", "avg_videos_per_session", "avg_active_hours_per_day",
     "weekend_activity_frac", "night_activity_frac", "frac_instant_skip", "rate_like",
     "peak_activity_hour"}

LEMMA WatchMetricsType ==
    ASSUME NEW data \in DonationData, NEW m \in DOMAIN WatchMetricsOf(data)
    PROVE  LET h == data.watch_history
               s == StampsOf(h)
               v == WatchMetricsOf(data)[m]
           IN  /\ m \in WatchMetricNames /\ Len(s) # 0
               /\ m # "peak_activity_hour" => Fraction(v)
               /\ m = "avg_session_length_sec" =>
                      v[1] = SumFunctionOnSet(GapsOf(s), Pairs(s) \ Splits(s))
               /\ m = "avg_videos_per_session" => v[1] = Len(s)
<1> DEFINE h == data.watch_history
           s == StampsOf(h)
           n == Len(s)
           Count(P) == Cardinality({i \in 1..n : i \in P})
           Late == {i \in 1..n : WeekdayOf(DayOf(s[i])) >= Saturday}
           Night == {i \in 1..n : AtNight(HourOf(s[i]))}
           Quick == {i \in Pairs(s) : Gap(s, i) < InstantSkip}
           sessions == Sessions(s)
           daily == SecondsByDay(s)
           times == SumFunction([t \in sessions |-> Duration(s, t)])
           lengths == SumFunction([t \in sessions |-> t[2] - t[1] + 1])
<1>1. h \in Seq(Record) /\ data.liked_videos \in Seq(Record)
  BY ListsType
<1>2. s \in Seq(Int) /\ n \in Nat
  BY <1>1, StampsType
<1>3. /\ times = SumFunctionOnSet(GapsOf(s), Pairs(s) \ Splits(s)) /\ times \in Int
      /\ lengths = n
  <2>1. Pairs(s) \ Splits(s) \in SUBSET Pairs(s)
    OBVIOUS
  <2>2. SumFunctionOnSet(GapsOf(s), Pairs(s) \ Splits(s)) \in Int
    <3> HIDE DEF s
    <3>1. QED
      BY <1>2, <2>1, PairsType
  <2>3. QED
    BY <1>2, <2>2, SessionSums
<1>4. Cardinality(sessions) \in Int
  BY <1>2, SessionType, FS_CardinalityType
<1>5. SumFunction(daily) \in Int /\ HourLength * Cardinality(DOMAIN daily) \in Int
  <2>1. IsFiniteSet(DOMAIN daily) /\ SumFunction(daily) \in Int
    <3> HIDE DEF s
    <3>1. QED
      BY <1>2, DaysAdd
  <2>2. Cardinality(DOMAIN daily) \in Nat
    BY <2>1, FS_CardinalityType
  <2> HIDE DEF daily
  <2>3. QED
    BY <2>1, <2>2 DEF HourLength
<1>6. Cardinality(Late) \in Int /\ Cardinality(Night) \in Int
  <2>1. IsFiniteSet(1..n)
    BY <1>2, FS_Interval
  <2>2. QED
    BY <2>1, FS_Subset, FS_CardinalityType
<1>7. Fraction(InstantSkips(s))
  <2>1. Quick \in SUBSET Pairs(s)
    OBVIOUS
  <2>2. Cardinality(Quick) \in Int
    <3> HIDE DEF s, Quick
    <3>1. QED
      BY <1>2, <2>1, PairsType, FS_CardinalityType
  <2>3. QED
    BY <1>2, <2>2 DEF InstantSkips, Fraction
<1>8. Len(data.liked_videos) \in Int
  BY <1>1
<1>9. WatchMetricsOf(data) =
          IF n = 0 THEN <<>>
          ELSE [avg_session_length_sec |-> <<times, Cardinality(sessions)>>,
                avg_videos_per_session |-> <<lengths, Cardinality(sessions)>>,
                avg_active_hours_per_day |->
                    <<SumFunction(daily), HourLength * Cardinality(DOMAIN daily)>>,
                weekend_activity_frac |-> <<Cardinality(Late), n>>,
                night_activity_frac |-> <<Cardinality(Night), n>>,
                frac_instant_skip |-> InstantSkips(s),
                rate_like |-> <<Len(data.liked_videos), n>>,
                peak_activity_hour |-> <<PeakHour(Watches(h)), 1>>]
  BY DEF WatchMetricsOf, StampsOf
<1> HIDE DEF times, lengths, sessions, daily, Late, Night, s
<1> DEFINE W == WatchMetricsOf(data)
<1> HIDE DEF W
<1>10. n # 0
  BY <1>9
<1>11. /\ DOMAIN W = WatchMetricNames
       /\ W["avg_session_length_sec"] = <<times, Cardinality(sessions)>>
       /\ W["avg_videos_per_session"] = <<lengths, Cardinality(sessions)>>
       /\ W["avg_active_hours_per_day"]
              = <<SumFunction(daily), HourLength * Cardinality(DOMAIN daily)>>
       /\ W["weekend_activity_frac"] = <<Cardinality(Late), n>>
       /\ W["night_activity_frac"] = <<Cardinality(Night), n>>
       /\ W["frac_instant_skip"] = InstantSkips(s)
       /\ W["rate_like"] = <<Len(data.liked_videos), n>>
  BY <1>9, <1>10 DEF W, WatchMetricNames
<1>12. /\ \A x \in WatchMetricNames \ {"peak_activity_hour"} : Fraction(W[x])
       /\ W["avg_session_length_sec"][1] = times /\ W["avg_videos_per_session"][1] = lengths
  <2> HIDE DEF n
  <2>1. QED
    BY <1>2, <1>3, <1>4, <1>5, <1>6, <1>7, <1>8, <1>11 DEF Fraction, WatchMetricNames
<1>13. m \in WatchMetricNames
  BY <1>11 DEF W
<1>14. QED
  BY <1>3, <1>10, <1>12, <1>13 DEF W, s

-----------------------------------------------------------------------------
(* The rows of the comparison.                                              *)

Value(data, political, m) ==
    IF m \in DOMAIN EngagementMetrics(data, political)
    THEN EngagementMetrics(data, political)[m] ELSE WatchMetricsOf(data)[m]

Measured(data, political) ==
    (DOMAIN EngagementMetrics(data, political)) \cup DOMAIN WatchMetricsOf(data)

Places(data, political) ==
    {k \in DOMAIN ProfileMetrics : /\ ProfileMetrics[k] \in Measured(data, political)
                                   /\ WithValue(DOMAIN Reference, ProfileMetrics[k]) # {}}

PeakRow(data, political) ==
    ComparePeak(Value(data, political, "peak_activity_hour"),
                ValuesOf(DOMAIN Reference, "peak_activity_hour"),
                HourlyMeans(StampsOf(data.watch_history)), GroupHours(Group("all", "any")))
MetricRow(data, political, m) ==
    CompareWith(m, Value(data, political, m), ValuesOf(DOMAIN Reference, m))
WeekdaysRow(data) ==
    CompareWeekdays(WeekdaySeconds(StampsOf(data.watch_history)),
                    GroupWeekdays(Group("all", "any")))
RowAt(data, political, k) ==
    IF k = WeekdaysPlace THEN WeekdaysRow(data)
    ELSE IF ProfileMetrics[k] = "peak_activity_hour" THEN PeakRow(data, political)
    ELSE MetricRow(data, political, ProfileMetrics[k])

LEMMA ComparisonsAre ==
    ASSUME NEW data, NEW political
    PROVE  Comparisons(data, political)
               = IF Measured(data, political) = {} \/ NoReference THEN <<>>
                 ELSE [k \in Places(data, political) \cup {WeekdaysPlace} |->
                          RowAt(data, political, k)]
BY DEF Comparisons, Measured, Places, RowAt, PeakRow, MetricRow, WeekdaysRow, Value, StampsOf

\* A row of a metric, its value and what the reference says of it.
MetricAt(C, k, data, political, m) ==
    /\ m \in Range(ProfileMetrics) /\ m \in Measured(data, political)
    /\ WithValue(DOMAIN Reference, m) # {}
    /\ C[k] = IF m = "peak_activity_hour" THEN PeakRow(data, political)
              ELSE MetricRow(data, political, m)

LEMMA RowKinds ==
    ASSUME NEW data, NEW political
    PROVE  LET C == Comparisons(data, political)
           IN  /\ C = [k \in DOMAIN C |-> C[k]]
               /\ \A k \in DOMAIN C : \/ C[k] = WeekdaysRow(data)
                                      \/ \E m : MetricAt(C, k, data, political, m)
<1> DEFINE C == Comparisons(data, political)
           D == Places(data, political) \cup {WeekdaysPlace}
<1>1. CASE Measured(data, political) = {} \/ NoReference
  <2>1. C = <<>>
    BY <1>1, ComparisonsAre
  <2>2. DOMAIN C = {}
    BY <2>1
  <2>3. <<>> = [k \in {} |-> C[k]]
    OBVIOUS
  <2>4. C = [k \in DOMAIN C |-> C[k]] /\ \A k \in DOMAIN C : FALSE
    <3> HIDE DEF C
    <3>1. QED
      BY <2>1, <2>2, <2>3
  <2>5. QED
    BY <2>4
<1>2. CASE ~(Measured(data, political) = {} \/ NoReference)
  <2>1. C = [k \in D |-> RowAt(data, political, k)]
    BY <1>2, ComparisonsAre
  <2> HIDE DEF C, D
  <2>2. DOMAIN C = D /\ \A k \in D : C[k] = RowAt(data, political, k)
    BY <2>1
  <2>3. ASSUME NEW k \in D, k # WeekdaysPlace
        PROVE  MetricAt(C, k, data, political, ProfileMetrics[k])
    <3>1. k \in Places(data, political)
      BY <2>3 DEF D
    <3>2. ProfileMetrics[k] \in Range(ProfileMetrics)
      BY <3>1 DEF Places, Range
    <3>3. QED
      BY <2>2, <2>3, <3>1, <3>2 DEF Places, MetricAt, RowAt
  <2>4. ASSUME NEW k \in D, k = WeekdaysPlace PROVE C[k] = WeekdaysRow(data)
    BY <2>2, <2>4 DEF RowAt
  <2>5. C = [k \in DOMAIN C |-> C[k]]
    BY <2>1
  <2>6. \A k \in DOMAIN C : C[k] = WeekdaysRow(data) \/ \E m : MetricAt(C, k, data, political, m)
    BY <2>2, <2>3, <2>4
  <2>7. QED
    BY <2>5, <2>6 DEF C
<1>3. QED
  BY <1>1, <1>2

LEMMA ValueType ==
    ASSUME NEW data \in DonationData, NEW political, NEW m \in Measured(data, political),
           m # "peak_activity_hour"
    PROVE  Fraction(Value(data, political, m))
BY EngagementType, WatchMetricsType DEF Value, Measured

\* The row of a metric and its value.
LEMMA RowsForMetric ==
    ASSUME NEW data \in DonationData, NEW political,
           NEW m \in WatchMetricNames \ {"peak_activity_hour"},
           NEW r \in RowsFor(Comparisons(data, political), m)
    PROVE  m \in DOMAIN WatchMetricsOf(data) /\ r.value = WatchMetricsOf(data)[m]
<1> DEFINE C == Comparisons(data, political)
<1>1. PICK k \in DOMAIN C : r = C[k] /\ C[k].metric = m
  <2> HIDE DEF C
  <2>1. r \in RowsFor(C, m)
    BY DEF C
  <2>2. QED
    BY <2>1 DEF RowsFor
<1>2. WeekdaysRow(data).metric # m
  BY DEF WeekdaysRow, CompareWeekdays, WatchMetricNames
<1>3. PICK x : MetricAt(C, k, data, political, x)
  <2> HIDE DEF C
  <2>1. \/ C[k] = WeekdaysRow(data)
        \/ \E x : MetricAt(C, k, data, political, x)
    BY <1>1, RowKinds DEF C
  <2>2. QED
    BY <1>1, <1>2, <2>1
<1> HIDE DEF C
<1>4. PeakRow(data, political).metric = "peak_activity_hour"
  BY DEF PeakRow, ComparePeak
<1>5. MetricRow(data, political, x).metric = x
      /\ MetricRow(data, political, x).value = Value(data, political, x)
  BY DEF MetricRow, CompareWith
<1>6. x = m /\ r.value = Value(data, political, m) /\ m \in Measured(data, political)
  BY <1>1, <1>3, <1>4, <1>5 DEF MetricAt
<1>7. m \notin DOMAIN EngagementMetrics(data, political)
  BY EngagementType DEF WatchMetricNames
<1>8. QED
  BY <1>6, <1>7 DEF Value, Measured

-----------------------------------------------------------------------------
(* The counts and the times of a report.                                    *)

PartiesOf(data) == PoliticalVideos(data.watch_history)
SeenOf(data) == VideoIds(data.watch_history)
SeenPolitical(data) == RestrictValues(SeenOf(data), LAMBDA v : v \in DOMAIN PartiesOf(data))

LEMMA RowFields ==
    ASSUME NEW data
    PROVE  LET row == Compute(data)
           IN  /\ row.videos_seen_count_total = Cardinality(DOMAIN SeenOf(data))
               /\ row.seen_pol_video_ids = SeenPolitical(data)
               /\ row.party_counts = PartyCounts(SeenOf(data), PartiesOf(data))
               /\ row.daily_party_counts
                      = DailyPartyCounts(data.watch_history, PartiesOf(data))
               /\ row.top_videos = TopVideos(data, SeenPolitical(data), PartiesOf(data))
               /\ row.behaviour_comparisons = Comparisons(data, DOMAIN PartiesOf(data))
               /\ row.of = data
BY DEF Compute, PartiesOf, SeenOf, SeenPolitical

LEMMA SeenType ==
    ASSUME NEW data \in DonationData
    PROVE  LET h == data.watch_history
           IN  /\ h \in Seq(Record) /\ IsFiniteSet(DOMAIN SeenOf(data))
               /\ DOMAIN SeenOf(data) = DOMAIN Watches(h) /\ DOMAIN SeenOf(data) \subseteq Nat
               /\ \A i \in DOMAIN SeenOf(data) : SeenOf(data)[i] = h[i].video
               /\ DOMAIN SeenPolitical(data)
                      = {i \in DOMAIN SeenOf(data) : SeenOf(data)[i] \in DOMAIN PartiesOf(data)}
               /\ \A i \in DOMAIN SeenPolitical(data) :
                      SeenPolitical(data)[i] = SeenOf(data)[i]
<1> DEFINE h == data.watch_history
<1>1. h \in Seq(Record)
  BY ListsType
<1>2. /\ IsFiniteSet(DOMAIN Watches(h)) /\ Engagements(h) = Watches(h)
      /\ DOMAIN Watches(h) \subseteq 1..Len(h)
  BY <1>1, WatchesType
<1>3. DOMAIN Watches(h) \subseteq Nat
  BY <1>1, <1>2
<1>4. /\ DOMAIN SeenOf(data) = DOMAIN Watches(h)
      /\ \A i \in DOMAIN SeenOf(data) : SeenOf(data)[i] = h[i].video
  BY <1>2 DEF SeenOf, VideoIds
<1>5. /\ DOMAIN SeenPolitical(data)
             = {i \in DOMAIN SeenOf(data) : SeenOf(data)[i] \in DOMAIN PartiesOf(data)}
      /\ \A i \in DOMAIN SeenPolitical(data) : SeenPolitical(data)[i] = SeenOf(data)[i]
  BY DEF SeenPolitical, RestrictValues, Restrict
<1>6. QED
  BY <1>1, <1>2, <1>3, <1>4, <1>5

LEMMA CountsAdd ==
    ASSUME NEW data \in DonationData
    PROVE  CountsAgree(Compute(data))
<1> DEFINE h == data.watch_history
           seen == SeenOf(data)
           parties == PartiesOf(data)
           D == DOMAIN seen
           k == [i \in DOMAIN seen |-> PartyAt(parties, seen[i])]
           kept == RestrictValues(h, LAMBDA r : WithVideo(r) /\ InWindow(r))
           d == [i \in DOMAIN kept |->
                     <<DayOf(kept[i].at), PartyAt(parties, kept[i].video)>>]
           row == Compute(data)
           total == Cardinality(D)
<1>1. /\ row.party_counts = CountBy(k) /\ row.daily_party_counts = CountBy(d)
      /\ row.videos_seen_count_total = total
      /\ row.seen_pol_video_ids = SeenPolitical(data)
      /\ row.behaviour_comparisons = Comparisons(data, DOMAIN parties)
  BY RowFields DEF PartyCounts, DailyPartyCounts
<1>2. /\ h \in Seq(Record) /\ IsFiniteSet(D) /\ D = DOMAIN Watches(h)
      /\ \A i \in D : seen[i] = h[i].video
      /\ DOMAIN SeenPolitical(data) = {i \in D : seen[i] \in DOMAIN parties}
  BY SeenType
<1>3. DOMAIN kept = D /\ \A i \in D : kept[i] = h[i]
  <2>1. /\ DOMAIN kept = {i \in DOMAIN h : WithVideo(h[i]) /\ InWindow(h[i])}
        /\ \A i \in DOMAIN kept : kept[i] = h[i]
    BY DEF RestrictValues, Restrict
  <2>2. DOMAIN Watches(h) = {i \in DOMAIN h : InWindow(h[i]) /\ WithVideo(h[i])}
    BY <1>2, WatchesType
  <2> HIDE DEF kept
  <2>3. QED
    BY <1>2, <2>1, <2>2
<1> HIDE DEF kept
<1>4. DOMAIN k = D /\ DOMAIN d = D /\ \A i \in D : d[i][2] = k[i]
  BY <1>2, <1>3
<1>5. \A f : DOMAIN CountBy(f) = Range(f)
  BY DEF CountBy
<1>6. /\ SumFunction(CountBy(k)) = total /\ SumFunction(CountBy(d)) = total
  <2> HIDE DEF k, d
  <2>1. QED
    BY <1>2, <1>4, CountByTotal
<1>7. ASSUME NEW p \in DOMAIN CountBy(k)
      PROVE  SumFunctionOnSet(CountBy(d), {x \in DOMAIN CountBy(d) : x[2] = p}) = CountBy(k)[p]
  <2> DEFINE K == {x \in DOMAIN CountBy(d) : x[2] = p}
  <2>1. K \in SUBSET Range(d)
    BY <1>5
  <2>2. {i \in DOMAIN d : d[i] \in K} = {i \in DOMAIN k : k[i] = p}
    <3> HIDE DEF d, k
    <3>1. \A i \in D : d[i] \in DOMAIN CountBy(d)
      BY <1>4, <1>5 DEF Range
    <3>2. QED
      BY <1>4, <3>1
  <2>3. SumFunctionOnSet(CountBy(d), K) = Cardinality({i \in DOMAIN d : d[i] \in K})
    <3> HIDE DEF d, K
    <3>1. QED
      BY <1>2, <1>4, <2>1, CountByPart
  <2>4. CountBy(k)[p] = Cardinality({i \in DOMAIN k : k[i] = p})
    <3> HIDE DEF k
    <3>1. QED
      BY <1>5, <1>7 DEF CountBy
  <2> HIDE DEF d, k
  <2>5. QED
    BY <2>2, <2>3, <2>4
<1>8. SumFunctionOnSet(CountBy(k), DOMAIN CountBy(k) \ {NoParty})
          <= Cardinality(DOMAIN SeenPolitical(data))
  <2> DEFINE K == DOMAIN CountBy(k) \ {NoParty}
             P == {i \in DOMAIN k : k[i] \in K}
  <2>1. K \in SUBSET Range(k)
    BY <1>5
  <2>2. SumFunctionOnSet(CountBy(k), K) = Cardinality(P)
    <3> HIDE DEF k, K
    <3>1. QED
      BY <1>2, <1>4, <2>1, CountByPart
  <2>3. P \in SUBSET DOMAIN SeenPolitical(data)
    <3>1. \A i \in D : k[i] # NoParty => seen[i] \in DOMAIN parties
      BY DEF PartyAt
    <3> HIDE DEF k
    <3>2. QED
      BY <1>2, <1>4, <3>1
  <2>4. IsFiniteSet(DOMAIN SeenPolitical(data))
    BY <1>2, FS_Subset
  <2> HIDE DEF P
  <2>5. QED
    BY <2>2, <2>3, <2>4, FS_Subset
<1>9. ASSUME NEW r \in RowsFor(Comparisons(data, DOMAIN parties), "avg_videos_per_session")
      PROVE  r.value[1] = total
  <2>1. "avg_videos_per_session" \in WatchMetricNames \ {"peak_activity_hour"}
    BY DEF WatchMetricNames
  <2> HIDE DEF parties
  <2>2. /\ "avg_videos_per_session" \in DOMAIN WatchMetricsOf(data)
        /\ r.value = WatchMetricsOf(data)["avg_videos_per_session"]
    BY <1>9, <2>1, RowsForMetric
  <2>3. r.value[1] = Len(StampsOf(h))
    BY <2>2, WatchMetricsType
  <2>4. QED
    BY <1>2, <2>3, StampsType
<1> HIDE DEF k, d, D, row, parties
<1>10. QED
  BY <1>1, <1>6, <1>7, <1>8, <1>9 DEF CountsAgree, row

LEMMA TimesAdd ==
    ASSUME NEW data \in DonationData
    PROVE  TimesAgree(Compute(data))
<1> DEFINE h == data.watch_history
           s == StampsOf(h)
           row == Compute(data)
           time == SumFunctionOnSet(GapsOf(s), Pairs(s) \ Splits(s))
           political == DOMAIN PartiesOf(data)
<1>1. row.of = data /\ row.behaviour_comparisons = Comparisons(data, political)
  BY RowFields
<1>2. h \in Seq(Record) /\ s \in Seq(Int)
  BY SeenType, StampsType
<1>3. SumFunction([v \in DOMAIN Dwell(h) |-> Dwell(h)[v][1]]) = time
  BY <1>2, DwellAdds DEF DwellSums
<1>4. SumFunction(SecondsByDay(s))
          + SessionBreak * Cardinality({i \in Pairs(s) : Gap(s, i) = SessionBreak}) = time
  <2> HIDE DEF s
  <2>1. QED
    BY <1>2, DaysAdd
<1>5. ASSUME NEW r \in RowsFor(Comparisons(data, political), "avg_session_length_sec")
      PROVE  r.value[1] = time
  <2>1. "avg_session_length_sec" \in WatchMetricNames \ {"peak_activity_hour"}
    BY DEF WatchMetricNames
  <2> HIDE DEF political
  <2>2. /\ "avg_session_length_sec" \in DOMAIN WatchMetricsOf(data)
        /\ r.value = WatchMetricsOf(data)["avg_session_length_sec"]
    BY <1>5, <2>1, RowsForMetric
  <2>3. QED
    BY <2>2, WatchMetricsType
<1> HIDE DEF time, political, row
<1>6. TimesAgree(row)
  BY <1>1, <1>3, <1>4, <1>5 DEF TimesAgree, StampsOf
<1>7. QED
  BY <1>6 DEF row

-----------------------------------------------------------------------------
(* The figures of the reference population.                                 *)

\* A fraction of hundredths or of four hundredths, and its four hundredths.
Stands(q, v) ==
    v \in Int /\ (q = <<v, 400>> \/ \E x \in Int : q = InHundredths(x) /\ v = 4 * x)

LEMMA StandsOrder ==
    ASSUME NEW q, NEW v, Stands(q, v), NEW r, NEW u, Stands(r, u), u <= v
    PROVE  ~LessThan(q, r)
<1>1. CASE q = <<v, 400>> /\ r = <<u, 400>>
  BY <1>1 DEF Stands, LessThan
<1>2. CASE q = <<v, 400>> /\ \E x \in Int : r = InHundredths(x) /\ u = 4 * x
  BY <1>2 DEF Stands, LessThan, InHundredths
<1>3. CASE r = <<u, 400>> /\ \E x \in Int : q = InHundredths(x) /\ v = 4 * x
  BY <1>3 DEF Stands, LessThan, InHundredths
<1>4. CASE /\ \E x \in Int : q = InHundredths(x) /\ v = 4 * x
           /\ \E x \in Int : r = InHundredths(x) /\ u = 4 * x
  BY <1>4 DEF Stands, LessThan, InHundredths
<1>5. QED
  BY <1>1, <1>2, <1>3, <1>4 DEF Stands

\* The value at a quarter of a position, four times.
At(P, pos) ==
    LET low == pos \div 4
        weight == pos % 4
    IN IF weight = 0 THEN 4 * P[low + 1]
       ELSE P[low + 1] * (4 - weight) + P[low + 2] * weight

LEMMA QuarterParts ==
    ASSUME NEW pos \in Nat
    PROVE  /\ pos \div 4 \in Nat /\ pos % 4 \in 0..3
           /\ pos = 4 * (pos \div 4) + (pos % 4)
<1>1. pos \in Int
  OBVIOUS
<1>2. /\ pos \div 4 \in Int /\ pos % 4 \in Int
      /\ pos = 4 * (pos \div 4) + (pos % 4)
  BY <1>1
<1>3. pos \div 4 \in Nat
  OBVIOUS
<1>4. pos % 4 \in 0..3
  OBVIOUS
<1>5. QED
  BY <1>2, <1>3, <1>4

LEMMA AtValue ==
    ASSUME NEW P \in Seq(Int), NEW pos \in Nat, pos <= 4 * (Len(P) - 1)
    PROVE  LET low == pos \div 4
               a == P[low + 1]
               b == P[low + 2]
           IN  /\ low \in Nat /\ low + 1 \in 1..Len(P) /\ a \in Int /\ At(P, pos) \in Int
               /\ \/ pos = 4 * low /\ At(P, pos) = 4 * a
                  \/ /\ low + 2 \in 1..Len(P) /\ b \in Int
                     /\ \/ pos = 4 * low + 1 /\ At(P, pos) = 3 * a + b
                        \/ pos = 4 * low + 2 /\ At(P, pos) = 2 * a + 2 * b
                        \/ pos = 4 * low + 3 /\ At(P, pos) = a + 3 * b
<1> DEFINE low == pos \div 4
           weight == pos % 4
           a == P[low + 1]
           b == P[low + 2]
           n == Len(P)
<1>1. low \in Nat /\ weight \in 0..3 /\ pos = 4 * low + weight
  BY QuarterParts
<1>2. n \in Nat /\ \A i \in 1..n : P[i] \in Int
  OBVIOUS
<1>3. At(P, pos) = IF weight = 0 THEN 4 * a ELSE a * (4 - weight) + b * weight
  BY DEF At
<1>4. low + 1 \in 1..n /\ (weight # 0 => low + 2 \in 1..n)
  <2> HIDE DEF low, weight
  <2>1. QED
    BY <1>1, <1>2
<1>5. a \in Int /\ (weight # 0 => b \in Int)
  BY <1>2, <1>4
<1> HIDE DEF low, weight, a, b
<1>6. CASE weight = 0
  BY <1>1, <1>3, <1>4, <1>5, <1>6 DEF low, a, b
<1>7. CASE weight = 1
  <2>1. a * (4 - 1) + b * 1 = 3 * a + b /\ 3 * a + b \in Int
    BY <1>5, <1>7
  <2>2. QED
    BY <1>1, <1>3, <1>4, <1>5, <1>7, <2>1 DEF low, a, b
<1>8. CASE weight = 2
  <2>1. a * (4 - 2) + b * 2 = 2 * a + 2 * b /\ 2 * a + 2 * b \in Int
    BY <1>5, <1>8
  <2>2. QED
    BY <1>1, <1>3, <1>4, <1>5, <1>8, <2>1 DEF low, a, b
<1>9. CASE weight = 3
  <2>1. a * (4 - 3) + b * 3 = a + 3 * b /\ a + 3 * b \in Int
    BY <1>5, <1>9
  <2>2. QED
    BY <1>1, <1>3, <1>4, <1>5, <1>9, <2>1 DEF low, a, b
<1>10. QED
  BY <1>1, <1>6, <1>7, <1>8, <1>9

\* x is between a and b, as far as the quarter w.
Quarter(x, w, a, b) ==
    \/ w = 0 /\ x = 4 * a
    \/ /\ b \in Int /\ a <= b
       /\ \/ w = 1 /\ x = 3 * a + b
          \/ w = 2 /\ x = 2 * a + 2 * b
          \/ w = 3 /\ x = a + 3 * b

LEMMA QuarterOrder ==
    ASSUME NEW a \in Int, NEW b, NEW x \in Int, NEW w \in Int, Quarter(x, w, a, b)
    PROVE  /\ w \in 0..3 /\ 4 * a <= x /\ (w # 0 => b \in Int /\ x <= 4 * b)
           /\ \A y \in Int, v \in Int : Quarter(y, v, a, b) /\ w <= v => x <= y
BY DEF Quarter

LEMMA AtRises ==
    ASSUME NEW P \in Seq(Int), Rising(P), NEW p \in Nat, NEW q \in Nat,
           p <= q, q <= 4 * (Len(P) - 1)
    PROVE  At(P, p) <= At(P, q)
<1> DEFINE l == p \div 4
           m == q \div 4
           a == P[l + 1]
           b == P[l + 2]
           c == P[m + 1]
           d == P[m + 2]
<1>0. Len(P) \in Nat
  OBVIOUS
<1>1. /\ l \in Nat /\ l + 1 \in 1..Len(P) /\ a \in Int /\ At(P, p) \in Int
      /\ Quarter(At(P, p), p - 4 * l, a, b)
      /\ p - 4 * l # 0 => l + 2 \in 1..Len(P)
  <2>1. p <= 4 * (Len(P) - 1)
    BY <1>0
  <2>2. l + 2 \in 1..Len(P) => a <= b
    BY <1>0 DEF Rising
  <2>3. QED
    BY <2>1, <2>2, AtValue DEF Quarter
<1>2. /\ m \in Nat /\ m + 1 \in 1..Len(P) /\ c \in Int /\ At(P, q) \in Int
      /\ Quarter(At(P, q), q - 4 * m, c, d)
  <2>1. m + 2 \in 1..Len(P) => c <= d
    BY <1>0 DEF Rising
  <2>2. QED
    BY <2>1, AtValue DEF Quarter
<1> HIDE DEF l, m
<1>3. p - 4 * l \in 0..3 /\ q - 4 * m \in 0..3 /\ 4 * c <= At(P, q)
  <2> HIDE DEF a, b, c, d
  <2>1. QED
    BY <1>1, <1>2, QuarterOrder
<1>4. l = m \/ l + 1 <= m
  <2>1. /\ l \in Int /\ m \in Int /\ p \in Int /\ q \in Int
        /\ p - 4 * l <= 3 /\ 0 <= p - 4 * l /\ q - 4 * m <= 3 /\ 0 <= q - 4 * m
    BY <1>1, <1>2, <1>3
  <2>2. QED
    BY <2>1
<1>5. CASE l = m
  <2>1. a = c /\ b = d
    BY <1>5
  <2> HIDE DEF a, b, c, d
  <2>2. QED
    BY <1>1, <1>2, <1>5, <2>1, QuarterOrder
<1>6. CASE l + 1 <= m
  <2>1. a <= c /\ (p - 4 * l # 0 => b <= c)
    BY <1>1, <1>2, <1>6 DEF Rising
  <2> HIDE DEF a, b, c, d
  <2>2. p - 4 * l = 0 => At(P, p) = 4 * a
    BY <1>1 DEF Quarter
  <2>3. p - 4 * l # 0 => b \in Int /\ At(P, p) <= 4 * b
    BY <1>1, QuarterOrder
  <2>4. At(P, p) \in Int /\ a \in Int /\ c \in Int
    BY <1>1, <1>2
  <2>5. At(P, p) <= 4 * c
    <3>1. CASE p - 4 * l = 0
      BY <2>1, <2>2, <2>4, <3>1
    <3>2. CASE p - 4 * l # 0
      <4>1. b \in Int /\ b <= c /\ At(P, p) <= 4 * b
        BY <2>1, <2>3, <3>2
      <4>2. QED
        BY <2>4, <4>1
    <3>3. QED
      BY <3>1, <3>2
  <2>6. At(P, q) \in Int /\ 4 * c <= At(P, q)
    BY <1>2, <1>3
  <2>7. QED
    BY <2>4, <2>5, <2>6
<1>7. QED
  BY <1>4, <1>5, <1>6

LEMMA QuantileStands ==
    ASSUME NEW P \in Seq(Int), NEW k \in 1..3, Len(P) >= 1
    PROVE  /\ k * (Len(P) - 1) \in Nat /\ k * (Len(P) - 1) <= 4 * (Len(P) - 1)
           /\ Stands(Quantile(P, k), At(P, k * (Len(P) - 1)))
<1> DEFINE pos == k * (Len(P) - 1)
           low == pos \div 4
           weight == pos % 4
<1>1. pos \in Nat /\ pos <= 4 * (Len(P) - 1)
  <2>1. Len(P) - 1 \in Nat /\ k \in {1, 2, 3}
    OBVIOUS
  <2>2. QED
    BY <2>1
<1> HIDE DEF pos
<1>2. At(P, pos) \in Int /\ P[low + 1] \in Int
  BY <1>1, AtValue
<1>3. Quantile(P, k) = IF weight = 0 THEN InHundredths(P[low + 1])
                       ELSE <<P[low + 1] * (4 - weight) + P[low + 2] * weight, 400>>
  BY DEF Quantile, pos
<1>4. At(P, pos) = IF weight = 0 THEN 4 * P[low + 1]
                   ELSE P[low + 1] * (4 - weight) + P[low + 2] * weight
  BY DEF At
<1> HIDE DEF low, weight
<1>5. Stands(Quantile(P, k), At(P, pos))
  BY <1>2, <1>3, <1>4 DEF Stands
<1>6. QED
  BY <1>1, <1>5 DEF pos

InSteps(stats) ==
    /\ ~LessThan(stats.p25, stats.min) /\ ~LessThan(stats.median, stats.p25)
    /\ ~LessThan(stats.p75, stats.median) /\ ~LessThan(stats.max, stats.p75)

LEMMA StatsOrdered ==
    ASSUME NEW P \in Seq(Int), Rising(P), Len(P) >= 1
    PROVE  InSteps(Stats(P))
<1> DEFINE n == Len(P)
           v(k) == At(P, k * (n - 1))
<1>1. n \in Nat /\ P[1] \in Int /\ P[n] \in Int
  OBVIOUS
<1>2. /\ \A k \in 1..3 : k * (n - 1) \in Nat /\ k * (n - 1) <= 4 * (n - 1)
      /\ Stands(Quantile(P, 1), v(1)) /\ Stands(Quantile(P, 2), v(2))
      /\ Stands(Quantile(P, 3), v(3))
  BY QuantileStands
<1>3. /\ 0 \div 4 = 0 /\ 0 % 4 = 0 /\ At(P, 0) = 4 * P[1]
  BY DEF At
<1>4. At(P, 4 * (n - 1)) = 4 * P[n] /\ 4 * (n - 1) \in Nat
  <2>1. (4 * (n - 1)) \div 4 = n - 1 /\ (4 * (n - 1)) % 4 = 0 /\ n - 1 + 1 = n
    BY <1>1
  <2>2. QED
    BY <1>1, <2>1 DEF At
<1>5. /\ Stands(InHundredths(P[1]), At(P, 0))
      /\ Stands(InHundredths(P[n]), At(P, 4 * (n - 1)))
  BY <1>1, <1>3, <1>4 DEF Stands
<1>6. /\ At(P, 0) <= v(1) /\ v(1) <= v(2) /\ v(2) <= v(3) /\ v(3) <= At(P, 4 * (n - 1))
  <2>1. /\ 0 <= 1 * (n - 1) /\ 1 * (n - 1) <= 2 * (n - 1) /\ 2 * (n - 1) <= 3 * (n - 1)
        /\ 3 * (n - 1) <= 4 * (n - 1) /\ 4 * (n - 1) <= 4 * (n - 1)
        /\ 1 * (n - 1) \in Nat /\ 2 * (n - 1) \in Nat /\ 3 * (n - 1) \in Nat
        /\ 1 * (n - 1) <= 4 * (n - 1) /\ 2 * (n - 1) <= 4 * (n - 1)
    BY <1>1
  <2>2. At(P, 0) <= v(1)
    BY <2>1, AtRises
  <2>3. v(1) <= v(2)
    BY <2>1, AtRises
  <2>4. v(2) <= v(3)
    BY <2>1, AtRises
  <2>5. v(3) <= At(P, 4 * (n - 1))
    BY <1>4, <2>1, AtRises
  <2>6. QED
    BY <2>2, <2>3, <2>4, <2>5
<1> DEFINE st == Stats(P)
<1>7. /\ st.min = InHundredths(P[1]) /\ st.max = InHundredths(P[n])
      /\ st.p25 = Quantile(P, 1) /\ st.median = Quantile(P, 2) /\ st.p75 = Quantile(P, 3)
  BY DEF Stats
<1> HIDE DEF st, v
<1>8. /\ ~LessThan(st.p25, st.min) /\ ~LessThan(st.median, st.p25)
      /\ ~LessThan(st.p75, st.median) /\ ~LessThan(st.max, st.p75)
  BY <1>2, <1>5, <1>6, <1>7, StandsOrder
<1>9. QED
  BY <1>8 DEF InSteps, st

Share(p) == ~LessThan(<<1, 1>>, p) /\ p[1] >= 0

LEMMA PercentileType ==
    ASSUME NEW P \in Seq(Int), NEW v, Fraction(v)
    PROVE  Share(PercentileRank(v, P))
<1> DEFINE n == Len(P)
           below == {i \in 1..n : LessThan(InHundredths(P[i]), v)}
           equal == {i \in 1..n : SameAs(InHundredths(P[i]), v)}
           b == Cardinality(below)
           e == Cardinality(equal)
<1>1. n \in Nat /\ \A i \in 1..n : P[i] \in Int
  OBVIOUS
<1>2. IsFiniteSet(1..n) /\ Cardinality(1..n) = n
  <2>1. 1 <= n + 1 /\ n - 1 + 1 = n
    BY <1>1
  <2>2. QED
    BY <1>1, <2>1, IntervalSize
<1>3. below \cap equal = {}
  <2>1. \A i \in 1..n : P[i] * v[2] \in Int /\ v[1] * 100 \in Int
    BY <1>1 DEF Fraction
  <2>2. \A i \in 1..n : ~(P[i] * v[2] < v[1] * 100 /\ P[i] * v[2] = v[1] * 100)
    BY <2>1
  <2>3. QED
    BY <2>2 DEF LessThan, SameAs, InHundredths
<1>4. IsFiniteSet(below) /\ IsFiniteSet(equal) /\ below \cup equal \in SUBSET (1..n)
  BY <1>2, FS_Subset
<1> HIDE DEF below, equal
<1>5. b \in Nat /\ e \in Nat
  BY <1>4, FS_CardinalityType
<1>6. Cardinality(below \cup equal) = b + e
  <2>1. Cardinality(below \cup equal) = b + e - Cardinality(below \cap equal)
    BY <1>4, FS_Union
  <2>2. Cardinality(below \cap equal) = 0
    BY <1>3, FS_EmptySet
  <2>3. QED
    BY <1>5, <2>1, <2>2
<1>7. b + e <= n
  BY <1>2, <1>4, <1>6, FS_Subset
<1>8. PercentileRank(v, P) = <<2 * b + e, 2 * n>>
  BY DEF PercentileRank, below, equal
<1>9. ~(1 * (2 * n) < (2 * b + e) * 1) /\ 2 * b + e >= 0
  BY <1>1, <1>5, <1>7
<1>10. QED
  BY <1>8, <1>9 DEF Share, LessThan

LEMMA PeakShareType ==
    ASSUME NEW P \in Seq(Int), NEW hour
    PROVE  Share(PeakHourShare(hour, P))
<1> DEFINE n == Len(P)
           same == {i \in 1..n : Rounded(P[i]) = hour}
<1>1. n \in Nat
  OBVIOUS
<1>2. IsFiniteSet(1..n) /\ Cardinality(1..n) = n
  <2>1. 1 <= n + 1 /\ n - 1 + 1 = n
    BY <1>1
  <2>2. QED
    BY <1>1, <2>1, IntervalSize
<1>3. IsFiniteSet(same) /\ Cardinality(same) <= n
  <2>1. same \in SUBSET (1..n)
    OBVIOUS
  <2>2. QED
    BY <1>2, <2>1, FS_Subset
<1>4. Cardinality(same) \in Nat
  BY <1>3, FS_CardinalityType
<1>5. PeakHourShare(hour, P) = <<Cardinality(same), n>>
  BY DEF PeakHourShare
<1> HIDE DEF same
<1>6. ~(1 * n < Cardinality(same) * 1) /\ Cardinality(same) >= 0
  BY <1>1, <1>3, <1>4
<1>7. QED
  BY <1>5, <1>6 DEF Share, LessThan

LEMMA PopulationType ==
    ASSUME NEW m \in Range(ProfileMetrics), WithValue(DOMAIN Reference, m) # {}
    PROVE  LET P == ValuesOf(DOMAIN Reference, m)
           IN  P \in Seq(Int) /\ Rising(P) /\ Len(P) >= 1
<1> DEFINE W == WithValue(DOMAIN Reference, m)
           f == [i \in W |-> Reference[i].metrics[m]]
<1>1. /\ DOMAIN Reference = 1..Len(Reference) /\ Len(Reference) \in Nat
      /\ \A i \in DOMAIN Reference : Reference[i] \in ReferenceRow
  BY ReferenceAssumption
<1>2. W \in SUBSET DOMAIN Reference
  BY DEF WithValue
<1>3. IsFiniteSet(W) /\ W \subseteq Int
  <2>1. IsFiniteSet(1..Len(Reference))
    BY <1>1, FS_Interval
  <2>2. QED
    BY <1>1, <1>2, <2>1, FS_Subset
<1>4. \A i \in W : f[i] \in Int
  BY <1>1, <1>2 DEF ReferenceRow
<1>5. DOMAIN f = W /\ Numbers(f, W) /\ ValuesOf(DOMAIN Reference, m) = Sorted(f)
  BY <1>4 DEF Numbers, ValuesOf
<1>6. Cardinality(W) \in Nat /\ Cardinality(W) # 0
  BY <1>3, FS_CardinalityType, FS_EmptySet
<1> HIDE DEF W, f
<1>7. Sorted(f) \in Seq(Int) /\ Rising(Sorted(f)) /\ Len(Sorted(f)) = Cardinality(W)
  BY <1>3, <1>5, SortedRises
<1>8. QED
  BY <1>5, <1>6, <1>7

Figures(r) == Share(r.percentile) /\ InSteps(r.stats)

LEMMA FiguresInOrder ==
    ASSUME NEW data \in DonationData
    PROVE  FiguresOrdered(Compute(data))
<1> DEFINE political == DOMAIN PartiesOf(data)
           C == Comparisons(data, political)
<1>1. Compute(data).behaviour_comparisons = C
  BY RowFields
<1>2. Figures(WeekdaysRow(data))
  <2>1. <<0>> \in Seq(Int) /\ Rising(<<0>>) /\ Len(<<0>>) >= 1
    BY DEF Rising
  <2>2. InSteps(Stats(<<0>>))
    BY <2>1, StatsOrdered
  <2>3. /\ WeekdaysRow(data).percentile = Half
        /\ WeekdaysRow(data).stats = Stats(<<0>>)
    BY DEF WeekdaysRow, CompareWeekdays
  <2>4. Share(Half)
    BY DEF Share, Half, LessThan
  <2>5. QED
    BY <2>2, <2>3, <2>4 DEF Figures
<1>3. ASSUME NEW k, NEW m, MetricAt(C, k, data, political, m)
      PROVE  Figures(C[k])
  <2> DEFINE P == ValuesOf(DOMAIN Reference, m)
  <2>1. /\ m \in Range(ProfileMetrics) /\ m \in Measured(data, political)
        /\ WithValue(DOMAIN Reference, m) # {}
        /\ C[k] = IF m = "peak_activity_hour" THEN PeakRow(data, political)
                  ELSE MetricRow(data, political, m)
    BY <1>3 DEF MetricAt
  <2>2. P \in Seq(Int) /\ Rising(P) /\ Len(P) >= 1
    BY <2>1, PopulationType
  <2> HIDE DEF C, P, political
  <2>3. InSteps(Stats(P))
    BY <2>2, StatsOrdered
  <2>4. CASE m = "peak_activity_hour"
    <3> DEFINE v == Value(data, political, m)
               same == PeakHourShare(v[1], P)
    <3>1. /\ C[k].percentile = same
          /\ C[k].stats = [Stats(P) EXCEPT !.mean = <<same[2] - same[1], same[2]>>]
      BY <2>1, <2>4 DEF PeakRow, ComparePeak, P
    <3>2. Share(same)
      BY <2>2, PeakShareType
    <3> HIDE DEF v, same
    <3>3. /\ C[k].stats.min = Stats(P).min /\ C[k].stats.max = Stats(P).max
          /\ C[k].stats.p25 = Stats(P).p25 /\ C[k].stats.p75 = Stats(P).p75
          /\ C[k].stats.median = Stats(P).median
      BY <3>1 DEF Stats
    <3>4. QED
      BY <2>3, <3>1, <3>2, <3>3 DEF Figures, InSteps
  <2>5. CASE m # "peak_activity_hour"
    <3>1. /\ C[k].percentile = PercentileRank(Value(data, political, m), P)
          /\ C[k].stats = Stats(P)
      BY <2>1, <2>5 DEF MetricRow, CompareWith, P
    <3>2. Fraction(Value(data, political, m))
      BY <2>1, <2>5, ValueType
    <3>3. Share(C[k].percentile)
      BY <2>2, <3>1, <3>2, PercentileType
    <3>4. QED
      BY <2>3, <3>1, <3>3 DEF Figures
  <2>6. QED
    BY <2>4, <2>5
<1>4. \A k \in DOMAIN C : Figures(C[k])
  <2>1. \A k \in DOMAIN C : \/ C[k] = WeekdaysRow(data)
                            \/ \E m : MetricAt(C, k, data, political, m)
    BY RowKinds
  <2> HIDE DEF C, political
  <2>2. QED
    BY <1>2, <1>3, <2>1
<1> HIDE DEF C
<1>5. \A r \in Range(C) : Share(r.percentile) /\ InSteps(r.stats)
  BY <1>4 DEF Range, Figures
<1>6. QED
  BY <1>1, <1>5 DEF FiguresOrdered, Share, InSteps

-----------------------------------------------------------------------------
(* The top videos.                                                          *)

LEMMA LesserOfTwo ==
    ASSUME NEW a \in Int, NEW b \in Int
    PROVE  Min({a, b}) = IF a <= b THEN a ELSE b
BY DEF Min

LEMMA FirstOfType ==
    ASSUME NEW seen, DOMAIN seen \subseteq Nat, NEW v \in Range(seen)
    PROVE  FirstOf(seen, v) \in DOMAIN seen /\ seen[FirstOf(seen, v)] = v
<1> DEFINE S == {i \in DOMAIN seen : seen[i] = v}
<1>1. S \in SUBSET Nat /\ S # {}
  BY DEF Range
<1> HIDE DEF S
<1>2. \E n \in S : \A m \in S : n <= m
  BY <1>1, LeastNumber
<1>3. Min(S) \in S
  BY <1>2 DEF Min
<1>4. FirstOf(seen, v) = Min(S)
  BY DEF FirstOf, S
<1>5. QED
  BY <1>3, <1>4 DEF S

LEMMA ViewsType ==
    ASSUME catalogue \in Catalogues, NEW v
    PROVE  ViewsOf(v) \in Int
BY ReportAssumption DEF ViewsOf, NoViews

LEMMA AheadOrders ==
    ASSUME NEW seen, DOMAIN seen \subseteq Nat, IsFiniteSet(DOMAIN seen), catalogue \in Catalogues
    PROVE  Orders(AheadInTop(seen), Range(seen))
<1> DEFINE A == AheadInTop(seen)
           c == CountBy(seen)
           a(v, w) == \/ ViewsOf(v) > ViewsOf(w)
                      \/ /\ ViewsOf(v) = ViewsOf(w)
                         /\ \/ c[v] > c[w]
                            \/ c[v] = c[w] /\ FirstOf(seen, v) < FirstOf(seen, w)
<1>1. \A v, w \in Range(seen) : <<v, w>> \in A <=> a(v, w)
  BY DEF AheadInTop
<1>2. \A v \in Range(seen) : c[v] \in Int
  <2>1. SUFFICES ASSUME NEW v \in Range(seen) PROVE c[v] \in Int
    OBVIOUS
  <2>2. IsFiniteSet({i \in DOMAIN seen : seen[i] = v})
    BY FS_Subset
  <2>3. c[v] = Cardinality({i \in DOMAIN seen : seen[i] = v})
    BY DEF CountBy
  <2>4. QED
    BY <2>2, <2>3, FS_CardinalityType
<1>3. \A v \in Range(seen) : FirstOf(seen, v) \in Int
  BY FirstOfType
<1>4. \A v \in Range(seen) : ViewsOf(v) \in Int
  BY ViewsType
<1>5. \A v, w \in Range(seen) : FirstOf(seen, v) = FirstOf(seen, w) => v = w
  BY FirstOfType
<1> HIDE DEF c, A
<1>6. \A v \in Range(seen) : ~a(v, v)
  BY <1>2, <1>3, <1>4
<1>7. \A v, w \in Range(seen) : v # w => a(v, w) \/ a(w, v)
  BY <1>2, <1>3, <1>4, <1>5
<1>8. \A v, w, x \in Range(seen) : a(v, w) /\ a(w, x) => a(v, x)
  BY <1>2, <1>3, <1>4
<1> HIDE DEF a
<1>9. QED
  BY <1>1, <1>6, <1>7, <1>8 DEF Orders, A

LEMMA TopInOrder ==
    ASSUME NEW data \in DonationData, catalogue \in Catalogues
    PROVE  TopOrdered(Compute(data))
<1> DEFINE seen == SeenPolitical(data)
           S == Range(seen)
           n == Cardinality(S)
           k == Min({TopCount, n})
           R == AheadInTop(seen)
           r == Ranked(S, R)
           top == TopVideos(data, seen, PartiesOf(data))
<1>1. /\ Compute(data).seen_pol_video_ids = seen
      /\ Compute(data).top_videos = top
  BY RowFields
<1>2. DOMAIN seen \subseteq Nat /\ IsFiniteSet(DOMAIN seen)
  BY SeenType, FS_Subset
<1> HIDE DEF seen
<1>3. IsFiniteSet(S) /\ Orders(R, S)
  BY <1>2, AheadOrders, RangeFinite
<1>4. n \in Nat /\ InTurn(r, n, S, R)
  <2> HIDE DEF S, R
  <2>1. QED
    BY <1>3, RankedSorts
<1>5. k \in Nat /\ k <= n
  <2> HIDE DEF n
  <2>1. QED
    BY <1>4, LesserOfTwo, ReportAssumption
<1>6. /\ top = [i \in 1..k |-> top[i]]
      /\ \A i \in 1..k : top[i].video = r[i] /\ top[i].total_views = ViewsOf(r[i])
  BY DEF TopVideos
<1> HIDE DEF top, r, k
<1>7. Len(top) = k
  <2> DEFINE V == {top[i] : i \in 1..k}
  <2>1. top \in [1..k -> V]
    BY <1>6
  <2> HIDE DEF V
  <2>2. top \in Seq(V) /\ Len(top) = k
    BY <1>5, <2>1
  <2>3. QED
    BY <2>2
<1>8. ASSUME NEW i \in 1..k, NEW j \in 1..k, i < j
      PROVE  top[i].total_views >= top[j].total_views /\ top[i].video # top[j].video
  <2>1. i \in 1..n /\ j \in 1..n
    BY <1>4, <1>5
  <2>2. <<r[i], r[j]>> \in R /\ r[i] # r[j]
    BY <1>4, <1>8, <2>1 DEF InTurn
  <2>3. ViewsOf(r[i]) \in Int /\ ViewsOf(r[j]) \in Int
    BY ViewsType
  <2>4. ViewsOf(r[i]) > ViewsOf(r[j]) \/ ViewsOf(r[i]) = ViewsOf(r[j])
    BY <2>2 DEF AheadInTop
  <2>5. QED
    BY <1>6, <2>2, <2>3, <2>4
<1> HIDE DEF R, n
<1>9. QED
  BY <1>1, <1>7, <1>8 DEF TopOrdered, k, n

-----------------------------------------------------------------------------
(* The filters.                                                             *)

KnownIn(group) == {m \in Range(ProfileMetrics) : WithValue(group, m) # {}}

FilteredRow(row, age, gender) ==
    LET group == Group(age, gender)
    IN CASE row.metric = "weekday_active_hours" ->
                CompareWeekdays(row.series[1], GroupWeekdays(group))
         [] row.metric \notin KnownIn(group) /\ row.metric # "weekday_active_hours" -> row
         [] row.metric = "peak_activity_hour" /\ row.metric \in KnownIn(group) ->
                ComparePeak(row.value, ValuesOf(group, row.metric), row.series[1], GroupHours(group))
         [] OTHER -> CompareWith(row.metric, row.value, ValuesOf(group, row.metric))

LEMMA FilteredAre ==
    ASSUME NEW C, NEW age, NEW gender
    PROVE  ApplyFilter(C, age, gender)
               = IF KnownIn(Group(age, gender)) = {} THEN C
                 ELSE [k \in DOMAIN C |-> FilteredRow(C[k], age, gender)]
BY DEF ApplyFilter, KnownIn, FilteredRow

\* A row keeps its metric and its value, and without a filter it is the same.
Keeps(row, age, gender) ==
    /\ FilteredRow(row, age, gender).metric = row.metric
    /\ FilteredRow(row, age, gender).value = row.value
    /\ age = "all" /\ gender = "any" => FilteredRow(row, age, gender) = row

LEMMA EveryoneLoaded ==
    ASSUME NEW m \in Range(ProfileMetrics)
    PROVE  /\ WithValue(Group("all", "any"), m) = WithValue(DOMAIN Reference, m)
           /\ ValuesOf(Group("all", "any"), m) = ValuesOf(DOMAIN Reference, m)
<1>1. Group("all", "any") = Loaded
  BY DEF Group, MatchesFilter, Loaded
<1>2. WithValue(Loaded, m) = WithValue(DOMAIN Reference, m)
  BY DEF WithValue, Loaded
<1>3. QED
  BY <1>1, <1>2 DEF ValuesOf

LEMMA WeekdaysKept ==
    ASSUME NEW data, NEW age, NEW gender
    PROVE  Keeps(WeekdaysRow(data), age, gender)
<1> DEFINE row == WeekdaysRow(data)
           group == Group(age, gender)
<1>1. /\ row.metric = "weekday_active_hours" /\ row.value = <<0, 1>>
      /\ row.series[1] = WeekdaySeconds(StampsOf(data.watch_history))
      /\ row = CompareWeekdays(row.series[1], GroupWeekdays(Group("all", "any")))
  BY DEF WeekdaysRow, CompareWeekdays
<1> HIDE DEF row
<1>2. FilteredRow(row, age, gender) = CompareWeekdays(row.series[1], GroupWeekdays(group))
  BY <1>1 DEF FilteredRow
<1>3. /\ FilteredRow(row, age, gender).metric = row.metric
      /\ FilteredRow(row, age, gender).value = row.value
  BY <1>1, <1>2 DEF CompareWeekdays
<1>4. age = "all" /\ gender = "any" => FilteredRow(row, age, gender) = row
  BY <1>1, <1>2
<1>5. QED
  BY <1>3, <1>4 DEF Keeps, row

LEMMA MetricKept ==
    ASSUME NEW data, NEW political, NEW age, NEW gender, NEW C, NEW k, NEW m,
           MetricAt(C, k, data, political, m)
    PROVE  Keeps(C[k], age, gender)
<1> DEFINE row == C[k]
           group == Group(age, gender)
           all == Group("all", "any")
           filtered == FilteredRow(row, age, gender)
<1>1. /\ m \in Range(ProfileMetrics) /\ WithValue(DOMAIN Reference, m) # {}
      /\ row = IF m = "peak_activity_hour" THEN PeakRow(data, political)
               ELSE MetricRow(data, political, m)
  BY DEF MetricAt
<1>2. m # "weekday_active_hours"
  BY <1>1 DEF Range, ProfileMetrics
<1>3. /\ ValuesOf(all, m) = ValuesOf(DOMAIN Reference, m) /\ m \in KnownIn(all)
  BY <1>1, EveryoneLoaded DEF KnownIn
<1>4. row.metric = m
  BY <1>1 DEF PeakRow, ComparePeak, MetricRow, CompareWith
<1>5. CASE m \notin KnownIn(group)
  <2> HIDE DEF row
  <2>1. filtered = row
    BY <1>2, <1>4, <1>5 DEF FilteredRow
  <2>2. QED
    BY <2>1 DEF Keeps, row
<1>6. CASE m \in KnownIn(group) /\ m = "peak_activity_hour"
  <2>1. row = ComparePeak(row.value, ValuesOf(DOMAIN Reference, m), row.series[1], GroupHours(all))
    BY <1>1, <1>6 DEF PeakRow, ComparePeak
  <2> HIDE DEF row
  <2>2. filtered = ComparePeak(row.value, ValuesOf(group, m), row.series[1], GroupHours(group))
    BY <1>2, <1>4, <1>6 DEF FilteredRow
  <2>3. filtered.metric = row.metric /\ filtered.value = row.value
    BY <1>4, <1>6, <2>2 DEF ComparePeak
  <2>4. age = "all" /\ gender = "any" => filtered = row
    BY <1>3, <2>1, <2>2
  <2>5. QED
    BY <2>3, <2>4 DEF Keeps, row
<1>7. CASE m \in KnownIn(group) /\ m # "peak_activity_hour"
  <2>1. row = CompareWith(m, row.value, ValuesOf(DOMAIN Reference, m))
    BY <1>1, <1>7 DEF MetricRow, CompareWith
  <2> HIDE DEF row
  <2>2. filtered = CompareWith(m, row.value, ValuesOf(group, m))
    BY <1>2, <1>4, <1>7 DEF FilteredRow
  <2>3. filtered.metric = row.metric /\ filtered.value = row.value
    BY <1>4, <2>2 DEF CompareWith
  <2>4. age = "all" /\ gender = "any" => filtered = row
    BY <1>3, <2>1, <2>2
  <2>5. QED
    BY <2>3, <2>4 DEF Keeps, row
<1>8. QED
  BY <1>5, <1>6, <1>7

LEMMA FilterKeeps ==
    ASSUME NEW data, NEW political, NEW age, NEW gender
    PROVE  LET C == Comparisons(data, political)
               A == ApplyFilter(C, age, gender)
           IN  /\ DOMAIN A = DOMAIN C
               /\ \A k \in DOMAIN C : A[k].metric = C[k].metric /\ A[k].value = C[k].value
               /\ age = "all" /\ gender = "any" => A = C
               /\ Group(age, gender) = {} => A = C
<1> DEFINE C == Comparisons(data, political)
           A == ApplyFilter(C, age, gender)
<1>1. C = [k \in DOMAIN C |-> C[k]]
  BY RowKinds
<1>2. \A k \in DOMAIN C : Keeps(C[k], age, gender)
  <2>1. \A k \in DOMAIN C : \/ C[k] = WeekdaysRow(data)
                            \/ \E m : MetricAt(C, k, data, political, m)
    BY RowKinds
  <2> HIDE DEF C
  <2>2. QED
    BY <2>1, WeekdaysKept, MetricKept
<1>3. A = IF KnownIn(Group(age, gender)) = {} THEN C
          ELSE [k \in DOMAIN C |-> FilteredRow(C[k], age, gender)]
  BY FilteredAre
<1>4. Group(age, gender) = {} => KnownIn(Group(age, gender)) = {}
  BY DEF KnownIn, WithValue
<1> HIDE DEF C, A
<1>5. CASE KnownIn(Group(age, gender)) = {}
  BY <1>3, <1>5 DEF A, C
<1>6. CASE KnownIn(Group(age, gender)) # {}
  <2>1. A = [k \in DOMAIN C |-> FilteredRow(C[k], age, gender)]
    BY <1>3, <1>6
  <2>2. DOMAIN A = DOMAIN C /\ \A k \in DOMAIN C : A[k] = FilteredRow(C[k], age, gender)
    BY <2>1
  <2>3. \A k \in DOMAIN C : A[k].metric = C[k].metric /\ A[k].value = C[k].value
    BY <1>2, <2>2 DEF Keeps
  <2>4. ASSUME age = "all", gender = "any" PROVE A = C
    <3>1. \A k \in DOMAIN C : FilteredRow(C[k], age, gender) = C[k]
      BY <1>2, <2>4 DEF Keeps
    <3>2. A = [k \in DOMAIN C |-> C[k]]
      BY <2>1, <3>1
    <3>3. QED
      BY <1>1, <3>2
  <2>5. QED
    BY <1>4, <1>6, <2>2, <2>3, <2>4 DEF A, C
<1>7. QED
  BY <1>5, <1>6

-----------------------------------------------------------------------------
(* The row and the page.                                                    *)

\* What is true of the row of a report, whatever the catalogue holds later:
\* its figures fit, and so does every page that will be made of it.
SoundRow(row) ==
    /\ AddsUp(row)
    /\ \A age \in AgeGroups, gender \in Genders : Neutral(Page(row, age, gender))

LEMMA ComputedSound ==
    ASSUME NEW data \in DonationData, catalogue \in Catalogues
    PROVE  SoundRow(Compute(data))
<1> DEFINE row == Compute(data)
           C == Comparisons(data, DOMAIN PartiesOf(data))
<1>1. AddsUp(row)
  BY CountsAdd, TimesAdd, FiguresInOrder, TopInOrder DEF AddsUp
<1>2. row.behaviour_comparisons = C
  BY RowFields
<1>3. ASSUME NEW age \in AgeGroups, NEW gender \in Genders
      PROVE  Neutral(Page(row, age, gender))
  <2> DEFINE page == Page(row, age, gender)
             A == ApplyFilter(C, age, gender)
  <2>1. /\ page.row = row /\ page.age = age /\ page.gender = gender
        /\ page.comparisons = A /\ page.type = UserTypeOf(C)
    <3> HIDE DEF C, row
    <3>1. QED
      BY <1>2 DEF Page
  <2>2. /\ DOMAIN A = DOMAIN C
        /\ \A k \in DOMAIN C : A[k].metric = C[k].metric /\ A[k].value = C[k].value
        /\ age = "all" /\ gender = "any" => A = C
        /\ Group(age, gender) = {} => A = C
    BY FilterKeeps
  <2> HIDE DEF page, row, A, C
  <2>3. Neutral(page)
    BY <1>2, <2>1, <2>2 DEF Neutral
  <2>4. QED
    BY <2>3 DEF page
<1> HIDE DEF row
<1>4. SoundRow(row)
  BY <1>1, <1>3 DEF SoundRow
<1>5. QED
  BY <1>4 DEF row

\* The types, where the donation comes from, and the sound rows.
ReportInvariant ==
    /\ ReportTypeOK
    /\ donated \subseteq Donations
    /\ \A row \in statistics : SoundRow(row)
    /\ FilterNeutral

LEMMA AtMostOne ==
    ASSUME NEW x
    PROVE  Cardinality({}) <= 1 /\ Cardinality({x}) <= 1
<1>1. Cardinality({}) = 0
  BY FS_EmptySet
<1>2. Cardinality({x}) = 1
  BY FS_Singleton
<1>3. QED
  BY <1>1, <1>2

LEMMA UserDataType ==
    ASSUME donated \subseteq Donations
    PROVE  UserDataNow \in DonationData
<1>1. EmptyData \in DonationData
  BY DEF EmptyData, DonationData
<1>2. donated # {} => UserDataNow \in donated
  BY DEF UserDataNow
<1>3. QED
  BY <1>1, <1>2, ReportAssumption DEF UserDataNow

LEMMA ShownSound ==
    ASSUME ReportInvariant, NEW age \in AgeGroups, NEW gender \in Genders,
           ShowReport(age, gender)
    PROVE  ReportInvariant'
<1> DEFINE r == IF statistics = {} THEN Compute(UserDataNow) ELSE CHOOSE x \in statistics : TRUE
<1>1. /\ statistics' = {r} /\ shown' = {Page(r, age, gender)}
      /\ donated' = donated /\ catalogue' = catalogue
  BY DEF ShowReport
<1>2. SoundRow(r)
  <2>1. SoundRow(Compute(UserDataNow))
    BY UserDataType, ComputedSound DEF ReportInvariant, ReportTypeOK
  <2>2. statistics # {} => (CHOOSE x \in statistics : TRUE) \in statistics
    OBVIOUS
  <2>3. QED
    BY <2>1, <2>2 DEF ReportInvariant
<1> HIDE DEF r
<1>3. PICK row : row = r
  OBVIOUS
<1>4. PICK page : page = Page(row, age, gender)
  OBVIOUS
<1>5. statistics' = {row} /\ shown' = {page} /\ SoundRow(row) /\ Neutral(page)
  BY <1>1, <1>2, <1>3, <1>4 DEF SoundRow
<1>6. ReportTypeOK'
  BY <1>1, <1>5, AtMostOne DEF ReportInvariant, ReportTypeOK
<1>7. FilterNeutral'
  BY <1>5 DEF FilterNeutral
<1>8. QED
  BY <1>1, <1>5, <1>6, <1>7 DEF ReportInvariant

LEMMA ReportKept ==
    ASSUME ReportInvariant, [ReportNext]_reportVars
    PROVE  ReportInvariant'
<1> USE DEF ReportInvariant
<1>1. CASE StoreDonation
  <2>1. PICK d \in Donations : donated' = {d}
    BY <1>1 DEF StoreDonation
  <2>2. catalogue' = catalogue /\ statistics' = statistics /\ shown' = shown
    BY <1>1 DEF StoreDonation
  <2>3. ReportTypeOK' /\ FilterNeutral'
    BY <2>1, <2>2, AtMostOne DEF ReportTypeOK, FilterNeutral
  <2>4. QED
    BY <2>1, <2>2, <2>3
<1>2. CASE ImportVideos
  <2>1. /\ catalogue' \in Catalogues
        /\ donated' = donated /\ statistics' = statistics /\ shown' = shown
    BY <1>2 DEF ImportVideos
  <2>2. ReportTypeOK' /\ FilterNeutral'
    BY <2>1 DEF ReportTypeOK, FilterNeutral
  <2>3. QED
    BY <2>1, <2>2
<1>3. CASE ProcessReport
  <2>1. PICK row : statistics' = {row} /\ row = Compute(UserDataNow)
    BY <1>3 DEF ProcessReport
  <2>2. donated' = donated /\ catalogue' = catalogue /\ shown' = shown
    BY <1>3 DEF ProcessReport
  <2>3. SoundRow(row)
    BY <2>1, UserDataType, ComputedSound DEF ReportTypeOK
  <2>4. ReportTypeOK' /\ FilterNeutral'
    BY <2>1, <2>2, AtMostOne DEF ReportTypeOK, FilterNeutral
  <2>5. QED
    BY <2>1, <2>2, <2>3, <2>4
<1>4. CASE OpenReport
  <2>1. "all" \in AgeGroups /\ "any" \in Genders
    BY DEF AgeGroups, Genders
  <2>2. QED
    BY <1>4, <2>1, ShownSound DEF OpenReport
<1>5. CASE FilterReport
  BY <1>5, ShownSound DEF FilterReport
<1>6. CASE UNCHANGED reportVars
  <2>1. ReportTypeOK' /\ FilterNeutral'
    BY <1>6 DEF reportVars, ReportTypeOK, FilterNeutral
  <2>2. QED
    BY <1>6, <2>1 DEF reportVars
<1>7. QED
  BY <1>1, <1>2, <1>3, <1>4, <1>5, <1>6 DEF ReportNext

\* The invariant holds in every state the report reaches, for any donations,
\* catalogues and reference rows of their types: task and page only ever store
\* and show what Compute makes of a donation.
THEOREM ReportInvariantHolds == ReportSpec => []ReportInvariant
<1>1. ReportInit => ReportInvariant
  <2>1. ReportInit => ReportTypeOK
    BY AtMostOne DEF ReportInit, ReportTypeOK
  <2>2. QED
    BY <2>1 DEF ReportInit, ReportInvariant, FilterNeutral
<1>2. ReportInvariant /\ [ReportNext]_reportVars => ReportInvariant'
  BY ReportKept
<1>3. QED
  BY <1>1, <1>2, PTL DEF ReportSpec

\* There is at most one donation, one row and one page, and the catalogue is
\* one of those the database may hold.
THEOREM ReportTyped == ReportSpec => []ReportTypeOK
<1>1. ReportInvariant => ReportTypeOK
  BY DEF ReportInvariant
<1>2. QED
  BY <1>1, ReportInvariantHolds, PTL

\* The figures of every stored report fit each other: the counts of videos by
\* party, by day and by session, the watch time by session, by day and by
\* video, the places among the reference and its quartiles, the top videos.
THEOREM ReportsAddUp == ReportSpec => []ReportAddsUp
<1>1. ReportInvariant => ReportAddsUp
  BY DEF ReportInvariant, ReportAddsUp, SoundRow
<1>2. QED
  BY <1>1, ReportInvariantHolds, PTL

\* A filter of the page narrows the reference and touches nothing else.
THEOREM FiltersNeutral == ReportSpec => []FilterNeutral
<1>1. ReportInvariant => FilterNeutral
  BY DEF ReportInvariant
<1>2. QED
  BY <1>1, ReportInvariantHolds, PTL
=============================================================================

----------------------------- MODULE TelemetryProofs ----------------------------
(***************************************************************************)
(* Proofs about Report, for all windows, gaps and thresholds, whatever the  *)
(* heartbeats bring and however often the rig restarts; and about Charts,   *)
(* for all ages, lengths of buckets and runs of compact_data.               *)
(*                                                                          *)
(* A loop is a fold over the rows.  What a fold computes follows from an    *)
(* induction over the subsets of a finite set (SubsetInduction); from it a  *)
(* sum is the weight of each element (SumFacts), and a loop is a walk: a    *)
(* function of the number of rows, each value one step from the one before  *)
(* (WalkSteps).  For each loop there is an invariant of its walk: Found,    *)
(* Lasting and Longest for the temperatures, Apart for active and idle time *)
(* together, Periods for the uptimes.  The invariant of the states says     *)
(* that rows are in the order of time and which restarts came before each.  *)
(*                                                                          *)
(* For the charts, the invariant of the states says which readings a row    *)
(* stands for (Stands), that each reading is in one row (Store), and that   *)
(* a row is in the bucket of its readings or older than the whole buckets   *)
(* of a chart (Near).                                                       *)
(*                                                                          *)
(* For the statistics, a sorted list is a ranking (Ranking): a percentile   *)
(* grows with its rank because it is read off a rising list (PointGrows),   *)
(* and fewer than half of the values are outliers because no value on the   *)
(* near side of its median is one (MedianAtLeast, NoOutlier).  The slope    *)
(* has the sign of the sum of (t[i] - t[j]) * (y[i] - y[j]), by induction   *)
(* over the rows (AboutAdds, FitAdds).                                      *)
(***************************************************************************)
EXTENDS Report, Charts, FiniteSetTheorems, SequenceTheorems, TLAPS

-----------------------------------------------------------------------------
(***************************************************************************)
(* Folds and sums.                                                         *)
(***************************************************************************)
LEMMA Induction ==
    ASSUME NEW T \in SUBSET Nat, 0 \in T, \A n \in T : n + 1 \in T
    PROVE  T = Nat
  <1> SUFFICES ASSUME NEW n \in Nat PROVE n \in T
    OBVIOUS
  <1> DEFINE U == {k \in 1 .. n : 0 .. k \subseteq T}
             c == Cardinality(U)
  <1>1. IsFiniteSet(1 .. n) /\ U \in SUBSET (1 .. n)
    BY FS_Interval
  <1>2. IsFiniteSet(U) /\ c \in Nat
    BY <1>1, FS_Subset, FS_CardinalityType
  <1>3. ASSUME NEW i \in U PROVE i <= c
    <2>1. i \in Nat /\ 1 .. i \in SUBSET U
      BY <1>3
    <2>2. Cardinality(1 .. i) = i
      BY <2>1, FS_Interval
    <2>3. Cardinality(1 .. i) <= c
      BY <1>2, <2>1, FS_Subset
    <2> QED BY <2>2, <2>3
  <1>4. U = 1 .. c
    <2>1. U \in SUBSET (1 .. c)
      BY <1>2, <1>3
    <2>2. IsFiniteSet(1 .. c) /\ Cardinality(1 .. c) = c
      BY <1>2, FS_Interval
    <2> QED BY <2>1, <2>2, FS_Subset
  <1>5. \A k \in U : k \in 1 .. n /\ 0 .. k \subseteq T
    OBVIOUS
  <1>6. \A k \in 1 .. n : 0 .. k \subseteq T => k \in U
    OBVIOUS
  <1> HIDE DEF U, c
  <1>7. 0 .. c \subseteq T
    <2>1. CASE c = 0
      BY <2>1
    <2>2. CASE c # 0
      <3>1. c \in U
        BY <1>2, <1>4, <2>2
      <3> QED BY <3>1, <1>5
    <2> QED BY <2>1, <2>2
  <1>8. \A k \in 0 .. c + 1 : k \in T
    <2>1. c \in T /\ c + 1 \in T
      BY <1>2, <1>7
    <2> QED BY <1>2, <1>7, <2>1
  <1>9. c + 1 \notin U
    BY <1>2, <1>4
  <1>10. n <= c
    BY <1>2, <1>6, <1>8, <1>9
  <1> QED BY <1>2, <1>7, <1>10

\* g folds the subsets of S: it takes the element ch[s] of s, then the others.
FoldsTo(g, S, base, op, ch) ==
    \A s \in SUBSET S : g[s] = IF s = {} THEN base ELSE op[ch[s]][g[s \ {ch[s]}]]

\* A function that takes one element after the other from a finite set is what
\* its recursive definition says (MapThenFoldSet).
LEMMA FoldExists ==
    ASSUME NEW S, IsFiniteSet(S), NEW base, NEW op, NEW ch,
           \A s \in SUBSET S : s # {} => ch[s] \in s
    PROVE  \E g : FoldsTo(g, S, base, op, ch)
  <1> DEFINE Upto(k) == {s \in SUBSET S : Cardinality(s) <= k}
             Value(g, s) == IF s = {} THEN base ELSE op[ch[s]][g[s \ {ch[s]}]]
             T == {k \in Nat : \E g : g = [s \in Upto(k) |-> Value(g, s)]}
  <1>1. \A s \in SUBSET S : /\ IsFiniteSet(s) /\ Cardinality(s) \in Nat
                            /\ Cardinality(s) <= Cardinality(S)
    BY FS_Subset, FS_CardinalityType
  <1>2. ASSUME NEW s \in SUBSET S, s # {} 
        PROVE  s \ {ch[s]} \in SUBSET S /\ Cardinality(s \ {ch[s]}) = Cardinality(s) - 1
    <2>1. ch[s] \in s /\ IsFiniteSet(s)
      BY <1>1, <1>2
    <2> QED BY <2>1, FS_RemoveElement
  <1>3. 0 \in T
    <2>1. \A s \in Upto(0) : s = {}
      <3> SUFFICES ASSUME NEW s \in Upto(0) PROVE s = {}
        OBVIOUS
      <3>1. Cardinality(s) = 0 /\ IsFiniteSet(s)
        BY <1>1
      <3> QED BY <3>1, FS_EmptySet
    <2> DEFINE g0 == [s \in Upto(0) |-> base]
    <2>2. g0 = [s \in Upto(0) |-> Value(g0, s)]
      BY <2>1
    <2> QED BY <2>2
  <1>4. ASSUME NEW k \in T PROVE k + 1 \in T
    <2>1. PICK g : g = [s \in Upto(k) |-> Value(g, s)]
      BY <1>4
    <2> DEFINE h == [s \in Upto(k + 1) |-> Value(g, s)]
    <2>2. ASSUME NEW s \in Upto(k + 1) PROVE Value(g, s) = Value(h, s)
      <3>1. CASE s = {}
        BY SMTT(30), <3>1
      <3>2. CASE s # {}
        <4> DEFINE t == s \ {ch[s]}
        <4>1. t \in Upto(k) /\ t \in Upto(k + 1)
          BY <1>1, <1>2, <3>2, <1>4
        <4>2. g[t] = Value(g, t) /\ h[t] = Value(g, t)
          <5> HIDE DEF Value, Upto, t
          <5> QED BY <2>1, <4>1
        <4> QED BY <4>2
      <3> QED BY <3>1, <3>2
    <2>3. h = [s \in Upto(k + 1) |-> Value(h, s)]
      <3> HIDE DEF Value, Upto
      <3> QED BY <2>2
    <2>4. k + 1 \in Nat
      BY <1>4
    <2> QED BY <2>3, <2>4
  <1>5. T = Nat
    <2> HIDE DEF T
    <2>1. T \in SUBSET Nat
      BY DEF T
    <2> QED BY <1>3, <1>4, <2>1, Induction
  <1>6. Cardinality(S) \in T
    BY <1>5, FS_CardinalityType
  <1>7. Upto(Cardinality(S)) = SUBSET S
    BY <1>1
  <1>8. PICK g : g = [s \in SUBSET S |-> Value(g, s)]
    <2> HIDE DEF Value, Upto
    <2> QED BY <1>6, <1>7
  <1>9. \A s \in SUBSET S : g[s] = Value(g, s)
    <2> HIDE DEF Value
    <2> QED BY <1>8
  <1> QED BY <1>9 DEF FoldsTo

\* What is left when one element is taken out of a subset.
LEMMA Smaller ==
    ASSUME NEW S, IsFiniteSet(S), NEW s \in SUBSET S, NEW x \in s
    PROVE  /\ Cardinality(s) \in Nat \ {0} /\ s \ {x} \in SUBSET S
           /\ Cardinality(s \ {x}) = Cardinality(s) - 1
  <1>1. IsFiniteSet(s)
    BY FS_Subset
  <1>2. Cardinality(s) \in Nat /\ Cardinality(s) # 0
    BY <1>1, FS_CardinalityType, FS_EmptySet
  <1>3. Cardinality(s \ {x}) = Cardinality(s) - 1
    BY <1>1, FS_RemoveElement
  <1> QED BY <1>2, <1>3

\* A subset without elements is empty.
LEMMA Nothing ==
    ASSUME NEW S, IsFiniteSet(S), NEW s \in SUBSET S, Cardinality(s) <= 0
    PROVE  s = {}
  <1>1. \A x \in s : Cardinality(s) \in Nat \ {0}
    BY Smaller
  <1> QED BY <1>1

\* A set of numbers up to n that is not empty has a largest one.
LEMMA MaxIn ==
    ASSUME NEW n \in Nat, NEW s \in SUBSET (1 .. n), s # {}
    PROVE  Max(s) \in s /\ \A x \in s : x <= Max(s)
  <1> DEFINE T == {k \in Nat : \A r \in SUBSET (1 .. k) :
                                 r # {} => \E m \in r : \A x \in r : m >= x}
  <1>1. 0 \in T
    <2>1. \A r \in SUBSET (1 .. 0) : r = {}
      OBVIOUS
    <2> QED BY <2>1
  <1>2. ASSUME NEW k \in T PROVE k + 1 \in T
    <2> SUFFICES ASSUME NEW r \in SUBSET (1 .. k + 1), r # {}
                 PROVE  \E m \in r : \A x \in r : m >= x
      BY <1>2
    <2>1. CASE k + 1 \in r
      BY <2>1, <1>2
    <2>2. CASE k + 1 \notin r
      <3>1. r \in SUBSET (1 .. k)
        BY <2>2, <1>2
      <3> QED BY <3>1, <1>2
    <2> QED BY <2>1, <2>2
  <1>3. T = Nat
    <2>1. T \in SUBSET Nat
      OBVIOUS
    <2> HIDE DEF T
    <2> QED BY <1>1, <1>2, <2>1, Induction
  <1>4. n \in T
    <2> HIDE DEF T
    <2> QED BY <1>3
  <1>5. PICK m \in s : \A x \in s : m >= x
    BY <1>4
  <1>6. Max(s) \in s /\ \A x \in s : Max(s) >= x
    BY <1>5 DEF Max
  <1>7. \A x \in s : x \in Nat
    OBVIOUS
  <1> QED BY <1>6, <1>7

-----------------------------------------------------------------------------
\* The element a sum takes first, and what a sum makes of the subsets of S.
Taken(s) == CHOOSE x \in s : TRUE
Adds(g, S, w) == g = [s \in SUBSET S |->
                        IF s = {} THEN 0 ELSE w[Taken(s)] + g[s \ {Taken(s)}]]

SumOf(w, S) == MapThenSumSet(LAMBDA x : w[x], S)

Weights(w, S) == IsFiniteSet(S) /\ \A x \in S : w[x] \in Nat

\* What holds of a set if it holds of it without any one of its elements, holds
\* of every subset of a finite set.
LEMMA SubsetInduction ==
    ASSUME NEW S, IsFiniteSet(S), NEW P, P \subseteq SUBSET S,
           \A s \in SUBSET S : (\A x \in s : s \ {x} \in P) => s \in P
    PROVE  P = SUBSET S
  <1> DEFINE T == {k \in Nat : \A s \in SUBSET S : Cardinality(s) <= k => s \in P}
  <1>1. 0 \in T
    <2>1. \A s \in SUBSET S : Cardinality(s) <= 0 => s = {}
      BY Nothing
    <2>2. {} \in P
      OBVIOUS
    <2> QED BY <2>1, <2>2
  <1>2. ASSUME NEW k \in T PROVE k + 1 \in T
    <2> SUFFICES ASSUME NEW s \in SUBSET S, Cardinality(s) <= k + 1 PROVE s \in P
      BY <1>2
    <2>1. ASSUME NEW x \in s PROVE s \ {x} \in P
      <3>1. s \ {x} \in SUBSET S /\ Cardinality(s \ {x}) <= k
        BY <1>2, Smaller
      <3> QED BY <1>2, <3>1
    <2> QED BY <2>1
  <1>3. T = Nat
    <2>1. T \in SUBSET Nat
      OBVIOUS
    <2> HIDE DEF T
    <2> QED BY <1>1, <1>2, <2>1, Induction
  <1> SUFFICES ASSUME NEW s \in SUBSET S PROVE s \in P
    OBVIOUS
  <1>4. Cardinality(s) \in Nat
    BY FS_Subset, FS_CardinalityType
  <1>5. Cardinality(s) \in T
    <2> HIDE DEF T
    <2> QED BY <1>3, <1>4
  <1> QED BY <1>4, <1>5

\* There is such a function, and its values are natural numbers.
LEMMA AddsExists ==
    ASSUME NEW S, NEW w, Weights(w, S)
    PROVE  \E g : Adds(g, S, w) /\ \A s \in SUBSET S : g[s] \in Nat
  <1> DEFINE ch == [s \in SUBSET S |-> Taken(s)]
             op == [x \in S |-> [v \in Nat |-> w[x] + v]]
  <1>1. \A s \in SUBSET S : s # {} => ch[s] \in s /\ Taken(s) \in s /\ ch[s] = Taken(s)
    BY DEF Taken
  <1>2. PICK g0 : FoldsTo(g0, S, 0, op, ch)
    <2>1. \A s \in SUBSET S : s # {} => ch[s] \in s
      BY <1>1
    <2>2. IsFiniteSet(S)
      BY DEF Weights
    <2> HIDE DEF ch, op
    <2> QED BY <2>1, <2>2, FoldExists
  <1> DEFINE g == [s \in SUBSET S |-> g0[s]]
             P == {s \in SUBSET S : g[s] \in Nat}
  <1>3. \A s \in SUBSET S : g[s] = IF s = {} THEN 0 ELSE op[ch[s]][g[s \ {ch[s]}]]
    <2> HIDE DEF ch, op
    <2>1. \A s \in SUBSET S : s \ {ch[s]} \in SUBSET S
      OBVIOUS
    <2> QED BY <1>2, <2>1 DEF FoldsTo
  <1>4. g = [s \in SUBSET S |-> g[s]]
    OBVIOUS
  <1> HIDE DEF g
  <1>5. ASSUME NEW s \in SUBSET S, s # {}, g[s \ {Taken(s)}] \in Nat
        PROVE  g[s] = w[Taken(s)] + g[s \ {Taken(s)}] /\ g[s] \in Nat
    <2>1. Taken(s) \in S /\ ch[s] = Taken(s) /\ w[Taken(s)] \in Nat
      BY <1>1, <1>5 DEF Weights
    <2>2. g[s] = op[ch[s]][g[s \ {ch[s]}]]
      <3> HIDE DEF ch, op
      <3> QED BY <1>3, <1>5
    <2>3. op[Taken(s)][g[s \ {Taken(s)}]] = w[Taken(s)] + g[s \ {Taken(s)}]
      BY <1>5, <2>1
    <2> QED BY <1>5, <2>1, <2>2, <2>3
  <1>6. g[{}] = 0
    <2> HIDE DEF ch, op
    <2> QED BY <1>3
  <1> HIDE DEF ch, op
  <1>7. P = SUBSET S
    <2>1. ASSUME NEW s \in SUBSET S, \A x \in s : s \ {x} \in P PROVE s \in P
      <3>1. CASE s = {}
        BY <3>1, <1>6
      <3>2. CASE s # {}
        BY <2>1, <3>2, <1>1, <1>5
      <3> QED BY <3>1, <3>2
    <2>3. IsFiniteSet(S) /\ P \subseteq SUBSET S
      BY DEF Weights
    <2> HIDE DEF P
    <2> QED BY <2>1, <2>3, SubsetInduction
  <1>8. \A s \in SUBSET S : g[s] \in Nat
    BY <1>7
  <1>9. \A s \in SUBSET S : g[s] = IF s = {} THEN 0 ELSE w[Taken(s)] + g[s \ {Taken(s)}]
    <2> SUFFICES ASSUME NEW s \in SUBSET S, s # {}
                 PROVE  g[s] = w[Taken(s)] + g[s \ {Taken(s)}]
      BY <1>6
    <2>1. s \ {Taken(s)} \in SUBSET S
      OBVIOUS
    <2> QED BY <2>1, <1>5, <1>8
  <1>10. Adds(g, S, w)
    BY <1>4, <1>9 DEF Adds
  <1> QED BY <1>8, <1>10

\* Two such functions agree where their weights do.
LEMMA AddsAgree ==
    ASSUME NEW S, IsFiniteSet(S), NEW R \in SUBSET S, NEW w, NEW v,
           NEW g, Adds(g, S, w), NEW h, Adds(h, R, v),
           \A x \in R : w[x] = v[x]
    PROVE  \A s \in SUBSET R : g[s] = h[s]
  <1> DEFINE P == {s \in SUBSET R : g[s] = h[s]}
  <1>1. P = SUBSET R
    <2>1. ASSUME NEW s \in SUBSET R, \A x \in s : s \ {x} \in P PROVE s \in P
      <3>1. CASE s = {}
        BY <3>1 DEF Adds
      <3>2. CASE s # {}
        <4>1. Taken(s) \in s /\ s \in SUBSET S
          BY <3>2 DEF Taken
        <4>2. w[Taken(s)] = v[Taken(s)] /\ g[s \ {Taken(s)}] = h[s \ {Taken(s)}]
          BY <2>1, <4>1
        <4>3. g[s] = w[Taken(s)] + g[s \ {Taken(s)}] /\ h[s] = v[Taken(s)] + h[s \ {Taken(s)}]
          BY <3>2, <4>1 DEF Adds
        <4>4. g[s] = h[s]
          BY <4>2, <4>3
        <4> QED BY <4>4
      <3> QED BY <3>1, <3>2
    <2>3. IsFiniteSet(R) /\ P \subseteq SUBSET R
      BY FS_Subset
    <2> HIDE DEF P
    <2> QED BY <2>1, <2>3, SubsetInduction
  <1> QED BY <1>1

\* The value of a sum.
LEMMA SumIs ==
    ASSUME NEW S, NEW w, Weights(w, S)
    PROVE  \E g : /\ Adds(g, S, w) /\ SumOf(w, S) = g[S]
                  /\ \A s \in SUBSET S : g[s] \in Nat
  <1> DEFINE z == CHOOSE g : g = [s \in SUBSET S |->
                        IF s = {} THEN 0 ELSE w[Taken(s)] + g[s \ {Taken(s)}]]
  <1>1. SumOf(w, S) = z[S]
    BY DEF SumOf, MapThenSumSet, MapThenFoldSet, Taken
  <1>2. PICK g : Adds(g, S, w) /\ \A s \in SUBSET S : g[s] \in Nat
    BY AddsExists
  <1>3. Adds(z, S, w)
    BY <1>2 DEF Adds
  <1> HIDE DEF z
  <1>4. \A s \in SUBSET S : z[s] = g[s]
    BY <1>2, <1>3, AddsAgree DEF Weights
  <1> QED BY <1>1, <1>2, <1>3, <1>4

\* A sum is a natural number, to which each element adds its own.
LEMMA SumFacts ==
    ASSUME NEW S, NEW w, Weights(w, S)
    PROVE  /\ SumOf(w, S) \in Nat /\ SumOf(w, {}) = 0
           /\ \A x \in S : SumOf(w, S) = w[x] + SumOf(w, S \ {x})
  <1>1. PICK g : /\ Adds(g, S, w) /\ SumOf(w, S) = g[S]
                 /\ \A s \in SUBSET S : g[s] \in Nat
    BY SumIs
  <1>2. \A R \in SUBSET S : SumOf(w, R) = g[R]
    <2> SUFFICES ASSUME NEW R \in SUBSET S PROVE SumOf(w, R) = g[R]
      OBVIOUS
    <2>1. Weights(w, R)
      BY FS_Subset DEF Weights
    <2>2. PICK h : Adds(h, R, w) /\ SumOf(w, R) = h[R]
      BY <2>1, SumIs
    <2>3. IsFiniteSet(S)
      BY DEF Weights
    <2> QED BY <1>1, <2>2, <2>3, AddsAgree
  <1>3. SumOf(w, {}) = 0
    BY <1>1, <1>2 DEF Adds
  <1> DEFINE P == {s \in SUBSET S : \A x \in s : g[s] = w[x] + g[s \ {x}]}
  <1>4. P = SUBSET S
    <2>1. ASSUME NEW s \in SUBSET S, \A x \in s : s \ {x} \in P, NEW x \in s
          PROVE  g[s] = w[x] + g[s \ {x}]
      <3> DEFINE y == Taken(s)
      <3>1. y \in s
        BY DEF Taken
      <3>2. g[s] = w[y] + g[s \ {y}]
        BY <1>1 DEF Adds
      <3> HIDE DEF y
      <3>3. CASE x = y
        BY <3>2, <3>3
      <3>4. CASE x # y
        <4> DEFINE sxy == (s \ {x}) \ {y}
        <4>1. g[s \ {y}] = w[x] + g[(s \ {y}) \ {x}]
          BY <2>1, <3>1, <3>4
        <4>2. g[s \ {x}] = w[y] + g[sxy]
          BY <2>1, <3>1, <3>4
        <4>3. (s \ {y}) \ {x} = sxy /\ sxy \in SUBSET S
          OBVIOUS
        <4>4. g[sxy] \in Nat /\ w[x] \in Nat /\ w[y] \in Nat
          BY <1>1, <3>1, <4>3 DEF Weights
        <4>5. g[s \ {y}] = w[x] + g[sxy]
          BY <4>1, <4>3
        <4> HIDE DEF sxy
        <4> QED BY <3>2, <4>2, <4>4, <4>5
      <3> QED BY <3>3, <3>4
    <2>2. \A s \in SUBSET S : (\A x \in s : s \ {x} \in P) => s \in P
      BY <2>1
    <2>3. IsFiniteSet(S) /\ P \subseteq SUBSET S
      BY DEF Weights
    <2> HIDE DEF P
    <2> QED BY <2>2, <2>3, SubsetInduction
  <1>5. \A x \in S : SumOf(w, S) = w[x] + SumOf(w, S \ {x})
    BY <1>1, <1>2, <1>4
  <1> QED BY <1>1, <1>3, <1>5

\* A sum of more elements with greater weights is not smaller.
LEMMA SumGrows ==
    ASSUME NEW S, NEW R \in SUBSET S, NEW w, NEW v, Weights(v, S),
           \A x \in R : w[x] \in Nat /\ w[x] <= v[x]
    PROVE  SumOf(w, R) <= SumOf(v, S)
  <1> DEFINE P == {s \in SUBSET S : SumOf(w, s \cap R) <= SumOf(v, s)}
  <1>1. \A s \in SUBSET S : Weights(v, s) /\ Weights(w, s \cap R)
    BY FS_Subset DEF Weights
  <1>2. P = SUBSET S
    <2>1. ASSUME NEW s \in SUBSET S, \A x \in s : s \ {x} \in P PROVE s \in P
      <3>1. CASE s = {}
        <4>1. SumOf(w, {}) = 0 /\ SumOf(v, {}) = 0 /\ s \cap R = {}
          BY <1>1, <3>1, SumFacts
        <4> QED BY <3>1, <4>1
      <3>2. CASE s # {}
        <4>1. PICK x \in s : TRUE
          BY <3>2
        <4> DEFINE t == s \ {x}
        <4>2. t \in SUBSET S /\ SumOf(w, t \cap R) <= SumOf(v, t)
          BY <2>1, <4>1
        <4>3. SumOf(v, s) = v[x] + SumOf(v, t)
          BY <1>1, <4>1, SumFacts
        <4>4. SumOf(v, t) \in Nat /\ SumOf(w, t \cap R) \in Nat /\ v[x] \in Nat
          BY <1>1, <4>1, <4>2, SumFacts DEF Weights
        <4>5. CASE x \in R
          <5>1. SumOf(w, s \cap R) = w[x] + SumOf(w, (s \cap R) \ {x})
            BY <1>1, <4>1, <4>5, SumFacts
          <5>2. (s \cap R) \ {x} = t \cap R /\ w[x] \in Nat /\ w[x] <= v[x]
            BY <4>5
          <5>3. SumOf(w, s \cap R) = w[x] + SumOf(w, t \cap R)
            BY <5>1, <5>2
          <5> HIDE DEF t
          <5>4. SumOf(w, s \cap R) <= SumOf(v, s)
            BY <4>2, <4>3, <4>4, <5>2, <5>3
          <5> QED BY <5>4
        <4>6. CASE x \notin R
          <5>1. s \cap R = t \cap R
            BY <4>6
          <5> HIDE DEF t
          <5>2. SumOf(w, s \cap R) <= SumOf(v, s)
            BY <4>2, <4>3, <4>4, <5>1
          <5> QED BY <5>2
        <4> QED BY <4>5, <4>6
      <3> QED BY <3>1, <3>2
    <2>2. IsFiniteSet(S) /\ P \subseteq SUBSET S
      BY DEF Weights
    <2> HIDE DEF P
    <2> QED BY <2>1, <2>2, SubsetInduction
  <1>3. S \cap R = R
    OBVIOUS
  <1> QED BY <1>2, <1>3

-----------------------------------------------------------------------------
\* What a fold from the first of n steps to the last makes of the subsets of
\* its steps: the last of them is the one with the greatest number.
Walks(g, n, base, st) ==
    g = [s \in SUBSET (1 .. n) |-> IF s = {} THEN base ELSE st[Max(s)][g[s \ {Max(s)}]]]

LEMMA MaxUpto ==
    ASSUME NEW k \in Nat \ {0}
    PROVE  Max(1 .. k) = k /\ (1 .. k) \ {k} = 1 .. k - 1
  <1> DEFINE s == 1 .. k
  <1>1. s \in SUBSET (1 .. k) /\ s # {} /\ k \in s
    OBVIOUS
  <1>2. Max(s) \in s /\ \A x \in s : x <= Max(s)
    <2> HIDE DEF s
    <2> QED BY <1>1, MaxIn
  <1>3. Max(1 .. k) \in 1 .. k /\ k <= Max(1 .. k)
    BY <1>1, <1>2
  <1> QED BY <1>3

\* The steps stay in V; z makes them as long as its values are in V; the values
\* of f are what one step makes of the value before.
Within(st, n, V) == \A i \in 1 .. n : \A v \in V : st[i][v] \in V

Makes(z, st, n, base, V) ==
    /\ z[{}] = base
    /\ \A s \in SUBSET (1 .. n) : s # {} /\ z[s \ {Max(s)}] \in V
         => z[s] = st[Max(s)][z[s \ {Max(s)}]]

Walk(f, st, n, base, V) ==
    /\ f[0] = base
    /\ \A k \in 0 .. n : f[k] \in V
    /\ \A k \in 1 .. n : f[k] = st[k][f[k - 1]]

\* There is such a function, and each of its values is the next one of a walk.
LEMMA WalkExists ==
    ASSUME NEW n \in Nat, NEW V, NEW base \in V, NEW st,
           Within(st, n, V)
    PROVE  \E g : Walks(g, n, base, st) /\ \A s \in SUBSET (1 .. n) : g[s] \in V
  <1> USE DEF Within
  <1> DEFINE S == 1 .. n
             ch == [s \in SUBSET S |-> Max(s)]
  <1>1. IsFiniteSet(S)
    BY FS_Interval
  <1>2. \A s \in SUBSET S : s # {} => Max(s) \in s /\ ch[s] = Max(s)
    BY MaxIn
  <1>3. PICK g0 : FoldsTo(g0, S, base, st, ch)
    <2>1. \A s \in SUBSET S : s # {} => ch[s] \in s
      BY <1>2
    <2> HIDE DEF ch, S
    <2> QED BY <1>1, <2>1, FoldExists
  <1> DEFINE g == [s \in SUBSET S |-> g0[s]]
             P == {s \in SUBSET S : g[s] \in V}
  <1>4. \A s \in SUBSET S : g[s] = IF s = {} THEN base ELSE st[Max(s)][g[s \ {Max(s)}]]
    <2> SUFFICES ASSUME NEW s \in SUBSET S
                 PROVE  g[s] = IF s = {} THEN base ELSE st[Max(s)][g[s \ {Max(s)}]]
      OBVIOUS
    <2>1. g0[s] = IF s = {} THEN base ELSE st[ch[s]][g0[s \ {ch[s]}]]
      <3> HIDE DEF ch, S
      <3> QED BY <1>3 DEF FoldsTo
    <2>2. s # {} => ch[s] = Max(s) /\ s \ {Max(s)} \in SUBSET S
      BY <1>2
    <2> HIDE DEF ch, S
    <2> QED BY <2>1, <2>2
  <1>5. g = [s \in SUBSET S |-> g[s]]
    OBVIOUS
  <1> HIDE DEF g
  <1>6. P = SUBSET S
    <2>1. ASSUME NEW s \in SUBSET S, \A x \in s : s \ {x} \in P PROVE s \in P
      <3>1. CASE s = {}
        BY <3>1, <1>4
      <3>2. CASE s # {}
        <4>1. Max(s) \in S /\ g[s \ {Max(s)}] \in V
          BY <1>2, <2>1, <3>2
        <4> QED BY <1>4, <3>2, <4>1
      <3> QED BY <3>1, <3>2
    <2>2. \A s \in SUBSET S : (\A x \in s : s \ {x} \in P) => s \in P
      BY <2>1
    <2>3. P \subseteq SUBSET S
      OBVIOUS
    <2> HIDE DEF P, S
    <2> QED BY <1>1, <2>2, <2>3, SubsetInduction
  <1>7. Walks(g, n, base, st)
    BY <1>4, <1>5 DEF Walks
  <1> QED BY <1>6, <1>7

\* So a fold makes one step after the other.
LEMMA WalkSteps ==
    ASSUME NEW n \in Nat, NEW V, NEW base \in V, NEW st, Within(st, n, V),
           NEW z, Makes(z, st, n, base, V)
    PROVE  \E f : Walk(f, st, n, base, V) /\ f[n] = z[1 .. n]
  <1> USE DEF Within, Makes
  <1> DEFINE S == 1 .. n
             P == {s \in SUBSET S : z[s] \in V}
             f == [k \in 0 .. n |-> z[1 .. k]]
  <1>1. IsFiniteSet(S)
    BY FS_Interval
  <1>2. P = SUBSET S
    <2>1. ASSUME NEW s \in SUBSET S, \A x \in s : s \ {x} \in P PROVE s \in P
      <3>1. CASE s = {}
        BY <3>1
      <3>2. CASE s # {}
        <4>1. Max(s) \in s
          BY <3>2, MaxIn
        <4>2. Max(s) \in S /\ z[s \ {Max(s)}] \in V
          BY <2>1, <4>1
        <4> QED BY <3>2, <4>2
      <3> QED BY <3>1, <3>2
    <2>2. \A s \in SUBSET S : (\A x \in s : s \ {x} \in P) => s \in P
      BY <2>1
    <2>3. P \subseteq SUBSET S
      OBVIOUS
    <2> HIDE DEF P, S
    <2> QED BY <1>1, <2>2, <2>3, SubsetInduction
  <1>3. \A k \in 0 .. n : 1 .. k \in SUBSET S /\ f[k] = z[1 .. k] /\ f[k] \in V
    BY <1>2
  <1>4. f[0] = base
    <2>1. 1 .. 0 = {} /\ 0 \in 0 .. n
      OBVIOUS
    <2> QED BY <1>3, <2>1
  <1>5. ASSUME NEW k \in 1 .. n PROVE f[k] = st[k][f[k - 1]]
    <2>1. k \in Nat \ {0} /\ k \in 0 .. n /\ k - 1 \in 0 .. n /\ 1 .. k # {}
      OBVIOUS
    <2>2. Max(1 .. k) = k /\ (1 .. k) \ {k} = 1 .. k - 1
      BY <2>1, MaxUpto
    <2>3. 1 .. k \in SUBSET (1 .. n) /\ z[1 .. k - 1] \in V
          /\ f[k] = z[1 .. k] /\ f[k - 1] = z[1 .. k - 1]
      BY <1>3, <2>1
    <2> HIDE DEF f, S
    <2>4. z[1 .. k] = st[Max(1 .. k)][z[(1 .. k) \ {Max(1 .. k)}]]
      BY <2>1, <2>2, <2>3
    <2> QED BY <2>2, <2>3, <2>4
  <1>6. n \in 0 .. n
    OBVIOUS
  <1> HIDE DEF f
  <1>7. f[n] = z[1 .. n] /\ Walk(f, st, n, base, V)
    BY <1>3, <1>4, <1>5, <1>6 DEF Walk
  <1> QED BY <1>7

-----------------------------------------------------------------------------
(***************************************************************************)
(* The rows of the report, and the walks of its loops.                     *)
(***************************************************************************)
GpuRow  == [at : Nat, temp : Nat \cup {None}, util : 0 .. 100 \cup {None}, power : Nat \cup {None}]
SnapRow == [at : Nat, job : {0, 1, None}, uptime : Nat \cup {None}]

InOrder(rows) == \A i, j \in 1 .. Len(rows) : i < j => rows[i].at < rows[j].at

\* The state of the loop over the temperatures.
Exceeding == [events : Nat, observed : Nat, exceeded : Nat, current : Nat, longest : Nat,
              above : BOOLEAN]
AtFirst   == [events |-> 0, observed |-> 0, exceeded |-> 0, current |-> 0, longest |-> 0,
              above |-> FALSE]

LEMMA GapFacts ==
    ASSUME NEW rows \in Seq(GpuRow), InOrder(rows), NEW i \in 1 .. Len(rows) - 1
    PROVE  Gap(rows, i) \in Nat \ {0} /\ rows[i + 1].at = rows[i].at + Gap(rows, i)
  <1>1. i \in 1 .. Len(rows) /\ i + 1 \in 1 .. Len(rows) /\ i < i + 1
    BY LenProperties
  <1>2. rows[i] \in GpuRow /\ rows[i + 1] \in GpuRow
    BY <1>1, ElementOfSeq
  <1>3. rows[i].at < rows[i + 1].at /\ rows[i].at \in Nat /\ rows[i + 1].at \in Nat
    BY <1>1, <1>2 DEF InOrder, GpuRow
  <1> QED BY <1>3 DEF Gap

LEMMA MaxOfTwo ==
    ASSUME NEW a \in Nat, NEW b \in Nat
    PROVE  Max({a, b}) = IF a >= b THEN a ELSE b
  BY DEF Max

LEMMA ExceedanceType ==
    ASSUME NEW rows \in Seq(GpuRow), InOrder(rows), NEW i \in 1 .. Len(rows), NEW s \in Exceeding
    PROVE  ExceedanceStep(rows, s, i) \in Exceeding
  <1> DEFINE span == IF Joined(rows, i) THEN Gap(rows, i) ELSE 0
             hot  == IF Hot(rows[i]) THEN span ELSE 0
  <1>1. span \in Nat /\ hot \in Nat
    BY GapFacts DEF Joined
  <1>2. \A e \in Nat : Max({s.longest, e}) \in Nat
    BY MaxOfTwo DEF Exceeding
  <1>3. Hot(rows[i]) \in BOOLEAN
    BY DEF Hot
  <1>4. CASE rows[i].temp = None
    BY <1>4 DEF ExceedanceStep, Exceeding
  <1>5. CASE rows[i].temp # None
    <2> DEFINE broken == i > 1 /\ ~Joined(rows, i - 1)
               starts == Hot(rows[i]) /\ (broken \/ ~s.above)
               event  == (IF starts \/ broken THEN 0 ELSE s.current) + hot
    <2>1. event \in Nat /\ s.events + (IF starts THEN 1 ELSE 0) \in Nat
          /\ s.observed + span \in Nat /\ s.exceeded + hot \in Nat
      <3>1. s.events \in Nat /\ s.observed \in Nat /\ s.exceeded \in Nat /\ s.current \in Nat
        BY DEF Exceeding
      <3> HIDE DEF broken, starts, span, hot
      <3> QED BY SMTT(30), <1>1, <3>1
    <2>2. ExceedanceStep(rows, s, i) =
            [events   |-> s.events + (IF starts THEN 1 ELSE 0),
             observed |-> s.observed + span,
             exceeded |-> s.exceeded + hot,
             current  |-> event,
             longest  |-> Max({s.longest, event}),
             above    |-> Hot(rows[i])]
      BY <1>5 DEF ExceedanceStep
    <2> HIDE DEF broken, starts, event, span, hot
    <2> QED BY <1>2, <1>3, <2>1, <2>2 DEF Exceeding
  <1> QED BY <1>4, <1>5

LEMMA ExceedanceWalk ==
    ASSUME NEW rows \in Seq(GpuRow), InOrder(rows)
    PROVE  \E f : /\ f[0] = AtFirst /\ Exceedance(rows) = f[Len(rows)]
                  /\ \A k \in 1 .. Len(rows) : f[k] = ExceedanceStep(rows, f[k - 1], k)
                  /\ \A k \in 0 .. Len(rows) : f[k] \in Exceeding
  <1> DEFINE n == Len(rows)
             st == [i \in 1 .. n |-> [v \in Exceeding |-> ExceedanceStep(rows, v, i)]]
             idx == [i \in DOMAIN rows |-> i]
             Is(h) == h = [s \in SUBSET (DOMAIN idx) |->
                             IF s = {} THEN AtFirst
                             ELSE ExceedanceStep(rows, h[s \ {Max(s)}], idx[Max(s)])]
             z == CHOOSE h : Is(h)
  <1>1. n \in Nat /\ DOMAIN rows = 1 .. n
    BY LenProperties
  <1>2. AtFirst \in Exceeding
    BY DEF AtFirst, Exceeding
  <1>3. Exceedance(rows) = z[DOMAIN idx]
    BY DEF Exceedance, FoldLeftDomain, FoldLeft, MapThenFoldSet, AtFirst
  <1>4. \A i \in 1 .. n : \A v \in Exceeding :
          st[i][v] = ExceedanceStep(rows, v, i) /\ st[i][v] \in Exceeding
    BY ExceedanceType
  <1> HIDE DEF st
  <1>5. Within(st, n, Exceeding)
    BY <1>4 DEF Within
  <1>6. PICK g : /\ Walks(g, n, AtFirst, st)
                 /\ \A s \in SUBSET (1 .. n) : g[s] \in Exceeding
    BY <1>1, <1>2, <1>5, WalkExists
  <1>7. DOMAIN idx = 1 .. n /\ \A i \in 1 .. n : idx[i] = i
    BY <1>1
  <1> HIDE DEF idx
  <1>8. \A s \in SUBSET (1 .. n) : s # {} =>
          Max(s) \in 1 .. n /\ idx[Max(s)] = Max(s) /\ s \ {Max(s)} \in SUBSET (1 .. n)
    BY <1>1, <1>7, MaxIn
  <1>9. Is(g)
    <2>1. ASSUME NEW s \in SUBSET (1 .. n), s # {}
          PROVE  g[s] = ExceedanceStep(rows, g[s \ {Max(s)}], idx[Max(s)])
      <3>1. g[s] = st[Max(s)][g[s \ {Max(s)}]]
        BY <1>6, <2>1 DEF Walks
      <3> QED BY <1>4, <1>6, <1>8, <2>1, <3>1
    <2>2. g[{}] = AtFirst /\ g = [s \in SUBSET (1 .. n) |-> g[s]]
      BY <1>6 DEF Walks
    <2> QED BY <1>7, <2>1, <2>2
  <1>10. Is(z)
    <2> HIDE DEF Is
    <2> QED BY <1>9
  <1> HIDE DEF z
  <1>11. Makes(z, st, n, AtFirst, Exceeding)
    <2>1. z[{}] = AtFirst
      BY <1>10
    <2>2. ASSUME NEW s \in SUBSET (1 .. n), s # {}, z[s \ {Max(s)}] \in Exceeding
          PROVE  z[s] = st[Max(s)][z[s \ {Max(s)}]]
      <3>1. z[s] = ExceedanceStep(rows, z[s \ {Max(s)}], idx[Max(s)])
        BY <1>7, <1>10, <2>2
      <3> QED BY <1>4, <1>8, <2>2, <3>1
    <2> QED BY <2>1, <2>2 DEF Makes
  <1> HIDE DEF Is, n
  <1>12. PICK f : Walk(f, st, n, AtFirst, Exceeding) /\ f[n] = z[1 .. n]
    BY <1>1, <1>2, <1>5, <1>11, WalkSteps
  <1>13. Exceedance(rows) = f[n]
    BY <1>3, <1>7, <1>12
  <1>14. \A k \in 1 .. n : k \in 0 .. n /\ k - 1 \in 0 .. n
    BY <1>1
  <1> QED BY <1>4, <1>12, <1>13, <1>14 DEF n, Walk

-----------------------------------------------------------------------------
(***************************************************************************)
(* The loop over the temperatures.                                         *)
(***************************************************************************)

\* A hot row with which an event begins; the hot rows from a to b.
Begins(rows, i) == Hot(rows[i]) /\ (i = 1 \/ ~Hot(rows[i - 1]) \/ ~Joined(rows, i - 1))
Chain(rows, a, b) == \A k \in a .. b - 1 : Hot(rows[k]) /\ Joined(rows, k)

Beginnings(rows, k) == {i \in 1 .. k : Begins(rows, i)}
HotGaps(rows, k)    == {i \in 1 .. k : Hot(rows[i]) /\ Joined(rows, i)}
GapsOf(rows)        == [i \in 1 .. Len(rows) - 1 |-> Gap(rows, i)]

\* What the loop knows after k rows: the events that have begun, how long the one
\* it is in lasts to the row after, and how long the longest did.
Found(rows, k, s) ==
    /\ s.events = Cardinality(Beginnings(rows, k))
    /\ s.exceeded = SumOf(GapsOf(rows), HotGaps(rows, k))
    /\ s.above <=> k > 0 /\ Hot(rows[k])

Lasting(rows, k, s) ==
    /\ s.current <= s.longest
    /\ k > 0 /\ Hot(rows[k]) /\ Joined(rows, k) =>
         \E a \in 1 .. k : Chain(rows, a, k + 1) /\ s.current = rows[k + 1].at - rows[a].at
    /\ \A a \in 1 .. k : Chain(rows, a, k + 1) => s.current >= rows[k + 1].at - rows[a].at

Longest(rows, k, s) ==
    /\ \A b \in 1 .. k + 1 : \A a \in 1 .. b - 1 :
         Chain(rows, a, b) => s.longest >= rows[b].at - rows[a].at
    /\ \/ s.longest = 0
       \/ \E b \in 1 .. Len(rows) : \E a \in 1 .. b :
            Chain(rows, a, b) /\ s.longest = rows[b].at - rows[a].at

LEMMA HotGapsFacts ==
    ASSUME NEW rows \in Seq(GpuRow), InOrder(rows), NEW k \in 0 .. Len(rows)
    PROVE  Weights(GapsOf(rows), HotGaps(rows, k)) /\ IsFiniteSet(Beginnings(rows, k))
  <1>1. IsFiniteSet(1 .. k)
    BY FS_Interval, LenProperties
  <1>2. \A i \in HotGaps(rows, k) : i \in 1 .. Len(rows) - 1
    BY DEF HotGaps, Joined
  <1>3. IsFiniteSet(HotGaps(rows, k)) /\ IsFiniteSet(Beginnings(rows, k))
    BY <1>1, FS_Subset DEF HotGaps, Beginnings
  <1>4. \A i \in 1 .. Len(rows) - 1 : GapsOf(rows)[i] = Gap(rows, i) /\ Gap(rows, i) \in Nat
    BY GapFacts DEF GapsOf
  <1> QED BY <1>2, <1>3, <1>4 DEF Weights

\* A row that is no part of an event, or the last one of it.
LEMMA FoundStep ==
    ASSUME NEW rows \in Seq(GpuRow), InOrder(rows), NEW k \in 1 .. Len(rows),
           NEW s \in Exceeding, Found(rows, k - 1, s)
    PROVE  Found(rows, k, ExceedanceStep(rows, s, k))
  <1> DEFINE t == ExceedanceStep(rows, s, k)
             broken == k > 1 /\ ~Joined(rows, k - 1)
             starts == Hot(rows[k]) /\ (broken \/ ~s.above)
             hot == IF Hot(rows[k]) THEN IF Joined(rows, k) THEN Gap(rows, k) ELSE 0 ELSE 0
  <1>1. k \in Nat \ {0} /\ k - 1 \in 0 .. Len(rows) /\ k \in 0 .. Len(rows) /\ k - 1 \in Nat
    BY LenProperties
  <1>2. /\ t.events = s.events + (IF starts THEN 1 ELSE 0)
        /\ t.exceeded = s.exceeded + hot
        /\ t.above <=> Hot(rows[k])
    <2>1. CASE rows[k].temp = None
      <3>1. t = [s EXCEPT !.above = FALSE, !.current = 0] /\ ~Hot(rows[k])
        BY <2>1 DEF ExceedanceStep, Hot
      <3>2. t.events = s.events /\ t.exceeded = s.exceeded /\ t.above = FALSE
        BY <3>1 DEF Exceeding
      <3>3. s.events \in Nat /\ s.exceeded \in Nat
        BY DEF Exceeding
      <3> HIDE DEF t
      <3> QED BY <3>1, <3>2, <3>3
    <2>2. CASE rows[k].temp # None
      BY <2>2 DEF ExceedanceStep
    <2> QED BY <2>1, <2>2
  <1>3. starts <=> Begins(rows, k)
    BY <1>1 DEF Begins, Found
  <1>4. t.events = Cardinality(Beginnings(rows, k))
    <2>1. IsFiniteSet(Beginnings(rows, k - 1)) /\ k \notin Beginnings(rows, k - 1)
      BY <1>1, HotGapsFacts DEF Beginnings
    <2>2. CASE starts
      <3>1. Beginnings(rows, k) = Beginnings(rows, k - 1) \cup {k}
        BY <1>1, <1>3, <2>2 DEF Beginnings
      <3>2. Cardinality(Beginnings(rows, k)) = Cardinality(Beginnings(rows, k - 1)) + 1
        BY <2>1, <3>1, FS_AddElement
      <3> QED BY <1>2, <2>2, <3>2 DEF Found
    <2>3. CASE ~starts
      <3>1. Beginnings(rows, k) = Beginnings(rows, k - 1)
        BY <1>1, <1>3, <2>3 DEF Beginnings
      <3>2. s.events \in Nat
        BY DEF Exceeding
      <3> QED BY <1>2, <2>3, <3>1, <3>2 DEF Found
    <2> QED BY <2>2, <2>3
  <1>5. t.exceeded = SumOf(GapsOf(rows), HotGaps(rows, k))
    <2>1. CASE Hot(rows[k]) /\ Joined(rows, k)
      <3>1. k \in HotGaps(rows, k) /\ HotGaps(rows, k) \ {k} = HotGaps(rows, k - 1)
        BY <1>1, <2>1 DEF HotGaps
      <3>2. SumOf(GapsOf(rows), HotGaps(rows, k))
              = GapsOf(rows)[k] + SumOf(GapsOf(rows), HotGaps(rows, k - 1))
        BY SMTT(30), <1>1, <3>1, HotGapsFacts, SumFacts
      <3>3. GapsOf(rows)[k] = Gap(rows, k) /\ hot = Gap(rows, k) /\ Gap(rows, k) \in Nat
        BY <2>1, GapFacts DEF GapsOf, Joined
      <3>4. s.exceeded \in Nat
        BY DEF Exceeding
      <3> QED BY <1>2, <3>2, <3>3, <3>4 DEF Found
    <2>2. CASE ~(Hot(rows[k]) /\ Joined(rows, k))
      <3>1. HotGaps(rows, k) = HotGaps(rows, k - 1)
        BY <1>1, <2>2 DEF HotGaps
      <3>2. s.exceeded \in Nat /\ hot = 0
        BY <2>2 DEF Exceeding
      <3> QED BY <1>2, <3>1, <3>2 DEF Found
    <2> QED BY <2>1, <2>2
  <1>6. t.above <=> k > 0 /\ Hot(rows[k])
    BY <1>1, <1>2
  <1> HIDE DEF t
  <1>7. Found(rows, k, t)
    BY <1>4, <1>5, <1>6 DEF Found
  <1> QED BY <1>7 DEF t

LEMMA LastingStep ==
    ASSUME NEW rows \in Seq(GpuRow), InOrder(rows), NEW k \in 1 .. Len(rows),
           NEW s \in Exceeding, Found(rows, k - 1, s), Lasting(rows, k - 1, s),
           Longest(rows, k - 1, s)
    PROVE  /\ Lasting(rows, k, ExceedanceStep(rows, s, k))
           /\ Longest(rows, k, ExceedanceStep(rows, s, k))
  <1> DEFINE t == ExceedanceStep(rows, s, k)
             broken == k > 1 /\ ~Joined(rows, k - 1)
             starts == Hot(rows[k]) /\ (broken \/ ~s.above)
             hot == IF Hot(rows[k]) THEN IF Joined(rows, k) THEN Gap(rows, k) ELSE 0 ELSE 0
             event == (IF starts \/ broken THEN 0 ELSE s.current) + hot
  <1>1. k \in Nat \ {0} /\ k - 1 \in Nat /\ (k - 1) + 1 = k /\ Len(rows) \in Nat
    BY LenProperties
  <1>2. \A a \in 1 .. k : Chain(rows, a, k + 1) <=> Chain(rows, a, k) /\ Hot(rows[k]) /\ Joined(rows, k)
    BY <1>1 DEF Chain
  <1>3. s.current \in Nat /\ s.longest \in Nat
    BY DEF Exceeding
  <1>4. \A i \in 1 .. Len(rows) : rows[i].at \in Nat
    <2>1. \A i \in 1 .. Len(rows) : rows[i] \in GpuRow
      BY ElementOfSeq
    <2> QED BY <2>1 DEF GpuRow
  <1>5. CASE ~(Hot(rows[k]) /\ Joined(rows, k))
    <2>1. \A a \in 1 .. k : ~Chain(rows, a, k + 1)
      BY <1>2, <1>5
    <2>2. t.longest = s.longest /\ t.current <= s.longest
      <3>1. CASE rows[k].temp = None
        BY <1>3, <3>1 DEF ExceedanceStep, Exceeding
      <3>2. CASE rows[k].temp # None
        <4>1. t.current = event /\ t.longest = Max({s.longest, event})
          BY <3>2 DEF ExceedanceStep
        <4>2. event \in {0, s.current}
          BY <1>3, <1>5
        <4>3. event \in Nat /\ event <= s.longest
          BY <1>3, <4>2 DEF Lasting
        <4> HIDE DEF event
        <4> QED BY <1>3, <4>1, <4>3, MaxOfTwo
      <3> QED BY <3>1, <3>2
    <2>3. Longest(rows, k, t)
      <3>1. ASSUME NEW b \in 1 .. k + 1, NEW a \in 1 .. b - 1, Chain(rows, a, b)
            PROVE  t.longest >= rows[b].at - rows[a].at
        <4>1. b # k + 1
          BY <1>1, <2>1, <3>1
        <4>2. b \in 1 .. (k - 1) + 1
          BY <1>1, <4>1
        <4> QED BY <2>2, <3>1, <4>2 DEF Longest
      <3> HIDE DEF t
      <3> QED BY <2>2, <3>1 DEF Longest
    <2>4. Lasting(rows, k, t)
      <3> HIDE DEF t
      <3> QED BY <1>5, <2>1, <2>2 DEF Lasting
    <2> QED BY <2>3, <2>4
  <1>6. CASE Hot(rows[k]) /\ Joined(rows, k)
    <2>1. k \in 1 .. Len(rows) - 1 /\ k + 1 \in 1 .. Len(rows) /\ rows[k].temp # None
      BY <1>1, <1>6 DEF Joined
    <2>2. Gap(rows, k) \in Nat /\ rows[k + 1].at = rows[k].at + Gap(rows, k)
      BY <2>1, GapFacts
    <2>3. /\ t.current = event /\ t.longest = Max({s.longest, event})
          /\ event = (IF starts \/ broken THEN 0 ELSE s.current) + Gap(rows, k)
      BY <1>6, <2>1 DEF ExceedanceStep
    <2>4. (starts \/ broken) <=> (k = 1 \/ ~Hot(rows[k - 1]) \/ ~Joined(rows, k - 1))
      BY <1>1, <1>6 DEF Found
    <2>5. Chain(rows, k, k + 1) /\ Chain(rows, k, k)
      BY <1>1, <1>6 DEF Chain
    <2>6. \A a \in 1 .. k - 1 : Chain(rows, a, k) => Hot(rows[k - 1]) /\ Joined(rows, k - 1)
      BY <1>1 DEF Chain
    <2>7. event \in Nat
      BY <1>3, <2>2, <2>3
    <2> HIDE DEF event
    <2>8. \E a \in 1 .. k : Chain(rows, a, k + 1) /\ event = rows[k + 1].at - rows[a].at
      <3>1. CASE starts \/ broken
        <4>1. event = rows[k + 1].at - rows[k].at /\ k \in 1 .. k
          BY <1>1, <1>4, <2>1, <2>2, <2>3, <3>1
        <4> QED BY <2>5, <4>1
      <3>2. CASE ~(starts \/ broken)
        <4>1. k - 1 > 0 /\ Hot(rows[k - 1]) /\ Joined(rows, k - 1)
          BY <1>1, <2>4, <3>2
        <4>2. PICK a \in 1 .. k - 1 : Chain(rows, a, k) /\ s.current = rows[k].at - rows[a].at
          BY <1>1, <4>1 DEF Lasting
        <4>3. a \in 1 .. k /\ a \in 1 .. Len(rows)
          BY <1>1
        <4>4. Chain(rows, a, k + 1)
          BY <1>2, <1>6, <4>2, <4>3
        <4>5. event = rows[k + 1].at - rows[a].at
          BY <1>4, <2>1, <2>2, <2>3, <3>2, <4>2, <4>3
        <4> QED BY <4>3, <4>4, <4>5
      <3> QED BY <3>1, <3>2
    <2>9. ASSUME NEW a \in 1 .. k, Chain(rows, a, k + 1)
          PROVE  event >= rows[k + 1].at - rows[a].at
      <3>1. CASE a = k
        BY <1>3, <1>4, <2>1, <2>2, <2>3, <3>1
      <3>2. CASE a # k
        <4>1. a \in 1 .. k - 1 /\ Chain(rows, a, k) /\ a \in 1 .. Len(rows)
          BY <1>1, <1>2, <2>9, <3>2
        <4>2. ~(starts \/ broken)
          BY <1>1, <2>4, <2>6, <4>1
        <4>3. s.current >= rows[k].at - rows[a].at
          BY <1>1, <4>1 DEF Lasting
        <4>4. event = s.current + Gap(rows, k)
          BY <2>3, <4>2
        <4> DEFINE x == rows[k].at
                   y == rows[a].at
                   z == rows[k + 1].at
                   g == Gap(rows, k)
                   c == s.current
        <4>5. /\ x \in Nat /\ y \in Nat /\ g \in Nat /\ c \in Nat
              /\ z = x + g /\ event = c + g /\ c >= x - y
          BY <1>3, <1>4, <2>1, <2>2, <4>1, <4>3, <4>4
        <4> HIDE DEF x, y, z, g, c
        <4>6. event >= z - y
          BY <4>5
        <4> QED BY <4>6 DEF y, z
      <3> QED BY <3>1, <3>2
    <2>10. t.longest \in {s.longest, event} /\ t.longest >= s.longest /\ t.longest >= event
           /\ t.longest \in Nat
      BY <1>3, <2>3, <2>7, MaxOfTwo
    <2> HIDE DEF t, starts, broken
    <2>11. Lasting(rows, k, t)
      BY <1>6, <2>3, <2>8, <2>9, <2>10 DEF Lasting
    <2>12. ASSUME NEW b \in 1 .. k + 1, NEW a \in 1 .. b - 1, Chain(rows, a, b)
           PROVE  t.longest >= rows[b].at - rows[a].at
      <3>1. a \in 1 .. Len(rows) /\ b \in 1 .. Len(rows)
        BY <1>1, <2>1
      <3>2. rows[a].at \in Nat /\ rows[b].at \in Nat
        BY <1>4, <3>1
      <3>3. CASE b = k + 1
        <4>1. a \in 1 .. k /\ event >= rows[b].at - rows[a].at
          BY <1>1, <2>9, <2>12, <3>3
        <4> QED BY <2>7, <2>10, <3>2, <4>1
      <3>4. CASE b # k + 1
        <4>1. b \in 1 .. (k - 1) + 1
          BY <1>1, <3>4
        <4>2. s.longest >= rows[b].at - rows[a].at
          BY <2>12, <4>1 DEF Longest
        <4> QED BY SMTT(30), <1>3, <2>10, <3>2, <4>2
      <3> QED BY <3>3, <3>4
    <2>13. \/ t.longest = 0
           \/ \E b \in 1 .. Len(rows) : \E a \in 1 .. b :
                Chain(rows, a, b) /\ t.longest = rows[b].at - rows[a].at
      <3>1. CASE t.longest = s.longest
        BY <3>1 DEF Longest
      <3>2. CASE t.longest = event
        <4>1. PICK a \in 1 .. k : Chain(rows, a, k + 1) /\ event = rows[k + 1].at - rows[a].at
          BY <2>8
        <4>2. a \in 1 .. k + 1
          BY <1>1
        <4> QED BY <2>1, <3>2, <4>1, <4>2
      <3> QED BY <2>10, <3>1, <3>2
    <2>14. Longest(rows, k, t)
      BY <2>12, <2>13 DEF Longest
    <2> QED BY <2>11, <2>14 DEF t
  <1> QED BY <1>5, <1>6

\* The sum over the gaps is the one of a function.
LEMMA GapSum ==
    ASSUME NEW rows \in Seq(GpuRow), InOrder(rows),
           NEW S \in SUBSET (1 .. Len(rows) - 1)
    PROVE  MapThenSumSet(LAMBDA i : Gap(rows, i), S) = SumOf(GapsOf(rows), S)
  <1> DEFINE Is(g) == g = [s \in SUBSET S |->
                              IF s = {} THEN 0 ELSE Gap(rows, Taken(s)) + g[s \ {Taken(s)}]]
             z == CHOOSE g : Is(g)
  <1>1. MapThenSumSet(LAMBDA i : Gap(rows, i), S) = z[S]
    BY DEF MapThenSumSet, MapThenFoldSet, Taken
  <1>2. \A i \in S : GapsOf(rows)[i] = Gap(rows, i) /\ Gap(rows, i) \in Nat
    BY GapFacts DEF GapsOf
  <1>3. Weights(GapsOf(rows), S)
    <2>1. IsFiniteSet(1 .. Len(rows) - 1)
      BY FS_Interval, LenProperties
    <2> QED BY <1>2, <2>1, FS_Subset DEF Weights
  <1>4. \A s \in SUBSET S : s # {} => GapsOf(rows)[Taken(s)] = Gap(rows, Taken(s))
    BY <1>2 DEF Taken
  <1>5. PICK g : Adds(g, S, GapsOf(rows)) /\ SumOf(GapsOf(rows), S) = g[S]
    BY <1>3, SumIs
  <1>6. Is(g)
    BY <1>4, <1>5 DEF Adds
  <1>7. Is(z)
    <2> HIDE DEF Is
    <2> QED BY <1>6
  <1> HIDE DEF z
  <1>8. Adds(z, S, GapsOf(rows))
    BY <1>4, <1>7 DEF Adds
  <1>9. z[S] = g[S]
    <2>1. S \in SUBSET S /\ IsFiniteSet(S)
      BY <1>3 DEF Weights
    <2> QED BY <1>5, <1>8, <2>1, AddsAgree
  <1> QED BY <1>1, <1>5, <1>9

\* The greatest of some integers.
LEMMA MaxIs ==
    ASSUME NEW S \in SUBSET Int, NEW m \in S, \A x \in S : x <= m
    PROVE  Max(S) = m
  <1>1. Max(S) \in S /\ \A x \in S : Max(S) >= x
    <2>1. \A x \in S : m >= x
      OBVIOUS
    <2> QED BY <2>1 DEF Max
  <1>2. Max(S) \in Int /\ m \in Int /\ Max(S) >= m /\ Max(S) <= m
    BY <1>1
  <1> QED BY <1>2

\* After the last row the loop has found all there is.
LEMMA ExceedanceFound ==
    ASSUME NEW rows \in Seq(GpuRow), InOrder(rows)
    PROVE  LET n == Len(rows)
               e == Exceedance(rows)
           IN e \in Exceeding /\ Found(rows, n, e) /\ Lasting(rows, n, e) /\ Longest(rows, n, e)
  <1> DEFINE n == Len(rows)
  <1>1. PICK f : /\ f[0] = AtFirst /\ Exceedance(rows) = f[Len(rows)]
                 /\ \A k \in 1 .. Len(rows) : f[k] = ExceedanceStep(rows, f[k - 1], k)
                 /\ \A k \in 0 .. Len(rows) : f[k] \in Exceeding
    BY ExceedanceWalk
  <1> DEFINE Good(k) == Found(rows, k, f[k]) /\ Lasting(rows, k, f[k]) /\ Longest(rows, k, f[k])
             T == {k \in Nat : k <= n => Good(k)}
  <1>2. n \in Nat
    BY LenProperties
  <1>3. 0 \in T
    <2>1. Beginnings(rows, 0) = {} /\ HotGaps(rows, 0) = {}
      BY DEF Beginnings, HotGaps
    <2>2. SumOf(GapsOf(rows), {}) = 0
      BY <1>2, <2>1, HotGapsFacts, SumFacts
    <2>3. Cardinality({}) = 0
      BY FS_EmptySet
    <2>4. Found(rows, 0, AtFirst)
      <3>1. AtFirst.events = 0 /\ AtFirst.exceeded = 0 /\ AtFirst.above = FALSE
        BY DEF AtFirst
      <3>2. ~(0 > 0)
        OBVIOUS
      <3> QED BY <2>1, <2>2, <2>3, <3>1, <3>2 DEF Found
    <2>5. Lasting(rows, 0, AtFirst) /\ Longest(rows, 0, AtFirst)
      BY DEF Lasting, Longest, AtFirst
    <2> QED BY <1>1, <2>4, <2>5
  <1>4. ASSUME NEW k \in T PROVE k + 1 \in T
    <2> SUFFICES ASSUME k + 1 <= n PROVE Good(k + 1)
      BY <1>4
    <2>1. k + 1 \in 1 .. Len(rows) /\ (k + 1) - 1 = k /\ k \in 0 .. Len(rows) /\ k <= n
      BY <1>2, <1>4
    <2>2. f[k + 1] = ExceedanceStep(rows, f[k], k + 1) /\ f[k] \in Exceeding /\ Good(k)
      BY <1>1, <1>4, <2>1
    <2> QED BY <2>1, <2>2, FoundStep, LastingStep
  <1>5. T = Nat
    <2>1. T \in SUBSET Nat
      OBVIOUS
    <2> HIDE DEF T
    <2> QED BY <1>3, <1>4, <2>1, Induction
  <1>6. Good(n)
    <2>1. n \in T
      <3> HIDE DEF T
      <3> QED BY <1>2, <1>5
    <2> QED BY <1>2, <2>1
  <1> QED BY <1>1, <1>2, <1>6

\* What the report says of the exceedances is right about the rows.
RightAbout(rows) ==
    LET I    == DOMAIN rows
        e    == Exceedance(rows)
        Span(a, b) == IF \A k \in a .. b - 1 : Hot(rows[k]) /\ Joined(rows, k)
                      THEN rows[b].at - rows[a].at ELSE 0
        hot  == {i \in I : Hot(rows[i])}
    IN /\ e.events = Cardinality({i \in hot : i - 1 \notin hot \/ ~Joined(rows, i - 1)})
       /\ e.exceeded = MapThenSumSet(LAMBDA i : Gap(rows, i), {i \in hot : Joined(rows, i)})
       /\ e.longest = Max({0} \cup {Span(a, b) : a, b \in I})

LEMMA ExceedanceAll ==
    ASSUME NEW rows \in Seq(GpuRow), InOrder(rows)
    PROVE  RightAbout(rows)
  <1> DEFINE n == Len(rows)
             I == DOMAIN rows
             e == Exceedance(rows)
             hot == {i \in I : Hot(rows[i])}
             Span(a, b) == IF \A k \in a .. b - 1 : Hot(rows[k]) /\ Joined(rows, k)
                           THEN rows[b].at - rows[a].at ELSE 0
             spans == {0} \cup {Span(a, b) : a, b \in I}
  <1>1. n \in Nat /\ I = 1 .. n
    BY LenProperties
  <1>2. e \in Exceeding /\ Found(rows, n, e) /\ Longest(rows, n, e)
    BY ExceedanceFound
  <1> HIDE DEF e
  <1>3. {i \in hot : i - 1 \notin hot \/ ~Joined(rows, i - 1)} = Beginnings(rows, n)
    BY <1>1 DEF Beginnings, Begins
  <1>4. {i \in hot : Joined(rows, i)} = HotGaps(rows, n)
    BY <1>1 DEF HotGaps
  <1>5. e.events = Cardinality({i \in hot : i - 1 \notin hot \/ ~Joined(rows, i - 1)})
    BY <1>2, <1>3 DEF Found
  <1>6. e.exceeded = MapThenSumSet(LAMBDA i : Gap(rows, i), {i \in hot : Joined(rows, i)})
    <2>1. HotGaps(rows, n) \in SUBSET (1 .. Len(rows) - 1)
      BY DEF HotGaps, Joined
    <2>2. MapThenSumSet(LAMBDA i : Gap(rows, i), HotGaps(rows, n))
            = SumOf(GapsOf(rows), HotGaps(rows, n))
      BY <2>1, GapSum
    <2> HIDE DEF hot, I
    <2> QED BY <1>2, <1>4, <2>2 DEF Found
  <1>7. e.longest = Max(spans)
    <2>1. \A i \in I : rows[i].at \in Nat
      <3>1. \A i \in I : rows[i] \in GpuRow
        BY <1>1, ElementOfSeq
      <3> QED BY <3>1 DEF GpuRow
    <2>2. e.longest \in Nat
      BY <1>2 DEF Exceeding
    <2>3. ASSUME NEW a \in I, NEW b \in I PROVE Span(a, b) \in Int /\ Span(a, b) <= e.longest
      <3>1. rows[a].at \in Nat /\ rows[b].at \in Nat
        BY <2>1
      <3>2. CASE ~Chain(rows, a, b)
        <4>1. Span(a, b) = 0
          BY <3>2 DEF Chain
        <4> QED BY <2>2, <4>1
      <3>3. CASE Chain(rows, a, b)
        <4>1. Span(a, b) = rows[b].at - rows[a].at
          BY <3>3 DEF Chain
        <4>2. CASE a < b
          <5>1. b \in 1 .. n + 1 /\ a \in 1 .. b - 1
            BY <1>1, <4>2
          <5>2. e.longest >= rows[b].at - rows[a].at
            BY <1>2, <3>3, <5>1 DEF Longest
          <5> QED BY <2>2, <3>1, <4>1, <5>2
        <4>3. CASE a = b
          BY <2>2, <3>1, <4>1, <4>3
        <4>4. CASE b < a
          <5>1. rows[b].at < rows[a].at
            BY <1>1, <4>4 DEF InOrder
          <5> QED BY <2>2, <3>1, <4>1, <5>1
        <4> QED BY <1>1, <4>2, <4>3, <4>4
      <3> QED BY <3>2, <3>3
    <2>4. e.longest \in spans
      <3>1. CASE e.longest = 0
        BY <3>1
      <3>2. CASE e.longest # 0
        <4>1. PICK a \in 1 .. n, b \in 1 .. n :
                Chain(rows, a, b) /\ e.longest = rows[b].at - rows[a].at
          BY <1>1, <1>2, <3>2 DEF Longest
        <4>2. a \in I /\ b \in I
          BY <1>1, <4>1
        <4>3. e.longest = Span(a, b)
          BY <4>1 DEF Chain
        <4> HIDE DEF Span, I
        <4> QED BY <4>2, <4>3
      <3> QED BY <3>1, <3>2
    <2>5. spans \in SUBSET Int /\ \A x \in spans : x <= e.longest
      <3> HIDE DEF Span, I
      <3> QED BY <2>2, <2>3
    <2> HIDE DEF spans
    <2> QED BY <2>4, <2>5, MaxIs
  <1> QED BY <1>5, <1>6, <1>7 DEF RightAbout, e

-----------------------------------------------------------------------------
(***************************************************************************)
(* The time at work and the idle time.                                     *)
(***************************************************************************)
Idleness  == [total : Int, start : Nat \cup {None}]
NotIdling == [total |-> 0, start |-> None]

LEMMA MinOfTwo ==
    ASSUME NEW a \in Int, NEW b \in Int
    PROVE  Min({a, b}) = IF a <= b THEN a ELSE b
  BY DEF Min

LEMMA RowTypes ==
    ASSUME NEW rows \in Seq(GpuRow)
    PROVE  /\ Len(rows) \in Nat /\ DOMAIN rows = 1 .. Len(rows)
           /\ \A i \in 1 .. Len(rows) : /\ rows[i] \in GpuRow /\ rows[i].at \in Nat
                                        /\ rows[i].util \in Int \cup {None}
  <1>1. Len(rows) \in Nat /\ DOMAIN rows = 1 .. Len(rows)
    BY LenProperties
  <1>2. \A i \in 1 .. Len(rows) : rows[i] \in GpuRow
    BY ElementOfSeq
  <1>3. \A row \in GpuRow : row.at \in Nat /\ row.util \in (0 .. 100) \cup {None}
    BY DEF GpuRow
  <1>4. \A u \in (0 .. 100) \cup {None} : u \in Int \cup {None}
    OBVIOUS
  <1> QED BY <1>1, <1>2, <1>3, <1>4

LEMMA IdlingType ==
    ASSUME NEW rows \in Seq(GpuRow), NEW jobs, NEW i \in 1 .. Len(rows), NEW s \in Idleness
    PROVE  IdlingStep(rows, jobs, s, i) \in Idleness
  <1>1. rows[i].at \in Nat
    BY RowTypes
  <1>2. None \notin Int
    BY ReportAssumption
  <1>3. [s EXCEPT !.start = rows[i].at] \in Idleness
    BY <1>1 DEF Idleness
  <1>4. s.start # None =>
          [total |-> s.total + rows[i].at - s.start, start |-> None] \in Idleness
    BY <1>1 DEF Idleness
  <1> QED BY <1>3, <1>4 DEF IdlingStep

LEMMA IdlingWalk ==
    ASSUME NEW rows \in Seq(GpuRow), NEW jobs
    PROVE  \E f : /\ f[0] = NotIdling
                  /\ Underutilized(rows, jobs) = f[Len(rows)].total
                       + (IF f[Len(rows)].start = None THEN 0
                          ELSE rows[Len(rows)].at - f[Len(rows)].start)
                  /\ \A k \in 1 .. Len(rows) : f[k] = IdlingStep(rows, jobs, f[k - 1], k)
                  /\ \A k \in 0 .. Len(rows) : f[k] \in Idleness
  <1> DEFINE n == Len(rows)
             st == [i \in 1 .. n |-> [v \in Idleness |-> IdlingStep(rows, jobs, v, i)]]
             idx == [i \in DOMAIN rows |-> i]
             Is(h) == h = [s \in SUBSET (DOMAIN idx) |->
                             IF s = {} THEN NotIdling
                             ELSE IdlingStep(rows, jobs, h[s \ {Max(s)}], idx[Max(s)])]
             z == CHOOSE h : Is(h)
             end == z[DOMAIN idx]
  <1>1. n \in Nat /\ DOMAIN rows = 1 .. n
    BY LenProperties
  <1>2. NotIdling \in Idleness
    BY DEF NotIdling, Idleness
  <1>3. Underutilized(rows, jobs)
          = end.total + (IF end.start = None THEN 0 ELSE rows[Len(rows)].at - end.start)
    BY DEF Underutilized, FoldLeftDomain, FoldLeft, MapThenFoldSet, NotIdling
  <1>4. \A i \in 1 .. n : \A v \in Idleness :
          st[i][v] = IdlingStep(rows, jobs, v, i) /\ st[i][v] \in Idleness
    BY IdlingType
  <1> HIDE DEF st
  <1>5. Within(st, n, Idleness)
    BY <1>4 DEF Within
  <1>6. PICK g : /\ Walks(g, n, NotIdling, st)
                 /\ \A s \in SUBSET (1 .. n) : g[s] \in Idleness
    BY <1>1, <1>2, <1>5, WalkExists
  <1>7. DOMAIN idx = 1 .. n /\ \A i \in 1 .. n : idx[i] = i
    BY <1>1
  <1> HIDE DEF idx
  <1>8. \A s \in SUBSET (1 .. n) : s # {} =>
          Max(s) \in 1 .. n /\ idx[Max(s)] = Max(s) /\ s \ {Max(s)} \in SUBSET (1 .. n)
    BY <1>1, <1>7, MaxIn
  <1>9. Is(g)
    <2>1. ASSUME NEW s \in SUBSET (1 .. n), s # {}
          PROVE  g[s] = IdlingStep(rows, jobs, g[s \ {Max(s)}], idx[Max(s)])
      <3>1. g[s] = st[Max(s)][g[s \ {Max(s)}]]
        BY <1>6, <2>1 DEF Walks
      <3> QED BY <1>4, <1>6, <1>8, <2>1, <3>1
    <2>2. g[{}] = NotIdling /\ g = [s \in SUBSET (1 .. n) |-> g[s]]
      BY <1>6 DEF Walks
    <2> QED BY <1>7, <2>1, <2>2
  <1>10. Is(z)
    <2> HIDE DEF Is
    <2> QED BY <1>9
  <1> HIDE DEF z
  <1>11. Makes(z, st, n, NotIdling, Idleness)
    <2>1. z[{}] = NotIdling
      BY <1>10
    <2>2. ASSUME NEW s \in SUBSET (1 .. n), s # {}, z[s \ {Max(s)}] \in Idleness
          PROVE  z[s] = st[Max(s)][z[s \ {Max(s)}]]
      <3>1. z[s] = IdlingStep(rows, jobs, z[s \ {Max(s)}], idx[Max(s)])
        BY <1>7, <1>10, <2>2
      <3> QED BY <1>4, <1>8, <2>2, <3>1
    <2> QED BY <2>1, <2>2 DEF Makes
  <1> HIDE DEF Is, n
  <1>12. PICK f : Walk(f, st, n, NotIdling, Idleness) /\ f[n] = z[1 .. n]
    BY <1>1, <1>2, <1>5, <1>11, WalkSteps
  <1>13. f[n] = end
    BY <1>7, <1>12
  <1> HIDE DEF end
  <1>14. \A k \in 1 .. n : k \in 0 .. n /\ k - 1 \in 0 .. n
    BY <1>1
  <1>15. \A k \in 1 .. n : f[k] = IdlingStep(rows, jobs, f[k - 1], k)
    BY <1>4, <1>12, <1>14 DEF Walk
  <1> QED BY <1>3, <1>12, <1>13, <1>15 DEF n, Walk

-----------------------------------------------------------------------------
AtWork(rows, jobs, k)  == {i \in 1 .. k : Working(rows[i], jobs)}
CountsOf(rows, until)  == [i \in 1 .. Len(rows) |-> Counted(rows, until, i)]

\* A row counts no longer than to the next one, or to the end.
LEMMA CountedFacts ==
    ASSUME NEW rows \in Seq(GpuRow), InOrder(rows), NEW until \in Nat,
           \A i \in 1 .. Len(rows) : rows[i].at <= until, NEW i \in 1 .. Len(rows)
    PROVE  /\ CountsOf(rows, until)[i] = Counted(rows, until, i)
           /\ Counted(rows, until, i) \in Nat
           /\ i < Len(rows) => Counted(rows, until, i) <= rows[i + 1].at - rows[i].at
           /\ i = Len(rows) => Counted(rows, until, i) <= until - rows[i].at
  <1> DEFINE end == IF i < Len(rows) THEN rows[i + 1].at ELSE until
  <1>1. Len(rows) \in Nat /\ rows[i].at \in Nat /\ MaxGap \in Nat
    BY RowTypes, ReportAssumption
  <1>2. end \in Nat /\ end >= rows[i].at
    <2>1. CASE i < Len(rows)
      <3>1. i + 1 \in 1 .. Len(rows) /\ i < i + 1
        BY <1>1, <2>1
      <3> QED BY <1>1, <2>1, <3>1, RowTypes DEF InOrder
    <2>2. CASE ~(i < Len(rows))
      BY <2>2
    <2> QED BY <2>1, <2>2
  <1>3. Counted(rows, until, i) = Min({end - rows[i].at, MaxGap})
    BY DEF Counted
  <1> HIDE DEF end
  <1>4. Counted(rows, until, i) \in Nat /\ Counted(rows, until, i) <= end - rows[i].at
    BY <1>1, <1>2, <1>3, MinOfTwo
  <1> QED BY <1>4 DEF CountsOf, end

LEMMA ActiveSum ==
    ASSUME NEW rows \in Seq(GpuRow), InOrder(rows), NEW jobs, NEW until \in Nat,
           \A i \in 1 .. Len(rows) : rows[i].at <= until
    PROVE  /\ ActiveTime(rows, jobs, until)
                = SumOf(CountsOf(rows, until), AtWork(rows, jobs, Len(rows)))
           /\ \A k \in 0 .. Len(rows) : Weights(CountsOf(rows, until), AtWork(rows, jobs, k))
  <1> DEFINE S == AtWork(rows, jobs, Len(rows))
             w == CountsOf(rows, until)
             Is(g) == g = [s \in SUBSET S |->
                              IF s = {} THEN 0
                              ELSE Counted(rows, until, Taken(s)) + g[s \ {Taken(s)}]]
             z == CHOOSE g : Is(g)
  <1>1. ActiveTime(rows, jobs, until) = z[S]
    <2>1. S = {i \in DOMAIN rows : Working(rows[i], jobs)}
      BY LenProperties DEF AtWork
    <2>2. ActiveTime(rows, jobs, until) = MapThenSumSet(LAMBDA i : Counted(rows, until, i), S)
      BY <2>1 DEF ActiveTime
    <2> HIDE DEF S
    <2> QED BY <2>2 DEF MapThenSumSet, MapThenFoldSet, Taken
  <1>2. \A i \in 1 .. Len(rows) : w[i] = Counted(rows, until, i) /\ w[i] \in Nat
    BY CountedFacts
  <1>3. \A k \in 0 .. Len(rows) : Weights(w, AtWork(rows, jobs, k))
    <2> SUFFICES ASSUME NEW k \in 0 .. Len(rows) PROVE Weights(w, AtWork(rows, jobs, k))
      OBVIOUS
    <2>1. k \in Int /\ Len(rows) \in Nat
      BY LenProperties
    <2>2. IsFiniteSet(1 .. k)
      BY <2>1, FS_Interval
    <2>3. AtWork(rows, jobs, k) \in SUBSET (1 .. k) /\ AtWork(rows, jobs, k) \in SUBSET (1 .. Len(rows))
      BY <2>1 DEF AtWork
    <2> HIDE DEF w
    <2> QED BY <1>2, <2>2, <2>3, FS_Subset DEF Weights
  <1>4. Weights(w, S) /\ S \in SUBSET (1 .. Len(rows))
    <2>1. Len(rows) \in 0 .. Len(rows)
      BY LenProperties
    <2> QED BY <1>3, <2>1 DEF AtWork
  <1> HIDE DEF S, w
  <1>5. \A s \in SUBSET S : s # {} => w[Taken(s)] = Counted(rows, until, Taken(s))
    BY <1>2, <1>4 DEF Taken
  <1>6. PICK g : Adds(g, S, w) /\ SumOf(w, S) = g[S]
    BY <1>4, SumIs
  <1>7. Is(g)
    BY <1>5, <1>6 DEF Adds
  <1>8. Is(z)
    <2> HIDE DEF Is
    <2> QED BY <1>7
  <1> HIDE DEF z
  <1>9. Adds(z, S, w)
    BY <1>5, <1>8 DEF Adds
  <1>10. z[S] = g[S]
    <2>1. S \in SUBSET S /\ IsFiniteSet(S)
      BY <1>4 DEF Weights
    <2> QED BY <1>6, <1>9, <2>1, AddsAgree
  <1> QED BY <1>1, <1>3, <1>6, <1>10 DEF S, w

\* After k rows: what has been idle until the k-th, and has been counted as work
\* until then, is no longer than the time since the first.
IdledBy(rows, k, s) == s.total + (IF s.start = None THEN 0 ELSE rows[k].at - s.start)

Apart(rows, jobs, until, k, s) ==
    k > 0 =>
      /\ s.start # None <=> Idling(rows[k], jobs)
      /\ s.start # None => s.start <= rows[k].at
      /\ IdledBy(rows, k, s) + SumOf(CountsOf(rows, until), AtWork(rows, jobs, k - 1))
           <= rows[k].at - rows[1].at

LEMMA NotBoth ==
    ASSUME NEW rows \in Seq(GpuRow), NEW jobs, NEW i \in 1 .. Len(rows)
    PROVE  ~(Idling(rows[i], jobs) /\ Working(rows[i], jobs))
  <1>1. rows[i].util \in Int \cup {None} /\ Busy \in Int
    BY RowTypes, ReportAssumption
  <1> QED BY <1>1 DEF Idling, Working

\* What a step does to the time that has been idle.
LEMMA IdleStep ==
    ASSUME NEW rows \in Seq(GpuRow), NEW jobs, NEW k \in 1 .. Len(rows), NEW s \in Idleness
    PROVE  LET t == IdlingStep(rows, jobs, s, k)
           IN /\ t.start # None <=> Idling(rows[k], jobs)
              /\ t.start # None => t.start = IF s.start = None THEN rows[k].at ELSE s.start
              /\ IdledBy(rows, k, t) = s.total + (IF s.start = None THEN 0 ELSE rows[k].at - s.start)
  <1> DEFINE t == IdlingStep(rows, jobs, s, k)
  <1>1. rows[k].at \in Nat /\ None \notin Int
    BY RowTypes, ReportAssumption
  <1>2. s = [total |-> s.total, start |-> s.start] /\ s.total \in Int /\ s.start \in Nat \cup {None}
    BY DEF Idleness
  <1>3. CASE Idling(rows[k], jobs) /\ s.start = None
    <2>1. t = [total |-> s.total, start |-> rows[k].at]
      BY <1>2, <1>3 DEF IdlingStep
    <2> HIDE DEF t
    <2>2. t.start = rows[k].at /\ t.total = s.total
      BY <2>1
    <2> QED BY <1>1, <1>2, <1>3, <2>2 DEF IdledBy, t
  <1>4. CASE ~Idling(rows[k], jobs) /\ s.start # None
    <2>1. t = [total |-> s.total + rows[k].at - s.start, start |-> None]
      BY <1>4 DEF IdlingStep
    <2> HIDE DEF t
    <2>2. t.start = None /\ t.total = s.total + rows[k].at - s.start
      BY <2>1
    <2> QED BY <1>1, <1>2, <1>4, <2>2 DEF IdledBy, t
  <1>5. CASE ~(Idling(rows[k], jobs) /\ s.start = None) /\ ~(~Idling(rows[k], jobs) /\ s.start # None)
    <2>1. t = s
      BY <1>5 DEF IdlingStep
    <2> HIDE DEF t
    <2> QED BY <1>1, <1>2, <1>5, <2>1 DEF IdledBy, t
  <1> QED BY <1>3, <1>4, <1>5

LEMMA ApartStep ==
    ASSUME NEW rows \in Seq(GpuRow), InOrder(rows), NEW jobs, NEW until \in Nat,
           \A i \in 1 .. Len(rows) : rows[i].at <= until,
           NEW k \in 1 .. Len(rows), NEW s \in Idleness,
           k = 1 => s = NotIdling, Apart(rows, jobs, until, k - 1, s)
    PROVE  Apart(rows, jobs, until, k, IdlingStep(rows, jobs, s, k))
  <1> DEFINE t == IdlingStep(rows, jobs, s, k)
             w == CountsOf(rows, until)
             W(i) == AtWork(rows, jobs, i)
  <1>1. k \in Nat \ {0} /\ Len(rows) \in Nat /\ rows[k].at \in Nat /\ None \notin Int
        /\ 1 \in 1 .. Len(rows) /\ rows[1].at \in Nat
    BY RowTypes, ReportAssumption
  <1>2. s.total \in Int /\ s.start \in Nat \cup {None}
    BY DEF Idleness
  <1>3. /\ t.start # None <=> Idling(rows[k], jobs)
        /\ t.start # None => t.start = IF s.start = None THEN rows[k].at ELSE s.start
        /\ IdledBy(rows, k, t) = s.total + (IF s.start = None THEN 0 ELSE rows[k].at - s.start)
    BY IdleStep
  <1> HIDE DEF t
  <1>4. CASE k = 1
    <2>1. s.start = None /\ s.total = 0
      BY <1>4 DEF NotIdling
    <2>2. W(0) = {} /\ k - 1 = 0 /\ 0 \in 0 .. Len(rows)
      BY <1>1, <1>4 DEF AtWork
    <2>3. SumOf(w, W(k - 1)) = 0
      BY <1>1, <2>2, ActiveSum, SumFacts
    <2> QED BY <1>1, <1>3, <1>4, <2>1, <2>3 DEF Apart, t
  <1>5. CASE k # 1
    <2> DEFINE j == k - 1
    <2>1. j \in 1 .. Len(rows) /\ j + 1 = k /\ j < Len(rows) /\ j > 0 /\ j \in Nat
          /\ j - 1 \in 0 .. Len(rows) /\ j \in 0 .. Len(rows)
      BY <1>1, <1>5
    <2>2. rows[j].at \in Nat /\ rows[j].at < rows[k].at
      BY <1>1, <2>1, RowTypes DEF InOrder
    <2>3. /\ s.start # None <=> Idling(rows[j], jobs)
          /\ s.start # None => s.start <= rows[j].at
          /\ IdledBy(rows, j, s) + SumOf(w, W(j - 1)) <= rows[j].at - rows[1].at
      BY <2>1 DEF Apart
    <2>4. /\ Weights(w, W(j)) /\ Weights(w, W(j - 1))
          /\ SumOf(w, W(j)) \in Nat /\ SumOf(w, W(j - 1)) \in Nat
      BY <2>1, ActiveSum, SumFacts
    <2>5. CASE Working(rows[j], jobs)
      <3>1. s.start = None
        BY <2>1, <2>3, <2>5, NotBoth
      <3>2. j \in W(j) /\ W(j) \ {j} = W(j - 1)
        BY <2>1, <2>5 DEF AtWork
      <3>3. SumOf(w, W(j)) = w[j] + SumOf(w, W(j - 1))
        <4> HIDE DEF w, W, j
        <4>1. SumOf(w, W(j)) = w[j] + SumOf(w, W(j) \ {j})
          BY <2>4, <3>2, SumFacts
        <4> QED BY <3>2, <4>1
      <3>4. w[j] \in Nat /\ w[j] <= rows[k].at - rows[j].at
        BY <2>1, CountedFacts
      <3> HIDE DEF w, W, j
      <3>5. s.total + SumOf(w, W(j - 1)) <= rows[j].at - rows[1].at
        BY <1>2, <2>3, <3>1 DEF IdledBy
      <3>6. IdledBy(rows, k, t) = s.total
        BY <1>2, <1>3, <3>1
      <3>7. IdledBy(rows, k, t) + SumOf(w, W(j)) <= rows[k].at - rows[1].at
        <4> DEFINE x == SumOf(w, W(j))
                   y == SumOf(w, W(j - 1))
                   p == w[j]
                   c == rows[1].at
                   b == rows[j].at
                   a == rows[k].at
                   u == IdledBy(rows, k, t)
                   q == s.total
        <4>1. /\ x \in Int /\ y \in Int /\ p \in Int /\ a \in Int /\ b \in Int /\ c \in Int
              /\ q \in Int
          BY SMTT(30), <1>1, <1>2, <2>2, <2>4, <3>4
        <4>2. x = p + y /\ p <= a - b /\ q + y <= b - c /\ u = q
          BY <3>3, <3>4, <3>5, <3>6
        <4> HIDE DEF x, y, p, a, b, c, u, q
        <4>3. u + x <= a - c
          BY <4>1, <4>2
        <4> QED BY <4>3 DEF x, y, p, a, b, c, u, q
      <3>8. t.start # None => t.start <= rows[k].at
        BY <1>1, <1>3, <3>1
      <3> QED BY <1>3, <3>7, <3>8 DEF Apart, t, w, W, j
    <2>6. CASE ~Working(rows[j], jobs)
      <3>1. W(j) = W(j - 1)
        BY <2>1, <2>6 DEF AtWork
      <3> HIDE DEF w, W, j
      <3>2. IdledBy(rows, k, t) <= IdledBy(rows, j, s) + (rows[k].at - rows[j].at)
            /\ IdledBy(rows, j, s) \in Int /\ IdledBy(rows, k, t) \in Int
        <4>1. CASE s.start = None
          BY <1>1, <1>2, <1>3, <2>2, <4>1 DEF IdledBy
        <4>2. CASE s.start # None
          <5>1. IdledBy(rows, j, s) = s.total + (rows[j].at - s.start)
            BY <4>2 DEF IdledBy
          <5>2. IdledBy(rows, k, t) = s.total + (rows[k].at - s.start)
            BY <1>3, <4>2
          <5> DEFINE x == s.start
                     y == s.total
                     a == rows[k].at
                     b == rows[j].at
                     p == IdledBy(rows, j, s)
                     q == IdledBy(rows, k, t)
          <5>3. x \in Int /\ y \in Int /\ a \in Int /\ b \in Int /\ p = y + (b - x) /\ q = y + (a - x)
            BY <1>1, <1>2, <2>2, <4>2, <5>1, <5>2
          <5> HIDE DEF x, y, a, b, p, q
          <5>4. q <= p + (a - b) /\ p \in Int /\ q \in Int
            BY <5>3
          <5> QED BY <5>4 DEF x, y, a, b, p, q
        <4> QED BY <4>1, <4>2
      <3>3. IdledBy(rows, k, t) + SumOf(w, W(j)) <= rows[k].at - rows[1].at
        <4> DEFINE x == SumOf(w, W(j))
                   y == SumOf(w, W(j - 1))
                   c == rows[1].at
                   b == rows[j].at
                   a == rows[k].at
                   u == IdledBy(rows, k, t)
                   q == IdledBy(rows, j, s)
        <4>1. /\ x \in Int /\ y \in Int /\ a \in Int /\ b \in Int /\ c \in Int
              /\ q \in Int /\ u \in Int
          BY <1>1, <2>2, <2>4, <3>2
        <4>2. x = y /\ u <= q + (a - b) /\ q + y <= b - c
          BY <2>3, <3>1, <3>2
        <4> HIDE DEF x, y, a, b, c, u, q
        <4>3. u + x <= a - c
          BY <4>1, <4>2
        <4> QED BY <4>3 DEF x, y, a, b, c, u, q
      <3>4. t.start # None => t.start <= rows[k].at
        BY <1>1, <1>2, <1>3, <2>2, <2>3
      <3> QED BY <1>3, <3>3, <3>4 DEF Apart, t, w, W, j
    <2> QED BY <2>5, <2>6
  <1> QED BY <1>4, <1>5

\* What is active and what is idle fit into the time since the first row.
LEMMA WorkAndIdle ==
    ASSUME NEW rows \in Seq(GpuRow), InOrder(rows), NEW jobs, NEW until \in Nat,
           \A i \in 1 .. Len(rows) : rows[i].at <= until, rows # <<>>
    PROVE  ActiveTime(rows, jobs, until) + Underutilized(rows, jobs) <= until - rows[1].at
  <1> DEFINE n == Len(rows)
             w == CountsOf(rows, until)
             W(i) == AtWork(rows, jobs, i)
  <1>1. PICK f : /\ f[0] = NotIdling
                 /\ Underutilized(rows, jobs) = f[Len(rows)].total
                       + (IF f[Len(rows)].start = None THEN 0
                          ELSE rows[Len(rows)].at - f[Len(rows)].start)
                 /\ \A k \in 1 .. Len(rows) : f[k] = IdlingStep(rows, jobs, f[k - 1], k)
                 /\ \A k \in 0 .. Len(rows) : f[k] \in Idleness
    BY IdlingWalk
  <1> DEFINE T == {k \in Nat : k <= n => Apart(rows, jobs, until, k, f[k])}
  <1>2. n \in Nat \ {0}
    BY EmptySeq
  <1>3. 0 \in T
    BY DEF Apart
  <1>4. ASSUME NEW k \in T PROVE k + 1 \in T
    <2> SUFFICES ASSUME k + 1 <= n PROVE Apart(rows, jobs, until, k + 1, f[k + 1])
      BY <1>4
    <2>1. k + 1 \in 1 .. Len(rows) /\ (k + 1) - 1 = k /\ k \in 0 .. Len(rows) /\ k <= n
          /\ (k + 1 = 1 => k = 0)
      BY <1>2, <1>4
    <2>2. f[k + 1] = IdlingStep(rows, jobs, f[k], k + 1) /\ f[k] \in Idleness
          /\ Apart(rows, jobs, until, k, f[k]) /\ (k + 1 = 1 => f[k] = NotIdling)
      BY <1>1, <1>4, <2>1
    <2> HIDE DEF n
    <2> QED BY <2>1, <2>2, ApartStep
  <1>5. T = Nat
    <2>1. T \in SUBSET Nat
      OBVIOUS
    <2> HIDE DEF T
    <2> QED BY <1>3, <1>4, <2>1, Induction
  <1>6. Apart(rows, jobs, until, n, f[n])
    <2>1. n \in T
      <3> HIDE DEF T
      <3> QED BY <1>2, <1>5
    <2> QED BY <1>2, <2>1
  <1>7. Underutilized(rows, jobs) = IdledBy(rows, n, f[n])
    BY <1>1 DEF IdledBy
  <1>8. n \in 1 .. n /\ n - 1 \in 0 .. n /\ n \in 0 .. n /\ rows[n].at \in Nat /\ rows[1].at \in Nat
        /\ rows[n].at <= until /\ 1 \in 1 .. n
    BY <1>2, RowTypes
  <1>9. IdledBy(rows, n, f[n]) \in Int
    <2>1. f[n] \in Idleness
      BY <1>1, <1>8
    <2>2. f[n].total \in Int /\ f[n].start \in Nat \cup {None}
      BY <2>1 DEF Idleness
    <2> QED BY <1>8, <2>2 DEF IdledBy
  <1>10. SumOf(w, W(n)) \in Nat /\ SumOf(w, W(n - 1)) \in Nat
    BY <1>8, ActiveSum, SumFacts
  <1>11. ActiveTime(rows, jobs, until) = SumOf(w, W(n))
    BY ActiveSum
  <1>12. SumOf(w, W(n)) <= SumOf(w, W(n - 1)) + (until - rows[n].at)
    <2>1. CASE Working(rows[n], jobs)
      <3>1. n \in W(n) /\ W(n) \ {n} = W(n - 1)
        BY <1>2, <1>8, <2>1 DEF AtWork
      <3>2. SumOf(w, W(n)) = w[n] + SumOf(w, W(n - 1))
        BY <1>8, <3>1, ActiveSum, SumFacts
      <3>3. w[n] \in Nat /\ w[n] <= until - rows[n].at
        BY <1>8, CountedFacts
      <3> HIDE DEF w, W, n
      <3> QED BY <1>8, <1>10, <3>2, <3>3
    <2>2. CASE ~Working(rows[n], jobs)
      <3>1. W(n) = W(n - 1)
        BY <1>2, <1>8, <2>2 DEF AtWork
      <3> HIDE DEF w, W, n
      <3> QED BY <1>8, <1>10, <3>1
    <2> QED BY <2>1, <2>2
  <1>13. IdledBy(rows, n, f[n]) + SumOf(w, W(n - 1)) <= rows[n].at - rows[1].at
    BY <1>2, <1>6 DEF Apart
  <1> HIDE DEF w, W, n
  <1> QED BY SMTT(30), <1>7, <1>8, <1>9, <1>10, <1>11, <1>12, <1>13

-----------------------------------------------------------------------------
(***************************************************************************)
(* The loops over the snapshots.                                           *)
(***************************************************************************)
Switching  == [n : Nat, prev : {0, 1, None}]
NoSwitch   == [n |-> 0, prev |-> None]
UpLoop     == [done : Seq(Nat), prev : Nat \cup {None}, peak : Nat \cup {None}]
NoPeriod   == [done |-> <<>>, prev |-> None, peak |-> None]

LEMMA SnapTypes ==
    ASSUME NEW rows \in Seq(SnapRow)
    PROVE  /\ Len(rows) \in Nat /\ DOMAIN rows = 1 .. Len(rows)
           /\ \A i \in 1 .. Len(rows) :
                /\ rows[i] \in SnapRow /\ rows[i].at \in Nat
                /\ rows[i].job \in {0, 1, None} /\ rows[i].uptime \in Nat \cup {None}
  <1>1. \A i \in 1 .. Len(rows) : rows[i] \in SnapRow
    BY ElementOfSeq
  <1> QED BY <1>1, LenProperties DEF SnapRow

LEMMA TransitionType ==
    ASSUME NEW s \in Switching, NEW job \in {0, 1, None}
    PROVE  TransitionStep(s, job) \in Switching
  BY DEF TransitionStep, Switching

\* What a turn of the loop over uptime_s does: nothing is known, a period ends, or
\* it goes on.
LEMMA UptimeCases ==
    ASSUME NEW s \in UpLoop, NEW u \in Nat \cup {None}
    PROVE  LET t == UptimeStep(s, u)
           IN /\ u = None => t = [done |-> s.done, prev |-> None, peak |-> None]
              /\ u # None /\ s.prev # None /\ u < s.prev =>
                   t = [done |-> IF s.peak = None THEN s.done ELSE Append(s.done, s.peak),
                        prev |-> u, peak |-> u]
              /\ u # None /\ ~(s.prev # None /\ u < s.prev) =>
                   t = [done |-> s.done, prev |-> u,
                        peak |-> IF s.peak = None THEN u ELSE Max({s.peak, u})]
  <1>1. s = [done |-> s.done, prev |-> s.prev, peak |-> s.peak]
    BY DEF UpLoop
  <1>2. CASE u = None
    BY <1>1, <1>2 DEF UptimeStep
  <1>3. CASE u # None /\ s.prev # None /\ u < s.prev
    BY <1>3 DEF UptimeStep
  <1>4. CASE u # None /\ ~(s.prev # None /\ u < s.prev)
    <2>1. UptimeStep(s, u) =
            [s EXCEPT !.prev = u, !.peak = IF @ = None THEN u ELSE Max({@, u})]
      BY <1>4 DEF UptimeStep
    <2> QED BY <1>1, <1>4, <2>1
  <1> QED BY <1>2, <1>3, <1>4

LEMMA UptimeType ==
    ASSUME NEW s \in UpLoop, NEW u \in Nat \cup {None}
    PROVE  UptimeStep(s, u) \in UpLoop
  <1> DEFINE t == UptimeStep(s, u)
  <1>1. /\ s.done \in Seq(Nat) /\ s.prev \in Nat \cup {None} /\ s.peak \in Nat \cup {None}
        /\ None \notin Int
    BY ReportAssumption DEF UpLoop
  <1>2. CASE u = None
    <2>1. t = [done |-> s.done, prev |-> None, peak |-> None]
      BY <1>2, UptimeCases
    <2> HIDE DEF t
    <2> QED BY <1>1, <2>1 DEF UpLoop, t
  <1>3. CASE u # None /\ s.prev # None /\ u < s.prev
    <2> DEFINE d == IF s.peak = None THEN s.done ELSE Append(s.done, s.peak)
    <2>1. t = [done |-> d, prev |-> u, peak |-> u]
      BY <1>3, UptimeCases
    <2>2. d \in Seq(Nat)
      <3>1. s.peak # None => Append(s.done, s.peak) \in Seq(Nat)
        BY <1>1, AppendProperties
      <3> QED BY <1>1, <3>1
    <2> HIDE DEF t, d
    <2> QED BY <1>3, <2>1, <2>2 DEF UpLoop, t
  <1>4. CASE u # None /\ ~(s.prev # None /\ u < s.prev)
    <2> DEFINE p == IF s.peak = None THEN u ELSE Max({s.peak, u})
    <2>1. t = [done |-> s.done, prev |-> u, peak |-> p]
      BY <1>4, UptimeCases
    <2>2. p \in Nat
      BY <1>1, <1>4, MaxOfTwo
    <2> HIDE DEF t, p
    <2> QED BY <1>1, <1>4, <2>1, <2>2 DEF UpLoop, t
  <1> QED BY <1>2, <1>3, <1>4

LEMMA TransitionWalk ==
    ASSUME NEW rows \in Seq(SnapRow)
    PROVE  \E f : /\ f[0] = NoSwitch /\ Transitions(rows) = f[Len(rows)].n
                  /\ \A k \in 1 .. Len(rows) : f[k] = TransitionStep(f[k - 1], rows[k].job)
                  /\ \A k \in 0 .. Len(rows) : f[k] \in Switching
  <1> DEFINE n == Len(rows)
             st == [i \in 1 .. n |-> [v \in Switching |-> TransitionStep(v, rows[i].job)]]
             seen == [i \in DOMAIN rows |-> rows[i].job]
             Is(h) == h = [s \in SUBSET (DOMAIN seen) |->
                             IF s = {} THEN NoSwitch
                             ELSE TransitionStep(h[s \ {Max(s)}], seen[Max(s)])]
             z == CHOOSE h : Is(h)
  <1>1. n \in Nat /\ DOMAIN rows = 1 .. n
    BY LenProperties
  <1>2. NoSwitch \in Switching
    BY DEF NoSwitch, Switching
  <1>3. Transitions(rows) = z[DOMAIN seen].n
    BY DEF Transitions, FoldLeft, MapThenFoldSet, NoSwitch
  <1>4. \A i \in 1 .. n : \A v \in Switching :
          st[i][v] = TransitionStep(v, rows[i].job) /\ st[i][v] \in Switching
    BY SnapTypes, TransitionType
  <1> HIDE DEF st
  <1>5. Within(st, n, Switching)
    BY <1>4 DEF Within
  <1>6. PICK g : /\ Walks(g, n, NoSwitch, st)
                 /\ \A s \in SUBSET (1 .. n) : g[s] \in Switching
    BY <1>1, <1>2, <1>5, WalkExists
  <1>7. DOMAIN seen = 1 .. n /\ \A i \in 1 .. n : seen[i] = rows[i].job
    BY <1>1
  <1> HIDE DEF seen
  <1>8. \A s \in SUBSET (1 .. n) : s # {} =>
          /\ Max(s) \in 1 .. n /\ seen[Max(s)] = rows[Max(s)].job
          /\ s \ {Max(s)} \in SUBSET (1 .. n)
    BY <1>1, <1>7, MaxIn
  <1>9. Is(g)
    <2>1. ASSUME NEW s \in SUBSET (1 .. n), s # {}
          PROVE  g[s] = TransitionStep(g[s \ {Max(s)}], seen[Max(s)])
      <3>1. g[s] = st[Max(s)][g[s \ {Max(s)}]]
        BY <1>6, <2>1 DEF Walks
      <3> QED BY <1>4, <1>6, <1>8, <2>1, <3>1
    <2>2. g[{}] = NoSwitch /\ g = [s \in SUBSET (1 .. n) |-> g[s]]
      BY <1>6 DEF Walks
    <2> QED BY <1>7, <2>1, <2>2
  <1>10. Is(z)
    <2> HIDE DEF Is
    <2> QED BY <1>9
  <1> HIDE DEF z
  <1>11. Makes(z, st, n, NoSwitch, Switching)
    <2>1. z[{}] = NoSwitch
      BY <1>10
    <2>2. ASSUME NEW s \in SUBSET (1 .. n), s # {}, z[s \ {Max(s)}] \in Switching
          PROVE  z[s] = st[Max(s)][z[s \ {Max(s)}]]
      <3>1. z[s] = TransitionStep(z[s \ {Max(s)}], seen[Max(s)])
        BY <1>7, <1>10, <2>2
      <3> QED BY <1>4, <1>8, <2>2, <3>1
    <2> QED BY <2>1, <2>2 DEF Makes
  <1> HIDE DEF Is, n
  <1>12. PICK f : Walk(f, st, n, NoSwitch, Switching) /\ f[n] = z[1 .. n]
    BY <1>1, <1>2, <1>5, <1>11, WalkSteps
  <1>13. Transitions(rows) = f[n].n
    BY <1>3, <1>7, <1>12
  <1>14. \A k \in 1 .. n : k \in 0 .. n /\ k - 1 \in 0 .. n
    BY <1>1
  <1>15. \A k \in 1 .. n : f[k] = TransitionStep(f[k - 1], rows[k].job)
    BY <1>4, <1>12, <1>14 DEF Walk
  <1> QED BY <1>12, <1>13, <1>15 DEF n, Walk

LEMMA UptimeWalk ==
    ASSUME NEW rows \in Seq(SnapRow)
    PROVE  \E f : /\ f[0] = NoPeriod /\ CompletedPeriods(rows) = f[Len(rows)].done
                  /\ \A k \in 1 .. Len(rows) : f[k] = UptimeStep(f[k - 1], rows[k].uptime)
                  /\ \A k \in 0 .. Len(rows) : f[k] \in UpLoop
  <1> DEFINE n == Len(rows)
             st == [i \in 1 .. n |-> [v \in UpLoop |-> UptimeStep(v, rows[i].uptime)]]
             seen == [i \in DOMAIN rows |-> rows[i].uptime]
             Is(h) == h = [s \in SUBSET (DOMAIN seen) |->
                             IF s = {} THEN NoPeriod
                             ELSE UptimeStep(h[s \ {Max(s)}], seen[Max(s)])]
             z == CHOOSE h : Is(h)
  <1>1. n \in Nat /\ DOMAIN rows = 1 .. n
    BY LenProperties
  <1>2. NoPeriod \in UpLoop
    BY DEF NoPeriod, UpLoop
  <1>3. CompletedPeriods(rows) = z[DOMAIN seen].done
    BY DEF CompletedPeriods, FoldLeft, MapThenFoldSet, NoPeriod
  <1>4. \A i \in 1 .. n : \A v \in UpLoop :
          st[i][v] = UptimeStep(v, rows[i].uptime) /\ st[i][v] \in UpLoop
    BY SnapTypes, UptimeType
  <1> HIDE DEF st
  <1>5. Within(st, n, UpLoop)
    BY <1>4 DEF Within
  <1>6. PICK g : /\ Walks(g, n, NoPeriod, st)
                 /\ \A s \in SUBSET (1 .. n) : g[s] \in UpLoop
    BY <1>1, <1>2, <1>5, WalkExists
  <1>7. DOMAIN seen = 1 .. n /\ \A i \in 1 .. n : seen[i] = rows[i].uptime
    BY <1>1
  <1> HIDE DEF seen
  <1>8. \A s \in SUBSET (1 .. n) : s # {} =>
          /\ Max(s) \in 1 .. n /\ seen[Max(s)] = rows[Max(s)].uptime
          /\ s \ {Max(s)} \in SUBSET (1 .. n)
    BY <1>1, <1>7, MaxIn
  <1>9. Is(g)
    <2>1. ASSUME NEW s \in SUBSET (1 .. n), s # {}
          PROVE  g[s] = UptimeStep(g[s \ {Max(s)}], seen[Max(s)])
      <3>1. g[s] = st[Max(s)][g[s \ {Max(s)}]]
        BY <1>6, <2>1 DEF Walks
      <3> QED BY <1>4, <1>6, <1>8, <2>1, <3>1
    <2>2. g[{}] = NoPeriod /\ g = [s \in SUBSET (1 .. n) |-> g[s]]
      BY <1>6 DEF Walks
    <2> QED BY <1>7, <2>1, <2>2
  <1>10. Is(z)
    <2> HIDE DEF Is
    <2> QED BY <1>9
  <1> HIDE DEF z
  <1>11. Makes(z, st, n, NoPeriod, UpLoop)
    <2>1. z[{}] = NoPeriod
      BY <1>10
    <2>2. ASSUME NEW s \in SUBSET (1 .. n), s # {}, z[s \ {Max(s)}] \in UpLoop
          PROVE  z[s] = st[Max(s)][z[s \ {Max(s)}]]
      <3>1. z[s] = UptimeStep(z[s \ {Max(s)}], seen[Max(s)])
        BY <1>7, <1>10, <2>2
      <3> QED BY <1>4, <1>8, <2>2, <3>1
    <2> QED BY <2>1, <2>2 DEF Makes
  <1> HIDE DEF Is, n
  <1>12. PICK f : Walk(f, st, n, NoPeriod, UpLoop) /\ f[n] = z[1 .. n]
    BY <1>1, <1>2, <1>5, <1>11, WalkSteps
  <1>13. CompletedPeriods(rows) = f[n].done
    BY <1>3, <1>7, <1>12
  <1>14. \A k \in 1 .. n : k \in 0 .. n /\ k - 1 \in 0 .. n
    BY <1>1
  <1>15. \A k \in 1 .. n : f[k] = UptimeStep(f[k - 1], rows[k].uptime)
    BY <1>4, <1>12, <1>14 DEF Walk
  <1> QED BY <1>12, <1>13, <1>15 DEF n, Walk

-----------------------------------------------------------------------------
(***************************************************************************)
(* The uptime periods.                                                     *)
(***************************************************************************)
\* epoch[i] restarts came before the i-th row: it was not up for longer than until
\* the next restart, or than now, and longer than the rows since the last one.
InEpochs(rows, epoch, ended, alive) ==
    /\ \A i \in 1 .. Len(rows) : epoch[i] \in 0 .. Len(ended)
    /\ \A i, j \in 1 .. Len(rows) : i < j => epoch[i] <= epoch[j]
    /\ \A i \in 1 .. Len(rows) : rows[i].uptime # None =>
         rows[i].uptime <= IF epoch[i] < Len(ended) THEN ended[epoch[i] + 1] ELSE alive
    /\ \A i, j \in 1 .. Len(rows) :
         i < j /\ epoch[i] = epoch[j] /\ rows[i].uptime # None /\ rows[j].uptime # None
           => rows[i].uptime <= rows[j].uptime

\* The periods are of restarts among the first e, in their order.
Ended(done, ended, e, f) ==
    /\ \A i \in 1 .. Len(done) : f[i] \in 1 .. Len(ended) /\ f[i] <= e
    /\ \A i, j \in 1 .. Len(done) : i < j => f[i] < f[j]
    /\ \A i \in 1 .. Len(done) : done[i] <= ended[f[i]]

\* After k rows.
Periods(rows, epoch, ended, k, s) ==
    IF k = 0 THEN s = NoPeriod
    ELSE /\ s.prev = rows[k].uptime /\ s.peak = s.prev
         /\ \E f : Ended(s.done, ended, epoch[k], f)

\* A period that ends at a later row adds the restart after its last row.
LEMMA EndedGrows ==
    ASSUME NEW ended \in Seq(Nat), NEW done \in Seq(Nat), NEW peak \in Nat, NEW f,
           NEW d \in 0 .. Len(ended), NEW e \in 0 .. Len(ended), d < e,
           Ended(done, ended, d, f), peak <= ended[d + 1]
    PROVE  \E g : Ended(Append(done, peak), ended, e, g)
  <1> DEFINE more == Append(done, peak)
             n == Len(done)
             g == [i \in 1 .. n + 1 |-> IF i = n + 1 THEN d + 1 ELSE f[i]]
  <1>1. /\ n \in Nat /\ Len(more) = n + 1 /\ more[n + 1] = peak
        /\ \A i \in 1 .. n : more[i] = done[i]
        /\ Len(ended) \in Nat
    BY AppendProperties, LenProperties
  <1>2. d + 1 \in 1 .. Len(ended) /\ d + 1 <= e
    BY <1>1
  <1>3. \A i \in 1 .. n : f[i] \in 1 .. Len(ended) /\ f[i] <= d /\ done[i] <= ended[f[i]]
    BY DEF Ended
  <1>4. \A i, j \in 1 .. n : i < j => f[i] < f[j]
    BY DEF Ended
  <1>5. g[n + 1] = d + 1 /\ \A i \in 1 .. n : g[i] = f[i]
    BY <1>1
  <1> HIDE DEF g, more, n
  <1>6. \A i \in 1 .. n + 1 : i \in 1 .. n \/ i = n + 1
    BY <1>1
  <1>7. \A i \in 1 .. n + 1 : g[i] \in 1 .. Len(ended) /\ g[i] <= e
    <2> SUFFICES ASSUME NEW i \in 1 .. n + 1 PROVE g[i] \in 1 .. Len(ended) /\ g[i] <= e
      OBVIOUS
    <2>1. CASE i \in 1 .. n
      <3>1. g[i] = f[i] /\ f[i] \in 1 .. Len(ended) /\ f[i] <= d
        BY <1>3, <1>5, <2>1
      <3>2. d \in Int /\ e \in Int /\ Len(ended) \in Nat
        BY <1>1
      <3> QED BY <3>1, <3>2
    <2>2. CASE i = n + 1
      BY <1>2, <1>5, <2>2
    <2> QED BY <1>6, <2>1, <2>2
  <1>8. \A i, j \in 1 .. n + 1 : i < j => g[i] < g[j]
    <2> SUFFICES ASSUME NEW i \in 1 .. n + 1, NEW j \in 1 .. n + 1, i < j PROVE g[i] < g[j]
      OBVIOUS
    <2>1. i \in 1 .. n
      BY <1>1
    <2>2. CASE j \in 1 .. n
      BY <1>4, <1>5, <2>1, <2>2
    <2>3. CASE j = n + 1
      <3>1. g[j] = d + 1 /\ g[i] = f[i] /\ f[i] \in Int /\ f[i] <= d /\ d \in Int
        BY <1>1, <1>3, <1>5, <2>1, <2>3
      <3> QED BY <3>1
    <2> QED BY <1>6, <2>2, <2>3
  <1>9. \A i \in 1 .. n + 1 : more[i] <= ended[g[i]]
    BY <1>1, <1>3, <1>5, <1>6
  <1> QED BY <1>1, <1>7, <1>8, <1>9 DEF Ended, more

LEMMA PeriodStep ==
    ASSUME NEW rows \in Seq(SnapRow), NEW ended \in Seq(Nat), NEW alive \in Nat, NEW epoch,
           InEpochs(rows, epoch, ended, alive), NEW k \in 1 .. Len(rows), NEW s \in UpLoop,
           Periods(rows, epoch, ended, k - 1, s)
    PROVE  Periods(rows, epoch, ended, k, UptimeStep(s, rows[k].uptime))
  <1> DEFINE u == rows[k].uptime
             t == UptimeStep(s, u)
             j == k - 1
  <1>1. /\ k \in Nat \ {0} /\ Len(rows) \in Nat /\ u \in Nat \cup {None} /\ None \notin Int
        /\ epoch[k] \in 0 .. Len(ended) /\ Len(ended) \in Nat
    BY SnapTypes, ReportAssumption, LenProperties DEF InEpochs
  <1>2. s.done \in Seq(Nat)
    BY DEF UpLoop
  <1>3. \E f : Ended(s.done, ended, epoch[k], f)
    <2>1. CASE j = 0
      <3>1. s.done = <<>>
        BY <2>1 DEF Periods, NoPeriod
      <3>2. Len(s.done) = 0
        BY <3>1, EmptySeq
      <3> QED BY <3>2 DEF Ended
    <2>2. CASE j # 0
      <3>1. PICK f : Ended(s.done, ended, epoch[j], f)
        BY <2>2 DEF Periods
      <3>2. j \in 1 .. Len(rows) /\ j < k
        BY <1>1, <2>2
      <3>3. epoch[j] \in Int /\ epoch[j] <= epoch[k]
        BY <1>1, <3>2 DEF InEpochs
      <3>4. \A i \in 1 .. Len(s.done) : f[i] \in 1 .. Len(ended) /\ f[i] <= epoch[k]
        BY SMTT(30), <1>1, <3>1, <3>3 DEF Ended
      <3> QED BY <3>1, <3>4 DEF Ended
    <2> QED BY <2>1, <2>2
  <1>4. CASE u = None
    <2>1. t = [done |-> s.done, prev |-> None, peak |-> None]
      BY <1>1, <1>4, UptimeCases
    <2> HIDE DEF t
    <2>2. t.prev = u /\ t.peak = t.prev /\ t.done = s.done
      BY <1>4, <2>1
    <2> QED BY <1>1, <1>3, <2>2 DEF Periods, t
  <1>5. CASE u # None /\ s.prev # None /\ u < s.prev
    <2>1. j # 0 /\ s.prev = rows[j].uptime /\ s.peak = s.prev
      BY <1>5 DEF Periods, NoPeriod
    <2>2. j \in 1 .. Len(rows) /\ j < k
      BY <1>1, <2>1
    <2>3. t = [done |-> Append(s.done, s.peak), prev |-> u, peak |-> u]
      BY <1>1, <1>5, <2>1, UptimeCases
    <2> HIDE DEF t
    <2>4. t.prev = u /\ t.peak = t.prev /\ t.done = Append(s.done, s.peak)
      BY <2>3
    <2>5. epoch[j] \in 0 .. Len(ended) /\ epoch[j] <= epoch[k]
      BY <2>2 DEF InEpochs
    <2>6. s.prev \in Nat /\ u \in Nat
      BY <1>1, <1>5 DEF UpLoop
    <2>7. epoch[j] # epoch[k]
      <3> SUFFICES ASSUME epoch[j] = epoch[k] PROVE FALSE
        OBVIOUS
      <3>1. rows[j].uptime <= u
        BY <1>5, <2>1, <2>2 DEF InEpochs
      <3> QED BY <1>5, <2>1, <2>6, <3>1
    <2>8. epoch[j] < epoch[k] /\ epoch[j] < Len(ended)
      BY <1>1, <2>5, <2>7
    <2>9. s.peak \in Nat /\ s.peak <= ended[epoch[j] + 1]
      BY <1>5, <2>1, <2>2, <2>6, <2>8 DEF InEpochs
    <2>10. PICK f : Ended(s.done, ended, epoch[j], f)
      BY <2>1 DEF Periods
    <2>11. \E g : Ended(Append(s.done, s.peak), ended, epoch[k], g)
      <3> DEFINE d == epoch[j]
                 e == epoch[k]
                 p == s.peak
                 q == s.done
      <3>1. d \in 0 .. Len(ended) /\ e \in 0 .. Len(ended) /\ d < e /\ p \in Nat /\ q \in Seq(Nat)
            /\ p <= ended[d + 1] /\ Ended(q, ended, d, f)
        BY <1>1, <1>2, <2>5, <2>8, <2>9, <2>10
      <3> HIDE DEF d, e, p, q
      <3>2. \E g : Ended(Append(q, p), ended, e, g)
        BY <3>1, EndedGrows
      <3> QED BY <3>2 DEF d, e, p, q
    <2> QED BY <1>1, <2>4, <2>11 DEF Periods, t
  <1>6. CASE u # None /\ ~(s.prev # None /\ u < s.prev)
    <2>1. t = [done |-> s.done, prev |-> u, peak |-> IF s.peak = None THEN u ELSE Max({s.peak, u})]
      BY <1>1, <1>6, UptimeCases
    <2> HIDE DEF t
    <2>2. t.prev = u /\ t.done = s.done
          /\ t.peak = IF s.peak = None THEN u ELSE Max({s.peak, u})
      BY <2>1
    <2>3. s.peak = s.prev
      BY DEF Periods, NoPeriod
    <2>4. t.peak = u
      <3>1. CASE s.peak = None
        BY <2>2, <3>1
      <3>2. CASE s.peak # None
        <4>1. s.peak \in Nat /\ u \in Nat
          BY <1>1, <1>6, <3>2 DEF UpLoop
        <4>2. ~(u < s.peak)
          BY <1>6, <2>3, <3>2
        <4>3. Max({s.peak, u}) = IF s.peak >= u THEN s.peak ELSE u
          BY <4>1, MaxOfTwo
        <4>4. Max({s.peak, u}) = u
          BY <4>1, <4>2, <4>3
        <4> QED BY <2>2, <3>2, <4>4
      <3> QED BY <3>1, <3>2
    <2> QED BY <1>1, <1>3, <2>2, <2>4 DEF Periods, t
  <1> QED BY <1>4, <1>5, <1>6

\* Each period of a report belongs to a restart of its own.
LEMMA PeriodsEnded ==
    ASSUME NEW rows \in Seq(SnapRow), NEW ended \in Seq(Nat), NEW alive \in Nat, NEW epoch,
           InEpochs(rows, epoch, ended, alive)
    PROVE  LET done == CompletedPeriods(rows)
               I    == DOMAIN done
           IN \E f \in [I -> DOMAIN ended] :
                 /\ \A i, j \in I : i < j => f[i] < f[j]
                 /\ \A i \in I : done[i] <= ended[f[i]]
  <1> DEFINE n == Len(rows)
             done == CompletedPeriods(rows)
             I == DOMAIN done
  <1>1. PICK h : /\ h[0] = NoPeriod /\ CompletedPeriods(rows) = h[Len(rows)].done
                 /\ \A k \in 1 .. Len(rows) : h[k] = UptimeStep(h[k - 1], rows[k].uptime)
                 /\ \A k \in 0 .. Len(rows) : h[k] \in UpLoop
    BY UptimeWalk
  <1> DEFINE T == {k \in Nat : k <= n => Periods(rows, epoch, ended, k, h[k])}
  <1>2. n \in Nat /\ n \in 0 .. n
    BY LenProperties
  <1>3. 0 \in T
    BY <1>1 DEF Periods
  <1>4. ASSUME NEW k \in T PROVE k + 1 \in T
    <2> SUFFICES ASSUME k + 1 <= n PROVE Periods(rows, epoch, ended, k + 1, h[k + 1])
      BY <1>4
    <2>1. k + 1 \in 1 .. Len(rows) /\ (k + 1) - 1 = k /\ k \in 0 .. Len(rows) /\ k <= n
      BY <1>2, <1>4
    <2>2. h[k + 1] = UptimeStep(h[k], rows[k + 1].uptime) /\ h[k] \in UpLoop
          /\ Periods(rows, epoch, ended, k, h[k])
      BY <1>1, <1>4, <2>1
    <2> HIDE DEF n
    <2> QED BY <2>1, <2>2, PeriodStep
  <1>5. T = Nat
    <2>1. T \in SUBSET Nat
      OBVIOUS
    <2> HIDE DEF T
    <2> QED BY <1>3, <1>4, <2>1, Induction
  <1>6. Periods(rows, epoch, ended, n, h[n])
    <2>1. n \in T
      <3> HIDE DEF T
      <3> QED BY <1>2, <1>5
    <2> QED BY <1>2, <2>1
  <1>7. done = h[n].done /\ done \in Seq(Nat)
    BY <1>1, <1>2 DEF UpLoop
  <1> HIDE DEF done
  <1>8. I = 1 .. Len(done) /\ DOMAIN ended = 1 .. Len(ended) /\ Len(done) \in Nat
    BY <1>7, LenProperties
  <1>9. PICK f : \E e : Ended(done, ended, e, f)
    <2>1. CASE n = 0
      <3>1. done = <<>>
        BY <1>6, <1>7, <2>1 DEF Periods, NoPeriod
      <3>2. Len(done) = 0
        BY <3>1, EmptySeq
      <3> QED BY <3>2 DEF Ended
    <2>2. CASE n # 0
      BY <1>6, <1>7, <2>2 DEF Periods
    <2> QED BY <2>1, <2>2
  <1> DEFINE g == [i \in I |-> f[i]]
  <1>10. g \in [I -> DOMAIN ended] /\ \A i \in I : g[i] = f[i]
    BY <1>8, <1>9 DEF Ended
  <1> HIDE DEF g
  <1>11. /\ \A i, j \in I : i < j => g[i] < g[j]
         /\ \A i \in I : done[i] <= ended[g[i]]
    BY <1>8, <1>9, <1>10 DEF Ended
  <1> QED BY <1>10, <1>11 DEF done

-----------------------------------------------------------------------------
(***************************************************************************)
(* The rows of the window, and the state they are of.                      *)
(***************************************************************************)
Suffix(rows, from) ==
    SubSeq(rows, 1 + Cardinality({i \in DOMAIN rows : rows[i].at < from}), Len(rows))

Until(rows, t) == \A i \in 1 .. Len(rows) : rows[i].at <= t

\* The rows that are left are the last ones, and all of them if none is too old.
LEMMA SuffixFacts ==
    ASSUME NEW S, NEW rows \in Seq(S), NEW from
    PROVE  /\ Suffix(rows, from) \in Seq(S)
           /\ \E c \in 0 .. Len(rows) :
                /\ Len(Suffix(rows, from)) = Len(rows) - c
                /\ \A i \in 1 .. Len(rows) - c : Suffix(rows, from)[i] = rows[c + i]
           /\ (\A i \in 1 .. Len(rows) : ~(rows[i].at < from)) => Suffix(rows, from) = rows
  <1> DEFINE old == {i \in DOMAIN rows : rows[i].at < from}
             c == Cardinality(old)
             t == Suffix(rows, from)
             n == Len(rows)
  <1>1. n \in Nat /\ DOMAIN rows = 1 .. n
    BY LenProperties
  <1>2. IsFiniteSet(1 .. n) /\ Cardinality(1 .. n) = n
    BY <1>1, FS_Interval
  <1>3. c \in 0 .. n
    <2>1. old \in SUBSET (1 .. n)
      BY <1>1
    <2>2. IsFiniteSet(old) /\ c <= n /\ c \in Nat
      <3> HIDE DEF old, n
      <3> QED BY <1>2, <2>1, FS_Subset, FS_CardinalityType
    <2> HIDE DEF c, n
    <2> QED BY <1>1, <2>2
  <1>4. t = SubSeq(rows, 1 + c, n)
    BY DEF Suffix
  <1>5. \A i \in 1 .. n : rows[i] \in S
    BY ElementOfSeq
  <1>6. (\A i \in 1 .. n : ~(rows[i].at < from)) => c = 0
    <2> SUFFICES ASSUME \A i \in 1 .. n : ~(rows[i].at < from) PROVE c = 0
      OBVIOUS
    <2>1. old = {}
      BY <1>1
    <2> HIDE DEF old
    <2> QED BY <2>1, FS_EmptySet
  <1> HIDE DEF c, t, n, old
  <1>7. /\ t \in Seq(S) /\ Len(t) = IF 1 + c <= n THEN n - (1 + c) + 1 ELSE 0
        /\ \A i \in 1 .. n - (1 + c) + 1 : t[i] = rows[(1 + c) + i - 1]
    <2>1. \A i \in 1 + c .. n : rows[i] \in S
      BY <1>3, <1>5
    <2>2. 1 + c \in Int /\ n \in Int
      BY <1>1, <1>3
    <2> QED BY <1>4, <2>1, <2>2, SubSeqProperties
  <1>8. Len(t) = n - c /\ \A i \in 1 .. n - c : t[i] = rows[c + i]
    <2>1. Len(t) = n - c /\ n - (1 + c) + 1 = n - c
      BY <1>1, <1>3, <1>7
    <2>2. ASSUME NEW i \in 1 .. n - c PROVE t[i] = rows[c + i]
      <3>1. (1 + c) + i - 1 = c + i /\ i \in 1 .. n - (1 + c) + 1
        BY <1>1, <1>3, <2>1
      <3> QED BY <1>7, <3>1
    <2> QED BY <2>1, <2>2
  <1>9. c = 0 => t = rows
    <2> SUFFICES ASSUME c = 0 PROVE t = rows
      OBVIOUS
    <2>1. t = SubSeq(rows, 1, Len(rows))
      BY <1>4 DEF n
    <2> QED BY <2>1, SubSeqFull
  <1> QED BY <1>3, <1>6, <1>7, <1>8, <1>9 DEF t, n

\* They are still in order, and of the same epochs.
LEMMA SuffixOrder ==
    ASSUME NEW S, NEW rows \in Seq(S), NEW from, NEW t, InOrder(rows), Until(rows, t)
    PROVE  InOrder(Suffix(rows, from)) /\ Until(Suffix(rows, from), t)
  <1> DEFINE r == Suffix(rows, from)
  <1>1. PICK c \in 0 .. Len(rows) :
          Len(r) = Len(rows) - c /\ \A i \in 1 .. Len(rows) - c : r[i] = rows[c + i]
    BY SuffixFacts
  <1>2. Len(rows) \in Nat
    BY LenProperties
  <1> HIDE DEF r
  <1>3. \A i \in 1 .. Len(r) : c + i \in 1 .. Len(rows) /\ r[i] = rows[c + i]
    BY <1>1, <1>2
  <1>4. \A i, j \in 1 .. Len(r) : i < j => c + i < c + j
    BY <1>1, <1>2
  <1> QED BY <1>3, <1>4 DEF r, InOrder, Until

LEMMA SuffixEpochs ==
    ASSUME NEW rows \in Seq(SnapRow), NEW from, NEW ended \in Seq(Nat), NEW alive, NEW epoch,
           InEpochs(rows, epoch, ended, alive)
    PROVE  \E e : InEpochs(Suffix(rows, from), e, ended, alive)
  <1> DEFINE r == Suffix(rows, from)
  <1>1. PICK c \in 0 .. Len(rows) :
          Len(r) = Len(rows) - c /\ \A i \in 1 .. Len(rows) - c : r[i] = rows[c + i]
    BY SuffixFacts
  <1>2. Len(rows) \in Nat
    BY LenProperties
  <1> HIDE DEF r
  <1> DEFINE e == [i \in 1 .. Len(r) |-> epoch[c + i]]
  <1>3. \A i \in 1 .. Len(r) :
          c + i \in 1 .. Len(rows) /\ r[i] = rows[c + i] /\ e[i] = epoch[c + i]
    BY <1>1, <1>2
  <1>4. \A i, j \in 1 .. Len(r) : i < j => c + i < c + j
    BY <1>1, <1>2
  <1> HIDE DEF e
  <1>5. InEpochs(r, e, ended, alive)
    BY <1>3, <1>4 DEF InEpochs
  <1> QED BY <1>5 DEF r

-----------------------------------------------------------------------------
\* The rows in the database are in the order of time.
RowsInOrder ==
    /\ gpu \in Seq(GpuRow) /\ InOrder(gpu) /\ Until(gpu, now)
    /\ snaps \in Seq(SnapRow) /\ InOrder(snaps) /\ Until(snaps, now)

\* Each snapshot is of the time between two restarts.
UptimesInEpochs == \E epoch : InEpochs(snaps, epoch, boots, up)

ReportInv ==
    /\ now \in Nat /\ up \in Nat /\ boots \in Seq(Nat)
    /\ RowsInOrder
    /\ UptimesInEpochs

LEMMA AppendOrder ==
    ASSUME NEW S, NEW rows \in Seq(S), NEW t \in Nat, NEW d \in Nat \ {0}, NEW row \in S,
           \A r \in S : r.at \in Nat, InOrder(rows), Until(rows, t), row.at = t + d
    PROVE  /\ Append(rows, row) \in Seq(S)
           /\ InOrder(Append(rows, row)) /\ Until(Append(rows, row), t + d)
  <1> DEFINE more == Append(rows, row)
             n == Len(rows)
  <1>1. /\ n \in Nat /\ more \in Seq(S) /\ Len(more) = n + 1 /\ more[n + 1] = row
        /\ \A i \in 1 .. n : more[i] = rows[i]
    BY AppendProperties, LenProperties
  <1>2. \A i \in 1 .. n : rows[i].at \in Nat /\ rows[i].at <= t
    <2>1. \A i \in 1 .. n : rows[i] \in S
      BY ElementOfSeq
    <2> QED BY <2>1 DEF Until
  <1>3. \A i, j \in 1 .. n : i < j => rows[i].at < rows[j].at
    BY DEF InOrder
  <1> HIDE DEF more, n
  <1>4. \A i \in 1 .. n + 1 : i \in 1 .. n \/ i = n + 1
    BY <1>1
  <1>5. \A i \in 1 .. n : more[i].at \in Nat /\ more[i].at < t + d /\ more[i].at = rows[i].at
    BY <1>1, <1>2
  <1>6. more[n + 1].at = t + d
    BY <1>1
  <1>7. Until(more, t + d)
    <2> SUFFICES ASSUME NEW i \in 1 .. n + 1 PROVE more[i].at <= t + d
      BY <1>1 DEF Until
    <2>1. CASE i \in 1 .. n
      BY <1>5, <2>1
    <2>2. CASE i = n + 1
      BY <1>6, <2>2
    <2> QED BY <1>4, <2>1, <2>2
  <1>8. InOrder(more)
    <2> SUFFICES ASSUME NEW i \in 1 .. n + 1, NEW j \in 1 .. n + 1, i < j
                 PROVE  more[i].at < more[j].at
      BY <1>1 DEF InOrder
    <2>1. i \in 1 .. n
      BY <1>1
    <2>2. CASE j \in 1 .. n
      BY <1>3, <1>5, <2>1, <2>2
    <2>3. CASE j = n + 1
      BY <1>5, <1>6, <2>1, <2>3
    <2> QED BY <1>4, <2>2, <2>3
  <1> QED BY <1>1, <1>7, <1>8 DEF more

\* The rows a heartbeat leaves.
LEMMA BeatRows ==
    ASSUME NEW d \in Gaps, NEW beat \in Beats, now \in Nat, up \in Nat, Heartbeat(d, beat)
    PROVE  /\ d \in Nat \ {0} /\ now' = now + d /\ up' = up + d /\ boots' = boots
           /\ gpu' = gpu \/ \E row \in GpuRow : row.at = now + d /\ gpu' = Append(gpu, row)
           /\ \E row \in SnapRow : /\ row.at = now + d /\ snaps' = Append(snaps, row)
                                   /\ row.uptime # None => row.uptime = up + d
  <1>1. d \in Nat \ {0} /\ now' = now + d /\ up' = up + d /\ boots' = boots
    BY ReportAssumption DEF Heartbeat
  <1>2. beat.gpu \in GpuReading \cup {NoGpu} /\ beat.job \in {0, 1, None}
    BY ReportAssumption
  <1>3. gpu' = gpu \/ \E row \in GpuRow : row.at = now + d /\ gpu' = Append(gpu, row)
    <2>1. CASE beat.gpu = NoGpu
      BY <2>1 DEF Heartbeat
    <2>2. CASE beat.gpu # NoGpu
      <3> DEFINE row == [at |-> now', temp |-> beat.gpu.temp, util |-> beat.gpu.util,
                         power |-> beat.gpu.power]
      <3>1. beat.gpu \in GpuReading
        BY <1>2, <2>2
      <3>2. /\ beat.gpu.temp \in Nat \cup {None} /\ beat.gpu.util \in 0 .. 100 \cup {None}
            /\ beat.gpu.power \in Nat \cup {None}
        BY <3>1 DEF GpuReading
      <3>3. now' \in Nat
        BY <1>1
      <3>4. row \in GpuRow /\ row.at = now + d
        BY <1>1, <3>2, <3>3 DEF GpuRow
      <3>5. gpu' = Append(gpu, row)
        BY <2>2 DEF Heartbeat
      <3> QED BY <3>4, <3>5
    <2> QED BY <2>1, <2>2
  <1>4. \E row \in SnapRow : /\ row.at = now + d /\ snaps' = Append(snaps, row)
                             /\ row.uptime # None => row.uptime = up + d
    <2> DEFINE row == [at |-> now', job |-> beat.job,
                       uptime |-> IF beat.gpu = NoGpu THEN None ELSE up']
    <2>1. now' \in Nat /\ up' \in Nat
      BY <1>1
    <2>2. row \in SnapRow /\ row.at = now + d /\ (row.uptime # None => row.uptime = up + d)
      BY <1>1, <1>2, <2>1 DEF SnapRow
    <2>3. snaps' = Append(snaps, row)
      BY DEF Heartbeat
    <2> QED BY <2>2, <2>3
  <1> QED BY <1>1, <1>3, <1>4

\* A snapshot is of the time since the last restart; a restart ends it.
LEMMA EpochOfBeat ==
    ASSUME NEW rows \in Seq(SnapRow), NEW ended \in Seq(Nat), NEW alive \in Nat, NEW epoch,
           InEpochs(rows, epoch, ended, alive), NEW d \in Nat, NEW row \in SnapRow,
           row.uptime # None => row.uptime = alive + d
    PROVE  \E e : InEpochs(Append(rows, row), e, ended, alive + d)
  <1> DEFINE more == Append(rows, row)
             n == Len(rows)
             m == Len(ended)
             e == [i \in 1 .. n + 1 |-> IF i = n + 1 THEN m ELSE epoch[i]]
             Upto(i) == IF epoch[i] < m THEN ended[epoch[i] + 1] ELSE alive
  <1>1. /\ n \in Nat /\ Len(more) = n + 1 /\ more[n + 1] = row
        /\ \A i \in 1 .. n : more[i] = rows[i]
        /\ m \in Nat /\ None \notin Int
    BY AppendProperties, LenProperties, ReportAssumption
  <1>2. \A i \in 1 .. n : epoch[i] \in 0 .. m /\ (rows[i].uptime # None => rows[i].uptime <= Upto(i))
    BY DEF InEpochs
  <1>3. e[n + 1] = m /\ \A i \in 1 .. n : e[i] = epoch[i]
    BY <1>1
  <1>4. \A i \in 1 .. n : rows[i].uptime \in Nat \cup {None}
    BY SnapTypes
  <1>5. \A i, j \in 1 .. n : i < j => epoch[i] <= epoch[j]
    BY DEF InEpochs
  <1>6. \A i, j \in 1 .. n :
          i < j /\ epoch[i] = epoch[j] /\ rows[i].uptime # None /\ rows[j].uptime # None
            => rows[i].uptime <= rows[j].uptime
    BY DEF InEpochs
  <1> HIDE DEF more, n, m, e
  <1>7. \A i \in 1 .. n + 1 : i \in 1 .. n \/ i = n + 1
    BY <1>1
  <1>8. \A i, j \in 1 .. n + 1 : i < j => i \in 1 .. n
    BY <1>1
  <1>9. \A i \in 1 .. n + 1 : e[i] \in 0 .. m
    BY <1>1, <1>2, <1>3, <1>7
  <1>10. \A i, j \in 1 .. n + 1 : i < j => e[i] <= e[j]
    <2> SUFFICES ASSUME NEW i \in 1 .. n + 1, NEW j \in 1 .. n + 1, i < j PROVE e[i] <= e[j]
      OBVIOUS
    <2>1. i \in 1 .. n
      BY <1>8
    <2>2. CASE j \in 1 .. n
      BY <1>3, <1>5, <2>1, <2>2
    <2>3. CASE j = n + 1
      BY <1>2, <1>3, <2>1, <2>3
    <2> QED BY <1>7, <2>2, <2>3
  <1>11. ASSUME NEW i \in 1 .. n + 1, more[i].uptime # None
         PROVE  more[i].uptime <= IF e[i] < m THEN ended[e[i] + 1] ELSE alive + d
    <2>1. CASE i \in 1 .. n
      <3>1. more[i].uptime = rows[i].uptime /\ e[i] = epoch[i] /\ rows[i].uptime \in Nat
            /\ rows[i].uptime <= Upto(i)
        BY <1>1, <1>2, <1>3, <1>4, <1>11, <2>1
      <3>2. CASE epoch[i] < m
        BY <3>1, <3>2
      <3>3. CASE ~(epoch[i] < m)
        BY <3>1, <3>3
      <3> QED BY <3>2, <3>3
    <2>2. CASE i = n + 1
      <3>1. more[i].uptime = alive + d /\ e[i] = m
        BY <1>1, <1>3, <1>11, <2>2
      <3> QED BY <1>1, <3>1
    <2> QED BY <1>7, <2>1, <2>2
  <1>12. ASSUME NEW i \in 1 .. n + 1, NEW j \in 1 .. n + 1, i < j, e[i] = e[j],
                more[i].uptime # None, more[j].uptime # None
         PROVE  more[i].uptime <= more[j].uptime
    <2>1. i \in 1 .. n /\ more[i].uptime = rows[i].uptime /\ e[i] = epoch[i]
      BY <1>1, <1>3, <1>8, <1>12
    <2>2. CASE j \in 1 .. n
      BY <1>1, <1>3, <1>6, <1>12, <2>1, <2>2
    <2>3. CASE j = n + 1
      <3>1. epoch[i] = m /\ more[j].uptime = alive + d
        BY <1>1, <1>3, <1>12, <2>1, <2>3
      <3>2. rows[i].uptime \in Nat /\ rows[i].uptime <= alive
        BY <1>1, <1>2, <1>4, <1>12, <2>1, <3>1
      <3> QED BY <2>1, <3>1, <3>2
    <2> QED BY <1>7, <2>2, <2>3
  <1>13. InEpochs(more, e, ended, alive + d)
    BY <1>1, <1>9, <1>10, <1>11, <1>12 DEF InEpochs, m
  <1> QED BY <1>13 DEF more

LEMMA EpochOfRestart ==
    ASSUME NEW rows \in Seq(SnapRow), NEW ended \in Seq(Nat), NEW alive \in Nat, NEW epoch,
           InEpochs(rows, epoch, ended, alive)
    PROVE  InEpochs(rows, epoch, Append(ended, alive), 0)
  <1> DEFINE more == Append(ended, alive)
             m == Len(ended)
  <1>1. /\ m \in Nat /\ Len(more) = m + 1 /\ more[m + 1] = alive
        /\ \A i \in 1 .. m : more[i] = ended[i]
    BY AppendProperties, LenProperties
  <1>2. \A i \in 1 .. Len(rows) : epoch[i] \in 0 .. m
    BY DEF InEpochs
  <1> HIDE DEF more, m
  <1>3. ASSUME NEW i \in 1 .. Len(rows), rows[i].uptime # None
        PROVE  rows[i].uptime <= IF epoch[i] < m + 1 THEN more[epoch[i] + 1] ELSE 0
    <2>1. rows[i].uptime <= IF epoch[i] < m THEN ended[epoch[i] + 1] ELSE alive
      BY <1>3 DEF InEpochs, m
    <2>2. CASE epoch[i] < m
      <3>1. epoch[i] + 1 \in 1 .. m /\ epoch[i] < m + 1
        BY <1>1, <1>2, <2>2
      <3> QED BY <1>1, <2>1, <2>2, <3>1
    <2>3. CASE ~(epoch[i] < m)
      <3>1. epoch[i] = m /\ m < m + 1
        BY <1>1, <1>2, <2>3
      <3> QED BY <1>1, <2>1, <2>3, <3>1
    <2> QED BY <2>2, <2>3
  <1>4. \A i \in 1 .. Len(rows) : epoch[i] \in 0 .. m + 1
    BY <1>1, <1>2
  <1> QED BY <1>1, <1>3, <1>4 DEF InEpochs, more

-----------------------------------------------------------------------------
LEMMA ReportInit ==
    ASSUME RInit
    PROVE  ReportInv
  <1>1. now = 0 /\ up = 0 /\ boots = <<>> /\ gpu = <<>> /\ snaps = <<>>
    BY DEF RInit
  <1>2. boots \in Seq(Nat) /\ gpu \in Seq(GpuRow) /\ snaps \in Seq(SnapRow)
        /\ Len(gpu) = 0 /\ Len(snaps) = 0
    BY <1>1, EmptySeq
  <1>3. RowsInOrder /\ UptimesInEpochs
    BY <1>2 DEF RowsInOrder, UptimesInEpochs, InOrder, Until, InEpochs
  <1> QED BY <1>1, <1>2, <1>3 DEF ReportInv

LEMMA ReportStep ==
    ASSUME ReportInv, [RNext]_rpVars
    PROVE  ReportInv'
  <1>1. /\ now \in Nat /\ up \in Nat /\ boots \in Seq(Nat)
        /\ gpu \in Seq(GpuRow) /\ InOrder(gpu) /\ Until(gpu, now)
        /\ snaps \in Seq(SnapRow) /\ InOrder(snaps) /\ Until(snaps, now)
    BY DEF ReportInv, RowsInOrder
  <1>2. PICK epoch : InEpochs(snaps, epoch, boots, up)
    BY DEF ReportInv, UptimesInEpochs
  <1>3. CASE Restart
    <2>1. boots' = Append(boots, up) /\ up' = 0 /\ now' = now /\ gpu' = gpu /\ snaps' = snaps
      BY <1>3 DEF Restart
    <2>2. boots' \in Seq(Nat)
      BY <1>1, <2>1, AppendProperties
    <2>3. InEpochs(snaps, epoch, Append(boots, up), 0)
      BY <1>1, <1>2, EpochOfRestart
    <2>4. UptimesInEpochs'
      BY <2>1, <2>3 DEF UptimesInEpochs
    <2>5. RowsInOrder'
      BY <1>1, <2>1 DEF RowsInOrder
    <2> QED BY <1>1, <2>1, <2>2, <2>4, <2>5 DEF ReportInv
  <1>4. ASSUME NEW d \in Gaps, NEW beat \in Beats, Heartbeat(d, beat)
        PROVE  ReportInv'
    <2>1. /\ d \in Nat \ {0} /\ now' = now + d /\ up' = up + d /\ boots' = boots
          /\ gpu' = gpu \/ \E row \in GpuRow : row.at = now + d /\ gpu' = Append(gpu, row)
          /\ \E row \in SnapRow : /\ row.at = now + d /\ snaps' = Append(snaps, row)
                                  /\ row.uptime # None => row.uptime = up + d
      BY <1>1, <1>4, BeatRows
    <2>2. gpu' \in Seq(GpuRow) /\ InOrder(gpu') /\ Until(gpu', now')
      <3>1. CASE gpu' = gpu
        <4>1. \A i \in 1 .. Len(gpu) : gpu[i].at <= now + d
          BY <1>1, <2>1, RowTypes DEF Until
        <4> QED BY <1>1, <2>1, <3>1, <4>1 DEF Until
      <3>2. ASSUME NEW row \in GpuRow, row.at = now + d, gpu' = Append(gpu, row)
            PROVE  gpu' \in Seq(GpuRow) /\ InOrder(gpu') /\ Until(gpu', now')
        <4>1. \A r \in GpuRow : r.at \in Nat
          BY DEF GpuRow
        <4>2. /\ Append(gpu, row) \in Seq(GpuRow) /\ InOrder(Append(gpu, row))
              /\ Until(Append(gpu, row), now + d)
          BY <1>1, <2>1, <3>2, <4>1, AppendOrder
        <4> QED BY <2>1, <3>2, <4>2
      <3> QED BY <2>1, <3>1, <3>2
    <2>3. PICK row \in SnapRow : /\ row.at = now + d /\ snaps' = Append(snaps, row)
                                 /\ row.uptime # None => row.uptime = up + d
      BY <2>1
    <2>4. snaps' \in Seq(SnapRow) /\ InOrder(snaps') /\ Until(snaps', now')
      <3>1. \A r \in SnapRow : r.at \in Nat
        BY DEF SnapRow
      <3>2. /\ Append(snaps, row) \in Seq(SnapRow) /\ InOrder(Append(snaps, row))
            /\ Until(Append(snaps, row), now + d)
        BY <1>1, <2>1, <2>3, <3>1, AppendOrder
      <3> QED BY <2>1, <2>3, <3>2
    <2>5. UptimesInEpochs'
      <3>1. \E e : InEpochs(Append(snaps, row), e, boots, up + d)
        <4>1. d \in Nat
          BY <2>1
        <4> QED BY <1>1, <1>2, <2>3, <4>1, EpochOfBeat
      <3> QED BY <2>1, <2>3, <3>1 DEF UptimesInEpochs
    <2>6. now' \in Nat /\ up' \in Nat /\ boots' \in Seq(Nat)
      BY <1>1, <2>1
    <2> QED BY <2>2, <2>4, <2>5, <2>6 DEF ReportInv, RowsInOrder
  <1>5. CASE UNCHANGED rpVars
    BY <1>5 DEF rpVars, ReportInv, RowsInOrder, UptimesInEpochs
  <1> QED BY <1>3, <1>4, <1>5 DEF RNext

\* In every state the rows are in the order of time, none later than now, and each
\* uptime is of the time between two restarts of the rig.
THEOREM ReportTyped == RSpec => []ReportInv
  <1> QED BY ReportInit, ReportStep, PTL DEF RSpec

LEMMA WindowRows ==
    ASSUME ReportInv
    PROVE  /\ GpuRaw \in Seq(GpuRow) /\ InOrder(GpuRaw) /\ Until(GpuRaw, now)
           /\ Snaps \in Seq(SnapRow) /\ InOrder(Snaps)
           /\ \E epoch : InEpochs(Snaps, epoch, boots, up)
  <1>1. /\ GpuRaw = Suffix(gpu, now - Window) /\ Snaps = Suffix(snaps, now - Window)
    BY DEF GpuRaw, Snaps, InWindow, Suffix
  <1>2. /\ gpu \in Seq(GpuRow) /\ InOrder(gpu) /\ Until(gpu, now)
        /\ snaps \in Seq(SnapRow) /\ InOrder(snaps) /\ Until(snaps, now) /\ boots \in Seq(Nat)
    BY DEF ReportInv, RowsInOrder
  <1>3. PICK epoch : InEpochs(snaps, epoch, boots, up)
    BY DEF ReportInv, UptimesInEpochs
  <1>4. Suffix(gpu, now - Window) \in Seq(GpuRow) /\ Suffix(snaps, now - Window) \in Seq(SnapRow)
    BY <1>2, SuffixFacts
  <1>5. /\ InOrder(Suffix(gpu, now - Window)) /\ Until(Suffix(gpu, now - Window), now)
        /\ InOrder(Suffix(snaps, now - Window))
    BY <1>2, SuffixOrder
  <1>6. \E e : InEpochs(Suffix(snaps, now - Window), e, boots, up)
    BY <1>2, <1>3, SuffixEpochs
  <1> QED BY <1>1, <1>4, <1>5, <1>6

\* The loops of a report find what there is: an event for each run of hot rows
\* without a gap, and the longest of them; no more active and idle time than has
\* passed; and only periods that ended in a restart (_build_report_context).
THEOREM EventsReal == RSpec => []EventsAreReal
  <1>1. ReportInv => EventsAreReal
    <2> SUFFICES ASSUME ReportInv PROVE EventsAreReal
      OBVIOUS
    <2>1. /\ GpuRaw \in Seq(GpuRow) /\ InOrder(GpuRaw) /\ Until(GpuRaw, now)
          /\ Snaps \in Seq(SnapRow) /\ InOrder(Snaps) /\ now \in Nat /\ up \in Nat
          /\ boots \in Seq(Nat)
      BY WindowRows DEF ReportInv
    <2>2. PICK epoch : InEpochs(Snaps, epoch, boots, up)
      BY WindowRows
    <2>3. ExceedanceIsRight
      <3>1. RightAbout(GpuRaw)
        BY <2>1, ExceedanceAll
      <3> QED BY <3>1 DEF RightAbout, ExceedanceIsRight
    <2>4. WorkAndIdlingDisjoint
      BY <2>1, WorkAndIdle DEF WorkAndIdlingDisjoint, Until
    <2>5. RestartsAreReal
      BY <2>1, <2>2, PeriodsEnded DEF RestartsAreReal
    <2> QED BY <2>3, <2>4, <2>5 DEF EventsAreReal
  <1> QED BY <1>1, ReportTyped, PTL

-----------------------------------------------------------------------------
(***************************************************************************)
(* What a report has shown stays as long as no row leaves the window.      *)
(***************************************************************************)
Extends(rows, more) ==
    /\ Len(more) = Len(rows) \/ Len(more) = Len(rows) + 1
    /\ \A i \in 1 .. Len(rows) : more[i] = rows[i]

LEMMA ExceedanceGrows ==
    ASSUME NEW rows \in Seq(GpuRow), InOrder(rows), NEW more \in Seq(GpuRow), InOrder(more),
           Extends(rows, more)
    PROVE  /\ Exceedance(rows).events <= Exceedance(more).events
           /\ Exceedance(rows).longest <= Exceedance(more).longest
  <1> DEFINE n == Len(rows)
             m == Len(more)
             d == Exceedance(rows)
             e == Exceedance(more)
  <1>1. /\ d \in Exceeding /\ Found(rows, n, d) /\ Longest(rows, n, d)
        /\ e \in Exceeding /\ Found(more, m, e) /\ Longest(more, m, e)
    BY ExceedanceFound
  <1>2. n \in Nat /\ m \in Nat /\ n <= m
    BY LenProperties DEF Extends
  <1> HIDE DEF d, e
  <1>3. \A i \in 1 .. n : more[i] = rows[i] /\ i \in 1 .. m
    BY <1>2 DEF Extends
  <1>4. \A k \in 1 .. n - 1 : Joined(more, k) <=> Joined(rows, k)
    <2> SUFFICES ASSUME NEW k \in 1 .. n - 1 PROVE Joined(more, k) <=> Joined(rows, k)
      OBVIOUS
    <2>1. k \in 1 .. n /\ k + 1 \in 1 .. n /\ k \in 1 .. m - 1
      BY <1>2
    <2>2. more[k] = rows[k] /\ more[k + 1] = rows[k + 1]
      BY <1>3, <2>1
    <2> QED BY <2>1, <2>2 DEF Joined, Gap
  <1>5. d.events <= e.events
    <2>1. Beginnings(rows, n) \subseteq Beginnings(more, m)
      <3> SUFFICES ASSUME NEW i \in 1 .. n, Begins(rows, i) PROVE Begins(more, i) /\ i \in 1 .. m
        BY DEF Beginnings
      <3>1. more[i] = rows[i] /\ i \in 1 .. m
        BY <1>3
      <3>2. CASE i = 1
        BY <3>1, <3>2 DEF Begins
      <3>3. CASE i # 1
        <4>1. i - 1 \in 1 .. n - 1 /\ i - 1 \in 1 .. n
          BY <1>2, <3>3
        <4>2. more[i - 1] = rows[i - 1] /\ (Joined(more, i - 1) <=> Joined(rows, i - 1))
          BY <1>3, <1>4, <4>1
        <4> QED BY <3>1, <3>3, <4>2 DEF Begins
      <3> QED BY <3>2, <3>3
    <2>2. m \in 0 .. Len(more)
      BY <1>2
    <2>3. IsFiniteSet(Beginnings(more, m))
      BY <2>2, HotGapsFacts
    <2>4. Cardinality(Beginnings(rows, n)) <= Cardinality(Beginnings(more, m))
      BY <2>1, <2>3, FS_Subset
    <2> QED BY <1>1, <2>4 DEF Found
  <1>6. d.longest <= e.longest
    <2>1. d.longest \in Nat /\ e.longest \in Nat
      BY <1>1 DEF Exceeding
    <2>2. CASE d.longest = 0
      BY <2>1, <2>2
    <2>3. CASE d.longest # 0
      <3>1. PICK b \in 1 .. n : \E a \in 1 .. b :
              Chain(rows, a, b) /\ d.longest = rows[b].at - rows[a].at
        BY <1>1, <2>3 DEF Longest
      <3>2. PICK a \in 1 .. b : Chain(rows, a, b) /\ d.longest = rows[b].at - rows[a].at
        BY <3>1
      <3>3. rows[a].at \in Nat /\ rows[b].at \in Nat /\ a \in 1 .. n
        <4>1. a \in 1 .. n
          BY <1>2
        <4>2. a \in 1 .. Len(rows) /\ b \in 1 .. Len(rows)
          BY <1>2, <4>1
        <4> QED BY <4>1, <4>2, RowTypes
      <3>4. a # b
        BY <2>3, <3>2, <3>3
      <3>5. b \in 1 .. m + 1 /\ a \in 1 .. b - 1
        BY <1>2, <3>4
      <3>6. Chain(more, a, b)
        <4> SUFFICES ASSUME NEW k \in a .. b - 1 PROVE Hot(more[k]) /\ Joined(more, k)
          BY DEF Chain
        <4>1. k \in 1 .. n /\ k \in 1 .. n - 1
          BY <1>2
        <4>2. Hot(rows[k]) /\ Joined(rows, k)
          BY <3>2 DEF Chain
        <4> QED BY <1>3, <1>4, <4>1, <4>2
      <3>7. e.longest >= more[b].at - more[a].at
        BY <1>1, <3>5, <3>6 DEF Longest
      <3>8. more[b] = rows[b] /\ more[a] = rows[a]
        BY <1>3, <3>3
      <3> QED BY <2>1, <3>2, <3>3, <3>7, <3>8
    <2> QED BY <2>2, <2>3
  <1> QED BY <1>5, <1>6 DEF d, e

\* Two walks that begin alike and make the same steps are at the same place.
LEMMA SameWalk ==
    ASSUME NEW n \in Nat, NEW f, NEW g, f[0] = g[0],
           \A k \in 1 .. n : f[k - 1] = g[k - 1] => f[k] = g[k]
    PROVE  \A k \in 0 .. n : f[k] = g[k]
  <1> DEFINE T == {k \in Nat : k <= n => f[k] = g[k]}
  <1>1. 0 \in T
    OBVIOUS
  <1>2. ASSUME NEW k \in T PROVE k + 1 \in T
    <2> SUFFICES ASSUME k + 1 <= n PROVE f[k + 1] = g[k + 1]
      BY <1>2
    <2>1. k + 1 \in 1 .. n /\ (k + 1) - 1 = k /\ f[k] = g[k]
      BY <1>2
    <2> QED BY <2>1
  <1>3. T = Nat
    <2>1. T \in SUBSET Nat
      OBVIOUS
    <2> HIDE DEF T
    <2> QED BY <1>1, <1>2, <2>1, Induction
  <1> QED BY <1>3

LEMMA TransitionsGrow ==
    ASSUME NEW rows \in Seq(SnapRow), NEW more \in Seq(SnapRow), Extends(rows, more)
    PROVE  Transitions(rows) <= Transitions(more)
  <1> DEFINE n == Len(rows)
             m == Len(more)
  <1>1. PICK f : /\ f[0] = NoSwitch /\ Transitions(rows) = f[Len(rows)].n
                 /\ \A k \in 1 .. Len(rows) : f[k] = TransitionStep(f[k - 1], rows[k].job)
                 /\ \A k \in 0 .. Len(rows) : f[k] \in Switching
    BY TransitionWalk
  <1>2. PICK g : /\ g[0] = NoSwitch /\ Transitions(more) = g[Len(more)].n
                 /\ \A k \in 1 .. Len(more) : g[k] = TransitionStep(g[k - 1], more[k].job)
                 /\ \A k \in 0 .. Len(more) : g[k] \in Switching
    BY TransitionWalk
  <1>3. n \in Nat /\ m \in Nat /\ (m = n \/ m = n + 1) /\ \A i \in 1 .. n : more[i] = rows[i]
    BY LenProperties DEF Extends
  <1>4. ASSUME NEW k \in 1 .. n, f[k - 1] = g[k - 1] PROVE f[k] = g[k]
    <2>1. k \in 1 .. m /\ more[k] = rows[k]
      BY <1>3
    <2> QED BY <1>1, <1>2, <1>4, <2>1
  <1>5. f[n] = g[n]
    <2>1. n \in Nat /\ n \in 0 .. n /\ f[0] = g[0]
      BY <1>1, <1>2, <1>3
    <2>2. \A k \in 1 .. n : f[k - 1] = g[k - 1] => f[k] = g[k]
      BY <1>4
    <2> HIDE DEF n
    <2>3. \A k \in 0 .. n : f[k] = g[k]
      BY <2>1, <2>2, SameWalk
    <2> QED BY <2>1, <2>3
  <1>6. g[n] \in Switching /\ n \in 0 .. m
    BY <1>2, <1>3
  <1>7. g[n].n \in Nat
    BY <1>6 DEF Switching
  <1>8. CASE m = n
    BY <1>1, <1>2, <1>5, <1>7, <1>8
  <1>9. CASE m = n + 1
    <2>1. n + 1 \in 1 .. m /\ (n + 1) - 1 = n
      BY <1>3, <1>9
    <2>2. g[n + 1] = TransitionStep(g[n], more[n + 1].job)
      BY <1>2, <2>1
    <2>3. g[n + 1].n = g[n].n \/ g[n + 1].n = g[n].n + 1
      <3> DEFINE p == g[n]
                 j == more[n + 1].job
      <3>1. TransitionStep(p, j).n = p.n + (IF j # None /\ p.prev # None /\ j # p.prev THEN 1 ELSE 0)
        BY DEF TransitionStep
      <3>2. p.n \in Nat
        BY <1>7
      <3> HIDE DEF p, j
      <3>3. TransitionStep(p, j).n = p.n \/ TransitionStep(p, j).n = p.n + 1
        BY <3>1, <3>2
      <3> QED BY <2>2, <3>3 DEF p, j
    <2>4. Transitions(rows) = g[n].n /\ Transitions(more) = g[n + 1].n
      BY <1>1, <1>2, <1>5, <1>9
    <2> HIDE DEF n, m
    <2> QED BY <1>7, <2>3, <2>4
  <1> QED BY <1>3, <1>8, <1>9

\* A new snapshot says nothing of an earlier time.
LEMMA JobsStay ==
    ASSUME NEW jobs \in Seq(SnapRow), NEW later \in Seq(SnapRow), InOrder(later),
           Extends(jobs, later), NEW t \in Nat,
           \A i \in 1 .. Len(later) : i > Len(jobs) => later[i].at > t
    PROVE  JobAt(later, t) = JobAt(jobs, t)
  <1>1. /\ Len(jobs) \in Nat /\ Len(later) \in Nat /\ Len(jobs) <= Len(later)
        /\ DOMAIN jobs = 1 .. Len(jobs) /\ DOMAIN later = 1 .. Len(later)
    BY LenProperties DEF Extends
  <1>2. \A i \in 1 .. Len(jobs) : later[i] = jobs[i] /\ i \in 1 .. Len(later)
    <2> SUFFICES ASSUME NEW i \in 1 .. Len(jobs) PROVE later[i] = jobs[i] /\ i \in 1 .. Len(later)
      OBVIOUS
    <2>1. later[i] = jobs[i]
      BY DEF Extends
    <2>2. i \in 1 .. Len(later)
      BY <1>1
    <2> QED BY <2>1, <2>2
  <1>3. \A i \in 1 .. Len(later) : later[i].at = t => i \in 1 .. Len(jobs)
    <2> SUFFICES ASSUME NEW i \in 1 .. Len(later), later[i].at = t PROVE i \in 1 .. Len(jobs)
      OBVIOUS
    <2>1. ~(i > Len(jobs))
      <3> SUFFICES ASSUME i > Len(jobs) PROVE FALSE
        OBVIOUS
      <3>1. later[i].at > t
        OBVIOUS
      <3>2. t > t
        BY <3>1
      <3> QED BY <3>2
    <2> QED BY <1>1, <2>1
  <1>4. {i \in DOMAIN jobs : jobs[i].at = t} = {i \in DOMAIN later : later[i].at = t}
    BY <1>1, <1>2, <1>3
  <1>5. CASE \E i \in DOMAIN jobs : jobs[i].at = t
    <2> DEFINE a == CHOOSE i \in DOMAIN jobs : jobs[i].at = t
               b == CHOOSE i \in DOMAIN later : later[i].at = t
    <2>1. a \in DOMAIN jobs /\ jobs[a].at = t
      BY <1>5
    <2>2. \E i \in DOMAIN later : later[i].at = t
      BY <1>1, <1>2, <1>5
    <2>3. b \in DOMAIN later /\ later[b].at = t
      BY <2>2
    <2>4. JobAt(jobs, t) = jobs[a].job /\ JobAt(later, t) = later[b].job
      BY <1>5, <2>2 DEF JobAt
    <2> HIDE DEF a, b
    <2>5. a \in 1 .. Len(later) /\ later[a] = jobs[a] /\ b \in 1 .. Len(later)
      BY <1>1, <1>2, <2>1, <2>3
    <2>6. a = b
      <3>1. ~(a < b) /\ ~(b < a)
        BY <2>1, <2>3, <2>5 DEF InOrder
      <3> QED BY <2>5, <3>1
    <2> QED BY <2>4, <2>5, <2>6
  <1>6. CASE ~\E i \in DOMAIN jobs : jobs[i].at = t
    <2>1. ~\E i \in DOMAIN later : later[i].at = t
      BY <1>1, <1>2, <1>3, <1>6
    <2> QED BY <1>6, <2>1 DEF JobAt
  <1> QED BY <1>5, <1>6

LEMMA IdleGrows ==
    ASSUME NEW rows \in Seq(GpuRow), NEW more \in Seq(GpuRow), InOrder(more),
           Extends(rows, more), NEW jobs, NEW later,
           \A i \in 1 .. Len(rows) : JobAt(later, rows[i].at) = JobAt(jobs, rows[i].at)
    PROVE  Underutilized(rows, jobs) <= Underutilized(more, later)
  <1> DEFINE n == Len(rows)
             m == Len(more)
  <1>1. PICK f : /\ f[0] = NotIdling
                 /\ Underutilized(rows, jobs) = f[Len(rows)].total
                       + (IF f[Len(rows)].start = None THEN 0
                          ELSE rows[Len(rows)].at - f[Len(rows)].start)
                 /\ \A k \in 1 .. Len(rows) : f[k] = IdlingStep(rows, jobs, f[k - 1], k)
                 /\ \A k \in 0 .. Len(rows) : f[k] \in Idleness
    BY IdlingWalk
  <1>2. PICK g : /\ g[0] = NotIdling
                 /\ Underutilized(more, later) = g[Len(more)].total
                       + (IF g[Len(more)].start = None THEN 0
                          ELSE more[Len(more)].at - g[Len(more)].start)
                 /\ \A k \in 1 .. Len(more) : g[k] = IdlingStep(more, later, g[k - 1], k)
                 /\ \A k \in 0 .. Len(more) : g[k] \in Idleness
    BY IdlingWalk
  <1>3. n \in Nat /\ m \in Nat /\ (m = n \/ m = n + 1) /\ \A i \in 1 .. n : more[i] = rows[i]
    BY LenProperties DEF Extends
  <1>4. ASSUME NEW k \in 1 .. n, f[k - 1] = g[k - 1] PROVE f[k] = g[k]
    <2>1. k \in 1 .. m /\ more[k] = rows[k] /\ JobAt(later, rows[k].at) = JobAt(jobs, rows[k].at)
      BY <1>3
    <2>2. Idling(more[k], later) <=> Idling(rows[k], jobs)
      BY <2>1 DEF Idling
    <2>3. IdlingStep(more, later, f[k - 1], k) = IdlingStep(rows, jobs, f[k - 1], k)
      BY <2>1, <2>2 DEF IdlingStep
    <2>4. g[k] = IdlingStep(more, later, g[k - 1], k) /\ f[k] = IdlingStep(rows, jobs, f[k - 1], k)
      BY <1>1, <1>2, <2>1
    <2> QED BY <1>4, <2>3, <2>4
  <1>5. f[n] = g[n]
    <2>1. n \in Nat /\ n \in 0 .. n /\ f[0] = g[0]
      BY <1>1, <1>2, <1>3
    <2>2. \A k \in 1 .. n : f[k - 1] = g[k - 1] => f[k] = g[k]
      BY <1>4
    <2> HIDE DEF n
    <2>3. \A k \in 0 .. n : f[k] = g[k]
      BY <2>1, <2>2, SameWalk
    <2> QED BY <2>1, <2>3
  <1>6. g[n] \in Idleness /\ n \in 0 .. m
    BY <1>2, <1>3
  <1>7. g[n].total \in Int /\ g[n].start \in Nat \cup {None} /\ None \notin Int
    BY <1>6, ReportAssumption DEF Idleness
  <1>8. Underutilized(rows, jobs)
          = g[n].total + (IF g[n].start = None THEN 0 ELSE rows[n].at - g[n].start)
    BY <1>1, <1>5
  <1>9. n = 0 => g[n].start = None
    BY <1>2 DEF NotIdling
  <1>10. n # 0 => n \in 1 .. n /\ rows[n].at \in Nat /\ more[n] = rows[n]
    BY <1>3, RowTypes
  <1>11. CASE m = n
    <2>1. Underutilized(more, later)
            = g[n].total + (IF g[n].start = None THEN 0 ELSE more[n].at - g[n].start)
      BY <1>2, <1>11
    <2>2. Underutilized(more, later) = Underutilized(rows, jobs)
      BY <1>8, <1>9, <1>10, <2>1
    <2>3. Underutilized(rows, jobs) \in Int
      <3>1. CASE g[n].start = None
        BY <1>7, <1>8, <3>1
      <3>2. CASE g[n].start # None
        BY <1>7, <1>8, <1>9, <1>10, <3>2
      <3> QED BY <3>1, <3>2
    <2> QED BY <2>2, <2>3
  <1>12. CASE m = n + 1
    <2>1. n + 1 \in 1 .. Len(more) /\ (n + 1) - 1 = n /\ more[n + 1].at \in Nat
      BY <1>3, <1>12, RowTypes
    <2>2. g[n + 1] = IdlingStep(more, later, g[n], n + 1)
      BY <1>2, <2>1
    <2>3. IdledBy(more, n + 1, g[n + 1])
            = g[n].total + (IF g[n].start = None THEN 0 ELSE more[n + 1].at - g[n].start)
      BY <1>6, <2>1, <2>2, IdleStep
    <2>4. Underutilized(more, later) = IdledBy(more, n + 1, g[n + 1])
      BY <1>2, <1>12 DEF IdledBy
    <2>5. CASE g[n].start = None
      BY <1>7, <1>8, <2>3, <2>4, <2>5
    <2>6. CASE g[n].start # None
      <3>1. n \in 1 .. Len(more) /\ n < n + 1 /\ rows[n].at \in Nat /\ more[n] = rows[n]
        BY <1>3, <1>9, <1>10, <1>12, <2>6
      <3>2. rows[n].at < more[n + 1].at
        BY <2>1, <3>1 DEF InOrder
      <3>3. Underutilized(rows, jobs) = g[n].total + (rows[n].at - g[n].start)
        BY <1>8, <2>6
      <3>4. Underutilized(more, later) = g[n].total + (more[n + 1].at - g[n].start)
        BY <2>3, <2>4, <2>6
      <3>5. g[n].start \in Nat
        BY <1>7, <2>6
      <3> QED BY <1>7, <2>1, <3>1, <3>2, <3>3, <3>4, <3>5
    <2> QED BY <2>5, <2>6
  <1> QED BY <1>3, <1>11, <1>12

LEMMA ActiveGrows ==
    ASSUME NEW rows \in Seq(GpuRow), InOrder(rows), NEW more \in Seq(GpuRow), InOrder(more),
           Extends(rows, more), NEW jobs, NEW later,
           \A i \in 1 .. Len(rows) : JobAt(later, rows[i].at) = JobAt(jobs, rows[i].at),
           NEW t \in Nat, NEW u \in Nat, t <= u, Until(rows, t), Until(more, u),
           Len(more) = Len(rows) \/ more[Len(rows) + 1].at >= t
    PROVE  ActiveTime(rows, jobs, t) <= ActiveTime(more, later, u)
  <1> DEFINE n == Len(rows)
             m == Len(more)
             R == AtWork(rows, jobs, n)
             S == AtWork(more, later, m)
             w == CountsOf(rows, t)
             v == CountsOf(more, u)
  <1>1. n \in Nat /\ m \in Nat /\ (m = n \/ m = n + 1) /\ \A i \in 1 .. n : more[i] = rows[i]
    BY LenProperties DEF Extends
  <1>2. /\ ActiveTime(rows, jobs, t) = SumOf(w, R) /\ ActiveTime(more, later, u) = SumOf(v, S)
        /\ Weights(v, S)
    <2>1. /\ \A i \in 1 .. Len(rows) : rows[i].at <= t
          /\ \A i \in 1 .. Len(more) : more[i].at <= u
      BY DEF Until
    <2>2. m \in 0 .. Len(more)
      BY <1>1
    <2> QED BY <2>1, <2>2, ActiveSum
  <1>3. R \in SUBSET S
    <2> SUFFICES ASSUME NEW i \in 1 .. n, Working(rows[i], jobs)
                 PROVE  i \in 1 .. m /\ Working(more[i], later)
      BY DEF AtWork
    <2>1. i \in 1 .. m /\ more[i] = rows[i] /\ JobAt(later, rows[i].at) = JobAt(jobs, rows[i].at)
      BY <1>1
    <2> QED BY <2>1 DEF Working
  <1>4. ASSUME NEW i \in 1 .. n PROVE w[i] \in Nat /\ w[i] <= v[i]
    <2> DEFINE a == rows[i].at
               b == IF i < n THEN rows[i + 1].at ELSE t
               c == IF i < m THEN more[i + 1].at ELSE u
    <2>1. i \in 1 .. Len(rows) /\ i \in 1 .. Len(more) /\ more[i] = rows[i]
      BY <1>1
    <2>2. a \in Nat /\ b \in Nat /\ c \in Nat /\ MaxGap \in Nat
      <3>1. i < n => i + 1 \in 1 .. Len(rows)
        BY <1>1
      <3>2. i < m => i + 1 \in 1 .. Len(more)
        BY <1>1
      <3> QED BY <2>1, <3>1, <3>2, RowTypes, ReportAssumption
    <2>3. b <= c
      <3>1. CASE i < n
        <4>1. i < m /\ i + 1 \in 1 .. n
          BY <1>1, <3>1
        <4>2. more[i + 1] = rows[i + 1]
          BY <1>1, <4>1
        <4> QED BY <2>2, <3>1, <4>1, <4>2
      <3>2. CASE ~(i < n) /\ m = n
        <4>1. b = t /\ c = u
          BY <3>2
        <4> QED BY <4>1
      <3>3. CASE ~(i < n) /\ m = n + 1
        <4>1. i = n /\ i < m
          BY <1>1, <3>3
        <4>2. b = t /\ c = more[n + 1].at
          BY <4>1
        <4>3. m # n
          BY <1>1, <3>3
        <4> QED BY <4>2, <4>3
      <3> QED BY <1>1, <3>1, <3>2, <3>3
    <2>4. w[i] = Min({b - a, MaxGap})
      BY <2>1 DEF CountsOf, Counted
    <2>5. v[i] = Min({c - a, MaxGap})
      BY <2>1 DEF CountsOf, Counted
    <2>6. w[i] \in Nat
      <3>1. \A j \in 1 .. Len(rows) : rows[j].at <= t
        BY DEF Until
      <3> QED BY <2>1, <3>1, CountedFacts
    <2> HIDE DEF a, b, c, w, v
    <2>7. Min({b - a, MaxGap}) <= Min({c - a, MaxGap})
      <3>1. Min({b - a, MaxGap}) = IF b - a <= MaxGap THEN b - a ELSE MaxGap
        BY <2>2, MinOfTwo
      <3>2. Min({c - a, MaxGap}) = IF c - a <= MaxGap THEN c - a ELSE MaxGap
        BY <2>2, MinOfTwo
      <3> QED BY <2>2, <2>3, <3>1, <3>2
    <2> QED BY <2>4, <2>5, <2>6, <2>7
  <1>5. \A i \in R : w[i] \in Nat /\ w[i] <= v[i]
    BY <1>4 DEF AtWork
  <1> HIDE DEF w, v, R, S
  <1>6. SumOf(w, R) <= SumOf(v, S)
    BY <1>2, <1>3, <1>5, SumGrows
  <1> QED BY <1>2, <1>6 DEF w, v, R, S

-----------------------------------------------------------------------------
\* What a step does to the rows: nothing, or it adds one of a later time.
LEMMA StepExtends ==
    ASSUME ReportInv, [RNext]_rpVars
    PROVE  /\ now \in Nat /\ now' \in Nat /\ now <= now'
           /\ Extends(gpu, gpu') /\ Extends(snaps, snaps')
           /\ gpu' = gpu \/ gpu'[Len(gpu) + 1].at = now'
           /\ snaps' = snaps \/ (now' > now /\ snaps'[Len(snaps) + 1].at = now')
  <1>1. /\ now \in Nat /\ up \in Nat /\ gpu \in Seq(GpuRow) /\ snaps \in Seq(SnapRow)
    BY DEF ReportInv, RowsInOrder
  <1>2. Extends(gpu, gpu) /\ Extends(snaps, snaps)
    BY DEF Extends
  <1>3. CASE Restart \/ UNCHANGED rpVars
    <2>1. now' = now /\ gpu' = gpu /\ snaps' = snaps
      BY <1>3 DEF Restart, rpVars
    <2> QED BY <1>1, <1>2, <2>1
  <1>4. ASSUME NEW d \in Gaps, NEW beat \in Beats, Heartbeat(d, beat)
        PROVE  /\ now' \in Nat /\ now < now'
               /\ Extends(gpu, gpu') /\ Extends(snaps, snaps')
               /\ gpu' = gpu \/ gpu'[Len(gpu) + 1].at = now'
               /\ snaps'[Len(snaps) + 1].at = now'
    <2>1. /\ d \in Nat \ {0} /\ now' = now + d
          /\ gpu' = gpu \/ \E row \in GpuRow : row.at = now + d /\ gpu' = Append(gpu, row)
          /\ \E row \in SnapRow : row.at = now + d /\ snaps' = Append(snaps, row)
      BY <1>1, <1>4, BeatRows
    <2>2. PICK row \in SnapRow : row.at = now + d /\ snaps' = Append(snaps, row)
      BY <2>1
    <2>3. Extends(snaps, snaps') /\ snaps'[Len(snaps) + 1].at = now'
      BY <1>1, <2>1, <2>2, AppendProperties DEF Extends
    <2>4. ASSUME NEW new \in GpuRow, new.at = now + d, gpu' = Append(gpu, new)
          PROVE  Extends(gpu, gpu') /\ gpu'[Len(gpu) + 1].at = now'
      BY <1>1, <2>1, <2>4, AppendProperties DEF Extends
    <2> QED BY <1>1, <1>2, <2>1, <2>3, <2>4
  <1> QED BY <1>1, <1>3, <1>4 DEF RNext

\* Nothing is too old for the window yet.
LEMMA WholeWindow ==
    ASSUME NEW S, NEW rows \in Seq(S), \A r \in S : r.at \in Nat, NEW t \in Nat, t <= Window
    PROVE  Suffix(rows, t - Window) = rows
  <1>1. Window \in Nat
    BY ReportAssumption
  <1>2. \A i \in 1 .. Len(rows) : rows[i].at \in Nat
    <2>1. \A i \in 1 .. Len(rows) : rows[i] \in S
      BY ElementOfSeq
    <2> QED BY <2>1
  <1>3. \A i \in 1 .. Len(rows) : ~(rows[i].at < t - Window)
    BY <1>1, <1>2
  <1> QED BY <1>3, SuffixFacts

\* As long as no row leaves the window, no step takes back what a report has shown.
THEOREM TotalsGrow == RSpec => TotalsOnlyGrow
  <1> DEFINE Grow == (now' <= Window) =>
               /\ Exceedance(GpuRaw).events <= Exceedance(GpuRaw').events
               /\ Exceedance(GpuRaw).longest <= Exceedance(GpuRaw').longest
               /\ Transitions(Snaps) <= Transitions(Snaps')
               /\ Underutilized(GpuRaw, Snaps) <= Underutilized(GpuRaw', Snaps')
               /\ ActiveTime(GpuRaw, Snaps, now) <= ActiveTime(GpuRaw', Snaps', now')
  <1>1. ReportInv /\ ReportInv' /\ [RNext]_rpVars => [Grow]_rpVars
    <2> SUFFICES ASSUME ReportInv, ReportInv', [RNext]_rpVars, now' <= Window PROVE Grow
      OBVIOUS
    <2>1. /\ now \in Nat /\ now' \in Nat /\ now <= now'
          /\ Extends(gpu, gpu') /\ Extends(snaps, snaps')
          /\ gpu' = gpu \/ gpu'[Len(gpu) + 1].at = now'
          /\ snaps' = snaps \/ (now' > now /\ snaps'[Len(snaps) + 1].at = now')
      BY StepExtends
    <2>2. /\ gpu \in Seq(GpuRow) /\ InOrder(gpu) /\ Until(gpu, now)
          /\ snaps \in Seq(SnapRow) /\ InOrder(snaps)
      BY DEF ReportInv, RowsInOrder
    <2>3. /\ gpu' \in Seq(GpuRow) /\ InOrder(gpu') /\ Until(gpu', now')
          /\ snaps' \in Seq(SnapRow) /\ InOrder(snaps')
      BY DEF ReportInv, RowsInOrder
    <2>4. (\A r \in GpuRow : r.at \in Nat) /\ (\A r \in SnapRow : r.at \in Nat)
      BY DEF GpuRow, SnapRow
    <2>5. now <= Window
      BY <2>1, ReportAssumption
    <2>6. GpuRaw = gpu /\ Snaps = snaps
      <3>1. GpuRaw = Suffix(gpu, now - Window) /\ Snaps = Suffix(snaps, now - Window)
        BY DEF GpuRaw, Snaps, InWindow, Suffix
      <3> QED BY <2>1, <2>2, <2>4, <2>5, <3>1, WholeWindow
    <2>7. GpuRaw' = gpu' /\ Snaps' = snaps'
      <3>1. GpuRaw' = Suffix(gpu', now' - Window) /\ Snaps' = Suffix(snaps', now' - Window)
        BY DEF GpuRaw, Snaps, InWindow, Suffix
      <3> QED BY <2>1, <2>3, <2>4, <3>1, WholeWindow
    <2>8. \A i \in 1 .. Len(gpu) : JobAt(snaps', gpu[i].at) = JobAt(snaps, gpu[i].at)
      <3>1. CASE snaps' = snaps
        BY <3>1
      <3>2. CASE now' > now /\ snaps'[Len(snaps) + 1].at = now'
        <4> SUFFICES ASSUME NEW i \in 1 .. Len(gpu)
                     PROVE  JobAt(snaps', gpu[i].at) = JobAt(snaps, gpu[i].at)
          OBVIOUS
        <4>1. gpu[i].at \in Nat /\ gpu[i].at <= now
          BY <2>2, RowTypes DEF Until
        <4>2. \A j \in 1 .. Len(snaps') : j > Len(snaps) => snaps'[j].at > gpu[i].at
          <5> SUFFICES ASSUME NEW j \in 1 .. Len(snaps'), j > Len(snaps)
                       PROVE  snaps'[j].at > gpu[i].at
            OBVIOUS
          <5>1. Len(snaps) \in Nat /\ (Len(snaps') = Len(snaps) \/ Len(snaps') = Len(snaps) + 1)
            BY <2>1, <2>2, LenProperties DEF Extends
          <5>2. j = Len(snaps) + 1
            BY <5>1
          <5> QED BY <2>1, <3>2, <4>1, <5>2
        <4> QED BY <2>1, <2>2, <2>3, <4>1, <4>2, JobsStay
      <3> QED BY <2>1, <3>1, <3>2
    <2>9. /\ Exceedance(gpu).events <= Exceedance(gpu').events
          /\ Exceedance(gpu).longest <= Exceedance(gpu').longest
      BY <2>1, <2>2, <2>3, ExceedanceGrows
    <2>10. Transitions(snaps) <= Transitions(snaps')
      BY <2>1, <2>2, <2>3, TransitionsGrow
    <2>11. Underutilized(gpu, snaps) <= Underutilized(gpu', snaps')
      BY <2>1, <2>2, <2>3, <2>8, IdleGrows
    <2>12. ActiveTime(gpu, snaps, now) <= ActiveTime(gpu', snaps', now')
      <3>1. Len(gpu') = Len(gpu) \/ gpu'[Len(gpu) + 1].at >= now
        BY <2>1
      <3> QED BY <2>1, <2>2, <2>3, <2>8, <3>1, ActiveGrows
    <2> QED BY <2>6, <2>7, <2>9, <2>10, <2>11, <2>12
  <1>2. RSpec => [][Grow]_rpVars
    <2> HIDE DEF Grow
    <2> QED BY <1>1, ReportTyped, PTL DEF RSpec
  <1> QED BY <1>2 DEF TotalsOnlyGrow

-----------------------------------------------------------------------------
(***************************************************************************)
(* What a row of a chart stands for.                                       *)
(***************************************************************************)
Reading == [at : Nat, v : Nat]
Row     == [ts : Nat, of : SUBSET Nat, avg : Nat, sum : Nat, max : Nat]

ValueOf   == [x \in Reading |-> x.v]
SumOfRow  == [r \in Row |-> r.sum]
MeanOfRow == [r \in Row |-> r.avg]

\* The readings of rd that row r was merged from.
Of(r, rd) == {x \in rd : x.at \in r.of}

\* A row keeps the sum and the maximum of its readings and an average between
\* two of them, and is not later than any of them.
Stands(r, rd) ==
    /\ r.of # {} /\ \A at \in r.of : r.ts <= at /\ \E x \in rd : x.at = at
    /\ r.sum = SumOf(ValueOf, Of(r, rd))
    /\ \E x \in Of(r, rd) : x.v = r.max
    /\ \A x \in Of(r, rd) : x.v <= r.max
    /\ \E x, y \in Of(r, rd) : x.v <= r.avg /\ r.avg <= y.v

\* Where the second bucket of the chart of a tier starts at a time.
Whole(tier, time) == Floor(time, Bucket[tier]) - Age[tier] + Bucket[tier]

\* A row is in the bucket of its readings, unless all of it is older than the
\* whole buckets of the chart.  In the chart of the longest range it always is.
Near(tier, r, time) ==
    \/ \A at \in r.of : Floor(at, Bucket[tier]) = Floor(r.ts, Bucket[tier])
    \/ /\ tier # 3 /\ r.ts < Whole(tier, time)
       /\ \A at \in r.of : at < Whole(tier, time)

\* A store of rows keeps every reading in one row.
Store(R, rd, time) ==
    /\ IsFiniteSet(R) /\ R \subseteq Row
    /\ \A r \in R : Stands(r, rd)
    /\ \A r \in R : \A tier \in Tier : Near(tier, r, time)
    /\ \A r, s \in R : r # s => r.of \cap s.of = {}
    /\ \A x \in rd : \E r \in R : x.at \in r.of

\* There is one reading at a time.
Measures(rd, time) ==
    /\ IsFiniteSet(rd) /\ rd \subseteq Reading /\ \A x \in rd : x.at < time
    /\ \A x, y \in rd : x.at = y.at => x = y

ChartInv ==
    /\ clock \in Nat /\ Measures(readings, clock)
    /\ Store(table, readings, clock) /\ Store(snapshots, readings, clock)

-----------------------------------------------------------------------------
(***************************************************************************)
(* More about sums and finite sets.                                        *)
(***************************************************************************)

\* The sum over two sets without a common element.
LEMMA SumUnion ==
    ASSUME NEW A, NEW B, NEW w, Weights(w, A), Weights(w, B), A \cap B = {}
    PROVE  /\ Weights(w, A \cup B)
           /\ SumOf(w, A \cup B) = SumOf(w, A) + SumOf(w, B)
  <1> DEFINE P == {s \in SUBSET A : SumOf(w, s \cup B) = SumOf(w, s) + SumOf(w, B)}
  <1>1. Weights(w, A \cup B)
    BY FS_Union DEF Weights
  <1>2. \A s \in SUBSET A : Weights(w, s) /\ Weights(w, s \cup B)
    BY <1>1, FS_Subset DEF Weights
  <1>3. P = SUBSET A
    <2>1. ASSUME NEW s \in SUBSET A, \A x \in s : s \ {x} \in P PROVE s \in P
      <3>1. CASE s = {}
        <4>1. SumOf(w, {}) = 0 /\ s \cup B = B /\ SumOf(w, B) \in Nat
          BY <3>1, SumFacts
        <4> QED BY <3>1, <4>1
      <3>2. CASE s # {}
        <4>1. PICK x \in s : TRUE
          BY <3>2
        <4> DEFINE t == s \ {x}
        <4>2. t \in SUBSET A /\ SumOf(w, t \cup B) = SumOf(w, t) + SumOf(w, B)
          BY <2>1, <4>1
        <4>3. SumOf(w, s) = w[x] + SumOf(w, t)
          BY <1>2, <4>1, SumFacts
        <4>4. SumOf(w, s \cup B) = w[x] + SumOf(w, (s \cup B) \ {x})
          BY <1>2, <4>1, SumFacts
        <4>5. (s \cup B) \ {x} = t \cup B
          BY <4>1
        <4>6. SumOf(w, t) \in Nat /\ SumOf(w, B) \in Nat /\ w[x] \in Nat
          BY <1>2, <4>1, <4>2, SumFacts DEF Weights
        <4>7. SumOf(w, s \cup B) = w[x] + SumOf(w, t \cup B)
          BY <4>4, <4>5
        <4> HIDE DEF t
        <4>8. SumOf(w, s \cup B) = SumOf(w, s) + SumOf(w, B)
          BY <4>2, <4>3, <4>6, <4>7
        <4> QED BY <4>8
      <3> QED BY <3>1, <3>2
    <2>2. IsFiniteSet(A) /\ P \subseteq SUBSET A
      BY DEF Weights
    <2> HIDE DEF P
    <2> QED BY <2>1, <2>2, SubsetInduction
  <1> QED BY <1>1, <1>3

\* All that is in one of the parts p[r].
AllOf(p, R) == UNION {p[r] : r \in R}

\* The sums over the parts of a partition add up to the sum over all of it.
LEMMA SumOfSums ==
    ASSUME NEW R, NEW S, NEW p, NEW u, NEW w, IsFiniteSet(R), Weights(w, S),
           \A r \in R : p[r] \in SUBSET S /\ u[r] = SumOf(w, p[r]),
           \A r, s \in R : r # s => p[r] \cap p[s] = {}
    PROVE  /\ Weights(u, R)
           /\ SumOf(u, R) = SumOf(w, AllOf(p, R))
  <1> DEFINE All(q) == AllOf(p, q)
             P == {q \in SUBSET R : SumOf(u, q) = SumOf(w, All(q))}
  <1>1. \A s \in SUBSET S : Weights(w, s) /\ SumOf(w, s) \in Nat
    BY FS_Subset, SumFacts DEF Weights
  <1>2. Weights(u, R)
    BY <1>1 DEF Weights
  <1>3. \A q \in SUBSET R : Weights(u, q) /\ All(q) \in SUBSET S
    BY <1>2, FS_Subset DEF Weights, AllOf
  <1>4. P = SUBSET R
    <2>1. ASSUME NEW q \in SUBSET R, \A x \in q : q \ {x} \in P PROVE q \in P
      <3>1. CASE q = {}
        <4>1. All(q) = {} /\ SumOf(w, {}) = 0 /\ SumOf(u, {}) = 0
          BY <1>1, <1>3, <3>1, SumFacts DEF AllOf
        <4> QED BY <3>1, <4>1
      <3>2. CASE q # {}
        <4>1. PICK x \in q : TRUE
          BY <3>2
        <4> DEFINE t == q \ {x}
        <4>2. t \in SUBSET R /\ SumOf(u, t) = SumOf(w, All(t))
          BY <2>1, <4>1
        <4>3. All(q) = p[x] \cup All(t) /\ p[x] \cap All(t) = {}
          BY <4>1 DEF AllOf
        <4>4. p[x] \in SUBSET S /\ All(t) \in SUBSET S /\ u[x] = SumOf(w, p[x])
          BY <1>3, <4>1, <4>2
        <4>5. SumOf(u, q) = u[x] + SumOf(u, t)
          BY <1>3, <4>1, SumFacts
        <4> HIDE DEF t, All
        <4>6. SumOf(w, p[x] \cup All(t)) = SumOf(w, p[x]) + SumOf(w, All(t))
          BY <1>1, <4>3, <4>4, SumUnion
        <4>7. SumOf(u, q) = SumOf(w, All(q))
          BY <4>2, <4>3, <4>4, <4>5, <4>6
        <4> QED BY <4>7
      <3> QED BY <3>1, <3>2
    <2>2. P \subseteq SUBSET R
      OBVIOUS
    <2> HIDE DEF P
    <2> QED BY <2>1, <2>2, SubsetInduction
  <1> QED BY <1>2, <1>4

\* A sum is at least and at most the number of its elements times a bound.
LEMMA SumBounds ==
    ASSUME NEW S, NEW w, Weights(w, S), NEW lo \in Nat, NEW hi \in Nat
    PROVE  /\ Cardinality(S) \in Nat
           /\ (\A x \in S : lo <= w[x]) => lo * Cardinality(S) <= SumOf(w, S)
           /\ (\A x \in S : w[x] <= hi) => SumOf(w, S) <= hi * Cardinality(S)
  <1> DEFINE P == {s \in SUBSET S :
                     /\ (\A x \in S : lo <= w[x]) => lo * Cardinality(s) <= SumOf(w, s)
                     /\ (\A x \in S : w[x] <= hi) => SumOf(w, s) <= hi * Cardinality(s)}
  <1>1. \A s \in SUBSET S : Weights(w, s) /\ Cardinality(s) \in Nat
    BY FS_Subset, FS_CardinalityType DEF Weights
  <1>2. P = SUBSET S
    <2>1. ASSUME NEW s \in SUBSET S, \A x \in s : s \ {x} \in P PROVE s \in P
      <3>1. CASE s = {}
        <4>1. SumOf(w, {}) = 0 /\ Cardinality({}) = 0
          BY <1>1, <3>1, SumFacts, FS_EmptySet
        <4> QED BY <3>1, <4>1
      <3>2. CASE s # {}
        <4>1. PICK x \in s : TRUE
          BY <3>2
        <4> DEFINE t == s \ {x}
        <4>2. /\ (\A y \in S : lo <= w[y]) => lo * Cardinality(t) <= SumOf(w, t)
              /\ (\A y \in S : w[y] <= hi) => SumOf(w, t) <= hi * Cardinality(t)
              /\ t \in SUBSET S
          BY <2>1, <4>1
        <4>3. SumOf(w, s) = w[x] + SumOf(w, t)
          BY <1>1, <4>1, SumFacts
        <4>4. Cardinality(t) = Cardinality(s) - 1 /\ Cardinality(s) \in Nat \ {0}
          BY <4>1, Smaller DEF Weights
        <4>5. SumOf(w, t) \in Nat /\ w[x] \in Nat /\ x \in S
          BY <1>1, <4>1, <4>2, SumFacts DEF Weights
        <4> DEFINE n == Cardinality(t)
                   a == SumOf(w, t)
                   v == w[x]
        <4>6. Cardinality(s) = n + 1 /\ SumOf(w, s) = v + a /\ n \in Nat /\ a \in Nat /\ v \in Nat
          BY <4>3, <4>4, <4>5
        <4>7. /\ (\A y \in S : lo <= w[y]) => lo * n <= a /\ lo <= v
              /\ (\A y \in S : w[y] <= hi) => a <= hi * n /\ v <= hi
          BY <4>2, <4>5
        <4> HIDE DEF t, n, a, v
        <4>8. /\ (lo * n <= a /\ lo <= v) => lo * (n + 1) <= v + a
              /\ (a <= hi * n /\ v <= hi) => v + a <= hi * (n + 1)
          BY <4>6
        <4>9. /\ (\A y \in S : lo <= w[y]) => lo * Cardinality(s) <= SumOf(w, s)
              /\ (\A y \in S : w[y] <= hi) => SumOf(w, s) <= hi * Cardinality(s)
          BY <4>6, <4>7, <4>8
        <4> QED BY <4>9
      <3> QED BY <3>1, <3>2
    <2>2. IsFiniteSet(S) /\ P \subseteq SUBSET S
      BY DEF Weights
    <2> HIDE DEF P
    <2> QED BY <2>1, <2>2, SubsetInduction
  <1> QED BY <1>1, <1>2

\* An average, rounded down, is between two of the values.
LEMMA AverageBetween ==
    ASSUME NEW S, NEW w, Weights(w, S), S # {}
    PROVE  /\ SumOf(w, S) \div Cardinality(S) \in Nat
           /\ \E x, y \in S : /\ w[x] <= SumOf(w, S) \div Cardinality(S)
                              /\ SumOf(w, S) \div Cardinality(S) <= w[y]
  <1> DEFINE n == Cardinality(S)
             a == SumOf(w, S)
             q == a \div n
  <1>1. n \in Nat \ {0} /\ a \in Nat
    <2>1. \E x \in S : TRUE
      OBVIOUS
    <2>2. n \in Nat \ {0}
      BY <2>1, Smaller DEF Weights
    <2> QED BY <2>2, SumFacts
  <1>2. q \in Nat /\ n * q <= a /\ a < n * (q + 1)
    <2> HIDE DEF n, a
    <2> QED BY <1>1
  <1>3. (\A x \in S : q + 1 <= w[x]) => (q + 1) * n <= a
    <2> HIDE DEF q
    <2>1. q + 1 \in Nat
      BY <1>2
    <2> QED BY <2>1, SumBounds
  <1>4. ASSUME NEW hi \in Nat, \A x \in S : w[x] <= hi PROVE a <= hi * n
    BY <1>4, SumBounds
  <1>5. \E x \in S : w[x] <= q
    <2>1. \A x \in S : w[x] \in Nat
      BY DEF Weights
    <2>2. ~ (q + 1) * n <= a
      <3> HIDE DEF n, a, q
      <3> QED BY <1>1, <1>2
    <2> HIDE DEF n, a, q
    <2> QED BY <1>2, <1>3, <2>1, <2>2
  <1>6. \E y \in S : q <= w[y]
    <2> SUFFICES ASSUME \A y \in S : ~ q <= w[y] PROVE FALSE
      OBVIOUS
    <2>1. \A y \in S : w[y] \in Nat
      BY DEF Weights
    <2> HIDE DEF n, a, q
    <2>2. q \in Nat \ {0} /\ \A y \in S : w[y] <= q - 1
      <3>1. \A y \in S : w[y] < q
        BY <1>2, <2>1
      <3>2. PICK y \in S : TRUE
        OBVIOUS
      <3> QED BY <1>2, <2>1, <3>1, <3>2
    <2>3. q - 1 \in Nat /\ a <= (q - 1) * n
      BY <2>2, <1>4
    <2> QED BY <1>1, <1>2, <2>2, <2>3
  <1> QED BY <1>2, <1>5, <1>6

\* One element of a finite set has the greatest value, one the least.
LEMMA Extremes ==
    ASSUME NEW S, NEW w, Weights(w, S), S # {}
    PROVE  /\ \E x \in S : \A y \in S : w[y] <= w[x]
           /\ \E x \in S : \A y \in S : w[x] <= w[y]
  <1> DEFINE P == {s \in SUBSET S : s # {} =>
                     /\ \E x \in s : \A y \in s : w[y] <= w[x]
                     /\ \E x \in s : \A y \in s : w[x] <= w[y]}
  <1>1. \A x \in S : w[x] \in Nat
    BY DEF Weights
  <1>2. ASSUME NEW s \in SUBSET S, \A x \in s : s \ {x} \in P, s # {}
        PROVE  /\ \E x \in s : \A y \in s : w[y] <= w[x]
               /\ \E x \in s : \A y \in s : w[x] <= w[y]
    <2>1. PICK z \in s : TRUE
      BY <1>2
    <2>2. CASE s \ {z} = {}
      <3>1. \A y \in s : y = z
        BY <2>2
      <3> QED BY <1>1, <2>1, <3>1
    <2>3. CASE s \ {z} # {}
      <3>1. /\ \E x \in s \ {z} : \A y \in s \ {z} : w[y] <= w[x]
            /\ \E x \in s \ {z} : \A y \in s \ {z} : w[x] <= w[y]
        BY <1>2, <2>1, <2>3
      <3>2. PICK m \in s \ {z} : \A y \in s \ {z} : w[y] <= w[m]
        BY <3>1
      <3>3. PICK l \in s \ {z} : \A y \in s \ {z} : w[l] <= w[y]
        BY <3>1
      <3>4. w[z] \in Nat /\ w[m] \in Nat /\ w[l] \in Nat
        BY <1>1, <2>1
      <3>5. \E x \in s : \A y \in s : w[y] <= w[x]
        <4>1. CASE w[z] <= w[m]
          BY <3>2, <4>1
        <4>2. CASE w[m] <= w[z]
          BY <1>1, <2>1, <3>2, <3>4, <4>2
        <4> QED BY <3>4, <4>1, <4>2
      <3>6. \E x \in s : \A y \in s : w[x] <= w[y]
        <4>1. CASE w[l] <= w[z]
          BY <3>3, <4>1
        <4>2. CASE w[z] <= w[l]
          BY <1>1, <2>1, <3>3, <3>4, <4>2
        <4> QED BY <3>4, <4>1, <4>2
      <3> QED BY <3>5, <3>6
    <2> QED BY <2>2, <2>3
  <1>3. P = SUBSET S
    <2>1. \A s \in SUBSET S : (\A x \in s : s \ {x} \in P) => s \in P
      BY <1>2
    <2>2. IsFiniteSet(S) /\ P \subseteq SUBSET S
      BY DEF Weights
    <2> HIDE DEF P
    <2> QED BY <2>1, <2>2, SubsetInduction
  <1> QED BY <1>3

\* What a function makes of a finite set is finite.
LEMMA ImageFinite ==
    ASSUME NEW S, IsFiniteSet(S), NEW f
    PROVE  IsFiniteSet({f[x] : x \in S})
  <1> DEFINE T == {f[x] : x \in S}
             g == [x \in S |-> f[x]]
  <1>1. g \in Surjection(S, T)
    BY DEF Surjection
  <1> HIDE DEF g, T
  <1>2. IsFiniteSet(T)
    BY <1>1, FS_Surjection
  <1> QED BY <1>2 DEF T

-----------------------------------------------------------------------------
(***************************************************************************)
(* Buckets                                                                 *)
(***************************************************************************)
LEMMA FloorFacts ==
    ASSUME NEW t \in Int, NEW b \in Nat \ {0}
    PROVE  /\ Floor(t, b) \in Int /\ Floor(t, b) <= t /\ t < Floor(t, b) + b
           /\ Floor(t, b) % b = 0
           /\ t \in Nat => Floor(t, b) \in Nat
  <1>1. (t \div b) \in Int /\ b * (t \div b) <= t /\ t < b * (t \div b) + b
    OBVIOUS
  <1>2. t \in Nat => (t \div b) \in Nat
    OBVIOUS
  <1>3. \A q \in Int : (b * q) \in Int /\ (b * q) % b = 0
    OBVIOUS
  <1>4. \A q \in Nat : (b * q) \in Nat
    OBVIOUS
  <1> QED BY <1>1, <1>2, <1>3, <1>4 DEF Floor

LEMMA Multiple ==
    ASSUME NEW b \in Nat \ {0}, NEW m \in Int, m % b = 0
    PROVE  \E k \in Int : m = b * k
  <1>1. m = b * (m \div b) + (m % b) /\ (m \div b) \in Int
    OBVIOUS
  <1>2. m = b * (m \div b)
    BY <1>1
  <1> WITNESS m \div b \in Int
  <1> QED BY <1>2

\* A multiple of the length is the start of the bucket of a time that lies
\* less than one length after it.
LEMMA FloorIs ==
    ASSUME NEW t \in Int, NEW b \in Nat \ {0}, NEW m \in Int, m % b = 0,
           m <= t, t < m + b
    PROVE  Floor(t, b) = m
  <1>1. PICK k \in Int : m = b * k
    BY Multiple
  <1>2. t \div b = k
    BY <1>1
  <1> QED BY <1>1, <1>2 DEF Floor

LEMMA MultipleSum ==
    ASSUME NEW b \in Nat \ {0}, NEW x \in Int, NEW y \in Int, x % b = 0, y % b = 0
    PROVE  (x + y) % b = 0 /\ (x - y) % b = 0
  <1>1. PICK j \in Int : x = b * j
    BY Multiple
  <1>2. PICK k \in Int : y = b * k
    BY Multiple
  <1>3. x + y = b * (j + k) /\ x - y = b * (j - k)
    BY <1>1, <1>2
  <1>4. \A i \in Int : (b * i) % b = 0
    OBVIOUS
  <1> QED BY <1>3, <1>4

\* Times in one bucket are in one bucket of a length that is a multiple of it.
LEMMA CoarserBucket ==
    ASSUME NEW t \in Int, NEW u \in Int, NEW b \in Nat \ {0}, NEW c \in Nat \ {0},
           c % b = 0, Floor(t, b) = Floor(u, b)
    PROVE  Floor(t, c) = Floor(u, c)
  <1>1. PICK k \in Nat \ {0} : c = b * k
    <2>1. c = b * (c \div b) + (c % b) /\ (c \div b) \in Nat
      OBVIOUS
    <2>2. c = b * (c \div b)
      BY <2>1
    <2>3. c \div b # 0
      BY <2>2
    <2> QED BY <2>1, <2>2, <2>3
  <1> DEFINE f == Floor(t, b)
             m == Floor(t, c)
  <1>2. f \in Int /\ f % b = 0 /\ f <= t /\ t < f + b /\ f <= u /\ u < f + b
    BY FloorFacts
  <1>3. m \in Int /\ m % c = 0 /\ m <= t /\ t < m + c
    BY FloorFacts
  <1> HIDE DEF f, m
  <1>4. PICK i \in Int : f = b * i
    BY <1>2, Multiple
  <1>5. PICK j \in Int : m = c * j
    BY <1>3, Multiple
  <1> DEFINE h == k * j
  <1>6. h \in Int /\ m = b * h /\ m + c = b * (h + k)
    BY <1>1, <1>5
  <1> HIDE DEF h
  <1>7. h <= i
    <2> SUFFICES ASSUME i + 1 <= h PROVE FALSE
      BY <1>4, <1>6
    <2>1. b * (i + 1) <= b * h
      BY <1>4, <1>6
    <2>2. f + b = b * (i + 1)
      BY <1>4
    <2> QED BY <1>2, <1>3, <1>6, <2>1, <2>2
  <1>8. i + 1 <= h + k
    <2> SUFFICES ASSUME h + k <= i PROVE FALSE
      BY <1>1, <1>4, <1>6
    <2>1. b * (h + k) <= b * i
      BY <1>1, <1>4, <1>6
    <2> QED BY <1>2, <1>3, <1>4, <1>6, <2>1
  <1>9. m <= f /\ f + b <= m + c
    <2>1. b * h <= b * i /\ b * (i + 1) <= b * (h + k)
      BY <1>1, <1>4, <1>6, <1>7, <1>8
    <2>2. b * (i + 1) = f + b
      BY <1>4
    <2> QED BY <1>4, <1>6, <2>1, <2>2
  <1>10. m <= u /\ u < m + c
    BY <1>1, <1>2, <1>3, <1>9
  <1>11. Floor(u, c) = m
    BY <1>3, <1>10, FloorIs
  <1> QED BY <1>11 DEF m

LEMMA ChartConstants ==
    /\ 1 \in Tier /\ 2 \in Tier /\ 3 \in Tier
    /\ \A tier \in Tier : /\ Bucket[tier] \in Nat \ {0} /\ Age[tier] \in Nat \ {0}
                          /\ Age[tier] % Bucket[tier] = 0
  BY ChartAssumption DEF Tier

LEMMA WholeArithmetic ==
    ASSUME NEW b \in Nat \ {0}, NEW a \in Nat \ {0}, NEW t \in Nat, a % b = 0
    PROVE  /\ Floor(t, b) - a + b \in Int /\ (Floor(t, b) - a + b) % b = 0
           /\ t - a < Floor(t, b) - a + b
           /\ Floor(t, b) - a = Floor(t - a, b)
           /\ Floor(t, b) <= Floor(t + 1, b)
  <1> DEFINE f == Floor(t, b)
  <1>1. f \in Int /\ f % b = 0 /\ f <= t /\ t < f + b
    <2>1. t \in Int
      OBVIOUS
    <2> QED BY <2>1, FloorFacts
  <1>2. f <= Floor(t + 1, b)
    <2> DEFINE p == t \div b
               q == (t + 1) \div b
    <2>1. p <= q /\ p \in Int /\ q \in Int
      OBVIOUS
    <2>2. f = b * p /\ Floor(t + 1, b) = b * q
      BY DEF Floor
    <2> HIDE DEF p, q
    <2>3. b * p <= b * q
      BY <2>1
    <2> QED BY <2>2, <2>3
  <1> HIDE DEF f
  <1> DEFINE d == f - a
  <1>3. d \in Int /\ d % b = 0
    <2>1. a \in Int /\ f \in Int /\ f % b = 0
      BY <1>1
    <2>2. (f - a) % b = 0
      BY <2>1, MultipleSum
    <2> QED BY <2>1, <2>2
  <1>4. b % b = 0 /\ b \in Int
    OBVIOUS
  <1>5. d <= t - a /\ t - a < d + b /\ t - a \in Int
    BY <1>1
  <1> HIDE DEF d
  <1>6. (d + b) % b = 0 /\ d + b \in Int
    <2>1. (d + b) % b = 0
      BY <1>3, <1>4, MultipleSum
    <2> QED BY <1>3, <1>4, <2>1
  <1>7. Floor(t - a, b) = d
    BY <1>3, <1>5, FloorIs
  <1> QED BY <1>2, <1>5, <1>6, <1>7 DEF d, f

\* When the whole buckets of a chart start: a time younger than the age of the
\* tier is in one of them or in the bucket before.
LEMMA WholeFacts ==
    ASSUME NEW tier \in Tier, NEW time \in Nat
    PROVE  /\ Whole(tier, time) \in Int /\ Whole(tier, time) % Bucket[tier] = 0
           /\ time - Age[tier] < Whole(tier, time)
           /\ Whole(tier, time) - Bucket[tier] = Floor(time - Age[tier], Bucket[tier])
           /\ Whole(tier, time) <= Whole(tier, time + 1)
  <1> DEFINE b == Bucket[tier]
             a == Age[tier]
  <1>1. b \in Nat \ {0} /\ a \in Nat \ {0} /\ a % b = 0
    BY ChartConstants
  <1>2. Whole(tier, time) = Floor(time, b) - a + b
        /\ Whole(tier, time + 1) = Floor(time + 1, b) - a + b
    BY DEF Whole
  <1> HIDE DEF a, b
  <1>3. /\ Floor(time, b) - a + b \in Int /\ (Floor(time, b) - a + b) % b = 0
        /\ time - a < Floor(time, b) - a + b
        /\ Floor(time, b) - a = Floor(time - a, b)
        /\ Floor(time, b) <= Floor(time + 1, b)
    BY <1>1, WholeArithmetic
  <1>4. Floor(time, b) \in Int /\ Floor(time + 1, b) \in Int
    <2>1. time \in Int /\ time + 1 \in Int
      OBVIOUS
    <2> QED BY <1>1, <2>1, FloorFacts
  <1> DEFINE f == Floor(time, b)
             g == Floor(time + 1, b)
  <1>5. /\ (f - a + b) - b = f - a
        /\ f - a + b <= g - a + b
    <2> HIDE DEF f, g
    <2> QED BY <1>1, <1>3, <1>4 DEF f, g
  <1> HIDE DEF f, g
  <1>6. Whole(tier, time) = f - a + b /\ Whole(tier, time + 1) = g - a + b
    BY <1>2 DEF f, g
  <1>7. /\ f - a + b \in Int /\ (f - a + b) % b = 0 /\ time - a < f - a + b
        /\ f - a = Floor(time - a, b)
    BY <1>3 DEF f
  <1>8. /\ Whole(tier, time) \in Int /\ Whole(tier, time) % b = 0
        /\ time - a < Whole(tier, time)
    BY <1>6, <1>7
  <1>9. /\ Whole(tier, time) - b = Floor(time - a, b)
        /\ Whole(tier, time) <= Whole(tier, time + 1)
    <2>1. Whole(tier, time) - b = (f - a + b) - b
      BY <1>6
    <2>2. Whole(tier, time) - b = Floor(time - a, b)
      BY <1>5, <1>7, <2>1
    <2>3. Whole(tier, time) <= Whole(tier, time + 1)
      BY <1>5, <1>6
    <2> QED BY <2>2, <2>3
  <1> QED BY <1>8, <1>9 DEF a, b

-----------------------------------------------------------------------------
(***************************************************************************)
(* What a batch does to the rows in it.                                    *)
(***************************************************************************)
\* A batch is a bucket, or the start of one: it ends no later than the rows
\* of the tier before begin.
LEMMA BatchFacts ==
    ASSUME clock \in Nat, NEW k \in {2, 3}, NEW b \in Batches(k)
    PROVE  /\ b.start \in Int /\ b.from = b.start /\ b.start % Bucket[k] = 0
           /\ Floor(clock - Age[k], Bucket[k]) <= b.start
           /\ b.end = IF b.start + Bucket[k] <= clock - Age[k - 1]
                      THEN b.start + Bucket[k] ELSE clock - Age[k - 1]
  <1> DEFINE from == Floor(clock - Age[k], Bucket[k])
             end == clock - Age[k - 1]
  <1>1. k \in Tier /\ k - 1 \in Tier
    BY DEF Tier
  <1>2. /\ Bucket[k] \in Nat \ {0} /\ Age[k] \in Nat \ {0} /\ Age[k - 1] \in Nat \ {0}
    BY <1>1, ChartConstants
  <1>3. end \in Int /\ clock - Age[k] \in Int
    BY <1>2
  <1>4. from \in Int
    BY <1>2, <1>3, FloorFacts
  <1>5. PICK s \in from .. end - 1 :
            /\ s % Bucket[k] = 0
            /\ b = [start |-> s, from |-> s, end |-> Min({s + Bucket[k], end})]
    BY DEF Batches
  <1> HIDE DEF from, end
  <1>6. s \in Int /\ from <= s /\ s + Bucket[k] \in Int
    BY <1>2, <1>3, <1>4, <1>5
  <1>7. Min({s + Bucket[k], end}) = IF s + Bucket[k] <= end THEN s + Bucket[k] ELSE end
    BY <1>3, <1>6, MinOfTwo
  <1>8. b.start = s /\ b.from = s /\ b.end = Min({s + Bucket[k], end})
    BY <1>5
  <1> QED BY <1>5, <1>6, <1>7, <1>8 DEF from, end

\* The rows of a batch are in one bucket, older than the age of the tier before.
LEMMA InBatch ==
    ASSUME clock \in Nat, NEW k \in {2, 3}, NEW b \in Batches(k), NEW ts \in Nat,
           b.from <= ts, ts < b.end
    PROVE  /\ b.start \in Nat /\ b.start <= ts /\ Floor(ts, Bucket[k]) = b.start
           /\ ts < clock - Age[k - 1]
  <1> DEFINE s == b.start
             e == b.end
             n == Bucket[k]
             c == clock - Age[k - 1]
  <1>1. s \in Int /\ b.from = s /\ s % n = 0 /\ e = IF s + n <= c THEN s + n ELSE c
    BY BatchFacts
  <1>2. n \in Nat \ {0} /\ c \in Int
    <2>1. k \in Tier /\ k - 1 \in Tier
      BY DEF Tier
    <2>2. n \in Nat \ {0} /\ Age[k - 1] \in Nat
      BY <2>1, ChartConstants
    <2> QED BY <2>2
  <1>3. s <= ts /\ ts < e
    BY <1>1
  <1> HIDE DEF s, e, n, c
  <1>4. s + n \in Int
    BY <1>1, <1>2
  <1>5. ts < s + n /\ ts < c /\ ts \in Int
    BY <1>1, <1>2, <1>3, <1>4
  <1>6. Floor(ts, n) = s
    BY <1>1, <1>2, <1>3, <1>5, FloorIs
  <1>7. s \in Nat
    <2>1. Floor(ts, n) \in Nat
      BY <1>2, <1>5, FloorFacts
    <2> QED BY <1>6, <2>1
  <1> QED BY <1>3, <1>5, <1>6, <1>7 DEF s, n, c

\* For the charts of a tier that is merged later, a row of the batch is old.
LEMMA MergedOlder ==
    ASSUME clock \in Nat, NEW k \in {2, 3}, NEW b \in Batches(k), NEW tier \in Tier, tier < k,
           NEW r \in Row, b.from <= r.ts, r.ts < b.end, Near(tier, r, clock)
    PROVE  /\ b.start < Whole(tier, clock)
           /\ \A at \in r.of : at < Whole(tier, clock)
  <1> DEFINE w == Whole(tier, clock)
             n == Bucket[tier]
  <1>1. r.ts \in Nat /\ \A at \in r.of : at \in Nat
    BY DEF Row
  <1>2. b.start \in Nat /\ b.start <= r.ts /\ r.ts < clock - Age[k - 1]
    BY <1>1, InBatch
  <1>3. Age[tier] <= Age[k - 1] /\ Age[tier] \in Nat /\ Age[k - 1] \in Nat
    <2>1. Age[1] \in Nat /\ Age[2] \in Nat /\ Age[1] <= Age[2]
      BY ChartConstants, ChartAssumption
    <2>2. \/ tier = k - 1
          \/ tier = 1 /\ k - 1 = 2
      BY DEF Tier
    <2>3. k - 1 = 1 \/ k - 1 = 2
      OBVIOUS
    <2> QED BY <2>1, <2>2, <2>3
  <1>4. /\ w \in Int /\ w % n = 0 /\ clock - Age[tier] < w
        /\ w - n = Floor(clock - Age[tier], n)
    BY WholeFacts
  <1>5. n \in Nat \ {0}
    BY ChartConstants
  <1>6. r.ts < clock - Age[tier] /\ r.ts < w
    <2> HIDE DEF w
    <2> QED BY <1>1, <1>2, <1>3, <1>4
  <1>7. ASSUME NEW at \in r.of PROVE at < w
    <2>1. CASE \A a \in r.of : Floor(a, n) = Floor(r.ts, n)
      <3> DEFINE f == Floor(r.ts, n)
      <3>1. f \in Int /\ f <= r.ts /\ f % n = 0
        <4>1. r.ts \in Int
          BY <1>1
        <4> HIDE DEF n
        <4> QED BY <1>5, <4>1, FloorFacts
      <3>2. Floor(at, n) = f /\ at \in Nat
        BY <1>1, <1>7, <2>1
      <3>3. at < Floor(at, n) + n
        BY <1>5, <3>2, FloorFacts
      <3>4. f < w
        <4> HIDE DEF w, f
        <4> QED BY <1>1, <1>4, <1>6, <3>1
      <3> HIDE DEF w, n, f
      <3>5. f + n <= w
        <4>1. PICK i \in Int : f = n * i
          BY <1>5, <3>1, Multiple
        <4>2. PICK j \in Int : w = n * j
          BY <1>4, <1>5, Multiple
        <4>3. i + 1 <= j
          <5> SUFFICES ASSUME j <= i PROVE FALSE
            OBVIOUS
          <5>1. n * j <= n * i
            BY <1>5
          <5> QED BY <1>4, <3>1, <3>4, <4>1, <4>2, <5>1
        <4>4. n * (i + 1) <= n * j /\ f + n = n * (i + 1)
          BY <1>5, <4>1, <4>3
        <4> QED BY <4>2, <4>4
      <3> QED BY <1>4, <1>5, <3>1, <3>2, <3>3, <3>5
    <2>2. CASE \A a \in r.of : a < w
      BY <1>7, <2>2
    <2> QED BY <2>1, <2>2 DEF Near
  <1>8. b.start < w
    <2> HIDE DEF w
    <2> QED BY <1>1, <1>2, <1>4, <1>6
  <1> QED BY <1>7, <1>8

\* For the charts of the tier itself and of a coarser one, the row stays in the
\* bucket of its readings.
LEMMA MergedNear ==
    ASSUME clock \in Nat, NEW k \in {2, 3}, NEW b \in Batches(k), NEW tier \in Tier, k <= tier,
           NEW r \in Row, b.from <= r.ts, r.ts < b.end, Near(tier, r, clock),
           \A at \in r.of : r.ts <= at
    PROVE  \A at \in r.of : Floor(at, Bucket[tier]) = Floor(b.start, Bucket[tier])
  <1> SUFFICES ASSUME NEW at \in r.of
               PROVE  Floor(at, Bucket[tier]) = Floor(b.start, Bucket[tier])
    OBVIOUS
  <1> DEFINE s == b.start
             n == Bucket[tier]
             w == Whole(tier, clock)
  <1>1. r.ts \in Nat /\ at \in Nat /\ r.ts <= at
    BY DEF Row
  <1>2. s \in Nat /\ s <= r.ts /\ Floor(r.ts, Bucket[k]) = s
    BY <1>1, InBatch
  <1>3. k \in Tier /\ n \in Nat \ {0} /\ Bucket[k] \in Nat \ {0} /\ n % Bucket[k] = 0
    <2>1. k \in Tier
      BY DEF Tier
    <2>2. tier = k \/ (tier = 3 /\ k = 2)
      BY DEF Tier
    <2>3. n \in Nat \ {0} /\ Bucket[k] \in Nat \ {0}
      BY <2>1, ChartConstants
    <2>4. CASE tier = k
      <3>1. \A m \in Nat \ {0} : m % m = 0
        OBVIOUS
      <3> QED BY <2>1, <2>3, <2>4, <3>1
    <2>5. CASE tier = 3 /\ k = 2
      BY <2>1, <2>3, <2>5, ChartAssumption
    <2> QED BY <2>2, <2>4, <2>5
  <1>4. s % Bucket[k] = 0
    BY BatchFacts
  <1>5. Floor(s, Bucket[k]) = s
    <2> DEFINE q == Bucket[k]
    <2>1. q \in Nat \ {0} /\ s \in Int /\ s % q = 0
      BY <1>2, <1>3, <1>4
    <2> HIDE DEF s, q
    <2>2. s < s + q
      BY <2>1
    <2>3. Floor(s, q) = s
      BY <2>1, <2>2, FloorIs
    <2> QED BY <2>3 DEF q
  <1>6. Floor(s, n) = Floor(r.ts, n)
    <2>1. s \in Int /\ r.ts \in Int /\ Floor(s, Bucket[k]) = Floor(r.ts, Bucket[k])
      BY <1>1, <1>2, <1>5
    <2> HIDE DEF s, n
    <2> QED BY <1>3, <2>1, CoarserBucket
  <1>7. CASE \A a \in r.of : Floor(a, n) = Floor(r.ts, n)
    BY <1>6, <1>7
  <1>8. CASE tier # 3 /\ r.ts < w /\ \A a \in r.of : a < w
    <2>1. tier = 2 /\ k = 2
      BY <1>8 DEF Tier
    <2>2. /\ w \in Int /\ w % n = 0 /\ w - n = Floor(clock - Age[tier], n)
      BY WholeFacts
    <2>3. Floor(clock - Age[tier], n) <= s /\ s % n = 0
      BY <1>4, <2>1, BatchFacts
    <2>4. s <= at /\ at < w /\ s \in Int
      BY <1>1, <1>2, <1>8
    <2>5. w - n <= s
      BY <2>2, <2>3
    <2> HIDE DEF s, w, n
    <2>6. s <= at /\ at < s + n
      BY <1>1, <1>3, <2>2, <2>4, <2>5
    <2>7. at \in Int /\ s < s + n
      BY <1>1, <1>3, <2>4
    <2>8. Floor(at, n) = s
      BY <1>3, <2>3, <2>4, <2>6, <2>7, FloorIs
    <2>9. Floor(s, n) = s
      BY <1>3, <2>3, <2>4, <2>7, FloorIs
    <2> QED BY <2>8, <2>9 DEF s, n
  <1> QED BY <1>7, <1>8 DEF Near

-----------------------------------------------------------------------------
(***************************************************************************)
(* The aggregates of rows.                                                 *)
(***************************************************************************)
LEMMA SumRows ==
    ASSUME NEW R, R \subseteq Row, IsFiniteSet(R)
    PROVE  Weights(SumOfRow, R) /\ Sum(R) = SumOf(SumOfRow, R)
  <1> DEFINE Is(g) == g = [s \in SUBSET R |->
                              IF s = {} THEN 0 ELSE Taken(s).sum + g[s \ {Taken(s)}]]
             z == CHOOSE g : Is(g)
  <1>1. Sum(R) = z[R]
    BY DEF Sum, MapThenSumSet, MapThenFoldSet, Taken
  <1>2. \A r \in R : SumOfRow[r] = r.sum /\ r.sum \in Nat
    BY DEF SumOfRow, Row
  <1>3. Weights(SumOfRow, R)
    BY <1>2 DEF Weights
  <1>4. \A s \in SUBSET R : s # {} => SumOfRow[Taken(s)] = Taken(s).sum
    BY <1>2 DEF Taken
  <1>5. PICK g : Adds(g, R, SumOfRow) /\ SumOf(SumOfRow, R) = g[R]
    BY <1>3, SumIs
  <1>6. Is(g)
    BY <1>4, <1>5 DEF Adds
  <1>7. Is(z)
    <2> HIDE DEF Is
    <2> QED BY <1>6
  <1> HIDE DEF z
  <1>8. Adds(z, R, SumOfRow)
    BY <1>4, <1>7 DEF Adds
  <1>9. z[R] = g[R]
    <2>1. R \in SUBSET R
      OBVIOUS
    <2> QED BY <1>5, <1>8, <2>1, AddsAgree
  <1> QED BY <1>1, <1>3, <1>5, <1>9

LEMMA MeanRows ==
    ASSUME NEW R, R \subseteq Row, IsFiniteSet(R)
    PROVE  Weights(MeanOfRow, R) /\ Average(R) = SumOf(MeanOfRow, R) \div Cardinality(R)
  <1> DEFINE Is(g) == g = [s \in SUBSET R |->
                              IF s = {} THEN 0 ELSE Taken(s).avg + g[s \ {Taken(s)}]]
             z == CHOOSE g : Is(g)
  <1>1. Average(R) = z[R] \div Cardinality(R)
    BY DEF Average, MapThenSumSet, MapThenFoldSet, Taken
  <1>2. \A r \in R : MeanOfRow[r] = r.avg /\ r.avg \in Nat
    BY DEF MeanOfRow, Row
  <1>3. Weights(MeanOfRow, R)
    BY <1>2 DEF Weights
  <1>4. \A s \in SUBSET R : s # {} => MeanOfRow[Taken(s)] = Taken(s).avg
    BY <1>2 DEF Taken
  <1>5. PICK g : Adds(g, R, MeanOfRow) /\ SumOf(MeanOfRow, R) = g[R]
    BY <1>3, SumIs
  <1>6. Is(g)
    BY <1>4, <1>5 DEF Adds
  <1>7. Is(z)
    <2> HIDE DEF Is
    <2> QED BY <1>6
  <1> HIDE DEF z
  <1>8. Adds(z, R, MeanOfRow)
    BY <1>4, <1>7 DEF Adds
  <1>9. z[R] = g[R]
    <2>1. R \in SUBSET R
      OBVIOUS
    <2> QED BY <1>5, <1>8, <2>1, AddsAgree
  <1> QED BY <1>1, <1>3, <1>5, <1>9

LEMMA ReadingSum ==
    ASSUME NEW S, S \subseteq Reading, IsFiniteSet(S)
    PROVE  Weights(ValueOf, S) /\ MapThenSumSet(LAMBDA r : r.v, S) = SumOf(ValueOf, S)
  <1> DEFINE Is(g) == g = [s \in SUBSET S |->
                              IF s = {} THEN 0 ELSE Taken(s).v + g[s \ {Taken(s)}]]
             z == CHOOSE g : Is(g)
  <1>1. MapThenSumSet(LAMBDA r : r.v, S) = z[S]
    BY DEF MapThenSumSet, MapThenFoldSet, Taken
  <1>2. \A x \in S : ValueOf[x] = x.v /\ x.v \in Nat
    BY DEF ValueOf, Reading
  <1>3. Weights(ValueOf, S)
    BY <1>2 DEF Weights
  <1>4. \A s \in SUBSET S : s # {} => ValueOf[Taken(s)] = Taken(s).v
    BY <1>2 DEF Taken
  <1>5. PICK g : Adds(g, S, ValueOf) /\ SumOf(ValueOf, S) = g[S]
    BY <1>3, SumIs
  <1>6. Is(g)
    BY <1>4, <1>5 DEF Adds
  <1>7. Is(z)
    <2> HIDE DEF Is
    <2> QED BY <1>6
  <1> HIDE DEF z
  <1>8. Adds(z, S, ValueOf)
    BY <1>4, <1>7 DEF Adds
  <1>9. z[S] = g[S]
    <2>1. S \in SUBSET S
      OBVIOUS
    <2> QED BY <1>5, <1>8, <2>1, AddsAgree
  <1> QED BY <1>1, <1>3, <1>5, <1>9

\* The average of the averages of some rows is between those of two of them,
\* and the greatest maximum is the one of a row.
LEMMA Aggregates ==
    ASSUME NEW F, F \subseteq Row, IsFiniteSet(F), F # {}
    PROVE  /\ Average(F) \in Nat /\ Highest(F) \in Nat
           /\ \E r, s \in F : r.avg <= Average(F) /\ Average(F) <= s.avg
           /\ \E r \in F : Highest(F) = r.max
           /\ \A r \in F : r.max <= Highest(F)
  <1>1. \A r \in F : MeanOfRow[r] = r.avg /\ r.max \in Nat
    BY DEF MeanOfRow, Row
  <1>2. /\ Average(F) \in Nat
        /\ \E r, s \in F : MeanOfRow[r] <= Average(F) /\ Average(F) <= MeanOfRow[s]
    BY MeanRows, AverageBetween
  <1> DEFINE m == [r \in F |-> r.max]
  <1>3. Weights(m, F)
    BY <1>1 DEF Weights
  <1>4. PICK r \in F : \A s \in F : m[s] <= m[r]
    <2> HIDE DEF m
    <2> QED BY <1>3, Extremes
  <1>5. \A s \in F : s.max <= r.max
    BY <1>4
  <1>6. Highest(F) = r.max
    <2> DEFINE V == {s.max : s \in F}
    <2>1. r.max \in V /\ \A x \in V : x \in Nat /\ r.max >= x
      BY <1>1, <1>5
    <2> HIDE DEF V
    <2>2. Max(V) \in V /\ \A x \in V : Max(V) >= x
      BY <2>1 DEF Max
    <2>3. Max(V) = r.max
      BY <2>1, <2>2
    <2> QED BY <2>3 DEF Highest, V
  <1> QED BY <1>1, <1>2, <1>5, <1>6

\* Rows that stand for readings of their own have, together, the sum of all
\* their readings, the greatest of them, and an average between two of them.
LEMMA RowsStand ==
    ASSUME NEW rd, IsFiniteSet(rd), rd \subseteq Reading,
           NEW F, F \subseteq Row, IsFiniteSet(F), F # {}, \A r \in F : Stands(r, rd),
           \A r, s \in F : r # s => r.of \cap s.of = {}
    PROVE  /\ Sum(F) = SumOf(ValueOf, UNION {Of(r, rd) : r \in F}) /\ Sum(F) \in Nat
           /\ \E x \in UNION {Of(r, rd) : r \in F} : x.v = Highest(F)
           /\ \A x \in UNION {Of(r, rd) : r \in F} : x.v <= Highest(F)
           /\ \E x, y \in UNION {Of(r, rd) : r \in F} : x.v <= Average(F) /\ Average(F) <= y.v
  <1> DEFINE U == UNION {Of(r, rd) : r \in F}
  <1>1. \A r \in F : /\ r.sum = SumOf(ValueOf, Of(r, rd))
                     /\ \E x \in Of(r, rd) : x.v = r.max
                     /\ \A x \in Of(r, rd) : x.v <= r.max
                     /\ \E x, y \in Of(r, rd) : x.v <= r.avg /\ r.avg <= y.v
    BY DEF Stands
  <1>2. /\ \A r \in F : r.avg \in Nat /\ r.max \in Nat /\ SumOfRow[r] = r.sum
        /\ \A x \in rd : x.v \in Nat
    BY DEF Row, Reading, SumOfRow
  <1>3. /\ \A r \in F : Of(r, rd) \in SUBSET rd /\ Of(r, rd) \in SUBSET U
        /\ \A r, s \in F : r # s => Of(r, rd) \cap Of(s, rd) = {}
        /\ U \in SUBSET rd
    BY DEF Of
  <1>4. Sum(F) = SumOf(ValueOf, U) /\ Sum(F) \in Nat
    <2> DEFINE p == [r \in F |-> Of(r, rd)]
    <2>1. /\ \A r \in F : p[r] \in SUBSET rd /\ SumOfRow[r] = SumOf(ValueOf, p[r])
          /\ \A r, s \in F : r # s => p[r] \cap p[s] = {}
      BY <1>1, <1>2, <1>3
    <2>2. Weights(ValueOf, rd)
      BY ReadingSum
    <2>3. U = AllOf(p, F)
      BY DEF AllOf
    <2> HIDE DEF p, U
    <2>4. SumOf(SumOfRow, F) = SumOf(ValueOf, AllOf(p, F))
      BY <2>1, <2>2, SumOfSums
    <2>5. Weights(SumOfRow, F) /\ Sum(F) = SumOf(SumOfRow, F)
      BY SumRows
    <2>6. SumOf(SumOfRow, F) \in Nat
      BY <2>5, SumFacts
    <2> QED BY <2>3, <2>4, <2>5, <2>6
  <1>5. /\ Average(F) \in Nat /\ Highest(F) \in Nat
        /\ \E r, s \in F : r.avg <= Average(F) /\ Average(F) <= s.avg
        /\ \E r \in F : Highest(F) = r.max
        /\ \A r \in F : r.max <= Highest(F)
    BY Aggregates
  <1>6. \E x \in U : x.v = Highest(F)
    BY <1>1, <1>3, <1>5
  <1>7. \A x \in U : x.v <= Highest(F)
    <2> SUFFICES ASSUME NEW x \in U PROVE x.v <= Highest(F)
      OBVIOUS
    <2>1. PICK r \in F : x \in Of(r, rd)
      OBVIOUS
    <2>2. x.v <= r.max /\ r.max <= Highest(F) /\ x \in rd
      BY <1>1, <1>3, <1>5, <2>1
    <2> QED BY <1>2, <1>5, <2>2
  <1>8. \E x, y \in U : x.v <= Average(F) /\ Average(F) <= y.v
    <2>1. PICK r \in F, s \in F : r.avg <= Average(F) /\ Average(F) <= s.avg
      BY <1>5
    <2>2. PICK x \in Of(r, rd) : x.v <= r.avg
      BY <1>1
    <2>3. PICK y \in Of(s, rd) : s.avg <= y.v
      BY <1>1
    <2>4. x \in U /\ y \in U /\ x \in rd /\ y \in rd
      BY <1>3
    <2>5. x.v <= Average(F) /\ Average(F) <= y.v
      BY <1>2, <1>5, <2>1, <2>2, <2>3, <2>4
    <2> HIDE DEF U
    <2> QED BY <2>4, <2>5
  <1> HIDE DEF U
  <1>9. /\ Sum(F) = SumOf(ValueOf, U) /\ Sum(F) \in Nat
        /\ \E x \in U : x.v = Highest(F)
        /\ \A x \in U : x.v <= Highest(F)
        /\ \E x, y \in U : x.v <= Average(F) /\ Average(F) <= y.v
    BY <1>4, <1>6, <1>7, <1>8
  <1> QED BY <1>9 DEF U

-----------------------------------------------------------------------------
(***************************************************************************)
(* A store of rows.                                                        *)
(***************************************************************************)

Together(F) == UNION {r.of : r \in F}

\* The row that a batch leaves.
LEMMA MergedRow ==
    ASSUME clock \in Nat, NEW rd, Measures(rd, clock), NEW R, Store(R, rd, clock),
           NEW k \in {2, 3}, NEW b \in Batches(k), NEW F \in SUBSET R, F # {},
           \A r \in F : b.from <= r.ts /\ r.ts < b.end
    PROVE  /\ Merged(F, b.start) \in Row /\ Stands(Merged(F, b.start), rd)
           /\ \A tier \in Tier : Near(tier, Merged(F, b.start), clock)
           /\ Merged(F, b.start).of = Together(F)
  <1> DEFINE m == Merged(F, b.start)
             U == UNION {Of(r, rd) : r \in F}
  <1>1. /\ m.ts = b.start /\ m.of = UNION {r.of : r \in F}
        /\ m.avg = Average(F) /\ m.sum = Sum(F) /\ m.max = Highest(F)
        /\ m = [ts |-> b.start, of |-> UNION {r.of : r \in F}, avg |-> Average(F),
                sum |-> Sum(F), max |-> Highest(F)]
    BY DEF Merged
  <1>2. /\ IsFiniteSet(F) /\ F \subseteq Row /\ \A r \in F : Stands(r, rd)
        /\ \A r, s \in F : r # s => r.of \cap s.of = {}
        /\ \A r \in F : \A tier \in Tier : Near(tier, r, clock)
    BY FS_Subset DEF Store
  <1>3. IsFiniteSet(rd) /\ rd \subseteq Reading
    BY DEF Measures
  <1>4. /\ Sum(F) = SumOf(ValueOf, U) /\ Sum(F) \in Nat
        /\ \E x \in U : x.v = Highest(F)
        /\ \A x \in U : x.v <= Highest(F)
        /\ \E x, y \in U : x.v <= Average(F) /\ Average(F) <= y.v
    BY <1>2, <1>3, RowsStand
  <1>5. Average(F) \in Nat /\ Highest(F) \in Nat
    BY <1>2, Aggregates
  <1>6. \A r \in F : /\ r.ts \in Nat /\ r.of \in SUBSET Nat /\ r.of # {}
                     /\ \A at \in r.of : r.ts <= at /\ \E x \in rd : x.at = at
    BY <1>2 DEF Row, Stands
  <1>7. \A r \in F : b.start \in Nat /\ b.start <= r.ts
    BY <1>6, InBatch
  <1>8. b.start \in Nat
    BY <1>7
  <1>9. m \in Row
    <2>1. UNION {r.of : r \in F} \in SUBSET Nat
      BY <1>6
    <2> HIDE DEF m
    <2> QED BY <1>1, <1>4, <1>5, <1>8, <2>1 DEF Row
  <1>10. Of(m, rd) = U
    <2> HIDE DEF m
    <2> QED BY <1>1 DEF Of
  <1> HIDE DEF m, U
  <1>11. Stands(m, rd)
    <2>1. m.of # {}
      BY <1>1, <1>6
    <2>2. ASSUME NEW at \in m.of PROVE m.ts <= at /\ \E x \in rd : x.at = at
      <3>1. PICK r \in F : at \in r.of
        BY <1>1
      <3>2. r.ts <= at /\ \E x \in rd : x.at = at
        BY <1>6, <3>1
      <3>3. b.start <= r.ts /\ b.start \in Nat /\ r.ts \in Nat /\ at \in Nat
        BY <1>6, <1>7, <3>1
      <3> QED BY <1>1, <3>2, <3>3
    <2> QED BY <1>1, <1>4, <1>10, <2>1, <2>2 DEF Stands
  <1>12. ASSUME NEW tier \in Tier PROVE Near(tier, m, clock)
    <2>1. CASE tier < k
      <3>1. \A r \in F : /\ b.start < Whole(tier, clock)
                         /\ \A at \in r.of : at < Whole(tier, clock)
        BY <1>2, <2>1, MergedOlder
      <3>2. tier # 3
        BY <2>1
      <3> QED BY <1>1, <3>1, <3>2 DEF Near
    <2>2. CASE k <= tier
      <3>1. \A r \in F : \A at \in r.of :
               Floor(at, Bucket[tier]) = Floor(b.start, Bucket[tier])
        <4> SUFFICES ASSUME NEW r \in F
                     PROVE  \A at \in r.of :
                               Floor(at, Bucket[tier]) = Floor(b.start, Bucket[tier])
          OBVIOUS
        <4>1. r \in Row /\ Near(tier, r, clock) /\ b.from <= r.ts /\ r.ts < b.end
          BY <1>2
        <4>2. \A at \in r.of : r.ts <= at
          BY <1>6
        <4> QED BY <2>2, <4>1, <4>2, MergedNear
      <3> QED BY <1>1, <3>1 DEF Near
    <2> QED BY <2>1, <2>2 DEF Tier
  <1> QED BY <1>1, <1>9, <1>11, <1>12 DEF m, Together

\* free[b] are the rows that batch b merges: what it leaves of a store.
Full(k, free) == {b \in Batches(k) : free[b] # {}}
Left(k, R, free) == R \ UNION {free[b] : b \in Full(k, free)}
Made(k, free)    == {Merged(free[b], b.start) : b \in Full(k, free)}

LEMMA BatchesFinite ==
    ASSUME clock \in Nat, NEW k \in {2, 3}
    PROVE  IsFiniteSet(Batches(k))
  <1> DEFINE from == Floor(clock - Age[k], Bucket[k])
             end  == clock - Age[k - 1]
             S    == {b \in from .. end - 1 : b % Bucket[k] = 0}
             f    == [b \in S |-> [start |-> b, from |-> b, end |-> Min({b + Bucket[k], end})]]
  <1>1. k \in Tier /\ k - 1 \in Tier
    BY DEF Tier
  <1>2. Bucket[k] \in Nat \ {0} /\ Age[k] \in Nat /\ Age[k - 1] \in Nat
    BY <1>1, ChartConstants
  <1>3. end \in Int /\ clock - Age[k] \in Int
    BY <1>2
  <1>4. from \in Int
    BY <1>2, <1>3, FloorFacts
  <1>5. IsFiniteSet(from .. end - 1)
    <2> HIDE DEF from, end
    <2> QED BY <1>3, <1>4, FS_Interval
  <1>6. IsFiniteSet(S)
    <2> S \in SUBSET (from .. end - 1)
      OBVIOUS
    <2> HIDE DEF S
    <2> QED BY <1>5, FS_Subset
  <1>7. Batches(k) = {f[b] : b \in S}
    BY DEF Batches
  <1> HIDE DEF f, S
  <1>8. IsFiniteSet({f[b] : b \in S})
    BY <1>6, ImageFinite
  <1> QED BY <1>7, <1>8

\* Two batches have no row in common.
LEMMA BatchesApart ==
    ASSUME clock \in Nat, NEW k \in {2, 3}, NEW b \in Batches(k), NEW c \in Batches(k),
           NEW ts \in Nat, b.from <= ts, ts < b.end, c.from <= ts, ts < c.end
    PROVE  b = c
  <1>1. b.start = c.start
    BY InBatch
  <1>2. \A d \in Batches(k) : d = [start |-> d.start, from |-> d.from, end |-> d.end]
    <2> DEFINE from == Floor(clock - Age[k], Bucket[k])
               end  == clock - Age[k - 1]
    <2> SUFFICES ASSUME NEW d \in Batches(k)
                 PROVE  d = [start |-> d.start, from |-> d.from, end |-> d.end]
      OBVIOUS
    <2>1. PICK s \in from .. end - 1 :
              d = [start |-> s, from |-> s, end |-> Min({s + Bucket[k], end})]
      BY DEF Batches
    <2> HIDE DEF from, end
    <2> QED BY <2>1
  <1>3. b.from = c.from /\ b.end = c.end
    BY <1>1, BatchFacts
  <1> QED BY <1>1, <1>2, <1>3

LEMMA CompactedStore ==
    ASSUME clock \in Nat, NEW rd, Measures(rd, clock), NEW R, Store(R, rd, clock),
           NEW k \in {2, 3}, NEW free,
           \A b \in Batches(k) : /\ free[b] \in SUBSET R
                                 /\ \A r \in free[b] : b.from <= r.ts /\ r.ts < b.end
    PROVE  Store(Left(k, R, free) \cup Made(k, free), rd, clock)
  <1> DEFINE full == Full(k, free)
             left == Left(k, R, free)
             made == Made(k, free)
  <1>1. /\ IsFiniteSet(R) /\ R \subseteq Row
        /\ \A r \in R : Stands(r, rd)
        /\ \A r \in R : \A tier \in Tier : Near(tier, r, clock)
        /\ \A r, s \in R : r # s => r.of \cap s.of = {}
        /\ \A x \in rd : \E r \in R : x.at \in r.of
    BY DEF Store
  <1>2. \A b \in full : b \in Batches(k) /\ free[b] # {} /\ free[b] \in SUBSET R
    BY DEF Full
  <1>3. left \in SUBSET R /\ \A r \in left : \A b \in full : r \notin free[b]
    BY DEF Left
  <1>4. \A r \in R : r \in left \/ \E b \in full : r \in free[b]
    BY DEF Left
  <1>5. \A m \in made : \E b \in full : m = Merged(free[b], b.start)
    BY DEF Made
  <1>6. \A b \in full : Merged(free[b], b.start) \in made
    BY DEF Made
  <1>7. IsFiniteSet(left \cup made)
    <2>1. IsFiniteSet(full)
      BY BatchesFinite, FS_Subset DEF Full
    <2> DEFINE f == [b \in full |-> Merged(free[b], b.start)]
    <2>2. made = {f[b] : b \in full}
      BY DEF Made
    <2> HIDE DEF f, full, made, left
    <2>3. IsFiniteSet(made)
      BY <2>1, <2>2, ImageFinite
    <2>4. IsFiniteSet(left)
      BY <1>1, <1>3, FS_Subset
    <2> QED BY <2>3, <2>4, FS_Union
  <1> HIDE DEF full, left, made
  <1>8. ASSUME NEW b \in full
        PROVE  /\ Merged(free[b], b.start) \in Row /\ Stands(Merged(free[b], b.start), rd)
               /\ \A tier \in Tier : Near(tier, Merged(free[b], b.start), clock)
               /\ Merged(free[b], b.start).of = UNION {r.of : r \in free[b]}
    <2>1. b \in Batches(k) /\ free[b] # {} /\ free[b] \in SUBSET R
      BY <1>2
    <2>2. \A r \in free[b] : b.from <= r.ts /\ r.ts < b.end
      BY <2>1
    <2> DEFINE F == free[b]
    <2>3. F \in SUBSET R /\ F # {} /\ \A r \in F : b.from <= r.ts /\ r.ts < b.end
      BY <2>1, <2>2
    <2> HIDE DEF F
    <2>4. /\ Merged(F, b.start) \in Row /\ Stands(Merged(F, b.start), rd)
          /\ \A tier \in Tier : Near(tier, Merged(F, b.start), clock)
          /\ Merged(F, b.start).of = Together(F)
      BY <2>1, <2>3, MergedRow
    <2> QED BY <2>4 DEF F, Together
  <1>9. \A b, c \in full : b # c => free[b] \cap free[c] = {}
    <2> SUFFICES ASSUME NEW b \in full, NEW c \in full, NEW r \in free[b], r \in free[c]
                 PROVE  b = c
      OBVIOUS
    <2>1. b \in Batches(k) /\ c \in Batches(k) /\ r \in R
      BY <1>2
    <2>2. r.ts \in Nat
      BY <1>1, <2>1 DEF Row
    <2>3. b.from <= r.ts /\ r.ts < b.end /\ c.from <= r.ts /\ r.ts < c.end
      BY <2>1
    <2> QED BY <2>1, <2>2, <2>3, BatchesApart
  <1>10. ASSUME NEW r \in left \cup made
         PROVE  r \in Row /\ Stands(r, rd) /\ \A tier \in Tier : Near(tier, r, clock)
    <2>1. CASE r \in left
      BY <1>1, <1>3, <2>1
    <2>2. CASE r \in made
      <3>1. PICK b \in full : r = Merged(free[b], b.start)
        BY <1>5, <2>2
      <3> QED BY <1>8, <3>1
    <2> QED BY <2>1, <2>2
  <1>11. ASSUME NEW r \in left \cup made, NEW s \in left \cup made, r # s
         PROVE  r.of \cap s.of = {}
    <2>1. CASE r \in left /\ s \in left
      BY <1>1, <1>3, <1>11, <2>1
    <2>2. ASSUME NEW x \in left, NEW m \in made PROVE x.of \cap m.of = {}
      <3>1. PICK b \in full : m = Merged(free[b], b.start)
        BY <1>5
      <3>2. m.of = UNION {y.of : y \in free[b]}
        BY <1>8, <3>1
      <3>3. \A y \in free[b] : y \in R /\ x # y /\ x \in R
        BY <1>2, <1>3
      <3>4. \A y \in free[b] : x.of \cap y.of = {}
        BY <1>1, <3>3
      <3> QED BY <3>2, <3>4
    <2>3. CASE r \in made /\ s \in made
      <3>1. PICK b \in full : r = Merged(free[b], b.start)
        BY <1>5, <2>3
      <3>2. PICK c \in full : s = Merged(free[c], c.start)
        BY <1>5, <2>3
      <3>3. r.of = UNION {y.of : y \in free[b]} /\ s.of = UNION {y.of : y \in free[c]}
        BY <1>8, <3>1, <3>2
      <3>4. b # c
        BY <1>11, <3>1, <3>2
      <3>5. \A x \in free[b], y \in free[c] : x \in R /\ y \in R /\ x # y
        BY <1>2, <1>9, <3>4
      <3>6. \A x \in free[b], y \in free[c] : x.of \cap y.of = {}
        BY <1>1, <3>5
      <3> QED BY <3>3, <3>6
    <2> QED BY <2>1, <2>2, <2>3
  <1>12. ASSUME NEW x \in rd PROVE \E r \in left \cup made : x.at \in r.of
    <2>1. PICK r \in R : x.at \in r.of
      BY <1>1
    <2>2. CASE r \in left
      BY <2>1, <2>2
    <2>3. CASE r \notin left
      <3>1. PICK b \in full : r \in free[b]
        BY <1>4, <2>3
      <3>2. x.at \in Merged(free[b], b.start).of
        BY <1>8, <2>1, <3>1
      <3> QED BY <1>6, <3>2
    <2> QED BY <2>2, <2>3
  <1>13. Store(left \cup made, rd, clock)
    BY <1>7, <1>10, <1>11, <1>12 DEF Store
  <1> QED BY <1>13 DEF left, made

LEMMA CompactedTable ==
    ASSUME ChartInv, NEW k \in {2, 3}
    PROVE  Store(CompactTable(k), readings, clock)
  <1> DEFINE free == [b \in Batches(k) |-> In(table, b)]
             full == {b \in Batches(k) : In(table, b) # {}}
  <1>1. \A b \in Batches(k) : free[b] = In(table, b)
    OBVIOUS
  <1>2. Full(k, free) = full
    BY DEF Full
  <1>3. Left(k, table, free) = table \ UNION {In(table, b) : b \in full}
    <2>1. \A b \in full : free[b] = In(table, b)
      OBVIOUS
    <2> HIDE DEF free, full
    <2> QED BY <1>2, <2>1 DEF Left
  <1>4. Made(k, free) = {Merged(In(table, b), b.start) : b \in full}
    <2>1. \A b \in full : free[b] = In(table, b)
      OBVIOUS
    <2> HIDE DEF free, full
    <2> QED BY <1>2, <2>1 DEF Made
  <1>5. CompactTable(k) = Left(k, table, free) \cup Made(k, free)
    <2>1. CompactTable(k) = (table \ UNION {In(table, b) : b \in full})
                              \cup {Merged(In(table, b), b.start) : b \in full}
      BY DEF CompactTable
    <2> HIDE DEF full, free
    <2> QED BY <1>3, <1>4, <2>1
  <1>6. \A b \in Batches(k) : /\ free[b] \in SUBSET table
                              /\ \A r \in free[b] : b.from <= r.ts /\ r.ts < b.end
    <2> SUFFICES ASSUME NEW b \in Batches(k)
                 PROVE  /\ free[b] \in SUBSET table
                        /\ \A r \in free[b] : b.from <= r.ts /\ r.ts < b.end
      OBVIOUS
    <2> HIDE DEF free
    <2> QED BY <1>1 DEF In
  <1>7. clock \in Nat /\ Measures(readings, clock) /\ Store(table, readings, clock)
    BY DEF ChartInv
  <1> HIDE DEF free
  <1> QED BY <1>5, <1>6, <1>7, CompactedStore

LEMMA CompactedSnapshots ==
    ASSUME ChartInv, NEW k \in {2, 3}
    PROVE  Store(CompactSnapshots(k), readings, clock)
  <1> DEFINE Free(b) == In(snapshots, b) \ Held(b)
             free == [b \in Batches(k) |-> Free(b)]
             full == {b \in Batches(k) : Free(b) # {}}
  <1>1. \A b \in Batches(k) : free[b] = Free(b)
    OBVIOUS
  <1>2. Full(k, free) = full
    BY DEF Full
  <1>3. Left(k, snapshots, free) = snapshots \ UNION {Free(b) : b \in full}
    <2>1. \A b \in full : free[b] = Free(b)
      OBVIOUS
    <2> HIDE DEF free, full, Free
    <2> QED BY <1>2, <2>1 DEF Left
  <1>4. Made(k, free) = {Merged(Free(b), b.start) : b \in full}
    <2>1. \A b \in full : free[b] = Free(b)
      OBVIOUS
    <2> HIDE DEF free, full, Free
    <2> QED BY <1>2, <2>1 DEF Made
  <1>5. CompactSnapshots(k) = Left(k, snapshots, free) \cup Made(k, free)
    <2>1. CompactSnapshots(k) = (snapshots \ UNION {Free(b) : b \in full})
                                  \cup {Merged(Free(b), b.start) : b \in full}
      BY DEF CompactSnapshots
    <2> HIDE DEF full, free, Free
    <2> QED BY <1>3, <1>4, <2>1
  <1>6. \A b \in Batches(k) : /\ free[b] \in SUBSET snapshots
                              /\ \A r \in free[b] : b.from <= r.ts /\ r.ts < b.end
    <2> SUFFICES ASSUME NEW b \in Batches(k)
                 PROVE  /\ free[b] \in SUBSET snapshots
                        /\ \A r \in free[b] : b.from <= r.ts /\ r.ts < b.end
      OBVIOUS
    <2> HIDE DEF free
    <2> QED BY <1>1 DEF In
  <1>7. clock \in Nat /\ Measures(readings, clock) /\ Store(snapshots, readings, clock)
    BY DEF ChartInv
  <1> HIDE DEF free
  <1> QED BY <1>5, <1>6, <1>7, CompactedStore

\* What is near a bucket stays near it as time passes.
LEMMA StoreLater ==
    ASSUME NEW time \in Nat, NEW rd, Measures(rd, time), NEW R, Store(R, rd, time)
    PROVE  Store(R, rd, time + 1) /\ Measures(rd, time + 1)
  <1>1. Measures(rd, time + 1)
    BY DEF Measures, Reading
  <1>2. ASSUME NEW r \in R, NEW tier \in Tier PROVE Near(tier, r, time + 1)
    <2>1. r \in Row /\ Near(tier, r, time)
      BY DEF Store
    <2>2. r.ts \in Nat /\ r.of \in SUBSET Nat
      BY <2>1 DEF Row
    <2>3. /\ Whole(tier, time) \in Int /\ Whole(tier, time + 1) \in Int
          /\ Whole(tier, time) <= Whole(tier, time + 1)
      BY WholeFacts
    <2>4. \A n \in Nat : n < Whole(tier, time) => n < Whole(tier, time + 1)
      BY <2>3
    <2> QED BY <2>1, <2>2, <2>4 DEF Near
  <1>3. Store(R, rd, time + 1)
    BY <1>2 DEF Store
  <1> QED BY <1>1, <1>3

\* A new reading comes in a row of its own.
LEMMA StoreMeasured ==
    ASSUME NEW time \in Nat, NEW rd, Measures(rd, time), NEW R, Store(R, rd, time),
           NEW x \in Reading, x.at = time
    PROVE  /\ Store(R \cup {Raw(x)}, rd \cup {x}, time + 1)
           /\ Measures(rd \cup {x}, time + 1)
  <1> DEFINE m == Raw(x)
             new == rd \cup {x}
  <1>1. /\ IsFiniteSet(rd) /\ rd \subseteq Reading /\ \A y \in rd : y.at < time /\ y.at \in Nat
        /\ \A y, z \in rd : y.at = z.at => y = z
    BY DEF Measures, Reading
  <1>2. x.v \in Nat /\ x.at \in Nat
    BY DEF Reading
  <1>3. Measures(new, time + 1)
    <2>1. IsFiniteSet(new)
      BY <1>1, FS_AddElement
    <2>2. \A y \in new : y.at < time + 1
      BY <1>1
    <2>3. \A y, z \in new : y.at = z.at => y = z
      BY <1>1
    <2> QED BY <1>1, <2>1, <2>2, <2>3 DEF Measures
  <1>4. Store(R, rd, time + 1)
    BY StoreLater
  <1>5. /\ IsFiniteSet(R) /\ R \subseteq Row
        /\ \A r \in R : Stands(r, rd)
        /\ \A r \in R : \A tier \in Tier : Near(tier, r, time + 1)
        /\ \A r, s \in R : r # s => r.of \cap s.of = {}
        /\ \A y \in rd : \E r \in R : y.at \in r.of
    BY <1>4 DEF Store
  <1>6. \A r \in R : \A at \in r.of : at # time /\ at \in Nat
    BY <1>1, <1>5 DEF Stands
  <1>7. m = [ts |-> x.at, of |-> {x.at}, avg |-> x.v, sum |-> x.v, max |-> x.v]
    BY DEF Raw
  <1>8. m.ts = x.at /\ m.of = {x.at} /\ m.avg = x.v /\ m.sum = x.v /\ m.max = x.v
    BY <1>7
  <1>9. m \in Row
    BY <1>2, <1>7 DEF Row
  <1> HIDE DEF m
  <1>10. Of(m, new) = {x}
    BY <1>1, <1>8 DEF Of
  <1>11. SumOf(ValueOf, {x}) = x.v
    <2>1. IsFiniteSet({x}) /\ {x} \subseteq Reading
      BY FS_Singleton
    <2>2. Weights(ValueOf, {x})
      BY <2>1, ReadingSum
    <2>3. SumOf(ValueOf, {x}) = ValueOf[x] + SumOf(ValueOf, {x} \ {x}) /\ SumOf(ValueOf, {}) = 0
      BY <2>2, SumFacts
    <2>4. {x} \ {x} = {} /\ ValueOf[x] = x.v
      BY DEF ValueOf
    <2> QED BY <1>2, <2>3, <2>4
  <1>12. Stands(m, new)
    <2>1. m.of # {} /\ \A at \in m.of : m.ts <= at /\ \E y \in new : y.at = at
      BY <1>2, <1>8
    <2>2. m.sum = SumOf(ValueOf, Of(m, new))
      BY <1>8, <1>10, <1>11
    <2>3. /\ \E y \in Of(m, new) : y.v = m.max
          /\ \A y \in Of(m, new) : y.v <= m.max
          /\ \E y, z \in Of(m, new) : y.v <= m.avg /\ m.avg <= z.v
      BY <1>2, <1>8, <1>10
    <2> HIDE DEF new
    <2> QED BY <2>1, <2>2, <2>3 DEF Stands
  <1>13. \A tier \in Tier : Near(tier, m, time + 1)
    BY <1>8 DEF Near
  <1>14. \A r \in R : Stands(r, new)
    <2> SUFFICES ASSUME NEW r \in R PROVE Stands(r, new)
      OBVIOUS
    <2>1. Of(r, new) = Of(r, rd)
      BY <1>6 DEF Of
    <2> QED BY <1>5, <2>1 DEF Stands
  <1>15. IsFiniteSet(R \cup {m})
    BY <1>5, FS_AddElement
  <1>16. \A r, s \in R \cup {m} : r # s => r.of \cap s.of = {}
    BY <1>5, <1>6, <1>8
  <1>17. \A y \in new : \E r \in R \cup {m} : y.at \in r.of
    BY <1>5, <1>8
  <1>18. Store(R \cup {m}, new, time + 1)
    BY <1>5, <1>9, <1>12, <1>13, <1>14, <1>15, <1>16, <1>17 DEF Store
  <1> QED BY <1>3, <1>18 DEF m

LEMMA ChartInit == CInit => ChartInv
  <1> SUFFICES ASSUME CInit PROVE ChartInv
    OBVIOUS
  <1>1. clock = 0 /\ table = {} /\ snapshots = {} /\ readings = {}
    BY DEF CInit
  <1>2. IsFiniteSet({})
    BY FS_EmptySet
  <1>3. Measures({}, 0)
    BY <1>2 DEF Measures
  <1>4. Store({}, {}, 0)
    BY <1>2 DEF Store
  <1> QED BY <1>1, <1>3, <1>4 DEF ChartInv

LEMMA ChartStep == ChartInv /\ [CNext]_ctVars => ChartInv'
  <1> SUFFICES ASSUME ChartInv, [CNext]_ctVars PROVE ChartInv'
    OBVIOUS
  <1>1. clock \in Nat /\ Measures(readings, clock)
        /\ Store(table, readings, clock) /\ Store(snapshots, readings, clock)
    BY DEF ChartInv
  <1>2. CASE Pass
    <2>1. /\ clock' = clock + 1 /\ table' = table /\ snapshots' = snapshots
          /\ readings' = readings
      BY <1>2 DEF Pass
    <2>2. /\ Measures(readings, clock + 1)
          /\ Store(table, readings, clock + 1) /\ Store(snapshots, readings, clock + 1)
      BY <1>1, StoreLater
    <2>3. clock + 1 \in Nat
      BY <1>1
    <2> QED BY <2>1, <2>2, <2>3 DEF ChartInv
  <1>3. ASSUME NEW v \in Values, Measure(v) PROVE ChartInv'
    <2> DEFINE x == [at |-> clock, v |-> v]
    <2>1. x \in Reading /\ x.at = clock
      BY <1>1, ChartAssumption DEF Reading
    <2>2. /\ clock' = clock + 1 /\ table' = table \cup {Raw(x)}
          /\ snapshots' = snapshots \cup {Raw(x)} /\ readings' = readings \cup {x}
      BY <1>3 DEF Measure
    <2> HIDE DEF x
    <2>3. /\ Measures(readings \cup {x}, clock + 1)
          /\ Store(table \cup {Raw(x)}, readings \cup {x}, clock + 1)
          /\ Store(snapshots \cup {Raw(x)}, readings \cup {x}, clock + 1)
      BY <1>1, <2>1, StoreMeasured
    <2>4. clock + 1 \in Nat
      BY <1>1
    <2> QED BY <2>2, <2>3, <2>4 DEF ChartInv
  <1>4. ASSUME NEW k \in {2, 3}, Compact(k) PROVE ChartInv'
    <2>1. /\ clock' = clock /\ readings' = readings
          /\ table' = CompactTable(k) /\ snapshots' = CompactSnapshots(k)
      BY <1>4 DEF Compact
    <2>2. Store(CompactTable(k), readings, clock) /\ Store(CompactSnapshots(k), readings, clock)
      BY CompactedTable, CompactedSnapshots
    <2>3. Store(table', readings, clock) /\ Store(snapshots', readings, clock)
      BY <2>1, <2>2
    <2> QED BY <1>1, <2>1, <2>3 DEF ChartInv
  <1>5. CASE UNCHANGED ctVars
    BY <1>1, <1>5 DEF ctVars, ChartInv
  <1> QED BY <1>2, <1>3, <1>4, <1>5 DEF CNext

\* In every reachable state the rows of both tables keep the readings, each in
\* one row, near the bucket it was measured in.
THEOREM ChartsKept == CSpec => []ChartInv
  BY ChartInit, ChartStep, PTL DEF CSpec

-----------------------------------------------------------------------------
(***************************************************************************)
(* What a chart reads.                                                     *)
(***************************************************************************)
From(tier, i)       == ChartStart(tier) + i * Bucket[tier]
MeasuredIn(tier, i) == {r \in readings : r.at \in From(tier, i) .. From(tier, i) + Bucket[tier] - 1}

\* Time t is in bucket i of a chart that ends at e.
Hits(b, a, e, i, t) == e - a <= t /\ t <= e /\ (Floor(t, b) - (e - a)) \div b = i

LEMMA IndexArithmetic ==
    ASSUME NEW b \in Nat \ {0}, NEW a \in Nat \ {0}, a % b = 0, NEW e \in Int, e % b = 0,
           NEW i \in 1 .. (a \div b) - 1, NEW t \in Int
    PROVE  /\ (e - a) + i * b \in Int /\ ((e - a) + i * b) % b = 0
           /\ (e - a) + b <= (e - a) + i * b
           /\ Hits(b, a, e, i, t) <=> Floor(t, b) = (e - a) + i * b
  <1> DEFINE s == e - a
             f == Floor(t, b)
             n == i * b
  <1>1. i \in Nat \ {0} /\ i + 1 <= a \div b /\ (a \div b) \in Nat
    OBVIOUS
  <1>2. s \in Int /\ s % b = 0
    <2>1. s % b = 0
      BY MultipleSum
    <2> QED BY <2>1
  <1>3. n \in Int /\ n % b = 0 /\ b <= n
    <2>1. n \in Int /\ n % b = 0
      BY <1>1
    <2>2. b <= n
      BY <1>1
    <2> QED BY <2>1, <2>2
  <1>4. n + b <= a
    <2>1. a = b * (a \div b)
      <3>1. a = b * (a \div b) + (a % b)
        OBVIOUS
      <3> QED BY <3>1
    <2> DEFINE q == a \div b
    <2>2. i + 1 <= q /\ q \in Nat /\ a = b * q
      BY <1>1, <2>1
    <2> HIDE DEF q
    <2>3. b * (i + 1) <= b * q
      BY <1>1, <2>2
    <2>4. b * (i + 1) = n + b
      BY <1>1
    <2> QED BY <2>2, <2>3, <2>4
  <1>5. f \in Int /\ f <= t /\ t < f + b /\ f % b = 0
    BY FloorFacts
  <1> HIDE DEF f
  <1>6. (s + n) % b = 0
    <2> HIDE DEF s, n
    <2> QED BY <1>2, <1>3, MultipleSum
  <1>7. ASSUME (f - s) \div b = i PROVE f = s + n
    <2> DEFINE d == f - s
    <2>1. d \in Int /\ d % b = 0
      <3>1. (f - s) % b = 0
        <4> HIDE DEF s
        <4> QED BY <1>2, <1>5, MultipleSum
      <3> QED BY <1>2, <1>5, <3>1
    <2>2. d \div b = i
      BY <1>7
    <2>3. f = s + d
      BY <1>2, <1>5
    <2> HIDE DEF d
    <2>4. d = b * (d \div b) + (d % b)
      BY <2>1
    <2>5. d = b * i
      BY <2>1, <2>2, <2>4
    <2>6. b * i = n
      BY <1>1
    <2> QED BY <2>3, <2>5, <2>6
  <1>8. ASSUME f = s + n PROVE s <= t /\ t <= e /\ (f - s) \div b = i
    <2>1. f - s = n
      BY <1>2, <1>3, <1>8
    <2>2. n \div b = i
      BY <1>1
    <2>3. e = s + a
      OBVIOUS
    <2> HIDE DEF s, n
    <2>4. s <= t /\ t <= e
      BY <1>2, <1>3, <1>4, <1>5, <1>8, <2>3
    <2> QED BY <2>1, <2>2, <2>4
  <1>9. s + n \in Int /\ s + b <= s + n
    <2> HIDE DEF s, n
    <2> QED BY <1>2, <1>3
  <1> HIDE DEF s, n
  <1>10. (s <= t /\ t <= e /\ (f - s) \div b = i) <=> f = s + n
    BY <1>7, <1>8
  <1> QED BY <1>6, <1>9, <1>10 DEF s, n, f, Hits

\* A bucket of a chart, but the oldest: where it starts, and that it reads the
\* rows of one bucket of the tier.
LEMMA IndexFacts ==
    ASSUME clock \in Nat, NEW tier \in Tier, NEW i \in WholeIndices(tier)
    PROVE  /\ From(tier, i) \in Int /\ From(tier, i) % Bucket[tier] = 0
           /\ Whole(tier, clock) <= From(tier, i)
           /\ \A t \in Nat : (/\ ChartStart(tier) <= t /\ t <= ChartEnd(tier)
                              /\ BucketIndex(tier, t) = i)
                             <=> Floor(t, Bucket[tier]) = From(tier, i)
  <1> DEFINE b == Bucket[tier]
             a == Age[tier]
             e == Floor(clock, b)
  <1>1. b \in Nat \ {0} /\ a \in Nat \ {0} /\ a % b = 0
    BY ChartConstants
  <1>2. e \in Int /\ e % b = 0
    <2>1. clock \in Int
      OBVIOUS
    <2> HIDE DEF b
    <2> QED BY <1>1, <2>1, FloorFacts
  <1>3. ChartStart(tier) = e - a /\ ChartEnd(tier) = e
    BY DEF ChartStart, ChartEnd
  <1>4. i \in 1 .. (a \div b) - 1
    <2>1. i \in 0 .. (a \div b) - 1 /\ i # 0
      BY DEF WholeIndices, Indices
    <2>2. (a \div b) \in Nat
      BY <1>1
    <2> HIDE DEF a, b
    <2> QED BY <2>1, <2>2
  <1>5. Whole(tier, clock) = (e - a) + b /\ From(tier, i) = (e - a) + i * b
    BY <1>3 DEF Whole, From
  <1>6. \A t : BucketIndex(tier, t) = (Floor(t, b) - (e - a)) \div b
    BY <1>3 DEF BucketIndex
  <1> HIDE DEF a, b, e
  <1>7. ASSUME NEW t \in Int
        PROVE  /\ (e - a) + i * b \in Int /\ ((e - a) + i * b) % b = 0
               /\ (e - a) + b <= (e - a) + i * b
               /\ Hits(b, a, e, i, t) <=> Floor(t, b) = (e - a) + i * b
    <2>1. (e - a) + i * b \in Int
      BY <1>1, <1>2, <1>4, IndexArithmetic
    <2>2. ((e - a) + i * b) % b = 0
      BY <1>1, <1>2, <1>4, IndexArithmetic
    <2>3. (e - a) + b <= (e - a) + i * b
      BY <1>1, <1>2, <1>4, IndexArithmetic
    <2>4. Hits(b, a, e, i, t) <=> Floor(t, b) = (e - a) + i * b
      BY <1>1, <1>2, <1>4, IndexArithmetic
    <2> QED BY <2>1, <2>2, <2>3, <2>4
  <1>8. \A t \in Nat : (/\ ChartStart(tier) <= t /\ t <= ChartEnd(tier)
                        /\ BucketIndex(tier, t) = i)
                       <=> Floor(t, b) = From(tier, i)
    <2> SUFFICES ASSUME NEW t \in Nat
                 PROVE  (/\ ChartStart(tier) <= t /\ t <= ChartEnd(tier)
                         /\ BucketIndex(tier, t) = i)
                        <=> Floor(t, b) = From(tier, i)
      OBVIOUS
    <2>1. t \in Int
      OBVIOUS
    <2>2. Hits(b, a, e, i, t) <=> Floor(t, b) = (e - a) + i * b
      BY <1>7, <2>1
    <2> QED BY <1>3, <1>5, <1>6, <2>2 DEF Hits
  <1>9. /\ From(tier, i) \in Int /\ From(tier, i) % b = 0
        /\ Whole(tier, clock) <= From(tier, i)
    <2>1. 0 \in Int
      OBVIOUS
    <2> QED BY <1>5, <1>7, <2>1
  <1> QED BY <1>8, <1>9 DEF b

\* A bucket of a chart reads the rows of exactly the readings of its time.
LEMMA GroupFacts ==
    ASSUME clock \in Nat, Measures(readings, clock), NEW R, Store(R, readings, clock),
           NEW tier \in Tier, NEW i \in WholeIndices(tier)
    PROVE  /\ Group(tier, R, i) \in SUBSET R
           /\ UNION {Of(r, readings) : r \in Group(tier, R, i)} = MeasuredIn(tier, i)
  <1> DEFINE G == Group(tier, R, i)
             b == Bucket[tier]
             f == From(tier, i)
             w == Whole(tier, clock)
  <1>1. /\ R \subseteq Row /\ \A r \in R : Stands(r, readings)
        /\ \A r \in R : Near(tier, r, clock)
        /\ \A x \in readings : \E r \in R : x.at \in r.of
    BY DEF Store
  <1>2. \A r \in R : r.ts \in Nat /\ r.of \in SUBSET Nat
    BY <1>1 DEF Row
  <1>3. \A x \in readings : x.at \in Nat
    BY DEF Measures, Reading
  <1>4. /\ f \in Int /\ f % b = 0 /\ w <= f
        /\ \A t \in Nat : (/\ ChartStart(tier) <= t /\ t <= ChartEnd(tier)
                           /\ BucketIndex(tier, t) = i) <=> Floor(t, b) = f
    BY IndexFacts
  <1>5. b \in Nat \ {0} /\ w \in Int
    BY ChartConstants, WholeFacts
  <1>6. G \in SUBSET R /\ \A r \in R : r \in G <=> Floor(r.ts, b) = f
    BY <1>2, <1>4 DEF Group
  <1>7. \A x \in readings : x \in MeasuredIn(tier, i) <=> f <= x.at /\ x.at < f + b
    BY <1>3, <1>4, <1>5 DEF MeasuredIn
  <1> HIDE DEF G, b, f, w
  <1>8. ASSUME NEW t \in Nat PROVE (f <= t /\ t < f + b) <=> Floor(t, b) = f
    <2>1. t \in Int
      OBVIOUS
    <2>2. Floor(t, b) <= t /\ t < Floor(t, b) + b
      BY <1>5, <2>1, FloorFacts
    <2>3. (f <= t /\ t < f + b) => Floor(t, b) = f
      BY <1>4, <1>5, <2>1, FloorIs
    <2> QED BY <2>2, <2>3
  <1>9. ASSUME NEW r \in R, NEW at \in r.of
        PROVE  Floor(at, b) = f <=> Floor(r.ts, b) = f
    <2>1. CASE \A a \in r.of : Floor(a, b) = Floor(r.ts, b)
      BY <1>9, <2>1
    <2>2. CASE r.ts < w /\ \A a \in r.of : a < w
      <3>1. at \in Nat /\ r.ts \in Nat /\ at < w
        BY <1>2, <1>9, <2>2
      <3>2. ~ f <= at /\ ~ f <= r.ts
        BY <1>4, <1>5, <2>2, <3>1
      <3> QED BY <1>8, <3>1, <3>2
    <2> QED BY <1>1, <2>1, <2>2 DEF Near, b, w
  <1>10. ASSUME NEW r \in G, NEW x \in Of(r, readings) PROVE x \in MeasuredIn(tier, i)
    <2>1. r \in R /\ Floor(r.ts, b) = f /\ x \in readings /\ x.at \in r.of
      BY <1>6 DEF Of
    <2>2. Floor(x.at, b) = f /\ x.at \in Nat
      BY <1>3, <1>9, <2>1
    <2> QED BY <1>7, <1>8, <2>1, <2>2
  <1>11. ASSUME NEW x \in MeasuredIn(tier, i) PROVE \E r \in G : x \in Of(r, readings)
    <2>1. x \in readings /\ x.at \in Nat
      BY <1>3 DEF MeasuredIn
    <2>2. Floor(x.at, b) = f
      BY <1>7, <1>8, <2>1
    <2>3. PICK r \in R : x.at \in r.of
      BY <1>1, <2>1
    <2>4. r \in G
      BY <1>6, <1>9, <2>2, <2>3
    <2> QED BY <2>1, <2>3, <2>4 DEF Of
  <1>12. UNION {Of(r, readings) : r \in G} = MeasuredIn(tier, i)
    BY <1>10, <1>11
  <1> QED BY <1>6, <1>12 DEF G

\* What a bucket of a chart shows of a store of rows: nothing if nothing was
\* measured, otherwise the sum and the maximum of the readings and averages
\* between two of them.
Shows(G, M) ==
    /\ G = {} <=> M = {}
    /\ Sum(G) = SumOf(ValueOf, M)
    /\ G # {} => /\ \E x \in M : x.v = Highest(G)
                 /\ \A x \in M : x.v <= Highest(G)
                 /\ \E x, y \in M : x.v <= Average(G) /\ Average(G) <= y.v
                 /\ Average(G) \in Nat /\ Highest(G) \in Nat
    /\ \A r \in G : r.avg \in Nat /\ \E x, y \in M : x.v <= r.avg /\ r.avg <= y.v

LEMMA ChartShows ==
    ASSUME clock \in Nat, Measures(readings, clock), NEW R, Store(R, readings, clock),
           NEW tier \in Tier, NEW i \in WholeIndices(tier)
    PROVE  Shows(Group(tier, R, i), MeasuredIn(tier, i))
  <1> DEFINE G == Group(tier, R, i)
             M == MeasuredIn(tier, i)
             U == UNION {Of(r, readings) : r \in G}
  <1>1. G \in SUBSET R /\ U = M
    BY GroupFacts
  <1>2. /\ IsFiniteSet(R) /\ R \subseteq Row /\ \A r \in R : Stands(r, readings)
        /\ \A r, s \in R : r # s => r.of \cap s.of = {}
    BY DEF Store
  <1>3. /\ IsFiniteSet(G) /\ G \subseteq Row /\ \A r \in G : Stands(r, readings)
        /\ \A r, s \in G : r # s => r.of \cap s.of = {}
    <2> HIDE DEF G
    <2> QED BY <1>1, <1>2, FS_Subset
  <1>4. IsFiniteSet(readings) /\ readings \subseteq Reading
    BY DEF Measures
  <1>5. \A r \in G : \E x, y \in Of(r, readings) : x.v <= r.avg /\ r.avg <= y.v
    BY <1>3 DEF Stands
  <1>6. \A r \in G : r.avg \in Nat /\ Of(r, readings) \in SUBSET U
    BY <1>3 DEF Row
  <1>7. \A r \in G : Of(r, readings) # {}
    BY <1>5
  <1>8. G = {} <=> U = {}
    BY <1>7
  <1> HIDE DEF G
  <1>9. CASE G = {}
    <2>1. IsFiniteSet({})
      BY FS_EmptySet
    <2>2. Sum({}) = SumOf(SumOfRow, {}) /\ Weights(SumOfRow, {})
      BY <2>1, SumRows
    <2>3. Weights(ValueOf, {})
      BY <2>1 DEF Weights
    <2>4. SumOf(SumOfRow, {}) = 0 /\ SumOf(ValueOf, {}) = 0
      BY <2>2, <2>3, SumFacts
    <2>5. M = {} /\ Sum(G) = 0 /\ SumOf(ValueOf, M) = 0
      BY <1>1, <1>8, <1>9, <2>2, <2>4
    <2> HIDE DEF M
    <2>6. Shows(G, M)
      BY <1>9, <2>5 DEF Shows
    <2> QED BY <2>6 DEF G, M
  <1>10. CASE G # {}
    <2>1. /\ Sum(G) = SumOf(ValueOf, U)
          /\ \E x \in U : x.v = Highest(G)
          /\ \A x \in U : x.v <= Highest(G)
          /\ \E x, y \in U : x.v <= Average(G) /\ Average(G) <= y.v
      BY <1>3, <1>4, <1>10, RowsStand
    <2>2. Average(G) \in Nat /\ Highest(G) \in Nat
      BY <1>3, <1>10, Aggregates
    <2>3. \A r \in G : \E x, y \in U : x.v <= r.avg /\ r.avg <= y.v
      BY <1>5, <1>6
    <2> HIDE DEF U
    <2>4. Shows(G, U)
      BY <1>6, <1>8, <2>1, <2>2, <2>3 DEF Shows
    <2> QED BY <1>1, <2>4 DEF G
  <1> QED BY <1>9, <1>10

LEMMA MeasuredFacts ==
    ASSUME Measures(readings, clock), NEW tier \in Tier, NEW i \in WholeIndices(tier)
    PROVE  /\ i \in Indices(tier)
           /\ Total(tier, i) = SumOf(ValueOf, MeasuredIn(tier, i))
           /\ Measured(tier, i) = {r.v : r \in MeasuredIn(tier, i)}
           /\ \A r \in MeasuredIn(tier, i) : r.v \in Nat
           /\ MeasuredIn(tier, i) # {} =>
                /\ Min(Measured(tier, i)) \in Nat /\ Max(Measured(tier, i)) \in Nat
                /\ \A r \in MeasuredIn(tier, i) : /\ Min(Measured(tier, i)) <= r.v
                                                  /\ r.v <= Max(Measured(tier, i))
  <1> DEFINE M == MeasuredIn(tier, i)
             V == {r.v : r \in M}
  <1>1. IsFiniteSet(readings) /\ readings \subseteq Reading /\ M \in SUBSET readings
    BY DEF Measures, MeasuredIn
  <1>2. M \subseteq Reading /\ IsFiniteSet(M)
    <2> HIDE DEF M
    <2> QED BY <1>1, FS_Subset
  <1>3. Total(tier, i) = MapThenSumSet(LAMBDA r : r.v, M)
    BY DEF Total, MeasuredIn, From
  <1>4. Measured(tier, i) = V
    BY DEF Measured, MeasuredIn, From
  <1>5. \A r \in M : r.v \in Nat /\ ValueOf[r] = r.v
    BY <1>2 DEF Reading, ValueOf
  <1> HIDE DEF M
  <1>6. Weights(ValueOf, M) /\ MapThenSumSet(LAMBDA r : r.v, M) = SumOf(ValueOf, M)
    BY <1>2, ReadingSum
  <1>7. ASSUME M # {}
        PROVE  /\ Min(V) \in Nat /\ Max(V) \in Nat
               /\ \A r \in M : Min(V) <= r.v /\ r.v <= Max(V)
    <2>1. PICK hi \in M : \A y \in M : ValueOf[y] <= ValueOf[hi]
      BY <1>6, <1>7, Extremes
    <2>2. PICK lo \in M : \A y \in M : ValueOf[lo] <= ValueOf[y]
      BY <1>6, <1>7, Extremes
    <2>3. hi.v \in V /\ lo.v \in V /\ \A v \in V : v \in Nat /\ hi.v >= v /\ lo.v <= v
      BY <1>5, <2>1, <2>2
    <2>4. \A r \in M : r.v \in V
      OBVIOUS
    <2> HIDE DEF V
    <2>5. Max(V) \in V /\ \A v \in V : Max(V) >= v
      BY <2>3 DEF Max
    <2>6. Min(V) \in V /\ \A v \in V : Min(V) <= v
      BY <2>3 DEF Min
    <2> QED BY <2>3, <2>4, <2>5, <2>6
  <1>8. i \in Indices(tier)
    BY DEF WholeIndices
  <1> HIDE DEF V
  <1>9. /\ Total(tier, i) = SumOf(ValueOf, M) /\ Measured(tier, i) = V
        /\ \A r \in M : r.v \in Nat
        /\ M # {} => /\ Min(Measured(tier, i)) \in Nat /\ Max(Measured(tier, i)) \in Nat
                     /\ \A r \in M : /\ Min(Measured(tier, i)) <= r.v
                                     /\ r.v <= Max(Measured(tier, i))
    BY <1>3, <1>4, <1>5, <1>6, <1>7
  <1> QED BY <1>8, <1>9 DEF M, V

-----------------------------------------------------------------------------
(***************************************************************************)
(* ChartsKeepTheReadings                                                   *)
(***************************************************************************)
LEMMA SeriesValues ==
    ASSUME NEW tier \in Tier, NEW i \in Indices(tier), NEW R
    PROVE  /\ Series(tier, R, "sum")[i] = IF Group(tier, R, i) = {} THEN None
                                          ELSE Sum(Group(tier, R, i))
           /\ Series(tier, R, "avg")[i] = IF Group(tier, R, i) = {} THEN None
                                          ELSE Average(Group(tier, R, i))
  BY DEF Series

LEMMA TotalsKept == ChartInv => ChartTotalsAreKept
  <1> SUFFICES ASSUME ChartInv, NEW tier \in Tier, NEW i \in WholeIndices(tier)
               PROVE  /\ ErrorChart(tier)[i] = Total(tier, i)
                      /\ NetworkChart(tier)[i] = IF Measured(tier, i) = {} THEN None
                                                 ELSE Total(tier, i)
                      /\ DiskDeltaChart(tier)[i] = IF Measured(tier, i) = {} THEN None
                                                   ELSE Total(tier, i)
    BY DEF ChartTotalsAreKept
  <1> DEFINE M == MeasuredIn(tier, i)
             G == Group(tier, table, i)
             S == Group(tier, snapshots, i)
  <1>1. Shows(G, M) /\ Shows(S, M)
    BY ChartShows DEF ChartInv
  <1>2. /\ i \in Indices(tier) /\ Total(tier, i) = SumOf(ValueOf, M)
        /\ Measured(tier, i) = {r.v : r \in M}
    BY MeasuredFacts DEF ChartInv
  <1>3. Measured(tier, i) = {} <=> M = {}
    BY <1>2
  <1>4. /\ (G = {} <=> M = {}) /\ Sum(G) = SumOf(ValueOf, M)
        /\ Sum(S) = SumOf(ValueOf, M)
    BY <1>1 DEF Shows
  <1>5. ErrorChart(tier)[i] = Sum(S)
    BY <1>2 DEF ErrorChart
  <1>6. Series(tier, table, "sum")[i] = IF G = {} THEN None ELSE Sum(G)
    BY <1>2, SeriesValues
  <1>7. NetworkChart(tier)[i] = Series(tier, table, "sum")[i]
        /\ DiskDeltaChart(tier)[i] = Series(tier, table, "sum")[i]
    BY DEF NetworkChart, DiskDeltaChart
  <1> HIDE DEF G, S, M
  <1> QED BY <1>2, <1>3, <1>4, <1>5, <1>6, <1>7

LEMMA JobsShown == ChartInv => ActiveJobsAreShown
  <1> SUFFICES ASSUME ChartInv, NEW tier \in Tier, NEW i \in WholeIndices(tier)
               PROVE  JobChart(tier)[i] > 0 <=> \E v \in Measured(tier, i) : v > 0
    BY DEF ActiveJobsAreShown
  <1> DEFINE M == MeasuredIn(tier, i)
             S == Group(tier, snapshots, i)
  <1>1. Shows(S, M)
    BY ChartShows DEF ChartInv
  <1>2. /\ i \in Indices(tier) /\ Measured(tier, i) = {r.v : r \in M}
        /\ \A x \in M : x.v \in Nat
    BY MeasuredFacts DEF ChartInv
  <1>3. JobChart(tier)[i] = IF S = {} THEN 0 ELSE Highest(S)
    BY <1>2 DEF JobChart
  <1>4. /\ S = {} <=> M = {}
        /\ S # {} => /\ \E x \in M : x.v = Highest(S)
                     /\ \A x \in M : x.v <= Highest(S)
                     /\ Highest(S) \in Nat
    BY <1>1 DEF Shows
  <1>5. (\E v \in Measured(tier, i) : v > 0) <=> \E x \in M : x.v > 0
    BY <1>2
  <1> HIDE DEF M, S
  <1>6. CASE S = {}
    BY <1>3, <1>4, <1>5, <1>6
  <1>7. CASE S # {}
    <2>1. \A x \in M : x.v <= Highest(S) /\ x.v \in Nat
      BY <1>2, <1>4, <1>7
    <2>2. (\E x \in M : x.v > 0) <=> Highest(S) > 0
      BY <1>4, <1>7, <2>1
    <2> QED BY <1>3, <1>5, <1>7, <2>2
  <1> QED BY <1>6, <1>7

LEMMA AveragesInRange == ChartInv => AveragesStayInRange
  <1> SUFFICES ASSUME ChartInv, NEW tier \in Tier, NEW i \in WholeIndices(tier)
               PROVE  LET vs      == Measured(tier, i)
                          shown    == {GpuChart(tier)[i], DiskUsageChart(tier)[i],
                                       SnapshotChart(tier)[i]}
                          possible == IF vs = {} THEN {None} ELSE Min(vs) .. Max(vs)
                      IN /\ shown \subseteq possible
                         /\ CoreChart(tier)[i] \subseteq possible
                         /\ CoreChart(tier)[i] = {} <=> vs = {}
    BY DEF AveragesStayInRange
  <1> DEFINE M == MeasuredIn(tier, i)
             G == Group(tier, table, i)
             S == Group(tier, snapshots, i)
             V == Measured(tier, i)
             lo == Min(V)
             hi == Max(V)
             possible == IF V = {} THEN {None} ELSE lo .. hi
  <1>1. Shows(G, M) /\ Shows(S, M)
    BY ChartShows DEF ChartInv
  <1>2. /\ i \in Indices(tier) /\ V = {r.v : r \in M}
        /\ \A x \in M : x.v \in Nat
        /\ M # {} => /\ lo \in Nat /\ hi \in Nat
                     /\ \A x \in M : lo <= x.v /\ x.v <= hi
    BY MeasuredFacts DEF ChartInv
  <1>3. V = {} <=> M = {}
    BY <1>2
  <1>4. CoreChart(tier)[i] = {r.avg : r \in S}
    BY <1>2 DEF CoreChart
  <1>5. /\ GpuChart(tier)[i] = IF G = {} THEN None ELSE Average(G)
        /\ DiskUsageChart(tier)[i] = IF G = {} THEN None ELSE Average(G)
        /\ SnapshotChart(tier)[i] = IF S = {} THEN None ELSE Average(S)
    BY <1>2, SeriesValues DEF GpuChart, DiskUsageChart, SnapshotChart
  <1> HIDE DEF M, G, S, V, lo, hi
  <1>6. ASSUME NEW n \in Nat, \E x, y \in M : x.v <= n /\ n <= y.v
        PROVE  n \in possible
    <2>1. PICK x \in M, y \in M : x.v <= n /\ n <= y.v
      BY <1>6
    <2>2. lo \in Nat /\ hi \in Nat /\ lo <= x.v /\ y.v <= hi /\ x.v \in Nat /\ y.v \in Nat
      BY <1>2, <2>1
    <2>3. lo <= n /\ n <= hi
      BY <2>1, <2>2
    <2>4. V # {}
      BY <1>3, <2>1
    <2> QED BY <2>2, <2>3, <2>4
  <1>7. ASSUME NEW H, Shows(H, M)
        PROVE  (IF H = {} THEN None ELSE Average(H)) \in possible
    <2>1. CASE H = {}
      <3>1. V = {}
        BY <1>3, <1>7, <2>1 DEF Shows
      <3> QED BY <2>1, <3>1
    <2>2. CASE H # {}
      <3>1. Average(H) \in Nat /\ \E x, y \in M : x.v <= Average(H) /\ Average(H) <= y.v
        BY <1>7, <2>2 DEF Shows
      <3> HIDE DEF possible
      <3>2. Average(H) \in possible
        BY <1>6, <3>1
      <3> QED BY <2>2, <3>2
    <2> QED BY <2>1, <2>2
  <1>8. \A r \in S : r.avg \in possible
    <2> SUFFICES ASSUME NEW r \in S PROVE r.avg \in possible
      OBVIOUS
    <2>1. r.avg \in Nat /\ \E x, y \in M : x.v <= r.avg /\ r.avg <= y.v
      BY <1>1 DEF Shows
    <2> HIDE DEF possible
    <2> QED BY <1>6, <2>1
  <1>9. S = {} <=> V = {}
    BY <1>1, <1>3 DEF Shows
  <1> HIDE DEF possible
  <1>10. {GpuChart(tier)[i], DiskUsageChart(tier)[i], SnapshotChart(tier)[i]} \subseteq possible
    <2>1. (IF G = {} THEN None ELSE Average(G)) \in possible
      BY <1>1, <1>7
    <2>2. (IF S = {} THEN None ELSE Average(S)) \in possible
      BY <1>1, <1>7
    <2> QED BY <1>5, <2>1, <2>2
  <1>11. CoreChart(tier)[i] \subseteq possible
    BY <1>4, <1>8
  <1>12. CoreChart(tier)[i] = {} <=> V = {}
    BY <1>4, <1>9
  <1> QED BY <1>10, <1>11, <1>12 DEF possible, V, lo, hi

\* The charts of sums show all that was measured, those of flags every active
\* job, and those of averages nothing outside what was measured, in every bucket
\* but the oldest, whatever compact_data has merged (ChartDataView).
THEOREM ChartsRight == CSpec => []ChartsKeepTheReadings
  <1>1. ChartInv => ChartsKeepTheReadings
    BY TotalsKept, JobsShown, AveragesInRange DEF ChartsKeepTheReadings
  <1> QED BY <1>1, ChartsKept, PTL

-----------------------------------------------------------------------------
(***************************************************************************)
(* Order.                                                                  *)
(***************************************************************************)
StrictOrder(S, R) ==
    /\ \A x \in S : <<x, x>> \notin R
    /\ \A x, y \in S : x # y => <<x, y>> \in R \/ <<y, x>> \in R
    /\ \A x, y, z \in S : <<x, y>> \in R /\ <<y, z>> \in R => <<x, z>> \in R

Ahead(S, R, x) == {y \in S : <<y, x>> \in R}

\* What is before another element has fewer before it.
LEMMA AheadGrows ==
    ASSUME NEW S, NEW R, IsFiniteSet(S), StrictOrder(S, R), NEW x \in S
    PROVE  /\ Cardinality(Ahead(S, R, x)) \in 0 .. Cardinality(S) - 1
           /\ \A y \in S : <<x, y>> \in R =>
                 Cardinality(Ahead(S, R, x)) < Cardinality(Ahead(S, R, y))
  <1>1. \A y \in S : /\ Ahead(S, R, y) \in SUBSET S /\ y \notin Ahead(S, R, y)
                     /\ IsFiniteSet(Ahead(S, R, y)) /\ Cardinality(Ahead(S, R, y)) \in Nat
    BY FS_Subset, FS_CardinalityType DEF Ahead, StrictOrder
  <1>2. Cardinality(S) \in Nat
    BY FS_CardinalityType
  <1>3. Ahead(S, R, x) \in SUBSET (S \ {x}) /\ IsFiniteSet(S \ {x})
        /\ Cardinality(S \ {x}) = Cardinality(S) - 1
    BY <1>1, FS_RemoveElement
  <1>4. Cardinality(Ahead(S, R, x)) <= Cardinality(S) - 1
    BY <1>3, FS_Subset
  <1>5. ASSUME NEW y \in S, <<x, y>> \in R
        PROVE  Cardinality(Ahead(S, R, x)) < Cardinality(Ahead(S, R, y))
    <2>1. Ahead(S, R, x) \in SUBSET Ahead(S, R, y) /\ x \in Ahead(S, R, y)
      BY <1>5 DEF Ahead, StrictOrder
    <2>2. /\ Cardinality(Ahead(S, R, x)) <= Cardinality(Ahead(S, R, y))
          /\ Cardinality(Ahead(S, R, y)) = Cardinality(Ahead(S, R, x)) =>
                Ahead(S, R, x) = Ahead(S, R, y)
      BY <1>1, <2>1, FS_Subset
    <2> QED BY <1>1, <2>1, <2>2
  <1> QED BY <1>1, <1>2, <1>4, <1>5

\* A ranking has each element once, and none before one that is ahead of it.
LEMMA Ranking ==
    ASSUME NEW S, NEW R, IsFiniteSet(S), StrictOrder(S, R)
    PROVE  /\ Cardinality(S) \in Nat
           /\ DOMAIN Ranked(S, R) = 1 .. Cardinality(S)
           /\ \A k \in 1 .. Cardinality(S) : Ranked(S, R)[k] \in S
           /\ \A x \in S : \E k \in 1 .. Cardinality(S) : Ranked(S, R)[k] = x
           /\ \A k, l \in 1 .. Cardinality(S) :
                 k < l => <<Ranked(S, R)[k], Ranked(S, R)[l]>> \in R
           /\ \A k \in 1 .. Cardinality(S) :
                 Cardinality(Ahead(S, R, Ranked(S, R)[k])) = k - 1
  <1> DEFINE n == Cardinality(S)
             rank == [x \in S |-> Cardinality(Ahead(S, R, x))]
             list == Ranked(S, R)
  <1>1. n \in Nat
    BY FS_CardinalityType
  <1>2. \A x \in S : rank[x] \in 0 .. n - 1
    BY AheadGrows
  <1>3. \A x, y \in S : <<x, y>> \in R => rank[x] < rank[y]
    BY AheadGrows
  <1>4. \A x, y \in S : x # y => rank[x] # rank[y]
    <2> HIDE DEF rank
    <2> SUFFICES ASSUME NEW x \in S, NEW y \in S, x # y PROVE rank[x] # rank[y]
      OBVIOUS
    <2>1. rank[x] \in Int /\ rank[y] \in Int
      BY <1>1, <1>2
    <2>2. rank[x] < rank[y] \/ rank[y] < rank[x]
      BY <1>3 DEF StrictOrder
    <2> QED BY <2>1, <2>2
  <1>5. rank \in Injection(S, 0 .. n - 1)
    <2>1. rank \in [S -> 0 .. n - 1]
      BY <1>2
    <2> HIDE DEF rank
    <2> QED BY <1>4, <2>1 DEF Injection, IsInjective
  <1>6. IsFiniteSet(0 .. n - 1) /\ Cardinality(0 .. n - 1) = n
    BY <1>1, FS_Interval
  <1>7. \A k \in 0 .. n - 1 : \E x \in S : rank[x] = k
    <2> HIDE DEF rank
    <2>1. rank \in Surjection(S, 0 .. n - 1)
      BY <1>5, <1>6, FS_Injection
    <2> QED BY <2>1 DEF Surjection
  <1>8. DOMAIN list = 1 .. n
    BY DEF Ranked
  <1>9. ASSUME NEW k \in 1 .. n PROVE list[k] \in S /\ rank[list[k]] = k - 1
    <2>1. list[k] = CHOOSE x \in S : Cardinality({y \in S : <<y, x>> \in R}) = k - 1
      BY DEF Ranked
    <2>2. k - 1 \in 0 .. n - 1
      BY <1>1
    <2>3. \E x \in S : Cardinality({y \in S : <<y, x>> \in R}) = k - 1
      BY <1>7, <2>2 DEF Ahead
    <2>4. list[k] \in S /\ Cardinality({y \in S : <<y, list[k]>> \in R}) = k - 1
      <3> DEFINE l == list[k]
      <3>1. l = CHOOSE x \in S : Cardinality({y \in S : <<y, x>> \in R}) = k - 1
        BY <2>1
      <3> HIDE DEF l
      <3>2. l \in S /\ Cardinality({y \in S : <<y, l>> \in R}) = k - 1
        BY <2>3, <3>1
      <3> QED BY <3>2 DEF l
    <2> HIDE DEF list
    <2> QED BY <2>4 DEF Ahead
  <1> HIDE DEF list
  <1>10. ASSUME NEW x \in S PROVE \E k \in 1 .. n : list[k] = x
    <2> DEFINE k == rank[x] + 1
    <2>1. k \in 1 .. n /\ k - 1 = rank[x]
      BY <1>1, <1>2
    <2> HIDE DEF k, rank
    <2>2. list[k] \in S /\ rank[list[k]] = rank[x]
      BY <1>9, <2>1
    <2> QED BY <1>4, <2>1, <2>2
  <1>11. ASSUME NEW k \in 1 .. n, NEW l \in 1 .. n, k < l PROVE <<list[k], list[l]>> \in R
    <2> HIDE DEF rank
    <2>1. list[k] \in S /\ list[l] \in S /\ rank[list[k]] < rank[list[l]]
      BY <1>9, <1>11
    <2>2. \/ list[k] = list[l] \/ <<list[k], list[l]>> \in R \/ <<list[l], list[k]>> \in R
      BY <2>1 DEF StrictOrder
    <2>3. rank[list[l]] \in Nat /\ rank[list[k]] \in Nat
      BY <1>1, <1>2, <2>1
    <2>4. ~ (rank[list[l]] < rank[list[k]]) /\ rank[list[k]] # rank[list[l]]
      BY <2>1, <2>3
    <2> QED BY <1>3, <2>1, <2>2, <2>4
  <1>12. \A k \in 1 .. n : Cardinality(Ahead(S, R, list[k])) = k - 1
    BY <1>9
  <1> QED BY <1>1, <1>8, <1>9, <1>10, <1>11, <1>12 DEF list

\* Numbers in ascending order.
LEMMA AscendingFacts ==
    ASSUME NEW I, I \subseteq Int, IsFiniteSet(I)
    PROVE  /\ Cardinality(I) \in Nat
           /\ DOMAIN Ascending(I) = 1 .. Cardinality(I)
           /\ \A k \in 1 .. Cardinality(I) : Ascending(I)[k] \in I
           /\ \A i \in I : \E k \in 1 .. Cardinality(I) : Ascending(I)[k] = i
           /\ \A k, l \in 1 .. Cardinality(I) : k < l => Ascending(I)[k] < Ascending(I)[l]
           /\ \A k \in 1 .. Cardinality(I) : Cardinality({i \in I : i < Ascending(I)[k]}) = k - 1
  <1> DEFINE R == {p \in I \X I : p[1] < p[2]}
  <1>1. Ascending(I) = Ranked(I, R)
    BY DEF Ascending, Sorted
  <1>2. \A i, j \in I : <<i, j>> \in R <=> i < j
    OBVIOUS
  <1> HIDE DEF R
  <1>3. StrictOrder(I, R)
    BY <1>2 DEF StrictOrder
  <1>4. /\ Cardinality(I) \in Nat
        /\ DOMAIN Ranked(I, R) = 1 .. Cardinality(I)
        /\ \A k \in 1 .. Cardinality(I) : Ranked(I, R)[k] \in I
        /\ \A x \in I : \E k \in 1 .. Cardinality(I) : Ranked(I, R)[k] = x
        /\ \A k, l \in 1 .. Cardinality(I) :
              k < l => <<Ranked(I, R)[k], Ranked(I, R)[l]>> \in R
        /\ \A k \in 1 .. Cardinality(I) : Cardinality(Ahead(I, R, Ranked(I, R)[k])) = k - 1
    BY <1>3, Ranking
  <1>5. \A j \in I : Ahead(I, R, j) = {i \in I : i < j}
    BY <1>2 DEF Ahead
  <1> QED BY <1>1, <1>2, <1>4, <1>5

\* list has the elements of s at the places I: order leads from its places to them.
Picks(list, order, s, I) ==
    /\ Len(list) = Cardinality(I) /\ Cardinality(I) \in Nat
    /\ \A k \in 1 .. Len(list) : order[k] \in I /\ list[k] = s[order[k]]
    /\ \A i \in I : \E k \in 1 .. Len(list) : order[k] = i /\ list[k] = s[i]
    /\ \A k, l \in 1 .. Len(list) : k < l => order[k] < order[l]

\* The elements at some places of a sequence, in the order of their places.
LEMMA AtFacts ==
    ASSUME NEW T, NEW s \in Seq(T), NEW I, I \subseteq 1 .. Len(s)
    PROVE  IsFiniteSet(I) /\ At(s, I) \in Seq(T) /\ Picks(At(s, I), Ascending(I), s, I)
  <1>1. Len(s) \in Nat /\ s \in [1 .. Len(s) -> T]
    BY LenProperties
  <1>2. IsFiniteSet(I) /\ I \subseteq Int
    <2>1. IsFiniteSet(1 .. Len(s)) /\ I \in SUBSET (1 .. Len(s))
      BY <1>1, FS_Interval
    <2>2. IsFiniteSet(I)
      BY <2>1, FS_Subset
    <2>3. I \subseteq Int
      BY <1>1
    <2> QED BY <2>2, <2>3
  <1> DEFINE n == Cardinality(I)
             order == Ascending(I)
             list == At(s, I)
  <1>3. /\ n \in Nat
        /\ \A k \in 1 .. n : order[k] \in I
        /\ \A i \in I : \E k \in 1 .. n : order[k] = i
        /\ \A k, l \in 1 .. n : k < l => order[k] < order[l]
    BY <1>2, AscendingFacts
  <1> HIDE DEF order, n
  <1>4. list = [k \in 1 .. n |-> s[order[k]]]
    BY DEF At, order, n
  <1>5. \A k \in 1 .. n : s[order[k]] \in T
    BY <1>1, <1>3
  <1> HIDE DEF list
  <1>6. list \in [1 .. n -> T]
    BY <1>4, <1>5
  <1>7. list \in Seq(T) /\ Len(list) = n /\ DOMAIN list = 1 .. n
    BY <1>3, <1>6
  <1>8. \A k \in 1 .. n : list[k] = s[order[k]]
    BY <1>4
  <1>9. \A i \in I : \E k \in 1 .. n : order[k] = i /\ list[k] = s[i]
    BY <1>3, <1>8
  <1>10. Picks(list, order, s, I)
    BY <1>3, <1>7, <1>8, <1>9 DEF Picks, n
  <1> QED BY <1>2, <1>7, <1>10 DEF order, list

\* All of a sequence, place by place, is the sequence.
LEMMA AtAll ==
    ASSUME NEW T, NEW s \in Seq(T)
    PROVE  At(s, 1 .. Len(s)) = s
  <1> DEFINE n == Len(s)
             I == 1 .. n
             order == Ascending(I)
  <1>1. n \in Nat /\ s \in [1 .. n -> T]
    BY LenProperties
  <1>2. IsFiniteSet(I) /\ Cardinality(I) = n /\ I \subseteq Int
    BY <1>1, FS_Interval
  <1>3. ASSUME NEW k \in 1 .. n PROVE order[k] = k
    <2>1. order[k] \in I /\ Cardinality({i \in I : i < order[k]}) = k - 1
      BY <1>2, AscendingFacts
    <2> DEFINE x == order[k]
    <2> HIDE DEF order, x
    <2>2. x \in 1 .. n /\ Cardinality({i \in I : i < x}) = k - 1
      BY <2>1 DEF x
    <2>3. {i \in I : i < x} = 1 .. x - 1
      BY <1>1, <2>2
    <2>4. x - 1 \in Int /\ x \in Nat \ {0}
      BY <1>1, <2>2
    <2>5. Cardinality(1 .. x - 1) = x - 1
      BY <2>4, FS_Interval
    <2>6. x - 1 = k - 1
      BY <2>2, <2>3, <2>5
    <2>7. x = k
      BY <1>1, <2>4, <2>6
    <2> QED BY <2>7 DEF x
  <1> HIDE DEF order
  <1>4. At(s, I) = [k \in 1 .. n |-> s[order[k]]]
    BY <1>2 DEF At, order
  <1>5. [k \in 1 .. n |-> s[order[k]]] = [k \in 1 .. n |-> s[k]]
    BY <1>3
  <1>6. [k \in 1 .. n |-> s[k]] = s
    BY <1>1
  <1> QED BY <1>4, <1>5, <1>6

-----------------------------------------------------------------------------
(***************************************************************************)
(* Percentiles.                                                            *)
(***************************************************************************)
Rising(s) == \A k, l \in 1 .. Len(s) : k <= l => s[k] <= s[l]

\* The values that are known are a sequence of them.
LEMMA ValidFacts ==
    ASSUME None \notin Int, NEW values \in Seq(Int \cup {None})
    PROVE  /\ Valid(values) \in Seq(Int)
           /\ \A k \in 1 .. Len(Valid(values)) :
                 \E i \in 1 .. Len(values) : Valid(values)[k] = values[i]
           /\ \A i \in 1 .. Len(values) : values[i] # None =>
                 \E k \in 1 .. Len(Valid(values)) : Valid(values)[k] = values[i]
  <1> DEFINE I == {i \in DOMAIN values : values[i] # None}
             v == Valid(values)
  <1>1. v = At(values, I)
    BY DEF Valid, Where
  <1>2. DOMAIN values = 1 .. Len(values) /\ I \subseteq 1 .. Len(values)
    BY LenProperties
  <1> HIDE DEF I
  <1>3. /\ v \in Seq(Int \cup {None}) /\ Len(v) = Cardinality(I)
        /\ \A k \in 1 .. Cardinality(I) : Ascending(I)[k] \in I /\ v[k] = values[Ascending(I)[k]]
        /\ \A i \in I : \E k \in 1 .. Cardinality(I) : v[k] = values[i]
    <2> DEFINE T == Int \cup {None}
    <2>1. values \in Seq(T)
      OBVIOUS
    <2> HIDE DEF T
    <2>2. At(values, I) \in Seq(T) /\ Picks(At(values, I), Ascending(I), values, I)
      BY <1>2, <2>1, AtFacts
    <2> HIDE DEF v
    <2> QED BY <1>1, <2>2 DEF T, Picks
  <1> HIDE DEF v
  <1>4. \A k \in 1 .. Len(v) : v[k] # None /\ \E i \in 1 .. Len(values) : v[k] = values[i]
    BY <1>2, <1>3 DEF I
  <1>5. \A k \in 1 .. Len(v) : v[k] \in Int
    <2>1. \A k \in 1 .. Len(v) : v[k] \in Int \cup {None}
      BY <1>3, ElementOfSeq
    <2> QED BY <1>4, <2>1
  <1>6. v \in Seq(Int)
    <2>1. Len(v) \in Nat /\ v \in [1 .. Len(v) -> Int \cup {None}]
      BY <1>3, LenProperties
    <2>2. v \in [1 .. Len(v) -> Int]
      BY <1>5, <2>1
    <2> QED BY <2>1, <2>2
  <1>7. \A i \in 1 .. Len(values) : values[i] # None => \E k \in 1 .. Len(v) : v[k] = values[i]
    BY <1>2, <1>3 DEF I
  <1> QED BY <1>4, <1>6, <1>7 DEF v

LEMMA ValidAll ==
    ASSUME None \notin Int, NEW s \in Seq(Int)
    PROVE  Valid(s) = s
  <1>1. DOMAIN s = 1 .. Len(s) /\ \A i \in 1 .. Len(s) : s[i] \in Int
    BY LenProperties, ElementOfSeq
  <1>2. {i \in DOMAIN s : s[i] # None} = 1 .. Len(s)
    BY <1>1
  <1>3. Valid(s) = At(s, 1 .. Len(s))
    BY <1>2 DEF Valid, Where
  <1> QED BY <1>3, AtAll

\* sorted() gives the same values from the smallest to the largest: at least k
\* of them are not larger than the k-th.
LEMMA BySizeFacts ==
    ASSUME NEW s \in Seq(Int)
    PROVE  /\ BySize(s) \in Seq(Int) /\ Len(BySize(s)) = Len(s) /\ Rising(BySize(s))
           /\ \A k \in 1 .. Len(s) : \E i \in 1 .. Len(s) : BySize(s)[k] = s[i]
           /\ \A k \in 1 .. Len(s) :
                 Cardinality({i \in 1 .. Len(s) : s[i] <= BySize(s)[k]}) >= k
  <1> DEFINE n == Len(s)
             D == DOMAIN s
             R == {p \in D \X D : s[p[1]] < s[p[2]] \/ (s[p[1]] = s[p[2]] /\ p[1] < p[2])}
             order == Ranked(D, R)
             b == BySize(s)
  <1>1. n \in Nat /\ D = 1 .. n /\ IsFiniteSet(D) /\ Cardinality(D) = n
    <2>1. n \in Nat /\ D = 1 .. n
      BY LenProperties
    <2>2. IsFiniteSet(1 .. n) /\ Cardinality(1 .. n) = n
      BY <2>1, FS_Interval
    <2> QED BY <2>1, <2>2
  <1>2. \A i \in 1 .. n : s[i] \in Int
    BY ElementOfSeq
  <1>3. b = [k \in 1 .. n |-> s[order[k]]]
    <2>1. order = Sorted(DOMAIN s, LAMBDA i, j : \/ s[i] < s[j] \/ (s[i] = s[j] /\ i < j))
      BY DEF Sorted
    <2> HIDE DEF order
    <2> QED BY <1>1, <2>1 DEF BySize
  <1>4. \A i, j \in D : <<i, j>> \in R <=> (s[i] < s[j] \/ (s[i] = s[j] /\ i < j))
    OBVIOUS
  <1>5. StrictOrder(D, R)
    <2> HIDE DEF R
    <2> QED BY SMTT(30), <1>1, <1>2, <1>4 DEF StrictOrder
  <1>6. /\ \A k \in 1 .. n : order[k] \in D
        /\ \A k, l \in 1 .. n : k < l => <<order[k], order[l]>> \in R
    <2> HIDE DEF R, D
    <2> QED BY <1>1, <1>5, Ranking
  <1> HIDE DEF order, R, b
  <1>7. b \in [1 .. n -> Int] /\ \A k \in 1 .. n : b[k] = s[order[k]]
    BY <1>1, <1>2, <1>3, <1>6
  <1>8. b \in Seq(Int) /\ Len(b) = n
    BY <1>1, <1>7
  <1>9. Rising(b)
    <2> SUFFICES ASSUME NEW k \in 1 .. n, NEW l \in 1 .. n, k < l PROVE b[k] <= b[l]
      BY <1>1, <1>7, <1>8 DEF Rising
    <2>1. s[order[k]] < s[order[l]] \/ s[order[k]] = s[order[l]]
      BY <1>4, <1>6
    <2>2. s[order[k]] \in Int /\ s[order[l]] \in Int
      BY <1>1, <1>2, <1>6
    <2>3. b[k] = s[order[k]] /\ b[l] = s[order[l]]
      BY <1>7
    <2>4. \A x, y \in Int : x < y \/ x = y => x <= y
      OBVIOUS
    <2> QED BY <2>1, <2>2, <2>3, <2>4
  <1>10. \A k \in 1 .. n : \E i \in 1 .. n : b[k] = s[i]
    BY <1>1, <1>6, <1>7
  <1>11. ASSUME NEW k \in 1 .. n PROVE Cardinality({i \in 1 .. n : s[i] <= b[k]}) >= k
    <2> DEFINE J == {i \in 1 .. n : s[i] <= b[k]}
               f == [l \in 1 .. k |-> order[l]]
    <2>1. IsFiniteSet(J) /\ Cardinality(J) \in Nat
      BY <1>1, FS_Subset, FS_CardinalityType
    <2>2. \A l \in 1 .. k : l \in 1 .. n /\ b[l] <= b[k]
      BY <1>1, <1>8, <1>9 DEF Rising
    <2>3. f \in [1 .. k -> J]
      BY <1>1, <1>6, <1>7, <2>2
    <2>4. ASSUME NEW l \in 1 .. k, NEW m \in 1 .. k, l < m PROVE order[l] # order[m]
      BY <1>5, <1>6, <2>2, <2>4 DEF StrictOrder
    <2>5. \A l, m \in 1 .. k : f[l] = f[m] => l = m
      BY <1>1, <2>4
    <2> HIDE DEF J, f
    <2>6. f \in Injection(1 .. k, J)
      BY <2>3, <2>5 DEF Injection, IsInjective
    <2>7. Cardinality(1 .. k) <= Cardinality(J) /\ Cardinality(1 .. k) = k
      BY <1>1, <2>1, <2>6, FS_Injection, FS_Interval
    <2>8. Cardinality(J) >= k
      BY <2>1, <2>7
    <2> QED BY <2>8 DEF J
  <1> QED BY <1>8, <1>9, <1>10, <1>11 DEF b

\* The value at a place between two ranks, in hundredths.
PointAt(b, place) ==
    b[1 + place \div 100] * (100 - (place % 100))
    + b[IF 2 + place \div 100 <= Len(b) THEN 2 + place \div 100 ELSE Len(b)] * (place % 100)

LEMMA MinOfInts ==
    ASSUME NEW a \in Int, NEW b \in Int
    PROVE  Min({a, b}) = IF a <= b THEN a ELSE b
  BY DEF Min

LEMMA Hundredths ==
    ASSUME NEW place \in Nat
    PROVE  /\ place \div 100 \in Nat /\ place % 100 \in 0 .. 99
           /\ place = 100 * (place \div 100) + (place % 100)
  OBVIOUS

LEMMA PercentileIs ==
    ASSUME None \notin Int, NEW s \in Seq(Int), s # <<>>, NEW p \in Nat
    PROVE  /\ Len(s) - 1 \in Nat /\ (Len(s) - 1) * p \in Nat
           /\ Percentile(s, p) = PointAt(BySize(s), (Len(s) - 1) * p)
  <1>1. Len(s) \in Nat \ {0} /\ Valid(s) = s
    BY ValidAll
  <1> DEFINE b == BySize(s)
             place == (Len(s) - 1) * p
             low == 1 + place \div 100
  <1>2. b \in Seq(Int) /\ Len(b) = Len(s) /\ b # <<>>
    <2>1. b \in Seq(Int) /\ Len(b) = Len(s)
      BY BySizeFacts
    <2> QED BY <1>1, <2>1
  <1>3. place \in Nat
    <2>1. \A m, k \in Nat : m * k \in Nat
      OBVIOUS
    <2>2. Len(s) - 1 \in Nat
      BY <1>1
    <2> QED BY <2>1, <2>2
  <1> HIDE DEF b
  <1>4. Percentile(s, p) = b[low] * (100 - (place % 100)) + b[Min({low + 1, Len(b)})] * (place % 100)
    BY <1>1, <1>2 DEF Percentile, b
  <1> HIDE DEF place
  <1>5. low \in Nat /\ low + 1 = 2 + place \div 100 /\ Len(b) \in Int
    BY <1>1, <1>2, <1>3, Hundredths
  <1> DEFINE next == IF 2 + place \div 100 <= Len(b) THEN 2 + place \div 100 ELSE Len(b)
  <1>6. Min({low + 1, Len(b)}) = next
    BY <1>5, MinOfInts
  <1>7. Percentile(s, p) = b[low] * (100 - (place % 100)) + b[next] * (place % 100)
    BY <1>4, <1>6
  <1>8. Percentile(s, p) = PointAt(b, place)
    BY <1>7 DEF PointAt
  <1> QED BY <1>1, <1>3, <1>8 DEF b, place

\* Between two ranks the value is between theirs, and it grows with the place.
LEMMA PointBetween ==
    ASSUME NEW b \in Seq(Int), Rising(b), NEW place \in Nat, place <= 100 * (Len(b) - 1),
           b # <<>>
    PROVE  /\ 1 + place \div 100 \in 1 .. Len(b) /\ PointAt(b, place) \in Int
           /\ 100 * b[1 + place \div 100] <= PointAt(b, place)
           /\ \A k \in 1 .. Len(b) : k >= 2 + place \div 100 => PointAt(b, place) <= 100 * b[k]
           /\ \A k \in 1 .. Len(b) :
                 place % 100 = 0 /\ k >= 1 + place \div 100 => PointAt(b, place) <= 100 * b[k]
  <1>1. Len(b) \in Nat \ {0} /\ \A k \in 1 .. Len(b) : b[k] \in Int
    BY ElementOfSeq
  <1> DEFINE q == place \div 100
             r == place % 100
             next == IF 2 + q <= Len(b) THEN 2 + q ELSE Len(b)
             x == b[1 + q]
             y == b[next]
  <1>2. q \in Nat /\ r \in 0 .. 99 /\ place = 100 * q + r
    BY Hundredths
  <1>3. PointAt(b, place) = x * (100 - r) + y * r
    BY DEF PointAt
  <1> HIDE DEF q, r
  <1>4. 1 + q \in 1 .. Len(b) /\ next \in 1 .. Len(b) /\ 1 + q <= next
    BY <1>1, <1>2
  <1>5. x \in Int /\ y \in Int /\ x <= y
    <2>1. \A k, l \in 1 .. Len(b) : k <= l => b[k] <= b[l]
      BY DEF Rising
    <2> HIDE DEF next
    <2> QED BY <1>1, <1>4, <2>1
  <1>6. \A k \in 1 .. Len(b) : /\ k >= 2 + q => y <= b[k]
                               /\ k >= 1 + q => x <= b[k]
    <2>1. \A k, l \in 1 .. Len(b) : k <= l => b[k] <= b[l]
      BY DEF Rising
    <2>2. \A k \in 1 .. Len(b) : k >= 2 + q => next <= k
      BY <1>1, <1>2
    <2> HIDE DEF next
    <2> QED BY <1>1, <1>4, <2>1, <2>2
  <1> HIDE DEF x, y, next
  <1>7. r \in Nat /\ 100 - r \in Nat
    BY <1>2
  <1>8. x * (100 - r) + y * r = 100 * x + (y - x) * r /\ (y - x) * r \in Nat
    <2>1. \A d \in Nat : d * r \in Nat
      BY <1>7
    <2>2. y - x \in Nat
      BY <1>5
    <2>3. (y - x) * r = y * r - x * r /\ x * (100 - r) = 100 * x - x * r
      BY <1>5, <1>7
    <2>4. x * r \in Int /\ y * r \in Int
      BY <1>5, <1>7
    <2> QED BY <1>5, <2>1, <2>2, <2>3, <2>4
  <1>9. x * (100 - r) + y * r = 100 * y - (y - x) * (100 - r) /\ (y - x) * (100 - r) \in Nat
    <2>1. \A d \in Nat : d * (100 - r) \in Nat
      BY <1>7
    <2>2. y - x \in Nat
      BY <1>5
    <2>3. (y - x) * (100 - r) = y * (100 - r) - x * (100 - r) /\ y * (100 - r) = 100 * y - y * r
      BY <1>5, <1>7
    <2>4. x * (100 - r) \in Int /\ y * r \in Int
      BY <1>5, <1>7
    <2> QED BY <1>5, <2>1, <2>2, <2>3, <2>4
  <1> DEFINE P == PointAt(b, place)
  <1>10. P \in Int /\ 100 * x <= P /\ P <= 100 * y
    BY <1>3, <1>5, <1>8, <1>9
  <1>11. r = 0 => P = 100 * x
    BY <1>3, <1>5
  <1> HIDE DEF P
  <1>12. \A k \in 1 .. Len(b) : k >= 2 + q => P <= 100 * b[k]
    BY <1>1, <1>5, <1>6, <1>10
  <1>13. \A k \in 1 .. Len(b) : r = 0 /\ k >= 1 + q => P <= 100 * b[k]
    BY <1>1, <1>5, <1>6, <1>10, <1>11
  <1> QED BY <1>4, <1>10, <1>12, <1>13 DEF P, q, r, x

LEMMA PointGrows ==
    ASSUME NEW b \in Seq(Int), Rising(b), b # <<>>, NEW early \in Nat, NEW late \in Nat,
           early <= late, late <= 100 * (Len(b) - 1)
    PROVE  PointAt(b, early) <= PointAt(b, late)
  <1>1. Len(b) \in Nat \ {0} /\ \A k \in 1 .. Len(b) : b[k] \in Int
    BY ElementOfSeq
  <1> DEFINE q1 == early \div 100
             r1 == early % 100
             q2 == late \div 100
             r2 == late % 100
             P1 == PointAt(b, early)
             P2 == PointAt(b, late)
  <1>2. /\ q1 \in Nat /\ r1 \in 0 .. 99 /\ early = 100 * q1 + r1
        /\ q2 \in Nat /\ r2 \in 0 .. 99 /\ late = 100 * q2 + r2
    BY Hundredths
  <1>3. early <= 100 * (Len(b) - 1)
    BY <1>1
  <1>4. /\ 1 + q1 \in 1 .. Len(b) /\ P1 \in Int
        /\ \A k \in 1 .. Len(b) : k >= 2 + q1 => P1 <= 100 * b[k]
    BY <1>3, PointBetween
  <1>5. 1 + q2 \in 1 .. Len(b) /\ P2 \in Int /\ 100 * b[1 + q2] <= P2
    BY PointBetween
  <1> DEFINE next == IF 2 + q1 <= Len(b) THEN 2 + q1 ELSE Len(b)
             x == b[1 + q1]
             y == b[next]
  <1>6. P1 = x * (100 - r1) + y * r1
    BY DEF PointAt
  <1>7. q1 = q2 => P2 = x * (100 - r2) + y * r2
    BY DEF PointAt
  <1> HIDE DEF q1, r1, q2, r2, P1, P2
  <1>8. CASE q1 = q2
    <2>1. next \in 1 .. Len(b) /\ 1 + q1 <= next
      <3>1. 1 + q1 \in 1 .. Len(b) /\ q1 \in Nat
        BY <1>2, <1>4
      <3> QED BY <1>1, <3>1
    <2>2. x \in Int /\ y \in Int /\ x <= y
      <3>1. \A k, l \in 1 .. Len(b) : k <= l => b[k] <= b[l]
        BY DEF Rising
      <3> HIDE DEF next
      <3> QED BY <1>1, <1>4, <2>1, <3>1
    <2>3. r1 <= r2
      BY <1>2, <1>8
    <2> HIDE DEF x, y
    <2>4. P2 - P1 = (y - x) * (r2 - r1)
      <3>1. x * r1 \in Int /\ x * r2 \in Int /\ y * r1 \in Int /\ y * r2 \in Int
        BY <1>2, <2>2
      <3>2. (y - x) * (r2 - r1) = y * r2 - y * r1 - x * r2 + x * r1
        BY <1>2, <2>2
      <3>3. x * (100 - r1) = 100 * x - x * r1 /\ x * (100 - r2) = 100 * x - x * r2
        BY <1>2, <2>2
      <3> QED BY <1>6, <1>7, <1>8, <2>2, <3>1, <3>2, <3>3
    <2>5. (y - x) * (r2 - r1) \in Nat
      <3>1. \A d, e \in Nat : d * e \in Nat
        OBVIOUS
      <3>2. y - x \in Nat /\ r2 - r1 \in Nat
        BY <1>2, <2>2, <2>3
      <3> QED BY <3>1, <3>2
    <2>6. P2 - P1 \in Nat
      BY <2>4, <2>5
    <2>7. P1 <= P2
      BY <1>4, <1>5, <2>6
    <2> QED BY <2>7 DEF P1, P2
  <1>9. CASE q1 # q2
    <2>1. 1 + q2 >= 2 + q1
      BY <1>2, <1>9
    <2>2. P1 <= 100 * b[1 + q2]
      BY <1>4, <1>5, <2>1
    <2>3. P1 <= P2
      BY <1>1, <1>4, <1>5, <2>2
    <2> QED BY <2>3 DEF P1, P2
  <1> QED BY <1>8, <1>9

\* A percentile of values that are known grows with its rank and is between the
\* smallest and the largest of them.
LEMMA PercentilesGrow ==
    ASSUME None \notin Int, NEW s \in Seq(Int), s # <<>>, NEW p \in 0 .. 100, NEW q \in p .. 100
    PROVE  /\ Percentile(s, p) \in Int /\ Percentile(s, q) \in Int
           /\ Percentile(s, p) <= Percentile(s, q)
  <1> DEFINE b == BySize(s)
             m == Len(s) - 1
  <1>1. m \in Nat /\ p \in Nat /\ q \in Nat
    BY PercentileIs
  <1>2. b \in Seq(Int) /\ Rising(b) /\ Len(b) = Len(s)
    BY BySizeFacts
  <1> HIDE DEF b
  <1>3. b # <<>> /\ Len(b) - 1 = m
    BY <1>1, <1>2
  <1>4. Percentile(s, p) = PointAt(b, m * p) /\ Percentile(s, q) = PointAt(b, m * q)
        /\ m * p \in Nat /\ m * q \in Nat
    BY <1>1, PercentileIs DEF b
  <1>5. m * p <= m * q /\ m * q <= 100 * m
    <2>1. \A x, y \in Nat : x * y \in Nat
      OBVIOUS
    <2>2. q - p \in Nat /\ 100 - q \in Nat
      OBVIOUS
    <2> HIDE DEF m
    <2>3. m * (q - p) \in Nat /\ m * (100 - q) \in Nat
      BY <1>1, <2>1, <2>2
    <2>4. m * (q - p) = m * q - m * p /\ m * (100 - q) = 100 * m - m * q
      BY <1>1
    <2>5. m * q - m * p \in Nat /\ 100 * m - m * q \in Nat
      BY <2>3, <2>4
    <2> QED BY <1>1, <1>4, <2>5
  <1> DEFINE x == m * p
             y == m * q
  <1>6. x \in Nat /\ y \in Nat /\ x <= y /\ y <= 100 * (Len(b) - 1)
    BY <1>3, <1>4, <1>5
  <1>7. x <= 100 * (Len(b) - 1)
    BY <1>1, <1>3, <1>6
  <1> HIDE DEF x, y, m
  <1>8. PointAt(b, x) <= PointAt(b, y)
    BY <1>2, <1>3, <1>6, PointGrows
  <1>9. PointAt(b, x) \in Int
    BY <1>2, <1>3, <1>6, <1>7, PointBetween
  <1>10. PointAt(b, y) \in Int
    BY <1>2, <1>3, <1>6, PointBetween
  <1> QED BY <1>4, <1>8, <1>9, <1>10 DEF x, y

LEMMA PercentileInRange ==
    ASSUME None \notin Int, NEW s \in Seq(Int), s # <<>>, NEW p \in 0 .. 100,
           NEW lo \in Int, NEW hi \in Int, \A i \in 1 .. Len(s) : lo <= s[i] /\ s[i] <= hi
    PROVE  100 * lo <= Percentile(s, p) /\ Percentile(s, p) <= 100 * hi
  <1> DEFINE b == BySize(s)
             n == Len(s)
  <1>1. n \in Nat \ {0} /\ 0 \in 0 .. 100 /\ 100 \in p .. 100 /\ p \in 0 .. 100
    BY PercentileIs
  <1>2. b \in Seq(Int) /\ Rising(b) /\ Len(b) = n /\ \A k \in 1 .. n : \E i \in 1 .. n : b[k] = s[i]
    BY BySizeFacts
  <1> HIDE DEF b
  <1>3. \A k \in 1 .. n : b[k] \in Int /\ lo <= b[k] /\ b[k] <= hi
    BY <1>2, ElementOfSeq
  <1>4. Percentile(s, 0) <= Percentile(s, p) /\ Percentile(s, p) <= Percentile(s, 100)
        /\ Percentile(s, 0) \in Int /\ Percentile(s, p) \in Int /\ Percentile(s, 100) \in Int
    BY <1>1, PercentilesGrow
  <1>5. Percentile(s, 0) = PointAt(b, 0)
    <2>1. Percentile(s, 0) = PointAt(b, (Len(s) - 1) * 0) /\ (Len(s) - 1) * 0 = 0
      BY <1>1, PercentileIs DEF b
    <2> QED BY <2>1
  <1>6. Percentile(s, 100) = PointAt(b, 100 * (n - 1))
    <2>1. Percentile(s, 100) = PointAt(b, (Len(s) - 1) * 100) /\ (Len(s) - 1) * 100 = 100 * (n - 1)
      BY <1>1, PercentileIs DEF b
    <2> QED BY <2>1
  <1>7. b # <<>>
    BY <1>1, <1>2
  <1>8. 100 * b[1 + 0 \div 100] <= PointAt(b, 0) /\ PointAt(b, 0) \in Int
    <2>1. 0 \in Nat /\ 0 <= 100 * (Len(b) - 1)
      BY <1>1, <1>2
    <2> QED BY <1>2, <1>7, <2>1, PointBetween
  <1> DEFINE z == 100 * (n - 1)
  <1>9. z \in Nat /\ z <= 100 * (Len(b) - 1) /\ z \div 100 = n - 1 /\ z % 100 = 0
    <2>1. n - 1 \in Nat
      BY <1>1
    <2>2. \A m \in Nat : (100 * m) \div 100 = m /\ (100 * m) % 100 = 0
      OBVIOUS
    <2> HIDE DEF n
    <2> QED BY <1>2, <2>1, <2>2
  <1>10. PointAt(b, z) <= 100 * b[n] /\ PointAt(b, z) \in Int
    <2> HIDE DEF z
    <2>1. PointAt(b, z) \in Int
          /\ \A k \in 1 .. Len(b) : z % 100 = 0 /\ k >= 1 + z \div 100 => PointAt(b, z) <= 100 * b[k]
      BY <1>2, <1>7, <1>9, PointBetween
    <2>2. n \in 1 .. Len(b) /\ n >= 1 + z \div 100
      BY <1>1, <1>2, <1>9
    <2> QED BY <1>9, <2>1, <2>2
  <1>11. 1 + 0 \div 100 = 1 /\ 1 \in 1 .. n /\ n \in 1 .. n
    BY <1>1
  <1>12. lo <= b[1] /\ b[1] \in Int /\ b[n] <= hi /\ b[n] \in Int
    BY <1>3, <1>11
  <1>13. 100 * b[1] <= Percentile(s, 0) /\ Percentile(s, 100) <= 100 * b[n]
    BY <1>5, <1>6, <1>8, <1>10, <1>11
  <1> QED BY SMTT(30), <1>4, <1>12, <1>13

\* The median of numbers is at least half of the upper one of the two in the middle.
LEMMA MedianAtLeast ==
    ASSUME NEW b \in Seq(Int), Rising(b), b # <<>>, \A k \in 1 .. Len(b) : b[k] >= 0
    PROVE  /\ 1 + Len(b) \div 2 \in 1 .. Len(b)
           /\ 100 * b[1 + Len(b) \div 2] <= 2 * PointAt(b, (Len(b) - 1) * 50)
  <1> DEFINE n == Len(b)
             h == n \div 2
             place == (n - 1) * 50
  <1>1. n \in Nat \ {0} /\ \A k \in 1 .. n : b[k] \in Int
    BY ElementOfSeq
  <1> HIDE DEF n
  <1>2. h \in Nat /\ (n = 2 * h \/ n = 2 * h + 1) /\ 1 + h \in 1 .. n
    BY <1>1
  <1> HIDE DEF h
  <1>3. CASE n = 2 * h + 1
    <2>1. place = 100 * h
      BY <1>2, <1>3
    <2>2. place \in Nat /\ place <= 100 * (Len(b) - 1) /\ place \div 100 = h
      BY <1>2, <1>3, <2>1 DEF n
    <2> HIDE DEF place
    <2>3. 100 * b[1 + place \div 100] <= PointAt(b, place) /\ PointAt(b, place) \in Int
      BY <2>2, PointBetween
    <2>4. 100 * b[1 + h] <= PointAt(b, place)
      BY <2>2, <2>3
    <2>5. b[1 + h] >= 0 /\ b[1 + h] \in Int
      BY <1>1, <1>2 DEF n
    <2>6. 100 * b[1 + h] <= 2 * PointAt(b, place)
      BY <2>3, <2>4, <2>5
    <2> QED BY <1>2, <2>6 DEF n, h, place
  <1>4. CASE n = 2 * h
    <2>1. place = 100 * (h - 1) + 50 /\ h - 1 \in Nat
      BY <1>1, <1>2, <1>4
    <2>2. place \div 100 = h - 1 /\ place % 100 = 50
      BY <2>1
    <2>3. PointAt(b, place) = b[1 + (h - 1)] * (100 - 50) + b[IF 2 + (h - 1) <= n THEN 2 + (h - 1) ELSE n] * 50
      BY <2>2 DEF PointAt, n
    <2>4. 1 + (h - 1) = h /\ 2 + (h - 1) = 1 + h /\ 1 + h <= n /\ h \in 1 .. n
      BY <1>1, <1>2, <1>4, <2>1
    <2> HIDE DEF place
    <2>5. PointAt(b, place) = b[h] * 50 + b[1 + h] * 50
      BY <2>3, <2>4
    <2>6. b[h] >= 0 /\ b[h] \in Int /\ b[1 + h] \in Int
      BY <1>1, <1>2, <2>4 DEF n
    <2>7. 100 * b[1 + h] <= 2 * PointAt(b, place)
      BY SMTT(30), <2>5, <2>6
    <2> QED BY <1>2, <2>7 DEF n, h, place
  <1> QED BY <1>2, <1>3, <1>4

\* What is no further from the center than the median is no outlier by any rule.
LEMMA NoOutlier ==
    ASSUME NEW v \in Int, NEW center \in Int, NEW mad \in Int, NEW p25 \in Int, NEW p75 \in Int,
           p25 <= center, center <= p75, 100 * Distance(100 * v, center) <= 2 * mad
    PROVE  ~Outlier(v, center, mad, p25, p75)
  <1> DEFINE d == Distance(100 * v, center)
  <1>1. d \in Nat /\ (d = 0 => 100 * v = center)
    BY DEF Distance
  <1>2. d = Distance(100 * v, center)
    OBVIOUS
  <1> HIDE DEF d
  <1>3. 100 * d <= 2 * mad /\ mad >= 0
    BY <1>1, <1>2
  <1>4. CASE mad > 0
    <2>1. ~(6745 * d > 350 * mad)
      BY <1>1, <1>3
    <2> QED BY <1>2, <1>4, <2>1 DEF Outlier
  <1>5. CASE mad = 0
    <2>1. 100 * v = center
      BY <1>1, <1>3, <1>5
    <2>2. 200 * v = 2 * center
      BY <2>1
    <2>3. p75 > p25 => /\ ~(200 * v < 2 * p25 - 3 * (p75 - p25))
                       /\ ~(200 * v > 2 * p75 + 3 * (p75 - p25))
      BY <2>2
    <2> QED BY <1>5, <2>1, <2>3 DEF Outlier
  <1> QED BY <1>3, <1>4, <1>5

LEMMA OutliersFew ==
    ASSUME None \notin Int, NEW s \in Seq(Int), Len(s) >= MinOutlierSamples
    PROVE  Outliers(s) \in Nat /\ 2 * Outliers(s) < Len(s)
  <1> DEFINE n == Len(s)
             center == Percentile(s, 50)
             D == [i \in DOMAIN s |-> Distance(100 * s[i], center)]
             mad == Percentile(D, 50)
             p25 == Percentile(s, 25)
             p75 == Percentile(s, 75)
             O == {i \in DOMAIN s : Outlier(s[i], center, mad, p25, p75)}
             b == BySize(D)
             h == n \div 2
             J == {i \in 1 .. n : D[i] <= b[1 + h]}
  <1>1. n \in Nat \ {0} /\ DOMAIN s = 1 .. n /\ \A i \in 1 .. n : s[i] \in Int
    BY StatisticsAssumption, LenProperties, ElementOfSeq
  <1>2. s # <<>> /\ Valid(s) = s
    BY <1>1, ValidAll
  <1>3. center \in Int /\ p25 \in Int /\ p75 \in Int /\ p25 <= center /\ center <= p75
    <2>1. p25 \in Int /\ center \in Int /\ p25 <= center
      <3>1. 25 \in 0 .. 100 /\ 50 \in 25 .. 100
        OBVIOUS
      <3> QED BY <1>1, <1>2, <3>1, PercentilesGrow
    <2>2. p75 \in Int /\ center <= p75
      <3>1. 50 \in 0 .. 100 /\ 75 \in 50 .. 100
        OBVIOUS
      <3> QED BY <1>1, <1>2, <3>1, PercentilesGrow
    <2> QED BY <2>1, <2>2
  <1>4. Outliers(s) = Len(Where(s, LAMBDA v : Outlier(v, center, mad, p25, p75)))
    BY <1>1, <1>2, StatisticsAssumption DEF Outliers
  <1>5. Outliers(s) = Len(At(s, O))
    BY <1>4 DEF Where
  <1>6. /\ O \in SUBSET (1 .. n) /\ IsFiniteSet(1 .. n) /\ Cardinality(1 .. n) = n
        /\ Len(At(s, O)) = Cardinality(O)
    <2>1. O \subseteq 1 .. Len(s)
      BY <1>1
    <2> HIDE DEF O
    <2>2. Picks(At(s, O), Ascending(O), s, O)
      BY <2>1, AtFacts
    <2>3. Len(At(s, O)) = Cardinality(O)
      BY <2>2 DEF Picks
    <2>4. IsFiniteSet(1 .. n) /\ Cardinality(1 .. n) = n
      BY <1>1, FS_Interval
    <2> QED BY <2>1, <2>3, <2>4
  <1> HIDE DEF center, p25, p75
  <1>7. D \in Seq(Int) /\ Len(D) = n /\ \A i \in 1 .. n : D[i] = Distance(100 * s[i], center) /\ D[i] >= 0
    <2>1. \A i \in 1 .. n : Distance(100 * s[i], center) \in Nat
      BY <1>1, <1>3 DEF Distance
    <2>2. D \in [1 .. n -> Nat]
      BY <1>1, <2>1
    <2>3. D \in Seq(Nat) /\ Len(D) = n
      BY <1>1, <2>2
    <2>4. \A i \in 1 .. n : D[i] = Distance(100 * s[i], center)
      BY <1>1
    <2> QED BY <1>1, <2>1, <2>2, <2>3, <2>4
  <1> HIDE DEF D
  <1>8. D # <<>> /\ mad = PointAt(b, (n - 1) * 50)
    <2>1. D # <<>>
      BY <1>1, <1>7
    <2>2. mad = PointAt(BySize(D), (Len(D) - 1) * 50)
      BY <1>1, <1>7, <2>1, PercentileIs
    <2> QED BY <1>7, <2>1, <2>2
  <1>9. /\ b \in Seq(Int) /\ Len(b) = n /\ Rising(b)
        /\ \A k \in 1 .. n : \E i \in 1 .. n : b[k] = D[i]
        /\ \A k \in 1 .. n : Cardinality({i \in 1 .. n : D[i] <= b[k]}) >= k
    <2>1. /\ b \in Seq(Int) /\ Len(b) = Len(D) /\ Rising(b)
          /\ \A k \in 1 .. Len(D) : \E i \in 1 .. Len(D) : b[k] = D[i]
          /\ \A k \in 1 .. Len(D) : Cardinality({i \in 1 .. Len(D) : D[i] <= b[k]}) >= k
      BY <1>7, BySizeFacts
    <2> HIDE DEF b
    <2> QED BY <1>7, <2>1
  <1>10. mad \in Int
    <2>1. 50 \in 0 .. 100 /\ 50 \in 50 .. 100
      OBVIOUS
    <2> QED BY <1>1, <1>7, <1>8, <2>1, PercentilesGrow
  <1> HIDE DEF b, mad
  <1>11. 1 + h \in 1 .. n /\ 100 * b[1 + h] <= 2 * mad
    <2>1. b # <<>> /\ \A k \in 1 .. Len(b) : b[k] >= 0
      BY <1>1, <1>7, <1>9
    <2>2. 1 + Len(b) \div 2 \in 1 .. Len(b)
          /\ 100 * b[1 + Len(b) \div 2] <= 2 * PointAt(b, (Len(b) - 1) * 50)
      BY <1>9, <2>1, MedianAtLeast
    <2> QED BY <1>8, <1>9, <2>2
  <1>12. Cardinality(J) >= 1 + h
    BY <1>9, <1>11
  <1>13. ASSUME NEW i \in J PROVE i \notin O
    <2>1. i \in 1 .. n /\ D[i] <= b[1 + h] /\ D[i] \in Int /\ b[1 + h] \in Int
      BY <1>1, <1>7, <1>9, <1>11, ElementOfSeq
    <2>2. 100 * Distance(100 * s[i], center) <= 2 * mad
      BY <1>7, <1>10, <1>11, <2>1
    <2>3. ~Outlier(s[i], center, mad, p25, p75)
      BY <1>1, <1>3, <1>10, <2>1, <2>2, NoOutlier
    <2> QED BY <2>3
  <1> HIDE DEF O
  <1>14. J \in SUBSET (1 .. n) /\ O \in SUBSET ((1 .. n) \ J)
    BY <1>6, <1>13
  <1> HIDE DEF J, h
  <1>15. Cardinality((1 .. n) \ J) = n - Cardinality((1 .. n) \cap J) /\ IsFiniteSet((1 .. n) \ J)
    BY <1>6, <1>14, FS_Difference
  <1>16. (1 .. n) \cap J = J
    BY <1>14
  <1>17. Cardinality(O) <= n - Cardinality(J) /\ Cardinality(O) \in Nat /\ Cardinality(J) \in Nat
    <2>1. Cardinality(O) <= Cardinality((1 .. n) \ J) /\ IsFiniteSet(O) /\ IsFiniteSet(J)
      BY <1>6, <1>14, <1>15, FS_Subset
    <2>2. Cardinality(O) \in Nat /\ Cardinality(J) \in Nat
      BY <2>1, FS_CardinalityType
    <2> QED BY <1>15, <1>16, <2>1, <2>2
  <1>18. h \in Nat /\ n < 2 * (1 + h)
    BY <1>1 DEF h
  <1>19. 2 * Cardinality(O) < n
    BY <1>1, <1>12, <1>17, <1>18
  <1> QED BY <1>5, <1>6, <1>17, <1>19

-----------------------------------------------------------------------------
(***************************************************************************)
(* The statistics of a report.                                             *)
(***************************************************************************)

LEMMA ReadingTypes ==
    ASSUME NEW rows \in Seq(GpuRow)
    PROVE  /\ Len(rows) \in Nat /\ DOMAIN rows = 1 .. Len(rows)
           /\ \A i \in 1 .. Len(rows) :
                 /\ rows[i] \in GpuRow /\ rows[i].at \in Nat /\ rows[i].temp \in Nat \cup {None}
                 /\ rows[i].util \in 0 .. 100 \cup {None} /\ rows[i].power \in Nat \cup {None}
  <1>1. Len(rows) \in Nat /\ DOMAIN rows = 1 .. Len(rows)
    BY LenProperties
  <1>2. \A i \in 1 .. Len(rows) : rows[i] \in GpuRow
    BY ElementOfSeq
  <1>3. \A row \in GpuRow : /\ row.at \in Nat /\ row.temp \in Nat \cup {None}
                             /\ row.util \in 0 .. 100 \cup {None} /\ row.power \in Nat \cup {None}
    BY DEF GpuRow
  <1> QED BY <1>1, <1>2, <1>3

\* The temperatures that are known.
LEMMA TempsKnown ==
    ASSUME NEW rows \in Seq(GpuRow)
    PROVE  /\ Known(rows, LAMBDA r : r.temp) \in Seq(Int)
           /\ \A k \in 1 .. Len(Known(rows, LAMBDA r : r.temp)) :
                 Known(rows, LAMBDA r : r.temp)[k] \in Nat
  <1> DEFINE v == [i \in DOMAIN rows |-> rows[i].temp]
             temps == Known(rows, LAMBDA r : r.temp)
  <1>1. Len(rows) \in Nat /\ DOMAIN rows = 1 .. Len(rows)
        /\ \A i \in 1 .. Len(rows) : rows[i].temp \in Nat \cup {None}
    BY ReadingTypes
  <1>2. v \in [1 .. Len(rows) -> Int \cup {None}]
    BY <1>1
  <1>3. v \in Seq(Int \cup {None}) /\ Len(v) = Len(rows)
    BY <1>1, <1>2
  <1>4. temps = Valid(v)
    BY DEF Known
  <1>5. \A i \in 1 .. Len(v) : v[i] \in Nat \cup {None}
    BY <1>1, <1>3
  <1> HIDE DEF temps, v
  <1>6. temps \in Seq(Int) /\ \A k \in 1 .. Len(temps) : \E i \in 1 .. Len(v) : temps[k] = v[i]
    BY <1>3, <1>4, ReportAssumption, ValidFacts
  <1>7. \A k \in 1 .. Len(temps) : temps[k] \in Int
    BY <1>6, ElementOfSeq
  <1>8. \A k \in 1 .. Len(temps) : temps[k] \in Nat
    BY <1>5, <1>6, <1>7, ReportAssumption
  <1> QED BY <1>6, <1>8 DEF temps

\* The smallest and the largest of the values of a sequence.
LEMMA LowAndHigh ==
    ASSUME NEW s \in Seq(Int), s # <<>>, \A k \in 1 .. Len(s) : s[k] \in Nat
    PROVE  LET all == {s[i] : i \in DOMAIN s}
           IN  /\ Min(all) \in Nat /\ Max(all) \in Nat
               /\ \A k \in 1 .. Len(s) : Min(all) <= s[k] /\ s[k] <= Max(all)
  <1> DEFINE all == {s[i] : i \in DOMAIN s}
  <1>1. DOMAIN s = 1 .. Len(s) /\ Len(s) \in Nat \ {0}
    BY LenProperties
  <1>2. Weights(s, 1 .. Len(s)) /\ 1 .. Len(s) # {}
    <2>1. IsFiniteSet(1 .. Len(s))
      BY <1>1, FS_Interval
    <2> QED BY <1>1, <2>1 DEF Weights
  <1>3. /\ \E x \in 1 .. Len(s) : \A y \in 1 .. Len(s) : s[y] <= s[x]
        /\ \E x \in 1 .. Len(s) : \A y \in 1 .. Len(s) : s[x] <= s[y]
    BY <1>2, Extremes
  <1>4. (\E x \in all : \A y \in all : x >= y) /\ \E x \in all : \A y \in all : x <= y
    BY <1>1, <1>3
  <1>5. all \subseteq Nat /\ \A k \in 1 .. Len(s) : s[k] \in all
    BY <1>1
  <1> HIDE DEF all
  <1>6. Max(all) \in all /\ \A y \in all : Max(all) >= y
    BY <1>4 DEF Max
  <1>7. Min(all) \in all /\ \A y \in all : Min(all) <= y
    BY <1>4 DEF Min
  <1>8. Min(all) \in Nat /\ Max(all) \in Nat /\ \A k \in 1 .. Len(s) : Min(all) <= s[k] /\ s[k] <= Max(all)
    BY <1>5, <1>6, <1>7
  <1> QED BY <1>8 DEF all

LEMMA PercentilesOf ==
    ASSUME NEW rows \in Seq(GpuRow)
    PROVE  LET temps == Known(rows, LAMBDA r : r.temp)
               P(p)  == Percentile(temps, p)
               all   == {temps[i] : i \in DOMAIN temps}
           IN temps # <<>> => /\ 100 * Min(all) <= P(50) /\ P(50) <= P(95)
                              /\ P(95) <= P(99) /\ P(99) <= 100 * Max(all)
  <1> DEFINE temps == Known(rows, LAMBDA r : r.temp)
             all   == {temps[i] : i \in DOMAIN temps}
  <1> SUFFICES ASSUME temps # <<>>
               PROVE  /\ 100 * Min(all) <= Percentile(temps, 50)
                      /\ Percentile(temps, 50) <= Percentile(temps, 95)
                      /\ Percentile(temps, 95) <= Percentile(temps, 99)
                      /\ Percentile(temps, 99) <= 100 * Max(all)
    OBVIOUS
  <1>1. temps \in Seq(Int) /\ \A k \in 1 .. Len(temps) : temps[k] \in Nat
    BY TempsKnown
  <1> HIDE DEF temps
  <1> DEFINE lo == Min(all)
             hi == Max(all)
  <1>2. lo \in Nat /\ hi \in Nat /\ \A k \in 1 .. Len(temps) : lo <= temps[k] /\ temps[k] <= hi
    BY <1>1, LowAndHigh
  <1> HIDE DEF lo, hi
  <1>3. 50 \in 0 .. 100 /\ 95 \in 50 .. 100 /\ 95 \in 0 .. 100 /\ 99 \in 95 .. 100 /\ 99 \in 0 .. 100
        /\ lo \in Int /\ hi \in Int /\ None \notin Int
    BY <1>2, ReportAssumption
  <1>4. 100 * lo <= Percentile(temps, 50)
    BY <1>1, <1>2, <1>3, PercentileInRange
  <1>5. Percentile(temps, 99) <= 100 * hi
    BY <1>1, <1>2, <1>3, PercentileInRange
  <1>6. Percentile(temps, 50) <= Percentile(temps, 95)
    BY <1>1, <1>3, PercentilesGrow
  <1>7. Percentile(temps, 95) <= Percentile(temps, 99)
    BY <1>1, <1>3, PercentilesGrow
  <1> QED BY <1>4, <1>5, <1>6, <1>7 DEF lo, hi

LEMMA OutliersOf ==
    ASSUME NEW rows \in Seq(GpuRow)
    PROVE  LET temps == Known(rows, LAMBDA r : r.temp)
           IN Len(temps) >= MinOutlierSamples => 2 * Outliers(temps) < Len(temps)
  <1> DEFINE temps == Known(rows, LAMBDA r : r.temp)
  <1>1. temps \in Seq(Int)
    BY TempsKnown
  <1> HIDE DEF temps
  <1>2. Len(temps) >= MinOutlierSamples => 2 * Outliers(temps) < Len(temps)
    BY <1>1, ReportAssumption, OutliersFew
  <1> QED BY <1>2 DEF temps

LEMMA OneBand ==
    ASSUME NEW S, NEW x, \A b : b \in S <=> b = x
    PROVE  Cardinality(S) = 1
  <1>1. S = {x}
    OBVIOUS
  <1> QED BY <1>1, FS_Singleton

LEMMA PowerInOneBand ==
    ASSUME NEW p \in Nat
    PROVE  Cardinality(PowerBand(p)) = 1
  <1>1. CASE p > 100
    BY <1>1, FS_Singleton DEF PowerBand
  <1>2. CASE p <= 100
    <2> DEFINE x == IF p = 100 THEN 9 ELSE p \div 10
    <2>1. x \in 0 .. 9 /\ ((x * 10 <= p /\ p < (x + 1) * 10) \/ (x = 9 /\ p = 100))
      BY <1>2
    <2>2. \A b \in 0 .. 9 :
            (b * 10 <= p /\ p < (b + 1) * 10) \/ (b = 9 /\ p = 100) => b = x
      BY <1>2, <2>1
    <2> HIDE DEF x
    <2>3. ~(p > 100)
      BY <1>2
    <2>4. \A b : b \in PowerBand(p) <=> b = x
      BY <2>1, <2>2, <2>3 DEF PowerBand
    <2> QED BY <2>4, OneBand
  <1> QED BY <1>1, <1>2

LEMMA UtilizationInOneBand ==
    ASSUME NEW u \in 0 .. 100
    PROVE  Cardinality(UtilizationBand(u)) = 1
  <1> DEFINE Fits(b) == CASE b = "Low"    -> 0 <= u /\ u < 30
                        [] b = "Medium" -> 30 <= u /\ u < 70
                        [] b = "High"   -> 70 <= u /\ u <= 100
  <1>1. (Fits("Low") <=> u < 30) /\ (Fits("Medium") <=> 30 <= u /\ u < 70) /\ (Fits("High") <=> 70 <= u)
    OBVIOUS
  <1>2. UtilizationBand(u) = {b \in {"Low", "Medium", "High"} : Fits(b)}
    BY DEF UtilizationBand
  <1> HIDE DEF Fits
  <1>3. u < 30 \/ (30 <= u /\ u < 70) \/ 70 <= u
    OBVIOUS
  <1>4. CASE u < 30
    <2>1. ~Fits("Medium") /\ ~Fits("High") /\ Fits("Low")
      BY <1>1, <1>4
    <2>2. UtilizationBand(u) = {"Low"}
      BY <1>2, <2>1
    <2> QED BY <2>2, FS_Singleton
  <1>5. CASE 30 <= u /\ u < 70
    <2>1. ~Fits("Low") /\ ~Fits("High") /\ Fits("Medium")
      BY <1>1, <1>5
    <2>2. UtilizationBand(u) = {"Medium"}
      BY <1>2, <2>1
    <2> QED BY <2>2, FS_Singleton
  <1>6. CASE 70 <= u
    <2>1. ~Fits("Low") /\ ~Fits("Medium") /\ Fits("High")
      BY <1>1, <1>6
    <2>2. UtilizationBand(u) = {"High"}
      BY <1>2, <2>1
    <2> QED BY <2>2, FS_Singleton
  <1> QED BY <1>3, <1>4, <1>5, <1>6

\* The gaps up to the k-th add up to the time between the first row and the row after.
LEMMA GapsAddUp ==
    ASSUME NEW rows \in Seq(GpuRow), InOrder(rows), rows # <<>>
    PROVE  /\ Weights(GapsOf(rows), 1 .. Len(rows) - 1)
           /\ SumOf(GapsOf(rows), 1 .. Len(rows) - 1) = rows[Len(rows)].at - rows[1].at
  <1> DEFINE n == Len(rows)
             g == GapsOf(rows)
             T == {k \in Nat : k <= n - 1 => SumOf(g, 1 .. k) = rows[k + 1].at - rows[1].at}
  <1>1. n \in Nat \ {0} /\ \A i \in 1 .. n : rows[i].at \in Nat
    <2>1. n # 0
      BY EmptySeq
    <2> QED BY <2>1, ReadingTypes
  <1>2. ASSUME NEW i \in 1 .. n - 1
        PROVE  g[i] \in Nat /\ rows[i + 1].at = rows[i].at + g[i]
    BY GapFacts DEF GapsOf
  <1> HIDE DEF g
  <1>3. \A k \in 0 .. n - 1 : Weights(g, 1 .. k)
    <2> SUFFICES ASSUME NEW k \in 0 .. n - 1 PROVE Weights(g, 1 .. k)
      OBVIOUS
    <2>1. IsFiniteSet(1 .. k)
      BY <1>1, FS_Interval
    <2>2. \A i \in 1 .. k : i \in 1 .. n - 1
      BY <1>1
    <2>3. \A i \in 1 .. k : g[i] \in Nat
      BY <1>2, <2>2
    <2> QED BY <2>1, <2>3 DEF Weights
  <1>4. 0 \in T
    <2>1. 1 .. 0 = {} /\ 0 \in 0 .. n - 1 /\ 1 \in 1 .. n
      BY <1>1
    <2>2. SumOf(g, 1 .. 0) = 0
      BY <1>3, <2>1, SumFacts
    <2> QED BY <1>1, <2>1, <2>2
  <1>5. ASSUME NEW k \in T PROVE k + 1 \in T
    <2> SUFFICES ASSUME k + 1 <= n - 1
                 PROVE  SumOf(g, 1 .. k + 1) = rows[(k + 1) + 1].at - rows[1].at
      BY <1>5
    <2>1. k + 1 \in 1 .. n - 1 /\ k \in Nat /\ k + 1 \in 0 .. n - 1 /\ k \in 0 .. n - 1 /\ k <= n - 1
          /\ k + 1 \in 1 .. k + 1 /\ (1 .. k + 1) \ {k + 1} = 1 .. k
          /\ 1 \in 1 .. n /\ k + 1 \in 1 .. n /\ (k + 1) + 1 \in 1 .. n
      BY <1>1, <1>5
    <2>2. SumOf(g, 1 .. k) = rows[k + 1].at - rows[1].at
      BY <1>5, <2>1
    <2>3. SumOf(g, 1 .. k + 1) = g[k + 1] + SumOf(g, (1 .. k + 1) \ {k + 1})
      BY <1>3, <2>1, SumFacts
    <2>4. g[k + 1] \in Nat /\ rows[(k + 1) + 1].at = rows[k + 1].at + g[k + 1]
      BY <1>2, <2>1
    <2>5. rows[k + 1].at \in Nat /\ rows[1].at \in Nat /\ rows[(k + 1) + 1].at \in Nat
      BY <1>1, <2>1
    <2> DEFINE before == SumOf(g, 1 .. k)
               after == SumOf(g, 1 .. k + 1)
               x == rows[k + 1].at
               y == rows[(k + 1) + 1].at
               z == rows[1].at
               w == g[k + 1]
    <2>6. before = x - z /\ after = w + before /\ w \in Nat /\ y = x + w
          /\ x \in Nat /\ y \in Nat /\ z \in Nat
      BY <2>1, <2>2, <2>3, <2>4, <2>5
    <2> HIDE DEF before, after, x, y, z, w
    <2>7. after = y - z
      BY <2>6
    <2> QED BY <2>7 DEF after, y, z
  <1>6. T = Nat
    <2>1. T \in SUBSET Nat
      OBVIOUS
    <2> HIDE DEF T
    <2> QED BY <1>4, <1>5, <2>1, Induction
  <1>7. n - 1 \in T
    <2> HIDE DEF T
    <2> QED BY <1>1, <1>6
  <1>8. SumOf(g, 1 .. n - 1) = rows[(n - 1) + 1].at - rows[1].at /\ (n - 1) + 1 = n
    BY <1>1, <1>7
  <1>9. n - 1 \in 0 .. n - 1
    BY <1>1
  <1> QED BY <1>3, <1>8, <1>9 DEF g

\* The times between the rows that the code takes for covered, and for outages.
CoveredGaps(rows) == {i \in 1 .. Len(rows) - 1 : Gap(rows, i) <= MaxGap}
OutageGaps(rows)  == {i \in 1 .. Len(rows) - 1 : Gap(rows, i) > MaxGap}

LEMMA TimeSum ==
    ASSUME NEW rows \in Seq(GpuRow), InOrder(rows),
           NEW S \in SUBSET (1 .. Len(rows) - 1)
    PROVE  MapThenSumSet(LAMBDA i : Times(rows)[i + 1] - Times(rows)[i], S) = SumOf(GapsOf(rows), S)
  <1> DEFINE t == Times(rows)
             Is(g) == g = [s \in SUBSET S |->
                              IF s = {} THEN 0
                              ELSE (t[Taken(s) + 1] - t[Taken(s)]) + g[s \ {Taken(s)}]]
             z == CHOOSE g : Is(g)
             w == GapsOf(rows)
  <1>1. MapThenSumSet(LAMBDA i : t[i + 1] - t[i], S) = z[S]
    BY DEF MapThenSumSet, MapThenFoldSet, Taken
  <1>2. Len(rows) \in Nat /\ DOMAIN rows = 1 .. Len(rows)
    BY ReadingTypes
  <1>3. \A i \in S : w[i] = t[i + 1] - t[i]
    BY <1>2 DEF GapsOf, Gap, Times
  <1>4. \A i \in S : w[i] \in Nat
    BY GapFacts DEF GapsOf
  <1> HIDE DEF t, w
  <1>5. Weights(w, S)
    <2>1. IsFiniteSet(1 .. Len(rows) - 1)
      BY <1>2, FS_Interval
    <2>2. IsFiniteSet(S)
      BY <2>1, FS_Subset
    <2> QED BY <1>4, <2>2 DEF Weights
  <1>6. \A s \in SUBSET S : s # {} => w[Taken(s)] = t[Taken(s) + 1] - t[Taken(s)]
    BY <1>3 DEF Taken
  <1>7. PICK g : Adds(g, S, w) /\ SumOf(w, S) = g[S]
    BY <1>5, SumIs
  <1>8. Is(g)
    BY <1>6, <1>7 DEF Adds
  <1>9. Is(z)
    <2> HIDE DEF Is
    <2> QED BY <1>8
  <1> HIDE DEF z
  <1>10. Adds(z, S, w)
    BY <1>6, <1>9 DEF Adds
  <1>11. z[S] = g[S]
    <2>1. S \in SUBSET S /\ IsFiniteSet(S)
      BY <1>5 DEF Weights
    <2> QED BY <1>7, <1>10, <2>1, AddsAgree
  <1> QED BY <1>1, <1>7, <1>11 DEF t, w

\* The loop over the temperatures observes the gaps it joins.
JoinedGaps(rows, k) == {i \in 1 .. k : Joined(rows, i)}

LEMMA JoinedGapsFacts ==
    ASSUME NEW rows \in Seq(GpuRow), InOrder(rows), NEW k \in 0 .. Len(rows)
    PROVE  Weights(GapsOf(rows), JoinedGaps(rows, k))
  <1>1. Len(rows) \in Nat
    BY ReadingTypes
  <1>2. IsFiniteSet(1 .. k) /\ JoinedGaps(rows, k) \in SUBSET (1 .. k)
    BY <1>1, FS_Interval DEF JoinedGaps
  <1>3. IsFiniteSet(JoinedGaps(rows, k))
    BY <1>2, FS_Subset
  <1>4. \A i \in JoinedGaps(rows, k) : i \in 1 .. Len(rows) - 1
    BY DEF JoinedGaps, Joined
  <1>5. \A i \in 1 .. Len(rows) - 1 : GapsOf(rows)[i] \in Nat
    BY GapFacts DEF GapsOf
  <1> QED BY <1>3, <1>4, <1>5 DEF Weights

LEMMA ObservedStep ==
    ASSUME NEW rows \in Seq(GpuRow), InOrder(rows), NEW k \in 1 .. Len(rows),
           NEW s \in Exceeding, s.observed = SumOf(GapsOf(rows), JoinedGaps(rows, k - 1))
    PROVE  ExceedanceStep(rows, s, k).observed = SumOf(GapsOf(rows), JoinedGaps(rows, k))
  <1> DEFINE t == ExceedanceStep(rows, s, k)
  <1>1. Len(rows) \in Nat /\ k - 1 \in 0 .. Len(rows) /\ k \in 0 .. Len(rows)
    BY ReadingTypes
  <1>2. s.observed \in Nat
    BY DEF Exceeding
  <1>3. CASE Joined(rows, k)
    <2>1. rows[k].temp # None /\ k \in 1 .. Len(rows) - 1
      BY <1>3 DEF Joined
    <2>2. t.observed = s.observed + Gap(rows, k)
      BY <1>3, <2>1 DEF ExceedanceStep
    <2>3. k \in JoinedGaps(rows, k) /\ JoinedGaps(rows, k) \ {k} = JoinedGaps(rows, k - 1)
      BY <1>1, <1>3 DEF JoinedGaps
    <2>4. Weights(GapsOf(rows), JoinedGaps(rows, k))
      BY <1>1, JoinedGapsFacts
    <2>5. SumOf(GapsOf(rows), JoinedGaps(rows, k))
            = GapsOf(rows)[k] + SumOf(GapsOf(rows), JoinedGaps(rows, k - 1))
      BY <2>3, <2>4, SumFacts
    <2>6. GapsOf(rows)[k] = Gap(rows, k) /\ Gap(rows, k) \in Nat
      BY <2>1, GapFacts DEF GapsOf
    <2> HIDE DEF t
    <2>7. t.observed = SumOf(GapsOf(rows), JoinedGaps(rows, k))
      BY <1>2, <2>2, <2>5, <2>6
    <2> QED BY <2>7 DEF t
  <1>4. CASE ~Joined(rows, k)
    <2>1. JoinedGaps(rows, k) = JoinedGaps(rows, k - 1)
      BY <1>1, <1>4 DEF JoinedGaps
    <2>2. t.observed = s.observed
      <3>1. CASE rows[k].temp = None
        <4>1. t = [s EXCEPT !.above = FALSE, !.current = 0]
          BY <3>1 DEF ExceedanceStep
        <4> HIDE DEF t
        <4> QED BY <4>1 DEF Exceeding
      <3>2. CASE rows[k].temp # None
        <4>1. t.observed = s.observed + 0
          BY <1>4, <3>2 DEF ExceedanceStep
        <4> HIDE DEF t
        <4> QED BY <1>2, <4>1
      <3> QED BY <3>1, <3>2
    <2> HIDE DEF t
    <2>3. t.observed = SumOf(GapsOf(rows), JoinedGaps(rows, k))
      BY <2>1, <2>2
    <2> QED BY <2>3 DEF t
  <1> QED BY <1>3, <1>4

LEMMA ObservedIs ==
    ASSUME NEW rows \in Seq(GpuRow), InOrder(rows)
    PROVE  Exceedance(rows).observed = SumOf(GapsOf(rows), JoinedGaps(rows, Len(rows)))
  <1> DEFINE n == Len(rows)
  <1>1. PICK f : /\ f[0] = AtFirst /\ Exceedance(rows) = f[n]
                 /\ \A k \in 1 .. n : f[k] = ExceedanceStep(rows, f[k - 1], k)
                 /\ \A k \in 0 .. n : f[k] \in Exceeding
    BY ExceedanceWalk
  <1> DEFINE T == {k \in Nat : k <= n => f[k].observed = SumOf(GapsOf(rows), JoinedGaps(rows, k))}
  <1>2. n \in Nat
    BY ReadingTypes
  <1>3. 0 \in T
    <2>1. JoinedGaps(rows, 0) = {} /\ 0 \in 0 .. n
      BY <1>2 DEF JoinedGaps
    <2>2. SumOf(GapsOf(rows), {}) = 0
      BY <2>1, JoinedGapsFacts, SumFacts
    <2>3. f[0].observed = 0
      BY <1>1 DEF AtFirst
    <2> HIDE DEF n
    <2> QED BY <2>1, <2>2, <2>3
  <1>4. ASSUME NEW k \in T PROVE k + 1 \in T
    <2> SUFFICES ASSUME k + 1 <= n
                 PROVE  f[k + 1].observed = SumOf(GapsOf(rows), JoinedGaps(rows, k + 1))
      BY <1>4
    <2> DEFINE l == k + 1
    <2>1. l \in 1 .. n /\ l - 1 = k /\ k \in 0 .. n /\ k <= n
      BY <1>2, <1>4
    <2>2. f[l] = ExceedanceStep(rows, f[l - 1], l) /\ f[l - 1] \in Exceeding
      BY <1>1, <2>1
    <2>3. f[l - 1].observed = SumOf(GapsOf(rows), JoinedGaps(rows, l - 1))
      BY <1>4, <2>1
    <2> HIDE DEF l
    <2>4. f[l].observed = SumOf(GapsOf(rows), JoinedGaps(rows, l))
      BY <2>1, <2>2, <2>3, ObservedStep
    <2> QED BY <2>4 DEF l
  <1>5. T = Nat
    <2>1. T \in SUBSET Nat
      OBVIOUS
    <2> HIDE DEF T
    <2> QED BY <1>3, <1>4, <2>1, Induction
  <1>6. n \in T
    <2> HIDE DEF T
    <2> QED BY <1>2, <1>5
  <1> QED BY <1>1, <1>2, <1>6

LEMMA CoverageOf ==
    ASSUME NEW rows \in Seq(GpuRow), InOrder(rows), rows # <<>>
    PROVE  LET t       == Times(rows)
               outages == {i \in 1 .. Len(t) - 1 : t[i + 1] - t[i] > MaxGap}
           IN /\ Covered(t, MaxGap) = t[Len(t)] - t[1]
                    - MapThenSumSet(LAMBDA i : t[i + 1] - t[i], outages)
              /\ Exceedance(rows).observed <= Covered(t, MaxGap)
  <1> DEFINE t == Times(rows)
             n == Len(rows)
             g == GapsOf(rows)
             C == CoveredGaps(rows)
             O == OutageGaps(rows)
  <1>1. n \in Nat \ {0} /\ DOMAIN rows = 1 .. n
    BY ReadingTypes, EmptySeq
  <1>2. Len(t) = n /\ t[n] = rows[n].at /\ t[1] = rows[1].at
    <2>1. t \in [1 .. n -> Nat]
      BY <1>1, ReadingTypes DEF Times
    <2>2. Len(t) = n
      BY <1>1, <2>1
    <2> QED BY <1>1, <2>2 DEF Times
  <1>3. \A i \in 1 .. n - 1 : t[i + 1] - t[i] = Gap(rows, i) /\ Gap(rows, i) \in Nat \ {0}
    <2>1. \A i \in 1 .. n - 1 : t[i + 1] - t[i] = Gap(rows, i)
      BY <1>1 DEF Times, Gap
    <2> QED BY <2>1, GapFacts
  <1>4. MaxGap \in Nat \ {0}
    BY ReportAssumption
  <1> HIDE DEF t
  <1>5. {i \in 1 .. Len(t) - 1 : t[i + 1] - t[i] \in 1 .. MaxGap} = C
    BY <1>2, <1>3, <1>4 DEF CoveredGaps
  <1>6. {i \in 1 .. Len(t) - 1 : t[i + 1] - t[i] > MaxGap} = O
    BY <1>2, <1>3 DEF OutageGaps
  <1>7. Covered(t, MaxGap) = SumOf(g, C)
    <2>1. C \in SUBSET (1 .. n - 1)
      BY DEF CoveredGaps
    <2>2. MapThenSumSet(LAMBDA i : t[i + 1] - t[i], C) = SumOf(g, C)
      BY <2>1, TimeSum DEF t
    <2> QED BY <1>5, <2>2 DEF Covered
  <1>8. MapThenSumSet(LAMBDA i : t[i + 1] - t[i], O) = SumOf(g, O)
    <2>1. O \in SUBSET (1 .. n - 1)
      BY DEF OutageGaps
    <2> QED BY <2>1, TimeSum DEF t
  <1>9. Weights(g, 1 .. n - 1) /\ SumOf(g, 1 .. n - 1) = rows[n].at - rows[1].at
    BY GapsAddUp
  <1>10. C \cup O = 1 .. n - 1 /\ C \cap O = {}
    <2>1. \A i \in 1 .. n - 1 : Gap(rows, i) <= MaxGap <=> ~(Gap(rows, i) > MaxGap)
      BY <1>3, <1>4
    <2> QED BY <2>1 DEF CoveredGaps, OutageGaps
  <1>11. Weights(g, C) /\ Weights(g, O)
    BY <1>9, <1>10, FS_Subset DEF Weights
  <1>12. SumOf(g, C) + SumOf(g, O) = rows[n].at - rows[1].at
    BY <1>9, <1>10, <1>11, SumUnion
  <1>13. SumOf(g, C) \in Nat /\ SumOf(g, O) \in Nat
    BY <1>11, SumFacts
  <1>14. rows[n].at \in Nat /\ rows[1].at \in Nat
    BY <1>1, ReadingTypes
  <1>15. Exceedance(rows).observed <= SumOf(g, C)
    <2> DEFINE J == JoinedGaps(rows, n)
    <2>1. Exceedance(rows).observed = SumOf(g, J)
      BY ObservedIs
    <2>2. J \in SUBSET C
      BY <1>4 DEF JoinedGaps, Joined, CoveredGaps
    <2>3. \A i \in J : g[i] \in Nat /\ g[i] <= g[i]
      BY <1>11, <2>2 DEF Weights
    <2> HIDE DEF J, C, g
    <2> QED BY <1>11, <2>1, <2>2, <2>3, SumGrows
  <1> DEFINE x == rows[n].at
             y == rows[1].at
             c == SumOf(g, C)
             o == SumOf(g, O)
  <1>16. c = x - y - o
    <2> HIDE DEF c, o, x, y
    <2>1. c + o = x - y /\ c \in Nat /\ o \in Nat /\ x \in Nat /\ y \in Nat
      BY <1>12, <1>13, <1>14 DEF c, o, x, y
    <2> QED BY <2>1
  <1> QED BY <1>2, <1>6, <1>7, <1>8, <1>15, <1>16 DEF t

\* What is picked of rows in the order of time is in the order of time.
LEMMA PickedOrder ==
    ASSUME NEW rows \in Seq(GpuRow), InOrder(rows), NEW I, I \subseteq 1 .. Len(rows),
           NEW list, NEW order, Picks(list, order, rows, I)
    PROVE  InOrder(list)
  <1>1. \A k \in 1 .. Len(list) : order[k] \in 1 .. Len(rows) /\ list[k] = rows[order[k]]
    BY DEF Picks
  <1>2. \A k, l \in 1 .. Len(list) : k < l => order[k] < order[l]
    BY DEF Picks
  <1> QED BY <1>1, <1>2 DEF InOrder

\* The rows a slope is fitted to.
LEMMA MatchedRows ==
    ASSUME NEW rows \in Seq(GpuRow), InOrder(rows)
    PROVE  /\ Matched(rows) \in Seq(GpuRow) /\ InOrder(Matched(rows))
           /\ \A i \in 1 .. Len(Matched(rows)) :
                 Matched(rows)[i].temp \in Nat /\ Matched(rows)[i].util \in Nat
           /\ \A i, j \in 1 .. Len(Matched(rows)) : 5 * Matched(rows)[i].util >= 4 * Matched(rows)[j].util
  <1> DEFINE known(r) == r.util # None /\ r.temp # None
             s        == Where(rows, known)
             loads    == [i \in DOMAIN s |-> s[i].util]
             center   == Percentile(loads, 50)
             near(r)  == 10 * Distance(100 * r.util, center) <= center
             m        == Where(s, near)
             I        == {i \in DOMAIN rows : known(rows[i])}
             J        == {i \in DOMAIN s : near(s[i])}
  <1>1. Matched(rows) = m
    BY DEF Matched
  <1>2. s = At(rows, I)
    BY DEF Where
  <1>3. m = At(s, J)
    BY DEF Where
  <1>4. Len(rows) \in Nat /\ DOMAIN rows = 1 .. Len(rows) /\ I \subseteq 1 .. Len(rows)
    BY ReadingTypes
  <1>5. \A i \in I : rows[i].temp \in Nat /\ rows[i].util \in 0 .. 100
    BY <1>4, ReadingTypes
  <1> HIDE DEF I, s
  <1>6. s \in Seq(GpuRow) /\ Picks(s, Ascending(I), rows, I)
    BY <1>2, <1>4, AtFacts
  <1>7. InOrder(s)
    BY <1>4, <1>6, PickedOrder
  <1>8. \A k \in 1 .. Len(s) : s[k].temp \in Nat /\ s[k].util \in 0 .. 100
    BY <1>5, <1>6 DEF Picks
  <1>9. Len(s) \in Nat /\ DOMAIN s = 1 .. Len(s) /\ J \subseteq 1 .. Len(s)
    BY <1>6, ReadingTypes
  <1>10. s # <<>> => center \in Int
    <2> SUFFICES ASSUME s # <<>> PROVE center \in Int
      OBVIOUS
    <2>1. loads \in [1 .. Len(s) -> Int]
      BY <1>8, <1>9
    <2>2. loads \in Seq(Int) /\ Len(loads) = Len(s)
      BY <1>9, <2>1
    <2>3. Len(s) # 0
      BY <1>6, EmptySeq
    <2>4. Len(loads) # 0
      BY <2>2, <2>3
    <2> HIDE DEF loads
    <2>5. loads # <<>>
      BY <2>4, EmptySeq
    <2>6. 50 \in 0 .. 100 /\ 50 \in 50 .. 100 /\ None \notin Int
      BY ReportAssumption
    <2> QED BY <2>2, <2>5, <2>6, PercentilesGrow
  <1>11. \A j \in J : /\ j \in 1 .. Len(s) /\ 10 * Distance(100 * s[j].util, center) <= center
    BY <1>9
  <1> HIDE DEF J, m, center
  <1>12. m \in Seq(GpuRow) /\ Picks(m, Ascending(J), s, J)
    BY <1>3, <1>6, <1>9, AtFacts
  <1>13. InOrder(m)
    BY <1>6, <1>7, <1>9, <1>12, PickedOrder
  <1>14. \A k \in 1 .. Len(m) : \E j \in J : m[k] = s[j]
    BY <1>12 DEF Picks
  <1>15. ASSUME NEW k \in 1 .. Len(m)
         PROVE  /\ m[k].temp \in Nat /\ m[k].util \in Nat /\ center \in Int
                /\ 10 * Distance(100 * m[k].util, center) <= center
    <2>1. PICK j \in J : m[k] = s[j]
      BY <1>14
    <2>2. m[k].temp \in Nat /\ m[k].util \in Nat
      <3>1. s[j].temp \in Nat /\ s[j].util \in 0 .. 100
        BY <1>8, <1>11
      <3>2. m[k].temp = s[j].temp /\ m[k].util = s[j].util
        BY <2>1
      <3>3. \A u \in 0 .. 100 : u \in Nat
        OBVIOUS
      <3> QED BY <3>1, <3>2, <3>3
    <2>3. s # <<>>
      BY <1>11, EmptySeq
    <2> QED BY <1>10, <1>11, <2>1, <2>2, <2>3
  <1>16. ASSUME NEW k \in 1 .. Len(m), NEW l \in 1 .. Len(m)
         PROVE  5 * m[k].util >= 4 * m[l].util
    <2> DEFINE u == m[k].util
               v == m[l].util
    <2>1. /\ u \in Nat /\ v \in Nat /\ center \in Int
          /\ 10 * Distance(100 * u, center) <= center /\ 10 * Distance(100 * v, center) <= center
      BY <1>15
    <2> HIDE DEF u, v
    <2>2. 9 * center <= 1000 * u /\ 1000 * v <= 11 * center /\ 0 <= center
      BY <2>1 DEF Distance
    <2>3. 5 * u >= 4 * v
      BY <2>1, <2>2
    <2> QED BY <2>3 DEF u, v
  <1>17. /\ \A i \in 1 .. Len(m) : m[i].temp \in Nat /\ m[i].util \in Nat
         /\ \A i, j \in 1 .. Len(m) : 5 * m[i].util >= 4 * m[j].util
    BY <1>15, <1>16
  <1> QED BY <1>1, <1>12, <1>13, <1>17

-----------------------------------------------------------------------------
(***************************************************************************)
(* Least squares.                                                          *)
(***************************************************************************)
Products(t, y, S) == [i \in S |-> t[i] * y[i]]

\* How the sums over s lie about the element x.
About(t, y, S, s, x) ==
    SumOf(Products(t, y, S), s) + Cardinality(s) * (t[x] * y[x])
        - SumOf(t, s) * y[x] - SumOf(y, s) * t[x]

\* The numerator of a slope over the elements of s.
Fit(t, y, S, s) == Cardinality(s) * SumOf(Products(t, y, S), s) - SumOf(t, s) * SumOf(y, s)

LEMMA Square ==
    ASSUME NEW a \in Int
    PROVE  a * a \in Nat /\ (a # 0 => a * a > 0)
  OBVIOUS

LEMMA ProductsFacts ==
    ASSUME NEW S, NEW t, NEW y, Weights(t, S), Weights(y, S)
    PROVE  Weights(Products(t, y, S), S)
  <1>1. \A a, b \in Nat : a * b \in Nat
    OBVIOUS
  <1>2. \A x \in S : t[x] \in Nat /\ y[x] \in Nat
    BY DEF Weights
  <1>3. \A x \in S : Products(t, y, S)[x] = t[x] * y[x]
    BY DEF Products
  <1>4. \A x \in S : Products(t, y, S)[x] \in Nat
    BY <1>1, <1>2, <1>3
  <1> QED BY <1>4 DEF Weights

\* Numbers of the sums over s, and what an element z adds to them.
LEMMA SumsWithout ==
    ASSUME NEW S, NEW t, NEW y, Weights(t, S), Weights(y, S), NEW s \in SUBSET S, NEW z \in s
    PROVE  LET r == s \ {z}
           IN /\ r \in SUBSET S
              /\ Cardinality(r) \in Nat /\ Cardinality(s) = Cardinality(r) + 1
              /\ SumOf(Products(t, y, S), r) \in Nat /\ SumOf(t, r) \in Nat /\ SumOf(y, r) \in Nat
              /\ SumOf(Products(t, y, S), s) = t[z] * y[z] + SumOf(Products(t, y, S), r)
              /\ SumOf(t, s) = t[z] + SumOf(t, r) /\ SumOf(y, s) = y[z] + SumOf(y, r)
              /\ t[z] \in Nat /\ y[z] \in Nat
  <1> DEFINE r == s \ {z}
             p == Products(t, y, S)
  <1>1. IsFiniteSet(S) /\ r \in SUBSET S
    BY DEF Weights
  <1>2. IsFiniteSet(s)
    BY <1>1, FS_Subset
  <1>3. IsFiniteSet(r) /\ Cardinality(s) = Cardinality(r) + 1 /\ Cardinality(r) \in Nat
    <2>1. IsFiniteSet(s \ {z}) /\ Cardinality(s \ {z}) = Cardinality(s) - 1
      BY <1>2, FS_RemoveElement
    <2>2. Cardinality(s) \in Nat /\ Cardinality(r) \in Nat
      BY <1>2, <2>1, FS_CardinalityType
    <2> QED BY <2>1, <2>2
  <1>4. p[z] = t[z] * y[z] /\ t[z] \in Nat /\ y[z] \in Nat
    BY DEF Products, Weights
  <1>5. Weights(p, S)
    BY ProductsFacts
  <1> HIDE DEF p
  <1>6. Weights(p, s) /\ Weights(t, s) /\ Weights(y, s) /\ Weights(p, r) /\ Weights(t, r) /\ Weights(y, r)
    BY <1>1, <1>2, <1>3, <1>5 DEF Weights
  <1>7. SumOf(p, r) \in Nat /\ SumOf(t, r) \in Nat /\ SumOf(y, r) \in Nat
    BY <1>6, SumFacts
  <1>8. SumOf(p, s) = p[z] + SumOf(p, r) /\ SumOf(t, s) = t[z] + SumOf(t, r)
        /\ SumOf(y, s) = y[z] + SumOf(y, r)
    BY <1>6, SumFacts
  <1> QED BY <1>1, <1>3, <1>4, <1>7, <1>8 DEF p

LEMMA AboutAdds ==
    ASSUME NEW S, NEW t, NEW y, Weights(t, S), Weights(y, S), NEW s \in SUBSET S, NEW z \in s,
           NEW x \in S
    PROVE  /\ About(t, y, S, s \ {z}, x) \in Int
           /\ About(t, y, S, s, x) = About(t, y, S, s \ {z}, x) + (t[z] - t[x]) * (y[z] - y[x])
  <1> DEFINE r == s \ {z}
             a == SumOf(Products(t, y, S), r)
             b == SumOf(t, r)
             c == SumOf(y, r)
             k == Cardinality(r)
             tz == t[z]
             yz == y[z]
             tx == t[x]
             yx == y[x]
  <1>1. a \in Int /\ b \in Int /\ c \in Int /\ k \in Int /\ tz \in Int /\ yz \in Int
    <2>1. a \in Nat /\ b \in Nat /\ c \in Nat /\ k \in Nat /\ tz \in Nat /\ yz \in Nat
      BY ZenonT(60), SumsWithout
    <2> HIDE DEF a, b, c, k, tz, yz
    <2> QED BY <2>1
  <1>2. tx \in Int /\ yx \in Int
    BY DEF Weights
  <1>3. About(t, y, S, s, x) = (tz * yz + a) + (k + 1) * (tx * yx) - (tz + b) * yx - (yz + c) * tx
    BY SumsWithout DEF About
  <1>4. About(t, y, S, r, x) = a + k * (tx * yx) - b * yx - c * tx
    BY DEF About
  <1> HIDE DEF r, a, b, c, k, tz, yz, tx, yx
  <1>5. a + k * (tx * yx) - b * yx - c * tx \in Int
    BY <1>1, <1>2
  <1>6. (tz * yz + a) + (k + 1) * (tx * yx) - (tz + b) * yx - (yz + c) * tx
          = (a + k * (tx * yx) - b * yx - c * tx) + (tz - tx) * (yz - yx)
    BY <1>1, <1>2
  <1>7. About(t, y, S, r, x) \in Int
        /\ About(t, y, S, s, x) = About(t, y, S, r, x) + (tz - tx) * (yz - yx)
    BY <1>3, <1>4, <1>5, <1>6
  <1> QED BY <1>7 DEF r, tz, tx, yz, yx

LEMMA FitAdds ==
    ASSUME NEW S, NEW t, NEW y, Weights(t, S), Weights(y, S), NEW s \in SUBSET S, NEW x \in s
    PROVE  /\ Fit(t, y, S, s \ {x}) \in Int /\ About(t, y, S, s \ {x}, x) \in Int
           /\ Fit(t, y, S, s) = Fit(t, y, S, s \ {x}) + About(t, y, S, s \ {x}, x)
  <1> DEFINE r == s \ {x}
             a == SumOf(Products(t, y, S), r)
             b == SumOf(t, r)
             c == SumOf(y, r)
             k == Cardinality(r)
             tx == t[x]
             yx == y[x]
  <1>1. a \in Int /\ b \in Int /\ c \in Int /\ k \in Int /\ tx \in Int /\ yx \in Int
    <2>1. a \in Nat /\ b \in Nat /\ c \in Nat /\ k \in Nat /\ tx \in Nat /\ yx \in Nat
      BY ZenonT(60), SumsWithout
    <2> HIDE DEF a, b, c, k, tx, yx
    <2> QED BY <2>1
  <1>2. Fit(t, y, S, s) = (k + 1) * (tx * yx + a) - (tx + b) * (yx + c)
    BY SumsWithout DEF Fit
  <1>3. Fit(t, y, S, r) = k * a - b * c
    BY DEF Fit
  <1>4. About(t, y, S, r, x) = a + k * (tx * yx) - b * yx - c * tx
    BY DEF About
  <1> HIDE DEF r, a, b, c, k, tx, yx
  <1>5. a + k * (tx * yx) - b * yx - c * tx \in Int /\ k * a - b * c \in Int
    BY <1>1
  <1>6. (k + 1) * (tx * yx + a) - (tx + b) * (yx + c)
          = (k * a - b * c) + (a + k * (tx * yx) - b * yx - c * tx)
    BY <1>1
  <1>7. /\ Fit(t, y, S, r) \in Int /\ About(t, y, S, r, x) \in Int
        /\ Fit(t, y, S, s) = Fit(t, y, S, r) + About(t, y, S, r, x)
    BY <1>2, <1>3, <1>4, <1>5, <1>6
  <1> QED BY <1>7 DEF r

\* Two quantities that never go against each other.
Agree(t, y, S) == \A i, j \in S : (t[i] - t[j]) * (y[i] - y[j]) \in Nat

LEMMA AboutIsPositive ==
    ASSUME NEW S, NEW t, NEW y, Weights(t, S), Weights(y, S), Agree(t, y, S), NEW x \in S
    PROVE  \A s \in SUBSET S : About(t, y, S, s, x) \in Nat
  <1> DEFINE P == {s \in SUBSET S : About(t, y, S, s, x) \in Nat}
  <1>1. ASSUME NEW s \in SUBSET S, \A z \in s : s \ {z} \in P PROVE About(t, y, S, s, x) \in Nat
    <2>1. CASE s = {}
      <3>1. SumOf(t, {}) = 0 /\ SumOf(y, {}) = 0 /\ SumOf(Products(t, y, S), {}) = 0
        BY ProductsFacts, SumFacts
      <3>2. Cardinality({}) = 0
        BY FS_EmptySet
      <3>3. t[x] \in Nat /\ y[x] \in Nat
        BY DEF Weights
      <3>4. About(t, y, S, {}, x) = 0 + 0 * (t[x] * y[x]) - 0 * y[x] - 0 * t[x]
        BY <3>1, <3>2 DEF About
      <3>5. \A a, b \in Nat : 0 + 0 * (a * b) - 0 * b - 0 * a = 0
        OBVIOUS
      <3>6. About(t, y, S, {}, x) = 0
        BY <3>3, <3>4, <3>5
      <3> QED BY <2>1, <3>6
    <2>2. CASE s # {}
      <3>1. PICK z \in s : TRUE
        BY <2>2
      <3>2. About(t, y, S, s, x) = About(t, y, S, s \ {z}, x) + (t[z] - t[x]) * (y[z] - y[x])
        BY <3>1, AboutAdds
      <3>3. About(t, y, S, s \ {z}, x) \in Nat
        BY <1>1, <3>1
      <3>4. (t[z] - t[x]) * (y[z] - y[x]) \in Nat
        BY <3>1 DEF Agree
      <3>5. \A a, b \in Nat : a + b \in Nat
        OBVIOUS
      <3> QED BY <3>2, <3>3, <3>4, <3>5
    <2> QED BY <2>1, <2>2
  <1>2. P = SUBSET S
    <2>1. \A s \in SUBSET S : (\A z \in s : s \ {z} \in P) => s \in P
      BY <1>1
    <2>2. IsFiniteSet(S) /\ P \subseteq SUBSET S
      BY DEF Weights
    <2> HIDE DEF P
    <2> QED BY <2>1, <2>2, SubsetInduction
  <1> QED BY <1>2

\* Chebyshev's inequality: the slope of what never falls is not negative.
LEMMA FitIsPositive ==
    ASSUME NEW S, NEW t, NEW y, Weights(t, S), Weights(y, S), Agree(t, y, S)
    PROVE  \A s \in SUBSET S : Fit(t, y, S, s) \in Nat
  <1> DEFINE P == {s \in SUBSET S : Fit(t, y, S, s) \in Nat}
  <1>1. ASSUME NEW s \in SUBSET S, \A z \in s : s \ {z} \in P PROVE Fit(t, y, S, s) \in Nat
    <2>1. CASE s = {}
      <3>1. SumOf(t, {}) = 0 /\ SumOf(y, {}) = 0 /\ SumOf(Products(t, y, S), {}) = 0
        BY ProductsFacts, SumFacts
      <3>2. Cardinality({}) = 0
        BY FS_EmptySet
      <3>3. Fit(t, y, S, {}) = 0 * 0 - 0 * 0
        BY <3>1, <3>2 DEF Fit
      <3> QED BY <2>1, <3>3
    <2>2. CASE s # {}
      <3>1. PICK z \in s : TRUE
        BY <2>2
      <3>2. Fit(t, y, S, s) = Fit(t, y, S, s \ {z}) + About(t, y, S, s \ {z}, z)
        BY <3>1, FitAdds
      <3>3. Fit(t, y, S, s \ {z}) \in Nat
        BY <1>1, <3>1
      <3>4. About(t, y, S, s \ {z}, z) \in Nat
        <4>1. z \in S /\ s \ {z} \in SUBSET S
          BY <3>1
        <4> QED BY <4>1, AboutIsPositive
      <3>5. \A a, b \in Nat : a + b \in Nat
        OBVIOUS
      <3> QED BY <3>2, <3>3, <3>4, <3>5
    <2> QED BY <2>1, <2>2
  <1>2. P = SUBSET S
    <2>1. \A s \in SUBSET S : (\A z \in s : s \ {z} \in P) => s \in P
      BY <1>1
    <2>2. IsFiniteSet(S) /\ P \subseteq SUBSET S
      BY DEF Weights
    <2> HIDE DEF P
    <2> QED BY <2>1, <2>2, SubsetInduction
  <1> QED BY <1>2

\* The times of two rows are spread.
LEMMA FitOfTwo ==
    ASSUME NEW S, NEW t, Weights(t, S), NEW x \in S, NEW z \in S, t[x] # t[z]
    PROVE  Fit(t, t, S, S) > 0
  <1>1. \A i \in S : t[i] \in Nat
    BY DEF Weights
  <1>2. Agree(t, t, S)
    <2>1. \A i, j \in S : t[i] - t[j] \in Int
      BY <1>1
    <2> QED BY <2>1, Square DEF Agree
  <1> DEFINE r == S \ {x}
             q == r \ {z}
             d == t[z] - t[x]
             fr == Fit(t, t, S, r)
             aq == About(t, t, S, q, x)
  <1>3. x # z /\ z \in r /\ r \in SUBSET S /\ q \in SUBSET S /\ S \in SUBSET S
    OBVIOUS
  <1>4. Fit(t, t, S, S) = fr + About(t, t, S, r, x)
    BY <1>3, FitAdds
  <1>5. About(t, t, S, r, x) = aq + d * d
    BY <1>3, AboutAdds
  <1>6. fr \in Nat
    BY <1>2, <1>3, FitIsPositive
  <1>7. aq \in Nat
    BY <1>2, <1>3, AboutIsPositive
  <1>8. d \in Int /\ d # 0
    BY <1>1
  <1> HIDE DEF r, q, d, fr, aq
  <1>9. d * d \in Nat /\ d * d > 0
    BY <1>8, Square
  <1> QED BY <1>4, <1>5, <1>6, <1>7, <1>9

\* The slope of the temperature of one load.
LEMMA SlopeOf ==
    ASSUME NEW m \in Seq(GpuRow), InOrder(m), \A i \in 1 .. Len(m) : m[i].temp \in Nat
    PROVE  LET I == DOMAIN m
               T == [i \in I |-> m[i].at - m[1].at]
               Y == [i \in I |-> m[i].temp]
           IN /\ (\A i, j \in DOMAIN m : i < j => m[i].temp <= m[j].temp) => Fit(T, Y, I, I) >= 0
              /\ Len(m) >= 2 => Fit(T, T, I, I) > 0
              /\ Cardinality(I) = Len(m)
  <1> DEFINE n == Len(m)
             I == DOMAIN m
             T == [i \in I |-> m[i].at - m[1].at]
             Y == [i \in I |-> m[i].temp]
  <1>1. n \in Nat /\ I = 1 .. n /\ \A i \in 1 .. n : m[i].at \in Nat
    BY ReadingTypes
  <1>2. IsFiniteSet(I) /\ Cardinality(I) = n
    BY <1>1, FS_Interval
  <1>3. \A i, j \in I : i < j => T[i] < T[j]
    BY <1>1 DEF InOrder
  <1>4. \A i \in I : T[i] \in Nat /\ Y[i] \in Nat
    <2> SUFFICES ASSUME NEW i \in I PROVE m[i].at - m[1].at \in Nat
      BY <1>1
    <2>1. 1 \in I /\ (i = 1 \/ 1 < i)
      BY <1>1
    <2>2. i # 1 => m[1].at < m[i].at
      BY <1>1, <2>1 DEF InOrder
    <2>3. m[i].at \in Nat /\ m[1].at \in Nat
      BY <1>1, <2>1
    <2> QED BY <2>2, <2>3
  <1>5. \A i \in I : Y[i] = m[i].temp
    OBVIOUS
  <1> HIDE DEF T, Y
  <1>6. Weights(T, I) /\ Weights(Y, I)
    BY <1>2, <1>4 DEF Weights
  <1>7. ASSUME \A i, j \in I : i < j => m[i].temp <= m[j].temp PROVE Fit(T, Y, I, I) >= 0
    <2>1. ASSUME NEW i \in I, NEW j \in I PROVE (T[i] - T[j]) * (Y[i] - Y[j]) \in Nat
      <3>1. \A a, b \in Nat : a * b \in Nat /\ (0 - a) * (0 - b) = a * b
        OBVIOUS
      <3>2. T[i] \in Nat /\ T[j] \in Nat /\ Y[i] \in Nat /\ Y[j] \in Nat
        BY <1>4
      <3>3. CASE i < j
        <4>1. T[j] - T[i] \in Nat /\ Y[j] - Y[i] \in Nat
          BY <1>3, <1>5, <1>7, <3>2, <3>3
        <4>2. T[i] - T[j] = 0 - (T[j] - T[i]) /\ Y[i] - Y[j] = 0 - (Y[j] - Y[i])
          BY <3>2
        <4> QED BY <3>1, <4>1, <4>2
      <3>4. CASE j < i
        <4>1. T[i] - T[j] \in Nat /\ Y[i] - Y[j] \in Nat
          BY <1>3, <1>5, <1>7, <3>2, <3>4
        <4> QED BY <3>1, <4>1
      <3>5. CASE i = j
        <4>1. T[i] - T[j] = 0 /\ Y[i] - Y[j] = 0
          BY <3>2, <3>5
        <4> QED BY <4>1
      <3> QED BY <1>1, <3>3, <3>4, <3>5
    <2>2. Agree(T, Y, I)
      BY <2>1 DEF Agree
    <2>3. Fit(T, Y, I, I) \in Nat
      <3>1. I \in SUBSET I
        OBVIOUS
      <3> HIDE DEF I
      <3> QED BY <1>6, <2>2, <3>1, FitIsPositive
    <2> QED BY <2>3
  <1>8. ASSUME n >= 2 PROVE Fit(T, T, I, I) > 0
    <2>1. 1 \in I /\ 2 \in I
      BY <1>1, <1>8
    <2>2. T[1] # T[2]
      BY <1>3, <1>4, <2>1
    <2> HIDE DEF I
    <2> QED BY <1>6, <2>1, <2>2, FitOfTwo
  <1> QED BY <1>2, <1>7, <1>8 DEF T, Y

LEMMA SlopeRight ==
    ASSUME NEW rows \in Seq(GpuRow), InOrder(rows)
    PROVE  LET m == Matched(rows)
               s == Slope(m)
           IN /\ \A i, j \in DOMAIN m : 5 * m[i].util >= 4 * m[j].util
              /\ (\A i, j \in DOMAIN m : i < j => m[i].temp <= m[j].temp) => s.above >= 0
              /\ s.below > 0 <=> Len(m) >= 2
  <1> DEFINE m == Matched(rows)
             I == DOMAIN m
             T == [i \in I |-> m[i].at - m[1].at]
             Y == [i \in I |-> m[i].temp]
  <1>1. /\ m \in Seq(GpuRow) /\ InOrder(m) /\ \A i \in 1 .. Len(m) : m[i].temp \in Nat
        /\ \A i, j \in 1 .. Len(m) : 5 * m[i].util >= 4 * m[j].util
    BY MatchedRows
  <1>2. Slope(m) =
          [above |-> Len(m) * SumOf([i \in I |-> T[i] * Y[i]], I) - SumOf(T, I) * SumOf(Y, I),
           below |-> IF Len(m) < 2 THEN 0
                     ELSE Len(m) * SumOf([i \in I |-> T[i] * T[i]], I) - SumOf(T, I) * SumOf(T, I)]
    BY DEF Slope, SumOf
  <1> HIDE DEF m
  <1>3. /\ (\A i, j \in DOMAIN m : i < j => m[i].temp <= m[j].temp) => Fit(T, Y, I, I) >= 0
        /\ Len(m) >= 2 => Fit(T, T, I, I) > 0
        /\ Cardinality(I) = Len(m)
    BY <1>1, SlopeOf
  <1> HIDE DEF T, Y, I
  <1>4. Slope(m).above = Fit(T, Y, I, I)
    BY <1>2, <1>3 DEF Fit, Products
  <1>5. Len(m) >= 2 => Slope(m).below = Fit(T, T, I, I)
    <2>1. Len(m) \in Nat
      BY <1>1, LenProperties
    <2>2. Len(m) >= 2 => ~(Len(m) < 2)
      BY <2>1
    <2> QED BY <1>2, <1>3, <2>2 DEF Fit, Products
  <1>6. ~(Len(m) >= 2) => Slope(m).below = 0
    <2>1. Len(m) \in Nat
      BY <1>1, LenProperties
    <2>2. ~(Len(m) >= 2) => Len(m) < 2
      BY <2>1
    <2> QED BY <1>2, <2>2
  <1>7. DOMAIN m = 1 .. Len(m)
    BY <1>1, LenProperties
  <1>8. (Slope(m).below > 0) <=> Len(m) >= 2
    BY <1>3, <1>5, <1>6
  <1> QED BY <1>1, <1>3, <1>4, <1>7, <1>8 DEF m

-----------------------------------------------------------------------------
LEMMA BandsOf ==
    ASSUME NEW rows \in Seq(GpuRow), NEW i \in DOMAIN rows
    PROVE  /\ rows[i].power # None => Cardinality(PowerBand(rows[i].power)) = 1
           /\ rows[i].util # None => Cardinality(UtilizationBand(rows[i].util)) = 1
  <1>1. rows[i].power \in Nat \cup {None} /\ rows[i].util \in 0 .. 100 \cup {None}
    BY ReadingTypes
  <1>2. rows[i].power # None => rows[i].power \in Nat
    BY <1>1
  <1>3. rows[i].util # None => rows[i].util \in 0 .. 100
    BY <1>1
  <1> QED BY <1>2, <1>3, PowerInOneBand, UtilizationInOneBand

\* The figures of a report are of the readings they name: percentiles in their
\* order and within the readings, less than half of the readings outliers, each
\* sample in one band, the outages left out of the covered time, and a slope of
\* rows of one load (_build_report_context).
THEOREM StatisticsRight == RSpec => []StatisticsAreRight
  <1>1. ReportInv => StatisticsAreRight
    <2> SUFFICES ASSUME ReportInv PROVE StatisticsAreRight
      OBVIOUS
    <2>1. GpuRaw \in Seq(GpuRow) /\ InOrder(GpuRaw)
      BY WindowRows
    <2>2. PercentilesOrdered
      BY <2>1, PercentilesOf DEF PercentilesOrdered
    <2>3. OutliersAreFew
      BY <2>1, OutliersOf DEF OutliersAreFew
    <2>4. BandsPartition
      BY <2>1, BandsOf DEF BandsPartition
    <2>5. CoverageLeavesOutOutages
      <3>1. Times(GpuRaw) # <<>> => GpuRaw # <<>>
        BY DEF Times
      <3>2. CASE Times(GpuRaw) = <<>>
        BY <3>2 DEF CoverageLeavesOutOutages
      <3>3. CASE GpuRaw # <<>>
        BY <2>1, <3>3, CoverageOf DEF CoverageLeavesOutOutages
      <3> QED BY <3>1, <3>2, <3>3
    <2>6. SlopeIsOfOneLoad
      <3>1. SUFFICES \A m \in {Matched(GpuRaw)} :
                        /\ \A i, j \in DOMAIN m : 5 * m[i].util >= 4 * m[j].util
                        /\ (\A i, j \in DOMAIN m : i < j => m[i].temp <= m[j].temp) =>
                              Slope(m).above >= 0
                        /\ Slope(m).below > 0 <=> Len(m) >= 2
        BY DEF SlopeIsOfOneLoad
      <3> QED BY <2>1, SlopeRight
    <2> QED BY <2>2, <2>3, <2>4, <2>5, <2>6 DEF StatisticsAreRight
  <1> QED BY <1>1, ReportTyped, PTL
================================================================================

------------------------------ MODULE LibraryProofs ------------------------------
(***************************************************************************)
(* Lemmas about numbers, sequences, folds, sums and sorted sets that the   *)
(* proofs about the components share: nothing here is about the gateway.   *)
(***************************************************************************)
EXTENDS Sorting, Integers, SequencesExt, SequenceTheorems, FiniteSetTheorems, WellFoundedInduction, TLAPS

(* Induction, as a statement about a set of numbers.                       *)

\* A set of numbers with 0 in it and, with each number, the next one holds them all.
\* (By the library: a set of numbers that is not empty has a least one.)
LEMMA SetInduction ==
  ASSUME NEW T, 0 \in T, \A n \in T : n \in Nat => n + 1 \in T
  PROVE  Nat \subseteq T
<1> DEFINE B == Nat \ T
           R == OpToRel(<, Nat)
<1> SUFFICES ASSUME B # {} PROVE FALSE
  OBVIOUS
<1>1. PICK x \in B : \A y \in B : ~ (<<y, x>> \in R)
  <2>1. IsWellFoundedOn(R, Nat)
    BY NatLessThanWellFounded
  <2>2. B \subseteq Nat
    OBVIOUS
  <2> HIDE DEF B, R
  <2> QED
    BY <2>1, <2>2, WFMin
<1>2. x # 0 /\ x \in Nat /\ x - 1 \in Nat /\ x \notin T
  OBVIOUS
<1>3. x - 1 \in T
  <2>1. <<x - 1, x>> \in R
    BY <1>2 DEF OpToRel
  <2> QED
    BY <2>1, <1>1, <1>2
<1>4. (x - 1) + 1 = x
  BY <1>2
<1> QED
  BY <1>2, <1>3, <1>4

\* A set of numbers with an element has a least one.
LEMMA MinIs ==
  ASSUME NEW S \in SUBSET Nat, S # {}
  PROVE  Min(S) \in S /\ \A y \in S : Min(S) <= y
<1> DEFINE R == OpToRel(<, Nat)
<1>1. PICK x \in S : \A y \in S : ~ (<<y, x>> \in R)
  <2>1. IsWellFoundedOn(R, Nat)
    BY NatLessThanWellFounded
  <2> HIDE DEF R
  <2> QED
    BY <2>1, WFMin
<1>2. \A y \in S : x <= y
  <2> SUFFICES ASSUME NEW y \in S PROVE x <= y
    OBVIOUS
  <2>1. ~(y < x)
    BY <1>1 DEF OpToRel
  <2> QED
    BY <2>1
<1> QED
  BY <1>2 DEF Min

(* Folds.                                                                  *)

\* A set of numbers below a bound has a greatest one.
LEMMA GreatestExists ==
  ASSUME NEW n \in Nat, NEW S \in SUBSET (1..n), S # {}
  PROVE  \E x \in S : \A y \in S : x >= y
<1> DEFINE T == {k \in Nat : \A s \in SUBSET (1..k) : s # {} => \E x \in s : \A y \in s : x >= y}
<1>1. 0 \in T
  <2>1. 1..0 = {}
    OBVIOUS
  <2> QED
    BY <2>1
<1>2. ASSUME NEW k \in T PROVE k + 1 \in T
  <2> SUFFICES ASSUME NEW s \in SUBSET (1..(k + 1)), s # {} PROVE \E x \in s : \A y \in s : x >= y
    OBVIOUS
  <2>1. CASE k + 1 \in s
    <3>1. \A y \in s : k + 1 >= y
      OBVIOUS
    <3> QED
      BY <2>1, <3>1
  <2>2. CASE k + 1 \notin s
    <3>1. s \in SUBSET (1..k)
      BY <2>2
    <3> QED
      BY <3>1
  <2> QED
    BY <2>1, <2>2
<1>3. Nat \subseteq T
  <2> HIDE DEF T
  <2> QED
    BY <1>1, <1>2, SetInduction
<1> QED
  BY <1>3

LEMMA MaxIs ==
  ASSUME NEW n \in Nat, NEW S \in SUBSET (1..n), S # {}
  PROVE  Max(S) \in S /\ \A y \in S : Max(S) >= y
BY GreatestExists DEF Max

LEMMA MaxOfInterval ==
  ASSUME NEW n \in Nat \ {0}
  PROVE  Max(1..n) = n /\ (1..n) \ {n} = 1..(n - 1)
<1>1. Max(1..n) \in 1..n /\ Max(1..n) >= n
  <2>1. n \in Nat /\ 1..n \in SUBSET (1..n) /\ 1..n # {} /\ n \in 1..n
    OBVIOUS
  <2> QED
    BY <2>1, MaxIs
<1> QED
  BY <1>1

\* Folding a sequence from the left, as a function of the set of its positions that
\* are folded.
IsFold(g, step, base, data) ==
  \A s \in SUBSET (DOMAIN data) :
    g[s] = IF s = {} THEN base ELSE step[<<g[s \ {Max(s)}], data[Max(s)]>>]

\* Every fold over a sequence is defined: there is a function that gives, for each
\* set of positions, what has been accumulated over them.
LEMMA FoldExists ==
  ASSUME NEW V, NEW B, NEW step \in [V \X B -> V], NEW base \in V, NEW data \in Seq(B)
  PROVE  \E g \in [SUBSET (DOMAIN data) -> V] : IsFold(g, step, base, data)
<1>0. Len(data) \in Nat /\ DOMAIN data = 1..Len(data) /\ \A i \in 1..Len(data) : data[i] \in B
  BY LenProperties, ElementOfSeq
<1> DEFINE Fold(k, g) == \A s \in SUBSET (1..k) :
                           g[s] = IF s = {} THEN base ELSE step[<<g[s \ {Max(s)}], data[Max(s)]>>]
           Folds(k) == \E g \in [SUBSET (1..k) -> V] : Fold(k, g)
           T == {k \in Nat : k <= Len(data) => Folds(k)}
<1>1. 0 \in T
  <2> DEFINE g == [s \in SUBSET (1..0) |-> base]
  <2>1. g \in [SUBSET (1..0) -> V] /\ \A s \in SUBSET (1..0) : s = {} /\ g[s] = base
    OBVIOUS
  <2> QED
    BY <2>1
<1>2. ASSUME NEW k \in T PROVE k + 1 \in T
  <2>a. k \in Nat /\ k + 1 \in Nat /\ (k <= Len(data) => Folds(k))
    <3> HIDE DEF Folds
    <3> QED
      BY <1>2
  <2> SUFFICES ASSUME k + 1 <= Len(data) PROVE Folds(k + 1)
    <3> HIDE DEF Folds
    <3> QED
      BY <2>a
  <2>0. k \in Nat /\ k + 1 \in Nat /\ k <= Len(data) /\ k + 1 \in 1..Len(data) /\ data[k + 1] \in B
    BY <1>0, <2>a
  <2>1. PICK g \in [SUBSET (1..k) -> V] : Fold(k, g)
    BY <2>0, <2>a
  <2> DEFINE h == [s \in SUBSET (1..(k + 1)) |->
                     IF k + 1 \in s THEN step[<<g[s \ {k + 1}], data[k + 1]>>] ELSE g[s]]
  <2>2. ASSUME NEW s \in SUBSET (1..(k + 1)), k + 1 \in s
        PROVE  Max(s) = k + 1 /\ s \ {k + 1} \in SUBSET (1..k)
    <3>1. Max(s) \in s /\ Max(s) >= k + 1
      <4>1. s # {} /\ k + 1 \in Nat
        BY <2>0, <2>2
      <4>2. Max(s) \in s /\ \A y \in s : Max(s) >= y
        BY <4>1, MaxIs
      <4> QED
        BY <2>2, <4>2
    <3>2. Max(s) = k + 1
      <4>1. Max(s) \in 1..(k + 1)
        BY <3>1
      <4> QED
        BY <2>0, <3>1, <4>1
    <3>3. ASSUME NEW x \in s \ {k + 1} PROVE x \in 1..k
      BY <2>0, <2>2
    <3> QED
      BY <3>2, <3>3
  <2>3. ASSUME NEW s \in SUBSET (1..(k + 1)), k + 1 \notin s
        PROVE  s \in SUBSET (1..k)
    <3>1. ASSUME NEW x \in s PROVE x \in 1..k
      BY <2>0, <2>3
    <3> QED
      BY <3>1
  <2>4. ASSUME NEW s \in SUBSET (1..(k + 1))
        PROVE  h[s] \in V /\ h[s] = IF s = {} THEN base ELSE step[<<h[s \ {Max(s)}], data[Max(s)]>>]
    <3>1. CASE k + 1 \in s
      <4>1. h[s \ {k + 1}] = g[s \ {k + 1}] /\ g[s \ {k + 1}] \in V
        BY <2>2, <3>1
      <4>2. h[s] = step[<<g[s \ {k + 1}], data[k + 1]>>]
        BY <3>1
      <4> QED
        BY <2>0, <2>2, <3>1, <4>1, <4>2
    <3>2. CASE k + 1 \notin s
      <4>1. s \in SUBSET (1..k) /\ h[s] = g[s] /\ g[s] \in V
        BY <2>3, <3>2
      <4>2. CASE s # {}
        <5>1. k + 1 \notin s \ {Max(s)} /\ s \ {Max(s)} \in SUBSET (1..(k + 1))
          BY <3>2
        <5>2. h[s \ {Max(s)}] = g[s \ {Max(s)}]
          BY <5>1
        <5> QED
          BY <2>1, <4>1, <4>2, <5>2
      <4> QED
        BY <2>1, <4>1, <4>2
    <3> QED
      BY <3>1, <3>2
  <2>5. h \in [SUBSET (1..(k + 1)) -> V]
    BY <2>4
  <2> QED
    BY <2>4, <2>5
<1>3. Nat \subseteq T
  <2> HIDE DEF T
  <2> QED
    BY <1>1, <1>2, SetInduction
<1>4. Folds(Len(data))
  <2> HIDE DEF Folds
  <2> QED
    BY <1>0, <1>3
<1> QED
  BY <1>0, <1>4 DEF IsFold

\* c takes these steps, as long as its results have the right type.
Steps(c, step, V, base, data) ==
  /\ c[{}] = base
  /\ \A k \in 1..Len(data) : c[1..(k - 1)] \in V => c[1..k] = step[<<c[1..(k - 1)], data[k]>>]

IsStep(step, V, B) == step \in [V \X B -> V]

\* What a fold of nothing is, and a fold of one element more.
LEMMA FoldsNothing == ASSUME NEW c, NEW step, NEW V, NEW base, Steps(c, step, V, base, <<>>) PROVE c[1..0] = base
<1>1. 1..0 = {}
  OBVIOUS
<1> QED
  BY <1>1 DEF Steps

LEMMA FoldsOneMore ==
  ASSUME NEW V, NEW B, NEW step, IsStep(step, V, B), NEW base \in V, NEW data \in Seq(B), NEW b \in B,
         NEW c, Steps(c, step, V, base, data), NEW e, Steps(e, step, V, base, Append(data, b))
  PROVE  c[1..Len(data)] \in V /\ e[1..Len(Append(data, b))] = step[<<c[1..Len(data)], b>>]
<1> DEFINE T == {k \in Nat : k <= Len(data) => c[1..k] \in V /\ e[1..k] = c[1..k]}
<1>0. /\ Len(data) \in Nat /\ \A i \in 1..Len(data) : data[i] \in B /\ Append(data, b)[i] = data[i]
      /\ Append(data, b)[Len(data) + 1] = b /\ Len(Append(data, b)) = Len(data) + 1
  BY LenProperties, ElementOfSeq, AppendProperties
<1>a. /\ c[{}] = base /\ e[{}] = base
      /\ \A k \in 1..Len(data) : c[1..(k - 1)] \in V => c[1..k] = step[<<c[1..(k - 1)], data[k]>>]
      /\ \A k \in 1..(Len(data) + 1) :
           e[1..(k - 1)] \in V => e[1..k] = step[<<e[1..(k - 1)], Append(data, b)[k]>>]
  BY <1>0 DEF Steps
<1>b. \A v \in V, x \in B : step[<<v, x>>] \in V
  BY DEF IsStep
<1>1. 0 \in T
  <2>1. 1..0 = {}
    OBVIOUS
  <2> QED
    BY <1>a, <2>1
<1>2. ASSUME NEW k \in T PROVE k + 1 \in T
  <2>1. k \in Nat /\ k + 1 \in Nat /\ (k + 1) - 1 = k
    OBVIOUS
  <2>2. CASE k + 1 <= Len(data)
    <3>1. k + 1 \in 1..Len(data) /\ k + 1 \in 1..(Len(data) + 1)
      BY <1>0, <2>1, <2>2
    <3>2. c[1..k] \in V /\ e[1..k] = c[1..k]
      BY <1>0, <2>1, <2>2
    <3>3. c[1..(k + 1)] = step[<<c[1..k], data[k + 1]>>]
      BY <1>a, <2>1, <3>1, <3>2
    <3>4. e[1..(k + 1)] = step[<<c[1..k], data[k + 1]>>]
      BY <1>0, <1>a, <2>1, <3>1, <3>2
    <3> QED
      BY <1>0, <1>b, <2>1, <3>1, <3>2, <3>3, <3>4
  <2>3. CASE ~(k + 1 <= Len(data))
    BY <2>1, <2>3
  <2> QED
    BY <2>2, <2>3
<1>3. Nat \subseteq T
  <2> HIDE DEF T
  <2> QED
    BY <1>1, <1>2, SetInduction
<1>4. c[1..Len(data)] \in V /\ e[1..Len(data)] = c[1..Len(data)]
  BY <1>0, <1>3
<1>5. Len(data) + 1 \in 1..(Len(data) + 1) /\ (Len(data) + 1) - 1 = Len(data)
  BY <1>0
<1> QED
  BY <1>0, <1>a, <1>4, <1>5

\* Membership in an interval of numbers too many to enumerate.
LEMMA Interval == \A a, b, n : a \in Int /\ b \in Int => (n \in a..b <=> n \in Int /\ a <= n /\ n <= b)
OBVIOUS

--------------------------------------------------------------------------------
(* Sums.                                                                   *)

\* f has a number at each of n places.
Numbers(f, n) == \A i \in 0..n - 1 : f[i] \in Nat

\* h gives, for every set of places below n, the sum of the numbers that f has there.
Sums(h, f, n) ==
  /\ h \in [SUBSET (0..n - 1) -> Nat]
  /\ h[{}] = 0
  /\ \A s \in SUBSET (0..n - 1) : \A x \in s : h[s] = h[s \ {x}] + f[x]

LEMMA SumsExist ==
  ASSUME NEW n \in Nat, NEW f, Numbers(f, n)
  PROVE  \E h : Sums(h, f, n)
<1> USE DEF Numbers
<1> DEFINE T == {k \in Nat : k <= n => \E h : Sums(h, f, k)}
<1>1. 0 \in T
  <2> DEFINE h == [s \in SUBSET (0..0 - 1) |-> 0]
  <2>1. \A s \in SUBSET (0..0 - 1) : s = {}
    OBVIOUS
  <2>2. Sums(h, f, 0)
    BY <2>1 DEF Sums
  <2> QED
    BY <2>2
<1>2. ASSUME NEW k \in T PROVE k + 1 \in T
  <2> SUFFICES ASSUME k + 1 <= n PROVE \E h : Sums(h, f, k + 1)
    OBVIOUS
  <2>0. k \in Nat /\ k + 1 \in Nat /\ k <= n /\ k \in 0..n - 1 /\ f[k] \in Nat
    OBVIOUS
  <2>1. PICK g : Sums(g, f, k)
    BY <2>0
  <2> DEFINE D == 0..k - 1
             E == 0..(k + 1) - 1
             h == [s \in SUBSET E |-> IF k \in s THEN g[s \ {k}] + f[k] ELSE g[s]]
  <2>2. \A s \in SUBSET E : s \ {k} \in SUBSET D /\ (k \notin s => s \in SUBSET D)
    BY <2>0
  <2>3. \A s \in SUBSET D : g[s] \in Nat /\ \A x \in s : g[s] = g[s \ {x}] + f[x] /\ f[x] \in Nat
    <3>1. \A s \in SUBSET D : g[s] \in Nat /\ \A x \in s : g[s] = g[s \ {x}] + f[x]
      BY <2>1 DEF Sums
    <3>2. D \subseteq 0..n - 1
      BY <2>0
    <3> QED
      BY <3>1, <3>2
  <2> HIDE DEF D, E
  <2>4. \A s \in SUBSET E : h[s] \in Nat
    BY <2>0, <2>2, <2>3
  <2>5. ASSUME NEW s \in SUBSET E, NEW x \in s PROVE h[s] = h[s \ {x}] + f[x]
    <3>1. s \ {x} \in SUBSET E
      OBVIOUS
    <3>2. CASE x = k
      <4>1. h[s] = g[s \ {k}] + f[k] /\ h[s \ {x}] = g[s \ {k}]
        BY <3>1, <3>2
      <4> QED
        BY <3>2, <4>1
    <3>3. CASE x # k /\ k \in s
      <4> DEFINE r == s \ {k}
      <4>1. r \in SUBSET D /\ x \in r /\ (s \ {x}) \ {k} = r \ {x} /\ r \ {x} \in SUBSET D
        BY <2>2, <3>3
      <4>2. h[s] = g[r] + f[k] /\ h[s \ {x}] = g[r \ {x}] + f[k]
        BY <3>1, <3>3, <4>1
      <4> HIDE DEF r
      <4>3. g[r] = g[r \ {x}] + f[x] /\ g[r] \in Nat /\ g[r \ {x}] \in Nat /\ f[x] \in Nat
        BY <2>3, <4>1
      <4> QED
        BY <2>0, <4>2, <4>3
    <3>4. CASE k \notin s
      <4>1. s \in SUBSET D /\ h[s] = g[s] /\ h[s \ {x}] = g[s \ {x}]
        BY <2>2, <3>1, <3>4
      <4> QED
        BY <2>3, <4>1
    <3> QED
      BY <3>2, <3>3, <3>4
  <2>6. h[{}] = 0
    <3>1. {} \in SUBSET E
      OBVIOUS
    <3> QED
      BY <2>1, <3>1 DEF Sums
  <2> HIDE DEF h
  <2>7. h \in [SUBSET E -> Nat]
    BY <2>4 DEF h
  <2>8. Sums(h, f, k + 1)
    BY <2>5, <2>6, <2>7 DEF Sums, E
  <2> QED
    BY <2>8
<1>3. Nat \subseteq T
  <2> HIDE DEF T
  <2> QED
    BY <1>1, <1>2, SetInduction
<1> QED
  BY <1>3

\* The library's sum is that sum.
LEMMA SumIs ==
  ASSUME NEW n \in Nat, NEW f, Numbers(f, n), NEW h, Sums(h, f, n),
         NEW S \in SUBSET (0..n - 1)
  PROVE  SumFunctionOnSet(f, S) = h[S]
<1> USE DEF Numbers
<1> DEFINE P(g) == g = [s \in SUBSET S |->
                          IF s = {} THEN 0
                          ELSE f[CHOOSE x \in s : TRUE] + g[s \ {CHOOSE x \in s : TRUE}]]
           r == [s \in SUBSET S |-> h[s]]
<1>1. SUBSET S \subseteq SUBSET (0..n - 1)
  OBVIOUS
<1>2. \A s \in SUBSET S : h[s] \in Nat /\ \A x \in s : h[s] = f[x] + h[s \ {x}]
  <2>1. ASSUME NEW s \in SUBSET S, NEW x \in s PROVE h[s] = f[x] + h[s \ {x}]
    <3>1. h[s] = h[s \ {x}] + f[x] /\ h[s \ {x}] \in Nat /\ f[x] \in Nat
      BY DEF Sums
    <3> QED
      BY <3>1
  <2> QED
    BY <1>1, <2>1 DEF Sums
<1>3. h[{}] = 0
  BY DEF Sums
<1>4. P(r)
  <2>1. ASSUME NEW s \in SUBSET S, s # {}
        PROVE  r[s] = f[CHOOSE x \in s : TRUE] + r[s \ {CHOOSE x \in s : TRUE}]
    <3>1. PICK c : c = CHOOSE x \in s : TRUE
      OBVIOUS
    <3>2. c \in s
      BY <2>1, <3>1
    <3>3. r[s] = f[c] + r[s \ {c}]
      BY <1>2, <3>2
    <3> HIDE DEF r
    <3> QED
      BY <3>1, <3>3
  <2> QED
    BY <1>3, <2>1
<1>5. P(CHOOSE g : P(g))
  <2> HIDE DEF P
  <2> QED
    BY <1>4
<1>6. SumFunctionOnSet(f, S) = (CHOOSE g : P(g))[S]
  BY DEF SumFunctionOnSet, FoldFunctionOnSet, MapThenFoldSet
<1>7. PICK g : P(g) /\ SumFunctionOnSet(f, S) = g[S]
  <2> HIDE DEF P
  <2> QED
    BY <1>5, <1>6
<1>8. IsFiniteSet(S) /\ Cardinality(S) \in Nat
  <2>1. IsFiniteSet(0..n - 1)
    BY FS_Interval
  <2> QED
    BY <2>1, FS_Subset, FS_CardinalityType
<1> DEFINE T == {k \in Nat : \A s \in SUBSET S : Cardinality(s) = k => g[s] = h[s]}
<1>9. 0 \in T
  <2>1. \A s \in SUBSET S : Cardinality(s) = 0 => s = {}
    BY <1>8, FS_Subset, FS_EmptySet
  <2> QED
    BY <1>3, <1>7, <2>1
<1>10. ASSUME NEW k \in T PROVE k + 1 \in T
  <2> SUFFICES ASSUME NEW s \in SUBSET S, Cardinality(s) = k + 1 PROVE g[s] = h[s]
    OBVIOUS
  <2>0. IsFiniteSet(s) /\ k \in Nat
    BY <1>8, FS_Subset
  <2>1. s # {}
    BY <2>0, FS_EmptySet
  <2>2. PICK c : c = CHOOSE x \in s : TRUE
    OBVIOUS
  <2>3. c \in s /\ s \ {c} \in SUBSET S
    BY <2>1, <2>2
  <2>4. Cardinality(s \ {c}) = k
    <3>1. Cardinality(s \ {c}) = (k + 1) - 1
      BY <2>0, <2>3, FS_RemoveElement
    <3> QED
      BY <2>0, <3>1
  <2>5. g[s \ {c}] = h[s \ {c}]
    BY <2>3, <2>4
  <2>6. g[s] = f[c] + g[s \ {c}]
    BY <1>7, <2>1, <2>2
  <2> QED
    BY <1>2, <2>3, <2>5, <2>6
<1>11. Nat \subseteq T
  <2> HIDE DEF T
  <2> QED
    BY <1>9, <1>10, SetInduction
<1> QED
  BY <1>7, <1>8, <1>11

\* The sum over nothing, over one place more, and over places where two functions agree.
LEMMA SumNothing == ASSUME NEW f PROVE SumFunctionOnSet(f, {}) = 0
<1>1. PICK n : n = 0
  OBVIOUS
<1>2. n \in Nat /\ {} \in SUBSET (0..n - 1) /\ Numbers(f, n)
  BY <1>1 DEF Numbers
<1>3. PICK h : Sums(h, f, n)
  BY <1>2, SumsExist
<1>4. SumFunctionOnSet(f, {}) = h[{}]
  BY <1>2, <1>3, SumIs
<1> QED
  BY <1>3, <1>4 DEF Sums

LEMMA SumIsNat ==
  ASSUME NEW n \in Nat, NEW f, Numbers(f, n), NEW S \in SUBSET (0..n - 1)
  PROVE  SumFunctionOnSet(f, S) \in Nat
<1>1. PICK h : Sums(h, f, n)
  BY SumsExist
<1>2. SumFunctionOnSet(f, S) = h[S]
  BY <1>1, SumIs
<1> QED
  BY <1>1, <1>2 DEF Sums

LEMMA SumOneMore ==
  ASSUME NEW n \in Nat, NEW f, Numbers(f, n), NEW S \in SUBSET (0..n - 1), NEW x \in S
  PROVE  SumFunctionOnSet(f, S) = SumFunctionOnSet(f, S \ {x}) + f[x]
<1>1. PICK h : Sums(h, f, n)
  BY SumsExist
<1>2. S \ {x} \in SUBSET (0..n - 1)
  OBVIOUS
<1>3. SumFunctionOnSet(f, S) = h[S] /\ SumFunctionOnSet(f, S \ {x}) = h[S \ {x}]
  BY <1>1, <1>2, SumIs
<1> QED
  BY <1>1, <1>3 DEF Sums

Agree(f, e, S) == \A i \in S : f[i] = e[i]

LEMMA SumAgrees ==
  ASSUME NEW n \in Nat, NEW f, Numbers(f, n), NEW e, Numbers(e, n), NEW S \in SUBSET (0..n - 1),
         Agree(f, e, S)
  PROVE  SumFunctionOnSet(f, S) = SumFunctionOnSet(e, S)
<1> USE DEF Numbers, Agree
<1> DEFINE Same(s) == SumFunctionOnSet(f, s) = SumFunctionOnSet(e, s)
           T == {k \in Nat : \A s \in SUBSET S : Cardinality(s) = k => Same(s)}
<1>1. IsFiniteSet(S) /\ Cardinality(S) \in Nat
  <2>1. IsFiniteSet(0..n - 1)
    BY FS_Interval
  <2> QED
    BY <2>1, FS_Subset, FS_CardinalityType
<1>2. 0 \in T
  <2>1. \A s \in SUBSET S : Cardinality(s) = 0 => s = {}
    BY <1>1, FS_Subset, FS_EmptySet
  <2>2. Same({})
    BY SumNothing
  <2> HIDE DEF Same
  <2> QED
    BY <2>1, <2>2
<1>3. ASSUME NEW k \in T PROVE k + 1 \in T
  <2> SUFFICES ASSUME NEW s \in SUBSET S, Cardinality(s) = k + 1 PROVE Same(s)
    OBVIOUS
  <2>0. IsFiniteSet(s) /\ k \in Nat
    BY <1>1, FS_Subset
  <2>1. s # {}
    BY <2>0, FS_EmptySet
  <2>2. PICK x : x \in s
    BY <2>1
  <2>3. s \ {x} \in SUBSET S /\ Cardinality(s \ {x}) = k
    <3>1. Cardinality(s \ {x}) = (k + 1) - 1
      BY <2>0, <2>2, FS_RemoveElement
    <3>2. (k + 1) - 1 = k
      BY <2>0
    <3> QED
      BY <3>1, <3>2
  <2>4. Same(s \ {x})
    <3> HIDE DEF Same
    <3> QED
      BY <2>3
  <2>5. s \in SUBSET (0..n - 1) /\ f[x] = e[x]
    BY <2>2
  <2>6. /\ SumFunctionOnSet(f, s) = SumFunctionOnSet(f, s \ {x}) + f[x]
        /\ SumFunctionOnSet(e, s) = SumFunctionOnSet(e, s \ {x}) + e[x]
    BY <2>2, <2>5, SumOneMore
  <2> QED
    BY <2>4, <2>5, <2>6
<1>4. Nat \subseteq T
  <2> HIDE DEF T
  <2> QED
    BY <1>2, <1>3, SetInduction
<1> QED
  BY <1>1, <1>4

\* The sum of a number taken as often as there are places.
LEMMA SumConstant ==
  ASSUME NEW n \in Nat, NEW f, Numbers(f, n), NEW S \in SUBSET (0..n - 1),
         NEW c \in Nat, \A i \in S : f[i] = c
  PROVE  SumFunctionOnSet(f, S) = Cardinality(S) * c
<1> DEFINE T == {k \in Nat : \A s \in SUBSET S : Cardinality(s) = k => SumFunctionOnSet(f, s) = k * c}
<1>1. IsFiniteSet(S) /\ Cardinality(S) \in Nat
  <2>1. IsFiniteSet(0..n - 1)
    BY FS_Interval
  <2> QED
    BY <2>1, FS_Subset, FS_CardinalityType
<1>2. 0 \in T
  <2>1. \A s \in SUBSET S : Cardinality(s) = 0 => s = {}
    BY <1>1, FS_Subset, FS_EmptySet
  <2>2. SumFunctionOnSet(f, {}) = 0 * c
    BY SumNothing
  <2> QED
    BY <2>1, <2>2
<1>3. ASSUME NEW k \in T PROVE k + 1 \in T
  <2> SUFFICES ASSUME NEW s \in SUBSET S, Cardinality(s) = k + 1
               PROVE  SumFunctionOnSet(f, s) = (k + 1) * c
    OBVIOUS
  <2>0. IsFiniteSet(s) /\ k \in Nat
    BY <1>1, FS_Subset
  <2>1. s # {}
    BY <2>0, FS_EmptySet
  <2>2. PICK x : x \in s
    BY <2>1
  <2>3. s \ {x} \in SUBSET S /\ Cardinality(s \ {x}) = k
    <3>1. Cardinality(s \ {x}) = (k + 1) - 1
      BY <2>0, <2>2, FS_RemoveElement
    <3>2. (k + 1) - 1 = k
      BY <2>0
    <3> QED
      BY <3>1, <3>2
  <2>4. SumFunctionOnSet(f, s \ {x}) = k * c
    BY <2>3
  <2>5. s \in SUBSET (0..n - 1) /\ f[x] = c
    BY <2>2
  <2>6. SumFunctionOnSet(f, s) = SumFunctionOnSet(f, s \ {x}) + f[x]
    BY <2>2, <2>5, SumOneMore
  <2>7. k * c + c = (k + 1) * c
    BY <2>0
  <2> QED
    BY <2>4, <2>5, <2>6, <2>7
<1>4. Nat \subseteq T
  <2> HIDE DEF T
  <2> QED
    BY <1>2, <1>3, SetInduction
<1> QED
  BY <1>1, <1>4

--------------------------------------------------------------------------------
(* Sorting.                                                                *)

\* The numbers below x in S.
Below(S, x) == {y \in S : y < x}

\* A finite set of numbers can be put in order: an element's place is given by the
\* number of elements below it.
LEMMA SortedExists ==
  ASSUME NEW S, IsFiniteSet(S), S \subseteq Nat
  PROVE  \E q \in [1..Cardinality(S) -> S] : \A i, j \in 1..Cardinality(S) : i < j => q[i] < q[j]
<1> DEFINE n == Cardinality(S)
           Rank == [x \in S |-> Cardinality(Below(S, x))]
<1>1. n \in Nat
  BY FS_CardinalityType
<1>2. \A x \in S : Below(S, x) \subseteq S /\ x \notin Below(S, x)
  BY DEF Below
<1>3. ASSUME NEW x \in S PROVE IsFiniteSet(Below(S, x)) /\ Rank[x] \in 0..(n - 1)
  <2>1. IsFiniteSet(Below(S, x)) /\ Cardinality(Below(S, x)) <= n /\ Cardinality(Below(S, x)) # n
    <3>1. Below(S, x) # S
      BY <1>2
    <3> QED
      BY <1>2, <3>1, FS_Subset
  <2>2. Cardinality(Below(S, x)) \in Nat
    BY <2>1, FS_CardinalityType
  <2> QED
    BY <1>1, <2>1, <2>2
<1>4. ASSUME NEW x \in S, NEW y \in S, x < y PROVE Rank[x] < Rank[y]
  <2>1. Below(S, x) \subseteq Below(S, y) /\ x \in Below(S, y)
    <3>1. x \in Nat /\ y \in Nat /\ \A z \in S : z \in Nat
      OBVIOUS
    <3>2. \A a, b, c \in Nat : a < b /\ b < c => a < c
      OBVIOUS
    <3>3. ASSUME NEW z \in Below(S, x) PROVE z \in Below(S, y)
      <4>1. z \in S /\ z < x
        BY DEF Below
      <4>2. z < y
        BY <1>4, <3>1, <3>2, <4>1
      <4> QED
        BY <4>1, <4>2 DEF Below
    <3>4. x \in Below(S, y)
      BY <1>4 DEF Below
    <3> QED
      BY <3>3, <3>4
  <2>2. Below(S, x) # Below(S, y)
    BY <1>2, <2>1
  <2>3. Cardinality(Below(S, x)) <= Cardinality(Below(S, y)) /\ Cardinality(Below(S, x)) # Cardinality(Below(S, y))
    BY <1>3, <2>1, <2>2, FS_Subset
  <2> QED
    BY <1>3, <2>3
<1>5. ASSUME NEW x \in S, NEW y \in S, Rank[x] = Rank[y] PROVE x = y
  <2>1. x \in Nat /\ y \in Nat
    OBVIOUS
  <2>2. ~(x < y) /\ ~(y < x)
    BY <1>3, <1>4, <1>5
  <2> QED
    BY <2>1, <2>2
<1>6. \A k \in 0..(n - 1) : \E x \in S : Rank[x] = k
  <2> SUFFICES ASSUME NEW k \in 0..(n - 1), \A x \in S : Rank[x] # k PROVE FALSE
    OBVIOUS
  <2> DEFINE T == (0..(n - 1)) \ {k}
  <2>1. IsFiniteSet(0..(n - 1)) /\ Cardinality(0..(n - 1)) = n
    BY <1>1, FS_Interval
  <2>2. IsFiniteSet(T) /\ Cardinality(T) = n - 1
    BY <2>1, FS_RemoveElement
  <2>3. Rank \in [S -> T]
    BY <1>3
  <2> HIDE DEF Rank, T
  <2>4. Cardinality(T) < Cardinality(S)
    BY <1>1, <2>2
  <2>5. PICK x, y \in S : x # y /\ Rank[x] = Rank[y]
    BY <2>2, <2>3, <2>4, FS_PigeonHole
  <2> QED
    BY <1>5, <2>5
<1> HIDE DEF Rank
<1> DEFINE q == [i \in 1..n |-> CHOOSE x \in S : Rank[x] = i - 1]
<1>7. ASSUME NEW i \in 1..n PROVE q[i] \in S /\ Rank[q[i]] = i - 1
  <2>1. \E x \in S : Rank[x] = i - 1
    BY <1>1, <1>6
  <2> QED
    BY <2>1
<1>8. q \in [1..n -> S]
  BY <1>7
<1>9. ASSUME NEW i \in 1..n, NEW j \in 1..n, i < j PROVE q[i] < q[j]
  <2>1. q[i] \in S /\ q[j] \in S /\ Rank[q[i]] = i - 1 /\ Rank[q[j]] = j - 1
    BY <1>7
  <2>2. q[i] \in Nat /\ q[j] \in Nat
    BY <2>1
  <2>3. q[i] # q[j] /\ ~(q[j] < q[i])
    <3>1. i - 1 < j - 1 /\ ~(j - 1 < i - 1) /\ i - 1 # j - 1
      BY <1>1, <1>9
    <3> QED
      BY <2>1, <3>1, <1>4
  <2> QED
    BY <2>2, <2>3
<1> HIDE DEF q
<1> QED
  BY <1>8, <1>9

\* A sorted set is a sequence of its elements, as many as there are.
LEMMA SortedIs ==
  ASSUME NEW S, IsFiniteSet(S), S \subseteq Nat
  PROVE  /\ Sorted(S) \in [1..Cardinality(S) -> S]
         /\ Sorted(S) \in Seq(S) /\ Len(Sorted(S)) = Cardinality(S) /\ Len(Sorted(S)) \in Nat
         /\ Sorted(S) = <<>> <=> S = {}
<1>1. Cardinality(S) \in Nat
  BY FS_CardinalityType
<1>2. Sorted(S) \in [1..Cardinality(S) -> S]
  BY SortedExists DEF Sorted
<1>3. Sorted(S) \in Seq(S) /\ Len(Sorted(S)) = Cardinality(S)
  BY <1>1, <1>2
<1>4. Cardinality(S) = 0 <=> S = {}
  BY FS_EmptySet
<1> QED
  BY <1>1, <1>2, <1>3, <1>4

\* It has every element of the set, in order.
LEMMA SortedRange ==
  ASSUME NEW S, IsFiniteSet(S), S \subseteq Nat
  PROVE  /\ \A i, j \in 1..Len(Sorted(S)) : i < j => Sorted(S)[i] < Sorted(S)[j]
         /\ Range(Sorted(S)) = S
<1> DEFINE q == Sorted(S)
           n == Cardinality(S)
<1>1. n \in Nat /\ Len(q) = n /\ q \in [1..n -> S]
  <2>1. n \in Nat
    BY FS_CardinalityType
  <2>2. Sorted(S) \in [1..Cardinality(S) -> S] /\ Len(Sorted(S)) = Cardinality(S)
    BY SortedIs
  <2> QED
    BY <2>1, <2>2
<1>2. \A i, j \in 1..n : i < j => q[i] < q[j]
  BY SortedExists DEF Sorted
<1> HIDE DEF q
<1>3. \A i, j \in 1..n : q[i] = q[j] => i = j
  <2> SUFFICES ASSUME NEW i \in 1..n, NEW j \in 1..n, q[i] = q[j], i # j PROVE FALSE
    OBVIOUS
  <2>1. q[i] \in Nat /\ q[j] \in Nat
    BY <1>1
  <2>2. i < j \/ j < i
    BY <1>1
  <2> QED
    BY <1>2, <2>1, <2>2
<1>4. q \in Surjection(1..n, S)
  <2>1. q \in Injection(1..n, S)
    BY <1>1, <1>3 DEF Injection, IsInjective
  <2>2. IsFiniteSet(1..n) /\ Cardinality(1..n) = n
    BY <1>1, FS_Interval
  <2> QED
    BY <2>1, <2>2, FS_Injection
<1>5. Range(q) = S
  BY <1>1, <1>4 DEF Surjection, Range
<1> QED
  BY <1>1, <1>2, <1>5 DEF q

================================================================================

----------------------------- MODULE Recursion ------------------------------
(***************************************************************************)
(* Induction over the naturals, stated for a set, so that the provers can  *)
(* use it where the library's theorem takes an operator; that a function   *)
(* defined by recursion is what its definition says; and what follows for  *)
(* sums over finite sets, running sums, powers, flattened sequences and    *)
(* counting.                                                               *)
(***************************************************************************)
EXTENDS Integers, FiniteSets, Functions, SequencesExt, Numbers,
        FiniteSetTheorems, WellFoundedInduction, TLAPS

LEMMA LeastNatural ==
  ASSUME NEW S, S \subseteq Nat, S # {}
  PROVE  \E n \in S : \A m \in S : n <= m
<1> DEFINE T == {1..n : n \in S}
           R == StrictSubsetOrdering(Nat)
<1>1. T \subseteq FiniteSubsetsOf(Nat) /\ T # {}
  <2>1. \A n \in S : IsFiniteSet(1..n) /\ 1..n \in SUBSET Nat
    BY FS_Interval
  <2> QED
    BY <2>1 DEF FiniteSubsetsOf
<1>2. IsWellFoundedOn(R, FiniteSubsetsOf(Nat))
  BY FS_StrictSubsetOrderingWellFounded
<1>3. PICK x \in T : \A y \in T : ~(<<y, x>> \in R)
  <2> HIDE DEF T, R
  <2> QED
    BY <1>1, <1>2, WFMin
<1>4. PICK n \in S : x = 1..n
  BY <1>3
<1>5. ASSUME NEW m \in S, m < n
      PROVE  FALSE
  <2>1. 1..m \subseteq 1..n /\ 1..m # 1..n /\ 1..m \in SUBSET Nat /\ 1..n \in SUBSET Nat
    BY <1>5
  <2>2. <<1..m, 1..n>> \in R
    BY <2>1 DEF StrictSubsetOrdering
  <2> QED
    BY <1>3, <1>4, <2>2
<1> QED
  BY <1>5

LEMMA GreatestNatural ==
  ASSUME NEW n \in Nat, NEW S, S \subseteq 0..n, S # {}
  PROVE  \E x \in S : \A y \in S : y <= x
<1> DEFINE T == {n - x : x \in S}
<1>1. T \subseteq Nat /\ T # {}
  OBVIOUS
<1>2. PICK t \in T : \A u \in T : t <= u
  <2> HIDE DEF T
  <2> QED
    BY <1>1, LeastNatural
<1>3. PICK x \in S : t = n - x
  OBVIOUS
<1>4. ASSUME NEW y \in S
      PROVE  y <= x
  <2>1. n - x <= n - y
    BY <1>2, <1>3
  <2>2. x \in Nat /\ y \in Nat
    OBVIOUS
  <2> QED
    BY <2>1, <2>2
<1> QED
  BY <1>4

LEMMA NaturalsInSet ==
  ASSUME NEW S, 0 \in S, \A k \in Nat : k \in S => k + 1 \in S
  PROVE  Nat \subseteq S
<1> SUFFICES ASSUME Nat \ S # {} PROVE FALSE
  OBVIOUS
<1>1. PICK n \in Nat \ S : \A m \in Nat \ S : n <= m
  BY LeastNatural
<1>2. n # 0 /\ n - 1 \in Nat /\ ~(n <= n - 1)
  BY <1>1
<1>3. n - 1 \in S
  BY <1>1, <1>2
<1>4. (n - 1) + 1 \in S /\ (n - 1) + 1 = n
  BY <1>2, <1>3
<1> QED
  BY <1>1, <1>4

-----------------------------------------------------------------------------
(* Functions defined by recursion over 0 .. n *)

Recursive(g, s, F, n) == g = [d \in 0..n |-> IF d = 0 THEN s ELSE F[<<d, g[d - 1]>>]]

LEMMA RecursionExists ==
  ASSUME NEW s, NEW F, NEW n \in Nat
  PROVE  \E g : Recursive(g, s, F, n)
<1> DEFINE S == {k \in Nat : \E g : Recursive(g, s, F, k)}
<1>1. 0 \in S
  <2>1. Recursive([d \in 0..0 |-> s], s, F, 0)
    BY DEF Recursive
  <2> QED
    BY <2>1
<1>2. ASSUME NEW k \in Nat, k \in S
      PROVE  k + 1 \in S
  <2>1. PICK g : Recursive(g, s, F, k)
    BY <1>2
  <2> DEFINE h == [d \in 0..(k + 1) |-> IF d = k + 1 THEN F[<<d, g[k]>>] ELSE g[d]]
  <2>2. ASSUME NEW d \in 0..(k + 1)
        PROVE  h[d] = IF d = 0 THEN s ELSE F[<<d, h[d - 1]>>]
    <3>1. CASE d = k + 1
      <4>1. d # 0 /\ d - 1 = k /\ k \in 0..(k + 1) /\ k # k + 1
        BY <3>1
      <4>2. h[d] = F[<<d, g[k]>>] /\ h[k] = g[k]
        BY <3>1, <4>1
      <4> QED
        BY <4>1, <4>2
    <3>2. CASE d # k + 1
      <4>1. d \in 0..k /\ h[d] = g[d]
        BY <3>2
      <4>2. g[d] = IF d = 0 THEN s ELSE F[<<d, g[d - 1]>>]
        BY <2>1, <4>1 DEF Recursive
      <4>3. d # 0 => d - 1 \in 0..(k + 1) /\ d - 1 # k + 1
        BY <4>1
      <4>4. d # 0 => h[d - 1] = g[d - 1]
        BY <4>3
      <4> QED
        BY <4>1, <4>2, <4>4
    <3> QED
      BY <3>1, <3>2
  <2>3. Recursive(h, s, F, k + 1)
    <3>1. DOMAIN h = 0..(k + 1) /\ h = [d \in 0..(k + 1) |-> h[d]]
      OBVIOUS
    <3> HIDE DEF h
    <3> QED
      BY <2>2, <3>1 DEF Recursive
  <2> QED
    BY <2>3
<1> QED
  <2> HIDE DEF S
  <2>1. n \in S
    BY <1>1, <1>2, NaturalsInSet
  <2> QED
    BY <2>1 DEF S

\* The step F keeps the values in S.
Keeps(S, F, n) == \A d \in 1..n, v \in S : F[<<d, v>>] \in S

\* The values of a recursion stay in a set that its step keeps.
LEMMA RecursionStaysIn ==
  ASSUME NEW S, NEW s \in S, NEW F, NEW n \in Nat, Keeps(S, F, n),
         NEW g, Recursive(g, s, F, n)
  PROVE  /\ DOMAIN g = 0..n /\ g[0] = s
         /\ \A d \in 0..n : g[d] \in S
         /\ \A d \in 1..n : g[d] = F[<<d, g[d - 1]>>]
<1>1. DOMAIN g = 0..n /\ \A d \in 0..n : g[d] = IF d = 0 THEN s ELSE F[<<d, g[d - 1]>>]
  BY DEF Recursive
<1>2. g[0] = s
  <2>1. 0 \in 0..n
    OBVIOUS
  <2> QED
    BY <1>1, <2>1
<1>3. \A d \in 1..n : g[d] = F[<<d, g[d - 1]>>]
  BY <1>1
<1> DEFINE P == {d \in Nat : d \in 0..n => g[d] \in S}
<1>4. 0 \in P
  BY <1>2
<1>5. ASSUME NEW d \in Nat, d \in P
      PROVE  d + 1 \in P
  <2>1. SUFFICES ASSUME d + 1 \in 0..n PROVE g[d + 1] \in S
    OBVIOUS
  <2>2. d \in 0..n /\ d + 1 \in 1..n /\ (d + 1) - 1 = d
    BY <2>1
  <2>3. g[d + 1] = F[<<d + 1, g[d]>>]
    BY <1>3, <2>2
  <2> QED
    BY <1>5, <2>2, <2>3 DEF Keeps
<1>6. Nat \subseteq P
  <2> HIDE DEF P
  <2> QED
    BY <1>4, <1>5, NaturalsInSet
<1> QED
  BY <1>1, <1>2, <1>3, <1>6

LEMMA RecursionInSet ==
  ASSUME NEW S, NEW s \in S, NEW F, NEW n \in Nat, Keeps(S, F, n)
  PROVE  \E g : /\ DOMAIN g = 0..n /\ g[0] = s /\ g = [d \in 0..n |-> g[d]]
                /\ \A d \in 0..n : g[d] \in S
                /\ \A d \in 1..n : g[d] = F[<<d, g[d - 1]>>]
<1>1. PICK g : Recursive(g, s, F, n)
  BY RecursionExists
<1>2. /\ DOMAIN g = 0..n /\ g[0] = s
      /\ \A d \in 0..n : g[d] \in S
      /\ \A d \in 1..n : g[d] = F[<<d, g[d - 1]>>]
  BY <1>1, RecursionStaysIn
<1>3. g = [d \in 0..n |-> g[d]]
  BY <1>1, <1>2 DEF Recursive
<1> QED
  BY <1>2, <1>3

-----------------------------------------------------------------------------
(* Sums over finite sets *)

\* g is the running sum of f over the sets of at most k elements.
Sums(g, f, k) ==
  g = [s \in {s \in SUBSET DOMAIN f : Cardinality(s) <= k} |->
         IF s = {} THEN 0
         ELSE f[CHOOSE x \in s : TRUE] + g[s \ {CHOOSE x \in s : TRUE}]]

LEMMA SumsExist ==
  ASSUME NEW f, IsFiniteSet(DOMAIN f), NEW n \in Nat
  PROVE  \E g : Sums(g, f, n)
<1> DEFINE Small(k) == {s \in SUBSET DOMAIN f : Cardinality(s) <= k}
           first(s) == CHOOSE x \in s : TRUE
           S == {k \in Nat : \E g : Sums(g, f, k)}
<1>1. \A s \in SUBSET DOMAIN f :
        /\ IsFiniteSet(s) /\ Cardinality(s) \in Nat /\ (Cardinality(s) = 0 <=> s = {})
        /\ s # {} => /\ first(s) \in s
                     /\ s \ {first(s)} \in SUBSET DOMAIN f
                     /\ Cardinality(s \ {first(s)}) = Cardinality(s) - 1
  <2> SUFFICES ASSUME NEW s \in SUBSET DOMAIN f
               PROVE  /\ IsFiniteSet(s) /\ Cardinality(s) \in Nat
                      /\ (Cardinality(s) = 0 <=> s = {})
                      /\ s # {} => /\ first(s) \in s
                                   /\ s \ {first(s)} \in SUBSET DOMAIN f
                                   /\ Cardinality(s \ {first(s)}) = Cardinality(s) - 1
    OBVIOUS
  <2>1. IsFiniteSet(s) /\ Cardinality(s) \in Nat /\ (Cardinality(s) = 0 <=> s = {})
    BY FS_Subset, FS_CardinalityType, FS_EmptySet
  <2>2. s # {} => first(s) \in s
    OBVIOUS
  <2> HIDE DEF first
  <2> QED
    BY <2>1, <2>2, FS_RemoveElement
<1> HIDE DEF first
<1>2. 0 \in S
  <2> DEFINE h == [s \in Small(0) |-> 0]
  <2>1. ASSUME NEW s \in Small(0)
        PROVE  s = {}
    <3>1. s \in SUBSET DOMAIN f /\ Cardinality(s) <= 0
      OBVIOUS
    <3>2. Cardinality(s) \in Nat /\ (Cardinality(s) = 0 <=> s = {})
      BY <1>1, <3>1
    <3> QED
      BY <3>1, <3>2
  <2>2. h = [s \in Small(0) |-> IF s = {} THEN 0 ELSE f[first(s)] + h[s \ {first(s)}]]
    BY <2>1
  <2>3. Sums(h, f, 0)
    BY <2>2 DEF Sums, first
  <2> QED
    BY <2>3
<1>3. ASSUME NEW k \in Nat, k \in S
      PROVE  k + 1 \in S
  <2>1. PICK g : Sums(g, f, k)
    BY <1>3
  <2>2. g = [s \in Small(k) |-> IF s = {} THEN 0 ELSE f[first(s)] + g[s \ {first(s)}]]
    BY <2>1 DEF Sums, first
  <2> DEFINE h == [s \in Small(k + 1) |->
                     IF s = {} THEN 0 ELSE f[first(s)] + g[s \ {first(s)}]]
  <2>3. ASSUME NEW s \in Small(k)
        PROVE  s \in Small(k + 1) /\ h[s] = g[s]
    <3>1. s \in Small(k + 1)
      <4>1. s \in SUBSET DOMAIN f /\ Cardinality(s) <= k
        OBVIOUS
      <4>2. Cardinality(s) \in Nat
        BY <1>1, <4>1
      <4> QED
        BY <4>1, <4>2
    <3> QED
      BY <2>2, <3>1
  <2>4. ASSUME NEW s \in Small(k + 1), s # {}
        PROVE  s \ {first(s)} \in Small(k)
    BY <1>1, <2>4
  <2>5. \A s \in Small(k + 1) :
          h[s] = IF s = {} THEN 0 ELSE f[first(s)] + h[s \ {first(s)}]
    BY <2>3, <2>4
  <2>6. h = [s \in Small(k + 1) |-> h[s]]
    OBVIOUS
  <2> HIDE DEF h
  <2>7. Sums(h, f, k + 1)
    BY <2>5, <2>6 DEF Sums, first
  <2> QED
    BY <2>7
<1> QED
  <2> HIDE DEF S
  <2>1. n \in S
    BY <1>2, <1>3, NaturalsInSet
  <2> QED
    BY <2>1 DEF S

\* A sum of naturals is a natural, and 0 if all of them are.
LEMMA SumFacts ==
  ASSUME NEW f, IsFiniteSet(DOMAIN f), \A x \in DOMAIN f : f[x] \in Nat
  PROVE  /\ FoldFunction(+, 0, f) \in Nat
         /\ (\A x \in DOMAIN f : f[x] = 0) => FoldFunction(+, 0, f) = 0
<1> DEFINE D == DOMAIN f
           n == Cardinality(D)
           iter == CHOOSE g : g = [s \in SUBSET D |->
                     IF s = {} THEN 0
                     ELSE f[CHOOSE x \in s : TRUE] + g[s \ {CHOOSE x \in s : TRUE}]]
           Fine(s) == iter[s] \in Nat /\ ((\A x \in D : f[x] = 0) => iter[s] = 0)
           S == {k \in Nat : \A s \in SUBSET D : Cardinality(s) <= k => Fine(s)}
<1>1. FoldFunction(+, 0, f) = iter[D]
  BY DEF FoldFunction, FoldFunctionOnSet, MapThenFoldSet
<1>2. n \in Nat /\ \A s \in SUBSET D : IsFiniteSet(s) /\ Cardinality(s) \in Nat /\ Cardinality(s) <= n
  BY FS_Subset, FS_CardinalityType
<1>3. iter = [s \in SUBSET D |->
                IF s = {} THEN 0
                ELSE f[CHOOSE x \in s : TRUE] + iter[s \ {CHOOSE x \in s : TRUE}]]
  <2>1. PICK g : Sums(g, f, n)
    BY <1>2, SumsExist
  <2>2. {s \in SUBSET D : Cardinality(s) <= n} = SUBSET D
    BY <1>2
  <2> HIDE DEF n
  <2>3. g = [s \in SUBSET D |->
               IF s = {} THEN 0
               ELSE f[CHOOSE x \in s : TRUE] + g[s \ {CHOOSE x \in s : TRUE}]]
    BY <2>1, <2>2 DEF Sums
  <2> QED
    BY <2>3
<1> HIDE DEF iter, n
<1>4. iter[{}] = 0
  BY <1>3
<1>5. ASSUME NEW s \in SUBSET D, s # {}
      PROVE  \E x \in s : iter[s] = f[x] + iter[s \ {x}]
  BY <1>3, <1>5
<1>6. 0 \in S
  BY <1>2, <1>4, FS_EmptySet
<1>7. ASSUME NEW k \in Nat, k \in S
      PROVE  k + 1 \in S
  <2>1. SUFFICES ASSUME NEW s \in SUBSET D, Cardinality(s) <= k + 1
                 PROVE  Fine(s)
    OBVIOUS
  <2>2. CASE s = {}
    BY <1>4, <2>2
  <2>3. CASE s # {}
    <3>1. PICK x \in s : iter[s] = f[x] + iter[s \ {x}]
      BY <1>5, <2>3
    <3>2. /\ s \ {x} \in SUBSET D /\ Cardinality(s \ {x}) = Cardinality(s) - 1
      BY <1>2, FS_RemoveElement
    <3>3. Fine(s \ {x})
      BY <1>2, <1>7, <2>1, <3>2
    <3> QED
      BY <3>1, <3>3
  <2> QED
    BY <2>2, <2>3
<1>8. n \in S
  <2> HIDE DEF S
  <2> QED
    BY <1>2, <1>6, <1>7, NaturalsInSet
<1>9. Fine(D)
  BY <1>2, <1>8 DEF n
<1> QED
  BY <1>1, <1>9

-----------------------------------------------------------------------------
(* Running sums *)

\* g is the running sum of w.
RunningSum(g, w, n) == g = [k \in 0..n |-> IF k = 0 THEN 0 ELSE g[k - 1] + w[k]]

LEMMA RunningSumExists ==
  ASSUME NEW w, NEW n \in Nat, \A k \in 1..n : w[k] \in Int
  PROVE  \E g : RunningSum(g, w, n) /\ \A k \in 0..n : g[k] \in Int
<1> DEFINE F == [x \in (1..n) \X Int |-> x[2] + w[x[1]]]
           V == Int
           s == 0
<1>1. \A d \in 1..n, v \in Int : F[<<d, v>>] = v + w[d]
  OBVIOUS
<1>2. \A d \in 1..n, v \in Int : v + w[d] \in Int
  OBVIOUS
<1>3. Keeps(V, F, n) /\ s \in V
  <2> HIDE DEF F
  <2> QED
    BY <1>1, <1>2 DEF Keeps
<1> HIDE DEF F, V, s
<1>4. PICK g : /\ DOMAIN g = 0..n /\ g[0] = s /\ g = [d \in 0..n |-> g[d]]
               /\ \A d \in 0..n : g[d] \in V
               /\ \A d \in 1..n : g[d] = F[<<d, g[d - 1]>>]
  BY <1>3, RecursionInSet
<1>5. g[0] = 0 /\ \A d \in 0..n : g[d] \in Int
  BY <1>4 DEF s, V
<1>6. ASSUME NEW k \in 1..n
      PROVE  g[k] = g[k - 1] + w[k]
  <2>1. k - 1 \in 0..n
    OBVIOUS
  <2> QED
    BY <1>1, <1>4, <1>5, <2>1
<1>7. \A k \in 0..n : g[k] = IF k = 0 THEN 0 ELSE g[k - 1] + w[k]
  <2>1. \A k \in 0..n : k # 0 => k \in 1..n
    OBVIOUS
  <2> QED
    BY <1>5, <1>6, <2>1
<1>8. g = [k \in 0..n |-> IF k = 0 THEN 0 ELSE g[k - 1] + w[k]]
  BY <1>4, <1>7
<1> QED
  BY <1>5, <1>8 DEF RunningSum

LEMMA RunningSumIsUnique ==
  ASSUME NEW w, NEW n \in Nat, NEW m \in Nat, n <= m,
         NEW g, RunningSum(g, w, n), NEW h, RunningSum(h, w, m)
  PROVE  \A k \in 0..n : g[k] = h[k]
<1> DEFINE S == {k \in Nat : k \in 0..n => g[k] = h[k]}
<1>1. \A k \in 0..n : /\ g[k] = IF k = 0 THEN 0 ELSE g[k - 1] + w[k]
                      /\ h[k] = IF k = 0 THEN 0 ELSE h[k - 1] + w[k]
  <2>1. \A k \in 0..n : k \in 0..m
    OBVIOUS
  <2> QED
    BY <2>1 DEF RunningSum
<1>2. 0 \in S
  BY <1>1
<1>3. ASSUME NEW k \in Nat, k \in S
      PROVE  k + 1 \in S
  <2> SUFFICES ASSUME k + 1 \in 0..n PROVE g[k + 1] = h[k + 1]
    OBVIOUS
  <2>1. k \in 0..n /\ k + 1 # 0 /\ (k + 1) - 1 = k
    OBVIOUS
  <2> QED
    BY <1>1, <1>3, <2>1
<1> QED
  <2> HIDE DEF S
  <2>1. Nat \subseteq S
    BY <1>2, <1>3, NaturalsInSet
  <2> QED
    BY <2>1 DEF S

\* A sum is what its definition says.
LEMMA SumToFacts ==
  ASSUME NEW w, NEW n \in Nat, \A k \in 1..n : w[k] \in Int
  PROVE  /\ SumTo(w, 0) = 0
         /\ \A k \in 0..n : SumTo(w, k) \in Int
         /\ \A k \in 1..n : SumTo(w, k) = SumTo(w, k - 1) + w[k]
<1> DEFINE sum(m) == CHOOSE g : g = [k \in 0..m |-> IF k = 0 THEN 0 ELSE g[k - 1] + w[k]]
<1>1. \A m : SumTo(w, m) = sum(m)[m]
  BY DEF SumTo
<1>2. \A m \in 0..n : RunningSum(sum(m), w, m)
  <2> SUFFICES ASSUME NEW m \in 0..n PROVE RunningSum(sum(m), w, m)
    OBVIOUS
  <2>1. m \in Nat /\ \A k \in 1..m : w[k] \in Int
    OBVIOUS
  <2>2. \E g : RunningSum(g, w, m)
    BY <2>1, RunningSumExists
  <2> QED
    BY <2>2 DEF RunningSum
<1> HIDE DEF sum
<1>3. PICK g : RunningSum(g, w, n) /\ \A k \in 0..n : g[k] \in Int
  BY RunningSumExists
<1>4. ASSUME NEW k \in 0..n
      PROVE  SumTo(w, k) = g[k]
  <2>1. k \in Nat /\ k <= n /\ k \in 0..k
    OBVIOUS
  <2>2. RunningSum(sum(k), w, k)
    BY <1>2
  <2>3. \A j \in 0..k : sum(k)[j] = g[j]
    BY <1>3, <2>1, <2>2, RunningSumIsUnique
  <2> QED
    BY <1>1, <2>1, <2>3
<1>5. \A k \in 0..n : g[k] = IF k = 0 THEN 0 ELSE g[k - 1] + w[k]
  BY <1>3 DEF RunningSum
<1>6. \A k \in 1..n : k \in 0..n /\ k - 1 \in 0..n /\ k # 0
  OBVIOUS
<1>7. 0 \in 0..n
  OBVIOUS
<1> QED
  BY <1>3, <1>4, <1>5, <1>6, <1>7

\* A sum of naturals is a natural and grows.
LEMMA SumToGrows ==
  ASSUME NEW w, NEW n \in Nat, \A k \in 1..n : w[k] \in Nat
  PROVE  \A j, k \in 0..n : j <= k => SumTo(w, j) <= SumTo(w, k) /\ SumTo(w, j) \in Nat
<1>1. /\ SumTo(w, 0) = 0
      /\ \A k \in 0..n : SumTo(w, k) \in Int
      /\ \A k \in 1..n : SumTo(w, k) = SumTo(w, k - 1) + w[k]
  BY SumToFacts, SMTT(20)
<1> DEFINE S == {k \in Nat : k \in 0..n => \A j \in 0..k : SumTo(w, j) <= SumTo(w, k)}
<1>2. 0 \in S
  BY <1>1
<1>3. ASSUME NEW k \in Nat, k \in S
      PROVE  k + 1 \in S
  <2> SUFFICES ASSUME k + 1 \in 0..n, NEW j \in 0..(k + 1)
               PROVE  SumTo(w, j) <= SumTo(w, k + 1)
    OBVIOUS
  <2>1. k \in 0..n /\ k + 1 \in 1..n /\ j \in 0..n /\ (k + 1) - 1 = k
    OBVIOUS
  <2>2. SumTo(w, k + 1) = SumTo(w, k) + w[k + 1] /\ w[k + 1] \in Nat
    BY <1>1, <2>1
  <2>3. SumTo(w, j) \in Int /\ SumTo(w, k) \in Int
    BY <1>1, <2>1
  <2>4. CASE j = k + 1
    BY <1>1, <2>1, <2>4
  <2>5. CASE j \in 0..k
    <3>1. SumTo(w, j) <= SumTo(w, k)
      BY <1>3, <2>1, <2>5
    <3> QED
      BY <2>2, <2>3, <3>1
  <2> QED
    BY <2>4, <2>5
<1>4. Nat \subseteq S
  <2> HIDE DEF S
  <2> QED
    BY <1>2, <1>3, NaturalsInSet
<1>5. ASSUME NEW j \in 0..n, NEW k \in 0..n, j <= k
      PROVE  SumTo(w, j) <= SumTo(w, k)
  <2>1. k \in S /\ j \in 0..k
    BY <1>4, <1>5
  <2> QED
    BY <2>1
<1>6. \A j \in 0..n : 0 \in 0..n /\ 0 <= j
  OBVIOUS
<1>7. \A j \in 0..n : SumTo(w, j) \in Nat
  BY <1>1, <1>5, <1>6
<1> QED
  BY <1>5, <1>7

\* Only w[1] .. w[n] matter.
LEMMA SumToDependsOn ==
  ASSUME NEW w, NEW v, NEW n \in Nat, \A k \in 1..n : w[k] \in Int /\ v[k] = w[k]
  PROVE  SumTo(v, n) = SumTo(w, n)
<1> DEFINE S == {k \in Nat : k \in 0..n => SumTo(v, k) = SumTo(w, k)}
<1>1. /\ SumTo(w, 0) = 0 /\ SumTo(v, 0) = 0
      /\ \A k \in 1..n : /\ SumTo(w, k) = SumTo(w, k - 1) + w[k]
                         /\ SumTo(v, k) = SumTo(v, k - 1) + v[k]
  BY SumToFacts
<1>2. 0 \in S
  BY <1>1
<1>3. ASSUME NEW k \in Nat, k \in S
      PROVE  k + 1 \in S
  <2> SUFFICES ASSUME k + 1 \in 0..n PROVE SumTo(v, k + 1) = SumTo(w, k + 1)
    OBVIOUS
  <2>1. k \in 0..n /\ k + 1 \in 1..n /\ (k + 1) - 1 = k
    OBVIOUS
  <2> QED
    BY <1>1, <1>3, <2>1
<1> QED
  <2> HIDE DEF S
  <2>1. Nat \subseteq S
    BY <1>2, <1>3, NaturalsInSet
  <2> QED
    BY <2>1 DEF S

\* Whatever is counted in 1 .. w[1] + ... + w[n] is counted in one of the summands.
LEMMA SumToLocates ==
  ASSUME NEW w, NEW n \in Nat, \A k \in 1..n : w[k] \in Nat
  PROVE  \A x \in 1..SumTo(w, n) : \E k \in 1..n : \E i \in 1..w[k] :
           x = SumTo(w, k - 1) + i
<1>1. /\ SumTo(w, 0) = 0
      /\ \A k \in 0..n : SumTo(w, k) \in Nat
      /\ \A k \in 1..n : SumTo(w, k) = SumTo(w, k - 1) + w[k]
  BY SumToFacts, SumToGrows
<1> DEFINE Located(x, m) == \E k \in 1..m : \E i \in 1..w[k] : x = SumTo(w, k - 1) + i
           S == {m \in Nat : m \in 0..n => \A x \in 1..SumTo(w, m) : Located(x, m)}
<1>2. 0 \in S
  BY <1>1
<1>3. ASSUME NEW m \in Nat, m \in S
      PROVE  m + 1 \in S
  <2> SUFFICES ASSUME m + 1 \in 0..n, NEW x \in 1..SumTo(w, m + 1)
               PROVE  Located(x, m + 1)
    OBVIOUS
  <2>1. m \in 0..n /\ m + 1 \in 1..n /\ (m + 1) - 1 = m
    OBVIOUS
  <2>2. SumTo(w, m + 1) = SumTo(w, m) + w[m + 1] /\ SumTo(w, m) \in Nat /\ w[m + 1] \in Nat
    BY <1>1, <2>1
  <2>3. CASE x \in 1..SumTo(w, m)
    <3>1. PICK k \in 1..m : \E i \in 1..w[k] : x = SumTo(w, k - 1) + i
      BY <1>3, <2>1, <2>3
    <3>2. k \in 1..(m + 1)
      OBVIOUS
    <3> QED
      BY <3>1, <3>2
  <2>4. CASE x \notin 1..SumTo(w, m)
    <3>1. x - SumTo(w, m) \in 1..w[m + 1] /\ x = SumTo(w, m) + (x - SumTo(w, m))
      BY <2>2, <2>4
    <3>2. m + 1 \in 1..(m + 1)
      OBVIOUS
    <3> QED
      BY <2>1, <3>1, <3>2
  <2> QED
    BY <2>3, <2>4
<1>4. n \in S
  <2> HIDE DEF S
  <2>1. Nat \subseteq S
    BY <1>2, <1>3, NaturalsInSet
  <2> QED
    BY <2>1
<1> QED
  BY <1>4

-----------------------------------------------------------------------------
(* Sequences of sequences *)

Lengths(ss) == [k \in 1..Len(ss) |-> Len(ss[k])]

\* g[k] is ss[1] \o ... \o ss[k].
Concatenations(g, ss) ==
  g = [k \in 0..Len(ss) |-> IF k = 0 THEN <<>> ELSE g[k - 1] \o ss[k]]

LEMMA ConcatenationsExist ==
  ASSUME NEW S, NEW ss \in Seq(Seq(S))
  PROVE  \E g : Concatenations(g, ss) /\ \A k \in 0..Len(ss) : g[k] \in Seq(S)
<1> DEFINE n == Len(ss)
           V == Seq(S)
           F == [x \in (1..n) \X V |-> x[2] \o ss[x[1]]]
           s == <<>>
<1>1. n \in Nat /\ \A d \in 1..n : ss[d] \in V
  OBVIOUS
<1>2. \A d \in 1..n, v \in V : F[<<d, v>>] = v \o ss[d]
  OBVIOUS
<1>3. \A d \in 1..n, v \in V : v \o ss[d] \in V
  BY <1>1
<1>4. Keeps(V, F, n) /\ s \in V
  <2>1. s \in V
    OBVIOUS
  <2> HIDE DEF F, V, s, n
  <2> QED
    BY <1>2, <1>3, <2>1 DEF Keeps
<1> HIDE DEF F, V, s, n
<1>5. PICK g : /\ DOMAIN g = 0..n /\ g[0] = s /\ g = [d \in 0..n |-> g[d]]
               /\ \A d \in 0..n : g[d] \in V
               /\ \A d \in 1..n : g[d] = F[<<d, g[d - 1]>>]
  BY <1>1, <1>4, RecursionInSet
<1>6. ASSUME NEW k \in 1..n
      PROVE  g[k] = g[k - 1] \o ss[k]
  <2>1. k - 1 \in 0..n
    BY <1>1
  <2> QED
    BY <1>2, <1>5, <2>1
<1>7. \A k \in 0..n : g[k] = IF k = 0 THEN <<>> ELSE g[k - 1] \o ss[k]
  <2>1. \A k \in 0..n : k # 0 => k \in 1..n
    BY <1>1
  <2>2. g[0] = <<>>
    BY <1>5 DEF s
  <2> QED
    BY <1>6, <2>1, <2>2
<1>8. g = [k \in 0..n |-> IF k = 0 THEN <<>> ELSE g[k - 1] \o ss[k]]
  BY <1>5, <1>7
<1> QED
  BY <1>5, <1>8 DEF Concatenations, n, V

LEMMA ConcatenationFacts ==
  ASSUME NEW S, NEW s \in Seq(S), NEW t \in Seq(S)
  PROVE  /\ s \o t \in Seq(S)
         /\ Len(s \o t) = Len(s) + Len(t)
         /\ \A i \in 1..Len(s) : i \in 1..Len(s \o t) /\ (s \o t)[i] = s[i]
         /\ \A i \in 1..Len(t) : Len(s) + i \in 1..Len(s \o t) /\ (s \o t)[Len(s) + i] = t[i]
OBVIOUS

LEMMA FlattenIsConcatenation ==
  ASSUME NEW S, NEW ss \in Seq(Seq(S)), NEW g, Concatenations(g, ss)
  PROVE  FlattenSeq(ss) = g[Len(ss)]
<1> DEFINE n == Len(ss)
<1>1. \A k \in 0..n : g[k] = IF k = 0 THEN <<>> ELSE g[k - 1] \o ss[k]
  BY DEF Concatenations
<1>2. n \in Nat
  OBVIOUS
<1>3. CASE n = 0
  <2>1. FlattenSeq(ss) = ss /\ ss = <<>>
    BY <1>3 DEF FlattenSeq
  <2>2. g[0] = <<>>
    BY <1>1, <1>3
  <2> QED
    BY <1>3, <2>1, <2>2
<1>4. CASE n # 0
  <2> DEFINE flatten == CHOOSE f : f = [i \in 1..n |-> IF i = 1 THEN ss[i] ELSE f[i - 1] \o ss[i]]
             h == [i \in 1..n |-> g[i]]
  <2>1. FlattenSeq(ss) = flatten[n]
    BY <1>4 DEF FlattenSeq
  <2>2. h = [i \in 1..n |-> IF i = 1 THEN ss[i] ELSE h[i - 1] \o ss[i]]
    <3>1. ASSUME NEW i \in 1..n
          PROVE  h[i] = IF i = 1 THEN ss[i] ELSE h[i - 1] \o ss[i]
      <4>1. i \in 0..n /\ i # 0 /\ h[i] = g[i]
        OBVIOUS
      <4>2. h[i] = g[i - 1] \o ss[i]
        BY <1>1, <4>1
      <4>3. CASE i = 1
        <5>1. g[0] = <<>>
          <6>1. 0 \in 0..n
            BY <1>2
          <6> QED
            BY <1>1, <6>1
        <5>2. <<>> \o ss[i] = ss[i]
          OBVIOUS
        <5>3. i - 1 = 0
          BY <4>3
        <5> HIDE DEF h
        <5> QED
          BY <4>2, <4>3, <5>1, <5>2, <5>3
      <4>4. CASE i # 1
        <5>1. i - 1 \in 1..n
          BY <4>4
        <5> QED
          BY <4>2, <4>4, <5>1
      <4> QED
        BY <4>3, <4>4
    <3>2. h = [i \in 1..n |-> h[i]]
      OBVIOUS
    <3> HIDE DEF h
    <3> QED
      BY <3>1, <3>2
  <2> HIDE DEF h
  <2>3. flatten = [i \in 1..n |-> IF i = 1 THEN ss[i] ELSE flatten[i - 1] \o ss[i]]
    BY <2>2
  <2> HIDE DEF flatten
  <2> DEFINE T == {k \in Nat : k \in 1..n => flatten[k] = g[k]}
  <2>4. 0 \in T
    OBVIOUS
  <2>5. ASSUME NEW k \in Nat, k \in T
        PROVE  k + 1 \in T
    <3> SUFFICES ASSUME k + 1 \in 1..n PROVE flatten[k + 1] = g[k + 1]
      OBVIOUS
    <3>1. /\ k + 1 \in 0..n /\ k + 1 # 0 /\ (k + 1) - 1 = k
          /\ k = 0 \/ k \in 1..n
      BY <1>2
    <3>2. g[k + 1] = g[k] \o ss[k + 1]
      BY <1>1, <3>1
    <3>3. CASE k = 0
      <4>1. g[0] = <<>>
        BY <1>1, <1>2
      <4>2. <<>> \o ss[1] = ss[1]
        BY <3>3
      <4>3. flatten[1] = ss[1]
        BY <2>3, <3>3
      <4> QED
        BY <3>2, <3>3, <4>1, <4>2, <4>3
    <3>4. CASE k \in 1..n
      <4>1. flatten[k + 1] = flatten[k] \o ss[k + 1]
        <5>1. k + 1 # 1
          BY <3>4
        <5> QED
          BY <2>3, <3>1, <5>1
      <4> QED
        BY <2>5, <3>2, <3>4, <4>1
    <3> QED
      BY <3>1, <3>3, <3>4
  <2>6. n \in T
    <3> HIDE DEF T
    <3> QED
      BY <1>2, <2>4, <2>5, NaturalsInSet
  <2>7. n \in 1..n
    BY <1>2, <1>4
  <2> QED
    BY <2>1, <2>6, <2>7
<1> QED
  BY <1>3, <1>4

\* Flattening keeps what is in the sequences and their order.
LEMMA FlattenFacts ==
  ASSUME NEW S, NEW ss \in Seq(Seq(S))
  PROVE  /\ FlattenSeq(ss) \in Seq(S)
         /\ Len(FlattenSeq(ss)) = SumTo(Lengths(ss), Len(ss))
         /\ \A k \in 1..Len(ss) : \A i \in 1..Len(ss[k]) :
              FlattenSeq(ss)[SumTo(Lengths(ss), k - 1) + i] = ss[k][i]
<1> DEFINE n == Len(ss)
           w == Lengths(ss)
<1>1. n \in Nat /\ \A k \in 1..n : ss[k] \in Seq(S) /\ w[k] = Len(ss[k]) /\ w[k] \in Nat
  BY DEF Lengths
<1>2. PICK g : Concatenations(g, ss) /\ \A k \in 0..n : g[k] \in Seq(S)
  BY ConcatenationsExist
<1>3. \A k \in 0..n : g[k] = IF k = 0 THEN <<>> ELSE g[k - 1] \o ss[k]
  BY <1>2 DEF Concatenations
<1> HIDE DEF w
<1>4. /\ SumTo(w, 0) = 0
      /\ \A k \in 0..n : SumTo(w, k) \in Nat
      /\ \A k \in 1..n : SumTo(w, k) = SumTo(w, k - 1) + w[k]
  <2>1. \A k \in 1..n : w[k] \in Nat /\ w[k] \in Int
    BY <1>1
  <2> HIDE DEF n
  <2>2. \A k \in 0..n : k <= n /\ n \in 0..n
    BY <1>1
  <2> QED
    BY <1>1, <2>1, <2>2, SumToFacts, SumToGrows
<1> DEFINE Flat(m) == /\ Len(g[m]) = SumTo(w, m)
                      /\ \A k \in 1..m : \A i \in 1..Len(ss[k]) :
                           /\ SumTo(w, k - 1) + i \in 1..Len(g[m])
                           /\ g[m][SumTo(w, k - 1) + i] = ss[k][i]
           T == {m \in Nat : m \in 0..n => Flat(m)}
<1>5. 0 \in T
  <2>1. g[0] = <<>>
    BY <1>1, <1>3
  <2> QED
    BY <1>4, <2>1
<1>6. ASSUME NEW m \in Nat, m \in T
      PROVE  m + 1 \in T
  <2> SUFFICES ASSUME m + 1 \in 0..n PROVE Flat(m + 1)
    OBVIOUS
  <2>1. m \in 0..n /\ m + 1 \in 1..n /\ m + 1 # 0 /\ (m + 1) - 1 = m
    BY <1>1
  <2>2. g[m + 1] = g[m] \o ss[m + 1] /\ g[m] \in Seq(S) /\ ss[m + 1] \in Seq(S)
    BY <1>1, <1>2, <1>3, <2>1
  <2>3. Flat(m)
    BY <1>6, <2>1
  <2>4. /\ Len(g[m]) = SumTo(w, m) /\ SumTo(w, m) \in Nat
        /\ SumTo(w, m + 1) = SumTo(w, m) + w[m + 1] /\ w[m + 1] = Len(ss[m + 1])
    BY <1>1, <1>4, <2>1, <2>3
  <2> DEFINE s == g[m]
             t == ss[m + 1]
  <2>7. /\ Len(g[m + 1]) = Len(s) + Len(t)
        /\ \A i \in 1..Len(s) : i \in 1..Len(g[m + 1]) /\ g[m + 1][i] = s[i]
        /\ \A i \in 1..Len(t) : /\ Len(s) + i \in 1..Len(g[m + 1])
                               /\ g[m + 1][Len(s) + i] = t[i]
    <3>1. s \in Seq(S) /\ t \in Seq(S) /\ g[m + 1] = s \o t
      BY <2>2
    <3> HIDE DEF s, t
    <3>2. /\ Len(s \o t) = Len(s) + Len(t)
          /\ \A i \in 1..Len(s) : i \in 1..Len(s \o t) /\ (s \o t)[i] = s[i]
          /\ \A i \in 1..Len(t) : /\ Len(s) + i \in 1..Len(s \o t)
                                 /\ (s \o t)[Len(s) + i] = t[i]
      BY <3>1, ConcatenationFacts
    <3> QED
      BY <3>1, <3>2
  <2>5. Len(g[m + 1]) = SumTo(w, m + 1)
    BY <2>4, <2>7
  <2>6. ASSUME NEW k \in 1..(m + 1), NEW i \in 1..Len(ss[k])
        PROVE  /\ SumTo(w, k - 1) + i \in 1..Len(g[m + 1])
               /\ g[m + 1][SumTo(w, k - 1) + i] = ss[k][i]
    <3>1. CASE k \in 1..m
      <4>1. SumTo(w, k - 1) + i \in 1..Len(g[m]) /\ g[m][SumTo(w, k - 1) + i] = ss[k][i]
        BY <2>3, <3>1
      <4> QED
        BY <2>7, <4>1
    <3>2. CASE k = m + 1
      <4>1. SumTo(w, k - 1) + i = Len(g[m]) + i /\ i \in 1..Len(ss[m + 1])
        BY <2>1, <2>4, <3>2
      <4> QED
        BY <2>7, <3>2, <4>1
    <3> QED
      BY <3>1, <3>2
  <2> QED
    BY <2>5, <2>6
<1>7. n \in T
  <2> HIDE DEF T
  <2> QED
    BY <1>1, <1>5, <1>6, NaturalsInSet
<1>8. Flat(n) /\ g[n] \in Seq(S)
  BY <1>1, <1>2, <1>7
<1>9. FlattenSeq(ss) = g[n]
  BY <1>2, FlattenIsConcatenation
<1> QED
  BY <1>8, <1>9 DEF w

-----------------------------------------------------------------------------
(* What is counted below a bound *)

\* Cardinality of an initial part that grows by one element at most.
LEMMA CountedNext ==
  ASSUME NEW S, NEW j \in Nat, NEW n \in Nat, j < n
  PROVE  LET above == {m \in (j + 1)..n : m \in S}
             rest == {m \in (j + 2)..n : m \in S}
         IN  /\ Cardinality(above) \in Nat /\ Cardinality(rest) \in Nat
             /\ Cardinality(above) = Cardinality(rest) + (IF j + 1 \in S THEN 1 ELSE 0)
<1> DEFINE above == {m \in (j + 1)..n : m \in S}
           rest == {m \in (j + 2)..n : m \in S}
<1>1. IsFiniteSet((j + 1)..n) /\ IsFiniteSet((j + 2)..n)
  BY FS_Interval
<1>2. IsFiniteSet(above) /\ IsFiniteSet(rest)
  BY <1>1, FS_Subset
<1>3. Cardinality(above) \in Nat /\ Cardinality(rest) \in Nat
  BY <1>2, FS_CardinalityType
<1>4. CASE j + 1 \in S
  <2>1. above = rest \cup {j + 1} /\ j + 1 \notin rest
    BY <1>4
  <2>2. Cardinality(above) = Cardinality(rest) + 1
    <3> HIDE DEF above, rest
    <3> QED
      BY <1>2, <2>1, FS_AddElement
  <2> QED
    BY <1>3, <1>4, <2>2
<1>5. CASE j + 1 \notin S
  <2>1. above = rest
    BY <1>5
  <2> QED
    BY <1>3, <1>5, <2>1
<1> QED
  BY <1>4, <1>5

-----------------------------------------------------------------------------
(* Least elements by counting up, and two increasing lists of one set *)

\* Two increasing functions on 0 .. n with the same values are the same.
LEMMA IncreasingIsUnique ==
  ASSUME NEW n \in Nat, NEW a \in [0..n -> Nat], NEW e \in [0..n -> Nat],
         \A j, k \in 0..n : j < k => a[j] < a[k] /\ e[j] < e[k],
         \A k \in 0..n : (\E j \in 0..n : a[k] = e[j]) /\ (\E j \in 0..n : e[k] = a[j])
  PROVE  \A k \in 0..n : a[k] = e[k]
<1> DEFINE D == {k \in 0..n : a[k] # e[k]}
<1>1. SUFFICES ASSUME D # {} PROVE FALSE
  OBVIOUS
<1>2. D \subseteq Nat
  OBVIOUS
<1>3. PICK k \in D : \A m \in D : k <= m
  <2> HIDE DEF D
  <2> QED
    BY <1>1, <1>2, LeastNatural
<1>4. k \in 0..n /\ a[k] # e[k] /\ a[k] \in Nat /\ e[k] \in Nat
  OBVIOUS
<1>5. \A j \in 0..n : j < k => a[j] = e[j]
  BY <1>3
<1>6. CASE a[k] < e[k]
  <2>1. PICK j \in 0..n : a[k] = e[j]
    BY <1>4
  <2>2. e[j] \in Nat
    OBVIOUS
  <2>3. ~(k < j) /\ j # k
    <3> HIDE DEF D
    <3>1. k < j => e[k] < e[j]
      BY <1>4
    <3>2. k < j => e[k] < a[k]
      BY <2>1, <3>1
    <3>3. ~(k < j)
      BY <1>4, <1>6, <3>2
    <3> QED
      BY <1>4, <2>1, <3>3
  <2>4. j < k
    BY <1>4, <2>3
  <2>5. a[j] = e[j] /\ a[j] < a[k]
    BY <1>4, <1>5, <2>4
  <2> QED
    BY <1>4, <2>1, <2>5
<1>7. CASE e[k] < a[k]
  <2>1. PICK j \in 0..n : e[k] = a[j]
    BY <1>4
  <2>2. a[j] \in Nat
    OBVIOUS
  <2>3. ~(k < j) /\ j # k
    <3> HIDE DEF D
    <3>1. k < j => a[k] < a[j]
      BY <1>4
    <3>2. k < j => a[k] < e[k]
      BY <2>1, <3>1
    <3>3. ~(k < j)
      BY <1>4, <1>7, <3>2
    <3> QED
      BY <1>4, <2>1, <3>3
  <2>4. j < k
    BY <1>4, <2>3
  <2>5. a[j] = e[j] /\ e[j] < e[k]
    BY <1>4, <1>5, <2>4
  <2> QED
    BY <1>4, <2>1, <2>5
<1> QED
  BY <1>4, <1>6, <1>7

-----------------------------------------------------------------------------
(* Powers of two *)

Powers(g, n) == g = [k \in 0..n |-> IF k = 0 THEN 1 ELSE 2 * g[k - 1]]

LEMMA PowersExist ==
  ASSUME NEW n \in Nat
  PROVE  \E g : Powers(g, n) /\ \A k \in 0..n : g[k] \in Nat \ {0}
<1> DEFINE V == Nat \ {0}
           F == [x \in (1..n) \X V |-> 2 * x[2]]
           s == 1
<1>1. \A d \in 1..n, v \in V : F[<<d, v>>] = 2 * v
  OBVIOUS
<1>2. \A v \in V : 2 * v \in V
  OBVIOUS
<1>3. Keeps(V, F, n) /\ s \in V
  <2> HIDE DEF F
  <2> QED
    BY <1>1, <1>2 DEF Keeps
<1> HIDE DEF F, V, s
<1>4. PICK g : /\ DOMAIN g = 0..n /\ g[0] = s /\ g = [d \in 0..n |-> g[d]]
               /\ \A d \in 0..n : g[d] \in V
               /\ \A d \in 1..n : g[d] = F[<<d, g[d - 1]>>]
  BY <1>3, RecursionInSet
<1>5. ASSUME NEW k \in 1..n
      PROVE  g[k] = 2 * g[k - 1]
  <2>1. k - 1 \in 0..n
    OBVIOUS
  <2> QED
    BY <1>1, <1>4, <2>1
<1>6. \A k \in 0..n : g[k] = IF k = 0 THEN 1 ELSE 2 * g[k - 1]
  <2>1. \A k \in 0..n : k # 0 => k \in 1..n
    OBVIOUS
  <2> QED
    BY <1>4, <1>5, <2>1 DEF s
<1>7. g = [k \in 0..n |-> IF k = 0 THEN 1 ELSE 2 * g[k - 1]]
  BY <1>4, <1>6
<1> QED
  BY <1>4, <1>7 DEF Powers, V

LEMMA PowersAreUnique ==
  ASSUME NEW n \in Nat, NEW m \in Nat, n <= m,
         NEW g, Powers(g, n), NEW h, Powers(h, m)
  PROVE  \A k \in 0..n : g[k] = h[k]
<1> DEFINE S == {k \in Nat : k \in 0..n => g[k] = h[k]}
<1>1. \A k \in 0..n : /\ g[k] = IF k = 0 THEN 1 ELSE 2 * g[k - 1]
                      /\ h[k] = IF k = 0 THEN 1 ELSE 2 * h[k - 1]
  <2>1. \A k \in 0..n : k \in 0..m
    OBVIOUS
  <2> QED
    BY <2>1 DEF Powers
<1>2. 0 \in S
  BY <1>1
<1>3. ASSUME NEW k \in Nat, k \in S
      PROVE  k + 1 \in S
  <2> SUFFICES ASSUME k + 1 \in 0..n PROVE g[k + 1] = h[k + 1]
    OBVIOUS
  <2>1. k \in 0..n /\ k + 1 # 0 /\ (k + 1) - 1 = k
    OBVIOUS
  <2> QED
    BY <1>1, <1>3, <2>1
<1> QED
  <2> HIDE DEF S
  <2>1. Nat \subseteq S
    BY <1>2, <1>3, NaturalsInSet
  <2> QED
    BY <2>1 DEF S

\* Powers are positive, double and grow.
LEMMA TwoToFacts ==
  ASSUME NEW n \in Nat
  PROVE  /\ TwoTo(n) \in Nat \ {0}
         /\ TwoTo(n + 1) = 2 * TwoTo(n)
<1> DEFINE power(m) == CHOOSE g : g = [k \in 0..m |-> IF k = 0 THEN 1 ELSE 2 * g[k - 1]]
<1>1. \A m : TwoTo(m) = power(m)[m]
  BY DEF TwoTo
<1>2. \A m \in Nat : Powers(power(m), m)
  BY PowersExist DEF Powers
<1> HIDE DEF power
<1>3. PICK g : Powers(g, n + 1) /\ \A k \in 0..(n + 1) : g[k] \in Nat \ {0}
  <2>1. n + 1 \in Nat
    OBVIOUS
  <2> QED
    BY <2>1, PowersExist
<1>4. ASSUME NEW k \in 0..(n + 1)
      PROVE  TwoTo(k) = g[k]
  <2>1. k \in Nat /\ n + 1 \in Nat /\ k <= n + 1 /\ k \in 0..k
    OBVIOUS
  <2>2. Powers(power(k), k)
    BY <1>2, <2>1
  <2>3. \A j \in 0..k : power(k)[j] = g[j]
    BY <1>3, <2>1, <2>2, PowersAreUnique
  <2> QED
    BY <1>1, <2>1, <2>3
<1>5. g[n + 1] = 2 * g[n]
  <2>1. n + 1 \in 0..(n + 1) /\ n + 1 # 0 /\ (n + 1) - 1 = n
    OBVIOUS
  <2>2. g[n + 1] = IF n + 1 = 0 THEN 1 ELSE 2 * g[(n + 1) - 1]
    BY <1>3, <2>1 DEF Powers
  <2> QED
    BY <2>1, <2>2
<1>6. n \in 0..(n + 1) /\ n + 1 \in 0..(n + 1)
  OBVIOUS
<1> QED
  BY <1>3, <1>4, <1>5, <1>6

LEMMA TwoToGrows ==
  ASSUME NEW m \in Nat, NEW n \in Nat, m <= n
  PROVE  TwoTo(m) <= TwoTo(n)
<1> DEFINE S == {k \in Nat : TwoTo(m) <= TwoTo(m + k)}
<1>1. 0 \in S
  <2>1. m + 0 = m /\ TwoTo(m) \in Nat
    BY TwoToFacts
  <2> QED
    BY <2>1
<1>2. ASSUME NEW k \in Nat, k \in S
      PROVE  k + 1 \in S
  <2>1. m + k \in Nat /\ m + (k + 1) = (m + k) + 1
    OBVIOUS
  <2>2. /\ TwoTo(m + (k + 1)) = 2 * TwoTo(m + k)
        /\ TwoTo(m + k) \in Nat /\ TwoTo(m) \in Nat
    BY <2>1, TwoToFacts
  <2>3. TwoTo(m) <= TwoTo(m + k)
    BY <1>2
  <2> QED
    BY <2>2, <2>3
<1>3. n - m \in Nat /\ m + (n - m) = n
  OBVIOUS
<1>4. Nat \subseteq S
  <2> HIDE DEF S
  <2> QED
    BY <1>1, <1>2, NaturalsInSet
<1>5. TwoTo(m) <= TwoTo(m + (n - m))
  BY <1>3, <1>4
<1> QED
  BY <1>3, <1>5

=============================================================================

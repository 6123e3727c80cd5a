----------------------------- MODULE Induction -----------------------------
(***************************************************************************)
(* Induction on the natural numbers, and what the proofs need of sums,     *)
(* counts, loops and joined lists.                                         *)
(***************************************************************************)
EXTENDS Integers, Sequences, SequencesExt, FiniteSetTheorems, WellFoundedInduction, TLAPS

\* Induction on a set of numbers, from the well-founded order of finite sets: what
\* the library states for predicates needs an operator as a parameter.
LEMMA Least ==
  ASSUME NEW T \in SUBSET Nat, T # {}
  PROVE  \E n \in T : \A m \in T : n <= m
<1> DEFINE S == {1..n : n \in T}
<1>1. S # {} /\ S \subseteq FiniteSubsetsOf(Nat)
  <2>1. \A n \in T : 1..n \subseteq Nat /\ IsFiniteSet(1..n)
    BY FS_Interval
  <2> QED
    BY <2>1 DEF FiniteSubsetsOf
<1>2. PICK x \in S : \A y \in S : ~(<<y, x>> \in StrictSubsetOrdering(Nat))
  <2> HIDE DEF S
  <2> QED
    BY <1>1, FS_StrictSubsetOrderingWellFounded, WFMin
<1>3. PICK n \in T : x = 1..n
  BY <1>2
<1>4. ASSUME NEW m \in T, m < n PROVE FALSE
  <2>1. 1..m \in S
    OBVIOUS
  <2>2. 1..m \subseteq 1..n /\ 1..m # 1..n
    <3>1. n \in 1..n /\ n \notin 1..m
      BY <1>4
    <3> QED
      BY <3>1, <1>4
  <2>3. <<1..m, 1..n>> \in StrictSubsetOrdering(Nat)
    BY <2>2 DEF StrictSubsetOrdering
  <2> QED
    BY <1>2, <1>3, <2>1, <2>3
<1> QED
  BY <1>4

LEMMA Greatest ==
  ASSUME NEW n \in Nat, NEW T \in SUBSET (1..n), T # {}
  PROVE  \E m \in T : \A x \in T : m >= x
<1> DEFINE Over == {m \in Nat : \A x \in T : m >= x}
<1>1. n \in Over
  OBVIOUS
<1>2. PICK m \in Over : \A k \in Over : m <= k
  BY <1>1, Least
<1>3. CASE m \in T
  BY <1>2, <1>3
<1>4. CASE m \notin T
  <2>1. \A x \in T : x \in Nat \ {0} /\ m > x
    BY <1>2, <1>4
  <2>2. PICK t \in T : t \in Nat \ {0} /\ m > t
    BY <2>1
  <2>3. m - 1 \in Nat /\ \A x \in T : m - 1 >= x
    BY <1>2, <2>1, <2>2
  <2> QED
    BY <1>2, <2>3
<1> QED
  BY <1>3, <1>4

LEMMA Induct ==
  ASSUME NEW S, 0 \in S, \A n \in Nat : n \in S => n + 1 \in S
  PROVE  Nat \subseteq S
<1> SUFFICES ASSUME Nat \ S # {} PROVE FALSE
  OBVIOUS
<1>1. PICK n \in Nat \ S : \A m \in Nat \ S : n <= m
  BY Least
<1>2. n # 0 /\ n - 1 \in Nat
  BY <1>1
<1>3. n - 1 \in S
  BY <1>1, <1>2
<1> QED
  BY <1>1, <1>2, <1>3

----------------------------------------------------------------------------
\* Sums over finite sets.  The folds of the community modules are recursive
\* functions on the subsets of D, which take out one element after the other.

Folds(g, f, c, D) ==
    g = [s \in SUBSET D |-> IF s = {} THEN 0 ELSE f[c[s]] + g[s \ {c[s]}]]

\* What all of them have in common.
Takes(g, f, c, D) ==
    /\ g = [s \in SUBSET D |-> g[s]]
    /\ g[{}] = 0
    /\ \A s \in SUBSET D : s # {} /\ g[s \ {c[s]}] \in Nat => g[s] = f[c[s]] + g[s \ {c[s]}]

\* What they come to, whichever element goes first.
IsSum(g, f, D) ==
    /\ g \in [SUBSET D -> Nat]
    /\ g[{}] = 0
    /\ \A s \in SUBSET D : \A x \in s : g[s] = f[x] + g[s \ {x}]

\* c chooses the element that goes first.
Chooses(c, D) == \A s \in SUBSET D : s # {} => c[s] \in s

\* Subsets by their size.
LEMMA Sizes ==
  ASSUME NEW D, IsFiniteSet(D), NEW s \in SUBSET D
  PROVE  /\ IsFiniteSet(s) /\ Cardinality(s) \in Nat
         /\ Cardinality(s) <= Cardinality(D)
         /\ Cardinality(s) <= 0 => s = {}
<1>1. IsFiniteSet(s) /\ Cardinality(s) \in Nat /\ Cardinality(s) <= Cardinality(D)
  BY FS_Subset, FS_CardinalityType
<1> QED
  BY <1>1, FS_EmptySet

LEMMA OneLess ==
  ASSUME NEW D, IsFiniteSet(D), NEW s \in SUBSET D, NEW x \in s,
         NEW n \in Nat, Cardinality(s) <= n + 1
  PROVE  s \ {x} \in SUBSET D /\ Cardinality(s \ {x}) <= n
<1>1. IsFiniteSet(s) /\ Cardinality(s) \in Nat
  BY Sizes
<1>2. Cardinality(s \ {x}) = Cardinality(s) - 1
  BY <1>1, FS_RemoveElement
<1> QED
  BY <1>1, <1>2

\* The recursion has a solution.
LEMMA FoldExists ==
  ASSUME NEW D, IsFiniteSet(D), NEW f \in [D -> Nat], NEW c, Chooses(c, D)
  PROVE  \E g \in [SUBSET D -> Nat] : Folds(g, f, c, D)
<1> USE DEF Chooses
<1> DEFINE Body(g, s) == IF s = {} THEN 0 ELSE f[c[s]] + g[s \ {c[s]}]
           Upto(g, n) == \A s \in SUBSET D : Cardinality(s) <= n => g[s] = Body(g, s)
           S == {n \in Nat : \E g \in [SUBSET D -> Nat] : Upto(g, n)}
<1>1. \A s \in SUBSET D : IsFiniteSet(s) /\ Cardinality(s) \in Nat
  BY FS_Subset, FS_CardinalityType
<1>2. 0 \in S
  <2> DEFINE g == [s \in SUBSET D |-> 0]
  <2>1. g \in [SUBSET D -> Nat]
    OBVIOUS
  <2>2. ASSUME NEW s \in SUBSET D, Cardinality(s) <= 0 PROVE g[s] = Body(g, s)
    <3>1. s = {}
      BY <1>1, <2>2, FS_EmptySet
    <3> QED
      BY <3>1
  <2> QED
    BY <2>1, <2>2
<1>3. ASSUME NEW n \in Nat, n \in S PROVE n + 1 \in S
  <2>1. PICK g \in [SUBSET D -> Nat] : Upto(g, n)
    BY <1>3
  <2> DEFINE h == [s \in SUBSET D |-> Body(g, s)]
  <2>2. ASSUME NEW s \in SUBSET D PROVE Body(g, s) \in Nat
    <3>1. s # {} => c[s] \in D /\ g[s \ {c[s]}] \in Nat
      BY <2>1
    <3> QED
      BY <3>1
  <2>3. h \in [SUBSET D -> Nat]
    BY <2>2
  <2>4. ASSUME NEW s \in SUBSET D, Cardinality(s) <= n + 1 PROVE h[s] = Body(h, s)
    <3>1. CASE s = {}
      BY <3>1
    <3>2. CASE s # {}
      <4> DEFINE t == s \ {c[s]}
      <4>1. t \in SUBSET D /\ Cardinality(t) <= n
        <5> HIDE DEF h, Upto, Body
        <5> QED
          BY <2>4, <3>2, OneLess
      <4>2. h[t] = g[t]
        BY <2>1, <4>1
      <4>3. h[s] = f[c[s]] + g[t]
        BY <3>2
      <4> HIDE DEF h, t
      <4>4. h[s] = f[c[s]] + h[t]
        BY <4>2, <4>3
      <4> QED
        BY <3>2, <4>4 DEF t
    <3> QED
      BY <3>1, <3>2
  <2> HIDE DEF h, Body
  <2> QED
    BY <2>3, <2>4
<1>4. Cardinality(D) \in S
  <2> HIDE DEF S
  <2> QED
    BY <1>1, <1>2, <1>3, Induct
<1>5. PICK g \in [SUBSET D -> Nat] : Upto(g, Cardinality(D))
  BY <1>4
<1>6. \A s \in SUBSET D : g[s] = Body(g, s)
  <2>1. \A s \in SUBSET D : Cardinality(s) <= Cardinality(D)
    BY FS_Subset
  <2> HIDE DEF Body
  <2> QED
    BY <1>5, <2>1
<1>7. Folds(g, f, c, D)
  <2> DEFINE h == [s \in SUBSET D |-> Body(g, s)]
  <2>1. \A s \in SUBSET D : g[s] = h[s]
    BY <1>6
  <2>2. h \in [SUBSET D -> {h[s] : s \in SUBSET D}]
    OBVIOUS
  <2>3. g = h
    <3> HIDE DEF h
    <3> QED
      BY <2>1, <2>2
  <2> QED
    BY <2>3 DEF Folds
<1> QED
  BY <1>7

\* A solution is a sum: the element taken out first does not matter.
LEMMA FoldIsSum ==
  ASSUME NEW D, IsFiniteSet(D), NEW f \in [D -> Nat], NEW c, Chooses(c, D),
         NEW g, Takes(g, f, c, D)
  PROVE  IsSum(g, f, D)
<1> USE DEF Chooses
<1>1. \A s \in SUBSET D : IsFiniteSet(s) /\ Cardinality(s) \in Nat
  BY FS_Subset, FS_CardinalityType
<1>2. /\ g[{}] = 0
      /\ \A s \in SUBSET D : s # {} /\ g[s \ {c[s]}] \in Nat => g[s] = f[c[s]] + g[s \ {c[s]}]
  BY DEF Takes
<1> DEFINE Good(s) == g[s] \in Nat /\ \A x \in s : g[s] = f[x] + g[s \ {x}]
           S == {n \in Nat : \A s \in SUBSET D : Cardinality(s) <= n => Good(s)}
<1>3. 0 \in S
  <2>1. ASSUME NEW s \in SUBSET D, Cardinality(s) <= 0 PROVE s = {}
    BY <2>1, Sizes
  <2>2. g[{}] = 0
    BY <1>2
  <2>3. Good({})
    BY <2>2
  <2> HIDE DEF Good
  <2> QED
    BY <2>1, <2>3
<1>4. ASSUME NEW n \in Nat, n \in S PROVE n + 1 \in S
  <2> SUFFICES ASSUME NEW s \in SUBSET D, Cardinality(s) <= n + 1 PROVE Good(s)
    OBVIOUS
  <2>1. CASE s = {}
    <3>1. g[{}] = 0
      BY <1>2
    <3> QED
      BY <2>1, <3>1
  <2>2. CASE s # {}
    <3> DEFINE y == c[s]
    <3>1. \A x \in s : s \ {x} \in SUBSET D /\ Cardinality(s \ {x}) <= n
      BY OneLess
    <3>2. \A x \in s : Good(s \ {x})
      BY <1>4, <3>1
    <3>3. y \in s /\ g[s] = f[y] + g[s \ {y}] /\ f[y] \in Nat
      <4>1. y \in s
        BY <2>2
      <4>2. g[s \ {y}] \in Nat
        BY <3>2, <4>1
      <4> QED
        BY <1>2, <2>2, <4>1, <4>2
    <3> HIDE DEF y
    <3>4. ASSUME NEW x \in s, x # y PROVE g[s] = f[x] + g[s \ {x}]
      <4>1. g[s \ {y}] = f[x] + g[(s \ {y}) \ {x}]
        BY <3>3, <3>2, <3>4
      <4>2. g[s \ {x}] = f[y] + g[(s \ {x}) \ {y}]
        BY <3>3, <3>2, <3>4
      <4>3. (s \ {x}) \ {y} = (s \ {y}) \ {x} /\ (s \ {x}) \ {y} \in SUBSET D
        OBVIOUS
      <4> DEFINE rest == (s \ {x}) \ {y}
      <4>4. f[x] \in Nat /\ g[rest] \in Nat
        <5>1. Cardinality(s \ {x}) <= n + 1
          BY <1>1, <3>1
        <5>2. Cardinality(rest) <= n
          BY <3>3, <3>1, <3>4, <5>1, OneLess
        <5> QED
          BY <1>4, <4>3, <5>2
      <4>5. g[s \ {y}] = f[x] + g[rest]
        BY <4>1, <4>3
      <4> HIDE DEF rest
      <4> QED
        BY <3>3, <4>2, <4>4, <4>5 DEF rest
    <3>5. g[s] \in Nat
      <4>1. g[s \ {y}] \in Nat
        BY <3>2, <3>3
      <4> HIDE DEF Good
      <4> QED
        BY <3>3, <4>1
    <3> QED
      BY <3>3, <3>4, <3>5
  <2> QED
    BY <2>1, <2>2
<1>5. \A s \in SUBSET D : Good(s)
  <2>1. Nat \subseteq S
    <3> HIDE DEF S
    <3> QED
      BY <1>3, <1>4, Induct
  <2> HIDE DEF Good
  <2>2. ASSUME NEW s \in SUBSET D PROVE Good(s)
    <3>1. Cardinality(s) \in S /\ Cardinality(s) <= Cardinality(s)
      BY <1>1, <2>1
    <3> QED
      BY <3>1
  <2> QED
    BY <2>2
<1>6. g \in [SUBSET D -> Nat]
  BY <1>5 DEF Takes
<1> QED
  BY <1>2, <1>5, <1>6 DEF IsSum

\* There is one sum for the same numbers.
LEMMA SumsAgree ==
  ASSUME NEW D, IsFiniteSet(D), NEW E, NEW f, NEW e, NEW g, NEW h,
         D \subseteq E, \A x \in D : f[x] = e[x],
         IsSum(g, f, D), IsSum(h, e, E)
  PROVE  g[D] = h[D]
<1>1. \A s \in SUBSET D : IsFiniteSet(s) /\ Cardinality(s) \in Nat
  BY FS_Subset, FS_CardinalityType
<1> DEFINE S == {n \in Nat : \A s \in SUBSET D : Cardinality(s) <= n => g[s] = h[s]}
<1>2. 0 \in S
  <2>1. ASSUME NEW s \in SUBSET D, Cardinality(s) <= 0 PROVE s = {}
    BY <2>1, Sizes
  <2> QED
    BY <2>1 DEF IsSum
<1>3. ASSUME NEW n \in Nat, n \in S PROVE n + 1 \in S
  <2> SUFFICES ASSUME NEW s \in SUBSET D, Cardinality(s) <= n + 1 PROVE g[s] = h[s]
    OBVIOUS
  <2> SUFFICES ASSUME s # {} PROVE g[s] = h[s]
    BY DEF IsSum
  <2>1. PICK x \in s : TRUE
    OBVIOUS
  <2>2. s \ {x} \in SUBSET D /\ Cardinality(s \ {x}) <= n
    BY OneLess
  <2>3. g[s \ {x}] = h[s \ {x}]
    BY <1>3, <2>2
  <2>4. g[s] = f[x] + g[s \ {x}] /\ h[s] = e[x] + h[s \ {x}]
    BY <2>1 DEF IsSum
  <2> QED
    BY <2>3, <2>4
<1>4. Cardinality(D) \in S
  <2> HIDE DEF S
  <2> QED
    BY <1>1, <1>2, <1>3, Induct
<1> QED
  BY <1>1, <1>4

\* SumFunction is such a sum.
LEMMA SumOfFunction ==
  ASSUME NEW D, IsFiniteSet(D), NEW f \in [D -> Nat]
  PROVE  \E g : IsSum(g, f, D) /\ SumFunction(f) = g[D]
<1> DEFINE first(s) == CHOOSE x \in s : TRUE
           c == [s \in SUBSET D |-> first(s)]
           G == CHOOSE g : g = [s \in SUBSET D |-> IF s = {} THEN 0
                                                   ELSE f[first(s)] + g[s \ {first(s)}]]
<1>1. Chooses(c, D)
  BY DEF Chooses
<1>2. SumFunction(f) = G[D]
  BY DEF SumFunction, SumFunctionOnSet, FoldFunctionOnSet, MapThenFoldSet
<1> HIDE DEF first
<1>3. Takes(G, f, c, D)
  <2>1. PICK g \in [SUBSET D -> Nat] : Folds(g, f, c, D)
    <3> HIDE DEF c, G
    <3> QED
      BY <1>1, FoldExists
  <2>2. g = [s \in SUBSET D |-> IF s = {} THEN 0 ELSE f[first(s)] + g[s \ {first(s)}]]
    BY <2>1 DEF Folds
  <2>3. PICK H : H = G
    OBVIOUS
  <2>4. H = [s \in SUBSET D |-> IF s = {} THEN 0 ELSE f[first(s)] + H[s \ {first(s)}]]
    BY <2>2, <2>3
  <2> HIDE DEF G
  <2>5. ASSUME NEW s \in SUBSET D
        PROVE  H[s] = IF s = {} THEN 0 ELSE f[c[s]] + H[s \ {c[s]}]
    <3> DEFINE h == [t \in SUBSET D |-> IF t = {} THEN 0 ELSE f[first(t)] + H[t \ {first(t)}]]
    <3>1. h[s] = IF s = {} THEN 0 ELSE f[c[s]] + H[s \ {c[s]}]
      OBVIOUS
    <3>2. H = h
      BY <2>4
    <3> HIDE DEF h
    <3> QED
      BY <3>1, <3>2
  <2>6. H = [s \in SUBSET D |-> H[s]]
    BY <2>4
  <2> HIDE DEF c
  <2> QED
    BY <2>3, <2>5, <2>6 DEF Takes
<1> HIDE DEF c, G
<1> QED
  BY <1>1, <1>2, <1>3, FoldIsSum

\* So is FoldLeft(+), which takes the last element out first.
LEMMA SumOfSequence ==
  ASSUME NEW q \in Seq(Nat)
  PROVE  \E g : IsSum(g, q, DOMAIN q) /\ FoldLeft(+, 0, q) = g[DOMAIN q]
<1> DEFINE D == DOMAIN q
           c == [s \in SUBSET D |-> Max(s)]
           G == CHOOSE g : g = [s \in SUBSET D |-> IF s = {} THEN 0 ELSE g[s \ {Max(s)}] + q[Max(s)]]
<1>1. IsFiniteSet(D) /\ q \in [D -> Nat]
  BY FS_Interval
<1>2. Chooses(c, D)
  <2> SUFFICES ASSUME NEW s \in SUBSET D, s # {} PROVE c[s] \in s
    BY DEF Chooses
  <2>1. Len(q) \in Nat /\ s \in SUBSET (1..Len(q))
    OBVIOUS
  <2>2. \E m \in s : \A x \in s : m >= x
    BY <2>1, Greatest
  <2>3. Max(s) \in s
    BY <2>2 DEF Max
  <2> QED
    BY <2>3
<1>3. FoldLeft(+, 0, q) = G[D]
  BY DEF FoldLeft, MapThenFoldSet
<1>4. Takes(G, q, c, D)
  <2>1. PICK g \in [SUBSET D -> Nat] : Folds(g, q, c, D)
    <3> HIDE DEF c, D, G
    <3> QED
      BY <1>1, <1>2, FoldExists
  <2>2. ASSUME NEW s \in SUBSET D
        PROVE  g[s] = IF s = {} THEN 0 ELSE g[s \ {Max(s)}] + q[Max(s)]
    <3> DEFINE h == [t \in SUBSET D |-> IF t = {} THEN 0 ELSE q[c[t]] + g[t \ {c[t]}]]
    <3>1. g = h
      BY <2>1 DEF Folds
    <3>2. h[s] = IF s = {} THEN 0 ELSE q[Max(s)] + g[s \ {Max(s)}]
      OBVIOUS
    <3>3. s # {} => q[Max(s)] \in Nat /\ g[s \ {Max(s)}] \in Nat
      <4>1. s # {} => Max(s) \in D
        BY <1>2 DEF Chooses
      <4> HIDE DEF D
      <4> QED
        BY <1>1, <2>1, <4>1
    <3> HIDE DEF h
    <3> QED
      BY <3>1, <3>2, <3>3
  <2>3. g = [s \in SUBSET D |-> IF s = {} THEN 0 ELSE g[s \ {Max(s)}] + q[Max(s)]]
    <3> HIDE DEF D, G, c
    <3> QED
      BY <2>2
  <2>4. PICK H : H = G
    OBVIOUS
  <2>5. H = [s \in SUBSET D |-> IF s = {} THEN 0 ELSE H[s \ {Max(s)}] + q[Max(s)]]
    <3> HIDE DEF D
    <3> QED
      BY <2>3, <2>4
  <2> HIDE DEF G
  <2>6. ASSUME NEW s \in SUBSET D
        PROVE  H[s] = IF s = {} THEN 0 ELSE H[s \ {Max(s)}] + q[Max(s)]
    <3> DEFINE h == [t \in SUBSET D |-> IF t = {} THEN 0 ELSE H[t \ {Max(t)}] + q[Max(t)]]
    <3>1. h[s] = IF s = {} THEN 0 ELSE H[s \ {Max(s)}] + q[Max(s)]
      OBVIOUS
    <3>2. H = h
      BY <2>5
    <3> HIDE DEF h
    <3> QED
      BY <3>1, <3>2
  <2>7. ASSUME NEW s \in SUBSET D, s # {}, H[s \ {c[s]}] \in Nat
        PROVE  H[s] = q[c[s]] + H[s \ {c[s]}]
    <3>1. c[s] = Max(s)
      OBVIOUS
    <3>2. q[c[s]] \in Nat
      <4> HIDE DEF D, c
      <4> QED
        BY <1>1, <1>2, <2>7 DEF Chooses
    <3>3. H[s] = H[s \ {c[s]}] + q[c[s]]
      BY <2>6, <2>7, <3>1
    <3> HIDE DEF c, D
    <3> QED
      BY <2>7, <3>2, <3>3
  <2>8. H = [s \in SUBSET D |-> H[s]] /\ H[{}] = 0
    BY <2>5, <2>6
  <2> HIDE DEF c, D
  <2> QED
    BY <2>4, <2>7, <2>8 DEF Takes
<1> HIDE DEF c, G, D
<1> QED
  BY <1>1, <1>2, <1>3, <1>4, FoldIsSum DEF D

\* One more number at the end.
LEMMA SumAppends ==
  ASSUME NEW q \in Seq(Nat), NEW n \in Nat
  PROVE  /\ SumFunction(q) \in Nat
         /\ SumFunction(Append(q, n)) = SumFunction(q) + n
<1> DEFINE D == DOMAIN q
           E == DOMAIN Append(q, n)
<1> DEFINE a == Append(q, n)
           m == Len(q) + 1
<1>1. m \in Nat \ {0} /\ D = 1..(m - 1) /\ E = 1..m
  OBVIOUS
<1>2. q \in [D -> Nat] /\ a \in [E -> Nat] /\ (\A x \in D : q[x] = a[x]) /\ a[m] = n
  <2>1. q \in [D -> Nat]
    OBVIOUS
  <2>2. a \in Seq(Nat) /\ a[m] = n
    OBVIOUS
  <2>3. a \in [E -> Nat]
    <3>1. ASSUME NEW b \in Seq(Nat) PROVE b \in [DOMAIN b -> Nat]
      OBVIOUS
    <3>2. E = DOMAIN a
      OBVIOUS
    <3> HIDE DEF a, E
    <3> QED
      BY <2>2, <3>1, <3>2
  <2>4. \A x \in D : q[x] = a[x]
    OBVIOUS
  <2> QED
    BY <2>1, <2>2, <2>3, <2>4
<1> HIDE DEF D, E, a, m
<1>3. IsFiniteSet(D) /\ IsFiniteSet(E)
  BY <1>1, FS_Interval
<1>4. D \subseteq E /\ m \in E /\ E \ {m} = D
  BY <1>1
<1>5. PICK g : IsSum(g, q, D) /\ SumFunction(q) = g[D]
  BY <1>2, <1>3, SumOfFunction
<1>6. PICK h : IsSum(h, a, E) /\ SumFunction(a) = h[E]
  BY <1>2, <1>3, SumOfFunction
<1>7. g[D] = h[D]
  BY <1>2, <1>3, <1>4, <1>5, <1>6, SumsAgree
<1>8. E \in SUBSET E
  OBVIOUS
<1>9. h[E] = n + h[D]
  BY <1>2, <1>4, <1>6, <1>8 DEF IsSum
<1>10. g[D] \in Nat
  BY <1>5 DEF IsSum
<1> QED
  BY <1>5, <1>6, <1>7, <1>9, <1>10 DEF a

LEMMA SumOfNothing == SumFunction(<<>>) = 0
<1>1. IsFiniteSet({}) /\ <<>> \in [{} -> Nat] /\ DOMAIN <<>> = {}
  BY FS_EmptySet
<1>2. PICK g : IsSum(g, <<>>, {}) /\ SumFunction(<<>>) = g[{}]
  BY <1>1, SumOfFunction
<1> QED
  BY <1>2 DEF IsSum

\* What the first k numbers of a sequence add up to.
Running(p, q) ==
    /\ p \in [0..Len(q) -> Nat]
    /\ p[0] = 0
    /\ \A k \in 1..Len(q) : p[k] = p[k - 1] + q[k]

LEMMA PrefixSums ==
  ASSUME NEW q \in Seq(Nat)
  PROVE  \E p : Running(p, q) /\ p[Len(q)] = FoldLeft(+, 0, q)
<1>1. PICK g : IsSum(g, q, DOMAIN q) /\ FoldLeft(+, 0, q) = g[DOMAIN q]
  BY SumOfSequence
<1> DEFINE p == [k \in 0..Len(q) |-> g[1..k]]
<1>2. Len(q) \in Nat /\ DOMAIN q = 1..Len(q) /\ \A k \in 1..Len(q) : q[k] \in Nat
  OBVIOUS
<1>3. ASSUME NEW k \in 0..Len(q) PROVE 1..k \in SUBSET DOMAIN q /\ g[1..k] \in Nat
  <2>1. 1..k \in SUBSET DOMAIN q
    BY <1>2
  <2> QED
    BY <1>1, <2>1 DEF IsSum
<1>4. p[0] = 0
  <2>1. 1..0 = {} /\ p[0] = g[1..0]
    BY <1>2
  <2>2. g[{}] = 0
    BY <1>1 DEF IsSum
  <2> QED
    BY <2>1, <2>2
<1>5. ASSUME NEW k \in 1..Len(q) PROVE p[k] = p[k - 1] + q[k]
  <2>1. k \in 1..k /\ (1..k) \ {k} = 1..(k - 1) /\ k \in 0..Len(q) /\ k - 1 \in 0..Len(q)
    BY <1>2
  <2>2. 1..k \in SUBSET DOMAIN q
    BY <1>3, <2>1
  <2>3. g[1..k] = q[k] + g[1..(k - 1)]
    <3> HIDE DEF p
    <3> QED
      BY <1>1, <2>1, <2>2 DEF IsSum
  <2>4. p[k] = g[1..k] /\ p[k - 1] = g[1..(k - 1)]
    BY <2>1
  <2>5. q[k] \in Nat /\ g[1..(k - 1)] \in Nat
    BY <1>2, <1>3, <2>1
  <2> HIDE DEF p
  <2> QED
    BY <2>3, <2>4, <2>5
<1>6. p \in [0..Len(q) -> Nat]
  BY <1>3
<1>7. p[Len(q)] = g[DOMAIN q]
  BY <1>2
<1> HIDE DEF p
<1>8. Running(p, q)
  BY <1>4, <1>5, <1>6 DEF Running
<1> QED
  BY <1>1, <1>7, <1>8

\* They only grow.
LEMMA PrefixesGrow ==
  ASSUME NEW q \in Seq(Nat), NEW p, Running(p, q), NEW k \in 0..Len(q)
  PROVE  p[k] <= p[Len(q)]
<1> DEFINE N == Len(q)
           S == {n \in Nat : n <= N => p[N - n] <= p[N]}
<1>1. N \in Nat /\ \A m \in 1..N : q[m] \in Nat
  OBVIOUS
<1>2. /\ \A m \in 0..N : p[m] \in Nat
      /\ \A m \in 1..N : p[m] = p[m - 1] + q[m]
  BY DEF Running
<1>3. k \in 0..N
  OBVIOUS
<1> HIDE DEF N
<1>4. 0 \in S
  BY <1>1, <1>2
<1>5. ASSUME NEW n \in Nat, n \in S PROVE n + 1 \in S
  <2> SUFFICES ASSUME n + 1 <= N PROVE p[N - (n + 1)] <= p[N]
    OBVIOUS
  <2> DEFINE m == N - n
  <2>1. m \in 1..N /\ m - 1 \in 0..N /\ m - 1 = N - (n + 1) /\ N \in 0..N /\ m \in 0..N
    BY <1>1
  <2>2. p[m] <= p[N]
    BY <1>1, <1>5
  <2> HIDE DEF m, S
  <2>3. p[m] = p[m - 1] + q[m] /\ q[m] \in Nat
    BY <1>1, <1>2, <2>1
  <2>4. p[m - 1] \in Nat /\ p[m] \in Nat /\ p[N] \in Nat
    BY <1>2, <2>1
  <2>5. p[m - 1] <= p[N]
    BY <2>2, <2>3, <2>4
  <2> QED
    BY <2>1, <2>5
<1>6. N - k \in S
  <2>1. N - k \in Nat
    BY <1>1, <1>3
  <2> HIDE DEF S
  <2> QED
    BY <1>4, <1>5, <2>1, Induct
<1>7. N - (N - k) = k /\ N - k <= N
  BY <1>1, <1>3
<1>8. p[k] <= p[N]
  BY <1>6, <1>7
<1> QED
  BY <1>8 DEF N

----------------------------------------------------------------------------
\* Loops, counts and joined lists.

\* What a loop of N rounds computes, F taking it one round further.
Rounds(F, N, W) == F \in [(1..N) \X W -> W]

LEMMA Iterates ==
  ASSUME NEW N \in Nat, NEW W, NEW base \in W, NEW F, Rounds(F, N, W)
  PROVE  \E f \in [0..N -> W] : f[0] = base /\ \A n \in 1..N : f[n] = F[<<n, f[n - 1]>>]
<1> DEFINE Goes(f, n) == f[0] = base /\ \A m \in 1..n : f[m] = F[<<m, f[m - 1]>>]
           S == {n \in Nat : n <= N => \E f \in [0..n -> W] : Goes(f, n)}
<1>1. 0 \in S
  <2> DEFINE f == [n \in 0..0 |-> base]
  <2>1. f \in [0..0 -> W] /\ Goes(f, 0)
    OBVIOUS
  <2> HIDE DEF f, Goes
  <2> QED
    BY <2>1
<1>2. ASSUME NEW n \in Nat, n \in S PROVE n + 1 \in S
  <2> SUFFICES ASSUME n + 1 <= N PROVE \E f \in [0..(n + 1) -> W] : Goes(f, n + 1)
    OBVIOUS
  <2>1. PICK f \in [0..n -> W] : Goes(f, n)
    BY <1>2
  <2> DEFINE g == [m \in 0..(n + 1) |-> IF m = n + 1 THEN F[<<n + 1, f[n]>>] ELSE f[m]]
  <2>2. f[n] \in W /\ n + 1 \in 1..N
    BY <2>1
  <2>3. F[<<n + 1, f[n]>>] \in W
    BY <2>2 DEF Rounds
  <2>4. g \in [0..(n + 1) -> W]
    BY <2>1, <2>3
  <2>5. g[0] = base
    BY <2>1
  <2>6. ASSUME NEW m \in 1..(n + 1) PROVE g[m] = F[<<m, g[m - 1]>>]
    <3>1. CASE m = n + 1
      <4>1. g[m] = F[<<n + 1, f[n]>>] /\ m - 1 = n /\ g[m - 1] = f[n]
        BY <3>1
      <4> HIDE DEF g
      <4> QED
        BY <3>1, <4>1
    <3>2. CASE m # n + 1
      <4>1. m \in 1..n /\ g[m] = f[m] /\ g[m - 1] = f[m - 1]
        BY <3>2
      <4> HIDE DEF g
      <4> QED
        BY <2>1, <4>1
    <3> QED
      BY <3>1, <3>2
  <2> HIDE DEF g
  <2> QED
    BY <2>4, <2>5, <2>6
<1>3. N \in S
  <2> HIDE DEF S
  <2> QED
    BY <1>1, <1>2, Induct
<1> QED
  BY <1>3

\* Members of S up to i.
Count(S, i) == Cardinality(S \cap (1..i))

LEMMA CountGrows ==
  ASSUME NEW S, NEW n \in Nat
  PROVE  /\ Count(S, n) \in Nat /\ Count(S, 0) = 0
         /\ Count(S, n + 1) = IF n + 1 \in S THEN Count(S, n) + 1 ELSE Count(S, n)
<1>1. IsFiniteSet(1..n) /\ IsFiniteSet(S \cap (1..n)) /\ Cardinality(S \cap (1..n)) \in Nat
  <2>1. IsFiniteSet(1..n)
    BY FS_Interval
  <2> QED
    BY <2>1, FS_Subset, FS_CardinalityType
<1>2. S \cap (1..0) = {} /\ Cardinality({}) = 0
  BY FS_EmptySet
<1>3. CASE n + 1 \in S
  <2>1. S \cap (1..(n + 1)) = (S \cap (1..n)) \cup {n + 1} /\ n + 1 \notin S \cap (1..n)
    BY <1>3
  <2>2. Cardinality((S \cap (1..n)) \cup {n + 1}) = Cardinality(S \cap (1..n)) + 1
    BY <1>1, <2>1, FS_AddElement
  <2> QED
    BY <1>1, <1>2, <1>3, <2>1, <2>2 DEF Count
<1>4. CASE n + 1 \notin S
  <2>1. S \cap (1..(n + 1)) = S \cap (1..n)
    BY <1>4
  <2> QED
    BY <1>1, <1>2, <1>4, <2>1 DEF Count
<1> QED
  BY <1>3, <1>4

LEMMA CountOrders ==
  ASSUME NEW S, NEW i \in Nat, NEW j \in Nat
  PROVE  /\ i <= j => Count(S, i) <= Count(S, j)
         /\ i < j /\ j \in S => Count(S, i) < Count(S, j)
<1>1. ASSUME NEW n \in Nat PROVE IsFiniteSet(S \cap (1..n)) /\ Cardinality(S \cap (1..n)) \in Nat
  <2>1. IsFiniteSet(1..n)
    BY FS_Interval
  <2> QED
    BY <2>1, FS_Subset, FS_CardinalityType
<1>2. ASSUME i <= j PROVE Count(S, i) <= Count(S, j)
  <2>1. S \cap (1..i) \subseteq S \cap (1..j)
    BY <1>2
  <2> QED
    BY <1>1, <2>1, FS_Subset DEF Count
<1>3. ASSUME i < j, j \in S PROVE Count(S, i) < Count(S, j)
  <2>1. S \cap (1..i) \subseteq S \cap (1..j) /\ j \in S \cap (1..j) /\ j \notin S \cap (1..i)
    BY <1>3
  <2>2. Cardinality(S \cap (1..i)) # Cardinality(S \cap (1..j))
    BY <1>1, <2>1, FS_Subset
  <2> QED
    BY <1>1, <2>1, <2>2, FS_Subset DEF Count
<1> QED
  BY <1>2, <1>3

Without(e, f, D, x) == e = [y \in D \ {x} |-> f[y]]

LEMMA SumAdds ==
  ASSUME NEW D, IsFiniteSet(D), NEW f \in [D -> Nat], NEW x \in D, NEW e, Without(e, f, D, x)
  PROVE  SumFunction(f) \in Nat /\ SumFunction(f) = f[x] + SumFunction(e)
<1> DEFINE C == D \ {x}
<1>1. IsFiniteSet(C) /\ C \subseteq D
  BY FS_Subset
<1>2. e \in [C -> Nat] /\ \A y \in C : e[y] = f[y]
  BY DEF Without
<1>3. PICK g : IsSum(g, f, D) /\ SumFunction(f) = g[D]
  BY SumOfFunction
<1>4. PICK h : IsSum(h, e, C) /\ SumFunction(e) = h[C]
  <2>1. PICK c \in [C -> Nat] : c = e
    BY <1>2
  <2>2. \E h : IsSum(h, c, C) /\ SumFunction(c) = h[C]
    BY <1>1, SumOfFunction
  <2> QED
    BY <2>1, <2>2
<1>5. h[C] = g[C]
  BY <1>1, <1>2, <1>3, <1>4, SumsAgree
<1>6. D \in SUBSET D
  OBVIOUS
<1>7. g[D] = f[x] + g[C] /\ g[D] \in Nat
  BY <1>3, <1>6 DEF IsSum
<1> QED
  BY <1>3, <1>4, <1>5, <1>7

\* Where the elements of t come from when the first n lists of ss are joined: of each
\* place its list and the place there, in their order, and nothing is lost.
Origins(o, w, t, ss, n) ==
    /\ o \in [DOMAIN t -> 1..n] /\ w \in [DOMAIN t -> Nat]
    /\ \A i \in DOMAIN t : w[i] \in DOMAIN ss[o[i]] /\ t[i] = ss[o[i]][w[i]]
    /\ \A i, j \in DOMAIN t : i < j => o[i] < o[j] \/ (o[i] = o[j] /\ w[i] < w[j])
    /\ \A k \in 1..n : \A m \in DOMAIN ss[k] : \E i \in DOMAIN t : o[i] = k /\ w[i] = m

LEMMA OriginsGrow ==
  ASSUME NEW V, NEW ss \in Seq(Seq(V)), NEW n \in Nat, n + 1 \in DOMAIN ss,
         NEW t \in Seq(V), NEW o, NEW w, Origins(o, w, t, ss, n)
  PROVE  /\ t \o ss[n + 1] \in Seq(V)
         /\ \E p, v : Origins(p, v, t \o ss[n + 1], ss, n + 1)
<1> DEFINE x == ss[n + 1]
           u == t \o x
           N == Len(t)
           M == Len(x)
           p == [i \in 1..(N + M) |-> IF i <= N THEN o[i] ELSE n + 1]
           v == [i \in 1..(N + M) |-> IF i <= N THEN w[i] ELSE i - N]
<1>1. x \in Seq(V)
  OBVIOUS
<1> HIDE DEF x
<1>2. N \in Nat /\ M \in Nat /\ DOMAIN t = 1..N /\ DOMAIN x = 1..M
  BY <1>1
<1>3. /\ u \in Seq(V) /\ Len(u) = N + M /\ DOMAIN u = 1..(N + M)
      /\ \A i \in 1..N : u[i] = t[i]
      /\ \A i \in (N + 1)..(N + M) : u[i] = x[i - N]
  BY <1>1
<1> HIDE DEF u, N, M
<1>4. \A i \in 1..N : o[i] \in 1..n /\ w[i] \in Nat
  BY <1>2 DEF Origins
<1>5. /\ \A i \in 1..N : p[i] = o[i] /\ v[i] = w[i]
      /\ \A i \in (N + 1)..(N + M) : p[i] = n + 1 /\ v[i] = i - N
  BY <1>2
<1>6. p = [i \in 1..(N + M) |-> p[i]] /\ v = [i \in 1..(N + M) |-> v[i]]
  OBVIOUS
<1> HIDE DEF p, v
<1>7. \A i \in 1..(N + M) : i \in 1..N \/ (i \in (N + 1)..(N + M) /\ i - N \in 1..M)
  BY <1>2
<1>8. p \in [DOMAIN u -> 1..(n + 1)] /\ v \in [DOMAIN u -> Nat]
  <2>1. ASSUME NEW i \in 1..(N + M) PROVE p[i] \in 1..(n + 1) /\ v[i] \in Nat
    <3>1. CASE i \in 1..N
      <4>1. o[i] \in 1..n /\ w[i] \in Nat
        BY <1>4, <3>1
      <4>2. p[i] = o[i] /\ v[i] = w[i]
        BY <1>5, <3>1
      <4> QED
        BY <4>1, <4>2
    <3>2. CASE i \in (N + 1)..(N + M)
      BY <1>2, <1>5, <3>2
    <3> QED
      BY <1>7, <3>1, <3>2
  <2>2. [i \in 1..(N + M) |-> p[i]] \in [1..(N + M) -> 1..(n + 1)] /\ [i \in 1..(N + M) |-> v[i]] \in [1..(N + M) -> Nat]
    BY <2>1
  <2> QED
    BY <1>3, <1>6, <2>2
<1>9. ASSUME NEW i \in DOMAIN u PROVE v[i] \in DOMAIN ss[p[i]] /\ u[i] = ss[p[i]][v[i]]
  <2>1. CASE i \in 1..N
    <3>1. w[i] \in DOMAIN ss[o[i]] /\ t[i] = ss[o[i]][w[i]]
      BY <1>2, <2>1 DEF Origins
    <3> QED
      BY <1>3, <1>5, <2>1, <3>1
  <2>2. CASE i \in (N + 1)..(N + M) /\ i - N \in 1..M
    <3>1. u[i] = x[i - N] /\ p[i] = n + 1 /\ v[i] = i - N /\ i - N \in DOMAIN x
      BY <1>2, <1>3, <1>5, <2>2
    <3> QED
      BY <3>1 DEF x
  <2> QED
    BY <1>3, <1>7, <2>1, <2>2
<1>10. ASSUME NEW i \in DOMAIN u, NEW j \in DOMAIN u, i < j
      PROVE  p[i] < p[j] \/ (p[i] = p[j] /\ v[i] < v[j])
  <2>1. i \in 1..(N + M) /\ j \in 1..(N + M)
    BY <1>3
  <2>2. CASE j \in 1..N
    <3>1. i \in 1..N
      BY <1>2, <1>10, <2>1, <2>2
    <3>2. o[i] < o[j] \/ (o[i] = o[j] /\ w[i] < w[j])
      BY <1>2, <1>10, <2>2, <3>1 DEF Origins
    <3> QED
      BY <1>5, <2>2, <3>1, <3>2
  <2>3. CASE j \in (N + 1)..(N + M)
    <3>1. p[j] = n + 1 /\ v[j] = j - N
      BY <1>5, <2>3
    <3>2. CASE i \in 1..N
      <4>1. p[i] \in 1..n
        BY <1>4, <1>5, <3>2
      <4> QED
        BY <3>1, <4>1
    <3>3. CASE i \in (N + 1)..(N + M)
      <4>1. p[i] = n + 1 /\ v[i] = i - N
        BY <1>5, <3>3
      <4>2. i - N < j - N
        BY <1>2, <1>10, <2>3, <3>3
      <4> QED
        BY <3>1, <4>1, <4>2
    <3> QED
      BY <1>7, <2>1, <3>2, <3>3
  <2> QED
    BY <1>7, <2>1, <2>2, <2>3
<1>11. ASSUME NEW k \in 1..(n + 1), NEW m \in DOMAIN ss[k] PROVE \E i \in DOMAIN u : p[i] = k /\ v[i] = m
  <2>1. CASE k \in 1..n
    <3>1. PICK i \in DOMAIN t : o[i] = k /\ w[i] = m
      BY <2>1 DEF Origins
    <3>2. i \in 1..N /\ i \in DOMAIN u
      BY <1>2, <1>3
    <3> QED
      BY <1>5, <3>1, <3>2
  <2>2. CASE k = n + 1
    <3>1. m \in 1..M
      BY <1>2, <2>2 DEF x
    <3>2. N + m \in (N + 1)..(N + M) /\ N + m \in DOMAIN u /\ (N + m) - N = m
      BY <1>2, <1>3, <3>1
    <3>3. p[N + m] = n + 1 /\ v[N + m] = m
      BY <1>5, <3>2
    <3> QED
      BY <2>2, <3>2, <3>3
  <2> QED
    BY <2>1, <2>2
<1>12. Origins(p, v, u, ss, n + 1)
  BY <1>8, <1>9, <1>10, <1>11 DEF Origins
<1> QED
  BY <1>3, <1>12 DEF u, x

\* What FlattenSeq joins.
LEMMA Flattens ==
  ASSUME NEW V, NEW ss \in Seq(Seq(V))
  PROVE  /\ FlattenSeq(ss) \in Seq(V)
         /\ \E o, w : Origins(o, w, FlattenSeq(ss), ss, Len(ss))
<1> DEFINE N == Len(ss)
           W == Seq(V)
           F == [x \in (1..N) \X W |-> x[2] \o ss[x[1]]]
           G == CHOOSE f : f = [i \in 1..N |-> IF i = 1 THEN ss[i] ELSE f[i - 1] \o ss[i]]
<1>1. N \in Nat /\ DOMAIN ss = 1..N /\ \A n \in 1..N : ss[n] \in W
  OBVIOUS
<1>2. CASE N = 0
  <2>1. ss = <<>> /\ FlattenSeq(ss) = <<>>
    BY <1>2 DEF FlattenSeq
  <2>2. Origins(<<>>, <<>>, <<>>, ss, 0) /\ <<>> \in Seq(V)
    BY DEF Origins
  <2>3. FlattenSeq(ss) \in Seq(V) /\ Origins(<<>>, <<>>, FlattenSeq(ss), ss, Len(ss))
    BY <1>2, <2>1, <2>2
  <2> QED
    BY <2>3
<1>3. CASE N # 0
  <2>1. FlattenSeq(ss) = G[N]
    BY <1>3 DEF FlattenSeq
  <2>2. Rounds(F, N, W)
    <3>1. ASSUME NEW x \in (1..N) \X W PROVE F[x] \in W
      <4>1. x[2] \in Seq(V) /\ ss[x[1]] \in Seq(V)
        BY <1>1
      <4> QED
        BY <4>1
    <3> QED
      BY <3>1 DEF Rounds
  <2>3. \A n \in 1..N : \A t \in W : F[<<n, t>>] = t \o ss[n]
    OBVIOUS
  <2>4. PICK e \in W : e = <<>>
    <3>1. <<>> \in W
      OBVIOUS
    <3> QED
      BY <3>1
  <2>5. \A t \in W : <<>> \o t = t
    OBVIOUS
  <2> HIDE DEF F, N, W
  <2>6. G[1] = ss[1] /\ \A n \in 1..N : n # 1 => G[n] = G[n - 1] \o ss[n]
    <3>1. PICK f \in [0..N -> W] : f[0] = e /\ \A n \in 1..N : f[n] = F[<<n, f[n - 1]>>]
      <4>1. N \in Nat
        BY <1>1
      <4> HIDE DEF G
      <4> QED
        BY <2>2, <2>4, <4>1, Iterates
    <3>2. f[1] = ss[1] /\ \A n \in 1..N : n # 1 => f[n] = f[n - 1] \o ss[n]
      <4>1. \A n \in 1..N : n - 1 \in 0..N
        BY <1>1
      <4>2. \A n \in 1..N : f[n] = f[n - 1] \o ss[n]
        BY <2>3, <3>1, <4>1
      <4>3. 1 \in 1..N /\ 1 - 1 = 0
        BY <1>1, <1>3
      <4>4. f[1] = e \o ss[1] /\ ss[1] \in W
        BY <1>1, <3>1, <4>2, <4>3
      <4> QED
        BY <2>4, <2>5, <4>2, <4>4
    <3> DEFINE h == [i \in 1..N |-> f[i]]
    <3>3. h = [i \in 1..N |-> IF i = 1 THEN ss[i] ELSE h[i - 1] \o ss[i]]
      <4>1. ASSUME NEW i \in 1..N PROVE f[i] = IF i = 1 THEN ss[i] ELSE h[i - 1] \o ss[i]
        <5>1. i # 1 => i - 1 \in 1..N /\ h[i - 1] = f[i - 1]
          BY <1>1
        <5> HIDE DEF h
        <5> QED
          BY <3>2, <5>1
      <4>2. DOMAIN h = 1..N /\ \A i \in 1..N : h[i] = f[i]
        OBVIOUS
      <4>3. h = [i \in 1..N |-> h[i]]
        OBVIOUS
      <4> HIDE DEF h
      <4> QED
        BY <4>1, <4>2, <4>3
    <3>4. PICK g : g = G
      OBVIOUS
    <3> HIDE DEF h
    <3>5. g = [i \in 1..N |-> IF i = 1 THEN ss[i] ELSE g[i - 1] \o ss[i]]
      BY <3>3, <3>4
    <3>6. g[1] = ss[1] /\ \A n \in 1..N : n # 1 => g[n] = g[n - 1] \o ss[n]
      <4>1. 1 \in 1..N
        BY <1>1, <1>3
      <4> QED
        BY <3>5, <4>1
    <3> HIDE DEF G
    <3> QED
      BY <3>4, <3>6
  <2> HIDE DEF G
  <2> DEFINE Good(n) == G[n] \in Seq(V) /\ \E o, w : Origins(o, w, G[n], ss, n)
             S == {n \in Nat : n + 1 <= N => Good(n + 1)}
  <2>7. 0 \in S
    <3> SUFFICES 1 <= N => Good(1)
      OBVIOUS
    <3>1. Origins(<<>>, <<>>, <<>>, ss, 0) /\ 1 \in DOMAIN ss /\ 0 + 1 = 1 /\ <<>> \in Seq(V)
      BY <1>1, <1>3 DEF Origins
    <3>2. <<>> \o ss[1] = ss[1]
      BY <1>1, <2>5, <3>1
    <3>3. <<>> \o ss[0 + 1] \in Seq(V) /\ \E p, v : Origins(p, v, <<>> \o ss[0 + 1], ss, 0 + 1)
      BY <3>1, OriginsGrow
    <3>4. Good(1)
      BY <2>6, <3>2, <3>3
    <3> QED
      BY <3>4
  <2>8. ASSUME NEW n \in Nat, n \in S PROVE n + 1 \in S
    <3> SUFFICES ASSUME (n + 1) + 1 <= N PROVE Good((n + 1) + 1)
      OBVIOUS
    <3>1. Good(n + 1)
      BY <1>1, <2>8
    <3> DEFINE k == n + 1
    <3>2. k \in Nat /\ k + 1 \in 1..N /\ k + 1 # 1 /\ (k + 1) - 1 = k
      BY <1>1
    <3> HIDE DEF k
    <3>3. G[k + 1] = G[k] \o ss[k + 1]
      BY <2>6, <3>2
    <3>4. PICK o, w : Origins(o, w, G[k], ss, k)
      BY <3>1 DEF k
    <3>5. G[k] \in Seq(V) /\ k + 1 \in DOMAIN ss
      BY <1>1, <3>1, <3>2 DEF k
    <3>6. G[k] \o ss[k + 1] \in Seq(V) /\ \E p, v : Origins(p, v, G[k] \o ss[k + 1], ss, k + 1)
      BY <3>2, <3>4, <3>5, OriginsGrow
    <3> QED
      BY <3>3, <3>6 DEF k
  <2>9. N - 1 \in S
    <3>1. N - 1 \in Nat
      BY <1>1, <1>3
    <3> HIDE DEF S
    <3> QED
      BY <2>7, <2>8, <3>1, Induct
  <2>10. Good(N)
    <3>1. (N - 1) + 1 = N
      BY <1>1
    <3> QED
      BY <1>1, <2>9, <3>1
  <2> QED
    BY <2>1, <2>10 DEF N
<1> QED
  BY <1>2, <1>3

\* A sum is no more than another one in which each of its terms has a larger one of its own.
SendsTo(h, D, f, C, g) ==
    /\ \A x \in D : h[x] \in C /\ f[x] <= g[h[x]]
    /\ \A x, y \in D : h[x] = h[y] => x = y

LEMMA SumInjects ==
  ASSUME NEW D, IsFiniteSet(D), NEW C, IsFiniteSet(C),
         NEW f \in [D -> Nat], NEW g \in [C -> Nat], NEW h, SendsTo(h, D, f, C, g)
  PROVE  SumFunction(f) <= SumFunction(g)
<1>1. PICK F : IsSum(F, f, D) /\ SumFunction(f) = F[D]
  BY SumOfFunction
<1>2. PICK G : IsSum(G, g, C) /\ SumFunction(g) = G[C]
  BY SumOfFunction
<1> DEFINE Into(s, t) == \A x \in s : h[x] \in t
           S == {n \in Nat : \A s \in SUBSET D : \A t \in SUBSET C :
                                Cardinality(s) <= n /\ Into(s, t) => F[s] <= G[t]}
<1>3. \A t \in SUBSET C : G[t] \in Nat
  BY <1>2 DEF IsSum
<1>4. \A s \in SUBSET D : F[s] \in Nat
  BY <1>1 DEF IsSum
<1>5. ASSUME NEW t \in SUBSET C PROVE F[{}] <= G[t]
  <2>1. F[{}] = 0 /\ G[t] \in Nat
    BY <1>1, <1>3 DEF IsSum
  <2> QED
    BY <2>1
<1>6. 0 \in S
  <2>1. \A s \in SUBSET D : Cardinality(s) <= 0 => s = {}
    BY Sizes
  <2> QED
    BY <1>5, <2>1
<1>7. ASSUME NEW n \in Nat, n \in S PROVE n + 1 \in S
  <2> SUFFICES ASSUME NEW s \in SUBSET D, NEW t \in SUBSET C, Cardinality(s) <= n + 1, Into(s, t)
               PROVE  F[s] <= G[t]
    OBVIOUS
  <2> SUFFICES ASSUME s # {} PROVE F[s] <= G[t]
    BY <1>5
  <2>1. PICK x \in s : TRUE
    OBVIOUS
  <2>2. PICK y \in t : y = h[x] /\ f[x] <= g[y]
    BY DEF SendsTo
  <2>3. s \ {x} \in SUBSET D /\ Cardinality(s \ {x}) <= n
    BY OneLess
  <2>4. t \ {y} \in SUBSET C
    OBVIOUS
  <2>5. Into(s \ {x}, t \ {y})
    BY <2>2 DEF SendsTo
  <2>6. F[s \ {x}] <= G[t \ {y}]
    BY <1>7, <2>3, <2>4, <2>5
  <2>7. F[s] = f[x] + F[s \ {x}] /\ G[t] = g[y] + G[t \ {y}]
    BY <1>1, <1>2 DEF IsSum
  <2>8. f[x] \in Nat /\ g[y] \in Nat /\ F[s \ {x}] \in Nat /\ G[t \ {y}] \in Nat
    BY <1>3, <1>4, <2>3, <2>4
  <2> QED
    BY <2>2, <2>6, <2>7, <2>8
<1>8. Cardinality(D) \in S
  <2>1. Cardinality(D) \in Nat
    BY FS_CardinalityType
  <2> HIDE DEF S
  <2> QED
    BY <1>6, <1>7, <2>1, Induct
<1>9. Into(D, C) /\ Cardinality(D) \in Nat
  BY FS_CardinalityType DEF SendsTo
<1> QED
  BY <1>1, <1>2, <1>8, <1>9

\* P[x] are the elements of S before x.
Ordered(P, S) ==
    /\ \A x \in S : P[x] \in SUBSET S /\ x \notin P[x]
    /\ \A x, y \in S : x # y => x \in P[y] \/ y \in P[x]
    /\ \A x, y \in S : x \in P[y] => P[x] \subseteq P[y]

\* Every place of an ordered set is taken, and who comes first has the lower one.
LEMMA PlacesTaken ==
  ASSUME NEW S, IsFiniteSet(S), NEW P, Ordered(P, S)
  PROVE  /\ \A x \in S : Cardinality(P[x]) \in 0..(Cardinality(S) - 1)
         /\ \A x, y \in S : x \in P[y] => Cardinality(P[x]) < Cardinality(P[y])
         /\ \A x, y \in S : Cardinality(P[x]) = Cardinality(P[y]) => x = y
         /\ \A n \in 0..(Cardinality(S) - 1) : \E x \in S : Cardinality(P[x]) = n
<1>1. Cardinality(S) \in Nat
  BY FS_CardinalityType
<1>2. \A x \in S : IsFiniteSet(P[x]) /\ Cardinality(P[x]) \in Nat
  BY FS_Subset, FS_CardinalityType DEF Ordered
<1>3. ASSUME NEW x \in S PROVE Cardinality(P[x]) \in 0..(Cardinality(S) - 1)
  <2>1. P[x] \in SUBSET S /\ P[x] # S
    BY DEF Ordered
  <2>2. Cardinality(P[x]) <= Cardinality(S) /\ Cardinality(P[x]) # Cardinality(S)
    BY <2>1, FS_Subset
  <2> QED
    BY <1>1, <1>2, <2>2
<1>4. ASSUME NEW x \in S, NEW y \in S, x \in P[y] PROVE Cardinality(P[x]) < Cardinality(P[y])
  <2>1. P[x] \in SUBSET P[y] /\ P[x] # P[y]
    BY <1>4 DEF Ordered
  <2>2. Cardinality(P[x]) <= Cardinality(P[y]) /\ Cardinality(P[x]) # Cardinality(P[y])
    BY <1>2, <2>1, FS_Subset
  <2> QED
    BY <1>2, <2>2
<1>5. ASSUME NEW x \in S, NEW y \in S, Cardinality(P[x]) = Cardinality(P[y]) PROVE x = y
  <2> SUFFICES ASSUME x # y PROVE FALSE
    OBVIOUS
  <2>1. x \in P[y] \/ y \in P[x]
    BY DEF Ordered
  <2>2. Cardinality(P[x]) \in Nat /\ Cardinality(P[y]) \in Nat
    BY <1>2
  <2> QED
    BY <1>4, <1>5, <2>1, <2>2
<1> DEFINE N == Cardinality(S)
           f == [x \in S |-> Cardinality(P[x])]
<1>6. IsFiniteSet(0..(N - 1)) /\ Cardinality(0..(N - 1)) = N
  <2>1. N - 1 \in Int /\ 0 \in Int
    BY <1>1
  <2>2. IsFiniteSet(0..(N - 1)) /\ Cardinality(0..(N - 1)) = IF 0 > N - 1 THEN 0 ELSE (N - 1) - 0 + 1
    BY <2>1, FS_Interval
  <2> QED
    BY <1>1, <2>2
<1>7. f \in Injection(S, 0..(N - 1))
  <2>1. f \in [S -> 0..(N - 1)]
    BY <1>3
  <2>2. \A x, y \in S : f[x] = f[y] => x = y
    BY <1>5
  <2> HIDE DEF f
  <2> QED
    BY <2>1, <2>2 DEF Injection, IsInjective
<1>8. f \in Surjection(S, 0..(N - 1))
  <2> HIDE DEF f
  <2>1. PICK g \in Injection(S, 0..(N - 1)) : g = f
    BY <1>7
  <2> QED
    BY <1>6, <2>1, FS_Injection DEF N
<1>9. \A n \in 0..(N - 1) : \E x \in S : Cardinality(P[x]) = n
  <2>1. \A n \in 0..(N - 1) : \E x \in S : f[x] = n
    <3> HIDE DEF f
    <3> QED
      BY <1>8 DEF Surjection
  <2> QED
    BY <2>1
<1> QED
  BY <1>3, <1>4, <1>5, <1>9

\* Every count below that of n is reached at a member of S up to n.
LEMMA CountTakes ==
  ASSUME NEW S, NEW n \in Nat, NEW m \in Nat, m < Count(S, n)
  PROVE  \E j \in S : j \in 1..n /\ Count(S, j - 1) = m
<1> DEFINE T == {k \in Nat : m < Count(S, k) => \E j \in S : j \in 1..k /\ Count(S, j - 1) = m}
<1>1. 0 \in T
  <2>1. Count(S, 0) = 0
    BY CountGrows
  <2> QED
    BY <2>1
<1>2. ASSUME NEW k \in Nat, k \in T PROVE k + 1 \in T
  <2> SUFFICES ASSUME m < Count(S, k + 1) PROVE \E j \in S : j \in 1..(k + 1) /\ Count(S, j - 1) = m
    OBVIOUS
  <2>1. /\ Count(S, k) \in Nat
        /\ Count(S, k + 1) = IF k + 1 \in S THEN Count(S, k) + 1 ELSE Count(S, k)
    BY CountGrows
  <2>2. CASE m < Count(S, k)
    <3>1. PICK j \in S : j \in 1..k /\ Count(S, j - 1) = m
      BY <1>2, <2>2
    <3> QED
      BY <3>1
  <2>3. CASE ~(m < Count(S, k))
    <3>1. k + 1 \in S /\ m = Count(S, k)
      BY <2>1, <2>3
    <3>2. (k + 1) - 1 = k /\ k + 1 \in 1..(k + 1)
      OBVIOUS
    <3> QED
      BY <3>1, <3>2
  <2> QED
    BY <2>2, <2>3
<1>3. n \in T
  <2> HIDE DEF T
  <2> QED
    BY <1>1, <1>2, Induct
<1> QED
  BY <1>3

\* A larger divisor gives a smaller quotient.
LEMMA Divides ==
  ASSUME NEW x \in Nat, NEW d \in Nat \ {0}, NEW e \in Nat, d <= e
  PROVE  x \div e <= x \div d
<1> DEFINE a == x \div d
           b == x \div e
<1>1. a \in Nat /\ b \in Nat /\ a + 1 \in Nat
  OBVIOUS
<1>2. x < (a + 1) * d
  OBVIOUS
<1>3. b * e <= x
  OBVIOUS
<1> HIDE DEF a, b
<1>4. ASSUME NEW i \in Nat, NEW j \in Nat, NEW k \in Nat, i <= j PROVE k * i <= k * j /\ i * k <= j * k
  <2>1. PICK l \in Nat : j = i + l
    <3>1. j - i \in Nat /\ j = i + (j - i)
      BY <1>4
    <3> QED
      BY <3>1
  <2>2. k * j = k * i + k * l /\ k * l \in Nat /\ k * i \in Nat /\ i * k = k * i /\ j * k = k * j
    BY <2>1
  <2> QED
    BY <2>2
<1>5. ~(a + 1 <= b)
  <2> SUFFICES ASSUME a + 1 <= b PROVE FALSE
    OBVIOUS
  <2>1. (a + 1) * d <= b * d
    BY <1>1, <1>4
  <2>2. b * d <= b * e
    BY <1>1, <1>4
  <2>3. PICK p \in Nat, q \in Nat, r \in Nat : p = (a + 1) * d /\ q = b * d /\ r = b * e
    <3>1. (a + 1) * d \in Nat /\ b * d \in Nat /\ b * e \in Nat
      BY <1>1
    <3> QED
      BY <3>1
  <2> QED
    BY <1>2, <1>3, <2>1, <2>2, <2>3
<1>6. b <= a
  BY <1>1, <1>5
<1> QED
  BY <1>6 DEF a, b
=============================================================================

-------------------------- MODULE InductionLemmas --------------------------
(***************************************************************************)
(* Induction over the natural numbers and over finite sets, and what it       *)
(* shows of the operators the models compute with: sums over a set, the       *)
(* largest and the smallest of some numbers, the turns of a loop. And what    *)
(* is in a sequence made of others.                                          *)
(***************************************************************************)
EXTENDS Integers, FiniteSets, FiniteSetsExt, Functions, SequencesExt, FiniteSetTheorems,
        WellFoundedInduction, TLAPS

-----------------------------------------------------------------------------
(* Induction, said of sets: the provers instantiate no predicate.            *)

\* Over the natural numbers.
LEMMA NumbersInduct ==
  ASSUME NEW S, 0 \in S, \A n \in Nat : n \in S => n + 1 \in S
  PROVE  Nat \subseteq S
<1> SUFFICES ASSUME ~(Nat \subseteq S)
             PROVE  FALSE
  OBVIOUS
<1> DEFINE T == Nat \ S
<1>1. IsWellFoundedOn(OpToRel(<, Nat), Nat) /\ T \subseteq Nat /\ T # {}
  BY NatLessThanWellFounded
<1>2. PICK m \in T : \A n \in T : <<n, m>> \notin OpToRel(<, Nat)
  <2> HIDE DEF T
  <2> QED
    BY <1>1, WFMin, Zenon
<1>3. \A n \in T : ~(n < m)
  <2> SUFFICES ASSUME NEW n \in T, n < m
               PROVE  FALSE
    OBVIOUS
  <2>1. <<n, m>> \in OpToRel(<, Nat)
    BY SMT DEF OpToRel
  <2> QED
    BY <1>2, <2>1, Zenon
<1>4. m \in Nat /\ m # 0 /\ m \notin S
  OBVIOUS
<1>5. m - 1 \in Nat /\ m - 1 < m /\ (m - 1) + 1 = m
  BY <1>4
<1>6. m - 1 \in S
  BY <1>3, <1>5
<1> QED
  BY <1>4, <1>5, <1>6

\* Over the finite parts of a set.
LEMMA PartsInduct ==
  ASSUME NEW D, NEW Good,
         \A X \in SUBSET D : IsFiniteSet(X) /\ (\A Y \in SUBSET X : Y # X => Y \in Good) => X \in Good
  PROVE  \A X \in SUBSET D : IsFiniteSet(X) => X \in Good
<1> SUFFICES ASSUME \E X \in SUBSET D : IsFiniteSet(X) /\ X \notin Good
             PROVE  FALSE
  OBVIOUS
<1> DEFINE T == {X \in SUBSET D : IsFiniteSet(X) /\ X \notin Good}
<1>1. /\ IsWellFoundedOn(StrictSubsetOrdering(D), FiniteSubsetsOf(D))
      /\ T \subseteq FiniteSubsetsOf(D) /\ T # {}
  BY FS_StrictSubsetOrderingWellFounded DEF FiniteSubsetsOf
<1>2. PICK X \in T : \A Y \in T : <<Y, X>> \notin StrictSubsetOrdering(D)
  <2> HIDE DEF T
  <2> QED
    BY <1>1, WFMin, Zenon
<1>3. ASSUME NEW Y \in SUBSET X, Y # X
      PROVE  Y \in Good
  <2>1. IsFiniteSet(Y) /\ Y \in SUBSET D /\ <<Y, X>> \in StrictSubsetOrdering(D)
    BY <1>2, <1>3, FS_Subset DEF StrictSubsetOrdering
  <2> QED
    BY <1>2, <2>1
<1> QED
  BY <1>2, <1>3

-----------------------------------------------------------------------------
(* Sums of natural numbers over a finite set *)

First(s) == CHOOSE x \in s : TRUE

\* One table of the sums over all parts of X, as SumFunctionOnSet computes them.
SumsOf(f, X, g) ==
  g = [s \in SUBSET X |-> IF s = {} THEN 0 ELSE f[First(s)] + g[s \ {First(s)}]]

LEMMA SumIsTabled ==
  ASSUME NEW f, NEW X
  PROVE  SumFunctionOnSet(f, X) = (CHOOSE g : SumsOf(f, X, g))[X]
  BY DEF SumFunctionOnSet, FoldFunctionOnSet, MapThenFoldSet, SumsOf, First

LEMMA FirstIn ==
  ASSUME NEW s, s # {}
  PROVE  First(s) \in s
  BY DEF First

\* Two tables agree on the finite parts they have in common.
LEMMA TablesAgree ==
  ASSUME NEW f, NEW X, NEW Y, NEW g, NEW h, SumsOf(f, X, g), SumsOf(f, Y, h)
  PROVE  \A Z \in SUBSET X : IsFiniteSet(Z) /\ Z \subseteq Y => g[Z] = h[Z]
<1> DEFINE Good == {Z \in SUBSET X : Z \subseteq Y => g[Z] = h[Z]}
<1>1. ASSUME NEW Z \in SUBSET X, \A W \in SUBSET Z : W # Z => W \in Good
      PROVE  Z \in Good
  <2> SUFFICES ASSUME Z \subseteq Y
               PROVE  g[Z] = h[Z]
    OBVIOUS
  <2>1. /\ g[Z] = IF Z = {} THEN 0 ELSE f[First(Z)] + g[Z \ {First(Z)}]
        /\ h[Z] = IF Z = {} THEN 0 ELSE f[First(Z)] + h[Z \ {First(Z)}]
    BY DEF SumsOf
  <2>2. ASSUME Z # {}
        PROVE  g[Z \ {First(Z)}] = h[Z \ {First(Z)}]
    <3>1. First(Z) \in Z
      BY <2>2, FirstIn
    <3>2. Z \ {First(Z)} \in Good
      BY <1>1, <3>1
    <3> QED
      BY <3>2
  <2> QED
    BY <2>1, <2>2
<1>2. \A Z \in SUBSET X : IsFiniteSet(Z) => Z \in Good
  <2> HIDE DEF Good
  <2> QED
    BY <1>1, PartsInduct, Zenon
<1> QED
  BY <1>2

\* A finite set has a table.
LEMMA TableExists ==
  ASSUME NEW f, NEW D
  PROVE  \A X \in SUBSET D : IsFiniteSet(X) => SumsOf(f, X, CHOOSE g : SumsOf(f, X, g))
<1> DEFINE Good == {X \in SUBSET D : IsFiniteSet(X) => \E g : SumsOf(f, X, g)}
           T(X) == CHOOSE g : SumsOf(f, X, g)
<1>1. ASSUME NEW X \in SUBSET D, IsFiniteSet(X),
             \A Y \in SUBSET X : Y # X => Y \in Good
      PROVE  X \in Good
  <2> DEFINE g == [s \in SUBSET X |-> IF s = {} THEN 0
                                       ELSE f[First(s)] + T(s \ {First(s)})[s \ {First(s)}]]
  <2>1. ASSUME NEW Y \in SUBSET X, Y # X
        PROVE  SumsOf(f, Y, T(Y)) /\ IsFiniteSet(Y)
    <3>1. IsFiniteSet(Y)
      BY <1>1, FS_Subset
    <3>2. \E h : SumsOf(f, Y, h)
      BY <1>1, <2>1, <3>1
    <3> QED
      BY <3>1, <3>2
  <2>2. ASSUME NEW Y \in SUBSET X, Y # X
        PROVE  g[Y] = T(Y)[Y]
    <3>1. T(Y)[Y] = IF Y = {} THEN 0 ELSE f[First(Y)] + T(Y)[Y \ {First(Y)}]
      <4>1. PICK t : SumsOf(f, Y, t) /\ t = T(Y)
        BY <2>1, <2>2
      <4>2. t[Y] = IF Y = {} THEN 0 ELSE f[First(Y)] + t[Y \ {First(Y)}]
        BY <4>1 DEF SumsOf
      <4> HIDE DEF T
      <4> QED
        BY <4>1, <4>2
    <3>2. CASE Y # {}
      <4> DEFINE Z == Y \ {First(Y)}
      <4>1. Z \in SUBSET Y /\ Z \in SUBSET X /\ Z # X
        BY <3>2, FirstIn
      <4>2. SumsOf(f, Y, T(Y)) /\ SumsOf(f, Z, T(Z)) /\ IsFiniteSet(Z)
        BY <2>1, <2>2, <4>1
      <4>3. T(Y)[Z] = T(Z)[Z]
        <5> HIDE DEF Z, T
        <5> QED
          BY <4>1, <4>2, TablesAgree
      <4> QED
        BY <3>1, <3>2, <4>3
    <3>3. CASE Y = {}
      BY <3>1, <3>3
    <3> QED
      BY <3>2, <3>3
  <2>3. ASSUME NEW s \in SUBSET X
        PROVE  g[s] = IF s = {} THEN 0 ELSE f[First(s)] + g[s \ {First(s)}]
    <3>1. CASE s = {}
      BY <3>1
    <3>2. CASE s # {}
      <4>1. s \ {First(s)} \in SUBSET X /\ s \ {First(s)} # X
        BY <3>2, FirstIn
      <4>2. g[s \ {First(s)}] = T(s \ {First(s)})[s \ {First(s)}]
        BY <2>2, <4>1
      <4>3. g[s] = f[First(s)] + T(s \ {First(s)})[s \ {First(s)}]
        BY <3>2
      <4> QED
        BY <3>2, <4>2, <4>3
    <3> QED
      BY <3>1, <3>2
  <2>4. SumsOf(f, X, g)
    <3>1. g = [s \in SUBSET X |-> g[s]]
      OBVIOUS
    <3> HIDE DEF g
    <3>2. [s \in SUBSET X |-> g[s]]
            = [s \in SUBSET X |-> IF s = {} THEN 0 ELSE f[First(s)] + g[s \ {First(s)}]]
      BY <2>3
    <3> QED
      BY <3>1, <3>2 DEF SumsOf
  <2> QED
    BY <2>4
<1>2. \A X \in SUBSET D : IsFiniteSet(X) => X \in Good
  <2> HIDE DEF Good
  <2> QED
    BY <1>1, PartsInduct, Zenon
<1>3. \A X \in SUBSET D : IsFiniteSet(X) => \E g : SumsOf(f, X, g)
  BY <1>2
<1> QED
  BY <1>3

\* The sum over a finite set is what it is without its first, and the first.
LEMMA SumFirst ==
  ASSUME NEW f, NEW X, IsFiniteSet(X)
  PROVE  SumFunctionOnSet(f, X)
           = IF X = {} THEN 0 ELSE f[First(X)] + SumFunctionOnSet(f, X \ {First(X)})
<1> DEFINE T(Y) == CHOOSE g : SumsOf(f, Y, g)
<1>1. SumsOf(f, X, T(X)) /\ SumFunctionOnSet(f, X) = T(X)[X]
  BY TableExists, SumIsTabled
<1>2. T(X)[X] = IF X = {} THEN 0 ELSE f[First(X)] + T(X)[X \ {First(X)}]
  BY <1>1 DEF SumsOf
<1>3. CASE X # {}
  <2> DEFINE Z == X \ {First(X)}
  <2>1. Z \in SUBSET X /\ IsFiniteSet(Z)
    BY FS_Subset
  <2>2. SumsOf(f, Z, T(Z)) /\ SumFunctionOnSet(f, Z) = T(Z)[Z]
    BY <2>1, TableExists, SumIsTabled
  <2>3. T(X)[Z] = T(Z)[Z]
    <3> HIDE DEF Z, T
    <3> QED
      BY <1>1, <2>1, <2>2, TablesAgree
  <2> QED
    BY <1>1, <1>2, <1>3, <2>2, <2>3
<1> QED
  BY <1>1, <1>2, <1>3

\* It is a natural number, and any element can be taken first.
LEMMA SumTakes ==
  ASSUME NEW D, NEW f \in [D -> Nat]
  PROVE  \A X \in SUBSET D : IsFiniteSet(X) =>
           /\ SumFunctionOnSet(f, X) \in Nat
           /\ \A x \in X : SumFunctionOnSet(f, X) = f[x] + SumFunctionOnSet(f, X \ {x})
<1> DEFINE Sum(X) == SumFunctionOnSet(f, X)
           Good == {X \in SUBSET D : /\ Sum(X) \in Nat
                                     /\ \A x \in X : Sum(X) = f[x] + Sum(X \ {x})}
<1>1. ASSUME NEW X \in SUBSET D, IsFiniteSet(X), \A Y \in SUBSET X : Y # X => Y \in Good
      PROVE  X \in Good
  <2>1. \A Y \in SUBSET X : IsFiniteSet(Y)
    BY <1>1, FS_Subset
  <2>2. \A Y \in SUBSET X : Sum(Y) = IF Y = {} THEN 0 ELSE f[First(Y)] + Sum(Y \ {First(Y)})
    BY <2>1, SumFirst
  <2>3. CASE X = {}
    BY <2>2, <2>3
  <2>4. CASE X # {}
    <3> DEFINE c == First(X)
    <3>1. c \in X /\ X \ {c} \in SUBSET X /\ X \ {c} # X
      BY <2>4, FirstIn
    <3> HIDE DEF Sum
    <3>2. Sum(X) = f[c] + Sum(X \ {c}) /\ Sum(X \ {c}) \in Nat /\ f[c] \in Nat
      BY <1>1, <2>2, <2>4, <3>1
    <3>3. ASSUME NEW x \in X, x # c
          PROVE  Sum(X) = f[x] + Sum(X \ {x})
      <4>1. /\ X \ {x} \in SUBSET X /\ X \ {x} # X
            /\ (X \ {c}) \ {x} = (X \ {x}) \ {c} /\ (X \ {c}) \ {x} \in SUBSET X /\ (X \ {c}) \ {x} # X
        BY <3>3
      <4>2. Sum(X \ {c}) = f[x] + Sum((X \ {c}) \ {x})
        BY <1>1, <3>1, <3>3
      <4>3. Sum(X \ {x}) = f[c] + Sum((X \ {x}) \ {c})
        BY <1>1, <3>1, <3>3, <4>1
      <4>4. f[x] \in Nat /\ Sum((X \ {c}) \ {x}) \in Nat
        BY <1>1, <4>1
      <4>5. Sum((X \ {c}) \ {x}) = Sum((X \ {x}) \ {c})
        BY <4>1
      <4> HIDE DEF c
      <4> QED
        BY <3>2, <3>3, <4>2, <4>3, <4>4, <4>5
    <3>4. Sum(X) \in Nat
      BY <3>2
    <3> QED
      BY <3>2, <3>3, <3>4
  <2> QED
    BY <2>3, <2>4
<1>2. \A X \in SUBSET D : IsFiniteSet(X) => X \in Good
  <2> HIDE DEF Good
  <2> QED
    BY <1>1, PartsInduct, Zenon
<1> QED
  BY <1>2

\* Adding an element to what is summed.
LEMMA SumAdds ==
  ASSUME NEW D, NEW f \in [D -> Nat], NEW X \in SUBSET D, IsFiniteSet(X),
         NEW x \in D, x \notin X
  PROVE  /\ SumFunctionOnSet(f, X \cup {x}) = f[x] + SumFunctionOnSet(f, X)
         /\ SumFunctionOnSet(f, X) \in Nat
         /\ SumFunctionOnSet(f, {}) = 0
<1>1. /\ X \cup {x} \in SUBSET D /\ x \in X \cup {x} /\ (X \cup {x}) \ {x} = X
      /\ IsFiniteSet(X \cup {x}) /\ IsFiniteSet({})
  BY FS_AddElement, FS_EmptySet
<1>2. SumFunctionOnSet(f, X \cup {x}) = f[x] + SumFunctionOnSet(f, (X \cup {x}) \ {x})
  BY <1>1, SumTakes
<1> QED
  BY <1>1, <1>2, SumTakes, SumFirst

-----------------------------------------------------------------------------
(* Largest and smallest numbers *)

LEMMA LargestExists ==
  \A n \in Nat : \A s \in SUBSET (1 .. n) : s # {} => \E x \in s : \A y \in s : x >= y
<1> DEFINE S == {n \in Nat : \A s \in SUBSET (1 .. n) : s # {} => \E x \in s : \A y \in s : x >= y}
<1>1. 0 \in S
  <2>1. 1 .. 0 = {}
    OBVIOUS
  <2> QED
    BY <2>1
<1>2. ASSUME NEW n \in Nat, n \in S
      PROVE  n + 1 \in S
  <2>1. ASSUME NEW s \in SUBSET (1 .. n + 1), s # {}
        PROVE  \E x \in s : \A y \in s : x >= y
    <3>1. CASE n + 1 \in s
      BY <3>1
    <3>2. CASE n + 1 \notin s
      <4>1. s \in SUBSET (1 .. n)
        BY <3>2
      <4> QED
        BY <1>2, <2>1, <4>1
    <3> QED
      BY <3>1, <3>2
  <2> QED
    BY <2>1
<1>3. Nat \subseteq S
  <2> HIDE DEF S
  <2> QED
    BY <1>1, <1>2, NumbersInduct, Zenon
<1> QED
  BY <1>3

LEMMA MaxOfNumbers ==
  ASSUME NEW n \in Nat, NEW s \in SUBSET (1 .. n), s # {}
  PROVE  Max(s) \in s /\ \A y \in s : y <= Max(s)
<1>1. \E x \in s : \A y \in s : x >= y
  BY LargestExists
<1>2. Max(s) \in s /\ \A y \in s : Max(s) >= y
  BY <1>1, Zenon DEF Max
<1> QED
  BY <1>2

LEMMA MaxIsLast ==
  ASSUME NEW m \in Nat, NEW s \in SUBSET (1 .. m), m \in s
  PROVE  Max(s) = m
<1>1. Max(s) \in s /\ \A y \in s : y <= Max(s)
  BY MaxOfNumbers
<1>2. Max(s) \in 1 .. m /\ m <= Max(s)
  BY <1>1
<1> QED
  BY <1>2

LEMMA MinOfNumbers ==
  ASSUME NEW n \in Nat, NEW s \in SUBSET (1 .. n), s # {}
  PROVE  Min(s) \in s /\ \A y \in s : Min(s) <= y
<1> DEFINE mirror == {m \in 1 .. n : n + 1 - m \in s}
<1>1. mirror \in SUBSET (1 .. n) /\ mirror # {}
  <2>1. PICK x \in s : TRUE
    OBVIOUS
  <2>2. x \in 1 .. n /\ n + 1 - (n + 1 - x) = x /\ n + 1 - x \in 1 .. n
    BY <2>1
  <2>3. n + 1 - x \in mirror
    BY <2>1, <2>2
  <2> QED
    BY <2>3
<1>2. PICK x \in mirror : \A y \in mirror : x >= y
  <2> HIDE DEF mirror
  <2> QED
    BY <1>1, LargestExists
<1>3. ASSUME NEW y \in s
      PROVE  n + 1 - x <= y
  <2>1. n + 1 - y \in 1 .. n /\ n + 1 - (n + 1 - y) = y
    OBVIOUS
  <2>2. x >= n + 1 - y
    BY <1>2, <2>1
  <2> QED
    BY <2>1, <2>2
<1>4. n + 1 - x \in s
  BY <1>2
<1>5. Min(s) \in s /\ \A y \in s : Min(s) =< y
  <2>1. \E z \in s : \A y \in s : z =< y
    BY <1>3, <1>4
  <2> QED
    BY <2>1, Zenon DEF Min
<1> QED
  BY <1>5

\* A larger number leaves the smallest.
LEMMA MinStays ==
  ASSUME NEW n \in Nat, NEW s \in SUBSET (1 .. n), s # {}
  PROVE  Min(s \cup {n + 1}) = Min(s)
<1>1. Min(s) \in s /\ \A y \in s : Min(s) <= y
  BY MinOfNumbers
<1>2. s \cup {n + 1} \in SUBSET (1 .. n + 1) /\ s \cup {n + 1} # {}
  OBVIOUS
<1>3. Min(s \cup {n + 1}) \in s \cup {n + 1} /\ \A y \in s \cup {n + 1} : Min(s \cup {n + 1}) <= y
  BY <1>2, MinOfNumbers
<1> DEFINE a == Min(s)
           b == Min(s \cup {n + 1})
<1>4. a \in s /\ a \in 1 .. n /\ b \in s \cup {n + 1} /\ b \in 1 .. n + 1
  BY <1>1, <1>2, <1>3
<1>5. (\A y \in s : a <= y) /\ b <= a
  BY <1>1, <1>3
<1> HIDE DEF a, b
<1>6. a <= b
  BY <1>4, <1>5
<1>7. a = b
  BY <1>4, <1>5, <1>6
<1> QED
  BY <1>7 DEF a, b

LEMMA MinOfOne ==
  ASSUME NEW n \in Nat
  PROVE  Min({n}) = n
<1>1. \E x \in {n} : \A y \in {n} : x =< y
  OBVIOUS
<1>2. Min({n}) \in {n}
  BY <1>1, Zenon DEF Min
<1> QED
  BY <1>2

-----------------------------------------------------------------------------
(* Tables of what a loop computes in so many turns, and chains of sets *)

\* A function of the steps 0 .. n.
IsTable(t, n) == t = [i \in 0 .. n |-> t[i]]

\* What takes the elements of each set into the next.
Leads(n, S, start, f) ==
  /\ n \in Nat /\ start \in S[0]
  /\ \A i \in 1 .. n : \A x \in S[i - 1] : f[i][x] \in S[i]

\* A table of what it makes of the first.
Tables(t, n, S, start, f) ==
  /\ IsTable(t, n) /\ t[0] = start
  /\ \A i \in 0 .. n : t[i] \in S[i]
  /\ \A i \in 1 .. n : t[i] = f[i][t[i - 1]]

\* There is one.
LEMMA TableOfSteps ==
  ASSUME NEW n, NEW S, NEW start, NEW f, Leads(n, S, start, f)
  PROVE  \E t : Tables(t, n, S, start, f)
<1> DEFINE Made(t, m) == /\ IsTable(t, m) /\ t[0] = start
                         /\ \A i \in 0 .. m : t[i] \in S[i]
                         /\ \A i \in 1 .. m : t[i] = f[i][t[i - 1]]
           Good == {m \in Nat : m <= n => \E t : Made(t, m)}
<1>0. /\ n \in Nat /\ start \in S[0]
      /\ \A i \in 1 .. n : \A x \in S[i - 1] : f[i][x] \in S[i]
  BY DEF Leads
<1>1. 0 \in Good
  <2> DEFINE t == [i \in 0 .. 0 |-> start]
  <2>1. Made(t, 0)
    BY <1>0 DEF IsTable
  <2> QED
    BY <2>1
<1>2. ASSUME NEW m \in Nat, m \in Good
      PROVE  m + 1 \in Good
  <2> SUFFICES ASSUME m + 1 <= n
               PROVE  \E t : Made(t, m + 1)
    OBVIOUS
  <2>1. PICK t : Made(t, m)
    <3>1. m <= n
      BY <1>0
    <3> HIDE DEF Made
    <3> QED
      BY <1>2, <3>1
  <2> DEFINE u == [i \in 0 .. m + 1 |-> IF i = m + 1 THEN f[m + 1][t[m]] ELSE t[i]]
  <2>2. IsTable(u, m + 1) /\ u[0] = start
    BY <2>1 DEF IsTable
  <2>3. t[m] \in S[m] /\ f[m + 1][t[m]] \in S[m + 1]
    <3>1. m + 1 \in 1 .. n /\ (m + 1) - 1 = m
      BY <1>0
    <3>2. t[m] \in S[m]
      BY <2>1
    <3> QED
      BY <1>0, <3>1, <3>2
  <2>4. ASSUME NEW i \in 0 .. m + 1
        PROVE  u[i] \in S[i]
    BY <2>1, <2>3
  <2>5. ASSUME NEW i \in 1 .. m + 1
        PROVE  u[i] = f[i][u[i - 1]]
    <3>1. i \in 0 .. m + 1 /\ i - 1 \in 0 .. m /\ i - 1 # m + 1 /\ i - 1 \in 0 .. m + 1
      OBVIOUS
    <3>2. u[i - 1] = t[i - 1]
      BY <3>1
    <3>3. CASE i = m + 1
      <4>1. i - 1 = m
        BY <3>3
      <4>2. u[i] = f[m + 1][t[m]]
        BY <3>1, <3>3
      <4> QED
        BY <3>2, <3>3, <4>1, <4>2
    <3>4. CASE i # m + 1
      <4>1. u[i] = t[i] /\ i \in 1 .. m
        BY <3>1, <3>4
      <4>2. t[i] = f[i][t[i - 1]]
        BY <2>1, <4>1
      <4> QED
        BY <3>2, <4>1, <4>2
    <3> QED
      BY <3>3, <3>4
  <2>6. Made(u, m + 1)
    <3> HIDE DEF u
    <3> QED
      BY <2>2, <2>4, <2>5
  <2> QED
    BY <2>6
<1>3. Nat \subseteq Good
  <2> HIDE DEF Good
  <2> QED
    BY <1>1, <1>2, NumbersInduct, Zenon
<1>4. \E t : Made(t, n)
  <2> HIDE DEF Made
  <2> QED
    BY <1>0, <1>3
<1> QED
  BY <1>4 DEF Tables

\* Two tables that start alike and go on alike are alike.
LEMMA TablesMeet ==
  ASSUME NEW n \in Nat, NEW t, NEW g, t[0] = g[0],
         \A i \in 1 .. n : t[i - 1] = g[i - 1] => t[i] = g[i]
  PROVE  t[n] = g[n]
<1> DEFINE Good == {m \in Nat : m <= n => t[m] = g[m]}
<1>1. 0 \in Good
  OBVIOUS
<1>2. ASSUME NEW m \in Nat, m \in Good
      PROVE  m + 1 \in Good
  <2>1. m + 1 <= n => m + 1 \in 1 .. n /\ (m + 1) - 1 = m
    OBVIOUS
  <2> QED
    BY <1>2, <2>1
<1>3. Nat \subseteq Good
  <2> HIDE DEF Good
  <2> QED
    BY <1>1, <1>2, NumbersInduct, Zenon
<1> QED
  BY <1>3

\* A chain of sets of n elements has come to its end after n steps.
LEMMA ChainStops ==
  ASSUME NEW n \in Nat, NEW t,
         \A k \in 0 .. n + 1 : t[k] \in SUBSET (1 .. n),
         \A k \in 0 .. n : t[k] \subseteq t[k + 1],
         \A k \in 0 .. n : k # n /\ t[k + 1] = t[k] => t[(k + 1) + 1] = t[k + 1]
  PROVE  t[n + 1] = t[n]
<1>0. IsFiniteSet(1 .. n) /\ Cardinality(1 .. n) = n
  <2>1. 1 \in Int /\ n \in Int
    OBVIOUS
  <2> QED
    BY <2>1, FS_Interval
<1>1. \A k \in 0 .. n + 1 : IsFiniteSet(t[k]) /\ Cardinality(t[k]) \in Nat /\ Cardinality(t[k]) <= n
  BY <1>0, FS_Subset, FS_CardinalityType
<1> DEFINE Grown(k) == Cardinality(t[k]) >= k \/ t[k + 1] = t[k]
           Good == {k \in Nat : k <= n => Grown(k)}
<1>2. 0 \in Good
  <2>1. 0 \in 0 .. n + 1
    OBVIOUS
  <2> QED
    BY <1>1, <2>1
<1>3. ASSUME NEW k \in Nat, k \in Good
      PROVE  k + 1 \in Good
  <2> SUFFICES ASSUME k + 1 <= n
               PROVE  Grown(k + 1)
    OBVIOUS
  <2>0. k \in 0 .. n /\ k # n /\ k \in 0 .. n + 1 /\ k + 1 \in 0 .. n + 1
    OBVIOUS
  <2>1. Grown(k)
    BY <1>3, <2>0
  <2>2. CASE t[k + 1] = t[k]
    <3>1. t[(k + 1) + 1] = t[k + 1]
      BY <2>0, <2>2
    <3> QED
      BY <3>1
  <2>3. CASE t[k + 1] # t[k]
    <3>1. Cardinality(t[k]) >= k
      BY <2>1, <2>3
    <3>2. t[k] \subseteq t[k + 1] /\ IsFiniteSet(t[k + 1])
      BY <1>1, <2>0
    <3>3. Cardinality(t[k]) <= Cardinality(t[k + 1]) /\ Cardinality(t[k]) # Cardinality(t[k + 1])
      BY <2>3, <3>2, FS_Subset
    <3>4. Cardinality(t[k]) \in Nat /\ Cardinality(t[k + 1]) \in Nat
      BY <1>1, <2>0
    <3>5. Cardinality(t[k + 1]) >= k + 1
      BY <3>1, <3>3, <3>4
    <3> QED
      BY <3>5
  <2> QED
    BY <2>2, <2>3
<1>4. Grown(n)
  <2> HIDE DEF Grown
  <2>1. Nat \subseteq Good
    <3> HIDE DEF Good
    <3> QED
      BY <1>2, <1>3, NumbersInduct, Zenon
  <2> QED
    BY <2>1
<1>5. CASE t[n + 1] # t[n]
  <2>0. n \in 0 .. n /\ n \in 0 .. n + 1 /\ n + 1 \in 0 .. n + 1
    OBVIOUS
  <2>1. Cardinality(t[n]) = n
    BY <1>1, <1>4, <1>5, <2>0
  <2>2. t[n] \subseteq 1 .. n /\ t[n + 1] \subseteq 1 .. n /\ t[n] \subseteq t[n + 1]
    BY <2>0
  <2>3. t[n] = 1 .. n
    BY <1>0, <2>1, <2>2, FS_Subset
  <2> QED
    BY <1>5, <2>2, <2>3
<1> QED
  BY <1>5

\* What a function makes of a finite set is finite.
LEMMA FiniteImage ==
  ASSUME NEW S, IsFiniteSet(S), NEW f
  PROVE  IsFiniteSet({f[x] : x \in S})
<1> DEFINE T == {f[x] : x \in S}
           h == [x \in S |-> f[x]]
<1>1. h \in Surjection(S, T)
  BY DEF Surjection
<1> HIDE DEF h, T
<1>2. IsFiniteSet(T)
  BY <1>1, FS_Surjection
<1> QED
  BY <1>2 DEF T

-----------------------------------------------------------------------------
(* Sequences that are taken apart and put together *)

\* The last element of a sequence, and the rest.
LEMMA TopOf ==
  ASSUME NEW T, NEW s \in Seq(T), s # << >>
  PROVE  /\ Len(s) \in Nat \ {0} /\ Last(s) = s[Len(s)] /\ Last(s) \in T
         /\ Front(s) \in Seq(T) /\ Len(Front(s)) = Len(s) - 1
         /\ \A k \in 1 .. Len(s) - 1 : Front(s)[k] = s[k]
  BY DEF Last, Front

\* What a sequence contains when an element and then others are appended.
LEMMA PutOn ==
  ASSUME NEW T, NEW s \in Seq(T), NEW x \in T, NEW r \in Seq(T)
  PROVE  LET u == (s \o <<x>>) \o r IN
         /\ u \in Seq(T) /\ Len(u) = Len(s) + 1 + Len(r)
         /\ \A k \in 1 .. Len(s) : u[k] = s[k]
         /\ u[Len(s) + 1] = x
         /\ \A k \in 1 .. Len(r) : u[Len(s) + 1 + k] = r[k]
<1>1. /\ Len(s) \in Nat /\ Len(r) \in Nat /\ s \o <<x>> \in Seq(T) /\ Len(s \o <<x>>) = Len(s) + 1
      /\ \A k \in 1 .. Len(s) : (s \o <<x>>)[k] = s[k]
      /\ (s \o <<x>>)[Len(s) + 1] = x
  OBVIOUS
<1> DEFINE v == s \o <<x>>
<1> HIDE DEF v
<1>2. v \in Seq(T) /\ Len(v) = Len(s) + 1 /\ (\A k \in 1 .. Len(s) : v[k] = s[k]) /\ v[Len(s) + 1] = x
  BY <1>1 DEF v
<1>3. v \o r \in Seq(T) /\ Len(v \o r) = Len(v) + Len(r)
  BY <1>2
<1>4. \A k \in 1 .. Len(s) + 1 : (v \o r)[k] = v[k]
  BY <1>1, <1>2
<1>5. \A k \in 1 .. Len(r) : (v \o r)[Len(s) + 1 + k] = r[k]
  BY <1>1, <1>2
<1>6. \A k \in 1 .. Len(s) : k \in 1 .. Len(s) + 1
  BY <1>1
<1>7. Len(s) + 1 \in 1 .. Len(s) + 1
  BY <1>1
<1> QED
  BY <1>1, <1>2, <1>3, <1>4, <1>5, <1>6, <1>7 DEF v

\* What it contains when one is put in front.
LEMMA PutFirst ==
  ASSUME NEW T, NEW s \in Seq(T), NEW x \in T
  PROVE  LET u == <<x>> \o s IN
         /\ u \in Seq(T) /\ Len(u) = Len(s) + 1 /\ u[1] = x /\ Len(s) \in Nat
         /\ \A k \in 1 .. Len(s) : u[k + 1] = s[k]
         /\ \A k \in 2 .. Len(s) + 1 : u[k] = s[k - 1]
         /\ ToSet(u) = ToSet(s) \cup {x}
<1> DEFINE u == <<x>> \o s
<1>1. /\ u \in Seq(T) /\ Len(u) = Len(s) + 1 /\ u[1] = x /\ Len(s) \in Nat
      /\ \A k \in 1 .. Len(s) : u[k + 1] = s[k]
  OBVIOUS
<1> HIDE DEF u
<1>2. ASSUME NEW k \in 2 .. Len(s) + 1
      PROVE  u[k] = s[k - 1]
  <2>1. k - 1 \in 1 .. Len(s) /\ (k - 1) + 1 = k
    BY <1>1
  <2> QED
    BY <1>1, <2>1
<1>3. ToSet(u) = ToSet(s) \cup {x}
  <2>1. DOMAIN u = 1 .. Len(s) + 1 /\ DOMAIN s = 1 .. Len(s)
    BY <1>1
  <2>2. ASSUME NEW y \in ToSet(u)
        PROVE  y \in ToSet(s) \cup {x}
    <3>1. PICK k \in 1 .. Len(s) + 1 : y = u[k]
      BY <2>1 DEF ToSet
    <3>2. k = 1 \/ (k - 1 \in 1 .. Len(s) /\ k \in 2 .. Len(s) + 1)
      BY <1>1
    <3> QED
      BY <1>1, <1>2, <2>1, <3>1, <3>2 DEF ToSet
  <2>3. ASSUME NEW y \in ToSet(s)
        PROVE  y \in ToSet(u)
    <3>1. PICK k \in 1 .. Len(s) : y = s[k]
      BY <2>1 DEF ToSet
    <3>2. k + 1 \in 1 .. Len(s) + 1
      BY <1>1
    <3> QED
      BY <1>1, <2>1, <3>1, <3>2 DEF ToSet
  <2>4. x \in ToSet(u)
    <3>1. 1 \in 1 .. Len(s) + 1
      BY <1>1
    <3> QED
      BY <1>1, <2>1, <3>1 DEF ToSet
  <2> QED
    BY <2>2, <2>3, <2>4
<1> QED
  BY <1>1, <1>2, <1>3 DEF u

\* Where the elements of one sequence after another are.
LEMMA OneAfterOther ==
  ASSUME NEW T, NEW s \in Seq(T), NEW r \in Seq(T)
  PROVE  LET u == s \o r IN
         /\ u \in Seq(T) /\ Len(s) \in Nat /\ Len(r) \in Nat
         /\ \A k \in 1 .. Len(s) : k \in DOMAIN u /\ u[k] = s[k]
         /\ \A k \in 1 .. Len(r) : Len(s) + k \in DOMAIN u /\ u[Len(s) + k] = r[k]
         /\ \A i \in DOMAIN u : i \in 1 .. Len(s) \/ \E k \in 1 .. Len(r) : i = Len(s) + k
<1> DEFINE u == s \o r
           N == Len(s)
           M == Len(r)
<1>1. N \in Nat /\ M \in Nat /\ u \in Seq(T) /\ Len(u) = N + M /\ DOMAIN u = 1 .. Len(u)
  OBVIOUS
<1>2. \A k \in 1 .. N : u[k] = s[k]
  OBVIOUS
<1>3. \A k \in 1 .. M : u[N + k] = r[k]
  OBVIOUS
<1> HIDE DEF u, N, M
<1>4. \A i \in 1 .. N + M : i \in 1 .. N \/ \E k \in 1 .. M : i = N + k
  <2> SUFFICES ASSUME NEW i \in 1 .. N + M, i \notin 1 .. N
               PROVE  \E k \in 1 .. M : i = N + k
    OBVIOUS
  <2>1. i - N \in 1 .. M /\ i = N + (i - N)
    BY <1>1
  <2> QED
    BY <2>1
<1>5. \A k \in 1 .. N : k \in 1 .. N + M
  BY <1>1
<1>6. \A k \in 1 .. M : N + k \in 1 .. N + M
  BY <1>1
<1> QED
  BY <1>1, <1>2, <1>3, <1>4, <1>5, <1>6 DEF u, N, M
=============================================================================

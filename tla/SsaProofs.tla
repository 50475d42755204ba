----------------------------- MODULE SsaProofs -----------------------------
(***************************************************************************)
(* What holds of ControlFlow, SsaForm and SsaExecution for any function: the *)
(* walk puts every block that is reached after one that leads to it, the     *)
(* rounds end in the immediate dominators, and with the phis on the          *)
(* frontiers of these an operand has the value of its variable, where every *)
(* variable has one width.  What the passes leave of it then yields the      *)
(* same, by the equations between the values that hold wherever an execution *)
(* comes.                                                                    *)
(***************************************************************************)
EXTENDS SsaExecution, InductionLemmas

\* The numbers of a finite set in their order.
LEMMA AscendingOrder ==
  ASSUME NEW n \in Nat, NEW S \in SUBSET (1 .. n)
  PROVE  /\ IsFiniteSet(S) /\ Cardinality(S) \in Nat
         /\ Ascending(S) \in [1 .. Cardinality(S) -> S]
         /\ \A x \in S : \E i \in 1 .. Cardinality(S) : Ascending(S)[i] = x
         /\ \A i, j \in 1 .. Cardinality(S) : i < j => Ascending(S)[i] < Ascending(S)[j]
<1> DEFINE Below(x) == {y \in S : y < x}
           N == Cardinality(S)
           rank == [x \in S |-> Cardinality(Below(x))]
<1>0. 1 \in Int /\ n \in Int /\ 0 \in Int
  OBVIOUS
<1>1. IsFiniteSet(S) /\ N \in Nat /\ \A X \in SUBSET S : IsFiniteSet(X) /\ Cardinality(X) \in Nat
  <2>1. IsFiniteSet(1 .. n)
    BY <1>0, FS_Interval
  <2>2. IsFiniteSet(S)
    BY <2>1, FS_Subset
  <2>3. \A X \in SUBSET S : IsFiniteSet(X)
    BY <2>2, FS_Subset
  <2> QED
    BY <2>2, <2>3, FS_CardinalityType
<1>2. ASSUME NEW x \in S
      PROVE  rank[x] \in 0 .. N - 1
  <2>1. Below(x) \in SUBSET S /\ x \notin Below(x)
    OBVIOUS
  <2>2. Cardinality(Below(x)) <= N /\ (Cardinality(Below(x)) = N => Below(x) = S)
    BY <1>1, <2>1, FS_Subset
  <2> QED
    BY <1>1, <2>1, <2>2
<1>3. ASSUME NEW x \in S, NEW y \in S, x < y
      PROVE  rank[x] < rank[y]
  <2>0. \A z \in S : z \in Int
    OBVIOUS
  <2>1. Below(x) \in SUBSET Below(y) /\ x \in Below(y) /\ x \notin Below(x) /\ Below(y) \in SUBSET S /\ Below(x) \in SUBSET S
    <3>1. \A z \in S : z < x => z < y
      BY <1>3, <2>0
    <3>2. ~(x < x)
      BY <2>0
    <3> QED
      BY <1>3, <3>1, <3>2
  <2>2. IsFiniteSet(Below(y)) /\ Cardinality(Below(x)) \in Nat /\ Cardinality(Below(y)) \in Nat
    BY <1>1, <2>1
  <2>3. Cardinality(Below(x)) <= Cardinality(Below(y)) /\ (Cardinality(Below(x)) = Cardinality(Below(y)) => Below(x) = Below(y))
    <3> HIDE DEF Below
    <3> QED
      BY <2>1, <2>2, FS_Subset
  <2> QED
    BY <2>1, <2>2, <2>3
<1>4. rank \in [S -> 0 .. N - 1] /\ \A x, y \in S : rank[x] = rank[y] => x = y
  <2>1. rank \in [S -> 0 .. N - 1]
    BY <1>2
  <2>2. \A x, y \in S : rank[x] \in Int /\ x \in Int /\ y \in Int
    BY <1>1
  <2> HIDE DEF rank
  <2>3. \A x, y \in S : rank[x] = rank[y] => ~(x < y) /\ ~(y < x)
    BY <1>3, <2>2
  <2> QED
    BY <2>1, <2>2, <2>3
<1>5. IsFiniteSet(0 .. N - 1) /\ Cardinality(0 .. N - 1) = N
  <2>1. N - 1 \in Int
    BY <1>1
  <2> QED
    BY <1>0, <1>1, <2>1, FS_Interval
<1>6. \A k \in 0 .. N - 1 : \E x \in S : rank[x] = k
  <2>1. rank \in Injection(S, 0 .. N - 1)
    <3> HIDE DEF rank
    <3> QED
      BY <1>4 DEF Injection, IsInjective
  <2> HIDE DEF rank
  <2>2. rank \in Surjection(S, 0 .. N - 1)
    BY <1>1, <1>5, <2>1, FS_Injection
  <2> QED
    BY <2>2 DEF Surjection
<1>7. ASSUME NEW i \in 1 .. N
      PROVE  Ascending(S)[i] \in S /\ rank[Ascending(S)[i]] = i - 1
  <2>1. i - 1 \in 0 .. N - 1
    BY <1>1
  <2>2. \E x \in S : Cardinality({y \in S : y < x}) = i - 1
    BY <1>6, <2>1
  <2>3. Ascending(S)[i] = CHOOSE x \in S : Cardinality({y \in S : y < x}) = i - 1
    BY DEF Ascending
  <2>4. Ascending(S)[i] \in S /\ Cardinality({y \in S : y < Ascending(S)[i]}) = i - 1
    BY <2>2, <2>3
  <2> QED
    BY <2>4
<1>8. ASSUME NEW x \in S
      PROVE  \E i \in 1 .. N : Ascending(S)[i] = x
  <2>1. rank[x] + 1 \in 1 .. N /\ (rank[x] + 1) - 1 = rank[x]
    BY <1>1, <1>2
  <2>2. Ascending(S)[rank[x] + 1] = x
    <3> HIDE DEF rank
    <3> QED
      BY <1>4, <1>7, <2>1
  <2> QED
    BY <2>1, <2>2
<1>9. Ascending(S) = [i \in 1 .. N |-> CHOOSE x \in S : Cardinality({y \in S : y < x}) = i - 1]
  BY DEF Ascending
<1>10. Ascending(S) \in [1 .. N -> S]
  BY <1>7, <1>9
<1>11. ASSUME NEW i \in 1 .. N, NEW j \in 1 .. N, i < j
       PROVE  Ascending(S)[i] < Ascending(S)[j]
  <2> DEFINE x == Ascending(S)[i]
             y == Ascending(S)[j]
  <2>1. x \in S /\ y \in S /\ rank[x] = i - 1 /\ rank[y] = j - 1
    BY <1>7
  <2> HIDE DEF x, y, rank
  <2>2. i \in Int /\ j \in Int /\ x \in Int /\ y \in Int
    BY <1>1, <2>1
  <2>3. rank[x] < rank[y]
    BY <1>11, <2>1, <2>2
  <2>4. x # y /\ ~(y < x)
    BY <1>3, <2>1, <2>2, <2>3
  <2> QED
    BY <2>2, <2>4 DEF x, y
<1> QED
  BY <1>1, <1>8, <1>10, <1>11

\* Each is once among them.
LEMMA AscendingSet ==
  ASSUME NEW n \in Nat, NEW S \in SUBSET (1 .. n)
  PROVE  /\ IsFiniteSet(S) /\ Cardinality(S) \in Nat
         /\ Ascending(S) \in [1 .. Cardinality(S) -> S]
         /\ \A x \in S : \E i \in 1 .. Cardinality(S) : Ascending(S)[i] = x
  BY AscendingOrder

\* A control-flow graph of n blocks.
IsGraph(g, n) ==
  /\ n \in Nat \ {0} /\ Len(g.ops) = n /\ DOMAIN g.ops = 1 .. n
  /\ \A b \in 1 .. n : g.succ[b] \in Seq(1 .. n)

\* The blocks are the numbers up to n, and edges lead to blocks.
LEMMA Edges ==
  ASSUME NEW g, NEW n, IsGraph(g, n)
  PROVE  /\ Blocks(g) = 1 .. n /\ EntryBlock \in 1 .. n
         /\ \A b \in 1 .. n : ToSet(g.succ[b]) \subseteq 1 .. n
  BY DEF IsGraph, Blocks, ToSet, EntryBlock

\* The stages in which a closure is computed.
Traced(g, n, without, t) ==
  /\ IsTable(t, n) /\ t[0] = {EntryBlock}
  /\ \A i \in 1 .. n : t[i] = Further(g, t[i - 1], without)
  /\ \A i \in 0 .. n : t[i] \in SUBSET (1 .. n)

Stages(g, n, without) == CHOOSE t : Traced(g, n, without, t)

\* Every closure has its stages.
LEMMA StagesExist ==
  ASSUME NEW g, NEW n, IsGraph(g, n), NEW without
  PROVE  /\ Traced(g, n, without, Stages(g, n, without))
         /\ Closure(g, without) = Stages(g, n, without)[n]
<1> DEFINE S == [i \in 0 .. n |-> SUBSET (1 .. n)]
           f == [i \in 1 .. n |-> [X \in SUBSET (1 .. n) |-> Further(g, X, without)]]
<1>0. n \in Nat /\ n # 0 /\ Len(g.ops) = n
  BY DEF IsGraph
<1>1. n \in Nat /\ {EntryBlock} \in S[0] /\ Len(g.ops) = n
  <2>1. 0 \in 0 .. n /\ EntryBlock \in 1 .. n
    BY <1>0 DEF EntryBlock
  <2> QED
    BY <1>0, <2>1
<1>2. ASSUME NEW X \in SUBSET (1 .. n)
      PROVE  Further(g, X, without) \in SUBSET (1 .. n)
  BY Edges DEF Further
<1>3. ASSUME NEW i \in 1 .. n, NEW X \in S[i - 1]
      PROVE  f[i][X] \in S[i] /\ f[i][X] = Further(g, X, without)
  <2>1. i \in 0 .. n /\ i - 1 \in 0 .. n
    BY <1>1
  <2> QED
    BY <1>2, <2>1
<1>4. PICK t : Tables(t, n, S, {EntryBlock}, f)
  <2>1. Leads(n, S, {EntryBlock}, f)
    <3> HIDE DEF S, f
    <3> QED
      BY <1>1, <1>3 DEF Leads
  <2> HIDE DEF S, f
  <2> QED
    BY <2>1, TableOfSteps
<1>5. Traced(g, n, without, t)
  <2>1. \A i \in 0 .. n : t[i] \in SUBSET (1 .. n)
    BY <1>4 DEF Tables
  <2>2. ASSUME NEW i \in 1 .. n
        PROVE  t[i] = Further(g, t[i - 1], without)
    <3>1. i - 1 \in 0 .. n
      BY <1>1
    <3> HIDE DEF S, f
    <3>2. t[i - 1] \in S[i - 1] /\ t[i] = f[i][t[i - 1]]
      BY <1>4, <3>1 DEF Tables
    <3> QED
      BY <1>3, <3>2
  <2> HIDE DEF S, f
  <2> QED
    BY <1>4, <2>1, <2>2 DEF Traced, Tables
<1>6. Traced(g, n, without, Stages(g, n, without))
  BY <1>5 DEF Stages
<1> DEFINE u == Stages(g, n, without)
           after == CHOOSE a : a = [i \in 0 .. n |-> IF i = 0 THEN {EntryBlock} ELSE Further(g, a[i - 1], without)]
<1>7. u = [i \in 0 .. n |-> IF i = 0 THEN {EntryBlock} ELSE Further(g, u[i - 1], without)]
  <2> HIDE DEF u
  <2>0. Traced(g, n, without, u)
    BY <1>6 DEF u
  <2>1. \A i \in 0 .. n : u[i] = IF i = 0 THEN {EntryBlock} ELSE Further(g, u[i - 1], without)
    <3>1. \A i \in 0 .. n : i = 0 \/ i \in 1 .. n
      BY <1>0
    <3> QED
      BY <2>0, <3>1 DEF Traced
  <2>2. u = [i \in 0 .. n |-> u[i]]
    BY <2>0 DEF Traced, IsTable
  <2> QED
    BY <2>1, <2>2
<1>8. after = [i \in 0 .. n |-> IF i = 0 THEN {EntryBlock} ELSE Further(g, after[i - 1], without)]
  <2> HIDE DEF u
  <2> QED
    BY <1>7
<1>9. Closure(g, without) = after[n]
  BY <1>1, Zenon DEF Closure, Loop
<1>10. after[n] = u[n]
  <2>1. u[0] = {EntryBlock} /\ \A i \in 1 .. n : u[i] = Further(g, u[i - 1], without)
    BY <1>6 DEF Traced
  <2> HIDE DEF u, after
  <2>2. after[0] = {EntryBlock} /\ \A i \in 1 .. n : after[i] = Further(g, after[i - 1], without)
    <3>1. 0 \in 0 .. n /\ \A i \in 1 .. n : i \in 0 .. n /\ i # 0
      BY <1>1
    <3> QED
      BY <1>8, <3>1
  <2>3. u[0] = after[0] /\ \A i \in 1 .. n : u[i - 1] = after[i - 1] => u[i] = after[i]
    BY <2>1, <2>2
  <2> QED
    BY <1>1, <2>3, TablesMeet
<1> QED
  BY <1>6, <1>9, <1>10

\* It is closed, and it is the smallest that is.
LEMMA ClosureSpec ==
  ASSUME NEW g, NEW n, IsGraph(g, n), NEW without
  PROVE  LET C == Closure(g, without) IN
         /\ EntryBlock \in C /\ C \subseteq 1 .. n /\ Further(g, C, without) = C
         /\ \A X : EntryBlock \in X /\ Further(g, X, without) \subseteq X => C \subseteq X
<1> DEFINE t == Stages(g, n, without)
<1>1. Traced(g, n, without, t) /\ Closure(g, without) = t[n] /\ n \in Nat /\ n # 0
  BY StagesExist DEF IsGraph
<1> HIDE DEF t
<1>2. t[0] = {EntryBlock} /\ \A i \in 0 .. n : t[i] \in SUBSET (1 .. n)
  BY <1>1 DEF Traced
<1>3. ASSUME NEW k \in Nat, k + 1 <= n
      PROVE  t[k + 1] = Further(g, t[k], without) /\ t[k] \subseteq t[k + 1]
  <2>1. k + 1 \in 1 .. n /\ (k + 1) - 1 = k
    BY <1>1, <1>3
  <2>2. t[k + 1] = Further(g, t[k], without)
    BY <1>1, <2>1 DEF Traced
  <2> QED
    BY <2>2 DEF Further
<1>4. \A X : IsFiniteSet(t[n]) /\ Cardinality(t[n]) <= n
  <2>1. IsFiniteSet(1 .. n) /\ Cardinality(1 .. n) = n
    <3>1. 1 \in Int /\ n \in Int
      BY <1>1
    <3> QED
      BY <1>1, <3>1, FS_Interval
  <2>2. n \in 0 .. n /\ t[n] \in SUBSET (1 .. n)
    BY <1>1, <1>2
  <2> QED
    BY <2>1, <2>2, FS_Subset
<1>5. Further(g, t[n], without) = t[n]
  <2> DEFINE Grown(k) == /\ IsFiniteSet(t[k]) /\ Cardinality(t[k]) \in Nat
                         /\ Cardinality(t[k]) >= k + 1 \/ Further(g, t[k], without) = t[k]
             Good == {k \in Nat : k <= n => Grown(k)}
  <2>1. 0 \in Good
    <3>1. IsFiniteSet({EntryBlock}) /\ Cardinality({EntryBlock}) = 1
      BY FS_Singleton
    <3>2. t[0] = {EntryBlock}
      BY <1>2
    <3>3. IsFiniteSet(t[0]) /\ Cardinality(t[0]) = 1
      BY <3>1, <3>2
    <3>4. Grown(0)
      BY <3>3
    <3> QED
      BY <3>4
  <2>2. ASSUME NEW k \in Nat, k \in Good
        PROVE  k + 1 \in Good
    <3> SUFFICES ASSUME k + 1 <= n
                 PROVE  Grown(k + 1)
      OBVIOUS
    <3>1. Grown(k)
      BY <1>1, <2>2
    <3>2. t[k + 1] = Further(g, t[k], without) /\ t[k] \subseteq t[k + 1]
      BY <1>3
    <3>3. IsFiniteSet(t[k + 1]) /\ Cardinality(t[k + 1]) \in Nat
      <4>1. IsFiniteSet(1 .. n)
        BY <1>1, FS_Interval
      <4>2. k + 1 \in 0 .. n
        BY <1>1
      <4>3. t[k + 1] \in SUBSET (1 .. n)
        BY <1>2, <4>2
      <4> QED
        BY <4>1, <4>3, FS_Subset, FS_CardinalityType
    <3>4. CASE Further(g, t[k], without) = t[k]
      BY <3>2, <3>3, <3>4
    <3>5. CASE Further(g, t[k], without) # t[k]
      <4>1. Cardinality(t[k]) >= k + 1
        BY <3>1, <3>5
      <4>2. Cardinality(t[k]) <= Cardinality(t[k + 1]) /\ Cardinality(t[k]) # Cardinality(t[k + 1])
        BY <3>2, <3>3, <3>5, FS_Subset
      <4>3. Cardinality(t[k + 1]) >= (k + 1) + 1
        BY <3>1, <3>3, <4>1, <4>2
      <4> QED
        BY <3>3, <4>3
    <3> QED
      BY <3>4, <3>5
  <2>3. Nat \subseteq Good
    <3> HIDE DEF Good
    <3> QED
      BY <2>1, <2>2, NumbersInduct, Zenon
  <2>4. Grown(n)
    BY <1>1, <2>3
  <2> QED
    BY <1>1, <1>4, <2>4
<1>6. ASSUME NEW X, EntryBlock \in X, Further(g, X, without) \subseteq X
      PROVE  t[n] \subseteq X
  <2> DEFINE Good == {k \in Nat : k <= n => t[k] \subseteq X}
  <2>1. 0 \in Good
    BY <1>2, <1>6
  <2>2. ASSUME NEW k \in Nat, k \in Good
        PROVE  k + 1 \in Good
    <3> SUFFICES ASSUME k + 1 <= n
                 PROVE  t[k + 1] \subseteq X
      OBVIOUS
    <3>1. t[k] \subseteq X
      BY <1>1, <2>2
    <3>2. t[k + 1] = Further(g, t[k], without)
      BY <1>3
    <3> QED
      BY <1>6, <3>1, <3>2 DEF Further
  <2>3. Nat \subseteq Good
    <3> HIDE DEF Good
    <3> QED
      BY <2>1, <2>2, NumbersInduct, Zenon
  <2> QED
    BY <1>1, <2>3
<1>7. EntryBlock \in t[n] /\ t[n] \subseteq 1 .. n
  <2> DEFINE Good == {k \in Nat : k <= n => EntryBlock \in t[k]}
  <2>1. 0 \in Good
    BY <1>2
  <2>2. ASSUME NEW k \in Nat, k \in Good
        PROVE  k + 1 \in Good
    <3> SUFFICES ASSUME k + 1 <= n
                 PROVE  EntryBlock \in t[k + 1]
      OBVIOUS
    <3> QED
      BY <1>1, <1>3, <2>2
  <2>3. Nat \subseteq Good
    <3> HIDE DEF Good
    <3> QED
      BY <2>1, <2>2, NumbersInduct, Zenon
  <2>4. n \in 0 .. n
    BY <1>1
  <2> QED
    BY <1>1, <1>2, <2>3, <2>4
<1> QED
  BY <1>1, <1>5, <1>6, <1>7

\* Each block of a stage but the entry follows one of the stage before.
LEMMA StagesFollow ==
  ASSUME NEW g, NEW n, IsGraph(g, n), NEW without, NEW k \in Nat, k + 1 <= n
  PROVE  LET t == Stages(g, n, without) IN
         /\ t[k] \subseteq t[k + 1] /\ t[k + 1] \subseteq 1 .. n
         /\ \A b \in t[k + 1] \ {EntryBlock} : \E p \in t[k] : b \in ToSet(g.succ[p])
<1> DEFINE t == Stages(g, n, without)
<1>1. Traced(g, n, without, t) /\ n \in Nat
  BY StagesExist DEF IsGraph
<1> HIDE DEF t
<1>2. t[0] = {EntryBlock} /\ \A i \in 0 .. n : t[i] \in SUBSET (1 .. n)
  BY <1>1 DEF Traced
<1>3. ASSUME NEW i \in Nat, i + 1 <= n
      PROVE  t[i + 1] = Further(g, t[i], without)
  <2>1. i + 1 \in 1 .. n /\ (i + 1) - 1 = i
    BY <1>1, <1>3
  <2> QED
    BY <1>1, <2>1 DEF Traced
<1> DEFINE Follows(i) == /\ t[i] \subseteq t[i + 1]
                         /\ \A b \in t[i + 1] \ {EntryBlock} : \E p \in t[i] : b \in ToSet(g.succ[p])
           Good == {i \in Nat : i + 1 <= n => Follows(i)}
<1>4. 0 \in Good
  <2> SUFFICES ASSUME 0 + 1 <= n
               PROVE  Follows(0)
    OBVIOUS
  <2>1. t[0 + 1] = Further(g, t[0], without)
    BY <1>3
  <2> QED
    BY <1>2, <2>1 DEF Further
<1>5. ASSUME NEW i \in Nat, i \in Good
      PROVE  i + 1 \in Good
  <2> SUFFICES ASSUME (i + 1) + 1 <= n
               PROVE  Follows(i + 1)
    OBVIOUS
  <2>1. Follows(i)
    BY <1>1, <1>5
  <2>2. t[(i + 1) + 1] = Further(g, t[i + 1], without)
    BY <1>3
  <2>3. t[i + 1] \subseteq t[(i + 1) + 1]
    BY <2>2 DEF Further
  <2>4. ASSUME NEW b \in t[(i + 1) + 1] \ {EntryBlock}
        PROVE  \E p \in t[i + 1] : b \in ToSet(g.succ[p])
    <3>1. CASE b \in t[i + 1]
      BY <2>1, <2>4, <3>1
    <3>2. CASE b \notin t[i + 1]
      BY <2>2, <3>2 DEF Further
    <3> QED
      BY <3>1, <3>2
  <2> QED
    BY <2>3, <2>4
<1>6. Nat \subseteq Good
  <2> HIDE DEF Good
  <2> QED
    BY <1>4, <1>5, NumbersInduct, Zenon
<1>7. Follows(k)
  BY <1>6
<1>8. t[k + 1] \in SUBSET (1 .. n)
  BY <1>1, <1>2
<1> QED
  BY <1>7, <1>8 DEF t

\* What is reached in spite of a block is reached.
LEMMA AroundReached ==
  ASSUME NEW g, NEW n, IsGraph(g, n), NEW without
  PROVE  Closure(g, without) \subseteq Reached(g)
<1> DEFINE R == Closure(g, {})
<1>1. EntryBlock \in R /\ Further(g, R, {}) = R
  BY ClosureSpec
<1>2. Further(g, R, without) \subseteq R
  BY <1>1 DEF Further
<1> QED
  BY <1>1, <1>2, ClosureSpec DEF Reached

\* The entry is reached, and with a block all it leads to.
LEMMA ReachedOn ==
  ASSUME NEW g, NEW n, IsGraph(g, n), NEW b \in Reached(g)
  PROVE  /\ Reached(g) \subseteq 1 .. n /\ EntryBlock \in Reached(g)
         /\ ToSet(g.succ[b]) \subseteq Reached(g)
  BY ClosureSpec DEF Reached, Further

\* Only the entry dominates the entry.
LEMMA DominatesEntry ==
  ASSUME NEW g, NEW n, IsGraph(g, n), NEW d, Dominates(g, d, EntryBlock)
  PROVE  d = EntryBlock
  BY ClosureSpec DEF Dominates

\* What dominates a block from above dominates all that lead to it.
LEMMA DominatesBefore ==
  ASSUME NEW g, NEW n, IsGraph(g, n), NEW d, NEW b, NEW p \in 1 .. n,
         Dominates(g, d, b), d # b, b \in ToSet(g.succ[p])
  PROVE  Dominates(g, d, p)
<1> SUFFICES ASSUME d # EntryBlock, p \in Closure(g, {d})
             PROVE  FALSE
  BY DEF Dominates
<1> DEFINE C == Closure(g, {d})
<1>1. Further(g, C, {d}) = C
  BY ClosureSpec
<1> HIDE DEF C
<1>2. b \in Further(g, C, {d})
  BY DEF Further, C
<1> QED
  BY <1>1, <1>2 DEF Dominates, C

\* Of two blocks that are reached only one dominates the other.
LEMMA DominatesOneWay ==
  ASSUME NEW g, NEW n, IsGraph(g, n), NEW x \in Reached(g), NEW y \in Reached(g),
         Dominates(g, x, y), Dominates(g, y, x)
  PROVE  x = y
<1> SUFFICES ASSUME x # y
             PROVE  FALSE
  OBVIOUS
<1> DEFINE C == Closure(g, {x})
           D == Closure(g, {y})
           R == Closure(g, {})
<1>1. CASE x = EntryBlock \/ y = EntryBlock
  BY <1>1, DominatesEntry
<1>2. CASE x # EntryBlock /\ y # EntryBlock
  <2>1. y \notin C /\ x \notin D
    BY <1>2 DEF Dominates
  <2>2. /\ EntryBlock \in C /\ Further(g, C, {x}) = C
        /\ EntryBlock \in D /\ Further(g, D, {y}) = D
    BY ClosureSpec
  <2>3. Further(g, C \cap D, {}) \subseteq C \cap D
    <3> HIDE DEF C, D
    <3> SUFFICES ASSUME NEW c \in C \cap D, NEW b \in ToSet(g.succ[c])
                 PROVE  b \in C \cap D
      BY DEF Further
    <3>1. b # x => b \in C
      BY <2>2 DEF Further
    <3>2. b # y => b \in D
      BY <2>2 DEF Further
    <3> QED
      BY <2>1, <3>1, <3>2
  <2>4. R \subseteq C \cap D
    <3> HIDE DEF C, D
    <3> QED
      BY <2>2, <2>3, ClosureSpec
  <2> QED
    BY <2>1, <2>4 DEF Reached
<1> QED
  BY <1>1, <1>2

\* The blocks whose dominator is known.
Known(d, n) == {b \in 1 .. n : d[b] # None}

\* What is known leads up to the entry, to smaller and smaller places.
IsTree(d, place, n) ==
  /\ n \in Nat \ {0} /\ d \in [1 .. n -> (1 .. n) \cup {None}]
  /\ d[EntryBlock] = EntryBlock /\ place[EntryBlock] = 1
  /\ \A b \in Known(d, n) : place[b] \in Nat \ {0}
  /\ \A b \in Known(d, n) \ {EntryBlock} : d[b] \in Known(d, n) /\ place[d[b]] < place[b]
  /\ \A b, c \in Known(d, n) : place[b] = place[c] => b = c

\* With a block its dominator is in the set.
Upward(X, d, n) == \A b \in X \cap Known(d, n) : d[b] \in X

\* So it is, down to one block.
UpTo(Y, x, d, place, n) ==
  \A b \in Y \cap Known(d, n) : b = x \/ (d[b] \in Y /\ place[x] < place[b])

\* Where two fingers get from b1 and b2.
Fingers(d, place, n, b1, b2, f) ==
  /\ f[1] \in Known(d, n) /\ f[2] \in Known(d, n)
  /\ place[f[1]] <= place[b1] /\ place[f[2]] <= place[b2]
  /\ \A X : Upward(X, d, n) => (b1 \in X => f[1] \in X) /\ (b2 \in X => f[2] \in X)
  /\ \A Y, x : UpTo(Y, x, d, place, n) /\ x \in Known(d, n) /\ b1 \in Y /\ b2 \in Y => f[1] \in Y /\ f[2] \in Y

\* A block both paths up pass, below which they have none in common.
Meet(d, place, n, b1, b2, m) == Fingers(d, place, n, b1, b2, <<m, m>>)

\* The entry is at the top of what is known.
LEMMA TreeEntry ==
  ASSUME NEW d, NEW place, NEW n, IsTree(d, place, n)
  PROVE  /\ n \in Nat \ {0} /\ EntryBlock \in Known(d, n) /\ None \notin 1 .. n
         /\ \A b \in Known(d, n) : place[EntryBlock] <= place[b] /\ place[b] \in Nat \ {0}
<1>1. EntryBlock \in 1 .. n /\ None \notin 1 .. n /\ 1 \in 1 .. n
  BY NoneAssumption DEF IsTree, EntryBlock
<1>2. EntryBlock \in Known(d, n)
  BY <1>1 DEF IsTree, Known
<1> QED
  BY <1>1, <1>2 DEF IsTree

\* A step of a finger leaves where the fingers will meet.
LEMMA ClimbOn ==
  ASSUME NEW d, NEW place, NEW n, IsTree(d, place, n), NEW b1 \in Known(d, n), NEW b2 \in Known(d, n),
         NEW f, Fingers(d, place, n, b1, b2, f), f[1] # f[2], f = <<f[1], f[2]>>
  PROVE  LET c == Climb(d, place, f) IN
         /\ Fingers(d, place, n, b1, b2, c) /\ c = <<c[1], c[2]>>
         /\ place[c[1]] + place[c[2]] < place[f[1]] + place[f[2]]
<1> DEFINE K == Known(d, n)
           c == Climb(d, place, f)
<1>1. /\ f[1] \in K /\ f[2] \in K /\ place[f[1]] \in Nat /\ place[f[2]] \in Nat /\ place[f[1]] # place[f[2]]
  BY DEF Fingers, IsTree
<1>2. EntryBlock \in K /\ None \notin 1 .. n /\ place[EntryBlock] <= place[f[1]] /\ place[EntryBlock] <= place[f[2]]
  BY <1>1, TreeEntry
<1>3. ASSUME NEW b \in K, b # EntryBlock
      PROVE  d[b] \in K /\ place[d[b]] \in Nat /\ place[d[b]] < place[b] /\ d[b] # b /\ d[b] # None
  <2>1. d[b] \in K /\ place[d[b]] < place[b]
    BY <1>3 DEF IsTree
  <2>2. place[b] \in Nat /\ place[d[b]] \in Nat
    BY <2>1 DEF IsTree
  <2>3. d[b] # None
    BY DEF Known
  <2> QED
    BY <2>1, <2>2, <2>3
<1>4. place[EntryBlock] \in Nat
  BY <1>2 DEF IsTree
<1> HIDE DEF K
<1>5. CASE place[f[1]] > place[f[2]]
  <2>1. f[1] # EntryBlock
    BY <1>1, <1>2, <1>4, <1>5
  <2>2. d[f[1]] \in K /\ place[d[f[1]]] \in Nat /\ place[d[f[1]]] < place[f[1]] /\ d[f[1]] # f[1] /\ d[f[1]] # None
    BY <1>1, <1>3, <2>1
  <2>3. c = <<d[f[1]], f[2]>>
    BY <1>5, <2>2 DEF Climb
  <2>4. ASSUME NEW X, Upward(X, d, n), f[1] \in X
        PROVE  d[f[1]] \in X
    BY <1>1, <2>4 DEF Upward, K
  <2>5. ASSUME NEW Y, NEW x \in K, UpTo(Y, x, d, place, n), f[1] \in Y, f[2] \in Y
        PROVE  d[f[1]] \in Y
    <3>1. place[x] \in Nat
      BY <2>5 DEF IsTree, K
    <3>2. place[x] <= place[f[2]]
      BY <1>1, <2>5, <3>1 DEF UpTo, K
    <3>3. f[1] # x
      BY <1>1, <1>5, <3>1, <3>2
    <3> QED
      BY <1>1, <2>5, <3>3 DEF UpTo, K
  <2>6. place[d[f[1]]] <= place[b1]
    <3>1. place[f[1]] <= place[b1]
      BY DEF Fingers
    <3>2. place[b1] \in Nat
      BY DEF IsTree
    <3> QED
      BY <1>1, <2>2, <3>1, <3>2
  <2>7. Fingers(d, place, n, b1, b2, <<d[f[1]], f[2]>>)
    <3>1. \A X : Upward(X, d, n) => (b1 \in X => d[f[1]] \in X) /\ (b2 \in X => f[2] \in X)
      BY <2>4 DEF Fingers
    <3>2. \A Y, x : UpTo(Y, x, d, place, n) /\ x \in Known(d, n) /\ b1 \in Y /\ b2 \in Y => d[f[1]] \in Y /\ f[2] \in Y
      BY <2>5 DEF Fingers, K
    <3>3. d[f[1]] \in Known(d, n) /\ f[2] \in Known(d, n) /\ place[f[2]] <= place[b2]
      BY <1>1, <2>2 DEF Fingers, K
    <3> QED
      BY <2>6, <3>1, <3>2, <3>3 DEF Fingers
  <2> QED
    BY <1>1, <2>2, <2>3, <2>7
<1>6. CASE place[f[2]] > place[f[1]]
  <2>1. f[2] # EntryBlock
    BY <1>1, <1>2, <1>4, <1>6
  <2>2. d[f[2]] \in K /\ place[d[f[2]]] \in Nat /\ place[d[f[2]]] < place[f[2]] /\ d[f[2]] # f[2] /\ d[f[2]] # None
    BY <1>1, <1>3, <2>1
  <2>3. c = <<f[1], d[f[2]]>>
    <3>1. ~(place[f[1]] > place[f[2]])
      BY <1>1, <1>6
    <3> QED
      BY <1>6, <2>2, <3>1 DEF Climb
  <2>4. ASSUME NEW X, Upward(X, d, n), f[2] \in X
        PROVE  d[f[2]] \in X
    BY <1>1, <2>4 DEF Upward, K
  <2>5. ASSUME NEW Y, NEW x \in K, UpTo(Y, x, d, place, n), f[1] \in Y, f[2] \in Y
        PROVE  d[f[2]] \in Y
    <3>1. place[x] \in Nat
      BY <2>5 DEF IsTree, K
    <3>2. place[x] <= place[f[1]]
      BY <1>1, <2>5, <3>1 DEF UpTo, K
    <3>3. f[2] # x
      BY <1>1, <1>6, <3>1, <3>2
    <3> QED
      BY <1>1, <2>5, <3>3 DEF UpTo, K
  <2>6. place[d[f[2]]] <= place[b2]
    <3>1. place[f[2]] <= place[b2]
      BY DEF Fingers
    <3>2. place[b2] \in Nat
      BY DEF IsTree
    <3> QED
      BY <1>1, <2>2, <3>1, <3>2
  <2>7. Fingers(d, place, n, b1, b2, <<f[1], d[f[2]]>>)
    <3>1. \A X : Upward(X, d, n) => (b1 \in X => f[1] \in X) /\ (b2 \in X => d[f[2]] \in X)
      BY <2>4 DEF Fingers
    <3>2. \A Y, x : UpTo(Y, x, d, place, n) /\ x \in Known(d, n) /\ b1 \in Y /\ b2 \in Y => f[1] \in Y /\ d[f[2]] \in Y
      BY <2>5 DEF Fingers, K
    <3>3. d[f[2]] \in Known(d, n) /\ f[1] \in Known(d, n) /\ place[f[1]] <= place[b1]
      BY <1>1, <2>2 DEF Fingers, K
    <3> QED
      BY <2>6, <3>1, <3>2, <3>3 DEF Fingers
  <2> QED
    BY <1>1, <2>2, <2>3, <2>7
<1> QED
  BY <1>1, <1>5, <1>6
\* The steps are enough: intersect finds where two blocks meet.
LEMMA IntersectMeets ==
  ASSUME NEW d, NEW place, NEW n, IsTree(d, place, n), NEW b1 \in Known(d, n), NEW b2 \in Known(d, n)
  PROVE  Meet(d, place, n, b1, b2, Intersect(d, place, b1, b2))
<1> DEFINE K == Known(d, n)
           N == place[b1] + place[b2]
           Near(f, i) == /\ Fingers(d, place, n, b1, b2, f) /\ f = <<f[1], f[2]>>
                         /\ f[1] = f[2] \/ place[f[1]] + place[f[2]] + i <= N
           S == [i \in 0 .. N |-> {f \in K \X K : Near(f, i)}]
           F == [i \in 1 .. N |-> [f \in K \X K |-> Climb(d, place, f)]]
           start == <<b1, b2>>
<1>1. /\ place[b1] \in Nat /\ place[b2] \in Nat /\ N \in Nat
      /\ \A b \in K : place[b] \in Nat /\ place[b] # 0
  BY DEF IsTree
<1>2. start \in S[0] /\ start[1] = b1 /\ start[2] = b2
  <2>1. start \in K \X K /\ start[1] = b1 /\ start[2] = b2
    OBVIOUS
  <2>2. Fingers(d, place, n, b1, b2, start)
    BY <1>1, <2>1 DEF Fingers
  <2>3. Near(start, 0)
    BY <1>1, <2>1, <2>2
  <2>4. 0 \in 0 .. N
    BY <1>1
  <2> HIDE DEF Near, N, start
  <2> QED
    BY <2>1, <2>3, <2>4
<1>3. ASSUME NEW f, f[1] = f[2], f = <<f[1], f[2]>>, Fingers(d, place, n, b1, b2, f)
      PROVE  Climb(d, place, f) = f
  <2>1. place[f[1]] \in Nat /\ ~(place[f[1]] > place[f[2]]) /\ ~(place[f[2]] > place[f[1]])
    BY <1>1, <1>3 DEF Fingers
  <2> QED
    BY <1>3, <2>1 DEF Climb
<1>4. ASSUME NEW i \in 1 .. N, NEW f \in S[i - 1]
      PROVE  F[i][f] \in S[i] /\ F[i][f] = Climb(d, place, f)
  <2>0. i - 1 \in 0 .. N /\ i \in 0 .. N /\ i \in Nat
    BY <1>1
  <2>1. f \in K \X K /\ Near(f, i - 1)
    <3> HIDE DEF Near, K, N
    <3> QED
      BY <1>4, <2>0
  <2> DEFINE c == Climb(d, place, f)
  <2>2. F[i][f] = c
    <3> HIDE DEF K, N
    <3> QED
      BY <2>1
  <2>3. Near(c, i) /\ c \in K \X K
    <3>1. CASE f[1] = f[2]
      <4>1. c = f
        BY <1>3, <2>1, <3>1
      <4>2. Near(f, i)
        BY <2>1, <3>1
      <4> HIDE DEF c
      <4> QED
        BY <2>1, <4>1, <4>2
    <3>2. CASE f[1] # f[2]
      <4>1. /\ Fingers(d, place, n, b1, b2, c) /\ c = <<c[1], c[2]>>
            /\ place[c[1]] + place[c[2]] < place[f[1]] + place[f[2]]
        BY <2>1, <3>2, ClimbOn
      <4>2. c[1] \in K /\ c[2] \in K /\ f[1] \in K /\ f[2] \in K
        BY <2>1, <4>1 DEF Fingers
      <4>3. place[f[1]] + place[f[2]] + (i - 1) <= N
        BY <2>1, <3>2
      <4> HIDE DEF c, K
      <4>4. place[c[1]] \in Nat /\ place[c[2]] \in Nat /\ place[f[1]] \in Nat /\ place[f[2]] \in Nat
        BY <1>1, <4>2
      <4>5. place[c[1]] + place[c[2]] + i <= N
        <5> HIDE DEF N
        <5> QED
          BY <1>1, <2>0, <4>1, <4>3, <4>4
      <4>6. c \in K \X K
        BY <4>1, <4>2
      <4> QED
        BY <4>1, <4>5, <4>6
    <3> QED
      BY <3>1, <3>2
  <2> HIDE DEF Near, c, K, N, F
  <2>4. c \in S[i]
    BY <2>0, <2>3
  <2> QED
    BY <2>2, <2>4 DEF c
<1>5. PICK t : Tables(t, N, S, start, F)
  <2>1. Leads(N, S, start, F)
    <3> HIDE DEF S, F, N, start
    <3> QED
      BY <1>1, <1>2, <1>4 DEF Leads
  <2> HIDE DEF S, F, N, start
  <2> QED
    BY <2>1, TableOfSteps
<1> DEFINE after == CHOOSE a : a = [i \in 0 .. N |-> IF i = 0 THEN start ELSE Climb(d, place, a[i - 1])]
<1>6. \A i \in 1 .. N : t[i] = Climb(d, place, t[i - 1])
  <2> SUFFICES ASSUME NEW i \in 1 .. N
               PROVE  t[i] = Climb(d, place, t[i - 1])
    OBVIOUS
  <2>1. i - 1 \in 0 .. N
    BY <1>1
  <2> HIDE DEF S, F, N
  <2>2. t[i - 1] \in S[i - 1] /\ t[i] = F[i][t[i - 1]]
    BY <1>5, <2>1 DEF Tables
  <2> QED
    BY <1>4, <2>2
<1> HIDE DEF N, S, F, start
<1>7. t = [i \in 0 .. N |-> IF i = 0 THEN start ELSE Climb(d, place, t[i - 1])]
  <2>1. \A i \in 0 .. N : i = 0 \/ i \in 1 .. N
    BY <1>1
  <2>2. t = [i \in 0 .. N |-> t[i]] /\ t[0] = start
    BY <1>5 DEF Tables, IsTable
  <2> QED
    BY <1>6, <2>1, <2>2
<1>8. after = [i \in 0 .. N |-> IF i = 0 THEN start ELSE Climb(d, place, after[i - 1])]
  BY <1>7
<1>9. Intersect(d, place, b1, b2) = after[N][1]
  BY Zenon DEF Intersect, Loop, N, start
<1> HIDE DEF after
<1>10. after[N] = t[N]
  <2>1. t[0] = start
    BY <1>5 DEF Tables
  <2>2. after[0] = start /\ \A i \in 1 .. N : after[i] = Climb(d, place, after[i - 1])
    <3>1. 0 \in 0 .. N /\ \A i \in 1 .. N : i \in 0 .. N /\ i # 0
      BY <1>1
    <3> QED
      BY <1>8, <3>1
  <2>3. \A i \in 1 .. N : t[i - 1] = after[i - 1] => t[i] = after[i]
    BY <1>6, <2>2
  <2> QED
    BY <1>1, <2>1, <2>2, <2>3, TablesMeet
<1>11. t[N] \in S[N]
  <2>1. N \in 0 .. N
    BY <1>1
  <2> QED
    BY <1>5, <2>1 DEF Tables
<1>12. Near(t[N], N)
  <2>1. N \in 0 .. N
    BY <1>1
  <2> HIDE DEF Near
  <2> QED
    BY <1>11, <2>1 DEF S
<1> DEFINE e == t[N]
<1> HIDE DEF e
<1>13. Fingers(d, place, n, b1, b2, e) /\ e = <<e[1], e[2]>> /\ (e[1] = e[2] \/ place[e[1]] + place[e[2]] + N <= N)
  BY <1>12 DEF e
<1>14. e[1] = e[2]
  <2>1. place[e[1]] \in Nat /\ place[e[2]] \in Nat /\ place[e[1]] # 0
    BY <1>1, <1>13 DEF Fingers
  <2> QED
    BY <1>1, <1>13, <2>1
<1>15. Intersect(d, place, b1, b2) = e[1] /\ e = <<e[1], e[1]>>
  BY <1>9, <1>10, <1>13, <1>14 DEF e
<1> QED
  BY <1>13, <1>15 DEF Meet

\* The predecessors whose dominator is known.
Ready(g, d, b) == {p \in Predecessors(g, b) : d[p] # None}

\* Where all the predecessors meet that are in a set.
MeetOf(d, place, n, S, m) ==
  /\ m \in Known(d, n)
  /\ \A p \in S : place[m] <= place[p]
  /\ \A X : Upward(X, d, n) /\ S \cap X # {} => m \in X
  /\ \A Y, x : UpTo(Y, x, d, place, n) /\ x \in Known(d, n) /\ S \subseteq Y => m \in Y

\* One block is where it meets itself.
LEMMA MeetOne ==
  ASSUME NEW d, NEW place, NEW n, IsTree(d, place, n), NEW m \in Known(d, n)
  PROVE  MeetOf(d, place, n, {m}, m)
<1>1. place[m] \in Nat
  BY DEF IsTree
<1> QED
  BY <1>1 DEF MeetOf

\* One more predecessor.
LEMMA MeetMore ==
  ASSUME NEW d, NEW place, NEW n, IsTree(d, place, n), NEW S \in SUBSET Known(d, n),
         NEW m, MeetOf(d, place, n, S, m), NEW p \in Known(d, n), NEW e, Meet(d, place, n, m, p, e)
  PROVE  MeetOf(d, place, n, S \cup {p}, e)
<1>1. /\ m \in Known(d, n)
      /\ \A q \in S : place[m] <= place[q]
      /\ \A X : Upward(X, d, n) /\ S \cap X # {} => m \in X
      /\ \A Y, x : UpTo(Y, x, d, place, n) /\ x \in Known(d, n) /\ S \subseteq Y => m \in Y
  BY DEF MeetOf
<1>2. /\ e \in Known(d, n) /\ place[e] <= place[m] /\ place[e] <= place[p]
      /\ \A X : Upward(X, d, n) => (m \in X => e \in X) /\ (p \in X => e \in X)
      /\ \A Y, x : UpTo(Y, x, d, place, n) /\ x \in Known(d, n) /\ m \in Y /\ p \in Y => e \in Y
  BY DEF Meet, Fingers
<1>3. \A b \in Known(d, n) : place[b] \in Nat
  BY DEF IsTree
<1>4. \A q \in S \cup {p} : place[e] <= place[q]
  <2> SUFFICES ASSUME NEW q \in S
               PROVE  place[e] <= place[q]
    BY <1>2
  <2>1. place[e] \in Nat /\ place[m] \in Nat /\ place[q] \in Nat
    BY <1>1, <1>2, <1>3
  <2> QED
    BY <1>1, <1>2, <2>1
<1>5. \A X : Upward(X, d, n) /\ (S \cup {p}) \cap X # {} => e \in X
  BY <1>1, <1>2
<1>6. \A Y, x : UpTo(Y, x, d, place, n) /\ x \in Known(d, n) /\ (S \cup {p}) \subseteq Y => e \in Y
  BY <1>1, <1>2
<1> QED
  BY <1>2, <1>4, <1>5, <1>6 DEF MeetOf

\* A block's dominator is where the known predecessors meet, whatever their order.
LEMMA DominatorMeets ==
  ASSUME NEW g, NEW n, IsGraph(g, n), NEW d, NEW place, IsTree(d, place, n), NEW b,
         Ready(g, d, b) # {}
  PROVE  MeetOf(d, place, n, Ready(g, d, b), DominatorOf(g, place, d, b))
<1> DEFINE R == Ready(g, d, b)
           c == Cardinality(R)
           N == c - 1
           preds == Ascending(R)
           K == Known(d, n)
           So(i) == {preds[k] : k \in 1 .. i + 1}
           S == [i \in 0 .. N |-> {m \in K : MeetOf(d, place, n, So(i), m)}]
           F == [i \in 1 .. N |-> [m \in K |-> Intersect(d, place, m, preds[i + 1])]]
           start == preds[1]
<1>1. R \in SUBSET (1 .. n) /\ R \subseteq K /\ n \in Nat
  BY Edges DEF Ready, Known, Predecessors, IsGraph
<1> HIDE DEF R
<1>2. /\ IsFiniteSet(R) /\ c \in Nat /\ preds \in [1 .. c -> R]
      /\ \A x \in R : \E i \in 1 .. c : preds[i] = x
  BY <1>1, AscendingSet
<1>3. c # 0 /\ N \in Nat /\ 1 \in 1 .. c
  <2>1. c # 0
    BY <1>2, FS_EmptySet DEF R
  <2> QED
    BY <1>2, <2>1
<1> HIDE DEF c, preds
<1>4. \A i \in 0 .. N : So(i) \subseteq R /\ \A k \in 1 .. i + 1 : preds[k] \in R
  BY <1>2, <1>3
<1>5. start \in S[0]
  <2>1. So(0) = {start} /\ start \in K
    <3>1. 1 .. 0 + 1 = {1}
      OBVIOUS
    <3> QED
      BY <1>1, <1>2, <1>3, <3>1
  <2>2. MeetOf(d, place, n, So(0), start)
    <3> HIDE DEF So, start
    <3> QED
      BY <2>1, MeetOne
  <2>3. 0 \in 0 .. N
    BY <1>3
  <2> HIDE DEF So, start, N
  <2> QED
    BY <2>1, <2>2, <2>3
<1>6. ASSUME NEW i \in 1 .. N, NEW m \in S[i - 1]
      PROVE  F[i][m] \in S[i] /\ F[i][m] = Intersect(d, place, m, preds[i + 1])
  <2>0. i - 1 \in 0 .. N /\ i \in 0 .. N /\ i \in Nat
    BY <1>3
  <2>1. m \in K /\ MeetOf(d, place, n, So(i - 1), m)
    <3> HIDE DEF So, N
    <3> QED
      BY <1>6, <2>0
  <2> DEFINE p == preds[i + 1]
             e == Intersect(d, place, m, p)
  <2>2. F[i][m] = e
    BY <2>1
  <2>3. p \in K /\ So(i) = So(i - 1) \cup {p} /\ So(i - 1) \subseteq K
    <3>1. i + 1 \in 1 .. i + 1 /\ p \in R
      BY <1>4, <2>0
    <3>2. 1 .. i + 1 = (1 .. (i - 1) + 1) \cup {i + 1}
      BY <2>0
    <3> QED
      BY <1>1, <1>4, <2>0, <3>1, <3>2
  <2>4. Meet(d, place, n, m, p, e)
    <3> HIDE DEF p
    <3> QED
      BY <2>1, <2>3, IntersectMeets
  <2>5. MeetOf(d, place, n, So(i), e)
    <3> HIDE DEF p, e, So
    <3> QED
      BY <2>1, <2>3, <2>4, MeetMore
  <2>6. e \in S[i]
    <3>1. e \in K
      BY <2>5 DEF MeetOf
    <3> HIDE DEF e, So, N
    <3> QED
      BY <2>0, <2>5, <3>1
  <2> HIDE DEF S, F
  <2> QED
    BY <2>2, <2>6
<1>7. PICK t : Tables(t, N, S, start, F)
  <2>1. Leads(N, S, start, F)
    <3> HIDE DEF S, F, N, start
    <3> QED
      BY <1>3, <1>5, <1>6 DEF Leads
  <2> HIDE DEF S, F, N, start
  <2> QED
    BY <2>1, TableOfSteps
<1> DEFINE after == CHOOSE a : a = [i \in 0 .. N |-> IF i = 0 THEN start
                                                     ELSE Intersect(d, place, a[i - 1], preds[i + 1])]
<1>8. \A i \in 1 .. N : t[i] = Intersect(d, place, t[i - 1], preds[i + 1])
  <2> SUFFICES ASSUME NEW i \in 1 .. N
               PROVE  t[i] = Intersect(d, place, t[i - 1], preds[i + 1])
    OBVIOUS
  <2>1. i - 1 \in 0 .. N
    BY <1>3
  <2> HIDE DEF S, F, N
  <2>2. t[i - 1] \in S[i - 1] /\ t[i] = F[i][t[i - 1]]
    BY <1>7, <2>1 DEF Tables
  <2> QED
    BY <1>6, <2>2
<1> HIDE DEF N, S, F, start
<1>9. t = [i \in 0 .. N |-> IF i = 0 THEN start ELSE Intersect(d, place, t[i - 1], preds[i + 1])]
  <2>1. \A i \in 0 .. N : i = 0 \/ i \in 1 .. N
    BY <1>3
  <2>2. t = [i \in 0 .. N |-> t[i]] /\ t[0] = start
    BY <1>7 DEF Tables, IsTable
  <2> QED
    BY <1>8, <2>1, <2>2
<1>10. after = [i \in 0 .. N |-> IF i = 0 THEN start ELSE Intersect(d, place, after[i - 1], preds[i + 1])]
  BY <1>9
<1>11. DominatorOf(g, place, d, b) = after[N]
  BY Zenon DEF DominatorOf, Loop, N, start, c, preds, R, Ready
<1> HIDE DEF after
<1>12. after[N] = t[N]
  <2>1. t[0] = start
    BY <1>7 DEF Tables
  <2>2. after[0] = start /\ \A i \in 1 .. N : after[i] = Intersect(d, place, after[i - 1], preds[i + 1])
    <3>1. 0 \in 0 .. N /\ \A i \in 1 .. N : i \in 0 .. N /\ i # 0
      BY <1>3
    <3> QED
      BY <1>10, <3>1
  <2>3. \A i \in 1 .. N : t[i - 1] = after[i - 1] => t[i] = after[i]
    BY <1>8, <2>2
  <2> QED
    BY <1>3, <2>1, <2>2, <2>3, TablesMeet
<1>13. MeetOf(d, place, n, So(N), t[N])
  <2>1. N \in 0 .. N
    BY <1>3
  <2>2. t[N] \in S[N]
    BY <1>7, <2>1 DEF Tables
  <2> HIDE DEF So
  <2> QED
    BY <2>1, <2>2 DEF S
<1>14. So(N) = R
  <2>1. N + 1 = c
    BY <1>2 DEF N
  <2> QED
    BY <1>2, <2>1
<1> HIDE DEF So
<1> QED
  BY <1>11, <1>12, <1>13, <1>14 DEF R

\* An order of the blocks reached in which each but the entry follows one before it.
IsOrder(g, n, rpo) ==
  /\ rpo \in Seq(1 .. n) /\ Len(rpo) >= 1 /\ rpo[1] = EntryBlock /\ ToSet(rpo) = Reached(g)
  /\ \A i, j \in 1 .. Len(rpo) : rpo[i] = rpo[j] => i = j
  /\ \A i \in 2 .. Len(rpo) : \E j \in 1 .. i - 1 : rpo[i] \in ToSet(g.succ[rpo[j]])

\* What is reached is at its place in the order, the entry at the first.
LEMMA PlacesInOrder ==
  ASSUME NEW g, NEW n, IsGraph(g, n), NEW rpo, IsOrder(g, n, rpo)
  PROVE  /\ Len(rpo) \in Nat /\ \A i \in 1 .. Len(rpo) : rpo[i] \in 1 .. n /\ rpo[i] \in Reached(g)
         /\ \A i \in 1 .. Len(rpo) : Places(g, rpo)[rpo[i]] = i
         /\ \A b \in Reached(g) : \E i \in 1 .. Len(rpo) : b = rpo[i]
<1>1. rpo \in Seq(1 .. n) /\ Len(rpo) \in Nat /\ DOMAIN rpo = 1 .. Len(rpo) /\ Blocks(g) = 1 .. n
  BY Edges DEF IsOrder
<1>2. ToSet(rpo) = Reached(g) /\ ToSet(rpo) = {rpo[i] : i \in 1 .. Len(rpo)}
  BY <1>1 DEF IsOrder, ToSet
<1>3. \A i \in 1 .. Len(rpo) : rpo[i] \in 1 .. n /\ rpo[i] \in ToSet(rpo)
  <2>1. \A i \in 1 .. Len(rpo) : rpo[i] \in 1 .. n
    <3> DEFINE T == 1 .. n
    <3>1. rpo \in Seq(T)
      BY <1>1
    <3> HIDE DEF T
    <3>2. \A i \in 1 .. Len(rpo) : rpo[i] \in T
      BY <3>1
    <3> QED
      BY <3>2 DEF T
  <2> HIDE DEF IsOrder
  <2>2. \A i \in 1 .. Len(rpo) : rpo[i] \in {rpo[j] : j \in 1 .. Len(rpo)}
    OBVIOUS
  <2> QED
    BY <1>2, <2>1, <2>2
<1>4. ASSUME NEW i \in 1 .. Len(rpo)
      PROVE  Places(g, rpo)[rpo[i]] = i
  <2>1. Places(g, rpo)[rpo[i]] = CHOOSE j \in DOMAIN rpo : rpo[j] = rpo[i]
    BY <1>1, <1>3 DEF Places
  <2>2. \E j \in DOMAIN rpo : rpo[j] = rpo[i]
    BY <1>1
  <2>3. \A j \in DOMAIN rpo : rpo[j] = rpo[i] => j = i
    BY <1>1 DEF IsOrder
  <2> QED
    BY <2>1, <2>2, <2>3
<1> QED
  BY <1>1, <1>2, <1>3, <1>4

\* Only what is reached dominates what is reached.
LEMMA DominatorReached ==
  ASSUME NEW g, NEW n, IsGraph(g, n), NEW b \in Reached(g), NEW x, Dominates(g, x, b)
  PROVE  x \in Reached(g)
<1> SUFFICES ASSUME x \notin Reached(g)
             PROVE  FALSE
  OBVIOUS
<1> DEFINE C == Closure(g, {x})
<1>1. EntryBlock \in Reached(g) /\ b \notin C
  BY ReachedOn DEF Dominates
<1>2. C \subseteq Reached(g) /\ EntryBlock \in C /\ Further(g, C, {x}) = C
  BY AroundReached, ClosureSpec
<1> HIDE DEF C
<1>3. Further(g, C, {}) \subseteq C
  <2> SUFFICES ASSUME NEW c \in C, NEW s \in ToSet(g.succ[c])
               PROVE  s \in C
    BY DEF Further
  <2>1. s \in Reached(g)
    BY <1>2, ReachedOn
  <2>2. s # x
    BY <2>1
  <2> QED
    BY <1>2, <2>2 DEF Further
<1>4. Reached(g) \subseteq C
  BY <1>2, <1>3, ClosureSpec DEF Reached
<1> QED
  BY <1>1, <1>4

\* What dominates a block comes before it.
LEMMA DominatorFirst ==
  ASSUME NEW g, NEW n, IsGraph(g, n), NEW rpo, IsOrder(g, n, rpo), NEW b \in Reached(g), NEW x,
         Dominates(g, x, b), x # b
  PROVE  x \in Reached(g) /\ Places(g, rpo)[x] < Places(g, rpo)[b]
<1> DEFINE place == Places(g, rpo)
           Fine(i) == \A j \in 1 .. Len(rpo) : j <= i =>
                        \A y : Dominates(g, y, rpo[j]) /\ y # rpo[j] => place[y] < j
           Good == {i \in Nat : Fine(i)}
<1>1. /\ Len(rpo) \in Nat /\ \A i \in 1 .. Len(rpo) : rpo[i] \in 1 .. n /\ rpo[i] \in Reached(g)
      /\ \A i \in 1 .. Len(rpo) : place[rpo[i]] = i
      /\ \A c \in Reached(g) : \E i \in 1 .. Len(rpo) : c = rpo[i]
  BY PlacesInOrder
<1> HIDE DEF place
<1>2. 0 \in Good
  OBVIOUS
<1>3. ASSUME NEW i \in Nat, i \in Good
      PROVE  i + 1 \in Good
  <2>0. Fine(i)
    BY <1>3
  <2> SUFFICES ASSUME i + 1 \in 1 .. Len(rpo), NEW y, Dominates(g, y, rpo[i + 1]), y # rpo[i + 1]
               PROVE  place[y] < i + 1
    <3>1. \A j \in 1 .. Len(rpo) : j <= i + 1 => j <= i \/ j = i + 1
      BY <1>1
    <3> QED
      BY <2>0, <3>1
  <2>1. CASE i = 0
    <3>1. rpo[i + 1] = EntryBlock
      BY <2>1 DEF IsOrder
    <3> QED
      BY <3>1, DominatesEntry
  <2>2. CASE i # 0
    <3>1. i + 1 \in 2 .. Len(rpo) /\ (i + 1) - 1 = i
      BY <2>2
    <3>2. PICK j \in 1 .. i : rpo[i + 1] \in ToSet(g.succ[rpo[j]])
      BY <3>1 DEF IsOrder
    <3>3. j \in 1 .. Len(rpo) /\ rpo[j] \in 1 .. n
      BY <1>1, <3>1
    <3>4. Dominates(g, y, rpo[j])
      <4> HIDE DEF Good
      <4> QED
        BY <3>2, <3>3, DominatesBefore
    <3>5. CASE y = rpo[j]
      <4>1. place[y] = j /\ j \in Nat /\ j < i + 1
        BY <1>1, <3>3, <3>5
      <4> QED
        BY <4>1
    <3>6. CASE y # rpo[j]
      <4>1. place[y] < j
        BY <2>0, <3>2, <3>3, <3>4, <3>6
      <4>2. y \in Reached(g)
        BY <3>3, <3>4, <1>1, DominatorReached
      <4>3. place[y] \in Nat
        BY <1>1, <4>2
      <4> QED
        BY <3>2, <4>1, <4>3
    <3> QED
      BY <3>5, <3>6
  <2> QED
    BY <2>1, <2>2
<1>4. Nat \subseteq Good
  <2> HIDE DEF Good
  <2> QED
    BY <1>2, <1>3, NumbersInduct, Zenon
<1>5. PICK i \in 1 .. Len(rpo) : b = rpo[i]
  BY <1>1
<1>6. Fine(i)
  BY <1>4, <1>5
<1>7. place[x] < place[b]
  BY <1>1, <1>5, <1>6
<1> QED
  BY <1>7, DominatorReached DEF place

\* A block that is to be avoided is.
LEMMA AvoidedNotIn ==
  ASSUME NEW g, NEW n, IsGraph(g, n), NEW x, x # EntryBlock
  PROVE  x \notin Closure(g, {x})
<1> DEFINE C == Closure(g, {x})
<1>1. EntryBlock \in C /\ Further(g, C, {x}) = C
  BY ClosureSpec
<1> HIDE DEF C
<1>2. EntryBlock \in C \ {x} /\ Further(g, C \ {x}, {x}) \subseteq C \ {x}
  BY <1>1 DEF Further
<1>3. Closure(g, {x}) \subseteq C \ {x}
  <2> DEFINE X == C \ {x}
  <2> HIDE DEF X
  <2>1. EntryBlock \in X /\ Further(g, X, {x}) \subseteq X
    BY <1>2 DEF X
  <2>2. Closure(g, {x}) \subseteq X
    BY <2>1, ClosureSpec
  <2> QED
    BY <2>2 DEF X
<1> QED
  BY <1>3

\* What is found of the dominators is a tree, of blocks that are reached, in
\* which no dominator of a block is left out.
Sound(g, n, place, d) ==
  /\ IsTree(d, place, n) /\ Known(d, n) \subseteq Reached(g)
  /\ \A b \in Known(d, n) \ {EntryBlock} :
       \A x : Dominates(g, x, b) /\ x # b => Dominates(g, x, d[b])

\* The dominators of the blocks of each set are in it.
UpIn(P, d, n) == \A x \in 1 .. n : P[x] \subseteq Known(d, n) /\ Upward(P[x], d, n)

\* One turn of a round, at the place i.
OneTurn(g, n, rpo, d, i, m, e) ==
  /\ IsGraph(g, n) /\ IsOrder(g, n, rpo) /\ Sound(g, n, Places(g, rpo), d)
  /\ i \in 2 .. Len(rpo) /\ \A j \in 1 .. i - 1 : rpo[j] \in Known(d, n)
  /\ m = DominatorOf(g, Places(g, rpo), d, rpo[i])
  /\ e = [d EXCEPT ![rpo[i]] = m]

\* A block after the entry takes the block where its predecessors meet.
LEMMA OneBlock ==
  ASSUME NEW g, NEW n, NEW rpo, NEW d, NEW i, NEW m, NEW e, OneTurn(g, n, rpo, d, i, m, e)
  PROVE  /\ Sound(g, n, Places(g, rpo), e) /\ Known(e, n) = Known(d, n) \cup {rpo[i]}
         /\ MeetOf(d, Places(g, rpo), n, Ready(g, d, rpo[i]), m)
         /\ e[rpo[i]] = m /\ rpo[i] # EntryBlock /\ rpo[i] \in 1 .. n
<1> DEFINE place == Places(g, rpo)
           b == rpo[i]
           K == Known(d, n)
<1>0. /\ IsGraph(g, n) /\ IsOrder(g, n, rpo) /\ Sound(g, n, Places(g, rpo), d)
      /\ i \in 2 .. Len(rpo) /\ \A j \in 1 .. i - 1 : rpo[j] \in Known(d, n)
      /\ m = DominatorOf(g, Places(g, rpo), d, rpo[i])
      /\ e = [d EXCEPT ![rpo[i]] = m]
  BY DEF OneTurn
<1> USE <1>0
<1>1. /\ Len(rpo) \in Nat /\ \A j \in 1 .. Len(rpo) : rpo[j] \in 1 .. n /\ rpo[j] \in Reached(g)
      /\ \A j \in 1 .. Len(rpo) : place[rpo[j]] = j
  BY PlacesInOrder
<1>2. IsTree(d, place, n) /\ K \subseteq Reached(g)
  BY DEF Sound
<1>3. /\ n \in Nat \ {0} /\ EntryBlock \in K /\ None \notin 1 .. n
      /\ \A c \in K : place[c] \in Nat \ {0}
  BY <1>2, TreeEntry
<1>4. b \in 1 .. n /\ b \in Reached(g) /\ place[b] = i /\ b # EntryBlock /\ i \in Nat \ {0}
  <2>1. rpo[1] = EntryBlock /\ 1 \in 1 .. Len(rpo) /\ i \in 1 .. Len(rpo) /\ 1 # i
    BY <1>1 DEF IsOrder
  <2> QED
    BY <1>1, <2>1 DEF IsOrder
<1>5. PICK j \in 1 .. i - 1 : b \in ToSet(g.succ[rpo[j]])
  BY DEF IsOrder
<1> DEFINE R == Ready(g, d, b)
           p == rpo[j]
<1>6. p \in R /\ p \in K /\ place[p] = j /\ j < i /\ j \in Nat
  <2>1. j \in 1 .. Len(rpo) /\ p \in K /\ j < i /\ j \in Nat
    BY <1>1
  <2>2. p \in R
    BY <1>5, <2>1, Edges DEF Ready, Predecessors, Known
  <2> QED
    BY <1>1, <2>1, <2>2
<1>7. MeetOf(d, place, n, R, m)
  <2> HIDE DEF place, b
  <2>1. Ready(g, d, b) # {}
    BY <1>6
  <2>2. m = DominatorOf(g, place, d, b)
    BY DEF place, b
  <2> QED
    BY <1>2, <2>1, <2>2, DominatorMeets
<1>8. m \in K /\ place[m] < place[b] /\ m \in 1 .. n /\ m # None /\ m # b
  <2>1. m \in K /\ place[m] <= place[p]
    BY <1>6, <1>7 DEF MeetOf
  <2>2. place[m] \in Nat /\ place[p] = j
    BY <1>3, <1>6, <2>1
  <2>3. place[m] < place[b]
    BY <1>4, <1>6, <2>1, <2>2
  <2>4. m \in 1 .. n /\ m # None
    BY <1>3, <2>1 DEF Known
  <2> QED
    BY <1>4, <2>1, <2>2, <2>3, <2>4
<1>9. d \in [1 .. n -> (1 .. n) \cup {None}] /\ d[EntryBlock] = EntryBlock
  BY <1>2 DEF IsTree
<1>10. /\ e \in [1 .. n -> (1 .. n) \cup {None}] /\ e[b] = m
       /\ \A c \in 1 .. n : c # b => e[c] = d[c]
  BY <1>4, <1>8, <1>9
<1> HIDE DEF place, b, p, R
<1>11. Known(e, n) = K \cup {b}
  BY <1>4, <1>8, <1>10 DEF Known
<1>12. \A c \in Known(e, n) : place[c] \in Nat \ {0}
  <2> HIDE <1>0 DEF K
  <2> QED
    BY <1>3, <1>4, <1>11
<1>13. \A c \in Known(e, n) \ {EntryBlock} : e[c] \in Known(e, n) /\ place[e[c]] < place[c]
  <2> SUFFICES ASSUME NEW c \in Known(e, n) \ {EntryBlock}
               PROVE  e[c] \in Known(e, n) /\ place[e[c]] < place[c]
    OBVIOUS
  <2>1. CASE c = b
    BY <1>8, <1>10, <1>11, <2>1
  <2>2. CASE c # b
    <3>1. c \in K \ {EntryBlock} /\ e[c] = d[c]
      BY <1>10, <1>11, <2>2 DEF Known
    <3>2. d[c] \in K /\ place[d[c]] < place[c]
      BY <1>2, <3>1 DEF IsTree
    <3> QED
      BY <1>11, <3>1, <3>2
  <2> QED
    BY <2>1, <2>2
<1>14. \A c, f \in Known(e, n) : place[c] = place[f] => c = f
  <2>1. Known(e, n) \subseteq Reached(g)
    BY <1>2, <1>4, <1>11
  <2>2. \A c \in Reached(g) : \E k \in 1 .. Len(rpo) : c = rpo[k]
    BY PlacesInOrder
  <2> SUFFICES ASSUME NEW c \in Known(e, n), NEW f \in Known(e, n), place[c] = place[f]
               PROVE  c = f
    OBVIOUS
  <2>3. PICK k \in 1 .. Len(rpo) : c = rpo[k]
    BY <2>1, <2>2
  <2>4. PICK l \in 1 .. Len(rpo) : f = rpo[l]
    BY <2>1, <2>2
  <2> QED
    BY <1>1, <2>3, <2>4
<1>15. IsTree(e, place, n)
  <2>1. e[EntryBlock] = EntryBlock /\ place[EntryBlock] = 1
    <3>1. EntryBlock \in 1 .. n
      BY <1>3 DEF Known
    <3> QED
      BY <1>2, <1>4, <1>9, <1>10, <3>1 DEF IsTree
  <2> QED
    BY <1>3, <1>10, <1>12, <1>13, <1>14, <2>1 DEF IsTree
<1>16. ASSUME NEW c \in Known(e, n) \ {EntryBlock}, NEW x, Dominates(g, x, c), x # c
       PROVE  Dominates(g, x, e[c])
  <2>1. CASE c # b
    <3>1. c \in K \ {EntryBlock} /\ e[c] = d[c]
      BY <1>10, <1>11, <2>1 DEF Known
    <3> QED
      BY <1>16, <3>1 DEF Sound
  <2>2. CASE c = b
    <3> DEFINE Y == {y \in K : Dominates(g, x, y)}
    <3>1. x \in K
      <4>1. x \in Reached(g) /\ place[x] < i
        BY <1>4, <1>16, <2>2, DominatorFirst DEF place
      <4>2. PICK k \in 1 .. Len(rpo) : x = rpo[k]
        BY <4>1, PlacesInOrder
      <4>3. k \in 1 .. i - 1
        BY <1>1, <1>4, <4>1, <4>2
      <4> QED
        BY <4>2, <4>3
    <3>2. R \subseteq Y
      <4> SUFFICES ASSUME NEW q \in R
                   PROVE  q \in K /\ Dominates(g, x, q)
        OBVIOUS
      <4>1. q \in 1 .. n /\ b \in ToSet(g.succ[q]) /\ q \in K
        BY Edges DEF R, Ready, Predecessors, Known
      <4> QED
        BY <1>16, <2>2, <4>1, DominatesBefore
    <3>3. UpTo(Y, x, d, place, n)
      <4> SUFFICES ASSUME NEW y \in Y, y # x
                   PROVE  d[y] \in Y /\ place[x] < place[y]
        BY DEF UpTo
      <4>1. y \in K /\ Dominates(g, x, y) /\ y \in Reached(g)
        BY <1>2
      <4>2. place[x] < place[y]
        BY <4>1, DominatorFirst DEF place
      <4>3. y # EntryBlock
        BY <4>1, DominatesEntry
      <4>4. d[y] \in K /\ Dominates(g, x, d[y])
        BY <1>2, <4>1, <4>3 DEF Sound, IsTree
      <4> QED
        BY <4>2, <4>4
    <3> HIDE DEF Y
    <3>4. m \in Y
      BY <1>7, <3>1, <3>2, <3>3 DEF MeetOf
    <3> QED
      BY <1>10, <2>2, <3>4 DEF Y
  <2> QED
    BY <2>1, <2>2
<1>17. Sound(g, n, place, e)
  <2>1. Known(e, n) \subseteq Reached(g)
    BY <1>2, <1>4, <1>11
  <2> QED
    BY <1>15, <1>16, <2>1 DEF Sound
<1> QED
  BY <1>4, <1>7, <1>10, <1>11, <1>17 DEF place, b, R

\* Each set in P with what leads to the blocks of the one in Q.
GrowsAt(g, P, Q, x) ==
  /\ EntryBlock \in P[x] /\ P[x] \subseteq Q[x] /\ Q[x] \subseteq Reached(g)
  /\ \A b \in Q[x] \ {EntryBlock} : \E p \in P[x] : b \in ToSet(g.succ[p])

Grows(g, n, P, Q) == \A x \in 1 .. n : GrowsAt(g, P, Q, x)

\* In a round, when the first j blocks have been there.
Halfway(g, n, rpo, P, Q, d, j) ==
  /\ Sound(g, n, Places(g, rpo), d) /\ UpIn(P, d, n)
  /\ \A k \in 1 .. j : rpo[k] \in Known(d, n)
  /\ \A k \in 2 .. j : \A x \in 1 .. n : rpo[k] \in Q[x] => d[rpo[k]] \in P[x]

NextBlock(g, rpo, d, i) == [d EXCEPT ![rpo[i + 1]] = DominatorOf(g, Places(g, rpo), d, rpo[i + 1])]

\* A round goes on from block to block.
LEMMA HalfwayOn ==
  ASSUME NEW g, NEW n, IsGraph(g, n), NEW rpo, IsOrder(g, n, rpo), NEW P, NEW Q, Grows(g, n, P, Q),
         NEW i \in 1 .. Len(rpo) - 1, NEW d, Halfway(g, n, rpo, P, Q, d, i)
  PROVE  Halfway(g, n, rpo, P, Q, NextBlock(g, rpo, d, i), i + 1)
<1> DEFINE place == Places(g, rpo)
           b == rpo[i + 1]
           m == DominatorOf(g, place, d, b)
           e == NextBlock(g, rpo, d, i)
           K == Known(d, n)
<1>1. /\ Len(rpo) \in Nat /\ \A j \in 1 .. Len(rpo) : rpo[j] \in 1 .. n /\ rpo[j] \in Reached(g)
      /\ \A j \in 1 .. Len(rpo) : place[rpo[j]] = j
  BY PlacesInOrder
<1>2. i + 1 \in 2 .. Len(rpo) /\ (i + 1) - 1 = i /\ i \in Nat
  BY <1>1
<1>3. Sound(g, n, place, d) /\ UpIn(P, d, n) /\ \A k \in 1 .. i : rpo[k] \in K
  BY DEF Halfway
<1>4. /\ Sound(g, n, place, e) /\ Known(e, n) = K \cup {b}
      /\ MeetOf(d, place, n, Ready(g, d, b), m)
      /\ e[b] = m /\ b # EntryBlock /\ b \in 1 .. n
  <2> DEFINE q == i + 1
             h == DominatorOf(g, place, d, rpo[q])
             f == [d EXCEPT ![rpo[q]] = h]
  <2>1. q \in 2 .. Len(rpo) /\ \A j \in 1 .. q - 1 : rpo[j] \in K
    BY <1>2, <1>3
  <2>3. h = DominatorOf(g, Places(g, rpo), d, rpo[q]) /\ f = [d EXCEPT ![rpo[q]] = h]
    OBVIOUS
  <2>4. Sound(g, n, Places(g, rpo), d) /\ \A j \in 1 .. q - 1 : rpo[j] \in Known(d, n)
    BY <1>3, <2>1
  <2> HIDE DEF q, f, h
  <2>2. /\ Sound(g, n, place, f) /\ Known(f, n) = K \cup {rpo[q]}
        /\ MeetOf(d, place, n, Ready(g, d, rpo[q]), h)
        /\ f[rpo[q]] = h /\ rpo[q] # EntryBlock /\ rpo[q] \in 1 .. n
    <3>1. /\ Sound(g, n, Places(g, rpo), f) /\ Known(f, n) = Known(d, n) \cup {rpo[q]}
          /\ MeetOf(d, Places(g, rpo), n, Ready(g, d, rpo[q]), h)
          /\ f[rpo[q]] = h /\ rpo[q] # EntryBlock /\ rpo[q] \in 1 .. n
      <4>1. OneTurn(g, n, rpo, d, q, h, f)
          BY <2>1, <2>3, <2>4 DEF OneTurn
        <4> QED
          BY <4>1, OneBlock, Zenon
    <3> QED
      BY <3>1
  <2> QED
    BY <2>2 DEF NextBlock, q, h, f
<1>5. e \in [1 .. n -> (1 .. n) \cup {None}] /\ \A c \in 1 .. n : c # b => e[c] = d[c]
  <2>1. d \in [1 .. n -> (1 .. n) \cup {None}]
    BY <1>3 DEF Sound, IsTree
  <2>2. e \in [1 .. n -> (1 .. n) \cup {None}]
    BY <1>4 DEF Sound, IsTree
  <2>3. e = [d EXCEPT ![b] = m]
    BY DEF NextBlock
  <2> HIDE DEF e, b, m
  <2>4. \A c \in 1 .. n : c # b => e[c] = d[c]
    BY <2>1, <2>3
  <2> QED
    BY <2>2, <2>4
<1> HIDE DEF place, m, e
<1>6. ASSUME NEW x \in 1 .. n, b \in Q[x]
      PROVE  m \in P[x]
  <2>1. PICK p \in P[x] : b \in ToSet(g.succ[p])
    BY <1>4, <1>6 DEF Grows, GrowsAt
  <2>2. p \in K /\ Upward(P[x], d, n)
    BY <1>3 DEF UpIn
  <2>3. p \in Ready(g, d, b)
    BY <2>1, <2>2, Edges DEF Ready, Predecessors, Known
  <2>4. Ready(g, d, b) \cap P[x] # {}
    BY <2>1, <2>3
  <2> DEFINE X == P[x]
  <2> HIDE DEF X, b
  <2>5. Upward(X, d, n) /\ Ready(g, d, b) \cap X # {}
    BY <2>2, <2>4 DEF X
  <2>6. m \in X
    BY <1>4, <2>5 DEF MeetOf
  <2> QED
    BY <2>6 DEF X
<1>7. UpIn(P, e, n)
  <2> SUFFICES ASSUME NEW x \in 1 .. n
               PROVE  P[x] \subseteq Known(e, n) /\ Upward(P[x], e, n)
    BY DEF UpIn
  <2>1. P[x] \subseteq K /\ Upward(P[x], d, n) /\ P[x] \subseteq Q[x]
    BY <1>3 DEF UpIn, Grows, GrowsAt
  <2>2. ASSUME NEW c \in P[x] \cap Known(e, n)
        PROVE  e[c] \in P[x]
    <3>1. CASE c = b
      BY <1>4, <1>6, <2>1, <3>1
    <3>2. CASE c # b
      <4>1. c \in K /\ e[c] = d[c]
        BY <1>5, <2>1, <3>2 DEF Known
      <4> QED
        BY <2>1, <4>1 DEF Upward
    <3> QED
      BY <3>1, <3>2
  <2> QED
    BY <1>4, <2>1, <2>2 DEF Upward
<1>8. \A k \in 1 .. i + 1 : rpo[k] \in Known(e, n)
  <2>1. \A k \in 1 .. i + 1 : k \in 1 .. i \/ k = i + 1
    BY <1>2
  <2> QED
    BY <1>3, <1>4, <2>1
<1>9. ASSUME NEW k \in 2 .. i + 1, NEW x \in 1 .. n, rpo[k] \in Q[x]
      PROVE  e[rpo[k]] \in P[x]
  <2>1. CASE k = i + 1
    BY <1>4, <1>6, <1>9, <2>1
  <2>2. CASE k # i + 1
    <3>1. k \in 2 .. i /\ k \in 1 .. Len(rpo) /\ i + 1 \in 1 .. Len(rpo)
      BY <1>2, <2>2
    <3>2. rpo[k] # b /\ rpo[k] \in 1 .. n
      BY <1>1, <2>2, <3>1
    <3>3. d[rpo[k]] \in P[x]
      BY <1>9, <3>1 DEF Halfway
    <3> QED
      BY <1>5, <3>2, <3>3
  <2> QED
    BY <2>1, <2>2
<1> QED
  BY <1>4, <1>7, <1>8, <1>9 DEF Halfway, place, e

\* After a round every block has a dominator, and the sets that were closed
\* have grown.
LEMMA RoundGrows ==
  ASSUME NEW g, NEW n, IsGraph(g, n), NEW rpo, IsOrder(g, n, rpo), NEW P, NEW Q, Grows(g, n, P, Q),
         NEW d, Sound(g, n, Places(g, rpo), d), UpIn(P, d, n)
  PROVE  LET e == Round(g, rpo, d) IN
         Sound(g, n, Places(g, rpo), e) /\ UpIn(Q, e, n) /\ Known(e, n) = Reached(g)
<1> DEFINE N == Len(rpo) - 1
           D == [1 .. n -> (1 .. n) \cup {None}]
           S == [i \in 0 .. N |-> {h \in D : Halfway(g, n, rpo, P, Q, h, i + 1)}]
           F == [i \in 1 .. N |-> [h \in D |-> NextBlock(g, rpo, h, i)]]
<1>1. /\ Len(rpo) \in Nat /\ N \in Nat /\ rpo[1] = EntryBlock
  BY PlacesInOrder DEF IsOrder
<1>2. ASSUME NEW h, NEW j, Halfway(g, n, rpo, P, Q, h, j)
      PROVE  h \in D
  BY <1>2 DEF Halfway, Sound, IsTree
<1>3. d \in S[0]
  <2>1. \A k \in 1 .. 0 + 1 : rpo[k] \in Known(d, n)
    <3>1. EntryBlock \in Known(d, n)
      BY TreeEntry DEF Sound
    <3>2. \A k \in 1 .. 0 + 1 : k = 1
      OBVIOUS
    <3> QED
      BY <1>1, <3>1, <3>2
  <2>2. Halfway(g, n, rpo, P, Q, d, 0 + 1)
    BY <2>1 DEF Halfway
  <2>3. 0 \in 0 .. N /\ d \in D
    BY <1>1, <1>2, <2>2
  <2> HIDE DEF N, D
  <2> QED
    BY <2>2, <2>3
<1>4. ASSUME NEW i \in 1 .. N, NEW h \in S[i - 1]
      PROVE  F[i][h] \in S[i] /\ F[i][h] = NextBlock(g, rpo, h, i)
  <2>1. i - 1 \in 0 .. N /\ i \in 0 .. N /\ (i - 1) + 1 = i
    BY <1>1
  <2>2. h \in D /\ Halfway(g, n, rpo, P, Q, h, i)
    <3> HIDE DEF N, D
    <3>1. S[i - 1] = {k \in D : Halfway(g, n, rpo, P, Q, k, (i - 1) + 1)}
      BY <2>1
    <3> QED
      BY <1>4, <2>1, <3>1
  <2>3. Halfway(g, n, rpo, P, Q, NextBlock(g, rpo, h, i), i + 1)
    BY <2>2, HalfwayOn
  <2>4. NextBlock(g, rpo, h, i) \in D
    BY <1>2, <2>3
  <2> HIDE DEF N, D
  <2> QED
    BY <2>1, <2>2, <2>3, <2>4
<1>5. PICK t : Tables(t, N, S, d, F)
  <2>1. Leads(N, S, d, F)
    <3> HIDE DEF S, F, N
    <3> QED
      BY <1>1, <1>3, <1>4 DEF Leads
  <2> HIDE DEF S, F, N
  <2> QED
    BY <2>1, TableOfSteps
<1> DEFINE after == CHOOSE a : a = [i \in 0 .. N |-> IF i = 0 THEN d ELSE NextBlock(g, rpo, a[i - 1], i)]
<1>6. \A i \in 1 .. N : t[i] = NextBlock(g, rpo, t[i - 1], i)
  <2> SUFFICES ASSUME NEW i \in 1 .. N
               PROVE  t[i] = NextBlock(g, rpo, t[i - 1], i)
    OBVIOUS
  <2>1. i - 1 \in 0 .. N
    BY <1>1
  <2> HIDE DEF S, F, N
  <2>2. t[i - 1] \in S[i - 1] /\ t[i] = F[i][t[i - 1]]
    BY <1>5, <2>1 DEF Tables
  <2> QED
    BY <1>4, <2>2
<1> HIDE DEF N, S, F
<1>7. t = [i \in 0 .. N |-> IF i = 0 THEN d ELSE NextBlock(g, rpo, t[i - 1], i)]
  <2>1. \A i \in 0 .. N : i = 0 \/ i \in 1 .. N
    BY <1>1
  <2>2. t = [i \in 0 .. N |-> t[i]] /\ t[0] = d
    BY <1>5 DEF Tables, IsTable
  <2> QED
    BY <1>6, <2>1, <2>2
<1>8. after = [i \in 0 .. N |-> IF i = 0 THEN d ELSE NextBlock(g, rpo, after[i - 1], i)]
  BY <1>7
<1>9. Round(g, rpo, d) = after[N]
  BY Zenon DEF Round, Loop, NextBlock, N
<1> HIDE DEF after
<1>10. after[N] = t[N]
  <2>1. t[0] = d
    BY <1>5 DEF Tables
  <2>2. after[0] = d /\ \A i \in 1 .. N : after[i] = NextBlock(g, rpo, after[i - 1], i)
    <3>1. 0 \in 0 .. N /\ \A i \in 1 .. N : i \in 0 .. N /\ i # 0
      BY <1>1
    <3> QED
      BY <1>8, <3>1
  <2>3. \A i \in 1 .. N : t[i - 1] = after[i - 1] => t[i] = after[i]
    BY <1>6, <2>2
  <2> QED
    BY <1>1, <2>1, <2>2, <2>3, TablesMeet
<1> DEFINE e == t[N]
<1>11. Halfway(g, n, rpo, P, Q, e, N + 1)
  <2>1. N \in 0 .. N
    BY <1>1
  <2>2. t[N] \in S[N]
    BY <1>5, <2>1 DEF Tables
  <2> HIDE DEF D
  <2> QED
    BY <2>1, <2>2 DEF S
<1> HIDE DEF e
<1>12. N + 1 = Len(rpo)
  BY <1>1 DEF N
<1>13. Known(e, n) = Reached(g)
  <2>1. \A b \in Reached(g) : b \in Known(e, n)
    BY <1>11, <1>12, PlacesInOrder DEF Halfway
  <2> QED
    BY <1>11, <2>1 DEF Halfway, Sound
<1>14. UpIn(Q, e, n)
  <2> SUFFICES ASSUME NEW x \in 1 .. n
               PROVE  Q[x] \subseteq Known(e, n) /\ Upward(Q[x], e, n)
    BY DEF UpIn
  <2>1. EntryBlock \in Q[x] /\ P[x] \subseteq Q[x] /\ Q[x] \subseteq Reached(g)
    BY DEF Grows, GrowsAt
  <2>2. ASSUME NEW c \in Q[x]
        PROVE  e[c] \in Q[x]
    <3>1. CASE c = EntryBlock
      <4>1. e[EntryBlock] = EntryBlock
        BY <1>11 DEF Halfway, Sound, IsTree
      <4> QED
        BY <2>1, <3>1, <4>1
    <3>2. CASE c # EntryBlock
      <4>1. PICK k \in 1 .. Len(rpo) : c = rpo[k]
        BY <2>1, PlacesInOrder
      <4>2. k \in 2 .. N + 1
        <5>1. k # 1
          BY <1>1, <3>2, <4>1
        <5> QED
          BY <1>1, <1>12, <5>1
      <4> QED
        BY <1>11, <2>1, <2>2, <4>1, <4>2 DEF Halfway
    <3> QED
      BY <3>1, <3>2
  <2> QED
    BY <1>13, <2>1, <2>2 DEF Upward
<1> QED
  BY <1>9, <1>10, <1>11, <1>13, <1>14 DEF Halfway, e

Above(g, b) == {x \in Reached(g) \ {b} : Dominates(g, x, b)}

\* What Cfg::dominators promises.
IsImmediate(g, n, d) ==
  /\ d \in [1 .. n -> (1 .. n) \cup {None}] /\ d[EntryBlock] = EntryBlock
  /\ \A b \in (1 .. n) \ {EntryBlock} :
       IF b \notin Reached(g) THEN d[b] = None
       ELSE d[b] \in Above(g, b) /\ \A x \in Above(g, b) : Dominates(g, x, d[b])

\* What is reached in k steps past each block.
Steps(g, n, k) == [x \in 1 .. n |-> Stages(g, n, {x})[k]]

\* One step more is reached past each block, and in n steps all that is.
LEMMA StepsGrow ==
  ASSUME NEW g, NEW n, IsGraph(g, n)
  PROVE  /\ \A k \in Nat : k + 1 <= n => Grows(g, n, Steps(g, n, k), Steps(g, n, k + 1))
         /\ Grows(g, n, Steps(g, n, n), Steps(g, n, n))
         /\ \A x \in 1 .. n : Steps(g, n, 0)[x] = {EntryBlock} /\ Steps(g, n, n)[x] = Closure(g, {x})
<1>0. n \in Nat \ {0}
  BY DEF IsGraph
<1>1. ASSUME NEW x \in 1 .. n
      PROVE  /\ \A k \in Nat : k + 1 <= n => GrowsAt(g, Steps(g, n, k), Steps(g, n, k + 1), x)
             /\ GrowsAt(g, Steps(g, n, n), Steps(g, n, n), x)
             /\ Steps(g, n, 0)[x] = {EntryBlock} /\ Steps(g, n, n)[x] = Closure(g, {x})
  <2> DEFINE t == Stages(g, n, {x})
             P(k) == Steps(g, n, k)[x]
  <2>1. Traced(g, n, {x}, t) /\ Closure(g, {x}) = t[n]
    BY StagesExist
  <2> HIDE DEF t
  <2>2. t[0] = {EntryBlock}
    BY <2>1 DEF Traced
  <2>3. ASSUME NEW k \in Nat, k + 1 <= n
        PROVE  /\ t[k] \subseteq t[k + 1] /\ t[k + 1] \subseteq 1 .. n
               /\ \A b \in t[k + 1] \ {EntryBlock} : \E p \in t[k] : b \in ToSet(g.succ[p])
    BY <2>3, StagesFollow DEF t
  <2>4. ASSUME NEW k \in Nat, k <= n
        PROVE  EntryBlock \in t[k] /\ t[k] \subseteq Reached(g)
    <3> DEFINE Good == {i \in Nat : i <= n => EntryBlock \in t[i] /\ t[i] \subseteq Reached(g)}
    <3>1. 0 \in Good
      BY <2>2, ReachedOn, ClosureSpec DEF Reached
    <3>2. ASSUME NEW i \in Nat, i \in Good
          PROVE  i + 1 \in Good
      <4> SUFFICES ASSUME i + 1 <= n
                   PROVE  EntryBlock \in t[i + 1] /\ t[i + 1] \subseteq Reached(g)
        OBVIOUS
      <4>1. EntryBlock \in t[i] /\ t[i] \subseteq Reached(g)
        BY <1>0, <3>2
      <4>2. ASSUME NEW b \in t[i + 1]
            PROVE  b \in Reached(g)
        <5>1. CASE b = EntryBlock
          BY <4>1, <5>1
        <5>2. CASE b # EntryBlock
          BY <2>3, <4>1, <5>2, ReachedOn
        <5> QED
          BY <5>1, <5>2
      <4> QED
        BY <2>3, <4>1, <4>2
    <3>3. Nat \subseteq Good
      <4> HIDE DEF Good
      <4> QED
        BY <3>1, <3>2, NumbersInduct, Zenon
    <3> QED
      BY <2>4, <3>3
  <2>5. \A b \in t[n] \ {EntryBlock} : \E p \in t[n] : b \in ToSet(g.succ[p])
    <3>1. n - 1 \in Nat /\ (n - 1) + 1 = n /\ (n - 1) + 1 <= n
      BY <1>0
    <3>2. /\ t[n - 1] \subseteq t[(n - 1) + 1]
          /\ \A b \in t[(n - 1) + 1] \ {EntryBlock} : \E p \in t[n - 1] : b \in ToSet(g.succ[p])
      BY <2>3, <3>1
    <3> QED
      BY <3>1, <3>2
  <2>6. \A k : P(k) = t[k]
    BY DEF Steps, t
  <2> HIDE DEF P
  <2>7. ASSUME NEW k \in Nat, k + 1 <= n
        PROVE  /\ EntryBlock \in P(k) /\ P(k) \subseteq P(k + 1) /\ P(k + 1) \subseteq Reached(g)
               /\ \A b \in P(k + 1) \ {EntryBlock} : \E p \in P(k) : b \in ToSet(g.succ[p])
    <3>1. k <= n /\ k + 1 \in Nat
      BY <1>0, <2>7
    <3> QED
      BY <2>3, <2>4, <2>6, <2>7, <3>1
  <2>8. EntryBlock \in P(n) /\ P(n) \subseteq Reached(g)
    BY <1>0, <2>4, <2>6
  <2>9. ASSUME NEW k \in Nat, k + 1 <= n
        PROVE  GrowsAt(g, Steps(g, n, k), Steps(g, n, k + 1), x)
    BY <2>7, <2>9 DEF GrowsAt, P
  <2>10. GrowsAt(g, Steps(g, n, n), Steps(g, n, n), x)
    BY <2>5, <2>6, <2>8 DEF GrowsAt, P
  <2> QED
    BY <2>1, <2>2, <2>6, <2>9, <2>10 DEF P
<1>2. ASSUME NEW k \in Nat, k + 1 <= n
      PROVE  Grows(g, n, Steps(g, n, k), Steps(g, n, k + 1))
  BY <1>1, <1>2 DEF Grows
<1>3. Grows(g, n, Steps(g, n, n), Steps(g, n, n))
  BY <1>1 DEF Grows
<1> QED
  BY <1>1, <1>2, <1>3

\* What is found after k rounds.
Found(g, n, rpo, d, k) ==
  /\ Sound(g, n, Places(g, rpo), d) /\ UpIn(Steps(g, n, k), d, n)
  /\ k = 0 \/ Known(d, n) = Reached(g)

\* A round finds what is one step further.
LEMMA FoundNext ==
  ASSUME NEW g, NEW n, IsGraph(g, n), NEW rpo, IsOrder(g, n, rpo), NEW d, NEW k \in Nat,
         Found(g, n, rpo, d, k)
  PROVE  /\ k + 1 <= n => Found(g, n, rpo, Round(g, rpo, d), k + 1)
         /\ k = n => Found(g, n, rpo, Round(g, rpo, d), n)
<1> DEFINE e == Round(g, rpo, d)
<1>1. Sound(g, n, Places(g, rpo), d) /\ UpIn(Steps(g, n, k), d, n)
  BY DEF Found
<1>2. ASSUME NEW Q, Grows(g, n, Steps(g, n, k), Q)
      PROVE  Sound(g, n, Places(g, rpo), e) /\ UpIn(Q, e, n) /\ Known(e, n) = Reached(g)
  BY <1>1, <1>2, RoundGrows
<1> HIDE DEF e
<1>3. ASSUME k + 1 <= n
      PROVE  Found(g, n, rpo, e, k + 1)
  BY <1>2, <1>3, StepsGrow DEF Found
<1>4. ASSUME k = n
      PROVE  Found(g, n, rpo, e, n)
  BY <1>2, <1>4, StepsGrow DEF Found
<1> QED
  BY <1>3, <1>4 DEF e

\* After as many rounds as there are blocks all is found.
LEMMA FoundAll ==
  ASSUME NEW g, NEW n, IsGraph(g, n), NEW rpo, IsOrder(g, n, rpo), NEW d, Found(g, n, rpo, d, n)
  PROVE  IsImmediate(g, n, d)
<1> DEFINE place == Places(g, rpo)
<1>0. n \in Nat \ {0} /\ EntryBlock \in 1 .. n /\ None \notin 1 .. n
  <2>1. n \in Nat \ {0}
    BY DEF IsGraph
  <2>2. None \notin 1 .. n
    BY NoneAssumption
  <2> QED
    BY <2>1, <2>2, Edges
<1>1. Sound(g, n, place, d) /\ UpIn(Steps(g, n, n), d, n) /\ Known(d, n) = Reached(g)
  BY <1>0 DEF Found
<1>2. IsTree(d, place, n)
  BY <1>1 DEF Sound
<1>3. d \in [1 .. n -> (1 .. n) \cup {None}] /\ d[EntryBlock] = EntryBlock
  BY <1>2 DEF IsTree
<1>4. ASSUME NEW b \in (1 .. n) \ {EntryBlock}, b \notin Reached(g)
      PROVE  d[b] = None
  BY <1>1, <1>4 DEF Known
<1>5. ASSUME NEW b \in Reached(g) \ {EntryBlock}
      PROVE  d[b] \in Above(g, b) /\ \A x \in Above(g, b) : Dominates(g, x, d[b])
  <2>1. b \in Known(d, n) \ {EntryBlock}
    BY <1>1
  <2>2. d[b] \in Reached(g) /\ place[d[b]] < place[b] /\ place[b] \in Nat
    BY <1>1, <1>2, <2>1 DEF IsTree
  <2>3. d[b] # b /\ d[b] \in 1 .. n
    BY <1>1, <2>2 DEF Known
  <2>4. Dominates(g, d[b], b)
    <3> SUFFICES ASSUME d[b] # EntryBlock, b \in Closure(g, {d[b]})
                 PROVE  FALSE
      BY DEF Dominates
    <3> DEFINE X == Closure(g, {d[b]})
    <3>1. Upward(X, d, n)
      <4>1. Steps(g, n, n)[d[b]] = X
        BY <2>3, StepsGrow
      <4> QED
        BY <1>1, <2>3, <4>1 DEF UpIn
    <3>2. d[b] \in X
      BY <2>1, <3>1 DEF Upward
    <3> QED
      BY <3>2, AvoidedNotIn
  <2>5. d[b] \in Above(g, b)
    BY <2>2, <2>3, <2>4 DEF Above
  <2>6. \A x \in Above(g, b) : Dominates(g, x, d[b])
    BY <1>1, <2>1 DEF Above, Sound
  <2> QED
    BY <2>5, <2>6
<1> QED
  BY <1>3, <1>4, <1>5 DEF IsImmediate

\* There is one immediate dominator.
LEMMA ImmediateOnce ==
  ASSUME NEW g, NEW n, IsGraph(g, n), NEW d, IsImmediate(g, n, d), NEW e, IsImmediate(g, n, e)
  PROVE  d = e
<1>1. \A b \in 1 .. n : d[b] = e[b]
  <2>0. d[EntryBlock] = e[EntryBlock]
    BY DEF IsImmediate
  <2> SUFFICES ASSUME NEW b \in (1 .. n) \ {EntryBlock}
               PROVE  d[b] = e[b]
    BY <2>0
  <2>1. CASE b \notin Reached(g)
    BY <2>1 DEF IsImmediate
  <2>2. CASE b \in Reached(g)
    <3>1. /\ d[b] \in Above(g, b) /\ \A x \in Above(g, b) : Dominates(g, x, d[b])
          /\ e[b] \in Above(g, b) /\ \A x \in Above(g, b) : Dominates(g, x, e[b])
      BY <2>2 DEF IsImmediate
    <3>2. d[b] \in Reached(g) /\ e[b] \in Reached(g) /\ Dominates(g, e[b], d[b]) /\ Dominates(g, d[b], e[b])
      BY <3>1 DEF Above
    <3> QED
      BY <3>2, DominatesOneWay
  <2> QED
    BY <2>1, <2>2
<1>2. d \in [1 .. n -> (1 .. n) \cup {None}] /\ e \in [1 .. n -> (1 .. n) \cup {None}]
  BY DEF IsImmediate
<1> DEFINE S == 1 .. n
           T == (1 .. n) \cup {None}
<1> HIDE DEF S, T
<1>3. d \in [S -> T] /\ e \in [S -> T] /\ \A b \in S : d[b] = e[b]
  BY <1>1, <1>2 DEF S, T
<1> QED
  BY <1>3

NoneKnown(n) == [b \in 1 .. n |-> IF b = EntryBlock THEN EntryBlock ELSE None]

Again(g, rpo, s) ==
  IF ~s.changed THEN s
  ELSE [idom |-> Round(g, rpo, s.idom), changed |-> Round(g, rpo, s.idom) # s.idom]

\* What is known of the dominators in turn i of the rounds.
Rounds(g, n, rpo, s, i) ==
  /\ s = [idom |-> s.idom, changed |-> s.changed] /\ s.changed \in BOOLEAN
  /\ IF i <= n THEN Found(g, n, rpo, s.idom, i) ELSE Found(g, n, rpo, s.idom, n) /\ ~s.changed
  /\ ~s.changed => Round(g, rpo, s.idom) = s.idom

\* At first only the entry is known.
LEMMA NothingFound ==
  ASSUME NEW g, NEW n, IsGraph(g, n), NEW rpo, IsOrder(g, n, rpo)
  PROVE  Found(g, n, rpo, NoneKnown(n), 0)
<1> DEFINE d == NoneKnown(n)
           place == Places(g, rpo)
<1>1. n \in Nat \ {0} /\ EntryBlock \in 1 .. n /\ None \notin 1 .. n
  <2>1. n \in Nat \ {0}
    BY DEF IsGraph
  <2>2. None \notin 1 .. n
    BY NoneAssumption
  <2> QED
    BY <2>1, <2>2, Edges
<1>2. d \in [1 .. n -> (1 .. n) \cup {None}] /\ d[EntryBlock] = EntryBlock /\ Known(d, n) = {EntryBlock}
  BY <1>1 DEF NoneKnown, Known
<1>3. place[EntryBlock] = 1
  <2>1. 1 \in 1 .. Len(rpo) /\ rpo[1] = EntryBlock
    BY PlacesInOrder DEF IsOrder
  <2> QED
    BY <2>1, PlacesInOrder
<1> HIDE DEF d, place
<1>4. IsTree(d, place, n)
  BY <1>1, <1>2, <1>3 DEF IsTree
<1>5. Sound(g, n, place, d)
  BY <1>2, <1>4, ReachedOn, ClosureSpec DEF Sound, Reached
<1>6. UpIn(Steps(g, n, 0), d, n)
  <2>1. \A x \in 1 .. n : Steps(g, n, 0)[x] = {EntryBlock}
    BY StepsGrow
  <2> QED
    BY <1>2, <2>1 DEF UpIn, Upward
<1> QED
  BY <1>5, <1>6 DEF Found, d, place

\* A round that changes nothing is the last; any other finds more.
LEMMA RoundsOn ==
  ASSUME NEW g, NEW n, IsGraph(g, n), NEW rpo, IsOrder(g, n, rpo), NEW i \in 1 .. n + 1,
         NEW s, Rounds(g, n, rpo, s, i - 1)
  PROVE  Rounds(g, n, rpo, Again(g, rpo, s), i)
<1> DEFINE d == s.idom
           e == Round(g, rpo, d)
<1>0. n \in Nat \ {0} /\ i - 1 \in Nat /\ i - 1 <= n /\ i \in Nat
  BY DEF IsGraph
<1>1. Found(g, n, rpo, d, i - 1) /\ s.changed \in BOOLEAN /\ (~s.changed => e = d)
      /\ s = [idom |-> d, changed |-> s.changed]
  BY <1>0 DEF Rounds
<1> HIDE DEF e, d
<1>2. i <= n => Found(g, n, rpo, e, i)
  <2>1. (i - 1) + 1 = i
    BY <1>0
  <2> QED
    BY <1>0, <1>1, <2>1, FoundNext DEF e
<1>3. ~(i <= n) => Found(g, n, rpo, e, n) /\ Found(g, n, rpo, d, n) /\ e = d
  <2> SUFFICES ASSUME ~(i <= n)
               PROVE  Found(g, n, rpo, e, n) /\ Found(g, n, rpo, d, n) /\ e = d
    OBVIOUS
  <2>1. i - 1 = n
    BY <1>0
  <2>2. Found(g, n, rpo, d, n)
    BY <1>1, <2>1
  <2>3. Found(g, n, rpo, e, n)
    BY <1>0, <2>2, FoundNext DEF e
  <2> QED
    BY <2>2, <2>3, FoundAll, ImmediateOnce
<1>4. CASE ~s.changed
  <2>1. Again(g, rpo, s) = s /\ e = d
    BY <1>1, <1>4 DEF Again
  <2>2. s.idom = d
    BY DEF d
  <2> QED
    BY <1>1, <1>2, <1>3, <1>4, <2>1, <2>2 DEF Rounds, e
<1>5. CASE s.changed
  <2> DEFINE a == Again(g, rpo, s)
  <2>1. a = [idom |-> e, changed |-> e # d]
    BY <1>5 DEF Again, e, d
  <2> HIDE DEF a
  <2>2. a.idom = e /\ a.changed = (e # d) /\ a.changed \in BOOLEAN /\ a = [idom |-> a.idom, changed |-> a.changed]
    BY <2>1
  <2>3. ~a.changed => Round(g, rpo, a.idom) = a.idom
    <3>1. ~a.changed => e = d
      BY <2>2
    <3> QED
      BY <2>2, <3>1 DEF e
  <2>4. IF i <= n THEN Found(g, n, rpo, a.idom, i) ELSE Found(g, n, rpo, a.idom, n) /\ ~a.changed
    BY <1>2, <1>3, <2>2
  <2> QED
    BY <2>2, <2>3, <2>4 DEF Rounds, a
<1> QED
  BY <1>1, <1>4, <1>5

\* They are found, and another round would change nothing.
LEMMA DominatorsFound ==
  ASSUME NEW g, NEW n, IsGraph(g, n), IsOrder(g, n, ReversePostorder(g))
  PROVE  /\ IsImmediate(g, n, Dominators(g))
         /\ Round(g, ReversePostorder(g), Dominators(g)) = Dominators(g)
<1> DEFINE rpo == ReversePostorder(g)
           N == n + 1
           D == [idom : [1 .. n -> (1 .. n) \cup {None}], changed : BOOLEAN]
           S == [i \in 0 .. N |-> {s \in D : Rounds(g, n, rpo, s, i)}]
           F == [i \in 1 .. N |-> [s \in D |-> Again(g, rpo, s)]]
           start == [idom |-> NoneKnown(n), changed |-> TRUE]
<1>0. n \in Nat \ {0} /\ N \in Nat /\ Len(g.ops) = n /\ Blocks(g) = 1 .. n
  BY Edges DEF IsGraph
<1> HIDE DEF rpo
<1>1. IsOrder(g, n, rpo)
  BY DEF rpo
<1>2. ASSUME NEW s, NEW i, Rounds(g, n, rpo, s, i)
      PROVE  s \in D
  <2>1. s.idom \in [1 .. n -> (1 .. n) \cup {None}] /\ s.changed \in BOOLEAN
    BY <1>2 DEF Rounds, Found, Sound, IsTree
  <2> QED
    BY <1>2, <2>1 DEF Rounds
<1>3. start \in S[0]
  <2>1. Rounds(g, n, rpo, start, 0)
    <3>1. start.idom = NoneKnown(n) /\ start.changed = TRUE
      OBVIOUS
    <3>2. Found(g, n, rpo, start.idom, 0)
      BY <1>1, <3>1, NothingFound
    <3> QED
      BY <1>0, <3>1, <3>2 DEF Rounds
  <2>2. 0 \in 0 .. N /\ start \in D
    BY <1>0, <1>2, <2>1
  <2> HIDE DEF start, D, N
  <2> QED
    BY <2>1, <2>2
<1>4. ASSUME NEW i \in 1 .. N, NEW s \in S[i - 1]
      PROVE  F[i][s] \in S[i] /\ F[i][s] = Again(g, rpo, s)
  <2>1. i - 1 \in 0 .. N /\ i \in 0 .. N
    BY <1>0
  <2>2. s \in D /\ Rounds(g, n, rpo, s, i - 1)
    <3> HIDE DEF N, D
    <3> QED
      BY <1>4, <2>1
  <2>3. Rounds(g, n, rpo, Again(g, rpo, s), i)
    BY <1>1, <2>2, RoundsOn
  <2>4. Again(g, rpo, s) \in D
    BY <1>2, <2>3
  <2> HIDE DEF N, D
  <2> QED
    BY <2>1, <2>2, <2>3, <2>4
<1>5. PICK t : Tables(t, N, S, start, F)
  <2>1. Leads(N, S, start, F)
    <3> HIDE DEF S, F, N, start
    <3> QED
      BY <1>0, <1>3, <1>4 DEF Leads
  <2> HIDE DEF S, F, N, start
  <2> QED
    BY <2>1, TableOfSteps
<1> DEFINE after == CHOOSE a : a = [i \in 0 .. N |-> IF i = 0 THEN start ELSE Again(g, rpo, a[i - 1])]
<1>6. \A i \in 1 .. N : t[i] = Again(g, rpo, t[i - 1])
  <2> SUFFICES ASSUME NEW i \in 1 .. N
               PROVE  t[i] = Again(g, rpo, t[i - 1])
    OBVIOUS
  <2>1. i - 1 \in 0 .. N
    BY <1>0
  <2> HIDE DEF S, F, N
  <2>2. t[i - 1] \in S[i - 1] /\ t[i] = F[i][t[i - 1]]
    BY <1>5, <2>1 DEF Tables
  <2> QED
    BY <1>4, <2>2
<1>7. Dominators(g) = after[N].idom
  BY <1>0, Zenon DEF Dominators, Loop, Again, NoneKnown, rpo
<1> HIDE DEF N, S, F, start
<1>8. t = [i \in 0 .. N |-> IF i = 0 THEN start ELSE Again(g, rpo, t[i - 1])]
  <2>1. \A i \in 0 .. N : i = 0 \/ i \in 1 .. N
    BY <1>0
  <2>2. t = [i \in 0 .. N |-> t[i]] /\ t[0] = start
    BY <1>5 DEF Tables, IsTable
  <2> QED
    BY <1>6, <2>1, <2>2
<1>9. after = [i \in 0 .. N |-> IF i = 0 THEN start ELSE Again(g, rpo, after[i - 1])]
  BY <1>8
<1> HIDE DEF after
<1>10. after[N] = t[N]
  <2>1. t[0] = start
    BY <1>5 DEF Tables
  <2>2. after[0] = start /\ \A i \in 1 .. N : after[i] = Again(g, rpo, after[i - 1])
    <3>1. 0 \in 0 .. N /\ \A i \in 1 .. N : i \in 0 .. N /\ i # 0
      BY <1>0
    <3> QED
      BY <1>9, <3>1
  <2>3. \A i \in 1 .. N : t[i - 1] = after[i - 1] => t[i] = after[i]
    BY <1>6, <2>2
  <2> QED
    BY <1>0, <2>1, <2>2, <2>3, TablesMeet
<1>11. Rounds(g, n, rpo, t[N], N)
  <2>1. N \in 0 .. N
    BY <1>0
  <2>2. t[N] \in S[N]
    BY <1>5, <2>1 DEF Tables
  <2> HIDE DEF D
  <2> QED
    BY <2>1, <2>2 DEF S
<1>12. ~(N <= n)
  BY <1>0 DEF N
<1>13. Found(g, n, rpo, t[N].idom, n) /\ Round(g, rpo, t[N].idom) = t[N].idom
  BY <1>11, <1>12 DEF Rounds
<1> QED
  BY <1>1, <1>7, <1>10, <1>13, FoundAll DEF rpo

Entries(n) == [block : 1 .. n, processed : BOOLEAN]

\* What a sequence has at some places.
LEMMA AtPlaces ==
  ASSUME NEW T, NEW s \in Seq(T), NEW S \in SUBSET (DOMAIN s)
  PROVE  /\ At(s, S) \in Seq(T) /\ Len(At(s, S)) <= Len(s) /\ Len(At(s, S)) \in Nat
         /\ DOMAIN At(s, S) = 1 .. Len(At(s, S))
         /\ \A k \in 1 .. Len(At(s, S)) : \E i \in S : At(s, S)[k] = s[i]
         /\ \A i \in S : \E k \in 1 .. Len(At(s, S)) : At(s, S)[k] = s[i]
<1> DEFINE n == Len(s)
           c == Cardinality(S)
           a == Ascending(S)
           u == At(s, S)
<1>1. n \in Nat /\ DOMAIN s = 1 .. n /\ \A i \in 1 .. n : s[i] \in T
  OBVIOUS
<1> HIDE DEF n
<1>2. /\ c \in Nat /\ IsFiniteSet(S) /\ a \in [1 .. c -> S]
      /\ \A x \in S : \E i \in 1 .. c : a[i] = x
  BY <1>1, AscendingSet
<1>3. c <= n
  <2>1. IsFiniteSet(1 .. n) /\ Cardinality(1 .. n) = n
    <3>1. 1 \in Int /\ n \in Int
      BY <1>1
    <3> QED
      BY <1>1, <3>1, FS_Interval
  <2> QED
    BY <1>1, <2>1, FS_Subset
<1> HIDE DEF c, a
<1>4. u = [k \in 1 .. c |-> s[a[k]]]
  BY DEF At, c, a
<1> HIDE DEF u
<1>5. ASSUME NEW k \in 1 .. c
      PROVE  a[k] \in S /\ s[a[k]] \in T /\ u[k] = s[a[k]]
  BY <1>1, <1>2, <1>4
<1>6. u \in Seq(T) /\ Len(u) = c /\ DOMAIN u = 1 .. c
  <2>1. u \in [1 .. c -> T]
    BY <1>4, <1>5
  <2> QED
    BY <1>2, <2>1
<1>7. \A i \in S : \E k \in 1 .. c : u[k] = s[i]
  BY <1>2, <1>5
<1> QED
  BY <1>2, <1>3, <1>5, <1>6, <1>7 DEF u, n

\* A block is done, or its turn to be done is on the stack.
Open(w, k) == k \in 1 .. Len(w.stack) /\ w.stack[k].processed
FromOpen(g, w, k, b) == Open(w, k) /\ b \in ToSet(g.succ[w.stack[k].block])

\* The blocks on the stack, and those that are done.
OnStack(g, n, w) ==
  /\ \A k \in 1 .. Len(w.stack) : w.stack[k].block \in Reached(g)
  /\ \A k \in 1 .. Len(w.stack) : w.stack[k].processed =>
       w.stack[k].block \in w.visited /\ w.stack[k].block \notin ToSet(w.order)
  /\ \A k, l \in 1 .. Len(w.stack) :
       w.stack[k].processed /\ w.stack[l].processed /\ w.stack[k].block = w.stack[l].block => k = l
  /\ \A k \in 1 .. Len(w.stack) : \/ w.stack[k].block = EntryBlock
                                  \/ \E j \in 1 .. k - 1 : FromOpen(g, w, j, w.stack[k].block)
  /\ EntryBlock \in w.visited \/ \E k \in 1 .. Len(w.stack) : w.stack[k].block = EntryBlock

InOrder(g, n, w) ==
  /\ ToSet(w.order) \subseteq w.visited /\ w.visited \subseteq Reached(g)
  /\ \A i, j \in 1 .. Len(w.order) : w.order[i] = w.order[j] => i = j
  /\ \A i \in 1 .. Len(w.order) :
       \/ w.order[i] = EntryBlock
       \/ \E j \in 1 .. i - 1 : w.order[i] \in ToSet(g.succ[w.order[j]])
       \/ \E k : FromOpen(g, w, k, w.order[i])

\* What follows a block is visited before it is done.
Covered(g, n, w) ==
  /\ \A b \in w.visited : b \in ToSet(w.order) \/ \E k : Open(w, k) /\ w.stack[k].block = b
  /\ \A k : \A s : FromOpen(g, w, k, s) =>
       s \in w.visited \/ \E l \in k + 1 .. Len(w.stack) : w.stack[l].block = s
  /\ \A b \in ToSet(w.order) : ToSet(g.succ[b]) \subseteq w.visited

IsWalk(n, w) ==
  /\ w = [stack |-> w.stack, visited |-> w.visited, order |-> w.order]
  /\ w.stack \in Seq(Entries(n)) /\ w.visited \in SUBSET (1 .. n) /\ w.order \in Seq(1 .. n)

Walked(g, n, w) == IsWalk(n, w) /\ OnStack(g, n, w) /\ InOrder(g, n, w) /\ Covered(g, n, w)

\* What the walk still has to do.
Weights(g, n) == [b \in 1 .. n |-> 1 + Len(g.succ[b])]
Left(g, n, w) == Len(w.stack) + SumFunctionOnSet(Weights(g, n), (1 .. n) \ w.visited)

\* The block on top of the stack is done.
LEMMA TurnDone ==
  ASSUME NEW g, NEW n, IsGraph(g, n), NEW w, Walked(g, n, w), w.stack # << >>,
         Last(w.stack).processed, NEW v, v = Turn(g, w)
  PROVE  /\ Walked(g, n, v) /\ Len(v.stack) = Len(w.stack) - 1 /\ v.visited = w.visited
<1> DEFINE L == Len(w.stack)
           b == Last(w.stack).block
<1>0. IsWalk(n, w) /\ OnStack(g, n, w) /\ InOrder(g, n, w) /\ Covered(g, n, w)
  BY DEF Walked
<1>1. w.stack \in Seq(Entries(n)) /\ w.visited \in SUBSET (1 .. n) /\ w.order \in Seq(1 .. n)
  BY <1>0 DEF IsWalk
<1>2. /\ L \in Nat \ {0} /\ Last(w.stack) = w.stack[L] /\ Last(w.stack) \in Entries(n)
      /\ Front(w.stack) \in Seq(Entries(n)) /\ Len(Front(w.stack)) = L - 1
      /\ \A k \in 1 .. L - 1 : Front(w.stack)[k] = w.stack[k]
  <2> DEFINE T == Entries(n)
             s == w.stack
  <2>1. s \in Seq(T) /\ s # << >>
    BY <1>1
  <2> HIDE DEF T, s
  <2>2. /\ Len(s) \in Nat \ {0} /\ Last(s) = s[Len(s)] /\ Last(s) \in T
        /\ Front(s) \in Seq(T) /\ Len(Front(s)) = Len(s) - 1
        /\ \A k \in 1 .. Len(s) - 1 : Front(s)[k] = s[k]
    BY <2>1, TopOf
  <2> QED
    BY <2>2 DEF T, s
<1>3. b \in 1 .. n /\ b = w.stack[L].block /\ w.stack[L].processed /\ L \in 1 .. L
  BY <1>2 DEF Entries
<1>4. v = [stack |-> Front(w.stack), visited |-> w.visited, order |-> <<b>> \o w.order]
  BY DEF Turn
<1> HIDE DEF b
<1>5. /\ v.stack = Front(w.stack) /\ v.visited = w.visited /\ v.order = <<b>> \o w.order
      /\ v = [stack |-> v.stack, visited |-> v.visited, order |-> v.order]
  BY <1>4
<1>6. /\ v.order \in Seq(1 .. n) /\ Len(v.order) = Len(w.order) + 1 /\ v.order[1] = b /\ Len(w.order) \in Nat
      /\ \A k \in 1 .. Len(w.order) : v.order[k + 1] = w.order[k]
      /\ \A k \in 2 .. Len(w.order) + 1 : v.order[k] = w.order[k - 1]
      /\ ToSet(v.order) = ToSet(w.order) \cup {b}
  <2> DEFINE T == 1 .. n
  <2>1. b \in T /\ w.order \in Seq(T)
    BY <1>1, <1>3
  <2> HIDE DEF T
  <2>2. LET u == <<b>> \o w.order IN
         /\ u \in Seq(T) /\ Len(u) = Len(w.order) + 1 /\ u[1] = b /\ Len(w.order) \in Nat
         /\ \A k \in 1 .. Len(w.order) : u[k + 1] = w.order[k]
         /\ \A k \in 2 .. Len(w.order) + 1 : u[k] = w.order[k - 1]
         /\ ToSet(u) = ToSet(w.order) \cup {b}
    BY <2>1, PutFirst
  <2> QED
    BY <1>5, <2>2 DEF T
<1>7. Len(v.stack) = L - 1 /\ \A k \in 1 .. L - 1 : v.stack[k] = w.stack[k] /\ k \in 1 .. L
  BY <1>2, <1>5
<1>8. \A k \in 1 .. L : k \in 1 .. L - 1 \/ k = L
  BY <1>2
<1>9. IsWalk(n, v)
  BY <1>1, <1>2, <1>5, <1>6 DEF IsWalk
<1> HIDE DEF L
<1>10. b \in w.visited /\ b \notin ToSet(w.order) /\ \A k \in 1 .. L - 1 : w.stack[k].processed => w.stack[k].block # b
  <2>1. \A k \in 1 .. L - 1 : k # L /\ k \in 1 .. L
    BY <1>2
  <2> QED
    BY <1>0, <1>3, <2>1 DEF OnStack, L
<1>11. \A k : Open(v, k) <=> Open(w, k) /\ k # L
  <2>1. \A k : k \in 1 .. L - 1 <=> k \in 1 .. L /\ k # L
    BY <1>2
  <2> QED
    BY <1>7, <2>1 DEF Open, L
<1>12. \A k, s : FromOpen(g, v, k, s) <=> FromOpen(g, w, k, s) /\ k # L
  <2> SUFFICES ASSUME NEW k, NEW s
               PROVE  FromOpen(g, v, k, s) <=> FromOpen(g, w, k, s) /\ k # L
    OBVIOUS
  <2>1. Open(w, k) /\ k # L => v.stack[k] = w.stack[k]
    BY <1>7, <1>8 DEF Open, L
  <2> QED
    BY <1>11, <2>1 DEF FromOpen
<1>13. OnStack(g, n, v)
  <2>1. \A k \in 1 .. L - 1 : v.stack[k].block \in Reached(g)
    BY <1>0, <1>7 DEF OnStack, L
  <2>2. ASSUME NEW k \in 1 .. L - 1, v.stack[k].processed
        PROVE  v.stack[k].block \in v.visited /\ v.stack[k].block \notin ToSet(v.order)
    <3>1. w.stack[k].block \in w.visited /\ w.stack[k].block \notin ToSet(w.order)
      BY <1>0, <1>7, <2>2 DEF OnStack, L
    <3> QED
      BY <1>5, <1>6, <1>7, <1>10, <2>2, <3>1
  <2>3. \A k, l \in 1 .. L - 1 :
          v.stack[k].processed /\ v.stack[l].processed /\ v.stack[k].block = v.stack[l].block => k = l
    BY <1>0, <1>7 DEF OnStack, L
  <2>4. ASSUME NEW k \in 1 .. L - 1, v.stack[k].block # EntryBlock
        PROVE  \E j \in 1 .. k - 1 : FromOpen(g, v, j, v.stack[k].block)
    <3>1. PICK j \in 1 .. k - 1 : FromOpen(g, w, j, w.stack[k].block)
      BY <1>0, <1>7, <2>4 DEF OnStack, L
    <3>2. j # L
      BY <1>2
    <3> QED
      BY <1>7, <1>12, <3>1, <3>2
  <2>5. EntryBlock \in v.visited \/ \E k \in 1 .. L - 1 : v.stack[k].block = EntryBlock
    <3>1. CASE EntryBlock \in w.visited
      BY <1>5, <3>1
    <3>2. CASE EntryBlock \notin w.visited
      <4>1. PICK k \in 1 .. L : w.stack[k].block = EntryBlock
        BY <1>0, <3>2 DEF OnStack, L
      <4>2. k # L
        BY <1>3, <1>10, <3>2, <4>1
      <4> QED
        BY <1>7, <1>8, <4>1, <4>2
    <3> QED
      BY <3>1, <3>2
  <2> QED
    BY <1>7, <2>1, <2>2, <2>3, <2>4, <2>5 DEF OnStack
<1>14. InOrder(g, n, v)
  <2>1. ToSet(v.order) \subseteq v.visited /\ v.visited \subseteq Reached(g)
    BY <1>0, <1>5, <1>6, <1>10 DEF InOrder
  <2>2. \A i \in 1 .. Len(v.order) : i = 1 \/ (i \in 2 .. Len(w.order) + 1 /\ i - 1 \in 1 .. Len(w.order) /\ v.order[i] = w.order[i - 1])
    BY <1>6
  <2>3. \A i \in 1 .. Len(w.order) : w.order[i] \in ToSet(w.order)
    BY <1>1 DEF ToSet
  <2>4. ASSUME NEW i \in 1 .. Len(v.order), NEW j \in 1 .. Len(v.order), v.order[i] = v.order[j]
        PROVE  i = j
    <3>0. \A l \in 1 .. Len(v.order) : l # 1 => v.order[l] # b
      BY <1>10, <2>2, <2>3
    <3>1. CASE i = 1 \/ j = 1
      BY <1>6, <2>4, <3>0, <3>1
    <3>2. CASE i # 1 /\ j # 1
      <4>1. i - 1 = j - 1
        BY <1>0, <2>2, <2>4, <3>2 DEF InOrder
      <4> QED
        BY <4>1
    <3> QED
      BY <3>1, <3>2
  <2>5. ASSUME NEW i \in 1 .. Len(v.order), v.order[i] # EntryBlock
        PROVE  \/ \E j \in 1 .. i - 1 : v.order[i] \in ToSet(g.succ[v.order[j]])
               \/ \E k : FromOpen(g, v, k, v.order[i])
    <3>1. CASE i = 1
      <4>0. b # EntryBlock
        BY <1>6, <2>5, <3>1
      <4>1. PICK j \in 1 .. L - 1 : FromOpen(g, w, j, b)
        BY <1>0, <1>3, <4>0 DEF OnStack, L
      <4>2. j # L
        BY <1>2
      <4> QED
        BY <1>6, <1>12, <3>1, <4>1, <4>2
    <3>2. CASE i # 1
      <4>1. i - 1 \in 1 .. Len(w.order) /\ v.order[i] = w.order[i - 1] /\ i - 1 \in Nat
        BY <2>2, <3>2
      <4> DEFINE q == i - 1
      <4> HIDE DEF q
      <4>2. q \in 1 .. Len(w.order) /\ v.order[i] = w.order[q] /\ i = q + 1 /\ q \in Nat
        BY <1>6, <4>1 DEF q
      <4>3. \/ \E j \in 1 .. q - 1 : w.order[q] \in ToSet(g.succ[w.order[j]])
            \/ \E k : FromOpen(g, w, k, w.order[q])
        BY <1>0, <2>5, <4>2 DEF InOrder
      <4>4. ASSUME NEW j \in 1 .. q - 1, w.order[q] \in ToSet(g.succ[w.order[j]])
            PROVE  \E l \in 1 .. i - 1 : v.order[i] \in ToSet(g.succ[v.order[l]])
        <5>0. Len(w.order) \in Nat
          BY <1>6
        <5>1. j + 1 \in 1 .. i - 1 /\ j \in 1 .. Len(w.order)
          BY <4>2, <5>0
        <5>2. v.order[j + 1] = w.order[j]
          BY <1>6, <5>1
        <5> QED
          BY <4>2, <4>4, <5>1, <5>2
      <4>5. ASSUME NEW k, FromOpen(g, w, k, w.order[q])
            PROVE  \/ \E l \in 1 .. i - 1 : v.order[i] \in ToSet(g.succ[v.order[l]])
                   \/ \E l : FromOpen(g, v, l, v.order[i])
        <5>1. CASE k # L
          BY <1>12, <4>2, <4>5, <5>1
        <5>2. CASE k = L
          <6>1. w.order[q] \in ToSet(g.succ[b])
            BY <1>3, <4>5, <5>2 DEF FromOpen
          <6>2. 1 \in 1 .. i - 1
            BY <4>2
          <6>3. v.order[i] \in ToSet(g.succ[v.order[1]])
            BY <1>6, <4>2, <6>1
          <6> QED
            BY <6>2, <6>3
        <5> QED
          BY <5>1, <5>2
      <4> QED
        BY <4>3, <4>4, <4>5
    <3> QED
      BY <3>1, <3>2
  <2> QED
    BY <2>1, <2>4, <2>5 DEF InOrder
<1>15. Covered(g, n, v)
  <2>1. ASSUME NEW c \in v.visited
        PROVE  c \in ToSet(v.order) \/ \E k : Open(v, k) /\ v.stack[k].block = c
    <3>1. CASE c \in ToSet(w.order) \/ c = b
      BY <1>6, <3>1
    <3>2. CASE c \notin ToSet(w.order) /\ c # b
      <4>1. PICK k : Open(w, k) /\ w.stack[k].block = c
        BY <1>0, <1>5, <3>2 DEF Covered
      <4>2. k # L /\ k \in 1 .. L
        BY <1>3, <3>2, <4>1 DEF Open, L
      <4> QED
        BY <1>7, <1>8, <1>11, <4>1, <4>2
    <3> QED
      BY <3>1, <3>2
  <2>2. ASSUME NEW k, NEW s, FromOpen(g, v, k, s), s \notin v.visited
        PROVE  \E l \in k + 1 .. Len(v.stack) : v.stack[l].block = s
    <3>1. PICK l \in k + 1 .. L : w.stack[l].block = s
      BY <1>0, <1>5, <1>12, <2>2 DEF Covered, L
    <3>2. k \in 1 .. L - 1
      BY <1>7, <2>2 DEF FromOpen, Open
    <3>3. l # L
      BY <1>3, <1>5, <1>10, <2>2, <3>1
    <3>4. l \in 1 .. L - 1 /\ l \in k + 1 .. L - 1
      BY <1>2, <3>2, <3>3
    <3> QED
      BY <1>7, <3>1, <3>4
  <2>3. ASSUME NEW c \in ToSet(v.order)
        PROVE  ToSet(g.succ[c]) \subseteq v.visited
    <3>1. CASE c # b
      BY <1>0, <1>5, <1>6, <3>1 DEF Covered
    <3>2. CASE c = b
      <4> SUFFICES ASSUME NEW s \in ToSet(g.succ[b]), s \notin w.visited
                   PROVE  FALSE
        BY <1>5, <3>2
      <4>1. FromOpen(g, w, L, s)
        BY <1>3 DEF FromOpen, Open, L
      <4>2. PICK l \in L + 1 .. L : TRUE
        BY <1>0, <4>1 DEF Covered, L
      <4> QED
        BY <1>2
    <3> QED
      BY <3>1, <3>2
  <2> QED
    BY <2>1, <2>2, <2>3 DEF Covered
<1> QED
  BY <1>5, <1>7, <1>9, <1>13, <1>14, <1>15 DEF Walked, L

\* The entry on top of the stack, and the rest.
LEMMA TopEntry ==
  ASSUME NEW n, NEW w, IsWalk(n, w), w.stack # << >>
  PROVE  LET L == Len(w.stack) IN
         /\ L \in Nat \ {0} /\ Last(w.stack) = w.stack[L] /\ Last(w.stack) \in Entries(n)
         /\ Front(w.stack) \in Seq(Entries(n)) /\ Len(Front(w.stack)) = L - 1
         /\ \A k \in 1 .. L - 1 : Front(w.stack)[k] = w.stack[k]
<1> DEFINE T == Entries(n)
           s == w.stack
<1>1. s \in Seq(T) /\ s # << >>
  BY DEF IsWalk
<1> HIDE DEF T, s
<1>2. /\ Len(s) \in Nat \ {0} /\ Last(s) = s[Len(s)] /\ Last(s) \in T
      /\ Front(s) \in Seq(T) /\ Len(Front(s)) = Len(s) - 1
      /\ \A k \in 1 .. Len(s) - 1 : Front(s)[k] = s[k]
  BY <1>1, TopOf
<1> QED
  BY <1>2 DEF T, s

\* The block on top of the stack was visited in another way.
LEMMA TurnSkips ==
  ASSUME NEW g, NEW n, IsGraph(g, n), NEW w, Walked(g, n, w), w.stack # << >>,
         ~Last(w.stack).processed, Last(w.stack).block \in w.visited, NEW v, v = Turn(g, w)
  PROVE  /\ Walked(g, n, v) /\ Len(v.stack) = Len(w.stack) - 1 /\ v.visited = w.visited
<1> DEFINE L == Len(w.stack)
           b == Last(w.stack).block
<1>0. IsWalk(n, w) /\ OnStack(g, n, w) /\ InOrder(g, n, w) /\ Covered(g, n, w)
  BY DEF Walked
<1>1. w.stack \in Seq(Entries(n)) /\ w.visited \in SUBSET (1 .. n) /\ w.order \in Seq(1 .. n)
  BY <1>0 DEF IsWalk
<1>2. /\ L \in Nat \ {0} /\ Last(w.stack) = w.stack[L] /\ Last(w.stack) \in Entries(n)
      /\ Front(w.stack) \in Seq(Entries(n)) /\ Len(Front(w.stack)) = L - 1
      /\ \A k \in 1 .. L - 1 : Front(w.stack)[k] = w.stack[k]
  BY <1>0, TopEntry
<1>3. b \in w.visited /\ b = w.stack[L].block /\ ~w.stack[L].processed
  BY <1>2
<1>4. v = [stack |-> Front(w.stack), visited |-> w.visited, order |-> w.order]
  BY DEF Turn
<1> HIDE DEF b
<1>5. /\ v.stack = Front(w.stack) /\ v.visited = w.visited /\ v.order = w.order
      /\ v = [stack |-> v.stack, visited |-> v.visited, order |-> v.order]
  BY <1>4
<1>7. Len(v.stack) = L - 1 /\ \A k \in 1 .. L - 1 : v.stack[k] = w.stack[k] /\ k \in 1 .. L
  BY <1>2, <1>5
<1>8. \A k \in 1 .. L : k \in 1 .. L - 1 \/ k = L
  BY <1>2
<1>9. IsWalk(n, v)
  BY <1>1, <1>2, <1>5 DEF IsWalk
<1> HIDE DEF L
<1>11. \A k : Open(v, k) <=> Open(w, k)
  <2>1. \A k : k \in 1 .. L - 1 <=> k \in 1 .. L /\ k # L
    BY <1>2
  <2> QED
    BY <1>3, <1>7, <2>1 DEF Open, L
<1>12. \A k, s : FromOpen(g, v, k, s) <=> FromOpen(g, w, k, s)
  <2> SUFFICES ASSUME NEW k, NEW s
               PROVE  FromOpen(g, v, k, s) <=> FromOpen(g, w, k, s)
    OBVIOUS
  <2>1. Open(w, k) => v.stack[k] = w.stack[k]
    BY <1>3, <1>7, <1>8 DEF Open, L
  <2> QED
    BY <1>11, <2>1 DEF FromOpen
<1>13. OnStack(g, n, v)
  <2>1. \A k \in 1 .. L - 1 : v.stack[k].block \in Reached(g)
    BY <1>0, <1>7 DEF OnStack, L
  <2>2. \A k \in 1 .. L - 1 : v.stack[k].processed =>
          v.stack[k].block \in v.visited /\ v.stack[k].block \notin ToSet(v.order)
    BY <1>0, <1>5, <1>7 DEF OnStack, L
  <2>3. \A k, l \in 1 .. L - 1 :
          v.stack[k].processed /\ v.stack[l].processed /\ v.stack[k].block = v.stack[l].block => k = l
    BY <1>0, <1>7 DEF OnStack, L
  <2>4. ASSUME NEW k \in 1 .. L - 1, v.stack[k].block # EntryBlock
        PROVE  \E j \in 1 .. k - 1 : FromOpen(g, v, j, v.stack[k].block)
    <3>1. PICK j \in 1 .. k - 1 : FromOpen(g, w, j, w.stack[k].block)
      BY <1>0, <1>7, <2>4 DEF OnStack, L
    <3> QED
      BY <1>7, <1>12, <3>1
  <2>5. EntryBlock \in v.visited \/ \E k \in 1 .. L - 1 : v.stack[k].block = EntryBlock
    <3>1. CASE EntryBlock \in w.visited
      BY <1>5, <3>1
    <3>2. CASE EntryBlock \notin w.visited
      <4>1. PICK k \in 1 .. L : w.stack[k].block = EntryBlock
        BY <1>0, <3>2 DEF OnStack, L
      <4>2. k # L
        BY <1>3, <3>2, <4>1
      <4> QED
        BY <1>7, <1>8, <4>1, <4>2
    <3> QED
      BY <3>1, <3>2
  <2> QED
    BY <1>7, <2>1, <2>2, <2>3, <2>4, <2>5 DEF OnStack
<1>14. InOrder(g, n, v)
  BY <1>0, <1>5, <1>12 DEF InOrder
<1>15. Covered(g, n, v)
  <2>1. ASSUME NEW c \in v.visited, c \notin ToSet(v.order)
        PROVE  \E k : Open(v, k) /\ v.stack[k].block = c
    <3>1. PICK k : Open(w, k) /\ w.stack[k].block = c
      BY <1>0, <1>5, <2>1 DEF Covered
    <3>2. k # L /\ k \in 1 .. L
      BY <1>3, <3>1 DEF Open, L
    <3> QED
      BY <1>7, <1>8, <1>11, <3>1, <3>2
  <2>2. ASSUME NEW k, NEW s, FromOpen(g, v, k, s), s \notin v.visited
        PROVE  \E l \in k + 1 .. Len(v.stack) : v.stack[l].block = s
    <3>1. PICK l \in k + 1 .. L : w.stack[l].block = s
      BY <1>0, <1>5, <1>12, <2>2 DEF Covered, L
    <3>2. k \in 1 .. L - 1
      BY <1>7, <2>2 DEF FromOpen, Open
    <3>3. l # L
      BY <1>3, <1>5, <2>2, <3>1
    <3>4. l \in 1 .. L - 1 /\ l \in k + 1 .. L - 1
      BY <1>2, <3>2, <3>3
    <3> QED
      BY <1>7, <3>1, <3>4
  <2>3. \A c \in ToSet(v.order) : ToSet(g.succ[c]) \subseteq v.visited
    BY <1>0, <1>5 DEF Covered
  <2> QED
    BY <2>1, <2>2, <2>3 DEF Covered
<1> QED
  BY <1>5, <1>7, <1>9, <1>13, <1>14, <1>15 DEF Walked, L

\* The block on top of the stack is visited, and what follows it comes above it.
Following(g, w, b) ==
  At(g.succ[b], {k \in DOMAIN g.succ[b] : g.succ[b][k] \notin w.visited \cup {b}})

\* r holds every successor of b that is not visited, and no block but successors.
Fresh(g, n, w, b, r) ==
  /\ r \in Seq(1 .. n) /\ Len(r) <= Len(g.succ[b]) /\ Len(r) \in Nat /\ Len(g.succ[b]) \in Nat
  /\ DOMAIN r = 1 .. Len(r)
  /\ \A k \in 1 .. Len(r) : r[k] \in ToSet(g.succ[b])
  /\ \A s \in ToSet(g.succ[b]) \ (w.visited \cup {b}) : \E k \in 1 .. Len(r) : r[k] = s

\* They are the successors not visited yet.
LEMMA FollowingNew ==
  ASSUME NEW g, NEW n, IsGraph(g, n), NEW w, NEW b \in 1 .. n
  PROVE  Fresh(g, n, w, b, Following(g, w, b))
<1> DEFINE T == 1 .. n
           q == g.succ[b]
           S == {k \in DOMAIN q : q[k] \notin w.visited \cup {b}}
<1>1. q \in Seq(T)
  BY DEF IsGraph
<1> HIDE DEF T
<1>2. S \in SUBSET (DOMAIN q) /\ Len(q) \in Nat
  BY <1>1
<1> HIDE DEF q, S
<1>3. /\ At(q, S) \in Seq(T) /\ Len(At(q, S)) <= Len(q) /\ Len(At(q, S)) \in Nat
      /\ DOMAIN At(q, S) = 1 .. Len(At(q, S))
      /\ \A k \in 1 .. Len(At(q, S)) : \E i \in S : At(q, S)[k] = q[i]
      /\ \A i \in S : \E k \in 1 .. Len(At(q, S)) : At(q, S)[k] = q[i]
  BY <1>1, <1>2, AtPlaces
<1>4. Following(g, w, b) = At(q, S)
  BY DEF Following, q, S
<1> DEFINE r == At(q, S)
<1> HIDE DEF r
<1>5. \A k \in 1 .. Len(r) : r[k] \in ToSet(q)
  BY <1>2, <1>3 DEF r, ToSet
<1>6. ASSUME NEW s \in ToSet(q) \ (w.visited \cup {b})
      PROVE  \E k \in 1 .. Len(r) : r[k] = s
  <2>1. PICK i \in DOMAIN q : s = q[i]
    BY DEF ToSet
  <2>2. i \in S
    BY <1>6, <2>1 DEF S
  <2> QED
    BY <1>3, <2>1, <2>2 DEF r
<1>7. Fresh(g, n, w, b, r)
  BY <1>2, <1>3, <1>5, <1>6 DEF Fresh, r, T, q
<1> QED
  BY <1>4, <1>7 DEF r

\* A block is visited for the first time.
LEMMA TurnEnters ==
  ASSUME NEW g, NEW n, IsGraph(g, n), NEW w, Walked(g, n, w), w.stack # << >>,
         ~Last(w.stack).processed, Last(w.stack).block \notin w.visited, NEW v, v = Turn(g, w)
  PROVE  LET b == Last(w.stack).block IN
         /\ Walked(g, n, v) /\ v.visited = w.visited \cup {b} /\ b \in 1 .. n
         /\ Len(v.stack) <= Len(w.stack) + Len(g.succ[b]) /\ Len(g.succ[b]) \in Nat
<1> DEFINE L == Len(w.stack)
           b == Last(w.stack).block
           r == Following(g, w, b)
           top == [block |-> b, processed |-> TRUE]
           more == [k \in DOMAIN r |-> [block |-> r[k], processed |-> FALSE]]
<1>0. IsWalk(n, w) /\ OnStack(g, n, w) /\ InOrder(g, n, w) /\ Covered(g, n, w)
  BY DEF Walked
<1>1. w.stack \in Seq(Entries(n)) /\ w.visited \in SUBSET (1 .. n) /\ w.order \in Seq(1 .. n)
  BY <1>0 DEF IsWalk
<1>2. /\ L \in Nat \ {0} /\ Last(w.stack) = w.stack[L] /\ Last(w.stack) \in Entries(n)
      /\ Front(w.stack) \in Seq(Entries(n)) /\ Len(Front(w.stack)) = L - 1
      /\ \A k \in 1 .. L - 1 : Front(w.stack)[k] = w.stack[k]
  BY <1>0, TopEntry
<1>3. b \in 1 .. n /\ b = w.stack[L].block /\ ~w.stack[L].processed /\ L \in 1 .. L /\ b \notin w.visited
  BY <1>2 DEF Entries
<1>4. v = [stack |-> (Front(w.stack) \o <<top>>) \o more, visited |-> w.visited \cup {b}, order |-> w.order]
  BY Zenon DEF Turn, Following
<1> HIDE DEF b, r
<1>5. /\ r \in Seq(1 .. n) /\ Len(r) <= Len(g.succ[b]) /\ Len(r) \in Nat /\ Len(g.succ[b]) \in Nat
      /\ DOMAIN r = 1 .. Len(r)
      /\ \A k \in 1 .. Len(r) : r[k] \in ToSet(g.succ[b])
      /\ \A s \in ToSet(g.succ[b]) \ (w.visited \cup {b}) : \E k \in 1 .. Len(r) : r[k] = s
  <2>1. Fresh(g, n, w, b, r)
    BY <1>3, FollowingNew DEF r
  <2> QED
    BY <2>1 DEF Fresh
<1>6. top \in Entries(n) /\ more \in Seq(Entries(n)) /\ Len(more) = Len(r)
      /\ top.block = b /\ top.processed = TRUE
      /\ \A k \in 1 .. Len(r) : more[k].block = r[k] /\ more[k].processed = FALSE
  <2>1. \A k \in 1 .. Len(r) : r[k] \in 1 .. n
    <3> DEFINE T == 1 .. n
    <3>1. r \in Seq(T)
      BY <1>5
    <3> HIDE DEF T
    <3>2. \A k \in 1 .. Len(r) : r[k] \in T
      BY <3>1
    <3> QED
      BY <3>2 DEF T
  <2>2. \A k \in 1 .. Len(r) : [block |-> r[k], processed |-> FALSE] \in Entries(n)
    BY <2>1 DEF Entries
  <2>3. more \in [1 .. Len(r) -> Entries(n)]
    BY <1>5, <2>2
  <2> DEFINE T == Entries(n)
             m == more
             N == Len(r)
  <2>4. m \in [1 .. N -> T] /\ N \in Nat
    BY <1>5, <2>3
  <2> HIDE DEF T, m, N
  <2>5. m \in Seq(T) /\ Len(m) = N
    BY <2>4
  <2>6. top \in Entries(n)
    BY <1>3 DEF Entries
  <2>7. \A k \in 1 .. Len(r) : more[k].block = r[k] /\ more[k].processed = FALSE
    BY <1>5
  <2> QED
    BY <2>5, <2>6, <2>7 DEF T, m, N
<1> DEFINE u == (Front(w.stack) \o <<top>>) \o more
<1> HIDE DEF top, more, L
<1>7. /\ u \in Seq(Entries(n)) /\ Len(u) = L + Len(r)
      /\ \A k \in 1 .. L - 1 : u[k] = w.stack[k]
      /\ u[L] = top
      /\ \A k \in 1 .. Len(r) : u[L + k] = more[k]
  <2> DEFINE T == Entries(n)
             s == Front(w.stack)
  <2>1. s \in Seq(T) /\ top \in T /\ more \in Seq(T)
    BY <1>2, <1>6
  <2> HIDE DEF T
  <2>2. LET z == (s \o <<top>>) \o more IN
         /\ z \in Seq(T) /\ Len(z) = Len(s) + 1 + Len(more)
         /\ \A k \in 1 .. Len(s) : z[k] = s[k]
         /\ z[Len(s) + 1] = top
         /\ \A k \in 1 .. Len(more) : z[Len(s) + 1 + k] = more[k]
    <3> HIDE DEF s
    <3> QED
      BY <2>1, PutOn
  <2> HIDE DEF u
  <2>3. /\ u \in Seq(T) /\ Len(u) = Len(s) + 1 + Len(more)
        /\ \A k \in 1 .. Len(s) : u[k] = s[k]
        /\ u[Len(s) + 1] = top
        /\ \A k \in 1 .. Len(more) : u[Len(s) + 1 + k] = more[k]
    BY <2>2 DEF u, s
  <2>4. Len(s) = L - 1 /\ (L - 1) + 1 = L
    BY <1>2
  <2> QED
    BY <1>2, <1>5, <1>6, <2>3, <2>4 DEF T
<1>8. /\ v.stack = u /\ v.visited = w.visited \cup {b} /\ v.order = w.order
      /\ v = [stack |-> v.stack, visited |-> v.visited, order |-> v.order]
  BY <1>4
<1> HIDE DEF u
<1>9. /\ Len(v.stack) = L + Len(r)
      /\ \A k \in 1 .. L - 1 : v.stack[k] = w.stack[k] /\ k \in 1 .. Len(v.stack) /\ k \in 1 .. L /\ k # L
      /\ L \in 1 .. Len(v.stack) /\ v.stack[L].block = b /\ v.stack[L].processed
      /\ \A k \in 1 .. Len(r) : v.stack[L + k].block = r[k] /\ ~v.stack[L + k].processed /\ L + k \in L + 1 .. Len(v.stack)
                               /\ L + k \in 1 .. Len(v.stack)
  <2>1. L \in Nat \ {0} /\ Len(r) \in Nat /\ Len(v.stack) = L + Len(r)
    BY <1>2, <1>5, <1>7, <1>8
  <2>2. \A k \in 1 .. L - 1 : k \in 1 .. Len(v.stack) /\ k \in 1 .. L /\ k # L
    BY <2>1
  <2>3. L \in 1 .. Len(v.stack)
    BY <2>1
  <2>4. \A k \in 1 .. Len(r) : L + k \in L + 1 .. Len(v.stack) /\ L + k \in 1 .. Len(v.stack)
    BY <2>1
  <2>5. \A k \in 1 .. L - 1 : v.stack[k] = w.stack[k]
    BY <1>7, <1>8
  <2>6. v.stack[L].block = b /\ v.stack[L].processed
    BY <1>6, <1>7, <1>8
  <2>7. \A k \in 1 .. Len(r) : v.stack[L + k].block = r[k] /\ ~v.stack[L + k].processed
    BY <1>6, <1>7, <1>8
  <2> QED
    BY <2>1, <2>2, <2>3, <2>4, <2>5, <2>6, <2>7
<1>9a. L \in Nat /\ Len(r) \in Nat /\ Len(g.succ[b]) \in Nat /\ Len(r) <= Len(g.succ[b])
  BY <1>2, <1>5
<1>9b. Len(v.stack) = L + Len(r)
  BY <1>9
<1>9c. Len(v.stack) \in Nat /\ L <= Len(v.stack) /\ Len(v.stack) <= L + Len(g.succ[b])
  BY <1>9a, <1>9b
<1>10. \A k \in 1 .. Len(v.stack) : \/ k \in 1 .. L - 1 \/ k = L
                                    \/ \E i \in 1 .. Len(r) : k = L + i
  <2> SUFFICES ASSUME NEW k \in 1 .. Len(v.stack), k \notin 1 .. L - 1, k # L
               PROVE  \E i \in 1 .. Len(r) : k = L + i
    OBVIOUS
  <2>1. k - L \in 1 .. Len(r) /\ k = L + (k - L)
    <3>1. L \in Nat \ {0} /\ Len(r) \in Nat /\ Len(v.stack) = L + Len(r)
      BY <1>2, <1>5, <1>9
    <3> QED
      BY <3>1
  <2> QED
    BY <2>1
<1>11. \A k \in 1 .. L : k \in 1 .. L - 1 \/ k = L
  BY <1>2
<1>12. IsWalk(n, v)
  BY <1>1, <1>3, <1>7, <1>8 DEF IsWalk
<1>13. \A k : Open(v, k) <=> Open(w, k) \/ k = L
  <2> SUFFICES ASSUME NEW k
               PROVE  Open(v, k) <=> Open(w, k) \/ k = L
    OBVIOUS
  <2>1. Open(v, k) => Open(w, k) \/ k = L
    BY <1>9, <1>10 DEF Open, L
  <2>2. Open(w, k) => Open(v, k)
    BY <1>3, <1>9, <1>11 DEF Open, L
  <2>3. Open(v, L)
    BY <1>9 DEF Open
  <2> QED
    BY <2>1, <2>2, <2>3
<1>14. \A k, s : FromOpen(g, v, k, s) <=> FromOpen(g, w, k, s) \/ (k = L /\ s \in ToSet(g.succ[b]))
  <2> SUFFICES ASSUME NEW k, NEW s
               PROVE  FromOpen(g, v, k, s) <=> FromOpen(g, w, k, s) \/ (k = L /\ s \in ToSet(g.succ[b]))
    OBVIOUS
  <2>1. Open(w, k) => v.stack[k] = w.stack[k] /\ k # L
    BY <1>3, <1>9, <1>11 DEF Open, L
  <2> QED
    BY <1>9, <1>13, <2>1 DEF FromOpen
<1>15. b \in Reached(g) /\ ToSet(g.succ[b]) \subseteq Reached(g)
  <2>1. b \in Reached(g)
    BY <1>0, <1>3 DEF OnStack, L
  <2> QED
    BY <2>1, ReachedOn
<1>16. OnStack(g, n, v)
  <2>1. ASSUME NEW k \in 1 .. Len(v.stack)
        PROVE  v.stack[k].block \in Reached(g)
    <3>1. \A i \in 1 .. L - 1 : w.stack[i].block \in Reached(g)
      BY <1>0, <1>9 DEF OnStack, L
    <3>2. \A i \in 1 .. Len(r) : v.stack[L + i].block \in Reached(g)
      BY <1>5, <1>9, <1>15
    <3> QED
      BY <1>9, <1>10, <1>15, <3>1, <3>2
  <2>2. ASSUME NEW k \in 1 .. Len(v.stack), v.stack[k].processed
        PROVE  v.stack[k].block \in v.visited /\ v.stack[k].block \notin ToSet(v.order)
    <3>1. k \in 1 .. L - 1 \/ k = L
      BY <1>9, <1>10, <2>2
    <3>2. CASE k \in 1 .. L - 1
      BY <1>0, <1>8, <1>9, <2>2, <3>2 DEF OnStack, L
    <3>3. CASE k = L
      BY <1>0, <1>3, <1>8, <1>9, <3>3 DEF InOrder
    <3> QED
      BY <3>1, <3>2, <3>3
  <2>3. ASSUME NEW k \in 1 .. Len(v.stack), NEW l \in 1 .. Len(v.stack),
               v.stack[k].processed, v.stack[l].processed, v.stack[k].block = v.stack[l].block
        PROVE  k = l
    <3>1. (k \in 1 .. L - 1 \/ k = L) /\ (l \in 1 .. L - 1 \/ l = L)
      BY <1>9, <1>10, <2>3
    <3>2. \A i \in 1 .. L - 1 : v.stack[i].processed => v.stack[i].block # b
      <4>1. \A i \in 1 .. L : w.stack[i].processed => w.stack[i].block \in w.visited
        BY <1>0 DEF OnStack, L
      <4> SUFFICES ASSUME NEW i \in 1 .. L - 1, v.stack[i].processed
                   PROVE  v.stack[i].block # b
        OBVIOUS
      <4>2. v.stack[i] = w.stack[i] /\ i \in 1 .. L
        BY <1>9
      <4>3. v.stack[i].block \in w.visited
        BY <4>1, <4>2
      <4> QED
        BY <1>3, <4>3
    <3>3. CASE k = L \/ l = L
      BY <1>9, <2>3, <3>1, <3>2, <3>3
    <3>4. CASE k # L /\ l # L
      <4>1. /\ k \in 1 .. L /\ l \in 1 .. L /\ v.stack[k] = w.stack[k] /\ v.stack[l] = w.stack[l]
        BY <1>9, <3>1, <3>4
      <4> QED
        BY <1>0, <2>3, <4>1 DEF OnStack, L
    <3> QED
      BY <3>3, <3>4
  <2>4. ASSUME NEW k \in 1 .. Len(v.stack), v.stack[k].block # EntryBlock
        PROVE  \E j \in 1 .. k - 1 : FromOpen(g, v, j, v.stack[k].block)
    <3>1. CASE k \in 1 .. L - 1 \/ k = L
      <4>1. v.stack[k].block = w.stack[k].block /\ k \in 1 .. L
        BY <1>3, <1>9, <3>1
      <4>2. PICK j \in 1 .. k - 1 : FromOpen(g, w, j, w.stack[k].block)
        BY <1>0, <2>4, <4>1 DEF OnStack, L
      <4> QED
        BY <1>14, <4>1, <4>2
    <3>2. CASE \E i \in 1 .. Len(r) : k = L + i
      <4>1. PICK i \in 1 .. Len(r) : k = L + i
        BY <3>2
      <4>2. v.stack[k].block \in ToSet(g.succ[b])
        BY <1>5, <1>9, <4>1
      <4>3. L \in 1 .. k - 1
        BY <1>2, <1>5, <4>1
      <4> QED
        BY <1>14, <4>2, <4>3
    <3> QED
      BY <1>10, <3>1, <3>2
  <2>5. EntryBlock \in v.visited \/ \E k \in 1 .. Len(v.stack) : v.stack[k].block = EntryBlock
    <3>1. CASE EntryBlock \in w.visited
      BY <1>8, <3>1
    <3>2. CASE EntryBlock \notin w.visited
      <4>1. PICK k \in 1 .. L : w.stack[k].block = EntryBlock
        BY <1>0, <3>2 DEF OnStack, L
      <4> QED
        BY <1>3, <1>9, <1>11, <4>1
    <3> QED
      BY <3>1, <3>2
  <2> QED
    BY <2>1, <2>2, <2>3, <2>4, <2>5 DEF OnStack
<1>17. InOrder(g, n, v)
  <2>1. ToSet(v.order) \subseteq v.visited /\ v.visited \subseteq Reached(g)
    BY <1>0, <1>8, <1>15 DEF InOrder
  <2> QED
    BY <1>0, <1>8, <1>14, <2>1 DEF InOrder
<1>18. Covered(g, n, v)
  <2>1. ASSUME NEW c \in v.visited, c \notin ToSet(v.order)
        PROVE  \E k : Open(v, k) /\ v.stack[k].block = c
    <3>1. CASE c = b
      BY <1>9, <1>13, <3>1
    <3>2. CASE c # b
      <4>1. PICK k : Open(w, k) /\ w.stack[k].block = c
        BY <1>0, <1>8, <2>1, <3>2 DEF Covered
      <4>2. k \in 1 .. L - 1
        BY <1>3, <1>11, <4>1 DEF Open, L
      <4> QED
        BY <1>9, <1>13, <4>1, <4>2
    <3> QED
      BY <3>1, <3>2
  <2>2. ASSUME NEW k, NEW s, FromOpen(g, v, k, s), s \notin v.visited
        PROVE  \E l \in k + 1 .. Len(v.stack) : v.stack[l].block = s
    <3>1. CASE FromOpen(g, w, k, s)
      <4>1. PICK l \in k + 1 .. L : w.stack[l].block = s
        BY <1>0, <1>8, <2>2, <3>1 DEF Covered, L
      <4>2. k \in 1 .. L
        BY <3>1 DEF FromOpen, Open, L
      <4>3. l # L
        BY <1>3, <1>8, <2>2, <4>1
      <4>4. l \in Nat /\ k + 1 <= l /\ l <= L - 1
        BY <1>2, <4>1, <4>2, <4>3
      <4>5. l \in 1 .. L - 1 /\ l \in k + 1 .. Len(v.stack)
        BY <1>9a, <1>9c, <4>2, <4>4
      <4> QED
        BY <1>9, <4>1, <4>5
    <3>2. CASE k = L /\ s \in ToSet(g.succ[b])
      <4>1. PICK i \in 1 .. Len(r) : r[i] = s
        BY <1>5, <1>8, <2>2, <3>2
      <4> QED
        BY <1>9, <3>2, <4>1
    <3> QED
      BY <1>14, <2>2, <3>1, <3>2
  <2>3. \A c \in ToSet(v.order) : ToSet(g.succ[c]) \subseteq v.visited
    BY <1>0, <1>8 DEF Covered
  <2> QED
    BY <2>1, <2>2, <2>3 DEF Covered
<1> QED
  BY <1>3, <1>5, <1>8, <1>12, <1>16, <1>17, <1>18, <1>9c DEF Walked, L, b

\* A turn leaves less to do.
LEMMA TurnOn ==
  ASSUME NEW g, NEW n, IsGraph(g, n), NEW w, Walked(g, n, w), w.stack # << >>
  PROVE  /\ Walked(g, n, Turn(g, w))
         /\ Left(g, n, w) \in Nat /\ Left(g, n, Turn(g, w)) \in Nat
         /\ Left(g, n, Turn(g, w)) < Left(g, n, w)
<1> DEFINE v == Turn(g, w)
           f == Weights(g, n)
           Sum(X) == SumFunctionOnSet(f, X)
           b == Last(w.stack).block
<1>0. n \in Nat \ {0} /\ IsFiniteSet(1 .. n)
  <2>1. n \in Nat \ {0}
    BY DEF IsGraph
  <2>2. 1 \in Int /\ n \in Int
    BY <2>1
  <2> QED
    BY <2>1, <2>2, FS_Interval
<1>1. f \in [1 .. n -> Nat] /\ \A c \in 1 .. n : f[c] = 1 + Len(g.succ[c]) /\ Len(g.succ[c]) \in Nat
  <2>1. \A c \in 1 .. n : Len(g.succ[c]) \in Nat
    BY DEF IsGraph
  <2> QED
    BY <2>1 DEF Weights
<1> HIDE DEF f, v
<1>2. \A X \in SUBSET (1 .. n) : Sum(X) \in Nat /\ \A x \in X : Sum(X) = f[x] + Sum(X \ {x})
  <2>1. \A X \in SUBSET (1 .. n) : IsFiniteSet(X)
    BY <1>0, FS_Subset
  <2>2. \A X \in SUBSET (1 .. n) : IsFiniteSet(X) =>
           /\ SumFunctionOnSet(f, X) \in Nat
           /\ \A x \in X : SumFunctionOnSet(f, X) = f[x] + SumFunctionOnSet(f, X \ {x})
    <3> DEFINE D == 1 .. n
    <3>1. f \in [D -> Nat]
      BY <1>1
    <3> HIDE DEF D, Sum
    <3>2. \A X \in SUBSET D : IsFiniteSet(X) =>
           /\ SumFunctionOnSet(f, X) \in Nat
           /\ \A x \in X : SumFunctionOnSet(f, X) = f[x] + SumFunctionOnSet(f, X \ {x})
      BY <3>1, SumTakes
    <3> QED
      BY <3>2 DEF D
  <2> QED
    BY <2>1, <2>2
<1>3. Len(w.stack) \in Nat \ {0} /\ Sum((1 .. n) \ w.visited) \in Nat
  <2>1. IsWalk(n, w)
    BY DEF Walked
  <2> QED
    BY <1>2, <2>1, TopEntry
<1> HIDE DEF Sum
<1>4. \A u : Left(g, n, u) = Len(u.stack) + Sum((1 .. n) \ u.visited)
  BY DEF Left, Sum, f
<1>5. CASE Last(w.stack).processed
  <2>1. Walked(g, n, v) /\ Len(v.stack) = Len(w.stack) - 1 /\ v.visited = w.visited
    BY <1>5, TurnDone DEF v
  <2>2. Left(g, n, v) = Len(w.stack) - 1 + Sum((1 .. n) \ w.visited)
    BY <1>4, <2>1
  <2>3. Left(g, n, w) = Len(w.stack) + Sum((1 .. n) \ w.visited)
    BY <1>4
  <2>4. Left(g, n, w) \in Nat /\ Left(g, n, v) \in Nat /\ Left(g, n, v) < Left(g, n, w)
    BY <1>3, <2>2, <2>3
  <2> QED
    BY <2>1, <2>4 DEF v
<1>6. CASE ~Last(w.stack).processed /\ b \in w.visited
  <2>1. Walked(g, n, v) /\ Len(v.stack) = Len(w.stack) - 1 /\ v.visited = w.visited
    BY <1>6, TurnSkips DEF v
  <2>2. Left(g, n, v) = Len(w.stack) - 1 + Sum((1 .. n) \ w.visited)
    BY <1>4, <2>1
  <2>3. Left(g, n, w) = Len(w.stack) + Sum((1 .. n) \ w.visited)
    BY <1>4
  <2>4. Left(g, n, w) \in Nat /\ Left(g, n, v) \in Nat /\ Left(g, n, v) < Left(g, n, w)
    BY <1>3, <2>2, <2>3
  <2> QED
    BY <2>1, <2>4 DEF v
<1>7. CASE ~Last(w.stack).processed /\ b \notin w.visited
  <2>1. /\ Walked(g, n, v) /\ v.visited = w.visited \cup {b} /\ b \in 1 .. n
        /\ Len(v.stack) <= Len(w.stack) + Len(g.succ[b]) /\ Len(g.succ[b]) \in Nat
    BY <1>7, TurnEnters DEF v
  <2> DEFINE X == (1 .. n) \ w.visited
             Y == (1 .. n) \ v.visited
  <2>2. X \in SUBSET (1 .. n) /\ b \in X /\ X \ {b} = Y
    BY <1>7, <2>1
  <2> HIDE DEF X, Y
  <2>3. Sum(X) = f[b] + Sum(Y) /\ Sum(Y) \in Nat
    <3>1. Y \in SUBSET (1 .. n)
      BY <2>2
    <3> QED
      BY <1>2, <2>2, <3>1 DEF Sum
  <2>4. f[b] = 1 + Len(g.succ[b])
    BY <1>1, <2>1
  <2>5. Len(v.stack) \in Nat
    <3>1. v.stack \in Seq(Entries(n))
      BY <2>1 DEF Walked, IsWalk
    <3> QED
      BY <3>1
  <2>6. Left(g, n, w) = Len(w.stack) + Sum(X) /\ Left(g, n, v) = Len(v.stack) + Sum(Y)
    BY <1>4 DEF X, Y
  <2>7. Left(g, n, w) \in Nat /\ Left(g, n, v) \in Nat /\ Left(g, n, v) < Left(g, n, w)
    <3>1. Len(w.stack) \in Nat
      BY <1>3
    <3> DEFINE m == Len(g.succ[b])
               y == Sum(Y)
               p == Len(w.stack)
               q == Len(v.stack)
    <3>2. /\ m \in Nat /\ y \in Nat /\ p \in Nat /\ q \in Nat /\ q <= p + m
          /\ Left(g, n, w) = p + ((1 + m) + y) /\ Left(g, n, v) = q + y
      BY <2>1, <2>3, <2>4, <2>5, <2>6, <3>1
    <3> HIDE DEF m, y, p, q
    <3> QED
      BY <3>2
  <2> QED
    BY <2>1, <2>7 DEF v
<1> QED
  BY <1>5, <1>6, <1>7

\* When the stack is empty the blocks reached are in order.
LEMMA WalkOver ==
  ASSUME NEW g, NEW n, IsGraph(g, n), NEW w, Walked(g, n, w), w.stack = << >>
  PROVE  IsOrder(g, n, w.order)
<1> DEFINE rpo == w.order
<1>1. IsWalk(n, w) /\ OnStack(g, n, w) /\ InOrder(g, n, w) /\ Covered(g, n, w)
  BY DEF Walked
<1>2. Len(w.stack) = 0 /\ ~\E k : Open(w, k)
  BY DEF Open
<1>3. w.visited = ToSet(rpo) /\ w.visited \subseteq Reached(g) /\ EntryBlock \in w.visited
  <2>1. w.visited = ToSet(rpo) /\ w.visited \subseteq Reached(g)
    BY <1>1, <1>2 DEF InOrder, Covered
  <2>2. EntryBlock \in w.visited \/ \E k \in 1 .. Len(w.stack) : w.stack[k].block = EntryBlock
    BY <1>1 DEF OnStack
  <2>3. 1 .. Len(w.stack) = {}
    BY <1>2
  <2> QED
    BY <2>1, <2>2, <2>3
<1>4. Reached(g) \subseteq w.visited
  <2> DEFINE V == w.visited
  <2>1. EntryBlock \in V /\ Further(g, V, {}) \subseteq V
    BY <1>1, <1>3 DEF Covered, Further
  <2> HIDE DEF V
  <2>2. Reached(g) \subseteq V
    BY <2>1, ClosureSpec DEF Reached
  <2> QED
    BY <2>2 DEF V
<1>5. rpo \in Seq(1 .. n) /\ Len(rpo) \in Nat /\ DOMAIN rpo = 1 .. Len(rpo)
  BY <1>1 DEF IsWalk
<1>6. \A i, j \in 1 .. Len(rpo) : rpo[i] = rpo[j] => i = j
  BY <1>1 DEF InOrder
<1>7. \A i \in 1 .. Len(rpo) : \/ rpo[i] = EntryBlock
                               \/ \E j \in 1 .. i - 1 : rpo[i] \in ToSet(g.succ[rpo[j]])
  BY <1>1, <1>2 DEF InOrder, FromOpen
<1> HIDE DEF rpo
<1>8. Len(rpo) >= 1 /\ rpo[1] = EntryBlock
  <2>1. Len(rpo) >= 1
    BY <1>3, <1>5 DEF ToSet
  <2> QED
    BY <1>5, <1>7, <2>1
<1>9. \A i \in 2 .. Len(rpo) : \E j \in 1 .. i - 1 : rpo[i] \in ToSet(g.succ[rpo[j]])
  <2>1. \A i \in 2 .. Len(rpo) : i \in 1 .. Len(rpo) /\ 1 \in 1 .. Len(rpo) /\ i # 1
    BY <1>5
  <2>2. \A i \in 2 .. Len(rpo) : rpo[i] # EntryBlock
    BY <1>6, <1>8, <2>1
  <2> QED
    BY <1>7, <2>1, <2>2
<1>10. ToSet(rpo) = Reached(g)
  BY <1>3, <1>4
<1>11. IsOrder(g, n, rpo)
  BY <1>5, <1>6, <1>8, <1>9, <1>10 DEF IsOrder
<1> QED
  BY <1>11 DEF rpo

Unwalked == [stack |-> <<[block |-> EntryBlock, processed |-> FALSE]>>, visited |-> {}, order |-> << >>]

\* The walk begins at the entry.
LEMMA WalkBegins ==
  ASSUME NEW g, NEW n, IsGraph(g, n)
  PROVE  Walked(g, n, Unwalked)
<1> DEFINE e == [block |-> EntryBlock, processed |-> FALSE]
           w == Unwalked
<1>1. e \in Entries(n) /\ e.block = EntryBlock /\ e.processed = FALSE
  BY Edges DEF Entries
<1>2. /\ w.stack = <<e>> /\ w.visited = {} /\ w.order = << >>
      /\ w = [stack |-> w.stack, visited |-> w.visited, order |-> w.order]
  BY DEF Unwalked
<1> HIDE DEF e, w
<1>3. w.stack \in Seq(Entries(n)) /\ Len(w.stack) = 1 /\ w.stack[1] = e
      /\ w.order \in Seq(1 .. n) /\ Len(w.order) = 0 /\ ToSet(w.order) = {}
  <2>1. w.stack \in Seq(Entries(n)) /\ Len(w.stack) = 1 /\ w.stack[1] = e
    <3> DEFINE T == Entries(n)
    <3> HIDE DEF T
    <3>1. e \in T
      BY <1>1 DEF T
    <3>2. <<e>> \in Seq(T) /\ Len(<<e>>) = 1 /\ <<e>>[1] = e
      BY <3>1
    <3> QED
      BY <1>2, <3>2 DEF T
  <2>2. << >> \in Seq(1 .. n) /\ Len(<< >>) = 0 /\ ToSet(<< >>) = {}
    BY DEF ToSet
  <2> QED
    BY <1>2, <2>1, <2>2
<1>4. IsWalk(n, w)
  BY <1>2, <1>3 DEF IsWalk
<1>5. \A k \in 1 .. Len(w.stack) : k = 1 /\ w.stack[k] = e
  <2>1. 1 .. Len(w.stack) = {1}
    BY <1>3
  <2> QED
    BY <1>3, <2>1
<1>6. OnStack(g, n, w)
  <2>1. EntryBlock \in Reached(g)
    BY ClosureSpec DEF Reached
  <2>2. \E k \in 1 .. Len(w.stack) : w.stack[k].block = EntryBlock
    BY <1>1, <1>3
  <2> QED
    BY <1>1, <1>5, <2>1, <2>2 DEF OnStack
<1>7. InOrder(g, n, w)
  BY <1>2, <1>3 DEF InOrder
<1>8. Covered(g, n, w)
  <2>1. ~\E k : Open(w, k)
    BY <1>1, <1>5 DEF Open
  <2> QED
    BY <1>2, <1>3, <2>1 DEF Covered, FromOpen
<1> QED
  BY <1>4, <1>6, <1>7, <1>8 DEF Walked, w

\* The turns are enough.
LEMMA OrderFound ==
  ASSUME NEW g, NEW n, IsGraph(g, n)
  PROVE  IsOrder(g, n, ReversePostorder(g))
<1> DEFINE N == 1 + SumFunctionOnSet(Weights(g, n), 1 .. n)
           B == [stack : Seq(Entries(n)), visited : SUBSET (1 .. n), order : Seq(1 .. n)]
           Far(w, i) == Walked(g, n, w) /\ (w.stack = << >> \/ Left(g, n, w) + i <= N)
           S == [i \in 0 .. N |-> {w \in B : Far(w, i)}]
           F == [i \in 1 .. N |-> [w \in B |-> Turn(g, w)]]
           start == Unwalked
<1>0. n \in Nat \ {0} /\ Blocks(g) = 1 .. n /\ IsFiniteSet(1 .. n)
  <2>1. n \in Nat \ {0} /\ Blocks(g) = 1 .. n
    BY Edges DEF IsGraph
  <2>2. 1 \in Int /\ n \in Int
    BY <2>1
  <2> QED
    BY <2>1, <2>2, FS_Interval
<1>1. N \in Nat
  <2> DEFINE f == Weights(g, n)
  <2>1. f \in [1 .. n -> Nat]
    <3>1. \A c \in 1 .. n : Len(g.succ[c]) \in Nat
      BY DEF IsGraph
    <3> QED
      BY <3>1 DEF Weights
  <2> HIDE DEF f
  <2>2. SumFunctionOnSet(f, 1 .. n) \in Nat
    BY <1>0, <2>1, SumTakes
  <2> QED
    BY <2>2 DEF f
<1>2. ASSUME NEW w, Walked(g, n, w)
      PROVE  w \in B
  BY <1>2 DEF Walked, IsWalk
<1>3. start \in S[0]
  <2>1. Walked(g, n, start)
    BY WalkBegins
  <2>2. Left(g, n, start) = N
    <3>1. start.stack = <<[block |-> EntryBlock, processed |-> FALSE]>> /\ start.visited = {}
      BY DEF Unwalked
    <3>2. Len(start.stack) = 1
      BY <3>1
    <3>3. (1 .. n) \ start.visited = 1 .. n
      BY <3>1
    <3> HIDE DEF start
    <3> QED
      BY <3>2, <3>3 DEF Left
  <2>3. Far(start, 0)
    <3> HIDE DEF start, N
    <3> QED
      BY <1>1, <2>1, <2>2
  <2>4. 0 \in 0 .. N /\ start \in B
    BY <1>1, <1>2, <2>1
  <2> HIDE DEF start, B, N, Far
  <2> QED
    BY <2>3, <2>4
<1>4. ASSUME NEW i \in 1 .. N, NEW w \in S[i - 1]
      PROVE  F[i][w] \in S[i] /\ F[i][w] = Turn(g, w)
  <2>1. i - 1 \in 0 .. N /\ i \in 0 .. N
    BY <1>1
  <2>2. w \in B /\ Far(w, i - 1)
    <3> HIDE DEF N, B, Far
    <3> QED
      BY <1>4, <2>1
  <2>3. Far(Turn(g, w), i)
    <3>1. CASE w.stack = << >>
      <4>1. Turn(g, w) = w
        BY <3>1 DEF Turn
      <4> QED
        BY <2>2, <3>1, <4>1
    <3>2. CASE w.stack # << >>
      <4>1. /\ Walked(g, n, Turn(g, w))
            /\ Left(g, n, w) \in Nat /\ Left(g, n, Turn(g, w)) \in Nat
            /\ Left(g, n, Turn(g, w)) < Left(g, n, w)
        BY <2>2, <3>2, TurnOn
      <4>2. Left(g, n, w) + (i - 1) <= N
        BY <2>2, <3>2
      <4>3. Left(g, n, Turn(g, w)) + i <= N
        <5> HIDE DEF N
        <5> QED
          BY <1>1, <4>1, <4>2
      <4> QED
        BY <4>1, <4>3
    <3> QED
      BY <3>1, <3>2
  <2>4. Turn(g, w) \in B
    BY <1>2, <2>3
  <2> HIDE DEF N, B, Far
  <2> QED
    BY <2>1, <2>2, <2>3, <2>4
<1>5. PICK t : Tables(t, N, S, start, F)
  <2>1. Leads(N, S, start, F)
    <3> HIDE DEF S, F, N, start
    <3> QED
      BY <1>1, <1>3, <1>4 DEF Leads
  <2> HIDE DEF S, F, N, start
  <2> QED
    BY <2>1, TableOfSteps
<1> DEFINE after == CHOOSE a : a = [i \in 0 .. N |-> IF i = 0 THEN start ELSE Turn(g, a[i - 1])]
<1>6. \A i \in 1 .. N : t[i] = Turn(g, t[i - 1])
  <2> SUFFICES ASSUME NEW i \in 1 .. N
               PROVE  t[i] = Turn(g, t[i - 1])
    OBVIOUS
  <2>1. i - 1 \in 0 .. N
    BY <1>1
  <2> HIDE DEF S, F, N
  <2>2. t[i - 1] \in S[i - 1] /\ t[i] = F[i][t[i - 1]]
    BY <1>5, <2>1 DEF Tables
  <2> QED
    BY <1>4, <2>2
<1>7. ReversePostorder(g) = after[N].order
  BY <1>0, Zenon DEF ReversePostorder, Loop, Weights, Unwalked
<1> HIDE DEF N, S, F, start
<1>8. t = [i \in 0 .. N |-> IF i = 0 THEN start ELSE Turn(g, t[i - 1])]
  <2>1. \A i \in 0 .. N : i = 0 \/ i \in 1 .. N
    BY <1>1
  <2>2. t = [i \in 0 .. N |-> t[i]] /\ t[0] = start
    BY <1>5 DEF Tables, IsTable
  <2> QED
    BY <1>6, <2>1, <2>2
<1>9. after = [i \in 0 .. N |-> IF i = 0 THEN start ELSE Turn(g, after[i - 1])]
  BY <1>8
<1> HIDE DEF after
<1>10. after[N] = t[N]
  <2>1. t[0] = start
    BY <1>5 DEF Tables
  <2>2. after[0] = start /\ \A i \in 1 .. N : after[i] = Turn(g, after[i - 1])
    <3>1. 0 \in 0 .. N /\ \A i \in 1 .. N : i \in 0 .. N /\ i # 0
      BY <1>1
    <3> QED
      BY <1>9, <3>1
  <2>3. \A i \in 1 .. N : t[i - 1] = after[i - 1] => t[i] = after[i]
    BY <1>6, <2>2
  <2> QED
    BY <1>1, <2>1, <2>2, <2>3, TablesMeet
<1>11. Far(t[N], N)
  <2>1. N \in 0 .. N
    BY <1>1
  <2>2. t[N] \in S[N]
    BY <1>5, <2>1 DEF Tables
  <2> HIDE DEF B, Far
  <2> QED
    BY <2>1, <2>2 DEF S
<1>12. t[N].stack = << >>
  <2> SUFFICES ASSUME t[N].stack # << >>
               PROVE  FALSE
    OBVIOUS
  <2>1. Walked(g, n, t[N]) /\ Left(g, n, t[N]) + N <= N
    BY <1>11
  <2>2. Left(g, n, t[N]) \in Nat /\ Left(g, n, Turn(g, t[N])) \in Nat /\ Left(g, n, Turn(g, t[N])) < Left(g, n, t[N])
    BY <2>1, TurnOn
  <2> QED
    BY <1>1, <2>1, <2>2
<1>13. IsOrder(g, n, t[N].order)
  BY <1>11, <1>12, WalkOver
<1> QED
  BY <1>7, <1>10, <1>13

\* The blocks that some addresses begin are blocks.
LEMMA IntoBlocks ==
  ASSUME NEW m \in Nat, NEW leaders \in SUBSET (1 .. m), NEW T, NEW targets \in Seq(T)
  PROVE  Begins(leaders, targets) \in Seq(1 .. Cardinality(leaders))
<1> DEFINE S == {k \in DOMAIN targets : targets[k] \in leaders}
           inside == At(targets, S)
           n == Cardinality(leaders)
           a == Ascending(leaders)
<1>1. n \in Nat /\ a \in [1 .. n -> leaders] /\ \A x \in leaders : \E i \in 1 .. n : a[i] = x
  BY AscendingSet
<1>2. S \in SUBSET (DOMAIN targets)
  OBVIOUS
<1>3. /\ Len(inside) \in Nat /\ DOMAIN inside = 1 .. Len(inside)
      /\ \A k \in 1 .. Len(inside) : \E i \in S : inside[k] = targets[i]
  <2> HIDE DEF S
  <2> QED
    BY <1>2, AtPlaces
<1>4. \A k \in 1 .. Len(inside) : inside[k] \in leaders
  BY <1>3
<1> DEFINE u == [k \in DOMAIN inside |-> CHOOSE i \in 1 .. n : a[i] = inside[k]]
<1>5. Begins(leaders, targets) = u
  BY DEF Begins
<1> HIDE DEF inside, n, a
<1>6. u \in [1 .. Len(inside) -> 1 .. n]
  BY <1>1, <1>3, <1>4
<1> DEFINE N == Len(inside)
           R == 1 .. n
<1>7. N \in Nat /\ u \in [1 .. N -> R]
  BY <1>3, <1>6
<1> HIDE DEF N, R, u
<1>8. u \in Seq(R)
  BY <1>7
<1> QED
  BY <1>5, <1>8 DEF R, n

\* Every function has a control-flow graph.
LEMMA GraphBuilt ==
  ASSUME NEW T, NEW insns \in Seq(T), insns # << >>, NEW U, NEW hints \in Seq(U)
  PROVE  IsGraph(BuildCfg(insns, hints), Cardinality(Leaders(insns, hints)))
<1> DEFINE leaders == Leaders(insns, hints)
           n == Cardinality(leaders)
           m == Len(insns)
           g == BuildCfg(insns, hints)
<1>1. m \in Nat \ {0} /\ DOMAIN insns = 1 .. m
  OBVIOUS
<1>2. leaders \in SUBSET (1 .. m) /\ 1 \in leaders
  BY <1>1 DEF Leaders
<1> HIDE DEF leaders
<1>3. n \in Nat /\ n # 0
  <2>1. n \in Nat /\ IsFiniteSet(leaders)
    BY <1>1, <1>2, AscendingSet
  <2>2. n # 0
    BY <1>2, <2>1, FS_EmptySet
  <2> QED
    BY <2>1, <2>2
<1>4. Begins(leaders, hints) \in Seq(1 .. n)
  BY <1>1, <1>2, IntoBlocks
<1>5. \A x : Begins(leaders, <<x>>) \in Seq(1 .. n)
  <2> SUFFICES ASSUME NEW x
               PROVE  Begins(leaders, <<x>>) \in Seq(1 .. n)
    OBVIOUS
  <2> DEFINE X == {x}
             s == <<x>>
  <2>1. s \in Seq(X)
    OBVIOUS
  <2> HIDE DEF X, s, n
  <2>2. Begins(leaders, s) \in Seq(1 .. n)
    BY <1>1, <1>2, <2>1, IntoBlocks DEF n
  <2> QED
    BY <2>2 DEF s
<1>6. \A x, y : Begins(leaders, <<x, y>>) \in Seq(1 .. n)
  <2> SUFFICES ASSUME NEW x, NEW y
               PROVE  Begins(leaders, <<x, y>>) \in Seq(1 .. n)
    OBVIOUS
  <2> DEFINE X == {x, y}
             s == <<x, y>>
  <2>1. s \in Seq(X)
    OBVIOUS
  <2> HIDE DEF X, s, n
  <2>2. Begins(leaders, s) \in Seq(1 .. n)
    BY <1>1, <1>2, <2>1, IntoBlocks DEF n
  <2> QED
    BY <2>2 DEF s
<1>7. << >> \in Seq(1 .. n)
  OBVIOUS
<1> DEFINE starts == Ascending(leaders)
           ops == [i \in DOMAIN starts |-> BlockOps(insns, starts, i)]
<1>8. starts \in [1 .. n -> leaders] /\ ops = [i \in 1 .. n |-> ops[i]]
  <2>1. starts \in [1 .. n -> leaders]
    BY <1>1, <1>2, AscendingSet
  <2> HIDE DEF starts
  <2> QED
    BY <2>1
<1> DEFINE after == [i \in 1 .. n |-> IF i = Len(starts) THEN Len(insns) + 1 ELSE starts[i + 1]]
           succ == [i \in 1 .. n |-> Successors(leaders, hints, Last(ops[i]), after[i])]
<1>9. g = [ops |-> ops, succ |-> succ]
  <2>1. DOMAIN ops = 1 .. n
    BY <1>8
  <2> QED
    BY <2>1, Zenon DEF BuildCfg, leaders
<1>10. ASSUME NEW last, NEW next
       PROVE  Successors(leaders, hints, last, next) \in Seq(1 .. n)
  BY <1>4, <1>5, <1>6, <1>7 DEF Successors
<1> HIDE DEF starts, ops, after
<1>11. Len(ops) = n /\ DOMAIN ops = 1 .. n
  BY <1>3, <1>8
<1>12. \A i \in 1 .. n : succ[i] \in Seq(1 .. n)
  BY <1>10
<1> HIDE DEF succ, g
<1> QED
  BY <1>3, <1>9, <1>11, <1>12 DEF IsGraph, g, leaders

-----------------------------------------------------------------------------
(* The frontiers: where there is no phi the dominator decides *)

\* The blocks in the frontiers of some, with these.
Wider(df, S) == S \cup UNION {df[b] : b \in S}

\* A variable has a phi wherever a definition of it, or another phi, has its frontier.
LEMMA PhisClosed ==
  ASSUME NEW n \in Nat, NEW df \in [1 .. n -> SUBSET (1 .. n)], NEW defs \in SUBSET (1 .. n)
  PROVE  /\ PhiBlocks(df, defs) \subseteq UNION {df[b] : b \in 1 .. n}
         /\ PhiBlocks(df, defs) \subseteq 1 .. n
         /\ \A x \in defs \cup PhiBlocks(df, defs) : df[x] \subseteq PhiBlocks(df, defs)
<1> DEFINE m == n + 1
           S == [i \in 0 .. m |-> SUBSET (1 .. n)]
           f == [i \in 1 .. m |-> [X \in SUBSET (1 .. n) |-> Wider(df, X)]]
<1>0. m \in Nat /\ DOMAIN df = 1 .. n /\ Cardinality(DOMAIN df) = n
  <2>1. 1 \in Int /\ n \in Int
    OBVIOUS
  <2> QED
    BY <2>1, FS_Interval
<1>1. defs \in S[0]
  <2>1. 0 \in 0 .. m
    BY <1>0
  <2> QED
    BY <2>1
<1>2. ASSUME NEW X \in SUBSET (1 .. n)
      PROVE  Wider(df, X) \in SUBSET (1 .. n)
  BY <1>2 DEF Wider
<1>3. ASSUME NEW i \in 1 .. m, NEW X \in S[i - 1]
      PROVE  f[i][X] \in S[i] /\ f[i][X] = Wider(df, X)
  <2>1. i \in 0 .. m /\ i - 1 \in 0 .. m
    BY <1>0
  <2> QED
    BY <1>2, <2>1
<1>4. PICK t : Tables(t, m, S, defs, f)
  <2>1. Leads(m, S, defs, f)
    <3> HIDE DEF S, f, m
    <3> QED
      BY <1>0, <1>1, <1>3 DEF Leads
  <2> HIDE DEF S, f, m
  <2> QED
    BY <2>1, TableOfSteps
<1>5. /\ t[0] = defs
      /\ \A i \in 0 .. m : t[i] \in SUBSET (1 .. n)
      /\ \A i \in 1 .. m : t[i] = Wider(df, t[i - 1])
  <2>1. \A i \in 0 .. m : t[i] \in SUBSET (1 .. n)
    BY <1>4 DEF Tables
  <2>2. ASSUME NEW i \in 1 .. m
        PROVE  t[i] = Wider(df, t[i - 1])
    <3>1. i - 1 \in 0 .. m
      BY <1>0
    <3> HIDE DEF S, f
    <3>2. t[i - 1] \in S[i - 1] /\ t[i] = f[i][t[i - 1]]
      BY <1>4, <3>1 DEF Tables
    <3> QED
      BY <1>3, <3>2
  <2> HIDE DEF S, f
  <2> QED
    BY <1>4, <2>1, <2>2 DEF Tables
<1> HIDE DEF S, f
<1>6. \A k \in 0 .. n : t[k + 1] = Wider(df, t[k]) /\ t[k] \subseteq t[k + 1]
  <2> SUFFICES ASSUME NEW k \in 0 .. n
               PROVE  t[k + 1] = Wider(df, t[k]) /\ t[k] \subseteq t[k + 1]
    OBVIOUS
  <2>1. k + 1 \in 1 .. m /\ (k + 1) - 1 = k
    OBVIOUS
  <2>2. t[k + 1] = Wider(df, t[k])
    BY <1>5, <2>1
  <2> QED
    BY <2>2 DEF Wider
<1>7. t[n + 1] = t[n]
  <2>1. \A k \in 0 .. n + 1 : t[k] \in SUBSET (1 .. n)
    BY <1>5
  <2>2. \A k \in 0 .. n : k # n /\ t[k + 1] = t[k] => t[(k + 1) + 1] = t[k + 1]
    <3> SUFFICES ASSUME NEW k \in 0 .. n, k # n, t[k + 1] = t[k]
                 PROVE  t[(k + 1) + 1] = t[k + 1]
      OBVIOUS
    <3>1. k + 1 \in 0 .. n
      OBVIOUS
    <3>2. t[(k + 1) + 1] = Wider(df, t[k + 1]) /\ t[k + 1] = Wider(df, t[k])
      BY <1>6, <3>1
    <3> QED
      BY <3>2
  <2> QED
    BY <1>6, <2>1, <2>2, ChainStops
<1> DEFINE after == CHOOSE a : a = [i \in 0 .. n |-> IF i = 0 THEN defs ELSE Wider(df, a[i - 1])]
           u == [i \in 0 .. n |-> t[i]]
<1>8. u = [i \in 0 .. n |-> IF i = 0 THEN defs ELSE Wider(df, u[i - 1])]
  <2>1. \A i \in 0 .. n : u[i] = IF i = 0 THEN defs ELSE Wider(df, u[i - 1])
    <3> SUFFICES ASSUME NEW i \in 0 .. n
                 PROVE  u[i] = IF i = 0 THEN defs ELSE Wider(df, u[i - 1])
      OBVIOUS
    <3>1. CASE i = 0
      BY <1>5, <3>1
    <3>2. CASE i # 0
      <4>1. i \in 1 .. m /\ i - 1 \in 0 .. n
        BY <3>2
      <4> QED
        BY <1>5, <3>2, <4>1
    <3> QED
      BY <3>1, <3>2
  <2> HIDE DEF u
  <2>2. u = [i \in 0 .. n |-> u[i]]
    BY DEF u
  <2> QED
    BY <2>1, <2>2
<1>9. after = [i \in 0 .. n |-> IF i = 0 THEN defs ELSE Wider(df, after[i - 1])]
  <2> HIDE DEF u
  <2> QED
    BY <1>8
<1>10. after[n] = t[n]
  <2> HIDE DEF after
  <2>1. after[0] = t[0]
    <3>1. 0 \in 0 .. n
      OBVIOUS
    <3> QED
      BY <1>5, <1>9, <3>1
  <2>2. \A i \in 1 .. n : after[i - 1] = t[i - 1] => after[i] = t[i]
    <3> SUFFICES ASSUME NEW i \in 1 .. n, after[i - 1] = t[i - 1]
                 PROVE  after[i] = t[i]
      OBVIOUS
    <3>1. i \in 0 .. n /\ i # 0 /\ i \in 1 .. m
      OBVIOUS
    <3>2. after[i] = Wider(df, after[i - 1])
      BY <1>9, <3>1
    <3> QED
      BY <1>5, <3>1, <3>2
  <2> QED
    BY <2>1, <2>2, TablesMeet
<1>11. PhiBlocks(df, defs) = UNION {df[b] : b \in after[n]}
  BY <1>0, Zenon DEF PhiBlocks, Loop, Wider
<1> HIDE DEF after
<1>12. defs \subseteq t[n]
  <2> DEFINE Good == {k \in Nat : k <= n => defs \subseteq t[k]}
  <2>1. 0 \in Good
    BY <1>5
  <2>2. ASSUME NEW k \in Nat, k \in Good
        PROVE  k + 1 \in Good
    <3> SUFFICES ASSUME k + 1 <= n
                 PROVE  defs \subseteq t[k + 1]
      OBVIOUS
    <3>1. k \in 0 .. n
      OBVIOUS
    <3>2. defs \subseteq t[k]
      BY <2>2, <3>1
    <3> QED
      BY <1>6, <3>1, <3>2
  <2>3. Nat \subseteq Good
    <3> HIDE DEF Good
    <3> QED
      BY <2>1, <2>2, NumbersInduct, Zenon
  <2> QED
    BY <2>3
<1>13. n \in 0 .. n /\ t[n] = Wider(df, t[n]) /\ t[n] \subseteq 1 .. n
  BY <1>5, <1>6, <1>7
<1>14. PhiBlocks(df, defs) \subseteq t[n] /\ \A x \in t[n] : df[x] \subseteq PhiBlocks(df, defs)
  BY <1>10, <1>11, <1>13 DEF Wider
<1>15. PhiBlocks(df, defs) \subseteq UNION {df[b] : b \in 1 .. n}
  BY <1>10, <1>11, <1>13
<1>16. PhiBlocks(df, defs) \subseteq 1 .. n
  BY <1>13, <1>14
<1> QED
  BY <1>12, <1>14, <1>15, <1>16

\* Dominators lead up to the entry, to smaller and smaller places.
Descends(g, n, d, place) ==
  /\ n \in Nat \ {0} /\ d \in [1 .. n -> (1 .. n) \cup {None}] /\ d[EntryBlock] = EntryBlock
  /\ Reached(g) \subseteq 1 .. n
  /\ \A x \in Reached(g) : place[x] \in 1 .. n
  /\ \A x \in Reached(g) \ {EntryBlock} :
       d[x] \in Reached(g) /\ d[x] # x /\ place[d[x]] < place[x] /\ Dominates(g, d[x], x)

\* The dominators that are found do.
LEMMA DominatorsDescend ==
  ASSUME NEW g, NEW n, IsGraph(g, n)
  PROVE  /\ IsImmediate(g, n, Dominators(g))
         /\ Descends(g, n, Dominators(g), Places(g, ReversePostorder(g)))
<1> DEFINE d == Dominators(g)
           rpo == ReversePostorder(g)
           place == Places(g, rpo)
<1>1. n \in Nat \ {0} /\ IsOrder(g, n, rpo) /\ IsImmediate(g, n, d)
  BY OrderFound, DominatorsFound DEF IsGraph
<1>2. d \in [1 .. n -> (1 .. n) \cup {None}] /\ d[EntryBlock] = EntryBlock
  BY <1>1 DEF IsImmediate
<1>3. /\ Len(rpo) \in Nat /\ \A i \in 1 .. Len(rpo) : rpo[i] \in 1 .. n /\ rpo[i] \in Reached(g)
      /\ \A i \in 1 .. Len(rpo) : place[rpo[i]] = i
      /\ \A b \in Reached(g) : \E i \in 1 .. Len(rpo) : b = rpo[i]
  BY <1>1, PlacesInOrder
<1> HIDE DEF rpo, place, d
<1>4. Len(rpo) <= n
  <2> DEFINE L == Len(rpo)
             A == 1 .. L
             B == 1 .. n
             f == [i \in A |-> rpo[i]]
  <2>1. f \in [A -> B]
    BY <1>3
  <2>2. \A i, j \in A : f[i] = f[j] => i = j
    BY <1>1 DEF IsOrder
  <2>3. L \in Nat /\ 1 \in Int /\ n \in Int /\ L \in Int
    BY <1>1, <1>3
  <2>4. IsFiniteSet(B) /\ Cardinality(B) = n /\ Cardinality(A) = L
    <3> HIDE DEF L
    <3>1. n \in Nat
      BY <1>1
    <3>2. IsFiniteSet(B) /\ Cardinality(B) = n
      BY <2>3, <3>1, FS_Interval
    <3>3. Cardinality(A) = L
      BY <2>3, FS_Interval
    <3> QED
      BY <3>2, <3>3
  <2>5. DOMAIN f = A
    OBVIOUS
  <2> HIDE DEF A, B, f
  <2>6. f \in Injection(A, B)
    BY <2>1, <2>2, <2>5 DEF Injection, IsInjective
  <2>7. Cardinality(A) <= Cardinality(B)
    BY <2>4, <2>6, FS_Injection
  <2> QED
    BY <2>4, <2>7
<1>5. ASSUME NEW x \in Reached(g)
      PROVE  x \in 1 .. n /\ place[x] \in 1 .. n
  BY <1>1, <1>3, <1>4
<1>6. ASSUME NEW x \in Reached(g) \ {EntryBlock}
      PROVE  d[x] \in Reached(g) /\ d[x] # x /\ place[d[x]] < place[x] /\ Dominates(g, d[x], x)
  <2>1. x \in (1 .. n) \ {EntryBlock} /\ x \in Reached(g)
    BY <1>5
  <2>2. d[x] \in Above(g, x)
    BY <1>1, <2>1 DEF IsImmediate
  <2>3. d[x] \in Reached(g) /\ d[x] # x /\ Dominates(g, d[x], x)
    BY <2>2 DEF Above
  <2>4. place[d[x]] < place[x]
    BY <1>1, <2>1, <2>3, DominatorFirst DEF place
  <2> QED
    BY <2>3, <2>4
<1>7. Descends(g, n, d, place)
  BY <1>1, <1>2, <1>5, <1>6 DEF Descends
<1> QED
  BY <1>1, <1>7 DEF d, rpo, place

\* The next block a runner comes to.
StepUp(d, stop, w) ==
  IF w.runner \in {stop, None} THEN w
  ELSE [runner |-> IF d[w.runner] = w.runner THEN None ELSE d[w.runner],
        passed |-> w.passed \cup {w.runner}]

\* From a block all are passed, up to the one to stop at.
Passing(d, p, stop, w) ==
  /\ p \in w.passed \/ w.runner = p
  /\ \A x \in w.passed : d[x] \in {x, stop, None, w.runner} \cup w.passed

\* Runners passes a block and its dominators, up to where it is to stop.
LEMMA RunnersPass ==
  ASSUME NEW g, NEW n, NEW d, NEW place, Descends(g, n, d, place), NEW p \in Reached(g), NEW stop
  PROVE  LET R == Runners(d, p, stop) IN
         /\ R \subseteq Reached(g)
         /\ p # stop => p \in R
         /\ \A x \in R : d[x] \in {x, stop} \cup R
<1> DEFINE K == Reached(g)
           D == [runner : K \cup {None}, passed : SUBSET K]
           Fine(w, i) == /\ Passing(d, p, stop, w)
                         /\ w.runner \in {stop, None} \/ place[w.runner] + i <= n
           S == [i \in 0 .. n |-> {w \in D : Fine(w, i)}]
           f == [i \in 1 .. n |-> [w \in D |-> StepUp(d, stop, w)]]
           first == [runner |-> p, passed |-> {}]
<1>0. /\ n \in Nat /\ K \subseteq 1 .. n /\ d[EntryBlock] = EntryBlock
      /\ \A x \in K : place[x] \in 1 .. n
      /\ \A x \in K \ {EntryBlock} : d[x] \in K /\ place[d[x]] < place[x]
      /\ None \notin K
  <2>1. None \notin 1 .. n
    BY NoneAssumption
  <2> QED
    BY <2>1 DEF Descends
<1>1. first \in D /\ Fine(first, 0) /\ first \in S[0]
  <2>1. first \in D
    OBVIOUS
  <2>2. Passing(d, p, stop, first)
    BY DEF Passing
  <2>3. Fine(first, 0)
    BY <1>0, <2>2
  <2>4. 0 \in 0 .. n
    BY <1>0
  <2> QED
    BY <2>1, <2>3, <2>4
<1>2. ASSUME NEW i \in 1 .. n, NEW w \in D, Fine(w, i - 1)
      PROVE  StepUp(d, stop, w) \in D /\ Fine(StepUp(d, stop, w), i)
  <2> DEFINE r == w.runner
             u == IF d[r] = r THEN None ELSE d[r]
             v == [runner |-> u, passed |-> w.passed \cup {r}]
  <2>1. CASE r \in {stop, None}
    <3>1. StepUp(d, stop, w) = w
      BY <2>1 DEF StepUp
    <3>2. Fine(w, i)
      BY <1>2, <2>1
    <3> QED
      BY <3>1, <3>2
  <2>2. CASE r \notin {stop, None}
    <3>1. StepUp(d, stop, w) = v /\ v.runner = u /\ v.passed = w.passed \cup {r}
      BY <2>2 DEF StepUp
    <3>2. r \in K /\ d[r] \in K /\ place[r] + (i - 1) <= n
      BY <1>0, <1>2, <2>2
    <3>3. v \in D
      BY <3>2
    <3>4. u = None \/ place[u] + i <= n
      <4>1. CASE r = EntryBlock
        BY <1>0, <4>1
      <4>2. CASE r # EntryBlock
        <5>1. place[d[r]] < place[r] /\ place[d[r]] \in Int /\ place[r] \in Int
          BY <1>0, <3>2, <4>2
        <5>2. place[d[r]] + i <= n
          BY <1>0, <3>2, <5>1
        <5> QED
          BY <5>2
      <4> QED
        BY <4>1, <4>2
    <3>5. Passing(d, p, stop, v)
      <4>1. p \in v.passed \/ v.runner = p
        BY <1>2, <3>1 DEF Passing
      <4>2. ASSUME NEW x \in v.passed
            PROVE  d[x] \in {x, stop, None, v.runner} \cup v.passed
        <5>1. CASE x = r
          BY <3>1, <5>1
        <5>2. CASE x # r
          BY <1>2, <3>1, <4>2, <5>2 DEF Passing
        <5> QED
          BY <5>1, <5>2
      <4> QED
        BY <4>1, <4>2 DEF Passing
    <3> HIDE DEF v, u
    <3> QED
      BY <3>1, <3>3, <3>4, <3>5
  <2> QED
    BY <2>1, <2>2
<1>3. ASSUME NEW i \in 1 .. n, NEW w \in S[i - 1]
      PROVE  f[i][w] \in S[i] /\ f[i][w] = StepUp(d, stop, w)
  <2>1. i \in 0 .. n /\ i - 1 \in 0 .. n
    BY <1>0
  <2> HIDE DEF D, Fine
  <2>2. w \in D /\ Fine(w, i - 1)
    BY <2>1
  <2>3. StepUp(d, stop, w) \in D /\ Fine(StepUp(d, stop, w), i)
    BY <1>2, <2>2
  <2> QED
    BY <2>1, <2>2, <2>3
<1>4. PICK t : Tables(t, n, S, first, f)
  <2>1. Leads(n, S, first, f)
    <3> HIDE DEF S, f, first
    <3> QED
      BY <1>0, <1>1, <1>3 DEF Leads
  <2> HIDE DEF S, f, first
  <2> QED
    BY <2>1, TableOfSteps
<1>5. /\ t[0] = first /\ t = [i \in 0 .. n |-> t[i]]
      /\ t[n] \in S[n]
      /\ \A i \in 1 .. n : t[i] = StepUp(d, stop, t[i - 1])
  <2>1. ASSUME NEW i \in 1 .. n
        PROVE  t[i] = StepUp(d, stop, t[i - 1])
    <3>1. i - 1 \in 0 .. n
      BY <1>0
    <3> HIDE DEF S, f
    <3>2. t[i - 1] \in S[i - 1] /\ t[i] = f[i][t[i - 1]]
      BY <1>4, <3>1 DEF Tables
    <3> QED
      BY <1>3, <3>2
  <2>2. n \in 0 .. n
    BY <1>0
  <2> HIDE DEF S, f, first
  <2> QED
    BY <1>4, <2>1, <2>2 DEF Tables, IsTable
<1>6. t[n] \in D /\ Fine(t[n], n)
  <2>1. n \in 0 .. n
    BY <1>0
  <2> HIDE DEF D, Fine
  <2> QED
    BY <1>5, <2>1
<1> HIDE DEF S, f
<1> DEFINE after == CHOOSE a : a = [i \in 0 .. n |-> IF i = 0 THEN first ELSE StepUp(d, stop, a[i - 1])]
<1>7. t = [i \in 0 .. n |-> IF i = 0 THEN first ELSE StepUp(d, stop, t[i - 1])]
  <2> HIDE DEF first
  <2>1. \A i \in 0 .. n : t[i] = IF i = 0 THEN first ELSE StepUp(d, stop, t[i - 1])
    <3>1. \A i \in 0 .. n : i = 0 \/ i \in 1 .. n
      BY <1>0
    <3> QED
      BY <1>5, <3>1
  <2> QED
    BY <1>5, <2>1
<1>8. after = [i \in 0 .. n |-> IF i = 0 THEN first ELSE StepUp(d, stop, after[i - 1])]
  <2> HIDE DEF first
  <2> QED
    BY <1>7
<1>9. after[n] = t[n]
  <2> HIDE DEF after, first
  <2>1. after[0] = t[0] /\ \A i \in 1 .. n : after[i] = StepUp(d, stop, after[i - 1])
    <3>1. 0 \in 0 .. n /\ \A i \in 1 .. n : i \in 0 .. n /\ i # 0
      BY <1>0
    <3> QED
      BY <1>5, <1>8, <3>1
  <2>2. \A i \in 1 .. n : after[i - 1] = t[i - 1] => after[i] = t[i]
    BY <1>5, <2>1
  <2> QED
    BY <1>0, <2>1, <2>2, TablesMeet
<1>10. Cardinality(DOMAIN d) = n
  <2>1. DOMAIN d = 1 .. n /\ 1 \in Int /\ n \in Int
    BY <1>0 DEF Descends
  <2> QED
    BY <1>0, <2>1, FS_Interval
<1>11. Runners(d, p, stop) = after[n].passed
  BY <1>10, Zenon DEF Runners, Loop, StepUp
<1> DEFINE R == t[n].passed
<1>12. R \subseteq K /\ t[n].runner \in {stop, None}
  <2>1. t[n].runner \in K \cup {None}
    BY <1>6
  <2>2. t[n].runner \in K => place[t[n].runner] + n > n
    BY <1>0
  <2>3. t[n].runner \in {stop, None} \/ place[t[n].runner] + n <= n
    BY <1>6
  <2>4. R \subseteq K
    BY <1>6
  <2> QED
    BY <1>0, <2>1, <2>2, <2>3, <2>4
<1>13. Passing(d, p, stop, t[n])
  BY <1>6
<1>14. p # stop => p \in R
  BY <1>0, <1>12, <1>13 DEF Passing
<1>15. ASSUME NEW x \in R
       PROVE  d[x] \in {x, stop} \cup R
  <2>1. d[x] \in K
    BY <1>0, <1>12, <1>15
  <2>2. d[x] \in {x, stop, None, t[n].runner} \cup R
    BY <1>13, <1>15 DEF Passing
  <2> QED
    BY <1>0, <1>12, <2>1, <2>2
<1> QED
  BY <1>9, <1>11, <1>12, <1>14, <1>15

\* A path comes to a block from another one.
LEMMA HasWayIn ==
  ASSUME NEW g, NEW n, IsGraph(g, n), NEW without, NEW c \in Closure(g, without), c # EntryBlock
  PROVE  \E p \in Closure(g, without) : p # c /\ c \in ToSet(g.succ[p])
<1> DEFINE C == Closure(g, without)
           X == C \ {c}
<1>1. EntryBlock \in C /\ Further(g, C, without) = C
      /\ \A Y : EntryBlock \in Y /\ Further(g, Y, without) \subseteq Y => C \subseteq Y
  BY ClosureSpec
<1> HIDE DEF C
<1> SUFFICES ASSUME \A p \in X : c \notin ToSet(g.succ[p])
             PROVE  FALSE
  BY DEF C
<1>2. Further(g, X, without) \subseteq X
  BY <1>1 DEF Further
<1>3. EntryBlock \in X
  BY <1>1
<1>4. C \subseteq X
  BY <1>1, <1>2, <1>3
<1> QED
  BY <1>4 DEF C

\* A block that is led to from one block only has it as its dominator.
LEMMA OnlyWayIn ==
  ASSUME NEW g, NEW n, IsGraph(g, n), NEW d, NEW place, IsImmediate(g, n, d), Descends(g, n, d, place),
         NEW b \in Reached(g), NEW c, c # EntryBlock, Predecessors(g, c) = {b}, c \in ToSet(g.succ[b])
  PROVE  d[c] = b
<1>0. /\ c \in Reached(g) /\ Reached(g) \subseteq 1 .. n /\ Blocks(g) = 1 .. n
      /\ \A W : Closure(g, W) \subseteq 1 .. n
  BY ReachedOn, Edges, ClosureSpec
<1>1. ASSUME NEW W, c \in Closure(g, W)
      PROVE  b \in Closure(g, W) /\ b # c
  <2>1. PICK p \in Closure(g, W) : p # c /\ c \in ToSet(g.succ[p])
    BY <1>1, HasWayIn
  <2>2. p \in Predecessors(g, c)
    BY <1>0, <2>1 DEF Predecessors
  <2> QED
    BY <2>1, <2>2
<1>2. b # c
  BY <1>0, <1>1 DEF Reached
<1>3. Dominates(g, b, c)
  <2> SUFFICES ASSUME b # EntryBlock, c \in Closure(g, {b})
               PROVE  FALSE
    BY DEF Dominates
  <2>1. b \in Closure(g, {b})
    BY <1>1
  <2> QED
    BY <2>1, AvoidedNotIn
<1>4. c \in (1 .. n) \ {EntryBlock} /\ d[c] \in Above(g, c) /\ \A x \in Above(g, c) : Dominates(g, x, d[c])
  BY <1>0 DEF IsImmediate
<1>5. Dominates(g, b, d[c])
  BY <1>2, <1>3, <1>4 DEF Above
<1>6. d[c] \in Reached(g) /\ d[c] # c /\ Dominates(g, d[c], c)
  BY <1>4 DEF Above
<1>7. Dominates(g, d[c], b)
  BY <1>0, <1>6, DominatesBefore
<1> QED
  BY <1>5, <1>6, <1>7, DominatesOneWay

\* The frontiers and the places of phis are blocks.
LEMMA PhiPlaces ==
  ASSUME NEW g, NEW n, IsGraph(g, n), NEW v \in Vars
  PROVE  /\ PhiPlacement(g, Vars) = [w \in Vars |-> PhiBlocks(DominanceFrontiers(g), DefBlocks(g, w))]
         /\ PhiPlacement(g, Vars)[v] = PhiBlocks(DominanceFrontiers(g), DefBlocks(g, v))
         /\ PhiPlacement(g, Vars)[v] \subseteq UNION {DominanceFrontiers(g)[b] : b \in 1 .. n}
         /\ PhiPlacement(g, Vars)[v] \subseteq 1 .. n
         /\ \A x \in DefBlocks(g, v) \cup PhiPlacement(g, Vars)[v] :
              DominanceFrontiers(g)[x] \subseteq PhiPlacement(g, Vars)[v]
<1> DEFINE df == DominanceFrontiers(g)
           defs == DefBlocks(g, v)
<1>1. Blocks(g) = 1 .. n /\ n \in Nat
  BY Edges DEF IsGraph
<1>2. df \in [1 .. n -> SUBSET (1 .. n)]
  BY <1>1 DEF DominanceFrontiers
<1>3. defs \in SUBSET (1 .. n)
  BY <1>1 DEF DefBlocks
<1>4. PhiPlacement(g, Vars) = [w \in Vars |-> PhiBlocks(DominanceFrontiers(g), DefBlocks(g, w))]
  BY DEF PhiPlacement
<1>5. PhiPlacement(g, Vars)[v] = PhiBlocks(df, defs)
  BY <1>4
<1> HIDE DEF df, defs
<1>6. /\ PhiBlocks(df, defs) \subseteq UNION {df[b] : b \in 1 .. n}
      /\ PhiBlocks(df, defs) \subseteq 1 .. n
      /\ \A x \in defs \cup PhiBlocks(df, defs) : df[x] \subseteq PhiBlocks(df, defs)
  BY <1>1, <1>2, <1>3, PhisClosed
<1> QED
  BY <1>4, <1>5, <1>6 DEF df, defs

\* What is so of a variable at a block's end, and is kept by every block with
\* neither a definition of it nor a phi.
Carried(g, d, v, e) ==
  \A x \in Reached(g) \ {EntryBlock} :
    x \notin DefBlocks(g, v) /\ x \notin PhiPlacement(g, Vars)[v] => e[x] = e[d[x]]

\* A way up to a block, and what every block of it keeps.
Upwards(g, d, e, stop, R) ==
  /\ R \subseteq Reached(g)
  /\ \A x \in R : d[x] \in {x, stop} \cup R
  /\ \A x \in R \ {EntryBlock} : e[x] = e[d[x]]

\* It holds at its end.
LEMMA KeptUpTo ==
  ASSUME NEW g, NEW n, IsGraph(g, n), NEW d, NEW place, IsImmediate(g, n, d), Descends(g, n, d, place),
         NEW stop \in Reached(g), NEW R, NEW e, Upwards(g, d, e, stop, R),
         NEW b \in R, Dominates(g, stop, b)
  PROVE  e[b] = e[stop]
<1>0. /\ R \subseteq Reached(g)
      /\ \A x \in R : d[x] \in {x, stop} \cup R
      /\ \A x \in R \ {EntryBlock} : e[x] = e[d[x]]
  BY DEF Upwards
<1>1. /\ Reached(g) \subseteq 1 .. n /\ n \in Nat
      /\ \A x \in Reached(g) : place[x] \in 1 .. n
      /\ \A x \in Reached(g) \ {EntryBlock} :
           d[x] \in Reached(g) /\ d[x] # x /\ place[d[x]] < place[x]
  BY DEF Descends
<1> DEFINE Same(r) == Dominates(g, stop, r) /\ r # stop => e[r] = e[stop]
           Good == {k \in Nat : \A r \in R : place[r] <= k => Same(r)}
<1>2. 0 \in Good
  <2>1. \A r \in R : place[r] \in 1 .. n
    BY <1>0, <1>1
  <2> QED
    BY <2>1
<1>3. ASSUME NEW k \in Nat, k \in Good
      PROVE  k + 1 \in Good
  <2> SUFFICES ASSUME NEW r \in R, place[r] <= k + 1, Dominates(g, stop, r), r # stop
               PROVE  e[r] = e[stop]
    OBVIOUS
  <2>1. r # EntryBlock
    BY DominatesEntry
  <2>2. r \in Reached(g) \ {EntryBlock} /\ r \in (1 .. n) \ {EntryBlock}
    BY <1>0, <1>1, <2>1
  <2>3. stop \in Above(g, r)
    BY <1>0 DEF Above
  <2>4. Dominates(g, stop, d[r])
    BY <2>2, <2>3 DEF IsImmediate
  <2>5. d[r] \in Reached(g) /\ d[r] # r /\ place[d[r]] < place[r]
    BY <1>1, <2>2
  <2>6. e[r] = e[d[r]]
    BY <1>0, <2>1
  <2>7. CASE d[r] = stop
    BY <2>6, <2>7
  <2>8. CASE d[r] # stop
    <3>1. d[r] \in R
      BY <1>0, <2>5, <2>8
    <3>2. place[d[r]] <= k
      <4>1. place[d[r]] \in 1 .. n /\ place[r] \in 1 .. n
        BY <1>0, <1>1, <2>5
      <4> QED
        BY <2>5, <4>1
    <3>3. e[d[r]] = e[stop]
      BY <1>3, <2>4, <2>8, <3>1, <3>2
    <3> QED
      BY <2>6, <3>3
  <2> QED
    BY <2>7, <2>8
<1>4. Nat \subseteq Good
  <2> HIDE DEF Good
  <2> QED
    BY <1>2, <1>3, NumbersInduct, Zenon
<1>5. n \in Good /\ place[b] <= n
  <2> HIDE DEF Good
  <2>1. b \in Reached(g) /\ n \in Nat /\ place[b] \in 1 .. n
    BY <1>0, <1>1
  <2> QED
    BY <1>4, <2>1
<1> QED
  BY <1>5

\* Where a variable has no phi, what holds at the end of a block that leads
\* there holds at the end of the dominator: no definition is between.
LEMMA NothingBetween ==
  ASSUME NEW g, NEW n, IsGraph(g, n), NEW v \in Vars, NEW e, Carried(g, Dominators(g), v, e),
         NEW b \in Reached(g), NEW c \in ToSet(g.succ[b]), c # EntryBlock,
         c \notin PhiPlacement(g, Vars)[v]
  PROVE  e[b] = e[Dominators(g)[c]]
<1> DEFINE d == Dominators(g)
           place == Places(g, ReversePostorder(g))
           stop == d[c]
           R == Runners(d, b, stop)
           phis == PhiPlacement(g, Vars)[v]
           df == DominanceFrontiers(g)
<1>1. IsImmediate(g, n, d) /\ Descends(g, n, d, place)
  BY DominatorsDescend
<1>2. /\ c \in Reached(g) /\ Reached(g) \subseteq 1 .. n /\ Blocks(g) = 1 .. n
      /\ b \in Predecessors(g, c)
  BY ReachedOn, Edges DEF Predecessors
<1>3. Carried(g, d, v, e) /\ c \notin phis
  OBVIOUS
<1>4. \A x \in DefBlocks(g, v) \cup phis : df[x] \subseteq phis
  BY PhiPlaces
<1>5. df = [x \in Blocks(g) |->
        {y \in {z \in Blocks(g) : Cardinality(Predecessors(g, z)) >= 2} :
           \E p \in Predecessors(g, y) : x \in Runners(d, p, d[y])}]
  BY DEF DominanceFrontiers
<1> SUFFICES e[b] = e[stop]
  OBVIOUS
<1> HIDE DEF d, place, df, phis
<1>6. stop \in Reached(g) /\ stop # c /\ Dominates(g, stop, c)
  BY <1>1, <1>2 DEF Descends
<1>7. Dominates(g, stop, b)
  <2> HIDE DEF stop
  <2> QED
    BY <1>2, <1>6, DominatesBefore
<1>8. CASE Predecessors(g, c) = {b}
  <2>1. stop = b
    BY <1>1, <1>8, OnlyWayIn
  <2> QED
    BY <2>1
<1>9. CASE Predecessors(g, c) # {b}
  <2>1. Cardinality(Predecessors(g, c)) >= 2
    <3> DEFINE P == Predecessors(g, c)
    <3>1. IsFiniteSet(1 .. n) /\ n \in Nat
      <4>1. n \in Nat /\ 1 \in Int /\ n \in Int
        BY DEF IsGraph
      <4> QED
        BY <4>1, FS_Interval
    <3>2. P \subseteq 1 .. n
      BY <1>2 DEF Predecessors
    <3>3. IsFiniteSet(P) /\ Cardinality(P) \in Nat
      BY <3>1, <3>2, FS_Subset, FS_CardinalityType
    <3>4. {b} \subseteq P /\ {b} # P
      BY <1>2, <1>9
    <3> HIDE DEF P
    <3>5. Cardinality({b}) = 1 /\ Cardinality({b}) <= Cardinality(P) /\ Cardinality({b}) # Cardinality(P)
      BY <3>3, <3>4, FS_Subset, FS_Singleton
    <3> QED
      BY <3>3, <3>5 DEF P
  <2>2. \A r \in R : r \in Blocks(g) => c \in df[r]
    BY <1>2, <1>5, <2>1
  <2> HIDE DEF stop, R
  <2>3. /\ R \subseteq Reached(g)
        /\ b # stop => b \in R
        /\ \A x \in R : d[x] \in {x, stop} \cup R
    <3>1. LET Q == Runners(d, b, stop) IN
         /\ Q \subseteq Reached(g)
         /\ b # stop => b \in Q
         /\ \A x \in Q : d[x] \in {x, stop} \cup Q
      BY <1>1, RunnersPass
    <3> QED
      BY <3>1 DEF R
  <2>4. R \subseteq Reached(g)
    BY <1>6, <1>7, <2>3
  <2>5. ASSUME NEW r \in R \ {EntryBlock}
        PROVE  e[r] = e[d[r]]
    <3>1. c \in df[r]
      BY <1>2, <2>2, <2>4
    <3>2. r \notin DefBlocks(g, v) /\ r \notin phis
      BY <1>3, <1>4, <3>1
    <3>3. \A x \in Reached(g) \ {EntryBlock} : x \notin DefBlocks(g, v) /\ x \notin phis => e[x] = e[d[x]]
      BY <1>3, Zenon DEF Carried, phis
    <3>4. r \in Reached(g) \ {EntryBlock}
      BY <2>4
    <3> QED
      BY <3>2, <3>3, <3>4
  <2>6. CASE b # stop
    <3>1. b \in R
      BY <2>3, <2>6
    <3>2. Upwards(g, d, e, stop, R)
      BY <2>3, <2>4, <2>5 DEF Upwards
    <3> QED
      BY <1>1, <1>6, <1>7, <3>1, <3>2, KeptUpTo
  <2> QED
    BY <2>6
<1> QED
  BY <1>8, <1>9

-----------------------------------------------------------------------------
(* The walk that renames *)

\* A variable in its full width, and no variable.
LEMMA FullWidth ==
  ASSUME NEW v, v \in Vars \cup {None}
  PROVE  /\ Key(v) = v /\ v \notin Parts /\ \A x : Cut(v, x) = x
  BY NamesAssumption DEF Key, Cut, Parts

\* The versions of the variables an operation reads.
NewIns(op, top) ==
  [k \in DOMAIN op.ins |-> IF IsConst(op.ins[k]) THEN op.ins[k]
                           ELSE <<op.ins[k][1], top[Key(op.ins[k][1])]>>]

\* What becomes of the operation in a place, between the versions that are
\* current before it and after it.
Renames(op, new, before, next, i) ==
  /\ new = [opcode |-> op.opcode, ins |-> NewIns(op, before), at |-> i,
            out |-> IF op.out = None THEN None ELSE <<op.out, next[op.out]>>]
  /\ \A v \in Vars : v # op.out => next[v] = before[v]

\* Versions that are current, of those there are.
Current(top, versions) ==
  /\ top \in [Vars -> Nat] /\ versions \in [Vars -> Nat]
  /\ \A v \in Vars : top[v] <= versions[v]

\* No version is taken back.
MoreVersions(old, versions) == \A v \in Vars : old[v] <= versions[v]

\* One operation.
LEMMA OpRenamed ==
  ASSUME NEW walk, NEW op, Current(walk.top, walk.versions), op.out \in Vars \cup {None}
  PROVE  LET w == RenameOp(walk, op)
             new == [opcode |-> op.opcode, ins |-> NewIns(op, walk.top), at |-> Len(walk.ops) + 1,
                     out |-> IF op.out = None THEN None ELSE <<op.out, w.top[op.out]>>]
         IN /\ Current(w.top, w.versions) /\ MoreVersions(walk.versions, w.versions)
            /\ w.ops = Append(walk.ops, new)
            /\ \A v \in Vars : v # op.out => w.top[v] = walk.top[v]
            /\ op.out # None => walk.versions[op.out] < w.top[op.out]
<1> DEFINE w == RenameOp(walk, op)
           v == op.out
           ins == NewIns(op, walk.top)
           key == Key(v)
           number == walk.versions[key] + 1
           top == [walk.top EXCEPT ![key] = number]
           versions == [walk.versions EXCEPT ![key] = number]
           none == [opcode |-> op.opcode, ins |-> ins, at |-> Len(walk.ops) + 1, out |-> None]
           new == [opcode |-> op.opcode, ins |-> ins, at |-> Len(walk.ops) + 1, out |-> <<v, number>>]
<1>1. w = IF v = None THEN [top |-> walk.top, versions |-> walk.versions, ops |-> Append(walk.ops, none)]
          ELSE [top |-> top, versions |-> versions, ops |-> Append(walk.ops, new)]
  BY Zenon DEF RenameOp, NewIns
<1>2. CASE v = None
  <2> HIDE DEF w, none, ins
  <2>1. w.top = walk.top /\ w.versions = walk.versions /\ w.ops = Append(walk.ops, none)
    BY <1>1, <1>2
  <2>2. MoreVersions(walk.versions, w.versions)
    BY <2>1 DEF MoreVersions, Current
  <2> QED
    BY <1>2, <2>1, <2>2 DEF w, none, ins
<1>3. CASE v # None
  <2> HIDE DEF w, new, ins, top, versions
  <2>1. w.top = top /\ w.versions = versions /\ w.ops = Append(walk.ops, new)
    BY <1>1, <1>3
  <2>0. key = v
    BY FullWidth
  <2> HIDE DEF key
  <2>2. v \in Vars /\ number \in Nat /\ walk.versions[v] < number
    BY <1>3, <2>0 DEF Current
  <2> HIDE DEF v, number
  <2>3. /\ top \in [Vars -> Nat] /\ versions \in [Vars -> Nat]
        /\ top[v] = number /\ versions[v] = number
        /\ \A x \in Vars : x # v => top[x] = walk.top[x] /\ versions[x] = walk.versions[x]
    BY <2>0, <2>2 DEF Current, top, versions
  <2>4. Current(top, versions) /\ MoreVersions(walk.versions, versions)
    <3>1. ASSUME NEW x \in Vars
          PROVE  top[x] <= versions[x] /\ walk.versions[x] <= versions[x]
      <4>1. CASE x = v
        BY <2>2, <2>3, <4>1 DEF Current
      <4>2. CASE x # v
        <5>1. top[x] = walk.top[x] /\ versions[x] = walk.versions[x]
          BY <2>3, <4>2
        <5>2. walk.top[x] <= walk.versions[x] /\ walk.versions[x] \in Nat
          BY DEF Current
        <5> QED
          BY <5>1, <5>2
      <4> QED
        BY <4>1, <4>2
    <3> QED
      BY <2>3, <3>1 DEF Current, MoreVersions
  <2>5. new = [opcode |-> op.opcode, ins |-> ins, at |-> Len(walk.ops) + 1,
               out |-> IF op.out = None THEN None ELSE <<op.out, top[op.out]>>]
    BY <1>3, <2>3 DEF new, v
  <2>6. walk.versions[v] < w.top[v]
    BY <2>1, <2>2, <2>3
  <2> QED
    BY <2>1, <2>3, <2>4, <2>5, <2>6 DEF w, ins, v
<1> QED
  BY <1>2, <1>3

\* A block's operations, with the versions that are current before each, and
\* after the last.
BlockRenamed(ops, new, cur) ==
  LET m == Len(ops) IN
  /\ m \in Nat /\ DOMAIN ops = 1 .. m /\ DOMAIN new = 1 .. m
  /\ \A i \in 1 .. m : Renames(ops[i], new[i], cur[i], cur[i + 1], i)

\* The state in which the operations of a block are begun.
Begun(g, b, top, fn) ==
  LET versions == [v \in Vars |-> fn.versions[v] + IF v \in DOMAIN fn.phis[b] THEN 1 ELSE 0]
  IN [top |-> [v \in Vars |-> IF v \in DOMAIN fn.phis[b] THEN versions[v] ELSE top[v]],
      versions |-> versions, ops |-> << >>]

\* The phis come first.
LEMMA PhisBegin ==
  ASSUME NEW g, NEW b, NEW top, NEW fn, Current(top, fn.versions)
  PROVE  LET w == Begun(g, b, top, fn) IN
         /\ Current(w.top, w.versions) /\ MoreVersions(fn.versions, w.versions) /\ w.ops = << >>
         /\ w.top = [v \in Vars |-> IF v \in DOMAIN fn.phis[b] THEN fn.versions[v] + 1 ELSE top[v]]
<1> DEFINE P == DOMAIN fn.phis[b]
           old == fn.versions
           versions == [v \in Vars |-> old[v] + IF v \in P THEN 1 ELSE 0]
           first == [v \in Vars |-> IF v \in P THEN versions[v] ELSE top[v]]
           given == [v \in Vars |-> IF v \in P THEN old[v] + 1 ELSE top[v]]
           w == Begun(g, b, top, fn)
<1>1. w = [top |-> first, versions |-> versions, ops |-> << >>]
  BY Zenon DEF Begun
<1>2. Current(top, old)
  OBVIOUS
<1> HIDE DEF P, old
<1>3. /\ versions \in [Vars -> Nat] /\ first \in [Vars -> Nat] /\ first = given
      /\ \A v \in Vars : first[v] <= versions[v] /\ old[v] <= versions[v]
  <2>1. \A v \in Vars : old[v] \in Nat /\ top[v] \in Nat /\ top[v] <= old[v]
    BY <1>2 DEF Current
  <2>2. ASSUME NEW v \in Vars
        PROVE  /\ versions[v] \in Nat /\ first[v] \in Nat /\ first[v] <= versions[v] /\ old[v] <= versions[v]
               /\ first[v] = IF v \in P THEN old[v] + 1 ELSE top[v]
    <3>1. CASE v \in P
      <4>1. versions[v] = old[v] + 1 /\ first[v] = versions[v]
        BY <3>1
      <4> HIDE DEF versions, first
      <4> QED
        BY <2>1, <3>1, <4>1
    <3>2. CASE v \notin P
      <4>1. versions[v] = old[v] + 0 /\ first[v] = top[v]
        BY <3>2
      <4> HIDE DEF versions, first
      <4> QED
        BY <2>1, <3>2, <4>1
    <3> QED
      BY <3>1, <3>2
  <2>3. versions = [v \in Vars |-> versions[v]] /\ first = [v \in Vars |-> first[v]]
    OBVIOUS
  <2> HIDE DEF versions, first
  <2> QED
    BY <2>2, <2>3
<1> HIDE DEF versions, first
<1>4. w.top = first /\ w.versions = versions /\ w.ops = << >>
  <2> HIDE DEF w
  <2> QED
    BY <1>1
<1>5. Current(w.top, w.versions) /\ MoreVersions(old, w.versions)
  BY <1>3, <1>4 DEF Current, MoreVersions
<1> QED
  BY <1>3, <1>4, <1>5 DEF w, given, P, old

\* The versions the operations define go up.
Numbers(ops, first, cur) ==
  \A i \in 1 .. Len(ops) : ops[i].out # None =>
    /\ first[ops[i].out] < cur[i + 1][ops[i].out]
    /\ \A j \in 1 .. i - 1 : cur[j + 1][ops[i].out] < cur[i + 1][ops[i].out]

\* Its operations in their order.
LEMMA OpsRenamed ==
  ASSUME NEW g, NEW b, NEW T, g.ops[b] \in Seq(T), \A op \in T : op.out \in Vars \cup {None},
         NEW top, NEW fn, Current(top, fn.versions)
  PROVE  LET done == RenameOps(g, b, top, fn)
             m == Len(g.ops[b])
         IN \E cur :
              /\ BlockRenamed(g.ops[b], done.ops, cur)
              /\ \A k \in 1 .. m + 1 : Current(cur[k], done.versions)
              /\ cur[1] = [v \in Vars |-> IF v \in DOMAIN fn.phis[b] THEN fn.versions[v] + 1 ELSE top[v]]
              /\ cur[m + 1] = done.top
              /\ MoreVersions(fn.versions, done.versions)
              /\ Numbers(g.ops[b], Begun(g, b, top, fn).versions, cur)
<1> DEFINE ops == g.ops[b]
           m == Len(ops)
           start == Begun(g, b, top, fn)
           Made(t, k) == /\ t = [i \in 0 .. k |-> t[i]] /\ t[0] = start
                         /\ \A i \in 1 .. k : t[i] = RenameOp(t[i - 1], ops[i])
           Good == {k \in Nat : \E t : Made(t, k)}
<1>0. m \in Nat /\ DOMAIN ops = 1 .. m /\ \A i \in 1 .. m : ops[i].out \in Vars \cup {None}
  <2>1. ops \in Seq(T)
    OBVIOUS
  <2> HIDE DEF ops
  <2> QED
    BY <2>1
<1> HIDE DEF ops, start
<1>1. 0 \in Good
  <2> DEFINE t == [i \in 0 .. 0 |-> start]
  <2>1. Made(t, 0)
    OBVIOUS
  <2> QED
    BY <2>1
<1>2. ASSUME NEW k \in Nat, k \in Good
      PROVE  k + 1 \in Good
  <2>1. PICK t : Made(t, k)
    BY <1>2
  <2> DEFINE last == RenameOp(t[k], ops[k + 1])
             u == [i \in 0 .. k + 1 |-> IF i = k + 1 THEN last ELSE t[i]]
  <2> HIDE DEF last
  <2>2. u[0] = start /\ u = [i \in 0 .. k + 1 |-> u[i]]
    <3>1. 0 \in 0 .. k + 1 /\ 0 # k + 1
      OBVIOUS
    <3>2. t[0] = start
      BY <2>1
    <3>3. u[0] = t[0]
      BY <3>1
    <3>4. u = [i \in 0 .. k + 1 |-> u[i]]
      OBVIOUS
    <3> HIDE DEF u
    <3> QED
      BY <3>2, <3>3, <3>4
  <2>3. ASSUME NEW i \in 1 .. k + 1
        PROVE  u[i] = RenameOp(u[i - 1], ops[i])
    <3>1. CASE i = k + 1
      <4>1. u[i] = last /\ u[i - 1] = t[k]
        BY <3>1
      <4> QED
        BY <3>1, <4>1, Zenon DEF last
    <3>2. CASE i # k + 1
      <4>1. i \in 1 .. k /\ u[i] = t[i] /\ u[i - 1] = t[i - 1]
        BY <3>2
      <4> HIDE DEF u
      <4> QED
        BY <2>1, <4>1
    <3> QED
      BY <3>1, <3>2
  <2> HIDE DEF u
  <2>4. Made(u, k + 1)
    BY <2>2, <2>3
  <2>5. k + 1 \in Nat
    OBVIOUS
  <2>6. \E x : Made(x, k + 1)
    BY <2>4, Zenon
  <2> HIDE DEF Made
  <2> QED
    BY <2>5, <2>6
<1>3. PICK t : Made(t, m)
  <2>1. m \in Good
    <3> HIDE DEF Good
    <3> QED
      BY <1>0, <1>1, <1>2, NumbersInduct, Zenon
  <2> QED
    BY <2>1
<1> HIDE DEF m
<1> DEFINE after == CHOOSE a : a = [i \in 0 .. m |-> IF i = 0 THEN start ELSE RenameOp(a[i - 1], ops[i])]
<1>4. t = [i \in 0 .. m |-> IF i = 0 THEN start ELSE RenameOp(t[i - 1], ops[i])]
  <2>1. \A i \in 0 .. m : t[i] = IF i = 0 THEN start ELSE RenameOp(t[i - 1], ops[i])
    <3>1. \A i \in 0 .. m : i = 0 \/ i \in 1 .. m
      BY <1>0
    <3> QED
      BY <1>3, <3>1
  <2> QED
    BY <1>3, <2>1
<1>5. after = [i \in 0 .. m |-> IF i = 0 THEN start ELSE RenameOp(after[i - 1], ops[i])]
  BY <1>4
<1>6. after[m] = t[m]
  <2> HIDE DEF after
  <2>1. after[0] = t[0] /\ \A i \in 1 .. m : after[i] = RenameOp(after[i - 1], ops[i])
    <3>1. 0 \in 0 .. m /\ \A i \in 1 .. m : i \in 0 .. m /\ i # 0
      BY <1>0
    <3> QED
      BY <1>3, <1>5, <3>1
  <2>2. \A i \in 1 .. m : after[i - 1] = t[i - 1] => after[i] = t[i]
    BY <1>3, <2>1
  <2> QED
    BY <1>0, <2>1, <2>2, TablesMeet
<1>7. RenameOps(g, b, top, fn) = after[m]
  BY Zenon DEF RenameOps, Loop, Begun, start, ops, m
<1> HIDE DEF after
<1> DEFINE R(i) == [opcode |-> ops[i].opcode, ins |-> NewIns(ops[i], t[i - 1].top), at |-> i,
                    out |-> IF ops[i].out = None THEN None ELSE <<ops[i].out, t[i].top[ops[i].out]>>]
           r == [i \in 1 .. m |-> R(i)]
           X == {r[i] : i \in 1 .. m}
           Fine(i) == /\ Current(t[i].top, t[i].versions)
                      /\ t[i].ops = [j \in 1 .. i |-> r[j]]
                      /\ MoreVersions(fn.versions, t[i].versions)
           All == {i \in Nat : i <= m => Fine(i)}
<1>8. /\ Current(start.top, start.versions) /\ MoreVersions(fn.versions, start.versions) /\ start.ops = << >>
      /\ start.top = [v \in Vars |-> IF v \in DOMAIN fn.phis[b] THEN fn.versions[v] + 1 ELSE top[v]]
  BY PhisBegin DEF start
<1>9. \A i \in 1 .. m : r[i] = R(i) /\ r[i] \in X
  OBVIOUS
<1> HIDE DEF r, X
<1>10. 0 \in All
  <2>1. << >> = [j \in 1 .. 0 |-> r[j]]
    OBVIOUS
  <2>2. Fine(0)
    BY <1>3, <1>8, <2>1
  <2> QED
    BY <2>2
<1>11. ASSUME NEW k \in Nat, k + 1 <= m, Fine(k)
       PROVE  /\ Fine(k + 1) /\ MoreVersions(t[k].versions, t[k + 1].versions)
              /\ \A v \in Vars : v # ops[k + 1].out => t[k + 1].top[v] = t[k].top[v]
              /\ ops[k + 1].out # None => t[k].versions[ops[k + 1].out] < t[k + 1].top[ops[k + 1].out]
  <2> DEFINE q == k + 1
             w == t[k]
             op == ops[q]
             u == RenameOp(w, op)
  <2>1. q \in 1 .. m /\ q - 1 = k /\ op.out \in Vars \cup {None}
    <3>1. q \in 1 .. m /\ q - 1 = k
      BY <1>0, <1>11
    <3> HIDE DEF q
    <3> QED
      BY <1>0, <3>1
  <2>2. t[q] = u
    <3> HIDE DEF q
    <3> QED
      BY <1>3, <2>1
  <2> HIDE DEF q, w, op
  <2>3. /\ Current(w.top, w.versions) /\ w.ops = [j \in 1 .. k |-> r[j]]
        /\ MoreVersions(fn.versions, w.versions)
    BY <1>11 DEF w
  <2> DEFINE new == [opcode |-> op.opcode, ins |-> NewIns(op, w.top), at |-> Len(w.ops) + 1,
                     out |-> IF op.out = None THEN None ELSE <<op.out, u.top[op.out]>>]
  <2>4. /\ Current(u.top, u.versions) /\ MoreVersions(w.versions, u.versions)
        /\ u.ops = Append(w.ops, new)
        /\ \A v \in Vars : v # op.out => u.top[v] = w.top[v]
        /\ op.out # None => w.versions[op.out] < u.top[op.out]
    BY <2>1, <2>3, OpRenamed
  <2> HIDE DEF u
  <2>5. Len(w.ops) = k /\ w.ops \in Seq(X) /\ \A j \in 1 .. k : w.ops[j] = r[j]
    <3>1. \A j \in 1 .. k : r[j] \in X
      <4>1. \A j \in 1 .. k : j \in 1 .. m
        BY <1>0, <1>11
      <4> QED
        BY <1>9, <4>1
    <3>2. [j \in 1 .. k |-> r[j]] \in Seq(X)
      BY <3>1
    <3> QED
      BY <2>3, <3>2
  <2>6. new = r[q]
    <3>1. r[q] = R(q)
      BY <1>9, <2>1
    <3>2. R(q) = [opcode |-> op.opcode, ins |-> NewIns(op, w.top), at |-> q,
                  out |-> IF op.out = None THEN None ELSE <<op.out, u.top[op.out]>>]
      BY <2>1, <2>2 DEF op, w
    <3>3. Len(w.ops) + 1 = q
      BY <2>5 DEF q
    <3> QED
      BY <3>1, <3>2, <3>3
  <2> HIDE DEF new
  <2>7. Append(w.ops, new) = [j \in 1 .. q |-> r[j]]
    <3>1. r[q] \in X
      BY <1>9, <2>1
    <3> QED
      BY <2>5, <2>6, <3>1 DEF q
  <2>8. MoreVersions(fn.versions, u.versions)
    <3> SUFFICES ASSUME NEW v \in Vars
                 PROVE  fn.versions[v] <= u.versions[v]
      BY DEF MoreVersions
    <3>1. fn.versions[v] \in Nat /\ w.versions[v] \in Nat /\ u.versions[v] \in Nat
      BY <2>3, <2>4 DEF Current
    <3>2. fn.versions[v] <= w.versions[v] /\ w.versions[v] <= u.versions[v]
      BY <2>3, <2>4 DEF MoreVersions
    <3> QED
      BY <3>1, <3>2
  <2>9. Fine(q)
    BY <2>2, <2>4, <2>7, <2>8
  <2> QED
    BY <2>2, <2>4, <2>9 DEF q, w, op
<1> HIDE DEF R
<1>12. Nat \subseteq All
  <2>1. ASSUME NEW k \in Nat, k \in All
        PROVE  k + 1 \in All
    <3> SUFFICES ASSUME k + 1 <= m
                 PROVE  Fine(k + 1)
      OBVIOUS
    <3>1. k <= m
      BY <1>0
    <3>2. Fine(k)
      BY <2>1, <3>1
    <3> HIDE DEF Fine
    <3> QED
      BY <1>11, <3>2
  <2> HIDE DEF All
  <2> QED
    BY <1>10, <2>1, NumbersInduct, Zenon
<1>13. \A k \in 0 .. m : Fine(k)
  <2> SUFFICES ASSUME NEW k \in 0 .. m
               PROVE  Fine(k)
    OBVIOUS
  <2>1. k \in Nat /\ k <= m
    BY <1>0
  <2> HIDE DEF Fine
  <2> QED
    BY <1>12, <2>1
<1>14. \A k \in 0 .. m : \A j \in 0 .. k : MoreVersions(t[j].versions, t[k].versions)
  <2> DEFINE Up == {k \in Nat : k <= m => \A j \in 0 .. k : MoreVersions(t[j].versions, t[k].versions)}
  <2>0. \A k \in 0 .. m : t[k].versions \in [Vars -> Nat]
    BY <1>13 DEF Current
  <2> HIDE DEF Fine
  <2>1. 0 \in Up
    <3>1. \A j \in 0 .. 0 : j = 0
      OBVIOUS
    <3>2. 0 \in 0 .. m
      BY <1>0
    <3>3. MoreVersions(t[0].versions, t[0].versions)
      BY <2>0, <3>2 DEF MoreVersions
    <3> QED
      BY <3>1, <3>3
  <2>2. ASSUME NEW k \in Nat, k \in Up
        PROVE  k + 1 \in Up
    <3> SUFFICES ASSUME k + 1 <= m, NEW j \in 0 .. k + 1
                 PROVE  MoreVersions(t[j].versions, t[k + 1].versions)
      OBVIOUS
    <3>1. k \in 0 .. m /\ k + 1 \in 0 .. m /\ j \in 0 .. m
      BY <1>0
    <3>2. CASE j = k + 1
      BY <2>0, <3>1, <3>2 DEF MoreVersions
    <3>3. CASE j # k + 1
      <4>1. j \in 0 .. k /\ k <= m
        BY <3>1, <3>3
      <4>2. MoreVersions(t[j].versions, t[k].versions)
        BY <2>2, <4>1
      <4>3. MoreVersions(t[k].versions, t[k + 1].versions)
        BY <1>11, <1>13, <3>1
      <4> DEFINE q == k + 1
      <4>4. q \in 0 .. m
        BY <3>1
      <4> SUFFICES ASSUME NEW v \in Vars
                   PROVE  t[j].versions[v] <= t[q].versions[v]
        BY DEF MoreVersions
      <4>5. t[j].versions[v] <= t[k].versions[v] /\ t[k].versions[v] <= t[q].versions[v]
        BY <4>2, <4>3 DEF MoreVersions
      <4> HIDE DEF q
      <4>6. t[j].versions[v] \in Nat /\ t[k].versions[v] \in Nat /\ t[q].versions[v] \in Nat
        BY <2>0, <3>1, <4>4
      <4> QED
        BY <4>5, <4>6
    <3> QED
      BY <3>2, <3>3
  <2>3. Nat \subseteq Up
    <3> HIDE DEF Up
    <3> QED
      BY <2>1, <2>2, NumbersInduct, Zenon
  <2>4. \A k \in 0 .. m : k \in Up /\ k <= m
    BY <1>0, <2>3
  <2> QED
    BY <2>4
<1> DEFINE cur == [k \in 1 .. m + 1 |-> t[k - 1].top]
           done == t[m]
<1>15. \A k \in 1 .. m + 1 : cur[k] = t[k - 1].top /\ k - 1 \in 0 .. m
  BY <1>0
<1>16. \A k \in 1 .. m + 1 : Current(cur[k], done.versions)
  <2> SUFFICES ASSUME NEW k \in 1 .. m + 1
               PROVE  Current(cur[k], done.versions)
    OBVIOUS
  <2> DEFINE p == k - 1
  <2>1. p \in 0 .. m /\ cur[k] = t[p].top /\ m \in 0 .. m
    BY <1>0, <1>15
  <2> HIDE DEF p, cur
  <2>2. Current(t[p].top, t[p].versions) /\ Current(done.top, done.versions)
    BY <1>13, <2>1
  <2>3. MoreVersions(t[p].versions, done.versions)
    BY <1>14, <2>1
  <2>4. \A v \in Vars : t[p].top[v] <= done.versions[v]
    <3> SUFFICES ASSUME NEW v \in Vars
                 PROVE  t[p].top[v] <= done.versions[v]
      OBVIOUS
    <3>1. t[p].top[v] \in Nat /\ t[p].versions[v] \in Nat /\ done.versions[v] \in Nat
      BY <2>2 DEF Current
    <3>2. t[p].top[v] <= t[p].versions[v] /\ t[p].versions[v] <= done.versions[v]
      BY <2>2, <2>3 DEF Current, MoreVersions
    <3> HIDE DEF done
    <3> QED
      BY <3>1, <3>2
  <2> QED
    BY <2>1, <2>2, <2>4 DEF Current
<1>17. BlockRenamed(ops, done.ops, cur)
  <2>1. m \in 0 .. m
    BY <1>0
  <2>2. done.ops = [j \in 1 .. m |-> r[j]]
    BY <1>13, <2>1
  <2>3. ASSUME NEW i \in 1 .. m
        PROVE  Renames(ops[i], done.ops[i], cur[i], cur[i + 1], i)
    <3> DEFINE p == i - 1
               q == i + 1
    <3>1. /\ p \in Nat /\ p + 1 = i /\ p + 1 <= m /\ p \in 0 .. m /\ i \in 1 .. m + 1 /\ q \in 1 .. m + 1
          /\ i - 1 = p /\ q - 1 = i
      BY <1>0
    <3>2. cur[i] = t[p].top /\ cur[q] = t[i].top
      BY <1>15, <3>1
    <3>3. \A v \in Vars : v # ops[i].out => t[i].top[v] = t[p].top[v]
      <4>1. Fine(p)
        BY <1>13, <3>1
      <4>2. \A v \in Vars : v # ops[p + 1].out => t[p + 1].top[v] = t[p].top[v]
        BY <1>11, <3>1, <4>1
      <4> QED
        BY <3>1, <4>2
    <3>4. done.ops[i] = R(i)
      BY <1>9, <2>2
    <3>5. R(i) = [opcode |-> ops[i].opcode, ins |-> NewIns(ops[i], t[p].top), at |-> i,
                  out |-> IF ops[i].out = None THEN None ELSE <<ops[i].out, t[i].top[ops[i].out]>>]
      BY <3>1 DEF R
    <3> HIDE DEF cur, done, p
    <3>6. Renames(ops[i], done.ops[i], cur[i], cur[q], i)
      BY <3>2, <3>3, <3>4, <3>5 DEF Renames
    <3> QED
      BY <3>6
  <2>4. DOMAIN done.ops = 1 .. m
    BY <2>2
  <2> HIDE DEF done, cur
  <2> QED
    BY <1>0, <2>3, <2>4 DEF BlockRenamed, m
<1>18. cur[1] = start.top /\ cur[m + 1] = done.top
  <2>1. 1 \in 1 .. m + 1 /\ m + 1 \in 1 .. m + 1 /\ 1 - 1 = 0 /\ (m + 1) - 1 = m
    BY <1>0
  <2> QED
    BY <1>3, <1>15, <2>1
<1>19. RenameOps(g, b, top, fn) = done /\ MoreVersions(fn.versions, done.versions)
  <2>1. m \in 0 .. m
    BY <1>0
  <2> QED
    BY <1>6, <1>7, <1>13, <2>1
<1>20. Numbers(ops, start.versions, cur)
  <2> SUFFICES ASSUME NEW i \in 1 .. m, ops[i].out # None
               PROVE  /\ start.versions[ops[i].out] < cur[i + 1][ops[i].out]
                      /\ \A j \in 1 .. i - 1 : cur[j + 1][ops[i].out] < cur[i + 1][ops[i].out]
    BY DEF Numbers, m
  <2> DEFINE p == i - 1
             q == i + 1
             v == ops[i].out
  <2>1. /\ p \in Nat /\ p + 1 = i /\ p + 1 <= m /\ p \in 0 .. m /\ q \in 1 .. m + 1 /\ q - 1 = i /\ i \in 0 .. m
        /\ 0 \in 0 .. p /\ 0 \in 0 .. m
    BY <1>0
  <2>2. v \in Vars
    BY <1>0
  <2>3. t[p].versions[v] < t[i].top[v]
    <3>1. Fine(p)
      BY <1>13, <2>1
    <3>2. ops[p + 1].out # None => t[p].versions[ops[p + 1].out] < t[p + 1].top[ops[p + 1].out]
      BY <1>11, <2>1, <3>1
    <3> QED
      BY <2>1, <3>2
  <2>4. cur[q] = t[i].top
    BY <1>15, <2>1
  <2>5. t[p].versions[v] \in Nat /\ t[i].top[v] \in Nat
    <3>1. Current(t[p].top, t[p].versions) /\ Current(t[i].top, t[i].versions)
      BY <1>13, <2>1
    <3> HIDE DEF p, v
    <3> QED
      BY <2>2, <3>1 DEF Current
  <2>6. ASSUME NEW j \in 0 .. p
        PROVE  t[j].versions[v] <= t[p].versions[v] /\ t[j].versions[v] \in Nat /\ t[j].top[v] \in Nat
               /\ t[j].top[v] <= t[j].versions[v]
    <3>1. j \in 0 .. m
      BY <1>0, <2>1
    <3>2. MoreVersions(t[j].versions, t[p].versions) /\ Current(t[j].top, t[j].versions)
      BY <1>13, <1>14, <2>1, <3>1
    <3> HIDE DEF p, v
    <3> QED
      BY <2>2, <3>2 DEF MoreVersions, Current
  <2>7. start.versions[v] < t[i].top[v]
    <3>1. t[0] = start
      BY <1>3
    <3>2. t[0].versions[v] <= t[p].versions[v] /\ t[0].versions[v] \in Nat
      BY <2>1, <2>6
    <3> HIDE DEF v, p
    <3> QED
      BY <2>3, <2>5, <3>1, <3>2
  <2>8. ASSUME NEW j \in 1 .. p
        PROVE  cur[j + 1][v] < t[i].top[v]
    <3> DEFINE r1 == j + 1
    <3>1. r1 \in 1 .. m + 1 /\ r1 - 1 = j /\ j \in 0 .. p
      BY <1>0, <2>1
    <3>2. cur[r1] = t[j].top
      BY <1>15, <3>1
    <3>3. /\ t[j].versions[v] <= t[p].versions[v] /\ t[j].versions[v] \in Nat /\ t[j].top[v] \in Nat
          /\ t[j].top[v] <= t[j].versions[v]
      BY <2>6, <3>1
    <3> HIDE DEF r1, cur, v, p
    <3>4. cur[r1][v] < t[i].top[v]
      BY <2>3, <2>5, <3>2, <3>3
    <3> QED
      BY <3>4 DEF r1
  <2> HIDE DEF cur, v
  <2> QED
    BY <2>4, <2>7, <2>8 DEF v
<1> HIDE DEF cur, done
<1> QED
  BY <1>8, <1>16, <1>17, <1>18, <1>19, <1>20 DEF m, ops, start

\* Where the phis are, and that they have a slot for every predecessor.
IsForm(fn) == fn = [ops |-> fn.ops, phis |-> fn.phis, versions |-> fn.versions]
IsTabled(f) == f = [x \in DOMAIN f |-> f[x]]
IsPhi(phi) == phi = [ver |-> phi.ver, in |-> phi.in]
PhisShaped(g, n, places, fn) ==
  /\ IsForm(fn) /\ DOMAIN fn.phis = 1 .. n
  /\ \A c \in 1 .. n : IsTabled(fn.phis[c])
  /\ \A c \in 1 .. n : \A v \in DOMAIN fn.phis[c] : IsPhi(fn.phis[c][v])
  /\ DOMAIN fn.ops = 1 .. n /\ fn.versions \in [Vars -> Nat]
  /\ \A c \in 1 .. n : DOMAIN fn.phis[c] = {v \in Vars : c \in places[v]}
  /\ \A c \in 1 .. n : \A v \in DOMAIN fn.phis[c] : DOMAIN fn.phis[c][v].in = Predecessors(g, c)

\* What is current at the end of a block,
AtEnd(g, cur, b) == cur[b][Len(g.ops[b]) + 1]

\* and where it begins, before its phis.
AtStart(g, d, cur, b) == IF b = EntryBlock THEN [v \in Vars |-> 0] ELSE AtEnd(g, cur, d[b])

\* A block is renamed: its operations read what is current, and so do its
\* slots in the phis it leads to.
BlockDone(g, d, fn, cur, b) ==
  /\ BlockRenamed(g.ops[b], fn.ops[b], cur[b])
  /\ \A k \in 1 .. Len(g.ops[b]) + 1 : Current(cur[b][k], fn.versions)
  /\ \A v \in Vars : cur[b][1][v] = IF v \in DOMAIN fn.phis[b] THEN fn.phis[b][v].ver
                                    ELSE AtStart(g, d, cur, b)[v]
  /\ \A c \in ToSet(g.succ[b]) : \A v \in DOMAIN fn.phis[c] :
       fn.phis[c][v].in[b] = <<v, AtEnd(g, cur, b)[v]>>

\* A block fills its slots and numbers its phis, and leaves the others.
LEMMA PhisFilled ==
  ASSUME NEW g, NEW n, IsGraph(g, n), NEW places, NEW fn, PhisShaped(g, n, places, fn),
         NEW b \in 1 .. n, NEW top
  PROVE  LET new == FilledPhis(g, b, top, fn) IN
         /\ DOMAIN new = 1 .. n
         /\ \A c \in 1 .. n :
           /\ DOMAIN new[c] = DOMAIN fn.phis[c] /\ IsTabled(new[c])
           /\ \A v \in DOMAIN fn.phis[c] :
                /\ IsPhi(new[c][v])
                /\ new[c][v].ver = IF c = b THEN fn.versions[v] + 1 ELSE fn.phis[c][v].ver
                /\ DOMAIN new[c][v].in = Predecessors(g, c)
                /\ \A p \in Predecessors(g, c) : p # b => new[c][v].in[p] = fn.phis[c][v].in[p]
                /\ c \in ToSet(g.succ[b]) => new[c][v].in[b] = <<v, top[v]>>
<1> DEFINE new == FilledPhis(g, b, top, fn)
           Slots(c, v) == IF c \in ToSet(g.succ[b]) THEN [fn.phis[c][v].in EXCEPT ![b] = <<v, top[v]>>]
                          ELSE fn.phis[c][v].in
           Ver(c, v) == IF c = b THEN fn.versions[v] + 1 ELSE fn.phis[c][v].ver
<1>1. Blocks(g) = 1 .. n
  BY Edges
<1>2. new = [c \in 1 .. n |-> [v \in DOMAIN fn.phis[c] |-> [ver |-> Ver(c, v), in |-> Slots(c, v)]]]
  BY <1>1, Zenon DEF FilledPhis
<1> HIDE DEF new
<1> SUFFICES ASSUME NEW c \in 1 .. n
             PROVE  /\ DOMAIN new[c] = DOMAIN fn.phis[c] /\ IsTabled(new[c])
                    /\ \A v \in DOMAIN fn.phis[c] :
                         /\ IsPhi(new[c][v])
                         /\ new[c][v].ver = Ver(c, v)
                         /\ DOMAIN new[c][v].in = Predecessors(g, c)
                         /\ \A p \in Predecessors(g, c) : p # b => new[c][v].in[p] = fn.phis[c][v].in[p]
                         /\ c \in ToSet(g.succ[b]) => new[c][v].in[b] = <<v, top[v]>>
  BY <1>2, Zenon DEF new
<1> HIDE DEF Ver, Slots
<1>3. new[c] = [v \in DOMAIN fn.phis[c] |-> [ver |-> Ver(c, v), in |-> Slots(c, v)]]
  BY <1>2
<1>4. ASSUME NEW v \in DOMAIN fn.phis[c]
      PROVE  /\ IsPhi(new[c][v])
             /\ new[c][v].ver = Ver(c, v)
             /\ DOMAIN new[c][v].in = Predecessors(g, c)
             /\ \A p \in Predecessors(g, c) : p # b => new[c][v].in[p] = fn.phis[c][v].in[p]
             /\ c \in ToSet(g.succ[b]) => new[c][v].in[b] = <<v, top[v]>>
  <2> DEFINE old == fn.phis[c][v].in
             x == <<v, top[v]>>
  <2>1. IsPhi(new[c][v]) /\ new[c][v].ver = Ver(c, v) /\ new[c][v].in = Slots(c, v)
    BY <1>3 DEF IsPhi
  <2>2. DOMAIN old = Predecessors(g, c)
    BY DEF PhisShaped
  <2>3. Slots(c, v) = IF c \in ToSet(g.succ[b]) THEN [old EXCEPT ![b] = x] ELSE old
    BY DEF Slots
  <2>4. c \in ToSet(g.succ[b]) => b \in Predecessors(g, c)
    BY <1>1 DEF Predecessors
  <2> HIDE DEF old, x
  <2>5. /\ DOMAIN Slots(c, v) = Predecessors(g, c)
        /\ \A p \in Predecessors(g, c) : p # b => Slots(c, v)[p] = old[p]
        /\ c \in ToSet(g.succ[b]) => Slots(c, v)[b] = x
    BY <2>2, <2>3, <2>4
  <2> QED
    BY <2>1, <2>5 DEF old, x
<1>5. IsTabled(new[c])
  BY <1>3 DEF IsTabled
<1> QED
  BY <1>3, <1>4, <1>5

\* The blocks that are done, and those that wait.
Waits(g, n, d, cur, todo, D) ==
  /\ D \subseteq Reached(g) /\ \A x \in D : x = EntryBlock \/ d[x] \in D
  /\ todo \in Seq([block : 1 .. n, top : [Vars -> Nat]])
  /\ \A i, j \in DOMAIN todo : todo[i].block = todo[j].block => i = j
  /\ \A i \in DOMAIN todo :
       LET x == todo[i].block IN
       /\ x \in Reached(g) \ D /\ (x = EntryBlock \/ d[x] \in D)
       /\ todo[i].top = AtStart(g, d, cur, x)
  /\ \A x \in Reached(g) \ D :
       x = EntryBlock \/ d[x] \in D => \E i \in DOMAIN todo : todo[i].block = x

\* Where a value is defined: by a phi, or by the operation in a place.
DefinedAt(fn, b, i, x) ==
  \/ i = 0 /\ x[1] \in DOMAIN fn.phis[b] /\ fn.phis[b][x[1]].ver = x[2]
  \/ i \in DOMAIN fn.ops[b] /\ fn.ops[b][i].out = x

\* No version is given out twice.
Numbered(fn, D) ==
  \A x \in Vars \X Nat : \A b \in D : \A i \in Nat : DefinedAt(fn, b, i, x) =>
    /\ x[2] \in 1 .. fn.versions[x[1]]
    /\ \A c \in D : \A j \in Nat : DefinedAt(fn, c, j, x) => c = b /\ j = i

\* The walk down the dominator tree, when some blocks are done.
Renaming(g, n, d, places, walk, cur, D) ==
  /\ PhisShaped(g, n, places, walk.fn)
  /\ cur = [b \in 1 .. n |-> cur[b]]
  /\ Waits(g, n, d, cur, walk.todo, D)
  /\ \A b \in D : BlockDone(g, d, walk.fn, cur, b)
  /\ Numbered(walk.fn, D) /\ \A b \in (1 .. n) \ D : walk.fn.ops[b] = << >>

\* One block's versions are set.
Elsewhere(n, b, after, cur) == \A y \in (1 .. n) \ {b} : after[y] = cur[y]

\* A block that is done stays so.
LEMMA StaysDone ==
  ASSUME NEW g, NEW n, IsGraph(g, n), NEW d, NEW places, NEW fn, PhisShaped(g, n, places, fn),
         NEW new, NEW cur, NEW after, NEW b \in 1 .. n, NEW top, NEW ops,
         new.phis = FilledPhis(g, b, top, fn), new.ops = [fn.ops EXCEPT ![b] = ops],
         new.versions \in [Vars -> Nat], MoreVersions(fn.versions, new.versions),
         NEW x \in 1 .. n, x # b, x = EntryBlock \/ d[x] \in (1 .. n) \ {b},
         Elsewhere(n, b, after, cur),
         BlockDone(g, d, fn, cur, x)
  PROVE  BlockDone(g, d, new, after, x)
<1>1. /\ BlockRenamed(g.ops[x], fn.ops[x], cur[x])
      /\ \A k \in 1 .. Len(g.ops[x]) + 1 : Current(cur[x][k], fn.versions)
      /\ \A v \in Vars : cur[x][1][v] = IF v \in DOMAIN fn.phis[x] THEN fn.phis[x][v].ver
                                        ELSE AtStart(g, d, cur, x)[v]
      /\ \A c \in ToSet(g.succ[x]) : \A v \in DOMAIN fn.phis[c] :
           fn.phis[c][v].in[x] = <<v, AtEnd(g, cur, x)[v]>>
  BY DEF BlockDone
<1>2. after[x] = cur[x] /\ AtEnd(g, after, x) = AtEnd(g, cur, x) /\ AtStart(g, d, after, x) = AtStart(g, d, cur, x)
  BY DEF AtEnd, AtStart, Elsewhere
<1>3. new.ops[x] = fn.ops[x]
  BY DEF PhisShaped
<1> DEFINE phis == FilledPhis(g, b, top, fn)
<1>4. \A c \in 1 .. n :
        /\ DOMAIN phis[c] = DOMAIN fn.phis[c]
        /\ \A v \in DOMAIN fn.phis[c] :
             /\ phis[c][v].ver = IF c = b THEN fn.versions[v] + 1 ELSE fn.phis[c][v].ver
             /\ \A p \in Predecessors(g, c) : p # b => phis[c][v].in[p] = fn.phis[c][v].in[p]
  BY PhisFilled
<1> HIDE DEF phis
<1>5. new.phis = phis
  BY DEF phis
<1>6. \A k \in 1 .. Len(g.ops[x]) + 1 : Current(after[x][k], new.versions)
  <2> SUFFICES ASSUME NEW k \in 1 .. Len(g.ops[x]) + 1
               PROVE  Current(cur[x][k], new.versions)
    BY <1>2
  <2> DEFINE t == cur[x][k]
  <2>1. Current(t, fn.versions)
    BY <1>1
  <2> HIDE DEF t
  <2>2. ASSUME NEW v \in Vars
        PROVE  t[v] <= new.versions[v]
    <3>1. t[v] \in Nat /\ fn.versions[v] \in Nat /\ new.versions[v] \in Nat /\ t[v] <= fn.versions[v]
      BY <2>1 DEF Current
    <3>2. fn.versions[v] <= new.versions[v]
      BY DEF MoreVersions
    <3> QED
      BY <3>1, <3>2
  <2>3. Current(t, new.versions)
    BY <2>1, <2>2 DEF Current
  <2> QED
    BY <2>3 DEF t
<1>7. \A v \in Vars : after[x][1][v] = IF v \in DOMAIN new.phis[x] THEN new.phis[x][v].ver
                                       ELSE AtStart(g, d, after, x)[v]
  BY <1>1, <1>2, <1>4, <1>5
<1>8. ASSUME NEW c \in ToSet(g.succ[x]), NEW v \in DOMAIN new.phis[c]
      PROVE  new.phis[c][v].in[x] = <<v, AtEnd(g, after, x)[v]>>
  <2>1. c \in 1 .. n /\ x \in Predecessors(g, c)
    BY Edges DEF Predecessors
  <2>2. v \in DOMAIN fn.phis[c] /\ new.phis[c][v].in[x] = fn.phis[c][v].in[x]
    BY <1>4, <1>5, <1>8, <2>1
  <2> QED
    BY <1>1, <1>2, <2>2
<1> QED
  BY <1>1, <1>2, <1>3, <1>6, <1>7, <1>8 DEF BlockDone

\* The operations of a block, renamed from what is current where it begins.
BlockNamed(g, b, fn, top, new, cur) ==
  /\ BlockRenamed(g.ops[b], new.ops[b], cur)
  /\ \A k \in 1 .. Len(g.ops[b]) + 1 : Current(cur[k], new.versions)
  /\ cur[1] = [v \in Vars |-> IF v \in DOMAIN fn.phis[b] THEN fn.versions[v] + 1 ELSE top[v]]

\* The block that is renamed is done.
LEMMA NowDone ==
  ASSUME NEW g, NEW n, IsGraph(g, n), NEW d, NEW places, NEW fn, PhisShaped(g, n, places, fn),
         NEW b \in 1 .. n, NEW top, NEW new, NEW after,
         new.phis = FilledPhis(g, b, AtEnd(g, after, b), fn),
         top = AtStart(g, d, after, b),
         BlockNamed(g, b, fn, top, new, after[b])
  PROVE  BlockDone(g, d, new, after, b)
<1>0. /\ BlockRenamed(g.ops[b], new.ops[b], after[b])
      /\ \A k \in 1 .. Len(g.ops[b]) + 1 : Current(after[b][k], new.versions)
      /\ after[b][1] = [v \in Vars |-> IF v \in DOMAIN fn.phis[b] THEN fn.versions[v] + 1 ELSE top[v]]
  BY DEF BlockNamed
<1> DEFINE phis == FilledPhis(g, b, AtEnd(g, after, b), fn)
<1>1. \A c \in 1 .. n :
        /\ DOMAIN phis[c] = DOMAIN fn.phis[c]
        /\ \A v \in DOMAIN fn.phis[c] :
             /\ phis[c][v].ver = IF c = b THEN fn.versions[v] + 1 ELSE fn.phis[c][v].ver
             /\ c \in ToSet(g.succ[b]) => phis[c][v].in[b] = <<v, AtEnd(g, after, b)[v]>>
  BY PhisFilled
<1> HIDE DEF phis
<1>2. new.phis = phis
  BY DEF phis
<1>3. \A v \in Vars : after[b][1][v] = IF v \in DOMAIN new.phis[b] THEN new.phis[b][v].ver
                                       ELSE AtStart(g, d, after, b)[v]
  BY <1>0, <1>1, <1>2
<1>4. \A c \in ToSet(g.succ[b]) : \A v \in DOMAIN new.phis[c] :
        new.phis[c][v].in[b] = <<v, AtEnd(g, after, b)[v]>>
  <2>1. ToSet(g.succ[b]) \subseteq 1 .. n
    BY Edges
  <2> QED
    BY <1>1, <1>2, <2>1
<1> QED
  BY <1>0, <1>3, <1>4 DEF BlockDone

\* No number of a set comes twice.
LEMMA AscendingOnce ==
  ASSUME NEW n \in Nat, NEW S \in SUBSET (1 .. n)
  PROVE  \A i, j \in 1 .. Cardinality(S) : Ascending(S)[i] = Ascending(S)[j] => i = j
<1> DEFINE a == Ascending(S)
           N == Cardinality(S)
           I == 1 .. N
<1>1. N \in Nat /\ IsFiniteSet(S) /\ a \in [I -> S] /\ \A x \in S : \E i \in I : a[i] = x
  BY AscendingSet
<1>2. IsFiniteSet(I) /\ Cardinality(I) = N
  <2>1. 1 \in Int /\ N \in Int
    BY <1>1
  <2> HIDE DEF N
  <2> QED
    BY <1>1, <2>1, FS_Interval
<1> HIDE DEF a, I
<1>3. a \in Surjection(I, S)
  BY <1>1 DEF Surjection
<1>4. a \in Injection(I, S)
  BY <1>2, <1>3, FS_SurjSameCardinalityImpliesInj
<1> QED
  BY <1>1, <1>4 DEF Injection, IsInjective, a, I

\* The children of a block are put before what waits already.
WithChildren(g, d, b, top, todo) ==
  LET children == Ascending({c \in Blocks(g) \ {b} : d[c] = b})
  IN [k \in DOMAIN children |-> [block |-> children[k], top |-> top]] \o Tail(todo)

\* They are to be renamed from what is current at its end.
LEMMA ChildrenWait ==
  ASSUME NEW g, NEW n, IsGraph(g, n), NEW d, IsImmediate(g, n, d), NEW cur, NEW todo, NEW D,
         Waits(g, n, d, cur, todo, D), todo # << >>,
         NEW b, b = Head(todo).block, NEW after, Elsewhere(n, b, after, cur),
         NEW top \in [Vars -> Nat], top = AtEnd(g, after, b)
  PROVE  b \in Reached(g) \ D /\ Waits(g, n, d, after, WithChildren(g, d, b, top, todo), D \cup {b})
<1> DEFINE C == {c \in Blocks(g) \ {b} : d[c] = b}
           children == Ascending(C)
           q == Cardinality(C)
           first == [k \in DOMAIN children |-> [block |-> children[k], top |-> top]]
           rest == Tail(todo)
           new == first \o rest
           T == [block : 1 .. n, top : [Vars -> Nat]]
           m == Len(todo)
<1>0. /\ n \in Nat /\ Blocks(g) = 1 .. n /\ Reached(g) \subseteq 1 .. n /\ EntryBlock \in Reached(g)
      /\ d[EntryBlock] = EntryBlock
      /\ \A c \in (1 .. n) \ {EntryBlock} : c \notin Reached(g) => d[c] = None
      /\ None \notin 1 .. n
  <2>1. None \notin 1 .. n
    BY NoneAssumption
  <2>2. Reached(g) \subseteq 1 .. n /\ EntryBlock \in Reached(g)
    BY ClosureSpec DEF Reached
  <2> QED
    BY <2>1, <2>2, Edges DEF IsGraph, IsImmediate
<1>1. /\ D \subseteq Reached(g) /\ \A x \in D : x = EntryBlock \/ d[x] \in D
      /\ todo \in Seq(T)
      /\ \A i, j \in DOMAIN todo : todo[i].block = todo[j].block => i = j
      /\ \A i \in DOMAIN todo :
           LET x == todo[i].block IN
           /\ x \in Reached(g) \ D /\ (x = EntryBlock \/ d[x] \in D)
           /\ todo[i].top = AtStart(g, d, cur, x)
      /\ \A x \in Reached(g) \ D :
           x = EntryBlock \/ d[x] \in D => \E i \in DOMAIN todo : todo[i].block = x
  BY DEF Waits
<1> HIDE DEF T
<1>2. /\ m \in Nat \ {0} /\ DOMAIN todo = 1 .. m /\ Head(todo) = todo[1] /\ 1 \in 1 .. m
      /\ rest \in Seq(T) /\ Len(rest) = m - 1 /\ \A k \in 1 .. m - 1 : rest[k] = todo[k + 1]
  <2>1. todo \in Seq(T) /\ todo # << >>
    BY <1>1
  <2>2. m \in Nat \ {0} /\ DOMAIN todo = 1 .. m /\ Head(todo) = todo[1]
    BY <2>1
  <2>3. rest \in Seq(T) /\ Len(rest) = m - 1
    BY <2>1
  <2>4. \A k \in 1 .. m - 1 : rest[k] = todo[k + 1]
    BY <2>1
  <2> HIDE DEF m, rest
  <2>5. 1 \in 1 .. m
    BY <2>2
  <2> QED
    BY <2>2, <2>3, <2>4, <2>5
<1> HIDE DEF m, rest
<1>3. b \in Reached(g) \ D /\ (b = EntryBlock \/ d[b] \in D) /\ b \in 1 .. n
  BY <1>0, <1>1, <1>2
<1>4. C \in SUBSET (1 .. n) /\ \A c \in C : c # b /\ d[c] = b
  BY <1>0
<1>5. /\ q \in Nat /\ children \in [1 .. q -> C] /\ \A x \in C : \E i \in 1 .. q : children[i] = x
      /\ \A i, j \in 1 .. q : children[i] = children[j] => i = j
  <2> HIDE DEF C
  <2>1. IsFiniteSet(C) /\ q \in Nat /\ children \in [1 .. q -> C] /\ \A x \in C : \E i \in 1 .. q : children[i] = x
    BY <1>0, <1>4, AscendingSet
  <2>2. \A i, j \in 1 .. q : children[i] = children[j] => i = j
    BY <1>0, <1>4, AscendingOnce
  <2> QED
    BY <2>1, <2>2
<1> HIDE DEF children, q
<1>6. /\ first \in Seq(T) /\ Len(first) = q
      /\ \A k \in 1 .. q : first[k] = [block |-> children[k], top |-> top]
  <2>1. DOMAIN children = 1 .. q
    BY <1>5
  <2>2. \A k \in 1 .. q : [block |-> children[k], top |-> top] \in T
    BY <1>4, <1>5 DEF T
  <2>3. first \in [1 .. q -> T]
    BY <2>1, <2>2
  <2> QED
    BY <1>5, <2>1, <2>3
<1> HIDE DEF first
<1>7. ASSUME NEW c \in C
      PROVE  c \in Reached(g) /\ c \notin D /\ c # EntryBlock /\ c # b /\ d[c] = b
  <2>1. c \in 1 .. n /\ c # b /\ d[c] = b
    BY <1>0
  <2>2. c # EntryBlock
    BY <1>0, <2>1
  <2>3. c \in Reached(g)
    BY <1>0, <1>3, <2>1, <2>2
  <2>4. c \notin D
    BY <1>1, <1>3, <2>1, <2>2
  <2> QED
    BY <2>1, <2>2, <2>3, <2>4
<1> HIDE DEF C
<1>8. /\ new \in Seq(T)
      /\ \A k \in 1 .. q : k \in DOMAIN new /\ new[k] = first[k]
      /\ \A k \in 1 .. m - 1 : q + k \in DOMAIN new /\ new[q + k] = todo[k + 1] /\ k + 1 \in DOMAIN todo /\ k + 1 # 1
      /\ \A i \in DOMAIN new : i \in 1 .. q \/ \E k \in 1 .. m - 1 : i = q + k
  <2>1. /\ new \in Seq(T)
        /\ \A k \in 1 .. Len(first) : k \in DOMAIN new /\ new[k] = first[k]
        /\ \A k \in 1 .. Len(rest) : Len(first) + k \in DOMAIN new /\ new[Len(first) + k] = rest[k]
        /\ \A i \in DOMAIN new : i \in 1 .. Len(first) \/ \E k \in 1 .. Len(rest) : i = Len(first) + k
    <3>0. first \in Seq(T) /\ rest \in Seq(T)
      BY <1>2, <1>6
    <3>1. LET u == first \o rest IN
          /\ u \in Seq(T) /\ Len(first) \in Nat /\ Len(rest) \in Nat
          /\ \A k \in 1 .. Len(first) : k \in DOMAIN u /\ u[k] = first[k]
          /\ \A k \in 1 .. Len(rest) : Len(first) + k \in DOMAIN u /\ u[Len(first) + k] = rest[k]
          /\ \A i \in DOMAIN u : i \in 1 .. Len(first) \/ \E k \in 1 .. Len(rest) : i = Len(first) + k
      BY <3>0, OneAfterOther
    <3> QED
      BY <3>1, Zenon
  <2>2. \A k \in 1 .. m - 1 : k + 1 \in DOMAIN todo /\ k + 1 # 1
    BY <1>2
  <2> HIDE DEF new
  <2> QED
    BY <1>2, <1>6, <2>1, <2>2
<1> HIDE DEF new
<1>9. ASSUME NEW i \in DOMAIN new
      PROVE  \/ i \in 1 .. q /\ new[i] = [block |-> children[i], top |-> top] /\ new[i].block \in C
             \/ /\ i \notin 1 .. q
                /\ \E k \in 1 .. m - 1 : i = q + k /\ new[i] = todo[k + 1] /\ k + 1 \in DOMAIN todo
                                         /\ new[i].block # b
  <2>1. CASE i \in 1 .. q
    <3>1. new[i] = first[i]
      BY <1>8, <2>1
    <3>2. first[i] = [block |-> children[i], top |-> top] /\ children[i] \in C
      BY <1>5, <1>6, <2>1
    <3> QED
      BY <2>1, <3>1, <3>2
  <2>2. CASE i \notin 1 .. q
    <3>1. PICK k \in 1 .. m - 1 : i = q + k
      BY <1>8, <2>2
    <3>2. new[i] = todo[k + 1] /\ k + 1 \in DOMAIN todo /\ k + 1 # 1
      BY <1>8, <3>1
    <3>3. todo[k + 1].block # todo[1].block
      BY <1>1, <1>2, <3>2
    <3> QED
      BY <1>2, <2>2, <3>1, <3>2, <3>3
  <2> QED
    BY <2>1, <2>2
<1>10. ASSUME NEW i \in DOMAIN new, NEW j \in DOMAIN new, new[i].block = new[j].block,
              i \in 1 .. q, j \notin 1 .. q
       PROVE  FALSE
  <2>1. new[i].block \in C
    BY <1>8, <1>9, <1>10
  <2>2. PICK k \in 1 .. m - 1 : new[j] = todo[k + 1] /\ k + 1 \in DOMAIN todo
    BY <1>9, <1>10
  <2>3. new[j].block = EntryBlock \/ d[new[j].block] \in D
    BY <1>1, <2>2
  <2> QED
    BY <1>3, <1>7, <1>10, <2>1, <2>3
<1>11. ASSUME NEW i \in DOMAIN new, NEW j \in DOMAIN new, new[i].block = new[j].block
       PROVE  i = j
  <2>1. CASE i \in 1 .. q /\ j \in 1 .. q
    <3>1. new[i].block = children[i] /\ new[j].block = children[j]
      BY <1>6, <1>8, <2>1
    <3> QED
      BY <1>5, <1>11, <2>1, <3>1
  <2>2. CASE i \notin 1 .. q /\ j \notin 1 .. q
    <3>1. PICK k \in 1 .. m - 1 : i = q + k /\ new[i] = todo[k + 1] /\ k + 1 \in DOMAIN todo
      BY <1>9, <2>2
    <3>2. PICK l \in 1 .. m - 1 : j = q + l /\ new[j] = todo[l + 1] /\ l + 1 \in DOMAIN todo
      BY <1>9, <2>2
    <3>3. k + 1 = l + 1
      BY <1>1, <1>11, <3>1, <3>2
    <3>4. k = l
      BY <3>3
    <3> QED
      BY <3>1, <3>2, <3>4
  <2>3. CASE i \in 1 .. q /\ j \notin 1 .. q
    BY <1>10, <1>11, <2>3
  <2>4. CASE i \notin 1 .. q /\ j \in 1 .. q
    BY <1>10, <1>11, <2>4
  <2> QED
    BY <2>1, <2>2, <2>3, <2>4
<1>12. ASSUME NEW i \in DOMAIN new
       PROVE  LET x == new[i].block IN
              /\ x \in Reached(g) \ (D \cup {b}) /\ (x = EntryBlock \/ d[x] \in D \cup {b})
              /\ new[i].top = AtStart(g, d, after, x)
  <2> DEFINE x == new[i].block
  <2>1. CASE i \in 1 .. q
    <3>1. new[i] = [block |-> children[i], top |-> top] /\ x \in C
      BY <1>5, <1>6, <1>8, <2>1
    <3> HIDE DEF x
    <3>2. x \in Reached(g) /\ x \notin D /\ x # EntryBlock /\ x # b /\ d[x] = b
      BY <1>7, <3>1
    <3>3. AtStart(g, d, after, x) = AtEnd(g, after, b)
      BY <3>2 DEF AtStart
    <3>4. new[i].top = top
      BY <3>1
    <3> QED
      BY <3>2, <3>3, <3>4 DEF x
  <2>2. CASE i \notin 1 .. q
    <3>1. PICK k \in 1 .. m - 1 : new[i] = todo[k + 1] /\ k + 1 \in DOMAIN todo /\ x # b
      BY <1>9, <2>2
    <3>2. /\ x \in Reached(g) \ D /\ (x = EntryBlock \/ d[x] \in D)
          /\ new[i].top = AtStart(g, d, cur, x)
      BY <1>1, <3>1
    <3> HIDE DEF x
    <3>3. AtStart(g, d, after, x) = AtStart(g, d, cur, x)
      <4>1. CASE x = EntryBlock
        BY <4>1 DEF AtStart
      <4>2. CASE x # EntryBlock
        <5>1. d[x] \in (1 .. n) \ {b}
          BY <1>0, <1>1, <1>3, <3>2, <4>2
        <5> QED
          BY <4>2, <5>1 DEF AtStart, AtEnd, Elsewhere
      <4> QED
        BY <4>1, <4>2
    <3> QED
      BY <3>1, <3>2, <3>3 DEF x
  <2> QED
    BY <2>1, <2>2
<1>13. ASSUME NEW x \in Reached(g) \ (D \cup {b}), x = EntryBlock \/ d[x] \in D \cup {b}
       PROVE  \E i \in DOMAIN new : new[i].block = x
  <2>1. CASE x # EntryBlock /\ d[x] = b
    <3>1. x \in C
      BY <1>0, <1>13, <2>1 DEF C
    <3>2. PICK i \in 1 .. q : children[i] = x
      BY <1>5, <3>1
    <3>3. i \in DOMAIN new /\ new[i].block = x
      BY <1>6, <1>8, <3>2
    <3> QED
      BY <3>3
  <2>2. CASE x = EntryBlock \/ d[x] \in D
    <3>1. PICK i \in DOMAIN todo : todo[i].block = x
      BY <1>1, <1>13, <2>2
    <3>2. i # 1
      BY <1>2, <1>13, <3>1
    <3> DEFINE k == i - 1
    <3>3. k \in 1 .. m - 1 /\ k + 1 = i
      BY <1>2, <3>2
    <3> HIDE DEF k
    <3>4. q + k \in DOMAIN new /\ new[q + k] = todo[i]
      BY <1>8, <3>3
    <3> QED
      BY <3>1, <3>4
  <2> QED
    BY <1>13, <2>1, <2>2
<1>14. D \cup {b} \subseteq Reached(g) /\ \A x \in D \cup {b} : x = EntryBlock \/ d[x] \in D \cup {b}
  BY <1>1, <1>3
<1>15. Waits(g, n, d, after, new, D \cup {b})
  BY <1>8, <1>11, <1>12, <1>13, <1>14 DEF Waits, T
<1>16. WithChildren(g, d, b, top, todo) = new
  BY Zenon DEF WithChildren, new, first, rest, children, C
<1> QED
  BY <1>3, <1>15, <1>16

\* The operations of the blocks.
OpsTyped(g, n) == \A b \in 1 .. n : g.ops[b] \in Seq(Operations(Vars)) \ {<< >>}

\* What is current where a waiting block begins.
LEMMA StartCurrent ==
  ASSUME NEW g, NEW n, IsGraph(g, n), OpsTyped(g, n), NEW d, NEW places, NEW walk, NEW cur, NEW D,
         Renaming(g, n, d, places, walk, cur, D), NEW b, b = EntryBlock \/ d[b] \in D
  PROVE  Current(AtStart(g, d, cur, b), walk.fn.versions)
<1> DEFINE versions == walk.fn.versions
<1>1. versions \in [Vars -> Nat]
  BY DEF Renaming, PhisShaped
<1>2. CASE b = EntryBlock
  <2> DEFINE zero == [v \in Vars |-> 0]
  <2>1. AtStart(g, d, cur, b) = zero
    BY <1>2 DEF AtStart
  <2> HIDE DEF versions
  <2>2. zero \in [Vars -> Nat] /\ \A v \in Vars : zero[v] <= versions[v]
    BY <1>1
  <2> QED
    BY <1>1, <2>1, <2>2 DEF Current, versions
<1>3. CASE b # EntryBlock
  <2> DEFINE p == d[b]
             m == Len(g.ops[p])
  <2>1. AtStart(g, d, cur, b) = cur[p][m + 1] /\ p \in D
    BY <1>3 DEF AtStart, AtEnd
  <2>2. BlockDone(g, d, walk.fn, cur, p)
    BY <2>1 DEF Renaming
  <2>3. p \in 1 .. n
    <3>1. p \in Reached(g)
      BY <2>1 DEF Renaming, Waits
    <3> QED
      BY <3>1, ClosureSpec DEF Reached
  <2>4. m + 1 \in 1 .. m + 1
    BY <2>3 DEF OpsTyped
  <2> QED
    BY <2>1, <2>2, <2>4 DEF BlockDone
<1> QED
  BY <1>2, <1>3

\* The versions a block defines are new, and each is defined once.
NewIn(fn, new, b) ==
  \A x \in Vars \X Nat : \A i \in Nat : DefinedAt(new, b, i, x) =>
    /\ fn.versions[x[1]] < x[2] /\ x[2] <= new.versions[x[1]]
    /\ \A j \in Nat : DefinedAt(new, b, j, x) => j = i

LEMMA BlockNumbers ==
  ASSUME NEW ops, NEW b, NEW fn, NEW new, NEW now, NEW first, BlockRenamed(ops, new.ops[b], now),
         fn.versions \in [Vars -> Nat], \A k \in 1 .. Len(ops) + 1 : Current(now[k], new.versions),
         Numbers(ops, first, now), \A i \in 1 .. Len(ops) : ops[i].out \in Vars \cup {None},
         \A v \in Vars : first[v] = fn.versions[v] + IF v \in DOMAIN new.phis[b] THEN 1 ELSE 0,
         \A v \in DOMAIN new.phis[b] : v \in Vars /\ new.phis[b][v].ver = fn.versions[v] + 1
                                     /\ now[1][v] = fn.versions[v] + 1
  PROVE  NewIn(fn, new, b)
<1> DEFINE m == Len(ops)
           P == DOMAIN new.phis[b]
           old == fn.versions
           versions == new.versions
<1>1. /\ m \in Nat /\ DOMAIN new.ops[b] = 1 .. m
      /\ \A i \in 1 .. m : new.ops[b][i].out = IF ops[i].out = None THEN None ELSE <<ops[i].out, now[i + 1][ops[i].out]>>
  <2>1. m \in Nat /\ DOMAIN new.ops[b] = 1 .. m
    BY DEF BlockRenamed
  <2>2. ASSUME NEW i \in 1 .. m
        PROVE  new.ops[b][i].out = IF ops[i].out = None THEN None ELSE <<ops[i].out, now[i + 1][ops[i].out]>>
    <3> DEFINE op == ops[i]
               o == new.ops[b][i]
               next == now[i + 1]
               before == now[i]
    <3>1. Renames(op, o, before, next, i)
      BY DEF BlockRenamed
    <3> HIDE DEF op, o, next, before
    <3>2. o.out = IF op.out = None THEN None ELSE <<op.out, next[op.out]>>
      BY <3>1 DEF Renames
    <3> QED
      BY <3>2 DEF op, o, next
  <2> QED
    BY <2>1, <2>2
<1>2. /\ \A v \in Vars : old[v] \in Nat /\ versions[v] \in Nat /\ first[v] = old[v] + IF v \in P THEN 1 ELSE 0
      /\ \A k \in 1 .. m + 1 : \A v \in Vars : now[k][v] \in Nat /\ now[k][v] <= versions[v]
      /\ \A v \in P : v \in Vars /\ new.phis[b][v].ver = old[v] + 1 /\ now[1][v] = old[v] + 1
  <2>1. 1 \in 1 .. m + 1
    BY <1>1
  <2> QED
    BY <2>1 DEF Current
<1>3. \A i \in 1 .. m : ops[i].out # None =>
        /\ first[ops[i].out] < now[i + 1][ops[i].out]
        /\ \A j \in 1 .. i - 1 : now[j + 1][ops[i].out] < now[i + 1][ops[i].out]
  BY DEF Numbers
<1>4. \A i \in 1 .. m : ops[i].out \in Vars \cup {None}
  OBVIOUS
<1> SUFFICES ASSUME NEW x \in Vars \X Nat, NEW i \in Nat, DefinedAt(new, b, i, x)
             PROVE  /\ old[x[1]] < x[2] /\ x[2] <= versions[x[1]]
                    /\ \A j \in Nat : DefinedAt(new, b, j, x) => j = i
  BY DEF NewIn
<1> DEFINE v == x[1]
           k == x[2]
<1>5. v \in Vars /\ k \in Nat /\ x = <<v, k>> /\ x # None
  BY NamesAssumption
<1>6. ASSUME NEW j \in Nat, DefinedAt(new, b, j, x)
      PROVE  \/ j = 0 /\ v \in P /\ k = old[v] + 1
             \/ j \in 1 .. m /\ ops[j].out = v /\ k = now[j + 1][v] /\ first[v] < k /\ ops[j].out # None
  <2>1. CASE j = 0 /\ v \in P /\ new.phis[b][v].ver = k
    BY <1>2, <2>1
  <2>2. CASE j \in 1 .. m /\ new.ops[b][j].out = x
    <3>1. ops[j].out # None /\ <<ops[j].out, now[j + 1][ops[j].out]>> = x
      BY <1>1, <1>5, <2>2
    <3>2. ops[j].out = v /\ now[j + 1][v] = k
      BY <1>5, <3>1
    <3> QED
      BY <1>3, <2>2, <3>1, <3>2
  <2> QED
    BY <1>1, <1>6, <2>1, <2>2 DEF DefinedAt
<1> HIDE DEF m, P, old, versions, v, k
<1>7. old[v] \in Nat /\ versions[v] \in Nat /\ (v \in P => first[v] = old[v] + 1) /\ (v \notin P => first[v] = old[v])
  BY <1>2, <1>5
<1>8. old[v] < k /\ k <= versions[v]
  <2>1. CASE i = 0 /\ v \in P /\ k = old[v] + 1
    <3>1. 1 \in 1 .. m + 1
      BY <1>1
    <3>2. now[1][v] <= versions[v] /\ now[1][v] = old[v] + 1
      BY <1>2, <1>5, <2>1, <3>1
    <3> QED
      BY <1>7, <2>1, <3>2
  <2>2. CASE i \in 1 .. m /\ k = now[i + 1][v] /\ first[v] < k
    <3> DEFINE q == i + 1
    <3>1. q \in 1 .. m + 1
      BY <1>1, <2>2
    <3> HIDE DEF q
    <3>2. now[q][v] <= versions[v]
      BY <1>2, <1>5, <3>1
    <3>3. old[v] < k
      BY <1>5, <1>7, <2>2
    <3> QED
      BY <2>2, <3>2, <3>3 DEF q
  <2> QED
    BY <1>6, <2>1, <2>2
<1>9. ASSUME NEW j \in Nat, DefinedAt(new, b, j, x)
      PROVE  j = i
  <2> DEFINE Op1(a) == a \in 1 .. m /\ ops[a].out = v /\ k = now[a + 1][v] /\ first[v] < k /\ ops[a].out # None
             Phi(a) == a = 0 /\ v \in P /\ k = old[v] + 1
  <2>1. (Phi(i) \/ Op1(i)) /\ (Phi(j) \/ Op1(j))
    BY <1>6, <1>9
  <2>2. ASSUME NEW a \in Nat, NEW c \in Nat, Phi(a), Op1(c)
        PROVE  FALSE
    BY <1>5, <1>7, <2>2
  <2>3. ASSUME NEW a \in Nat, NEW c \in Nat, Op1(a), Op1(c), a < c
        PROVE  FALSE
    <3>1. a \in 1 .. c - 1
      BY <2>3
    <3>2. now[a + 1][v] < now[c + 1][v]
      BY <1>3, <2>3, <3>1
    <3>3. now[a + 1][v] = k /\ now[c + 1][v] = k
      BY <2>3
    <3> QED
      BY <1>5, <3>2, <3>3
  <2>4. Phi(i) /\ Phi(j) => j = i
    OBVIOUS
  <2> HIDE DEF Op1, Phi
  <2>5. Op1(i) /\ Op1(j) => ~(i < j) /\ ~(j < i)
    BY <2>3
  <2> QED
    BY <2>1, <2>2, <2>4, <2>5
<1> QED
  BY <1>8, <1>9 DEF old, versions, v, k

\* And what is numbered stays so.
LEMMA NumberedOn ==
  ASSUME NEW fn, NEW new, NEW D, NEW b, Numbered(fn, D), \A c \in D : c # b, NewIn(fn, new, b),
         \A x : \A c \in D : \A i : DefinedAt(new, c, i, x) <=> DefinedAt(fn, c, i, x),
         \A v \in Vars : fn.versions[v] \in Nat /\ new.versions[v] \in Nat /\ fn.versions[v] <= new.versions[v]
  PROVE  Numbered(new, D \cup {b})
<1> DEFINE old == fn.versions
           versions == new.versions
<1> SUFFICES ASSUME NEW x \in Vars \X Nat, NEW a \in D \cup {b}, NEW i \in Nat, DefinedAt(new, a, i, x)
             PROVE  /\ x[2] \in 1 .. versions[x[1]]
                    /\ \A c \in D \cup {b} : \A j \in Nat : DefinedAt(new, c, j, x) => c = a /\ j = i
  BY DEF Numbered
<1>1. x[1] \in Vars /\ x[2] \in Nat
  OBVIOUS
<1>2. old[x[1]] \in Nat /\ versions[x[1]] \in Nat /\ old[x[1]] <= versions[x[1]]
  BY <1>1
<1>3. ASSUME NEW c \in D, NEW j \in Nat, DefinedAt(new, c, j, x)
      PROVE  /\ x[2] \in 1 .. old[x[1]]
             /\ \A e \in D : \A k \in Nat : DefinedAt(new, e, k, x) => e = c /\ k = j
  BY <1>3 DEF Numbered
<1>4. ASSUME NEW j \in Nat, DefinedAt(new, b, j, x)
      PROVE  /\ old[x[1]] < x[2] /\ x[2] <= versions[x[1]]
             /\ \A k \in Nat : DefinedAt(new, b, k, x) => k = j
  BY <1>4 DEF NewIn
<1> HIDE DEF old, versions
<1>5. ASSUME NEW c \in D, NEW j \in Nat, DefinedAt(new, c, j, x), NEW k \in Nat, DefinedAt(new, b, k, x)
      PROVE  FALSE
  <2>1. x[2] \in 1 .. old[x[1]] /\ old[x[1]] < x[2]
    BY <1>3, <1>4, <1>5
  <2> QED
    BY <1>1, <1>2, <2>1
<1>6. CASE a \in D
  <2>1. x[2] \in 1 .. old[x[1]]
    BY <1>3, <1>6
  <2>2. x[2] \in 1 .. versions[x[1]]
    BY <1>1, <1>2, <2>1
  <2> QED
    BY <1>3, <1>5, <1>6, <2>2
<1>7. CASE a = b
  <2>1. old[x[1]] < x[2] /\ x[2] <= versions[x[1]]
    BY <1>4, <1>7
  <2>2. x[2] \in 1 .. versions[x[1]]
    BY <1>1, <1>2, <2>1
  <2> QED
    BY <1>4, <1>5, <1>7, <2>2
<1> QED
  BY <1>6, <1>7

\* One block of the walk.
LEMMA OneRenamed ==
  ASSUME NEW g, NEW n, IsGraph(g, n), OpsTyped(g, n), NEW d, IsImmediate(g, n, d), NEW places,
         NEW walk, NEW cur, NEW D, Renaming(g, n, d, places, walk, cur, D), walk.todo # << >>
  PROVE  \E after, b : b \in Reached(g) \ D
                       /\ Renaming(g, n, d, places, RenameBlock(g, d, walk), after, D \cup {b})
<1> DEFINE todo == walk.todo
           fn == walk.fn
           b == Head(todo).block
           top == Head(todo).top
           m == Len(g.ops[b])
           done == RenameOps(g, b, top, fn)
           more == WithChildren(g, d, b, done.top, todo)
           phis == FilledPhis(g, b, done.top, fn)
           ops == [fn.ops EXCEPT ![b] = done.ops]
           new == [ops |-> ops, phis |-> phis, versions |-> done.versions]
           w == RenameBlock(g, d, walk)
<1>1. w = [todo |-> more, fn |-> new]
  BY Zenon DEF RenameBlock, WithChildren
<1>2. /\ PhisShaped(g, n, places, fn) /\ cur = [x \in 1 .. n |-> cur[x]]
      /\ Waits(g, n, d, cur, todo, D) /\ todo # << >>
      /\ \A x \in D : BlockDone(g, d, fn, cur, x)
  BY DEF Renaming
<1> HIDE DEF w
<1>3. /\ b \in Reached(g) \ D /\ b \in 1 .. n /\ (b = EntryBlock \/ d[b] \in D)
      /\ top = AtStart(g, d, cur, b)
  <2>1. 1 \in DOMAIN todo /\ Head(todo) = todo[1]
    <3>1. todo \in Seq([block : 1 .. n, top : [Vars -> Nat]])
      BY <1>2 DEF Waits
    <3> HIDE DEF todo
    <3> QED
      BY <1>2, <3>1
  <2>2. b \in Reached(g) \ D /\ (b = EntryBlock \/ d[b] \in D) /\ top = AtStart(g, d, cur, b)
    <3> HIDE DEF todo
    <3> QED
      BY <1>2, <2>1 DEF Waits
  <2>3. Reached(g) \subseteq 1 .. n
    BY ClosureSpec DEF Reached
  <2> QED
    BY <2>2, <2>3
<1> HIDE DEF b, top, todo
<1>4. Current(top, fn.versions)
  BY <1>3, StartCurrent
<1>5. g.ops[b] \in Seq(Operations(Vars)) /\ m \in Nat
  BY <1>3 DEF OpsTyped
<1>6. PICK now : /\ BlockRenamed(g.ops[b], done.ops, now)
                 /\ \A k \in 1 .. m + 1 : Current(now[k], done.versions)
                 /\ now[1] = [v \in Vars |-> IF v \in DOMAIN fn.phis[b] THEN fn.versions[v] + 1 ELSE top[v]]
                 /\ now[m + 1] = done.top
                 /\ MoreVersions(fn.versions, done.versions)
                 /\ Numbers(g.ops[b], Begun(g, b, top, fn).versions, now)
  <2>1. \A op \in Operations(Vars) : op.out \in Vars \cup {None}
    BY DEF Operations
  <2> HIDE DEF fn
  <2> QED
    BY <1>4, <1>5, <2>1, OpsRenamed
<1> DEFINE after == [x \in 1 .. n |-> IF x = b THEN now ELSE cur[x]]
<1> HIDE DEF done
<1>7. after[b] = now /\ after = [x \in 1 .. n |-> after[x]]
  BY <1>3
<1>8. Elsewhere(n, b, after, cur)
  BY <1>2 DEF Elsewhere
<1> HIDE DEF after
<1>9. done.top = AtEnd(g, after, b) /\ done.top \in [Vars -> Nat] /\ done.versions \in [Vars -> Nat]
  <2>1. done.top = AtEnd(g, after, b)
    BY <1>6, <1>7 DEF AtEnd
  <2>2. m + 1 \in 1 .. m + 1
    BY <1>5
  <2>3. Current(done.top, done.versions)
    BY <1>6, <2>2
  <2> QED
    BY <2>1, <2>3 DEF Current
<1>10. Waits(g, n, d, after, more, D \cup {b})
  <2>1. b = Head(todo).block
    BY DEF b
  <2>2. Waits(g, n, d, cur, todo, D) /\ todo # << >>
    BY <1>2
  <2> DEFINE last == done.top
  <2>3. last \in [Vars -> Nat] /\ last = AtEnd(g, after, b)
    BY <1>9
  <2> HIDE DEF last
  <2>4. Waits(g, n, d, after, WithChildren(g, d, b, last, todo), D \cup {b})
    BY <1>8, <2>1, <2>2, <2>3, ChildrenWait
  <2> QED
    BY <2>4, Zenon DEF last
<1> HIDE DEF more
<1>11. w.todo = more /\ w.fn = new
  BY <1>1
<1>12. new.ops = [fn.ops EXCEPT ![b] = done.ops] /\ new.phis = phis /\ new.versions = done.versions
  OBVIOUS
<1> HIDE DEF new
<1>13. PhisShaped(g, n, places, new)
  <2>1. DOMAIN new.ops = 1 .. n
    BY <1>2, <1>12 DEF PhisShaped
  <2>2. /\ DOMAIN phis = 1 .. n
        /\ \A c \in 1 .. n :
          /\ DOMAIN phis[c] = DOMAIN fn.phis[c] /\ IsTabled(phis[c])
          /\ \A v \in DOMAIN fn.phis[c] :
               DOMAIN phis[c][v].in = Predecessors(g, c) /\ IsPhi(phis[c][v])
    BY <1>2, <1>3, PhisFilled
  <2>3. IsForm(new)
    BY DEF IsForm, new
  <2> HIDE DEF phis
  <2> QED
    BY <1>2, <1>9, <1>12, <2>1, <2>2, <2>3 DEF PhisShaped
<1>14. after[b][1] = [v \in Vars |-> IF v \in DOMAIN fn.phis[b] THEN fn.versions[v] + 1 ELSE top[v]]
  BY <1>6, <1>7
<1>15. b # EntryBlock => d[b] \in (1 .. n) \ {b}
  <2>1. D \subseteq 1 .. n
    <3>1. Reached(g) \subseteq 1 .. n
      BY ClosureSpec DEF Reached
    <3> QED
      BY <1>2, <3>1 DEF Waits
  <2> QED
    BY <1>3, <2>1
<1>16. BlockDone(g, d, new, after, b)
  <2>1. top = AtStart(g, d, after, b)
    <3>1. CASE b = EntryBlock
      BY <1>3, <3>1 DEF AtStart
    <3>2. CASE b # EntryBlock
      BY <1>3, <1>8, <1>15, <3>2 DEF AtStart, AtEnd, Elsewhere
    <3> QED
      BY <3>1, <3>2
  <2>2. new.ops[b] = done.ops
    BY <1>2, <1>3, <1>12 DEF PhisShaped
  <2>3. BlockRenamed(g.ops[b], new.ops[b], after[b])
    BY <1>6, <1>7, <2>2
  <2>4. \A k \in 1 .. Len(g.ops[b]) + 1 : Current(after[b][k], new.versions)
    BY <1>6, <1>7, <1>12
  <2>5. new.phis = FilledPhis(g, b, AtEnd(g, after, b), fn)
    BY <1>9, <1>12
  <2>6. BlockNamed(g, b, fn, top, new, after[b])
    BY <1>14, <2>3, <2>4 DEF BlockNamed
  <2> QED
    BY <1>2, <1>3, <2>1, <2>5, <2>6, NowDone
<1>17. ASSUME NEW x \in D
       PROVE  BlockDone(g, d, new, after, x)
  <2>1. /\ x \in 1 .. n /\ x # b /\ (x = EntryBlock \/ d[x] \in D) /\ D \subseteq 1 .. n
    <3>1. Reached(g) \subseteq 1 .. n
      BY ClosureSpec DEF Reached
    <3> QED
      BY <1>2, <1>3, <3>1 DEF Waits
  <2>2. x = EntryBlock \/ d[x] \in (1 .. n) \ {b}
    BY <1>3, <2>1
  <2>3. BlockDone(g, d, fn, cur, x)
    BY <1>2
  <2>4. MoreVersions(fn.versions, new.versions) /\ new.versions \in [Vars -> Nat]
    BY <1>6, <1>9, <1>12
  <2> QED
    BY <1>2, <1>3, <1>8, <1>12, <2>1, <2>2, <2>3, <2>4, StaysDone
<1>18. \A c \in 1 .. n :
         /\ DOMAIN new.phis[c] = DOMAIN fn.phis[c]
         /\ \A v \in DOMAIN fn.phis[c] :
              new.phis[c][v].ver = IF c = b THEN fn.versions[v] + 1 ELSE fn.phis[c][v].ver
  <2>1. new.phis = FilledPhis(g, b, done.top, fn)
    BY <1>12
  <2> HIDE DEF phis
  <2> QED
    BY <1>2, <1>3, <2>1, PhisFilled
<1>19. new.ops[b] = done.ops /\ \A c \in (1 .. n) \ {b} : new.ops[c] = fn.ops[c]
  BY <1>2, <1>3, <1>12 DEF PhisShaped
<1>20. NewIn(fn, new, b)
  <2> DEFINE old == g.ops[b]
             first == Begun(g, b, top, fn).versions
  <2>1. \A i \in 1 .. Len(old) : old[i].out \in Vars \cup {None}
    <3>1. \A op \in Operations(Vars) : op.out \in Vars \cup {None}
      BY DEF Operations
    <3>2. old \in Seq(Operations(Vars))
      BY <1>5
    <3> HIDE DEF old
    <3> QED
      BY <3>1, <3>2
  <2>2. first = [v \in Vars |-> fn.versions[v] + IF v \in DOMAIN new.phis[b] THEN 1 ELSE 0]
    <3>1. DOMAIN new.phis[b] = DOMAIN fn.phis[b]
      BY <1>3, <1>18
    <3> DEFINE P == DOMAIN fn.phis[b]
               versions == [v \in Vars |-> fn.versions[v] + IF v \in P THEN 1 ELSE 0]
               other == [v \in Vars |-> IF v \in P THEN versions[v] ELSE top[v]]
    <3>2. Begun(g, b, top, fn) = [top |-> other, versions |-> versions, ops |-> << >>]
      BY Zenon DEF Begun
    <3> HIDE DEF versions, other
    <3>3. Begun(g, b, top, fn).versions = versions
      BY <3>2
    <3> QED
      BY <3>1, <3>3 DEF versions
  <2>3. \A v \in DOMAIN new.phis[b] : v \in Vars /\ new.phis[b][v].ver = fn.versions[v] + 1
                                     /\ now[1][v] = fn.versions[v] + 1
    BY <1>2, <1>3, <1>6, <1>18 DEF PhisShaped
  <2>4. BlockRenamed(old, new.ops[b], now) /\ Numbers(old, first, now)
    BY <1>6, <1>19
  <2>5. \A k \in 1 .. Len(old) + 1 : Current(now[k], new.versions)
    BY <1>6, <1>12
  <2>6. fn.versions \in [Vars -> Nat]
    BY <1>2 DEF PhisShaped
  <2>7. \A v \in Vars : first[v] = fn.versions[v] + IF v \in DOMAIN new.phis[b] THEN 1 ELSE 0
    BY <2>2
  <2> HIDE DEF old, first
  <2> QED
    BY <2>1, <2>3, <2>4, <2>5, <2>6, <2>7, BlockNumbers
<1>21. Numbered(new, D \cup {b}) /\ \A c \in (1 .. n) \ (D \cup {b}) : new.ops[c] = << >>
  <2>1. Numbered(fn, D) /\ (\A c \in (1 .. n) \ D : fn.ops[c] = << >>) /\ D \subseteq 1 .. n
    <3>1. Reached(g) \subseteq 1 .. n
      BY ClosureSpec DEF Reached
    <3> QED
      BY <3>1 DEF Renaming, Waits
  <2>2. \A c \in D : c # b
    BY <1>3
  <2>3. \A x : \A c \in D : \A i : DefinedAt(new, c, i, x) <=> DefinedAt(fn, c, i, x)
    BY <1>18, <1>19, <2>1, <2>2 DEF DefinedAt
  <2>4. \A v \in Vars : fn.versions[v] \in Nat /\ new.versions[v] \in Nat /\ fn.versions[v] <= new.versions[v]
    BY <1>2, <1>6, <1>9, <1>12 DEF PhisShaped, MoreVersions
  <2>5. Numbered(new, D \cup {b})
    BY <1>20, <2>1, <2>2, <2>3, <2>4, NumberedOn
  <2> QED
    BY <1>19, <2>1, <2>5
<1>22. Renaming(g, n, d, places, w, after, D \cup {b})
  BY <1>7, <1>10, <1>11, <1>13, <1>16, <1>17, <1>21 DEF Renaming
<1> QED
  BY <1>3, <1>22 DEF w

\* Phis without versions, and the entry to be renamed first.
Unrenamed(g, places) ==
  LET Phis(b) == [v \in {w \in Vars : b \in places[w]} |->
                    [ver |-> 0, in |-> [p \in Predecessors(g, b) |-> <<v, 0>>]]]
  IN [todo |-> <<[block |-> EntryBlock, top |-> [v \in Vars |-> 0]]>>,
      fn   |-> [ops      |-> [b \in Blocks(g) |-> << >>],
                phis     |-> [b \in Blocks(g) |-> Phis(b)],
                versions |-> [v \in Vars |-> 0]]]

\* That is where the walk begins.
LEMMA RenamingBegins ==
  ASSUME NEW g, NEW n, IsGraph(g, n), NEW d, NEW places, NEW cur, cur = [b \in 1 .. n |-> cur[b]]
  PROVE  Renaming(g, n, d, places, Unrenamed(g, places), cur, {})
<1> DEFINE zero == [v \in Vars |-> 0]
           first == [block |-> EntryBlock, top |-> zero]
           todo == <<first>>
           slots == [b \in 1 .. n |-> [v \in {w \in Vars : b \in places[w]} |->
                       [ver |-> 0, in |-> [p \in Predecessors(g, b) |-> <<v, 0>>]]]]
           none == [b \in 1 .. n |-> << >>]
           fn == [ops |-> none, phis |-> slots, versions |-> zero]
           w == Unrenamed(g, places)
           T == [block : 1 .. n, top : [Vars -> Nat]]
<1>1. Blocks(g) = 1 .. n /\ EntryBlock \in 1 .. n /\ EntryBlock \in Reached(g)
  BY Edges, ClosureSpec DEF Reached
<1>2. w = [todo |-> todo, fn |-> fn]
  BY <1>1, Zenon DEF Unrenamed
<1> HIDE DEF w
<1>3. w.todo = todo /\ w.fn = fn
  BY <1>2
<1>4. fn.ops = none /\ fn.phis = slots /\ fn.versions = zero
  OBVIOUS
<1> HIDE DEF fn
<1>5. PhisShaped(g, n, places, fn)
  <2>1. DOMAIN none = 1 .. n /\ zero \in [Vars -> Nat]
    OBVIOUS
  <2> HIDE DEF none, zero
  <2>2. \A c \in 1 .. n : DOMAIN slots[c] = {v \in Vars : c \in places[v]}
    OBVIOUS
  <2>3. ASSUME NEW c \in 1 .. n, NEW v \in DOMAIN slots[c]
        PROVE  DOMAIN slots[c][v].in = Predecessors(g, c)
    BY <2>3
  <2>4. DOMAIN slots = 1 .. n /\ \A c \in 1 .. n : IsTabled(slots[c])
    BY DEF IsTabled
  <2>5. ASSUME NEW c \in 1 .. n, NEW v \in DOMAIN slots[c]
        PROVE  IsPhi(slots[c][v])
    BY <2>5 DEF IsPhi
  <2>6. IsForm(fn)
    BY DEF IsForm, fn
  <2> HIDE DEF slots
  <2> QED
    BY <1>4, <2>1, <2>2, <2>3, <2>4, <2>5, <2>6 DEF PhisShaped
<1>6. AtStart(g, d, cur, EntryBlock) = zero
  BY DEF AtStart
<1>7. first \in T /\ first.block = EntryBlock /\ first.top = zero
  <2>1. zero \in [Vars -> Nat]
    OBVIOUS
  <2> HIDE DEF zero
  <2> QED
    BY <1>1, <2>1
<1> HIDE DEF first, zero
<1>8. todo \in Seq(T) /\ DOMAIN todo = {1} /\ todo[1] = first
  BY <1>7
<1> HIDE DEF todo
<1>9. Waits(g, n, d, cur, todo, {})
  <2>1. ASSUME NEW x \in Reached(g) \ {}, x = EntryBlock \/ d[x] \in {}
        PROVE  \E i \in DOMAIN todo : todo[i].block = x
    BY <1>7, <1>8, <2>1
  <2>2. \A i, j \in DOMAIN todo : todo[i].block = todo[j].block => i = j
    BY <1>8
  <2>3. ASSUME NEW i \in DOMAIN todo
        PROVE  LET x == todo[i].block IN
               /\ x \in Reached(g) \ {} /\ (x = EntryBlock \/ d[x] \in {})
               /\ todo[i].top = AtStart(g, d, cur, x)
    BY <1>1, <1>6, <1>7, <1>8, <2>3
  <2>4. todo \in Seq([block : 1 .. n, top : [Vars -> Nat]])
    BY <1>8
  <2> HIDE DEF T
  <2> QED
    BY <2>1, <2>2, <2>3, <2>4 DEF Waits
<1>10. Numbered(fn, {}) /\ \A b \in (1 .. n) \ {} : fn.ops[b] = << >>
  BY <1>4 DEF Numbered
<1> QED
  BY <1>3, <1>5, <1>9, <1>10 DEF Renaming, w

\* After so many turns, so many blocks are done, or all.
Turned(g, n, d, places, walk, i) ==
  \E cur, D : /\ Renaming(g, n, d, places, walk, cur, D)
              /\ walk.todo = << >> \/ Cardinality(D) >= i

\* One turn.
LEMMA TurnRenames ==
  ASSUME NEW g, NEW n, IsGraph(g, n), OpsTyped(g, n), NEW d, IsImmediate(g, n, d), NEW places,
         NEW walk, NEW i \in Nat, Turned(g, n, d, places, walk, i)
  PROVE  Turned(g, n, d, places, RenameBlock(g, d, walk), i + 1)
<1> DEFINE w == RenameBlock(g, d, walk)
<1>1. PICK cur, D : /\ Renaming(g, n, d, places, walk, cur, D)
                    /\ walk.todo = << >> \/ Cardinality(D) >= i
  BY DEF Turned
<1>2. CASE walk.todo = << >>
  <2>1. w = walk
    BY <1>2 DEF RenameBlock
  <2> QED
    BY <1>1, <1>2, <2>1 DEF Turned
<1>3. CASE walk.todo # << >>
  <2>1. PICK after, b : b \in Reached(g) \ D /\ Renaming(g, n, d, places, w, after, D \cup {b})
    BY <1>1, <1>3, OneRenamed
  <2>2. D \subseteq 1 .. n /\ b \notin D
    <3>1. Reached(g) \subseteq 1 .. n /\ D \subseteq Reached(g)
      BY <1>1, ClosureSpec DEF Reached, Renaming, Waits
    <3> QED
      BY <2>1, <3>1
  <2>3. IsFiniteSet(D)
    <3>1. n \in Int /\ 1 \in Int
      BY DEF IsGraph
    <3>2. IsFiniteSet(1 .. n)
      BY <3>1, FS_Interval
    <3> QED
      BY <2>2, <3>2, FS_Subset
  <2>4. Cardinality(D \cup {b}) = Cardinality(D) + 1 /\ Cardinality(D) \in Nat
    BY <2>2, <2>3, FS_AddElement, FS_CardinalityType
  <2>5. Cardinality(D \cup {b}) >= i + 1
    <3>1. Cardinality(D) >= i
      BY <1>1, <1>3
    <3> QED
      BY <2>4, <3>1
  <2> HIDE DEF w
  <2>6. Turned(g, n, d, places, w, i + 1)
    BY <2>1, <2>5 DEF Turned
  <2> QED
    BY <2>6 DEF w
<1> QED
  BY <1>2, <1>3

\* All that is reached has been renamed.
IsRenaming(g, n, d, places, fn, cur) ==
  /\ PhisShaped(g, n, places, fn)
  /\ \A b \in Reached(g) : BlockDone(g, d, fn, cur, b)
  /\ Numbered(fn, Reached(g)) /\ \A b \in (1 .. n) \ Reached(g) : fn.ops[b] = << >>

\* The turns suffice.
LEMMA AllTurned ==
  ASSUME NEW g, NEW n, IsGraph(g, n), NEW d, NEW place, Descends(g, n, d, place), NEW places,
         NEW walk, Turned(g, n, d, places, walk, n)
  PROVE  \E cur : IsRenaming(g, n, d, places, walk.fn, cur)
<1>1. PICK cur, D : /\ Renaming(g, n, d, places, walk, cur, D)
                    /\ walk.todo = << >> \/ Cardinality(D) >= n
  BY DEF Turned
<1>2. /\ D \subseteq Reached(g) /\ Reached(g) \subseteq 1 .. n /\ n \in Nat
      /\ \A x \in Reached(g) \ D :
           x = EntryBlock \/ d[x] \in D => \E i \in DOMAIN walk.todo : walk.todo[i].block = x
  BY <1>1, ClosureSpec DEF Reached, Renaming, Waits, IsGraph
<1>3. CASE walk.todo = << >>
  <2>1. \A x \in Reached(g) : x = EntryBlock \/ d[x] \in D => x \in D
    BY <1>2, <1>3
  <2> DEFINE Good == {k \in Nat : \A x \in Reached(g) : place[x] <= k => x \in D}
  <2>2. /\ \A x \in Reached(g) : place[x] \in 1 .. n
        /\ \A x \in Reached(g) \ {EntryBlock} : d[x] \in Reached(g) /\ place[d[x]] < place[x]
    BY DEF Descends
  <2>3. 0 \in Good
    BY <2>2
  <2>4. ASSUME NEW k \in Nat, k \in Good
        PROVE  k + 1 \in Good
    <3> SUFFICES ASSUME NEW x \in Reached(g), place[x] <= k + 1
                 PROVE  x \in D
      OBVIOUS
    <3>1. CASE x = EntryBlock
      BY <2>1, <3>1
    <3>2. CASE x # EntryBlock
      <4>1. d[x] \in Reached(g) /\ place[d[x]] < place[x] /\ place[x] \in Nat /\ place[d[x]] \in Nat
        BY <2>2, <3>2
      <4>2. place[d[x]] <= k
        BY <4>1
      <4> QED
        BY <2>1, <2>4, <4>1, <4>2
    <3> QED
      BY <3>1, <3>2
  <2>5. n \in Good
    <3> HIDE DEF Good
    <3>1. Nat \subseteq Good
      BY <2>3, <2>4, NumbersInduct, Zenon
    <3> QED
      BY <1>2, <3>1
  <2>6. Reached(g) \subseteq D
    BY <1>2, <2>2, <2>5
  <2>7. D = Reached(g)
    BY <1>2, <2>6
  <2> QED
    BY <1>1, <2>7 DEF IsRenaming, Renaming
<1>4. CASE walk.todo # << >>
  <2>1. D \subseteq 1 .. n /\ Cardinality(D) >= n
    BY <1>1, <1>2, <1>4
  <2>2. IsFiniteSet(1 .. n) /\ Cardinality(1 .. n) = n
    <3>1. n \in Int /\ 1 \in Int
      BY DEF IsGraph
    <3> QED
      BY <1>2, <3>1, FS_Interval
  <2>3. Cardinality(D) <= n /\ Cardinality(D) \in Nat
    BY <2>1, <2>2, FS_Subset, FS_CardinalityType
  <2>4. Cardinality(D) = n
    BY <1>2, <2>1, <2>3
  <2>5. D = 1 .. n
    BY <2>1, <2>2, <2>4, FS_Subset
  <2>6. Reached(g) \subseteq D
    BY <1>2, <2>5
  <2>7. D = Reached(g)
    BY <1>2, <2>6
  <2> QED
    BY <1>1, <2>7 DEF IsRenaming, Renaming
<1> QED
  BY <1>3, <1>4

\* build_ssa renames every block that is reached.
LEMMA AllRenamed ==
  ASSUME NEW g, NEW n, IsGraph(g, n), OpsTyped(g, n)
  PROVE  \E cur : IsRenaming(g, n, Dominators(g), PhiPlacement(g, Vars), BuildSsa(g), cur)
<1> DEFINE d == Dominators(g)
           place == Places(g, ReversePostorder(g))
           places == PhiPlacement(g, Vars)
           start == Unrenamed(g, places)
           Made(t, k) == /\ t = [i \in 0 .. k |-> t[i]] /\ t[0] = start
                         /\ \A i \in 1 .. k : t[i] = RenameBlock(g, d, t[i - 1])
           Good == {k \in Nat : \E t : Made(t, k)}
<1>0. n \in Nat /\ Len(g.ops) = n /\ IsImmediate(g, n, d) /\ Descends(g, n, d, place)
  BY DominatorsDescend DEF IsGraph
<1> HIDE DEF d, place, places, start
<1>1. 0 \in Good
  <2> DEFINE t == [i \in 0 .. 0 |-> start]
  <2>1. Made(t, 0)
    OBVIOUS
  <2> QED
    BY <2>1
<1>2. ASSUME NEW k \in Nat, k \in Good
      PROVE  k + 1 \in Good
  <2>1. PICK t : Made(t, k)
    BY <1>2
  <2> DEFINE last == RenameBlock(g, d, t[k])
             u == [i \in 0 .. k + 1 |-> IF i = k + 1 THEN last ELSE t[i]]
  <2> HIDE DEF last
  <2>2. u[0] = start /\ u = [i \in 0 .. k + 1 |-> u[i]]
    <3>1. 0 \in 0 .. k + 1 /\ 0 # k + 1
      OBVIOUS
    <3>2. t[0] = start
      BY <2>1
    <3>3. u[0] = t[0]
      BY <3>1
    <3>4. u = [i \in 0 .. k + 1 |-> u[i]]
      OBVIOUS
    <3> HIDE DEF u
    <3> QED
      BY <3>2, <3>3, <3>4
  <2>3. ASSUME NEW i \in 1 .. k + 1
        PROVE  u[i] = RenameBlock(g, d, u[i - 1])
    <3>1. CASE i = k + 1
      <4>1. u[i] = last /\ u[i - 1] = t[k]
        BY <3>1
      <4> QED
        BY <3>1, <4>1, Zenon DEF last
    <3>2. CASE i # k + 1
      <4>1. i \in 1 .. k /\ u[i] = t[i] /\ u[i - 1] = t[i - 1]
        BY <3>2
      <4> HIDE DEF u
      <4> QED
        BY <2>1, <4>1
    <3> QED
      BY <3>1, <3>2
  <2> HIDE DEF u
  <2>4. Made(u, k + 1)
    BY <2>2, <2>3
  <2>5. k + 1 \in Nat
    OBVIOUS
  <2>6. \E x : Made(x, k + 1)
    BY <2>4, Zenon
  <2> HIDE DEF Made
  <2> QED
    BY <2>5, <2>6
<1>3. PICK t : Made(t, n)
  <2>1. n \in Good
    <3> HIDE DEF Good
    <3> QED
      BY <1>0, <1>1, <1>2, NumbersInduct, Zenon
  <2> QED
    BY <2>1
<1> DEFINE after == CHOOSE a : a = [i \in 0 .. n |-> IF i = 0 THEN start ELSE RenameBlock(g, d, a[i - 1])]
<1>4. t = [i \in 0 .. n |-> IF i = 0 THEN start ELSE RenameBlock(g, d, t[i - 1])]
  <2>1. \A i \in 0 .. n : t[i] = IF i = 0 THEN start ELSE RenameBlock(g, d, t[i - 1])
    <3>1. \A i \in 0 .. n : i = 0 \/ i \in 1 .. n
      BY <1>0
    <3> QED
      BY <1>3, <3>1
  <2> QED
    BY <1>3, <2>1
<1>5. after = [i \in 0 .. n |-> IF i = 0 THEN start ELSE RenameBlock(g, d, after[i - 1])]
  BY <1>4
<1>6. after[n] = t[n]
  <2> HIDE DEF after
  <2>1. after[0] = t[0] /\ \A i \in 1 .. n : after[i] = RenameBlock(g, d, after[i - 1])
    <3>1. 0 \in 0 .. n /\ \A i \in 1 .. n : i \in 0 .. n /\ i # 0
      BY <1>0
    <3> QED
      BY <1>3, <1>5, <3>1
  <2>2. \A i \in 1 .. n : after[i - 1] = t[i - 1] => after[i] = t[i]
    BY <1>3, <2>1
  <2> QED
    BY <1>0, <2>1, <2>2, TablesMeet
<1>7. BuildSsa(g) = after[n].fn
  BY <1>0, Zenon DEF BuildSsa, Loop, Unrenamed, start, d, places
<1> HIDE DEF after
<1> DEFINE All == {i \in Nat : i <= n => Turned(g, n, d, places, t[i], i)}
<1>8. 0 \in All
  <2> DEFINE cur == [b \in 1 .. n |-> 0]
  <2>1. cur = [b \in 1 .. n |-> cur[b]]
    OBVIOUS
  <2> HIDE DEF cur
  <2>2. Renaming(g, n, d, places, start, cur, {})
    BY <2>1, RenamingBegins DEF start
  <2>3. Cardinality({}) >= 0
    BY FS_EmptySet
  <2>4. Turned(g, n, d, places, start, 0)
    BY <2>2, <2>3 DEF Turned
  <2> QED
    BY <1>3, <2>4
<1>9. ASSUME NEW k \in Nat, k \in All
      PROVE  k + 1 \in All
  <2> SUFFICES ASSUME k + 1 <= n
               PROVE  Turned(g, n, d, places, t[k + 1], k + 1)
    OBVIOUS
  <2>1. k <= n /\ k + 1 \in 1 .. n /\ (k + 1) - 1 = k
    BY <1>0
  <2>2. t[k + 1] = RenameBlock(g, d, t[k])
    BY <1>3, <2>1
  <2>3. Turned(g, n, d, places, t[k], k)
    BY <1>9, <2>1
  <2> QED
    BY <1>0, <2>2, <2>3, TurnRenames
<1>10. n \in All
  <2> HIDE DEF All
  <2>1. Nat \subseteq All
    BY <1>8, <1>9, NumbersInduct, Zenon
  <2> QED
    BY <1>0, <2>1
<1>11. Turned(g, n, d, places, t[n], n)
  BY <1>0, <1>10
<1>12. \E cur : IsRenaming(g, n, d, places, t[n].fn, cur)
  BY <1>0, <1>11, AllTurned
<1> QED
  BY <1>6, <1>7, <1>12 DEF d, places

-----------------------------------------------------------------------------
(* The operations of a graph *)

\* The operations from one instruction to another.
LEMMA InstructionsJoin ==
  ASSUME NEW O, NEW insns \in Seq(Seq(O) \ {<< >>}), NEW a \in 1 .. Len(insns), NEW e \in a .. Len(insns)
  PROVE  Loop(LAMBDA block, k : block \o insns[a + k - 1], << >>, e + 1 - a) \in Seq(O) \ {<< >>}
<1> DEFINE m == Len(insns)
           n == e + 1 - a
           All == Seq(O)
           Some == All \ {<< >>}
           S == [i \in 0 .. n |-> IF i = 0 THEN All ELSE Some]
           f == [i \in 1 .. n |-> [x \in All |-> x \o insns[a + i - 1]]]
           start == << >>
<1>0. m \in Nat /\ a \in Nat /\ e \in Nat /\ a <= e /\ e <= m /\ 1 <= a
  OBVIOUS
<1>1. n \in Nat /\ 1 <= n /\ \A i \in 1 .. n : a + i - 1 \in 1 .. m
  <2> HIDE DEF m
  <2> QED
    BY <1>0
<1>2. \A k \in 1 .. m : insns[k] \in Some
  OBVIOUS
<1>3. \A x \in All : \A y \in Some : x \o y \in Some
  OBVIOUS
<1>4. start \in All
  OBVIOUS
<1> HIDE DEF n, m, All, Some, start
<1>5. ASSUME NEW i \in 1 .. n, NEW x \in S[i - 1]
      PROVE  x \in All /\ f[i][x] = x \o insns[a + i - 1] /\ f[i][x] \in S[i]
  <2>1. i \in 0 .. n /\ i - 1 \in 0 .. n /\ i # 0
    BY <1>1
  <2>2. S[i] = Some /\ x \in All
    BY <2>1 DEF Some
  <2>3. insns[a + i - 1] \in Some
    BY <1>1, <1>2
  <2>4. f[i][x] = x \o insns[a + i - 1]
    BY <2>2
  <2> QED
    BY <1>3, <2>2, <2>3, <2>4
<1>6. PICK t : Tables(t, n, S, start, f)
  <2>1. start \in S[0]
    <3>1. 0 \in 0 .. n
      BY <1>1
    <3> QED
      BY <1>4, <3>1
  <2>2. Leads(n, S, start, f)
    <3> HIDE DEF S, f
    <3> QED
      BY <1>1, <1>5, <2>1 DEF Leads
  <2> HIDE DEF S, f
  <2> QED
    BY <2>2, TableOfSteps
<1>7. t = [i \in 0 .. n |-> t[i]] /\ t[0] = start /\ t[n] \in Some
  <2>1. n \in 0 .. n /\ n # 0
    BY <1>1
  <2>2. S[n] = Some
    BY <2>1
  <2> HIDE DEF S, f
  <2> QED
    BY <1>6, <2>1, <2>2 DEF Tables, IsTable
<1>8. \A i \in 1 .. n : t[i] = t[i - 1] \o insns[a + i - 1]
  <2> SUFFICES ASSUME NEW i \in 1 .. n
               PROVE  t[i] = t[i - 1] \o insns[a + i - 1]
    OBVIOUS
  <2>1. i - 1 \in 0 .. n
    BY <1>1
  <2> HIDE DEF S, f
  <2>2. t[i - 1] \in S[i - 1] /\ t[i] = f[i][t[i - 1]]
    BY <1>6, <2>1 DEF Tables
  <2> QED
    BY <1>5, <2>2
<1> HIDE DEF S, f
<1> DEFINE after == CHOOSE r : r = [i \in 0 .. n |-> IF i = 0 THEN start ELSE r[i - 1] \o insns[a + i - 1]]
<1>9. t = [i \in 0 .. n |-> IF i = 0 THEN start ELSE t[i - 1] \o insns[a + i - 1]]
  <2>1. \A i \in 0 .. n : t[i] = IF i = 0 THEN start ELSE t[i - 1] \o insns[a + i - 1]
    <3>1. \A i \in 0 .. n : i = 0 \/ i \in 1 .. n
      BY <1>1
    <3> QED
      BY <1>7, <1>8, <3>1, Zenon
  <2> QED
    BY <1>7, <2>1
<1>10. after = [i \in 0 .. n |-> IF i = 0 THEN start ELSE after[i - 1] \o insns[a + i - 1]]
  BY <1>9, Zenon
<1>11. after[n] = t[n]
  <2> HIDE DEF after
  <2>1. after[0] = t[0] /\ \A i \in 1 .. n : after[i] = after[i - 1] \o insns[a + i - 1]
    <3>1. 0 \in 0 .. n /\ \A i \in 1 .. n : i \in 0 .. n /\ i # 0
      BY <1>1
    <3> QED
      BY <1>7, <1>10, <3>1
  <2>2. \A i \in 1 .. n : after[i - 1] = t[i - 1] => after[i] = t[i]
    BY <1>8, <2>1
  <2> QED
    BY <1>1, <2>1, <2>2, TablesMeet
<1>12. Loop(LAMBDA block, k : block \o insns[a + k - 1], << >>, e + 1 - a) = after[n]
  BY Zenon DEF Loop, n, start
<1> QED
  BY <1>7, <1>11, <1>12 DEF Some, All

\* Every block has operations.
LEMMA OpsBuilt ==
  ASSUME NEW insns \in Seq(Seq(Operations(Vars)) \ {<< >>}), insns # << >>, NEW U, NEW hints \in Seq(U)
  PROVE  OpsTyped(BuildCfg(insns, hints), Cardinality(Leaders(insns, hints)))
<1> DEFINE leaders == Leaders(insns, hints)
           n == Cardinality(leaders)
           m == Len(insns)
           g == BuildCfg(insns, hints)
           starts == Ascending(leaders)
           ops == [i \in DOMAIN starts |-> BlockOps(insns, starts, i)]
<1>1. m \in Nat \ {0} /\ DOMAIN insns = 1 .. m
  OBVIOUS
<1>2. leaders \in SUBSET (1 .. m)
  BY <1>1 DEF Leaders
<1> HIDE DEF leaders, m
<1>3. /\ n \in Nat /\ starts \in [1 .. n -> leaders]
      /\ \A i, j \in 1 .. n : i < j => starts[i] < starts[j]
  BY <1>1, <1>2, AscendingOrder
<1>4. g.ops = ops
  <2> DEFINE After(i) == IF i = Len(starts) THEN Len(insns) + 1 ELSE starts[i + 1]
             succ == [i \in DOMAIN ops |-> Successors(leaders, hints, Last(ops[i]), After(i))]
  <2>1. g = [ops |-> ops, succ |-> succ]
    BY Zenon DEF BuildCfg, leaders
  <2> HIDE DEF ops, succ, g
  <2> QED
    BY <2>1
<1> HIDE DEF starts, n
<1>5. Len(starts) = n /\ DOMAIN starts = 1 .. n
  BY <1>3
<1>6. ASSUME NEW i \in 1 .. n
      PROVE  BlockOps(insns, starts, i) \in Seq(Operations(Vars)) \ {<< >>}
  <2> DEFINE a == starts[i]
             e == IF i = Len(starts) THEN Len(insns) ELSE starts[i + 1] - 1
  <2>1. a \in 1 .. m /\ e \in a .. m
    <3>1. a \in 1 .. m
      BY <1>2, <1>3
    <3>2. CASE i = n
      BY <1>1, <1>5, <3>1, <3>2 DEF m
    <3>3. CASE i # n
      <4> DEFINE q == i + 1
      <4>1. q \in 1 .. n /\ i < q
        BY <1>3, <3>3
      <4>2. e = starts[q] - 1
        BY <1>5, <3>3
      <4> HIDE DEF q, e
      <4>3. starts[q] \in 1 .. m /\ starts[i] < starts[q]
        BY <1>2, <1>3, <4>1
      <4> HIDE DEF a
      <4>4. a < starts[q]
        BY <4>3 DEF a
      <4> QED
        BY <1>1, <3>1, <4>2, <4>3, <4>4
    <3> QED
      BY <3>2, <3>3
  <2>2. BlockOps(insns, starts, i) = Loop(LAMBDA block, k : block \o insns[a + k - 1], << >>, e + 1 - a)
    BY Zenon DEF BlockOps
  <2> HIDE DEF a, e
  <2>3. a \in 1 .. Len(insns) /\ e \in a .. Len(insns)
    BY <2>1 DEF m
  <2>4. Loop(LAMBDA block, k : block \o insns[a + k - 1], << >>, e + 1 - a) \in Seq(Operations(Vars)) \ {<< >>}
    BY <2>3, InstructionsJoin
  <2> QED
    BY <2>2, <2>4
<1>7. \A i \in 1 .. n : g.ops[i] = BlockOps(insns, starts, i)
  BY <1>4, <1>5
<1> HIDE DEF g, ops
<1>8. OpsTyped(g, n)
  BY <1>6, <1>7 DEF OpsTyped
<1> QED
  BY <1>8 DEF g, n, leaders

-----------------------------------------------------------------------------
(* What is current has the values of the variables *)

\* What is current holds the variables.
Agree(values, versions, top, e) ==
  \A v \in Vars : DOMAIN values[v] = 0 .. versions[v] /\ values[v][top[v]] = e[v]

\* The new operation of an index.
LEMMA OneOfIndex ==
  ASSUME NEW ops, NEW new, NEW cur, BlockRenamed(ops, new, cur), NEW i \in 1 .. Len(ops)
  PROVE  {op \in ToSet(new) : op.at = i} = {new[i]}
<1>1. DOMAIN new = 1 .. Len(ops) /\ \A k \in 1 .. Len(ops) : new[k].at = k
  BY DEF BlockRenamed, Renames
<1> QED
  BY <1>1 DEF ToSet

\* A variable as its one version.
Once(e) == [v \in Vars |-> [n \in {0} |-> e[v]]]

\* It reads what the function does.
LEMMA SameReads ==
  ASSUME NEW op \in Operations(Vars), NEW new, NEW before, NEW next, NEW i, Renames(op, new, before, next, i),
         NEW values, NEW versions, NEW e, Agree(values, versions, before, e)
  PROVE  ReadAll(values, new) = ReadAll(Once(e), op)
<1> DEFINE plain == [v \in Vars |-> [n \in {0} |-> e[v]]]
           ins == op.ins
           renamed == NewIns(op, before)
<1>1. ins \in Seq(Operands(Vars)) /\ DOMAIN ins = 1 .. Len(ins)
  BY DEF Operations
<1>2. new.ins = renamed
  BY DEF Renames
<1>3. renamed = [k \in DOMAIN ins |-> IF IsConst(ins[k]) THEN ins[k] ELSE <<ins[k][1], before[Key(ins[k][1])]>>]
  BY DEF NewIns
<1> HIDE DEF renamed
<1>4. ASSUME NEW k \in DOMAIN ins
      PROVE  Read(values, renamed[k]) = Read(plain, ins[k])
  <2> DEFINE x == ins[k]
  <2>1. x \in Operands(Vars)
    BY <1>1
  <2>2. renamed[k] = IF IsConst(x) THEN x ELSE <<x[1], before[Key(x[1])]>>
    BY <1>3
  <2> HIDE DEF x, ins
  <2>3. CASE IsConst(x)
    BY <2>2, <2>3 DEF Read, x
  <2>4. CASE ~IsConst(x)
    <3>1. x[1] # "const" /\ x[1] \in Vars /\ x[2] = 0
      BY <2>1, <2>4 DEF Operands, IsConst
    <3>5. Key(x[1]) = x[1] /\ \A y : Cut(x[1], y) = y
      BY <3>1, FullWidth
    <3>2. renamed[k] = <<x[1], before[x[1]]>>
      BY <2>2, <2>4, <3>5
    <3>3. Read(values, renamed[k]) = values[x[1]][before[x[1]]]
      BY <3>1, <3>2, <3>5 DEF Read, IsConst
    <3>4. Read(plain, x) = e[x[1]]
      BY <2>4, <3>1, <3>5 DEF Read
    <3> QED
      BY <3>1, <3>3, <3>4 DEF Agree, x
  <2> QED
    BY <2>3, <2>4
<1>5. ReadAll(values, new) = [k \in DOMAIN renamed |-> Read(values, renamed[k])]
  BY <1>2 DEF ReadAll
<1>6. ReadAll(plain, op) = [k \in DOMAIN ins |-> Read(plain, ins[k])]
  BY DEF ReadAll
<1>7. DOMAIN renamed = DOMAIN ins
  BY <1>3
<1> HIDE DEF plain, ins
<1> QED
  BY <1>4, <1>5, <1>6, <1>7 DEF plain, Once

\* A block with no definition of a variable, and no phi, leaves what is current.
LEMMA EndsCarried ==
  ASSUME NEW g, NEW n, IsGraph(g, n), OpsTyped(g, n), NEW d, NEW fn, NEW cur,
         IsRenaming(g, n, d, PhiPlacement(g, Vars), fn, cur), NEW v \in Vars,
         NEW x \in Reached(g) \ {EntryBlock}, x \notin DefBlocks(g, v), x \notin PhiPlacement(g, Vars)[v]
  PROVE  AtEnd(g, cur, x)[v] = AtEnd(g, cur, d[x])[v]
<1> DEFINE m == Len(g.ops[x])
           c == cur[x]
           Good == {k \in Nat : k <= m => c[k + 1][v] = c[1][v]}
<1>1. x \in 1 .. n /\ Blocks(g) = 1 .. n
  <2>1. Reached(g) \subseteq 1 .. n
    BY ClosureSpec DEF Reached
  <2> QED
    BY <2>1, Edges
<1>2. BlockDone(g, d, fn, cur, x) /\ PhisShaped(g, n, PhiPlacement(g, Vars), fn)
  BY DEF IsRenaming
<1>3. /\ m \in Nat /\ DOMAIN g.ops[x] = 1 .. m
      /\ \A i \in 1 .. m : Renames(g.ops[x][i], fn.ops[x][i], c[i], c[i + 1], i)
  BY <1>2 DEF BlockDone, BlockRenamed
<1>4. c[1][v] = AtEnd(g, cur, d[x])[v]
  <2>1. DOMAIN fn.phis[x] = {w \in Vars : x \in PhiPlacement(g, Vars)[w]}
    BY <1>1, <1>2 DEF PhisShaped
  <2>2. v \notin DOMAIN fn.phis[x]
    BY <2>1
  <2>3. c[1][v] = AtStart(g, d, cur, x)[v]
    BY <1>2, <2>2 DEF BlockDone
  <2> QED
    BY <2>3 DEF AtStart
<1> HIDE DEF m, c
<1>5. \A i \in 1 .. m : c[i + 1][v] = c[i][v]
  <2> SUFFICES ASSUME NEW i \in 1 .. m
               PROVE  c[i + 1][v] = c[i][v]
    OBVIOUS
  <2>1. g.ops[x][i].out # v
    <3>1. Key(v) = v
      BY FullWidth
    <3> QED
      BY <1>1, <1>3, <3>1 DEF DefBlocks
  <2> QED
    BY <1>3, <2>1 DEF Renames
<1>6. 0 \in Good
  OBVIOUS
<1>7. ASSUME NEW k \in Nat, k \in Good
      PROVE  k + 1 \in Good
  <2> SUFFICES ASSUME k + 1 <= m
               PROVE  c[(k + 1) + 1][v] = c[1][v]
    OBVIOUS
  <2>1. k <= m /\ k + 1 \in 1 .. m
    BY <1>3
  <2>2. c[(k + 1) + 1][v] = c[k + 1][v]
    BY <1>5, <2>1
  <2> QED
    BY <1>7, <2>1, <2>2
<1>8. m \in Good
  <2> HIDE DEF Good
  <2>1. Nat \subseteq Good
    BY <1>6, <1>7, NumbersInduct, Zenon
  <2> QED
    BY <1>3, <2>1
<1>9. c[m + 1][v] = c[1][v]
  BY <1>3, <1>8
<1> QED
  BY <1>4, <1>9 DEF AtEnd, m, c

\* Along an edge: a phi takes what its variable has, and what has no phi stays.
LEMMA EnterAgrees ==
  ASSUME NEW g, NEW n, IsGraph(g, n), OpsTyped(g, n), NEW fn, NEW cur,
         IsRenaming(g, n, Dominators(g), PhiPlacement(g, Vars), fn, cur),
         NEW b \in Reached(g), NEW c \in ToSet(g.succ[b]), c # EntryBlock,
         NEW values, NEW e, Agree(values, fn.versions, AtEnd(g, cur, b), e)
  PROVE  c \in Reached(g) /\ Agree(Entered(values, fn, b, c), fn.versions, cur[c][1], e)
<1> DEFINE d == Dominators(g)
           P == DOMAIN fn.phis[c]
           w == Entered(values, fn, b, c)
           end == AtEnd(g, cur, b)
<1>1. c \in Reached(g) /\ Reached(g) \subseteq 1 .. n
  BY ReachedOn, ClosureSpec DEF Reached
<1>2. /\ PhisShaped(g, n, PhiPlacement(g, Vars), fn)
      /\ BlockDone(g, d, fn, cur, b) /\ BlockDone(g, d, fn, cur, c)
  BY <1>1 DEF IsRenaming
<1>3. P = {v \in Vars : c \in PhiPlacement(g, Vars)[v]}
  BY <1>1, <1>2 DEF PhisShaped
<1>4. Current(cur[c][1], fn.versions)
  <2>1. Len(g.ops[c]) \in Nat
    BY <1>1 DEF OpsTyped
  <2>2. 1 \in 1 .. Len(g.ops[c]) + 1
    BY <2>1
  <2> QED
    BY <1>2, <2>2 DEF BlockDone
<1>5. w = [v \in Vars |-> [k \in DOMAIN values[v] |->
             IF v \in P /\ fn.phis[c][v].ver = k THEN Read(values, fn.phis[c][v].in[b]) ELSE values[v][k]]]
  BY DEF Entered
<1>6. /\ \A v \in Vars : cur[c][1][v] = IF v \in P THEN fn.phis[c][v].ver ELSE AtEnd(g, cur, d[c])[v]
      /\ \A v \in P : fn.phis[c][v].in[b] = <<v, end[v]>>
  BY <1>2 DEF BlockDone, AtStart
<1> HIDE DEF w, P
<1>7. ASSUME NEW v \in Vars
      PROVE  DOMAIN w[v] = 0 .. fn.versions[v] /\ w[v][cur[c][1][v]] = e[v]
  <2> DEFINE k == cur[c][1][v]
  <2>1. /\ w[v] = [j \in DOMAIN values[v] |->
             IF v \in P /\ fn.phis[c][v].ver = j THEN Read(values, fn.phis[c][v].in[b]) ELSE values[v][j]]
        /\ DOMAIN values[v] = 0 .. fn.versions[v] /\ values[v][end[v]] = e[v]
    BY <1>5 DEF Agree
  <2>2. k \in 0 .. fn.versions[v]
    BY <1>4 DEF Current
  <2>3. CASE v \in P
    <3>1. k = fn.phis[c][v].ver /\ fn.phis[c][v].in[b] = <<v, end[v]>>
      BY <1>6, <2>3
    <3> HIDE DEF k, end
    <3>2. w[v][k] = Read(values, <<v, end[v]>>)
      BY <2>1, <2>2, <2>3, <3>1
    <3>3. v # "const"
      BY NamesAssumption
    <3>4. Read(values, <<v, end[v]>>) = values[v][end[v]]
      BY <3>3, FullWidth DEF Read, IsConst
    <3> QED
      BY <2>1, <3>2, <3>4 DEF k
  <2>4. CASE v \notin P
    <3> DEFINE h == [x \in Reached(g) |-> AtEnd(g, cur, x)[v]]
    <3>1. k = AtEnd(g, cur, d[c])[v] /\ c \notin PhiPlacement(g, Vars)[v]
      BY <1>3, <1>6, <2>4
    <3>2. \A x \in Reached(g) : h[x] = AtEnd(g, cur, x)[v]
      OBVIOUS
    <3>3. \A x \in Reached(g) \ {EntryBlock} : d[x] \in Reached(g)
      BY DominatorsDescend DEF Descends
    <3> HIDE DEF d, h
    <3>4. Carried(g, d, v, h)
      <4> SUFFICES ASSUME NEW x \in Reached(g) \ {EntryBlock}, x \notin DefBlocks(g, v),
                          x \notin PhiPlacement(g, Vars)[v]
                   PROVE  h[x] = h[d[x]]
        BY DEF Carried
      <4>1. AtEnd(g, cur, x)[v] = AtEnd(g, cur, d[x])[v]
        BY EndsCarried DEF d
      <4> QED
        BY <3>2, <3>3, <4>1
    <3>5. h[b] = h[d[c]]
      BY <3>1, <3>4, NothingBetween DEF d
    <3>6. k = end[v]
      BY <1>1, <3>1, <3>2, <3>3, <3>5
    <3> HIDE DEF k, end
    <3>7. w[v][k] = values[v][k]
      BY <2>1, <2>2, <2>4
    <3> QED
      BY <2>1, <3>6, <3>7 DEF k
  <2>5. DOMAIN w[v] = 0 .. fn.versions[v]
    BY <2>1
  <2> QED
    BY <2>3, <2>4, <2>5
<1> QED
  BY <1>1, <1>7 DEF Agree, w

\* No block with at most one way in has a phi.
LEMMA PhisAtJoins ==
  ASSUME NEW g, NEW n, IsGraph(g, n), NEW v \in Vars, NEW c \in PhiPlacement(g, Vars)[v]
  PROVE  Cardinality(Predecessors(g, c)) >= 2
<1>1. Blocks(g) = 1 .. n
  BY Edges
<1>2. PICK x \in 1 .. n : c \in DominanceFrontiers(g)[x]
  BY PhiPlaces
<1> QED
  BY <1>1, <1>2 DEF DominanceFrontiers

-----------------------------------------------------------------------------
(* The executions *)

\* What is executed is a function, and from the graph that is built of it.
IsLifted ==
  /\ IsFunction(Vars \cup Parts, code)
  /\ at # None => cfg = BuildCfg(code.ops, code.hints)

LEMMA Lifted == Spec => []IsLifted
<1>1. Init => IsLifted
  BY ProgramsAssumption DEF Init, IsLifted
<1>2. ASSUME IsLifted, [Next]_vars
      PROVE  IsLifted'
  <2>1. CASE Lift
    BY <1>2, <2>1 DEF Lift, IsLifted
  <2>2. CASE Execute
    BY <1>2, <2>2 DEF Execute, IsLifted, forms
  <2>3. CASE UNCHANGED vars
    BY <1>2, <2>3 DEF IsLifted, vars, forms, run
  <2> QED
    BY <1>2, <2>1, <2>2, <2>3 DEF Next
<1> QED
  BY <1>1, <1>2, PTL DEF Spec

\* Cfg::dominators finds, in the graph build_cfg_with_leaders makes of any
\* function, the immediate dominator of every block that is reached, and none
\* of the others.
THEOREM DominatorsAreImmediate == Spec => []ImmediateDominators
<1>1. ASSUME IsLifted
      PROVE  ImmediateDominators
  <2> SUFFICES ASSUME at = <<EntryBlock, 1>>
               PROVE  LET idom == Dominators(cfg) IN
                      \A b \in Blocks(cfg) \ {EntryBlock} :
                        IF b \notin Reached(cfg) THEN idom[b] = None
                        ELSE LET above == {d \in Reached(cfg) \ {b} : Dominates(cfg, d, b)} IN
                             idom[b] \in above /\ \A d \in above : Dominates(cfg, d, idom[b])
    BY DEF ImmediateDominators
  <2> DEFINE n == Cardinality(Leaders(code.ops, code.hints))
  <2>1. at # None
    BY NamesAssumption DEF EntryBlock
  <2>2. IsGraph(cfg, n)
    <3> DEFINE T == Seq(Operations(Vars \cup Parts)) \ {<< >>}
    <3>1. code.ops \in Seq(T) /\ code.ops # << >> /\ code.hints \in Seq(Nat)
      BY <1>1 DEF IsLifted, IsFunction
    <3>2. cfg = BuildCfg(code.ops, code.hints)
      BY <1>1, <2>1 DEF IsLifted
    <3> HIDE DEF T
    <3> QED
      BY <3>1, <3>2, GraphBuilt
  <2> HIDE DEF n
  <2>3. Blocks(cfg) = 1 .. n
    BY <2>2, Edges
  <2>4. IsImmediate(cfg, n, Dominators(cfg))
    BY <2>2, OrderFound, DominatorsFound
  <2> QED
    BY <2>3, <2>4 DEF IsImmediate, Above
<1> QED
  BY <1>1, Lifted, PTL

\* The blocks of a function's graph.
BlocksOf(fn) == Cardinality(Leaders(fn.ops, fn.hints))

\* An execution is at an operation of a block that is reached, and the versions
\* that are current there have the values of the variables.
AtSame(fn, g, s, a, e, values) ==
  /\ g = BuildCfg(fn.ops, fn.hints) /\ s = BuildSsa(g)
  /\ e = [v \in Vars |-> e[v]]
  /\ a[1] \in Reached(g) /\ a[2] \in 1 .. Len(g.ops[a[1]])
  /\ \E cur : /\ IsRenaming(g, BlocksOf(fn), Dominators(g), PhiPlacement(g, Vars), s, cur)
              /\ Agree(values, s.versions, cur[a[1]][a[2]], e)

\* A function with no transfer to its first block.
IsGiven(fn) == OneWidth(fn) /\ Predecessors(BuildCfg(fn.ops, fn.hints), EntryBlock) = {}

\* The inductive invariant.
RunsSame == IsGiven(code) /\ (at # None => AtSame(code, cfg, ssa, at, env, vals))

\* The graph of a function.
LEMMA GraphOf ==
  ASSUME NEW fn, IsGiven(fn), NEW g, g = BuildCfg(fn.ops, fn.hints)
  PROVE  /\ IsGraph(g, BlocksOf(fn)) /\ OpsTyped(g, BlocksOf(fn))
         /\ \A b \in Reached(g) : EntryBlock \notin ToSet(g.succ[b])
         /\ EntryBlock \in Reached(g) /\ Reached(g) \subseteq 1 .. BlocksOf(fn)
<1> DEFINE insns == fn.ops
           hints == fn.hints
           T == Seq(Operations(Vars)) \ {<< >>}
<1>1. insns \in Seq(T) /\ insns # << >> /\ hints \in Seq(Nat)
  BY DEF IsGiven, OneWidth, IsFunction
<1>2. OpsTyped(g, BlocksOf(fn))
  BY <1>1, OpsBuilt DEF BlocksOf
<1> HIDE DEF T
<1>3. IsGraph(g, BlocksOf(fn))
  BY <1>1, GraphBuilt DEF BlocksOf
<1>4. EntryBlock \in Reached(g) /\ Reached(g) \subseteq 1 .. BlocksOf(fn) /\ Blocks(g) = 1 .. BlocksOf(fn)
  BY <1>3, ClosureSpec, Edges DEF Reached
<1>5. \A b \in Reached(g) : EntryBlock \notin ToSet(g.succ[b])
  BY <1>4 DEF IsGiven, Predecessors
<1> QED
  BY <1>2, <1>3, <1>4, <1>5

\* At the call every variable has the version from outside.
LEMMA SameAtCall ==
  ASSUME NEW fn, IsGiven(fn), NEW g, g = BuildCfg(fn.ops, fn.hints), NEW s, s = BuildSsa(g),
         NEW e \in [Vars -> Words], NEW values,
         values = [v \in Vars |-> [k \in 0 .. s.versions[v] |-> IF k = 0 THEN e[v] ELSE 0]]
  PROVE  AtSame(fn, g, s, <<EntryBlock, 1>>, e, values)
<1> DEFINE n == BlocksOf(fn)
           d == Dominators(g)
           m == Len(g.ops[EntryBlock])
           a == <<EntryBlock, 1>>
<1>1. /\ IsGraph(g, n) /\ OpsTyped(g, n) /\ EntryBlock \in Reached(g) /\ EntryBlock \in 1 .. n
  BY GraphOf
<1> HIDE DEF n
<1>2. m \in Nat /\ 1 \in 1 .. m /\ 1 \in 1 .. m + 1
  BY <1>1 DEF OpsTyped
<1>3. PICK cur : IsRenaming(g, n, d, PhiPlacement(g, Vars), s, cur)
  BY <1>1, AllRenamed
<1>4. PhisShaped(g, n, PhiPlacement(g, Vars), s) /\ BlockDone(g, d, s, cur, EntryBlock)
  BY <1>1, <1>3 DEF IsRenaming
<1>5. DOMAIN s.phis[EntryBlock] = {}
  <2>1. ASSUME NEW v \in Vars
        PROVE  EntryBlock \notin PhiPlacement(g, Vars)[v]
    <3>1. Predecessors(g, EntryBlock) = {}
      BY DEF IsGiven
    <3>2. ~(Cardinality(Predecessors(g, EntryBlock)) >= 2)
      BY <3>1, FS_EmptySet
    <3> QED
      BY <1>1, <3>2, PhisAtJoins
  <2>2. DOMAIN s.phis[EntryBlock] = {v \in Vars : EntryBlock \in PhiPlacement(g, Vars)[v]}
    BY <1>1, <1>4 DEF PhisShaped
  <2> QED
    BY <2>1, <2>2
<1>6. ASSUME NEW v \in Vars
      PROVE  DOMAIN values[v] = 0 .. s.versions[v] /\ values[v][cur[EntryBlock][1][v]] = e[v]
  <2> DEFINE versions == s.versions
  <2>1. versions[v] \in Nat
    BY <1>4 DEF PhisShaped
  <2>2. cur[EntryBlock][1][v] = 0
    BY <1>4, <1>5 DEF BlockDone, AtStart
  <2> HIDE DEF versions
  <2>3. values[v] = [k \in 0 .. versions[v] |-> IF k = 0 THEN e[v] ELSE 0]
    BY DEF versions
  <2>4. 0 \in 0 .. versions[v]
    BY <2>1
  <2> QED
    BY <2>2, <2>3, <2>4 DEF versions
<1>7. a[1] = EntryBlock /\ a[2] = 1
  OBVIOUS
<1> HIDE DEF a, m
<1>8. Agree(values, s.versions, cur[a[1]][a[2]], e)
  BY <1>6, <1>7 DEF Agree
<1>9. e = [v \in Vars |-> e[v]]
  OBVIOUS
<1>10. AtSame(fn, g, s, a, e, values)
  BY <1>1, <1>2, <1>3, <1>7, <1>8, <1>9 DEF AtSame, n, d, m
<1> QED
  BY <1>10 DEF a

\* Where the executions are, the two operations are one.
LEMMA SameOperation ==
  ASSUME IsGiven(code), AtSame(code, cfg, ssa, at, env, vals)
  PROVE  \E cur, new :
           /\ IsRenaming(cfg, BlocksOf(code), Dominators(cfg), PhiPlacement(cfg, Vars), ssa, cur)
           /\ Agree(vals, ssa.versions, cur[at[1]][at[2]], env)
           /\ Op \in Operations(Vars) /\ OpIn(ssa) = {new}
           /\ Renames(Op, new, cur[at[1]][at[2]], cur[at[1]][at[2] + 1], at[2])
           /\ ReadAll(vals, new) = ReadAll(Plain, Op)
<1> DEFINE b == at[1]
           i == at[2]
           n == BlocksOf(code)
           m == Len(cfg.ops[b])
<1>1. IsGraph(cfg, n) /\ OpsTyped(cfg, n) /\ Reached(cfg) \subseteq 1 .. n
  BY GraphOf DEF AtSame
<1>2. PICK cur : /\ IsRenaming(cfg, n, Dominators(cfg), PhiPlacement(cfg, Vars), ssa, cur)
                 /\ Agree(vals, ssa.versions, cur[b][i], env)
  BY DEF AtSame
<1>3. b \in Reached(cfg) /\ i \in 1 .. m /\ b \in 1 .. n
  BY <1>1 DEF AtSame
<1>4. BlockRenamed(cfg.ops[b], ssa.ops[b], cur[b])
  BY <1>2, <1>3 DEF IsRenaming, BlockDone
<1> DEFINE new == ssa.ops[b][i]
<1>5. Op \in Operations(Vars)
  <2>1. cfg.ops[b] \in Seq(Operations(Vars))
    BY <1>1, <1>3 DEF OpsTyped
  <2> QED
    BY <1>3, <2>1 DEF Op
<1>6. Renames(Op, new, cur[b][i], cur[b][i + 1], i)
  BY <1>3, <1>4 DEF BlockRenamed, Op
<1>7. OpIn(ssa) = {new}
  <2>1. {op \in ToSet(ssa.ops[b]) : op.at = i} = {ssa.ops[b][i]}
    BY <1>3, <1>4, OneOfIndex
  <2> QED
    BY <2>1 DEF OpIn
<1> HIDE DEF new, n
<1>8. ReadAll(vals, new) = ReadAll(Plain, Op)
  <2> DEFINE before == cur[b][i]
             next == cur[b][i + 1]
             q == i
  <2>1. Plain = Once(env)
    BY DEF Plain, Once
  <2>2. Renames(Op, new, before, next, q) /\ Agree(vals, ssa.versions, before, env)
    BY <1>2, <1>6
  <2> HIDE DEF before, next, q, i, b
  <2>3. ReadAll(vals, new) = ReadAll(Once(env), Op)
    BY <1>5, <2>2, SameReads
  <2> QED
    BY <2>1, <2>3
<1>9. /\ IsRenaming(cfg, BlocksOf(code), Dominators(cfg), PhiPlacement(cfg, Vars), ssa, cur)
      /\ Agree(vals, ssa.versions, cur[at[1]][at[2]], env)
      /\ Op \in Operations(Vars) /\ OpIn(ssa) = {new}
      /\ Renames(Op, new, cur[at[1]][at[2]], cur[at[1]][at[2] + 1], at[2])
      /\ ReadAll(vals, new) = ReadAll(Plain, Op)
  BY <1>2, <1>5, <1>6, <1>7, <1>8 DEF n
<1> HIDE DEF b, i, m
<1> QED
  BY <1>9, Zenon

\* The variables after an operation.
NextEnv(popped) ==
  IF Op.out = None THEN env ELSE [env EXCEPT ![Key(Op.out)] = Cut(Op.out, Result(Plain, Op, popped))]

\* The variables are still the variables.
LEMMA NextVariables ==
  ASSUME Op \in Operations(Vars), env = [v \in Vars |-> env[v]], NEW popped
  PROVE  /\ NextEnv(popped) = [v \in Vars |-> NextEnv(popped)[v]]
         /\ \A v \in Vars : NextEnv(popped)[v] = IF Op.out # None /\ v = Op.out THEN Result(Plain, Op, popped)
                                                 ELSE env[v]
<1> DEFINE r == Result(Plain, Op, popped)
           o == Op.out
           e == env
           f == [v \in Vars |-> e[v]]
<1>1. e = f
  OBVIOUS
<1>2. NextEnv(popped) = IF o = None THEN e ELSE [e EXCEPT ![o] = r]
  <2>1. o \in Vars \cup {None}
    BY DEF Operations
  <2>2. Key(o) = o /\ Cut(o, r) = r
    BY <2>1, FullWidth
  <2> HIDE DEF r
  <2> QED
    BY <2>2 DEF NextEnv, r
<1>3. DOMAIN f = Vars
  OBVIOUS
<1> HIDE DEF r, o, e
<1>4. NextEnv(popped) = IF o = None THEN f ELSE [f EXCEPT ![o] = r]
  BY <1>1, <1>2
<1>5. \A v \in Vars : NextEnv(popped)[v] = IF o # None /\ v = o THEN r ELSE f[v]
  BY <1>4
<1>6. NextEnv(popped) = [v \in Vars |-> NextEnv(popped)[v]]
  BY <1>4
<1> HIDE DEF f
<1>7. \A v \in Vars : NextEnv(popped)[v] = IF o # None /\ v = o THEN r ELSE e[v]
  BY <1>1, <1>5
<1> QED
  BY <1>6, <1>7 DEF r, o, e

\* What an operation yields depends on what it reads.
LEMMA SameResult ==
  ASSUME NEW values, NEW new, new.opcode = Op.opcode, ReadAll(values, new) = ReadAll(Plain, Op), NEW popped
  PROVE  Result(values, new, popped) = Result(Plain, Op, popped)
  BY DEF Result

\* The version an operation defines takes what the variable takes.
LEMMA WriteAgrees ==
  ASSUME Op \in Operations(Vars), NEW new, OpIn(ssa) = {new}, NEW before, NEW next,
         Renames(Op, new, before, next, at[2]), NEW versions, Current(next, versions),
         Agree(vals, versions, before, env), ReadAll(vals, new) = ReadAll(Plain, Op),
         env = [v \in Vars |-> env[v]], NEW popped
  PROVE  Agree(Written(vals, ssa, popped), versions, next, NextEnv(popped))
<1> DEFINE o == Op.out
           r == Result(Plain, Op, popped)
           w == Written(vals, ssa, popped)
           e == NextEnv(popped)
           Defines(op, v, n) == op.out # None /\ Key(op.out[1]) = v /\ op.out[2] = n
<1>1. o \in Vars \cup {None} /\ None \notin Vars /\ None \notin Vars \X Nat
  BY NamesAssumption DEF Operations
<1>2. new.out = (IF o = None THEN None ELSE <<o, next[o]>>) /\ new.opcode = Op.opcode
  BY DEF Renames
<1>3. \A v \in Vars : next[v] \in 0 .. versions[v] /\ (v # o => next[v] = before[v])
  BY DEF Renames, Current
<1>4. Result(vals, new, popped) = r
  BY <1>2, SameResult
<1>5. \A v \in Vars : e[v] = IF o # None /\ v = o THEN r ELSE env[v]
  BY NextVariables
<1>6. w = [v \in Vars |-> [n \in DOMAIN vals[v] |->
             IF Defines(new, v, n) THEN Cut(new.out[1], Result(vals, new, popped)) ELSE vals[v][n]]]
  <2>1. w = [v \in Vars |-> [n \in DOMAIN vals[v] |->
              IF \E op \in {new} : Defines(op, v, n)
              THEN LET op == CHOOSE op \in {new} : Defines(op, v, n) IN Cut(op.out[1], Result(vals, op, popped))
              ELSE vals[v][n]]]
    BY DEF Written
  <2>2. ASSUME NEW v, NEW n
        PROVE  /\ (\E op \in {new} : Defines(op, v, n)) <=> Defines(new, v, n)
               /\ Defines(new, v, n) => (CHOOSE op \in {new} : Defines(op, v, n)) = new
    OBVIOUS
  <2> HIDE DEF Defines, w
  <2> QED
    BY <2>1, <2>2
<1>7. \A v \in Vars : \A n : Defines(new, v, n) <=> o # None /\ o = v /\ next[o] = n
  <2>1. o # None => next[o] \in Nat
    BY <1>1, <1>3 DEF Current
  <2>2. o # None => new.out # None /\ new.out[1] = o /\ new.out[2] = next[o] /\ Key(o) = o
    <3> HIDE DEF o
    <3> QED
      BY <1>1, <1>2, <2>1, FullWidth
  <2>3. o = None => new.out = None
    BY <1>2
  <2> HIDE DEF o
  <2> QED
    BY <2>2, <2>3
<1>0. o # None => Cut(new.out[1], r) = r
  BY <1>1, <1>2, FullWidth
<1> HIDE DEF Defines, w, e, r, o
<1>8. ASSUME NEW v \in Vars
      PROVE  DOMAIN w[v] = 0 .. versions[v] /\ w[v][next[v]] = e[v]
  <2> DEFINE k == next[v]
  <2>1. k \in 0 .. versions[v] /\ DOMAIN vals[v] = 0 .. versions[v] /\ vals[v][before[v]] = env[v]
    BY <1>3 DEF Agree
  <2>2. w[v] = [n \in DOMAIN vals[v] |->
             IF Defines(new, v, n) THEN Cut(new.out[1], Result(vals, new, popped)) ELSE vals[v][n]]
    BY <1>6
  <2>3. DOMAIN w[v] = 0 .. versions[v]
    BY <2>1, <2>2
  <2>4. w[v][k] = IF o # None /\ v = o THEN r ELSE vals[v][k]
    BY <1>0, <1>4, <1>7, <2>1, <2>2
  <2>5. v # o => k = before[v]
    BY <1>3
  <2> HIDE DEF k
  <2>6. w[v][k] = e[v]
    BY <1>1, <1>5, <2>1, <2>4, <2>5
  <2> QED
    BY <2>3, <2>6 DEF k
<1> QED
  BY <1>8 DEF Agree, w, e

\* To the next operation of the block.
LEMMA Onwards ==
  ASSUME IsGiven(code), AtSame(code, cfg, ssa, at, env, vals), at[2] < Len(cfg.ops[at[1]]), NEW popped
  PROVE  AtSame(code, cfg, ssa, <<at[1], at[2] + 1>>, NextEnv(popped), Written(vals, ssa, popped))
<1> DEFINE b == at[1]
           i == at[2]
           j == i + 1
           n == BlocksOf(code)
           m == Len(cfg.ops[b])
           w == Written(vals, ssa, popped)
           e == NextEnv(popped)
           a == <<b, j>>
<1>1. PICK cur, new :
           /\ IsRenaming(cfg, n, Dominators(cfg), PhiPlacement(cfg, Vars), ssa, cur)
           /\ Agree(vals, ssa.versions, cur[b][i], env)
           /\ Op \in Operations(Vars) /\ OpIn(ssa) = {new}
           /\ Renames(Op, new, cur[b][i], cur[b][j], at[2])
           /\ ReadAll(vals, new) = ReadAll(Plain, Op)
  BY SameOperation
<1>2. /\ cfg = BuildCfg(code.ops, code.hints) /\ ssa = BuildSsa(cfg)
      /\ b \in Reached(cfg) /\ i \in 1 .. m /\ env = [v \in Vars |-> env[v]]
  BY DEF AtSame
<1>3. BlockDone(cfg, Dominators(cfg), ssa, cur, b)
  BY <1>1, <1>2 DEF IsRenaming
<1>4. m \in Nat
  BY <1>3 DEF BlockDone, BlockRenamed
<1>5. j \in 1 .. m /\ j \in 1 .. m + 1
  BY <1>2, <1>4
<1> HIDE DEF j, m
<1>6. Current(cur[b][j], ssa.versions)
  BY <1>3, <1>5 DEF BlockDone, m
<1>7. Agree(w, ssa.versions, cur[b][j], e)
  <2> DEFINE before == cur[b][i]
             next == cur[b][j]
             versions == ssa.versions
  <2>1. /\ Agree(vals, versions, before, env) /\ Current(next, versions)
        /\ Renames(Op, new, before, next, at[2])
    BY <1>1, <1>6
  <2> HIDE DEF before, next, versions, b, i
  <2>2. Agree(w, versions, next, e)
    BY <1>1, <1>2, <2>1, WriteAgrees
  <2> QED
    BY <2>2 DEF next, versions
<1>8. e = [v \in Vars |-> e[v]]
  BY <1>1, <1>2, NextVariables
<1>9. a[1] = b /\ a[2] = j
  OBVIOUS
<1> HIDE DEF a, w, e, b, i
<1>10. AtSame(code, cfg, ssa, a, e, w)
  BY <1>1, <1>2, <1>5, <1>7, <1>8, <1>9 DEF AtSame, n, m
<1> QED
  BY <1>10 DEF a, w, e, b, i, j

\* To a block that follows.
LEMMA Across ==
  ASSUME IsGiven(code), AtSame(code, cfg, ssa, at, env, vals), at[2] = Len(cfg.ops[at[1]]), NEW popped,
         NEW c \in ToSet(cfg.succ[at[1]])
  PROVE  AtSame(code, cfg, ssa, <<c, 1>>, NextEnv(popped), Entered(Written(vals, ssa, popped), ssa, at[1], c))
<1> DEFINE b == at[1]
           i == at[2]
           j == i + 1
           n == BlocksOf(code)
           m == Len(cfg.ops[b])
           w == Written(vals, ssa, popped)
           e == NextEnv(popped)
           f == Entered(w, ssa, b, c)
           a == <<c, 1>>
<1>1. PICK cur, new :
           /\ IsRenaming(cfg, n, Dominators(cfg), PhiPlacement(cfg, Vars), ssa, cur)
           /\ Agree(vals, ssa.versions, cur[b][i], env)
           /\ Op \in Operations(Vars) /\ OpIn(ssa) = {new}
           /\ Renames(Op, new, cur[b][i], cur[b][j], at[2])
           /\ ReadAll(vals, new) = ReadAll(Plain, Op)
  BY SameOperation
<1>2. /\ cfg = BuildCfg(code.ops, code.hints) /\ ssa = BuildSsa(cfg)
      /\ b \in Reached(cfg) /\ i \in 1 .. m /\ env = [v \in Vars |-> env[v]]
  BY DEF AtSame
<1>3. /\ IsGraph(cfg, n) /\ OpsTyped(cfg, n) /\ Reached(cfg) \subseteq 1 .. n
      /\ c # EntryBlock
  BY <1>2, GraphOf, Zenon
<1>4. BlockDone(cfg, Dominators(cfg), ssa, cur, b)
  BY <1>1, <1>2, Zenon DEF IsRenaming
<1>5. m \in Nat
  BY <1>4 DEF BlockDone, BlockRenamed
<1>6. j \in 1 .. m + 1
  BY <1>2, <1>5
<1>7. AtEnd(cfg, cur, b) = cur[b][j]
  BY DEF AtEnd
<1> HIDE DEF j, m
<1>8. Current(cur[b][j], ssa.versions)
  BY <1>4, <1>6 DEF BlockDone, m
<1>9. Agree(w, ssa.versions, AtEnd(cfg, cur, b), e)
  <2> DEFINE before == cur[b][i]
             next == cur[b][j]
             versions == ssa.versions
  <2>1. /\ Agree(vals, versions, before, env) /\ Current(next, versions)
        /\ Renames(Op, new, before, next, at[2])
    BY <1>1, <1>8
  <2> HIDE DEF before, next, versions, b, i
  <2>2. Agree(w, versions, next, e)
    BY <1>1, <1>2, <2>1, WriteAgrees
  <2> QED
    BY <1>7, <2>2 DEF next, versions
<1>10. e = [v \in Vars |-> e[v]]
  BY <1>1, <1>2, NextVariables
<1> HIDE DEF w, e, n
<1>11. c \in Reached(cfg) /\ Agree(f, ssa.versions, cur[c][1], e)
  <2>1. c \in ToSet(cfg.succ[b])
    OBVIOUS
  <2> HIDE DEF b
  <2> QED
    BY <1>1, <1>2, <1>3, <1>9, <2>1, EnterAgrees
<1>12. 1 \in 1 .. Len(cfg.ops[c])
  BY <1>3, <1>11 DEF OpsTyped
<1>13. a[1] = c /\ a[2] = 1
  OBVIOUS
<1> HIDE DEF a, f, b, i
<1>14. AtSame(code, cfg, ssa, a, e, f)
  BY <1>1, <1>2, <1>10, <1>11, <1>12, <1>13 DEF AtSame, n
<1> QED
  BY <1>14 DEF a, w, e, b, f

\* A call, and every operation.
LEMMA RunsSameStep ==
  ASSUME RunsSame, [Next]_vars
  PROVE  RunsSame'
<1>1. CASE Lift
  <2>1. IsGiven(code') /\ IsGiven(code)
    BY <1>1 DEF Lift, RunsSame
  <2> DEFINE g == cfg'
             s == ssa'
             e == env'
             values == vals'
             fn == code
  <2>2. /\ g = BuildCfg(fn.ops, fn.hints) /\ s = BuildSsa(g) /\ e \in [Vars -> Words]
        /\ values = [v \in Vars |-> [k \in 0 .. s.versions[v] |-> IF k = 0 THEN e[v] ELSE 0]]
        /\ at' = <<EntryBlock, 1>> /\ code' = fn
    BY <1>1, StartAssumption DEF Lift
  <2>3. IsGiven(fn)
    BY <2>1
  <2> HIDE DEF g, s, e, values, fn
  <2>4. AtSame(fn, g, s, <<EntryBlock, 1>>, e, values)
    BY <2>2, <2>3, SameAtCall
  <2>5. AtSame(code', cfg', ssa', at', env', vals')
    BY <2>2, <2>4 DEF g, s, e, values, fn
  <2> QED
    BY <2>1, <2>5 DEF RunsSame
<1>2. CASE Execute
  <2>1. at # None /\ IsGiven(code) /\ AtSame(code, cfg, ssa, at, env, vals)
    BY <1>2 DEF Execute, RunsSame
  <2>2. code' = code /\ cfg' = cfg /\ ssa' = ssa
    BY <1>2 DEF Execute, forms
  <2>3. PICK popped :
          /\ env' = NextEnv(popped)
          /\ \/ /\ at' = IF Leaves THEN None ELSE <<at[1], at[2] + 1>>
                /\ Leaves \/ at[2] < Len(cfg.ops[at[1]])
                /\ vals' = Written(vals, ssa, popped)
             \/ /\ at[2] = Len(cfg.ops[at[1]])
                /\ \E b \in ToSet(cfg.succ[at[1]]) :
                     /\ at' = <<b, 1>>
                     /\ vals' = Entered(Written(vals, ssa, popped), ssa, at[1], b)
    BY <1>2, Zenon DEF Execute, NextEnv
  <2>4. CASE /\ at' = IF Leaves THEN None ELSE <<at[1], at[2] + 1>>
             /\ Leaves \/ at[2] < Len(cfg.ops[at[1]])
             /\ vals' = Written(vals, ssa, popped)
    <3>1. CASE Leaves
      BY <2>1, <2>2, <2>4, <3>1 DEF RunsSame
    <3>2. CASE ~Leaves
      <4>1. AtSame(code, cfg, ssa, <<at[1], at[2] + 1>>, NextEnv(popped), Written(vals, ssa, popped))
        BY <2>1, <2>4, <3>2, Onwards
      <4> QED
        BY <2>1, <2>2, <2>3, <2>4, <3>2, <4>1 DEF RunsSame
    <3> QED
      BY <3>1, <3>2
  <2>5. CASE /\ at[2] = Len(cfg.ops[at[1]])
             /\ \E b \in ToSet(cfg.succ[at[1]]) :
                  /\ at' = <<b, 1>>
                  /\ vals' = Entered(Written(vals, ssa, popped), ssa, at[1], b)
    <3>1. PICK b \in ToSet(cfg.succ[at[1]]) :
                  /\ at' = <<b, 1>>
                  /\ vals' = Entered(Written(vals, ssa, popped), ssa, at[1], b)
      BY <2>5
    <3>2. AtSame(code, cfg, ssa, <<b, 1>>, NextEnv(popped), Entered(Written(vals, ssa, popped), ssa, at[1], b))
      BY <2>1, <2>5, Across
    <3> QED
      BY <2>1, <2>2, <2>3, <3>1, <3>2 DEF RunsSame
  <2> QED
    BY <2>3, <2>4, <2>5
<1>3. CASE UNCHANGED vars
  BY <1>3 DEF vars, forms, run, RunsSame
<1> QED
  BY <1>1, <1>2, <1>3 DEF Next

\* A step leaves the function.
LEMMA CodeStays ==
  ASSUME [Next]_vars
  PROVE  code' = code /\ OneWidth(code)' = OneWidth(code)
<1>1. code' = code
  BY DEF Next, Lift, Execute, vars, forms
<1> QED
  BY <1>1

\* RenamedAgrees: in a function of one width with no way back to its entry the SSA form reads
\* in every operand what the function reads, whatever path was taken.
THEOREM RenamedFormAgrees == NoWayBack => (Spec => [](OneWidth(code) => RenamedAgrees))
<1> SUFFICES ASSUME NoWayBack
             PROVE  Spec => [](OneWidth(code) => RenamedAgrees)
  OBVIOUS
<1>1. Init /\ OneWidth(code) => RunsSame
  BY DEF Init, RunsSame, IsGiven, NoWayBack
<1>2. RunsSame => RenamedAgrees
  <2> SUFFICES ASSUME RunsSame, at # None
               PROVE  \E op \in OpIn(ssa) : ReadAll(vals, op) = ReadAll(Plain, Op)
    BY DEF RenamedAgrees
  <2>1. IsGiven(code) /\ AtSame(code, cfg, ssa, at, env, vals)
    BY DEF RunsSame
  <2>2. PICK new : OpIn(ssa) = {new} /\ ReadAll(vals, new) = ReadAll(Plain, Op)
    BY <2>1, SameOperation
  <2> QED
    BY <2>2
<1>3. OneWidth(code)' /\ [Next]_vars => OneWidth(code)
  BY CodeStays
<1> QED
  BY <1>1, <1>2, <1>3, RunsSameStep, PTL DEF Spec

-----------------------------------------------------------------------------
(* Where a value is available *)

\* What dominates a dominator dominates.
LEMMA DominatesThrough ==
  ASSUME NEW g, NEW n, IsGraph(g, n), NEW x, NEW y, NEW z, Dominates(g, x, y), Dominates(g, y, z)
  PROVE  Dominates(g, x, z)
<1> DEFINE C == Closure(g, {x})
           D == Closure(g, {y})
<1> SUFFICES ASSUME x # z, x # EntryBlock, z \in C
             PROVE  FALSE
  BY DEF Dominates
<1>1. CASE x = y \/ y = z
  BY <1>1 DEF Dominates
<1>2. CASE x # y /\ y # z
  <2>1. y \notin C
    BY <1>2 DEF Dominates
  <2>2. /\ EntryBlock \in C /\ Further(g, C, {x}) = C /\ EntryBlock \in D /\ Further(g, D, {y}) = D
        /\ \A X : EntryBlock \in X /\ Further(g, X, {x}) \subseteq X => C \subseteq X
    BY ClosureSpec
  <2>3. z \notin D
    BY <1>2, <2>1, <2>2 DEF Dominates
  <2> HIDE DEF C, D
  <2>4. Further(g, C \cap D, {x}) \subseteq C \cap D
    <3> SUFFICES ASSUME NEW c \in C \cap D, NEW b \in ToSet(g.succ[c]), b # x
                 PROVE  b \in C \cap D
      BY DEF Further
    <3>1. b \in C
      BY <2>2 DEF Further
    <3>2. b # y => b \in D
      BY <2>2 DEF Further
    <3> QED
      BY <2>1, <3>1, <3>2
  <2>5. EntryBlock \in C \cap D
    BY <2>2
  <2>6. C \subseteq C \cap D
    BY <2>2, <2>4, <2>5
  <2> QED
    BY <2>3, <2>6
<1> QED
  BY <1>1, <1>2

\* A point is a block and a place in it: 0 before the phis, i before the
\* operation i.  One comes before the other on every path.
Points(g) == Reached(g) \X Nat
Earlier(g, p, q) ==
  \/ p[1] = q[1] /\ p[2] < q[2]
  \/ p[1] # q[1] /\ Dominates(g, p[1], q[1])

\* That is an order.
LEMMA EarlierThrough ==
  ASSUME NEW g, NEW n, IsGraph(g, n), NEW p \in Points(g), NEW q \in Points(g), NEW r \in Points(g),
         Earlier(g, p, q), Earlier(g, q, r)
  PROVE  Earlier(g, p, r)
<1> DEFINE a == p[1]
           b == q[1]
           c == r[1]
<1>1. a \in Reached(g) /\ b \in Reached(g) /\ c \in Reached(g) /\ p[2] \in Nat /\ q[2] \in Nat /\ r[2] \in Nat
  BY DEF Points
<1>2. (a = b /\ p[2] < q[2]) \/ (a # b /\ Dominates(g, a, b))
  BY DEF Earlier
<1>3. (b = c /\ q[2] < r[2]) \/ (b # c /\ Dominates(g, b, c))
  BY DEF Earlier
<1> HIDE DEF a, b, c
<1>4. (a = c /\ p[2] < r[2]) \/ (a # c /\ Dominates(g, a, c))
  <2>1. CASE a = b /\ b = c
    BY <1>1, <1>2, <1>3, <2>1
  <2>2. CASE a = b /\ b # c
    BY <1>3, <2>2
  <2>3. CASE a # b /\ b = c
    BY <1>2, <2>3
  <2>4. CASE a # b /\ b # c
    <3>1. Dominates(g, a, b) /\ Dominates(g, b, c)
      BY <1>2, <1>3, <2>4
    <3>2. a # c
      BY <1>1, <2>4, <3>1, DominatesOneWay
    <3>3. Dominates(g, a, c)
      BY <3>1, DominatesThrough
    <3> QED
      BY <3>2, <3>3
  <2> QED
    BY <2>1, <2>2, <2>3, <2>4
<1> QED
  BY <1>4 DEF Earlier, a, c

\* No point comes before itself.
LEMMA NotEarlier ==
  ASSUME NEW g, NEW p \in Points(g)
  PROVE  ~Earlier(g, p, p)
<1>1. p[2] \in Nat
  BY DEF Points
<1> QED
  BY <1>1 DEF Earlier

\* What comes before a block, and is not in it, comes before the end of every
\* block that leads to it.
LEMMA EarlierAcross ==
  ASSUME NEW g, NEW n, IsGraph(g, n), NEW b \in Reached(g), NEW c \in ToSet(g.succ[b]),
         NEW p \in Points(g), Earlier(g, p, <<c, 0>>), NEW m \in Nat, p[1] = b => p[2] <= m
  PROVE  Earlier(g, p, <<b, m + 1>>)
<1> DEFINE a == p[1]
           i == p[2]
           r == <<c, 0>>
           q == <<b, m + 1>>
<1>1. r[1] = c /\ r[2] = 0 /\ q[1] = b /\ q[2] = m + 1 /\ i \in Nat /\ (a = b => i <= m)
  BY DEF Points
<1> HIDE DEF r, q
<1>2. a # c /\ Dominates(g, a, c)
  <2>1. Earlier(g, p, r)
    BY DEF r
  <2> QED
    BY <1>1, <2>1 DEF Earlier
<1>3. b \in 1 .. n
  BY ReachedOn
<1> HIDE DEF a
<1>4. Dominates(g, a, b)
  BY <1>2, <1>3, DominatesBefore
<1>5. a = b => i < q[2]
  BY <1>1
<1>6. Earlier(g, p, q)
  BY <1>1, <1>4, <1>5 DEF Earlier, a
<1> QED
  BY <1>6 DEF q

\* The values that are defined wherever a point is reached, or from outside.
Values == Vars \X Nat
Available(g, fn, p) ==
  {x \in Values : x[2] = 0 \/ \E q \in Points(g) : DefinedAt(fn, q[1], q[2], x) /\ Earlier(g, q, p)}

\* They stay so.
LEMMA StillAvailable ==
  ASSUME NEW g, NEW n, IsGraph(g, n), NEW fn, NEW p \in Points(g), NEW q \in Points(g), Earlier(g, p, q)
  PROVE  Available(g, fn, p) \subseteq Available(g, fn, q)
<1> SUFFICES ASSUME NEW x \in Available(g, fn, p), x[2] # 0
             PROVE  x \in Available(g, fn, q)
  BY DEF Available
<1>1. PICK r \in Points(g) : DefinedAt(fn, r[1], r[2], x) /\ Earlier(g, r, p)
  BY DEF Available
<1>2. Earlier(g, r, q)
  BY <1>1, EarlierThrough
<1> QED
  BY <1>1, <1>2 DEF Available

\* A value is not available before it is defined.
LEMMA NotAvailable ==
  ASSUME NEW g, NEW n, IsGraph(g, n), NEW fn, Numbered(fn, Reached(g)), NEW x \in Values,
         NEW p \in Points(g), DefinedAt(fn, p[1], p[2], x),
         NEW q \in Points(g), q = p \/ Earlier(g, q, p)
  PROVE  x \notin Available(g, fn, q)
<1>1. p[1] \in Reached(g) /\ p[2] \in Nat
  BY DEF Points
<1>2. x[2] # 0
  BY <1>1 DEF Numbered, Values
<1> SUFFICES ASSUME NEW r \in Points(g), DefinedAt(fn, r[1], r[2], x), Earlier(g, r, q)
             PROVE  FALSE
  BY <1>2 DEF Available
<1>3. r[1] \in Reached(g) /\ r[2] \in Nat
  BY DEF Points
<1>4. r[1] = p[1] /\ r[2] = p[2]
  BY <1>1, <1>3 DEF Numbered, Values
<1>5. r = p
  BY <1>4 DEF Points
<1>6. CASE q = p
  BY <1>5, <1>6, NotEarlier
<1>7. CASE Earlier(g, q, p)
  <2>1. Earlier(g, r, p)
    BY <1>7, EarlierThrough
  <2> QED
    BY <1>5, <2>1, NotEarlier
<1> QED
  BY <1>6, <1>7

\* What is current from a place of a block on is available there, when it is
\* where the block begins.
LEMMA CurrentInBlock ==
  ASSUME NEW g, NEW n, IsGraph(g, n), NEW d, NEW fn, NEW cur, NEW b \in Reached(g), BlockDone(g, d, fn, cur, b),
         NEW v \in Vars, <<v, AtStart(g, d, cur, b)[v]>> \in Available(g, fn, <<b, 0>>)
  PROVE  \A k \in 1 .. Len(g.ops[b]) + 1 : <<v, cur[b][k][v]>> \in Available(g, fn, <<b, k>>)
<1> DEFINE m == Len(g.ops[b])
           c == cur[b]
           Good == {k \in Nat : k <= m => <<v, c[k + 1][v]>> \in Available(g, fn, <<b, k + 1>>)}
<1>1. /\ m \in Nat /\ DOMAIN fn.ops[b] = 1 .. m
      /\ \A i \in 1 .. m : Renames(g.ops[b][i], fn.ops[b][i], c[i], c[i + 1], i)
  BY DEF BlockDone, BlockRenamed
<1>2. \A k \in 1 .. m + 1 : c[k][v] \in Nat
  BY DEF BlockDone, Current
<1>3. c[1][v] = IF v \in DOMAIN fn.phis[b] THEN fn.phis[b][v].ver ELSE AtStart(g, d, cur, b)[v]
  BY DEF BlockDone
<1> HIDE DEF m, c
<1>4. 0 \in Good
  <2> DEFINE x == <<v, c[1][v]>>
             p == <<b, 0>>
             q == <<b, 1>>
  <2>1. p \in Points(g) /\ q \in Points(g) /\ p[1] = b /\ p[2] = 0 /\ q[1] = b /\ q[2] = 1
    BY DEF Points
  <2> HIDE DEF p, q
  <2>2. Earlier(g, p, q)
    BY <2>1 DEF Earlier
  <2>3. x \in Values /\ x[1] = v /\ x[2] = c[1][v]
    <3>1. 1 \in 1 .. m + 1
      BY <1>1
    <3>2. c[1][v] \in Nat
      BY <1>2, <3>1
    <3> QED
      BY <3>2 DEF Values
  <2>4. x \in Available(g, fn, q)
    <3>1. CASE v \in DOMAIN fn.phis[b]
      <4> HIDE DEF x
      <4>1. DefinedAt(fn, p[1], p[2], x)
        BY <1>3, <2>1, <2>3, <3>1 DEF DefinedAt
      <4> QED
        BY <2>1, <2>2, <2>3, <4>1 DEF Available
    <3>2. CASE v \notin DOMAIN fn.phis[b]
      <4>1. x \in Available(g, fn, p)
        BY <1>3, <3>2 DEF p
      <4> HIDE DEF x
      <4> QED
        BY <2>1, <2>2, <4>1, StillAvailable
    <3> QED
      BY <3>1, <3>2
  <2> QED
    BY <2>4 DEF q
<1>5. ASSUME NEW i \in Nat, i \in Good
      PROVE  i + 1 \in Good
  <2> SUFFICES ASSUME i + 1 <= m
               PROVE  <<v, c[i + 1 + 1][v]>> \in Available(g, fn, <<b, i + 1 + 1>>)
    OBVIOUS
  <2> DEFINE k == i + 1
             j == k + 1
             x == <<v, c[j][v]>>
             p == <<b, k>>
             q == <<b, j>>
             op == g.ops[b][k]
             new == fn.ops[b][k]
             before == c[k]
             next == c[j]
  <2>1. i <= m /\ k \in 1 .. m /\ j \in 1 .. m + 1 /\ k < j /\ k \in Nat /\ j \in Nat
    BY <1>1
  <2>2. <<v, before[v]>> \in Available(g, fn, p)
    BY <1>5, <2>1
  <2>3. Renames(op, new, before, next, k)
    BY <1>1, <2>1
  <2>4. c[j][v] \in Nat
    BY <1>2, <2>1
  <2> HIDE DEF k, j, op, new, before
  <2>5. x \in Values /\ x[1] = v /\ x[2] = next[v] /\ x # None
    BY <2>4, NamesAssumption DEF Values
  <2>6. p \in Points(g) /\ q \in Points(g) /\ p[1] = b /\ p[2] = k /\ q[1] = b /\ q[2] = j
    BY <2>1 DEF Points
  <2> HIDE DEF p, q
  <2>7. Earlier(g, p, q)
    BY <2>1, <2>6 DEF Earlier
  <2>8. x \in Available(g, fn, q)
    <3>1. CASE op.out = v
      <4>1. v # None
        BY NamesAssumption
      <4>2. new.out = x
        BY <2>3, <3>1, <4>1 DEF Renames
      <4> HIDE DEF x
      <4>3. DefinedAt(fn, p[1], p[2], x)
        BY <1>1, <2>1, <2>6, <4>2 DEF DefinedAt, new
      <4> QED
        BY <2>5, <2>6, <2>7, <4>3 DEF Available
    <3>2. CASE op.out # v
      <4>1. next[v] = before[v]
        BY <2>3, <3>2 DEF Renames
      <4>2. x \in Available(g, fn, p)
        BY <2>2, <4>1
      <4> HIDE DEF x
      <4> QED
        BY <2>6, <2>7, <4>2, StillAvailable
    <3> QED
      BY <3>1, <3>2
  <2> QED
    BY <2>8 DEF q, x, j, k
<1>6. Nat \subseteq Good
  <2> HIDE DEF Good
  <2> QED
    BY <1>4, <1>5, NumbersInduct, Zenon
<1>7. ASSUME NEW k \in 1 .. m + 1
      PROVE  <<v, c[k][v]>> \in Available(g, fn, <<b, k>>)
  <2> DEFINE i == k - 1
  <2>1. i \in Nat /\ i <= m /\ i + 1 = k
    BY <1>1
  <2> HIDE DEF i
  <2>2. <<v, c[i + 1][v]>> \in Available(g, fn, <<b, i + 1>>)
    BY <1>6, <2>1
  <2> QED
    BY <2>1, <2>2
<1> QED
  BY <1>7 DEF m, c

\* The versions that are current are available.
LEMMA CurrentAvailable ==
  ASSUME NEW g, NEW n, IsGraph(g, n), NEW places, NEW fn, NEW cur,
         IsRenaming(g, n, Dominators(g), places, fn, cur), NEW v \in Vars, NEW b \in Reached(g)
  PROVE  \A k \in 1 .. Len(g.ops[b]) + 1 : <<v, cur[b][k][v]>> \in Available(g, fn, <<b, k>>)
<1> DEFINE d == Dominators(g)
           place == Places(g, ReversePostorder(g))
           Fine(x) == <<v, AtStart(g, d, cur, x)[v]>> \in Available(g, fn, <<x, 0>>)
           Good == {k \in Nat : \A x \in Reached(g) : place[x] <= k => Fine(x)}
<1>1. Descends(g, n, d, place)
  BY DominatorsDescend
<1> HIDE DEF d, place
<1>2. /\ \A x \in Reached(g) : place[x] \in Nat /\ BlockDone(g, d, fn, cur, x)
      /\ \A x \in Reached(g) \ {EntryBlock} :
           d[x] \in Reached(g) /\ d[x] # x /\ place[d[x]] < place[x] /\ Dominates(g, d[x], x)
      /\ \A x \in Reached(g) : place[x] \in 1 .. n
  BY <1>1 DEF IsRenaming, Descends, d
<1>3. ASSUME NEW x \in Reached(g), x # EntryBlock => Fine(d[x])
      PROVE  Fine(x)
  <2>1. CASE x = EntryBlock
    <3>1. AtStart(g, d, cur, x)[v] = 0
      BY <2>1 DEF AtStart
    <3>2. <<v, 0>> \in Available(g, fn, <<x, 0>>)
      BY DEF Available, Values
    <3> QED
      BY <3>1, <3>2
  <2>2. CASE x # EntryBlock
    <3> DEFINE y == d[x]
               m == Len(g.ops[y])
               p == <<y, m + 1>>
               q == <<x, 0>>
               a == AtEnd(g, cur, y)[v]
    <3>1. y \in Reached(g) /\ y # x /\ Dominates(g, y, x) /\ Fine(y) /\ BlockDone(g, d, fn, cur, y)
      BY <1>2, <1>3, <2>2
    <3>2. m \in Nat
      BY <3>1 DEF BlockDone, BlockRenamed
    <3> HIDE DEF y
    <3>3. \A k \in 1 .. Len(g.ops[y]) + 1 : <<v, cur[y][k][v]>> \in Available(g, fn, <<y, k>>)
      BY <3>1, CurrentInBlock
    <3>4. m + 1 \in 1 .. m + 1
      BY <3>2
    <3>5. <<v, a>> \in Available(g, fn, p)
      BY <3>3, <3>4 DEF AtEnd
    <3>6. p \in Points(g) /\ q \in Points(g) /\ p[1] = y /\ q[1] = x
      BY <3>1, <3>2 DEF Points
    <3> HIDE DEF p, q, a
    <3>7. Earlier(g, p, q)
      BY <3>1, <3>6 DEF Earlier
    <3>8. <<v, a>> \in Available(g, fn, q)
      BY <3>5, <3>6, <3>7, StillAvailable
    <3>9. AtStart(g, d, cur, x)[v] = a
      BY <2>2 DEF AtStart, a, y
    <3> QED
      BY <3>8, <3>9 DEF q
  <2> QED
    BY <2>1, <2>2
<1> HIDE DEF Fine
<1>4. 0 \in Good
  <2> SUFFICES ASSUME NEW x \in Reached(g), place[x] <= 0
               PROVE  FALSE
    OBVIOUS
  <2> QED
    BY <1>2
<1>5. ASSUME NEW k \in Nat, k \in Good
      PROVE  k + 1 \in Good
  <2> SUFFICES ASSUME NEW x \in Reached(g), place[x] <= k + 1
               PROVE  Fine(x)
    OBVIOUS
  <2>1. ASSUME x # EntryBlock
        PROVE  Fine(d[x])
    <3>1. d[x] \in Reached(g) /\ place[d[x]] < place[x] /\ place[x] \in Nat /\ place[d[x]] \in Nat
      BY <1>2, <2>1
    <3>2. place[d[x]] <= k
      BY <3>1
    <3> QED
      BY <1>5, <3>1, <3>2
  <2> QED
    BY <1>3, <2>1
<1>6. Nat \subseteq Good
  <2> HIDE DEF Good
  <2> QED
    BY <1>4, <1>5, NumbersInduct, Zenon
<1>7. Fine(b)
  <2> DEFINE k == place[b]
  <2>1. k \in Nat
    BY <1>2
  <2>2. k <= k
    BY <2>1
  <2> QED
    BY <1>6, <2>1, <2>2
<1>8. BlockDone(g, d, fn, cur, b)
  BY <1>2
<1> QED
  BY <1>7, <1>8, CurrentInBlock DEF Fine

\* The points at operations, and what can be read at a point.
OpAt(fn, p) == fn.ops[p[1]][p[2]]
OpPoints(g, fn) == {p \in Points(g) : p[2] \in DOMAIN fn.ops[p[1]]}
Consts == {"const"} \X Words
Terms(g, fn, p) == Consts \cup Available(g, fn, p)

\* An operation of the SSA form reads what is available.
IsOp(op) == op = [opcode |-> op.opcode, ins |-> op.ins, at |-> op.at, out |-> op.out]
OpFormed(g, fn, p, op) ==
  /\ IsOp(op) /\ op.at = p[2] /\ op.out \in Values \cup {None}
  /\ \A k \in DOMAIN op.ins : op.ins[k] \in Terms(g, fn, p)
  /\ op.opcode \in DOMAIN Arity => DOMAIN op.ins = 1 .. Arity[op.opcode]
  /\ op.opcode \in Pure \cup {"Load"} => op.out # None
  /\ op.out # None => op.opcode \in Pure \cup {"Load", "Pop"}

\* So do all, and the phis at the ends of the blocks that lead to them.
Formed(g, n, fn) ==
  /\ IsForm(fn) /\ fn.versions \in [Vars -> Nat] /\ Numbered(fn, Reached(g))
  /\ DOMAIN fn.ops = 1 .. n /\ DOMAIN fn.phis = 1 .. n
  /\ \A b \in (1 .. n) \ Reached(g) : fn.ops[b] = << >>
  /\ \A b \in Reached(g) : Len(g.ops[b]) \in Nat /\ DOMAIN fn.ops[b] = 1 .. Len(g.ops[b])
  /\ \A p \in OpPoints(g, fn) : OpFormed(g, fn, p, OpAt(fn, p))
  /\ \A c \in 1 .. n :
       /\ IsTabled(fn.phis[c]) /\ DOMAIN fn.phis[c] \subseteq Vars
       /\ \A v \in DOMAIN fn.phis[c] :
            IsPhi(fn.phis[c][v]) /\ DOMAIN fn.phis[c][v].in = Predecessors(g, c)
  /\ \A b \in Reached(g) : \A c \in ToSet(g.succ[b]) : \A v \in DOMAIN fn.phis[c] :
       fn.phis[c][v].in[b] \in Available(g, fn, <<b, Len(g.ops[b]) + 1>>)

\* What an operation is renamed to.
LEMMA RenamedOpFormed ==
  ASSUME NEW g, NEW fn, NEW p, NEW op \in Operations(Vars), NEW new, NEW before, NEW next,
         Renames(op, new, before, next, p[2]),
         op.out # None => next[op.out] \in Nat,
         \A v \in Vars : <<v, before[v]>> \in Available(g, fn, p)
  PROVE  OpFormed(g, fn, p, new)
<1> DEFINE ins == op.ins
           o == op.out
           renamed == NewIns(op, before)
<1>1. /\ ins \in Seq(Operands(Vars)) /\ DOMAIN ins = 1 .. Len(ins) /\ Len(ins) \in Nat
      /\ o \in Vars \cup {None} /\ op.opcode \in STRING
      /\ op.opcode \in DOMAIN Arity => Len(ins) = Arity[op.opcode]
      /\ op.opcode \in Pure \cup {"Load"} => o # None
      /\ o # None => op.opcode \in Pure \cup {"Load", "Pop"}
  BY DEF Operations
<1>2. None \notin Vars /\ None \notin Vars \X Nat /\ "const" \notin Vars
  BY NamesAssumption
<1>3. /\ IsOp(new) /\ new.at = p[2] /\ new.opcode = op.opcode /\ new.ins = renamed
      /\ new.out = IF o = None THEN None ELSE <<o, next[o]>>
  BY DEF Renames, IsOp
<1>4. new.out \in Values \cup {None} /\ (o # None <=> new.out # None)
  BY <1>1, <1>2, <1>3 DEF Values
<1>5. renamed = [k \in DOMAIN ins |-> IF IsConst(ins[k]) THEN ins[k] ELSE <<ins[k][1], before[Key(ins[k][1])]>>]
  BY DEF NewIns
<1> HIDE DEF renamed, o
<1>6. ASSUME NEW k \in DOMAIN ins
      PROVE  renamed[k] \in Terms(g, fn, p)
  <2> DEFINE x == ins[k]
  <2>1. x \in Operands(Vars)
    <3> HIDE DEF ins
    <3> QED
      BY <1>1
  <2>2. renamed[k] = IF IsConst(x) THEN x ELSE <<x[1], before[Key(x[1])]>>
    BY <1>5
  <2> HIDE DEF x
  <2>3. CASE x \in {"const"} \X Words
    <3>1. IsConst(x)
      BY <2>3 DEF IsConst
    <3> QED
      BY <2>2, <2>3, <3>1 DEF Terms, Consts
  <2>4. CASE x \in Vars \X {0}
    <3>1. x[1] \in Vars /\ ~IsConst(x)
      BY <1>2, <2>4 DEF IsConst
    <3>2. Key(x[1]) = x[1]
      BY <3>1, FullWidth
    <3> QED
      BY <2>2, <3>1, <3>2 DEF Terms
  <2> QED
    BY <2>1, <2>3, <2>4 DEF Operands
<1>7. DOMAIN renamed = DOMAIN ins
  BY <1>5
<1> HIDE DEF ins
<1>8. op.opcode \in DOMAIN Arity => DOMAIN renamed = 1 .. Arity[op.opcode]
  BY <1>1, <1>7
<1> QED
  BY <1>1, <1>3, <1>4, <1>6, <1>7, <1>8 DEF OpFormed

\* The SSA form is so.
LEMMA RenamingFormed ==
  ASSUME NEW g, NEW n, IsGraph(g, n), OpsTyped(g, n), NEW fn, NEW cur,
         IsRenaming(g, n, Dominators(g), PhiPlacement(g, Vars), fn, cur)
  PROVE  Formed(g, n, fn)
<1> DEFINE d == Dominators(g)
           places == PhiPlacement(g, Vars)
<1>1. /\ PhisShaped(g, n, places, fn) /\ Numbered(fn, Reached(g))
      /\ \A b \in (1 .. n) \ Reached(g) : fn.ops[b] = << >>
      /\ \A b \in Reached(g) : BlockDone(g, d, fn, cur, b)
  BY DEF IsRenaming
<1>2. Reached(g) \subseteq 1 .. n
  BY ClosureSpec DEF Reached
<1>3. \A b \in Reached(g) : /\ Len(g.ops[b]) \in Nat /\ DOMAIN fn.ops[b] = 1 .. Len(g.ops[b])
                            /\ BlockRenamed(g.ops[b], fn.ops[b], cur[b])
                            /\ \A k \in 1 .. Len(g.ops[b]) + 1 : Current(cur[b][k], fn.versions)
  BY <1>1 DEF BlockDone, BlockRenamed
<1>4. \A v \in Vars : \A b \in Reached(g) : \A k \in 1 .. Len(g.ops[b]) + 1 :
        <<v, cur[b][k][v]>> \in Available(g, fn, <<b, k>>)
  BY CurrentAvailable
<1> HIDE DEF d, places
<1>5. ASSUME NEW p \in OpPoints(g, fn)
      PROVE  OpFormed(g, fn, p, OpAt(fn, p))
  <2> DEFINE b == p[1]
             i == p[2]
             m == Len(g.ops[b])
             op == g.ops[b][i]
             new == fn.ops[b][i]
             before == cur[b][i]
             next == cur[b][i + 1]
  <2>1. b \in Reached(g) /\ i \in 1 .. m /\ m \in Nat /\ i \in 1 .. m + 1 /\ i + 1 \in 1 .. m + 1 /\ p = <<b, i>>
    <3>1. b \in Reached(g) /\ i \in DOMAIN fn.ops[b] /\ p = <<b, i>>
      BY DEF OpPoints, Points
    <3>2. m \in Nat /\ DOMAIN fn.ops[b] = 1 .. m
      BY <1>3, <3>1
    <3> HIDE DEF m, b, i
    <3> QED
      BY <3>1, <3>2
  <2>2. Renames(op, new, before, next, i)
    BY <1>3, <2>1 DEF BlockRenamed
  <2>3. \A v \in Vars : next[v] \in Nat
    BY <1>3, <2>1 DEF Current
  <2>4. \A v \in Vars : <<v, before[v]>> \in Available(g, fn, p)
    BY <1>4, <2>1
  <2>5. op \in Operations(Vars)
    <3>1. g.ops[b] \in Seq(Operations(Vars))
      BY <1>2, <2>1 DEF OpsTyped
    <3> QED
      BY <2>1, <3>1
  <2>6. op.out # None => next[op.out] \in Nat
    BY <2>3, <2>5 DEF Operations
  <2>7. OpAt(fn, p) = new
    BY DEF OpAt
  <2> HIDE DEF op, new, before, next, b
  <2> QED
    BY <2>2, <2>4, <2>5, <2>6, <2>7, RenamedOpFormed
<1>6. ASSUME NEW b \in Reached(g), NEW c \in ToSet(g.succ[b]), NEW v \in DOMAIN fn.phis[c]
      PROVE  fn.phis[c][v].in[b] \in Available(g, fn, <<b, Len(g.ops[b]) + 1>>)
  <2>1. c \in 1 .. n
    BY <1>2, Edges
  <2>2. v \in Vars
    BY <1>1, <2>1 DEF PhisShaped
  <2>3. fn.phis[c][v].in[b] = <<v, AtEnd(g, cur, b)[v]>>
    BY <1>1 DEF BlockDone
  <2> DEFINE m == Len(g.ops[b])
  <2>4. m \in Nat
    BY <1>3
  <2>5. m + 1 \in 1 .. m + 1
    BY <2>4
  <2> QED
    BY <1>4, <2>2, <2>3, <2>5 DEF AtEnd
<1> QED
  BY <1>1, <1>3, <1>5, <1>6 DEF Formed, PhisShaped

-----------------------------------------------------------------------------
(* The equations between values that hold where they are available *)

\* A value is available past its definition only.
LEMMA DefinedEarlier ==
  ASSUME NEW g, NEW n, IsGraph(g, n), NEW fn, Numbered(fn, Reached(g)), NEW x \in Values,
         NEW q \in Points(g), DefinedAt(fn, q[1], q[2], x), NEW p, x \in Available(g, fn, p)
  PROVE  Earlier(g, q, p)
<1>1. q[1] \in Reached(g) /\ q[2] \in Nat
  BY DEF Points
<1>2. x[2] # 0
  BY <1>1 DEF Numbered, Values
<1>3. PICK r \in Points(g) : DefinedAt(fn, r[1], r[2], x) /\ Earlier(g, r, p)
  BY <1>2 DEF Available
<1>4. r[1] \in Reached(g) /\ r[2] \in Nat
  BY DEF Points
<1>5. r[1] = q[1] /\ r[2] = q[2]
  BY <1>1, <1>3, <1>4 DEF Numbered, Values
<1>6. r = q
  BY <1>5 DEF Points
<1> QED
  BY <1>3, <1>6

\* What an operation yields.
Yields(op, values, memory, popped) ==
  CASE op.opcode = "Pop"  -> popped
    [] op.opcode = "Load" -> memory[ReadAll(values, op)[1]]
    [] OTHER              -> Compute(op.opcode, ReadAll(values, op))

\* The memory has what the last store of the block wrote, when nothing since
\* may have changed it.
LastBarrier(fn, p, i) ==
  /\ i \in 1 .. p[2] - 1 /\ fn.ops[p[1]][i].opcode \in LoadBarriers
  /\ \A j \in 1 .. p[2] - 1 : i < j => fn.ops[p[1]][j].opcode \notin LoadBarriers
Memory(fn, values, memory, p) ==
  \A i \in Nat : LastBarrier(fn, p, i) /\ fn.ops[p[1]][i].opcode = "Store" =>
    memory[Read(values, fn.ops[p[1]][i].ins[1])] = Read(values, fn.ops[p[1]][i].ins[2])

\* Equations between values, and of values and constants, hold at a point of
\* the values that are available there.
Holds(g, fn, E, values, p) ==
  \A e \in E : e[1] \in Available(g, fn, p) => Read(values, e[1]) = Read(values, e[2])

\* Where they hold an operation yields a term.
Yielded(g, fn, E, p, t) ==
  \A values, memory, popped : Holds(g, fn, E, values, p) /\ Memory(fn, values, memory, p) =>
    Yields(OpAt(fn, p), values, memory, popped) = Read(values, t)

\* The equations that hold wherever the SSA form is executed: all that bear
\* each other out.
Justifies(g, fn, E, e) ==
  \E p \in OpPoints(g, fn) :
    OpAt(fn, p).out = e[1] /\ e[2] \in Terms(g, fn, p) /\ Yielded(g, fn, E, p, e[2])
Pairs == Values \X (Values \cup Consts)
Equations(g, fn) == UNION {E \in SUBSET Pairs : \A e \in E : Justifies(g, fn, E, e)}

\* More equations, more is yielded.
LEMMA JustifiesMore ==
  ASSUME NEW g, NEW fn, NEW D, NEW E, D \subseteq E, NEW e, Justifies(g, fn, D, e)
  PROVE  Justifies(g, fn, E, e)
<1>1. PICK p \in OpPoints(g, fn) :
        OpAt(fn, p).out = e[1] /\ e[2] \in Terms(g, fn, p) /\ Yielded(g, fn, D, p, e[2])
  BY DEF Justifies
<1>2. \A values : Holds(g, fn, E, values, p) => Holds(g, fn, D, values, p)
  BY DEF Holds
<1>3. Yielded(g, fn, E, p, e[2])
  BY <1>1, <1>2, Zenon DEF Yielded
<1> QED
  BY <1>1, <1>3 DEF Justifies

\* They bear each other out.
LEMMA EquationsJustified ==
  ASSUME NEW g, NEW fn
  PROVE  Equations(g, fn) \subseteq Pairs /\ \A e \in Equations(g, fn) : Justifies(g, fn, Equations(g, fn), e)
<1>1. Equations(g, fn) \subseteq Pairs
  BY DEF Equations
<1>2. ASSUME NEW e \in Equations(g, fn)
      PROVE  Justifies(g, fn, Equations(g, fn), e)
  <2>1. PICK E \in SUBSET Pairs : e \in E /\ \A x \in E : Justifies(g, fn, E, x)
    BY DEF Equations
  <2>2. E \subseteq Equations(g, fn)
    BY <2>1 DEF Equations
  <2> QED
    BY <2>1, <2>2, JustifiesMore
<1> QED
  BY <1>1, <1>2

\* What follows from them is one of them.
LEMMA EquationsGrow ==
  ASSUME NEW g, NEW fn, NEW p \in OpPoints(g, fn), OpAt(fn, p).out \in Values, NEW t \in Terms(g, fn, p),
         Yielded(g, fn, Equations(g, fn), p, t)
  PROVE  <<OpAt(fn, p).out, t>> \in Equations(g, fn)
<1> DEFINE x == OpAt(fn, p).out
           e == <<x, t>>
           E == Equations(g, fn)
           M == E \cup {e}
<1>1. e \in Pairs
  BY DEF Pairs, Terms, Available
<1>2. E \subseteq Pairs /\ \A y \in E : Justifies(g, fn, E, y)
  BY EquationsJustified
<1>3. e[1] = x /\ e[2] = t
  OBVIOUS
<1>4. Justifies(g, fn, E, e)
  <2> HIDE DEF e
  <2> QED
    BY <1>3 DEF Justifies
<1> HIDE DEF e
<1>5. \A y \in M : Justifies(g, fn, M, y)
  <2> SUFFICES ASSUME NEW y \in M
               PROVE  Justifies(g, fn, M, y)
    OBVIOUS
  <2>1. Justifies(g, fn, E, y)
    BY <1>2, <1>4
  <2>2. E \subseteq M
    OBVIOUS
  <2> HIDE DEF E, M
  <2> QED
    BY <2>1, <2>2, JustifiesMore
<1>6. M \in SUBSET Pairs /\ e \in M
  BY <1>1, <1>2
<1> HIDE DEF E, M
<1> QED
  BY <1>5, <1>6 DEF Equations, e

\* An equation, and where its value is defined.
LEMMA EquationAt ==
  ASSUME NEW g, NEW fn, NEW x, NEW t, <<x, t>> \in Equations(g, fn)
  PROVE  /\ x \in Values /\ t \in Values \cup Consts
         /\ \E p \in OpPoints(g, fn) :
              OpAt(fn, p).out = x /\ t \in Terms(g, fn, p) /\ Yielded(g, fn, Equations(g, fn), p, t)
<1> DEFINE e == <<x, t>>
<1>1. e \in Equations(g, fn) /\ e[1] = x /\ e[2] = t
  OBVIOUS
<1> HIDE DEF e
<1>2. e \in Pairs /\ Justifies(g, fn, Equations(g, fn), e)
  BY <1>1, EquationsJustified
<1> QED
  BY <1>1, <1>2 DEF Justifies, Pairs

\* An operation's place is where its value is defined.
LEMMA OpDefines ==
  ASSUME NEW g, NEW fn, NEW p \in OpPoints(g, fn)
  PROVE  DefinedAt(fn, p[1], p[2], OpAt(fn, p).out) /\ p \in Points(g)
  BY DEF OpPoints, DefinedAt, OpAt

\* A variable is no constant.
LEMMA ValuesNotConsts ==
  /\ \A x \in Values : ~IsConst(x) /\ x \notin Consts /\ x # None /\ x[1] \in Vars
  /\ \A x \in Consts : IsConst(x) /\ x[2] \in Words /\ x = <<"const", x[2]>>
  BY NamesAssumption DEF Values, IsConst, Consts

\* Where its value is available so is the other side of an equation.
LEMMA EquationUsable ==
  ASSUME NEW g, NEW n, IsGraph(g, n), NEW fn, Numbered(fn, Reached(g)), NEW x, NEW t,
         <<x, t>> \in Equations(g, fn), NEW p \in Points(g), x \in Available(g, fn, p)
  PROVE  t \in Terms(g, fn, p)
<1>1. PICK q \in OpPoints(g, fn) : OpAt(fn, q).out = x /\ t \in Terms(g, fn, q)
  BY EquationAt
<1>2. x \in Values
  BY EquationAt
<1>3. q \in Points(g) /\ DefinedAt(fn, q[1], q[2], x)
  BY <1>1, OpDefines
<1>4. Earlier(g, q, p)
  BY <1>2, <1>3, DefinedEarlier
<1>5. Available(g, fn, q) \subseteq Available(g, fn, p)
  BY <1>3, <1>4, StillAvailable
<1> QED
  BY <1>1, <1>5 DEF Terms

\* A term in the place of another.
Alike(g, fn, x, y) == x = y \/ <<x, y>> \in Equations(g, fn)

\* The equations are transitive.
LEMMA EquationThrough ==
  ASSUME NEW g, NEW n, IsGraph(g, n), NEW fn, Numbered(fn, Reached(g)), NEW x, NEW y, NEW z,
         <<x, y>> \in Equations(g, fn), Alike(g, fn, y, z)
  PROVE  <<x, z>> \in Equations(g, fn)
<1> DEFINE E == Equations(g, fn)
<1>1. CASE y = z
  BY <1>1
<1>2. CASE <<y, z>> \in E
  <2>1. PICK p \in OpPoints(g, fn) : OpAt(fn, p).out = x /\ y \in Terms(g, fn, p) /\ Yielded(g, fn, E, p, y)
    BY EquationAt
  <2>2. x \in Values /\ y \in Values
    BY <1>2, EquationAt
  <2>3. y \in Available(g, fn, p) /\ p \in Points(g)
    BY <2>1, <2>2, ValuesNotConsts, OpDefines DEF Terms
  <2>4. z \in Terms(g, fn, p)
    BY <1>2, <2>3, EquationUsable
  <2> DEFINE e == <<y, z>>
  <2>5. e \in E /\ e[1] = y /\ e[2] = z
    BY <1>2
  <2> HIDE DEF e, E
  <2>6. \A values : Holds(g, fn, E, values, p) => Read(values, y) = Read(values, z)
    BY <2>3, <2>5 DEF Holds
  <2>7. Yielded(g, fn, E, p, z)
    BY <2>1, <2>6 DEF Yielded
  <2> QED
    BY <2>1, <2>2, <2>4, <2>7, EquationsGrow DEF E
<1> QED
  BY <1>1, <1>2 DEF Alike

\* So is likeness.
LEMMA AlikeThrough ==
  ASSUME NEW g, NEW n, IsGraph(g, n), NEW fn, Numbered(fn, Reached(g)), NEW x, NEW y, NEW z,
         Alike(g, fn, x, y), Alike(g, fn, y, z)
  PROVE  Alike(g, fn, x, z)
<1>1. CASE x = y
  BY <1>1
<1>2. CASE <<x, y>> \in Equations(g, fn)
  <2>1. <<x, z>> \in Equations(g, fn)
    BY <1>2, EquationThrough
  <2> QED
    BY <2>1 DEF Alike
<1> QED
  BY <1>1, <1>2 DEF Alike

\* Terms that are alike can both be read, and have one value.
LEMMA AlikeReads ==
  ASSUME NEW g, NEW n, IsGraph(g, n), NEW fn, Numbered(fn, Reached(g)), NEW p \in Points(g),
         NEW x \in Terms(g, fn, p), NEW y, Alike(g, fn, x, y)
  PROVE  /\ y \in Terms(g, fn, p)
         /\ \A values : Holds(g, fn, Equations(g, fn), values, p) => Read(values, x) = Read(values, y)
<1> DEFINE E == Equations(g, fn)
<1>1. CASE x = y
  BY <1>1
<1>2. CASE <<x, y>> \in E
  <2>1. x \in Values
    BY <1>2, EquationAt
  <2>2. x \in Available(g, fn, p)
    BY <2>1, ValuesNotConsts DEF Terms
  <2>3. y \in Terms(g, fn, p)
    BY <1>2, <2>2, EquationUsable
  <2> DEFINE e == <<x, y>>
  <2>4. e \in E /\ e[1] = x /\ e[2] = y
    BY <1>2
  <2> HIDE DEF e, E
  <2>5. \A values : Holds(g, fn, E, values, p) => Read(values, x) = Read(values, y)
    BY <2>2, <2>4 DEF Holds
  <2> QED
    BY <2>3, <2>5 DEF E
<1> QED
  BY <1>1, <1>2 DEF Alike

\* A constant is like itself only.
LEMMA AlikeConst ==
  ASSUME NEW g, NEW fn, NEW x \in Consts, NEW y, Alike(g, fn, x, y)
  PROVE  y = x
<1>1. <<x, y>> \notin Equations(g, fn)
  BY EquationAt, ValuesNotConsts
<1> QED
  BY <1>1 DEF Alike

\* An equation, at the operation that defines its value.
LEMMA EquationHere ==
  ASSUME NEW g, NEW fn, Numbered(fn, Reached(g)), NEW p \in OpPoints(g, fn), NEW t,
         <<OpAt(fn, p).out, t>> \in Equations(g, fn)
  PROVE  /\ OpAt(fn, p).out \in Values
         /\ t \in Terms(g, fn, p) /\ Yielded(g, fn, Equations(g, fn), p, t)
<1> DEFINE x == OpAt(fn, p).out
<1>1. x \in Values
  BY EquationAt
<1>2. PICK q \in OpPoints(g, fn) :
        OpAt(fn, q).out = x /\ t \in Terms(g, fn, q) /\ Yielded(g, fn, Equations(g, fn), q, t)
  BY EquationAt
<1>3. /\ DefinedAt(fn, q[1], q[2], x) /\ DefinedAt(fn, p[1], p[2], x)
      /\ q \in Points(g) /\ p \in Points(g)
  BY <1>2, OpDefines
<1> HIDE DEF x
<1>4. q[1] \in Reached(g) /\ q[2] \in Nat /\ p[1] \in Reached(g) /\ p[2] \in Nat
  BY <1>3 DEF Points
<1>5. q[1] = p[1] /\ q[2] = p[2]
  BY <1>1, <1>3, <1>4 DEF Numbered, Values
<1>6. q = p
  BY <1>3, <1>5 DEF Points
<1> QED
  BY <1>1, <1>2, <1>6 DEF x

\* What the passes may make of an operation: the same of terms that are alike,
\* or a copy of a term it was found to yield.
SameOf(g, fn, old, new) ==
  /\ new.opcode = old.opcode /\ DOMAIN new.ins = DOMAIN old.ins
  /\ \A k \in DOMAIN old.ins : Alike(g, fn, old.ins[k], new.ins[k])
CopyOf(g, fn, old, new) ==
  /\ old.opcode \in Pure \cup {"Load"} /\ new.opcode = "Copy" /\ DOMAIN new.ins = {1}
  /\ <<old.out, new.ins[1]>> \in Equations(g, fn)
Matches(g, fn, old, new) ==
  /\ IsOp(new) /\ new.at = old.at /\ new.out = old.out
  /\ SameOf(g, fn, old, new) \/ CopyOf(g, fn, old, new)

\* What it reads is available.
LEMMA MatchReads ==
  ASSUME NEW g, NEW n, IsGraph(g, n), NEW fn, Formed(g, n, fn), NEW p \in OpPoints(g, fn), NEW new,
         Matches(g, fn, OpAt(fn, p), new), NEW k \in DOMAIN new.ins
  PROVE  new.ins[k] \in Terms(g, fn, p)
<1> DEFINE old == OpAt(fn, p)
<1>1. OpFormed(g, fn, p, old) /\ Numbered(fn, Reached(g)) /\ p \in Points(g)
  BY OpDefines DEF Formed
<1> HIDE DEF old
<1>2. CASE SameOf(g, fn, old, new)
  <2>1. old.ins[k] \in Terms(g, fn, p) /\ Alike(g, fn, old.ins[k], new.ins[k])
    BY <1>1, <1>2 DEF SameOf, OpFormed
  <2> QED
    BY <1>1, <2>1, AlikeReads
<1>3. CASE CopyOf(g, fn, old, new)
  <2>1. k = 1 /\ <<old.out, new.ins[1]>> \in Equations(g, fn)
    BY <1>3 DEF CopyOf
  <2> QED
    BY <1>1, <2>1, EquationHere DEF old
<1> QED
  BY <1>2, <1>3 DEF Matches, old

\* It yields the same.
LEMMA MatchYields ==
  ASSUME NEW g, NEW n, IsGraph(g, n), NEW fn, Formed(g, n, fn), NEW p \in OpPoints(g, fn), NEW new,
         Matches(g, fn, OpAt(fn, p), new), NEW values, NEW memory, NEW popped,
         Holds(g, fn, Equations(g, fn), values, p), Memory(fn, values, memory, p)
  PROVE  /\ SameOf(g, fn, OpAt(fn, p), new) => ReadAll(values, new) = ReadAll(values, OpAt(fn, p))
         /\ Yields(new, values, memory, popped) = Yields(OpAt(fn, p), values, memory, popped)
<1> DEFINE old == OpAt(fn, p)
<1>1. OpFormed(g, fn, p, old) /\ Numbered(fn, Reached(g)) /\ p \in Points(g)
  BY OpDefines DEF Formed
<1>2. CopyOf(g, fn, old, new) => Yielded(g, fn, Equations(g, fn), p, new.ins[1])
  BY <1>1, EquationHere DEF CopyOf
<1> HIDE DEF old
<1>3. ASSUME SameOf(g, fn, old, new)
      PROVE  ReadAll(values, new) = ReadAll(values, old) /\ new.opcode = old.opcode
  <2>1. \A k \in DOMAIN old.ins : Read(values, new.ins[k]) = Read(values, old.ins[k])
    <3> SUFFICES ASSUME NEW k \in DOMAIN old.ins
                 PROVE  Read(values, new.ins[k]) = Read(values, old.ins[k])
      OBVIOUS
    <3>1. old.ins[k] \in Terms(g, fn, p) /\ Alike(g, fn, old.ins[k], new.ins[k])
      BY <1>1, <1>3 DEF SameOf, OpFormed
    <3> QED
      BY <1>1, <3>1, AlikeReads
  <2>2. DOMAIN new.ins = DOMAIN old.ins /\ new.opcode = old.opcode
    BY <1>3 DEF SameOf
  <2> QED
    BY <2>1, <2>2 DEF ReadAll
<1>4. CASE SameOf(g, fn, old, new)
  <2>1. Yields(new, values, memory, popped) = Yields(old, values, memory, popped)
    BY <1>3, <1>4, Zenon DEF Yields
  <2> QED
    BY <1>3, <1>4, <2>1 DEF old
<1>5. CASE CopyOf(g, fn, old, new)
  <2>1. new.opcode = "Copy" /\ DOMAIN new.ins = {1}
    BY <1>5 DEF CopyOf
  <2>2. ReadAll(values, new)[1] = Read(values, new.ins[1])
    BY <2>1 DEF ReadAll
  <2>3. Yields(new, values, memory, popped) = Read(values, new.ins[1])
    BY <2>1, <2>2 DEF Yields, Compute
  <2>4. Yields(OpAt(fn, p), values, memory, popped) = Read(values, new.ins[1])
    BY <1>2, <1>5 DEF Yielded
  <2> QED
    BY <1>3, <2>3, <2>4 DEF old
<1> QED
  BY <1>4, <1>5 DEF Matches, old

-----------------------------------------------------------------------------
(* The passes: copies, and what was stored *)

\* The end of a chain of copies is like where it begins.
LEMMA SourceAlike ==
  ASSUME NEW g, NEW n, IsGraph(g, n), NEW fn, Numbered(fn, Reached(g)), NEW sources,
         IsFiniteSet(DOMAIN sources), \A y \in DOMAIN sources : Alike(g, fn, y, sources[y]), NEW x
  PROVE  Alike(g, fn, x, Source(sources, x))
<1> DEFINE N == Cardinality(DOMAIN sources)
           A == {y \in {x} \cup DOMAIN sources \cup {sources[y] : y \in DOMAIN sources} : Alike(g, fn, x, y)}
           T == [at : A, seen : SUBSET A]
           Body(w) == IF w.at \notin DOMAIN sources \/ w.at \in w.seen THEN w
                      ELSE [at |-> sources[w.at], seen |-> w.seen \cup {w.at}]
           start == [at |-> x, seen |-> {}]
           S == [i \in 0 .. N |-> T]
           f == [i \in 1 .. N |-> [w \in T |-> Body(w)]]
<1>1. N \in Nat
  BY FS_CardinalityType
<1>2. start \in T
  BY DEF Alike
<1>3. ASSUME NEW w \in T
      PROVE  Body(w) \in T
  <2>1. CASE w.at \notin DOMAIN sources \/ w.at \in w.seen
    BY <2>1
  <2>2. CASE ~(w.at \notin DOMAIN sources \/ w.at \in w.seen)
    <3> DEFINE y == w.at
    <3>1. y \in A /\ y \in DOMAIN sources /\ w.seen \subseteq A
      BY <2>2
    <3>2. Alike(g, fn, x, y) /\ Alike(g, fn, y, sources[y])
      BY <3>1
    <3>3. Alike(g, fn, x, sources[y])
      BY <3>2, AlikeThrough
    <3>4. sources[y] \in A
      BY <3>1, <3>3
    <3> HIDE DEF A
    <3>5. [at |-> sources[y], seen |-> w.seen \cup {y}] \in T
      BY <3>1, <3>4
    <3> QED
      BY <2>2, <3>5
  <2> QED
    BY <2>1, <2>2
<1> HIDE DEF N, T, start, Body
<1>4. Leads(N, S, start, f)
  <2>1. start \in S[0]
    BY <1>1, <1>2
  <2>2. ASSUME NEW i \in 1 .. N, NEW w \in S[i - 1]
        PROVE  f[i][w] \in S[i]
    <3>1. S[i - 1] = T /\ S[i] = T
      BY <1>1
    <3> QED
      BY <1>3, <3>1
  <2> HIDE DEF S, f
  <2> QED
    BY <1>1, <2>1, <2>2 DEF Leads
<1>5. PICK t : Tables(t, N, S, start, f)
  <2> HIDE DEF S, f
  <2> QED
    BY <1>4, TableOfSteps
<1>6. t = [i \in 0 .. N |-> t[i]] /\ t[0] = start /\ t[N] \in T /\ \A i \in 1 .. N : t[i] = Body(t[i - 1])
  <2>1. \A i \in 0 .. N : S[i] = T
    OBVIOUS
  <2>2. \A i \in 1 .. N : i - 1 \in 0 .. N /\ N \in 0 .. N
    BY <1>1
  <2>3. N \in 0 .. N
    BY <1>1
  <2>4. \A i \in 1 .. N : \A w \in T : f[i][w] = Body(w)
    OBVIOUS
  <2> HIDE DEF S, f
  <2> QED
    BY <1>5, <2>1, <2>2, <2>3, <2>4 DEF Tables, IsTable
<1> HIDE DEF S, f
<1> DEFINE after == CHOOSE a : a = [i \in 0 .. N |-> IF i = 0 THEN start ELSE Body(a[i - 1])]
<1>7. t = [i \in 0 .. N |-> IF i = 0 THEN start ELSE Body(t[i - 1])]
  <2>1. \A i \in 0 .. N : t[i] = IF i = 0 THEN start ELSE Body(t[i - 1])
    <3>1. \A i \in 0 .. N : i = 0 \/ i \in 1 .. N
      BY <1>1
    <3> QED
      BY <1>6, <3>1
  <2> QED
    BY <1>6, <2>1
<1>8. after = [i \in 0 .. N |-> IF i = 0 THEN start ELSE Body(after[i - 1])]
  BY <1>7
<1>9. after[N] = t[N]
  <2> HIDE DEF after
  <2>1. after[0] = t[0] /\ \A i \in 1 .. N : after[i] = Body(after[i - 1])
    <3>1. 0 \in 0 .. N /\ \A i \in 1 .. N : i \in 0 .. N /\ i # 0
      BY <1>1
    <3> QED
      BY <1>6, <1>8, <3>1
  <2>2. \A i \in 1 .. N : after[i - 1] = t[i - 1] => after[i] = t[i]
    BY <1>6, <2>1
  <2> QED
    BY <1>1, <2>1, <2>2, TablesMeet
<1>10. Source(sources, x) = after[N].at
  BY Zenon DEF Source, Loop, N, start, Body
<1> HIDE DEF after
<1>11. t[N].at \in A
  BY <1>6 DEF T
<1> QED
  BY <1>9, <1>10, <1>11

\* What the passes before the last leave: every operation and every phi, with
\* what they may make of it.
PhisFollow(g, fn, new) ==
  /\ DOMAIN new.phis = DOMAIN fn.phis
  /\ \A b \in DOMAIN fn.phis : DOMAIN new.phis[b] \subseteq DOMAIN fn.phis[b]
  /\ \A b \in DOMAIN fn.phis : \A v \in DOMAIN new.phis[b] :
       /\ IsPhi(new.phis[b][v]) /\ new.phis[b][v].ver = fn.phis[b][v].ver
       /\ DOMAIN new.phis[b][v].in = DOMAIN fn.phis[b][v].in
       /\ \A p \in DOMAIN fn.phis[b][v].in : Alike(g, fn, fn.phis[b][v].in[p], new.phis[b][v].in[p])
OpsFollow(g, fn, new) ==
  /\ DOMAIN new.ops = DOMAIN fn.ops
  /\ \A b \in DOMAIN fn.ops : DOMAIN new.ops[b] = DOMAIN fn.ops[b]
  /\ \A b \in DOMAIN fn.ops : \A i \in DOMAIN fn.ops[b] : Matches(g, fn, fn.ops[b][i], new.ops[b][i])
Follows(g, fn, new) ==
  /\ IsForm(new) /\ OpsFollow(g, fn, new) /\ PhisFollow(g, fn, new)
  /\ \A b \in DOMAIN fn.phis : DOMAIN new.phis[b] = DOMAIN fn.phis[b]

\* The points at operations are those of the blocks that are reached.
LEMMA AtPoints ==
  ASSUME NEW g, NEW n, IsGraph(g, n), NEW fn, Formed(g, n, fn), NEW b \in DOMAIN fn.ops, NEW i \in DOMAIN fn.ops[b]
  PROVE  <<b, i>> \in OpPoints(g, fn) /\ b \in Reached(g)
<1>1. b \in 1 .. n
  BY DEF Formed
<1>2. b \in Reached(g)
  <2> SUFFICES ASSUME b \notin Reached(g)
               PROVE  FALSE
    OBVIOUS
  <2>1. fn.ops[b] = << >>
    BY <1>1 DEF Formed
  <2> QED
    BY <2>1
<1>3. Len(g.ops[b]) \in Nat /\ i \in 1 .. Len(g.ops[b])
  BY <1>2 DEF Formed
<1> QED
  BY <1>2, <1>3 DEF OpPoints, Points

\* The SSA form is such.
LEMMA FollowsItself ==
  ASSUME NEW g, NEW n, IsGraph(g, n), NEW fn, Formed(g, n, fn)
  PROVE  Follows(g, fn, fn)
<1>1. ASSUME NEW b \in DOMAIN fn.ops, NEW i \in DOMAIN fn.ops[b]
      PROVE  Matches(g, fn, fn.ops[b][i], fn.ops[b][i])
  <2> DEFINE p == <<b, i>>
             op == fn.ops[b][i]
  <2>1. p \in OpPoints(g, fn) /\ OpAt(fn, p) = op
    BY AtPoints DEF OpAt
  <2> HIDE DEF p, op
  <2>2. OpFormed(g, fn, p, op)
    BY <2>1 DEF Formed
  <2>3. Matches(g, fn, op, op)
    BY <2>2 DEF Matches, SameOf, OpFormed, Alike
  <2> QED
    BY <2>3 DEF op
<1>2. PhisFollow(g, fn, fn)
  BY DEF PhisFollow, Formed, Alike
<1> QED
  BY <1>1, <1>2 DEF Follows, OpsFollow, Formed

\* An operation of a form that follows is one at a point.
LEMMA FollowAt ==
  ASSUME NEW g, NEW n, IsGraph(g, n), NEW fn, Formed(g, n, fn), NEW new, OpsFollow(g, fn, new), NEW op \in AllOps(new)
  PROVE  \E p \in OpPoints(g, fn) : op = OpAt(new, p) /\ Matches(g, fn, OpAt(fn, p), op)
<1>1. PICK b \in DOMAIN new.ops : op \in ToSet(new.ops[b])
  BY DEF AllOps
<1>2. PICK i \in DOMAIN new.ops[b] : op = new.ops[b][i]
  BY <1>1 DEF ToSet
<1>3. b \in DOMAIN fn.ops /\ i \in DOMAIN fn.ops[b] /\ Matches(g, fn, fn.ops[b][i], op)
  BY <1>2 DEF OpsFollow
<1> DEFINE p == <<b, i>>
<1>4. p \in OpPoints(g, fn) /\ p[1] = b /\ p[2] = i
  BY <1>3, AtPoints
<1> HIDE DEF p
<1> QED
  BY <1>2, <1>3, <1>4 DEF OpAt

\* Their outputs are finitely many.
LEMMA FinitelyMany ==
  ASSUME NEW g, NEW n, IsGraph(g, n), NEW fn, Formed(g, n, fn), NEW new, OpsFollow(g, fn, new)
  PROVE  IsFiniteSet({op.out : op \in AllOps(new)})
<1> DEFINE sets == [b \in 1 .. n |-> ToSet(new.ops[b])]
           all == AllOps(new)
           outs == [op \in all |-> op.out]
<1>1. DOMAIN new.ops = 1 .. n /\ n \in Nat /\ DOMAIN fn.ops = 1 .. n
  BY DEF OpsFollow, Formed, IsGraph
<1>2. IsFiniteSet(1 .. n)
  BY <1>1, FS_Interval
<1>3. ASSUME NEW b \in 1 .. n
      PROVE  IsFiniteSet(ToSet(new.ops[b]))
  <2> DEFINE s == new.ops[b]
             D == DOMAIN fn.ops[b]
  <2>1. DOMAIN s = D
    BY <1>1 DEF OpsFollow
  <2>2. IsFiniteSet(D)
    <3>1. CASE b \in Reached(g)
      <4> DEFINE m == Len(g.ops[b])
      <4>1. m \in Nat /\ D = 1 .. m
        BY <3>1 DEF Formed
      <4> HIDE DEF m
      <4> QED
        BY <4>1, FS_Interval
    <3>2. CASE b \notin Reached(g)
      <4>1. fn.ops[b] = << >>
        BY <3>2 DEF Formed
      <4>2. D = {}
        BY <4>1
      <4> QED
        BY <4>2, FS_EmptySet
    <3> QED
      BY <3>1, <3>2
  <2> HIDE DEF s, D
  <2>3. IsFiniteSet({s[i] : i \in D})
    BY <2>2, FiniteImage
  <2>4. IsFiniteSet({s[i] : i \in DOMAIN s})
    BY <2>1, <2>3
  <2> QED
    BY <2>4 DEF ToSet, s
<1>4. all = UNION {sets[b] : b \in 1 .. n}
  BY <1>1 DEF AllOps
<1> HIDE DEF all
<1>5. IsFiniteSet({sets[b] : b \in 1 .. n})
  <2> HIDE DEF sets
  <2> QED
    BY <1>2, FiniteImage
<1>6. \A X \in {sets[b] : b \in 1 .. n} : IsFiniteSet(X)
  BY <1>3
<1> HIDE DEF sets
<1>7. IsFiniteSet(all)
  BY <1>4, <1>5, <1>6, FS_UNION
<1>8. IsFiniteSet({outs[op] : op \in all})
  <2> HIDE DEF outs
  <2> QED
    BY <1>7, FiniteImage
<1>9. {outs[op] : op \in all} = {op.out : op \in all}
  OBVIOUS
<1> QED
  BY <1>8, <1>9 DEF all

\* A copy is an equation.
LEMMA CopyEquates ==
  ASSUME NEW g, NEW n, IsGraph(g, n), NEW fn, Formed(g, n, fn), NEW p \in OpPoints(g, fn), NEW new,
         Matches(g, fn, OpAt(fn, p), new), new.opcode = "Copy"
  PROVE  <<new.out, new.ins[1]>> \in Equations(g, fn) /\ DOMAIN new.ins = {1}
<1> DEFINE old == OpAt(fn, p)
           E == Equations(g, fn)
           t == new.ins[1]
<1>1. OpFormed(g, fn, p, old) /\ new.out = old.out
  BY DEF Formed, Matches
<1>2. CASE SameOf(g, fn, old, new)
  <2>1. old.opcode = "Copy" /\ DOMAIN new.ins = DOMAIN old.ins
    BY <1>2 DEF SameOf
  <2>2. DOMAIN new.ins = {1} /\ old.out \in Values
    <3>1. old.opcode \in DOMAIN Arity /\ Arity[old.opcode] = 1 /\ old.opcode \in Pure
      BY <2>1 DEF Arity, Pure
    <3>2. DOMAIN old.ins = 1 .. 1 /\ old.out # None
      BY <1>1, <3>1 DEF OpFormed
    <3> QED
      BY <1>1, <2>1, <3>2 DEF OpFormed
  <2>3. t \in Terms(g, fn, p)
    BY <2>2, MatchReads
  <2>4. \A values, memory, popped : Yields(new, values, memory, popped) = Read(values, t)
    <3> SUFFICES ASSUME NEW values, NEW memory, NEW popped
                 PROVE  Yields(new, values, memory, popped) = Read(values, t)
      OBVIOUS
    <3>1. ReadAll(values, new)[1] = Read(values, t)
      BY <2>2 DEF ReadAll
    <3> QED
      BY <3>1 DEF Yields, Compute
  <2> HIDE DEF old, E, t
  <2>5. Yielded(g, fn, E, p, t)
    <3> SUFFICES ASSUME NEW values, NEW memory, NEW popped, Holds(g, fn, E, values, p), Memory(fn, values, memory, p)
                 PROVE  Yields(OpAt(fn, p), values, memory, popped) = Read(values, t)
      BY DEF Yielded
    <3>1. Yields(new, values, memory, popped) = Yields(OpAt(fn, p), values, memory, popped)
      BY MatchYields DEF E
    <3> QED
      BY <2>4, <3>1
  <2>6. <<OpAt(fn, p).out, t>> \in E
    BY <2>2, <2>3, <2>5, EquationsGrow DEF old, E
  <2> QED
    BY <1>1, <2>2, <2>6 DEF old, E, t
<1>3. CASE CopyOf(g, fn, old, new)
  BY <1>1, <1>3 DEF CopyOf
<1> QED
  BY <1>2, <1>3 DEF Matches

\* The copies of a form, and those of values.
Copies(new) == {op \in AllOps(new) : op.opcode = "Copy" /\ op.ins[1] # op.out}
Sources(new) == [x \in {op.out : op \in Copies(new)} |-> (CHOOSE op \in Copies(new) : op.out = x).ins[1]]
OfValues(sources) == [x \in {y \in DOMAIN sources : ~IsConst(sources[y])} |-> sources[x]]

\* Both are alike at their ends.
LEMMA SourcesAlike ==
  ASSUME NEW g, NEW n, IsGraph(g, n), NEW fn, Formed(g, n, fn), NEW new, OpsFollow(g, fn, new)
  PROVE  LET sources == Sources(new)
             values == OfValues(sources)
         IN /\ IsFiniteSet(DOMAIN sources) /\ \A x \in DOMAIN sources : Alike(g, fn, x, sources[x])
            /\ IsFiniteSet(DOMAIN values) /\ \A x \in DOMAIN values : Alike(g, fn, x, values[x])
<1> DEFINE copies == Copies(new)
           sources == Sources(new)
           values == OfValues(sources)
<1>1. DOMAIN sources = {op.out : op \in copies}
  BY DEF Sources
<1>2. copies \subseteq AllOps(new)
  BY DEF Copies
<1>3. IsFiniteSet(DOMAIN sources)
  <2>1. {op.out : op \in copies} \in SUBSET {op.out : op \in AllOps(new)}
    BY <1>2
  <2> HIDE DEF copies, sources
  <2>2. IsFiniteSet({op.out : op \in AllOps(new)})
    BY FinitelyMany
  <2> QED
    BY <1>1, <2>1, <2>2, FS_Subset
<1>4. ASSUME NEW x \in DOMAIN sources
      PROVE  Alike(g, fn, x, sources[x])
  <2> DEFINE op == CHOOSE c \in copies : c.out = x
  <2>1. \E c \in copies : c.out = x
    BY <1>1
  <2>2. op \in copies /\ op.out = x
    BY <2>1
  <2>3. sources[x] = op.ins[1]
    BY DEF Sources
  <2> HIDE DEF op, sources
  <2>4. op \in AllOps(new) /\ op.opcode = "Copy"
    BY <2>2 DEF Copies
  <2>5. PICK p \in OpPoints(g, fn) : Matches(g, fn, OpAt(fn, p), op)
    BY <2>4, FollowAt
  <2>6. <<op.out, op.ins[1]>> \in Equations(g, fn)
    BY <2>4, <2>5, CopyEquates
  <2> QED
    BY <2>2, <2>3, <2>6 DEF Alike
<1> HIDE DEF sources
<1>5. DOMAIN values \in SUBSET (DOMAIN sources) /\ \A x \in DOMAIN values : values[x] = sources[x]
  BY DEF OfValues
<1>6. IsFiniteSet(DOMAIN values) /\ \A x \in DOMAIN values : Alike(g, fn, x, values[x])
  <2> HIDE DEF values
  <2> QED
    BY <1>3, <1>4, <1>5, FS_Subset
<1> QED
  BY <1>3, <1>4, <1>6 DEF sources

\* An operation, or a phi, that reads the ends of the chains.
Redirected(op, sources) == [op EXCEPT !.ins = [k \in DOMAIN op.ins |-> Source(sources, op.ins[k])]]
RedirectedPhi(phi, sources) == [phi EXCEPT !.in = [p \in DOMAIN phi.in |-> Source(sources, phi.in[p])]]

\* The operation, redirected.
LEMMA RedirectedOp ==
  ASSUME NEW op, IsOp(op), NEW sources
  PROVE  LET new == Redirected(op, sources) IN
         /\ IsOp(new) /\ new.opcode = op.opcode /\ new.at = op.at /\ new.out = op.out
         /\ DOMAIN new.ins = DOMAIN op.ins /\ \A k \in DOMAIN op.ins : new.ins[k] = Source(sources, op.ins[k])
<1> DEFINE ins == [k \in DOMAIN op.ins |-> Source(sources, op.ins[k])]
           new == Redirected(op, sources)
<1>1. DOMAIN ins = DOMAIN op.ins /\ \A k \in DOMAIN op.ins : ins[k] = Source(sources, op.ins[k])
  OBVIOUS
<1>2. new = [op EXCEPT !.ins = ins]
  BY DEF Redirected
<1> HIDE DEF ins, new
<1>3. op = [opcode |-> op.opcode, ins |-> op.ins, at |-> op.at, out |-> op.out]
  BY DEF IsOp
<1>4. new = [opcode |-> op.opcode, ins |-> ins, at |-> op.at, out |-> op.out]
  BY <1>2, <1>3
<1>5. IsOp(new) /\ new.opcode = op.opcode /\ new.at = op.at /\ new.out = op.out /\ new.ins = ins
  BY <1>4 DEF IsOp
<1> QED
  BY <1>1, <1>5 DEF new

\* The phi, redirected.
LEMMA RedirectedSlots ==
  ASSUME NEW phi, IsPhi(phi), NEW sources
  PROVE  LET new == RedirectedPhi(phi, sources) IN
         /\ IsPhi(new) /\ new.ver = phi.ver
         /\ DOMAIN new.in = DOMAIN phi.in /\ \A p \in DOMAIN phi.in : new.in[p] = Source(sources, phi.in[p])
<1> DEFINE in == [p \in DOMAIN phi.in |-> Source(sources, phi.in[p])]
           new == RedirectedPhi(phi, sources)
<1>1. DOMAIN in = DOMAIN phi.in /\ \A p \in DOMAIN phi.in : in[p] = Source(sources, phi.in[p])
  OBVIOUS
<1>2. new = [phi EXCEPT !.in = in]
  BY DEF RedirectedPhi
<1> HIDE DEF in, new
<1>3. phi = [ver |-> phi.ver, in |-> phi.in]
  BY DEF IsPhi
<1>4. new = [ver |-> phi.ver, in |-> in]
  BY <1>2, <1>3
<1>5. IsPhi(new) /\ new.ver = phi.ver /\ new.in = in
  BY <1>4 DEF IsPhi
<1> QED
  BY <1>1, <1>5 DEF new

\* What copy_propagate leaves.
LEMMA Propagated ==
  ASSUME NEW fn, IsForm(fn)
  PROVE  LET sources == Sources(fn)
             new == CopyPropagate(fn)
         IN /\ IsForm(new)
            /\ new.ops = [b \in DOMAIN fn.ops |-> [i \in DOMAIN fn.ops[b] |-> Redirected(fn.ops[b][i], sources)]]
            /\ new.phis = [b \in DOMAIN fn.phis |-> [v \in DOMAIN fn.phis[b] |->
                             RedirectedPhi(fn.phis[b][v], OfValues(sources))]]
<1> DEFINE sources == Sources(fn)
           values == OfValues(sources)
           new == CopyPropagate(fn)
           ops == [b \in DOMAIN fn.ops |-> [i \in DOMAIN fn.ops[b] |-> Redirected(fn.ops[b][i], sources)]]
           phis == [b \in DOMAIN fn.phis |-> [v \in DOMAIN fn.phis[b] |-> RedirectedPhi(fn.phis[b][v], values)]]
           moved == [fn EXCEPT !.ops = ops]
           later == [b \in DOMAIN moved.phis |-> [v \in DOMAIN moved.phis[b] |-> RedirectedPhi(moved.phis[b][v], values)]]
<1>1. new = [moved EXCEPT !.phis = later]
  BY Zenon DEF CopyPropagate, MapOps, Redirected, RedirectedPhi, Sources, Copies, OfValues
<1> HIDE DEF new, ops, sources, values
<1>2. fn = [ops |-> fn.ops, phis |-> fn.phis, versions |-> fn.versions]
  BY DEF IsForm
<1>3. moved = [ops |-> ops, phis |-> fn.phis, versions |-> fn.versions]
  BY <1>2
<1> HIDE DEF moved
<1>4. moved.phis = fn.phis
  BY <1>3
<1>5. later = phis
  BY <1>4
<1> HIDE DEF later, phis
<1>6. new = [ops |-> ops, phis |-> phis, versions |-> fn.versions]
  BY <1>1, <1>3, <1>5
<1>7. IsForm(new) /\ new.ops = ops /\ new.phis = phis
  BY <1>6 DEF IsForm
<1> QED
  BY <1>7 DEF new, ops, phis, sources, values

\* It follows what it is made of.
LEMMA CopyPropagateFollows ==
  ASSUME NEW g, NEW n, IsGraph(g, n), NEW fn, Formed(g, n, fn), NEW form, Follows(g, fn, form)
  PROVE  Follows(g, fn, CopyPropagate(form))
<1> DEFINE sources == Sources(form)
           values == OfValues(sources)
           new == CopyPropagate(form)
<1>1. IsForm(form) /\ OpsFollow(g, fn, form) /\ PhisFollow(g, fn, form) /\ Numbered(fn, Reached(g))
      /\ \A b \in DOMAIN fn.phis : DOMAIN form.phis[b] = DOMAIN fn.phis[b]
  BY DEF Follows, Formed
<1>2. /\ IsFiniteSet(DOMAIN sources) /\ \A x \in DOMAIN sources : Alike(g, fn, x, sources[x])
      /\ IsFiniteSet(DOMAIN values) /\ \A x \in DOMAIN values : Alike(g, fn, x, values[x])
  BY <1>1, SourcesAlike
<1>3. /\ IsForm(new)
      /\ new.ops = [b \in DOMAIN form.ops |-> [i \in DOMAIN form.ops[b] |-> Redirected(form.ops[b][i], sources)]]
      /\ new.phis = [b \in DOMAIN form.phis |-> [v \in DOMAIN form.phis[b] |-> RedirectedPhi(form.phis[b][v], values)]]
  BY <1>1, Propagated
<1> HIDE DEF sources, values, new
<1>4. \A x, y : Alike(g, fn, x, y) => Alike(g, fn, x, Source(sources, y)) /\ Alike(g, fn, x, Source(values, y))
  <2> SUFFICES ASSUME NEW x, NEW y, Alike(g, fn, x, y)
               PROVE  Alike(g, fn, x, Source(sources, y)) /\ Alike(g, fn, x, Source(values, y))
    OBVIOUS
  <2>1. Alike(g, fn, y, Source(sources, y)) /\ Alike(g, fn, y, Source(values, y))
    BY <1>1, <1>2, SourceAlike
  <2> QED
    BY <1>1, <2>1, AlikeThrough
<1>5. ASSUME NEW b \in DOMAIN fn.ops, NEW i \in DOMAIN fn.ops[b]
      PROVE  Matches(g, fn, fn.ops[b][i], new.ops[b][i])
  <2> DEFINE old == fn.ops[b][i]
             op == form.ops[b][i]
             mine == new.ops[b][i]
  <2>1. Matches(g, fn, old, op) /\ mine = Redirected(op, sources)
    BY <1>1, <1>3 DEF OpsFollow
  <2> HIDE DEF old, op, mine
  <2>2. /\ IsOp(mine) /\ mine.opcode = op.opcode /\ mine.at = op.at /\ mine.out = op.out
        /\ DOMAIN mine.ins = DOMAIN op.ins /\ \A k \in DOMAIN op.ins : mine.ins[k] = Source(sources, op.ins[k])
    BY <2>1, RedirectedOp DEF Matches
  <2>3. CASE SameOf(g, fn, old, op)
    <3>1. SameOf(g, fn, old, mine)
      BY <1>4, <2>2, <2>3 DEF SameOf
    <3> QED
      BY <2>1, <2>2, <3>1 DEF Matches, old, mine
  <2>4. CASE CopyOf(g, fn, old, op)
    <3>1. mine.ins[1] = Source(sources, op.ins[1])
      BY <2>2, <2>4 DEF CopyOf
    <3>2. Alike(g, fn, op.ins[1], mine.ins[1])
      BY <1>1, <1>2, <3>1, SourceAlike
    <3>3. <<old.out, mine.ins[1]>> \in Equations(g, fn)
      BY <1>1, <2>4, <3>2, EquationThrough DEF CopyOf
    <3>4. CopyOf(g, fn, old, mine)
      BY <2>2, <2>4, <3>3 DEF CopyOf
    <3> QED
      BY <2>1, <2>2, <3>4 DEF Matches, old, mine
  <2> QED
    BY <2>1, <2>3, <2>4 DEF Matches
<1>6. OpsFollow(g, fn, new)
  <2>1. DOMAIN new.ops = DOMAIN fn.ops /\ \A b \in DOMAIN fn.ops : DOMAIN new.ops[b] = DOMAIN fn.ops[b]
    BY <1>1, <1>3 DEF OpsFollow
  <2> QED
    BY <1>5, <2>1 DEF OpsFollow
<1>7. ASSUME NEW b \in DOMAIN fn.phis, NEW v \in DOMAIN new.phis[b]
      PROVE  /\ IsPhi(new.phis[b][v]) /\ new.phis[b][v].ver = fn.phis[b][v].ver
             /\ DOMAIN new.phis[b][v].in = DOMAIN fn.phis[b][v].in
             /\ \A p \in DOMAIN fn.phis[b][v].in : Alike(g, fn, fn.phis[b][v].in[p], new.phis[b][v].in[p])
  <2> DEFINE old == fn.phis[b][v]
             phi == form.phis[b][v]
             mine == new.phis[b][v]
  <2>1. v \in DOMAIN form.phis[b] /\ mine = RedirectedPhi(phi, values)
    BY <1>1, <1>3, <1>7 DEF PhisFollow
  <2>2. /\ IsPhi(phi) /\ phi.ver = old.ver /\ DOMAIN phi.in = DOMAIN old.in
        /\ \A p \in DOMAIN old.in : Alike(g, fn, old.in[p], phi.in[p])
    BY <1>1, <2>1 DEF PhisFollow
  <2> HIDE DEF old, phi, mine
  <2>3. /\ IsPhi(mine) /\ mine.ver = phi.ver
        /\ DOMAIN mine.in = DOMAIN phi.in /\ \A p \in DOMAIN phi.in : mine.in[p] = Source(values, phi.in[p])
    BY <2>1, <2>2, RedirectedSlots
  <2>4. \A p \in DOMAIN old.in : Alike(g, fn, old.in[p], mine.in[p])
    BY <1>4, <2>2, <2>3
  <2> QED
    BY <2>2, <2>3, <2>4 DEF old, mine
<1>8. DOMAIN new.phis = DOMAIN fn.phis /\ \A b \in DOMAIN fn.phis : DOMAIN new.phis[b] = DOMAIN fn.phis[b]
  BY <1>1, <1>3 DEF PhisFollow
<1>9. PhisFollow(g, fn, new)
  BY <1>7, <1>8 DEF PhisFollow
<1> QED
  BY <1>3, <1>6, <1>8, <1>9 DEF Follows, new

\* What load_store_propagate makes of an operation.
Barriers(ops, j) == {i \in 1 .. j - 1 : ops[i].opcode \in LoadBarriers}
Forwards(ops, j) ==
  LET store == ops[Max(Barriers(ops, j))] IN
  /\ ops[j].opcode = "Load" /\ Barriers(ops, j) # {}
  /\ store.opcode = "Store" /\ store.ins[1] = ops[j].ins[1]
AsCopy(op, x) == [op EXCEPT !.opcode = "Copy", !.ins = <<x>>]
Loaded(ops, j) == IF Forwards(ops, j) THEN AsCopy(ops[j], ops[Max(Barriers(ops, j))].ins[2]) ELSE ops[j]

\* The copy it is turned into.
LEMMA AsCopyIs ==
  ASSUME NEW op, IsOp(op), NEW x
  PROVE  LET new == AsCopy(op, x) IN
         /\ IsOp(new) /\ new.opcode = "Copy" /\ new.at = op.at /\ new.out = op.out
         /\ DOMAIN new.ins = {1} /\ new.ins[1] = x
<1> DEFINE new == AsCopy(op, x)
           ins == <<x>>
           other == [op EXCEPT !.opcode = "Copy"]
<1>1. new = [other EXCEPT !.ins = ins]
  BY Zenon DEF AsCopy
<1>2. DOMAIN ins = {1} /\ ins[1] = x
  OBVIOUS
<1> HIDE DEF ins, new
<1>3. op = [opcode |-> op.opcode, ins |-> op.ins, at |-> op.at, out |-> op.out]
  BY DEF IsOp
<1>4. other = [opcode |-> "Copy", ins |-> op.ins, at |-> op.at, out |-> op.out]
  BY <1>3
<1> HIDE DEF other
<1>5. new = [opcode |-> "Copy", ins |-> ins, at |-> op.at, out |-> op.out]
  BY <1>1, <1>4
<1>6. IsOp(new) /\ new.opcode = "Copy" /\ new.at = op.at /\ new.out = op.out /\ new.ins = ins
  BY <1>5 DEF IsOp
<1> QED
  BY <1>2, <1>6 DEF new

\* What they match is a barrier or not as they are.
LEMMA BarriersMatch ==
  ASSUME NEW g, NEW fn, NEW old, NEW new, Matches(g, fn, old, new)
  PROVE  /\ new.opcode \in LoadBarriers <=> old.opcode \in LoadBarriers
         /\ new.opcode # "Copy" => SameOf(g, fn, old, new)
         /\ new.opcode = "Copy" => old.opcode \in Pure \cup {"Load"}
  BY DEF Matches, SameOf, CopyOf, LoadBarriers, Pure

\* A load that is forwarded yields what was stored.
LEMMA ForwardedMatches ==
  ASSUME NEW g, NEW n, IsGraph(g, n), NEW fn, Formed(g, n, fn), NEW form, OpsFollow(g, fn, form),
         NEW b \in DOMAIN fn.ops, NEW j \in DOMAIN fn.ops[b], Forwards(form.ops[b], j)
  PROVE  Matches(g, fn, fn.ops[b][j], Loaded(form.ops[b], j))
<1> DEFINE ops == form.ops[b]
           before == Barriers(ops, j)
           i == Max(before)
           store == ops[i]
           load == ops[j]
           new == AsCopy(load, store.ins[2])
           p == <<b, j>>
           q == <<b, i>>
           E == Equations(g, fn)
<1>1. /\ b \in Reached(g) /\ p \in OpPoints(g, fn) /\ Numbered(fn, Reached(g))
      /\ Len(g.ops[b]) \in Nat /\ DOMAIN fn.ops[b] = 1 .. Len(g.ops[b]) /\ DOMAIN ops = DOMAIN fn.ops[b]
      /\ \A k \in DOMAIN fn.ops[b] : Matches(g, fn, fn.ops[b][k], ops[k])
  BY AtPoints DEF Formed, OpsFollow
<1>2. load.opcode = "Load" /\ before # {} /\ store.opcode = "Store" /\ store.ins[1] = load.ins[1]
  BY DEF Forwards
<1> HIDE DEF ops
<1>3. j \in Nat /\ j - 1 \in Nat /\ \A k \in 1 .. j - 1 : k \in DOMAIN fn.ops[b]
  BY <1>1
<1>4. i \in before /\ \A k \in before : k <= i
  <2>1. before \in SUBSET (1 .. j - 1)
    BY DEF Barriers
  <2> HIDE DEF before
  <2> QED
    BY <1>2, <1>3, <2>1, MaxOfNumbers
<1>5. i \in 1 .. j - 1 /\ i \in DOMAIN fn.ops[b] /\ i \in Nat /\ i < j
  <2>1. i \in 1 .. j - 1
    BY <1>4 DEF Barriers
  <2> HIDE DEF i
  <2> QED
    BY <1>3, <2>1
<1> HIDE DEF i
<1>6. /\ OpAt(fn, p) = fn.ops[b][j] /\ OpAt(fn, q) = fn.ops[b][i]
      /\ p[1] = b /\ p[2] = j /\ q[1] = b /\ q[2] = i /\ q \in OpPoints(g, fn)
  BY <1>5, AtPoints DEF OpAt
<1> HIDE DEF p, q
<1>7. p \in Points(g) /\ q \in Points(g)
  BY <1>1, <1>6, OpDefines
<1>8. Earlier(g, q, p)
  BY <1>5, <1>6 DEF Earlier
<1>9. Available(g, fn, q) \subseteq Available(g, fn, p)
  BY <1>7, <1>8, StillAvailable
<1> DEFINE s == OpAt(fn, q)
           l == OpAt(fn, p)
<1>10. Matches(g, fn, s, store) /\ Matches(g, fn, l, load)
  BY <1>1, <1>5, <1>6
<1>11. OpFormed(g, fn, q, s) /\ OpFormed(g, fn, p, l)
  BY <1>1, <1>6 DEF Formed
<1> HIDE DEF s, l, store, load
<1>12. SameOf(g, fn, s, store) /\ SameOf(g, fn, l, load)
  BY <1>2, <1>10, BarriersMatch
<1>13. s.opcode = "Store" /\ l.opcode = "Load" /\ 1 \in DOMAIN s.ins /\ 2 \in DOMAIN s.ins /\ 1 \in DOMAIN l.ins
       /\ l.out \in Values
  <2>1. s.opcode = "Store" /\ l.opcode = "Load"
    BY <1>2, <1>12 DEF SameOf
  <2>2. DOMAIN s.ins = 1 .. 2 /\ DOMAIN l.ins = 1 .. 1 /\ l.out # None
    BY <1>11, <2>1 DEF OpFormed, Arity
  <2> QED
    BY <1>11, <2>1, <2>2 DEF OpFormed
<1> DEFINE a == store.ins[1]
           t == store.ins[2]
<1>14. /\ s.ins[1] \in Terms(g, fn, p) /\ s.ins[2] \in Terms(g, fn, p) /\ l.ins[1] \in Terms(g, fn, p)
       /\ Alike(g, fn, s.ins[1], a) /\ Alike(g, fn, s.ins[2], t) /\ Alike(g, fn, l.ins[1], a)
  BY <1>2, <1>9, <1>11, <1>12, <1>13 DEF OpFormed, SameOf, Terms
<1> HIDE DEF a, t
<1>15. /\ t \in Terms(g, fn, p)
       /\ \A values : Holds(g, fn, E, values, p) =>
            /\ Read(values, s.ins[1]) = Read(values, a) /\ Read(values, s.ins[2]) = Read(values, t)
            /\ Read(values, l.ins[1]) = Read(values, a)
  BY <1>1, <1>7, <1>14, AlikeReads
<1> HIDE DEF E
<1>16. LastBarrier(fn, p, i)
  <2>1. \A k \in 1 .. j - 1 : fn.ops[b][k].opcode \in LoadBarriers <=> k \in before
    <3> SUFFICES ASSUME NEW k \in 1 .. j - 1
                 PROVE  fn.ops[b][k].opcode \in LoadBarriers <=> k \in before
      OBVIOUS
    <3>1. Matches(g, fn, fn.ops[b][k], ops[k])
      BY <1>1, <1>3
    <3> QED
      BY <3>1, BarriersMatch DEF Barriers
  <2>2. \A k \in 1 .. j - 1 : i < k => k \notin before
    BY <1>3, <1>4, <1>5
  <2> HIDE DEF before
  <2> QED
    BY <1>4, <1>5, <1>6, <2>1, <2>2 DEF LastBarrier
<1>17. Yielded(g, fn, E, p, t)
  <2> SUFFICES ASSUME NEW values, NEW memory, NEW popped, Holds(g, fn, E, values, p), Memory(fn, values, memory, p)
               PROVE  Yields(OpAt(fn, p), values, memory, popped) = Read(values, t)
    BY DEF Yielded
  <2>1. memory[Read(values, s.ins[1])] = Read(values, s.ins[2])
    BY <1>5, <1>6, <1>13, <1>16 DEF Memory, s, OpAt
  <2>2. memory[Read(values, l.ins[1])] = Read(values, t)
    BY <1>15, <2>1
  <2>3. ReadAll(values, l)[1] = Read(values, l.ins[1])
    BY <1>13 DEF ReadAll
  <2> QED
    BY <1>13, <2>2, <2>3 DEF Yields, l
<1>18. <<l.out, t>> \in E
  BY <1>1, <1>13, <1>15, <1>17, EquationsGrow DEF l, E
<1>19. IsOp(load) /\ load.at = l.at /\ load.out = l.out
  BY <1>10 DEF Matches
<1>20. /\ IsOp(new) /\ new.opcode = "Copy" /\ new.at = load.at /\ new.out = load.out
       /\ DOMAIN new.ins = {1} /\ new.ins[1] = t
  BY <1>19, AsCopyIs DEF t
<1> HIDE DEF new
<1>21. CopyOf(g, fn, l, new)
  BY <1>13, <1>18, <1>20 DEF CopyOf, E
<1>22. Matches(g, fn, l, new)
  BY <1>19, <1>20, <1>21 DEF Matches
<1>23. Loaded(form.ops[b], j) = new
  BY DEF Loaded, new, load, store, i, before, ops
<1> QED
  BY <1>6, <1>22, <1>23 DEF l

\* A form with other operations.
LEMMA OpsReplaced ==
  ASSUME NEW fn, IsForm(fn), NEW ops
  PROVE  LET new == [fn EXCEPT !.ops = ops] IN
         IsForm(new) /\ new.ops = ops /\ new.phis = fn.phis /\ new.versions = fn.versions
<1> DEFINE new == [fn EXCEPT !.ops = ops]
<1>1. fn = [ops |-> fn.ops, phis |-> fn.phis, versions |-> fn.versions]
  BY DEF IsForm
<1>2. new = [ops |-> ops, phis |-> fn.phis, versions |-> fn.versions]
  BY <1>1
<1> HIDE DEF new
<1>3. IsForm(new) /\ new.ops = ops /\ new.phis = fn.phis /\ new.versions = fn.versions
  BY <1>2 DEF IsForm
<1> QED
  BY <1>3 DEF new

\* A form that follows, with operations that match in the place of its own.
LEMMA ReplacedFollows ==
  ASSUME NEW g, NEW fn, NEW form, Follows(g, fn, form), NEW ops,
         DOMAIN ops = DOMAIN fn.ops, \A b \in DOMAIN fn.ops : DOMAIN ops[b] = DOMAIN fn.ops[b],
         \A b \in DOMAIN fn.ops : \A i \in DOMAIN fn.ops[b] : Matches(g, fn, fn.ops[b][i], ops[b][i])
  PROVE  Follows(g, fn, [form EXCEPT !.ops = ops])
<1> DEFINE new == [form EXCEPT !.ops = ops]
<1>1. IsForm(new) /\ new.ops = ops /\ new.phis = form.phis
  BY OpsReplaced DEF Follows
<1> HIDE DEF new
<1>2. Follows(g, fn, new)
  BY <1>1 DEF Follows, OpsFollow, PhisFollow
<1> QED
  BY <1>2 DEF new

\* What load_store_propagate leaves follows.
LEMMA LoadStoreFollows ==
  ASSUME NEW g, NEW n, IsGraph(g, n), NEW fn, Formed(g, n, fn), NEW form, Follows(g, fn, form)
  PROVE  Follows(g, fn, LoadStorePropagate(form))
<1> DEFINE ops == [b \in DOMAIN form.ops |-> [j \in DOMAIN form.ops[b] |-> Loaded(form.ops[b], j)]]
<1>1. LoadStorePropagate(form) = [form EXCEPT !.ops = ops]
  BY Zenon DEF LoadStorePropagate, Loaded, Forwards, Barriers, AsCopy
<1>2. OpsFollow(g, fn, form)
  BY DEF Follows
<1>3. DOMAIN form.ops = DOMAIN fn.ops /\ \A b \in DOMAIN fn.ops : DOMAIN form.ops[b] = DOMAIN fn.ops[b]
  BY <1>2 DEF OpsFollow
<1>4. DOMAIN ops = DOMAIN fn.ops /\ \A b \in DOMAIN fn.ops : DOMAIN ops[b] = DOMAIN fn.ops[b]
  BY <1>3
<1>5. \A b \in DOMAIN fn.ops : \A j \in DOMAIN fn.ops[b] : ops[b][j] = Loaded(form.ops[b], j)
  BY <1>3
<1>6. ASSUME NEW b \in DOMAIN fn.ops, NEW j \in DOMAIN fn.ops[b]
      PROVE  Matches(g, fn, fn.ops[b][j], Loaded(form.ops[b], j))
  <2>1. CASE Forwards(form.ops[b], j)
    BY <1>2, <2>1, ForwardedMatches
  <2>2. CASE ~Forwards(form.ops[b], j)
    BY <1>2, <2>2 DEF Loaded, OpsFollow
  <2> QED
    BY <2>1, <2>2
<1> HIDE DEF ops
<1>7. \A b \in DOMAIN fn.ops : \A j \in DOMAIN fn.ops[b] : Matches(g, fn, fn.ops[b][j], ops[b][j])
  BY <1>5, <1>6
<1>8. Follows(g, fn, [form EXCEPT !.ops = ops])
  BY <1>4, <1>7, ReplacedFollows
<1> QED
  BY <1>1, <1>8

\* What const_fold makes of an operation.
Computed(op) == <<"const", Cut(op.out[1], Compute(op.opcode, [k \in DOMAIN op.ins |-> op.ins[k][2]]))>>
Folded(op) == IF ~Folds(op) THEN op ELSE AsCopy(op, Computed(op))

\* A constant that is computed is what the operation yields.
LEMMA FoldedMatches ==
  ASSUME NEW g, NEW n, IsGraph(g, n), NEW fn, Formed(g, n, fn), NEW p \in OpPoints(g, fn), NEW op,
         Matches(g, fn, OpAt(fn, p), op)
  PROVE  Matches(g, fn, OpAt(fn, p), Folded(op))
<1> DEFINE old == OpAt(fn, p)
           E == Equations(g, fn)
           in == [k \in DOMAIN op.ins |-> op.ins[k][2]]
           t == Computed(op)
           new == AsCopy(op, t)
<1> SUFFICES ASSUME Folds(op)
             PROVE  Matches(g, fn, old, new)
  BY DEF Folded
<1>1. OpFormed(g, fn, p, old) /\ IsOp(op) /\ op.at = old.at /\ op.out = old.out
  BY DEF Formed, Matches
<1>2. op.opcode \in Pure /\ \A k \in DOMAIN op.ins : IsConst(op.ins[k])
  BY DEF Folds, Pure
<1>3. \A k \in DOMAIN op.ins : op.ins[k] \in Consts
  <2> SUFFICES ASSUME NEW k \in DOMAIN op.ins
               PROVE  op.ins[k] \in Consts
    OBVIOUS
  <2>1. op.ins[k] \in Terms(g, fn, p)
    BY MatchReads
  <2>2. op.ins[k] \notin Values
    BY <1>2, ValuesNotConsts
  <2> QED
    BY <2>1, <2>2 DEF Terms, Available
<1>0. \A x : Cut(op.out[1], x) = x
  <2>1. old.opcode \in Pure \cup {"Load"}
    BY <1>2 DEF Matches, SameOf, CopyOf
  <2>2. op.out \in Values
    BY <1>1, <2>1 DEF OpFormed
  <2>3. op.out[1] \in Vars
    BY <2>2 DEF Values
  <2> QED
    BY <2>3, FullWidth
<1>4. /\ \A k \in DOMAIN op.ins : op.ins[k][2] \in Words /\ op.ins[k] = <<"const", op.ins[k][2]>>
      /\ \A k \in DOMAIN in : in[k] = op.ins[k][2]
      /\ DOMAIN in = DOMAIN op.ins /\ t = <<"const", Compute(op.opcode, in)>>
  <2>1. t = <<"const", Cut(op.out[1], Compute(op.opcode, in))>>
    BY DEF Computed
  <2> QED
    BY <1>0, <1>3, <2>1, ValuesNotConsts
<1>5. \A values : ReadAll(values, op) = in
  BY <1>2 DEF ReadAll, Read
<1> HIDE DEF in, t, old
<1>6. old.opcode \in Pure \cup {"Load"} /\ old.out \in Values
  <2>1. old.opcode \in Pure \cup {"Load"}
    BY <1>2 DEF Matches, SameOf, CopyOf, old
  <2> QED
    BY <1>1, <2>1 DEF OpFormed
<1>7. ASSUME t \in Consts
      PROVE  <<old.out, t>> \in E
  <2>1. t \in Terms(g, fn, p)
    BY <1>7 DEF Terms
  <2>2. \A values : Read(values, t) = Compute(op.opcode, in)
    BY <1>4 DEF Read, IsConst
  <2>3. ASSUME NEW values, NEW memory, NEW popped
        PROVE  Yields(op, values, memory, popped) = Compute(op.opcode, in)
    <3>1. ReadAll(values, op) = in
      BY <1>5
    <3>2. op.opcode # "Pop" /\ op.opcode # "Load"
      BY <1>2 DEF Pure
    <3> QED
      BY <3>1, <3>2, Zenon DEF Yields
  <2>4. Yielded(g, fn, E, p, t)
    <3> SUFFICES ASSUME NEW values, NEW memory, NEW popped, Holds(g, fn, E, values, p), Memory(fn, values, memory, p)
                 PROVE  Yields(OpAt(fn, p), values, memory, popped) = Read(values, t)
      BY DEF Yielded
    <3>1. Yields(op, values, memory, popped) = Yields(OpAt(fn, p), values, memory, popped)
      BY MatchYields
    <3> QED
      BY <2>2, <2>3, <3>1
  <2> HIDE DEF E
  <2> QED
    BY <1>6, <2>1, <2>4, EquationsGrow DEF old, E
<1>8. <<old.out, t>> \in E
  <2>1. CASE op.opcode = "Copy"
    <3>1. <<op.out, op.ins[1]>> \in E /\ DOMAIN op.ins = {1}
      BY <2>1, CopyEquates
    <3>2. Compute(op.opcode, in) = in[1]
      BY <2>1 DEF Compute
    <3>3. t = op.ins[1]
      BY <1>4, <3>1, <3>2
    <3> QED
      BY <1>1, <3>1, <3>3
  <2>2. CASE op.opcode # "Copy"
    <3>1. SameOf(g, fn, old, op)
      BY <2>2 DEF Matches, CopyOf, old
    <3>2. old.opcode = op.opcode /\ DOMAIN op.ins = DOMAIN old.ins
      BY <3>1 DEF SameOf
    <3>3. op.opcode \in {"IntNot", "IntAdd"}
      BY <1>2, <2>2 DEF Pure
    <3>4. DOMAIN in = 1 .. Arity[op.opcode]
      BY <1>1, <1>4, <3>2, <3>3 DEF OpFormed, Arity
    <3>5. Compute(op.opcode, in) \in Words
      <4>1. CASE op.opcode = "IntNot"
        <5>1. 1 \in DOMAIN in
          BY <3>4, <4>1 DEF Arity
        <5>2. in[1] \in Words
          BY <1>4, <5>1
        <5>3. Compute(op.opcode, in) = 3 - in[1]
          BY <4>1 DEF Compute
        <5> QED
          BY <5>2, <5>3 DEF Words
      <4>2. CASE op.opcode = "IntAdd"
        <5>1. 1 \in DOMAIN in /\ 2 \in DOMAIN in
          BY <3>4, <4>2 DEF Arity
        <5>2. in[1] \in Words /\ in[2] \in Words
          BY <1>4, <5>1
        <5>3. Compute(op.opcode, in) = (in[1] + in[2]) % 4
          BY <4>2 DEF Compute
        <5> QED
          BY <5>2, <5>3 DEF Words
      <4> QED
        BY <3>3, <4>1, <4>2
    <3>6. t \in Consts
      BY <1>4, <3>5 DEF Consts
    <3> QED
      BY <1>7, <3>6
  <2> QED
    BY <2>1, <2>2
<1>9. /\ IsOp(new) /\ new.opcode = "Copy" /\ new.at = op.at /\ new.out = op.out
      /\ DOMAIN new.ins = {1} /\ new.ins[1] = t
  BY <1>1, AsCopyIs
<1> HIDE DEF new, E
<1>10. CopyOf(g, fn, old, new)
  BY <1>6, <1>8, <1>9 DEF CopyOf, E
<1> QED
  BY <1>1, <1>9, <1>10 DEF Matches

\* One round of const_fold.
LEMMA FoldOnceFollows ==
  ASSUME NEW g, NEW n, IsGraph(g, n), NEW fn, Formed(g, n, fn), NEW form, Follows(g, fn, form)
  PROVE  Follows(g, fn, FoldOnce(form))
<1> DEFINE ops == [b \in DOMAIN form.ops |-> [j \in DOMAIN form.ops[b] |-> Folded(form.ops[b][j])]]
           moved == [form EXCEPT !.ops = ops]
<1>1. FoldOnce(form) = form \/ FoldOnce(form) = CopyPropagate(moved)
  BY Zenon DEF FoldOnce, MapOps, Folded, AsCopy, Computed
<1>2. OpsFollow(g, fn, form)
  BY DEF Follows
<1>3. DOMAIN form.ops = DOMAIN fn.ops /\ \A b \in DOMAIN fn.ops : DOMAIN form.ops[b] = DOMAIN fn.ops[b]
  BY <1>2 DEF OpsFollow
<1>4. DOMAIN ops = DOMAIN fn.ops /\ \A b \in DOMAIN fn.ops : DOMAIN ops[b] = DOMAIN fn.ops[b]
  BY <1>3
<1>5. \A b \in DOMAIN fn.ops : \A j \in DOMAIN fn.ops[b] : ops[b][j] = Folded(form.ops[b][j])
  BY <1>3
<1>6. ASSUME NEW b \in DOMAIN fn.ops, NEW j \in DOMAIN fn.ops[b]
      PROVE  Matches(g, fn, fn.ops[b][j], Folded(form.ops[b][j]))
  <2> DEFINE p == <<b, j>>
             op == form.ops[b][j]
  <2>1. p \in OpPoints(g, fn) /\ OpAt(fn, p) = fn.ops[b][j]
    BY AtPoints DEF OpAt
  <2>2. Matches(g, fn, OpAt(fn, p), op)
    BY <1>2, <2>1 DEF OpsFollow
  <2> HIDE DEF p, op
  <2>3. Matches(g, fn, OpAt(fn, p), Folded(op))
    BY <2>1, <2>2, FoldedMatches
  <2> QED
    BY <2>1, <2>3 DEF op
<1> HIDE DEF ops
<1>7. \A b \in DOMAIN fn.ops : \A j \in DOMAIN fn.ops[b] : Matches(g, fn, fn.ops[b][j], ops[b][j])
  BY <1>5, <1>6
<1>8. Follows(g, fn, moved)
  BY <1>4, <1>7, ReplacedFollows
<1> HIDE DEF moved
<1>9. Follows(g, fn, CopyPropagate(moved))
  BY <1>8, CopyPropagateFollows
<1> QED
  BY <1>1, <1>9

-----------------------------------------------------------------------------
(* The passes: constants, and what is dead *)

\* const_fold, round after round.
LEMMA ConstFoldFollows ==
  ASSUME NEW g, NEW n, IsGraph(g, n), NEW fn, Formed(g, n, fn), NEW form, Follows(g, fn, form)
  PROVE  Follows(g, fn, ConstFold(form))
<1> DEFINE start == form
           Made(t, k) == /\ t = [i \in 0 .. k |-> t[i]] /\ t[0] = start
                         /\ \A i \in 1 .. k : t[i] = FoldOnce(t[i - 1])
           Good == {k \in Nat : \E t : Made(t, k)}
<1> HIDE DEF start
<1>1. 0 \in Good
  <2> DEFINE t == [i \in 0 .. 0 |-> start]
  <2>1. Made(t, 0)
    OBVIOUS
  <2> QED
    BY <2>1
<1>2. ASSUME NEW k \in Nat, k \in Good
      PROVE  k + 1 \in Good
  <2>1. PICK t : Made(t, k)
    BY <1>2
  <2> DEFINE last == FoldOnce(t[k])
             u == [i \in 0 .. k + 1 |-> IF i = k + 1 THEN last ELSE t[i]]
  <2> HIDE DEF last
  <2>2. u[0] = start /\ u = [i \in 0 .. k + 1 |-> u[i]]
    <3>1. 0 \in 0 .. k + 1 /\ 0 # k + 1
      OBVIOUS
    <3>2. t[0] = start
      BY <2>1
    <3>3. u[0] = t[0]
      BY <3>1
    <3>4. u = [i \in 0 .. k + 1 |-> u[i]]
      OBVIOUS
    <3> HIDE DEF u
    <3> QED
      BY <3>2, <3>3, <3>4
  <2>3. ASSUME NEW i \in 1 .. k + 1
        PROVE  u[i] = FoldOnce(u[i - 1])
    <3>1. CASE i = k + 1
      <4>1. u[i] = last /\ u[i - 1] = t[k]
        BY <3>1
      <4> QED
        BY <3>1, <4>1, Zenon DEF last
    <3>2. CASE i # k + 1
      <4>1. i \in 1 .. k /\ u[i] = t[i] /\ u[i - 1] = t[i - 1]
        BY <3>2
      <4> HIDE DEF u
      <4> QED
        BY <2>1, <4>1
    <3> QED
      BY <3>1, <3>2
  <2> HIDE DEF u
  <2>4. Made(u, k + 1)
    BY <2>2, <2>3
  <2>5. k + 1 \in Nat
    OBVIOUS
  <2>6. \E x : Made(x, k + 1)
    BY <2>4, Zenon
  <2> HIDE DEF Made
  <2> QED
    BY <2>5, <2>6
<1>3. PICK t : Made(t, 8)
  <2>1. 8 \in Good
    <3>1. 8 \in Nat
      OBVIOUS
    <3> HIDE DEF Good
    <3> QED
      BY <1>1, <1>2, <3>1, NumbersInduct, Zenon
  <2> QED
    BY <2>1
<1> DEFINE after == CHOOSE a : a = [i \in 0 .. 8 |-> IF i = 0 THEN start ELSE FoldOnce(a[i - 1])]
<1>4. t = [i \in 0 .. 8 |-> IF i = 0 THEN start ELSE FoldOnce(t[i - 1])]
  <2>1. \A i \in 0 .. 8 : t[i] = IF i = 0 THEN start ELSE FoldOnce(t[i - 1])
    <3>1. \A i \in 0 .. 8 : i = 0 \/ i \in 1 .. 8
      OBVIOUS
    <3> QED
      BY <1>3, <3>1
  <2> QED
    BY <1>3, <2>1
<1>5. after = [i \in 0 .. 8 |-> IF i = 0 THEN start ELSE FoldOnce(after[i - 1])]
  BY <1>4
<1>6. after[8] = t[8]
  <2> HIDE DEF after
  <2>1. after[0] = t[0] /\ \A i \in 1 .. 8 : after[i] = FoldOnce(after[i - 1])
    <3>1. 0 \in 0 .. 8 /\ \A i \in 1 .. 8 : i \in 0 .. 8 /\ i # 0
      OBVIOUS
    <3> QED
      BY <1>3, <1>5, <3>1
  <2>2. \A i \in 1 .. 8 : after[i - 1] = t[i - 1] => after[i] = t[i]
    BY <1>3, <2>1
  <2> QED
    BY <2>1, <2>2, TablesMeet
<1>7. ConstFold(form) = after[8]
  BY Zenon DEF ConstFold, Loop, start
<1> HIDE DEF after
<1> DEFINE All == {i \in Nat : i <= 8 => Follows(g, fn, t[i])}
<1>8. 0 \in All
  BY <1>3 DEF start
<1>9. ASSUME NEW k \in Nat, k \in All
      PROVE  k + 1 \in All
  <2> SUFFICES ASSUME k + 1 <= 8
               PROVE  Follows(g, fn, t[k + 1])
    OBVIOUS
  <2>1. k <= 8 /\ k + 1 \in 1 .. 8 /\ (k + 1) - 1 = k
    OBVIOUS
  <2>2. t[k + 1] = FoldOnce(t[k])
    BY <1>3, <2>1
  <2>3. Follows(g, fn, t[k])
    BY <1>9, <2>1
  <2> QED
    BY <2>2, <2>3, FoldOnceFollows
<1>10. 8 \in All
  <2>1. 8 \in Nat
    OBVIOUS
  <2> HIDE DEF All
  <2> QED
    BY <1>8, <1>9, <2>1, NumbersInduct, Zenon
<1> QED
  BY <1>6, <1>7, <1>10

\* What is left of a sequence.
LEMMA AtHolds ==
  ASSUME NEW s, NEW m \in Nat, DOMAIN s = 1 .. m, NEW S \in SUBSET (1 .. m)
  PROVE  /\ \E k \in Nat : DOMAIN At(s, S) = 1 .. k
         /\ ToSet(At(s, S)) = {s[i] : i \in S}
<1> DEFINE k == Cardinality(S)
           a == Ascending(S)
           new == At(s, S)
<1>1. k \in Nat /\ a \in [1 .. k -> S] /\ \A x \in S : \E i \in 1 .. k : a[i] = x
  BY AscendingSet
<1>2. new = [i \in 1 .. k |-> s[a[i]]]
  BY DEF At
<1> HIDE DEF k, a, new
<1>3. DOMAIN new = 1 .. k /\ \A i \in 1 .. k : new[i] = s[a[i]]
  BY <1>2
<1>4. ToSet(new) = {new[i] : i \in 1 .. k}
  BY <1>3 DEF ToSet
<1>5. {new[i] : i \in 1 .. k} = {s[i] : i \in S}
  <2>1. ASSUME NEW i \in 1 .. k
        PROVE  \E x \in S : new[i] = s[x]
    <3>1. new[i] = s[a[i]] /\ a[i] \in S
      BY <1>1, <1>3
    <3> QED
      BY <3>1
  <2>2. ASSUME NEW x \in S
        PROVE  \E i \in 1 .. k : s[x] = new[i]
    <3>1. PICK i \in 1 .. k : a[i] = x
      BY <1>1
    <3>2. new[i] = s[a[i]]
      BY <1>3
    <3> QED
      BY <3>1, <3>2
  <2> QED
    BY <2>1, <2>2
<1> QED
  BY <1>1, <1>3, <1>4, <1>5 DEF new

\* What dead_code_eliminate leaves: operations and phis of the form, among them
\* every one whose value is still used, and every one that has an effect.
IsListed(ops) == \E k \in Nat : DOMAIN ops = 1 .. k
LeftAt(form, b, i) == \E op \in ToSet(form.ops[b]) : op.at = i
OpsAmong(g, fn, form) ==
  /\ DOMAIN form.ops = DOMAIN fn.ops
  /\ \A b \in DOMAIN fn.ops : IsListed(form.ops[b])
  /\ \A b \in DOMAIN fn.ops : \A op \in ToSet(form.ops[b]) :
       op.at \in DOMAIN fn.ops[b] /\ Matches(g, fn, fn.ops[b][op.at], op)
UsedLeft(fn, form) ==
  \A y \in Used(form) :
    /\ \A b \in DOMAIN fn.ops : \A i \in DOMAIN fn.ops[b] : fn.ops[b][i].out = y => LeftAt(form, b, i)
    /\ \A b \in DOMAIN fn.phis : \A v \in DOMAIN fn.phis[b] :
         <<v, fn.phis[b][v].ver>> = y => v \in DOMAIN form.phis[b]
Matters(op) == op.opcode \notin Pure \cup {"Load"} \/ (op.out # None /\ Key(op.out[1]) \in ReturnVars)
MattersLeft(fn, form) ==
  \A b \in DOMAIN fn.ops : \A i \in DOMAIN fn.ops[b] : Matters(fn.ops[b][i]) => LeftAt(form, b, i)
Reduces(g, fn, form) ==
  /\ IsForm(form) /\ OpsAmong(g, fn, form) /\ PhisFollow(g, fn, form)
  /\ UsedLeft(fn, form) /\ MattersLeft(fn, form)

\* Where everything is left, so are they.
LEMMA FollowsReduces ==
  ASSUME NEW g, NEW n, IsGraph(g, n), NEW fn, Formed(g, n, fn), NEW form, Follows(g, fn, form)
  PROVE  Reduces(g, fn, form)
<1>1. /\ IsForm(form) /\ PhisFollow(g, fn, form) /\ OpsFollow(g, fn, form)
      /\ \A b \in DOMAIN fn.phis : DOMAIN form.phis[b] = DOMAIN fn.phis[b]
  BY DEF Follows
<1>2. ASSUME NEW b \in DOMAIN fn.ops
      PROVE  /\ IsListed(form.ops[b]) /\ DOMAIN form.ops[b] = DOMAIN fn.ops[b]
             /\ \A i \in DOMAIN fn.ops[b] : fn.ops[b][i].at = i /\ form.ops[b][i].at = i
             /\ \A i \in DOMAIN fn.ops[b] : Matches(g, fn, fn.ops[b][i], form.ops[b][i])
  <2>1. /\ DOMAIN form.ops[b] = DOMAIN fn.ops[b]
        /\ \A i \in DOMAIN fn.ops[b] : Matches(g, fn, fn.ops[b][i], form.ops[b][i])
    BY <1>1 DEF OpsFollow
  <2>2. \E k \in Nat : DOMAIN fn.ops[b] = 1 .. k
    <3>1. CASE b \in Reached(g)
      BY <3>1 DEF Formed
    <3>2. CASE b \notin Reached(g)
      <4>1. fn.ops[b] = << >>
        BY <3>2 DEF Formed
      <4>2. DOMAIN fn.ops[b] = 1 .. 0
        BY <4>1
      <4> QED
        BY <4>2
    <3> QED
      BY <3>1, <3>2
  <2>3. ASSUME NEW i \in DOMAIN fn.ops[b]
        PROVE  fn.ops[b][i].at = i /\ form.ops[b][i].at = i
    <3> DEFINE p == <<b, i>>
    <3>1. p \in OpPoints(g, fn) /\ OpAt(fn, p) = fn.ops[b][i] /\ p[2] = i
      BY AtPoints DEF OpAt
    <3> HIDE DEF p
    <3>2. fn.ops[b][i].at = i
      BY <3>1 DEF Formed, OpFormed
    <3> QED
      BY <2>1, <3>2 DEF Matches
  <2> QED
    BY <2>1, <2>2, <2>3 DEF IsListed
<1>3. OpsAmong(g, fn, form)
  <2>1. ASSUME NEW b \in DOMAIN fn.ops, NEW op \in ToSet(form.ops[b])
        PROVE  op.at \in DOMAIN fn.ops[b] /\ Matches(g, fn, fn.ops[b][op.at], op)
    <3>1. PICK i \in DOMAIN form.ops[b] : op = form.ops[b][i]
      BY <2>1 DEF ToSet
    <3>2. i \in DOMAIN fn.ops[b] /\ op.at = i
      BY <1>2, <3>1
    <3> QED
      BY <1>2, <3>1, <3>2
  <2> QED
    BY <1>1, <1>2, <2>1 DEF OpsAmong, OpsFollow
<1>4. ASSUME NEW b \in DOMAIN fn.ops, NEW i \in DOMAIN fn.ops[b]
      PROVE  LeftAt(form, b, i)
  <2>1. i \in DOMAIN form.ops[b] /\ form.ops[b][i].at = i
    BY <1>2
  <2> QED
    BY <2>1 DEF LeftAt, ToSet
<1>5. UsedLeft(fn, form) /\ MattersLeft(fn, form)
  BY <1>1, <1>4 DEF UsedLeft, MattersLeft
<1> QED
  BY <1>1, <1>3, <1>5 DEF Reduces

\* What one round leaves.
AliveOps(ops, used) == {i \in DOMAIN ops : ops[i].opcode \in Pure => ops[i].out \in used}
AlivePhis(phis, used) == {w \in DOMAIN phis : <<w, phis[w].ver>> \in used \/ w \in ReturnVars}

\* They are what WithoutDead keeps.
LEMMA DeadGone ==
  ASSUME NEW fn, IsForm(fn)
  PROVE  LET new == WithoutDead(fn) IN
         /\ IsForm(new)
         /\ new.ops = [b \in DOMAIN fn.ops |-> At(fn.ops[b], AliveOps(fn.ops[b], Used(fn)))]
         /\ new.phis = [b \in DOMAIN fn.phis |-> [v \in AlivePhis(fn.phis[b], Used(fn)) |-> fn.phis[b][v]]]
<1> DEFINE used == Used(fn)
           ops == [b \in DOMAIN fn.ops |-> At(fn.ops[b], AliveOps(fn.ops[b], used))]
           phis == [b \in DOMAIN fn.phis |-> [v \in AlivePhis(fn.phis[b], used) |-> fn.phis[b][v]]]
           new == WithoutDead(fn)
           moved == [fn EXCEPT !.ops = ops]
<1>1. new = [fn EXCEPT !.ops = ops, !.phis = phis]
  BY Zenon DEF WithoutDead, AliveOps, AlivePhis
<1> HIDE DEF ops, phis, new
<1>2. fn = [ops |-> fn.ops, phis |-> fn.phis, versions |-> fn.versions]
  BY DEF IsForm
<1>3. new = [ops |-> ops, phis |-> phis, versions |-> fn.versions]
  BY <1>1, <1>2
<1>4. IsForm(new) /\ new.ops = ops /\ new.phis = phis
  BY <1>3 DEF IsForm
<1> QED
  BY <1>4 DEF new, ops, phis, used

\* Where less is left, less is used.
LEMMA UsesLess ==
  ASSUME NEW old, NEW new,
         DOMAIN new.ops = DOMAIN old.ops, \A b \in DOMAIN old.ops : ToSet(new.ops[b]) \subseteq ToSet(old.ops[b]),
         DOMAIN new.phis = DOMAIN old.phis,
         \A b \in DOMAIN old.phis : DOMAIN new.phis[b] \subseteq DOMAIN old.phis[b],
         \A b \in DOMAIN old.phis : \A v \in DOMAIN new.phis[b] : new.phis[b][v] = old.phis[b][v]
  PROVE  Used(new) \subseteq Used(old)
<1>1. AllOps(new) \subseteq AllOps(old)
  BY DEF AllOps
<1>2. ASSUME NEW x \in UNION {ToSet(op.ins) : op \in AllOps(new)}
      PROVE  x \in UNION {ToSet(op.ins) : op \in AllOps(old)}
  BY <1>1
<1>3. ASSUME NEW x \in UNION {UNION {Range(new.phis[b][v].in) : v \in DOMAIN new.phis[b]} : b \in DOMAIN new.phis}
      PROVE  x \in UNION {UNION {Range(old.phis[b][v].in) : v \in DOMAIN old.phis[b]} : b \in DOMAIN old.phis}
  <2>1. PICK b \in DOMAIN new.phis : \E v \in DOMAIN new.phis[b] : x \in Range(new.phis[b][v].in)
    OBVIOUS
  <2>2. PICK v \in DOMAIN new.phis[b] : x \in Range(new.phis[b][v].in)
    BY <2>1
  <2>3. b \in DOMAIN old.phis /\ v \in DOMAIN old.phis[b] /\ x \in Range(old.phis[b][v].in)
    BY <2>2
  <2> QED
    BY <2>3
<1>4. ASSUME NEW x \in {y \in {op.out : op \in AllOps(new)} : y # None /\ Key(y[1]) \in ReturnVars}
      PROVE  x \in {y \in {op.out : op \in AllOps(old)} : y # None /\ Key(y[1]) \in ReturnVars}
  BY <1>1
<1> QED
  BY <1>2, <1>3, <1>4 DEF Used

\* One round.
LEMMA WithoutDeadReduces ==
  ASSUME NEW g, NEW n, IsGraph(g, n), NEW fn, Formed(g, n, fn), NEW form, Reduces(g, fn, form)
  PROVE  Reduces(g, fn, WithoutDead(form))
<1> DEFINE new == WithoutDead(form)
           used == Used(form)
           Alive(op) == op.opcode \in Pure => op.out \in used
<1>1. /\ IsForm(form) /\ OpsAmong(g, fn, form) /\ PhisFollow(g, fn, form)
      /\ UsedLeft(fn, form) /\ MattersLeft(fn, form)
  BY DEF Reduces
<1>2. /\ IsForm(new)
      /\ new.ops = [b \in DOMAIN form.ops |-> At(form.ops[b], AliveOps(form.ops[b], used))]
      /\ new.phis = [b \in DOMAIN form.phis |-> [v \in AlivePhis(form.phis[b], used) |-> form.phis[b][v]]]
  BY <1>1, DeadGone
<1>3. DOMAIN form.ops = DOMAIN fn.ops /\ DOMAIN form.phis = DOMAIN fn.phis
  BY <1>1 DEF OpsAmong, PhisFollow
<1> HIDE DEF new
<1>4. DOMAIN new.ops = DOMAIN fn.ops /\ DOMAIN new.phis = DOMAIN fn.phis
  BY <1>2, <1>3
<1>5. ASSUME NEW b \in DOMAIN fn.ops
      PROVE  IsListed(new.ops[b]) /\ ToSet(new.ops[b]) = {op \in ToSet(form.ops[b]) : Alive(op)}
  <2> DEFINE s == form.ops[b]
             S == AliveOps(s, used)
  <2>1. new.ops[b] = At(s, S)
    BY <1>2, <1>3
  <2>2. PICK m \in Nat : DOMAIN s = 1 .. m
    BY <1>1 DEF OpsAmong, IsListed
  <2>3. S = {i \in DOMAIN s : Alive(s[i])}
    BY DEF AliveOps
  <2> HIDE DEF s, S, used
  <2>4. S \in SUBSET (1 .. m)
    BY <2>2, <2>3
  <2>5. IsListed(At(s, S)) /\ ToSet(At(s, S)) = {s[i] : i \in S}
    BY <2>2, <2>4, AtHolds DEF IsListed
  <2>6. {s[i] : i \in S} = {op \in ToSet(s) : Alive(op)}
    BY <2>3 DEF ToSet
  <2> QED
    BY <2>1, <2>5, <2>6 DEF s
<1>6. ASSUME NEW b \in DOMAIN fn.phis
      PROVE  /\ DOMAIN new.phis[b] = {v \in DOMAIN form.phis[b] : <<v, form.phis[b][v].ver>> \in used \/ v \in ReturnVars}
             /\ \A v \in DOMAIN new.phis[b] : new.phis[b][v] = form.phis[b][v]
  BY <1>2, <1>3 DEF AlivePhis
<1>7. Used(new) \subseteq used
  <2>1. DOMAIN new.ops = DOMAIN form.ops /\ DOMAIN new.phis = DOMAIN form.phis
    BY <1>3, <1>4
  <2>2. \A b \in DOMAIN form.ops : ToSet(new.ops[b]) \subseteq ToSet(form.ops[b])
    BY <1>3, <1>5
  <2>3. \A b \in DOMAIN form.phis : DOMAIN new.phis[b] \subseteq DOMAIN form.phis[b]
    BY <1>3, <1>6
  <2>4. \A b \in DOMAIN form.phis : \A v \in DOMAIN new.phis[b] : new.phis[b][v] = form.phis[b][v]
    BY <1>3, <1>6
  <2> QED
    BY <2>1, <2>2, <2>3, <2>4, UsesLess
<1> HIDE DEF used
<1>8. OpsAmong(g, fn, new)
  BY <1>1, <1>4, <1>5 DEF OpsAmong
<1>9. PhisFollow(g, fn, new)
  <2>1. ASSUME NEW b \in DOMAIN fn.phis, NEW v \in DOMAIN new.phis[b]
        PROVE  v \in DOMAIN form.phis[b] /\ new.phis[b][v] = form.phis[b][v]
    BY <1>6, <2>1
  <2> QED
    BY <1>1, <1>4, <2>1 DEF PhisFollow
<1>10. ASSUME NEW b \in DOMAIN fn.ops, NEW i \in DOMAIN fn.ops[b], LeftAt(form, b, i),
              fn.ops[b][i].out \in used \/ Matters(fn.ops[b][i])
       PROVE  LeftAt(new, b, i)
  <2>1. PICK op \in ToSet(form.ops[b]) : op.at = i
    BY <1>10 DEF LeftAt
  <2> DEFINE old == fn.ops[b][i]
  <2>2. Matches(g, fn, old, op)
    BY <1>1, <2>1 DEF OpsAmong
  <2> HIDE DEF old
  <2>3. op.out = old.out
    BY <2>2 DEF Matches
  <2>4. Alive(op)
    <3>1. CASE old.out \in used
      BY <2>3, <3>1
    <3>2. CASE old.opcode \notin Pure \cup {"Load"}
      <4>1. op.opcode = old.opcode
        BY <2>2, <3>2 DEF Matches, SameOf, CopyOf
      <4> QED
        BY <3>2, <4>1
    <3>3. CASE old.out # None /\ Key(old.out[1]) \in ReturnVars
      <4>1. op \in AllOps(form)
        BY <1>3, <2>1 DEF AllOps
      <4>2. op.out \in used
        BY <2>3, <3>3, <4>1 DEF Used, used
      <4> QED
        BY <4>2
    <3> QED
      BY <1>10, <3>1, <3>2, <3>3 DEF Matters, old
  <2>5. op \in ToSet(new.ops[b])
    BY <1>5, <2>1, <2>4
  <2> QED
    BY <2>1, <2>5 DEF LeftAt
<1>11. UsedLeft(fn, new)
  <2>1. ASSUME NEW y \in Used(new), NEW b \in DOMAIN fn.ops, NEW i \in DOMAIN fn.ops[b], fn.ops[b][i].out = y
        PROVE  LeftAt(new, b, i)
    <3>1. y \in used
      BY <1>7
    <3>2. LeftAt(form, b, i)
      BY <1>1, <2>1, <3>1 DEF UsedLeft, used
    <3> QED
      BY <1>10, <2>1, <3>1, <3>2
  <2>2. ASSUME NEW y \in Used(new), NEW b \in DOMAIN fn.phis, NEW v \in DOMAIN fn.phis[b], <<v, fn.phis[b][v].ver>> = y
        PROVE  v \in DOMAIN new.phis[b]
    <3>1. y \in used
      BY <1>7
    <3>2. v \in DOMAIN form.phis[b]
      BY <1>1, <2>2, <3>1 DEF UsedLeft, used
    <3>3. form.phis[b][v].ver = fn.phis[b][v].ver
      BY <1>1, <3>2 DEF PhisFollow
    <3> QED
      BY <1>6, <2>2, <3>1, <3>2, <3>3
  <2> QED
    BY <2>1, <2>2 DEF UsedLeft
<1>12. MattersLeft(fn, new)
  BY <1>1, <1>10 DEF MattersLeft
<1> QED
  BY <1>2, <1>8, <1>9, <1>11, <1>12 DEF Reduces, new

\* A round of dead_code_eliminate, unless the last one found nothing.
Swept(s) == IF ~s.changed THEN s ELSE
            LET left == WithoutDead(s.fn) IN [fn |-> left, changed |-> left # s.fn]

\* dead_code_eliminate, round after round.
LEMMA DeadCodeReduces ==
  ASSUME NEW g, NEW n, IsGraph(g, n), NEW fn, Formed(g, n, fn), NEW form, Reduces(g, fn, form)
  PROVE  Reduces(g, fn, DeadCodeEliminate(form))
<1> DEFINE start == [fn |-> form, changed |-> TRUE]
           Made(t, k) == /\ t = [i \in 0 .. k |-> t[i]] /\ t[0] = start
                         /\ \A i \in 1 .. k : t[i] = Swept(t[i - 1])
           Good == {k \in Nat : \E t : Made(t, k)}
<1>0. start.fn = form
  OBVIOUS
<1> HIDE DEF start
<1>1. 0 \in Good
  <2> DEFINE t == [i \in 0 .. 0 |-> start]
  <2>1. Made(t, 0)
    OBVIOUS
  <2> QED
    BY <2>1
<1>2. ASSUME NEW k \in Nat, k \in Good
      PROVE  k + 1 \in Good
  <2>1. PICK t : Made(t, k)
    BY <1>2
  <2> DEFINE last == Swept(t[k])
             u == [i \in 0 .. k + 1 |-> IF i = k + 1 THEN last ELSE t[i]]
  <2> HIDE DEF last
  <2>2. u[0] = start /\ u = [i \in 0 .. k + 1 |-> u[i]]
    <3>1. 0 \in 0 .. k + 1 /\ 0 # k + 1
      OBVIOUS
    <3>2. t[0] = start
      BY <2>1
    <3>3. u[0] = t[0]
      BY <3>1
    <3>4. u = [i \in 0 .. k + 1 |-> u[i]]
      OBVIOUS
    <3> HIDE DEF u
    <3> QED
      BY <3>2, <3>3, <3>4
  <2>3. ASSUME NEW i \in 1 .. k + 1
        PROVE  u[i] = Swept(u[i - 1])
    <3>1. CASE i = k + 1
      <4>1. u[i] = last /\ u[i - 1] = t[k]
        BY <3>1
      <4> QED
        BY <3>1, <4>1, Zenon DEF last
    <3>2. CASE i # k + 1
      <4>1. i \in 1 .. k /\ u[i] = t[i] /\ u[i - 1] = t[i - 1]
        BY <3>2
      <4> HIDE DEF u
      <4> QED
        BY <2>1, <4>1
    <3> QED
      BY <3>1, <3>2
  <2> HIDE DEF u
  <2>4. Made(u, k + 1)
    BY <2>2, <2>3
  <2>5. k + 1 \in Nat
    OBVIOUS
  <2>6. \E x : Made(x, k + 1)
    BY <2>4, Zenon
  <2> HIDE DEF Made
  <2> QED
    BY <2>5, <2>6
<1>3. PICK t : Made(t, 32)
  <2>1. 32 \in Good
    <3>1. 32 \in Nat
      OBVIOUS
    <3> HIDE DEF Good
    <3> QED
      BY <1>1, <1>2, <3>1, NumbersInduct, Zenon
  <2> QED
    BY <2>1
<1> DEFINE after == CHOOSE a : a = [i \in 0 .. 32 |-> IF i = 0 THEN start ELSE Swept(a[i - 1])]
<1>4. t = [i \in 0 .. 32 |-> IF i = 0 THEN start ELSE Swept(t[i - 1])]
  <2>1. \A i \in 0 .. 32 : t[i] = IF i = 0 THEN start ELSE Swept(t[i - 1])
    <3>1. \A i \in 0 .. 32 : i = 0 \/ i \in 1 .. 32
      OBVIOUS
    <3> QED
      BY <1>3, <3>1
  <2> QED
    BY <1>3, <2>1
<1>5. after = [i \in 0 .. 32 |-> IF i = 0 THEN start ELSE Swept(after[i - 1])]
  BY <1>4, Zenon
<1>6. after[32] = t[32]
  <2> HIDE DEF after
  <2>1. after[0] = t[0] /\ \A i \in 1 .. 32 : after[i] = Swept(after[i - 1])
    <3>1. 0 \in 0 .. 32 /\ \A i \in 1 .. 32 : i \in 0 .. 32 /\ i # 0
      OBVIOUS
    <3> QED
      BY <1>3, <1>5, <3>1
  <2>2. \A i \in 1 .. 32 : after[i - 1] = t[i - 1] => after[i] = t[i]
    BY <1>3, <2>1
  <2> QED
    BY <2>1, <2>2, TablesMeet
<1>7. DeadCodeEliminate(form) = after[32].fn
  BY Zenon DEF DeadCodeEliminate, Loop, Swept, start
<1> HIDE DEF after
<1> DEFINE All == {i \in Nat : i <= 32 => Reduces(g, fn, t[i].fn)}
<1>8. 0 \in All
  BY <1>0, <1>3
<1>9. ASSUME NEW k \in Nat, k \in All
      PROVE  k + 1 \in All
  <2> SUFFICES ASSUME k + 1 <= 32
               PROVE  Reduces(g, fn, t[k + 1].fn)
    OBVIOUS
  <2>1. k <= 32 /\ k + 1 \in 1 .. 32 /\ (k + 1) - 1 = k
    OBVIOUS
  <2>2. t[k + 1] = Swept(t[k])
    BY <1>3, <2>1
  <2>3. Reduces(g, fn, t[k].fn)
    BY <1>9, <2>1
  <2>4. Reduces(g, fn, WithoutDead(t[k].fn))
    BY <2>3, WithoutDeadReduces
  <2>5. Swept(t[k]).fn = t[k].fn \/ Swept(t[k]).fn = WithoutDead(t[k].fn)
    BY DEF Swept
  <2> QED
    BY <2>2, <2>3, <2>4, <2>5
<1>10. 32 \in All
  <2>1. 32 \in Nat
    OBVIOUS
  <2> HIDE DEF All
  <2> QED
    BY <1>8, <1>9, <2>1, NumbersInduct, Zenon
<1> QED
  BY <1>6, <1>7, <1>10

\* What the passes leave.
LEMMA OptimizedReduces ==
  ASSUME NEW g, NEW n, IsGraph(g, n), NEW fn, Formed(g, n, fn)
  PROVE  Reduces(g, fn, Optimized(fn))
<1> DEFINE a == CopyPropagate(fn)
           b == LoadStorePropagate(a)
           c == CopyPropagate(b)
           d == ConstFold(c)
<1>1. Follows(g, fn, a)
  BY FollowsItself, CopyPropagateFollows
<1> HIDE DEF a
<1>2. Follows(g, fn, b)
  BY <1>1, LoadStoreFollows
<1> HIDE DEF b
<1>3. Follows(g, fn, c)
  BY <1>2, CopyPropagateFollows
<1> HIDE DEF c
<1>4. Follows(g, fn, d)
  BY <1>3, ConstFoldFollows
<1> HIDE DEF d
<1>5. Reduces(g, fn, d)
  BY <1>4, FollowsReduces
<1>6. Reduces(g, fn, DeadCodeEliminate(d))
  BY <1>5, DeadCodeReduces
<1> QED
  BY <1>6 DEF Optimized, d, c, b, a

-----------------------------------------------------------------------------
(* What is left of the SSA form, past an operation and across an edge *)

\* The values that have a place.
Within(versions) == {x \in Values : x[2] \in 0 .. versions[x[1]]}
Sized(values, versions) == \A v \in Vars : DOMAIN values[v] = 0 .. versions[v]

\* What is available has one.
LEMMA AvailableWithin ==
  ASSUME NEW g, NEW n, NEW fn, Formed(g, n, fn), NEW p
  PROVE  Available(g, fn, p) \subseteq Within(fn.versions)
<1> SUFFICES ASSUME NEW x \in Available(g, fn, p)
             PROVE  x[2] \in 0 .. fn.versions[x[1]]
  BY DEF Within, Available
<1>1. x \in Values /\ x[1] \in Vars /\ fn.versions[x[1]] \in Nat
  BY DEF Available, Values, Formed
<1> DEFINE k == fn.versions[x[1]]
<1> HIDE DEF k
<1>2. CASE x[2] = 0
  BY <1>1, <1>2 DEF k
<1>3. CASE x[2] # 0
  <2>1. PICK q \in Points(g) : DefinedAt(fn, q[1], q[2], x)
    BY <1>3 DEF Available
  <2>2. q[1] \in Reached(g) /\ q[2] \in Nat
    BY DEF Points
  <2>3. x[2] \in 1 .. k
    BY <1>1, <2>1, <2>2 DEF Formed, Numbered, Values, k
  <2>4. x[2] \in 0 .. k
    BY <1>1, <2>3 DEF k
  <2> QED
    BY <2>4 DEF k
<1> QED
  BY <1>2, <1>3

\* The point after an operation.
JustPast(p, q) == q[1] = p[1] /\ q[2] = p[2] + 1

\* What is available there was, or is what the operation defines.
LEMMA AvailableNext ==
  ASSUME NEW g, NEW n, NEW fn, Formed(g, n, fn), NEW p \in OpPoints(g, fn),
         NEW q \in Points(g), JustPast(p, q), NEW x \in Available(g, fn, q), x # OpAt(fn, p).out
  PROVE  x \in Available(g, fn, p)
<1>1. x \in Values
  BY DEF Available
<1>2. CASE x[2] = 0
  BY <1>1, <1>2 DEF Available
<1>3. CASE x[2] # 0
  <2>1. PICK r \in Points(g) : DefinedAt(fn, r[1], r[2], x) /\ Earlier(g, r, q)
    BY <1>3 DEF Available
  <2> DEFINE b == p[1]
             i == p[2]
             j == r[2]
  <2>2. b \in Reached(g) /\ i \in Nat /\ j \in Nat /\ i \in DOMAIN fn.ops[b] /\ p \in Points(g)
    BY DEF OpPoints, Points
  <2>3. i # 0
    <3>1. Len(g.ops[b]) \in Nat /\ i \in 1 .. Len(g.ops[b])
      BY <2>2 DEF Formed
    <3> QED
      BY <3>1
  <2>4. ~(r[1] = b /\ j = i)
    <3> SUFFICES ASSUME r[1] = b, j = i
                 PROVE  FALSE
      OBVIOUS
    <3>1. fn.ops[b][i].out = x
      BY <2>1, <2>3 DEF DefinedAt
    <3> QED
      BY <3>1 DEF OpAt
  <2>5. Earlier(g, r, p)
    <3>1. (r[1] = b /\ j < i + 1) \/ (r[1] # b /\ Dominates(g, r[1], b))
      BY <2>1 DEF Earlier, JustPast
    <3>2. r[1] = b => j < i
      BY <2>2, <2>4, <3>1
    <3> QED
      BY <3>1, <3>2 DEF Earlier
  <2> QED
    BY <1>1, <2>1, <2>5 DEF Available
<1> QED
  BY <1>2, <1>3

\* What an operation defines is not available at it.
LEMMA OwnNotAvailable ==
  ASSUME NEW g, NEW n, IsGraph(g, n), NEW fn, Formed(g, n, fn), NEW p \in OpPoints(g, fn), NEW x \in Available(g, fn, p)
  PROVE  x # OpAt(fn, p).out
<1>1. DefinedAt(fn, p[1], p[2], OpAt(fn, p).out) /\ p \in Points(g)
  BY OpDefines
<1>2. x \in Values /\ Numbered(fn, Reached(g))
  BY DEF Available, Formed
<1> QED
  BY <1>1, <1>2, NotAvailable

\* A value is written, and no other.
Writes(values, w, versions, x, r) ==
  /\ Sized(w, versions)
  /\ \A y \in Within(versions) : Read(w, y) = IF y = x THEN r ELSE Read(values, y)
WritesAt(fn, p, values, w, r) == Writes(values, w, fn.versions, OpAt(fn, p).out, r)

\* What could be read reads the same.
SameTerms(g, fn, p, values, w) == \A t \in Terms(g, fn, p) : Read(w, t) = Read(values, t)
\* They do, past the operation.
LEMMA NextReads ==
  ASSUME NEW g, NEW n, IsGraph(g, n), NEW fn, Formed(g, n, fn), NEW p \in OpPoints(g, fn),
         NEW values, NEW w, NEW r, WritesAt(fn, p, values, w, r)
  PROVE  SameTerms(g, fn, p, values, w)
<1> SUFFICES ASSUME NEW t \in Terms(g, fn, p)
             PROVE  Read(w, t) = Read(values, t)
  BY DEF SameTerms
<1>1. CASE t \in Consts
  BY <1>1, ValuesNotConsts DEF Read
<1>2. CASE t \in Available(g, fn, p)
  <2>1. t # OpAt(fn, p).out
    BY <1>2, OwnNotAvailable
  <2>2. t \in Within(fn.versions)
    BY <1>2, AvailableWithin
  <2> QED
    BY <2>1, <2>2 DEF Writes, WritesAt
<1> QED
  BY <1>1, <1>2 DEF Terms

\* The equations hold past the operation.
LEMMA NextHolds ==
  ASSUME NEW g, NEW n, IsGraph(g, n), NEW fn, Formed(g, n, fn), NEW p \in OpPoints(g, fn),
         NEW q \in Points(g), JustPast(p, q), NEW values, NEW w, NEW memory, NEW popped,
         Holds(g, fn, Equations(g, fn), values, p), Memory(fn, values, memory, p),
         WritesAt(fn, p, values, w, Yields(OpAt(fn, p), values, memory, popped))
  PROVE  Holds(g, fn, Equations(g, fn), w, q)
<1> DEFINE E == Equations(g, fn)
           old == OpAt(fn, p)
           r == Yields(old, values, memory, popped)
<1> SUFFICES ASSUME NEW e \in E, e[1] \in Available(g, fn, q)
             PROVE  Read(w, e[1]) = Read(w, e[2])
  BY DEF Holds
<1> DEFINE x == e[1]
           t == e[2]
<1>1. e = <<x, t>>
  <2>1. e \in Pairs
    BY EquationsJustified
  <2> HIDE DEF E
  <2> QED
    BY <2>1 DEF Pairs
<1>2. <<x, t>> \in E /\ x \in Available(g, fn, q) /\ x \in Within(fn.versions)
  BY <1>1, AvailableWithin
<1>3. p \in Points(g) /\ Numbered(fn, Reached(g))
  BY OpDefines DEF Formed
<1>4. Holds(g, fn, E, values, p) /\ Writes(values, w, fn.versions, old.out, r)
  BY DEF WritesAt
<1>5. \A y \in Terms(g, fn, p) : Read(w, y) = Read(values, y)
  BY NextReads DEF SameTerms
<1>6. x # old.out => x \in Available(g, fn, p)
  BY <1>2, AvailableNext
<1>7. x = old.out => t \in Terms(g, fn, p) /\ r = Read(values, t)
  <2> SUFFICES ASSUME x = old.out
               PROVE  t \in Terms(g, fn, p) /\ r = Read(values, t)
    OBVIOUS
  <2>1. <<OpAt(fn, p).out, t>> \in Equations(g, fn)
    BY <1>2
  <2> HIDE DEF x, t
  <2>2. t \in Terms(g, fn, p) /\ Yielded(g, fn, E, p, t)
    BY <1>3, <2>1, EquationHere
  <2> QED
    BY <1>4, <2>2 DEF Yielded
<1>8. x # old.out => t \in Terms(g, fn, p) /\ x \in Terms(g, fn, p) /\ Read(values, x) = Read(values, t)
  <2> SUFFICES ASSUME x # old.out
               PROVE  t \in Terms(g, fn, p) /\ x \in Terms(g, fn, p) /\ Read(values, x) = Read(values, t)
    OBVIOUS
  <2>1. x \in Available(g, fn, p)
    BY <1>6
  <2>2. Read(values, x) = Read(values, t)
    BY <1>4, <2>1 DEF Holds
  <2>3. <<x, t>> \in Equations(g, fn)
    BY <1>2
  <2> HIDE DEF x, t
  <2>4. t \in Terms(g, fn, p)
    BY <1>3, <2>1, <2>3, EquationUsable
  <2> QED
    BY <2>1, <2>2, <2>4 DEF Terms
<1> HIDE DEF x, t, old, r, E
<1>9. CASE x = old.out
  <2>1. Read(w, x) = r
    BY <1>2, <1>4, <1>9 DEF Writes
  <2> QED
    BY <1>5, <1>7, <1>9, <2>1 DEF x, t
<1>10. CASE x # old.out
  BY <1>5, <1>8, <1>10 DEF x, t
<1> QED
  BY <1>9, <1>10

\* What an operation does to the memory.
Effect(old, values, memory, after) ==
  /\ old.opcode = "Store" => after[Read(values, old.ins[1])] = Read(values, old.ins[2])
  /\ old.opcode \notin LoadBarriers => after = memory

\* What was stored is known past the operation.
LEMMA NextMemory ==
  ASSUME NEW g, NEW n, IsGraph(g, n), NEW fn, Formed(g, n, fn), NEW p \in OpPoints(g, fn),
         NEW q \in Points(g), JustPast(p, q), NEW values, NEW w, NEW r, NEW memory, NEW after,
         Memory(fn, values, memory, p), WritesAt(fn, p, values, w, r),
         Effect(OpAt(fn, p), values, memory, after)
  PROVE  Memory(fn, w, after, q)
<1>0. \A t \in Terms(g, fn, p) : Read(w, t) = Read(values, t)
  BY NextReads DEF SameTerms
<1> DEFINE b == p[1]
           i == p[2]
<1> SUFFICES ASSUME NEW k \in Nat, LastBarrier(fn, q, k), fn.ops[q[1]][k].opcode = "Store"
             PROVE  after[Read(w, fn.ops[q[1]][k].ins[1])] = Read(w, fn.ops[q[1]][k].ins[2])
  BY DEF Memory
<1> DEFINE store == fn.ops[b][k]
           s == <<b, k>>
<1>1. b \in Reached(g) /\ i \in Nat /\ i \in DOMAIN fn.ops[b] /\ p \in Points(g) /\ b \in DOMAIN fn.ops
      /\ Len(g.ops[b]) \in Nat /\ DOMAIN fn.ops[b] = 1 .. Len(g.ops[b])
  <2>1. b \in Reached(g) /\ i \in Nat /\ i \in DOMAIN fn.ops[b] /\ p \in Points(g)
    BY DEF OpPoints, Points
  <2>2. Reached(g) \subseteq 1 .. n
    BY ClosureSpec DEF Reached
  <2> QED
    BY <2>1, <2>2 DEF Formed
<1>2. /\ k \in 1 .. i /\ store.opcode = "Store" /\ store.opcode \in LoadBarriers
      /\ \A j \in 1 .. i : k < j => fn.ops[b][j].opcode \notin LoadBarriers
  <2>1. q[1] = b /\ q[2] - 1 = i
    BY <1>1 DEF JustPast
  <2> HIDE DEF b, i
  <2> QED
    BY <2>1 DEF LastBarrier, LoadBarriers
<1> HIDE DEF i
<1>3. s \in OpPoints(g, fn) /\ OpAt(fn, s) = store /\ s[1] = b /\ s[2] = k
  <2>1. k \in DOMAIN fn.ops[b]
    BY <1>1, <1>2
  <2> HIDE DEF b
  <2> QED
    BY <1>1, <2>1, AtPoints DEF OpAt
<1> HIDE DEF s
<1>4. s = p \/ Earlier(g, s, p)
  <2>1. CASE k = i
    BY <1>1, <1>3, <2>1 DEF i, Points, OpPoints
  <2>2. CASE k # i
    BY <1>1, <1>2, <1>3, <2>2 DEF Earlier, i
  <2> QED
    BY <2>1, <2>2
<1>5. s \in Points(g)
  BY <1>3, OpDefines
<1>6. Terms(g, fn, s) \subseteq Terms(g, fn, p)
  <2>1. Available(g, fn, s) \subseteq Available(g, fn, p)
    BY <1>1, <1>4, <1>5, StillAvailable
  <2> QED
    BY <2>1 DEF Terms
<1>7. OpFormed(g, fn, s, store)
  BY <1>3 DEF Formed
<1> HIDE DEF store
<1>8. store.ins[1] \in Terms(g, fn, p) /\ store.ins[2] \in Terms(g, fn, p)
  <2>1. DOMAIN store.ins = 1 .. 2
    BY <1>2, <1>7 DEF OpFormed, Arity
  <2> QED
    BY <1>6, <1>7, <2>1 DEF OpFormed
<1>9. Read(w, store.ins[1]) = Read(values, store.ins[1]) /\ Read(w, store.ins[2]) = Read(values, store.ins[2])
  BY <1>0, <1>8
<1>10. after[Read(values, store.ins[1])] = Read(values, store.ins[2])
  <2>1. CASE k = i
    <3>1. store = OpAt(fn, p)
      BY <2>1 DEF store, OpAt, i
    <3> QED
      BY <1>2, <3>1 DEF Effect
  <2>2. CASE k # i
    <3>1. k < i /\ i \in 1 .. i
      BY <1>1, <1>2, <2>2
    <3>2. fn.ops[b][i].opcode \notin LoadBarriers
      BY <1>2, <3>1
    <3>3. after = memory
      BY <3>2 DEF Effect, OpAt, i
    <3>4. LastBarrier(fn, p, k)
      <4>1. k \in 1 .. i - 1 /\ \A j \in 1 .. i - 1 : j \in 1 .. i
        BY <1>1, <1>2, <3>1
      <4>2. fn.ops[b][k].opcode \in LoadBarriers
        BY <1>2 DEF store
      <4> QED
        BY <1>2, <4>1, <4>2 DEF LastBarrier, i
    <3> QED
      BY <1>2, <3>3, <3>4 DEF Memory, store
  <2> QED
    BY <2>1, <2>2
<1>11. q[1] = b
  BY DEF JustPast
<1> QED
  BY <1>9, <1>10, <1>11 DEF store

\* The operations of a form at a point, and what they write.
Here(form, p) == {op \in ToSet(form.ops[p[1]]) : op.at = p[2]}
WritesHere(form, p, values, w, versions, r) ==
  /\ Sized(w, versions)
  /\ \A y \in Within(versions) : Read(w, y) = IF \E op \in Here(form, p) : op.out = y THEN r ELSE Read(values, y)

\* What is used has its value.
SameUsed(g, fn, form, p, values, others) ==
  \A y \in Used(form) \cap Available(g, fn, p) : Read(others, y) = Read(values, y)

\* An operation that is left matches the one at its point.
LEMMA HereMatches ==
  ASSUME NEW g, NEW n, IsGraph(g, n), NEW fn, Formed(g, n, fn), NEW form, Reduces(g, fn, form),
         NEW p \in OpPoints(g, fn), NEW op \in Here(form, p)
  PROVE  Matches(g, fn, OpAt(fn, p), op) /\ op \in AllOps(form)
<1> DEFINE b == p[1]
<1>1. b \in Reached(g)
  BY DEF OpPoints, Points
<1>2. Reached(g) \subseteq 1 .. n
  BY ClosureSpec DEF Reached
<1>3. b \in DOMAIN fn.ops /\ DOMAIN form.ops = DOMAIN fn.ops
  BY <1>1, <1>2 DEF Formed, Reduces, OpsAmong
<1>4. op \in ToSet(form.ops[b]) /\ op.at = p[2]
  BY DEF Here
<1>5. Matches(g, fn, fn.ops[b][op.at], op)
  BY <1>3, <1>4 DEF Reduces, OpsAmong
<1> QED
  BY <1>3, <1>4, <1>5 DEF OpAt, AllOps

\* It still has.
LEMMA NextUsed ==
  ASSUME NEW g, NEW n, IsGraph(g, n), NEW fn, Formed(g, n, fn), NEW form, Reduces(g, fn, form),
         NEW p \in OpPoints(g, fn), NEW q \in Points(g), JustPast(p, q),
         NEW values, NEW others, NEW w, NEW u, NEW r, SameUsed(g, fn, form, p, values, others),
         WritesAt(fn, p, values, w, r), WritesHere(form, p, others, u, fn.versions, r)
  PROVE  SameUsed(g, fn, form, q, w, u)
<1> SUFFICES ASSUME NEW y \in Used(form), y \in Available(g, fn, q)
             PROVE  Read(u, y) = Read(w, y)
  BY DEF SameUsed
<1> DEFINE old == OpAt(fn, p)
<1>1. y \in Within(fn.versions)
  BY AvailableWithin
<1>2. CASE y = old.out
  <2>1. \E op \in Here(form, p) : op.out = y
    <3> DEFINE b == p[1]
               i == p[2]
    <3>1. b \in Reached(g) /\ i \in DOMAIN fn.ops[b]
      BY DEF OpPoints, Points
    <3>2. Reached(g) \subseteq 1 .. n
      BY ClosureSpec DEF Reached
    <3>3. b \in DOMAIN fn.ops
      BY <3>1, <3>2 DEF Formed
    <3>4. LeftAt(form, b, i)
      BY <1>2, <3>1, <3>3 DEF Reduces, UsedLeft, OpAt
    <3>5. PICK op \in Here(form, p) : TRUE
      BY <3>4 DEF LeftAt, Here
    <3>6. op.out = old.out
      BY <3>5, HereMatches DEF Matches
    <3> QED
      BY <1>2, <3>6
  <2> QED
    BY <1>1, <1>2, <2>1 DEF Writes, WritesAt, WritesHere
<1>3. CASE y # old.out
  <2>1. ~ \E op \in Here(form, p) : op.out = y
    BY <1>3, HereMatches DEF Matches
  <2>2. y \in Available(g, fn, p)
    BY <1>3, AvailableNext
  <2>3. Read(others, y) = Read(values, y)
    BY <2>2 DEF SameUsed
  <2> QED
    BY <1>1, <1>3, <2>1, <2>3 DEF Writes, WritesAt, WritesHere
<1> QED
  BY <1>2, <1>3

\* The end of a block, and the ends of the way into another: before its phis
\* and past them.
End(g, b) == <<b, Len(g.ops[b]) + 1>>
Door(c) == <<c, 0>>
Inside(c) == <<c, 1>>

\* They are points.
LEMMA WayIn ==
  ASSUME NEW g, NEW n, IsGraph(g, n), NEW fn, Formed(g, n, fn), NEW b \in Reached(g), NEW c \in ToSet(g.succ[b])
  PROVE  /\ End(g, b) \in Points(g) /\ Door(c) \in Points(g) /\ Inside(c) \in Points(g)
         /\ c \in Reached(g) /\ c \in 1 .. n /\ c \in DOMAIN fn.phis /\ 0 \notin DOMAIN fn.ops[c]
         /\ End(g, b)[1] = b /\ End(g, b)[2] = Len(g.ops[b]) + 1
         /\ Door(c)[1] = c /\ Door(c)[2] = 0 /\ Inside(c)[1] = c /\ Inside(c)[2] = 1
<1>1. c \in Reached(g) /\ Reached(g) \subseteq 1 .. n
  BY ReachedOn, ClosureSpec DEF Reached
<1>2. Len(g.ops[b]) \in Nat /\ Len(g.ops[c]) \in Nat /\ DOMAIN fn.ops[c] = 1 .. Len(g.ops[c]) /\ DOMAIN fn.phis = 1 .. n
  BY <1>1 DEF Formed
<1>3. 0 \notin DOMAIN fn.ops[c]
  BY <1>2
<1>4. Len(g.ops[b]) + 1 \in Nat
  BY <1>2
<1> QED
  BY <1>1, <1>2, <1>3, <1>4 DEF End, Door, Inside, Points

\* What is available at the door is so at the end of every block before.
LEMMA AvailableAcross ==
  ASSUME NEW g, NEW n, IsGraph(g, n), NEW fn, Formed(g, n, fn), NEW b \in Reached(g), NEW c \in ToSet(g.succ[b])
  PROVE  Available(g, fn, Door(c)) \subseteq Available(g, fn, End(g, b))
<1> SUFFICES ASSUME NEW x \in Available(g, fn, Door(c)), x[2] # 0
             PROVE  x \in Available(g, fn, End(g, b))
  BY DEF Available
<1>1. PICK r \in Points(g) : DefinedAt(fn, r[1], r[2], x) /\ Earlier(g, r, Door(c))
  BY DEF Available
<1>2. Len(g.ops[b]) \in Nat /\ DOMAIN fn.ops[b] = 1 .. Len(g.ops[b])
  BY DEF Formed
<1> DEFINE m == Len(g.ops[b])
<1>3. r[1] = b => r[2] <= m
  <2> SUFFICES ASSUME r[1] = b
               PROVE  r[2] <= m
    OBVIOUS
  <2>1. r[2] = 0 \/ r[2] \in 1 .. m
    BY <1>1, <1>2 DEF DefinedAt
  <2> QED
    BY <1>2, <2>1
<1>4. m \in Nat /\ Earlier(g, r, <<c, 0>>)
  BY <1>1, <1>2 DEF Door
<1> HIDE DEF m
<1>5. Earlier(g, r, <<b, m + 1>>)
  BY <1>3, <1>4, EarlierAcross
<1>6. Earlier(g, r, End(g, b))
  BY <1>5 DEF End, m
<1> QED
  BY <1>1, <1>6 DEF Available

\* What is available inside is so at the door, or is what a phi defines.
PhiDefines(fn, c, x) == x[1] \in DOMAIN fn.phis[c] /\ fn.phis[c][x[1]].ver = x[2]

\* The rest was available at the door.
LEMMA AvailableInside ==
  ASSUME NEW g, NEW n, IsGraph(g, n), NEW fn, Formed(g, n, fn), NEW b \in Reached(g), NEW c \in ToSet(g.succ[b]),
         NEW x \in Available(g, fn, Inside(c)), ~PhiDefines(fn, c, x)
  PROVE  x \in Available(g, fn, Door(c))
<1> SUFFICES ASSUME x[2] # 0
             PROVE  x \in Available(g, fn, Door(c))
  BY DEF Available
<1>1. PICK r \in Points(g) : DefinedAt(fn, r[1], r[2], x) /\ Earlier(g, r, Inside(c))
  BY DEF Available
<1>2. r[2] \in Nat /\ 0 \notin DOMAIN fn.ops[c] /\ Inside(c)[1] = c /\ Inside(c)[2] = 1 /\ Door(c)[1] = c
  BY WayIn DEF Points
<1>3. r[1] # c
  <2> SUFFICES ASSUME r[1] = c
               PROVE  FALSE
    OBVIOUS
  <2>1. r[2] < 1
    BY <1>1, <1>2 DEF Earlier
  <2>2. r[2] = 0
    BY <1>2, <2>1
  <2> QED
    BY <1>1, <1>2, <2>2 DEF DefinedAt, PhiDefines
<1>4. Earlier(g, r, Door(c))
  BY <1>1, <1>2, <1>3 DEF Earlier
<1> QED
  BY <1>1, <1>4 DEF Available

\* Nothing a phi defines is available at the door.
LEMMA PhiNotAvailable ==
  ASSUME NEW g, NEW n, IsGraph(g, n), NEW fn, Formed(g, n, fn), NEW b \in Reached(g), NEW c \in ToSet(g.succ[b]),
         NEW x \in Available(g, fn, Door(c))
  PROVE  ~PhiDefines(fn, c, x)
<1> SUFFICES ASSUME PhiDefines(fn, c, x)
             PROVE  FALSE
  OBVIOUS
<1> DEFINE p == Door(c)
<1>0. x \in Values /\ Numbered(fn, Reached(g))
  BY DEF Available, Formed
<1>1. p \in Points(g) /\ p[1] = c /\ p[2] = 0 /\ x \in Values /\ Numbered(fn, Reached(g))
  BY <1>0, WayIn
<1> HIDE DEF p
<1>2. DefinedAt(fn, p[1], p[2], x)
  BY <1>1 DEF DefinedAt, PhiDefines
<1>3. x \notin Available(g, fn, p)
  BY <1>1, <1>2, NotAvailable
<1> QED
  BY <1>3 DEF p

\* The phis take their values.
Enters(fn, form, b, c, values, f) ==
  /\ Sized(f, fn.versions)
  /\ \A y \in Within(fn.versions) :
       Read(f, y) = IF PhiDefines(form, c, y) THEN Read(values, form.phis[c][y[1]].in[b]) ELSE Read(values, y)

\* The equations hold inside.
LEMMA EnterHolds ==
  ASSUME NEW g, NEW n, IsGraph(g, n), NEW fn, Formed(g, n, fn), NEW b \in Reached(g), NEW c \in ToSet(g.succ[b]),
         NEW values, NEW f, Holds(g, fn, Equations(g, fn), values, End(g, b)), Enters(fn, fn, b, c, values, f)
  PROVE  Holds(g, fn, Equations(g, fn), f, Inside(c))
<1> DEFINE E == Equations(g, fn)
           p == Door(c)
<1> SUFFICES ASSUME NEW e \in E, e[1] \in Available(g, fn, Inside(c))
             PROVE  Read(f, e[1]) = Read(f, e[2])
  BY DEF Holds
<1> DEFINE x == e[1]
           t == e[2]
<1>1. e = <<x, t>>
  <2>1. e \in Pairs
    BY EquationsJustified
  <2> HIDE DEF E
  <2> QED
    BY <2>1 DEF Pairs
<1>2. <<x, t>> \in Equations(g, fn) /\ x \in Available(g, fn, Inside(c)) /\ Numbered(fn, Reached(g))
  BY <1>1 DEF Formed
<1>3. Read(values, x) = Read(values, t) \/ x \notin Available(g, fn, End(g, b))
  BY DEF Holds
<1> HIDE DEF x, t, E
<1>4. p \in Points(g) /\ p[1] = c /\ p[2] = 0
      /\ Inside(c) \in Points(g) /\ Inside(c)[1] = c /\ Inside(c)[2] = 1
  BY WayIn
<1>5. x \in Available(g, fn, p)
  <2>1. x \in Values
    BY <1>2, EquationAt
  <2>2. PICK q \in OpPoints(g, fn) : OpAt(fn, q).out = x
    BY <1>2, EquationAt
  <2>3. DefinedAt(fn, q[1], q[2], x) /\ q \in Points(g)
    BY <2>2, OpDefines
  <2>4. ~PhiDefines(fn, c, x)
    <3> SUFFICES ASSUME PhiDefines(fn, c, x)
                 PROVE  FALSE
      OBVIOUS
    <3>1. DefinedAt(fn, c, 0, x)
      BY DEF DefinedAt, PhiDefines
    <3>2. c \in Reached(g) /\ q[1] \in Reached(g) /\ q[2] \in Nat /\ 0 \in Nat
      BY <2>3, WayIn DEF Points
    <3>3. q[1] = c /\ q[2] = 0
      BY <1>2, <2>1, <2>3, <3>1, <3>2 DEF Numbered, Values
    <3>4. 0 \in DOMAIN fn.ops[c]
      BY <2>2, <3>3 DEF OpPoints
    <3> QED
      BY <3>4, WayIn
  <2> QED
    BY <1>2, <2>4, AvailableInside
<1>6. t \in Terms(g, fn, p)
  BY <1>2, <1>4, <1>5, EquationUsable
<1>7. \A y \in Terms(g, fn, p) : Read(f, y) = Read(values, y)
  <2> SUFFICES ASSUME NEW y \in Terms(g, fn, p)
               PROVE  Read(f, y) = Read(values, y)
    OBVIOUS
  <2>1. CASE y \in Consts
    BY <2>1, ValuesNotConsts DEF Read
  <2>2. CASE y \in Available(g, fn, p)
    <3>1. ~PhiDefines(fn, c, y)
      BY <2>2, PhiNotAvailable
    <3>2. y \in Within(fn.versions)
      BY <2>2, AvailableWithin
    <3> QED
      BY <3>1, <3>2 DEF Enters
  <2> QED
    BY <2>1, <2>2 DEF Terms
<1>8. x \in Available(g, fn, End(g, b)) /\ x \in Terms(g, fn, p)
  BY <1>5, AvailableAcross DEF Terms
<1> QED
  BY <1>3, <1>6, <1>7, <1>8 DEF x, t

\* What is used has its value inside.
LEMMA EnterUsed ==
  ASSUME NEW g, NEW n, IsGraph(g, n), NEW fn, Formed(g, n, fn), NEW form, Reduces(g, fn, form),
         NEW b \in Reached(g), NEW c \in ToSet(g.succ[b]), NEW values, NEW others, NEW f, NEW h,
         Holds(g, fn, Equations(g, fn), values, End(g, b)), SameUsed(g, fn, form, End(g, b), values, others),
         Enters(fn, fn, b, c, values, f), Enters(fn, form, b, c, others, h)
  PROVE  SameUsed(g, fn, form, Inside(c), f, h)
<1> SUFFICES ASSUME NEW y \in Used(form), y \in Available(g, fn, Inside(c))
             PROVE  Read(h, y) = Read(f, y)
  BY DEF SameUsed
<1> DEFINE v == y[1]
           end == End(g, b)
<1>1. y \in Within(fn.versions) /\ y \in Values
  BY AvailableWithin DEF Within
<1>2. /\ PhisFollow(g, fn, form) /\ UsedLeft(fn, form) /\ DOMAIN form.phis = DOMAIN fn.phis
      /\ c \in DOMAIN fn.phis /\ c \in 1 .. n /\ end \in Points(g) /\ Numbered(fn, Reached(g))
  BY WayIn DEF Reduces, PhisFollow, Formed
<1>3. CASE PhiDefines(fn, c, y)
  <2> DEFINE old == fn.phis[c][v].in[b]
             new == form.phis[c][v].in[b]
  <2>1. v \in DOMAIN fn.phis[c] /\ fn.phis[c][v].ver = y[2] /\ y = <<v, y[2]>>
    BY <1>1, <1>3 DEF PhiDefines, Values
  <2>2. v \in DOMAIN form.phis[c]
    BY <1>2, <2>1 DEF UsedLeft
  <2>3. b \in Predecessors(g, c) /\ b \in DOMAIN fn.phis[c][v].in
    <3>1. Blocks(g) = 1 .. n /\ Reached(g) \subseteq 1 .. n
      BY Edges, ClosureSpec DEF Reached
    <3>2. b \in Predecessors(g, c)
      BY <3>1 DEF Predecessors
    <3> QED
      BY <1>2, <2>1, <3>2 DEF Formed
  <2>4. /\ form.phis[c][v].ver = fn.phis[c][v].ver /\ b \in DOMAIN form.phis[c][v].in
        /\ Alike(g, fn, old, new)
    BY <1>2, <2>2, <2>3 DEF PhisFollow
  <2>5. PhiDefines(form, c, y)
    BY <2>1, <2>2, <2>4 DEF PhiDefines
  <2>6. Read(f, y) = Read(values, old) /\ Read(h, y) = Read(others, new)
    BY <1>1, <1>3, <2>5 DEF Enters
  <2>7. old \in Available(g, fn, end)
    BY <2>1 DEF Formed, End
  <2>8. new \in Used(form)
    <3>1. new \in Range(form.phis[c][v].in)
      BY <2>4 DEF Range
    <3>2. c \in DOMAIN form.phis
      BY <1>2
    <3> HIDE DEF new
    <3>3. new \in UNION {Range(form.phis[c][u].in) : u \in DOMAIN form.phis[c]}
      BY <2>2, <3>1
    <3>4. new \in UNION {UNION {Range(form.phis[a][u].in) : u \in DOMAIN form.phis[a]} : a \in DOMAIN form.phis}
      BY <3>2, <3>3
    <3> QED
      BY <3>4 DEF Used
  <2> HIDE DEF old, new, end
  <2>9. old \in Terms(g, fn, end)
    BY <2>7 DEF Terms
  <2>10. new \in Terms(g, fn, end) /\ Read(values, old) = Read(values, new)
    BY <1>2, <2>4, <2>9, AlikeReads DEF end
  <2>11. Read(others, new) = Read(values, new)
    <3>1. CASE new \in Consts
      BY <3>1, ValuesNotConsts DEF Read
    <3>2. CASE new \in Available(g, fn, end)
      BY <2>8, <3>2 DEF SameUsed, end
    <3> QED
      BY <2>10, <3>1, <3>2 DEF Terms
  <2> QED
    BY <2>6, <2>10, <2>11
<1>4. CASE ~PhiDefines(fn, c, y)
  <2>1. ~PhiDefines(form, c, y)
    <3> SUFFICES ASSUME PhiDefines(form, c, y)
                 PROVE  FALSE
      OBVIOUS
    <3>1. v \in DOMAIN form.phis[c] /\ form.phis[c][v].ver = y[2]
      BY DEF PhiDefines
    <3>2. v \in DOMAIN fn.phis[c] /\ form.phis[c][v].ver = fn.phis[c][v].ver
      BY <1>2, <3>1 DEF PhisFollow
    <3> QED
      BY <1>4, <3>1, <3>2 DEF PhiDefines
  <2>2. y \in Available(g, fn, Door(c))
    BY <1>4, AvailableInside
  <2>3. y \in Available(g, fn, end)
    BY <2>2, AvailableAcross
  <2>4. Read(others, y) = Read(values, y)
    BY <2>3 DEF SameUsed
  <2> QED
    BY <1>1, <1>4, <2>1, <2>4 DEF Enters
<1> QED
  BY <1>3, <1>4

-----------------------------------------------------------------------------
(* The executions of what is left *)

\* Where an execution is, in the function and in the SSA form.
Fellow(op, old) ==
  /\ op \in Operations(Vars) /\ old.opcode = op.opcode
  /\ op.out = None => old.out = None
  /\ op.out # None => old.out \in Values /\ old.out[1] = op.out
Now == <<at[1], at[2]>>

\* It is at an operation of both, and both read the same.
LEMMA WhereItIs ==
  ASSUME IsGiven(code), AtSame(code, cfg, ssa, at, env, vals)
  PROVE  /\ IsGraph(cfg, BlocksOf(code)) /\ Formed(cfg, BlocksOf(code), ssa) /\ Now \in OpPoints(cfg, ssa)
         /\ OpIn(ssa) = {OpAt(ssa, Now)} /\ Fellow(Op, OpAt(ssa, Now))
         /\ ReadAll(vals, OpAt(ssa, Now)) = ReadAll(Plain, Op)
         /\ Sized(vals, ssa.versions)
<1> DEFINE n == BlocksOf(code)
           old == OpAt(ssa, Now)
<1>1. IsGraph(cfg, n) /\ OpsTyped(cfg, n)
  BY GraphOf DEF AtSame
<1>2. PICK cur, new :
           /\ IsRenaming(cfg, n, Dominators(cfg), PhiPlacement(cfg, Vars), ssa, cur)
           /\ Agree(vals, ssa.versions, cur[at[1]][at[2]], env)
           /\ Op \in Operations(Vars) /\ OpIn(ssa) = {new}
           /\ Renames(Op, new, cur[at[1]][at[2]], cur[at[1]][at[2] + 1], at[2])
           /\ ReadAll(vals, new) = ReadAll(Plain, Op)
  BY SameOperation
<1> HIDE DEF n
<1>3. Formed(cfg, n, ssa)
  BY <1>1, <1>2, RenamingFormed
<1>4. /\ at[1] \in Reached(cfg) /\ at[2] \in 1 .. Len(cfg.ops[at[1]])
      /\ Len(cfg.ops[at[1]]) \in Nat /\ DOMAIN ssa.ops[at[1]] = 1 .. Len(cfg.ops[at[1]])
  BY <1>3 DEF AtSame, Formed
<1>5. Now[1] = at[1] /\ Now[2] = at[2] /\ at[2] \in Nat
  BY <1>4 DEF Now
<1>6. Now \in OpPoints(cfg, ssa)
  BY <1>4, <1>5 DEF OpPoints, Points, Now
<1>7. OpFormed(cfg, ssa, Now, old)
  BY <1>3, <1>6 DEF Formed
<1>8. old \in OpIn(ssa)
  <2>1. old \in ToSet(ssa.ops[at[1]])
    BY <1>4, <1>5 DEF OpAt, ToSet
  <2>2. old.at = at[2]
    BY <1>5, <1>7 DEF OpFormed
  <2> QED
    BY <2>1, <2>2 DEF OpIn
<1>9. old = new
  BY <1>2, <1>8
<1> HIDE DEF old
<1>10. Fellow(Op, old)
  <2> DEFINE o == Op.out
             next == cur[at[1]][at[2] + 1]
  <2>1. old.opcode = Op.opcode /\ old.out = (IF o = None THEN None ELSE <<o, next[o]>>)
    BY <1>2, <1>9 DEF Renames
  <2>2. old.out \in Values \cup {None}
    BY <1>7 DEF OpFormed
  <2> HIDE DEF o, next
  <2>3. o # None => old.out \in Values /\ old.out[1] = o
    <3> SUFFICES ASSUME o # None
                 PROVE  old.out \in Values /\ old.out[1] = o
      OBVIOUS
    <3>1. old.out = <<o, next[o]>>
      BY <2>1
    <3>2. o \in Vars
      BY <1>2 DEF Operations, o
    <3>3. old.out # None
      <4>1. CASE old.out \in Values
        BY <4>1, ValuesNotConsts
      <4>2. CASE old.out = None
        <5>1. next \in [Vars -> Nat]
          <6>1. BlockDone(cfg, Dominators(cfg), ssa, cur, at[1])
            BY <1>2, <1>4 DEF IsRenaming
          <6>2. at[2] + 1 \in 1 .. Len(cfg.ops[at[1]]) + 1
            BY <1>4
          <6> QED
            BY <6>1, <6>2 DEF BlockDone, Current, next
        <5>2. <<o, next[o]>> \in Vars \X Nat
          BY <3>2, <5>1
        <5> QED
          BY <3>1, <4>2, <5>2, NamesAssumption
      <4> QED
        BY <2>2, <4>1, <4>2
    <3> QED
      BY <2>2, <3>1, <3>3
  <2> QED
    BY <1>2, <2>1, <2>3 DEF Fellow, o
<1>11. Sized(vals, ssa.versions)
  BY <1>2 DEF Agree, Sized
<1> QED
  BY <1>1, <1>2, <1>3, <1>6, <1>9, <1>10, <1>11 DEF n, old

\* What an operation yields is what it yields there.
LEMMA ResultYields ==
  ASSUME NEW values, NEW op, NEW popped
  PROVE  Result(values, op, popped) = Yields(op, values, mem, popped)
  BY Zenon DEF Result, Yields

\* The operations of a form are written as they yield.
LEMMA WrittenHere ==
  ASSUME NEW form, NEW values, NEW versions, Sized(values, versions), NEW popped, NEW r,
         \A op \in OpIn(form) : op.out \in Values \cup {None},
         \A op \in OpIn(form) : op.out # None => Result(values, op, popped) = r
  PROVE  WritesHere(form, Now, values, Written(values, form, popped), versions, r)
<1> DEFINE w == Written(values, form, popped)
           Defines(op, v, n) == op.out # None /\ Key(op.out[1]) = v /\ op.out[2] = n
           Of(v, n) == CHOOSE op \in OpIn(form) : Defines(op, v, n)
<1>1. w = [v \in Vars |-> [n \in DOMAIN values[v] |->
             IF \E op \in OpIn(form) : Defines(op, v, n)
             THEN Cut(Of(v, n).out[1], Result(values, Of(v, n), popped)) ELSE values[v][n]]]
  BY DEF Written
<1>2. Here(form, Now) = OpIn(form)
  BY DEF Here, OpIn, Now
<1> HIDE DEF w
<1>3. Sized(w, versions)
  BY <1>1 DEF Sized
<1>4. ASSUME NEW y \in Within(versions)
      PROVE  Read(w, y) = IF \E op \in OpIn(form) : op.out = y THEN r ELSE Read(values, y)
  <2> DEFINE v == y[1]
             k == y[2]
             x == Of(v, k)
  <2>1. /\ y \in Values /\ v \in Vars /\ y = <<v, k>> /\ k \in DOMAIN values[v] /\ ~IsConst(y) /\ y # None
        /\ Key(v) = v /\ \A c : Cut(v, c) = c
    <3>1. y \in Values /\ k \in 0 .. versions[v]
      BY DEF Within
    <3>2. v \in Vars /\ y = <<v, k>>
      BY <3>1 DEF Values
    <3> QED
      BY <3>1, <3>2, ValuesNotConsts, FullWidth DEF Sized
  <2>2. Read(w, y) = w[v][k] /\ Read(values, y) = values[v][k]
    BY <2>1 DEF Read
  <2>3. w[v][k] = IF \E op \in OpIn(form) : Defines(op, v, k)
                  THEN Cut(x.out[1], Result(values, x, popped)) ELSE values[v][k]
    BY <1>1, <2>1
  <2> HIDE DEF v, k
  <2>4. \A op \in OpIn(form) : Defines(op, v, k) <=> op.out = y
    <3> SUFFICES ASSUME NEW op \in OpIn(form)
                 PROVE  Defines(op, v, k) <=> op.out = y
      OBVIOUS
    <3>1. CASE op.out = None
      BY <2>1, <3>1
    <3>2. CASE op.out \in Values
      <4>1. Key(op.out[1]) = op.out[1] /\ op.out = <<op.out[1], op.out[2]>> /\ op.out # None
        BY <3>2, FullWidth, ValuesNotConsts, NamesAssumption DEF Values
      <4> QED
        BY <2>1, <4>1
    <3> QED
      BY <3>1, <3>2
  <2>5. ASSUME \E op \in OpIn(form) : Defines(op, v, k)
        PROVE  Cut(x.out[1], Result(values, x, popped)) = r
    <3>1. x \in OpIn(form) /\ Defines(x, v, k)
      BY <2>5
    <3> HIDE DEF x
    <3>2. x.out = y /\ x.out # None
      BY <2>4, <3>1
    <3>3. Result(values, x, popped) = r
      BY <3>1, <3>2
    <3> QED
      BY <2>1, <3>2, <3>3 DEF v
  <2> HIDE DEF Defines, x
  <2> QED
    BY <2>2, <2>3, <2>4, <2>5
<1> QED
  BY <1>2, <1>3, <1>4 DEF WritesHere, w

\* The phis of a form are entered.
LEMMA EnteredHere ==
  ASSUME NEW fn, NEW form, NEW values, Sized(values, fn.versions), NEW b, NEW c
  PROVE  Enters(fn, form, b, c, values, Entered(values, form, b, c))
<1> DEFINE f == Entered(values, form, b, c)
<1>1. f = [v \in Vars |-> [n \in DOMAIN values[v] |->
             IF v \in DOMAIN form.phis[c] /\ form.phis[c][v].ver = n
             THEN Read(values, form.phis[c][v].in[b]) ELSE values[v][n]]]
  BY DEF Entered
<1> HIDE DEF f
<1>2. Sized(f, fn.versions)
  BY <1>1 DEF Sized
<1>3. ASSUME NEW y \in Within(fn.versions)
      PROVE  Read(f, y) = IF PhiDefines(form, c, y) THEN Read(values, form.phis[c][y[1]].in[b]) ELSE Read(values, y)
  <2> DEFINE v == y[1]
             k == y[2]
  <2>1. v \in Vars /\ k \in DOMAIN values[v] /\ ~IsConst(y)
    <3>1. y \in Values /\ k \in 0 .. fn.versions[v]
      BY DEF Within
    <3>2. v \in Vars
      BY <3>1 DEF Values
    <3> QED
      BY <3>1, <3>2, ValuesNotConsts DEF Sized
  <2>2. Read(f, y) = f[v][k] /\ Read(values, y) = values[v][k]
    BY <2>1, FullWidth DEF Read
  <2>3. PhiDefines(form, c, y) <=> v \in DOMAIN form.phis[c] /\ form.phis[c][v].ver = k
    BY DEF PhiDefines
  <2> HIDE DEF k
  <2> QED
    BY <1>1, <2>1, <2>2, <2>3
<1> QED
  BY <1>2, <1>3 DEF Enters, f

\* The SSA form and what the passes left of it, at a point: the equations hold,
\* what was stored is known, and what is used has its value.
EqualAt(g, fn, form, p, values, others, memory) ==
  /\ Sized(values, fn.versions) /\ Sized(others, fn.versions)
  /\ Holds(g, fn, Equations(g, fn), values, p) /\ Memory(fn, values, memory, p)
  /\ SameUsed(g, fn, form, p, values, others)

\* An operation that is left reads and yields what the one it is of does.
LEMMA LeftYields ==
  ASSUME NEW g, NEW n, IsGraph(g, n), NEW fn, Formed(g, n, fn), NEW form, Reduces(g, fn, form),
         NEW p \in OpPoints(g, fn), NEW op \in Here(form, p), NEW values, NEW others, NEW memory, NEW popped,
         EqualAt(g, fn, form, p, values, others, memory)
  PROVE  /\ op.out = OpAt(fn, p).out
         /\ op.out = None => ReadAll(others, op) = ReadAll(values, OpAt(fn, p))
         /\ Yields(op, others, memory, popped) = Yields(OpAt(fn, p), values, memory, popped)
<1>1. Matches(g, fn, OpAt(fn, p), op) /\ op \in AllOps(form)
  BY HereMatches
<1>2. \A k \in DOMAIN op.ins : op.ins[k] \in Terms(g, fn, p)
  BY <1>1, MatchReads
<1>3. ASSUME NEW k \in DOMAIN op.ins
      PROVE  Read(others, op.ins[k]) = Read(values, op.ins[k])
  <2> DEFINE t == op.ins[k]
  <2>1. CASE t \in Consts
    BY <2>1, ValuesNotConsts DEF Read
  <2>2. CASE t \in Available(g, fn, p)
    <3>1. t \in ToSet(op.ins)
      BY DEF ToSet
    <3> HIDE DEF t
    <3>2. t \in Used(form)
      BY <1>1, <3>1 DEF Used
    <3> QED
      BY <2>2, <3>2 DEF EqualAt, SameUsed, t
  <2> QED
    BY <1>2, <2>1, <2>2 DEF Terms
<1>4. ReadAll(others, op) = ReadAll(values, op)
  BY <1>3 DEF ReadAll
<1>5. Yields(op, others, memory, popped) = Yields(op, values, memory, popped)
  BY <1>4, Zenon DEF Yields
<1>6. Holds(g, fn, Equations(g, fn), values, p) /\ Memory(fn, values, memory, p)
  BY DEF EqualAt
<1>7. /\ SameOf(g, fn, OpAt(fn, p), op) => ReadAll(values, op) = ReadAll(values, OpAt(fn, p))
      /\ Yields(op, values, memory, popped) = Yields(OpAt(fn, p), values, memory, popped)
  BY <1>1, <1>6, MatchYields
<1>8. op.out = OpAt(fn, p).out
  BY <1>1 DEF Matches
<1>9. op.out = None => SameOf(g, fn, OpAt(fn, p), op)
  <2> SUFFICES ASSUME op.out = None
               PROVE  ~CopyOf(g, fn, OpAt(fn, p), op)
    BY <1>1 DEF Matches
  <2>1. \A t : <<None, t>> \notin Equations(g, fn)
    BY EquationAt, ValuesNotConsts
  <2> QED
    BY <1>8, <2>1 DEF CopyOf
<1> QED
  BY <1>4, <1>5, <1>7, <1>8, <1>9

\* The SSA form, and what is left of it, past an operation.
LEMMA EqualPast ==
  ASSUME IsGiven(code), AtSame(code, cfg, ssa, at, env, vals), NEW n, n = BlocksOf(code), opt = Optimized(ssa),
         EqualAt(cfg, ssa, opt, Now, vals, optvals, mem), NEW popped,
         NEW after, Effect(OpAt(ssa, Now), vals, mem, after),
         NEW q \in Points(cfg), JustPast(Now, q)
  PROVE  /\ EqualAt(cfg, ssa, opt, q, Written(vals, ssa, popped), Written(optvals, opt, popped), after)
         /\ Reduces(cfg, ssa, opt)
<1> DEFINE old == OpAt(ssa, Now)
           r == Yields(old, vals, mem, popped)
           w == Written(vals, ssa, popped)
           u == Written(optvals, opt, popped)
           p == Now
<1>0. old.out \in Values \cup {None}
  BY WhereItIs DEF Formed, OpFormed
<1>1. /\ IsGraph(cfg, n) /\ Formed(cfg, n, ssa) /\ p \in OpPoints(cfg, ssa)
      /\ OpIn(ssa) = {old} /\ Sized(vals, ssa.versions)
  BY WhereItIs
<1>2. Reduces(cfg, ssa, opt)
  BY <1>1, OptimizedReduces
<1>3. Here(opt, p) = OpIn(opt) /\ Here(ssa, p) = OpIn(ssa)
  BY DEF Here, OpIn, Now
<1>4. WritesHere(ssa, p, vals, w, ssa.versions, r)
  <2>1. \A op \in OpIn(ssa) : op.out # None => Result(vals, op, popped) = r
    BY <1>1, ResultYields
  <2> HIDE DEF r
  <2> QED
    BY <1>0, <1>1, <2>1, WrittenHere
<1>5. WritesHere(opt, p, optvals, u, ssa.versions, r)
  <2>1. ASSUME NEW op \in OpIn(opt)
        PROVE  Result(optvals, op, popped) = r /\ op.out = old.out
    <3>1. op \in Here(opt, p)
      BY <1>3
    <3>2. EqualAt(cfg, ssa, opt, p, vals, optvals, mem)
      OBVIOUS
    <3> HIDE DEF p
    <3>3. /\ Yields(op, optvals, mem, popped) = Yields(OpAt(ssa, p), vals, mem, popped)
          /\ op.out = OpAt(ssa, p).out
      BY <1>1, <1>2, <3>1, <3>2, LeftYields
    <3> QED
      BY <3>3, ResultYields DEF p
  <2>2. \A op \in OpIn(opt) : op.out # None => Result(optvals, op, popped) = r
    BY <2>1
  <2>3. Sized(optvals, ssa.versions)
    BY DEF EqualAt
  <2>4. \A op \in OpIn(opt) : op.out \in Values \cup {None}
    BY <1>0, <2>1
  <2> HIDE DEF r, old
  <2> QED
    BY <2>2, <2>3, <2>4, WrittenHere
<1>6. WritesAt(ssa, p, vals, w, r)
  <2>1. \A y : (\E op \in Here(ssa, p) : op.out = y) <=> y = old.out
    BY <1>1, <1>3
  <2> HIDE DEF old, r, w
  <2> QED
    BY <1>4, <2>1 DEF WritesHere, WritesAt, Writes, old
<1>7. /\ Holds(cfg, ssa, Equations(cfg, ssa), vals, p) /\ Memory(ssa, vals, mem, p)
      /\ SameUsed(cfg, ssa, opt, p, vals, optvals)
  BY DEF EqualAt
<1>8. Holds(cfg, ssa, Equations(cfg, ssa), w, q)
  <2>1. WritesAt(ssa, p, vals, w, Yields(OpAt(ssa, p), vals, mem, popped)) /\ JustPast(p, q)
    BY <1>6
  <2> HIDE DEF w, p
  <2> QED
    BY <1>1, <1>7, <2>1, NextHolds
<1>9. Memory(ssa, w, after, q)
  <2>1. Effect(OpAt(ssa, p), vals, mem, after) /\ JustPast(p, q)
    OBVIOUS
  <2> HIDE DEF w, p, r
  <2> QED
    BY <1>1, <1>6, <1>7, <2>1, NextMemory
<1>10. SameUsed(cfg, ssa, opt, q, w, u)
  <2>1. JustPast(p, q)
    OBVIOUS
  <2> HIDE DEF w, u, p, r
  <2> QED
    BY <1>1, <1>2, <1>5, <1>6, <1>7, <2>1, NextUsed
<1>11. Sized(w, ssa.versions) /\ Sized(u, ssa.versions)
  BY <1>4, <1>5 DEF WritesHere
<1> HIDE DEF w, u
<1>12. EqualAt(cfg, ssa, opt, q, w, u, after)
  BY <1>8, <1>9, <1>10, <1>11 DEF EqualAt
<1> QED
  BY <1>2, <1>12 DEF w, u

\* And across an edge.
LEMMA EqualAcross ==
  ASSUME NEW g, NEW n, IsGraph(g, n), NEW fn, Formed(g, n, fn), NEW form, Reduces(g, fn, form),
         NEW b \in Reached(g), NEW c \in ToSet(g.succ[b]), NEW values, NEW others, NEW memory,
         EqualAt(g, fn, form, End(g, b), values, others, memory), NEW after
  PROVE  EqualAt(g, fn, form, Inside(c), Entered(values, fn, b, c), Entered(others, form, b, c), after)
<1> DEFINE f == Entered(values, fn, b, c)
           h == Entered(others, form, b, c)
<1>1. /\ Sized(values, fn.versions) /\ Sized(others, fn.versions)
      /\ Holds(g, fn, Equations(g, fn), values, End(g, b))
      /\ SameUsed(g, fn, form, End(g, b), values, others)
  BY DEF EqualAt
<1>2. Enters(fn, fn, b, c, values, f) /\ Enters(fn, form, b, c, others, h)
  BY <1>1, EnteredHere
<1> HIDE DEF f, h
<1>3. Holds(g, fn, Equations(g, fn), f, Inside(c))
  BY <1>1, <1>2, EnterHolds
<1>4. SameUsed(g, fn, form, Inside(c), f, h)
  BY <1>1, <1>2, EnterUsed
<1>5. Memory(fn, f, after, Inside(c))
  <2>1. Inside(c)[2] = 1
    BY WayIn
  <2> QED
    BY <2>1 DEF Memory, LastBarrier
<1>6. Sized(f, fn.versions) /\ Sized(h, fn.versions)
  BY <1>2 DEF Enters
<1>7. EqualAt(g, fn, form, Inside(c), f, h, after)
  BY <1>3, <1>4, <1>5, <1>6 DEF EqualAt
<1> QED
  BY <1>7 DEF f, h

\* What is read is a bit.
LEMMA ReadsBits ==
  ASSUME NEW e \in [Vars -> Words], env = e, NEW x \in Operands(Vars)
  PROVE  Read(Plain, x) \in Words
<1>1. CASE x \in {"const"} \X Words
  BY <1>1 DEF Read, IsConst
<1>2. CASE x \in Vars \X {0}
  <2> DEFINE v == x[1]
  <2>1. v \in Vars /\ x[2] = 0 /\ ~IsConst(x)
    BY <1>2, NamesAssumption DEF IsConst
  <2>2. Plain[v][x[2]] = e[v]
    BY <2>1 DEF Plain
  <2> HIDE DEF v
  <2>3. e[v] \in Words
    BY <2>1
  <2>4. Key(v) = v /\ \A c : Cut(v, c) = c
    BY <2>1, FullWidth
  <2> QED
    BY <2>1, <2>2, <2>3, <2>4 DEF Read, v
<1> QED
  BY <1>1, <1>2 DEF Operands

\* How much it reads.
LEMMA Arities ==
  ASSUME NEW op \in Operations(Vars)
  PROVE  /\ op.ins \in Seq(Operands(Vars)) /\ Len(op.ins) \in Nat
         /\ op.opcode \in {"Copy", "IntNot", "Load"} => Len(op.ins) = 1
         /\ op.opcode \in {"IntAdd", "Store"} => Len(op.ins) = 2
         /\ op.out # None => op.opcode \in Pure \cup {"Load", "Pop"}
<1> DEFINE o == op.opcode
           m == Len(op.ins)
<1>1. /\ DOMAIN Arity = {"Copy", "IntNot", "IntAdd", "Load", "Store"}
      /\ Arity["Copy"] = 1 /\ Arity["IntNot"] = 1 /\ Arity["Load"] = 1
      /\ Arity["IntAdd"] = 2 /\ Arity["Store"] = 2
  BY DEF Arity
<1>2. /\ op.ins \in Seq(Operands(Vars))
      /\ o \in DOMAIN Arity => m = Arity[o]
      /\ op.out # None => o \in Pure \cup {"Load", "Pop"}
  BY DEF Operations
<1>3. m \in Nat
  BY <1>2
<1> HIDE DEF o, m
<1>4. /\ o \in {"Copy", "IntNot", "Load"} => m = 1
      /\ o \in {"IntAdd", "Store"} => m = 2
  BY <1>1, <1>2
<1> QED
  BY <1>2, <1>3, <1>4 DEF o, m

\* So is what it yields.
LEMMA ResultBit ==
  ASSUME NEW e \in [Vars -> Words], env = e, mem \in [Words -> Words], Op \in Operations(Vars), Op.out # None,
         NEW popped \in Words
  PROVE  Result(Plain, Op, popped) \in Words
<1> DEFINE ins == Op.ins
           reads == ReadAll(Plain, Op)
<1>1. /\ ins \in Seq(Operands(Vars)) /\ Op.opcode \in Pure \cup {"Load", "Pop"}
      /\ Op.opcode \in {"Copy", "IntNot", "Load"} => Len(ins) = 1
      /\ Op.opcode \in {"IntAdd", "Store"} => Len(ins) = 2
  BY Arities
<1>2. \A k \in 1 .. Len(ins) : k \in DOMAIN ins /\ ins[k] \in Operands(Vars)
  BY <1>1
<1>3. \A k \in DOMAIN ins : reads[k] = Read(Plain, ins[k])
  BY DEF ReadAll
<1> HIDE DEF ins, reads
<1>4. \A k \in 1 .. Len(ins) : reads[k] \in Words
  BY <1>2, <1>3, ReadsBits
<1>5. CASE Op.opcode = "Pop"
  BY <1>5 DEF Result
<1>6. CASE Op.opcode = "Load"
  <2>0. Len(ins) = 1
    BY <1>1, <1>6
  <2>1. 1 \in 1 .. Len(ins)
    BY <2>0
  <2>2. mem[reads[1]] \in Words
    BY <1>4, <2>1
  <2> QED
    BY <1>6, <2>2 DEF Result, reads
<1>7. CASE Op.opcode = "Copy"
  <2>0. Len(ins) = 1
    BY <1>1, <1>7
  <2>1. 1 \in 1 .. Len(ins)
    BY <2>0
  <2> QED
    BY <1>4, <1>7, <2>1 DEF Result, Compute, reads
<1>8. CASE Op.opcode = "IntNot"
  <2>0. Len(ins) = 1
    BY <1>1, <1>8
  <2>1. 1 \in 1 .. Len(ins)
    BY <2>0
  <2>2. 3 - reads[1] \in Words
    BY <1>4, <2>1 DEF Words
  <2> QED
    BY <1>8, <2>2 DEF Result, Compute, reads
<1>9. CASE Op.opcode = "IntAdd"
  <2>0. Len(ins) = 2
    BY <1>1, <1>9
  <2>1. 1 \in 1 .. Len(ins) /\ 2 \in 1 .. Len(ins)
    BY <2>0
  <2>2. reads[1] \in Words /\ reads[2] \in Words
    BY <1>4, <2>1
  <2>3. (reads[1] + reads[2]) % 4 \in Words
    BY <2>2 DEF Words
  <2> QED
    BY <1>9, <2>3 DEF Result, Compute, reads
<1> QED
  BY <1>1, <1>5, <1>6, <1>7, <1>8, <1>9 DEF Pure

\* The variables and the memory keep their shape.
LEMMA NextBits ==
  ASSUME env \in [Vars -> Words], mem \in [Words -> Words], Op \in Operations(Vars), NEW popped \in Words
  PROVE  NextEnv(popped) \in [Vars -> Words]
<1> DEFINE o == Op.out
           r == Result(Plain, Op, popped)
           e == env
<1>1. o # None => r \in Words
  BY ResultBit
<1>2. NextEnv(popped) = IF o = None THEN e ELSE [e EXCEPT ![o] = r]
  <2>1. o \in Vars \cup {None}
    BY DEF Operations
  <2>2. Key(o) = o /\ Cut(o, r) = r
    BY <2>1, FullWidth
  <2> HIDE DEF r
  <2> QED
    BY <2>2 DEF NextEnv, r
<1>3. e \in [Vars -> Words]
  OBVIOUS
<1> HIDE DEF o, r, e
<1> QED
  BY <1>1, <1>2, <1>3

\* What the step does to the memory is what the operation of the SSA form does.
MemoryAfter ==
  CASE Op.opcode = "Store" -> {[mem EXCEPT ![Read(Plain, Op.ins[1])] = Stored(@, Op.ins[2])]}
    [] Op.opcode = "Call"  -> Memories
    [] OTHER -> {mem}

\* It does.
LEMMA StepEffect ==
  ASSUME IsGiven(code), AtSame(code, cfg, ssa, at, env, vals), env \in [Vars -> Words], mem \in [Words -> Words],
         NEW after \in MemoryAfter
  PROVE  after \in [Words -> Words] /\ Effect(OpAt(ssa, Now), vals, mem, after)
<1> DEFINE old == OpAt(ssa, Now)
           ins == Op.ins
           place == Read(Plain, Op.ins[1])
           value == Read(Plain, Op.ins[2])
           m == mem
<1>1. /\ Formed(cfg, BlocksOf(code), ssa) /\ Now \in OpPoints(cfg, ssa)
      /\ Op \in Operations(Vars) /\ old.opcode = Op.opcode
      /\ ReadAll(vals, old) = ReadAll(Plain, Op)
  BY WhereItIs DEF Fellow
<1>2. m \in [Words -> Words]
  OBVIOUS
<1>3. CASE Op.opcode = "Store"
  <2>1. ins \in Seq(Operands(Vars)) /\ Len(ins) = 2
    <3> HIDE DEF ins
    <3> QED
      BY <1>1, <1>3, Arities DEF ins
  <2>2. ins[1] \in Operands(Vars) /\ ins[2] \in Operands(Vars) /\ 1 \in DOMAIN ins /\ 2 \in DOMAIN ins
    BY <2>1
  <2>3. place \in Words /\ value \in Words
    BY <2>2, ReadsBits
  <2>8. \A cell : Stored(cell, Op.ins[2]) = value
    <3>1. ins[2][1] \notin Parts
      BY <2>2, NamesAssumption DEF Operands
    <3> QED
      BY <3>1 DEF Stored
  <2>4. after = [m EXCEPT ![place] = value]
    <3>1. after = [m EXCEPT ![place] = Stored(@, Op.ins[2])]
      BY <1>3 DEF MemoryAfter
    <3> HIDE DEF place, value, m
    <3> QED
      BY <2>8, <3>1
  <2>5. DOMAIN old.ins = 1 .. 2
    <3>1. OpFormed(cfg, ssa, Now, old)
      BY <1>1 DEF Formed
    <3> QED
      BY <1>1, <1>3, <3>1 DEF OpFormed, Arity
  <2>6. Read(vals, old.ins[1]) = place /\ Read(vals, old.ins[2]) = value
    <3>1. /\ ReadAll(vals, old)[1] = Read(vals, old.ins[1]) /\ ReadAll(vals, old)[2] = Read(vals, old.ins[2])
      BY <2>5 DEF ReadAll
    <3>2. ReadAll(Plain, Op)[1] = place /\ ReadAll(Plain, Op)[2] = value
      BY <2>2 DEF ReadAll
    <3> QED
      BY <1>1, <3>1, <3>2
  <2> HIDE DEF place, value, m, old
  <2>7. after \in [Words -> Words] /\ after[place] = value
    BY <1>2, <2>3, <2>4
  <2> QED
    BY <1>1, <1>3, <2>6, <2>7 DEF Effect, LoadBarriers, old
<1>4. CASE Op.opcode = "Call"
  BY <1>1, <1>4, MemoriesAssumption DEF Effect, LoadBarriers, MemoryAfter
<1>5. CASE Op.opcode # "Store" /\ Op.opcode # "Call"
  <2>1. after = mem
    BY <1>5 DEF MemoryAfter
  <2> QED
    BY <1>1, <1>5, <2>1 DEF Effect
<1> QED
  BY <1>3, <1>4, <1>5

\* At the call nothing is defined yet but what comes from outside.
LEMMA EqualAtCall ==
  ASSUME NEW g, NEW n, IsGraph(g, n), NEW fn, Formed(g, n, fn), NEW form, NEW values, NEW memory,
         Sized(values, fn.versions)
  PROVE  EqualAt(g, fn, form, Inside(EntryBlock), values, values, memory)
<1> DEFINE p == Inside(EntryBlock)
           E == Equations(g, fn)
<1>1. p[1] = EntryBlock /\ p[2] = 1
  BY DEF Inside
<1>2. Numbered(fn, Reached(g))
  BY DEF Formed
<1> HIDE DEF p
<1>3. ASSUME NEW e \in E
      PROVE  e[1] \notin Available(g, fn, p)
  <2> DEFINE x == e[1]
             t == e[2]
  <2>1. e = <<x, t>>
    <3>1. e \in Pairs
      BY EquationsJustified
    <3> HIDE DEF E
    <3> QED
      BY <3>1 DEF Pairs
  <2>2. <<x, t>> \in Equations(g, fn)
    BY <2>1
  <2> HIDE DEF x, t, E
  <2>3. x \in Values
    BY <2>2, EquationAt
  <2>4. PICK q \in OpPoints(g, fn) : OpAt(fn, q).out = x
    BY <2>2, EquationAt
  <2>5. q \in Points(g) /\ DefinedAt(fn, q[1], q[2], x)
    BY <2>4, OpDefines
  <2>6. ~Earlier(g, q, p)
    <3>1. q[1] \in Reached(g) /\ q[2] \in DOMAIN fn.ops[q[1]]
      BY DEF OpPoints, Points
    <3>2. Len(g.ops[q[1]]) \in Nat /\ q[2] \in 1 .. Len(g.ops[q[1]])
      BY <3>1 DEF Formed
    <3>3. ~(q[2] < 1)
      BY <3>2
    <3>4. Dominates(g, q[1], EntryBlock) => q[1] = EntryBlock
      BY DominatesEntry
    <3> QED
      BY <1>1, <3>3, <3>4 DEF Earlier
  <2>7. x \notin Available(g, fn, p)
    BY <1>2, <2>3, <2>5, <2>6, DefinedEarlier
  <2> QED
    BY <2>7 DEF x
<1>4. Holds(g, fn, E, values, p)
  BY <1>3 DEF Holds
<1>5. Memory(fn, values, memory, p)
  BY <1>1 DEF Memory, LastBarrier
<1>6. SameUsed(g, fn, form, p, values, values)
  BY DEF SameUsed
<1> QED
  BY <1>4, <1>5, <1>6 DEF EqualAt, p

\* The invariant: where an execution is the SSA form and what the passes left of
\* it are equal.
RunsEqual ==
  /\ RunsSame
  /\ at # None =>
       /\ at = Now /\ opt = Optimized(ssa) /\ env \in [Vars -> Words] /\ mem \in [Words -> Words]
       /\ EqualAt(cfg, ssa, opt, at, vals, optvals, mem)

\* A call.
LEMMA EqualCalled ==
  ASSUME RunsSame', Lift
  PROVE  RunsEqual'
<1> DEFINE g == cfg'
           s == ssa'
           o == opt'
           e == env'
           values == vals'
           n == BlocksOf(code')
           p == Inside(EntryBlock)
<1>1. /\ at' = p /\ p = <<p[1], p[2]>> /\ p # None
      /\ o = Optimized(s) /\ e \in [Vars -> Words] /\ mem' = [a \in Words |-> 0]
      /\ optvals' = values
  BY StartAssumption, NamesAssumption DEF Lift, Inside, EntryBlock
<1>2. mem' \in [Words -> Words]
  BY <1>1 DEF Words
<1>3. IsGiven(code') /\ AtSame(code', g, s, at', e, values)
  BY <1>1 DEF RunsSame
<1>4. IsGraph(g, n) /\ Formed(g, n, s) /\ Sized(values, s.versions)
  <2>1. PICK cur : /\ IsRenaming(g, n, Dominators(g), PhiPlacement(g, Vars), s, cur)
                   /\ Agree(values, s.versions, cur[at'[1]][at'[2]], e)
    BY <1>3 DEF AtSame
  <2>2. IsGraph(g, n) /\ OpsTyped(g, n)
    BY <1>3, GraphOf DEF AtSame
  <2>3. Sized(values, s.versions)
    BY <2>1 DEF Agree, Sized
  <2> HIDE DEF g, s, n, e, values
  <2>4. Formed(g, n, s)
    BY <2>1, <2>2, RenamingFormed
  <2> QED
    BY <2>2, <2>3, <2>4
<1> HIDE DEF g, s, o, e, values, n, p
<1>5. EqualAt(g, s, o, p, values, values, mem')
  BY <1>4, EqualAtCall DEF p
<1>6. at' = <<at'[1], at'[2]>>
  BY <1>1
<1> QED
  BY <1>1, <1>2, <1>5, <1>6 DEF RunsEqual, Now, g, s, o, e, values

\* A step of an execution.
LEMMA RunsEqualStep ==
  ASSUME RunsEqual, [Next]_vars
  PROVE  RunsEqual'
<1>0. RunsSame'
  BY RunsSameStep DEF RunsEqual
<1>1. CASE Lift
  BY <1>0, <1>1, EqualCalled
<1>2. CASE Execute
  <2> DEFINE n == BlocksOf(code)
             b == at[1]
             i == at[2]
             after == mem'
  <2>1. /\ at # None /\ IsGiven(code) /\ AtSame(code, cfg, ssa, at, env, vals)
        /\ opt = Optimized(ssa) /\ env \in [Vars -> Words] /\ mem \in [Words -> Words]
        /\ EqualAt(cfg, ssa, opt, Now, vals, optvals, mem)
    BY <1>2 DEF Execute, RunsEqual, RunsSame
  <2>2. code' = code /\ cfg' = cfg /\ ssa' = ssa /\ opt' = opt
    BY <1>2 DEF Execute, forms
  <2>3. PICK popped \in Words :
          /\ env' = NextEnv(popped)
          /\ \/ /\ at' = IF Leaves THEN None ELSE <<at[1], at[2] + 1>>
                /\ Leaves \/ at[2] < Len(cfg.ops[at[1]])
                /\ vals' = Written(vals, ssa, popped)
                /\ optvals' = Written(optvals, opt, popped)
             \/ /\ at[2] = Len(cfg.ops[at[1]])
                /\ \E c \in ToSet(cfg.succ[at[1]]) :
                     /\ at' = <<c, 1>>
                     /\ vals' = Entered(Written(vals, ssa, popped), ssa, at[1], c)
                     /\ optvals' = Entered(Written(optvals, opt, popped), opt, at[1], c)
    <3>1. (IF Op.opcode = "Pop" THEN Words ELSE {0}) \subseteq Words
      BY DEF Words
    <3> QED
      BY <1>2, <3>1, Zenon DEF Execute, NextEnv
  <2>4. after \in MemoryAfter
    BY <1>2, Zenon DEF Execute, MemoryAfter
  <2>5. after \in [Words -> Words] /\ Effect(OpAt(ssa, Now), vals, mem, after)
    BY <2>1, <2>4, StepEffect
  <2>6. /\ IsGraph(cfg, n) /\ Formed(cfg, n, ssa) /\ Now \in OpPoints(cfg, ssa) /\ Op \in Operations(Vars)
        /\ Now[1] = b /\ Now[2] = i /\ b \in Reached(cfg) /\ i \in Nat
    <3>1. /\ IsGraph(cfg, n) /\ Formed(cfg, n, ssa) /\ Now \in OpPoints(cfg, ssa) /\ Op \in Operations(Vars)
      BY <2>1, WhereItIs DEF Fellow
    <3>2. Now[1] = b /\ Now[2] = i
      BY DEF Now
    <3>3. Now[1] \in Reached(cfg) /\ Now[2] \in Nat
      BY <3>1 DEF OpPoints, Points
    <3> QED
      BY <3>1, <3>2, <3>3
  <2>7. env' \in [Vars -> Words]
    BY <2>1, <2>3, <2>6, NextBits
  <2> DEFINE w == Written(vals, ssa, popped)
             u == Written(optvals, opt, popped)
  <2>8. ASSUME NEW q \in Points(cfg), JustPast(Now, q)
        PROVE  EqualAt(cfg, ssa, opt, q, w, u, after) /\ Reduces(cfg, ssa, opt)
    <3> HIDE DEF after
    <3> QED
      BY <2>1, <2>5, <2>8, EqualPast
  <2>9. CASE /\ at' = IF Leaves THEN None ELSE <<at[1], at[2] + 1>>
             /\ Leaves \/ at[2] < Len(cfg.ops[at[1]])
             /\ vals' = Written(vals, ssa, popped)
             /\ optvals' = Written(optvals, opt, popped)
    <3>1. CASE Leaves
      BY <1>0, <2>9, <3>1 DEF RunsEqual
    <3>2. CASE ~Leaves
      <4> DEFINE q == <<b, i + 1>>
      <4>1. at' = q /\ q[1] = b /\ q[2] = i + 1
        BY <2>9, <3>2
      <4>2. i + 1 \in Nat
        BY <2>6
      <4>3. q \in Points(cfg) /\ JustPast(Now, q)
        BY <2>6, <4>2 DEF Points, JustPast
      <4> HIDE DEF q, w, u, after, b, i
      <4>4. EqualAt(cfg, ssa, opt, q, w, u, after)
        BY <2>8, <4>3
      <4>5. at' = <<at'[1], at'[2]>>
        BY <4>1 DEF q
      <4> QED
        BY <1>0, <2>1, <2>2, <2>5, <2>7, <2>9, <4>1, <4>4, <4>5 DEF RunsEqual, Now, w, u, after
    <3> QED
      BY <3>1, <3>2
  <2>10. CASE /\ at[2] = Len(cfg.ops[at[1]])
              /\ \E c \in ToSet(cfg.succ[at[1]]) :
                   /\ at' = <<c, 1>>
                   /\ vals' = Entered(Written(vals, ssa, popped), ssa, at[1], c)
                   /\ optvals' = Entered(Written(optvals, opt, popped), opt, at[1], c)
    <3>1. PICK c \in ToSet(cfg.succ[b]) :
                   /\ at' = Inside(c)
                   /\ vals' = Entered(w, ssa, b, c)
                   /\ optvals' = Entered(u, opt, b, c)
      BY <2>10 DEF Inside
    <3>2. End(cfg, b) \in Points(cfg) /\ JustPast(Now, End(cfg, b))
      <4>1. End(cfg, b)[1] = b /\ End(cfg, b)[2] = i + 1
        BY <2>10 DEF End
      <4>2. End(cfg, b) \in Points(cfg)
        BY <2>6, <3>1, WayIn
      <4> QED
        BY <2>6, <4>1, <4>2 DEF JustPast
    <3> HIDE DEF w, u, after, b, i, n
    <3>3. EqualAt(cfg, ssa, opt, End(cfg, b), w, u, after) /\ Reduces(cfg, ssa, opt)
      BY <2>8, <3>2
    <3>4. EqualAt(cfg, ssa, opt, Inside(c), Entered(w, ssa, b, c), Entered(u, opt, b, c), after)
      BY <2>6, <3>1, <3>3, EqualAcross
    <3>5. at' = <<at'[1], at'[2]>>
      BY <3>1 DEF Inside
    <3> QED
      BY <1>0, <2>1, <2>2, <2>5, <2>7, <3>1, <3>4, <3>5 DEF RunsEqual, Now, after
  <2> QED
    BY <2>3, <2>9, <2>10
<1>3. CASE UNCHANGED vars
  <2>1. /\ code' = code /\ cfg' = cfg /\ ssa' = ssa /\ opt' = opt /\ at' = at /\ env' = env
        /\ vals' = vals /\ optvals' = optvals /\ mem' = mem
    BY <1>3 DEF vars, forms, run
  <2> QED
    BY <1>0, <2>1 DEF RunsEqual, Now
<1> QED
  BY <1>1, <1>2, <1>3 DEF Next

\* OptimizedAgrees: in a function of one width with no way back to its entry what the passes
\* leave of an operation yields what the operation of the function yields, and
\* what has an effect or is returned is left, whatever path was taken and
\* whatever the memory holds.
THEOREM OptimizedFormAgrees == NoWayBack => (Spec => []OptimizedAgrees)
<1> SUFFICES ASSUME NoWayBack
             PROVE  Spec => []OptimizedAgrees
  OBVIOUS
<1>1. Init /\ OneWidth(code) => RunsEqual
  BY DEF Init, RunsEqual, RunsSame, IsGiven, NoWayBack
<1>3. OneWidth(code)' /\ [Next]_vars => OneWidth(code)
  BY CodeStays
<1>4. ~OneWidth(code) => OptimizedAgrees
  BY DEF OptimizedAgrees
<1>2. RunsEqual => OptimizedAgrees
  <2> SUFFICES ASSUME RunsEqual, at # None
               PROVE  OptimizedAgrees
    BY DEF OptimizedAgrees
  <2> DEFINE n == BlocksOf(code)
             old == OpAt(ssa, Now)
  <2>1. /\ IsGiven(code) /\ AtSame(code, cfg, ssa, at, env, vals) /\ opt = Optimized(ssa)
        /\ EqualAt(cfg, ssa, opt, Now, vals, optvals, mem)
    BY DEF RunsEqual, RunsSame
  <2>2. /\ IsGraph(cfg, n) /\ Formed(cfg, n, ssa) /\ Now \in OpPoints(cfg, ssa)
        /\ Fellow(Op, old) /\ ReadAll(vals, old) = ReadAll(Plain, Op)
    BY <2>1, WhereItIs
  <2>3. Reduces(cfg, ssa, opt)
    BY <2>1, <2>2, OptimizedReduces
  <2>4. Here(opt, Now) = OpIn(opt)
    BY DEF Here, OpIn, Now
  <2> HIDE DEF n
  <2>5. ASSUME NEW op \in OpIn(opt)
        PROVE  IF op.out = None THEN ReadAll(optvals, op) = ReadAll(Plain, Op)
               ELSE \A popped \in Words : Result(optvals, op, popped) = Result(Plain, Op, popped)
    <3>1. op \in Here(opt, Now)
      BY <2>4
    <3>2. op.out = None => ReadAll(optvals, op) = ReadAll(vals, old)
      BY <2>1, <2>2, <2>3, <3>1, LeftYields
    <3>3. ASSUME NEW popped \in Words
          PROVE  Result(optvals, op, popped) = Result(Plain, Op, popped)
      <4>1. Yields(op, optvals, mem, popped) = Yields(old, vals, mem, popped)
        BY <2>1, <2>2, <2>3, <3>1, LeftYields
      <4>2. Result(vals, old, popped) = Result(Plain, Op, popped)
        BY <2>2, SameResult DEF Fellow
      <4> QED
        BY <4>1, <4>2, ResultYields
    <3> QED
      BY <2>2, <3>2, <3>3
  <2>6. Op.opcode \notin Pure \cup {"Load"} \/ Op.out \in ReturnVars => OpIn(opt) # {}
    <3> SUFFICES ASSUME Op.opcode \notin Pure \cup {"Load"} \/ Op.out \in ReturnVars
                 PROVE  OpIn(opt) # {}
      OBVIOUS
    <3>1. Matters(old)
      <4>1. CASE Op.opcode \notin Pure \cup {"Load"}
        BY <2>2, <4>1 DEF Matters, Fellow
      <4>2. CASE Op.opcode \in Pure \cup {"Load"} /\ Op.out \in ReturnVars
        <5>1. Op.out # None
          BY <2>2, <4>2 DEF Fellow, Operations
        <5>2. old.out \in Values /\ old.out[1] = Op.out
          BY <2>2, <5>1 DEF Fellow
        <5>3. old.out # None
          BY <5>2, ValuesNotConsts
        <5>4. Key(old.out[1]) = Op.out
          BY <5>2, FullWidth DEF Values
        <5> QED
          BY <4>2, <5>3, <5>4 DEF Matters
      <4> QED
        BY <4>1, <4>2
    <3>2. LeftAt(opt, Now[1], Now[2])
      <4> DEFINE c == Now[1]
                 k == Now[2]
      <4>1. c \in Reached(cfg) /\ k \in DOMAIN ssa.ops[c]
        BY <2>2 DEF OpPoints, Points
      <4>2. c \in DOMAIN ssa.ops
        <5>1. Reached(cfg) \subseteq 1 .. n
          BY <2>2, ClosureSpec DEF Reached
        <5> QED
          BY <2>2, <4>1, <5>1 DEF Formed
      <4>3. old = ssa.ops[c][k]
        BY DEF OpAt
      <4> HIDE DEF c, k, old
      <4>4. LeftAt(opt, c, k)
        BY <2>3, <3>1, <4>1, <4>2, <4>3 DEF Reduces, MattersLeft
      <4> QED
        BY <4>4 DEF c, k
    <3> QED
      BY <2>4, <3>2 DEF LeftAt, Here
  <2> QED
    BY <2>5, <2>6 DEF OptimizedAgrees
<1> QED
  BY <1>1, <1>2, <1>3, <1>4, RunsEqualStep, PTL DEF Spec
=============================================================================

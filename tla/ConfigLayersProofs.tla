-------------------------- MODULE ConfigLayersProofs --------------------------
(***************************************************************************)
(* What the layering of configurations and the warnings compute, for any    *)
(* keys, values and models, and tables of any depth.                        *)
(*                                                                         *)
(* A recursive function is what its equation says only if the equation has  *)
(* a solution: Recursion finds one level by level of the tables.            *)
(***************************************************************************)
EXTENDS ConfigLayers, FiniteSetTheorems, SequenceTheorems, WellFoundedInduction, TLAPS

------------------------------------------------------------------------------
(* Induction and recursion.                                                 *)

\* A nonempty set of subsets of a finite set has a smallest one.
LEMMA Smallest ==
    ASSUME NEW S, IsFiniteSet(S), NEW M, M \subseteq SUBSET S, M # {}
    PROVE  \E T \in M : \A U \in M : U \subseteq T => U = T
<1>1. IsWellFoundedOn(StrictSubsetOrdering(S), FiniteSubsetsOf(S))
  BY FS_StrictSubsetOrderingWellFounded
<1>2. M \subseteq FiniteSubsetsOf(S)  BY FS_FiniteSubsetsOfFinite
<1>3. \E T \in M : \A U \in M : ~ (<<U, T>> \in StrictSubsetOrdering(S))
  BY <1>1, <1>2, WFMin
<1> QED  BY <1>3 DEF StrictSubsetOrdering

\* Induction up to N, for what is said by a set of numbers.
LEMMA UpTo ==
    ASSUME NEW N \in Nat, NEW T, 0 \in T, \A n \in 1..N : n - 1 \in T => n \in T
    PROVE  0..N \subseteq T
<1> DEFINE Rest == {n \in 0..N : n \notin T}
           M == {0..n : n \in Rest}
<1> SUFFICES ASSUME Rest # {} PROVE FALSE  OBVIOUS
<1>1. M \subseteq SUBSET (0..N) /\ M # {}
  <2>1. \A n \in Rest : n \in 0..N /\ 0..n \subseteq 0..N  OBVIOUS
  <2>2. \A n \in Rest : 0..n \in SUBSET (0..N)  BY <2>1
  <2> QED  BY <2>2
<1>2. IsFiniteSet(0..N)  BY FS_Interval
<1>3. PICK I \in M : \A J \in M : J \subseteq I => J = I
  <2>1. PICK K : K = M  OBVIOUS
  <2>2. PICK R : R = 0..N  OBVIOUS
  <2>3. K \subseteq SUBSET R /\ K # {} /\ IsFiniteSet(R)  BY <1>1, <1>2, <2>1, <2>2
  <2>4. \E I \in K : \A J \in K : J \subseteq I => J = I  BY ONLY <2>3, Smallest
  <2> QED  BY <2>1, <2>4
<1>4. PICK n \in Rest : I = 0..n  OBVIOUS
<1>5. n # 0 /\ n \in 0..N  OBVIOUS
<1>6. n \in 1..N /\ n - 1 \in 0..N  BY <1>5
<1>7. n - 1 \in Rest  BY <1>6
<1>8. 0..(n - 1) \in M /\ 0..(n - 1) \subseteq I /\ n \in I /\ n \notin 0..(n - 1)  BY <1>4, <1>6, <1>7
<1> QED  BY <1>3, <1>8

\* D[<<f, s>>], the right-hand side of an equation for f[s], has s in one of N levels and looks
\* at what f is on the level below only.
ByLevels(N, L, S, V, D) ==
    /\ L[0] = {} /\ L[N] = S /\ \A n \in 1..N : L[n] \subseteq S
    /\ D \in [[S -> V] \X S -> V]
    /\ \A n \in 1..N : \A g, h \in [S -> V] : \A s \in L[n] :
           (\A t \in L[n - 1] : g[t] = h[t]) => D[<<g, s>>] = D[<<h, s>>]

Solvable(S, V, D) == \E f \in [S -> V] : \A s \in S : f[s] = D[<<f, s>>]

\* Such an equation has a solution.
LEMMA Recursion ==
    ASSUME NEW N \in Nat, NEW L, NEW S, NEW V, NEW v \in V, NEW D, ByLevels(N, L, S, V, D)
    PROVE  Solvable(S, V, D)
<1> DEFINE Solves(f, n) == \A s \in L[n] : f[s] = D[<<f, s>>]
           T == {n \in 0..N : \E f \in [S -> V] : Solves(f, n)}
<1>1. 0 \in T
  <2>1. PICK c : c = [s \in S |-> v]  OBVIOUS
  <2>2. c \in [S -> V] /\ Solves(c, 0)  BY <2>1 DEF ByLevels
  <2>3. 0 \in 0..N  OBVIOUS
  <2> HIDE DEF Solves
  <2> QED  BY <2>2, <2>3
<1>2. ASSUME NEW n \in 1..N, n - 1 \in T PROVE n \in T
  <2>1. PICK f \in [S -> V] : Solves(f, n - 1)  BY <1>2
  <2> DEFINE g == [s \in S |-> D[<<f, s>>]]
  <2>2. g \in [S -> V]  BY DEF ByLevels
  <2>3. L[n] \subseteq S /\ L[n - 1] \subseteq S
    <3>1. n - 1 = 0 \/ n - 1 \in 1..N  OBVIOUS
    <3> QED  BY <3>1 DEF ByLevels
  <2>4. \A s \in L[n - 1] : g[s] = f[s]  BY <2>1, <2>3
  <2>5. \A s \in L[n] : D[<<g, s>>] = D[<<f, s>>]
    <3> HIDE DEF g
    <3> SUFFICES ASSUME NEW s \in L[n] PROVE D[<<g, s>>] = D[<<f, s>>]  OBVIOUS
    <3>1. \A G, H \in [S -> V] : \A r \in L[n] :
              (\A t \in L[n - 1] : G[t] = H[t]) => D[<<G, r>>] = D[<<H, r>>]
      BY DEF ByLevels
    <3>2. (\A t \in L[n - 1] : g[t] = f[t]) => D[<<g, s>>] = D[<<f, s>>]
      BY ONLY <2>2, f \in [S -> V], s \in L[n], <3>1
    <3> QED  BY <2>4, <3>2
  <2>6. Solves(g, n)  BY <2>3, <2>5
  <2>7. n \in 0..N  OBVIOUS
  <2> HIDE DEF g, Solves
  <2> QED  BY <2>2, <2>6, <2>7
<1>3. 0..N \subseteq T
  <2> HIDE DEF T
  <2> QED  BY <1>1, <1>2, UpTo
<1>4. \E f \in [S -> V] : Solves(f, N)
  <2>1. N \in T  BY <1>3
  <2> QED  BY <2>1
<1> QED  BY <1>4 DEF ByLevels, Solvable

------------------------------------------------------------------------------
(* The levels of the tables.                                                *)

Tier(below) == [Keys -> {Nothing} \cup [leaf : Values] \cup [table : below]]

LEMMA LevelsEquation ==
    Levels = [n \in 0..Depth |-> IF n = 0 THEN {} ELSE Tier(Levels[n - 1])]
<1> DEFINE Solves(g, n) == g = [m \in 0..n |-> IF m = 0 THEN {} ELSE Tier(g[m - 1])]
           T == {n \in 0..Depth : \E g : Solves(g, n)}
<1>0. Depth \in Nat  BY ConfigAssumption
<1>1. 0 \in T
  <2> DEFINE g == [m \in 0..0 |-> {}]
  <2>1. g = [m \in 0..0 |-> IF m = 0 THEN {} ELSE Tier(g[m - 1])]  OBVIOUS
  <2>2. Solves(g, 0)
    <3> HIDE DEF g
    <3> QED  BY <2>1
  <2>3. 0 \in 0..Depth  BY <1>0
  <2> HIDE DEF g, Solves
  <2> QED  BY <2>2, <2>3
<1>2. ASSUME NEW n \in 1..Depth, n - 1 \in T PROVE n \in T
  <2>1. PICK g : Solves(g, n - 1)  BY <1>2
  <2> DEFINE h == [m \in 0..n |-> IF m = n THEN Tier(g[n - 1]) ELSE g[m]]
  <2>2. ASSUME NEW m \in 0..n PROVE h[m] = IF m = 0 THEN {} ELSE Tier(h[m - 1])
    <3>1. CASE m = 0
      <4>1. g[0] = {}  BY <1>0, <2>1
      <4> QED  BY <1>0, <3>1, <4>1
    <3>2. CASE m = n
      <4>1. m - 1 \in 0..n /\ m - 1 # n  BY <1>0, <3>2
      <4>2. h[m - 1] = g[n - 1]  BY <3>2, <4>1
      <4> QED  BY <1>0, <3>2, <4>2
    <3>3. CASE m # 0 /\ m # n
      <4>1. m \in 0..(n - 1) /\ m - 1 \in 0..n /\ m - 1 # n  BY <1>0, <3>3
      <4>2. g[m] = Tier(g[m - 1])  BY <2>1, <3>3, <4>1
      <4>3. h[m - 1] = g[m - 1]  BY <4>1
      <4> QED  BY <3>3, <4>2, <4>3
    <3> QED  BY <3>1, <3>2, <3>3
  <2>3. Solves(h, n)
    <3>1. h = [m \in 0..n |-> h[m]]  OBVIOUS
    <3> HIDE DEF h
    <3>2. h = [m \in 0..n |-> IF m = 0 THEN {} ELSE Tier(h[m - 1])]  BY <2>2, <3>1
    <3> QED  BY <3>2
  <2>4. n \in 0..Depth  BY <1>0
  <2> HIDE DEF h, Solves
  <2> QED  BY <2>3, <2>4
<1>3. 0..Depth \subseteq T
  <2> HIDE DEF T
  <2> QED  BY <1>0, <1>1, <1>2, UpTo
<1>4. \E g : Solves(g, Depth)
  <2>1. Depth \in 0..Depth  BY <1>0
  <2>2. Depth \in T  BY ONLY <1>3, <2>1
  <2> HIDE DEF Solves
  <2> QED  BY <2>2
<1> QED  BY <1>4 DEF Levels, Tier

\* A level, and its place among the others.
LEMMA LevelIs ==
    /\ Depth \in Nat /\ Depth \in 1..Depth
    /\ \A n \in 1..Depth : n \in 0..Depth /\ n - 1 \in 0..Depth
    /\ Levels[0] = {}
    /\ \A n \in 1..Depth : Levels[n] = Tier(Levels[n - 1]) /\ Levels[n - 1] \subseteq Levels[n]
    /\ \A n \in 0..Depth : Levels[n] \subseteq Tables
<1>0. Depth \in Nat /\ Depth \in 1..Depth /\ \A n \in 1..Depth : n \in 0..Depth /\ n - 1 \in 0..Depth
  BY ConfigAssumption
<1>1. Levels[0] = {}  BY <1>0, LevelsEquation
<1>2. \A n \in 1..Depth : Levels[n] = Tier(Levels[n - 1])
  <2>1. \A n \in 1..Depth : n \in 0..Depth /\ n # 0  BY <1>0
  <2> QED  BY <2>1, LevelsEquation
<1>3. \A n \in 1..Depth : Levels[n - 1] \subseteq Levels[n]
  <2> DEFINE T == {n \in 0..Depth : n \in 1..Depth => Levels[n - 1] \subseteq Levels[n]}
  <2>1. 0 \in T  BY <1>0
  <2>2. ASSUME NEW n \in 1..Depth, n - 1 \in T PROVE n \in T
    <3>1. CASE n = 1  BY <1>0, <1>1, <3>1
    <3>2. CASE n # 1
      <4>1. n - 1 \in 1..Depth  BY <1>0, <3>2
      <4>2. Levels[n - 1 - 1] \subseteq Levels[n - 1]  BY <2>2, <4>1
      <4>3. Tier(Levels[n - 1 - 1]) \subseteq Tier(Levels[n - 1])
        <5>1. [table : Levels[n - 1 - 1]] \subseteq [table : Levels[n - 1]]  BY <4>2
        <5> QED  BY <5>1 DEF Tier
      <4>4. Levels[n - 1] \subseteq Levels[n]  BY <1>2, <4>1, <4>3
      <4> QED  BY <1>0, <4>4
    <3> QED  BY <3>1, <3>2
  <2>3. 0..Depth \subseteq T
    <3> HIDE DEF T
    <3> QED  BY <1>0, <2>1, <2>2, UpTo
  <2> QED  BY <1>0, <2>3
<1>4. \A n \in 0..Depth : Levels[n] \subseteq Tables
  <2> DEFINE T == {d \in 0..Depth : Levels[Depth - d] \subseteq Tables}
  <2>1. 0 \in T
    <3>1. Depth - 0 = Depth  BY <1>0
    <3> QED  BY <1>0, <3>1 DEF Tables
  <2>2. ASSUME NEW d \in 1..Depth, d - 1 \in T PROVE d \in T
    <3>1. PICK n \in 1..Depth : n = Depth - (d - 1)  BY <1>0
    <3>2. Levels[n] \subseteq Tables  BY <2>2, <3>1
    <3>3. Levels[n - 1] \subseteq Levels[n]  BY <1>3
    <3>4. n - 1 = Depth - d  BY <1>0, <3>1
    <3>5. Levels[Depth - d] \subseteq Tables  BY <3>2, <3>3, <3>4
    <3> QED  BY <1>0, <3>5
  <2>3. 0..Depth \subseteq T
    <3> HIDE DEF T
    <3> QED  BY <1>0, <2>1, <2>2, UpTo
  <2>4. \A n \in 0..Depth : Depth - n \in 0..Depth /\ Depth - (Depth - n) = n  BY <1>0
  <2>5. \A n \in 0..Depth : Levels[Depth - (Depth - n)] \subseteq Tables  BY <2>3, <2>4
  <2> QED  BY <2>4, <2>5
<1> QED  BY <1>0, <1>1, <1>2, <1>3, <1>4

\* What holds of the tables of every level, if it holds of those nested in them.
LEMMA TableInduction ==
    ASSUME NEW G, \A n \in 1..Depth : Levels[n - 1] \subseteq G => Levels[n] \subseteq G
    PROVE  Tables \subseteq G
<1> DEFINE T == {n \in 0..Depth : Levels[n] \subseteq G}
<1>1. 0 \in T  BY LevelIs
<1>2. \A n \in 1..Depth : n - 1 \in T => n \in T  BY LevelIs
<1>3. 0..Depth \subseteq T
  <2> HIDE DEF T
  <2> QED  BY <1>1, <1>2, LevelIs, UpTo
<1> QED  BY <1>3, LevelIs DEF Tables

\* What a table of level n holds under a key.
LEMMA NodeIs ==
    ASSUME NEW n \in 1..Depth, NEW t \in Levels[n], NEW k \in Keys
    PROVE  \/ t[k] = Nothing /\ ~IsTable(t[k])
           \/ t[k] \in [leaf : Values] /\ t[k] # Nothing /\ ~IsTable(t[k])
           \/ t[k] = Table(t[k].table) /\ t[k].table \in Levels[n - 1] /\ t[k] # Nothing /\ IsTable(t[k])
<1>1. t[k] \in {Nothing} \cup [leaf : Values] \cup [table : Levels[n - 1]]  BY LevelIs DEF Tier
<1>2. ~IsTable(Nothing)  BY DEF Nothing, IsTable
<1>3. ASSUME NEW x \in [leaf : Values] PROVE x # Nothing /\ ~IsTable(x)
  BY <1>3 DEF Nothing, IsTable
<1>4. ASSUME NEW x \in [table : Levels[n - 1]]
      PROVE  x = Table(x.table) /\ x.table \in Levels[n - 1] /\ x # Nothing /\ IsTable(x)
  BY <1>4 DEF Nothing, IsTable, Table
<1> QED  BY <1>1, <1>2, <1>3, <1>4

\* The same of any table.
LEMMA TableIs ==
    ASSUME NEW t \in Tables, NEW k \in Keys
    PROVE  \/ t[k] = Nothing /\ ~IsTable(t[k])
           \/ t[k] \in [leaf : Values] /\ t[k] # Nothing /\ ~IsTable(t[k])
           \/ t[k] = Table(t[k].table) /\ t[k].table \in Tables /\ t[k] # Nothing /\ IsTable(t[k])
<1>1. t \in Levels[Depth]  BY DEF Tables
<1>2. Levels[Depth - 1] \subseteq Tables  BY LevelIs
<1> QED  BY <1>1, <1>2, LevelIs, NodeIs

LEMMA EmptyTable == [k \in Keys |-> Nothing] \in Tables
<1>1. [k \in Keys |-> Nothing] \in Tier(Levels[Depth - 1])  BY DEF Tier
<1> QED  BY <1>1, LevelIs DEF Tables

------------------------------------------------------------------------------
(* Merging.                                                                 *)

MergeStep(f, both) ==
    [k \in Keys |->
        IF IsTable(both[1][k]) /\ IsTable(both[2][k])
        THEN Table(f[<<both[1][k].table, both[2][k].table>>])
        ELSE IF both[2][k] # Nothing THEN both[2][k] ELSE both[1][k]]

\* Two tables of a level are merged into one of that level, if the merges below are.
LEMMA MergeStepIs ==
    ASSUME NEW n \in 1..Depth, NEW b \in Levels[n], NEW o \in Levels[n], NEW f,
           \A x, y \in Levels[n - 1] : f[<<x, y>>] \in Levels[n - 1]
    PROVE  MergeStep(f, <<b, o>>) \in Levels[n]
<1> DEFINE m == MergeStep(f, <<b, o>>)
<1>1. PICK X : X = {Nothing} \cup [leaf : Values] \cup [table : Levels[n - 1]]  OBVIOUS
<1>2. ASSUME NEW k \in Keys PROVE m[k] \in X
  <2>1. \A t \in Levels[n] : t[k] \in X  BY <1>1, LevelIs DEF Tier
  <2>2. CASE IsTable(b[k]) /\ IsTable(o[k])
    <3>1. b[k].table \in Levels[n - 1] /\ o[k].table \in Levels[n - 1]  BY <2>2, NodeIs
    <3>2. Table(f[<<b[k].table, o[k].table>>]) \in [table : Levels[n - 1]]  BY <3>1 DEF Table
    <3>3. m[k] = Table(f[<<b[k].table, o[k].table>>])  BY <2>2 DEF MergeStep
    <3> QED  BY <1>1, <3>2, <3>3
  <2>3. CASE ~(IsTable(b[k]) /\ IsTable(o[k]))
    <3>1. m[k] \in {b[k], o[k]}  BY <2>3 DEF MergeStep
    <3> QED  BY <2>1, <3>1
  <2> QED  BY <2>2, <2>3
<1>3. m = [k \in Keys |-> m[k]]  BY DEF MergeStep
<1>4. m \in [Keys -> X]
  <2> HIDE DEF m
  <2> QED  BY <1>2, <1>3
<1> QED  BY <1>1, <1>4, LevelIs DEF Tier

\* What is MergeStep wherever that is a table is so everywhere.
LEMMA MergeLevels ==
    ASSUME NEW f,
           \A s \in Tables \X Tables : MergeStep(f, s) \in Tables => f[s] = MergeStep(f, s)
    PROVE  \A b, o \in Tables : f[<<b, o>>] \in Tables /\ f[<<b, o>>] = MergeStep(f, <<b, o>>)
<1> DEFINE T == {n \in 0..Depth : \A x, y \in Levels[n] :
                     f[<<x, y>>] \in Levels[n] /\ f[<<x, y>>] = MergeStep(f, <<x, y>>)}
<1>1. 0 \in T  BY LevelIs
<1>2. ASSUME NEW n \in 1..Depth, n - 1 \in T PROVE n \in T
  <2>1. \A x, y \in Levels[n - 1] : f[<<x, y>>] \in Levels[n - 1]  BY <1>2
  <2>2. ASSUME NEW x \in Levels[n], NEW y \in Levels[n]
        PROVE  f[<<x, y>>] \in Levels[n] /\ f[<<x, y>>] = MergeStep(f, <<x, y>>)
    <3>1. MergeStep(f, <<x, y>>) \in Levels[n]  BY <2>1, MergeStepIs
    <3>2. <<x, y>> \in Tables \X Tables /\ MergeStep(f, <<x, y>>) \in Tables  BY <3>1, LevelIs
    <3> QED  BY <3>1, <3>2
  <2> QED  BY <2>2, LevelIs
<1>3. 0..Depth \subseteq T
  <2> HIDE DEF T
  <2> QED  BY <1>1, <1>2, LevelIs, UpTo
<1>4. Depth \in T  BY <1>3, LevelIs
<1> QED  BY <1>4 DEF Tables

LEMMA MergeEquation == Merge = [both \in Tables \X Tables |-> MergeStep(Merge, both)]
<1> DEFINE S == Tables \X Tables
           L == [n \in 0..Depth |-> Levels[n] \X Levels[n]]
           empty == [k \in Keys |-> Nothing]
           D == [x \in [S -> Tables] \X S |->
                    IF MergeStep(x[1], x[2]) \in Tables THEN MergeStep(x[1], x[2]) ELSE empty]
<1>1. L[0] = {} /\ L[Depth] = S /\ \A n \in 1..Depth : L[n] \subseteq S  BY LevelIs DEF Tables
<1>2. D \in [[S -> Tables] \X S -> Tables]  BY EmptyTable
<1>3. ASSUME NEW n \in 1..Depth, NEW g, NEW h, NEW s \in L[n], \A t \in L[n - 1] : g[t] = h[t]
      PROVE  MergeStep(g, s) = MergeStep(h, s)
  <2>1. PICK b \in Levels[n], o \in Levels[n] : s = <<b, o>>  BY LevelIs
  <2>2. ASSUME NEW k \in Keys, IsTable(b[k]), IsTable(o[k])
        PROVE  g[<<b[k].table, o[k].table>>] = h[<<b[k].table, o[k].table>>]
    <3>1. b[k].table \in Levels[n - 1] /\ o[k].table \in Levels[n - 1]  BY <2>2, NodeIs
    <3>2. <<b[k].table, o[k].table>> \in L[n - 1]  BY <3>1, LevelIs
    <3> QED  BY <1>3, <3>2
  <2> QED  BY <2>1, <2>2 DEF MergeStep
<1>4. \A n \in 1..Depth : \A g, h \in [S -> Tables] : \A s \in L[n] :
          (\A t \in L[n - 1] : g[t] = h[t]) => D[<<g, s>>] = D[<<h, s>>]
  <2> SUFFICES ASSUME NEW n \in 1..Depth, NEW g \in [S -> Tables], NEW h \in [S -> Tables], NEW s \in L[n],
                      \A t \in L[n - 1] : g[t] = h[t]
               PROVE  D[<<g, s>>] = D[<<h, s>>]
    OBVIOUS
  <2>1. MergeStep(g, s) = MergeStep(h, s)
    <3> HIDE DEF L
    <3> QED  BY <1>3
  <2>2. s \in S  BY <1>1
  <2> HIDE DEF L
  <2> QED  BY <2>1, <2>2
<1>5. PICK f \in [S -> Tables] : \A s \in S : f[s] = D[<<f, s>>]
  <2>1. empty \in Tables  BY EmptyTable
  <2> HIDE DEF L, D, S, empty
  <2>2. ByLevels(Depth, L, S, Tables, D)  BY <1>1, <1>2, <1>4 DEF ByLevels
  <2>3. Solvable(S, Tables, D)  BY <2>1, <2>2, LevelIs, Recursion
  <2> QED  BY <2>3 DEF Solvable
<1>6. f = [both \in S |-> MergeStep(f, both)]
  <2>1. \A s \in S : MergeStep(f, s) \in Tables => f[s] = MergeStep(f, s)  BY <1>5
  <2>2. \A b, o \in Tables : f[<<b, o>>] = MergeStep(f, <<b, o>>)  BY <2>1, MergeLevels
  <2>3. \A s \in S : f[s] = MergeStep(f, s)  BY <2>2
  <2> QED  BY <2>3
<1>7. \E g : g = [both \in Tables \X Tables |-> MergeStep(g, both)]  BY <1>6
<1> QED  BY <1>7 DEF Merge, MergeStep

\* Two layers are merged into a table.
LEMMA MergeIs ==
    ASSUME NEW b \in Tables, NEW o \in Tables
    PROVE  /\ DeepMerge(b, o) \in Tables
           /\ \A k \in Keys : DeepMerge(b, o)[k] =
                  IF IsTable(b[k]) /\ IsTable(o[k]) THEN Table(DeepMerge(b[k].table, o[k].table))
                  ELSE IF o[k] # Nothing THEN o[k] ELSE b[k]
<1>1. PICK m : m = Merge  OBVIOUS
<1>2. m = [both \in Tables \X Tables |-> MergeStep(m, both)]  BY <1>1, MergeEquation
<1>3. \A s \in Tables \X Tables : m[s] = MergeStep(m, s)  BY <1>2
<1>4. m[<<b, o>>] \in Tables /\ m[<<b, o>>] = MergeStep(m, <<b, o>>)  BY <1>3, MergeLevels
<1>5. \A k \in Keys : MergeStep(m, <<b, o>>)[k] =
          IF IsTable(b[k]) /\ IsTable(o[k]) THEN Table(m[<<b[k].table, o[k].table>>])
          ELSE IF o[k] # Nothing THEN o[k] ELSE b[k]
  BY DEF MergeStep
<1> QED  BY <1>1, <1>4, <1>5 DEF DeepMerge

------------------------------------------------------------------------------
(* Paths.                                                                   *)

Trails == {path \in Seq(Keys) : Len(path) > 0}

\* A path is a key and what follows it.
LEMMA ConsIs ==
    ASSUME NEW k \in Keys, NEW p \in Seq(Keys)
    PROVE  /\ <<k>> \o p \in Trails /\ Len(<<k>> \o p) = Len(p) + 1
           /\ (<<k>> \o p)[1] = k /\ Tail(<<k>> \o p) = p
           /\ \A i \in 1..Len(p) : (<<k>> \o p)[i + 1] = p[i]
<1>1. <<k>> \in Seq(Keys) /\ Len(<<k>>) = 1 /\ Len(p) \in Nat  OBVIOUS
<1>2. PICK c : c = <<k>> \o p  OBVIOUS
<1>3. c \in Seq(Keys) /\ Len(c) = Len(p) + 1
      /\ \A i \in 1..Len(p) + 1 : c[i] = IF i <= 1 THEN <<k>>[i] ELSE p[i - 1]
  BY <1>1, <1>2, ConcatProperties
<1>4. c[1] = k  BY <1>1, <1>3
<1>5. \A i \in 1..Len(p) : c[i + 1] = p[i]
  <2>1. \A i \in 1..Len(p) : i + 1 \in 1..Len(p) + 1 /\ ~ i + 1 <= 1 /\ i + 1 - 1 = i  BY <1>1
  <2> QED  BY <1>3, <2>1
<1>6. Tail(c) = p
  <2>1. c # <<>>  BY <1>1, <1>3
  <2>2. Tail(c) \in Seq(Keys) /\ Len(Tail(c)) = Len(c) - 1 /\ \A i \in 1..Len(Tail(c)) : Tail(c)[i] = c[i + 1]
    BY <1>3, <2>1, HeadTailProperties
  <2>3. Len(Tail(c)) = Len(p)  BY <1>1, <1>3, <2>2
  <2>4. \A i \in 1..Len(Tail(c)) : Tail(c)[i] = p[i]  BY <1>5, <2>2, <2>3
  <2> QED  BY <2>2, <2>3, <2>4, SeqEqual
<1> QED  BY <1>1, <1>2, <1>3, <1>4, <1>5, <1>6 DEF Trails

LEMMA TrailIs ==
    ASSUME NEW path \in Trails
    PROVE  /\ path \in Seq(Keys) /\ Len(path) \in Nat \ {0} /\ path[1] \in Keys
           /\ Tail(path) \in Seq(Keys) /\ Len(Tail(path)) = Len(path) - 1
           /\ \A i \in 1..Len(Tail(path)) : Tail(path)[i] = path[i + 1]
           /\ path = <<path[1]>> \o Tail(path)
           /\ Len(path) = 1 => path = <<path[1]>>
           /\ Len(path) # 1 => Tail(path) \in Trails
<1>1. path \in Seq(Keys) /\ Len(path) \in Nat \ {0} /\ path # <<>>  BY DEF Trails
<1>2. path[1] \in Keys  BY <1>1, ElementOfSeq
<1>3. PICK t : t = Tail(path)  OBVIOUS
<1>4. t \in Seq(Keys) /\ Len(t) = Len(path) - 1 /\ \A i \in 1..Len(t) : t[i] = path[i + 1]
  BY <1>1, <1>3, HeadTailProperties
<1>5. PICK c : c = <<path[1]>> \o t  OBVIOUS
<1>6. c \in Seq(Keys) /\ Len(c) = Len(path) /\ c[1] = path[1] /\ \A i \in 1..Len(t) : c[i + 1] = t[i]
  BY <1>1, <1>2, <1>4, <1>5, ConsIs DEF Trails
<1>7. \A i \in 1..Len(path) : c[i] = path[i]
  <2>1. ASSUME NEW i \in 1..Len(path) PROVE i = 1 \/ (i - 1 \in 1..Len(t) /\ i - 1 + 1 = i)
    BY <1>1, <1>4
  <2>2. ASSUME NEW j \in 1..Len(t) PROVE c[j + 1] = path[j + 1]  BY <1>4, <1>6
  <2> QED  BY <1>6, <2>1, <2>2
<1>8. c = path  BY <1>1, <1>6, <1>7, SeqEqual
<1>9. Len(path) = 1 => path = <<path[1]>>
  <2>1. <<path[1]>> \in Seq(Keys) /\ Len(<<path[1]>>) = 1 /\ <<path[1]>>[1] = path[1]  BY <1>2
  <2>2. Len(path) = 1 => \A i \in 1..Len(path) : path[i] = <<path[1]>>[i]  BY <2>1
  <2> QED  BY <1>1, <2>1, <2>2, SeqEqual
<1>10. Len(path) # 1 => t \in Trails  BY <1>1, <1>4 DEF Trails
<1> QED  BY <1>1, <1>2, <1>3, <1>4, <1>5, <1>8, <1>9, <1>10

\* A path of one key.
LEMMA OneIs ==
    ASSUME NEW k \in Keys
    PROVE  <<k>> \in Trails /\ Len(<<k>>) = 1 /\ <<k>>[1] = k
<1> QED  BY DEF Trails

Saying == UNION {[P -> Nodes] : P \in SUBSET Trails}

Under(f, t, k) == {<<k>> \o p : p \in DOMAIN f[t[k].table]}

Ways(f, t) == {<<k>> : k \in Given(t)} \cup UNION {Under(f, t, k) : k \in Nested(t)}

SaidStep(f, t) ==
    [path \in Ways(f, t) |-> IF Len(path) = 1 THEN t[path[1]] ELSE f[t[path[1]].table][Tail(path)]]

Short(t, path)   == \E k \in Given(t) : path = <<k>>
Long(f, t, path) == \E k \in Nested(t) : \E p \in DOMAIN f[t[k].table] : path = <<k>> \o p

LEMMA WayIs ==
    ASSUME NEW f, NEW t, NEW path
    PROVE  path \in Ways(f, t) <=> Short(t, path) \/ Long(f, t, path)
<1>1. \A k : path \in Under(f, t, k) <=> \E p \in DOMAIN f[t[k].table] : path = <<k>> \o p  BY DEF Under
<1>2. path \in UNION {Under(f, t, k) : k \in Nested(t)} <=> \E k \in Nested(t) : path \in Under(f, t, k)
  OBVIOUS
<1>3. path \in {<<k>> : k \in Given(t)} <=> Short(t, path)  BY DEF Short
<1> QED  BY <1>1, <1>2, <1>3 DEF Ways, Long

LEMMA SayingIs == \A s \in Saying : DOMAIN s \subseteq Trails /\ \A p \in DOMAIN s : s[p] \in Nodes
  BY DEF Saying

\* The ways through a table, if those through the tables in it are paths.
LEMMA WaysAre ==
    ASSUME NEW t \in Tables, NEW f, \A k \in Nested(t) : f[t[k].table] \in Saying, NEW path \in Trails
    PROVE  path \in Ways(f, t) <=>
               IF Len(path) = 1 THEN t[path[1]] # Nothing
               ELSE IsTable(t[path[1]]) /\ Tail(path) \in DOMAIN f[t[path[1]].table]
<1> DEFINE k == path[1]
           p == Tail(path)
<1>0. k \in Keys /\ (Len(path) = 1 => path = <<k>>) /\ path = <<k>> \o p  BY TrailIs
<1>1. \A j \in Nested(t) : j \in Keys /\ IsTable(t[j]) /\ DOMAIN f[t[j].table] \subseteq Trails
  BY SayingIs DEF Nested
<1>2. ASSUME NEW j \in Keys, NEW q \in Trails
      PROVE  Len(<<j>> \o q) # 1 /\ (<<j>> \o q)[1] = j /\ Tail(<<j>> \o q) = q
  <2>1. q \in Seq(Keys) /\ Len(q) \in Nat \ {0}  BY TrailIs
  <2> QED  BY <2>1, ConsIs
<1>3. CASE Len(path) = 1
  <2>1. ~Long(f, t, path)
    <3>1. ASSUME NEW j \in Nested(t), NEW q \in DOMAIN f[t[j].table], path = <<j>> \o q PROVE FALSE
      BY <1>1, <1>2, <1>3, <3>1
    <3> QED  BY <3>1 DEF Long
  <2>2. Short(t, path) <=> k \in Given(t)
    <3>1. \A j \in Keys : path = <<j>> => j = k  BY OneIs
    <3>2. Given(t) \subseteq Keys  BY DEF Given
    <3> QED  BY <1>0, <1>3, <3>1, <3>2 DEF Short
  <2>3. k \in Given(t) <=> t[k] # Nothing  BY <1>0 DEF Given
  <2> QED  BY <1>3, <2>1, <2>2, <2>3, WayIs
<1>4. CASE Len(path) # 1
  <2>1. ~Short(t, path)  BY <1>4, OneIs DEF Given, Short
  <2>3. Long(f, t, path) <=> k \in Nested(t) /\ p \in DOMAIN f[t[k].table]
    <3>1. ASSUME NEW j \in Nested(t), NEW q \in DOMAIN f[t[j].table], path = <<j>> \o q
          PROVE  k = j /\ p = q
      BY <1>1, <1>2, <3>1
    <3> HIDE DEF k, p
    <3> QED  BY <1>0, <3>1 DEF Long
  <2>4. k \in Nested(t) <=> IsTable(t[k])  BY <1>0 DEF Nested
  <2> HIDE DEF k, p
  <2>5. path \in Ways(f, t) <=> IsTable(t[k]) /\ p \in DOMAIN f[t[k].table]
    BY <2>1, <2>3, <2>4, WayIs
  <2> QED  BY <1>4, <2>5 DEF k, p
<1> QED  BY <1>3, <1>4

LEMMA SaidStepIs ==
    ASSUME NEW t \in Tables, NEW f, \A k \in Nested(t) : f[t[k].table] \in Saying
    PROVE  SaidStep(f, t) \in Saying
<1>1. Ways(f, t) \subseteq Trails
  <2>1. \A path : Short(t, path) => path \in Trails  BY OneIs DEF Given, Short
  <2>2. ASSUME NEW k \in Nested(t), NEW p \in DOMAIN f[t[k].table] PROVE <<k>> \o p \in Trails
    <3>1. k \in Keys /\ p \in Trails  BY SayingIs DEF Nested
    <3> QED  BY <3>1, TrailIs, ConsIs
  <2>3. \A path : Long(f, t, path) => path \in Trails  BY <2>2 DEF Long
  <2> QED  BY <2>1, <2>3, WayIs
<1>2. ASSUME NEW path \in Ways(f, t) PROVE SaidStep(f, t)[path] \in Nodes
  <2>1. path \in Trails /\ path[1] \in Keys  BY <1>1, TrailIs
  <2>2. CASE Len(path) = 1
    <3>1. t[path[1]] # Nothing  BY <2>1, <2>2, WaysAre
    <3>2. t[path[1]] \in [leaf : Values] \/ (t[path[1]] = Table(t[path[1]].table) /\ t[path[1]].table \in Tables)
      BY <2>1, <3>1, TableIs
    <3>3. t[path[1]] \in Nodes
      <4>1. \A x \in Tables : Table(x) \in [table : Tables]  BY DEF Table
      <4> QED  BY <3>2, <4>1 DEF Nodes
    <3> QED  BY <2>2, <3>3 DEF SaidStep
  <2>3. CASE Len(path) # 1
    <3>1. IsTable(t[path[1]]) /\ Tail(path) \in DOMAIN f[t[path[1]].table]  BY <2>1, <2>3, WaysAre
    <3>2. f[t[path[1]].table] \in Saying  BY <2>1, <3>1 DEF Nested
    <3>3. f[t[path[1]].table][Tail(path)] \in Nodes  BY <3>1, <3>2, SayingIs
    <3> QED  BY <2>3, <3>3 DEF SaidStep
  <2> QED  BY <2>2, <2>3
<1>3. SaidStep(f, t) = [path \in Ways(f, t) |-> SaidStep(f, t)[path]]  BY DEF SaidStep
<1>4. SaidStep(f, t) \in [Ways(f, t) -> Nodes]  BY <1>2, <1>3
<1> QED  BY <1>1, <1>4 DEF Saying

LEMMA SaidEquation == Said = [t \in Tables |-> SaidStep(Said, t)]
<1> DEFINE D == [x \in [Tables -> Saying] \X Tables |-> SaidStep(x[1], x[2])]
           mute == [p \in {} |-> Nothing]
<1>1. \A f \in [Tables -> Saying] : \A t \in Tables : \A k \in Nested(t) : f[t[k].table] \in Saying
  <2>1. \A t \in Tables : \A k \in Nested(t) : t[k].table \in Tables  BY TableIs DEF Nested
  <2> QED  BY <2>1
<1>2. D \in [[Tables -> Saying] \X Tables -> Saying]  BY <1>1, SaidStepIs
<1>3. ASSUME NEW n \in 1..Depth, NEW g \in [Tables -> Saying], NEW h \in [Tables -> Saying],
             NEW t \in Levels[n], \A r \in Levels[n - 1] : g[r] = h[r]
      PROVE  D[<<g, t>>] = D[<<h, t>>]
  <2>1. t \in Tables  BY LevelIs
  <2>2. \A k \in Keys : IsTable(t[k]) => g[t[k].table] = h[t[k].table]  BY <1>3, NodeIs
  <2>3. Ways(g, t) = Ways(h, t)
    <3>1. \A k \in Nested(t) : Under(g, t, k) = Under(h, t, k)  BY <2>2 DEF Under, Nested
    <3>2. {Under(g, t, k) : k \in Nested(t)} = {Under(h, t, k) : k \in Nested(t)}  BY <3>1
    <3> QED  BY <3>2 DEF Ways
  <2>4. ASSUME NEW path \in Ways(g, t), Len(path) # 1 PROVE g[t[path[1]].table] = h[t[path[1]].table]
    <3>1. path \in Trails
      <4>1. SaidStep(g, t) \in Saying  BY <1>1, <2>1, SaidStepIs
      <4>2. DOMAIN SaidStep(g, t) = Ways(g, t)  BY DEF SaidStep
      <4> QED  BY <4>1, <4>2, SayingIs
    <3>2. path[1] \in Keys /\ IsTable(t[path[1]])  BY <1>1, <2>1, <2>4, <3>1, WaysAre, TrailIs
    <3> QED  BY <2>2, <3>2
  <2>5. SaidStep(g, t) = SaidStep(h, t)  BY <2>3, <2>4 DEF SaidStep
  <2> QED  BY <2>1, <2>5
<1>4. mute \in Saying
  <2>1. {} \in SUBSET Trails /\ mute \in [{} -> Nodes]  OBVIOUS
  <2> HIDE DEF mute
  <2> QED  BY <2>1 DEF Saying
<1>5. PICK f \in [Tables -> Saying] : \A t \in Tables : f[t] = D[<<f, t>>]
  <2> HIDE DEF D, mute
  <2>1. ByLevels(Depth, Levels, Tables, Saying, D)  BY <1>2, <1>3, LevelIs DEF ByLevels, Tables
  <2>2. Solvable(Tables, Saying, D)  BY <1>4, <2>1, LevelIs, Recursion
  <2> QED  BY <2>2 DEF Solvable
<1>6. f = [t \in Tables |-> SaidStep(f, t)]
  <2>1. \A t \in Tables : f[t] = SaidStep(f, t)  BY <1>5
  <2> QED  BY <2>1
<1>7. \E g : g = [t \in Tables |-> SaidStep(g, t)]  BY <1>6
<1> QED  BY <1>7 DEF Said, SaidStep, Ways, Under

LEMMA SaidIs == \A t \in Tables : Said[t] \in Saying /\ Said[t] = SaidStep(Said, t)
<1>1. PICK f : f = Said  OBVIOUS
<1>2. \A t \in Tables : f[t] = SaidStep(f, t)  BY <1>1, SaidEquation
<1> DEFINE G == {t \in Tables : f[t] \in Saying}
<1>3. ASSUME NEW n \in 1..Depth, Levels[n - 1] \subseteq G PROVE Levels[n] \subseteq G
  <2>1. SUFFICES ASSUME NEW t \in Levels[n] PROVE t \in G  OBVIOUS
  <2>2. t \in Tables  BY LevelIs
  <2>3. \A k \in Nested(t) : t[k].table \in Levels[n - 1]  BY NodeIs DEF Nested
  <2>4. SaidStep(f, t) \in Saying  BY <1>3, <2>2, <2>3, SaidStepIs
  <2> QED  BY <1>2, <2>2, <2>4
<1>4. Tables \subseteq G
  <2> HIDE DEF G
  <2> QED  BY <1>3, TableInduction
<1> QED  BY <1>1, <1>2, <1>4

\* Which paths a table has, and what is there.
LEMMA PathIs ==
    ASSUME NEW t \in Tables
    PROVE  /\ Paths(t) \subseteq Trails
           /\ \A path \in Paths(t) : Said[t][path] \in Nodes
           /\ \A path \in Trails : Len(path) = 1 =>
                  /\ path \in Paths(t) <=> t[path[1]] # Nothing
                  /\ path \in Paths(t) => Said[t][path] = t[path[1]]
           /\ \A path \in Trails : Len(path) # 1 =>
                  /\ path \in Paths(t) <=> IsTable(t[path[1]]) /\ Tail(path) \in Paths(t[path[1]].table)
                  /\ path \in Paths(t) => Said[t][path] = Said[t[path[1]].table][Tail(path)]
<1>1. PICK f : f = Said  OBVIOUS
<1>2. f[t] \in Saying /\ f[t] = SaidStep(f, t)  BY <1>1, SaidIs
<1>3. \A k \in Nested(t) : f[t[k].table] \in Saying
  <2>1. \A k \in Nested(t) : t[k].table \in Tables  BY TableIs DEF Nested
  <2> QED  BY <1>1, <2>1, SaidIs
<1>4. DOMAIN f[t] = Ways(f, t)  BY <1>2 DEF SaidStep
<1>5. \A path \in Ways(f, t) : f[t][path] =
          IF Len(path) = 1 THEN t[path[1]] ELSE f[t[path[1]].table][Tail(path)]
  BY <1>2 DEF SaidStep
<1>6. \A path \in Trails : path \in DOMAIN f[t] <=>
          IF Len(path) = 1 THEN t[path[1]] # Nothing
          ELSE IsTable(t[path[1]]) /\ Tail(path) \in DOMAIN f[t[path[1]].table]
  BY <1>3, <1>4, WaysAre
<1>7. DOMAIN f[t] \subseteq Trails /\ \A path \in DOMAIN f[t] : f[t][path] \in Nodes  BY <1>2, SayingIs
<1> QED  BY <1>1, <1>4, <1>5, <1>6, <1>7 DEF Paths

------------------------------------------------------------------------------
(* Which layer wins.                                                        *)

LEMMA StrictIs ==
    ASSUME NEW p \in Trails, NEW q \in Trails
    PROVE  IsStrictPrefix(p, q) <=> Len(p) < Len(q) /\ \A i \in 1..Len(p) : p[i] = q[i]
<1>1. p \in Seq(Keys) /\ q \in Seq(Keys) /\ Len(p) \in Nat \ {0} /\ Len(q) \in Nat  BY TrailIs
<1>2. SubSeq(p, 1, Len(p)) = p  BY <1>1, SubSeqFull
<1>3. PICK s : s = SubSeq(q, 1, Len(p))  OBVIOUS
<1>4. CASE Len(p) <= Len(q)
  <2>1. \A i \in 1..Len(p) : q[i] \in Keys
    <3>1. \A i \in 1..Len(p) : i \in 1..Len(q)  BY <1>1, <1>4
    <3> QED  BY <1>1, <3>1, ElementOfSeq
  <2>2. /\ s \in Seq(Keys) /\ Len(s) = IF 1 <= Len(p) THEN Len(p) - 1 + 1 ELSE 0
        /\ \A i \in 1..Len(p) - 1 + 1 : s[i] = q[1 + i - 1]
    <3>1. 1 \in Int /\ Len(p) \in Int  BY <1>1
    <3> QED  BY <1>3, <2>1, <3>1, SubSeqProperties
  <2>3. Len(s) = Len(p) /\ \A i \in 1..Len(p) : s[i] = q[i]
    <3>1. 1 <= Len(p) /\ Len(p) - 1 + 1 = Len(p) /\ \A i \in 1..Len(p) : 1 + i - 1 = i  BY <1>1
    <3> QED  BY <2>2, <3>1
  <2>4. s = p <=> \A i \in 1..Len(p) : p[i] = q[i]
    <3>1. (\A i \in 1..Len(p) : p[i] = q[i]) => s = p
      <4>1. SUFFICES ASSUME \A i \in 1..Len(p) : p[i] = q[i] PROVE s = p  OBVIOUS
      <4>2. \A i \in 1..Len(s) : s[i] = p[i]  BY <2>3, <4>1
      <4> QED  BY <1>1, <2>2, <2>3, <4>2, SeqEqual
    <3> QED  BY <2>3, <3>1
  <2>5. Len(p) = Len(q) => s = q  BY <1>1, <1>3, SubSeqFull
  <2>6. IsStrictPrefix(p, q) <=> p = s /\ p # q  BY <1>2, <1>3, <1>4 DEF IsStrictPrefix, IsPrefix
  <2>7. Len(p) # Len(q) => p # q  OBVIOUS
  <2>8. Len(p) < Len(q) <=> Len(p) # Len(q)  BY <1>1, <1>4
  <2> QED  BY <2>4, <2>5, <2>6, <2>7, <2>8
<1>5. CASE ~ Len(p) <= Len(q)  BY <1>1, <1>5 DEF IsStrictPrefix, IsPrefix
<1> QED  BY <1>4, <1>5

\* A prefix starts with the same key, and goes on with a prefix of the rest.
LEMMA PrefixIs ==
    ASSUME NEW p \in Trails, NEW q \in Trails
    PROVE  /\ Len(q) = 1 => ~IsStrictPrefix(p, q)
           /\ Len(q) # 1 => (IsStrictPrefix(p, q) <=>
                  p[1] = q[1] /\ (Len(p) = 1 \/ (Len(p) # 1 /\ IsStrictPrefix(Tail(p), Tail(q)))))
<1>1. Len(p) \in Nat \ {0} /\ Len(q) \in Nat \ {0}  BY TrailIs
<1>2. Len(q) = 1 => ~ Len(p) < Len(q)  BY <1>1
<1>3. CASE Len(q) # 1 /\ Len(p) = 1
  <2>1. Len(p) < Len(q)
    <3>1. \A m, n \in Nat \ {0} : m = 1 /\ n # 1 => m < n  OBVIOUS
    <3> QED  BY ONLY <1>1, <1>3, <3>1
  <2>2. \A i \in 1..1 : i = 1  OBVIOUS
  <2>3. 1 \in 1..1  OBVIOUS
  <2> QED  BY <1>3, <2>1, <2>2, <2>3, StrictIs
<1>4. CASE Len(q) # 1 /\ Len(p) # 1
  <2>1. Tail(p) \in Trails /\ Tail(q) \in Trails  BY <1>4, TrailIs
  <2>2. PICK x : x = Tail(p)  OBVIOUS
  <2>3. PICK y : y = Tail(q)  OBVIOUS
  <2>4. Len(x) = Len(p) - 1 /\ Len(y) = Len(q) - 1  BY <2>2, <2>3, TrailIs
  <2>5. Len(x) < Len(y) <=> Len(p) < Len(q)  BY <1>1, <2>4
  <2>6. CASE Len(p) < Len(q)
    <3>1. \A i \in 1..Len(x) : x[i] = p[i + 1] /\ y[i] = q[i + 1]
      <4>1. \A i \in 1..Len(x) : i \in 1..Len(y)  BY <1>1, <2>4, <2>6
      <4> QED  BY <2>2, <2>3, <4>1, TrailIs
    <3>2. (\A i \in 1..Len(p) : p[i] = q[i]) <=> p[1] = q[1] /\ \A i \in 1..Len(x) : x[i] = y[i]
      <4>1. ASSUME \A i \in 1..Len(p) : p[i] = q[i] PROVE p[1] = q[1] /\ \A i \in 1..Len(x) : x[i] = y[i]
        <5>1. 1 \in 1..Len(p) /\ \A i \in 1..Len(x) : i + 1 \in 1..Len(p)  BY <1>1, <2>4
        <5> QED  BY <3>1, <4>1, <5>1
      <4>2. ASSUME p[1] = q[1], \A i \in 1..Len(x) : x[i] = y[i], NEW i \in 1..Len(p) PROVE p[i] = q[i]
        <5>1. i = 1 \/ (i - 1 \in 1..Len(x) /\ i - 1 + 1 = i)  BY <1>1, <2>4
        <5>2. ASSUME NEW j \in 1..Len(x) PROVE p[j + 1] = q[j + 1]  BY <3>1, <4>2
        <5> QED  BY <4>2, <5>1, <5>2
      <4> QED  BY <4>1, <4>2
    <3>3. IsStrictPrefix(x, y) <=> \A i \in 1..Len(x) : x[i] = y[i]
      BY <2>1, <2>2, <2>3, <2>5, <2>6, StrictIs
    <3> QED  BY <1>4, <2>2, <2>3, <2>6, <3>2, <3>3, StrictIs
  <2>7. CASE ~ Len(p) < Len(q)
    <3>1. ~IsStrictPrefix(x, y)  BY <2>1, <2>2, <2>3, <2>5, <2>7, StrictIs
    <3> QED  BY <1>4, <2>2, <2>3, <2>7, <3>1, StrictIs
  <2> QED  BY <2>6, <2>7
<1> QED  BY <1>2, <1>3, <1>4, StrictIs

\* A leaf above a path is at its first key, or above the rest of it.
LEMMA LeafAboveIs ==
    ASSUME NEW t \in Tables, NEW path \in Trails
    PROVE  /\ Len(path) = 1 => ~LeafAbove(t, path)
           /\ Len(path) # 1 => (LeafAbove(t, path) <=>
                  \/ t[path[1]] # Nothing /\ ~IsTable(t[path[1]])
                  \/ IsTable(t[path[1]]) /\ LeafAbove(t[path[1]].table, Tail(path)))
<1>0. path[1] \in Keys /\ Paths(t) \subseteq Trails  BY TrailIs, PathIs
<1>1. CASE Len(path) = 1  BY <1>0, <1>1, PrefixIs DEF LeafAbove
<1>2. CASE Len(path) # 1
  <2> DEFINE k == path[1]
             rest == Tail(path)
  <2>1. rest \in Trails  BY <1>2, TrailIs
  <2>2. ASSUME LeafAbove(t, path)
        PROVE  (t[k] # Nothing /\ ~IsTable(t[k])) \/ (IsTable(t[k]) /\ LeafAbove(t[k].table, rest))
    <3>1. PICK p \in Paths(t) : IsStrictPrefix(p, path) /\ ~IsTable(Said[t][p])  BY <2>2 DEF LeafAbove
    <3>2. p \in Trails /\ p[1] = k  BY <1>0, <1>2, <3>1, PrefixIs
    <3>3. CASE Len(p) = 1
      <4>1. t[k] # Nothing /\ Said[t][p] = t[k]  BY <3>2, <3>3, <3>1, PathIs
      <4> QED  BY <3>1, <4>1
    <3>4. CASE Len(p) # 1
      <4>1. IsTable(t[k]) /\ Tail(p) \in Paths(t[k].table) /\ Said[t][p] = Said[t[k].table][Tail(p)]
        BY <3>1, <3>2, <3>4, PathIs
      <4>2. IsStrictPrefix(Tail(p), rest)  BY <1>2, <3>1, <3>2, <3>4, PrefixIs
      <4> HIDE DEF k, rest
      <4> QED  BY <3>1, <4>1, <4>2 DEF LeafAbove
    <3> QED  BY <3>3, <3>4
  <2>3. ASSUME t[k] # Nothing, ~IsTable(t[k]) PROVE LeafAbove(t, path)
    <3>1. <<k>> \in Trails /\ Len(<<k>>) = 1 /\ <<k>>[1] = k  BY <1>0, OneIs
    <3>2. <<k>> \in Paths(t) /\ Said[t][<<k>>] = t[k]  BY <2>3, <3>1, PathIs
    <3>3. IsStrictPrefix(<<k>>, path)  BY <1>2, <3>1, PrefixIs
    <3> QED  BY <2>3, <3>2, <3>3 DEF LeafAbove
  <2>4. ASSUME IsTable(t[k]), LeafAbove(t[k].table, rest) PROVE LeafAbove(t, path)
    <3>1. PICK q \in Paths(t[k].table) : IsStrictPrefix(q, rest) /\ ~IsTable(Said[t[k].table][q])
      BY <2>4 DEF LeafAbove
    <3>2. q \in Trails /\ q \in Seq(Keys) /\ Len(q) \in Nat \ {0}
      <4>1. t[k].table \in Tables  BY <1>0, <2>4, TableIs
      <4> QED  BY <4>1, PathIs, TrailIs
    <3>3. PICK p : p = <<k>> \o q  OBVIOUS
    <3>4. p \in Trails /\ Len(p) # 1 /\ p[1] = k /\ Tail(p) = q  BY <1>0, <3>2, <3>3, ConsIs
    <3>5. p \in Paths(t) /\ Said[t][p] = Said[t[k].table][q]  BY <2>4, <3>4, PathIs
    <3>6. IsStrictPrefix(p, path)  BY <1>2, <3>1, <3>4, PrefixIs
    <3> QED  BY <3>1, <3>5, <3>6 DEF LeafAbove
  <2> QED  BY <1>2, <2>2, <2>3, <2>4
<1> QED  BY <1>1, <1>2

Agree(x, y) == x = y \/ (IsTable(x) /\ IsTable(y))

\* What a path has in two layers, and in what they are merged into.
Wins(b, o, path) ==
    LET r == DeepMerge(b, o)
    IN  /\ path \in Paths(r) <=> path \in Paths(o) \/ (path \in Paths(b) /\ ~LeafAbove(o, path))
        /\ path \in Paths(o) => Agree(Said[r][path], Said[o][path])
        /\ path \in Paths(r) /\ path \notin Paths(o) => Said[r][path] = Said[b][path]

LEMMA WinsOne ==
    ASSUME NEW b \in Tables, NEW o \in Tables, NEW path \in Trails, Len(path) = 1
    PROVE  Wins(b, o, path)
<1>1. PICK r \in Tables : r = DeepMerge(b, o)  BY MergeIs
<1>2. PICK k \in Keys : k = path[1]  BY TrailIs
<1>3. \A t \in Tables : (path \in Paths(t) <=> t[k] # Nothing) /\ (path \in Paths(t) => Said[t][path] = t[k])
  BY <1>2, PathIs
<1>4. ~LeafAbove(o, path)  BY LeafAboveIs
<1>5. r[k] = IF IsTable(b[k]) /\ IsTable(o[k]) THEN Table(DeepMerge(b[k].table, o[k].table))
             ELSE IF o[k] # Nothing THEN o[k] ELSE b[k]
  BY <1>1, MergeIs
<1>6. \A x : IsTable(Table(x)) /\ Table(x) # Nothing  BY DEF IsTable, Table, Nothing
<1>7. \A t \in Tables : IsTable(t[k]) => t[k] # Nothing  BY TableIs
<1>8. (r[k] # Nothing <=> o[k] # Nothing \/ b[k] # Nothing) /\ (o[k] # Nothing => Agree(r[k], o[k]))
      /\ (o[k] = Nothing => r[k] = b[k])
  BY <1>5, <1>6, <1>7 DEF Agree
<1>9. /\ path \in Paths(r) <=> path \in Paths(o) \/ (path \in Paths(b) /\ ~LeafAbove(o, path))
      /\ path \in Paths(o) => Agree(Said[r][path], Said[o][path])
      /\ path \in Paths(r) /\ path \notin Paths(o) => Said[r][path] = Said[b][path]
  BY <1>3, <1>4, <1>8
<1> QED  BY <1>1, <1>9 DEF Wins

LEMMA WinsMore ==
    ASSUME NEW b \in Tables, NEW o \in Tables, NEW path \in Trails, Len(path) # 1,
           \A x, y \in Tables : Wins(x, y, Tail(path))
    PROVE  Wins(b, o, path)
<1>1. PICK r \in Tables : r = DeepMerge(b, o)  BY MergeIs
<1>2. PICK k \in Keys : k = path[1]  BY TrailIs
<1>3. PICK p \in Trails : p = Tail(path)  BY TrailIs
<1>4. \A t \in Tables : /\ path \in Paths(t) <=> IsTable(t[k]) /\ p \in Paths(t[k].table)
                        /\ path \in Paths(t) => Said[t][path] = Said[t[k].table][p]
  BY <1>2, <1>3, PathIs
<1>5. LeafAbove(o, path) <=> (o[k] # Nothing /\ ~IsTable(o[k])) \/ (IsTable(o[k]) /\ LeafAbove(o[k].table, p))
  BY <1>2, <1>3, LeafAboveIs
<1>6. r[k] = IF IsTable(b[k]) /\ IsTable(o[k]) THEN Table(DeepMerge(b[k].table, o[k].table))
             ELSE IF o[k] # Nothing THEN o[k] ELSE b[k]
  BY <1>1, MergeIs
<1>7. /\ path \in Paths(r) <=> path \in Paths(o) \/ (path \in Paths(b) /\ ~LeafAbove(o, path))
      /\ path \in Paths(o) => Agree(Said[r][path], Said[o][path])
      /\ path \in Paths(r) /\ path \notin Paths(o) => Said[r][path] = Said[b][path]
  <2>1. CASE IsTable(b[k]) /\ IsTable(o[k])
    <3>1. PICK x \in Tables, y \in Tables : x = b[k].table /\ y = o[k].table  BY <2>1, TableIs
    <3>2. PICK m : m = DeepMerge(x, y)  OBVIOUS
    <3>3. IsTable(r[k]) /\ r[k].table = m  BY <1>6, <2>1, <3>1, <3>2 DEF IsTable, Table
    <3>4. Wins(x, y, p)  BY <1>3
    <3>5. /\ p \in Paths(m) <=> p \in Paths(y) \/ (p \in Paths(x) /\ ~LeafAbove(y, p))
          /\ p \in Paths(y) => Agree(Said[m][p], Said[y][p])
          /\ p \in Paths(m) /\ p \notin Paths(y) => Said[m][p] = Said[x][p]
      BY <3>2, <3>4 DEF Wins
    <3>6. /\ path \in Paths(r) <=> p \in Paths(m)
          /\ path \in Paths(o) <=> p \in Paths(y)
          /\ path \in Paths(b) <=> p \in Paths(x)
          /\ path \in Paths(r) => Said[r][path] = Said[m][p]
          /\ path \in Paths(o) => Said[o][path] = Said[y][p]
          /\ path \in Paths(b) => Said[b][path] = Said[x][p]
      BY <1>4, <2>1, <3>1, <3>3
    <3>7. LeafAbove(o, path) <=> LeafAbove(y, p)  BY <1>5, <2>1, <3>1
    <3> QED  BY <3>5, <3>6, <3>7
  <2>2. CASE ~(IsTable(b[k]) /\ IsTable(o[k])) /\ o[k] # Nothing
    <3>1. r[k] = o[k]  BY <1>6, <2>2
    <3> QED  BY <1>4, <1>5, <2>2, <3>1 DEF Agree
  <2>3. CASE ~(IsTable(b[k]) /\ IsTable(o[k])) /\ o[k] = Nothing
    <3>1. r[k] = b[k] /\ ~IsTable(o[k])  BY <1>6, <2>3 DEF IsTable, Nothing
    <3> QED  BY <1>4, <1>5, <2>3, <3>1
  <2> QED  BY <2>1, <2>2, <2>3
<1> QED  BY <1>1, <1>7 DEF Wins

\* Of two layers the upper one wins, at every path.
LEMMA UpperWins == \A b, o \in Tables : \A path \in Trails : Wins(b, o, path)
<1>1. SUFFICES ASSUME NEW path \in Trails PROVE \A b, o \in Tables : Wins(b, o, path)  OBVIOUS
<1> DEFINE Short0(n) == \A p \in Trails : Len(p) = n => \A b, o \in Tables : Wins(b, o, p)
           T == {n \in 0..Len(path) : Short0(n)}
<1>2. Len(path) \in Nat /\ \A p \in Trails : Len(p) # 0  BY TrailIs
<1>3. 0 \in T  BY <1>2
<1>4. ASSUME NEW n \in 1..Len(path), n - 1 \in T PROVE n \in T
  <2>1. Short0(n - 1)  BY <1>4
  <2>2. ASSUME NEW p \in Trails, Len(p) = n PROVE \A b, o \in Tables : Wins(b, o, p)
    <3>1. CASE n = 1  BY <2>2, <3>1, WinsOne
    <3>2. CASE n # 1
      <4>1. Tail(p) \in Trails /\ Len(Tail(p)) = n - 1  BY <2>2, <3>2, TrailIs
      <4> QED  BY <2>1, <2>2, <3>2, <4>1, WinsMore
    <3> QED  BY <3>1, <3>2
  <2>3. n \in 0..Len(path)  BY <1>2
  <2> QED  BY <2>2, <2>3
<1>5. 0..Len(path) \subseteq T
  <2> HIDE DEF T
  <2> QED  BY <1>2, <1>3, <1>4, UpTo
<1>6. Short0(Len(path))
  <2>1. Len(path) \in 0..Len(path)  BY <1>2
  <2> QED  BY <1>5, <2>1
<1> QED  BY <1>6

LEMMA ContentIs == \A file \in AnyFile : Content(file) \in Tables
<1>1. ~IsTable(Missing) /\ ~IsTable(Unreadable)  BY DEF IsTable, Missing, Unreadable
<1>2. \A file \in [table : Tables] : IsTable(file) /\ file.table \in Tables  BY DEF IsTable
<1> QED  BY <1>1, <1>2, EmptyTable DEF AnyFile, Content

\* The last of three layers wins.
LEMMA LastOfThreeWins ==
    ASSUME NEW d \in Tables, NEW u \in Tables, NEW e \in Tables
    PROVE  LastWins(<<d, u, e>>, DeepMerge(DeepMerge(d, u), e))
<1>1. PICK m \in Tables : m = DeepMerge(d, u)  BY MergeIs
<1>2. PICK r \in Tables : r = DeepMerge(m, e)  BY MergeIs
<1>3. Paths(r) \subseteq Trails /\ Paths(d) \subseteq Trails /\ Paths(u) \subseteq Trails /\ Paths(e) \subseteq Trails
  BY PathIs
<1>4. PICK layers : layers = <<d, u, e>>  OBVIOUS
<1>5. DOMAIN layers = {1, 2, 3} /\ layers[1] = d /\ layers[2] = u /\ layers[3] = e
      /\ 2 > 1 /\ 3 > 1 /\ 3 > 2 /\ ~ 1 > 1 /\ ~ 2 > 2 /\ ~ 3 > 3 /\ ~ 1 > 2 /\ ~ 1 > 3 /\ ~ 2 > 3
  BY <1>4
<1>6. ASSUME NEW path \in Trails,
             path \in Paths(r) \/ path \in Paths(d) \/ path \in Paths(u) \/ path \in Paths(e)
      PROVE  \E last \in DOMAIN layers :
                 /\ path \in Paths(layers[last])
                 /\ \A j \in DOMAIN layers : j > last => path \notin Paths(layers[j])
                 /\ path \in Paths(r) <=> \A j \in DOMAIN layers : j > last => ~LeafAbove(layers[j], path)
                 /\ path \in Paths(r) => Agree(Said[r][path], Said[layers[last]][path])
  <2>1. /\ path \in Paths(m) <=> path \in Paths(u) \/ (path \in Paths(d) /\ ~LeafAbove(u, path))
        /\ path \in Paths(u) => Agree(Said[m][path], Said[u][path])
        /\ path \in Paths(m) /\ path \notin Paths(u) => Said[m][path] = Said[d][path]
    BY <1>1, UpperWins DEF Wins
  <2>2. /\ path \in Paths(r) <=> path \in Paths(e) \/ (path \in Paths(m) /\ ~LeafAbove(e, path))
        /\ path \in Paths(e) => Agree(Said[r][path], Said[e][path])
        /\ path \in Paths(r) /\ path \notin Paths(e) => Said[r][path] = Said[m][path]
    BY <1>2, UpperWins DEF Wins
  <2>3. CASE path \in Paths(e)  BY <1>5, <2>2, <2>3
  <2>4. CASE path \notin Paths(e) /\ path \in Paths(u)  BY <1>5, <2>1, <2>2, <2>4
  <2>5. CASE path \notin Paths(e) /\ path \notin Paths(u)
    <3>1. path \in Paths(d)  BY <1>6, <2>1, <2>2, <2>5
    <3>2. path \in Paths(r) => Agree(Said[r][path], Said[d][path])  BY <2>1, <2>2, <2>5 DEF Agree
    <3> QED  BY <1>5, <2>1, <2>2, <2>5, <3>1, <3>2
  <2> QED  BY <2>3, <2>4, <2>5
<1>7. \A path : path \in Paths(r) \cup UNION {Paths(layers[i]) : i \in DOMAIN layers} =>
          path \in Trails /\ (path \in Paths(r) \/ path \in Paths(d) \/ path \in Paths(u) \/ path \in Paths(e))
  <2>1. {Paths(layers[i]) : i \in DOMAIN layers} = {Paths(d), Paths(u), Paths(e)}  BY <1>5
  <2> QED  BY <1>3, <2>1
<1>8. LastWins(layers, r)  BY <1>6, <1>7 DEF LastWins, Agree
<1> QED  BY <1>1, <1>2, <1>4, <1>8

------------------------------------------------------------------------------
(* The type at a path.                                                      *)

\* What kinds of annotations there are, and what a field of each is.
LEMMA TypeIs ==
    ASSUME NEW type \in Types, NEW k \in Keys
    PROVE  \/ /\ type \in {Nothing, Plain} /\ ~IsModel(type) /\ ~IsEach(type) /\ FieldOf(type, k) = Plain
           \/ /\ type = Model(type.model) /\ type.model \in Classes /\ IsModel(type) /\ type # Nothing
              /\ FieldOf(type, k) = Fields[type.model][k]
           \/ /\ type = Each(type.each) /\ type.each \in Classes /\ ~IsModel(type) /\ IsEach(type) /\ type # Nothing
              /\ FieldOf(type, k) = Model(type.each)
<1>1. CASE type = Nothing  BY <1>1 DEF Nothing, IsModel, IsEach, FieldOf
<1>2. CASE type = Plain  BY <1>2 DEF Plain, IsModel, IsEach, FieldOf
<1>3. CASE type \in [model : Classes]
  <2>1. type = Model(type.model) /\ type.model \in Classes /\ IsModel(type) /\ type # Nothing
    BY <1>3 DEF Model, IsModel, Nothing
  <2> QED  BY <2>1 DEF FieldOf
<1>4. CASE type \in [each : Classes]
  <2>1. type = Each(type.each) /\ type.each \in Classes /\ ~IsModel(type) /\ IsEach(type) /\ type # Nothing
    BY <1>4 DEF Each, IsModel, IsEach, Nothing
  <2> QED  BY <2>1 DEF FieldOf
<1> QED  BY <1>1, <1>2, <1>3, <1>4 DEF Types

LEMMA FieldsAre ==
    /\ \A c \in Classes : Model(c) \in Types /\ Model(c) # Nothing
    /\ \A c \in Classes : \A k \in Keys : Fields[c][k] \in Types /\ FieldOf(Model(c), k) = Fields[c][k]
    /\ Plain # Nothing /\ Plain \in Types /\ Nothing \in Types
    /\ \A type \in Types : \A k \in Keys : FieldOf(type, k) \in Types
<1>1. \A c \in Classes : Model(c) \in Types /\ Model(c) # Nothing /\ IsModel(Model(c)) /\ Model(c).model = c
  BY DEF Types, Model, Nothing, IsModel
<1>2. \A c \in Classes : \A k \in Keys : Fields[c][k] \in Types  BY ConfigAssumption
<1>3. \A c \in Classes : \A k \in Keys : FieldOf(Model(c), k) = Fields[c][k]  BY <1>1 DEF FieldOf
<1>4. Plain # Nothing /\ Plain \in Types /\ Nothing \in Types  BY DEF Plain, Nothing, Types
<1>5. \A type \in Types : \A k \in Keys : FieldOf(type, k) \in Types
  <2>1. SUFFICES ASSUME NEW type \in Types, NEW k \in Keys PROVE FieldOf(type, k) \in Types  OBVIOUS
  <2>2. \/ FieldOf(type, k) = Plain
        \/ type.model \in Classes /\ FieldOf(type, k) = Fields[type.model][k]
        \/ type.each \in Classes /\ FieldOf(type, k) = Model(type.each)
    BY TypeIs
  <2> QED  BY <1>1, <1>2, <1>4, <2>2
<1> QED  BY <1>1, <1>2, <1>3, <1>4, <1>5

TypesAlong(g, top, path) ==
    g = [n \in 0..Len(path) |-> IF n = 0 THEN top ELSE FieldOf(g[n - 1], path[n])]

LEMMA TypesExist ==
    ASSUME NEW top \in Types, NEW path \in Seq(Keys)
    PROVE  \E g : TypesAlong(g, top, path)
<1>0. Len(path) \in Nat /\ \A n \in 1..Len(path) : path[n] \in Keys  BY ElementOfSeq
<1> DEFINE S == 0..Len(path)
           N == Len(path) + 1
           L == [n \in 0..N |-> 0..(n - 1)]
           D == [x \in [S -> Types] \X S |-> IF x[2] = 0 THEN top ELSE FieldOf(x[1][x[2] - 1], path[x[2]])]
<1>1. L[0] = {} /\ L[N] = S /\ \A n \in 1..N : L[n] = 0..(n - 1) /\ L[n] \subseteq S
  <2>1. 0 \in 0..N /\ N \in 0..N /\ N - 1 = Len(path) /\ \A n \in 1..N : n \in 0..N  BY <1>0
  <2>2. 0..(0 - 1) = {}  OBVIOUS
  <2>3. \A n \in 1..N : 0..(n - 1) \subseteq S  BY <1>0
  <2> QED  BY <2>1, <2>2, <2>3
<1>2. D \in [[S -> Types] \X S -> Types]
  <2>1. ASSUME NEW f \in [S -> Types], NEW n \in S, n # 0 PROVE FieldOf(f[n - 1], path[n]) \in Types
    <3>1. n - 1 \in S /\ n \in 1..Len(path)  BY <1>0, <2>1
    <3>2. f[n - 1] \in Types  BY <3>1
    <3> QED  BY <1>0, <3>1, <3>2, FieldsAre
  <2> HIDE DEF S
  <2> QED  BY <2>1
<1>3. ASSUME NEW n \in 1..N, NEW g \in [S -> Types], NEW h \in [S -> Types], NEW s \in L[n],
             \A r \in L[n - 1] : g[r] = h[r]
      PROVE  D[<<g, s>>] = D[<<h, s>>]
  <2>1. s \in S /\ s \in 0..(n - 1)  BY <1>1
  <2>2. ASSUME s # 0 PROVE g[s - 1] = h[s - 1]
    <3>1. n - 1 \in 1..N /\ s - 1 \in 0..(n - 1 - 1)  BY <1>0, <2>1, <2>2
    <3>2. s - 1 \in L[n - 1]
      <4>1. L[n - 1] = 0..(n - 1 - 1)  BY <1>1, <3>1
      <4> QED  BY <3>1, <4>1
    <3> HIDE DEF L
    <3> QED  BY <1>3, <3>2
  <2> HIDE DEF S, L
  <2> QED  BY <2>1, <2>2
<1>4. PICK f \in [S -> Types] : \A s \in S : f[s] = D[<<f, s>>]
  <2>1. N \in Nat  BY <1>0
  <2> HIDE DEF D, S, L, N
  <2>2. ByLevels(N, L, S, Types, D)  BY <1>1, <1>2, <1>3 DEF ByLevels
  <2>3. Solvable(S, Types, D)  BY <2>1, <2>2, Recursion
  <2> QED  BY <2>3 DEF Solvable
<1>5. f = [n \in S |-> IF n = 0 THEN top ELSE FieldOf(f[n - 1], path[n])]
  <2>1. \A n \in S : f[n] = IF n = 0 THEN top ELSE FieldOf(f[n - 1], path[n])  BY <1>4
  <2> HIDE DEF S
  <2> QED  BY <2>1
<1> QED  BY <1>5 DEF TypesAlong

LEMMA TypeAtIs ==
    ASSUME NEW top \in Types, NEW path \in Seq(Keys)
    PROVE  \E g : TypesAlong(g, top, path) /\ TypeAt(top, path) = g[Len(path)]
<1>1. PICK g : g = CHOOSE h : TypesAlong(h, top, path)  OBVIOUS
<1>2. TypesAlong(g, top, path)  BY <1>1, TypesExist
<1>3. TypeAt(top, path) = (CHOOSE h : TypesAlong(h, top, path))[Len(path)]  BY DEF TypeAt, TypesAlong
<1> QED  BY <1>1, <1>2, <1>3

\* The type below the first key is the type at the rest of the path, from the field on.
LEMMA TypeBelow ==
    ASSUME NEW top \in Types, NEW path \in Trails
    PROVE  TypeAt(top, path) = TypeAt(FieldOf(top, path[1]), Tail(path))
<1>1. PICK rest \in Seq(Keys) : rest = Tail(path)  BY TrailIs
<1>2. path \in Seq(Keys) /\ Len(path) \in Nat \ {0} /\ path[1] \in Keys /\ Len(rest) = Len(path) - 1
      /\ \A i \in 1..Len(rest) : rest[i] = path[i + 1]
  BY <1>1, TrailIs
<1>3. PICK below \in Types : below = FieldOf(top, path[1])  BY <1>2, FieldsAre
<1>4. PICK g : TypesAlong(g, top, path) /\ TypeAt(top, path) = g[Len(path)]  BY <1>2, TypeAtIs
<1>5. PICK h : TypesAlong(h, below, rest) /\ TypeAt(below, rest) = h[Len(rest)]  BY TypeAtIs
<1>6. g[0] = top /\ \A n \in 1..Len(path) : g[n] = FieldOf(g[n - 1], path[n])
  <2>1. 0 \in 0..Len(path) /\ \A n \in 1..Len(path) : n \in 0..Len(path) /\ n # 0  BY <1>2
  <2> QED  BY <1>4, <2>1 DEF TypesAlong
<1>7. h[0] = below /\ \A n \in 1..Len(rest) : h[n] = FieldOf(h[n - 1], rest[n])
  <2>1. 0 \in 0..Len(rest) /\ \A n \in 1..Len(rest) : n \in 0..Len(rest) /\ n # 0  BY <1>2
  <2> QED  BY <1>5, <2>1 DEF TypesAlong
<1> DEFINE T == {n \in 0..Len(rest) : g[n + 1] = h[n]}
<1>8. 0 \in T
  <2>1. 1 \in 1..Len(path) /\ 0 \in 0..Len(rest) /\ 1 - 1 = 0 /\ 0 + 1 = 1  BY <1>2
  <2>2. g[1] = FieldOf(g[0], path[1])  BY <1>6, <2>1
  <2>3. g[0 + 1] = h[0]  BY <1>3, <1>6, <1>7, <2>1, <2>2
  <2> QED  BY <2>1, <2>3
<1>9. ASSUME NEW n \in 1..Len(rest), n - 1 \in T PROVE n \in T
  <2>1. n + 1 \in 1..Len(path) /\ n + 1 - 1 = n /\ n - 1 + 1 = n /\ n \in 0..Len(rest)  BY <1>2
  <2>2. g[n] = h[n - 1]  BY <1>9, <2>1
  <2>3. g[n + 1] = FieldOf(g[n], path[n + 1])  BY <1>6, <2>1
  <2>4. h[n] = FieldOf(h[n - 1], path[n + 1])  BY <1>2, <1>7
  <2> QED  BY <2>1, <2>2, <2>3, <2>4
<1>10. 0..Len(rest) \subseteq T
  <2>1. Len(rest) \in Nat  BY <1>2
  <2> HIDE DEF T
  <2> QED  BY <1>8, <1>9, <2>1, UpTo
<1>11. g[Len(path)] = h[Len(rest)]
  <2>1. Len(rest) \in 0..Len(rest) /\ Len(rest) + 1 = Len(path)  BY <1>2
  <2> QED  BY <1>10, <2>1
<1> QED  BY <1>1, <1>3, <1>4, <1>5, <1>11

LEMMA TypeHere ==
    ASSUME NEW top \in Types, NEW path \in Seq(Keys), Len(path) = 0
    PROVE  TypeAt(top, path) = top
<1>1. PICK g : TypesAlong(g, top, path) /\ TypeAt(top, path) = g[Len(path)]  BY TypeAtIs
<1>2. g[0] = top  BY <1>1 DEF TypesAlong
<1> QED  BY <1>1, <1>2

\* Below a plain field, and below what is no field, everything is plain.
LEMMA TypePlain ==
    ASSUME NEW path \in Trails
    PROVE  TypeAt(Plain, path) = Plain /\ TypeAt(Nothing, path) = Plain
<1>0. FieldOf(Plain, path[1]) = Plain /\ FieldOf(Nothing, path[1]) = Plain
  BY DEF FieldOf, Plain, Nothing, IsModel, IsEach
<1>1. ASSUME NEW p \in Seq(Keys) PROVE TypeAt(Plain, p) = Plain
  <2>1. PICK g : TypesAlong(g, Plain, p) /\ TypeAt(Plain, p) = g[Len(p)]  BY FieldsAre, TypeAtIs
  <2> DEFINE T == {n \in 0..Len(p) : g[n] = Plain}
  <2>2. Len(p) \in Nat  OBVIOUS
  <2>3. 0 \in T  BY <2>1, <2>2 DEF TypesAlong
  <2>4. ASSUME NEW n \in 1..Len(p), n - 1 \in T PROVE n \in T
    <3>1. n \in 0..Len(p) /\ n # 0  BY <2>2
    <3>2. g[n] = FieldOf(g[n - 1], p[n])  BY <2>1, <3>1 DEF TypesAlong
    <3>3. g[n] = Plain  BY <2>4, <3>2 DEF FieldOf, Plain, IsModel, IsEach
    <3> QED  BY <3>1, <3>3
  <2>5. 0..Len(p) \subseteq T
    <3> HIDE DEF T
    <3> QED  BY <2>2, <2>3, <2>4, UpTo
  <2>6. Len(p) \in 0..Len(p)  BY <2>2
  <2> QED  BY <2>1, <2>5, <2>6
<1>2. path \in Seq(Keys) /\ Tail(path) \in Seq(Keys)  BY TrailIs
<1>3. TypeAt(Nothing, path) = TypeAt(Plain, Tail(path))  BY <1>0, FieldsAre, TypeBelow
<1> QED  BY <1>1, <1>2, <1>3

------------------------------------------------------------------------------
(* The warnings.                                                            *)

\* The paths of a table that have no place in a type, behind a prefix.
Unplaced(x, pre, d, type) ==
    \E p \in Paths(d) : TypeAt(type, p) = Nothing /\ x = pre \o p

LEMMA AppendIs ==
    ASSUME NEW pre \in Seq(Keys), NEW k \in Keys
    PROVE  /\ Append(pre, k) \in Seq(Keys) /\ Append(pre, k) = pre \o <<k>>
           /\ \A q \in Seq(Keys) : Append(pre, k) \o q = pre \o (<<k>> \o q)
<1>1. Append(pre, k) \in Seq(Keys)  BY AppendProperties
<1>2. Append(pre, k) = pre \o <<k>>  BY AppendIsConcat
<1>3. <<k>> \in Seq(Keys)  BY OneIs, TrailIs
<1>4. \A q \in Seq(Keys) : (pre \o <<k>>) \o q = pre \o (<<k>> \o q)  BY <1>3, ConcatAssociative
<1> QED  BY <1>1, <1>2, <1>4

\* An unplaced path is a key without a field, or an unplaced path of a nested table.
LEMMA UnplacedIs ==
    ASSUME NEW d \in Tables, NEW type \in Types, NEW pre \in Seq(Keys), NEW x
    PROVE  Unplaced(x, pre, d, type) <=>
               \/ \E k \in Given(d) : FieldOf(type, k) = Nothing /\ x = Append(pre, k)
               \/ \E k \in Nested(d) : Unplaced(x, Append(pre, k), d[k].table, FieldOf(type, k))
<1>1. ASSUME NEW p \in Paths(d), TypeAt(type, p) = Nothing, x = pre \o p
      PROVE  \/ \E k \in Given(d) : FieldOf(type, k) = Nothing /\ x = Append(pre, k)
             \/ \E k \in Nested(d) : Unplaced(x, Append(pre, k), d[k].table, FieldOf(type, k))
  <2>1. p \in Trails  BY PathIs
  <2>2. PICK k \in Keys : k = p[1]  BY <2>1, TrailIs
  <2>3. PICK q \in Seq(Keys) : q = Tail(p)  BY <2>1, TrailIs
  <2>4. p = <<k>> \o q /\ Len(q) = Len(p) - 1 /\ Len(p) \in Nat  BY <2>1, <2>2, <2>3, TrailIs
  <2>5. TypeAt(FieldOf(type, k), q) = Nothing  BY <1>1, <2>1, <2>2, <2>3, TypeBelow
  <2>6. CASE Len(p) = 1
    <3>1. d[k] # Nothing /\ p = <<k>>  BY <2>1, <2>2, <2>6, PathIs, TrailIs
    <3>2. Len(q) = 0  BY <2>4, <2>6
    <3>3. FieldOf(type, k) = Nothing  BY <2>5, <3>2, FieldsAre, TypeHere
    <3>4. x = Append(pre, k)  BY <1>1, <3>1, AppendIs
    <3> QED  BY <3>1, <3>3, <3>4 DEF Given
  <2>7. CASE Len(p) # 1
    <3>1. IsTable(d[k]) /\ q \in Paths(d[k].table)  BY <2>1, <2>2, <2>3, <2>7, PathIs
    <3>2. x = Append(pre, k) \o q  BY <1>1, <2>4, AppendIs
    <3>3. k \in Nested(d)  BY <3>1 DEF Nested
    <3> QED  BY <2>5, <3>1, <3>2, <3>3 DEF Unplaced
  <2> QED  BY <2>6, <2>7
<1>2. ASSUME NEW k \in Given(d), FieldOf(type, k) = Nothing, x = Append(pre, k)
      PROVE  Unplaced(x, pre, d, type)
  <2>1. k \in Keys /\ d[k] # Nothing  BY DEF Given
  <2>2. <<k>> \in Trails /\ Len(<<k>>) = 1 /\ <<k>>[1] = k  BY <2>1, OneIs
  <2>3. <<k>> \in Paths(d)  BY <2>1, <2>2, PathIs
  <2>4. Tail(<<k>>) \in Seq(Keys) /\ Len(Tail(<<k>>)) = 0
    <3>1. Tail(<<k>>) \in Seq(Keys) /\ Len(Tail(<<k>>)) = 1 - 1  BY <2>2, TrailIs
    <3> QED  BY <3>1
  <2>5. TypeAt(FieldOf(type, k), Tail(<<k>>)) = Nothing  BY <1>2, <2>1, <2>4, FieldsAre, TypeHere
  <2>6. TypeAt(type, <<k>>) = Nothing  BY <2>2, <2>5, TypeBelow
  <2>7. x = pre \o <<k>>  BY <1>2, <2>1, AppendIs
  <2> QED  BY <2>3, <2>6, <2>7 DEF Unplaced
<1>3. ASSUME NEW k \in Nested(d), Unplaced(x, Append(pre, k), d[k].table, FieldOf(type, k))
      PROVE  Unplaced(x, pre, d, type)
  <2>1. k \in Keys /\ IsTable(d[k]) /\ d[k].table \in Tables  BY TableIs DEF Nested
  <2>2. PICK q \in Paths(d[k].table) : TypeAt(FieldOf(type, k), q) = Nothing /\ x = Append(pre, k) \o q
    BY <1>3 DEF Unplaced
  <2>3. q \in Seq(Keys) /\ Len(q) \in Nat \ {0}  BY <2>1, PathIs, TrailIs
  <2>4. PICK p : p = <<k>> \o q  OBVIOUS
  <2>5. p \in Trails /\ Len(p) # 1 /\ p[1] = k /\ Tail(p) = q  BY <2>1, <2>3, <2>4, ConsIs
  <2>6. p \in Paths(d)  BY <2>1, <2>5, PathIs
  <2>7. TypeAt(type, p) = Nothing  BY <2>2, <2>5, TypeBelow
  <2>8. x = pre \o p  BY <2>1, <2>2, <2>3, <2>4, AppendIs
  <2> QED  BY <2>6, <2>7, <2>8 DEF Unplaced
<1> QED  BY <1>1, <1>2, <1>3 DEF Unplaced

\* What _warn_unknown_keys finds in the table under a key, and what it finds in a whole table.
EachWarned(f, t, class, pre) == UNION {f[<<t[e].table, class, Append(pre, e)>>] : e \in Nested(t)}

InWarned(f, t, type, pre) ==
    IF IsModel(type) THEN f[<<t, type.model, pre>>]
    ELSE IF IsEach(type) THEN EachWarned(f, t, type.each, pre)
    ELSE {}

WarnStep(f, part) ==
    {Append(part[3], k) : k \in {k \in Given(part[1]) : Fields[part[2]][k] = Nothing}}
    \cup UNION {InWarned(f, part[1][k].table, Fields[part[2]][k], Append(part[3], k)) : k \in Nested(part[1])}

Parts(tables) == tables \X Classes \X Seq(Keys)

LEMMA WarnStepIs ==
    ASSUME NEW f, NEW d, NEW c, NEW pre, NEW x
    PROVE  x \in WarnStep(f, <<d, c, pre>>) <=>
               \/ \E k \in Given(d) : Fields[c][k] = Nothing /\ x = Append(pre, k)
               \/ \E k \in Nested(d) : x \in InWarned(f, d[k].table, Fields[c][k], Append(pre, k))
<1>1. PICK here : here = {Append(pre, k) : k \in {k \in Given(d) : Fields[c][k] = Nothing}}  OBVIOUS
<1>2. PICK below : below = UNION {InWarned(f, d[k].table, Fields[c][k], Append(pre, k)) : k \in Nested(d)}
  OBVIOUS
<1>3. x \in here <=> \E k \in Given(d) : Fields[c][k] = Nothing /\ x = Append(pre, k)  BY <1>1
<1>4. x \in below <=> \E k \in Nested(d) : x \in InWarned(f, d[k].table, Fields[c][k], Append(pre, k))
  BY <1>2
<1>5. WarnStep(f, <<d, c, pre>>) = here \cup below  BY <1>1, <1>2 DEF WarnStep
<1> QED  BY <1>3, <1>4, <1>5

\* The two look at tables that are less deep, and at functions only there.
LEMMA InWarnedSame ==
    ASSUME NEW n \in 1..Depth, NEW d \in Levels[n], NEW k \in Nested(d), NEW type \in Types, NEW pre \in Seq(Keys),
           NEW g, NEW h, \A r \in Parts(Levels[n - 1]) : g[r] = h[r]
    PROVE  InWarned(g, d[k].table, type, pre) = InWarned(h, d[k].table, type, pre)
<1>1. k \in Keys /\ IsTable(d[k])  BY DEF Nested
<1>2. PICK t \in Levels[n - 1] : t = d[k].table  BY <1>1, NodeIs
<1>3. CASE IsModel(type)
  <2>1. type.model \in Classes  BY <1>1, <1>3, TypeIs
  <2>2. <<t, type.model, pre>> \in Parts(Levels[n - 1])  BY <2>1 DEF Parts
  <2> QED  BY <1>2, <1>3, <2>2 DEF InWarned
<1>4. CASE IsEach(type) /\ ~IsModel(type)
  <2>1. type.each \in Classes  BY <1>1, <1>4, TypeIs
  <2>2. ASSUME NEW e \in Nested(t)
        PROVE  g[<<t[e].table, type.each, Append(pre, e)>>] = h[<<t[e].table, type.each, Append(pre, e)>>]
    <3>1. e \in Keys /\ IsTable(t[e])  BY DEF Nested
    <3>2. t[e].table \in Levels[n - 1]
      <4>1. n - 1 # 0  BY LevelIs
      <4>2. n - 1 \in 1..Depth /\ n - 1 - 1 \in 0..Depth  BY <4>1, LevelIs
      <4>3. t[e].table \in Levels[n - 1 - 1]  BY <3>1, <4>2, NodeIs
      <4> QED  BY <4>2, <4>3, LevelIs
    <3>3. <<t[e].table, type.each, Append(pre, e)>> \in Parts(Levels[n - 1])
      BY <2>1, <3>1, <3>2, AppendIs DEF Parts
    <3> QED  BY <3>3
  <2>3. EachWarned(g, t, type.each, pre) = EachWarned(h, t, type.each, pre)  BY <2>2 DEF EachWarned
  <2> QED  BY <1>2, <1>4, <2>3 DEF InWarned
<1>5. CASE ~IsEach(type) /\ ~IsModel(type)  BY <1>5 DEF InWarned
<1> QED  BY <1>3, <1>4, <1>5

LEMMA InWarnedType ==
    ASSUME NEW f \in [Parts(Tables) -> SUBSET Seq(Keys)], NEW t \in Tables, NEW type \in Types, NEW pre \in Seq(Keys),
           NEW k \in Keys
    PROVE  InWarned(f, t, type, pre) \subseteq Seq(Keys)
<1>1. CASE IsModel(type)
  <2>1. <<t, type.model, pre>> \in Parts(Tables)  BY <1>1, TypeIs DEF Parts
  <2> QED  BY <1>1, <2>1 DEF InWarned
<1>2. CASE IsEach(type) /\ ~IsModel(type)
  <2>1. ASSUME NEW e \in Nested(t) PROVE f[<<t[e].table, type.each, Append(pre, e)>>] \subseteq Seq(Keys)
    <3>1. e \in Keys /\ t[e].table \in Tables  BY TableIs DEF Nested
    <3>2. <<t[e].table, type.each, Append(pre, e)>> \in Parts(Tables)  BY <1>2, <3>1, TypeIs, AppendIs DEF Parts
    <3> QED  BY <3>2
  <2>2. EachWarned(f, t, type.each, pre) \subseteq Seq(Keys)  BY <2>1 DEF EachWarned
  <2> QED  BY <1>2, <2>2 DEF InWarned
<1>3. CASE ~IsEach(type) /\ ~IsModel(type)  BY <1>3 DEF InWarned
<1> QED  BY <1>1, <1>2, <1>3

LEMMA WarnStepType ==
    ASSUME NEW f \in [Parts(Tables) -> SUBSET Seq(Keys)], NEW part \in Parts(Tables)
    PROVE  WarnStep(f, part) \in SUBSET Seq(Keys)
<1>1. PICK d \in Tables, c \in Classes, pre \in Seq(Keys) : part = <<d, c, pre>>  BY DEF Parts
<1>2. ASSUME NEW x \in WarnStep(f, <<d, c, pre>>) PROVE x \in Seq(Keys)
  <2>1. CASE \E k \in Given(d) : Fields[c][k] = Nothing /\ x = Append(pre, k)  BY <2>1, AppendIs DEF Given
  <2>2. ASSUME NEW k \in Nested(d), x \in InWarned(f, d[k].table, Fields[c][k], Append(pre, k))
        PROVE  x \in Seq(Keys)
    <3>1. k \in Keys /\ d[k].table \in Tables  BY TableIs DEF Nested
    <3>2. Fields[c][k] \in Types /\ Append(pre, k) \in Seq(Keys)  BY <3>1, FieldsAre, AppendIs
    <3> QED  BY <2>2, <3>1, <3>2, InWarnedType
  <2> QED  BY <1>2, <2>1, <2>2, WarnStepIs
<1> QED  BY <1>1, <1>2

LEMMA WarningsEquation == Warnings = [part \in Parts(Tables) |-> WarnStep(Warnings, part)]
<1> DEFINE S == Parts(Tables)
           V == SUBSET Seq(Keys)
           L == [n \in 0..Depth |-> Parts(Levels[n])]
           D == [x \in [S -> V] \X S |-> WarnStep(x[1], x[2])]
<1>1. L[0] = {} /\ L[Depth] = S /\ \A n \in 1..Depth : L[n] \subseteq S
  <2>1. Parts({}) = {} /\ \A n \in 0..Depth : Parts(Levels[n]) \subseteq S  BY LevelIs DEF Parts
  <2>2. \A n \in 0..Depth : L[n] = Parts(Levels[n])  OBVIOUS
  <2>3. 0 \in 0..Depth /\ Depth \in 0..Depth /\ \A n \in 1..Depth : n \in 0..Depth  BY LevelIs
  <2>4. Parts(Levels[Depth]) = S /\ Parts(Levels[0]) = {}
    <3>1. Levels[Depth] = Tables  BY DEF Tables
    <3>2. Levels[0] = {}  BY LevelIs
    <3> QED  BY <2>1, <3>1, <3>2
  <2> HIDE DEF S, L
  <2> QED  BY <2>1, <2>2, <2>3, <2>4
<1>2. D \in [[S -> V] \X S -> V]
  <2>1. \A f \in [S -> V] : \A part \in S : WarnStep(f, part) \in V  BY WarnStepType
  <2> HIDE DEF S, V
  <2> QED  BY <2>1
<1>3. ASSUME NEW n \in 1..Depth, NEW g \in [S -> V], NEW h \in [S -> V], NEW s \in L[n],
             \A r \in L[n - 1] : g[r] = h[r]
      PROVE  D[<<g, s>>] = D[<<h, s>>]
  <2>1. s \in Parts(Levels[n]) /\ \A r \in Parts(Levels[n - 1]) : g[r] = h[r]
    <3>1. L[n] = Parts(Levels[n]) /\ L[n - 1] = Parts(Levels[n - 1])  BY LevelIs
    <3> HIDE DEF L
    <3> QED  BY <1>3, <3>1
  <2>2. PICK d \in Levels[n], c \in Classes, pre \in Seq(Keys) : s = <<d, c, pre>>  BY <2>1 DEF Parts
  <2>3. \A k \in Nested(d) : InWarned(g, d[k].table, Fields[c][k], Append(pre, k))
                             = InWarned(h, d[k].table, Fields[c][k], Append(pre, k))
    <3>1. SUFFICES ASSUME NEW k \in Nested(d)
                   PROVE  InWarned(g, d[k].table, Fields[c][k], Append(pre, k))
                          = InWarned(h, d[k].table, Fields[c][k], Append(pre, k))
      OBVIOUS
    <3>2. PICK type \in Types : type = Fields[c][k]  BY FieldsAre DEF Nested
    <3>3. PICK p \in Seq(Keys) : p = Append(pre, k)  BY AppendIs DEF Nested
    <3> HIDE DEF S, V, L, D
    <3>4. InWarned(g, d[k].table, type, p) = InWarned(h, d[k].table, type, p)  BY <2>1, InWarnedSame
    <3> QED  BY <3>2, <3>3, <3>4
  <2>4. \A x : x \in WarnStep(g, s) <=> x \in WarnStep(h, s)  BY <2>2, <2>3, WarnStepIs
  <2>5. WarnStep(g, s) = WarnStep(h, s)  BY <2>4
  <2>6. s \in S  BY <1>1
  <2> HIDE DEF S, V, L
  <2> QED  BY <2>5, <2>6
<1>4. PICK f \in [S -> V] : \A s \in S : f[s] = D[<<f, s>>]
  <2>1. {} \in V  OBVIOUS
  <2> HIDE DEF D, S, V, L
  <2>2. ByLevels(Depth, L, S, V, D)  BY <1>1, <1>2, <1>3 DEF ByLevels
  <2>3. Solvable(S, V, D)  BY <2>1, <2>2, LevelIs, Recursion
  <2> QED  BY <2>3 DEF Solvable
<1>5. f = [part \in S |-> WarnStep(f, part)]
  <2>1. \A s \in S : f[s] = WarnStep(f, s)  BY <1>4
  <2> HIDE DEF S, V
  <2> QED  BY <2>1
<1>6. \E g : g = [part \in Parts(Tables) |-> WarnStep(g, part)]  BY <1>5
<1> QED  BY <1>6 DEF Warnings, WarnStep, InWarned, EachWarned, Parts

\* Under a key, and in a whole table: what is warned of has no place.
LEMMA InWarnedIs ==
    ASSUME NEW n \in 1..Depth, NEW d \in Levels[n], NEW k \in Nested(d), NEW type \in Types, NEW pre \in Seq(Keys),
           NEW x, NEW f,
           \A t \in Levels[n - 1] : \A c \in Classes : \A p \in Seq(Keys) :
               x \in f[<<t, c, p>>] <=> Unplaced(x, p, t, Model(c))
    PROVE  x \in InWarned(f, d[k].table, type, pre) <=> Unplaced(x, pre, d[k].table, type)
<1>1. k \in Keys /\ IsTable(d[k])  BY DEF Nested
<1>2. PICK t \in Levels[n - 1] : t = d[k].table  BY <1>1, NodeIs
<1>3. t \in Tables  BY LevelIs
<1>4. CASE IsModel(type)
  <2>1. type = Model(type.model) /\ type.model \in Classes  BY <1>1, <1>4, TypeIs
  <2>2. x \in f[<<t, type.model, pre>>] <=> Unplaced(x, pre, t, type)  BY <2>1
  <2> QED  BY <1>2, <1>4, <2>2 DEF InWarned
<1>5. CASE IsEach(type) /\ ~IsModel(type)
  <2>1. type.each \in Classes /\ \A e \in Keys : FieldOf(type, e) = Model(type.each) /\ FieldOf(type, e) # Nothing
    <3>1. type.each \in Classes /\ \A e \in Keys : FieldOf(type, e) = Model(type.each)  BY <1>1, <1>5, TypeIs
    <3> QED  BY <3>1, FieldsAre
  <2>2. Unplaced(x, pre, t, type) <=> \E e \in Nested(t) : Unplaced(x, Append(pre, e), t[e].table, Model(type.each))
    <3>1. Given(t) \subseteq Keys /\ Nested(t) \subseteq Keys  BY DEF Given, Nested
    <3> QED  BY <1>3, <2>1, <3>1, UnplacedIs
  <2>3. ASSUME NEW e \in Nested(t)
        PROVE  x \in f[<<t[e].table, type.each, Append(pre, e)>>]
               <=> Unplaced(x, Append(pre, e), t[e].table, Model(type.each))
    <3>1. e \in Keys /\ IsTable(t[e])  BY DEF Nested
    <3>2. t[e].table \in Levels[n - 1]
      <4>1. n - 1 # 0  BY LevelIs
      <4>2. n - 1 \in 1..Depth /\ n - 1 - 1 \in 0..Depth  BY <4>1, LevelIs
      <4>3. t[e].table \in Levels[n - 1 - 1]  BY <3>1, <4>2, NodeIs
      <4> QED  BY <4>2, <4>3, LevelIs
    <3>3. Append(pre, e) \in Seq(Keys)  BY <3>1, AppendIs
    <3> QED  BY <2>1, <3>2, <3>3
  <2>4. x \in EachWarned(f, t, type.each, pre) <=> \E e \in Nested(t) : x \in f[<<t[e].table, type.each, Append(pre, e)>>]
    BY DEF EachWarned
  <2> QED  BY <1>2, <1>5, <2>2, <2>3, <2>4 DEF InWarned
<1>6. CASE ~IsEach(type) /\ ~IsModel(type)
  <2>1. type \in {Nothing, Plain}  BY <1>1, <1>6, TypeIs
  <2>2. \A p \in Paths(t) : TypeAt(type, p) # Nothing  BY <1>3, <2>1, PathIs, TypePlain, FieldsAre
  <2> QED  BY <1>2, <1>6, <2>2 DEF InWarned, Unplaced
<1> QED  BY <1>4, <1>5, <1>6

LEMMA WarningsAre ==
    ASSUME NEW x
    PROVE  \A d \in Tables : \A c \in Classes : \A pre \in Seq(Keys) :
               x \in Warnings[<<d, c, pre>>] <=> Unplaced(x, pre, d, Model(c))
<1>1. PICK f : f = Warnings  OBVIOUS
<1>2. \A d \in Tables : \A c \in Classes : \A pre \in Seq(Keys) : f[<<d, c, pre>>] = WarnStep(f, <<d, c, pre>>)
  BY <1>1, WarningsEquation DEF Parts
<1> DEFINE G == {d \in Tables : \A c \in Classes : \A pre \in Seq(Keys) :
                     x \in f[<<d, c, pre>>] <=> Unplaced(x, pre, d, Model(c))}
<1>3. ASSUME NEW n \in 1..Depth, Levels[n - 1] \subseteq G PROVE Levels[n] \subseteq G
  <2>1. SUFFICES ASSUME NEW d \in Levels[n], NEW c \in Classes, NEW pre \in Seq(Keys)
                 PROVE  x \in f[<<d, c, pre>>] <=> Unplaced(x, pre, d, Model(c))
    <3>1. \A d \in Levels[n] : d \in Tables  BY LevelIs
    <3> QED  BY <3>1
  <2>2. d \in Tables  BY LevelIs
  <2>3. \A t \in Levels[n - 1] : \A b \in Classes : \A p \in Seq(Keys) :
            x \in f[<<t, b, p>>] <=> Unplaced(x, p, t, Model(b))
    BY <1>3
  <2>4. ASSUME NEW k \in Nested(d)
        PROVE  x \in InWarned(f, d[k].table, Fields[c][k], Append(pre, k))
               <=> Unplaced(x, Append(pre, k), d[k].table, Fields[c][k])
    <3>1. k \in Keys  BY DEF Nested
    <3>2. Fields[c][k] \in Types /\ Append(pre, k) \in Seq(Keys)  BY <3>1, FieldsAre, AppendIs
    <3> HIDE DEF G
    <3> QED  BY <2>3, <3>2, InWarnedIs
  <2>5. x \in WarnStep(f, <<d, c, pre>>) <=>
            \/ \E k \in Given(d) : Fields[c][k] = Nothing /\ x = Append(pre, k)
            \/ \E k \in Nested(d) : x \in InWarned(f, d[k].table, Fields[c][k], Append(pre, k))
    BY WarnStepIs
  <2>6. Unplaced(x, pre, d, Model(c)) <=>
            \/ \E k \in Given(d) : Fields[c][k] = Nothing /\ x = Append(pre, k)
            \/ \E k \in Nested(d) : Unplaced(x, Append(pre, k), d[k].table, Fields[c][k])
    <3>1. Given(d) \subseteq Keys /\ Nested(d) \subseteq Keys  BY DEF Given, Nested
    <3>2. Model(c) \in Types /\ \A k \in Keys : FieldOf(Model(c), k) = Fields[c][k]  BY FieldsAre
    <3>3. Unplaced(x, pre, d, Model(c)) <=>
              \/ \E k \in Given(d) : FieldOf(Model(c), k) = Nothing /\ x = Append(pre, k)
              \/ \E k \in Nested(d) : Unplaced(x, Append(pre, k), d[k].table, FieldOf(Model(c), k))
      BY <2>2, <3>2, UnplacedIs
    <3> QED  BY <3>1, <3>2, <3>3
  <2> HIDE DEF G
  <2> QED  BY <1>2, <2>2, <2>4, <2>5, <2>6
<1>4. Tables \subseteq G
  <2> HIDE DEF G
  <2> QED  BY <1>3, TableInduction
<1> QED  BY <1>1, <1>4

\* Exactly the keys without a place are warned of.
LEMMA WarnsOfUnplaced == \A data \in Tables : WarnsOf(data, WarnUnknown(data))
<1>1. SUFFICES ASSUME NEW data \in Tables PROVE WarnsOf(data, WarnUnknown(data))  OBVIOUS
<1>2. TopClass \in Classes /\ <<>> \in Seq(Keys)  BY ConfigAssumption
<1>3. \A x : x \in WarnUnknown(data) <=> Unplaced(x, <<>>, data, Model(TopClass))
  BY <1>2, WarningsAre DEF WarnUnknown
<1>4. \A p \in Paths(data) : <<>> \o p = p
  <2>1. \A p \in Paths(data) : p \in Seq(Keys)  BY PathIs, TrailIs
  <2> QED  BY <2>1, ConcatEmptySeq
<1>5. \A x : x \in WarnUnknown(data) <=> x \in Paths(data) /\ TypeAt(Model(TopClass), x) = Nothing
  BY <1>3, <1>4 DEF Unplaced
<1>6. WarnUnknown(data) = {path \in Paths(data) : TypeAt(Model(TopClass), path) = Nothing}  BY <1>5
<1> QED  BY <1>6 DEF WarnsOf
==============================================================================

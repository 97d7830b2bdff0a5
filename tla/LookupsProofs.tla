---------------------------- MODULE LookupsProofs ----------------------------
(***************************************************************************)
(* What the lookups compute, for every input: the tail of a job's output    *)
(* file, for every file, number of lines and size of the window; the answer *)
(* to a request on the WebDAV tree, for every state of the instances, path  *)
(* and method; the configuration and its warnings, for every file.  And     *)
(* that paging is complete, for any number of jobs, clock and limits.       *)
(***************************************************************************)
EXTENDS Lookups, ConfigLayersProofs

------------------------------------------------------------------------------
(* The k-th of a finite set of numbers.                                     *)

LEMMA RankBounds ==
    ASSUME NEW S, IsFiniteSet(S), S \subseteq Int, NEW e \in Int
    PROVE  /\ Rank(S, e) \in 0..Cardinality(S)
           /\ e \in S => Rank(S, e) >= 1
           /\ (\A d \in S : d <= e) => Rank(S, e) = Cardinality(S)
<1> DEFINE D == {d \in S : d <= e}
<1>1. IsFiniteSet(D) /\ Cardinality(D) <= Cardinality(S)  BY FS_Subset
<1>2. Cardinality(D) \in Nat /\ Cardinality(S) \in Nat  BY <1>1, FS_CardinalityType
<1>3. ASSUME e \in S PROVE Cardinality(D) >= 1
  <2>1. e \in D  BY <1>3
  <2>2. D # {}  BY <2>1
  <2> HIDE DEF D
  <2>3. Cardinality(D) # 0  BY <1>1, <2>2, FS_EmptySet
  <2> QED  BY <1>2, <2>3
<1>4. ASSUME \A d \in S : d <= e PROVE Cardinality(D) = Cardinality(S)
  <2>1. D = S  BY <1>4
  <2> QED  BY <2>1
<1>5. Rank(S, e) = Cardinality(D)  BY DEF Rank
<1> HIDE DEF D
<1> QED  BY <1>1, <1>2, <1>3, <1>4, <1>5

LEMMA RankGrows ==
    ASSUME NEW S, IsFiniteSet(S), S \subseteq Int, NEW a \in Int, NEW e \in S, a < e
    PROVE  Rank(S, a) < Rank(S, e)
<1> DEFINE A == {d \in S : d <= a}
           D == {d \in S : d <= e}
<1>1. IsFiniteSet(D) /\ A \subseteq D /\ e \in D /\ e \notin A
  <2>1. IsFiniteSet(D)  BY FS_Subset
  <2>2. \A d \in S : d \in Int /\ (d <= a => d <= e)  OBVIOUS
  <2>3. e \in Int /\ e <= e /\ ~(e <= a)  OBVIOUS
  <2> QED  BY <2>1, <2>2, <2>3
<1>2. Rank(S, a) = Cardinality(A) /\ Rank(S, e) = Cardinality(D)  BY DEF Rank
<1> HIDE DEF A, D
<1>3. IsFiniteSet(A) /\ Cardinality(A) <= Cardinality(D) /\ Cardinality(D) # Cardinality(A)
  BY <1>1, FS_Subset
<1>4. Cardinality(A) \in Nat /\ Cardinality(D) \in Nat  BY <1>1, <1>3, FS_CardinalityType
<1> QED  BY <1>2, <1>3, <1>4

\* Equal or smaller numbers have no higher rank.
LEMMA RankMonotone ==
    ASSUME NEW S, IsFiniteSet(S), S \subseteq Int, NEW a \in Int, NEW b \in Int, a <= b
    PROVE  Rank(S, a) <= Rank(S, b)
<1> DEFINE A == {d \in S : d <= a}
           D == {d \in S : d <= b}
<1>1. IsFiniteSet(D) /\ A \subseteq D
  <2>1. IsFiniteSet(D)  BY FS_Subset
  <2>2. \A d \in S : d \in Int /\ (d <= a => d <= b)  OBVIOUS
  <2> QED  BY <2>1, <2>2
<1>2. Rank(S, a) = Cardinality(A) /\ Rank(S, b) = Cardinality(D)  BY DEF Rank
<1> HIDE DEF A, D
<1> QED  BY <1>1, <1>2, FS_Subset

\* There is exactly one k-th element.
LEMMA NthIs ==
    ASSUME NEW S, IsFiniteSet(S), S \subseteq Int, NEW k \in 1..Cardinality(S)
    PROVE  Nth(S, k) \in S /\ Rank(S, Nth(S, k)) = k
<1> DEFINE f == [e \in S |-> Rank(S, e)]
<1>1. Cardinality(S) \in Nat  BY FS_CardinalityType
<1>2. IsFiniteSet(1..Cardinality(S)) /\ Cardinality(1..Cardinality(S)) = Cardinality(S)
  BY <1>1, FS_Interval
<1>3. f \in [S -> 1..Cardinality(S)]
  <2>1. \A e \in S : Rank(S, e) \in 0..Cardinality(S) /\ Rank(S, e) >= 1  BY RankBounds
  <2> QED  BY <1>1, <2>1
<1>4. \A a, b \in S : f[a] = f[b] => a = b
  <2>1. \A a, b \in S : a < b => Rank(S, a) < Rank(S, b)  BY RankGrows
  <2>2. \A a, b \in S : a < b \/ b < a \/ a = b  OBVIOUS
  <2>3. \A a \in S : Rank(S, a) \in Int  BY <1>3
  <2> QED  BY <2>1, <2>2, <2>3
<1>5. f \in Injection(S, 1..Cardinality(S))  BY <1>3, <1>4 DEF Injection, IsInjective
<1>6. f \in Surjection(S, 1..Cardinality(S))  BY <1>2, <1>5, FS_Injection
<1>7. \E e \in S : Rank(S, e) = k  BY <1>6 DEF Surjection
<1> QED  BY <1>7 DEF Nth

LEMMA NthOfRank ==
    ASSUME NEW S, IsFiniteSet(S), S \subseteq Int, NEW e \in S
    PROVE  Nth(S, Rank(S, e)) = e
<1>1. Rank(S, e) \in 1..Cardinality(S)
  <2>1. Rank(S, e) \in 0..Cardinality(S) /\ Rank(S, e) >= 1  BY RankBounds
  <2>2. Cardinality(S) \in Nat  BY FS_CardinalityType
  <2> QED  BY <2>1, <2>2
<1>2. PICK n : n = Nth(S, Rank(S, e))  OBVIOUS
<1>3. n \in S /\ Rank(S, n) = Rank(S, e)  BY <1>1, <1>2, NthIs
<1>4. n \in Int /\ e \in Int /\ Rank(S, e) \in Int /\ Cardinality(S) \in Nat
  BY <1>1, <1>3, FS_CardinalityType
<1>5. ~(n < e)
  <2>1. n < e => Rank(S, n) < Rank(S, e)  BY <1>4, RankGrows
  <2> QED  BY <1>3, <1>4, <2>1
<1>6. ~(e < n)
  <2>1. e < n => Rank(S, e) < Rank(S, n)  BY <1>3, <1>4, RankGrows
  <2> QED  BY <1>3, <1>4, <2>1
<1> QED  BY <1>2, <1>4, <1>5, <1>6

\* A set that is shifted, and cut off below: the ranks are shifted by what was cut off.
LEMMA RankShift ==
    ASSUME NEW S, IsFiniteSet(S), S \subseteq Int, NEW o \in Int,
           NEW T, T \subseteq Int, \A e \in Int : e \in T <=> e > 0 /\ e + o \in S,
           NEW e \in Int, e >= 0
    PROVE  /\ IsFiniteSet(T)
           /\ Rank(T, e) = Rank(S, e + o) - Rank(S, o)
<1> DEFINE A == {d \in S : d <= o}
           C == {d \in S : o < d /\ d <= e + o}
           D == {d \in S : d <= e + o}
           B == {d \in T : d <= e}
           U == {d \in S : o < d}
<1>1. D = A \cup C /\ A \cap C = {}
  <2>1. \A d \in S : d \in Int /\ (d <= e + o <=> d <= o \/ (o < d /\ d <= e + o)) /\ ~(d <= o /\ o < d)
    OBVIOUS
  <2> QED  BY <2>1
<1>2. IsFiniteSet(A) /\ IsFiniteSet(C) /\ IsFiniteSet(D) /\ IsFiniteSet(U)
  BY FS_Subset
<1>3. Cardinality(D) = Cardinality(A) + Cardinality(C)
  <2>1. Cardinality(A \cup C) = Cardinality(A) + Cardinality(C) - Cardinality(A \cap C)
    <3> HIDE DEF A, C
    <3> QED  BY <1>2, FS_Union
  <2>2. Cardinality(A \cap C) = 0  BY <1>1, FS_EmptySet
  <2> HIDE DEF A, C, D
  <2>3. Cardinality(A) \in Nat /\ Cardinality(C) \in Nat  BY <1>2, FS_CardinalityType
  <2> QED  BY <1>1, <2>1, <2>2, <2>3
<1>4. IsFiniteSet(T)
  <2> DEFINE f == [d \in U |-> d - o]
  <2>1. f \in [U -> T]
    <3>1. \A d \in U : d - o \in Int /\ d - o > 0 /\ (d - o) + o = d  OBVIOUS
    <3> QED  BY <3>1
  <2>2. \A a, b \in U : f[a] = f[b] => a = b  OBVIOUS
  <2>3. \A t \in T : \E d \in U : f[d] = t
    <3> SUFFICES ASSUME NEW t \in T PROVE \E d \in U : f[d] = t  OBVIOUS
    <3>1. t + o \in U /\ (t + o) - o = t  OBVIOUS
    <3> QED  BY <3>1
  <2>4. f \in Bijection(U, T)  BY <2>1, <2>2, <2>3 DEF Bijection, Injection, Surjection, IsInjective
  <2> HIDE DEF f, U
  <2> QED  BY <1>2, <2>4, FS_Bijection DEF ExistsBijection
<1>5. Cardinality(B) = Cardinality(C)
  <2> DEFINE f == [d \in C |-> d - o]
  <2>1. f \in [C -> B]
    <3>1. \A d \in C : d - o \in Int /\ d - o > 0 /\ (d - o) + o = d /\ d - o <= e  OBVIOUS
    <3> QED  BY <3>1
  <2>2. \A a, b \in C : f[a] = f[b] => a = b  OBVIOUS
  <2>3. \A t \in B : \E d \in C : f[d] = t
    <3> SUFFICES ASSUME NEW t \in B PROVE \E d \in C : f[d] = t  OBVIOUS
    <3>1. t + o \in C /\ (t + o) - o = t  OBVIOUS
    <3> QED  BY <3>1
  <2>4. f \in Bijection(C, B)  BY <2>1, <2>2, <2>3 DEF Bijection, Injection, Surjection, IsInjective
  <2> HIDE DEF f, B, C
  <2> QED  BY <1>2, <2>4, FS_Bijection DEF ExistsBijection
<1>6. Cardinality(A) \in Nat /\ Cardinality(C) \in Nat
  <2> HIDE DEF A, C
  <2> QED  BY <1>2, FS_CardinalityType
<1>7. Rank(T, e) = Cardinality(B) /\ Rank(S, e + o) = Cardinality(D) /\ Rank(S, o) = Cardinality(A)
  BY DEF Rank
<1> HIDE DEF A, B, C, D
<1> QED  BY <1>3, <1>4, <1>5, <1>6, <1>7

------------------------------------------------------------------------------
(* The lines of an output file.                                             *)

LEMMA EndsOf ==
    ASSUME NEW data \in Seq(Bytes)
    PROVE  /\ LineEnds(data) \subseteq 1..Len(data) /\ LineEnds(data) \subseteq Int
           /\ IsFiniteSet(LineEnds(data)) /\ Lines(data) \in Nat
           /\ Len(data) > 0 => Len(data) \in LineEnds(data)
<1>1. LineEnds(data) \subseteq 1..Len(data)  BY DEF LineEnds
<1>2. IsFiniteSet(1..Len(data))  BY FS_Interval
<1>3. IsFiniteSet(LineEnds(data))  BY <1>1, <1>2, FS_Subset
<1>4. Len(data) > 0 => Len(data) \in LineEnds(data)  BY DEF LineEnds
<1>5. Lines(data) \in Nat  BY <1>3, FS_CardinalityType DEF Lines
<1> QED  BY <1>1, <1>3, <1>4, <1>5

LEMMA BoundIs ==
    ASSUME NEW data \in Seq(Bytes), NEW k \in 0..Lines(data)
    PROVE  /\ Bound(data, k) \in 0..Len(data)
           /\ Rank(LineEnds(data), Bound(data, k)) = k
           /\ k > 0 => Bound(data, k) \in LineEnds(data)
<1>1. CASE k = 0
  <2>1. {d \in LineEnds(data) : d <= 0} = {}  BY EndsOf
  <2>2. Rank(LineEnds(data), 0) = 0  BY <2>1, FS_EmptySet DEF Rank
  <2> QED  BY <1>1, <2>2 DEF Bound
<1>2. CASE k > 0
  <2>1. k \in 1..Cardinality(LineEnds(data)) /\ Bound(data, k) = Nth(LineEnds(data), k)
    BY <1>2, EndsOf DEF Bound, Lines
  <2>2. Nth(LineEnds(data), k) \in LineEnds(data) /\ Rank(LineEnds(data), Nth(LineEnds(data), k)) = k
    BY <2>1, EndsOf, NthIs
  <2>3. Bound(data, k) \in 1..Len(data)  BY <2>1, <2>2, EndsOf
  <2> QED  BY <2>1, <2>2, <2>3
<1> QED  BY <1>1, <1>2, EndsOf

LEMMA BoundOfRank ==
    ASSUME NEW data \in Seq(Bytes), NEW e \in LineEnds(data)
    PROVE  Bound(data, Rank(LineEnds(data), e)) = e
<1>1. IsFiniteSet(LineEnds(data)) /\ LineEnds(data) \subseteq Int /\ e \in Int  BY EndsOf
<1>2. Rank(LineEnds(data), e) >= 1  BY <1>1, RankBounds
<1>3. Nth(LineEnds(data), Rank(LineEnds(data), e)) = e  BY <1>1, NthOfRank
<1> QED  BY <1>2, <1>3 DEF Bound

LEMMA BoundsGrow ==
    ASSUME NEW data \in Seq(Bytes), NEW j \in 0..Lines(data), NEW k \in 0..Lines(data), j < k
    PROVE  Bound(data, j) < Bound(data, k)
<1>1. PICK a, b \in Int : a = Bound(data, j) /\ b = Bound(data, k)  BY BoundIs
<1>2. Rank(LineEnds(data), a) = j /\ Rank(LineEnds(data), b) = k  BY <1>1, BoundIs
<1>3. b <= a => Rank(LineEnds(data), b) <= Rank(LineEnds(data), a)  BY EndsOf, RankMonotone
<1> QED  BY <1>1, <1>2, <1>3, EndsOf

\* The last line ends with the file.
LEMMA LastBound ==
    ASSUME NEW data \in Seq(Bytes)
    PROVE  Rank(LineEnds(data), Len(data)) = Lines(data) /\ Bound(data, Lines(data)) = Len(data)
<1>1. /\ IsFiniteSet(LineEnds(data)) /\ LineEnds(data) \subseteq Int /\ Len(data) \in Int
      /\ \A d \in LineEnds(data) : d <= Len(data)
  BY EndsOf
<1>2. Rank(LineEnds(data), Len(data)) = Lines(data)  BY <1>1, RankBounds DEF Lines
<1>3. CASE Len(data) > 0  BY <1>2, <1>3, EndsOf, BoundOfRank
<1>4. CASE Len(data) = 0
  <2>1. Bound(data, Lines(data)) \in 0..Len(data)  BY EndsOf, BoundIs
  <2> QED  BY <1>2, <1>4, <2>1
<1> QED  BY <1>2, <1>3, <1>4

LEMMA LinesAre ==
    ASSUME NEW data \in Seq(Bytes)
    PROVE  /\ SplitLines(data) \in Seq(Seq(Bytes))
           /\ Len(SplitLines(data)) = Lines(data)
           /\ \A k \in 1..Lines(data) :
                  SplitLines(data)[k] = Text(data, Bound(data, k - 1), Bound(data, k))
<1>1. \A k \in 1..Lines(data) : Text(data, Bound(data, k - 1), Bound(data, k)) \in Seq(Bytes)
  <2> SUFFICES ASSUME NEW k \in 1..Lines(data)
               PROVE  Text(data, Bound(data, k - 1), Bound(data, k)) \in Seq(Bytes)
    OBVIOUS
  <2>1. PICK a, b \in 0..Len(data) : a = Bound(data, k - 1) /\ b = Bound(data, k)
    <3>1. k - 1 \in 0..Lines(data) /\ k \in 0..Lines(data)  BY EndsOf
    <3> QED  BY <3>1, BoundIs
  <2>2. PICK m \in 0..2 : m = Mark(data, a, b)  BY DEF Mark
  <2>3. \A i \in a + 1 .. b - m : data[i] \in Bytes
    <3>1. \A i \in a + 1 .. b - m : i \in 1..Len(data)  OBVIOUS
    <3> QED  BY <3>1
  <2>4. SubSeq(data, a + 1, b - m) \in Seq(Bytes)  BY <2>3, SubSeqProperties
  <2> QED  BY <2>1, <2>2, <2>4 DEF Text
<1>2. Lines(data) \in Nat  BY EndsOf
<1> QED  BY <1>1, <1>2 DEF SplitLines

LEMMA EndingIs ==
    ASSUME NEW S, NEW s \in Seq(S), NEW n \in Nat
    PROVE  /\ Least(n, Len(s)) \in 0..Len(s)
           /\ Ending(s, n) \in Seq(S) /\ Len(Ending(s, n)) = Least(n, Len(s))
           /\ \A j \in 1..Least(n, Len(s)) : Ending(s, n)[j] = s[Len(s) - Least(n, Len(s)) + j]
<1>1. PICK m \in 0..Len(s) : m = Least(n, Len(s))  BY DEF Least
<1>2. Len(s) - m + 1 \in Int /\ Len(s) \in Int /\ \A i \in Len(s) - m + 1 .. Len(s) : s[i] \in S
  BY <1>1
<1>3. /\ Ending(s, n) \in Seq(S)
      /\ Len(Ending(s, n)) = IF Len(s) - m + 1 <= Len(s) THEN Len(s) - (Len(s) - m + 1) + 1 ELSE 0
      /\ \A j \in 1..Len(s) - (Len(s) - m + 1) + 1 : Ending(s, n)[j] = s[Len(s) - m + 1 + j - 1]
  BY <1>1, <1>2, SubSeqProperties DEF Ending
<1>4. Len(Ending(s, n)) = m  BY <1>1, <1>3
<1>5. \A j \in 1..m : /\ j \in 1..Len(s) - (Len(s) - m + 1) + 1
                      /\ Len(s) - m + 1 + j - 1 = Len(s) - m + j
  BY <1>1
<1>6. \A j \in 1..m : Ending(s, n)[j] = s[Len(s) - m + j]  BY <1>3, <1>5
<1> QED  BY <1>1, <1>3, <1>4, <1>6

------------------------------------------------------------------------------
(* A window at the end of the file, which begins behind its byte o.         *)

Window(data, w, o) ==
    /\ o \in 0..Len(data) /\ Len(w) = Len(data) - o
    /\ \A i \in 1..Len(w) : w[i] = data[o + i]

\* Lines end in the window where they end in the file.
LEMMA WindowEnds ==
    ASSUME NEW data \in Seq(Bytes), NEW w \in Seq(Bytes), NEW o, Window(data, w, o), NEW e \in Int
    PROVE  e \in LineEnds(w) <=> e > 0 /\ e + o \in LineEnds(data)
<1>1. o \in 0..Len(data) /\ Len(w) = Len(data) - o /\ \A i \in 1..Len(w) : w[i] = data[o + i]
  BY DEF Window
<1>2. e \in 1..Len(w) <=> e > 0 /\ e + o \in 1..Len(data)  BY <1>1
<1>3. ASSUME e \in 1..Len(w) PROVE e \in LineEnds(w) <=> e + o \in LineEnds(data)
  <2>1. w[e] = data[e + o] /\ (e = Len(w) <=> e + o = Len(data))  BY <1>1, <1>3
  <2>2. e # Len(w) => w[e + 1] = data[e + o + 1]
    <3>1. o \in Int /\ Len(w) \in Int  BY <1>1
    <3>2. e # Len(w) => e + 1 \in 1..Len(w) /\ o + (e + 1) = e + o + 1  BY <1>3, <3>1
    <3> QED  BY <1>1, <3>2
  <2>3. e \in DOMAIN w /\ e + o \in DOMAIN data  BY <1>1, <1>3
  <2> QED  BY <2>1, <2>2, <2>3 DEF LineEnds
<1>4. (e \in LineEnds(w) => e \in 1..Len(w)) /\ (e + o \in LineEnds(data) => e + o \in 1..Len(data))
  BY EndsOf
<1> QED  BY <1>2, <1>3, <1>4

\* A line of the window is a line of the file but for those that begin before the window.
LEMMA WindowBounds ==
    ASSUME NEW data \in Seq(Bytes), NEW w \in Seq(Bytes), NEW o, Window(data, w, o)
    PROVE  /\ Rank(LineEnds(data), o) \in Nat
           /\ Lines(data) = Rank(LineEnds(data), o) + Lines(w)
           /\ \A k \in 1..Lines(w) : Bound(w, k) + o = Bound(data, Rank(LineEnds(data), o) + k)
<1>0. o \in Nat /\ o \in Int /\ Len(data) = Len(w) + o /\ Len(w) \in Nat  BY DEF Window
<1>1. /\ IsFiniteSet(LineEnds(data)) /\ LineEnds(data) \subseteq Int /\ LineEnds(w) \subseteq Int
      /\ Lines(data) \in Nat /\ Lines(w) \in Nat
  BY EndsOf
<1>2. \A e \in Int : e \in LineEnds(w) <=> e > 0 /\ e + o \in LineEnds(data)  BY WindowEnds
<1>3. \A e \in Nat : Rank(LineEnds(w), e) = Rank(LineEnds(data), e + o) - Rank(LineEnds(data), o)
  <2> SUFFICES ASSUME NEW e \in Nat
               PROVE  Rank(LineEnds(w), e) = Rank(LineEnds(data), e + o) - Rank(LineEnds(data), o)
    OBVIOUS
  <2>1. e \in Int /\ e >= 0  OBVIOUS
  <2> QED  BY <1>0, <1>1, <1>2, <2>1, RankShift
<1>4. Rank(LineEnds(data), o) \in Nat  BY <1>0, <1>1, RankBounds, FS_CardinalityType
<1>5. Lines(w) = Lines(data) - Rank(LineEnds(data), o)  BY <1>0, <1>3, LastBound
<1>6. ASSUME NEW k \in 1..Lines(w) PROVE Bound(w, k) + o = Bound(data, Rank(LineEnds(data), o) + k)
  <2>1. PICK b \in 0..Len(w) : b = Bound(w, k)  BY <1>1, BoundIs
  <2>2. b \in LineEnds(w) /\ Rank(LineEnds(w), b) = k  BY <1>1, <2>1, BoundIs
  <2>3. b + o \in LineEnds(data)  BY <1>2, <2>1, <2>2
  <2>4. PICK r \in Int : r = Rank(LineEnds(data), b + o)  
    <3>1. b + o \in Int  BY <1>0, <2>1
    <3>2. Rank(LineEnds(data), b + o) \in 0..Cardinality(LineEnds(data))  BY <1>1, <3>1, RankBounds
    <3> QED  BY <3>2
  <2>5. k = r - Rank(LineEnds(data), o)  BY <1>3, <2>1, <2>2, <2>4
  <2>6. r = Rank(LineEnds(data), o) + k  BY <1>4, <2>4, <2>5
  <2>7. Bound(data, r) = b + o  BY <2>3, <2>4, BoundOfRank
  <2> QED  BY <2>1, <2>6, <2>7
<1> QED  BY <1>1, <1>4, <1>5, <1>6

\* A stretch of the window is the same text there and in the file.
LEMMA WindowText ==
    ASSUME NEW data \in Seq(Bytes), NEW w \in Seq(Bytes), NEW o, Window(data, w, o),
           NEW a \in 0..Len(w), NEW b \in 0..Len(w), a < b
    PROVE  Text(w, a, b) = Text(data, a + o, b + o)
<1>1. o \in 0..Len(data) /\ Len(w) = Len(data) - o /\ \A i \in 1..Len(w) : w[i] = data[o + i]
  BY DEF Window
<1>2. w[b] = data[b + o] /\ (b - 1 > a => w[b - 1] = data[(b + o) - 1])
  <2>1. b \in 1..Len(w) /\ o + b = b + o  BY <1>1
  <2>2. b - 1 > a => b - 1 \in 1..Len(w) /\ o + (b - 1) = (b + o) - 1  BY <1>1
  <2> QED  BY <1>1, <2>1, <2>2
<1>3. b - 1 > a <=> (b + o) - 1 > a + o  BY <1>1
<1>4. PICK m \in 0..2 : m = Mark(w, a, b)  BY DEF Mark
<1>5. m = Mark(data, a + o, b + o)  BY <1>2, <1>3, <1>4 DEF Mark
<1>6. \A i \in (a + 1)..(b - m) : w[i] \in Bytes
  <2>1. \A i \in (a + 1)..(b - m) : i \in 1..Len(w)  OBVIOUS
  <2> QED  BY <2>1
<1>7. \A i \in (a + o + 1)..((b + o) - m) : data[i] \in Bytes
  <2>1. \A i \in (a + o + 1)..((b + o) - m) : i \in 1..Len(data)  BY <1>1
  <2> QED  BY <2>1
<1>8. PICK s, t \in Seq(Bytes) : s = SubSeq(w, a + 1, b - m) /\ t = SubSeq(data, a + o + 1, (b + o) - m)
  <2>1. SubSeq(w, a + 1, b - m) \in Seq(Bytes)  BY <1>6, SubSeqProperties
  <2>2. SubSeq(data, a + o + 1, (b + o) - m) \in Seq(Bytes)  BY <1>1, <1>7, SubSeqProperties
  <2> QED  BY <2>1, <2>2
<1>9. /\ Len(s) = (IF a + 1 <= b - m THEN b - m - (a + 1) + 1 ELSE 0)
      /\ \A i \in 1..(b - m - (a + 1) + 1) : s[i] = w[a + 1 + i - 1]
  <2>1. a + 1 \in Int /\ b - m \in Int  BY <1>1
  <2>2. /\ Len(SubSeq(w, a + 1, b - m)) = (IF a + 1 <= b - m THEN b - m - (a + 1) + 1 ELSE 0)
        /\ \A i \in 1..(b - m - (a + 1) + 1) : SubSeq(w, a + 1, b - m)[i] = w[a + 1 + i - 1]
    BY <1>6, <2>1, SubSeqProperties
  <2> QED  BY <1>8, <2>2
<1>10. /\ Len(t) = (IF a + o + 1 <= (b + o) - m THEN (b + o) - m - (a + o + 1) + 1 ELSE 0)
       /\ \A i \in 1..((b + o) - m - (a + o + 1) + 1) : t[i] = data[a + o + 1 + i - 1]
  BY <1>1, <1>7, <1>8, SubSeqProperties
<1>11. Len(s) = Len(t)  BY <1>1, <1>9, <1>10
<1>12. ASSUME NEW i \in 1..Len(s) PROVE s[i] = t[i]
  <2>1. i \in 1..(b - m - (a + 1) + 1) /\ i \in 1..((b + o) - m - (a + o + 1) + 1)
    BY <1>1, <1>9, <1>12
  <2>2. s[i] = w[a + i] /\ t[i] = data[a + o + i]
    <3>1. a + 1 + i - 1 = a + i /\ a + o + 1 + i - 1 = a + o + i  BY <1>1
    <3> QED  BY <1>9, <1>10, <2>1, <3>1
  <2>3. a + i \in 1..Len(w) /\ o + (a + i) = a + o + i  BY <1>1, <2>1
  <2> QED  BY <1>1, <2>2, <2>3
<1>13. s = t  BY <1>11, <1>12, SeqEqual
<1>14. Text(w, a, b) = s  BY <1>4, <1>8 DEF Text
<1>15. Text(data, a + o, b + o) = t
  <2>1. PICK p, q : p = a + o /\ q = b + o  OBVIOUS
  <2>2. m = Mark(data, p, q) /\ t = SubSeq(data, p + 1, q - m)  BY <1>5, <1>8, <2>1, Zenon
  <2>3. Text(data, p, q) = SubSeq(data, p + 1, q - m)  BY <2>2 DEF Text
  <2> QED  BY <2>1, <2>2, <2>3, Zenon
<1> QED  BY <1>13, <1>14, <1>15

LEMMA WindowIs ==
    ASSUME NEW data \in Seq(Bytes), NEW m \in Nat
    PROVE  /\ Ending(data, m) \in Seq(Bytes)
           /\ Window(data, Ending(data, m), Len(data) - Least(m, Len(data)))
<1>1. PICK w : w = Ending(data, m)  OBVIOUS
<1>2. PICK l \in 0..Len(data) : l = Least(m, Len(data))  BY EndingIs
<1>3. /\ w \in Seq(Bytes) /\ Len(w) = l
      /\ \A j \in 1..l : w[j] = data[Len(data) - l + j]
  BY <1>1, <1>2, EndingIs
<1>4. Window(data, w, Len(data) - l)  BY <1>2, <1>3 DEF Window
<1> QED  BY <1>1, <1>2, <1>3, <1>4

\* A line that begins in the window is a line of the file.
LEMMA WindowLines ==
    ASSUME NEW data \in Seq(Bytes), NEW w \in Seq(Bytes), NEW o, Window(data, w, o),
           NEW c \in Nat, c = Rank(LineEnds(data), o),
           NEW k \in 1..Lines(w), k > 1 \/ Bound(data, c) = o
    PROVE  c + k \in 1..Lines(data) /\ SplitLines(w)[k] = SplitLines(data)[c + k]
<1>1. Lines(data) = c + Lines(w) /\ \A j \in 1..Lines(w) : Bound(w, j) + o = Bound(data, c + j)
  BY WindowBounds
<1>2. Lines(w) \in Nat  BY EndsOf
<1>3. k - 1 \in 0..Lines(w) /\ k \in 0..Lines(w) /\ k - 1 < k  BY <1>2
<1>4. PICK a, b \in 0..Len(w) : a = Bound(w, k - 1) /\ b = Bound(w, k)  BY <1>3, BoundIs
<1>5. a < b  BY <1>3, <1>4, BoundsGrow
<1>6. b + o = Bound(data, c + k)  BY <1>1, <1>4
<1>7. a + o = Bound(data, (c + k) - 1)
  <2>1. CASE k > 1
    <3>1. k - 1 \in 1..Lines(w) /\ c + (k - 1) = (c + k) - 1  BY <1>3, <2>1
    <3> QED  BY <1>1, <1>4, <3>1
  <2>2. CASE ~(k > 1)
    <3>1. k - 1 = 0 /\ (c + k) - 1 = c  BY <1>2, <2>2
    <3>2. a = 0  BY <1>4, <3>1 DEF Bound
    <3>3. o \in Int /\ a + o = o  BY <3>2 DEF Window
    <3> QED  BY <2>2, <3>1, <3>3
  <2> QED  BY <2>1, <2>2
<1>8. Text(w, a, b) = Text(data, a + o, b + o)  BY <1>5, WindowText
<1>9. c + k \in 1..Lines(data)  BY <1>1, <1>2
<1>10. SplitLines(w)[k] = Text(w, a, b)  BY <1>4, LinesAre
<1>11. SplitLines(data)[c + k] = Text(data, a + o, b + o)  BY <1>6, <1>7, <1>9, LinesAre
<1> QED  BY <1>8, <1>9, <1>10, <1>11

\* If the n last lines begin in the window, they are its n last lines.
LEMMA WindowHolds ==
    ASSUME NEW data \in Seq(Bytes), NEW w \in Seq(Bytes), NEW o, Window(data, w, o),
           NEW n \in 0..Lines(data), o <= Bound(data, Lines(data) - n)
    PROVE  Ending(SplitLines(w), n) = Ending(SplitLines(data), n)
<1>1. PICK c \in Nat : c = Rank(LineEnds(data), o)  BY WindowBounds
<1>2. Lines(data) = c + Lines(w) /\ Lines(w) \in Nat /\ Lines(data) \in Nat
  BY <1>1, WindowBounds, EndsOf
<1>3. PICK k \in 0..Lines(data) : k = Lines(data) - n  BY <1>2
<1>4. PICK g \in 0..Len(data) : g = Bound(data, k)  BY BoundIs
<1>5. Rank(LineEnds(data), g) = k /\ (k > 0 => g \in LineEnds(data))  BY <1>4, BoundIs
<1>6. o \in Int /\ o >= 0 /\ o <= g  BY <1>3, <1>4 DEF Window
<1>7. IsFiniteSet(LineEnds(data)) /\ LineEnds(data) \subseteq Int  BY EndsOf
<1>8. c <= k  BY <1>1, <1>5, <1>6, <1>7, RankMonotone
<1>9. n <= Lines(w)  BY <1>2, <1>3, <1>8
<1>10. c = k => Bound(data, c) = o
  <2> SUFFICES ASSUME c = k PROVE g = o  BY <1>4
  <2>1. CASE k = 0
    <3>1. g = 0  BY <1>4, <2>1 DEF Bound
    <3> QED  BY <1>6, <3>1
  <2>2. CASE k > 0
    <3>1. g \in LineEnds(data)  BY <1>5, <2>2
    <3>2. o < g => c < k  BY <1>1, <1>5, <1>6, <1>7, <3>1, RankGrows
    <3> QED  BY <1>4, <1>6, <3>2
  <2> QED  BY <2>1, <2>2
<1>11. PICK s, t \in Seq(Seq(Bytes)) :
           s = Ending(SplitLines(w), n) /\ t = Ending(SplitLines(data), n)
  BY <1>2, LinesAre, EndingIs
<1>12. Least(n, Lines(w)) = n /\ Least(n, Lines(data)) = n  BY <1>2, <1>9 DEF Least
<1>13. /\ Len(s) = n /\ \A j \in 1..n : s[j] = SplitLines(w)[Lines(w) - n + j]
       /\ Len(t) = n /\ \A j \in 1..n : t[j] = SplitLines(data)[Lines(data) - n + j]
  <2>1. n \in Nat  BY <1>2
  <2>2. /\ SplitLines(w) \in Seq(Seq(Bytes)) /\ Len(SplitLines(w)) = Lines(w)
        /\ SplitLines(data) \in Seq(Seq(Bytes)) /\ Len(SplitLines(data)) = Lines(data)
    BY LinesAre
  <2>3. PICK u, v \in Seq(Seq(Bytes)) : u = SplitLines(w) /\ v = SplitLines(data)  BY <2>2
  <2>4. Least(n, Len(u)) = n /\ Least(n, Len(v)) = n /\ s = Ending(u, n) /\ t = Ending(v, n)
    BY <1>11, <1>12, <2>2, <2>3
  <2>5. Len(s) = n /\ \A j \in 1..n : s[j] = u[Len(u) - n + j]
    <3>1. /\ Len(Ending(u, n)) = Least(n, Len(u))
          /\ \A j \in 1..Least(n, Len(u)) : Ending(u, n)[j] = u[Len(u) - Least(n, Len(u)) + j]
      BY <2>1, EndingIs
    <3> QED  BY <2>4, <3>1
  <2>6. Len(t) = n /\ \A j \in 1..n : t[j] = v[Len(v) - n + j]
    <3>1. /\ Len(Ending(v, n)) = Least(n, Len(v))
          /\ \A j \in 1..Least(n, Len(v)) : Ending(v, n)[j] = v[Len(v) - Least(n, Len(v)) + j]
      BY <2>1, EndingIs
    <3> QED  BY <2>4, <3>1
  <2> QED  BY <2>2, <2>3, <2>5, <2>6
<1>14. ASSUME NEW j \in 1..Len(s) PROVE s[j] = t[j]
  <2>0. j \in 1..n /\ n \in Int /\ Lines(w) \in Int  BY <1>2, <1>13, <1>14
  <2>1. PICK i \in 1..Lines(w) : i = Lines(w) - n + j
    <3>1. Lines(w) - n + j \in 1..Lines(w)  BY <1>9, <2>0
    <3> QED  BY <3>1
  <2>2. c + i = Lines(data) - n + j  BY <1>2, <2>0, <2>1
  <2>3. i > 1 \/ Bound(data, c) = o
    <3>1. i > 1 \/ Lines(w) = n  BY <1>9, <2>0, <2>1
    <3>2. Lines(w) = n => c = k  BY <1>2, <1>3
    <3> QED  BY <1>10, <3>1, <3>2
  <2>4. SplitLines(w)[i] = SplitLines(data)[c + i]  BY <1>1, <2>3, WindowLines
  <2> QED  BY <1>13, <2>0, <2>1, <2>2, <2>4
<1>15. s = t  BY <1>13, <1>14, SeqEqual
<1> QED  BY <1>11, <1>15

------------------------------------------------------------------------------
(* Suffixes.                                                                *)

LEMMA ReverseIs ==
    ASSUME NEW S, NEW s \in Seq(S)
    PROVE  /\ Reverse(s) \in Seq(S) /\ Len(Reverse(s)) = Len(s)
           /\ \A i \in 1..Len(s) : Reverse(s)[i] = s[(Len(s) - i) + 1]
<1>1. Len(s) \in Nat /\ \A i \in 1..Len(s) : (Len(s) - i) + 1 \in 1..Len(s)  OBVIOUS
<1> QED  BY <1>1 DEF Reverse

LEMMA SuffixIs ==
    ASSUME NEW S, NEW s \in Seq(S), NEW t \in Seq(S), Len(s) <= Len(t),
           \A i \in 1..Len(s) : s[i] = t[(Len(t) - Len(s)) + i]
    PROVE  IsSuffix(s, t)
<1>1. PICK x, y \in Seq(S) : x = Reverse(s) /\ y = Reverse(t)  BY ReverseIs
<1>2. /\ Len(x) = Len(s) /\ \A i \in 1..Len(s) : x[i] = s[(Len(s) - i) + 1]
      /\ Len(y) = Len(t) /\ \A i \in 1..Len(t) : y[i] = t[(Len(t) - i) + 1]
  BY <1>1, ReverseIs
<1>3. PICK l \in Nat : l = Len(s)  OBVIOUS
<1>4. PICK k \in Nat : k = Len(t)  OBVIOUS
<1>5. ASSUME NEW i \in 1..l PROVE x[i] = y[i]
  <2>1. (l - i) + 1 \in 1..l /\ i \in 1..k /\ (k - l) + ((l - i) + 1) = (k - i) + 1  BY <1>3, <1>4
  <2>2. s[(l - i) + 1] = t[(k - l) + ((l - i) + 1)]  BY <1>3, <1>4, <2>1
  <2> QED  BY <1>2, <1>3, <1>4, <2>1, <2>2
<1>6. PICK u, v \in Seq(S) : u = SubSeq(x, 1, l) /\ v = SubSeq(y, 1, l)
  <2>1. \A i \in 1..l : x[i] \in S /\ y[i] \in S  BY <1>2, <1>3, <1>4
  <2>2. 1 \in Int /\ l \in Int  OBVIOUS
  <2>3. SubSeq(x, 1, l) \in Seq(S) /\ SubSeq(y, 1, l) \in Seq(S)  BY <2>1, <2>2, SubSeqProperties
  <2> QED  BY <2>3
<1>7. /\ Len(u) = l /\ \A i \in 1..l : u[i] = x[i]
      /\ Len(v) = l /\ \A i \in 1..l : v[i] = y[i]
  <2>1. \A i \in 1..l : x[i] \in S /\ y[i] \in S  BY <1>2, <1>3, <1>4
  <2>2. 1 \in Int /\ l \in Int /\ l - 1 + 1 = l /\ (1 <= l \/ l = 0) /\ \A i \in 1..l : 1 + i - 1 = i
    OBVIOUS
  <2>3. /\ Len(u) = (IF 1 <= l THEN l - 1 + 1 ELSE 0) /\ \A i \in 1..(l - 1 + 1) : u[i] = x[1 + i - 1]
        /\ Len(v) = (IF 1 <= l THEN l - 1 + 1 ELSE 0) /\ \A i \in 1..(l - 1 + 1) : v[i] = y[1 + i - 1]
    BY <1>6, <2>1, <2>2, SubSeqProperties
  <2> QED  BY <2>2, <2>3
<1>8. u = v  BY <1>5, <1>7, SeqEqual
<1>9. Len(x) <= Len(y) /\ SubSeq(x, 1, Len(x)) = SubSeq(y, 1, Len(x))  BY <1>2, <1>3, <1>6, <1>8
<1> QED  BY <1>1, <1>9 DEF IsSuffix, IsPrefix

\* What is left of a line whose beginning is cut off is a suffix of it.
LEMMA TextSuffix ==
    ASSUME NEW data \in Seq(Bytes), NEW p \in Nat, NEW o \in Nat, NEW q \in 1..Len(data),
           p <= o, o < q
    PROVE  IsSuffix(Text(data, o, q), Text(data, p, q))
<1>1. PICK m \in 0..2 : m = Mark(data, p, q)  BY DEF Mark
<1>2. PICK k \in 0..2 : k = Mark(data, o, q)  BY DEF Mark
<1>3. k = m \/ (k = 1 /\ q = o + 1)  BY <1>1, <1>2 DEF Mark
<1>4. k <= m  BY <1>1, <1>2 DEF Mark
<1>5. (\A i \in (o + 1)..(q - k) : data[i] \in Bytes) /\ (\A i \in (p + 1)..(q - m) : data[i] \in Bytes)
  <2>1. (\A i \in (o + 1)..(q - k) : i \in 1..Len(data)) /\ (\A i \in (p + 1)..(q - m) : i \in 1..Len(data))
    OBVIOUS
  <2> QED  BY <2>1
<1>6. PICK s, t \in Seq(Bytes) : s = SubSeq(data, o + 1, q - k) /\ t = SubSeq(data, p + 1, q - m)
  <2>1. o + 1 \in Int /\ q - k \in Int /\ p + 1 \in Int /\ q - m \in Int  OBVIOUS
  <2>2. SubSeq(data, o + 1, q - k) \in Seq(Bytes)  BY <1>5, <2>1, SubSeqProperties
  <2>3. SubSeq(data, p + 1, q - m) \in Seq(Bytes)  BY <1>5, <2>1, SubSeqProperties
  <2> QED  BY <2>2, <2>3
<1>7. /\ Len(s) = (IF o + 1 <= q - k THEN (q - k) - (o + 1) + 1 ELSE 0)
      /\ \A i \in 1..((q - k) - (o + 1) + 1) : s[i] = data[o + 1 + i - 1]
  BY <1>5, <1>6, SubSeqProperties
<1>8. /\ Len(t) = (IF p + 1 <= q - m THEN (q - m) - (p + 1) + 1 ELSE 0)
      /\ \A i \in 1..((q - m) - (p + 1) + 1) : t[i] = data[p + 1 + i - 1]
  BY <1>5, <1>6, SubSeqProperties
<1>9. Len(s) <= Len(t)
  <2>1. PICK a \in Int : a = Len(s)  OBVIOUS
  <2>2. PICK b \in Nat : b = Len(t)  OBVIOUS
  <2>3. CASE k = m  BY <1>7, <1>8, <2>1, <2>2, <2>3
  <2>4. CASE k = 1 /\ q = o + 1  BY <1>7, <2>1, <2>2, <2>4
  <2> QED  BY <1>3, <2>3, <2>4
<1>10. ASSUME NEW i \in 1..Len(s) PROVE s[i] = t[(Len(t) - Len(s)) + i]
  <2>1. PICK a \in Nat : a = Len(s)  OBVIOUS
  <2>2. PICK b \in Nat : b = Len(t)  OBVIOUS
  <2>3. a = (q - k) - o /\ o + 1 <= q - k /\ i \in 1..a  BY <1>7, <1>10, <2>1
  <2>4. k = m  BY <1>3, <2>3
  <2>5. b = (q - m) - p  BY <1>8, <2>2, <2>3, <2>4
  <2>6. PICK j \in Nat : j = (b - a) + i
    <3>1. a <= b  BY <1>9, <2>1, <2>2
    <3>2. i \in Nat /\ (b - a) + i \in Nat  BY <2>3, <3>1
    <3> QED  BY <3>2
  <2>7. j \in 1..((q - m) - (p + 1) + 1) /\ i \in 1..((q - k) - (o + 1) + 1) /\ p + 1 + j - 1 = o + 1 + i - 1
    BY <2>3, <2>4, <2>5, <2>6
  <2>8. s[i] = data[o + 1 + i - 1] /\ t[j] = data[p + 1 + j - 1]  BY <1>7, <1>8, <2>7
  <2> QED  BY <2>1, <2>2, <2>6, <2>7, <2>8
<1>11. IsSuffix(s, t)  BY <1>9, <1>10, SuffixIs
<1> QED  BY <1>1, <1>2, <1>6, <1>11 DEF Text

------------------------------------------------------------------------------
(* The tail of an output file.                                              *)

\* If the last n lines begin in the window, they are the tail.
LEMMA TailWhenItFits ==
    ASSUME NEW data \in Seq(Bytes), NEW n \in Nat, NEW maxBytes \in Nat,
           NEW r \in 0..Lines(data), r = Least(n, Lines(data)),
           Len(data) - Bound(data, Lines(data) - r) <= maxBytes
    PROVE  TailFile(data, n, maxBytes) = Ending(SplitLines(data), n)
<1>1. PICK w \in Seq(Bytes), o \in 0..Len(data) :
          /\ w = Ending(data, maxBytes) /\ o = Len(data) - Least(maxBytes, Len(data))
          /\ Window(data, w, o)
  <2>1. Least(maxBytes, Len(data)) \in 0..Len(data)  BY EndingIs
  <2>2. Len(data) - Least(maxBytes, Len(data)) \in 0..Len(data)  BY <2>1
  <2> QED  BY <2>2, WindowIs
<1>2. PICK l \in Nat : l = Lines(data)  BY EndsOf
<1>3. PICK v \in Nat : v = Lines(w)  BY EndsOf
<1>4. PICK b \in 0..Len(data) : b = Bound(data, l - r)
  <2>1. l - r \in 0..Lines(data)  BY <1>2
  <2> QED  BY <2>1, BoundIs
<1>5. o <= b  BY <1>1, <1>2, <1>4 DEF Least
<1>6. Ending(SplitLines(w), r) = Ending(SplitLines(data), r)  BY <1>1, <1>2, <1>4, <1>5, WindowHolds
<1>7. Len(SplitLines(w)) = v /\ Len(SplitLines(data)) = l  BY <1>2, <1>3, LinesAre
<1>8. CASE n <= l
  <2>1. r = n  BY <1>2, <1>8 DEF Least
  <2> QED  BY <1>1, <1>6, <2>1 DEF TailFile
<1>9. CASE ~(n <= l)
  <2>1. r = l /\ l - r = 0  BY <1>2, <1>9 DEF Least
  <2>2. b = 0 /\ o = 0  BY <1>4, <1>5, <2>1 DEF Bound
  <2>3. Rank(LineEnds(data), 0) = 0
    <3>1. 0 \in 0..Lines(data)  BY <1>2
    <3> QED  BY <1>4, <2>1, <2>2, <3>1, BoundIs
  <2>4. l = v  BY <1>1, <1>2, <1>3, <2>2, <2>3, WindowBounds
  <2>5. Least(n, l) = l /\ Least(r, l) = l  BY <1>9, <2>1 DEF Least
  <2>6. Ending(SplitLines(w), n) = Ending(SplitLines(w), r)  BY <1>7, <2>4, <2>5 DEF Ending
  <2>7. Ending(SplitLines(data), n) = Ending(SplitLines(data), r)  BY <1>7, <2>5 DEF Ending
  <2> QED  BY <1>1, <1>6, <2>6, <2>7 DEF TailFile
<1> QED  BY <1>8, <1>9

\* The last line of a window ends the last line of the file.
LEMMA WindowLast ==
    ASSUME NEW data \in Seq(Bytes), NEW w \in Seq(Bytes), NEW o, Window(data, w, o),
           NEW v \in Nat, v = Lines(w), v > 0, NEW l \in Nat, l = Lines(data)
    PROVE  l > 0 /\ IsSuffix(SplitLines(w)[v], SplitLines(data)[l])
<1>1. PICK c \in Nat : c = Rank(LineEnds(data), o)  BY WindowBounds
<1>2. l = c + v  BY <1>1, WindowBounds
<1>3. o \in 0..Len(data) /\ o \in Nat /\ o \in Int /\ Len(w) = Len(data) - o  BY DEF Window
<1>4. CASE v > 1 \/ Bound(data, c) = o
  <2>1. v \in 1..Lines(w) /\ l \in 1..Lines(data)  BY <1>2
  <2>2. SplitLines(w)[v] = SplitLines(data)[l]  BY <1>1, <1>2, <1>4, <2>1, WindowLines
  <2>3. PICK s \in Seq(Bytes) : s = SplitLines(data)[l]  BY <2>1, LinesAre
  <2>4. Len(s) <= Len(s) /\ \A i \in 1..Len(s) : (Len(s) - Len(s)) + i = i  OBVIOUS
  <2>5. IsSuffix(s, s)
    <3>1. \A i \in 1..Len(s) : s[i] = s[(Len(s) - Len(s)) + i]  BY <2>4
    <3> QED  BY <2>4, <3>1, SuffixIs
  <2> QED  BY <2>1, <2>2, <2>3, <2>5
<1>5. CASE v = 1
  <2>1. Bound(w, 0) = 0 /\ Bound(w, 1) = Len(w)  BY <1>5, LastBound DEF Bound
  <2>2. 0 < Len(w) /\ 0 \in 0..Len(w) /\ Len(w) \in 0..Len(w) /\ Len(data) \in 1..Len(data)
    <3>1. 0 \in 0..Lines(w) /\ 1 \in 0..Lines(w)  BY <1>5
    <3>2. Bound(w, 0) < Bound(w, 1)  BY <3>1, BoundsGrow
    <3>3. Len(w) \in Nat /\ Len(data) \in Nat  OBVIOUS
    <3> QED  BY <1>3, <2>1, <3>2, <3>3
  <2>3. SplitLines(w)[v] = Text(w, 0, Len(w))
    <3>1. 1 \in 1..Lines(w) /\ 1 - 1 = 0  BY <1>5
    <3> QED  BY <1>5, <2>1, <3>1, LinesAre
  <2>4. Text(w, 0, Len(w)) = Text(data, o, Len(data))
    <3>1. 0 + o = o /\ Len(w) + o = Len(data)  BY <1>3
    <3>2. Text(w, 0, Len(w)) = Text(data, 0 + o, Len(w) + o)  BY <2>2, WindowText
    <3> QED  BY <3>1, <3>2
  <2>5. c \in 0..Lines(data) /\ l \in 1..Lines(data) /\ l - 1 = c  BY <1>2, <1>5
  <2>6. PICK p \in 0..Len(data) : p = Bound(data, c)  BY <2>5, BoundIs
  <2>7. SplitLines(data)[l] = Text(data, p, Len(data))  BY <2>5, <2>6, LinesAre, LastBound
  <2>8. p <= o
    <3> SUFFICES ASSUME o < p PROVE FALSE  BY <1>3, <2>6
    <3>1. Rank(LineEnds(data), p) = c /\ (c > 0 => p \in LineEnds(data))  BY <2>5, <2>6, BoundIs
    <3>2. c > 0
      <4>1. c = 0 => p = 0  BY <2>6 DEF Bound
      <4> QED  BY <1>3, <4>1
    <3>3. p \in LineEnds(data)  BY <3>1, <3>2
    <3>4. Rank(LineEnds(data), o) < Rank(LineEnds(data), p)  BY <1>3, <3>3, EndsOf, RankGrows
    <3> QED  BY <1>1, <3>1, <3>4
  <2>9. o < Len(data) /\ p \in Nat  BY <1>3, <2>2, <2>6
  <2>10. IsSuffix(Text(data, o, Len(data)), Text(data, p, Len(data)))
    BY <1>3, <2>2, <2>8, <2>9, TextSuffix
  <2> QED  BY <2>3, <2>4, <2>5, <2>7, <2>10
<1> QED  BY <1>4, <1>5

\* For every file, number of lines and size of the window.
LEMMA TailIs == \A data \in Seq(Bytes), n \in Nat, maxBytes \in Nat : EndsTheFile(data, n, maxBytes)
<1> SUFFICES ASSUME NEW data \in Seq(Bytes), NEW n \in Nat, NEW maxBytes \in Nat
             PROVE  EndsTheFile(data, n, maxBytes)
  OBVIOUS
<1>1. PICK l \in Nat : l = Lines(data)  BY EndsOf
<1>2. PICK r \in 0..l : r = Least(n, l)  BY DEF Least
<1>3. PICK w \in Seq(Bytes) : w = Ending(data, maxBytes)  BY WindowIs
<1>4. Window(data, w, Len(data) - Least(maxBytes, Len(data)))  BY <1>3, WindowIs
<1>5. PICK v \in Nat : v = Lines(w)  BY EndsOf
<1>6. PICK lines \in Seq(Seq(Bytes)) : lines = SplitLines(data) /\ Len(lines) = l  BY <1>1, LinesAre
<1>7. PICK seen \in Seq(Seq(Bytes)) : seen = SplitLines(w) /\ Len(seen) = v  BY <1>5, LinesAre
<1>8. PICK u \in 0..v : u = Least(n, v)  BY DEF Least
<1>9. PICK result \in Seq(Seq(Bytes)) : result = TailFile(data, n, maxBytes) /\ result = Ending(seen, n)
  BY <1>3, <1>7, EndingIs DEF TailFile
<1>10. /\ Len(result) = u /\ \A j \in 1..u : result[j] = seen[v - u + j]
  <2>1. /\ Len(Ending(seen, n)) = Least(n, Len(seen))
        /\ \A j \in 1..Least(n, Len(seen)) :
               Ending(seen, n)[j] = seen[Len(seen) - Least(n, Len(seen)) + j]
    BY EndingIs
  <2> QED  BY <1>7, <1>8, <1>9, <2>1
<1>11. ASSUME Len(data) - Bound(data, l - r) <= maxBytes PROVE result = Ending(lines, n)
  BY <1>1, <1>2, <1>6, <1>9, <1>11, TailWhenItFits
<1>12. Len(result) <= n  BY <1>8, <1>10 DEF Least
<1>13. ASSUME result # <<>> PROVE IsSuffix(result[Len(result)], lines[Len(lines)])
  <2>1. u > 0
    <3>1. Len(result) = 0 => result = <<>>  OBVIOUS
    <3> QED  BY <1>10, <1>13, <3>1
  <2>2. v > 0 /\ u \in 1..u /\ v - u + u = v  BY <2>1
  <2>3. result[Len(result)] = seen[v]  BY <1>10, <2>2
  <2>4. IsSuffix(SplitLines(w)[v], SplitLines(data)[l])  BY <1>1, <1>4, <1>5, <2>2, WindowLast
  <2> QED  BY <1>6, <1>7, <2>3, <2>4
<1> QED  BY <1>2, <1>6, <1>9, <1>11, <1>12, <1>13 DEF EndsTheFile

------------------------------------------------------------------------------
(* The path walk: a fold over the segments of a path.                       *)

LEMMA MaxIs ==
    ASSUME NEW S, IsFiniteSet(S), S \subseteq Int, S # {}
    PROVE  Max(S) \in S /\ \A e \in S : e <= Max(S)
<1>1. PICK c \in Nat : c = Cardinality(S)  BY FS_CardinalityType
<1>2. c > 0  BY <1>1, FS_EmptySet
<1>3. PICK m : m \in S /\ Rank(S, m) = c
  <2>1. c \in 1..Cardinality(S)  BY <1>1, <1>2
  <2> QED  BY <2>1, NthIs
<1>4. \A e \in S : m >= e
  <2> SUFFICES ASSUME NEW e \in S, m < e PROVE FALSE  BY <1>3
  <2>1. m \in Int /\ e \in Int  BY <1>3
  <2>2. Rank(S, m) < Rank(S, e)  BY <2>1, RankGrows
  <2>3. Rank(S, e) \in 0..Cardinality(S)  BY <2>1, RankBounds
  <2> QED  BY <1>1, <1>3, <2>2, <2>3
<1>5. Max(S) \in S /\ \A e \in S : Max(S) >= e  BY <1>3, <1>4 DEF Max
<1>6. Max(S) \in Int  BY <1>5
<1> QED  BY <1>5, <1>6

\* g is where the walk is after each set of segments.
Walks(g, relative, T) ==
    g = [s \in SUBSET T |-> IF s = {} THEN Root ELSE Enter(g[s \ {Max(s)}], relative[Max(s)])]

\* There is such a walk: the one without the last segment takes one step more.
LEMMA WalksExists ==
    ASSUME NEW S, IsFiniteSet(S), S \subseteq Int, NEW relative
    PROVE  \E g : Walks(g, relative, S)
<1> DEFINE M == {T \in SUBSET S : ~ \E g : Walks(g, relative, T)}
<1> SUFFICES ASSUME M # {} PROVE FALSE  OBVIOUS
<1>1. PICK T \in M : \A U \in M : U \subseteq T => U = T
  <2>1. PICK N : N = M  OBVIOUS
  <2>2. N \subseteq SUBSET S /\ N # {}  BY <2>1
  <2>3. \E T \in N : \A U \in N : U \subseteq T => U = T  BY ONLY IsFiniteSet(S), <2>2, Smallest
  <2> QED  BY <2>1, <2>3
<1>2. CASE T = {}
  <2> DEFINE h == [U \in SUBSET {} |-> Root]
  <2>1. \A U \in SUBSET {} : U = {}  OBVIOUS
  <2>2. h = [U \in SUBSET {} |-> IF U = {} THEN Root ELSE Enter(h[U \ {Max(U)}], relative[Max(U)])]
    BY <2>1
  <2>3. Walks(h, relative, {})
    <3> HIDE DEF h
    <3> QED  BY <2>2 DEF Walks
  <2> QED  BY <1>1, <1>2, <2>3
<1>3. CASE T # {}
  <2>1. IsFiniteSet(T) /\ T \subseteq Int  BY FS_Subset
  <2>2. PICK x \in T : x = Max(T) /\ \A e \in T : e <= x  BY <1>3, <2>1, MaxIs
  <2> DEFINE R == T \ {x}
  <2>3. R \notin M /\ R \in SUBSET S  BY <1>1, <2>2
  <2>4. PICK g : Walks(g, relative, R)  BY <2>3
  <2> DEFINE h == [U \in SUBSET T |-> IF x \in U THEN Enter(g[U \ {x}], relative[x]) ELSE g[U]]
             Next1(U) == IF U = {} THEN Root ELSE Enter(h[U \ {Max(U)}], relative[Max(U)])
  <2>5. ASSUME NEW U \in SUBSET T PROVE h[U] = Next1(U)
    <3>1. CASE U = {}
      <4>1. g[{}] = Root  BY <2>4 DEF Walks
      <4> QED  BY <3>1, <4>1
    <3>2. CASE U # {}
      <4>1. IsFiniteSet(U) /\ U \subseteq Int  BY <2>1, <2>5, FS_Subset
      <4>2. PICK y \in U : y = Max(U) /\ \A e \in U : e <= y  BY <3>2, <4>1, MaxIs
      <4>3. CASE x \in U
        <5>1. x <= y /\ y <= x /\ x \in Int /\ y \in Int  BY <2>1, <2>2, <2>5, <4>2, <4>3
        <5>2. x = y  BY <5>1
        <5>3. U \ {x} \in SUBSET T /\ x \notin U \ {x}  OBVIOUS
        <5> QED  BY <3>2, <4>2, <4>3, <5>2, <5>3
      <4>4. CASE x \notin U
        <5>1. U \in SUBSET R /\ U \ {y} \in SUBSET R /\ U \ {y} \in SUBSET T /\ x \notin U \ {y}
          BY <2>5, <4>4
        <5>2. g[U] = Enter(g[U \ {y}], relative[y])  BY <2>4, <3>2, <4>2, <5>1 DEF Walks
        <5> QED  BY <3>2, <4>2, <4>4, <5>1, <5>2
      <4> QED  BY <4>3, <4>4
    <3> QED  BY <3>1, <3>2
  <2>6. Walks(h, relative, T)
    <3>1. h = [U \in SUBSET T |-> h[U]]  OBVIOUS
    <3>2. h = [U \in SUBSET T |-> Next1(U)]
      <4> HIDE DEF h, Next1
      <4> QED  BY <3>1, <2>5
    <3> HIDE DEF h
    <3> QED  BY <3>2 DEF Walks
  <2> QED  BY <2>6, <1>1
<1> QED  BY <1>2, <1>3

\* The walk stays where it is on the empty path and otherwise ends with a step.
LEMMA WalkIs ==
    ASSUME NEW S, NEW relative \in Seq(S)
    PROVE  IF relative = <<>> THEN Walk(relative) = Root
           ELSE \E at : Walk(relative) = Enter(at, relative[Len(relative)])
<1> DEFINE D == DOMAIN relative
           it == CHOOSE g : Walks(g, relative, D)
<1>1. D = 1..Len(relative) /\ Len(relative) \in Nat  OBVIOUS
<1>2. IsFiniteSet(D) /\ D \subseteq Int  BY <1>1, FS_Interval
<1>3. Walks(it, relative, D)
  <2> HIDE DEF D
  <2> QED  BY <1>2, WalksExists
<1>4. Walk(relative) = it[D]
  BY DEF Walk, FoldLeft, MapThenFoldSet, Walks
<1> HIDE DEF it
<1>5. CASE relative = <<>>
  <2>1. D = {}  BY <1>1, <1>5
  <2> QED  BY <1>3, <1>4, <1>5, <2>1 DEF Walks
<1>6. CASE relative # <<>>
  <2>1. Len(relative) \in D /\ \A e \in D : e <= Len(relative)  BY <1>1, <1>6
  <2>2. Max(D) = Len(relative)
    <3>1. Max(D) \in D /\ \A e \in D : e <= Max(D)
      <4> HIDE DEF D
      <4> QED  BY <1>2, <2>1, MaxIs
    <3> QED  BY <1>1, <2>1, <3>1
  <2>3. it[D] = Enter(it[D \ {Max(D)}], relative[Max(D)])
    <3> HIDE DEF D
    <3> QED  BY <1>3, <2>1 DEF Walks
  <2>4. it[D] = Enter(it[D \ {Max(D)}], relative[Len(relative)])  BY <2>2, <2>3
  <2> QED  BY <1>4, <1>6, <2>4
<1> QED  BY <1>5, <1>6

\* The names in the directory below a mount.
Segments == {"base", "root", "away", "dir", "file"}

LEMMA PlacesAre ==
    /\ Root \in Seq(Segments) /\ Len(Root) = 2
    /\ Away \in Seq(Segments) /\ Len(Away) = 2
    /\ \A at \in Files \cup Folders : at \in Seq(Segments)
    /\ \A at \in Folders : Len(at) >= 2
<1>1. \A name \in {"base", "root", "away", "dir", "file"} : name \in Segments  BY DEF Segments
<1>2. Root \in Seq(Segments) /\ Len(Root) = 2
  <2>1. "base" \in Segments /\ "root" \in Segments  BY <1>1
  <2> QED  BY <2>1 DEF Root
<1>3. Away \in Seq(Segments) /\ Len(Away) = 2
  <2>1. "base" \in Segments /\ "away" \in Segments  BY <1>1
  <2> QED  BY <2>1 DEF Away
<1>4. <<"dir", "file">> \in Seq(Segments)
  <2>1. "dir" \in Segments /\ "file" \in Segments  BY <1>1
  <2> QED  BY <2>1
<1>5. /\ Append(Root, "file") \in Seq(Segments) /\ Append(Away, "file") \in Seq(Segments)
      /\ Append(Root, "dir") \in Seq(Segments) /\ Len(Append(Root, "dir")) = 3
      /\ Root \o <<"dir", "file">> \in Seq(Segments)
  <2>1. "dir" \in Segments /\ "file" \in Segments  BY <1>1
  <2>2. Append(Root, "file") \in Seq(Segments) /\ Append(Away, "file") \in Seq(Segments)
    BY <1>2, <1>3, <2>1, AppendProperties
  <2>3. Append(Root, "dir") \in Seq(Segments) /\ Len(Append(Root, "dir")) = Len(Root) + 1
    BY <1>2, <2>1, AppendProperties
  <2>4. Root \o <<"dir", "file">> \in Seq(Segments)  BY <1>2, <1>4, ConcatProperties
  <2> QED  BY <1>2, <2>2, <2>3, <2>4
<1> QED  BY <1>2, <1>3, <1>5 DEF Files, Folders

\* A step leads into a directory or to a file that is there, and never back to the root.
LEMMA EnterIs ==
    ASSUME NEW at, NEW name
    PROVE  Enter(at, name) \in Seq(Segments) /\ Enter(at, name) # Root
<1>1. CASE at = Root /\ name \in DOMAIN Links
  <2>1. Enter(at, name) = Links[name]  BY <1>1 DEF Enter
  <2>2. name = "in" \/ name = "out"  BY <1>1 DEF Links
  <2>3. CASE name = "in"
    <3>1. Links[name] = Append(Root, "dir")  BY <2>3 DEF Links
    <3>2. Append(Root, "dir") \in Folders  BY DEF Folders
    <3>3. Len(Append(Root, "dir")) = 3
      <4>1. "dir" \in Segments /\ Root \in Seq(Segments) /\ Len(Root) = 2  BY PlacesAre DEF Segments
      <4>2. Len(Append(Root, "dir")) = Len(Root) + 1  BY <4>1, AppendProperties
      <4> QED  BY <4>1, <4>2
    <3>4. Append(Root, "dir") # Root  BY <3>3, PlacesAre
    <3> QED  BY <2>1, <3>1, <3>2, <3>4, PlacesAre
  <2>4. CASE name = "out"
    <3>1. Links[name] = Away  BY <2>4 DEF Links
    <3>2. Away # Root  BY DEF Away, Root
    <3> QED  BY <2>1, <3>1, <3>2, PlacesAre
  <2> QED  BY <2>2, <2>3, <2>4
<1>2. CASE ~(at = Root /\ name \in DOMAIN Links)
  <2>1. CASE at \in Folders /\ Append(at, name) \in Files \cup Folders
    <3>1. Enter(at, name) = Append(at, name)  BY <1>2, <2>1 DEF Enter
    <3>2. Append(at, name) \in Seq(Segments) /\ at \in Seq(Segments) /\ Len(at) >= 2  BY <2>1, PlacesAre
    <3>3. Len(Append(at, name)) = Len(at) + 1
      <4>1. PICK T : T = Segments \cup {name}  OBVIOUS
      <4>2. at \in Seq(T) /\ name \in T  BY <3>2, <4>1
      <4> QED  BY <4>2
    <3>4. Append(at, name) # Root  BY <3>2, <3>3, PlacesAre
    <3> QED  BY <3>1, <3>2, <3>4
  <2>2. CASE ~(at \in Folders /\ Append(at, name) \in Files \cup Folders)
    <3>1. Enter(at, name) = <<>>  BY <1>2, <2>2 DEF Enter, Nowhere
    <3>2. <<>> \in Seq(Segments) /\ <<>> # Root  BY DEF Root
    <3> QED  BY <3>1, <3>2
  <2> QED  BY <2>1, <2>2
<1> QED  BY <1>1, <1>2

LEMMA WalkType ==
    ASSUME NEW S, NEW relative \in Seq(S)
    PROVE  Walk(relative) \in Seq(Segments) /\ (relative # <<>> => Walk(relative) # Root)
<1>1. CASE relative = <<>>
  <2>1. Walk(relative) = Root  BY <1>1, WalkIs
  <2> QED  BY <1>1, <2>1, PlacesAre
<1>2. CASE relative # <<>>
  <2>1. PICK at : Walk(relative) = Enter(at, relative[Len(relative)])  BY <1>2, WalkIs
  <2> QED  BY <2>1, EnterIs
<1> QED  BY <1>1, <1>2

\* What exists and is validated lies within the mount.
LEMMA ValidatedIs ==
    ASSUME NEW S, NEW relative \in Seq(S), Exists(relative), Validated(relative)
    PROVE  IsPrefix(Root, Walk(relative))
<1> DEFINE there == {n \in 0..Len(relative) : Exists(SubSeq(relative, 1, n))}
           last  == CHOOSE n \in there : \A m \in there : m <= n
<1>1. PICK l \in Nat : l = Len(relative)  OBVIOUS
<1>2. SubSeq(relative, 1, l) = relative
  <2>1. PICK t : t = SubSeq(relative, 1, l)  OBVIOUS
  <2>2. \A i \in 1..l : relative[i] \in S  BY <1>1
  <2>3. t \in Seq(S) /\ Len(t) = l /\ \A i \in 1..l : t[i] = relative[i]
    <3>1. 1 \in Int /\ l \in Int /\ l - 1 + 1 = l /\ (1 <= l \/ l = 0) /\ \A i \in 1..l : 1 + i - 1 = i
      OBVIOUS
    <3>2. /\ t \in Seq(S) /\ Len(t) = (IF 1 <= l THEN l - 1 + 1 ELSE 0)
          /\ \A i \in 1..(l - 1 + 1) : t[i] = relative[1 + i - 1]
      BY <2>1, <2>2, <3>1, SubSeqProperties
    <3> QED  BY <3>1, <3>2
  <2>4. t = relative  BY <1>1, <2>3, SeqEqual
  <2> QED  BY <2>1, <2>4
<1>3. l \in there
  <2>1. l \in 0..Len(relative)  BY <1>1
  <2>2. Exists(SubSeq(relative, 1, l))  BY <1>2, Zenon
  <2> QED  BY <2>1, <2>2
<1>4. \A m \in there : m <= l /\ m \in Nat  BY <1>1
<1>5. last = l
  <2>1. last \in there /\ \A m \in there : m <= last
    <3> HIDE DEF there
    <3> QED  BY <1>3, <1>4
  <2> HIDE DEF last, there
  <2> QED  BY <1>3, <1>4, <2>1
<1>6. Validated(relative) = Within(Walk(SubSeq(relative, 1, last)) \o SubSeq(relative, last + 1, Len(relative)))
  BY DEF Validated
<1> HIDE DEF last, there
<1>7. SubSeq(relative, l + 1, l) = <<>>
  <2>1. l + 1 \in Int /\ l \in Int /\ l < l + 1  OBVIOUS
  <2> QED  BY <2>1, SubSeqEmpty
<1>8. Within(Walk(relative) \o <<>>)  BY <1>1, <1>2, <1>5, <1>6, <1>7
<1>9. Walk(relative) \o <<>> = Walk(relative)  BY WalkType, ConcatEmptySeq
<1> QED  BY <1>8, <1>9 DEF Within

------------------------------------------------------------------------------
(* The answers to requests.                                                 *)

LEMMA BelowIs ==
    ASSUME NEW S, NEW relative \in Seq(S), NEW readonly \in BOOLEAN, NEW there \in BOOLEAN, NEW method,
           NEW answer, answer = Below(relative, readonly, there, method)
    PROVE  /\ answer.kind \in {"none", "refused", "error", "file"}
           /\ answer.kind = "file" =>
                 /\ IsPrefix(Root, answer.place)
                 /\ method \in Movers => answer.place # Root
                 /\ method \notin Readers => ~readonly
<1>1. answer \in {Failure, Refused, None, File(Walk(relative))}  BY DEF Below
<1>2. /\ Failure.kind = "error" /\ Refused.kind = "refused" /\ None.kind = "none"
      /\ File(Walk(relative)).kind = "file" /\ File(Walk(relative)).place = Walk(relative)
  BY DEF Failure, Refused, None, File
<1>3. answer.kind \in {"none", "refused", "error", "file"}  BY <1>1, <1>2
<1>4. ASSUME answer.kind = "file"
      PROVE  /\ answer.place = Walk(relative) /\ there /\ Validated(relative) /\ Exists(relative)
             /\ ~(relative = <<>> /\ method \in Movers) /\ (method \notin Readers => ~readonly)
  <2>1. answer # Failure /\ answer # Refused /\ answer # None  BY <1>2, <1>4
  <2>2. answer.place = Walk(relative)  BY <1>1, <1>2, <2>1
  <2> QED  BY <2>1, <2>2 DEF Below
<1>5. ASSUME answer.kind = "file"
      PROVE  /\ IsPrefix(Root, answer.place) /\ (method \in Movers => answer.place # Root)
             /\ (method \notin Readers => ~readonly)
  <2>1. IsPrefix(Root, Walk(relative))  BY <1>4, <1>5, ValidatedIs
  <2>2. relative # <<>> => Walk(relative) # Root  BY WalkType
  <2> QED  BY <1>4, <1>5, <2>1, <2>2
<1> QED  BY <1>3, <1>5

LEMMA CollectionIs ==
    ASSUME NEW names, NEW method
    PROVE  /\ Collection(names, method).kind \in {"refused", "virtual"}
           /\ method = "PROPFIND" => /\ Collection(names, method).kind = "virtual"
                                     /\ Collection(names, method).names = names
<1>1. "PROPFIND" \notin Movers  BY DEF Movers
<1> QED  BY <1>1 DEF Collection, Refused

\* The root of a mount that is there is always found.
LEMMA BelowRoot ==
    ASSUME NEW readonly \in BOOLEAN, NEW there \in BOOLEAN
    PROVE  Below(<<>>, readonly, there, "PROPFIND") # None <=> there
<1>1. Walk(<<>>) = Root
  <2>1. <<>> \in Seq({})  OBVIOUS
  <2> QED  BY <2>1, WalkIs
<1>2. Root # Nowhere /\ Exists(<<>>)  BY <1>1 DEF Exists, Root, Nowhere
<1>3. "PROPFIND" \in Readers /\ "PROPFIND" \notin Movers  BY DEF Readers, Movers
<1>4. Failure # None /\ File(Root) # None
  <2>1. Failure.kind # None.kind /\ File(Root).kind # None.kind  BY DEF Failure, File, None
  <2> QED  BY <2>1
<1> QED  BY <1>1, <1>2, <1>3, <1>4 DEF Below

\* For every state of the instances and the extras, every path and every method.
LEMMA ServeIs ==
    ASSUME NEW state, StateOK(state), NEW S, NEW path \in Seq(S), NEW method \in Methods
    PROVE  MayServe(state, path, method)
<1>1. PICK answer : answer = Answer(state, path, method)  OBVIOUS
<1> SUFFICES ASSUME answer.kind = "file"
             PROVE  /\ IsPrefix(Root, answer.place)
                    /\ method \in Movers => answer.place # Root
                    /\ method \notin Readers => path[1] = "instances" \/ ~state.ro[path[1]]
                    /\ path[1] = "instances" => state.meta[path[2]] \notin {"archived", "none"}
  BY <1>1 DEF MayServe
<1>2. None.kind # "file"  BY DEF None
<1>3. path # <<>>
  <2> SUFFICES ASSUME path = <<>> PROVE FALSE  OBVIOUS
  <2>1. answer = VirtualRoot(state, method)  BY <1>1 DEF Answer
  <2>2. answer.kind \in {"refused", "virtual"}  BY <2>1, CollectionIs DEF VirtualRoot
  <2> QED  BY <2>2
<1>4. Len(path) \in Nat /\ Len(path) > 0  BY <1>3
<1>5. CASE path[1] = "instances"
  <2>1. Len(path) # 1
    <3> SUFFICES ASSUME Len(path) = 1 PROVE FALSE  OBVIOUS
    <3>1. answer = VirtualInstanceList(state, method)  BY <1>1, <1>3, <1>5 DEF Answer
    <3>2. answer.kind \in {"refused", "virtual"}  BY <3>1, CollectionIs DEF VirtualInstanceList
    <3> QED  BY <3>2
  <2>2. Len(path) # 2
    <3> SUFFICES ASSUME Len(path) = 2 PROVE FALSE  OBVIOUS
    <3>1. answer = None \/ answer = VirtualInstanceMounts(state, path[2], method)
      BY <1>1, <1>3, <1>5 DEF Answer
    <3>2. VirtualInstanceMounts(state, path[2], method).kind \in {"refused", "virtual"}
      BY CollectionIs DEF VirtualInstanceMounts
    <3> QED  BY <1>2, <3>1, <3>2
  <2>3. PICK relative \in Seq(S), there \in BOOLEAN :
           /\ answer = Below(relative, FALSE, there, method) /\ Resolves(state, path[2], path[3])
    <3>1. SubSeq(path, 4, Len(path)) \in Seq(S)
      <4>1. \A i \in 4..Len(path) : path[i] \in S  BY <1>4
      <4> QED  BY <1>4, <4>1, SubSeqProperties
    <3>2. \/ answer = None
          \/ /\ answer = Below(SubSeq(path, 4, Len(path)), FALSE, <<path[2], path[3]>> \in state.mounts, method)
             /\ Resolves(state, path[2], path[3])
      BY <1>1, <1>3, <1>5, <2>1, <2>2 DEF Answer
    <3>3. answer # None  BY <1>2
    <3>4. (<<path[2], path[3]>> \in state.mounts) \in BOOLEAN  OBVIOUS
    <3> QED  BY <3>1, <3>2, <3>3, <3>4
  <2>4. state.meta[path[2]] = "live"  BY <2>3 DEF Resolves
  <2>5. IsPrefix(Root, answer.place) /\ (method \in Movers => answer.place # Root)
    BY <2>3, BelowIs
  <2> QED  BY <1>5, <2>4, <2>5
<1>6. CASE path[1] # "instances"
  <2>1. path[1] \in DOMAIN state.ro /\ answer = Below(Tail(path), state.ro[path[1]], TRUE, method)
    BY <1>1, <1>2, <1>3, <1>6 DEF Answer
  <2>2. PICK relative \in Seq(S), readonly \in BOOLEAN : relative = Tail(path) /\ readonly = state.ro[path[1]]
    <3>1. Tail(path) \in Seq(S)  BY <1>3
    <3>2. state.ro[path[1]] \in BOOLEAN  BY <2>1 DEF StateOK
    <3> QED  BY <3>1, <3>2
  <2>3. answer = Below(relative, readonly, TRUE, method)  BY <2>1, <2>2
  <2>4. /\ IsPrefix(Root, answer.place) /\ (method \in Movers => answer.place # Root)
        /\ (method \notin Readers => ~readonly)
    BY <2>3, BelowIs
  <2> QED  BY <1>6, <2>2, <2>4
<1> QED  BY <1>5, <1>6

\* For every state and path, and for any names.
LEMMA AgreesIs ==
    ASSUME NEW state, StateOK(state), NEW S, NEW path \in Seq(S), NEW names
    PROVE  AgreesBelow(state, path, names)
<1>1. PICK listing : listing = Answer(state, path, "PROPFIND")  OBVIOUS
<1> SUFFICES ASSUME listing.kind = "virtual", NEW name
             PROVE  \/ name \in listing.names <=> Answer(state, Append(path, name), "PROPFIND") # None
                    \/ Len(path) = 2 /\ state.meta[path[2]] = "broken"
  BY <1>1 DEF AgreesBelow
<1>2. None.kind = "none"  BY DEF None
<1>3. PICK next \in Seq(S \cup {name}) : next = Append(path, name)
  <2>1. PICK T : T = S \cup {name}  OBVIOUS
  <2>2. path \in Seq(T) /\ name \in T  BY <2>1
  <2>3. Append(path, name) \in Seq(T)  BY <2>2, AppendProperties
  <2> QED  BY <2>1, <2>3
<1>4. /\ Len(next) = Len(path) + 1 /\ next[Len(path) + 1] = name
      /\ \A i \in 1..Len(path) : next[i] = path[i]
  <2>1. PICK T : T = S \cup {name}  OBVIOUS
  <2>2. path \in Seq(T) /\ name \in T  BY <2>1
  <2> QED  BY <1>3, <2>2, AppendProperties
<1>5. next # <<>> /\ Len(path) \in Nat  BY <1>4
<1>6. CASE path = <<>>
  <2>1. listing = VirtualRoot(state, "PROPFIND")  BY <1>1, <1>6 DEF Answer
  <2>2. listing.names = {"instances"} \cup DOMAIN state.ro  BY <2>1, CollectionIs DEF VirtualRoot
  <2>3. Len(next) = 1 /\ next[1] = name  BY <1>4, <1>6
  <2>4. CASE name = "instances"
    <3>1. Answer(state, next, "PROPFIND") = VirtualInstanceList(state, "PROPFIND")
      BY <1>5, <2>3, <2>4 DEF Answer
    <3>2. Answer(state, next, "PROPFIND").kind = "virtual"  BY <3>1, CollectionIs DEF VirtualInstanceList
    <3> QED  BY <1>2, <1>3, <2>2, <2>4, <3>2
  <2>5. CASE name # "instances"
    <3>1. Answer(state, next, "PROPFIND") =
              IF name \in DOMAIN state.ro THEN Below(Tail(next), state.ro[name], TRUE, "PROPFIND") ELSE None
      BY <1>5, <2>3, <2>5 DEF Answer
    <3>2. Tail(next) = <<>>
      <4>1. PICK T : T = S \cup {name}  OBVIOUS
      <4>2. PICK t \in Seq(T) : t = next  BY <4>1
      <4>3. t # <<>> /\ Len(t) = 1  BY <1>5, <2>3, <4>2
      <4>4. Tail(t) \in Seq(T) /\ Len(Tail(t)) = Len(t) - 1  BY <4>3, HeadTailProperties
      <4>5. Len(Tail(t)) = 0  BY <4>3, <4>4
      <4>6. Tail(t) = <<>>  BY <4>4, <4>5, EmptySeq
      <4> QED  BY <4>2, <4>6
    <3>3. name \in DOMAIN state.ro => Below(<<>>, state.ro[name], TRUE, "PROPFIND") # None
      BY BelowRoot DEF StateOK
    <3> QED  BY <1>3, <2>2, <2>5, <3>1, <3>2, <3>3
  <2> QED  BY <2>4, <2>5
<1>7. CASE path # <<>> /\ path[1] # "instances"
  <2>1. listing = None \/ /\ path[1] \in DOMAIN state.ro
                          /\ listing = Below(Tail(path), state.ro[path[1]], TRUE, "PROPFIND")
    BY <1>1, <1>7 DEF Answer
  <2>2. listing # None  BY <1>2
  <2>3. Tail(path) \in Seq(S)  BY <1>7
  <2>4. state.ro[path[1]] \in BOOLEAN  BY <2>1, <2>2 DEF StateOK
  <2>5. listing.kind \in {"none", "refused", "error", "file"}  BY <2>1, <2>2, <2>3, <2>4, BelowIs
  <2> QED  BY <2>5
<1>8. CASE path # <<>> /\ path[1] = "instances" /\ Len(path) = 1
  <2>1. listing = VirtualInstanceList(state, "PROPFIND")  BY <1>1, <1>8 DEF Answer
  <2>2. listing.names = {id \in DOMAIN state.meta : Active(state, id)}
    BY <2>1, CollectionIs DEF VirtualInstanceList
  <2>3. Len(next) = 2 /\ next[1] = "instances" /\ next[2] = name  BY <1>4, <1>8
  <2>4. Answer(state, next, "PROPFIND") =
            IF Active(state, name) THEN VirtualInstanceMounts(state, name, "PROPFIND") ELSE None
    BY <1>5, <2>3 DEF Answer
  <2>5. VirtualInstanceMounts(state, name, "PROPFIND") # None
    BY <1>2, CollectionIs DEF VirtualInstanceMounts
  <2>6. name \in listing.names <=> Active(state, name)  BY <2>2 DEF Active, Loaded
  <2> QED  BY <1>3, <2>4, <2>5, <2>6
<1>9. CASE path # <<>> /\ path[1] = "instances" /\ Len(path) = 2
  <2>1. listing = None \/ /\ Active(state, path[2])
                          /\ listing = VirtualInstanceMounts(state, path[2], "PROPFIND")
    BY <1>1, <1>9 DEF Answer
  <2>2. listing # None  BY <1>2
  <2>3. Active(state, path[2]) /\ listing = VirtualInstanceMounts(state, path[2], "PROPFIND")  BY <2>1, <2>2
  <2>4. listing.names = {mount \in Mounts : <<path[2], mount>> \in state.mounts}
    BY <2>3, CollectionIs DEF VirtualInstanceMounts
  <2>5. Len(next) = 3 /\ next[1] = "instances" /\ next[2] = path[2] /\ next[3] = name  BY <1>4, <1>9
  <2>6. SubSeq(next, 4, Len(next)) = <<>>
    <3>1. SubSeq(next, 4, 3) = <<>>
      <4>1. 4 \in Int /\ 3 \in Int /\ 3 < 4  OBVIOUS
      <4> QED  BY <4>1, SubSeqEmpty
    <3> QED  BY <2>5, <3>1
  <2>7. PICK there \in BOOLEAN : there = (<<path[2], name>> \in state.mounts)
    <3>1. (<<path[2], name>> \in state.mounts) \in BOOLEAN  OBVIOUS
    <3> QED  BY <3>1, Zenon
  <2>8. Answer(state, next, "PROPFIND") =
            IF Resolves(state, path[2], name) THEN Below(<<>>, FALSE, there, "PROPFIND") ELSE None
    <3>1. next # <<>> /\ Len(next) # 1 /\ Len(next) # 2  BY <1>5, <2>5
    <3>2. Answer(state, next, "PROPFIND") =
              IF Resolves(state, next[2], next[3])
              THEN Below(SubSeq(next, 4, Len(next)), FALSE, <<next[2], next[3]>> \in state.mounts, "PROPFIND")
              ELSE None
      BY <2>5, <3>1, Zenon DEF Answer
    <3> QED  BY <2>5, <2>6, <2>7, <3>2, Zenon
  <2>9. Below(<<>>, FALSE, there, "PROPFIND") # None <=> there  BY BelowRoot
  <2>10. state.meta[path[2]] = "broken" \/ (Resolves(state, path[2], name) <=> name \in Mounts)
    BY <2>3 DEF Active, Loaded, Resolves, StateOK
  <2> QED  BY <1>3, <1>9, <2>4, <2>7, <2>8, <2>9, <2>10
<1>10. CASE path # <<>> /\ path[1] = "instances" /\ Len(path) # 1 /\ Len(path) # 2
  <2>0. PICK there \in BOOLEAN : there = (<<path[2], path[3]>> \in state.mounts)
    <3>1. (<<path[2], path[3]>> \in state.mounts) \in BOOLEAN  OBVIOUS
    <3> QED  BY <3>1, Zenon
  <2>1. PICK relative : relative = SubSeq(path, 4, Len(path))  OBVIOUS
  <2>2. listing = None \/ listing = Below(relative, FALSE, there, "PROPFIND")
    BY <1>1, <1>10, <2>0, <2>1 DEF Answer
  <2>3. listing # None  BY <1>2
  <2>4. relative \in Seq(S)
    <3>1. \A i \in 4..Len(path) : path[i] \in S  BY <1>5
    <3> QED  BY <1>5, <2>1, <3>1, SubSeqProperties
  <2>5. listing.kind \in {"none", "refused", "error", "file"}  BY <2>2, <2>3, <2>4, BelowIs
  <2> QED  BY <2>5
<1> QED  BY <1>6, <1>7, <1>8, <1>9, <1>10

------------------------------------------------------------------------------
(* Pages of jobs.  The jobs are counted, so the argument is about           *)
(* cardinalities: a new job can only raise the index of an old one, and no  *)
(* index reaches the number of the jobs.                                    *)

\* The jobs are finitely many, so every index is a number below their number.
LEMMA Indices ==
    ASSUME PagesTypeOK, NEW j \in entries
    PROVE  /\ IsFiniteSet(entries) /\ Cardinality(entries) \in Nat
           /\ Index(j) \in Nat /\ Index(j) < Cardinality(entries)
<1>1. IsFiniteSet(entries) /\ Cardinality(entries) \in Nat
  <2>1. IsFiniteSet(Listed) /\ entries \subseteq Listed  BY PagesAssumption DEF PagesTypeOK
  <2> QED  BY <2>1, FS_Subset, FS_CardinalityType
<1>2. Newer(j) \subseteq entries \ {j}
  <2>1. created[j] \in Nat  BY PagesAssumption DEF PagesTypeOK
  <2> QED  BY <2>1 DEF Newer
<1>3. IsFiniteSet(entries \ {j}) /\ Cardinality(entries \ {j}) = Cardinality(entries) - 1
  BY <1>1, FS_RemoveElement
<1>4. /\ IsFiniteSet(Newer(j)) /\ Cardinality(Newer(j)) \in Nat
      /\ Cardinality(Newer(j)) <= Cardinality(entries \ {j})
  BY <1>2, <1>3, FS_Subset, FS_CardinalityType
<1> QED  BY <1>1, <1>3, <1>4 DEF Index

\* A page keeps the invariant: it shows what lies before the next offset.
LEMMA PageKeeps ==
    ASSUME PagesIInv, NEW limit \in Limits, Page(limit)
    PROVE  PagesIInv'
<1>0. limit \in Nat /\ limit > 0 /\ offset \in Nat  BY PagesAssumption DEF PagesIInv, PagesTypeOK
<1>1. PagesTypeOK'
  <2>1. old' \subseteq entries  BY DEF Page, PagesIInv, PagesTypeOK
  <2>2. shown' \subseteq entries  BY DEF Page, PagesIInv, PagesTypeOK
  <2>3. offset' \in Nat  BY <1>0 DEF Page
  <2> QED  BY <2>1, <2>2, <2>3 DEF Page, PagesIInv, PagesTypeOK
<1>2. \A j \in old' \ shown' : Index(j) \in Nat /\ Index(j) >= offset + limit
  <2> SUFFICES ASSUME NEW j \in old' \ shown' PROVE Index(j) \in Nat /\ Index(j) >= offset + limit  OBVIOUS
  <2>1. j \in entries  BY <1>1 DEF Page, PagesTypeOK
  <2>2. Index(j) \in Nat  BY <2>1, Indices DEF PagesIInv
  <2>3. Index(j) >= offset
    <3>1. CASE walk = "new"  BY <3>1, <2>2, <1>0 DEF PagesIInv
    <3>2. CASE walk # "new"
      <4>1. walk = "pages"  BY <3>2 DEF Page, PagesIInv, PagesTypeOK
      <4>2. j \in old \ shown  BY <3>2 DEF Page
      <4> QED  BY <4>1, <4>2 DEF PagesIInv
    <3> QED  BY <3>1, <3>2
  <2>4. Index(j) \notin offset..(offset + limit - 1)  BY <2>1 DEF Page
  <2> QED  BY <2>2, <2>3, <2>4, <1>0
<1>3. \A j : Index(j)' = Index(j)
  BY DEF Page, Index, Newer
<1>4. walk' = "done" => old' \subseteq shown'
  <2> SUFFICES ASSUME walk' = "done", NEW j \in old', j \notin shown' PROVE FALSE  OBVIOUS
  <2>1. j \in entries  BY <1>1 DEF Page, PagesTypeOK
  <2>2. Index(j) < Cardinality(entries) /\ Cardinality(entries) \in Nat  BY <2>1, Indices DEF PagesIInv
  <2>3. offset + limit >= Cardinality(entries)  BY DEF Page
  <2> QED  BY <1>0, <1>2, <2>2, <2>3
<1>5. walk' = "pages" => \A j \in old' \ shown' : Index(j)' >= offset'
  BY <1>2, <1>3 DEF Page
<1>6. walk' # "new"  BY DEF Page
<1> QED  BY <1>1, <1>4, <1>5, <1>6 DEF PagesIInv, PagesShowAll

\* A new job keeps it: the indices of the others do not fall.
LEMMA SubmitKeeps ==
    ASSUME PagesIInv, NEW new \in Listed, NEW stamp \in Stamps, SubmitNew(new, stamp)
    PROVE  PagesIInv'
<1>1. PagesTypeOK'
  <2>1. created' \in [entries' -> Stamps]  BY DEF SubmitNew, PagesIInv, PagesTypeOK
  <2> QED  BY <2>1 DEF SubmitNew, PagesIInv, PagesTypeOK
<1>2. ASSUME NEW j \in entries
      PROVE  Index(j)' >= Index(j) /\ Index(j)' \in Nat /\ Index(j) \in Nat
  <2>1. IsFiniteSet(entries')
    <3>1. entries' \subseteq Listed /\ IsFiniteSet(Listed)  BY <1>1, PagesAssumption DEF PagesTypeOK
    <3> QED  BY <3>1, FS_Subset
  <2>2. Newer(j)' \subseteq entries'  BY DEF Newer
  <2>3. Newer(j) \subseteq Newer(j)'
    <3>1. new \notin entries /\ entries \subseteq entries'  BY DEF SubmitNew
    <3>2. \A i \in entries : created'[i] = created[i]  BY <3>1 DEF SubmitNew
    <3> QED  BY <3>1, <3>2 DEF Newer
  <2>4. IsFiniteSet(Newer(j)') /\ Cardinality(Newer(j)') \in Nat  BY <2>1, <2>2, FS_Subset, FS_CardinalityType
  <2>5. Cardinality(Newer(j)) <= Cardinality(Newer(j)')  BY <2>3, <2>4, FS_Subset
  <2>6. Index(j) \in Nat  BY Indices DEF PagesIInv
  <2> QED  BY <2>4, <2>5, <2>6 DEF Index
<1>3. walk' = "pages" => \A j \in old' \ shown' : Index(j)' >= offset'
  <2> SUFFICES ASSUME walk' = "pages", NEW j \in old' \ shown' PROVE Index(j)' >= offset'  OBVIOUS
  <2>1. j \in old \ shown /\ walk = "pages" /\ offset' = offset /\ offset \in Nat
    BY DEF SubmitNew, PagesIInv, PagesTypeOK
  <2>2. Index(j) >= offset /\ j \in entries  BY <2>1 DEF PagesIInv, PagesTypeOK
  <2> QED  BY <1>2, <2>1, <2>2
<1>4. PagesShowAll' /\ (walk' = "new" => offset' = 0)
  BY DEF SubmitNew, PagesIInv, PagesShowAll
<1> QED  BY <1>1, <1>3, <1>4 DEF PagesIInv

------------------------------------------------------------------------------
(* The theorems.                                                            *)

\* The inductive invariant of list_jobs (server.py:684) and its clients holds always.
THEOREM Invariance == Spec => []PagesIInv
<1>1. Init => PagesIInv
  <2> SUFFICES ASSUME PagesInit PROVE PagesIInv  BY DEF Init
  <2>1. PagesTypeOK  BY DEF PagesInit, PagesTypeOK
  <2> QED  BY <2>1 DEF PagesInit, PagesIInv, PagesShowAll
<1>2. PagesIInv /\ [Next]_<<pages, lookup>> => PagesIInv'
  <2> SUFFICES ASSUME PagesIInv, [Next]_<<pages, lookup>> PROVE PagesIInv'  OBVIOUS
  <2>1. ASSUME NEW limit \in Limits, Page(limit) PROVE PagesIInv'  BY <2>1, PageKeeps
  <2>2. ASSUME NEW j \in Listed, NEW stamp \in Stamps, SubmitNew(j, stamp) PROVE PagesIInv'
    BY <2>2, SubmitKeeps
  <2>3. CASE UNCHANGED pages
    BY <2>3 DEF pages, PagesIInv, PagesTypeOK, PagesShowAll, Index, Newer
  <2>4. PagesNext \/ UNCHANGED pages
    BY DEF Next, AskTail, Request, AskConfig, AskWarnings, Ask
  <2> QED  BY <2>1, <2>2, <2>3, <2>4 DEF PagesNext
<1> QED  BY <1>1, <1>2, PTL DEF Spec

\* A client that walks through the pages is shown every job there was when it began.
THEOREM ShowsAll == Spec => []PagesShowAll
<1>1. PagesIInv => PagesShowAll  BY DEF PagesIInv
<1> QED  BY <1>1, Invariance, PTL

\* What is asked for is one of the inputs.
LEMMA Asked ==
    ASSUME [Next]_<<pages, lookup>>
    PROVE  \/ lookup' = lookup
           \/ \E data \in Seq(Bytes), n, maxBytes \in Nat :
                  lookup' = [of |-> "tail", data |-> data, n |-> n, maxBytes |-> maxBytes]
           \/ \E state \in States, path \in Seq(STRING), method \in Methods :
                  /\ StateOK(state)
                  /\ lookup' = [of |-> "dav", state |-> state, path |-> path, method |-> method]
           \/ \E user, explicit \in Tables :
                  lookup' = [of |-> "config", layers |-> <<Defaults, user, explicit>>,
                             result |-> DeepMerge(DeepMerge(Defaults, user), explicit)]
           \/ \E data \in Tables : lookup' = [of |-> "warn", data |-> data, warned |-> WarnUnknown(data)]
<1>1. CASE UNCHANGED <<pages, lookup>>  BY <1>1
<1>2. CASE UNCHANGED lookup  BY <1>2
<1>3. ASSUME NEW data \in Outputs, NEW n \in Sizes, NEW maxBytes \in Sizes, AskTail(data, n, maxBytes)
      PROVE  \E d \in Seq(Bytes), k, m \in Nat :
                 lookup' = [of |-> "tail", data |-> d, n |-> k, maxBytes |-> m]
  <2>1. data \in Seq(Bytes) /\ n \in Nat /\ maxBytes \in Nat  BY LookupsAssumption
  <2>2. lookup' = [of |-> "tail", data |-> data, n |-> n, maxBytes |-> maxBytes]  BY <1>3 DEF AskTail, Ask
  <2> QED  BY <2>1, <2>2
<1>4. ASSUME NEW state \in States, NEW path \in Requests, NEW method \in Methods, Request(state, path, method)
      PROVE  \E s \in States, p \in Seq(STRING), m \in Methods :
                 /\ StateOK(s)
                 /\ lookup' = [of |-> "dav", state |-> s, path |-> p, method |-> m]
  <2>1. StateOK(state) /\ path \in Seq(STRING)  BY LookupsAssumption
  <2>2. lookup' = [of |-> "dav", state |-> state, path |-> path, method |-> method]  BY <1>4 DEF Request, Ask
  <2> QED  BY <2>1, <2>2
<1>5. ASSUME NEW user \in ConfigFiles, NEW explicit \in ConfigFiles, AskConfig(user, explicit)
      PROVE  \E u, e \in Tables :
                 lookup' = [of |-> "config", layers |-> <<Defaults, u, e>>,
                            result |-> DeepMerge(DeepMerge(Defaults, u), e)]
  <2>1. Content(user) \in Tables /\ Content(explicit) \in Tables  BY LookupsAssumption, ContentIs
  <2>2. lookup' = [of |-> "config", layers |-> <<Defaults, Content(user), Content(explicit)>>,
                   result |-> DeepMerge(DeepMerge(Defaults, Content(user)), Content(explicit))]
    BY <1>5 DEF AskConfig, Ask, LoadConfig
  <2> QED  BY <2>1, <2>2
<1>6. ASSUME NEW file \in ConfigFiles, AskWarnings(file)
      PROVE  \E data \in Tables : lookup' = [of |-> "warn", data |-> data, warned |-> WarnUnknown(data)]
  <2>1. Content(file) \in Tables  BY LookupsAssumption, ContentIs
  <2> QED  BY <1>6, <2>1 DEF AskWarnings, Ask
<1> QED  BY <1>1, <1>2, <1>3, <1>4, <1>5, <1>6 DEF Next

\* _tail_file (job_manager.py:107): the tail that a job's result carries is the last n lines
\* of its output, or, if they are more than the window, the end of them.
THEOREM TailKept == Spec => []TailIsLast
<1>1. Init => TailIsLast  BY DEF Init, TailIsLast
<1>2. TailIsLast /\ [Next]_<<pages, lookup>> => TailIsLast'
  <2> SUFFICES ASSUME TailIsLast, [Next]_<<pages, lookup>>, lookup'.of = "tail"
               PROVE  EndsTheFile(lookup'.data, lookup'.n, lookup'.maxBytes)
    BY DEF TailIsLast
  <2>1. CASE lookup' = lookup  BY <2>1 DEF TailIsLast
  <2>2. ASSUME NEW data \in Seq(Bytes), NEW n \in Nat, NEW maxBytes \in Nat,
               lookup' = [of |-> "tail", data |-> data, n |-> n, maxBytes |-> maxBytes]
        PROVE  EndsTheFile(lookup'.data, lookup'.n, lookup'.maxBytes)
    <3>1. EndsTheFile(data, n, maxBytes)  BY TailIs
    <3>2. lookup'.data = data /\ lookup'.n = n /\ lookup'.maxBytes = maxBytes  BY <2>2
    <3> QED  BY <3>1, <3>2
  <2> QED  BY <2>1, <2>2, Asked
<1> QED  BY <1>1, <1>2, PTL DEF Spec

\* get_resource_inst (file_server.py:653): no request is given a file outside its mount, a mount
\* point to remove, a read-only file to write, or a file of an archived instance.
THEOREM ServedAllowed == Spec => []ServedIsAllowed
<1>1. Init => ServedIsAllowed  BY DEF Init, ServedIsAllowed
<1>2. ServedIsAllowed /\ [Next]_<<pages, lookup>> => ServedIsAllowed'
  <2> SUFFICES ASSUME ServedIsAllowed, [Next]_<<pages, lookup>>, lookup'.of = "dav"
               PROVE  MayServe(lookup'.state, lookup'.path, lookup'.method)
    BY DEF ServedIsAllowed
  <2>1. CASE lookup' = lookup  BY <2>1 DEF ServedIsAllowed
  <2>2. ASSUME NEW state \in States, NEW path \in Seq(STRING), NEW method \in Methods, StateOK(state),
               lookup' = [of |-> "dav", state |-> state, path |-> path, method |-> method]
        PROVE  MayServe(lookup'.state, lookup'.path, lookup'.method)
    <3>1. MayServe(state, path, method)  BY <2>2, ServeIs
    <3>2. lookup'.state = state /\ lookup'.path = path /\ lookup'.method = method  BY <2>2
    <3> QED  BY <3>1, <3>2
  <2> QED  BY <2>1, <2>2, Asked
<1> QED  BY <1>1, <1>2, PTL DEF Spec

\* The virtual collections list what get_resource_inst finds below them, but for the mounts of
\* an instance with broken metadata (file_server.py:611, 779-902).
THEOREM TreesAgree == Spec => []TreeAgrees
<1>1. Init => TreeAgrees  BY DEF Init, TreeAgrees
<1>2. TreeAgrees /\ [Next]_<<pages, lookup>> => TreeAgrees'
  <2> SUFFICES ASSUME TreeAgrees, [Next]_<<pages, lookup>>, lookup'.of = "dav"
               PROVE  AgreesBelow(lookup'.state, lookup'.path, Names)
    BY DEF TreeAgrees
  <2>1. CASE lookup' = lookup  BY <2>1 DEF TreeAgrees
  <2>2. ASSUME NEW state \in States, NEW path \in Seq(STRING), NEW method \in Methods, StateOK(state),
               lookup' = [of |-> "dav", state |-> state, path |-> path, method |-> method]
        PROVE  AgreesBelow(lookup'.state, lookup'.path, Names)
    <3>1. AgreesBelow(state, path, Names)  BY <2>2, AgreesIs
    <3>2. lookup'.state = state /\ lookup'.path = path  BY <2>2
    <3> QED  BY <3>1, <3>2
  <2> QED  BY <2>1, <2>2, Asked
<1> QED  BY <1>1, <1>2, PTL DEF Spec

\* load_config (config.py:205): every path of the result is what the last of the defaults, the
\* user's file and the explicit file says that has the path, unless a later one put a leaf above.
THEOREM LayersKept == Spec => []LayersWin
<1>1. Init => LayersWin  BY DEF Init, LayersWin
<1>2. LayersWin /\ [Next]_<<pages, lookup>> => LayersWin'
  <2> SUFFICES ASSUME LayersWin, [Next]_<<pages, lookup>>, lookup'.of = "config"
               PROVE  LastWins(lookup'.layers, lookup'.result)
    BY DEF LayersWin
  <2>1. CASE lookup' = lookup  BY <2>1 DEF LayersWin
  <2>2. ASSUME NEW user \in Tables, NEW explicit \in Tables,
               lookup' = [of |-> "config", layers |-> <<Defaults, user, explicit>>,
                          result |-> DeepMerge(DeepMerge(Defaults, user), explicit)]
        PROVE  LastWins(lookup'.layers, lookup'.result)
    <3>1. LastWins(<<Defaults, user, explicit>>, DeepMerge(DeepMerge(Defaults, user), explicit))
      BY LookupsAssumption, LastOfThreeWins
    <3>2. lookup'.layers = <<Defaults, user, explicit>>
          /\ lookup'.result = DeepMerge(DeepMerge(Defaults, user), explicit)
      BY <2>2
    <3> QED  BY <3>1, <3>2
  <2> QED  BY <2>1, <2>2, Asked
<1> QED  BY <1>1, <1>2, PTL DEF Spec

\* _warn_unknown_keys (config.py:179): the keys warned of are exactly those that validation has
\* no place for, at every depth.
THEOREM WarningsExact == Spec => []WarnsOfIgnored
<1>1. Init => WarnsOfIgnored  BY DEF Init, WarnsOfIgnored
<1>2. WarnsOfIgnored /\ [Next]_<<pages, lookup>> => WarnsOfIgnored'
  <2> SUFFICES ASSUME WarnsOfIgnored, [Next]_<<pages, lookup>>, lookup'.of = "warn"
               PROVE  WarnsOf(lookup'.data, lookup'.warned)
    BY DEF WarnsOfIgnored
  <2>1. CASE lookup' = lookup  BY <2>1 DEF WarnsOfIgnored
  <2>2. ASSUME NEW data \in Tables, lookup' = [of |-> "warn", data |-> data, warned |-> WarnUnknown(data)]
        PROVE  WarnsOf(lookup'.data, lookup'.warned)
    <3>1. WarnsOf(data, WarnUnknown(data))  BY WarnsOfUnplaced
    <3>2. lookup'.data = data /\ lookup'.warned = WarnUnknown(data)  BY <2>2
    <3> QED  BY <3>1, <3>2
  <2> QED  BY <2>1, <2>2, Asked
<1> QED  BY <1>1, <1>2, PTL DEF Spec
==============================================================================

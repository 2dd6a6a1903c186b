------------------------------ MODULE SortedProofs ------------------------------
(***************************************************************************)
(* Facts about strictly increasing sequences of numbers.  The stream's     *)
(* queue and the change feed of a trigger are such sequences: the numbers  *)
(* of a set of commits, in order.  A set has exactly one of them, so what  *)
(* a step does to the sequence can be told from what it does to the set.   *)
(***************************************************************************)
EXTENDS Integers, FiniteSets, Sequences, SequencesExt,
        FiniteSetTheorems, FunctionTheorems, SequenceTheorems, TLAPS

\* The members of a set of numbers in order.
Listed(S) ==
    [i \in 1..Cardinality(S) |-> CHOOSE s \in S : Cardinality({t \in S : t < s}) = i - 1]

Increasing(s) == \A i, j \in DOMAIN s : i < j => s[i] < s[j]

Below(S, x) == Cardinality({t \in S : t < x})

\* A function on 1 .. n is a sequence of length n.
LEMMA FunctionIsSequence ==
  ASSUME NEW S, NEW n \in Nat, NEW f \in [1 .. n -> S]
  PROVE  f \in Seq(S) /\ Len(f) = n
<1>1. f \in Seq(S)
  BY SeqDef
<1>2. Len(f) \in Nat /\ 1 .. Len(f) = 1 .. n
  BY <1>1, LenProperties
<1>3. \A m \in Nat : Cardinality(1 .. m) = m
  BY FS_Interval
<1> QED  BY <1>1, <1>2, <1>3

-----------------------------------------------------------------------------
(* How many members lie below one                                          *)

\* A count below a member of the set is less than its size.
LEMMA BelowRange ==
  ASSUME NEW S \in SUBSET Int, IsFiniteSet(S), NEW x \in S
  PROVE  Cardinality(S) \in Nat /\ Below(S, x) \in 0 .. Cardinality(S) - 1
<1> DEFINE T == {t \in S : t < x}
<1>1. /\ IsFiniteSet(T) /\ Cardinality(T) \in Nat /\ Cardinality(S) \in Nat
      /\ Cardinality(T) <= Cardinality(S) /\ (Cardinality(S) = Cardinality(T) => S = T)
  BY FS_Subset, FS_CardinalityType
<1>2. T # S
  <2>1. x \notin T
    OBVIOUS
  <2> QED  BY <2>1
<1> QED  BY <1>1, <1>2 DEF Below

\* The larger member has more below it.
LEMMA BelowIncreases ==
  ASSUME NEW S \in SUBSET Int, IsFiniteSet(S), NEW x \in S, NEW y \in S, x < y
  PROVE  Below(S, x) < Below(S, y)
<1> DEFINE T == {t \in S : t < x}
           U == {t \in S : t < y}
<1>1. IsFiniteSet(U) /\ IsFiniteSet(T)
  BY FS_Subset
<1>2. T \in SUBSET U
  <2>1. \A t \in S : t < x => t < y
    OBVIOUS
  <2> QED  BY <2>1
<1>3. x \in U /\ x \notin T
  OBVIOUS
<1>4. Cardinality(T) <= Cardinality(U) /\ Cardinality(U) # Cardinality(T)
  BY <1>1, <1>2, <1>3, FS_Subset
<1>5. Cardinality(T) \in Nat /\ Cardinality(U) \in Nat
  BY <1>1, FS_CardinalityType
<1> QED  BY <1>4, <1>5 DEF Below

\* No two members have the same number of members below them.
LEMMA BelowInjective ==
  ASSUME NEW S \in SUBSET Int, IsFiniteSet(S), NEW x \in S, NEW y \in S, Below(S, x) = Below(S, y)
  PROVE  x = y
<1>1. Below(S, x) \in Int
  BY BelowRange
<1>2. x < y \/ y < x \/ x = y
  OBVIOUS
<1> QED  BY <1>1, <1>2, BelowIncreases

\* Every count less than the size of the set is the count below a member.
LEMMA BelowOnto ==
  ASSUME NEW S \in SUBSET Int, IsFiniteSet(S), NEW n \in 0 .. Cardinality(S) - 1
  PROVE  \E x \in S : Below(S, x) = n
<1> DEFINE N == Cardinality(S)
           f == [x \in S |-> Below(S, x)]
<1>1. N \in Nat
  BY FS_CardinalityType
<1>2. f \in [S -> 0 .. N - 1]
  BY BelowRange
<1>3. \A x, y \in S : f[x] = f[y] => x = y
  BY BelowInjective
<1>4. f \in Injection(S, 0 .. N - 1)
  BY <1>2, <1>3 DEF Injection, IsInjective
<1>5. IsFiniteSet(0 .. N - 1) /\ Cardinality(0 .. N - 1) = N
  BY <1>1, FS_Interval
<1>6. f \in Surjection(S, 0 .. N - 1)
  BY <1>4, <1>5, FS_Injection
<1> QED  BY <1>6 DEF Surjection

-----------------------------------------------------------------------------
(* The one increasing sequence of a set                                    *)

\* Listed gives an increasing sequence of exactly the members.
LEMMA ListedInOrder ==
  ASSUME NEW S \in SUBSET Int, IsFiniteSet(S)
  PROVE  /\ Listed(S) \in Seq(S) /\ Listed(S) \in Seq(Int)
         /\ Len(Listed(S)) = Cardinality(S)
         /\ Increasing(Listed(S)) /\ Range(Listed(S)) = S
<1> DEFINE N == Cardinality(S)
           s == Listed(S)
<1>1. N \in Nat
  BY FS_CardinalityType
<1>2. \A i \in 1 .. N : s[i] \in S /\ Below(S, s[i]) = i - 1
  <2> SUFFICES ASSUME NEW i \in 1 .. N PROVE s[i] \in S /\ Below(S, s[i]) = i - 1
    OBVIOUS
  <2>1. i - 1 \in 0 .. N - 1
    BY <1>1
  <2>2. \E x \in S : Below(S, x) = i - 1
    <3> HIDE DEF s
    <3> QED  BY <2>1, BelowOnto
  <2>3. s[i] = CHOOSE x \in S : Below(S, x) = i - 1
    BY DEF Listed, Below
  <2> HIDE DEF s
  <2> QED  BY <2>2, <2>3
<1>3. s = [i \in 1 .. N |-> s[i]]
  BY DEF Listed
<1> HIDE DEF s
<1>4. s \in [1 .. N -> S] /\ DOMAIN s = 1 .. N
  BY <1>2, <1>3
<1>5. s \in Seq(S) /\ s \in Seq(Int) /\ Len(s) = N
  <2>1. s \in Seq(S) /\ Len(s) = N
    BY <1>1, <1>4, FunctionIsSequence
  <2>2. s \in Seq(Int)
    BY <2>1, SeqMonotonic
  <2> QED  BY <2>1, <2>2
<1>6. Increasing(s)
  <2> SUFFICES ASSUME NEW i \in 1 .. N, NEW j \in 1 .. N, i < j PROVE s[i] < s[j]
    BY <1>4 DEF Increasing
  <2>1. /\ s[i] \in S /\ s[j] \in S /\ s[i] \in Int /\ s[j] \in Int
        /\ Below(S, s[i]) = i - 1 /\ Below(S, s[j]) = j - 1
    BY <1>2
  <2>2. s[i] # s[j]
    BY <2>1
  <2>3. ~(s[j] < s[i])
    <3> SUFFICES ASSUME s[j] < s[i] PROVE FALSE
      OBVIOUS
    <3>1. Below(S, s[j]) < Below(S, s[i])
      BY <2>1, BelowIncreases
    <3> QED  BY <2>1, <3>1
  <2> QED  BY <2>1, <2>2, <2>3
<1>7. Range(s) = S
  <2>1. ASSUME NEW x \in S PROVE \E i \in 1 .. N : s[i] = x
    <3>1. Below(S, x) + 1 \in 1 .. N /\ Below(S, x) \in Int
      BY <1>1, BelowRange
    <3> DEFINE i == Below(S, x) + 1
    <3>2. i \in 1 .. N /\ i - 1 = Below(S, x)
      BY <3>1
    <3> HIDE DEF i
    <3>3. Below(S, s[i]) = Below(S, x) /\ s[i] \in S
      BY <1>2, <3>2
    <3>4. \A y, z \in S : Below(S, y) = Below(S, z) => y = z
      BY BelowInjective
    <3>5. s[i] = x
      BY <3>3, <3>4
    <3> QED  BY <3>2, <3>5
  <2> QED  BY <1>2, <1>4, <2>1 DEF Range
<1> QED  BY <1>5, <1>6, <1>7 DEF s

\* In an increasing sequence the i-th element has i - 1 others below it.
LEMMA IncreasingCounts ==
  ASSUME NEW s \in Seq(Int), Increasing(s)
  PROVE  /\ IsFiniteSet(Range(s)) /\ Cardinality(Range(s)) = Len(s) /\ Range(s) \in SUBSET Int
         /\ \A i \in 1 .. Len(s) : Below(Range(s), s[i]) = i - 1
<1> DEFINE R == Range(s)
<1>1. Len(s) \in Nat /\ DOMAIN s = 1 .. Len(s) /\ \A i \in 1 .. Len(s) : s[i] \in Int
  BY LenProperties, ElementOfSeq
<1>2. \A i, j \in 1 .. Len(s) : i < j => s[i] < s[j]
  BY <1>1 DEF Increasing
<1>3. \A i, j \in 1 .. Len(s) : s[i] = s[j] => i = j
  <2> SUFFICES ASSUME NEW i \in 1 .. Len(s), NEW j \in 1 .. Len(s), s[i] = s[j], i # j
               PROVE  FALSE
    OBVIOUS
  <2>1. i < j \/ j < i
    BY <1>1
  <2> QED  BY <1>1, <1>2, <2>1
<1>4. ASSUME NEW n \in 0 .. Len(s)
      PROVE  LET T == {s[i] : i \in 1 .. n}
             IN  IsFiniteSet(T) /\ Cardinality(T) = n
  <2> DEFINE T == {s[i] : i \in 1 .. n}
             f == [i \in 1 .. n |-> s[i]]
  <2>1. \A i \in 1 .. n : i \in 1 .. Len(s)
    BY <1>1
  <2>2. f \in Bijection(1 .. n, T)
    <3>1. \A i, j \in 1 .. n : f[i] = f[j] => i = j
      BY <1>3, <2>1
    <3>2. f \in Injection(1 .. n, T)
      BY <3>1 DEF Injection, IsInjective
    <3>3. f \in Surjection(1 .. n, T)
      BY DEF Surjection
    <3> QED  BY <3>2, <3>3 DEF Bijection
  <2>3. n \in Nat /\ ExistsBijection(1 .. n, T)
    <3> HIDE DEF f, T
    <3> QED  BY <1>1, <2>2 DEF ExistsBijection
  <2>4. IsFiniteSet(1 .. n) /\ Cardinality(1 .. n) = n
    BY <2>3, FS_Interval
  <2> QED  BY <2>3, <2>4, FS_Bijection
<1>5. R = {s[i] : i \in 1 .. Len(s)}
  BY <1>1 DEF Range
<1>6. IsFiniteSet(R) /\ Cardinality(R) = Len(s)
  <2>1. Len(s) \in 0 .. Len(s)
    BY <1>1
  <2> HIDE DEF R
  <2> QED  BY <1>4, <1>5, <2>1
<1>7. R \in SUBSET Int
  BY <1>1, <1>5
<1>8. ASSUME NEW i \in 1 .. Len(s)
      PROVE  Below(R, s[i]) = i - 1
  <2>1. {t \in R : t < s[i]} = {s[j] : j \in 1 .. i - 1}
    <3>1. ASSUME NEW j \in 1 .. Len(s) PROVE s[j] < s[i] <=> j \in 1 .. i - 1
      <4>1. j < i => s[j] < s[i]
        BY <1>2
      <4>2. i < j => ~(s[j] < s[i])
        BY <1>1, <1>2
      <4> QED  BY <1>1, <4>1, <4>2
    <3>2. \A j \in 1 .. i - 1 : j \in 1 .. Len(s)
      BY <1>1
    <3> HIDE DEF R
    <3> QED  BY <1>5, <3>1, <3>2
  <2>2. i - 1 \in 0 .. Len(s)
    BY <1>1
  <2> QED  BY <1>4, <2>1, <2>2 DEF Below
<1> QED  BY <1>6, <1>7, <1>8

\* An increasing sequence is the listing of its own members.
LEMMA IncreasingIsListed ==
  ASSUME NEW s \in Seq(Int), Increasing(s)
  PROVE  s = Listed(Range(s))
<1> DEFINE R == Range(s)
           t == Listed(R)
<1>1. /\ IsFiniteSet(R) /\ Cardinality(R) = Len(s) /\ R \in SUBSET Int
      /\ \A i \in 1 .. Len(s) : Below(R, s[i]) = i - 1
  BY IncreasingCounts
<1>2. t \in Seq(Int) /\ Len(t) = Len(s) /\ Increasing(t) /\ Range(t) = R
  BY <1>1, ListedInOrder
<1> HIDE DEF R, t
<1>3. \A i \in 1 .. Len(t) : Below(R, t[i]) = i - 1
  BY <1>2, IncreasingCounts
<1>4. ASSUME NEW i \in 1 .. Len(s) PROVE s[i] = t[i]
  <2>1. Below(R, s[i]) = Below(R, t[i])
    BY <1>1, <1>2, <1>3
  <2>2. s[i] \in R /\ t[i] \in R
    <3>1. i \in DOMAIN s /\ i \in DOMAIN t
      BY <1>2, LenProperties
    <3>2. s[i] \in Range(s) /\ t[i] \in Range(t)
      BY <3>1 DEF Range
    <3> QED  BY <1>2, <3>2 DEF R
  <2>3. \A y, z \in R : Below(R, y) = Below(R, z) => y = z
    BY <1>1, BelowInjective
  <2> QED  BY <2>1, <2>2, <2>3
<1>5. s = t
  BY <1>2, <1>4, SeqEqual
<1> QED  BY <1>5 DEF R, t

-----------------------------------------------------------------------------
(* Putting two together, and taking one apart                              *)

\* Three sequences are put together in either order.
Regroups(s, t, u) == (s \o t) \o u = s \o (t \o u)

\* Concatenation can be regrouped.
LEMMA ConcatRegroups ==
  ASSUME NEW S, NEW s \in Seq(S), NEW t \in Seq(S), NEW u \in Seq(S)
  PROVE  Regroups(s, t, u)
BY ConcatAssociative DEF Regroups

\* The members of a concatenation.
LEMMA ConcatRange ==
  ASSUME NEW S, NEW s \in Seq(S), NEW t \in Seq(S)
  PROVE  Range(s \o t) = Range(s) \cup Range(t)
<1> DEFINE u == s \o t
<1>1. /\ Len(s) \in Nat /\ Len(t) \in Nat
      /\ DOMAIN s = 1 .. Len(s) /\ DOMAIN t = 1 .. Len(t)
  BY LenProperties
<1>2. /\ DOMAIN u = 1 .. Len(s) + Len(t)
      /\ \A i \in 1 .. Len(s) + Len(t) : u[i] = IF i <= Len(s) THEN s[i] ELSE t[i - Len(s)]
  <2>1. u \in Seq(S) /\ Len(u) = Len(s) + Len(t)
    BY ConcatProperties
  <2> QED  BY <2>1, LenProperties, ConcatProperties
<1> HIDE DEF u
<1>3. ASSUME NEW i \in DOMAIN u PROVE u[i] \in Range(s) \cup Range(t)
  <2>1. CASE i <= Len(s)
    <3>1. i \in DOMAIN s /\ u[i] = s[i]
      BY <1>1, <1>2, <2>1
    <3> QED  BY <3>1 DEF Range
  <2>2. CASE ~(i <= Len(s))
    <3>1. i - Len(s) \in DOMAIN t /\ u[i] = t[i - Len(s)]
      BY <1>1, <1>2, <2>2
    <3> QED  BY <3>1 DEF Range
  <2> QED  BY <2>1, <2>2
<1>4. ASSUME NEW i \in DOMAIN s PROVE s[i] \in Range(u)
  <2>1. i \in DOMAIN u /\ u[i] = s[i]
    BY <1>1, <1>2
  <2> QED  BY <2>1 DEF Range
<1>5. ASSUME NEW i \in DOMAIN t PROVE t[i] \in Range(u)
  <2>1. Len(s) + i \in DOMAIN u /\ u[Len(s) + i] = t[i]
    BY <1>1, <1>2
  <2> QED  BY <2>1 DEF Range
<1>6. Range(u) = Range(s) \cup Range(t)
  BY <1>3, <1>4, <1>5 DEF Range
<1> QED  BY <1>6 DEF u

\* A concatenation increases exactly when both parts do and the first lies
\* below the second.
LEMMA ConcatIncreases ==
  ASSUME NEW s \in Seq(Int), NEW t \in Seq(Int)
  PROVE  Increasing(s \o t) <=>
           /\ Increasing(s) /\ Increasing(t)
           /\ \A x \in Range(s), y \in Range(t) : x < y
<1> DEFINE u == s \o t
<1>1. /\ Len(s) \in Nat /\ Len(t) \in Nat
      /\ DOMAIN s = 1 .. Len(s) /\ DOMAIN t = 1 .. Len(t)
  BY LenProperties
<1>2. /\ DOMAIN u = 1 .. Len(s) + Len(t)
      /\ \A i \in 1 .. Len(s) + Len(t) : u[i] = IF i <= Len(s) THEN s[i] ELSE t[i - Len(s)]
  <2>1. u \in Seq(Int) /\ Len(u) = Len(s) + Len(t)
    BY ConcatProperties
  <2> QED  BY <2>1, LenProperties, ConcatProperties
<1> HIDE DEF u
<1>3. \A i \in DOMAIN s : i \in DOMAIN u /\ i <= Len(s) /\ u[i] = s[i]
  BY <1>1, <1>2
<1>4. \A i \in DOMAIN t : Len(s) + i \in DOMAIN u /\ u[Len(s) + i] = t[i]
  BY <1>1, <1>2
<1>5. ASSUME Increasing(u)
      PROVE  /\ Increasing(s) /\ Increasing(t)
             /\ \A x \in Range(s), y \in Range(t) : x < y
  <2>1. Increasing(s)
    BY <1>3, <1>5 DEF Increasing
  <2>2. Increasing(t)
    <3> SUFFICES ASSUME NEW i \in DOMAIN t, NEW j \in DOMAIN t, i < j PROVE t[i] < t[j]
      BY DEF Increasing
    <3>1. Len(s) + i < Len(s) + j
      BY <1>1
    <3> QED  BY <1>4, <1>5, <3>1 DEF Increasing
  <2>3. ASSUME NEW i \in DOMAIN s, NEW j \in DOMAIN t PROVE s[i] < t[j]
    <3>1. i < Len(s) + j
      BY <1>1
    <3> QED  BY <1>3, <1>4, <1>5, <3>1 DEF Increasing
  <2> QED  BY <2>1, <2>2, <2>3 DEF Range
<1>6. ASSUME Increasing(s), Increasing(t), \A x \in Range(s), y \in Range(t) : x < y
      PROVE  Increasing(u)
  <2> SUFFICES ASSUME NEW i \in DOMAIN u, NEW j \in DOMAIN u, i < j PROVE u[i] < u[j]
    BY DEF Increasing
  <2>1. CASE j <= Len(s)
    <3>1. i \in DOMAIN s /\ j \in DOMAIN s /\ u[i] = s[i] /\ u[j] = s[j]
      BY <1>1, <1>2, <2>1
    <3> QED  BY <1>6, <3>1 DEF Increasing
  <2>2. CASE Len(s) < i
    <3>1. /\ i - Len(s) \in DOMAIN t /\ j - Len(s) \in DOMAIN t /\ i - Len(s) < j - Len(s)
          /\ u[i] = t[i - Len(s)] /\ u[j] = t[j - Len(s)]
      BY <1>1, <1>2, <2>2
    <3> QED  BY <1>6, <3>1 DEF Increasing
  <2>3. CASE i <= Len(s) /\ Len(s) < j
    <3>1. i \in DOMAIN s /\ j - Len(s) \in DOMAIN t /\ u[i] = s[i] /\ u[j] = t[j - Len(s)]
      BY <1>1, <1>2, <2>3
    <3>2. s[i] \in Range(s) /\ t[j - Len(s)] \in Range(t)
      BY <3>1 DEF Range
    <3> QED  BY <1>6, <3>1, <3>2
  <2> QED  BY <1>1, <1>2, <2>1, <2>2, <2>3
<1>7. Increasing(u) <=>
        /\ Increasing(s) /\ Increasing(t)
        /\ \A x \in Range(s), y \in Range(t) : x < y
  BY <1>5, <1>6
<1> QED  BY <1>7 DEF u

\* The listing of a set whose members all lie below those of another.
LEMMA ListedConcat ==
  ASSUME NEW S \in SUBSET Int, NEW T \in SUBSET Int, IsFiniteSet(S), IsFiniteSet(T),
         \A x \in S, y \in T : x < y
  PROVE  Listed(S \cup T) = Listed(S) \o Listed(T)
<1> DEFINE s == Listed(S)
           t == Listed(T)
<1>1. /\ s \in Seq(Int) /\ t \in Seq(Int) /\ Increasing(s) /\ Increasing(t)
      /\ Range(s) = S /\ Range(t) = T
  BY ListedInOrder
<1> HIDE DEF s, t
<1>2. s \o t \in Seq(Int) /\ Increasing(s \o t) /\ Range(s \o t) = S \cup T
  <2>1. Increasing(s \o t)
    BY <1>1, ConcatIncreases
  <2>2. Range(s \o t) = Range(s) \cup Range(t)
    BY <1>1, ConcatRange
  <2> QED  BY <1>1, <2>1, <2>2, ConcatProperties
<1>3. s \o t = Listed(S \cup T)
  BY <1>2, IncreasingIsListed
<1> QED  BY <1>3 DEF s, t

\* What remains of a listing once its front is taken: the members beyond the
\* front's last.
LEMMA ListedRest ==
  ASSUME NEW S \in SUBSET Int, IsFiniteSet(S), NEW s \in Seq(Int), NEW t \in Seq(Int),
         s # <<>>, s \o t = Listed(S)
  PROVE  /\ Last(s) \in S
         /\ t = Listed({x \in S : x > Last(s)})
<1>1. Increasing(s \o t) /\ Range(s \o t) = S
  BY ListedInOrder
<1>2. /\ Increasing(s) /\ Increasing(t) /\ \A x \in Range(s), y \in Range(t) : x < y
      /\ S = Range(s) \cup Range(t)
  <2>1. Range(s \o t) = Range(s) \cup Range(t)
    BY ConcatRange
  <2> QED  BY <1>1, <2>1, ConcatIncreases
<1>3. /\ Len(s) \in DOMAIN s /\ DOMAIN s = 1 .. Len(s) /\ Len(s) \in Nat
      /\ Last(s) = s[Len(s)] /\ Last(s) \in Range(s)
  <2>1. Len(s) \in Nat \ {0} /\ DOMAIN s = 1 .. Len(s)
    BY EmptySeq, LenProperties
  <2>2. Len(s) \in DOMAIN s
    BY <2>1
  <2> QED  BY <2>1, <2>2 DEF Last, Range
<1>4. \A x \in Range(s) : x <= Last(s)
  <2> SUFFICES ASSUME NEW i \in DOMAIN s PROVE s[i] <= Last(s)
    BY DEF Range
  <2>1. i = Len(s) \/ i < Len(s)
    BY <1>3
  <2>2. s[i] \in Int
    BY <1>3, ElementOfSeq
  <2>3. i < Len(s) => s[i] < s[Len(s)]
    BY <1>2, <1>3 DEF Increasing
  <2> QED  BY <1>3, <2>1, <2>2, <2>3
<1>5. Range(t) = {x \in S : x > Last(s)}
  <2>1. ASSUME NEW x \in Range(s) PROVE ~(x > Last(s))
    <3>1. x \in Int /\ Last(s) \in Int
      BY <1>2, <1>3
    <3> QED  BY <1>4, <3>1
  <2> QED  BY <1>2, <1>3, <2>1
<1>6. t = Listed(Range(t))
  BY <1>2, IncreasingIsListed
<1> QED  BY <1>2, <1>3, <1>5, <1>6

\* A finite set of numbers has a least member ...
LEMMA LeastExists ==
  ASSUME NEW S \in SUBSET Int, IsFiniteSet(S), S # {}
  PROVE  \E x \in S : \A y \in S : x <= y
<1>1. Cardinality(S) \in Nat \ {0}
  BY FS_CardinalityType, FS_EmptySet
<1>2. 0 \in 0 .. Cardinality(S) - 1
  BY <1>1
<1>3. PICK x \in S : Below(S, x) = 0
  BY <1>2, BelowOnto
<1>4. IsFiniteSet({t \in S : t < x})
  BY FS_Subset
<1>5. {t \in S : t < x} = {}
  BY <1>3, <1>4, FS_EmptySet DEF Below
<1>6. \A y \in S : ~(y < x)
  BY <1>5
<1> QED  BY <1>6

\* ... and a greatest one.
LEMMA GreatestExists ==
  ASSUME NEW S \in SUBSET Int, IsFiniteSet(S), S # {}
  PROVE  \E x \in S : \A y \in S : y <= x
<1>1. Cardinality(S) \in Nat \ {0}
  BY FS_CardinalityType, FS_EmptySet
<1>2. Cardinality(S) - 1 \in 0 .. Cardinality(S) - 1
  BY <1>1
<1>3. PICK x \in S : Below(S, x) = Cardinality(S) - 1
  BY <1>2, BelowOnto
<1>4. ASSUME NEW y \in S PROVE ~(x < y)
  <2> SUFFICES ASSUME x < y PROVE FALSE
    OBVIOUS
  <2>1. Below(S, x) < Below(S, y)
    BY BelowIncreases
  <2>2. Below(S, y) \in 0 .. Cardinality(S) - 1
    BY BelowRange
  <2> QED  BY <1>1, <1>3, <2>1, <2>2
<1> QED  BY <1>4

\* A set of natural numbers need not be finite to have a least one.
LEMMA LeastNatural ==
  ASSUME NEW S \in SUBSET Nat, S # {}
  PROVE  \E x \in S : \A y \in S : x <= y
<1>1. PICK n \in S : TRUE
  OBVIOUS
<1> DEFINE T == S \cap (0 .. n)
<1>2. T \in SUBSET Int /\ n \in T
  OBVIOUS
<1>3. IsFiniteSet(T)
  <2>1. IsFiniteSet(0 .. n) /\ T \in SUBSET (0 .. n)
    BY FS_Interval
  <2> QED  BY <2>1, FS_Subset
<1>4. PICK x \in T : \A y \in T : x <= y
  <2> HIDE DEF T
  <2> QED  BY <1>2, <1>3, LeastExists
<1>5. ASSUME NEW y \in S PROVE x <= y
  <2>1. CASE y <= n
    BY <1>4, <2>1
  <2>2. CASE n < y
    BY <1>4, <2>2
  <2> QED  BY <2>1, <2>2
<1> QED  BY <1>4, <1>5
=============================================================================

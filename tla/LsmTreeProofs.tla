--------------------------- MODULE LsmTreeProofs ---------------------------
(***************************************************************************)
(* Proofs about LsmTree, for any keys, readers, writers, sequence numbers  *)
(* and options: whatever the flush thread, the compaction passes with      *)
(* their suspended jobs, the writers and the snapshot holders do, and in   *)
(* whatever order, every state somebody may still ask for reads as it was  *)
(* written.  First, facts about what the tree is built from: the sequences *)
(* of runs and of fragments, the lookup of a key in a run and in the tree, *)
(* the fragments a flush or a merge writes, and the versions a merge keeps.*)
(***************************************************************************)
EXTENDS LsmTree, SortedProofs

Table == (SUBSET Version) \ {{}}
Run == [id : Nat, tables : Seq(Table)]

-----------------------------------------------------------------------------
(* Subsequences                                                            *)

\* InOrder lists a set in ascending order.
LEMMA InOrderIsListed ==
  ASSUME NEW S
  PROVE  InOrder(S) = Listed(S)
BY DEF InOrder, Listed

\* The members of a sequence that are in a set, in the order they had.
LEMMA ThoseInOrder ==
  ASSUME NEW S, NEW s \in Seq(S), NEW T
  PROVE  LET u == Those(s, T)
         IN  /\ u \in Seq(S) /\ Range(u) = Range(s) \cap T
             /\ \A a, b \in DOMAIN u : a < b =>
                  \E i, j \in DOMAIN s : i < j /\ u[a] = s[i] /\ u[b] = s[j]
<1> DEFINE I == {i \in DOMAIN s : s[i] \in T}
           at == InOrder(I)
           u == [n \in DOMAIN at |-> s[at[n]]]
<1>1. Len(s) \in Nat /\ DOMAIN s = 1 .. Len(s) /\ \A i \in DOMAIN s : s[i] \in S
  BY LenProperties, ElementOfSeq
<1>2. I \in SUBSET Int /\ IsFiniteSet(I) /\ I \in SUBSET DOMAIN s
  <2>1. I \in SUBSET (1 .. Len(s)) /\ IsFiniteSet(1 .. Len(s))
    BY <1>1, FS_Interval
  <2>2. I \in SUBSET DOMAIN s /\ I \in SUBSET Int
    BY <1>1
  <2> HIDE DEF I
  <2> QED  BY <2>1, <2>2, FS_Subset
<1>3. at = Listed(I)
  BY InOrderIsListed
<1> HIDE DEF I, at
<1>4. at \in Seq(I) /\ at \in Seq(Int) /\ Increasing(at) /\ Range(at) = I
  BY <1>2, <1>3, ListedInOrder
<1>5. Len(at) \in Nat /\ DOMAIN at = 1 .. Len(at) /\ \A n \in DOMAIN at : at[n] \in I
  BY <1>4, LenProperties, ElementOfSeq
<1>6. \A n \in DOMAIN at : at[n] \in DOMAIN s /\ s[at[n]] \in S /\ s[at[n]] \in T
  BY <1>1, <1>5 DEF I
<1>7. u \in Seq(S)
  <2>1. u \in [1 .. Len(at) -> S]
    BY <1>5, <1>6
  <2> HIDE DEF u
  <2> QED  BY <1>5, <2>1, FunctionIsSequence
<1>8. Range(u) = Range(s) \cap T
  <2>1. \A n \in DOMAIN u : u[n] \in Range(s) \cap T
    BY <1>6 DEF Range
  <2>2. ASSUME NEW i \in DOMAIN s, s[i] \in T PROVE \E n \in DOMAIN u : u[n] = s[i]
    <3>1. i \in Range(at)
      BY <1>4, <2>2 DEF I
    <3>2. PICK n \in DOMAIN at : at[n] = i
      BY <3>1 DEF Range
    <3> QED  BY <3>2
  <2> HIDE DEF u
  <2> QED  BY <2>1, <2>2 DEF Range
<1>9. \A a, b \in DOMAIN u : a < b =>
        \E i, j \in DOMAIN s : i < j /\ u[a] = s[i] /\ u[b] = s[j]
  <2> SUFFICES ASSUME NEW a \in DOMAIN u, NEW b \in DOMAIN u, a < b
               PROVE  \E i, j \in DOMAIN s : i < j /\ u[a] = s[i] /\ u[b] = s[j]
    OBVIOUS
  <2>1. at[a] < at[b]
    BY <1>4 DEF Increasing
  <2> QED  BY <1>6, <2>1
<1>10. u = Those(s, T)
  BY DEF Those, I, at
<1> HIDE DEF u
<1> QED  BY <1>7, <1>8, <1>9, <1>10

\* What is left of a sequence when all of its back is taken away.
LEMMA ThoseOfFront ==
  ASSUME NEW S, NEW s \in Seq(S), NEW t \in Seq(S), NEW T,
         Range(s) \in SUBSET T, Range(t) \cap T = {}
  PROVE  Those(s \o t, T) = s
<1> DEFINE u == s \o t
           n == Len(s)
           I == {i \in DOMAIN u : u[i] \in T}
           up == [i \in 1 .. n |-> i]
<1>1. /\ n \in Nat /\ DOMAIN s = 1 .. n /\ Len(t) \in Nat /\ DOMAIN t = 1 .. Len(t)
  BY LenProperties
<1>2. /\ DOMAIN u = 1 .. n + Len(t)
      /\ \A i \in 1 .. n + Len(t) : u[i] = IF i <= n THEN s[i] ELSE t[i - n]
  <2>1. u \in Seq(S) /\ Len(u) = n + Len(t)
    BY ConcatProperties
  <2> QED  BY <2>1, LenProperties, ConcatProperties
<1> HIDE DEF u
<1>3. I = 1 .. n
  <2>1. ASSUME NEW i \in 1 .. n PROVE i \in I
    <3>1. i \in DOMAIN u /\ u[i] = s[i] /\ i \in DOMAIN s
      BY <1>1, <1>2
    <3> QED  BY <3>1 DEF Range
  <2>2. ASSUME NEW i \in DOMAIN u, i \notin 1 .. n PROVE u[i] \notin T
    <3>1. u[i] = t[i - n] /\ i - n \in DOMAIN t
      BY <1>1, <1>2, <2>2
    <3> QED  BY <3>1 DEF Range
  <2> QED  BY <2>1, <2>2
<1>4. up \in Seq(Int) /\ Len(up) = n /\ Increasing(up) /\ Range(up) = 1 .. n
  <2>1. up \in [1 .. n -> Int]
    BY <1>1
  <2>2. Increasing(up) /\ Range(up) = 1 .. n
    BY DEF Increasing, Range
  <2> HIDE DEF up
  <2> QED  BY <1>1, <2>1, <2>2, FunctionIsSequence
<1>5. up = Listed(1 .. n)
  <2> HIDE DEF up
  <2> QED  BY <1>4, IncreasingIsListed
<1>6. InOrder(I) = up
  <2> HIDE DEF I, up
  <2> QED  BY <1>3, <1>5, InOrderIsListed
<1>7. Those(u, T) = [i \in 1 .. n |-> s[i]]
  <2>1. Those(u, T) = [i \in DOMAIN up |-> u[up[i]]]
    BY <1>6 DEF Those
  <2>2. \A i \in 1 .. n : u[up[i]] = s[i]
    BY <1>1, <1>2
  <2>3. DOMAIN up = 1 .. n
    OBVIOUS
  <2> HIDE DEF up
  <2> QED  BY <2>1, <2>2, <2>3
<1>8. s = [i \in 1 .. n |-> s[i]]
  BY <1>1, LenProperties
<1> QED  BY <1>7, <1>8 DEF u

-----------------------------------------------------------------------------
(* All levels as one sequence                                              *)

\* The stages of flattening, the first i sequences joined.
Joined(ss, f) ==
    /\ DOMAIN f = 1 .. Len(ss)
    /\ f[1] = ss[1]
    /\ \A i \in 2 .. Len(ss) : f[i] = f[i - 1] \o ss[i]

\* FlattenSeq joins its parts one after the other.
LEMMA FlattenJoins ==
  ASSUME NEW S, NEW ss \in Seq(Seq(S)), ss # <<>>
  PROVE  \E f \in [1 .. Len(ss) -> Seq(S)] : Joined(ss, f) /\ FlattenSeq(ss) = f[Len(ss)]
<1> DEFINE N == Len(ss)
           Stages(n) == {g \in [1 .. n -> Seq(S)] :
                           g[1] = ss[1] /\ \A i \in 2 .. n : g[i] = g[i - 1] \o ss[i]}
           step(f) == [i \in 1 .. N |-> IF i = 1 THEN ss[i] ELSE f[i - 1] \o ss[i]]
<1>1. N \in Nat \ {0} /\ \A i \in 1 .. N : ss[i] \in Seq(S)
  BY LenProperties, ElementOfSeq, EmptySeq
<1> DEFINE Bad == {n \in 1 .. N : Stages(n) = {}}
<1>2. Bad = {}
  <2> SUFFICES ASSUME Bad # {} PROVE FALSE
    OBVIOUS
  <2>1. PICK m \in Bad : \A n \in Bad : m <= n
    <3>1. Bad \in SUBSET Nat
      <4> HIDE DEF Stages
      <4> QED  BY <1>1
    <3> HIDE DEF Bad
    <3> QED  BY <3>1, LeastNatural
  <2>2. m \in 1 .. N /\ Stages(m) = {}
    OBVIOUS
  <2>3. CASE m = 1
    <3> DEFINE g == [i \in 1 .. 1 |-> ss[1]]
    <3>1. g \in [1 .. 1 -> Seq(S)] /\ g[1] = ss[1]
      BY <1>1
    <3>2. 2 .. 1 = {}
      OBVIOUS
    <3> HIDE DEF g
    <3>3. g \in Stages(1)
      BY <3>1, <3>2
    <3> QED  BY <2>2, <2>3, <3>3
  <2>4. CASE m > 1
    <3>1. m - 1 \in 1 .. N /\ m - 1 \notin Bad
      <4> HIDE DEF Bad
      <4> QED  BY <1>1, <2>1, <2>2, <2>4
    <3>2. PICK g \in [1 .. m - 1 -> Seq(S)] :
            g[1] = ss[1] /\ \A i \in 2 .. m - 1 : g[i] = g[i - 1] \o ss[i]
      BY <3>1
    <3> DEFINE h == [i \in 1 .. m |-> IF i < m THEN g[i] ELSE g[m - 1] \o ss[m]]
    <3>3. g[m - 1] \o ss[m] \in Seq(S)
      BY <1>1, <2>2, <2>4, <3>2, ConcatProperties
    <3>4. h \in [1 .. m -> Seq(S)]
      BY <2>2, <2>4, <3>2, <3>3
    <3> HIDE DEF Bad
    <3>5. h[1] = ss[1] /\ h[m] = g[m - 1] \o ss[m] /\ \A i \in 1 .. m - 1 : h[i] = g[i]
      <4>1. 1 \in 1 .. m - 1 /\ m \in 1 .. m /\ \A i \in 1 .. m - 1 : i \in 1 .. m /\ i < m
        BY <1>1, <2>2, <2>4
      <4> DEFINE last == g[m - 1] \o ss[m]
      <4>2. h = [i \in 1 .. m |-> IF i < m THEN g[i] ELSE last]
        OBVIOUS
      <4>3. 1 \in 1 .. m /\ 1 < m /\ ~(m < m) /\ m \in 1 .. m
        BY <1>1, <2>2, <2>4
      <4> HIDE DEF h, last
      <4>4. h[1] = g[1] /\ h[m] = last /\ \A i \in 1 .. m - 1 : h[i] = g[i]
        BY <4>1, <4>2, <4>3
      <4> QED  BY <3>2, <4>4 DEF last
    <3>6. \A i \in 2 .. m : h[i] = h[i - 1] \o ss[i]
      <4> HIDE DEF h
      <4> SUFFICES ASSUME NEW i \in 2 .. m PROVE h[i] = h[i - 1] \o ss[i]
        OBVIOUS
      <4>1. CASE i = m
        <5>1. m - 1 \in 1 .. m - 1
          BY <2>2, <2>4
        <5> QED  BY <3>5, <4>1, <5>1
      <4>2. CASE i < m
        <5>1. i \in 1 .. m - 1 /\ i - 1 \in 1 .. m - 1 /\ i \in 2 .. m - 1
          BY <2>2, <4>2
        <5> QED  BY <3>2, <3>5, <5>1
      <4>3. i = m \/ i < m
        BY <1>1, <2>2
      <4> QED  BY <4>1, <4>2, <4>3
    <3> HIDE DEF h
    <3>7. h \in Stages(m)
      BY <3>4, <3>5, <3>6
    <3> QED  BY <2>2, <3>7
  <2> QED  BY <1>1, <2>2, <2>3, <2>4
<1>3. PICK g \in [1 .. N -> Seq(S)] : g[1] = ss[1] /\ \A i \in 2 .. N : g[i] = g[i - 1] \o ss[i]
  <2>1. N \in 1 .. N
    BY <1>1
  <2> QED  BY <1>2, <2>1
<1>4. g = step(g)
  <2>1. \A i \in 1 .. N : g[i] = IF i = 1 THEN ss[i] ELSE g[i - 1] \o ss[i]
    <3>1. \A i \in 1 .. N : i = 1 \/ i \in 2 .. N
      BY <1>1
    <3> QED  BY <1>3, <3>1
  <2>2. g = [i \in 1 .. N |-> g[i]]
    BY <1>3
  <2> QED  BY <2>1, <2>2
<1> DEFINE f == CHOOSE x : x = step(x)
<1>5. f = step(f)
  BY <1>4
<1>6. FlattenSeq(ss) = f[N]
  BY <1>1 DEF FlattenSeq
<1> HIDE DEF f
<1>7. Joined(ss, f)
  <2>1. DOMAIN f = 1 .. N
    BY <1>5
  <2>2. \A i \in 1 .. N : f[i] = IF i = 1 THEN ss[i] ELSE f[i - 1] \o ss[i]
    BY <1>5
  <2>3. 1 \in 1 .. N /\ \A i \in 2 .. N : i \in 1 .. N /\ i # 1
    BY <1>1
  <2> QED  BY <2>1, <2>2, <2>3 DEF Joined
<1> DEFINE Off == {n \in 1 .. N : f[n] \notin Seq(S)}
<1>8. Off = {}
  <2> SUFFICES ASSUME Off # {} PROVE FALSE
    OBVIOUS
  <2>1. PICK m \in Off : \A n \in Off : m <= n
    <3>1. Off \in SUBSET Nat
      BY <1>1
    <3> HIDE DEF Off
    <3> QED  BY <3>1, LeastNatural
  <2>2. CASE m = 1
    BY <1>1, <1>7, <2>2 DEF Joined
  <2>3. CASE m > 1
    <3>1. m \in 2 .. N /\ m - 1 \in 1 .. N /\ m - 1 \notin Off
      BY <1>1, <2>1, <2>3
    <3>2. f[m - 1] \in Seq(S) /\ ss[m] \in Seq(S) /\ f[m] = f[m - 1] \o ss[m]
      BY <1>1, <1>7, <3>1 DEF Joined
    <3>3. f[m] \in Seq(S)
      BY <3>2, ConcatProperties
    <3> QED  BY <3>3
  <2> QED  BY <1>1, <2>2, <2>3
<1>9. f \in [1 .. N -> Seq(S)]
  <2>1. f = [i \in 1 .. N |-> f[i]]
    BY <1>5
  <2> QED  BY <1>8, <2>1
<1> QED  BY <1>6, <1>7, <1>9

\* Nothing to join.
LEMMA FlattenEmpty == FlattenSeq(<<>>) = <<>>
BY DEF FlattenSeq

\* Each stage holds what the sequences it joins hold.
HeldUpTo(ss, n) == UNION {Range(ss[l]) : l \in 1 .. n}

\* What is joined holds what its parts hold.
LEMMA JoinedRange ==
  ASSUME NEW S, NEW ss \in Seq(Seq(S))
  PROVE  \A f \in [1 .. Len(ss) -> Seq(S)] : \A n \in 1 .. Len(ss) :
            Joined(ss, f) => Range(f[n]) = HeldUpTo(ss, n)
<1> SUFFICES ASSUME NEW f \in [1 .. Len(ss) -> Seq(S)], NEW n \in 1 .. Len(ss), Joined(ss, f)
             PROVE  Range(f[n]) = HeldUpTo(ss, n)
  OBVIOUS
<1> DEFINE N == Len(ss)
           Up(i) == UNION {Range(ss[l]) : l \in 1 .. i}
           Bad == {i \in 1 .. N : Range(f[i]) # Up(i)}
<1>1. N \in Nat /\ \A i \in 1 .. N : ss[i] \in Seq(S)
  BY LenProperties, ElementOfSeq
<1>2. Bad = {}
  <2> SUFFICES ASSUME Bad # {} PROVE FALSE
    OBVIOUS
  <2>1. PICK m \in Bad : \A i \in Bad : m <= i
    <3>1. Bad \in SUBSET Nat
      <4> HIDE DEF Up
      <4> QED  BY <1>1
    <3> HIDE DEF Bad
    <3> QED  BY <3>1, LeastNatural
  <2>2. m \in 1 .. N /\ Range(f[m]) # Up(m)
    <3> HIDE DEF Up
    <3> QED  OBVIOUS
  <2>3. CASE m = 1
    <3>1. f[1] = ss[1] /\ Up(1) = Range(ss[1])
      BY DEF Joined
    <3> QED  BY <2>2, <2>3, <3>1
  <2>4. CASE m > 1
    <3> HIDE DEF Up, Bad
    <3>1. m - 1 \in 1 .. N /\ m \in 2 .. N /\ m - 1 \notin Bad
      BY <1>1, <2>1, <2>2, <2>4
    <3>2. Range(f[m - 1]) = Up(m - 1)
      <4> USE DEF Bad
      <4> QED  BY <3>1
    <3>3. f[m] = f[m - 1] \o ss[m] /\ f[m - 1] \in Seq(S) /\ ss[m] \in Seq(S)
      BY <1>1, <2>2, <3>1 DEF Joined
    <3>4. Range(f[m]) = Range(f[m - 1]) \cup Range(ss[m])
      <4> DEFINE a == f[m - 1]
                 b == ss[m]
      <4>1. a \in Seq(S) /\ b \in Seq(S) /\ f[m] = a \o b
        BY <3>3
      <4> HIDE DEF a, b
      <4>2. Range(f[m]) = Range(a) \cup Range(b)
        BY <4>1, ConcatRange
      <4> QED  BY <4>2 DEF a, b
    <3>5. Up(m) = Up(m - 1) \cup Range(ss[m])
      <4>1. 1 .. m = (1 .. m - 1) \cup {m}
        BY <1>1, <2>2
      <4> QED  BY <4>1 DEF Up
    <3> QED  BY <2>2, <3>2, <3>4, <3>5
  <2> QED  BY <1>1, <2>2, <2>3, <2>4
<1>3. Range(f[n]) = Up(n)
  <2> HIDE DEF Up
  <2> QED  BY <1>2
<1> QED  BY <1>3 DEF HeldUpTo

\* All of it holds what all of them hold.
LEMMA FlattenRange ==
  ASSUME NEW S, NEW ss \in Seq(Seq(S))
  PROVE  /\ FlattenSeq(ss) \in Seq(S)
         /\ Range(FlattenSeq(ss)) = UNION {Range(ss[l]) : l \in DOMAIN ss}
<1>0. \A f \in [1 .. Len(ss) -> Seq(S)] : \A n \in 1 .. Len(ss) :
        Joined(ss, f) => Range(f[n]) = HeldUpTo(ss, n)
  BY JoinedRange
<1>1. CASE ss = <<>>
  <2>1. FlattenSeq(ss) = <<>> /\ DOMAIN ss = {} /\ <<>> \in Seq(S) /\ Range(<<>>) = {}
    BY <1>1, FlattenEmpty, EmptySeq DEF Range
  <2> QED  BY <2>1
<1>2. CASE ss # <<>>
  <2> DEFINE N == Len(ss)
  <2>1. N \in 1 .. N /\ DOMAIN ss = 1 .. N
    BY <1>2, LenProperties, EmptySeq
  <2>2. PICK f \in [1 .. N -> Seq(S)] : Joined(ss, f) /\ FlattenSeq(ss) = f[N]
    BY <1>2, FlattenJoins
  <2>3. Range(f[N]) = UNION {Range(ss[l]) : l \in 1 .. N}
    BY <1>0, <2>1, <2>2 DEF HeldUpTo
  <2> QED  BY <2>1, <2>2, <2>3
<1> QED  BY <1>1, <1>2

\* The fragment that may hold a key, of each run.
FragmentsFor(s, k) == [i \in DOMAIN s |-> FragmentFor(s[i], k)]

\* fragment_for over two sequences of runs.
LEMMA FragmentsOfConcat ==
  ASSUME NEW S, NEW s \in Seq(S), NEW t \in Seq(S), NEW k
  PROVE  FragmentsFor(s \o t, k) = FragmentsFor(s, k) \o FragmentsFor(t, k)
<1> DEFINE A == {FragmentFor(r, k) : r \in S}
           x == FragmentsFor(s, k)
           y == FragmentsFor(t, k)
           u == s \o t
           z == FragmentsFor(u, k)
<1>1. /\ Len(s) \in Nat /\ Len(t) \in Nat /\ DOMAIN s = 1 .. Len(s) /\ DOMAIN t = 1 .. Len(t)
      /\ \A i \in DOMAIN s : s[i] \in S /\ \A j \in DOMAIN t : t[j] \in S
  BY LenProperties, ElementOfSeq
<1>2. /\ u \in Seq(S) /\ Len(u) = Len(s) + Len(t) /\ DOMAIN u = 1 .. Len(s) + Len(t)
      /\ \A i \in 1 .. Len(s) + Len(t) : u[i] = IF i <= Len(s) THEN s[i] ELSE t[i - Len(s)]
  <2>1. u \in Seq(S) /\ Len(u) = Len(s) + Len(t)
    BY ConcatProperties
  <2> QED  BY <2>1, LenProperties, ConcatProperties
<1>3. x \in Seq(A) /\ Len(x) = Len(s)
  <2>1. \A i \in 1 .. Len(s) : s[i] \in S
    BY ElementOfSeq
  <2>2. x \in [1 .. Len(s) -> A]
    BY <1>1, <2>1 DEF FragmentsFor
  <2> HIDE DEF x, A
  <2> QED  BY <1>1, <2>2, FunctionIsSequence
<1>4. y \in Seq(A) /\ Len(y) = Len(t)
  <2>1. \A i \in 1 .. Len(t) : t[i] \in S
    BY ElementOfSeq
  <2>2. y \in [1 .. Len(t) -> A]
    BY <1>1, <2>1 DEF FragmentsFor
  <2> HIDE DEF y, A
  <2> QED  BY <1>1, <2>2, FunctionIsSequence
<1>5. z \in Seq(A) /\ Len(z) = Len(s) + Len(t)
  <2>1. \A i \in 1 .. Len(s) + Len(t) : u[i] \in S
    BY <1>2, ElementOfSeq
  <2>2. z \in [1 .. Len(s) + Len(t) -> A] /\ Len(s) + Len(t) \in Nat
    <3> HIDE DEF u
    <3> QED  BY <1>1, <1>2, <2>1 DEF FragmentsFor
  <2> HIDE DEF z, A
  <2> QED  BY <2>2, FunctionIsSequence
<1>6. ASSUME NEW i \in 1 .. Len(s) + Len(t)
      PROVE  z[i] = IF i <= Len(s) THEN x[i] ELSE y[i - Len(s)]
  <2> HIDE DEF u
  <2>1. z[i] = FragmentFor(u[i], k)
    BY <1>2 DEF FragmentsFor
  <2>2. CASE i <= Len(s)
    <3>1. i \in DOMAIN s
      BY <1>1, <2>2
    <3> QED  BY <1>2, <2>1, <2>2, <3>1 DEF FragmentsFor
  <2>3. CASE ~(i <= Len(s))
    <3>1. i - Len(s) \in DOMAIN t
      BY <1>1, <2>3
    <3> QED  BY <1>2, <2>1, <2>3, <3>1 DEF FragmentsFor
  <2> QED  BY <2>2, <2>3
<1> HIDE DEF x, y, z, A, u
<1>7. x \o y \in Seq(A) /\ Len(x \o y) = Len(s) + Len(t)
      /\ \A i \in 1 .. Len(s) + Len(t) : (x \o y)[i] = IF i <= Len(s) THEN x[i] ELSE y[i - Len(s)]
  <2>1. x \o y \in Seq(A) /\ Len(x \o y) = Len(x) + Len(y)
    BY <1>3, <1>4, ConcatProperties
  <2> QED  BY <1>3, <1>4, <2>1, ConcatProperties
<1>8. z = x \o y
  BY <1>5, <1>6, <1>7, SeqEqual
<1> QED  BY <1>8 DEF x, y, z, u

\* Looking a key up level by level is looking it up in all runs.
LEMMA FragmentsOfFlatten ==
  ASSUME NEW S, NEW ss \in Seq(Seq(S)), NEW k
  PROVE  FlattenSeq([l \in DOMAIN ss |-> [i \in DOMAIN ss[l] |-> FragmentFor(ss[l][i], k)]])
           = FragmentsFor(FlattenSeq(ss), k)
<1>0. \A s, t \in Seq(S) : FragmentsFor(s \o t, k) = FragmentsFor(s, k) \o FragmentsFor(t, k)
  BY FragmentsOfConcat
<1> DEFINE ms == [l \in DOMAIN ss |-> FragmentsFor(ss[l], k)]
           A == {FragmentFor(r, k) : r \in S}
           N == Len(ss)
<1>1. ms = [l \in DOMAIN ss |-> [i \in DOMAIN ss[l] |-> FragmentFor(ss[l][i], k)]]
  BY DEF FragmentsFor
<1>2. N \in Nat /\ DOMAIN ss = 1 .. N /\ \A l \in 1 .. N : ss[l] \in Seq(S)
  BY LenProperties, ElementOfSeq
<1>3. ASSUME NEW s \in Seq(S) PROVE FragmentsFor(s, k) \in Seq(A)
  <2>1. Len(s) \in Nat /\ DOMAIN s = 1 .. Len(s) /\ \A i \in 1 .. Len(s) : s[i] \in S
    BY LenProperties, ElementOfSeq
  <2> DEFINE x == FragmentsFor(s, k)
  <2>2. x \in [1 .. Len(s) -> A]
    BY <2>1 DEF FragmentsFor
  <2> HIDE DEF x, A
  <2>3. x \in Seq(A)
    BY <2>1, <2>2, FunctionIsSequence
  <2> QED  BY <2>3 DEF x
<1>4. ms \in Seq(Seq(A)) /\ Len(ms) = N
  <2>1. ms \in [1 .. N -> Seq(A)]
    <3> HIDE DEF A
    <3> QED  BY <1>2, <1>3
  <2> HIDE DEF ms, A
  <2> QED  BY <1>2, <2>1, FunctionIsSequence
<1>5. CASE ss = <<>>
  <2>1. N = 0 /\ FlattenSeq(ss) = <<>>
    BY <1>5, FlattenEmpty, EmptySeq
  <2>2. ms = <<>>
    <3> HIDE DEF ms, A
    <3> QED  BY <1>4, <2>1, EmptySeq
  <2>3. FragmentsFor(<<>>, k) = <<>>
    BY DEF FragmentsFor
  <2> QED  BY <1>1, <2>1, <2>2, <2>3, FlattenEmpty
<1>6. CASE ss # <<>>
  <2>1. N \in Nat \ {0} /\ N \in 1 .. N
    BY <1>2, <1>6, EmptySeq
  <2>2. PICK f \in [1 .. N -> Seq(S)] : Joined(ss, f) /\ FlattenSeq(ss) = f[N]
    BY <1>6, FlattenJoins
  <2>3. PICK g \in [1 .. N -> Seq(A)] : Joined(ms, g) /\ FlattenSeq(ms) = g[N]
    <3> HIDE DEF ms, A
    <3>1. ms # <<>>
      BY <1>4, <2>1, EmptySeq
    <3> QED  BY <1>4, <3>1, FlattenJoins
  <2> DEFINE Bad == {n \in 1 .. N : g[n] # FragmentsFor(f[n], k)}
  <2>4. Bad = {}
    <3> SUFFICES ASSUME Bad # {} PROVE FALSE
      OBVIOUS
    <3>1. PICK m \in Bad : \A n \in Bad : m <= n
      <4>1. Bad \in SUBSET Nat
        BY <2>1
      <4> HIDE DEF Bad
      <4> QED  BY <4>1, LeastNatural
    <3>2. m \in 1 .. N /\ g[m] # FragmentsFor(f[m], k)
      OBVIOUS
    <3>3. CASE m = 1
      <4>1. g[1] = ms[1] /\ f[1] = ss[1]
        BY <2>2, <2>3 DEF Joined
      <4>2. ms[1] = FragmentsFor(ss[1], k)
        BY <1>2, <3>2, <3>3
      <4> QED  BY <3>2, <3>3, <4>1, <4>2
    <3>4. CASE m > 1
      <4>1. m - 1 \in 1 .. N /\ m \in 2 .. N /\ m - 1 \notin Bad
        <5> HIDE DEF Bad
        <5> QED  BY <2>1, <3>1, <3>2, <3>4
      <4>2. g[m - 1] = FragmentsFor(f[m - 1], k)
        BY <4>1
      <4>3. f[m] = f[m - 1] \o ss[m] /\ f[m - 1] \in Seq(S) /\ ss[m] \in Seq(S)
        BY <1>2, <2>2, <3>2, <4>1 DEF Joined
      <4>4. g[m] = g[m - 1] \o ms[m] /\ ms[m] = FragmentsFor(ss[m], k)
        BY <1>2, <1>4, <2>3, <3>2, <4>1 DEF Joined
      <4>5. FragmentsFor(f[m - 1] \o ss[m], k) = FragmentsFor(f[m - 1], k) \o FragmentsFor(ss[m], k)
        <5> DEFINE a == f[m - 1]
                   b == ss[m]
        <5>1. a \in Seq(S) /\ b \in Seq(S)
          BY <4>3
        <5> HIDE DEF a, b, Bad
        <5>2. FragmentsFor(a \o b, k) = FragmentsFor(a, k) \o FragmentsFor(b, k)
          BY <1>0, <5>1
        <5> QED  BY <5>2 DEF a, b
      <4> QED  BY <3>2, <4>2, <4>3, <4>4, <4>5
    <3> QED  BY <2>1, <3>2, <3>3, <3>4
  <2>5. g[N] = FragmentsFor(f[N], k)
    BY <2>1, <2>4
  <2> QED  BY <1>1, <2>2, <2>3, <2>5
<1> QED  BY <1>5, <1>6

-----------------------------------------------------------------------------
(* Runs in recency order                                                   *)

KeysOf(vs) == {v.key : v \in vs}

\* Of the same key, everything in A is newer than anything in B.
Newer(A, B) == \A v \in A, w \in B : v.key = w.key => v.seq > w.seq

\* Two runs, the first of them newer; a sequence of such; two sequences.
Apart(r, q) == r.id # q.id /\ Newer(RunVersions(r), RunVersions(q))
Descending(s) == \A i, j \in DOMAIN s : i < j => Apart(s[i], s[j])
Over(s, t) == \A r \in Range(s), q \in Range(t) : Apart(r, q)

Contents(s) == UNION {RunVersions(r) : r \in Range(s)}

\* Two sequences of runs hold what each holds.
LEMMA ContentsConcat ==
  ASSUME NEW S, NEW s \in Seq(S), NEW t \in Seq(S)
  PROVE  Contents(s \o t) = Contents(s) \cup Contents(t)
<1>1. Range(s \o t) = Range(s) \cup Range(t)
  BY ConcatRange
<1> QED  BY <1>1 DEF Contents

\* Runs are newest first when both parts are and one lies over the other.
LEMMA DescendingConcat ==
  ASSUME NEW S, NEW s \in Seq(S), NEW t \in Seq(S)
  PROVE  Descending(s \o t) <=> Descending(s) /\ Descending(t) /\ Over(s, t)
<1> DEFINE u == s \o t
<1>1. /\ Len(s) \in Nat /\ Len(t) \in Nat
      /\ DOMAIN s = 1 .. Len(s) /\ DOMAIN t = 1 .. Len(t)
  BY LenProperties
<1>2. /\ DOMAIN u = 1 .. Len(s) + Len(t)
      /\ \A i \in 1 .. Len(s) + Len(t) : u[i] = IF i <= Len(s) THEN s[i] ELSE t[i - Len(s)]
  <2>1. u \in Seq(S) /\ Len(u) = Len(s) + Len(t)
    BY ConcatProperties
  <2> QED  BY <2>1, LenProperties, ConcatProperties
<1> HIDE DEF u
<1>3. \A i \in DOMAIN s : i \in DOMAIN u /\ i <= Len(s) /\ u[i] = s[i]
  BY <1>1, <1>2
<1>4. \A i \in DOMAIN t : Len(s) + i \in DOMAIN u /\ u[Len(s) + i] = t[i]
  BY <1>1, <1>2
<1>5. ASSUME Descending(u) PROVE Descending(s) /\ Descending(t) /\ Over(s, t)
  <2>1. Descending(s)
    BY <1>3, <1>5 DEF Descending
  <2>2. Descending(t)
    <3> SUFFICES ASSUME NEW i \in DOMAIN t, NEW j \in DOMAIN t, i < j PROVE Apart(t[i], t[j])
      BY DEF Descending
    <3>1. Len(s) + i < Len(s) + j
      BY <1>1
    <3> QED  BY <1>4, <1>5, <3>1 DEF Descending
  <2>3. ASSUME NEW i \in DOMAIN s, NEW j \in DOMAIN t PROVE Apart(s[i], t[j])
    <3>1. i < Len(s) + j
      BY <1>1
    <3> QED  BY <1>3, <1>4, <1>5, <3>1 DEF Descending
  <2> QED  BY <2>1, <2>2, <2>3 DEF Over, Range
<1>6. ASSUME Descending(s), Descending(t), Over(s, t) PROVE Descending(u)
  <2> SUFFICES ASSUME NEW i \in DOMAIN u, NEW j \in DOMAIN u, i < j PROVE Apart(u[i], u[j])
    BY DEF Descending
  <2>1. CASE j <= Len(s)
    <3>1. i \in DOMAIN s /\ j \in DOMAIN s /\ u[i] = s[i] /\ u[j] = s[j]
      BY <1>1, <1>2, <2>1
    <3> QED  BY <1>6, <3>1 DEF Descending
  <2>2. CASE Len(s) < i
    <3>1. /\ i - Len(s) \in DOMAIN t /\ j - Len(s) \in DOMAIN t /\ i - Len(s) < j - Len(s)
          /\ u[i] = t[i - Len(s)] /\ u[j] = t[j - Len(s)]
      BY <1>1, <1>2, <2>2
    <3> QED  BY <1>6, <3>1 DEF Descending
  <2>3. CASE i <= Len(s) /\ Len(s) < j
    <3>1. i \in DOMAIN s /\ j - Len(s) \in DOMAIN t /\ u[i] = s[i] /\ u[j] = t[j - Len(s)]
      BY <1>1, <1>2, <2>3
    <3>2. s[i] \in Range(s) /\ t[j - Len(s)] \in Range(t)
      BY <3>1 DEF Range
    <3> QED  BY <1>6, <3>1, <3>2 DEF Over
  <2> QED  BY <1>1, <1>2, <2>1, <2>2, <2>3
<1>7. Descending(u) <=> Descending(s) /\ Descending(t) /\ Over(s, t)
  BY <1>5, <1>6
<1> QED  BY <1>7 DEF u

\* Level under level, all runs are in recency order.
LEMMA FlattenDescends ==
  ASSUME NEW S, NEW ss \in Seq(Seq(S)),
         \A l \in DOMAIN ss : Descending(ss[l]),
         \A l, m \in DOMAIN ss : l < m => Over(ss[l], ss[m])
  PROVE  Descending(FlattenSeq(ss))
<1>0. \A f \in [1 .. Len(ss) -> Seq(S)] : \A n \in 1 .. Len(ss) :
        Joined(ss, f) => Range(f[n]) = HeldUpTo(ss, n)
  BY JoinedRange
<1> DEFINE N == Len(ss)
<1>1. N \in Nat /\ DOMAIN ss = 1 .. N /\ \A l \in 1 .. N : ss[l] \in Seq(S)
  BY LenProperties, ElementOfSeq
<1>2. CASE ss = <<>>
  <2>1. FlattenSeq(ss) = <<>> /\ DOMAIN <<>> = {}
    BY <1>2, FlattenEmpty
  <2> QED  BY <2>1 DEF Descending
<1>3. CASE ss # <<>>
  <2>1. N \in 1 .. N
    BY <1>1, <1>3, EmptySeq
  <2>2. PICK f \in [1 .. N -> Seq(S)] : Joined(ss, f) /\ FlattenSeq(ss) = f[N]
    BY <1>3, FlattenJoins
  <2>3. \A n \in 1 .. N : Range(f[n]) = UNION {Range(ss[l]) : l \in 1 .. n}
    BY <1>0, <2>2 DEF HeldUpTo
  <2>4. \A s, t \in Seq(S) : Descending(s \o t) <=> Descending(s) /\ Descending(t) /\ Over(s, t)
    BY DescendingConcat
  <2> DEFINE Bad == {n \in 1 .. N : ~Descending(f[n])}
  <2>5. Bad = {}
    <3> SUFFICES ASSUME Bad # {} PROVE FALSE
      OBVIOUS
    <3>1. PICK m \in Bad : \A n \in Bad : m <= n
      <4>1. Bad \in SUBSET Nat
        BY <1>1
      <4> HIDE DEF Bad
      <4> QED  BY <4>1, LeastNatural
    <3>2. m \in 1 .. N /\ ~Descending(f[m])
      OBVIOUS
    <3>3. CASE m = 1
      BY <1>1, <2>2, <3>2, <3>3 DEF Joined
    <3>4. CASE m > 1
      <4>1. m - 1 \in 1 .. N /\ m \in 2 .. N /\ m - 1 \notin Bad
        <5> HIDE DEF Bad
        <5> QED  BY <1>1, <3>1, <3>2, <3>4
      <4>2. Descending(f[m - 1])
        BY <4>1
      <4> HIDE DEF Bad
      <4>3. f[m] = f[m - 1] \o ss[m] /\ f[m - 1] \in Seq(S) /\ ss[m] \in Seq(S)
        BY <1>1, <2>2, <3>2, <4>1 DEF Joined
      <4>4. Over(f[m - 1], ss[m])
        <5>1. \A l \in 1 .. m - 1 : l \in 1 .. N /\ l < m
          BY <1>1, <3>2
        <5>2. Range(f[m - 1]) = UNION {Range(ss[l]) : l \in 1 .. m - 1}
          BY <2>3, <4>1
        <5> QED  BY <1>1, <3>2, <5>1, <5>2 DEF Over
      <4>5. Descending(f[m - 1] \o ss[m])
        <5> DEFINE a == f[m - 1]
                   b == ss[m]
        <5>1. a \in Seq(S) /\ b \in Seq(S) /\ Descending(a) /\ Descending(b) /\ Over(a, b)
          BY <1>1, <3>2, <4>2, <4>3, <4>4
        <5> HIDE DEF a, b
        <5>2. Descending(a \o b)
          BY <2>4, <5>1
        <5> QED  BY <5>2 DEF a, b
      <4> QED  BY <3>2, <4>3, <4>5
    <3> QED  BY <1>1, <3>2, <3>3, <3>4
  <2> QED  BY <2>1, <2>2, <2>5
<1> QED  BY <1>2, <1>3

-----------------------------------------------------------------------------
(* Newest versions                                                         *)

\* Among the visible versions of a key there is a newest one.
LEMMA NewestExists ==
  ASSUME MaxSeq \in Nat, NEW A \in SUBSET Version, NEW k, NEW s, VisibleAt(A, k, s) # {}
  PROVE  \E v \in VisibleAt(A, k, s) : v \in NewestAt(A, k, s)
<1> DEFINE V == VisibleAt(A, k, s)
           Q == {v.seq : v \in V}
<1>1. V \in SUBSET Version
  BY DEF VisibleAt
<1>2. Q \in SUBSET (1 .. MaxSeq) /\ Q # {} /\ Q \in SUBSET Int
  BY <1>1 DEF Version
<1>3. IsFiniteSet(Q)
  <2> HIDE DEF Q
  <2>1. IsFiniteSet(1 .. MaxSeq)
    BY FS_Interval
  <2> QED  BY <1>2, <2>1, FS_Subset
<1>4. PICK q \in Q : \A p \in Q : p <= q
  <2> HIDE DEF Q
  <2> QED  BY <1>2, <1>3, GreatestExists
<1>5. PICK v \in V : v.seq = q
  OBVIOUS
<1>6. \A w \in V : w.seq <= v.seq
  BY <1>4, <1>5
<1> QED  BY <1>6 DEF NewestAt

\* Only the versions of the key matter.
LEMMA SameVersions ==
  ASSUME NEW A, NEW B, NEW k, NEW s, VersionsOf(A, k) = VersionsOf(B, k)
  PROVE  VisibleAt(A, k, s) = VisibleAt(B, k, s) /\ NewestAt(A, k, s) = NewestAt(B, k, s)
<1>1. \A C : VisibleAt(C, k, s) = {v \in VersionsOf(C, k) : v.seq <= s}
  BY DEF VisibleAt, VersionsOf
<1>2. VisibleAt(A, k, s) = VisibleAt(B, k, s)
  BY <1>1
<1> QED  BY <1>2 DEF NewestAt

\* The newest version is in the newer part, when that part has one.
LEMMA NewestOfUnion ==
  ASSUME NEW A \in SUBSET Version, NEW B \in SUBSET Version, Newer(A, B), NEW k, NEW s
  PROVE  /\ VisibleAt(A, k, s) = {} => NewestAt(A \cup B, k, s) = NewestAt(B, k, s)
         /\ VisibleAt(A, k, s) # {} => NewestAt(A \cup B, k, s) = NewestAt(A, k, s)
<1>1. VisibleAt(A \cup B, k, s) = VisibleAt(A, k, s) \cup VisibleAt(B, k, s)
  BY DEF VisibleAt
<1>2. CASE VisibleAt(A, k, s) = {}
  <2>1. VisibleAt(A \cup B, k, s) = VisibleAt(B, k, s)
    BY <1>1, <1>2
  <2> QED  BY <1>2, <2>1 DEF NewestAt
<1>3. CASE VisibleAt(A, k, s) # {}
  <2>0. \A v \in VisibleAt(A, k, s), w \in VisibleAt(B, k, s) :
          v.seq \in Int /\ w.seq \in Int /\ v.seq > w.seq
    BY DEF VisibleAt, Newer, Version
  <2>1. PICK a \in VisibleAt(A, k, s) : TRUE
    BY <1>3
  <2>2. ASSUME NEW v \in NewestAt(A \cup B, k, s) PROVE v \in NewestAt(A, k, s)
    <3>1. v \in VisibleAt(A, k, s) \cup VisibleAt(B, k, s)
      BY <1>1 DEF NewestAt
    <3>2. \A w \in VisibleAt(A, k, s) : w.seq <= v.seq
      BY <1>1 DEF NewestAt
    <3>3. v \in VisibleAt(A, k, s)
      BY <2>0, <2>1, <3>1, <3>2
    <3> QED  BY <3>2, <3>3 DEF NewestAt
  <2>3. ASSUME NEW v \in NewestAt(A, k, s) PROVE v \in NewestAt(A \cup B, k, s)
    <3>1. v \in VisibleAt(A, k, s) /\ \A w \in VisibleAt(A, k, s) : w.seq <= v.seq
      BY DEF NewestAt
    <3>2. \A w \in VisibleAt(B, k, s) : w.seq <= v.seq
      BY <2>0, <3>1
    <3> QED  BY <1>1, <3>1, <3>2 DEF NewestAt
  <2> QED  BY <1>3, <2>2, <2>3
<1> QED  BY <1>2, <1>3

\* Parts of newer versions are newer than parts of older ones.
LEMMA NewerSubsets ==
  ASSUME NEW A, NEW B, NEW C \in SUBSET A, NEW D \in SUBSET B, Newer(A, B)
  PROVE  Newer(C, D)
BY DEF Newer

\* To be newer than a union is to be newer than its parts.
LEMMA NewerUnion ==
  ASSUME NEW A, NEW B, NEW C
  PROVE  /\ Newer(A, B \cup C) <=> Newer(A, B) /\ Newer(A, C)
         /\ Newer(A \cup B, C) <=> Newer(A, C) /\ Newer(B, C)
BY DEF Newer

\* What a merge may drop of a key: a reader at or above F sees the same with
\* what it kept in the place of its inputs, whatever lies above and below.
LEMMA MergeKeepsReads ==
  ASSUME MaxSeq \in Nat,
         NEW N \in SUBSET Version, NEW I \in SUBSET Version, NEW O \in SUBSET Version,
         NEW K \in SUBSET I, NEW k, NEW w \in Int, NEW sh \in BOOLEAN, NEW F \in Int,
         NEW s \in Int, s >= F,
         Newer(N, I), Newer(N, O), Newer(I, O),
         \A u, v \in I : u.seq = v.seq => u = v,
         VersionsOf(K, k) = Kept(I, k, w, sh),
         sh \/ VersionsOf(O, k) = {},
         \A v \in I : v.seq <= w => v.seq <= F
  PROVE  Live(NewestAt(N \cup K \cup O, k, s)) = Live(NewestAt(N \cup I \cup O, k, s))
<1>1. /\ Newer(N, K) /\ Newer(K, O) /\ Newer(N, I \cup O) /\ Newer(N, K \cup O)
      /\ K \in SUBSET Version
  BY DEF Newer
<1>2. /\ N \cup K \cup O = N \cup (K \cup O) /\ N \cup I \cup O = N \cup (I \cup O)
      /\ K \cup O \in SUBSET Version /\ I \cup O \in SUBSET Version
  BY <1>1
<1>3. CASE VisibleAt(N, k, s) # {}
  BY <1>1, <1>2, <1>3, NewestOfUnion
<1>4. CASE VisibleAt(N, k, s) = {}
  <2> SUFFICES Live(NewestAt(K \cup O, k, s)) = Live(NewestAt(I \cup O, k, s))
    BY <1>1, <1>2, <1>4, NewestOfUnion
  <2>1. VisibleAt(K, k, s) \in SUBSET VisibleAt(I, k, s)
    BY DEF VisibleAt
  <2>2. CASE VisibleAt(I, k, s) = {}
    BY <1>1, <2>1, <2>2, NewestOfUnion
  <2>3. CASE VisibleAt(I, k, s) # {}
    <3>1. PICK m \in VisibleAt(I, k, s) : m \in NewestAt(I, k, s)
      BY <2>3, NewestExists
    <3>2. /\ m \in I /\ m.key = k /\ m.seq <= s /\ m.seq \in Int
          /\ \A v \in VisibleAt(I, k, s) : v.seq <= m.seq
      BY <3>1 DEF NewestAt, VisibleAt, Version
    <3>3. NewestAt(I, k, s) = {m}
      <4>1. ASSUME NEW v \in NewestAt(I, k, s) PROVE v = m
        <5>1. v \in VisibleAt(I, k, s) /\ m.seq <= v.seq
          BY <3>1 DEF NewestAt
        <5>2. v \in I /\ v.seq <= m.seq /\ v.seq \in Int
          BY <3>2, <5>1 DEF VisibleAt, Version
        <5>3. v.seq = m.seq
          BY <3>2, <5>1, <5>2
        <5> QED  BY <3>2, <5>2, <5>3
      <4> QED  BY <3>1, <4>1
    <3>4. NewestAt(I \cup O, k, s) = {m}
      BY <2>3, <3>3, NewestOfUnion
    <3>5. CASE m \in K
      <4>1. m \in VisibleAt(K, k, s)
        BY <3>2, <3>5 DEF VisibleAt
      <4>2. NewestAt(K, k, s) = {m}
        <5>1. m \in NewestAt(K, k, s)
          BY <2>1, <3>2, <4>1 DEF NewestAt
        <5>2. ASSUME NEW v \in NewestAt(K, k, s) PROVE v = m
          <6>1. v \in VisibleAt(K, k, s) /\ m.seq <= v.seq
            BY <4>1 DEF NewestAt
          <6>2. v \in I /\ v.seq <= m.seq /\ v.seq \in Int
            BY <2>1, <3>2, <6>1 DEF VisibleAt, Version
          <6>3. v.seq = m.seq
            BY <3>2, <6>1, <6>2
          <6> QED  BY <3>2, <6>2, <6>3
        <5> QED  BY <5>1, <5>2
      <4>3. VisibleAt(K, k, s) # {} /\ Newer(K, O) /\ K \in SUBSET Version
        BY <1>1, <4>1
      <4>4. NewestAt(K \cup O, k, s) = {m}
        BY <4>2, <4>3, NewestOfUnion
      <4> QED  BY <3>4, <4>4
    <3>6. CASE m \notin K
      <4>0. m \notin Kept(I, k, w, sh)
        BY <3>2, <3>6 DEF VersionsOf
      <4>1. m.seq <= w
        BY <3>2, <4>0 DEF Kept, VersionsOf
      <4>2. m \in NewestAt(I, k, w)
        <5>1. m \in VisibleAt(I, k, w)
          BY <3>2, <4>1 DEF VisibleAt
        <5>2. ASSUME NEW v \in VisibleAt(I, k, w) PROVE v.seq <= m.seq
          <6>1. v \in I /\ v.key = k /\ v.seq <= w /\ v.seq <= F /\ v.seq \in Int
            BY DEF VisibleAt, Version
          <6>2. v \in VisibleAt(I, k, s)
            BY <6>1 DEF VisibleAt
          <6> QED  BY <3>2, <6>2
        <5> QED  BY <5>1, <5>2 DEF NewestAt
      <4>3. m.del /\ ~sh
        BY <4>0, <4>2 DEF Kept
      <4>4. VersionsOf(O, k) = {}
        BY <4>3
      <4>5. ASSUME NEW v \in VisibleAt(K, k, s) PROVE FALSE
        <5>1. v \in K /\ v.key = k /\ v.seq <= s
          BY DEF VisibleAt
        <5>2. v \in Kept(I, k, w, sh)
          BY <5>1 DEF VersionsOf
        <5>3. v \in I /\ v.seq \in Int /\ v.seq <= m.seq
          BY <2>1, <3>2, <5>1 DEF Version
        <5>4. ~(v.seq > w)
          BY <3>2, <4>1, <5>3
        <5>5. v \in NewestAt(I, k, w) /\ ~(v.del /\ ~sh)
          BY <5>2, <5>4 DEF Kept
        <5>6. m.seq <= v.seq
          BY <4>2, <5>5 DEF NewestAt
        <5>7. v.seq = m.seq
          BY <3>2, <5>3, <5>6
        <5>8. v = m
          BY <3>2, <5>3, <5>7
        <5> QED  BY <3>6, <5>1, <5>8
      <4>6. VisibleAt(K, k, s) = {}
        BY <4>5
      <4>7. NewestAt(K \cup O, k, s) = {}
        <5>1. NewestAt(K \cup O, k, s) = NewestAt(O, k, s)
          BY <1>1, <4>6, NewestOfUnion
        <5> QED  BY <4>4, <5>1 DEF NewestAt, VisibleAt, VersionsOf
      <4>8. Live({m}) = {}
        BY <4>3 DEF Live
      <4>9. Live({}) = {}
        BY DEF Live
      <4> QED  BY <3>4, <4>7, <4>8, <4>9
    <3> QED  BY <3>5, <3>6
  <2> QED  BY <2>2, <2>3
<1> QED  BY <1>3, <1>4

\* A lookup that stops at its first hit finds the newest version of them all.
LEMMA FirstHitIsNewest ==
  ASSUME MaxSeq \in Nat, NEW sources \in Seq(SUBSET Version), NEW k, NEW s,
         \A i, j \in DOMAIN sources : i < j => Newer(sources[i], sources[j])
  PROVE  FirstHit(sources, k, s) = NewestAt(UNION Range(sources), k, s)
<1> DEFINE hits == {i \in DOMAIN sources : NewestAt(sources[i], k, s) # {}}
           all == UNION Range(sources)
<1>1. /\ Len(sources) \in Nat /\ DOMAIN sources = 1 .. Len(sources)
      /\ \A i \in DOMAIN sources : sources[i] \in SUBSET Version
  BY LenProperties, ElementOfSeq
<1>2. \A i \in DOMAIN sources : VisibleAt(sources[i], k, s) # {} => i \in hits
  <2> SUFFICES ASSUME NEW i \in DOMAIN sources, VisibleAt(sources[i], k, s) # {}
               PROVE  NewestAt(sources[i], k, s) # {}
    OBVIOUS
  <2> DEFINE A == sources[i]
  <2>1. A \in SUBSET Version
    BY <1>1
  <2>2. VisibleAt(A, k, s) # {}
    OBVIOUS
  <2> HIDE DEF A
  <2>3. NewestAt(A, k, s) # {}
    BY <2>1, <2>2, NewestExists
  <2> QED  BY <2>3 DEF A
<1>3. \A v \in VisibleAt(all, k, s) : \E i \in hits : v \in VisibleAt(sources[i], k, s)
  <2> SUFFICES ASSUME NEW v \in VisibleAt(all, k, s)
               PROVE  \E i \in hits : v \in VisibleAt(sources[i], k, s)
    OBVIOUS
  <2>1. PICK i \in DOMAIN sources : v \in sources[i]
    BY DEF VisibleAt, Range
  <2>2. v \in VisibleAt(sources[i], k, s)
    BY <2>1 DEF VisibleAt
  <2> QED  BY <1>2, <2>2
<1>4. \A i \in DOMAIN sources : VisibleAt(sources[i], k, s) \in SUBSET VisibleAt(all, k, s)
  BY DEF VisibleAt, Range
<1>5. CASE hits = {}
  <2>1. VisibleAt(all, k, s) = {}
    BY <1>3, <1>5
  <2>2. NewestAt(all, k, s) = {}
    BY <2>1 DEF NewestAt
  <2> QED  BY <1>5, <2>2 DEF FirstHit
<1>6. CASE hits # {}
  <2> DEFINE m == Min(hits)
  <2>1. m \in hits /\ \A i \in hits : m <= i
    <3>1. hits \in SUBSET Nat
      BY <1>1
    <3> HIDE DEF hits
    <3> QED  BY <1>6, <3>1, LeastNatural DEF Min
  <2>2. FirstHit(sources, k, s) = NewestAt(sources[m], k, s)
    BY <1>6 DEF FirstHit
  <2> HIDE DEF m
  <2>3. m \in DOMAIN sources /\ NewestAt(sources[m], k, s) # {}
    BY <2>1
  <2>4. PICK a \in VisibleAt(sources[m], k, s) : TRUE
    BY <2>3 DEF NewestAt
  <2>5. ASSUME NEW v \in VisibleAt(all, k, s)
        PROVE  \/ v \in VisibleAt(sources[m], k, s)
               \/ \A b \in VisibleAt(sources[m], k, s) : v.seq < b.seq
    <3>1. PICK i \in hits : v \in VisibleAt(sources[i], k, s)
      BY <1>3
    <3>2. i = m \/ m < i
      BY <1>1, <2>1
    <3>3. ASSUME m < i, NEW b \in VisibleAt(sources[m], k, s) PROVE v.seq < b.seq
      <4>1. Newer(sources[m], sources[i])
        BY <2>3, <3>3
      <4>2. b.seq \in Int /\ v.seq \in Int
        BY <1>1, <2>3, <3>1 DEF VisibleAt, Version
      <4> QED  BY <3>1, <4>1, <4>2 DEF Newer, VisibleAt
    <3> QED  BY <3>1, <3>2, <3>3
  <2>6. \A b \in VisibleAt(all, k, s) : b.seq \in Int
    <3>1. \A b \in all : b \in Version
      BY <1>1 DEF Range
    <3> QED  BY <3>1 DEF VisibleAt, Version
  <2> HIDE DEF hits, all
  <2>7. ASSUME NEW v \in NewestAt(sources[m], k, s) PROVE v \in NewestAt(all, k, s)
    <3>1. v \in VisibleAt(sources[m], k, s) /\ \A b \in VisibleAt(sources[m], k, s) : b.seq <= v.seq
      BY DEF NewestAt
    <3>2. v \in VisibleAt(all, k, s)
      BY <1>4, <2>3, <3>1
    <3>3. ASSUME NEW b \in VisibleAt(all, k, s) PROVE b.seq <= v.seq
      BY <2>5, <2>6, <3>1, <3>2
    <3> QED  BY <3>2, <3>3 DEF NewestAt
  <2>8. ASSUME NEW v \in NewestAt(all, k, s) PROVE v \in NewestAt(sources[m], k, s)
    <3>1. v \in VisibleAt(all, k, s) /\ \A b \in VisibleAt(all, k, s) : b.seq <= v.seq
      BY DEF NewestAt
    <3>2. a \in VisibleAt(all, k, s)
      BY <1>4, <2>3
    <3>3. v \in VisibleAt(sources[m], k, s)
      BY <2>5, <2>6, <3>1, <3>2
    <3>4. \A b \in VisibleAt(sources[m], k, s) : b.seq <= v.seq
      BY <1>4, <2>3, <3>1
    <3> QED  BY <3>3, <3>4 DEF NewestAt
  <2> QED  BY <2>2, <2>7, <2>8 DEF all
<1> QED  BY <1>5, <1>6

-----------------------------------------------------------------------------
(* Fragments                                                               *)

\* Every key of A is below every key of B; fragments in key order.
Before(A, B) == \A v \in A, w \in B : v.key < w.key
Ranged(ts) == \A a, b \in DOMAIN ts : a < b => Before(ts[a], ts[b])

\* The key bounds of a fragment are keys it has.
LEMMA KeyBounds ==
  ASSUME Keys \in SUBSET Int, IsFiniteSet(Keys), NEW t \in Table
  PROVE  /\ MinKey(t) \in Int /\ MaxKey(t) \in Int
         /\ \A v \in t : v.key \in Int /\ MinKey(t) <= v.key /\ v.key <= MaxKey(t)
         /\ \E v \in t : v.key = MinKey(t)
         /\ \E v \in t : v.key = MaxKey(t)
<1> DEFINE Q == {v.key : v \in t}
<1>1. Q \in SUBSET Keys /\ Q # {}
  <2>1. t \in SUBSET Version /\ t # {}
    BY DEF Table
  <2>2. \A v \in t : v.key \in Keys
    BY <2>1 DEF Version
  <2> QED  BY <2>1, <2>2
<1>2. Q \in SUBSET Int /\ IsFiniteSet(Q)
  <2> HIDE DEF Q
  <2> QED  BY <1>1, FS_Subset
<1>3. MinKey(t) = Min(Q) /\ MaxKey(t) = Max(Q)
  BY DEF MinKey, MaxKey
<1>4. Min(Q) \in Q /\ \A x \in Q : Min(Q) <= x
  <2> HIDE DEF Q
  <2>1. \E x \in Q : \A y \in Q : x <= y
    BY <1>1, <1>2, LeastExists
  <2> QED  BY <2>1 DEF Min
<1>5. Max(Q) \in Q /\ \A x \in Q : x <= Max(Q)
  <2> HIDE DEF Q
  <2>1. \E x \in Q : \A y \in Q : x >= y
    BY <1>1, <1>2, GreatestExists
  <2>2. Max(Q) \in Q /\ \A y \in Q : Max(Q) >= y
    BY <2>1 DEF Max
  <2> QED  BY <1>2, <2>2
<1>6. \A v \in t : v.key \in Q
  OBVIOUS
<1>7. \A x \in Q : \E v \in t : v.key = x
  OBVIOUS
<1> HIDE DEF Q
<1> QED  BY <1>2, <1>3, <1>4, <1>5, <1>6, <1>7

\* Looking in one fragment loses no version of the key.
LEMMA FragmentHolds ==
  ASSUME Keys \in SUBSET Int, IsFiniteSet(Keys), NEW run \in Run, Ranged(run.tables), NEW k
  PROVE  /\ FragmentFor(run, k) \in SUBSET RunVersions(run)
         /\ VersionsOf(FragmentFor(run, k), k) = VersionsOf(RunVersions(run), k)
<1> DEFINE ts == run.tables
<1>1. /\ ts \in Seq(Table) /\ Len(ts) \in Nat /\ DOMAIN ts = 1 .. Len(ts)
      /\ \A i \in DOMAIN ts : ts[i] \in Table
  <2>1. ts \in Seq(Table)
    BY DEF Run
  <2> HIDE DEF ts
  <2> QED  BY <2>1, LenProperties, ElementOfSeq
<1>2. FragmentFor(run, k) \in SUBSET RunVersions(run)
  BY DEF FragmentFor, RunVersions, Range
<1>3. ASSUME NEW v \in RunVersions(run), v.key = k PROVE v \in FragmentFor(run, k)
  <2>1. PICK i \in DOMAIN ts : v \in ts[i]
    BY DEF RunVersions, Range
  <2>2. v.key \in Int /\ MinKey(ts[i]) <= k /\ k <= MaxKey(ts[i])
    BY <1>1, <1>3, <2>1, KeyBounds
  <2>3. ASSUME NEW j \in 1 .. i - 1 PROVE MaxKey(ts[j]) < k
    <3>1. j \in DOMAIN ts /\ j < i
      BY <1>1, <2>1
    <3>2. PICK u \in ts[j] : u.key = MaxKey(ts[j])
      BY <1>1, <3>1, KeyBounds
    <3>3. u.key < v.key
      BY <2>1, <3>1, <3>2 DEF Ranged, Before
    <3> QED  BY <1>3, <3>2, <3>3
  <2> QED  BY <2>1, <2>2, <2>3 DEF FragmentFor
<1> QED  BY <1>2, <1>3 DEF VersionsOf

\* When the answer for older runs is no, none of them has a version of the key.
LEMMA OlderIsSound ==
  ASSUME Keys \in SUBSET Int, IsFiniteSet(Keys), NEW older \in Seq(Run), NEW k,
         \A r \in Range(older) : Ranged(r.tables),
         NEW sh \in OlderMayContain(older, k)
  PROVE  sh \in BOOLEAN /\ (sh \/ VersionsOf(Contents(older), k) = {})
<1>1. sh \in BOOLEAN
  BY DEF OlderMayContain
<1>2. ASSUME ~sh, NEW v \in Contents(older), v.key = k PROVE FALSE
  <2>1. PICK i \in DOMAIN older : v \in RunVersions(older[i])
    BY DEF Contents, Range
  <2>2. older[i] \in Run /\ Ranged(older[i].tables)
    BY <2>1, LenProperties, ElementOfSeq DEF Range
  <2>3. VersionsOf(FragmentFor(older[i], k), k) # {}
    <3>1. v \in VersionsOf(RunVersions(older[i]), k)
      BY <1>2, <2>1 DEF VersionsOf
    <3> QED  BY <2>2, <3>1, FragmentHolds
  <2>4. FragmentFor(older[i], k) # {}
    BY <2>3 DEF VersionsOf
  <2>5. MayContain(older[i], k) = {TRUE}
    BY <2>3, <2>4 DEF MayContain
  <2>6. OlderMayContain(older, k) = {TRUE}
    BY <2>1, <2>5 DEF OlderMayContain
  <2> QED  BY <1>2, <2>6
<1> QED  BY <1>1, <1>2 DEF VersionsOf

\* Fragments in key order, one stretch after another.
LEMMA RangedConcat ==
  ASSUME NEW S, NEW s \in Seq(S), NEW t \in Seq(S)
  PROVE  Ranged(s \o t) <=>
           /\ Ranged(s) /\ Ranged(t)
           /\ \A A \in Range(s), B \in Range(t) : Before(A, B)
<1> DEFINE u == s \o t
<1>1. /\ Len(s) \in Nat /\ Len(t) \in Nat
      /\ DOMAIN s = 1 .. Len(s) /\ DOMAIN t = 1 .. Len(t)
  BY LenProperties
<1>2. /\ DOMAIN u = 1 .. Len(s) + Len(t)
      /\ \A i \in 1 .. Len(s) + Len(t) : u[i] = IF i <= Len(s) THEN s[i] ELSE t[i - Len(s)]
  <2>1. u \in Seq(S) /\ Len(u) = Len(s) + Len(t)
    BY ConcatProperties
  <2> QED  BY <2>1, LenProperties, ConcatProperties
<1> HIDE DEF u
<1>3. \A i \in DOMAIN s : i \in DOMAIN u /\ u[i] = s[i] /\ i \in Int
  BY <1>1, <1>2
<1>4. \A j \in DOMAIN t : Len(s) + j \in DOMAIN u /\ u[Len(s) + j] = t[j] /\ j \in Int
  BY <1>1, <1>2
<1>5. ASSUME Ranged(u)
      PROVE  Ranged(s) /\ Ranged(t) /\ \A A \in Range(s), B \in Range(t) : Before(A, B)
  <2>1. Ranged(s)
    BY <1>3, <1>5 DEF Ranged
  <2>2. Ranged(t)
    <3> SUFFICES ASSUME NEW a \in DOMAIN t, NEW b \in DOMAIN t, a < b PROVE Before(t[a], t[b])
      BY DEF Ranged
    <3>1. Len(s) + a < Len(s) + b
      BY <1>1, <1>4
    <3>2. Before(u[Len(s) + a], u[Len(s) + b])
      BY <1>4, <1>5, <3>1 DEF Ranged
    <3> QED  BY <1>4, <3>2
  <2>3. ASSUME NEW A \in Range(s), NEW B \in Range(t) PROVE Before(A, B)
    <3>1. PICK i \in DOMAIN s, j \in DOMAIN t : A = s[i] /\ B = t[j]
      BY DEF Range
    <3>2. i < Len(s) + j
      BY <1>1
    <3>3. Before(u[i], u[Len(s) + j])
      BY <1>3, <1>4, <1>5, <3>2 DEF Ranged
    <3> QED  BY <1>3, <1>4, <3>1, <3>3
  <2> QED  BY <2>1, <2>2, <2>3
<1>6. ASSUME Ranged(s), Ranged(t), \A A \in Range(s), B \in Range(t) : Before(A, B)
      PROVE  Ranged(u)
  <2> SUFFICES ASSUME NEW i \in DOMAIN u, NEW j \in DOMAIN u, i < j PROVE Before(u[i], u[j])
    BY DEF Ranged
  <2>1. CASE j <= Len(s)
    <3>1. i \in DOMAIN s /\ j \in DOMAIN s /\ u[i] = s[i] /\ u[j] = s[j]
      BY <1>1, <1>2, <2>1
    <3> QED  BY <1>6, <3>1 DEF Ranged
  <2>2. CASE Len(s) < i
    <3>1. /\ i - Len(s) \in DOMAIN t /\ j - Len(s) \in DOMAIN t /\ i - Len(s) < j - Len(s)
          /\ u[i] = t[i - Len(s)] /\ u[j] = t[j - Len(s)]
      BY <1>1, <1>2, <2>2
    <3> QED  BY <1>6, <3>1 DEF Ranged
  <2>3. CASE i <= Len(s) /\ Len(s) < j
    <3>1. i \in DOMAIN s /\ j - Len(s) \in DOMAIN t /\ u[i] = s[i] /\ u[j] = t[j - Len(s)]
      BY <1>1, <1>2, <2>3
    <3>2. s[i] \in Range(s) /\ t[j - Len(s)] \in Range(t)
      BY <3>1 DEF Range
    <3> QED  BY <1>6, <3>1, <3>2
  <2> QED  BY <1>1, <1>2, <2>1, <2>2, <2>3
<1>7. Ranged(u) <=> Ranged(s) /\ Ranged(t) /\ \A A \in Range(s), B \in Range(t) : Before(A, B)
  BY <1>5, <1>6
<1> QED  BY <1>7 DEF u

\* Some of the fragments of a run are still in key order.
LEMMA ThoseRanged ==
  ASSUME NEW S, NEW s \in Seq(S), NEW T, Ranged(s)
  PROVE  Ranged(Those(s, T))
<1> DEFINE u == Those(s, T)
<1>1. \A a, b \in DOMAIN u : a < b => \E i, j \in DOMAIN s : i < j /\ u[a] = s[i] /\ u[b] = s[j]
  BY ThoseInOrder
<1> HIDE DEF u
<1>2. Ranged(u)
  BY <1>1 DEF Ranged
<1> QED  BY <1>2 DEF u

-----------------------------------------------------------------------------
(* Tables under construction                                               *)

Output == [tables : Seq(Table), builder : SUBSET Version]

\* What is in it; its closed fragments and the open one are in key order.
Written(out) == (UNION Range(out.tables)) \cup out.builder
Ordered(out) == Ranged(out.tables) /\ \A t \in Range(out.tables) : Before(t, out.builder)

\* A merge starts with nothing written.
LEMMA NoOutputIsEmpty ==
  NoOutput \in Output /\ Written(NoOutput) = {} /\ Ordered(NoOutput)
<1>1. <<>> \in Seq(Table) /\ DOMAIN <<>> = {}
  BY EmptySeq
<1> QED  BY <1>1 DEF NoOutput, Output, Written, Ordered, Ranged, Range

\* Closing the open fragment, which has versions.
LEMMA CloseFragment ==
  ASSUME NEW out \in Output, out.builder # {}
  PROVE  LET ts == Append(out.tables, out.builder)
         IN  /\ ts \in Seq(Table) /\ ts # <<>>
             /\ Range(ts) = Range(out.tables) \cup {out.builder}
             /\ UNION Range(ts) = Written(out)
             /\ Ordered(out) => Ranged(ts)
<1> DEFINE s == out.tables
           b == out.builder
           ts == Append(s, b)
<1>1. s \in Seq(Table) /\ b \in Table
  <2>1. s \in Seq(Table) /\ b \in SUBSET Version /\ b # {}
    BY DEF Output
  <2> HIDE DEF s, b
  <2> QED  BY <2>1 DEF Table
<1>2. Range(<<b>>) = {b} /\ Ranged(<<b>>)
  BY DEF Range, Ranged
<1> HIDE DEF s, b
<1>3. ts \in Seq(Table) /\ ts # <<>> /\ ts = s \o <<b>> /\ <<b>> \in Seq(Table)
  BY <1>1, AppendProperties, AppendIsConcat
<1>4. Range(ts) = Range(s) \cup {b}
  <2>1. Range(s \o <<b>>) = Range(s) \cup Range(<<b>>)
    BY <1>1, <1>3, ConcatRange
  <2> QED  BY <1>2, <1>3, <2>1
<1>5. UNION Range(ts) = (UNION Range(s)) \cup b
  <2> HIDE DEF ts
  <2>1. \A x : x \in UNION Range(ts) <=> x \in UNION Range(s) \/ x \in b
    BY <1>4
  <2> QED  BY <2>1
<1>6. ASSUME Ranged(s), \A t \in Range(s) : Before(t, b) PROVE Ranged(ts)
  <2>1. Ranged(s \o <<b>>) <=>
          Ranged(s) /\ Ranged(<<b>>) /\ \A A \in Range(s), B \in Range(<<b>>) : Before(A, B)
    BY <1>1, <1>3, RangedConcat
  <2> QED  BY <1>2, <1>3, <1>6, <2>1
<1> QED  BY <1>3, <1>4, <1>5, <1>6 DEF s, b, Written, Ordered

\* Adding the versions of the next key keeps it ordered.
LEMMA AddKeyKeeps ==
  ASSUME opts.target_file_size \in Nat \ {0},
         NEW out \in Output, Ordered(out), NEW vs \in SUBSET Version, Before(Written(out), vs)
  PROVE  /\ AddKey(out, vs) \in Output
         /\ Written(AddKey(out, vs)) = Written(out) \cup vs
         /\ Ordered(AddKey(out, vs))
<1>1. CASE vs = {}
  BY <1>1 DEF AddKey
<1>2. CASE vs # {} /\ Cardinality(out.builder) >= opts.target_file_size
  <2>1. out.builder # {}
    BY <1>2, FS_EmptySet
  <2> DEFINE ts == Append(out.tables, out.builder)
  <2>2. /\ ts \in Seq(Table) /\ Range(ts) = Range(out.tables) \cup {out.builder}
        /\ UNION Range(ts) = Written(out) /\ Ranged(ts)
    BY <2>1, CloseFragment
  <2>3. AddKey(out, vs) = [tables |-> ts, builder |-> vs]
    BY <1>2 DEF AddKey
  <2> HIDE DEF ts
  <2>4. \A t \in Range(ts) : Before(t, vs)
    BY <2>2 DEF Before
  <2> DEFINE o == [tables |-> ts, builder |-> vs]
  <2>5. o.tables = ts /\ o.builder = vs /\ o \in Output
    BY <2>2 DEF Output
  <2> HIDE DEF o
  <2>6. Written(o) = Written(out) \cup vs /\ Ordered(o)
    <3>1. (UNION Range(o.tables)) \cup o.builder = Written(out) \cup vs
      BY <2>2, <2>5
    <3>2. Ranged(o.tables) /\ \A t \in Range(o.tables) : Before(t, o.builder)
      BY <2>2, <2>4, <2>5
    <3> QED  BY <3>1, <3>2 DEF Written, Ordered
  <2> QED  BY <2>3, <2>5, <2>6 DEF o
<1>3. CASE vs # {} /\ ~(Cardinality(out.builder) >= opts.target_file_size)
  <2> DEFINE b == out.builder \cup vs
  <2>1. AddKey(out, vs) = [out EXCEPT !.builder = b]
    BY <1>3 DEF AddKey
  <2>2. b \in SUBSET Version /\ out.tables \in Seq(Table)
    BY DEF Output
  <2>3. \A t \in Range(out.tables) : Before(t, b)
    BY DEF Ordered, Before, Written
  <2>4. Written(out) \cup vs = (UNION Range(out.tables)) \cup b
    <3> DEFINE U == UNION Range(out.tables)
    <3>1. Written(out) = U \cup out.builder
      BY DEF Written
    <3> HIDE DEF U
    <3> QED  BY <3>1 DEF U
  <2> HIDE DEF b
  <2>5. AddKey(out, vs) = [tables |-> out.tables, builder |-> b]
    BY <2>1 DEF Output
  <2> DEFINE o == [tables |-> out.tables, builder |-> b]
  <2>6. o.tables = out.tables /\ o.builder = b /\ o \in Output
    BY <2>2 DEF Output
  <2> HIDE DEF o
  <2>7. Written(o) = Written(out) \cup vs /\ Ordered(o)
    <3>1. (UNION Range(o.tables)) \cup o.builder = Written(out) \cup vs
      BY <2>4, <2>6
    <3>2. Ranged(o.tables) /\ \A t \in Range(o.tables) : Before(t, o.builder)
      BY <2>3, <2>6 DEF Ordered
    <3> QED  BY <3>1, <3>2 DEF Written, Ordered
  <2> QED  BY <2>5, <2>6, <2>7 DEF o
<1> QED  BY <1>1, <1>2, <1>3

\* The open fragment is closed and joins the others, in key order.
LEMMA FinishKeeps ==
  ASSUME NEW out \in Output, Ordered(out)
  PROVE  /\ FinishTables(out) \in Seq(Table)
         /\ UNION Range(FinishTables(out)) = Written(out)
         /\ Ranged(FinishTables(out))
         /\ Written(out) # {} => FinishTables(out) # <<>>
<1>1. CASE out.builder = {}
  <2>1. FinishTables(out) = out.tables /\ UNION Range(out.tables) = Written(out)
    BY <1>1 DEF FinishTables, Written
  <2>2. out.tables = <<>> => Range(out.tables) = {}
    BY DEF Range
  <2> QED  BY <2>1, <2>2 DEF Output, Ordered
<1>2. CASE out.builder # {}
  BY <1>2, CloseFragment DEF FinishTables
<1> QED  BY <1>1, <1>2

\* The first n keys added in order.
UpToKey(vs, ks, n) == {v \in vs : \E i \in 1 .. n : v.key = ks[i]}

\* The run a flush writes holds what the memtable held, in key order.
LEMMA BuildRunHolds ==
  ASSUME opts.target_file_size \in Nat \ {0}, Keys \in SUBSET Int, IsFiniteSet(Keys),
         NEW vs \in Table
  PROVE  /\ BuildRunFromMem(vs) \in Seq(Table) /\ BuildRunFromMem(vs) # <<>>
         /\ Ranged(BuildRunFromMem(vs)) /\ UNION Range(BuildRunFromMem(vs)) = vs
<1> DEFINE Q == {v.key : v \in vs}
           ks == InOrder(Q)
           N == Len(ks)
           at(i) == VersionsOf(vs, ks[i])
           step(f) == [n \in 0 .. N |-> IF n = 0 THEN NoOutput ELSE AddKey(f[n - 1], at(n))]
           Good(n, g) == /\ g[0] = NoOutput
                         /\ \A i \in 1 .. n : g[i] = AddKey(g[i - 1], at(i))
           Stages(n) == {g \in [0 .. n -> Output] : Good(n, g)}
           So(o, n) == Ordered(o) /\ Written(o) = UpToKey(vs, ks, n)
<1>1. vs \in SUBSET Version /\ vs # {}
  BY DEF Table
<1>2. /\ ks \in Seq(Int) /\ N \in Nat /\ DOMAIN ks = 1 .. N
      /\ \A i, j \in 1 .. N : i < j => ks[i] < ks[j]
      /\ \A i \in 1 .. N : ks[i] \in Int
      /\ Range(ks) = Q
  <2>1. Q \in SUBSET Keys
    BY <1>1 DEF Version
  <2>2. Q \in SUBSET Int /\ IsFiniteSet(Q)
    <3> HIDE DEF Q
    <3> QED  BY <2>1, FS_Subset
  <2>3. ks = Listed(Q)
    BY InOrderIsListed
  <2> HIDE DEF Q, ks
  <2>4. ks \in Seq(Int) /\ Increasing(ks) /\ Range(ks) = Q
    BY <2>2, <2>3, ListedInOrder
  <2>5. N \in Nat /\ DOMAIN ks = 1 .. N /\ \A i \in 1 .. N : ks[i] \in Int
    BY <2>4, LenProperties, ElementOfSeq
  <2> QED  BY <2>4, <2>5 DEF Increasing
<1> HIDE DEF ks
<1>3. \A i \in 1 .. N : at(i) \in SUBSET Version
  BY <1>1 DEF VersionsOf
\* Adding the next key to the first ones.
<1>4. ASSUME NEW n \in 1 .. N, NEW o \in Output, So(o, n - 1)
      PROVE  AddKey(o, at(n)) \in Output /\ So(AddKey(o, at(n)), n)
  <2>1. Before(UpToKey(vs, ks, n - 1), at(n))
    <3> SUFFICES ASSUME NEW v \in vs, NEW i \in 1 .. n - 1, v.key = ks[i],
                        NEW u \in vs, u.key = ks[n]
                 PROVE  v.key < u.key
      BY DEF Before, UpToKey, VersionsOf
    <3>1. i \in 1 .. N /\ i < n
      BY <1>2
    <3> QED  BY <1>2, <3>1
  <2>2. UpToKey(vs, ks, n - 1) \cup at(n) = UpToKey(vs, ks, n)
    <3>1. 1 .. n = (1 .. n - 1) \cup {n}
      BY <1>2
    <3> QED  BY <3>1 DEF UpToKey, VersionsOf
  <2> DEFINE new == at(n)
  <2>3. new \in SUBSET Version /\ Before(Written(o), new) /\ Ordered(o)
    BY <1>3, <1>4, <2>1
  <2> HIDE DEF new
  <2>4. /\ AddKey(o, new) \in Output /\ Written(AddKey(o, new)) = Written(o) \cup new
        /\ Ordered(AddKey(o, new))
    BY <2>3, AddKeyKeeps
  <2> QED  BY <1>4, <2>2, <2>4 DEF new
<1>5. NoOutput \in Output /\ So(NoOutput, 0)
  <2>1. UpToKey(vs, ks, 0) = {}
    BY DEF UpToKey
  <2> QED  BY <2>1, NoOutputIsEmpty
<1> HIDE DEF at
<1> DEFINE Steps(n) == {g \in [0 .. n -> Output] : Good(n, g) /\ \A i \in 0 .. n : So(g[i], i)}
           Bad == {n \in 0 .. N : Steps(n) = {}}
<1>6. Bad = {}
  <2> SUFFICES ASSUME Bad # {} PROVE FALSE
    OBVIOUS
  <2>1. PICK m \in Bad : \A n \in Bad : m <= n
    <3>1. Bad \in SUBSET Nat
      <4> HIDE DEF Steps
      <4> QED  BY <1>2
    <3> HIDE DEF Bad
    <3> QED  BY <3>1, LeastNatural
  <2>2. m \in 0 .. N /\ Steps(m) = {}
    <3> HIDE DEF Steps
    <3> QED  OBVIOUS
  <2>3. CASE m = 0
    <3> DEFINE g == [i \in 0 .. 0 |-> NoOutput]
    <3>1. g \in [0 .. 0 -> Output] /\ g[0] = NoOutput /\ 1 .. 0 = {} /\ 0 .. 0 = {0}
      BY <1>5
    <3> HIDE DEF g, So
    <3>2. g \in Steps(0)
      BY <1>5, <3>1
    <3> QED  BY <2>2, <2>3, <3>2
  <2>4. CASE m > 0
    <3>1. m - 1 \in 0 .. N /\ m - 1 \notin Bad /\ m \in 1 .. N
      <4> HIDE DEF Bad
      <4> QED  BY <1>2, <2>1, <2>2, <2>4
    <3> HIDE DEF So
    <3>2. PICK g \in [0 .. m - 1 -> Output] : Good(m - 1, g) /\ \A i \in 0 .. m - 1 : So(g[i], i)
      <4>1. Steps(m - 1) # {}
        <5> HIDE DEF Steps
        <5> QED  BY <3>1
      <4> HIDE DEF Good
      <4> QED  BY <4>1
    <3> DEFINE last == AddKey(g[m - 1], at(m))
               h == [i \in 0 .. m |-> IF i < m THEN g[i] ELSE last]
    <3>3. g[m - 1] \in Output /\ So(g[m - 1], m - 1)
      BY <1>2, <3>1, <3>2
    <3>4. last \in Output /\ So(last, m)
      BY <1>4, <3>1, <3>3
    <3> HIDE DEF last
    <3>5. h \in [0 .. m -> Output] /\ h[m] = last /\ \A i \in 0 .. m - 1 : h[i] = g[i]
      BY <1>2, <3>1, <3>2, <3>4
    <3> HIDE DEF h
    <3>6. \A i \in 0 .. m : So(h[i], i)
      <4>1. \A i \in 0 .. m : i = m \/ i \in 0 .. m - 1
        BY <3>1
      <4> QED  BY <3>2, <3>4, <3>5, <4>1
    <3>7. Good(m, h)
      <4>1. h[0] = NoOutput
        <5>1. 0 \in 0 .. m - 1
          BY <3>1
        <5> QED  BY <3>2, <3>5, <5>1
      <4>2. ASSUME NEW i \in 1 .. m PROVE h[i] = AddKey(h[i - 1], at(i))
        <5>1. CASE i = m
          <6>1. m - 1 \in 0 .. m - 1
            BY <3>1
          <6>2. h[m - 1] = g[m - 1]
            BY <3>5, <6>1
          <6> QED  BY <3>5, <5>1, <6>2 DEF last
        <5>2. CASE i < m
          <6>1. i \in 0 .. m - 1 /\ i - 1 \in 0 .. m - 1 /\ i \in 1 .. m - 1
            BY <3>1, <5>2
          <6>2. h[i] = g[i] /\ h[i - 1] = g[i - 1]
            BY <3>5, <6>1
          <6>3. g[i] = AddKey(g[i - 1], at(i))
            BY <3>2, <6>1
          <6> QED  BY <6>2, <6>3
        <5> QED  BY <3>1, <5>1, <5>2
      <4> QED  BY <4>1, <4>2
    <3> HIDE DEF Good
    <3>8. h \in Steps(m)
      BY <3>5, <3>6, <3>7
    <3> HIDE DEF Steps
    <3> QED  BY <2>2, <3>8
  <2> QED  BY <1>2, <2>2, <2>3, <2>4
<1>7. PICK g \in [0 .. N -> Output] : Good(N, g) /\ \A i \in 0 .. N : So(g[i], i)
  <2>1. N \in 0 .. N
    BY <1>2
  <2> HIDE DEF Good, So
  <2> QED  BY <1>6, <2>1
<1>8. g = step(g)
  <2>1. \A n \in 0 .. N : g[n] = IF n = 0 THEN NoOutput ELSE AddKey(g[n - 1], at(n))
    <3>1. \A n \in 0 .. N : n = 0 \/ n \in 1 .. N
      BY <1>2
    <3> QED  BY <1>7, <3>1
  <2>2. g = [n \in 0 .. N |-> g[n]]
    BY <1>7
  <2> QED  BY <2>1, <2>2
<1> DEFINE f == CHOOSE x : x = step(x)
<1>9. f = step(f)
  BY <1>8
<1>10. BuildRunFromMem(vs) = FinishTables(f[N])
  BY DEF BuildRunFromMem, at, ks
<1> HIDE DEF f
\* The chosen one passes through the same stages.
<1>11. f[N] \in Output /\ So(f[N], N)
  <2> DEFINE Off == {n \in 0 .. N : f[n] # g[n]}
  <2>1. f[0] = NoOutput /\ \A n \in 1 .. N : f[n] = AddKey(f[n - 1], at(n))
    <3>1. \A n \in 0 .. N : f[n] = IF n = 0 THEN NoOutput ELSE AddKey(f[n - 1], at(n))
      BY <1>9
    <3>2. 0 \in 0 .. N /\ \A n \in 1 .. N : n \in 0 .. N /\ n # 0
      BY <1>2
    <3> QED  BY <3>1, <3>2
  <2>2. Off = {}
    <3> SUFFICES ASSUME Off # {} PROVE FALSE
      OBVIOUS
    <3>1. PICK m \in Off : \A n \in Off : m <= n
      <4>1. Off \in SUBSET Nat
        BY <1>2
      <4> HIDE DEF Off
      <4> QED  BY <4>1, LeastNatural
    <3>2. m \in 0 .. N /\ f[m] # g[m]
      OBVIOUS
    <3>3. CASE m = 0
      BY <1>7, <2>1, <3>2, <3>3
    <3>4. CASE m > 0
      <4>1. m - 1 \in 0 .. N /\ m \in 1 .. N /\ m - 1 \notin Off
        <5> HIDE DEF Off
        <5> QED  BY <1>2, <3>1, <3>2, <3>4
      <4>2. f[m - 1] = g[m - 1]
        BY <4>1
      <4> QED  BY <1>7, <2>1, <3>2, <4>1, <4>2
    <3> QED  BY <1>2, <3>2, <3>3, <3>4
  <2>3. N \in 0 .. N
    BY <1>2
  <2>4. f[N] = g[N]
    BY <2>2, <2>3
  <2> HIDE DEF Off, Good, So
  <2> QED  BY <1>7, <2>3, <2>4
<1>12. UpToKey(vs, ks, N) = vs
  <2>1. ASSUME NEW v \in vs PROVE \E i \in 1 .. N : v.key = ks[i]
    <3>1. v.key \in Range(ks)
      BY <1>2
    <3> QED  BY <1>2, <3>1 DEF Range
  <2> QED  BY <2>1 DEF UpToKey
<1>13. f[N] \in Output /\ Ordered(f[N]) /\ Written(f[N]) = vs
  BY <1>11, <1>12
<1> QED  BY <1>1, <1>10, <1>13, FinishKeeps

-----------------------------------------------------------------------------
(* The levels and what is done to them                                     *)

RunsOf(lv) == UNION {Range(lv[l]) : l \in DOMAIN lv}
Tree(lv) == UNION {RunVersions(r) : r \in RunsOf(lv)}

\* A run has fragments, in key order.
Sound(r) == r.tables # <<>> /\ Ranged(r.tables)

\* Every level under its newer ones, every run sound.
Whole(lv) ==
    /\ lv \in Seq(Seq(Run)) /\ Len(lv) >= 1
    /\ \A l \in DOMAIN lv : Descending(lv[l])
    /\ \A l, m \in DOMAIN lv : l < m => Over(lv[l], lv[m])
    /\ \A r \in RunsOf(lv) : Sound(r)

\* What is known of a whole tree's levels.
LEMMA WholeLevels ==
  ASSUME NEW lv, Whole(lv)
  PROVE  /\ Len(lv) \in Nat \ {0} /\ DOMAIN lv = 1 .. Len(lv)
         /\ \A l \in DOMAIN lv : /\ lv[l] \in Seq(Run) /\ Range(lv[l]) \in SUBSET RunsOf(lv)
                                 /\ Len(lv[l]) \in Nat /\ DOMAIN lv[l] = 1 .. Len(lv[l])
         /\ RunsOf(lv) \in SUBSET Run
         /\ FlattenSeq(lv) \in Seq(Run) /\ Range(FlattenSeq(lv)) = RunsOf(lv)
         /\ Descending(FlattenSeq(lv))
<1>1. lv \in Seq(Seq(Run)) /\ Len(lv) >= 1
  BY DEF Whole
<1>2. Len(lv) \in Nat \ {0} /\ DOMAIN lv = 1 .. Len(lv) /\ \A l \in DOMAIN lv : lv[l] \in Seq(Run)
  BY <1>1, LenProperties, ElementOfSeq
<1>3. \A s \in Seq(Run) : Range(s) \in SUBSET Run /\ Len(s) \in Nat /\ DOMAIN s = 1 .. Len(s)
  BY LenProperties, RangeOfSeq
<1>4. RunsOf(lv) \in SUBSET Run /\ \A l \in DOMAIN lv : Range(lv[l]) \in SUBSET RunsOf(lv)
  BY <1>2, <1>3 DEF RunsOf
<1>5. FlattenSeq(lv) \in Seq(Run) /\ Range(FlattenSeq(lv)) = RunsOf(lv)
  BY <1>1, FlattenRange DEF RunsOf
<1>6. Descending(FlattenSeq(lv))
  BY <1>1, FlattenDescends DEF Whole
<1> QED  BY <1>2, <1>3, <1>4, <1>5, <1>6

\* One level replaced.
WithLevel(lv, l, s) == [lv EXCEPT ![l] = s]

\* A level may be replaced by runs that fit between its neighbours.
LEMMA SetLevel ==
  ASSUME NEW lv, Whole(lv), NEW l \in DOMAIN lv, NEW s \in Seq(Run),
         Descending(s), \A r \in Range(s) : Sound(r),
         \A m \in DOMAIN lv : m < l => Over(lv[m], s),
         \A m \in DOMAIN lv : l < m => Over(s, lv[m])
  PROVE  LET nx == WithLevel(lv, l, s)
         IN  /\ Whole(nx) /\ Len(nx) = Len(lv) /\ DOMAIN nx = DOMAIN lv
             /\ nx[l] = s /\ \A m \in DOMAIN lv : m # l => nx[m] = lv[m]
<1> DEFINE nx == WithLevel(lv, l, s)
<1>1. /\ lv \in Seq(Seq(Run)) /\ Len(lv) \in Nat \ {0} /\ DOMAIN lv = 1 .. Len(lv)
      /\ \A m \in DOMAIN lv : Range(lv[m]) \in SUBSET RunsOf(lv)
  BY WholeLevels DEF Whole
<1>2. /\ nx \in Seq(Seq(Run)) /\ Len(nx) = Len(lv)
      /\ \A m \in 1 .. Len(lv) : nx[m] = IF m = l THEN s ELSE lv[m]
  BY <1>1, ExceptSeq DEF WithLevel
<1>3. DOMAIN nx = DOMAIN lv
  BY DEF WithLevel
<1> HIDE DEF nx
<1>4. \A m \in DOMAIN nx : Descending(nx[m])
  BY <1>1, <1>2, <1>3 DEF Whole
<1>5. \A m, n \in DOMAIN nx : m < n => Over(nx[m], nx[n])
  <2> SUFFICES ASSUME NEW m \in DOMAIN nx, NEW n \in DOMAIN nx, m < n PROVE Over(nx[m], nx[n])
    OBVIOUS
  <2>0. /\ m \in DOMAIN lv /\ n \in DOMAIN lv /\ m # n
        /\ nx[m] = (IF m = l THEN s ELSE lv[m]) /\ nx[n] = (IF n = l THEN s ELSE lv[n])
    BY <1>1, <1>2, <1>3
  <2>1. CASE m = l
    <3>1. nx[m] = s /\ nx[n] = lv[n] /\ l < n
      BY <2>0, <2>1
    <3> QED  BY <2>0, <3>1
  <2>2. CASE n = l
    <3>1. nx[n] = s /\ nx[m] = lv[m] /\ m < l
      BY <2>0, <2>2
    <3> QED  BY <2>0, <3>1
  <2>3. CASE m # l /\ n # l
    BY <1>1, <1>2, <1>3, <2>3 DEF Whole
  <2> QED  BY <2>1, <2>2, <2>3
<1>6. \A r \in RunsOf(nx) : Sound(r)
  <2> SUFFICES ASSUME NEW m \in DOMAIN nx, NEW r \in Range(nx[m]) PROVE Sound(r)
    BY DEF RunsOf
  <2>1. CASE m = l
    BY <1>1, <1>2, <1>3, <2>1
  <2>2. CASE m # l
    <3>1. r \in RunsOf(lv)
      BY <1>1, <1>2, <1>3, <2>2
    <3> QED  BY <3>1 DEF Whole
  <2> QED  BY <2>1, <2>2
<1>7. Whole(nx)
  BY <1>1, <1>2, <1>4, <1>5, <1>6 DEF Whole
<1> QED  BY <1>1, <1>2, <1>3, <1>7 DEF nx

\* A level in two parts.
Splits(s, front, back) == s = front \o back

\* The back of a level taken out.
LEMMA RemoveBack ==
  ASSUME NEW lv, Whole(lv), NEW l \in DOMAIN lv, NEW front \in Seq(Run), NEW back \in Seq(Run),
         Splits(lv[l], front, back)
  PROVE  LET nx == WithLevel(lv, l, front)
         IN  /\ Whole(nx) /\ Len(nx) = Len(lv) /\ DOMAIN nx = DOMAIN lv
             /\ nx[l] = front /\ \A m \in DOMAIN lv : m # l => nx[m] = lv[m]
             /\ RunsOf(lv) = RunsOf(nx) \cup Range(back)
             /\ Descending(back)
             /\ \A m \in DOMAIN lv : m <= l => Over(nx[m], back)
             /\ \A m \in DOMAIN lv : l < m => Over(back, lv[m])
<1> DEFINE nx == WithLevel(lv, l, front)
<1>1. Descending(front) /\ Descending(back) /\ Over(front, back)
  <2>1. Descending(front \o back)
    BY DEF Whole, Splits
  <2> QED  BY <2>1, DescendingConcat
<1>2. Range(lv[l]) = Range(front) \cup Range(back)
  BY ConcatRange DEF Splits
<1>3. \A m \in DOMAIN lv : m < l => Over(lv[m], front) /\ Over(lv[m], back)
  BY <1>2 DEF Whole, Over
<1>4. \A m \in DOMAIN lv : l < m => Over(front, lv[m]) /\ Over(back, lv[m])
  BY <1>2 DEF Whole, Over
<1>5. \A r \in Range(front) : Sound(r)
  <2>1. Range(front) \in SUBSET RunsOf(lv)
    BY <1>2 DEF RunsOf
  <2> QED  BY <2>1 DEF Whole
<1>6. /\ Whole(nx) /\ Len(nx) = Len(lv) /\ DOMAIN nx = DOMAIN lv
      /\ nx[l] = front /\ \A m \in DOMAIN lv : m # l => nx[m] = lv[m]
  BY <1>1, <1>3, <1>4, <1>5, SetLevel
<1>0. DOMAIN lv = 1 .. Len(lv) /\ Len(lv) \in Nat
  BY WholeLevels
<1> HIDE DEF nx
<1>7. RunsOf(lv) = RunsOf(nx) \cup Range(back)
  <2>1. ASSUME NEW m \in DOMAIN lv PROVE Range(lv[m]) \in SUBSET (RunsOf(nx) \cup Range(back))
    BY <1>2, <1>6 DEF RunsOf
  <2>2. ASSUME NEW m \in DOMAIN lv PROVE Range(nx[m]) \in SUBSET Range(lv[m])
    BY <1>2, <1>6
  <2>3. Range(back) \in SUBSET RunsOf(lv)
    BY <1>2 DEF RunsOf
  <2> QED  BY <1>6, <2>1, <2>2, <2>3 DEF RunsOf
<1>8. \A m \in DOMAIN lv : m <= l => Over(nx[m], back)
  <2> SUFFICES ASSUME NEW m \in DOMAIN lv, m <= l PROVE Over(nx[m], back)
    OBVIOUS
  <2>1. m = l \/ m < l
    BY <1>0
  <2>2. CASE m = l
    BY <1>1, <1>6, <2>2
  <2>3. CASE m < l
    <3>1. m # l /\ nx[m] = lv[m]
      BY <1>0, <1>6, <2>3
    <3> QED  BY <1>3, <2>3, <3>1
  <2> QED  BY <2>1, <2>2, <2>3
<1> QED  BY <1>1, <1>4, <1>6, <1>7, <1>8 DEF nx

\* A run joined to a level.
InFront(r, s) == <<r>> \o s
Behind(s, r) == s \o <<r>>

\* A new run in front of a level, newer than it and all below, older than all
\* above.
LEMMA PutFront ==
  ASSUME NEW lv, Whole(lv), NEW l \in DOMAIN lv, NEW r \in Run, Sound(r),
         \A q \in RunsOf(lv) : q.id # r.id,
         \A m \in DOMAIN lv : m < l => \A q \in Range(lv[m]) : Newer(RunVersions(q), RunVersions(r)),
         \A m \in DOMAIN lv : l <= m => \A q \in Range(lv[m]) : Newer(RunVersions(r), RunVersions(q))
  PROVE  LET nx == WithLevel(lv, l, InFront(r, lv[l]))
         IN  /\ Whole(nx) /\ Len(nx) = Len(lv) /\ DOMAIN nx = DOMAIN lv
             /\ nx[l] = InFront(r, lv[l]) /\ \A m \in DOMAIN lv : m # l => nx[m] = lv[m]
             /\ RunsOf(nx) = RunsOf(lv) \cup {r}
<1> DEFINE one == <<r>>
           s == one \o lv[l]
           nx == WithLevel(lv, l, s)
<1>0. one \in Seq(Run) /\ Range(one) = {r} /\ Descending(one)
  BY DEF Range, Descending
<1>1. lv[l] \in Seq(Run) /\ DOMAIN lv = 1 .. Len(lv) /\ Len(lv) \in Nat
  BY WholeLevels
<1>2. \A m \in DOMAIN lv : Range(lv[m]) \in SUBSET RunsOf(lv)
  BY WholeLevels
<1> HIDE DEF one
<1>3. s \in Seq(Run) /\ Range(s) = {r} \cup Range(lv[l])
  <2>1. Range(s) = Range(one) \cup Range(lv[l])
    BY <1>0, <1>1, ConcatRange
  <2> QED  BY <1>0, <1>1, <2>1, ConcatProperties
<1>4. \A m \in DOMAIN lv : l <= m => Over(one, lv[m])
  BY <1>0, <1>2 DEF Over, Apart
<1>5. \A m \in DOMAIN lv : m < l => Over(lv[m], one)
  BY <1>0, <1>2 DEF Over, Apart
<1>6. Descending(s)
  <2>1. Over(one, lv[l])
    BY <1>1, <1>4
  <2>2. Descending(lv[l])
    BY DEF Whole
  <2> QED  BY <1>0, <1>1, <2>1, <2>2, DescendingConcat
<1>7. \A q \in Range(s) : Sound(q)
  <2>1. \A q \in RunsOf(lv) : Sound(q)
    BY DEF Whole
  <2> QED  BY <1>2, <1>3, <2>1
<1>8. \A m \in DOMAIN lv : m < l => Over(lv[m], s)
  <2>1. \A m \in DOMAIN lv : m < l => Over(lv[m], lv[l])
    BY DEF Whole
  <2> QED  BY <1>0, <1>3, <1>5, <2>1 DEF Over
<1>9. \A m \in DOMAIN lv : l < m => Over(s, lv[m])
  <2>1. \A m \in DOMAIN lv : l < m => Over(lv[l], lv[m])
    BY DEF Whole
  <2>2. \A m \in DOMAIN lv : l < m => Over(one, lv[m])
    BY <1>1, <1>4
  <2> QED  BY <1>0, <1>3, <2>1, <2>2 DEF Over
<1> HIDE DEF s
<1>10. /\ Whole(nx) /\ Len(nx) = Len(lv) /\ DOMAIN nx = DOMAIN lv
       /\ nx[l] = s /\ \A m \in DOMAIN lv : m # l => nx[m] = lv[m]
  BY <1>3, <1>6, <1>7, <1>8, <1>9, SetLevel
<1>11. nx = WithLevel(lv, l, InFront(r, lv[l])) /\ s = InFront(r, lv[l])
  BY DEF s, one, InFront
<1> HIDE DEF nx
<1>12. RunsOf(nx) = RunsOf(lv) \cup {r}
  BY <1>3, <1>10 DEF RunsOf
<1> QED  BY <1>10, <1>11, <1>12

\* A new run at the back of the last level, older than everything.
LEMMA PutBack ==
  ASSUME NEW lv, Whole(lv), NEW l \in DOMAIN lv, \A m \in DOMAIN lv : m <= l,
         NEW r \in Run, Sound(r),
         \A q \in RunsOf(lv) : q.id # r.id /\ Newer(RunVersions(q), RunVersions(r))
  PROVE  LET nx == WithLevel(lv, l, Behind(lv[l], r))
         IN  /\ Whole(nx) /\ Len(nx) = Len(lv) /\ DOMAIN nx = DOMAIN lv
             /\ nx[l] = Behind(lv[l], r) /\ \A m \in DOMAIN lv : m # l => nx[m] = lv[m]
             /\ RunsOf(nx) = RunsOf(lv) \cup {r}
<1> DEFINE one == <<r>>
           s == lv[l] \o one
           nx == WithLevel(lv, l, s)
<1>0. one \in Seq(Run) /\ Range(one) = {r} /\ Descending(one)
  BY DEF Range, Descending
<1>1. lv[l] \in Seq(Run) /\ DOMAIN lv = 1 .. Len(lv) /\ Len(lv) \in Nat
  BY WholeLevels
<1>2. \A m \in DOMAIN lv : Range(lv[m]) \in SUBSET RunsOf(lv)
  BY WholeLevels
<1> HIDE DEF one
<1>3. s \in Seq(Run) /\ Range(s) = Range(lv[l]) \cup {r}
  <2>1. Range(s) = Range(lv[l]) \cup Range(one)
    BY <1>0, <1>1, ConcatRange
  <2> QED  BY <1>0, <1>1, <2>1, ConcatProperties
<1>5. \A m \in DOMAIN lv : Over(lv[m], one)
  BY <1>0, <1>2 DEF Over, Apart
<1>6. Descending(s)
  <2>2. Descending(lv[l])
    BY DEF Whole
  <2> QED  BY <1>0, <1>1, <1>5, <2>2, DescendingConcat
<1>7. \A q \in Range(s) : Sound(q)
  <2>1. \A q \in RunsOf(lv) : Sound(q)
    BY DEF Whole
  <2> QED  BY <1>2, <1>3, <2>1
<1>8. \A m \in DOMAIN lv : m < l => Over(lv[m], s)
  <2>1. \A m \in DOMAIN lv : m < l => Over(lv[m], lv[l])
    BY DEF Whole
  <2> QED  BY <1>0, <1>3, <1>5, <2>1 DEF Over
<1>9. \A m \in DOMAIN lv : l < m => Over(s, lv[m])
  BY <1>1
<1> HIDE DEF s
<1>10. /\ Whole(nx) /\ Len(nx) = Len(lv) /\ DOMAIN nx = DOMAIN lv
       /\ nx[l] = s /\ \A m \in DOMAIN lv : m # l => nx[m] = lv[m]
  BY <1>3, <1>6, <1>7, <1>8, <1>9, SetLevel
<1>11. nx = WithLevel(lv, l, Behind(lv[l], r)) /\ s = Behind(lv[l], r)
  BY DEF s, one, Behind
<1> HIDE DEF nx
<1>12. RunsOf(nx) = RunsOf(lv) \cup {r}
  BY <1>3, <1>10 DEF RunsOf
<1> QED  BY <1>10, <1>11, <1>12

\* A new last level, older than everything.
LEMMA AddLevel ==
  ASSUME NEW lv, Whole(lv), NEW s \in Seq(Run), Descending(s), \A r \in Range(s) : Sound(r),
         \A m \in DOMAIN lv : Over(lv[m], s)
  PROVE  LET nx == Append(lv, s)
         IN  /\ Whole(nx) /\ Len(nx) = Len(lv) + 1
             /\ nx[Len(lv) + 1] = s /\ \A m \in DOMAIN lv : nx[m] = lv[m]
             /\ RunsOf(nx) = RunsOf(lv) \cup Range(s)
<1> DEFINE nx == Append(lv, s)
           n == Len(lv)
<1>1. lv \in Seq(Seq(Run)) /\ n \in Nat \ {0} /\ DOMAIN lv = 1 .. n
  BY WholeLevels DEF Whole
<1>2. /\ nx \in Seq(Seq(Run)) /\ Len(nx) = n + 1
      /\ \A m \in 1 .. n : nx[m] = lv[m]
      /\ nx[n + 1] = s
  BY <1>1, AppendProperties
<1>3. DOMAIN nx = 1 .. n + 1
  <2> HIDE DEF nx
  <2> QED  BY <1>2, LenProperties
<1> HIDE DEF nx
<1>4. \A m \in DOMAIN nx : m = n + 1 \/ m \in DOMAIN lv
  BY <1>1, <1>3
<1>5. n + 1 \in DOMAIN nx /\ \A m \in DOMAIN lv : m \in DOMAIN nx
  BY <1>1, <1>3
<1>6. RunsOf(nx) = RunsOf(lv) \cup Range(s)
  BY <1>1, <1>2, <1>4, <1>5 DEF RunsOf
<1>7. \A m \in DOMAIN nx : Descending(nx[m])
  BY <1>1, <1>2, <1>4 DEF Whole
<1>8. \A m, k \in DOMAIN nx : m < k => Over(nx[m], nx[k])
  <2> SUFFICES ASSUME NEW m \in DOMAIN nx, NEW k \in DOMAIN nx, m < k PROVE Over(nx[m], nx[k])
    OBVIOUS
  <2>1. m \in DOMAIN lv
    BY <1>1, <1>3
  <2>2. CASE k = n + 1
    BY <1>1, <1>2, <2>1, <2>2
  <2>3. CASE k \in DOMAIN lv
    BY <1>1, <1>2, <2>1, <2>3 DEF Whole
  <2> QED  BY <1>4, <2>2, <2>3
<1>9. \A r \in RunsOf(nx) : Sound(r)
  BY <1>6 DEF Whole
<1>10. Whole(nx)
  BY <1>1, <1>2, <1>7, <1>8, <1>9 DEF Whole
<1> QED  BY <1>1, <1>2, <1>6, <1>10 DEF nx

\* All runs below a level.
LEMMA OlderRuns ==
  ASSUME NEW lv, Whole(lv), NEW l \in DOMAIN lv
  PROVE  LET older == FlattenSeq(SubSeq(lv, l + 1, Len(lv)))
         IN  /\ older \in Seq(Run)
             /\ Range(older) = UNION {Range(lv[m]) : m \in l + 1 .. Len(lv)}
             /\ Range(older) \in SUBSET RunsOf(lv)
<1> DEFINE n == Len(lv)
           sub == SubSeq(lv, l + 1, n)
<1>1. /\ n \in Nat /\ DOMAIN lv = 1 .. n /\ l \in 1 .. n
      /\ \A m \in DOMAIN lv : lv[m] \in Seq(Run) /\ Range(lv[m]) \in SUBSET RunsOf(lv)
  BY WholeLevels
<1>2. \A m \in l + 1 .. n : lv[m] \in Seq(Run) /\ m \in DOMAIN lv
  BY <1>1
<1>3. /\ sub \in Seq(Seq(Run)) /\ Len(sub) = (IF l + 1 <= n THEN n - l ELSE 0)
      /\ \A i \in 1 .. n - l : sub[i] = lv[l + i]
  <2>1. /\ sub \in Seq(Seq(Run)) /\ Len(sub) = (IF l + 1 <= n THEN n - (l + 1) + 1 ELSE 0)
        /\ \A i \in 1 .. n - (l + 1) + 1 : sub[i] = lv[(l + 1) + i - 1]
    BY <1>1, <1>2, SubSeqProperties
  <2>2. n - (l + 1) + 1 = n - l /\ \A i \in 1 .. n - l : (l + 1) + i - 1 = l + i
    BY <1>1
  <2> HIDE DEF sub
  <2> QED  BY <2>1, <2>2
<1> HIDE DEF sub
<1>4. DOMAIN sub = 1 .. n - l
  <2>1. Len(sub) = n - l
    BY <1>1, <1>3
  <2> QED  BY <1>3, <2>1, LenProperties
<1>5. FlattenSeq(sub) \in Seq(Run) /\ Range(FlattenSeq(sub)) = UNION {Range(sub[i]) : i \in DOMAIN sub}
  BY <1>3, FlattenRange
<1>6. UNION {Range(sub[i]) : i \in DOMAIN sub} = UNION {Range(lv[m]) : m \in l + 1 .. n}
  <2>1. \A i \in DOMAIN sub : l + i \in l + 1 .. n /\ sub[i] = lv[l + i]
    BY <1>1, <1>3, <1>4
  <2>2. \A m \in l + 1 .. n : m - l \in DOMAIN sub /\ sub[m - l] = lv[m]
    <3>1. \A m \in l + 1 .. n : m - l \in 1 .. n - l /\ l + (m - l) = m
      BY <1>1
    <3> QED  BY <1>3, <1>4, <3>1
  <2> QED  BY <2>1, <2>2
<1>7. UNION {Range(lv[m]) : m \in l + 1 .. n} \in SUBSET RunsOf(lv)
  BY <1>1, <1>2
<1> QED  BY <1>5, <1>6, <1>7 DEF sub

\* Inputs at the back of a level leave it by their ids, and nothing else does.
LEMMA WithoutBack ==
  ASSUME NEW lv, Whole(lv), NEW l \in DOMAIN lv, NEW front \in Seq(Run), NEW back \in Seq(Run),
         Splits(lv[l], front, back), NEW inputs \in Seq(Run), Len(inputs) = Len(back),
         \A i \in 1 .. Len(back) : inputs[i].id = back[i].id
  PROVE  Without(lv[l], inputs) = front
<1> DEFINE ids == {r.id : r \in Range(inputs)}
           T == {r \in Range(lv[l]) : r.id \notin ids}
<1>1. Len(back) \in Nat /\ DOMAIN back = 1 .. Len(back) /\ DOMAIN inputs = 1 .. Len(back)
  BY LenProperties
<1>2. \A x : x \in ids <=> \E q \in Range(back) : x = q.id
  <2>1. \A x : x \in ids <=> \E i \in 1 .. Len(back) : x = inputs[i].id
    BY <1>1 DEF Range
  <2>2. \A x : (\E q \in Range(back) : x = q.id) <=> \E i \in 1 .. Len(back) : x = back[i].id
    BY <1>1 DEF Range
  <2> HIDE DEF ids
  <2>3. \A x : (\E i \in 1 .. Len(back) : x = inputs[i].id) <=> (\E i \in 1 .. Len(back) : x = back[i].id)
    OBVIOUS
  <2> QED  BY <2>1, <2>2, <2>3
<1>3. Over(front, back)
  <2>1. Descending(front \o back)
    BY DEF Whole, Splits
  <2> QED  BY <2>1, DescendingConcat
<1>4. Range(lv[l]) = Range(front) \cup Range(back)
  BY ConcatRange DEF Splits
<1>5. Range(front) \in SUBSET T
  BY <1>2, <1>3, <1>4 DEF Over, Apart
<1>6. Range(back) \cap T = {}
  BY <1>2
<1> HIDE DEF T
<1>7. Those(front \o back, T) = front
  BY <1>5, <1>6, ThoseOfFront
<1> QED  BY <1>7 DEF Without, T, Splits

-----------------------------------------------------------------------------
(* Jobs and what they replace                                              *)

\* A splice's inputs are a run and the middle of the one under it, whose other
\* fragments lie on both sides of all the inputs.
Cut(upper, base, job) ==
    LET mid   == job.inputs[2]
        left  == UNION Range(job.keepLeft)
        right == UNION Range(job.keepRight)
        in    == RunVersions(upper) \cup RunVersions(mid)
    IN  /\ mid \in Run /\ mid.id = base.id /\ job.inputs = <<upper, mid>>
        /\ job.keepLeft \in Seq(Table) /\ Ranged(job.keepLeft)
        /\ job.keepRight \in Seq(Table) /\ Ranged(job.keepRight)
        /\ RunVersions(base) = left \cup RunVersions(mid) \cup right
        /\ Before(left, in) /\ Before(in, right) /\ Before(left, right)

\* What a job replaces is the back of its level.
Fits(lv, job, front, back) ==
    /\ job.kind \in {"tier", "splice", "deepen"}
    /\ job.level \in DOMAIN lv /\ Splits(lv[job.level], front, back)
    /\ job.inputs \in Seq(Run) /\ Len(job.inputs) = Len(back)
    /\ \A i \in 1 .. Len(back) : job.inputs[i].id = back[i].id
    /\ job.kind # "splice" => job.inputs = back
    /\ job.kind # "tier" => job.level = Len(lv)
    /\ job.kind = "tier" =>
          /\ job.level < Len(lv) /\ job.target = job.level + 1
          /\ job.older = FlattenSeq(SubSeq(lv, job.level + 1, Len(lv)))
    /\ job.kind = "splice" =>
          /\ job.older = <<>> /\ Len(back) = 2 /\ Cut(back[1], back[2], job)
Placed(lv, job) == \E front, back \in Seq(Run) : Fits(lv, job, front, back)

\* Runs that come in front of its level, and changes above it, leave a job in
\* its place.
LEMMA PlacedStays ==
  ASSUME NEW lv, Whole(lv), NEW nx, Whole(nx), Len(nx) = Len(lv), NEW job, Placed(lv, job),
         \A m \in DOMAIN lv : job.level < m => nx[m] = lv[m],
         NEW more \in Seq(Run), nx[job.level] = more \o lv[job.level]
  PROVE  Placed(nx, job)
<1>1. PICK front \in Seq(Run), back \in Seq(Run) : Fits(lv, job, front, back)
  BY DEF Placed
<1>2. /\ Len(lv) \in Nat /\ DOMAIN lv = 1 .. Len(lv) /\ DOMAIN nx = 1 .. Len(lv)
      /\ job.level \in DOMAIN lv /\ lv[job.level] = front \o back
  BY <1>1, WholeLevels DEF Fits, Splits
<1> DEFINE f == more \o front
<1>3. f \in Seq(Run) /\ nx[job.level] = f \o back
  <2>1. more \o lv[job.level] = more \o (front \o back)
    BY <1>2
  <2>2. (more \o front) \o back = more \o (front \o back)
    <3>1. Regroups(more, front, back)
      BY ConcatRegroups
    <3> QED  BY <3>1 DEF Regroups
  <2>3. more \o front \in Seq(Run)
    BY ConcatProperties
  <2> QED  BY <2>1, <2>2, <2>3, Zenon
<1>4. SubSeq(nx, job.level + 1, Len(nx)) = SubSeq(lv, job.level + 1, Len(lv))
  <2> DEFINE a == job.level + 1
             n == Len(lv)
             S == Seq(Run)
  <2>0. a \in Int /\ n \in Int /\ \A m \in a .. n : m \in DOMAIN lv /\ nx[m] = lv[m] /\ lv[m] \in S
    <3>1. \A m \in DOMAIN lv : lv[m] \in S
      BY WholeLevels
    <3>2. a \in Int /\ n \in Int /\ \A m \in a .. n : m \in DOMAIN lv /\ job.level < m
      BY <1>2
    <3> HIDE DEF a, n, S
    <3> QED  BY <3>1, <3>2
  <2> HIDE DEF a, n, S
  <2>1. /\ SubSeq(nx, a, n) \in Seq(S)
        /\ Len(SubSeq(nx, a, n)) = (IF a <= n THEN n - a + 1 ELSE 0)
        /\ \A i \in 1 .. n - a + 1 : SubSeq(nx, a, n)[i] = nx[a + i - 1]
    <3>1. \A m \in a .. n : nx[m] \in S
      BY <2>0
    <3> QED  BY <2>0, <3>1, SubSeqProperties
  <2>2. /\ SubSeq(lv, a, n) \in Seq(S)
        /\ Len(SubSeq(lv, a, n)) = (IF a <= n THEN n - a + 1 ELSE 0)
        /\ \A i \in 1 .. n - a + 1 : SubSeq(lv, a, n)[i] = lv[a + i - 1]
    <3>1. \A m \in a .. n : lv[m] \in S
      BY <2>0
    <3> QED  BY <2>0, <3>1, SubSeqProperties
  <2>3. \A i \in 1 .. n - a + 1 : a + i - 1 \in a .. n
    BY <2>0
  <2>4. \A i \in 1 .. Len(SubSeq(nx, a, n)) : SubSeq(nx, a, n)[i] = SubSeq(lv, a, n)[i]
    <3>1. 1 .. Len(SubSeq(nx, a, n)) \in SUBSET (1 .. n - a + 1)
      BY <2>0, <2>1
    <3> QED  BY <2>0, <2>1, <2>2, <2>3, <3>1
  <2>5. SubSeq(nx, a, n) = SubSeq(lv, a, n)
    BY <2>1, <2>2, <2>4, SeqEqual
  <2> QED  BY <2>5 DEF a, n
<1> HIDE DEF f
<1>5. Fits(nx, job, f, back)
  BY <1>1, <1>2, <1>3, <1>4 DEF Fits, Splits
<1> QED  BY <1>3, <1>5 DEF Placed

\* Of two fragments of a run, the one with the smaller bound comes first.
LEMMA FragmentOrder ==
  ASSUME Keys \in SUBSET Int, IsFiniteSet(Keys), NEW ts \in Seq(Table), Ranged(ts),
         NEW t \in Range(ts), NEW u \in Range(ts),
         MaxKey(t) < MaxKey(u) \/ MinKey(t) < MinKey(u)
  PROVE  Before(t, u)
<1>1. Len(ts) \in Nat /\ DOMAIN ts = 1 .. Len(ts) /\ \A i \in DOMAIN ts : ts[i] \in Table
  BY LenProperties, ElementOfSeq
<1>2. PICK i \in DOMAIN ts, j \in DOMAIN ts : t = ts[i] /\ u = ts[j]
  BY DEF Range
<1>3. t \in Table /\ u \in Table
  BY <1>1, <1>2
<1>4. /\ MinKey(t) \in Int /\ MaxKey(t) \in Int
      /\ \E v \in t : v.key = MinKey(t)
      /\ \E v \in t : v.key = MaxKey(t)
  BY <1>3, KeyBounds
<1>5. /\ MinKey(u) \in Int /\ MaxKey(u) \in Int
      /\ \E v \in u : v.key = MinKey(u)
      /\ \E v \in u : v.key = MaxKey(u)
  BY <1>3, KeyBounds
<1>6. ~(j < i)
  <2> SUFFICES ASSUME j < i PROVE FALSE
    OBVIOUS
  <2>1. Before(u, t)
    BY <1>2 DEF Ranged
  <2>2. MinKey(u) < MinKey(t) /\ MaxKey(u) < MaxKey(t)
    BY <1>4, <1>5, <2>1 DEF Before
  <2> QED  BY <1>4, <1>5, <2>2
<1>7. i # j
  BY <1>2, <1>4, <1>5
<1>8. i < j
  BY <1>1, <1>6, <1>7
<1> QED  BY <1>2, <1>8 DEF Ranged

\* The fragments a splice leaves out lie on both sides of those it takes.
LEMMA SpliceCuts ==
  ASSUME Keys \in SUBSET Int, IsFiniteSet(Keys), Whole(levels), NEW upper \in Run, Sound(upper),
         Last(levels[LastLevel]) \in Run, Sound(Last(levels[LastLevel]))
  PROVE  Cut(upper, Last(levels[LastLevel]), SpliceOf(upper))
<1> DEFINE base == Last(levels[LastLevel])
           U == RunVersions(upper)
           lo == MinKey(U)
           hi == MaxKey(U)
           tables == Range(base.tables)
           left == {t \in tables : MaxKey(t) < lo}
           right == {t \in tables : MinKey(t) > hi}
           mids == tables \ (left \cup right)
           kl == Those(base.tables, left)
           kr == Those(base.tables, right)
           mt == Those(base.tables, mids)
           mid == [base EXCEPT !.tables = mt]
           job == SpliceOf(upper)
<1>1. job = [kind |-> "splice", level |-> LastLevel, target |-> LastLevel,
             inputs |-> <<upper, mid>>, older |-> <<>>, keepLeft |-> kl, keepRight |-> kr]
  BY DEF SpliceOf
<1>2. /\ base \in Run /\ base.tables \in Seq(Table) /\ Ranged(base.tables)
      /\ tables \in SUBSET Table
  BY RangeOfSeq DEF Run, Sound
<1>0. \A T : /\ Those(base.tables, T) \in Seq(Table) /\ Ranged(Those(base.tables, T))
            /\ Range(Those(base.tables, T)) = tables \cap T
  <2> DEFINE b == base.tables
  <2>1. b \in Seq(Table) /\ Ranged(b)
    BY <1>2
  <2> HIDE DEF b
  <2> SUFFICES ASSUME NEW T
               PROVE  /\ Those(b, T) \in Seq(Table) /\ Ranged(Those(b, T))
                      /\ Range(Those(b, T)) = Range(b) \cap T
    BY DEF b
  <2> DEFINE u == Those(b, T)
  <2>2. u \in Seq(Table) /\ Range(u) = Range(b) \cap T
    BY <2>1, ThoseInOrder
  <2>3. Ranged(u)
    BY <2>1, ThoseRanged
  <2> QED  BY <2>2, <2>3
<1>3. U \in Table
  <2>1. upper.tables \in Seq(Table) /\ upper.tables # <<>>
    BY DEF Run, Sound
  <2>2. Len(upper.tables) \in Nat \ {0} /\ DOMAIN upper.tables = 1 .. Len(upper.tables)
    BY <2>1, EmptySeq, LenProperties
  <2>3. upper.tables[1] \in Table /\ upper.tables[1] \in Range(upper.tables)
    BY <2>1, <2>2, ElementOfSeq DEF Range
  <2>4. Range(upper.tables) \in SUBSET Table
    BY <2>1, RangeOfSeq
  <2> QED  BY <2>3, <2>4 DEF RunVersions, Table
<1>4. /\ lo \in Int /\ hi \in Int
      /\ \A v \in U : v.key \in Int /\ lo <= v.key /\ v.key <= hi
      /\ \E v \in U : v.key = lo
  <2> HIDE DEF U
  <2> QED  BY <1>3, KeyBounds
<1>5. \A t \in tables : /\ MinKey(t) \in Int /\ MaxKey(t) \in Int
                        /\ \A v \in t : v.key \in Int /\ MinKey(t) <= v.key /\ v.key <= MaxKey(t)
  BY <1>2, KeyBounds
<1>6. lo <= hi
  BY <1>4
<1>7. \A t, u \in tables : MaxKey(t) < MaxKey(u) \/ MinKey(t) < MinKey(u) => Before(t, u)
  BY <1>2, FragmentOrder
<1> HIDE DEF base, U, lo, hi, tables
<1>8. /\ left \in SUBSET tables /\ right \in SUBSET tables /\ mids \in SUBSET tables
      /\ tables = left \cup mids \cup right
  OBVIOUS
<1>9. \A t \in left : \A v \in t : v.key \in Int /\ v.key < lo
  BY <1>4, <1>5
<1>10. \A t \in right : \A v \in t : v.key \in Int /\ hi < v.key
  BY <1>4, <1>5
<1>11. \A t \in left, u \in mids : Before(t, u)
  BY <1>4, <1>5, <1>7
<1>12. \A t \in mids, u \in right : Before(t, u)
  BY <1>4, <1>5, <1>7
<1> HIDE DEF left, right, mids
<1>13. kl \in Seq(Table) /\ Ranged(kl) /\ Range(kl) = left
  BY <1>0, <1>8
<1>14. kr \in Seq(Table) /\ Ranged(kr) /\ Range(kr) = right
  BY <1>0, <1>8
<1>15. mt \in Seq(Table) /\ Range(mt) = mids
  BY <1>0, <1>8
<1> HIDE DEF kl, kr, mt
<1>16. mid \in Run /\ mid.id = base.id /\ mid.tables = mt
  BY <1>2, <1>15 DEF Run
<1>17. RunVersions(mid) = UNION mids /\ RunVersions(base) = UNION tables
  BY <1>15, <1>16 DEF RunVersions, tables
<1> HIDE DEF mid
<1>18. RunVersions(base) = (UNION left) \cup (UNION mids) \cup (UNION right)
  BY <1>8, <1>17
<1>19. Before(UNION left, U \cup UNION mids)
  BY <1>4, <1>9, <1>11 DEF Before
<1>20. Before(U \cup UNION mids, UNION right)
  BY <1>4, <1>10, <1>12 DEF Before
<1>21. Before(UNION left, UNION right)
  BY <1>4, <1>6, <1>9, <1>10 DEF Before
<1>22. job.inputs = <<upper, mid>> /\ job.inputs[2] = mid /\ job.keepLeft = kl /\ job.keepRight = kr
  BY <1>1
<1> HIDE DEF job
<1>23. Cut(upper, base, job)
  BY <1>13, <1>14, <1>16, <1>17, <1>18, <1>19, <1>20, <1>21, <1>22 DEF Cut, U
<1> QED  BY <1>23 DEF job, base

\* A splice when it is picked.
LEMMA SpliceFits ==
  ASSUME Keys \in SUBSET Int, IsFiniteSet(Keys), Whole(levels), Len(levels[LastLevel]) >= 2
  PROVE  Placed(levels, PickSplice) /\ PickSplice.kind = "splice" /\ PickSplice.level = LastLevel
<1> DEFINE s == levels[LastLevel]
           n == Len(s)
           upper == s[n - 1]
           base == s[n]
           front == SubSeq(s, 1, n - 2)
           back == SubSeq(s, n - 1, n)
           job == SpliceOf(upper)
<1>1. LastLevel \in DOMAIN levels /\ DOMAIN levels = 1 .. LastLevel /\ LastLevel \in Nat
  BY WholeLevels DEF LastLevel
<1>2. /\ s \in Seq(Run) /\ Range(s) \in SUBSET RunsOf(levels)
      /\ n \in Nat /\ DOMAIN s = 1 .. n /\ n >= 2
  BY <1>1, WholeLevels
<1>3. \A i \in 1 .. n : s[i] \in Run /\ Sound(s[i])
  <2>1. \A i \in 1 .. n : s[i] \in Run /\ s[i] \in Range(s)
    BY <1>2, ElementOfSeq DEF Range
  <2> QED  BY <1>2, <2>1 DEF Whole
<1>4. Last(s) = base
  BY DEF Last
<1>5. upper \in Run /\ Sound(upper) /\ base \in Run /\ Sound(base)
  <2>1. n - 1 \in 1 .. n /\ n \in 1 .. n
    BY <1>2
  <2> HIDE DEF s, n
  <2> QED  BY <1>3, <2>1
<1>6. Cut(upper, base, job)
  <2> HIDE DEF upper, base
  <2> QED  BY <1>4, <1>5, SpliceCuts
<1>7. /\ front \in Seq(Run) /\ back \in Seq(Run) /\ s = front \o back
      /\ Len(back) = 2 /\ back[1] = upper /\ back[2] = base
  <2> HIDE DEF s, n
  <2>1. front \o back = s
    <3>1. front \o back = SubSeq(s, 1, n)
      <4>1. 1 \in 1 .. n + 1 /\ n - 2 \in 1 - 1 .. n /\ n \in n - 2 .. n /\ n - 2 + 1 = n - 1
        BY <1>2
      <4>2. SubSeq(s, 1, n - 2) \o SubSeq(s, n - 2 + 1, n) = SubSeq(s, 1, n)
        BY <1>2, <4>1, ConcatAdjacentSubSeq DEF n
      <4> QED  BY <4>1, <4>2
    <3> QED  BY <1>2, <3>1, SubSeqFull DEF n
  <2>2. front \in Seq(Run)
    <3>1. \A i \in 1 .. n - 2 : s[i] \in Run
      BY <1>2, <1>3
    <3> QED  BY <1>2, <3>1, SubSeqProperties
  <2>3. /\ back \in Seq(Run) /\ Len(back) = n - (n - 1) + 1
        /\ \A i \in 1 .. n - (n - 1) + 1 : back[i] = s[n - 1 + i - 1]
    <3>1. \A i \in n - 1 .. n : s[i] \in Run
      BY <1>2, <1>3
    <3> QED  BY <1>2, <3>1, SubSeqProperties
  <2>4. n - (n - 1) + 1 = 2 /\ n - 1 + 1 - 1 = n - 1 /\ n - 1 + 2 - 1 = n /\ 1 \in 1 .. 2 /\ 2 \in 1 .. 2
    BY <1>2
  <2> HIDE DEF back, front
  <2> QED  BY <2>1, <2>2, <2>3, <2>4
<1>8. /\ job.kind = "splice" /\ job.level = LastLevel /\ job.older = <<>>
      /\ PickSplice = job
  BY DEF SpliceOf, PickSplice
<1>9. job.inputs \in Seq(Run) /\ Len(job.inputs) = 2 /\ job.inputs[1] = upper /\ job.inputs[2].id = base.id
  <2> HIDE DEF job, upper, base
  <2>1. job.inputs = <<upper, job.inputs[2]>> /\ job.inputs[2] \in Run /\ job.inputs[2].id = base.id
    BY <1>6 DEF Cut
  <2> DEFINE m == job.inputs[2]
  <2>2. m \in Run /\ job.inputs = <<upper, m>>
    BY <2>1
  <2> HIDE DEF m
  <2>3. <<upper, m>> \in Seq(Run) /\ Len(<<upper, m>>) = 2 /\ <<upper, m>>[1] = upper
    BY <1>5, <2>2
  <2> QED  BY <2>1, <2>2, <2>3
<1> HIDE DEF job, upper, base, front, back
<1>10. \A i \in 1 .. Len(back) : job.inputs[i].id = back[i].id
  <2>1. \A i \in 1 .. 2 : i = 1 \/ i = 2
    OBVIOUS
  <2> QED  BY <1>7, <1>9, <2>1
<1>11. Fits(levels, job, front, back)
  BY <1>1, <1>6, <1>7, <1>8, <1>9, <1>10 DEF Fits, Splits, LastLevel, s
<1> QED  BY <1>7, <1>8, <1>11 DEF Placed

-----------------------------------------------------------------------------
(* What installing a job does to the tree                                  *)

\* The versions of a set of runs.
Holds(R) == UNION {RunVersions(r) : r \in R}

\* Runs hold what each of them holds.
LEMMA HoldsUnion ==
  ASSUME NEW A, NEW B
  PROVE  Holds(A \cup B) = Holds(A) \cup Holds(B)
BY DEF Holds

\* Newer runs hold newer versions.
LEMMA HoldsNewer ==
  ASSUME NEW A, NEW B, \A a \in A, b \in B : Newer(RunVersions(a), RunVersions(b))
  PROVE  Newer(Holds(A), Holds(B))
BY DEF Holds, Newer

\* Runs hold versions.
LEMMA HoldsVersions ==
  ASSUME NEW A \in SUBSET Run
  PROVE  Holds(A) \in SUBSET Version
<1> SUFFICES ASSUME NEW r \in A PROVE RunVersions(r) \in SUBSET Version
  BY DEF Holds
<1>1. r.tables \in Seq(Table)
  BY DEF Run
<1>2. Range(r.tables) \in SUBSET Table
  BY <1>1, RangeOfSeq
<1> QED  BY <1>2 DEF RunVersions, Table

\* The tree without a job's inputs.
LEMMA InputsTaken ==
  ASSUME NEW lv, Whole(lv), NEW job, NEW front \in Seq(Run), NEW back \in Seq(Run),
         Fits(lv, job, front, back), NEW rest,
         rest = WithLevel(lv, job.level, Without(lv[job.level], job.inputs))
  PROVE  /\ Whole(rest) /\ Len(rest) = Len(lv) /\ DOMAIN rest = DOMAIN lv
         /\ rest[job.level] = front
         /\ \A m \in DOMAIN lv : m # job.level => rest[m] = lv[m]
         /\ RunsOf(lv) = RunsOf(rest) \cup Range(back)
         /\ Descending(back)
         /\ \A m \in DOMAIN lv : m <= job.level => Over(rest[m], back)
         /\ \A m \in DOMAIN lv : job.level < m => Over(back, lv[m])
<1> DEFINE l == job.level
           inputs == job.inputs
<1>1. /\ l \in DOMAIN lv /\ Splits(lv[l], front, back) /\ inputs \in Seq(Run)
      /\ Len(inputs) = Len(back) /\ \A i \in 1 .. Len(back) : inputs[i].id = back[i].id
  BY DEF Fits
<1>2. rest = WithLevel(lv, l, Without(lv[l], inputs))
  OBVIOUS
<1> HIDE DEF l, inputs
<1>3. Without(lv[l], inputs) = front
  BY <1>1, WithoutBack
<1>4. rest = WithLevel(lv, l, front)
  BY <1>2, <1>3
<1>5. /\ Whole(rest) /\ Len(rest) = Len(lv) /\ DOMAIN rest = DOMAIN lv
      /\ rest[l] = front /\ \A m \in DOMAIN lv : m # l => rest[m] = lv[m]
      /\ RunsOf(lv) = RunsOf(rest) \cup Range(back)
      /\ Descending(back)
      /\ \A m \in DOMAIN lv : m <= l => Over(rest[m], back)
      /\ \A m \in DOMAIN lv : l < m => Over(back, lv[m])
  BY <1>1, <1>4, RemoveBack
<1> QED  BY <1>5 DEF l

\* The run an install adds: none when nothing is left.
LEMMA RunOfTables ==
  ASSUME NEW id \in Nat, NEW ts \in Seq(Table), Ranged(ts), ts # <<>>
  PROVE  LET r == [id |-> id, tables |-> ts]
         IN  r \in Run /\ Sound(r) /\ r.id = id /\ RunVersions(r) = UNION Range(ts)
BY DEF Run, Sound, RunVersions

\* The tree before and after an install: the inputs' versions are replaced by
\* the kept ones, between the newer ones N and the older ones O.
Replaces(nx, job, K) ==
    LET I == InputVersions(job)
    IN  \E N, O \in SUBSET Version :
          /\ Tree(levels) = N \cup I \cup O /\ Tree(nx) = N \cup K \cup O
          /\ Newer(N, I) /\ Newer(N, O) /\ Newer(I, O)
          /\ job.kind = "tier" => O = Contents(job.older)
          /\ job.kind = "splice" => \A v \in I, w \in O : v.key # w.key

\* Levels below the changed ones are as they were, and a level that got a run
\* got it in front.
Around(nx, job) ==
    /\ Whole(nx) /\ Len(nx) = Len(levels)
    /\ \A q \in RunsOf(nx) : q.id = job.runId \/ \E p \in RunsOf(levels) : p.id = q.id
    /\ \A m \in DOMAIN levels : job.level < m =>
          \E more \in Seq(Run) : nx[m] = more \o levels[m]
    /\ \A m \in DOMAIN levels : job.level + 1 < m => nx[m] = levels[m]

\* The output of a tier merge, at the front of its target level, replaces its inputs and
\* leaves the tree in order (install of a tier job).
LEMMA TierInstalls ==
  ASSUME Whole(levels), NEW job, NEW front \in Seq(Run), NEW back \in Seq(Run),
         Fits(levels, job, front, back), job.kind = "tier",
         job.runId \in Nat, \A q \in RunsOf(levels) : q.id # job.runId,
         NEW ts \in Seq(Table), Ranged(ts), UNION Range(ts) \in SUBSET InputVersions(job)
  PROVE  LET nx == Install(job, ts) IN Around(nx, job) /\ Replaces(nx, job, UNION Range(ts))
<1> DEFINE l == job.level
           n == Len(levels)
           K == UNION Range(ts)
           I == InputVersions(job)
           rest == WithLevel(levels, l, Without(levels[l], job.inputs))
           A == UNION {Range(rest[m]) : m \in 1 .. l}
           B == UNION {Range(rest[m]) : m \in l + 1 .. n}
           nx == Install(job, ts)
<1>1. /\ l \in DOMAIN levels /\ DOMAIN levels = 1 .. n /\ n \in Nat /\ l \in Nat /\ l < n
      /\ Splits(levels[l], front, back) /\ job.target = l + 1 /\ job.inputs = back
      /\ job.older = FlattenSeq(SubSeq(levels, l + 1, n))
      /\ l + 1 \in DOMAIN levels
  BY WholeLevels DEF Fits
<1>4. nx = IF ts = <<>> THEN WithLevel(rest, l + 1, <<>> \o rest[l + 1])
           ELSE WithLevel(rest, l + 1, <<[id |-> job.runId, tables |-> ts]>> \o rest[l + 1])
  BY <1>1 DEF Install, WithLevel
<1>3. /\ Whole(rest) /\ Len(rest) = n /\ DOMAIN rest = DOMAIN levels
      /\ rest[l] = front /\ \A m \in DOMAIN levels : m # l => rest[m] = levels[m]
      /\ RunsOf(levels) = RunsOf(rest) \cup Range(back)
      /\ \A m \in DOMAIN levels : m <= l => Over(rest[m], back)
      /\ \A m \in DOMAIN levels : l < m => Over(back, levels[m])
  <2> HIDE DEF nx, K, I, A, B
  <2>1. rest = WithLevel(levels, job.level, Without(levels[job.level], job.inputs))
    OBVIOUS
  <2> HIDE DEF rest
  <2> QED  BY <2>1, InputsTaken
<1> HIDE DEF nx, rest
<1>5. \A m \in l + 1 .. n : m \in DOMAIN levels /\ rest[m] = levels[m] /\ l < m
  <2>1. \A m \in l + 1 .. n : m \in DOMAIN levels /\ m # l /\ l < m
    BY <1>1
  <2> QED  BY <1>3, <2>1
<1>6. \A m \in 1 .. l : m \in DOMAIN levels /\ m <= l
  BY <1>1
<1>7. RunsOf(rest) = A \cup B
  <2>1. DOMAIN levels = (1 .. l) \cup (l + 1 .. n)
    BY <1>1
  <2> QED  BY <1>3, <2>1 DEF RunsOf
<1>8. I = Holds(Range(back))
  BY <1>1 DEF InputVersions, Holds
<1>9. /\ Range(back) \in SUBSET RunsOf(levels) /\ A \in SUBSET RunsOf(levels)
      /\ B \in SUBSET RunsOf(levels) /\ RunsOf(rest) \in SUBSET RunsOf(levels)
      /\ RunsOf(levels) \in SUBSET Run
  BY <1>3, <1>7, WholeLevels
<1>10. \A a \in A, b \in Range(back) : Newer(RunVersions(a), RunVersions(b))
  BY <1>3, <1>6 DEF Over, Apart
<1>11. \A a \in Range(back), b \in B : Newer(RunVersions(a), RunVersions(b))
  BY <1>3, <1>5 DEF Over, Apart
<1>12. \A a \in A, b \in B : Newer(RunVersions(a), RunVersions(b))
  <2>1. \A m \in 1 .. l, k \in l + 1 .. n : Over(rest[m], rest[k])
    <3> SUFFICES ASSUME NEW m \in 1 .. l, NEW k \in l + 1 .. n PROVE Over(rest[m], rest[k])
      OBVIOUS
    <3>1. m \in DOMAIN rest /\ k \in DOMAIN rest /\ m < k
      BY <1>1, <1>3
    <3> QED  BY <1>3, <3>1 DEF Whole
  <2> QED  BY <2>1 DEF Over, Apart
<1> DEFINE N == Holds(A)
           O == Holds(B)
<1>13. Newer(N, I) /\ Newer(I, O) /\ Newer(N, O)
  <2> HIDE DEF A, B
  <2> QED  BY <1>8, <1>10, <1>11, <1>12, HoldsNewer
<1>14. Tree(rest) = N \cup O /\ Tree(levels) = N \cup I \cup O
  <2>1. Tree(rest) = Holds(A \cup B) /\ Tree(levels) = Holds((A \cup B) \cup Range(back))
    BY <1>3, <1>7 DEF Tree, Holds
  <2> HIDE DEF A, B
  <2>2. /\ Holds(A \cup B) = Holds(A) \cup Holds(B)
        /\ Holds((A \cup B) \cup Range(back)) = Holds(A \cup B) \cup Holds(Range(back))
    BY HoldsUnion
  <2> QED  BY <1>8, <2>1, <2>2
<1>15. N \in SUBSET Version /\ O \in SUBSET Version /\ I \in SUBSET Version
  <2> HIDE DEF A, B
  <2> QED  BY <1>8, <1>9, HoldsVersions
<1>16. O = Contents(job.older)
  <2>1. Range(job.older) = UNION {Range(levels[m]) : m \in l + 1 .. n}
    BY <1>1, OlderRuns
  <2>2. Range(job.older) = B
    BY <1>5, <2>1
  <2> HIDE DEF B
  <2> QED  BY <2>2 DEF Contents, Holds
\* The levels after the install.
<1> DEFINE After == /\ Whole(nx) /\ Len(nx) = n /\ Tree(nx) = N \cup K \cup O
                    /\ \A q \in RunsOf(nx) : q.id = job.runId \/ q \in RunsOf(levels)
                    /\ \A m \in DOMAIN levels : m # l + 1 => nx[m] = rest[m]
                    /\ \E more \in Seq(Run) : nx[l + 1] = more \o levels[l + 1]
<1>17. ASSUME After PROVE Around(nx, job) /\ Replaces(nx, job, K)
  <2> HIDE DEF N, O, A, B, I, K
  <2>1. Replaces(nx, job, K)
    BY <1>13, <1>14, <1>15, <1>16, <1>17 DEF Replaces, I
  <2>2. \A m \in DOMAIN levels : l + 1 < m => nx[m] = levels[m]
    <3> SUFFICES ASSUME NEW m \in DOMAIN levels, l + 1 < m PROVE nx[m] = levels[m]
      OBVIOUS
    <3>1. m # l + 1 /\ m # l
      BY <1>1
    <3> QED  BY <1>3, <1>17, <3>1
  <2>3. \A m \in DOMAIN levels : l < m => \E more \in Seq(Run) : nx[m] = more \o levels[m]
    <3> SUFFICES ASSUME NEW m \in DOMAIN levels, l < m
                 PROVE  \E more \in Seq(Run) : nx[m] = more \o levels[m]
      OBVIOUS
    <3>1. CASE m = l + 1
      BY <1>17, <3>1
    <3>2. CASE m # l + 1
      <4>1. l + 1 < m
        BY <1>1, <3>2
      <4>2. levels[m] \in Seq(Run) /\ <<>> \in Seq(Run)
        BY WholeLevels, EmptySeq
      <4>3. nx[m] = <<>> \o levels[m]
        BY <2>2, <4>1, <4>2, ConcatEmptySeq
      <4> QED  BY <4>2, <4>3
    <3> QED  BY <3>1, <3>2
  <2> QED  BY <1>17, <2>1, <2>2, <2>3 DEF Around
<1>18. levels[l + 1] \in Seq(Run) /\ rest[l + 1] = levels[l + 1] /\ rest \in Seq(Seq(Run))
  BY <1>1, <1>3, WholeLevels DEF Whole
<1>19. CASE ts = <<>>
  <2>1. nx = WithLevel(rest, l + 1, <<>> \o rest[l + 1])
    BY <1>4, <1>19
  <2>2. <<>> \o rest[l + 1] = rest[l + 1]
    BY <1>18, ConcatEmptySeq
  <2>3. nx = rest
    BY <1>1, <1>18, <2>1, <2>2 DEF WithLevel
  <2>4. K = {}
    BY <1>19 DEF Range
  <2>5. \E more \in Seq(Run) : nx[l + 1] = more \o levels[l + 1]
    <3>1. <<>> \in Seq(Run)
      BY EmptySeq
    <3> QED  BY <1>18, <2>2, <2>3, <3>1
  <2> HIDE DEF K, N, O, A, B, I, l, n
  <2>6. After
    BY <1>3, <1>9, <1>14, <2>3, <2>4, <2>5
  <2> HIDE DEF After
  <2> QED  BY <1>17, <2>6 DEF K, nx
<1>20. CASE ts # <<>>
  <2> DEFINE r == [id |-> job.runId, tables |-> ts]
  <2>1. r \in Run /\ Sound(r) /\ r.id = job.runId /\ RunVersions(r) = K
    BY <1>20, RunOfTables
  <2>2. nx = WithLevel(rest, l + 1, InFront(r, rest[l + 1]))
    BY <1>4, <1>20 DEF InFront
  <2> HIDE DEF r, K
  <2>3. \A q \in RunsOf(rest) : q.id # r.id
    BY <1>9, <2>1
  <2>4. \A m \in DOMAIN rest : m < l + 1 => \A q \in Range(rest[m]) : Newer(RunVersions(q), RunVersions(r))
    <3> SUFFICES ASSUME NEW m \in DOMAIN rest, m < l + 1, NEW q \in Range(rest[m])
                 PROVE  Newer(RunVersions(q), K)
      BY <2>1
    <3>1. m \in 1 .. l
      BY <1>1, <1>3
    <3>2. q \in A
      BY <3>1
    <3>3. RunVersions(q) \in SUBSET N
      BY <3>2 DEF Holds
    <3> HIDE DEF N, I
    <3>4. K \in SUBSET I
      BY DEF K, I
    <3> QED  BY <1>13, <3>3, <3>4, NewerSubsets
  <2>5. \A m \in DOMAIN rest : l + 1 <= m => \A q \in Range(rest[m]) : Newer(RunVersions(r), RunVersions(q))
    <3> SUFFICES ASSUME NEW m \in DOMAIN rest, l + 1 <= m, NEW q \in Range(rest[m])
                 PROVE  Newer(K, RunVersions(q))
      BY <2>1
    <3>1. m \in l + 1 .. n
      BY <1>1, <1>3
    <3>2. q \in B
      BY <3>1
    <3>3. RunVersions(q) \in SUBSET O
      BY <3>2 DEF Holds
    <3> HIDE DEF O, I
    <3>4. K \in SUBSET I
      BY DEF K, I
    <3> QED  BY <1>13, <3>3, <3>4, NewerSubsets
  <2>6. l + 1 \in DOMAIN rest
    BY <1>1, <1>3
  <2>7. /\ Whole(nx) /\ Len(nx) = n
        /\ nx[l + 1] = InFront(r, rest[l + 1]) /\ \A m \in DOMAIN rest : m # l + 1 => nx[m] = rest[m]
        /\ RunsOf(nx) = RunsOf(rest) \cup {r}
    <3> DEFINE t == l + 1
    <3> HIDE DEF l, n, N, O, A, B, I, After
    <3>1. /\ Whole(rest) /\ t \in DOMAIN rest /\ r \in Run /\ Sound(r)
          /\ \A q \in RunsOf(rest) : q.id # r.id
          /\ nx = WithLevel(rest, t, InFront(r, rest[t]))
          /\ \A m \in DOMAIN rest : m < t => \A q \in Range(rest[m]) : Newer(RunVersions(q), RunVersions(r))
          /\ \A m \in DOMAIN rest : t <= m => \A q \in Range(rest[m]) : Newer(RunVersions(r), RunVersions(q))
      BY <1>3, <2>1, <2>2, <2>3, <2>4, <2>5, <2>6
    <3> HIDE DEF t
    <3>2. /\ Whole(nx) /\ Len(nx) = Len(rest)
          /\ nx[t] = InFront(r, rest[t]) /\ \A m \in DOMAIN rest : m # t => nx[m] = rest[m]
          /\ RunsOf(nx) = RunsOf(rest) \cup {r}
      BY <3>1, PutFront
    <3> QED  BY <1>3, <3>2 DEF t
  <2>8. Tree(nx) = N \cup K \cup O
    <3> HIDE DEF N, O
    <3>1. Tree(nx) = Tree(rest) \cup RunVersions(r)
      BY <2>7 DEF Tree
    <3> QED  BY <1>14, <2>1, <3>1
  <2>9. \E more \in Seq(Run) : nx[l + 1] = more \o levels[l + 1]
    <3>1. <<r>> \in Seq(Run)
      BY <2>1
    <3> QED  BY <1>18, <2>7, <3>1 DEF InFront
  <2>10. \A q \in RunsOf(nx) : q.id = job.runId \/ q \in RunsOf(levels)
    BY <1>9, <2>1, <2>7
  <2> HIDE DEF N, O, A, B, I, l, n
  <2>11. After
    BY <1>3, <2>7, <2>8, <2>9, <2>10
  <2> HIDE DEF After
  <2> QED  BY <1>17, <2>11 DEF K, nx
<1> QED  BY <1>19, <1>20

\* Three stretches of fragments, each before the next.
Stretches(a, b, c) == a \o b \o c
InTurn(a, b, c) ==
    /\ a \in Seq(Table) /\ b \in Seq(Table) /\ c \in Seq(Table)
    /\ Ranged(a) /\ Ranged(b) /\ Ranged(c)
    /\ Before(UNION Range(a), UNION Range(b)) /\ Before(UNION Range(b), UNION Range(c))
    /\ Before(UNION Range(a), UNION Range(c))

\* Fragments before, within and after a range are in key order.
LEMMA StretchesRanged ==
  ASSUME NEW a, NEW b, NEW c, InTurn(a, b, c)
  PROVE  /\ Stretches(a, b, c) \in Seq(Table) /\ Ranged(Stretches(a, b, c))
         /\ UNION Range(Stretches(a, b, c))
              = (UNION Range(a)) \cup (UNION Range(b)) \cup UNION Range(c)
<1>0. /\ a \in Seq(Table) /\ b \in Seq(Table) /\ c \in Seq(Table)
      /\ Ranged(a) /\ Ranged(b) /\ Ranged(c)
      /\ Before(UNION Range(a), UNION Range(b)) /\ Before(UNION Range(b), UNION Range(c))
      /\ Before(UNION Range(a), UNION Range(c))
  BY DEF InTurn
<1> DEFINE ab == a \o b
           ts == ab \o c
<1>1. ab \in Seq(Table) /\ Range(ab) = Range(a) \cup Range(b)
  BY <1>0, ConcatRange, ConcatProperties
<1>2. Ranged(ab)
  <2>1. \A A \in Range(a), B \in Range(b) : Before(A, B)
    BY <1>0 DEF Before
  <2> QED  BY <1>0, <2>1, RangedConcat
<1> HIDE DEF ab
<1>3. ts \in Seq(Table) /\ Range(ts) = Range(ab) \cup Range(c)
  BY <1>0, <1>1, ConcatRange, ConcatProperties
<1>4. Ranged(ts)
  <2>1. \A A \in Range(ab), B \in Range(c) : Before(A, B)
    BY <1>0, <1>1 DEF Before
  <2> QED  BY <1>0, <1>1, <1>2, <2>1, RangedConcat
<1>5. UNION Range(ts) = (UNION Range(a)) \cup (UNION Range(b)) \cup UNION Range(c)
  <2> HIDE DEF ts
  <2>1. Range(ts) = Range(a) \cup Range(b) \cup Range(c)
    BY <1>1, <1>3
  <2>2. \A x : x \in UNION Range(ts) <=>
               x \in UNION Range(a) \/ x \in UNION Range(b) \/ x \in UNION Range(c)
    BY <2>1
  <2> QED  BY <2>2
<1> QED  BY <1>3, <1>4, <1>5 DEF ab, Stretches

\* The output of a splice, between the base fragments it left alone, replaces its two
\* inputs and leaves the tree in order (install of a splice job).
LEMMA SpliceInstalls ==
  ASSUME Whole(levels), NEW job, NEW front \in Seq(Run), NEW back \in Seq(Run),
         Fits(levels, job, front, back), job.kind = "splice",
         job.runId \in Nat, \A q \in RunsOf(levels) : q.id # job.runId,
         NEW ts \in Seq(Table), Ranged(ts), UNION Range(ts) \in SUBSET InputVersions(job)
  PROVE  LET nx == Install(job, ts) IN Around(nx, job) /\ Replaces(nx, job, UNION Range(ts))
<1> DEFINE l == job.level
           n == Len(levels)
           K == UNION Range(ts)
           I == InputVersions(job)
           left == UNION Range(job.keepLeft)
           right == UNION Range(job.keepRight)
           rest == WithLevel(levels, l, Without(levels[l], job.inputs))
           all == job.keepLeft \o ts \o job.keepRight
           N == Tree(rest)
           nx == Install(job, ts)
<1>1. /\ l \in DOMAIN levels /\ DOMAIN levels = 1 .. n /\ n \in Nat /\ l = n
      /\ Splits(levels[l], front, back) /\ Len(back) = 2 /\ Cut(back[1], back[2], job)
  BY WholeLevels DEF Fits
<1>2. nx = IF all = <<>> THEN WithLevel(rest, l, rest[l] \o <<>>)
           ELSE WithLevel(rest, l, rest[l] \o <<[id |-> job.runId, tables |-> all]>>)
  BY DEF Install, WithLevel
<1>3. /\ Whole(rest) /\ Len(rest) = n /\ DOMAIN rest = DOMAIN levels
      /\ rest[l] = front /\ \A m \in DOMAIN levels : m # l => rest[m] = levels[m]
      /\ RunsOf(levels) = RunsOf(rest) \cup Range(back)
      /\ \A m \in DOMAIN levels : m <= l => Over(rest[m], back)
  <2> HIDE DEF nx, K, I, N, all, left, right
  <2>1. rest = WithLevel(levels, job.level, Without(levels[job.level], job.inputs))
    OBVIOUS
  <2> HIDE DEF rest
  <2> QED  BY <2>1, InputsTaken
<1> HIDE DEF nx, rest
<1>4. /\ job.keepLeft \in Seq(Table) /\ Ranged(job.keepLeft)
      /\ job.keepRight \in Seq(Table) /\ Ranged(job.keepRight)
      /\ job.inputs[2] \in Run /\ job.inputs = <<back[1], job.inputs[2]>>
      /\ RunVersions(back[2]) = left \cup RunVersions(job.inputs[2]) \cup right
      /\ Before(left, RunVersions(back[1]) \cup RunVersions(job.inputs[2]))
      /\ Before(RunVersions(back[1]) \cup RunVersions(job.inputs[2]), right)
      /\ Before(left, right)
  BY <1>1 DEF Cut
<1>5. I = RunVersions(back[1]) \cup RunVersions(job.inputs[2])
  <2> DEFINE u == back[1]
             m == job.inputs[2]
  <2>1. job.inputs = <<u, m>>
    BY <1>4
  <2> HIDE DEF u, m
  <2>2. Range(job.inputs) = {u, m}
    BY <2>1 DEF Range
  <2>3. UNION {RunVersions(r) : r \in {u, m}} = RunVersions(u) \cup RunVersions(m)
    OBVIOUS
  <2> QED  BY <2>2, <2>3 DEF InputVersions, u, m
<1>6. Range(back) = {back[1], back[2]}
  <2>1. DOMAIN back = 1 .. 2
    BY <1>1, LenProperties
  <2>2. 1 .. 2 = {1, 2}
    OBVIOUS
  <2> QED  BY <2>1, <2>2 DEF Range
<1>7. Holds(Range(back)) = I \cup left \cup right
  <2>1. Holds(Range(back)) = RunVersions(back[1]) \cup RunVersions(back[2])
    BY <1>6 DEF Holds
  <2> QED  BY <1>4, <1>5, <2>1
<1>8. Range(back) \in SUBSET RunsOf(levels) /\ RunsOf(rest) \in SUBSET RunsOf(levels)
      /\ RunsOf(levels) \in SUBSET Run
  BY <1>3, WholeLevels
<1>9. N \in SUBSET Version /\ Holds(Range(back)) \in SUBSET Version
  <2>1. N = Holds(RunsOf(rest))
    BY DEF Tree, Holds
  <2> HIDE DEF N
  <2> QED  BY <1>8, <2>1, HoldsVersions
<1>10. left \in SUBSET Version /\ right \in SUBSET Version /\ I \in SUBSET Version
  BY <1>7, <1>9
<1>11. \A q \in RunsOf(rest), b \in Range(back) : Newer(RunVersions(q), RunVersions(b))
  <2> SUFFICES ASSUME NEW m \in DOMAIN rest, NEW q \in Range(rest[m]), NEW b \in Range(back)
               PROVE  Newer(RunVersions(q), RunVersions(b))
    BY DEF RunsOf
  <2>1. m \in DOMAIN levels /\ m <= l
    BY <1>1, <1>3
  <2>2. Over(rest[m], back)
    BY <1>3, <2>1
  <2> QED  BY <2>2 DEF Over, Apart
<1>12. Newer(N, Holds(Range(back)))
  <2>1. N = Holds(RunsOf(rest))
    BY DEF Tree, Holds
  <2> HIDE DEF N
  <2> QED  BY <1>11, <2>1, HoldsNewer
<1>13. Tree(levels) = N \cup I \cup (left \cup right)
  <2>1. Tree(levels) = N \cup Holds(Range(back))
    BY <1>3 DEF Tree, Holds
  <2> HIDE DEF N, I, left, right
  <2> QED  BY <1>7, <2>1
<1>14. \A v \in I, w \in left \cup right : v.key # w.key
  <2>0. \A v \in Version : v.key \in Int
    BY OptionsAssumption DEF Version, OptionsAssumption
  <2> HIDE DEF I, left, right
  <2>1. \A v \in I \cup left \cup right : v.key \in Int
    BY <1>10, <2>0
  <2> QED  BY <1>4, <1>5, <2>1 DEF Before
<1>15. Newer(N, I) /\ Newer(N, left \cup right) /\ Newer(I, left \cup right)
  <2> HIDE DEF N, I, left, right
  <2> QED  BY <1>7, <1>12, <1>14 DEF Newer
<1>16. all \in Seq(Table) /\ Ranged(all) /\ UNION Range(all) = left \cup K \cup right
  <2>1. Before(left, K) /\ Before(K, right)
    <3> HIDE DEF K, I, left, right
    <3>1. K \in SUBSET I
      BY DEF K, I
    <3> QED  BY <1>4, <1>5, <3>1 DEF Before
  <2>2. Ranged(ts) /\ ts \in Seq(Table)
    OBVIOUS
  <2> DEFINE a == job.keepLeft
             c == job.keepRight
  <2>3. /\ a \in Seq(Table) /\ Ranged(a) /\ c \in Seq(Table) /\ Ranged(c)
        /\ Before(UNION Range(a), UNION Range(ts)) /\ Before(UNION Range(ts), UNION Range(c))
        /\ Before(UNION Range(a), UNION Range(c))
    BY <1>4, <2>1
  <2>4. all = Stretches(a, ts, c)
    BY DEF Stretches
  <2> HIDE DEF a, c, all, I
  <2>5. /\ Stretches(a, ts, c) \in Seq(Table) /\ Ranged(Stretches(a, ts, c))
        /\ UNION Range(Stretches(a, ts, c)) = (UNION Range(a)) \cup (UNION Range(ts)) \cup UNION Range(c)
    <3>1. InTurn(a, ts, c)
      BY <2>2, <2>3 DEF InTurn
    <3> QED  BY <3>1, StretchesRanged
  <2> QED  BY <2>4, <2>5 DEF a, c
<1>17. rest[l] \in Seq(Run)
  BY <1>3
<1>18. ASSUME Whole(nx), Len(nx) = n, Tree(nx) = N \cup K \cup (left \cup right),
              \A q \in RunsOf(nx) : q.id = job.runId \/ q \in RunsOf(levels)
       PROVE  Around(nx, job) /\ Replaces(nx, job, K)
  <2> HIDE DEF N, I, K, left, right
  <2>1. Replaces(nx, job, K)
    BY <1>9, <1>10, <1>13, <1>14, <1>15, <1>18 DEF Replaces, I
  <2>2. \A m \in DOMAIN levels : ~(l < m) /\ ~(l + 1 < m)
    BY <1>1
  <2> QED  BY <1>18, <2>1, <2>2 DEF Around
<1> HIDE DEF all
<1>19. CASE all = <<>>
  <2>1. nx = WithLevel(rest, l, rest[l] \o <<>>) /\ rest[l] \o <<>> = rest[l]
    BY <1>2, <1>17, <1>19, ConcatEmptySeq
  <2>2. nx = rest
    <3>1. rest \in Seq(Seq(Run))
      BY <1>3 DEF Whole
    <3> QED  BY <1>1, <1>3, <2>1, <3>1, LenProperties DEF WithLevel
  <2>3. left \cup K \cup right = {}
    <3>1. UNION Range(all) = {}
      BY <1>19 DEF Range
    <3> HIDE DEF left, K, right
    <3> QED  BY <1>16, <3>1
  <2>4. Tree(nx) = N \cup K \cup (left \cup right)
    <3> HIDE DEF K, left, right
    <3> QED  BY <2>2, <2>3
  <2> HIDE DEF N, I, K, left, right, l, n
  <2> QED  BY <1>3, <1>8, <1>18, <2>2, <2>4 DEF K, nx
<1>20. CASE all # <<>>
  <2> DEFINE r == [id |-> job.runId, tables |-> all]
  <2>1. r \in Run /\ Sound(r) /\ r.id = job.runId /\ RunVersions(r) = UNION Range(all)
    BY <1>16, <1>20, RunOfTables
  <2>2. nx = WithLevel(rest, l, Behind(rest[l], r))
    BY <1>2, <1>20 DEF Behind
  <2> HIDE DEF r
  <2>3. RunVersions(r) \in SUBSET Holds(Range(back))
    <3>1. K \in SUBSET I
      OBVIOUS
    <3> HIDE DEF K, I, left, right
    <3> QED  BY <1>7, <1>16, <2>1, <3>1
  <2>4. ASSUME NEW q \in RunsOf(rest) PROVE q.id # r.id /\ Newer(RunVersions(q), RunVersions(r))
    <3>1. RunVersions(q) \in SUBSET N
      BY DEF Tree
    <3> HIDE DEF N
    <3> QED  BY <1>8, <1>12, <2>1, <2>3, <3>1, NewerSubsets
  <2>5. /\ Whole(rest) /\ l \in DOMAIN rest /\ \A m \in DOMAIN rest : m <= l
        /\ r \in Run /\ Sound(r)
        /\ \A q \in RunsOf(rest) : q.id # r.id /\ Newer(RunVersions(q), RunVersions(r))
        /\ nx = WithLevel(rest, l, Behind(rest[l], r))
    <3>1. l \in DOMAIN rest /\ \A m \in DOMAIN rest : m <= l
      <4> HIDE DEF l, n, r
      <4> QED  BY <1>1, <1>3
    <3> HIDE DEF l, n
    <3> QED  BY <1>3, <2>1, <2>2, <2>4, <3>1
  <2>6. Whole(nx) /\ Len(nx) = Len(rest) /\ RunsOf(nx) = RunsOf(rest) \cup {r}
    <3> HIDE DEF N, I, K, left, right, l, n
    <3> QED  BY <2>5, PutBack
  <2>7. Tree(nx) = N \cup K \cup (left \cup right)
    <3>1. Tree(nx) = Tree(rest) \cup RunVersions(r)
      BY <2>6 DEF Tree
    <3> HIDE DEF K, left, right
    <3> QED  BY <1>16, <2>1, <3>1
  <2>8. \A q \in RunsOf(nx) : q.id = job.runId \/ q \in RunsOf(levels)
    BY <1>8, <2>1, <2>6
  <2> HIDE DEF N, I, K, left, right, l, n
  <2> QED  BY <1>3, <1>18, <2>6, <2>7, <2>8 DEF K, nx
<1> QED  BY <1>19, <1>20

-----------------------------------------------------------------------------
(* The floor: the oldest state that may still be asked for                 *)

\* The smallest registered sequence number, or the visible one.
Floor(snaps, vis) ==
    LET reg == {s \in SeqNo : snaps[s] > 0} IN IF reg = {} THEN vis ELSE Min(reg)

\* There are finitely many sequence numbers.
LEMMA SeqNoIsFinite ==
  ASSUME MaxSeq \in Nat
  PROVE  IsFiniteSet(SeqNo) /\ SeqNo \in SUBSET Nat
BY FS_Interval DEF SeqNo

\* Min picks the least of a finite set of numbers.
LEMMA MinIsLeast ==
  ASSUME NEW S \in SUBSET Int, IsFiniteSet(S), S # {}
  PROVE  Min(S) \in S /\ \A y \in S : Min(S) <= y
<1>1. \E x \in S : \A y \in S : x <= y
  BY LeastExists
<1> QED  BY <1>1 DEF Min

\* Min picks the smaller of two numbers.
LEMMA SmallerOfTwo ==
  ASSUME NEW a \in Int, NEW b \in Int
  PROVE  Min({a, b}) \in {a, b} /\ Min({a, b}) <= a /\ Min({a, b}) <= b
<1> DEFINE S == {a, b}
<1>1. IsFiniteSet({a}) /\ S = {a} \cup {b}
  BY FS_EmptySet, FS_AddElement
<1>2. IsFiniteSet(S)
  BY <1>1, FS_AddElement
<1>3. S # {} /\ S \in SUBSET Int /\ a \in S /\ b \in S
  OBVIOUS
<1> HIDE DEF S
<1>4. Min(S) \in S /\ \A y \in S : Min(S) <= y
  BY <1>2, <1>3, MinIsLeast
<1> QED  BY <1>3, <1>4 DEF S

\* Numbers between two bounds are finitely many.
LEMMA InIntervalFinite ==
  ASSUME NEW a \in Int, NEW b \in Int, NEW S, \A x \in S : x \in Int /\ a <= x /\ x <= b
  PROVE  IsFiniteSet(S) /\ S \in SUBSET Int
<1> DEFINE all == a .. b
<1>1. IsFiniteSet(all) /\ S \in SUBSET all
  BY FS_Interval
<1> HIDE DEF all
<1>2. IsFiniteSet(S)
  BY <1>1, FS_Subset
<1> QED  BY <1>2

\* The floor is the smallest registered number, or what is visible.
LEMMA FloorIs ==
  ASSUME MaxSeq \in Nat, NEW snaps \in [SeqNo -> Nat], NEW vis \in SeqNo,
         \A s \in SeqNo : snaps[s] > 0 => s <= vis
  PROVE  LET F == Floor(snaps, vis)
         IN  /\ F \in SeqNo /\ F <= vis
             /\ \A s \in SeqNo : snaps[s] > 0 => F <= s
             /\ F = vis \/ snaps[F] > 0
<1> DEFINE reg == {s \in SeqNo : snaps[s] > 0}
<1>1. IsFiniteSet(reg) /\ reg \in SUBSET Int
  BY SeqNoIsFinite, FS_Subset
<1>2. CASE reg = {}
  BY <1>2, SeqNoIsFinite DEF Floor
<1>3. CASE reg # {}
  <2>1. Min(reg) \in reg /\ \A y \in reg : Min(reg) <= y
    <3> HIDE DEF reg
    <3> QED  BY <1>1, <1>3, MinIsLeast
  <2>2. Floor(snaps, vis) = Min(reg)
    BY <1>3 DEF Floor
  <2> QED  BY <2>1, <2>2
<1> QED  BY <1>2, <1>3

\* The floor never goes down: a registration is at or above it, the visible
\* number only grows.
LEMMA FloorRises ==
  ASSUME MaxSeq \in Nat,
         NEW snaps \in [SeqNo -> Nat], NEW vis \in SeqNo,
         \A s \in SeqNo : snaps[s] > 0 => s <= vis,
         NEW snaps2 \in [SeqNo -> Nat], NEW vis2 \in SeqNo,
         \A s \in SeqNo : snaps2[s] > 0 => s <= vis2,
         vis <= vis2,
         \A s \in SeqNo : snaps2[s] > 0 => snaps[s] > 0 \/ s >= Floor(snaps, vis)
  PROVE  Floor(snaps, vis) <= Floor(snaps2, vis2)
<1> DEFINE F == Floor(snaps, vis)
           G == Floor(snaps2, vis2)
<1>1. F \in SeqNo /\ F <= vis /\ \A s \in SeqNo : snaps[s] > 0 => F <= s
  BY FloorIs
<1>2. G \in SeqNo /\ (G = vis2 \/ snaps2[G] > 0)
  BY FloorIs
<1> HIDE DEF F, G
<1>3. \A s \in SeqNo : snaps2[s] > 0 => F <= s
  <2>1. \A s \in SeqNo : snaps2[s] > 0 => snaps[s] > 0 \/ s >= F
    BY DEF F
  <2> QED  BY <1>1, <2>1, SeqNoIsFinite
<1>4. F <= G
  BY <1>1, <1>2, <1>3, SeqNoIsFinite
<1> QED  BY <1>4 DEF F, G

-----------------------------------------------------------------------------
(* Fresh run ids                                                           *)

\* A sequence has finitely many elements.
LEMMA RangeIsFinite ==
  ASSUME NEW S, NEW s \in Seq(S)
  PROVE  IsFiniteSet(Range(s))
<1>1. s \in [1 .. Len(s) -> Range(s)] /\ Len(s) \in Nat
  BY DEF Range
<1>2. \A y \in Range(s) : \E x \in 1 .. Len(s) : s[x] = y
  BY DEF Range
<1>3. s \in Surjection(1 .. Len(s), Range(s))
  BY <1>1, <1>2 DEF Surjection
<1> QED  BY <1>1, <1>3, FS_Interval, FS_Surjection

\* Among one more number than a finite set has members, one is not in it.
LEMMA FreeNumber ==
  ASSUME NEW U, IsFiniteSet(U)
  PROVE  LET free == (1 .. Cardinality(U) + 1) \ U
         IN  Min(free) \in Nat /\ Min(free) \notin U
<1> DEFINE n == Cardinality(U)
           all == 1 .. n + 1
           free == all \ U
<1>1. n \in Nat
  BY FS_CardinalityType
<1>2. IsFiniteSet(all) /\ Cardinality(all) = n + 1
  BY <1>1, FS_Interval
<1>3. free # {}
  <2>1. SUFFICES ASSUME free = {} PROVE FALSE
    OBVIOUS
  <2>2. all \in SUBSET U
    BY <2>1
  <2> HIDE DEF all, n
  <2>3. Cardinality(all) <= Cardinality(U)
    BY <2>2, FS_Subset
  <2> QED  BY <1>1, <1>2, <2>3 DEF n
<1>4. IsFiniteSet(free) /\ free \in SUBSET Int
  <2>1. all \in SUBSET Int
    BY <1>1
  <2>2. free \in SUBSET all
    OBVIOUS
  <2> HIDE DEF all, free
  <2> QED  BY <1>2, <2>1, <2>2, FS_Subset
<1> HIDE DEF free
<1>5. Min(free) \in free
  BY <1>3, <1>4, MinIsLeast
<1> QED  BY <1>1, <1>5 DEF free

\* What a pass may start, and a job under way.
Work ==
    [kind : {"tier", "splice"}, level : Nat, target : Nat, inputs : Seq(Run),
     older : Seq(Run), keepLeft : Seq(Table), keepRight : Seq(Table)]
      \cup [kind : {"deepen"}, level : Nat, inputs : Seq(Run)]
Job ==
    [kind : {"tier", "splice"}, level : Nat, target : Nat, inputs : Seq(Run),
     older : Seq(Run), keepLeft : Seq(Table), keepRight : Seq(Table),
     watermark : Int, runId : Nat, todo : SUBSET Keys, out : Output]

\* A new run gets an id that no run of the tree has and no job has reserved.
LEMMA FreshIsFree ==
  ASSUME Whole(levels), active \in Seq(Job), suspended \in Seq(Job)
  PROVE  /\ FreshId \in Nat
         /\ \A q \in RunsOf(levels) : q.id # FreshId
         /\ \A j \in Range(active) \cup Range(suspended) : j.runId # FreshId
<1> DEFINE R == Range(RunsNewestFirst)
           J == Range(active) \cup Range(suspended)
           A == {r.id : r \in R}
           B == {j.runId : j \in J}
           U == A \cup B
<1>1. R = RunsOf(levels) /\ IsFiniteSet(R)
  BY WholeLevels, RangeIsFinite DEF RunsNewestFirst
<1>2. IsFiniteSet(J)
  BY RangeIsFinite, FS_Union
<1>3. IsFiniteSet(A)
  <2>1. [r \in R |-> r.id] \in Surjection(R, A)
    BY DEF Surjection
  <2> QED  BY <1>1, <2>1, FS_Surjection
<1>4. IsFiniteSet(B)
  <2>1. [j \in J |-> j.runId] \in Surjection(J, B)
    BY DEF Surjection
  <2> QED  BY <1>2, <2>1, FS_Surjection
<1>5. IsFiniteSet(U)
  BY <1>3, <1>4, FS_Union
<1>6. FreshId = Min((1 .. Cardinality(U) + 1) \ U)
  BY DEF FreshId
<1>7. FreshId \in Nat /\ FreshId \notin U
  <2> HIDE DEF U
  <2> QED  BY <1>5, <1>6, FreeNumber
<1> QED  BY <1>1, <1>7

-----------------------------------------------------------------------------
(* The invariant                                                           *)

\* What a scan runs over, as a set: the memtable, the frozen memtables, the tree.
Frozen(im) == UNION Range(im)
Children(m, im, lv) == m \cup Frozen(im) \cup Tree(lv)

Typed ==
    /\ opts \in OptionSets /\ admitted \in SUBSET Writers
    /\ bgError \in BOOLEAN /\ force \in BOOLEAN /\ faults \in 0 .. opts.faults
    /\ visible \in SeqNo
    /\ snapshots \in [SeqNo -> Nat] /\ held \in [Readers -> SeqNo \cup {NoSeq}]

\* Newer sources hold newer versions.
Memory(m, im, lv) ==
    /\ m \in SUBSET Version /\ im \in Seq(Table)
    /\ Newer(m, Frozen(im))
    /\ \A i, j \in DOMAIN im : i < j => Newer(im[i], im[j])
    /\ Newer(m, Tree(lv)) /\ Newer(Frozen(im), Tree(lv))

\* The store holds only what was written, and every write has a number of its own.
History(ch, lg, vis) ==
    /\ ch \in SUBSET lg /\ lg \in SUBSET Version
    /\ \A v \in lg : v.seq <= vis
    /\ \A v, w \in lg : v.seq = w.seq => v = w

\* What merges dropped is not above the floor, and no state at or above the
\* floor misses it.
Unharmed(ch, lg, F) ==
    /\ \A v \in lg : v \in ch \/ v.seq <= F
    /\ \A k \in Keys, s \in SeqNo :
          s >= F => Live(NewestAt(ch, k, s)) = Live(NewestAt(lg, k, s))

\* The registry counts the handles, and nobody holds a state not yet visible.
Handles(snaps, h, vis) ==
    /\ \A s \in SeqNo : snaps[s] = Cardinality({r \in Readers : h[r] = s})
    /\ \A r \in Readers : h[r] <= vis

Jobs(act, sus) == Range(act) \cup Range(sus)

\* Which slots of the scheduler a phase of the pass fills.
Slots ==
    /\ phase \in {"off", "step", "start", "slice"}
    /\ picked \in Seq(Work) /\ active \in Seq(Job) /\ suspended \in Seq(Job)
    /\ phase = "start" => Len(picked) = 1
    /\ phase # "start" => picked = <<>>
    /\ Len(active) <= 1
    /\ phase = "slice" => Len(active) = 1
    /\ phase \in {"off", "start"} => active = <<>>
    /\ phase = "off" => suspended = <<>>

\* Jobs suspended later are of upper levels, what is picked or active is above
\* them all, and a job of the bottom is picked only when nothing is suspended.
Nested ==
    /\ \A i, j \in DOMAIN suspended : i < j =>
          suspended[j].level < suspended[i].level /\ suspended[i].runId # suspended[j].runId
    /\ \A i \in DOMAIN suspended : \A j \in Range(active) :
          j.level < suspended[i].level /\ j.runId # suspended[i].runId
    /\ \A i \in DOMAIN suspended : \A j \in Range(picked) : j.level < suspended[i].level
    /\ \A j \in Range(picked) : j.kind # "tier" => suspended = <<>>

\* Every job finds its inputs at the back of its level, and the id it has
\* reserved is nobody's.
InPlace(lv, pk, js) ==
    /\ \A j \in Range(pk) : Placed(lv, j) /\ (j.kind = "tier" => j.inputs # <<>>)
    /\ \A j \in js : Placed(lv, j) /\ \A q \in RunsOf(lv) : q.id # j.runId

\* How far a merge is: below the keys still to do it has written what it keeps
\* of each key, whatever the bloom filters answered, and the watermark it
\* loaded is not above the floor.
Merged(j) ==
    \A k \in KeysOf(InputVersions(j)) \ j.todo : \E sh \in BOOLEAN :
        /\ VersionsOf(Written(j.out), k) = Kept(InputVersions(j), k, j.watermark, sh)
        /\ sh \/ VersionsOf(Contents(j.older), k) = {}
Progress(j) ==
    /\ j.todo \in SUBSET KeysOf(InputVersions(j))
    /\ Ordered(j.out) /\ Written(j.out) \in SUBSET InputVersions(j)
    /\ \A v \in Written(j.out), k \in j.todo : v.key < k
    /\ Merged(j)
Covered(j, F) == \A v \in InputVersions(j) : v.seq <= j.watermark => v.seq <= F
UnderWay(js, F) == \A j \in js : Progress(j) /\ Covered(j, F) /\ j.todo # {}

TreeInv ==
    /\ Typed /\ Handles(snapshots, held, visible)
    /\ Whole(levels) /\ Memory(mem, imms, levels)
    /\ History(Children(mem, imms, levels), log, visible)
    /\ Unharmed(Children(mem, imms, levels), log, Floor(snapshots, visible))
    /\ Slots /\ Nested /\ InPlace(levels, picked, Jobs(active, suspended))
    /\ UnderWay(Jobs(active, suspended), Floor(snapshots, visible))

-----------------------------------------------------------------------------
(* Merging a key                                                           *)

\* The inputs of a job hold versions.
LEMMA InputsAreVersions ==
  ASSUME NEW j, j.inputs \in Seq(Run)
  PROVE  InputVersions(j) \in SUBSET Version
<1>1. Range(j.inputs) \in SUBSET Run
  BY DEF Range
<1>2. InputVersions(j) = Holds(Range(j.inputs))
  BY DEF InputVersions, Holds
<1> QED  BY <1>1, <1>2, HoldsVersions

\* A merge keeps of a key versions of that key.
LEMMA KeptIsOfKey ==
  ASSUME NEW vs, NEW k, NEW w, NEW sh
  PROVE  Kept(vs, k, w, sh) \in SUBSET vs /\ \A v \in Kept(vs, k, w, sh) : v.key = k
BY DEF Kept, VersionsOf, NewestAt, VisibleAt

Advanced(j, k, out) == [j EXCEPT !.todo = @ \ {k}, !.out = out]

\* The merge of the smallest key left (run_slice): the output stays ordered and
\* now holds what is kept of that key.
LEMMA SliceProgress ==
  ASSUME OptionsAssumption, opts \in OptionSets,
         NEW j \in Job, Progress(j), j.todo # {},
         \A r \in Range(j.older) : Ranged(r.tables),
         NEW k, k = Min(j.todo),
         NEW sh \in OlderMayContain(j.older, k),
         NEW out, out = AddKey(j.out, Kept(InputVersions(j), k, j.watermark, sh)),
         NEW nx, nx = Advanced(j, k, out)
  PROVE  /\ nx \in Job /\ Progress(nx) /\ k \in j.todo /\ out \in Output
         /\ nx.todo = j.todo \ {k} /\ nx.out = out
         /\ nx.kind = j.kind /\ nx.level = j.level /\ nx.target = j.target
         /\ nx.inputs = j.inputs /\ nx.older = j.older
         /\ nx.keepLeft = j.keepLeft /\ nx.keepRight = j.keepRight
         /\ nx.watermark = j.watermark /\ nx.runId = j.runId
<1> DEFINE I == InputVersions(j)
           vs == Kept(I, k, j.watermark, sh)
<1>1. /\ j.inputs \in Seq(Run) /\ j.older \in Seq(Run) /\ j.todo \in SUBSET Keys /\ j.out \in Output
      /\ j.watermark \in Int
  BY DEF Job
<1>2. I \in SUBSET Version
  BY <1>1, InputsAreVersions
<1>3. k \in j.todo /\ \A y \in j.todo : k <= y
  <2>1. IsFiniteSet(j.todo) /\ j.todo \in SUBSET Int
    BY <1>1, FS_Subset DEF OptionsAssumption
  <2> QED  BY <2>1, MinIsLeast
<1>4. vs \in SUBSET I /\ \A v \in vs : v.key = k
  BY KeptIsOfKey
<1>5. sh \in BOOLEAN /\ (sh \/ VersionsOf(Contents(j.older), k) = {})
  BY <1>1, OlderIsSound DEF OptionsAssumption
<1> HIDE DEF vs
<1>6. Before(Written(j.out), vs)
  BY <1>3, <1>4 DEF Progress, Before
<1>7. opts.target_file_size \in Nat \ {0}
  BY DEF OptionsAssumption, OptionFields
<1>8. out \in Output /\ Written(out) = Written(j.out) \cup vs /\ Ordered(out)
  <2>1. vs \in SUBSET Version /\ Ordered(j.out) /\ out = AddKey(j.out, vs)
    BY <1>2, <1>4 DEF Progress, vs
  <2> QED  BY <1>1, <1>6, <1>7, <2>1, AddKeyKeeps
<1>9. /\ nx \in Job
      /\ nx.todo = j.todo \ {k} /\ nx.out = out
      /\ nx.kind = j.kind /\ nx.level = j.level /\ nx.target = j.target
      /\ nx.inputs = j.inputs /\ nx.older = j.older
      /\ nx.keepLeft = j.keepLeft /\ nx.keepRight = j.keepRight
      /\ nx.watermark = j.watermark /\ nx.runId = j.runId
  <2>1. out \in Output /\ j.todo \ {k} \in SUBSET Keys
    BY <1>1, <1>8
  <2> QED  BY <2>1 DEF Job, Advanced
<1> HIDE DEF I
<1>10. InputVersions(nx) = I
  BY <1>9 DEF I, InputVersions
<1>11. j.todo \in SUBSET KeysOf(I) /\ Written(j.out) \in SUBSET I
       /\ \A v \in Written(j.out), y \in j.todo : v.key < y
  BY DEF Progress, I
<1>12. nx.todo \in SUBSET KeysOf(I) /\ Written(out) \in SUBSET I
  BY <1>4, <1>8, <1>9, <1>11
<1>13. \A y \in Keys : y \in Int
  BY DEF OptionsAssumption
<1>13a. k \in Int /\ \A y \in j.todo : y \in Int
  BY <1>1, <1>3, <1>13
<1>14. \A v \in Written(out), y \in nx.todo : v.key < y
  <2> SUFFICES ASSUME NEW v \in Written(out), NEW y \in j.todo, y # k PROVE v.key < y
    BY <1>9
  <2>1. k < y
    BY <1>3, <1>13a
  <2> QED  BY <1>4, <1>8, <1>11, <2>1
<1>15. Merged(nx)
  <2> SUFFICES ASSUME NEW y \in KeysOf(I), y \notin j.todo \/ y = k
               PROVE  \E b \in BOOLEAN :
                        /\ VersionsOf(Written(out), y) = Kept(I, y, j.watermark, b)
                        /\ b \/ VersionsOf(Contents(j.older), y) = {}
    BY <1>9, <1>10 DEF Merged
  <2>1. CASE y = k
    <3>1. VersionsOf(Written(out), k) = vs
      <4>1. \A v \in Written(j.out) : v.key # k
        BY <1>3, <1>11, <1>13a
      <4>2. \A v : v \in VersionsOf(Written(out), k) <=> v \in vs
        BY <1>4, <1>8, <4>1 DEF VersionsOf
      <4> QED  BY <4>2 DEF VersionsOf
    <3> QED  BY <1>5, <2>1, <3>1 DEF vs, I
  <2>2. CASE y # k
    <3>1. \E b \in BOOLEAN :
             /\ VersionsOf(Written(j.out), y) = Kept(I, y, j.watermark, b)
             /\ b \/ VersionsOf(Contents(j.older), y) = {}
      BY <2>2 DEF Progress, Merged, I
    <3>2. VersionsOf(Written(out), y) = VersionsOf(Written(j.out), y)
      BY <1>4, <1>8, <2>2 DEF VersionsOf
    <3> QED  BY <3>1, <3>2
  <2> QED  BY <2>1, <2>2
<1> QED  BY <1>3, <1>8, <1>9, <1>10, <1>12, <1>14, <1>15 DEF Progress

-----------------------------------------------------------------------------
(* What a state reads when the sources change                              *)

\* A merge that replaces its inputs by what it keeps of them is invisible from
\* the floor up, and drops nothing above the floor.
LEMMA ReplacementKeeps ==
  ASSUME OptionsAssumption, NEW job, NEW nx, NEW K, NEW F \in Nat, NEW M \in SUBSET Version,
         NEW lg, NEW vis,
         job.inputs \in Seq(Run), job.watermark \in Int,
         Replaces(nx, job, K), K \in SUBSET InputVersions(job),
         \A k \in KeysOf(InputVersions(job)) : \E sh \in BOOLEAN :
            /\ VersionsOf(K, k) = Kept(InputVersions(job), k, job.watermark, sh)
            /\ sh \/ VersionsOf(Contents(job.older), k) = {},
         job.kind \in {"tier", "splice"},
         Covered(job, F), Newer(M, Tree(levels)),
         History(M \cup Tree(levels), lg, vis), Unharmed(M \cup Tree(levels), lg, F)
  PROVE  /\ Tree(nx) \in SUBSET Tree(levels)
         /\ History(M \cup Tree(nx), lg, vis)
         /\ Unharmed(M \cup Tree(nx), lg, F)
<1> DEFINE I == InputVersions(job)
           w == job.watermark
<1>1. PICK N \in SUBSET Version, O \in SUBSET Version :
         /\ Tree(levels) = N \cup I \cup O /\ Tree(nx) = N \cup K \cup O
         /\ Newer(N, I) /\ Newer(N, O) /\ Newer(I, O)
         /\ job.kind = "tier" => O = Contents(job.older)
         /\ job.kind = "splice" => \A v \in I, x \in O : v.key # x.key
  BY DEF Replaces
<1>2. I \in SUBSET Version
  BY InputsAreVersions
<1>3. \A k \in KeysOf(I) : \E sh \in BOOLEAN :
         /\ VersionsOf(K, k) = Kept(I, k, w, sh)
         /\ sh \/ VersionsOf(Contents(job.older), k) = {}
  OBVIOUS
<1>3a. K \in SUBSET I /\ \A v \in I : v.seq <= w => v.seq <= F
  BY DEF Covered
<1> HIDE DEF I
<1>4. Tree(nx) \in SUBSET Tree(levels)
  BY <1>1, <1>3a
<1>5. History(M \cup Tree(nx), lg, vis)
  BY <1>4 DEF History
<1>6. \A u, v \in I : u.seq = v.seq => u = v
  BY <1>1 DEF History
<1>7. \A k : \E sh \in BOOLEAN : /\ VersionsOf(K, k) = Kept(I, k, w, sh)
                                 /\ sh \/ VersionsOf(O, k) = {}
  <2> SUFFICES ASSUME NEW k
               PROVE  \E sh \in BOOLEAN : /\ VersionsOf(K, k) = Kept(I, k, w, sh)
                                          /\ sh \/ VersionsOf(O, k) = {}
    OBVIOUS
  <2>1. CASE k \notin KeysOf(I)
    <3>1. VersionsOf(I, k) = {}
      BY <2>1 DEF KeysOf, VersionsOf
    <3>2. VersionsOf(K, k) = {} /\ Kept(I, k, w, TRUE) = {}
      <4>1. \A v \in Kept(I, k, w, TRUE) : v \in VersionsOf(I, k)
        BY KeptIsOfKey DEF VersionsOf
      <4> QED  BY <1>3a, <3>1, <4>1 DEF VersionsOf
    <3> QED  BY <3>2
  <2>2. CASE k \in KeysOf(I) /\ job.kind = "tier"
    BY <1>1, <1>3, <2>2
  <2>3. CASE k \in KeysOf(I) /\ job.kind = "splice"
    <3>1. VersionsOf(O, k) = {}
      BY <1>1, <2>3 DEF KeysOf, VersionsOf
    <3> QED  BY <1>3, <2>3, <3>1
  <2> QED  BY <2>1, <2>2, <2>3
<1>8. Newer(M, I) /\ Newer(M, O)
  BY <1>1 DEF Newer
<1> DEFINE P == M \cup N
<1>9. P \in SUBSET Version /\ Newer(P, I) /\ Newer(P, O)
  BY <1>1, <1>8 DEF Newer
<1>10. ASSUME NEW k \in Keys, NEW s \in SeqNo, s >= F
       PROVE  Live(NewestAt(P \cup K \cup O, k, s)) = Live(NewestAt(P \cup I \cup O, k, s))
  <2>1. PICK sh \in BOOLEAN : /\ VersionsOf(K, k) = Kept(I, k, w, sh)
                              /\ sh \/ VersionsOf(O, k) = {}
    BY <1>7
  <2>2. MaxSeq \in Nat /\ s \in Int /\ F \in Int /\ w \in Int
    BY SeqNoIsFinite DEF OptionsAssumption
  <2> HIDE DEF P, w
  <2> QED  BY <1>1, <1>2, <1>3a, <1>6, <1>9, <1>10, <2>1, <2>2, MergeKeepsReads
<1>11. M \cup Tree(nx) = P \cup K \cup O /\ M \cup Tree(levels) = P \cup I \cup O
  BY <1>1
<1>12. \A k \in Keys, s \in SeqNo : s >= F =>
          Live(NewestAt(M \cup Tree(nx), k, s)) = Live(NewestAt(lg, k, s))
  BY <1>10, <1>11 DEF Unharmed
<1>13. \A v \in lg : v \in M \cup Tree(nx) \/ v.seq <= F
  <2> SUFFICES ASSUME NEW v \in lg, v \notin M \cup Tree(nx), v \in M \cup Tree(levels)
               PROVE  v.seq <= F
    BY DEF Unharmed
  <2>1. v \in I /\ v \notin K
    BY <1>1
  <2>2. PICK sh \in BOOLEAN : VersionsOf(K, v.key) = Kept(I, v.key, w, sh)
    BY <1>7
  <2>3. ~(v.seq > w)
    BY <2>1, <2>2 DEF Kept, VersionsOf
  <2>4. v.seq \in Int /\ w \in Int
    BY <1>2, <2>1 DEF Version
  <2> HIDE DEF w
  <2>5. v.seq <= w
    BY <2>3, <2>4
  <2> QED  BY <1>3a, <2>1, <2>5
<1> QED  BY <1>4, <1>5, <1>12, <1>13 DEF Unharmed

\* A merge that is done goes into the tree in the place of its inputs.
LEMMA InstallKeeps ==
  ASSUME Whole(levels), NEW job \in Job, Placed(levels, job), Progress(job),
         \A q \in RunsOf(levels) : q.id # job.runId,
         NEW nx, nx = Install(job, FinishTables(job.out))
  PROVE  Around(nx, job) /\ Replaces(nx, job, Written(job.out))
<1> DEFINE ts == FinishTables(job.out)
<1>1. PICK front \in Seq(Run), back \in Seq(Run) : Fits(levels, job, front, back)
  BY DEF Placed
<1>2. job.kind \in {"tier", "splice"} /\ job.runId \in Nat /\ job.out \in Output
  BY DEF Job
<1>3. ts \in Seq(Table) /\ Ranged(ts) /\ UNION Range(ts) = Written(job.out)
  BY <1>2, FinishKeeps DEF Progress
<1>4. UNION Range(ts) \in SUBSET InputVersions(job)
  BY <1>3 DEF Progress
<1> HIDE DEF ts
<1>5. CASE job.kind = "tier"
  <2>1. LET b == Install(job, ts) IN Around(b, job) /\ Replaces(b, job, UNION Range(ts))
    BY <1>1, <1>2, <1>3, <1>4, <1>5, TierInstalls
  <2> QED  BY <1>3, <2>1 DEF ts
<1>6. CASE job.kind = "splice"
  <2>1. LET b == Install(job, ts) IN Around(b, job) /\ Replaces(b, job, UNION Range(ts))
    BY <1>1, <1>2, <1>3, <1>4, <1>6, SpliceInstalls
  <2> QED  BY <1>3, <2>1 DEF ts
<1> QED  BY <1>2, <1>5, <1>6

\* A merge of an upper level leaves every job of a lower one in its place.
LEMMA OthersStay ==
  ASSUME Whole(levels), NEW nx, NEW job, Around(nx, job), job.level \in Nat,
         NEW other \in Job, Placed(levels, other), job.level < other.level
  PROVE  Placed(nx, other)
<1>1. PICK front \in Seq(Run), back \in Seq(Run) : Fits(levels, other, front, back)
  BY DEF Placed
<1>2. other.level \in DOMAIN levels /\ other.level \in Nat
  BY <1>1 DEF Fits, Job
<1>3. Whole(nx) /\ Len(nx) = Len(levels)
  BY DEF Around
<1>4. \A m \in DOMAIN levels : m \in Nat
  BY WholeLevels
<1>5. \A m \in DOMAIN levels : other.level < m => nx[m] = levels[m]
  <2> SUFFICES ASSUME NEW m \in DOMAIN levels, other.level < m PROVE nx[m] = levels[m]
    OBVIOUS
  <2>1. job.level + 1 < m
    BY <1>2, <1>4
  <2> QED  BY <2>1 DEF Around
<1>6. PICK more \in Seq(Run) : nx[other.level] = more \o levels[other.level]
  BY <1>2 DEF Around
<1> QED  BY <1>3, <1>5, <1>6, PlacedStays

\* Moving the bottom's runs to a new level below (install_deepen) changes no
\* version.
LEMMA DeepenKeeps ==
  ASSUME Whole(levels), NEW job, job.kind = "deepen", Placed(levels, job),
         NEW nx,
         nx = Append([levels EXCEPT ![job.level] = Without(@, job.inputs)], job.inputs)
  PROVE  Whole(nx) /\ Tree(nx) = Tree(levels)
<1>1. PICK front \in Seq(Run), back \in Seq(Run) : Fits(levels, job, front, back)
  BY DEF Placed
<1>2. job.inputs = back /\ job.level = Len(levels) /\ job.level \in DOMAIN levels
  BY <1>1 DEF Fits
<1> DEFINE rest == WithLevel(levels, job.level, Without(levels[job.level], job.inputs))
<1>3. nx = Append(rest, back)
  BY <1>2 DEF WithLevel
<1>4. rest = WithLevel(levels, job.level, Without(levels[job.level], job.inputs))
  OBVIOUS
<1> HIDE DEF rest
<1>5. /\ Whole(rest) /\ DOMAIN rest = DOMAIN levels
      /\ RunsOf(levels) = RunsOf(rest) \cup Range(back)
      /\ Descending(back)
      /\ \A m \in DOMAIN levels : m <= job.level => Over(rest[m], back)
  BY <1>1, <1>4, InputsTaken
<1>6. \A m \in DOMAIN levels : m <= job.level
  BY <1>2, WholeLevels
<1>7. \A r \in Range(back) : Sound(r)
  BY <1>5 DEF Whole
<1>8. \A m \in DOMAIN rest : Over(rest[m], back)
  BY <1>5, <1>6
<1>9. Whole(nx) /\ RunsOf(nx) = RunsOf(rest) \cup Range(back)
  <2>1. Whole(Append(rest, back)) /\ RunsOf(Append(rest, back)) = RunsOf(rest) \cup Range(back)
    BY <1>5, <1>7, <1>8, AddLevel
  <2> QED  BY <1>3, <2>1
<1>10. RunsOf(nx) = RunsOf(levels)
  BY <1>5, <1>9
<1> QED  BY <1>9, <1>10 DEF Tree

-----------------------------------------------------------------------------
(* Flushing                                                                *)

\* A run newer than all others goes to the front of level 1 (install of a flush).
LEMMA NewestRun ==
  ASSUME NEW lv, Whole(lv), NEW r \in Run, Sound(r),
         \A q \in RunsOf(lv) : q.id # r.id, Newer(RunVersions(r), Tree(lv))
  PROVE  LET nx == WithLevel(lv, 1, InFront(r, lv[1]))
         IN  /\ Whole(nx) /\ Len(nx) = Len(lv)
             /\ nx[1] = InFront(r, lv[1]) /\ \A l \in DOMAIN lv : l # 1 => nx[l] = lv[l]
             /\ RunsOf(nx) = RunsOf(lv) \cup {r}
<1>1. 1 \in DOMAIN lv /\ \A l \in DOMAIN lv : l \in Nat /\ l >= 1
  BY WholeLevels
<1>2. \A q \in RunsOf(lv) : Newer(RunVersions(r), RunVersions(q))
  BY DEF Tree, Newer
<1>3. \A l \in DOMAIN lv : \A q \in Range(lv[l]) : q \in RunsOf(lv)
  BY DEF RunsOf
<1> DEFINE t == 1
           nx == WithLevel(lv, t, InFront(r, lv[t]))
<1>4. /\ \A q \in RunsOf(lv) : q.id # r.id
      /\ \A l \in DOMAIN lv : l < t => \A q \in Range(lv[l]) : Newer(RunVersions(q), RunVersions(r))
      /\ \A l \in DOMAIN lv : t <= l => \A q \in Range(lv[l]) : Newer(RunVersions(r), RunVersions(q))
  BY <1>1, <1>2, <1>3
<1>5. t \in DOMAIN lv /\ r \in Run /\ Sound(r)
  BY <1>1
<1> HIDE DEF t
<1>6. /\ Whole(nx) /\ Len(nx) = Len(lv)
      /\ nx[t] = InFront(r, lv[t]) /\ \A l \in DOMAIN lv : l # t => nx[l] = lv[l]
      /\ RunsOf(nx) = RunsOf(lv) \cup {r}
  BY <1>4, <1>5, PutFront
<1> QED  BY <1>6 DEF t

NewRun(id, vs) == [id |-> id, tables |-> BuildRunFromMem(vs)]

Flushed(nx, id, m, im) ==
    /\ Whole(nx) /\ Len(nx) = Len(levels)
    /\ \A q \in RunsOf(nx) : q.id = id \/ q \in RunsOf(levels)
    /\ \A l \in DOMAIN levels : 1 < l => nx[l] = levels[l]
    /\ \E more \in Seq(Run) : nx[1] = more \o levels[1]
    /\ Memory(m, Front(im), nx)
    /\ Children(m, Front(im), nx) = Children(m, im, levels)

\* The oldest frozen memtable becomes the newest run of the first level.
LEMMA FlushKeeps ==
  ASSUME OptionsAssumption, opts \in OptionSets, Whole(levels),
         NEW m, NEW im, Memory(m, im, levels), im # <<>>,
         NEW id \in Nat, \A q \in RunsOf(levels) : q.id # id,
         NEW nx,
         nx = WithLevel(levels, 1, InFront(NewRun(id, Last(im)), levels[1]))
  PROVE  Flushed(nx, id, m, im)
<1> DEFINE vs == Last(im)
           ts == BuildRunFromMem(vs)
           r == [id |-> id, tables |-> ts]
           rest == Front(im)
           n == Len(im)
<1>1. im \in Seq(Table) /\ n \in Nat /\ n >= 1 /\ DOMAIN im = 1 .. n
  BY LenProperties, EmptySeq DEF Memory
<1>2. vs = im[n] /\ vs \in Table
  BY <1>1, ElementOfSeq DEF Last
<1>3. /\ rest \in Seq(Table) /\ DOMAIN rest = 1 .. n - 1 /\ Len(rest) = n - 1
      /\ \A i \in 1 .. n - 1 : rest[i] = im[i]
  <2>1. \A i \in 1 .. n - 1 : i \in DOMAIN im
    BY <1>1
  <2>2. \A i \in 1 .. n - 1 : im[i] \in Table
    BY <1>1, <2>1, ElementOfSeq
  <2>3. rest = SubSeq(im, 1, n - 1)
    BY DEF Front
  <2> QED  BY <1>1, <2>2, <2>3, SubSeqProperties
<1>4. Frozen(im) = Frozen(rest) \cup vs
  <2>1. Range(im) = Range(rest) \cup {vs}
    <3> HIDE DEF vs, rest, n
    <3>1. \A i \in 1 .. n : i = n \/ i \in 1 .. n - 1
      BY <1>1
    <3>2. \A i \in 1 .. n - 1 : i \in 1 .. n
      BY <1>1
    <3>3. \A x : x \in Range(im) <=> x \in Range(rest) \cup {vs}
      <4>1. \A x : x \in Range(im) <=> \E i \in 1 .. n : x = im[i]
        BY <1>1 DEF Range
      <4>2. \A x : x \in Range(rest) <=> \E i \in 1 .. n - 1 : x = im[i]
        BY <1>3 DEF Range
      <4>3. n \in 1 .. n
        BY <1>1
      <4> QED  BY <1>2, <3>1, <3>2, <4>1, <4>2, <4>3
    <3> QED  BY <3>3
  <2> HIDE DEF vs, rest
  <2>2. \A x : x \in UNION Range(im) <=> x \in (UNION Range(rest)) \cup vs
    BY <2>1
  <2> QED  BY <2>2 DEF Frozen
<1>5. /\ ts \in Seq(Table) /\ ts # <<>> /\ Ranged(ts) /\ UNION Range(ts) = vs
  <2>1. opts.target_file_size \in Nat \ {0} /\ Keys \in SUBSET Int /\ IsFiniteSet(Keys)
    BY DEF OptionsAssumption, OptionFields
  <2> HIDE DEF vs
  <2> QED  BY <1>2, <2>1, BuildRunHolds
<1> HIDE DEF vs, ts, rest, n
<1>6. r \in Run /\ Sound(r) /\ r.id = id /\ RunVersions(r) = vs
  BY <1>5, RunOfTables
<1>7. nx = WithLevel(levels, 1, InFront(r, levels[1]))
  BY DEF vs, ts, NewRun
<1> HIDE DEF r
<1>8. 1 \in DOMAIN levels /\ \A l \in DOMAIN levels : l \in Nat /\ l >= 1
  BY WholeLevels
<1>9. Newer(vs, Tree(levels))
  BY <1>4 DEF Memory, Newer
<1>10. /\ Whole(nx) /\ Len(nx) = Len(levels)
       /\ nx[1] = InFront(r, levels[1]) /\ \A l \in DOMAIN levels : l # 1 => nx[l] = levels[l]
       /\ RunsOf(nx) = RunsOf(levels) \cup {r}
  <2>1. /\ \A q \in RunsOf(levels) : q.id # r.id
        /\ Newer(RunVersions(r), Tree(levels))
    BY <1>6, <1>9
  <2> QED  BY <1>6, <1>7, <2>1, NewestRun
<1>11. Tree(nx) = Tree(levels) \cup vs
  <2>1. Tree(nx) = Holds(RunsOf(nx)) /\ Tree(levels) = Holds(RunsOf(levels)) /\ Holds({r}) = vs
    BY <1>6 DEF Tree, Holds
  <2> QED  BY <1>10, <2>1, HoldsUnion
<1>12. Children(m, rest, nx) = Children(m, im, levels)
  BY <1>4, <1>11 DEF Children
<1>13. Memory(m, rest, nx)
  <2>1. Newer(m, Frozen(rest)) /\ Newer(m, Tree(nx))
    BY <1>4, <1>11 DEF Memory, Newer
  <2>2. \A i, j \in DOMAIN rest : i < j => Newer(rest[i], rest[j])
    BY <1>1, <1>3 DEF Memory
  <2>3. Newer(Frozen(rest), vs)
    <3> SUFFICES ASSUME NEW i \in 1 .. n - 1 PROVE Newer(im[i], im[n])
      BY <1>2, <1>3 DEF Frozen, Newer, Range
    <3>1. i \in DOMAIN im /\ n \in DOMAIN im /\ i < n
      BY <1>1
    <3> QED  BY <3>1 DEF Memory
  <2>4. Newer(Frozen(rest), Tree(nx))
    BY <1>4, <1>11, <2>3 DEF Memory, Newer
  <2> QED  BY <1>3, <2>1, <2>2, <2>4 DEF Memory
<1>14. \E more \in Seq(Run) : nx[1] = more \o levels[1]
  <2>1. <<r>> \in Seq(Run)
    BY <1>6
  <2> QED  BY <1>10, <2>1 DEF InFront
<1>15. \A q \in RunsOf(nx) : q.id = id \/ q \in RunsOf(levels)
  BY <1>6, <1>10
<1>16. \A l \in DOMAIN levels : 1 < l => nx[l] = levels[l]
  BY <1>8, <1>10
<1> QED  BY <1>10, <1>12, <1>13, <1>14, <1>15, <1>16 DEF rest, Flushed

-----------------------------------------------------------------------------
(* Picking                                                                 *)

\* What the picker returns can be started: its inputs are at the back of their
\* level, and a merge of a level has some.
Startable(w) ==
    /\ w \in Work /\ Placed(levels, w)
    /\ w.kind = "tier" => w.inputs # <<>>

\* The levels are sequences of runs.
LEMMA LevelsAre ==
  ASSUME Whole(levels)
  PROVE  /\ LastLevel \in Nat \ {0} /\ DOMAIN levels = 1 .. LastLevel
         /\ \A l \in 1 .. LastLevel : levels[l] \in Seq(Run) /\ Len(levels[l]) \in Nat
BY WholeLevels DEF LastLevel

\* pick_tier picks the whole of its level.
LEMMA PickTierFits ==
  ASSUME Whole(levels), NEW l \in 1 .. LastLevel - 1, levels[l] # <<>>
  PROVE  /\ Startable(PickTier(l)) /\ PickTier(l).kind = "tier" /\ PickTier(l).level = l
<1> DEFINE w == PickTier(l)
           older == FlattenSeq(SubSeq(levels, l + 1, LastLevel))
<1>1. l \in DOMAIN levels /\ l \in Nat /\ l < Len(levels) /\ levels[l] \in Seq(Run)
  BY LevelsAre DEF LastLevel
<1>2. older \in Seq(Run)
  BY <1>1, OlderRuns DEF LastLevel
<1>3. /\ w.kind = "tier" /\ w.level = l /\ w.target = l + 1 /\ w.inputs = levels[l]
      /\ w.older = older /\ w.keepLeft = <<>> /\ w.keepRight = <<>>
  BY DEF PickTier
<1>4. <<>> \in Seq(Table)
  OBVIOUS
<1>5. w \in Work
  <2>1. w = [kind |-> "tier", level |-> l, target |-> l + 1, inputs |-> levels[l],
             older |-> older, keepLeft |-> <<>>, keepRight |-> <<>>]
    BY DEF PickTier
  <2> HIDE DEF w, older
  <2> QED  BY <1>1, <1>2, <1>4, <2>1 DEF Work
<1> HIDE DEF w
<1>6. Fits(levels, w, <<>>, levels[l])
  <2>1. Splits(levels[l], <<>>, levels[l])
    BY <1>1, ConcatEmptySeq DEF Splits
  <2>2. Len(levels[l]) \in Nat /\ \A i \in 1 .. Len(levels[l]) : w.inputs[i].id = levels[l][i].id
    BY <1>1, <1>3
  <2> QED  BY <1>1, <1>3, <2>1, <2>2 DEF Fits, LastLevel
<1>7. Placed(levels, w)
  <2>1. <<>> \in Seq(Run)
    OBVIOUS
  <2> QED  BY <1>1, <1>6, <2>1 DEF Placed
<1> QED  BY <1>3, <1>5, <1>7 DEF Startable, w

\* The job that moves the bottom down can start on the tree it was picked from.
LEMMA PickDeepenFits ==
  ASSUME Whole(levels)
  PROVE  Startable(PickDeepen) /\ PickDeepen.kind = "deepen"
<1> DEFINE w == PickDeepen
           l == LastLevel
<1>1. l \in DOMAIN levels /\ l \in Nat /\ l = Len(levels) /\ levels[l] \in Seq(Run)
  BY LevelsAre DEF LastLevel
<1>2. w.kind = "deepen" /\ w.level = l /\ w.inputs = levels[l]
  BY DEF PickDeepen
<1>3. w \in Work
  <2>1. w = [kind |-> "deepen", level |-> l, inputs |-> levels[l]]
    BY DEF PickDeepen
  <2> HIDE DEF w, l
  <2> QED  BY <1>1, <2>1 DEF Work
<1> HIDE DEF w, l
<1>4. Fits(levels, w, <<>>, levels[l])
  <2>1. Splits(levels[l], <<>>, levels[l])
    BY <1>1, ConcatEmptySeq DEF Splits
  <2>2. Len(levels[l]) \in Nat /\ \A i \in 1 .. Len(levels[l]) : w.inputs[i].id = levels[l][i].id
    BY <1>1, <1>2
  <2> QED  BY <1>1, <1>2, <2>1, <2>2 DEF Fits
<1>5. Placed(levels, w)
  <2>1. <<>> \in Seq(Run)
    OBVIOUS
  <2> QED  BY <1>1, <1>4, <2>1 DEF Placed
<1> QED  BY <1>2, <1>3, <1>5 DEF Startable, w

\* pick_splice picks the two runs of the last level.
LEMMA PickSpliceFits ==
  ASSUME OptionsAssumption, Whole(levels), Len(levels[LastLevel]) >= 2
  PROVE  Startable(PickSplice) /\ PickSplice.kind = "splice"
<1> DEFINE w == PickSplice
<1>1. Placed(levels, w) /\ w.kind = "splice" /\ w.level = LastLevel
  BY SpliceFits DEF OptionsAssumption
<1>2. PICK front \in Seq(Run), back \in Seq(Run) : Fits(levels, w, front, back)
  BY <1>1 DEF Placed
<1>3. w.inputs \in Seq(Run) /\ w.keepLeft \in Seq(Table) /\ w.keepRight \in Seq(Table)
  BY <1>1, <1>2 DEF Fits, Cut
<1>4. w.target = LastLevel /\ w.older = <<>>
  BY DEF PickSplice, SpliceOf
<1>5. LastLevel \in Nat /\ <<>> \in Seq(Run)
  BY LevelsAre
<1>6. w = [kind |-> w.kind, level |-> w.level, target |-> w.target, inputs |-> w.inputs,
           older |-> w.older, keepLeft |-> w.keepLeft, keepRight |-> w.keepRight]
  BY DEF PickSplice, SpliceOf
<1> HIDE DEF w
<1>7. w \in Work
  BY <1>1, <1>3, <1>4, <1>5, <1>6 DEF Work
<1> QED  BY <1>1, <1>7 DEF Startable, w

\* Work above a level (pick_before).
LEMMA PickBeforeFits ==
  ASSUME OptionsAssumption, opts \in OptionSets, Whole(levels), NEW before \in Nat
  PROVE  \/ PickBefore(before) = <<>>
         \/ \E w \in Work : /\ PickBefore(before) = <<w>> /\ Startable(w)
                            /\ w.kind = "tier" /\ w.level < before
<1> DEFINE E == Eligible(before)
<1>1. SUFFICES ASSUME E # {}
               PROVE  \E w \in Work : /\ PickBefore(before) = <<w>> /\ Startable(w)
                                      /\ w.kind = "tier" /\ w.level < before
  BY DEF PickBefore
<1>2. LastLevel \in Nat \ {0}
  BY LevelsAre
<1> DEFINE top == Min({LastLevel - 1, before - 1})
<1>3. top \in Int /\ top <= LastLevel - 1 /\ top <= before - 1
  <2> DEFINE a == LastLevel - 1
             b == before - 1
  <2>1. a \in Int /\ b \in Int
    BY <1>2
  <2> HIDE DEF a, b
  <2>2. Min({a, b}) \in {a, b} /\ Min({a, b}) <= a /\ Min({a, b}) <= b
    BY <2>1, SmallerOfTwo
  <2> QED  BY <2>1, <2>2 DEF a, b
<1> HIDE DEF top
<1>4. E \in SUBSET (1 .. top) /\ \A l \in E : Len(levels[l]) >= Trigger(l)
  BY DEF Eligible, top
<1> HIDE DEF E
<1>5. IsFiniteSet(E) /\ E \in SUBSET Int
  <2>1. \A l \in E : l \in Int /\ 1 <= l /\ l <= top
    BY <1>3, <1>4
  <2> QED  BY <1>3, <2>1, InIntervalFinite
<1> DEFINE l == Min(E)
<1>6. l \in E
  BY <1>1, <1>5, MinIsLeast
<1> HIDE DEF l
<1>7. l \in 1 .. LastLevel - 1 /\ l < before
  BY <1>2, <1>3, <1>4, <1>6
<1>8. levels[l] # <<>>
  <2>1. Trigger(l) \in Nat \ {0}
    BY DEF Trigger, OptionsAssumption, OptionFields
  <2>2. Len(levels[l]) >= 1
    BY <1>2, <1>4, <1>6, <1>7, <2>1, LevelsAre
  <2> QED  BY <2>2
<1>9. Startable(PickTier(l)) /\ PickTier(l).kind = "tier" /\ PickTier(l).level = l
  BY <1>7, <1>8, PickTierFits
<1>10. PickBefore(before) = <<PickTier(l)>>
  BY <1>1 DEF PickBefore, l, E
<1> QED  BY <1>7, <1>9, <1>10 DEF Startable

\* Work of a pass with nothing suspended (pick).
LEMMA PickFits ==
  ASSUME OptionsAssumption, opts \in OptionSets, Whole(levels), NEW forced \in BOOLEAN
  PROVE  \/ Pick(forced) = <<>>
         \/ \E w \in Work : Pick(forced) = <<w>> /\ Startable(w)
<1> DEFINE full == IF forced THEN {l \in 1 .. LastLevel - 1 : Len(levels[l]) >= 2}
                   ELSE Eligible(LastLevel)
           bottom == Len(levels[LastLevel])
<1>1. LastLevel \in Nat \ {0} /\ bottom \in Nat
  BY LevelsAre
<1>2. CASE full # {}
  <2>1. full \in SUBSET (1 .. LastLevel - 1) /\ \A l \in full : levels[l] # <<>>
    <3>1. CASE forced
      <4>1. \A l \in full : l \in 1 .. LastLevel - 1 /\ Len(levels[l]) >= 2
        BY <3>1
      <4>2. \A l \in full : levels[l] # <<>>
        BY <4>1
      <4> QED  BY <4>1, <4>2
    <3>2. CASE ~forced
      <4> DEFINE T == {LastLevel - 1}
      <4>1. {LastLevel - 1, LastLevel - 1} = T
        OBVIOUS
      <4>2. Min(T) = LastLevel - 1
        <5> DEFINE a == LastLevel - 1
        <5>1. a \in Int
          BY <1>1
        <5> HIDE DEF a
        <5>2. Min({a, a}) \in {a, a}
          BY <5>1, SmallerOfTwo
        <5> QED  BY <5>2, <4>1 DEF a
      <4>3. full = {l \in 1 .. LastLevel - 1 : Len(levels[l]) >= Trigger(l)}
        BY <3>2, <4>1, <4>2 DEF Eligible
      <4>4. \A l : Trigger(l) \in Nat \ {0}
        BY DEF Trigger, OptionsAssumption, OptionFields
      <4>5. ASSUME NEW l \in full PROVE levels[l] # <<>>
        <5>1. l \in 1 .. LastLevel - 1 /\ Len(levels[l]) >= Trigger(l)
          BY <4>3
        <5>2. l \in 1 .. LastLevel
          BY <1>1, <5>1
        <5>3. Len(levels[l]) \in Nat
          BY <5>2, LevelsAre
        <5>4. Len(levels[l]) >= 1
          BY <4>4, <5>1, <5>3
        <5> QED  BY <5>4
      <4> QED  BY <4>3, <4>5
    <3> QED  BY <3>1, <3>2
  <2>2. Pick(forced) = <<PickTier(Min(full))>>
    BY <1>2 DEF Pick
  <2> HIDE DEF full
  <2>3. IsFiniteSet(full) /\ full \in SUBSET Int
    <3> DEFINE b == LastLevel - 1
    <3>1. b \in Int /\ \A l \in full : l \in Int /\ 1 <= l /\ l <= b
      BY <1>1, <2>1
    <3> HIDE DEF b
    <3> QED  BY <3>1, InIntervalFinite
  <2>4. Min(full) \in full
    BY <1>2, <2>3, MinIsLeast
  <2>5. Startable(PickTier(Min(full)))
    BY <2>1, <2>4, PickTierFits
  <2> QED  BY <2>2, <2>5 DEF Startable
<1>3. CASE full = {}
  <2>1. Pick(forced) \in {<<PickDeepen>>, <<>>} \/ (bottom >= 2 /\ Pick(forced) = <<PickSplice>>)
    BY <1>3 DEF Pick
  <2>2. Startable(PickDeepen)
    BY PickDeepenFits
  <2>3. bottom >= 2 => Startable(PickSplice)
    BY PickSpliceFits
  <2> QED  BY <2>1, <2>2, <2>3 DEF Startable
<1> QED  BY <1>2, <1>3

-----------------------------------------------------------------------------
(* The registry                                                            *)

\* Only visible numbers are registered.
LEMMA OnlyVisibleRegistered ==
  ASSUME NEW snaps \in [SeqNo -> Nat], NEW h, NEW vis, Handles(snaps, h, vis)
  PROVE  \A s \in SeqNo : snaps[s] > 0 => s <= vis
<1> SUFFICES ASSUME NEW s \in SeqNo, snaps[s] > 0 PROVE s <= vis
  OBVIOUS
<1> DEFINE H == {r \in Readers : h[r] = s}
<1>1. snaps[s] = Cardinality(H) /\ snaps[s] \in Nat
  BY DEF Handles
<1>2. H # {}
  BY <1>1, FS_EmptySet
<1> QED  BY <1>2 DEF Handles

\* The floor of the present registry.
LEMMA FloorHere ==
  ASSUME OptionsAssumption, Typed, Handles(snapshots, held, visible)
  PROVE  LET F == Floor(snapshots, visible)
         IN  /\ F \in SeqNo /\ F \in Nat /\ F <= visible
             /\ \A s \in SeqNo : snapshots[s] > 0 => F <= s
             /\ F = visible \/ snapshots[F] > 0
<1>1. MaxSeq \in Nat /\ snapshots \in [SeqNo -> Nat] /\ visible \in SeqNo
  BY DEF OptionsAssumption, Typed
<1>2. \A s \in SeqNo : snapshots[s] > 0 => s <= visible
  BY OnlyVisibleRegistered DEF Typed
<1> QED  BY <1>1, <1>2, FloorIs, SeqNoIsFinite

\* The states try_register_snapshot_at accepts are those from the floor to the
\* visible one.
LEMMA RegistrableIsAboveFloor ==
  ASSUME OptionsAssumption, Typed, Handles(snapshots, held, visible), NEW s \in SeqNo
  PROVE  CanRegister(s) <=> Floor(snapshots, visible) <= s /\ s <= visible
<1>1. Floor(snapshots, visible) = IF Registered = {} THEN visible ELSE Min(Registered)
  BY DEF Floor, Registered
<1>2. /\ Floor(snapshots, visible) \in Nat /\ Floor(snapshots, visible) <= visible
      /\ visible \in Nat /\ s \in Nat
  BY FloorHere, SeqNoIsFinite DEF Typed, OptionsAssumption
<1>3. CASE Registered = {}
  BY <1>1, <1>2, <1>3 DEF CanRegister, Watermark
<1>4. CASE Registered # {}
  BY <1>1, <1>2, <1>4 DEF CanRegister, Watermark
<1> QED  BY <1>3, <1>4

\* One more or one less member.
LEMMA HolderAdded ==
  ASSUME NEW S, IsFiniteSet(S), NEW r, r \notin S
  PROVE  Cardinality(S \cup {r}) = Cardinality(S) + 1
BY FS_AddElement

\* One handle fewer.
LEMMA HolderGone ==
  ASSUME NEW S, IsFiniteSet(S), NEW r \in S
  PROVE  Cardinality(S \ {r}) = Cardinality(S) - 1 /\ Cardinality(S \ {r}) \in Nat
BY FS_RemoveElement, FS_CardinalityType

\* Registering at the floor or above it.
LEMMA RegisterKeeps ==
  ASSUME OptionsAssumption, Typed, Handles(snapshots, held, visible), NEW r \in Readers, held[r] = NoSeq,
         NEW s \in SeqNo, s <= visible, Floor(snapshots, visible) <= s, Register(r, s),
         visible' = visible
  PROVE  /\ snapshots' \in [SeqNo -> Nat] /\ held' \in [Readers -> SeqNo \cup {NoSeq}]
         /\ Handles(snapshots', held', visible')
         /\ \A t \in SeqNo : snapshots'[t] > 0 => snapshots[t] > 0 \/ t >= Floor(snapshots, visible)
<1> DEFINE H(t) == {q \in Readers : held[q] = t}
           H2(t) == {q \in Readers : held'[q] = t}
<1>1. /\ snapshots \in [SeqNo -> Nat] /\ held \in [Readers -> SeqNo \cup {NoSeq}]
      /\ snapshots' = [snapshots EXCEPT ![s] = @ + 1] /\ held' = [held EXCEPT ![r] = s]
  BY DEF Typed, Register
<1>2. /\ snapshots' \in [SeqNo -> Nat] /\ held' \in [Readers -> SeqNo \cup {NoSeq}]
      /\ snapshots'[s] = snapshots[s] + 1
      /\ \A t \in SeqNo : t # s => snapshots'[t] = snapshots[t]
      /\ held'[r] = s /\ \A q \in Readers : q # r => held'[q] = held[q]
  BY <1>1
<1>3. \A t \in SeqNo : IsFiniteSet(H(t)) /\ snapshots[t] = Cardinality(H(t))
  <2>1. \A t \in SeqNo : H(t) \in SUBSET Readers
    OBVIOUS
  <2>2. \A t \in SeqNo : snapshots[t] = Cardinality(H(t))
    BY DEF Handles
  <2> HIDE DEF H
  <2> QED  BY <2>1, <2>2, FS_Subset DEF OptionsAssumption
<1>4. s # NoSeq /\ \A t \in SeqNo : r \notin H(t)
  BY SeqNoIsFinite DEF NoSeq, OptionsAssumption
<1>5. H2(s) = H(s) \cup {r}
  BY <1>2, <1>4
<1>6. \A t \in SeqNo : t # s => H2(t) = H(t)
  BY <1>2, <1>4
<1>7. \A t \in SeqNo : snapshots'[t] = Cardinality(H2(t))
  <2> SUFFICES ASSUME NEW t \in SeqNo PROVE snapshots'[t] = Cardinality(H2(t))
    OBVIOUS
  <2> HIDE DEF H, H2
  <2>1. CASE t = s
    BY <1>2, <1>3, <1>4, <1>5, <2>1, HolderAdded
  <2>2. CASE t # s
    BY <1>2, <1>3, <1>6, <2>2
  <2> QED  BY <2>1, <2>2
<1>8. \A q \in Readers : held'[q] <= visible'
  BY <1>2 DEF Handles
<1>9. Handles(snapshots', held', visible')
  BY <1>7, <1>8 DEF Handles
<1>10. \A t \in SeqNo : snapshots'[t] > 0 => snapshots[t] > 0 \/ t >= Floor(snapshots, visible)
  <2> SUFFICES ASSUME NEW t \in SeqNo, snapshots'[t] > 0
               PROVE  snapshots[t] > 0 \/ t >= Floor(snapshots, visible)
    OBVIOUS
  <2>1. Floor(snapshots, visible) \in Nat /\ t \in Nat
    BY FloorHere, SeqNoIsFinite DEF OptionsAssumption
  <2> QED  BY <1>2, <2>1
<1> QED  BY <1>2, <1>9, <1>10

\* A holder lets its snapshot go.
LEMMA DeregisterKeeps ==
  ASSUME OptionsAssumption, Typed, Handles(snapshots, held, visible), NEW r \in Readers, DeregisterSnapshot(r)
  PROVE  /\ snapshots' \in [SeqNo -> Nat] /\ held' \in [Readers -> SeqNo \cup {NoSeq}]
         /\ Handles(snapshots', held', visible')
         /\ \A t \in SeqNo : snapshots'[t] > 0 => snapshots[t] > 0
<1> DEFINE H(t) == {q \in Readers : held[q] = t}
           H2(t) == {q \in Readers : held'[q] = t}
           s == held[r]
<1>1. /\ snapshots \in [SeqNo -> Nat] /\ held \in [Readers -> SeqNo \cup {NoSeq}]
      /\ snapshots' = [snapshots EXCEPT ![s] = @ - 1] /\ held' = [held EXCEPT ![r] = NoSeq]
      /\ s # NoSeq /\ visible' = visible
  BY DEF Typed, DeregisterSnapshot, treeVars
<1>2. s \in SeqNo
  BY <1>1
<1>3. \A t \in SeqNo : IsFiniteSet(H(t)) /\ snapshots[t] = Cardinality(H(t))
  <2>1. \A t \in SeqNo : H(t) \in SUBSET Readers
    OBVIOUS
  <2>2. \A t \in SeqNo : snapshots[t] = Cardinality(H(t))
    BY DEF Handles
  <2> HIDE DEF H
  <2> QED  BY <2>1, <2>2, FS_Subset DEF OptionsAssumption
<1>4. r \in H(s) /\ \A t \in SeqNo : t # NoSeq
  BY SeqNoIsFinite DEF NoSeq, OptionsAssumption
<1>5. /\ held' \in [Readers -> SeqNo \cup {NoSeq}]
      /\ held'[r] = NoSeq /\ \A q \in Readers : q # r => held'[q] = held[q]
  BY <1>1
<1>6. H2(s) = H(s) \ {r}
  BY <1>2, <1>4, <1>5
<1>7. \A t \in SeqNo : t # s => H2(t) = H(t)
  BY <1>4, <1>5
<1> HIDE DEF H, H2, s
<1>8. Cardinality(H2(s)) = snapshots[s] - 1 /\ Cardinality(H2(s)) \in Nat
  BY <1>2, <1>3, <1>4, <1>6, HolderGone
<1>9. /\ snapshots' \in [SeqNo -> Nat] /\ snapshots'[s] = snapshots[s] - 1
      /\ \A t \in SeqNo : t # s => snapshots'[t] = snapshots[t]
  <2>1. snapshots[s] - 1 \in Nat
    BY <1>8
  <2> QED  BY <1>1, <1>2, <2>1
<1>10. \A t \in SeqNo : snapshots'[t] = Cardinality(H2(t))
  BY <1>3, <1>7, <1>8, <1>9
<1>11. \A q \in Readers : held'[q] <= visible'
  <2>1. visible \in Nat /\ NoSeq <= visible
    BY SeqNoIsFinite DEF NoSeq, OptionsAssumption, Typed
  <2> QED  BY <1>1, <1>5, <2>1 DEF Handles
<1>12. Handles(snapshots', held', visible')
  BY <1>10, <1>11 DEF Handles, H2
<1>13. \A t \in SeqNo : snapshots'[t] > 0 => snapshots[t] > 0
  BY <1>1, <1>9
<1> QED  BY <1>5, <1>9, <1>12, <1>13

\* What holds from a floor up holds from a higher one up.
LEMMA UnharmedAbove ==
  ASSUME OptionsAssumption, NEW ch, NEW lg \in SUBSET Version, NEW F \in Nat, NEW G \in Nat,
         F <= G, Unharmed(ch, lg, F)
  PROVE  Unharmed(ch, lg, G)
<1>1. \A v \in lg : v.seq \in Int
  BY DEF Version
<1>2. \A s \in SeqNo : s \in Nat
  BY SeqNoIsFinite DEF OptionsAssumption
<1>3. \A v \in lg : v \in ch \/ v.seq <= G
  BY <1>1 DEF Unharmed
<1>4. \A k \in Keys, s \in SeqNo : s >= G => Live(NewestAt(ch, k, s)) = Live(NewestAt(lg, k, s))
  BY <1>2 DEF Unharmed
<1> QED  BY <1>3, <1>4 DEF Unharmed

\* What a watermark lets a job drop stays below a floor that has risen.
LEMMA CoveredAbove ==
  ASSUME NEW j \in Job, NEW F \in Nat, NEW G \in Nat, F <= G, Covered(j, F)
  PROVE  Covered(j, G)
<1>1. j.inputs \in Seq(Run)
  BY DEF Job
<1>2. \A v \in InputVersions(j) : v.seq \in Int
  BY <1>1, InputsAreVersions DEF Version
<1> QED  BY <1>2 DEF Covered

\* The job slots hold jobs.
LEMMA JobsAreJobs ==
  ASSUME NEW act \in Seq(Job), NEW sus \in Seq(Job)
  PROVE  Jobs(act, sus) \in SUBSET Job
BY DEF Jobs, Range

\* Jobs under way are still so when the floor has risen.
LEMMA UnderWayAbove ==
  ASSUME NEW js \in SUBSET Job, NEW F \in Nat, NEW G \in Nat, F <= G, UnderWay(js, F)
  PROVE  UnderWay(js, G)
BY CoveredAbove DEF UnderWay

\* A registration or the end of one (register_snapshot,
\* try_register_snapshot_at, deregister_snapshot).
LEMMA RegistryStep ==
  ASSUME OptionsAssumption, TreeInv, NEW r \in Readers,
         RegisterSnapshot(r) \/ TryRegisterSnapshotAt(r) \/ DeregisterSnapshot(r)
  PROVE  TreeInv'
<1> DEFINE F == Floor(snapshots, visible)
           G == Floor(snapshots', visible)
<1>1. Typed /\ Handles(snapshots, held, visible)
  BY DEF TreeInv
<1>2. UNCHANGED <<opts, mem, imms, levels, visible, phase, force, picked, active, suspended,
                  admitted, bgError, faults, log>>
  BY DEF RegisterSnapshot, TryRegisterSnapshotAt, DeregisterSnapshot, treeVars, schedVars
<1>3. F \in Nat /\ F <= visible /\ visible \in SeqNo /\ MaxSeq \in Nat
  BY <1>1, FloorHere DEF Typed, OptionsAssumption
<1>4. /\ snapshots' \in [SeqNo -> Nat] /\ held' \in [Readers -> SeqNo \cup {NoSeq}]
      /\ Handles(snapshots', held', visible')
      /\ \A t \in SeqNo : snapshots'[t] > 0 => snapshots[t] > 0 \/ t >= Floor(snapshots, visible)
  <2>1. CASE RegisterSnapshot(r)
    <3>1. held[r] = NoSeq /\ Register(r, visible)
      BY <2>1 DEF RegisterSnapshot
    <3>2. visible <= visible
      BY <1>3, SeqNoIsFinite
    <3> QED  BY <1>1, <1>2, <1>3, <3>1, <3>2, RegisterKeeps
  <2>2. CASE TryRegisterSnapshotAt(r)
    <3>1. PICK s \in SeqNo : held[r] = NoSeq /\ CanRegister(s) /\ Register(r, s)
      BY <2>2 DEF TryRegisterSnapshotAt
    <3>2. F <= s /\ s <= visible
      BY <1>1, <3>1, RegistrableIsAboveFloor
    <3> QED  BY <1>1, <1>2, <3>1, <3>2, RegisterKeeps
  <2>3. CASE DeregisterSnapshot(r)
    BY <1>1, <2>3, DeregisterKeeps
  <2> QED  BY <2>1, <2>2, <2>3
<1>5. Typed'
  BY <1>1, <1>2, <1>4 DEF Typed
<1>6. G \in Nat /\ F <= G
  <2>1. \A s \in SeqNo : snapshots[s] > 0 => s <= visible
    BY <1>1, OnlyVisibleRegistered DEF Typed
  <2>3. \A s \in SeqNo : snapshots'[s] > 0 => s <= visible
    <3>1. \A s \in SeqNo : snapshots'[s] > 0 => s <= visible'
      BY <1>4, OnlyVisibleRegistered
    <3> QED  BY <1>2, <3>1
  <2>4. snapshots \in [SeqNo -> Nat] /\ visible <= visible
    BY <1>1, <1>3, SeqNoIsFinite DEF Typed
  <2>5. G \in SeqNo
    BY <1>3, <1>4, <2>3, FloorIs
  <2>6. F <= G
    BY <1>3, <1>4, <2>1, <2>3, <2>4, FloorRises
  <2> QED  BY <1>3, <2>5, <2>6, SeqNoIsFinite
<1>7. log \in SUBSET Version /\ Unharmed(Children(mem, imms, levels), log, F)
      /\ Slots /\ UnderWay(Jobs(active, suspended), F)
  BY DEF TreeInv, History
<1> HIDE DEF F, G
<1>8. Unharmed(Children(mem, imms, levels), log, G)
  BY <1>3, <1>6, <1>7, UnharmedAbove
<1>9. UnderWay(Jobs(active, suspended), G)
  BY <1>3, <1>6, <1>7, UnderWayAbove, JobsAreJobs DEF Slots
<1>10. Floor(snapshots', visible') = G
  BY <1>2 DEF G
<1>11. /\ Unharmed(Children(mem', imms', levels'), log', G)
       /\ UnderWay(Jobs(active', suspended'), G)
  BY <1>2, <1>8, <1>9
<1>12. /\ Whole(levels') /\ Memory(mem', imms', levels')
       /\ History(Children(mem', imms', levels'), log', visible')
       /\ Slots' /\ Nested' /\ InPlace(levels', picked', Jobs(active', suspended'))
  BY <1>2 DEF TreeInv, Slots, Nested
<1> QED  BY <1>4, <1>5, <1>10, <1>11, <1>12 DEF TreeInv

-----------------------------------------------------------------------------
(* The pass                                                                *)

\* A step that leaves the sources, the history and the registry alone.
LEMMA QuietStep ==
  ASSUME TreeInv, UNCHANGED <<mem, imms, levels, visible, snapshots, held, log>>,
         Typed', Slots', Nested',
         InPlace(levels, picked', Jobs(active', suspended')),
         UnderWay(Jobs(active', suspended'), Floor(snapshots, visible))
  PROVE  TreeInv'
BY DEF TreeInv

\* The jobs in slots that are empty, or hold one.
LEMMA EmptyJobs ==
  ASSUME TRUE
  PROVE  /\ Jobs(<<>>, <<>>) = {} /\ Range(<<>>) = {}
         /\ \A x, S : Jobs(<<x>>, S) = {x} \cup Range(S)
         /\ \A S : Jobs(<<>>, S) = Range(S)
         /\ \A x : Range(<<x>>) = {x}
<1>1. Range(<<>>) = {}
  BY DEF Range
<1>2. \A x : Range(<<x>>) = {x}
  BY DEF Range
<1> QED  BY <1>1, <1>2 DEF Jobs

\* A sequence of one.
LEMMA OneOf ==
  ASSUME NEW S, NEW s \in Seq(S), Len(s) = 1
  PROVE  s[1] \in S /\ s = <<s[1]>> /\ Range(s) = {s[1]}
<1>1. 1 \in 1 .. Len(s)
  OBVIOUS
<1>2. s[1] \in S
  BY <1>1, ElementOfSeq
<1>3. s = <<s[1]>>
  BY <1>2
<1> QED  BY <1>2, <1>3, EmptyJobs

\* A pass begins: nothing is suspended, and what is picked can be started
\* (maintenance_pass, compact_until_quiet).
LEMMA StartPassStep ==
  ASSUME OptionsAssumption, TreeInv, NEW f \in BOOLEAN, StartPass(f)
  PROVE  TreeInv'
<1>1. /\ phase = "off" /\ force' = f /\ picked' = Pick(f) /\ phase' = "start" /\ Pick(f) # <<>>
      /\ UNCHANGED <<opts, mem, imms, levels, visible, snapshots, held, active, suspended,
                     admitted, bgError, faults, log>>
  BY DEF StartPass, treeVars, snapVars
<1>2. active = <<>> /\ suspended = <<>>
  BY <1>1 DEF TreeInv, Slots
<1>3. PICK w \in Work : Pick(f) = <<w>> /\ Startable(w)
  BY <1>1, PickFits DEF TreeInv, Typed
<1>4. picked' = <<w>> /\ Range(picked') = {w} /\ Jobs(active', suspended') = {}
  BY <1>1, <1>2, <1>3, EmptyJobs
<1>5. Typed'
  BY <1>1 DEF TreeInv, Typed
<1>6. Slots'
  BY <1>1, <1>2, <1>4 DEF TreeInv, Slots
<1>7. Nested'
  BY <1>1, <1>2 DEF Nested
<1>8. InPlace(levels, picked', Jobs(active', suspended'))
  BY <1>3, <1>4 DEF InPlace, Startable
<1>9. UnderWay(Jobs(active', suspended'), Floor(snapshots, visible))
  BY <1>4 DEF UnderWay
<1> QED  BY <1>1, <1>5, <1>6, <1>7, <1>8, <1>9, QuietStep

\* The pass looks for work with nothing suspended (Scheduler::schedule).
LEMMA ScheduleFreshStep ==
  ASSUME OptionsAssumption, TreeInv, ScheduleFresh
  PROVE  TreeInv'
<1>1. /\ active = <<>> /\ suspended = <<>> /\ phase = "step" /\ picked' = Pick(force)
      /\ IF Pick(force) = <<>> THEN phase' = "off" /\ force' = FALSE
                               ELSE phase' = "start" /\ UNCHANGED force
      /\ UNCHANGED <<opts, mem, imms, levels, visible, snapshots, held, active, suspended,
                     admitted, bgError, faults, log>>
  BY DEF ScheduleFresh, treeVars, snapVars
<1>2. Typed'
  BY <1>1 DEF TreeInv, Typed
<1>3. Jobs(active', suspended') = {}
  BY <1>1, EmptyJobs
<1>4. UnderWay(Jobs(active', suspended'), Floor(snapshots, visible))
  BY <1>3 DEF UnderWay
<1>5. Nested'
  BY <1>1 DEF Nested
<1>6. CASE Pick(force) = <<>>
  <2>1. Slots'
    BY <1>1, <1>6 DEF TreeInv, Slots
  <2>2. InPlace(levels, picked', Jobs(active', suspended'))
    BY <1>1, <1>3, <1>6, EmptyJobs DEF InPlace
  <2> QED  BY <1>1, <1>2, <1>4, <1>5, <2>1, <2>2, QuietStep
<1>7. CASE Pick(force) # <<>>
  <2>1. PICK w \in Work : Pick(force) = <<w>> /\ Startable(w)
    BY <1>7, PickFits DEF TreeInv, Typed
  <2>2. picked' = <<w>> /\ Range(picked') = {w}
    BY <1>1, <2>1, EmptyJobs
  <2>3. Slots'
    BY <1>1, <1>7, <2>2 DEF TreeInv, Slots
  <2>4. InPlace(levels, picked', Jobs(active', suspended'))
    BY <1>3, <2>1, <2>2 DEF InPlace, Startable
  <2> QED  BY <1>1, <1>2, <1>4, <1>5, <2>3, <2>4, QuietStep
<1> QED  BY <1>6, <1>7

\* Appending to the suspended jobs.
Extends(s, x, t) ==
    /\ t \in Seq(Job) /\ Range(t) = Range(s) \cup {x}
    /\ DOMAIN t = 1 .. Len(s) + 1 /\ Len(s) \in Nat /\ DOMAIN s = 1 .. Len(s)
    /\ \A i \in 1 .. Len(s) : t[i] = s[i]
    /\ t[Len(s) + 1] = x

\* A suspended job goes behind those suspended before.
LEMMA SuspendedGrows ==
  ASSUME NEW s \in Seq(Job), NEW x \in Job, NEW t, t = Behind(s, x)
  PROVE  Extends(s, x, t)
<1>1. <<x>> \in Seq(Job) /\ Len(<<x>>) = 1 /\ <<x>>[1] = x /\ Range(<<x>>) = {x}
  BY EmptyJobs
<1> DEFINE u == <<x>>
<1> HIDE DEF u
<1>2. u \in Seq(Job) /\ Len(u) = 1 /\ u[1] = x /\ Range(u) = {x} /\ t = s \o u
  BY <1>1 DEF u, Behind
<1>3. s \o u \in Seq(Job) /\ Range(s \o u) = Range(s) \cup Range(u)
  BY <1>2, ConcatRange, ConcatProperties
<1>4. Len(s) \in Nat /\ DOMAIN s = 1 .. Len(s) /\ Len(t) = Len(s) + 1 /\ DOMAIN t = 1 .. Len(t)
  BY <1>2, <1>3, ConcatProperties, LenProperties
<1>5. /\ \A i \in 1 .. Len(s) : t[i] = s[i]
      /\ t[Len(s) + 1] = x
  BY <1>2, <1>4, ConcatProperties
<1> QED  BY <1>2, <1>3, <1>4, <1>5 DEF Extends

\* The last of the suspended jobs and the ones before it.
LEMMA InnermostOf ==
  ASSUME NEW S, NEW s \in Seq(S), s # <<>>
  PROVE  /\ Front(s) \in Seq(S) /\ Last(s) \in S /\ Last(s) = s[Len(s)]
         /\ Len(s) \in Nat \ {0} /\ DOMAIN s = 1 .. Len(s)
         /\ DOMAIN Front(s) = 1 .. Len(s) - 1
         /\ \A i \in 1 .. Len(s) - 1 : Front(s)[i] = s[i]
         /\ Range(s) = Range(Front(s)) \cup {Last(s)}
<1> DEFINE n == Len(s)
           t == Front(s)
<1>1. n \in Nat \ {0} /\ DOMAIN s = 1 .. n /\ \A i \in 1 .. n : s[i] \in S
  BY EmptySeq, LenProperties, ElementOfSeq
<1>2. Last(s) = s[n] /\ Last(s) \in S
  BY <1>1 DEF Last
<1>3. t \in Seq(S) /\ DOMAIN t = 1 .. n - 1 /\ \A i \in 1 .. n - 1 : t[i] = s[i]
  <2>1. \A i \in 1 .. n - 1 : s[i] \in S
    BY <1>1
  <2>2. t = SubSeq(s, 1, n - 1)
    BY DEF Front
  <2> QED  BY <1>1, <2>1, <2>2, SubSeqProperties
<1>4. Range(s) = Range(t) \cup {Last(s)}
  <2> HIDE DEF n, t
  <2>1. \A i \in 1 .. n : i = n \/ i \in 1 .. n - 1
    BY <1>1
  <2>2. \A i \in 1 .. n - 1 : i \in 1 .. n
    BY <1>1
  <2>3. \A x : x \in Range(s) <=> \E i \in 1 .. n : x = s[i]
    BY <1>1 DEF Range
  <2>4. \A x : x \in Range(t) <=> \E i \in 1 .. n - 1 : x = s[i]
    BY <1>3 DEF Range
  <2>5. n \in 1 .. n
    BY <1>1
  <2>6. \A x : x \in Range(s) <=> x \in Range(t) \cup {Last(s)}
    BY <1>2, <2>1, <2>2, <2>3, <2>4, <2>5
  <2> QED  BY <2>6
<1> QED  BY <1>1, <1>2, <1>3, <1>4

\* The active job of a step.
LEMMA TheActiveJob ==
  ASSUME Slots, active # <<>>
  PROVE  \E j \in Job : active = <<j>> /\ active[1] = j /\ Range(active) = {j}
<1>1. active \in Seq(Job) /\ Len(active) = 1
  <2>1. active \in Seq(Job) /\ Len(active) <= 1
    BY DEF Slots
  <2> DEFINE n == Len(active)
  <2>2. n \in Nat /\ n # 0
    BY <2>1, EmptySeq, LenProperties
  <2>3. n <= 1
    BY <2>1
  <2> HIDE DEF n
  <2>4. n = 1
    BY <2>2, <2>3
  <2> QED  BY <2>1, <2>4 DEF n
<1> QED  BY <1>1, OneOf

\* An upper level that filled up takes over, and the active job waits with its
\* inputs and its partial output (Scheduler::preempt).
LEMMA PreemptStep ==
  ASSUME OptionsAssumption, TreeInv, Preempt
  PROVE  TreeInv'
<1>1. /\ phase = "step" /\ active # <<>>
      /\ UNCHANGED <<opts, mem, imms, levels, visible, snapshots, held, force,
                     admitted, bgError, faults, log>>
  BY DEF Preempt, treeVars, snapVars
<1>2. /\ Typed /\ Slots /\ Nested /\ Whole(levels)
      /\ InPlace(levels, picked, Jobs(active, suspended))
      /\ UnderWay(Jobs(active, suspended), Floor(snapshots, visible))
  BY DEF TreeInv
<1>3. PICK j \in Job : active = <<j>> /\ active[1] = j /\ Range(active) = {j}
  BY <1>1, <1>2, TheActiveJob
<1>4. Typed'
  BY <1>1, <1>2 DEF Typed
<1>5. CASE PickBefore(j.level) = <<>>
  <2>1. phase' = "slice" /\ UNCHANGED <<picked, active, suspended>>
    BY <1>3, <1>5 DEF Preempt
  <2>2. Slots'
    BY <1>1, <1>2, <1>3, <2>1 DEF Slots
  <2>3. Nested'
    BY <1>2, <2>1 DEF Nested
  <2> QED  BY <1>1, <1>2, <1>4, <2>1, <2>2, <2>3, QuietStep
<1>6. CASE PickBefore(j.level) # <<>>
  <2>1. /\ phase' = "start" /\ picked' = PickBefore(j.level) /\ active' = <<>>
        /\ suspended' = suspended \o <<j>>
    BY <1>3, <1>6 DEF Preempt
  <2>2. j.level \in Nat
    BY DEF Job
  <2>3. PICK w \in Work : /\ PickBefore(j.level) = <<w>> /\ Startable(w)
                          /\ w.kind = "tier" /\ w.level < j.level
    BY <1>2, <1>6, <2>2, PickBeforeFits DEF Typed
  <2>4. picked' = <<w>> /\ Range(picked') = {w}
    BY <2>1, <2>3, EmptyJobs
  <2> DEFINE n == Len(suspended)
  <2>5. suspended \in Seq(Job)
    BY <1>2 DEF Slots
  <2>5a. suspended' = Behind(suspended, j)
    BY <2>1 DEF Behind
  <2>6. /\ suspended' \in Seq(Job) /\ Range(suspended') = Range(suspended) \cup {j}
        /\ DOMAIN suspended' = 1 .. n + 1 /\ n \in Nat /\ DOMAIN suspended = 1 .. n
        /\ \A i \in 1 .. n : suspended'[i] = suspended[i]
        /\ suspended'[n + 1] = j
    <3> DEFINE t == suspended'
               s == suspended
    <3> HIDE DEF t, s, n
    <3>1. s \in Seq(Job) /\ t = Behind(s, j) /\ j \in Job
      BY <2>5, <2>5a DEF s, t
    <3>2. Extends(s, j, t)
      BY <3>1, SuspendedGrows
    <3> QED  BY <3>2 DEF s, t, n, Extends
  <2>7. Jobs(active', suspended') = Jobs(active, suspended)
    BY <1>3, <2>1, <2>6, EmptyJobs DEF Jobs
  <2>8. Slots'
    BY <2>1, <2>4, <2>6 DEF Slots
  <2>9. \A i \in 1 .. n : /\ j.level < suspended[i].level /\ j.runId # suspended[i].runId
                          /\ suspended[i].level \in Nat
    <3>1. \A i \in 1 .. n : suspended[i] \in Job
      BY <2>5, <2>6, ElementOfSeq
    <3> QED  BY <1>2, <1>3, <2>6, <3>1 DEF Nested, Job
  <2> HIDE DEF n
  <2>10. \A i \in DOMAIN suspended' : i = n + 1 \/ i \in 1 .. n
    BY <2>6
  <2>11. \A i \in DOMAIN suspended' : w.level < suspended'[i].level
    <3>1. w.level \in Nat
      BY <2>3 DEF Work
    <3> QED  BY <2>2, <2>3, <2>6, <2>9, <2>10, <3>1
  <2>12. \A a, b \in DOMAIN suspended' : a < b =>
            suspended'[b].level < suspended'[a].level /\ suspended'[a].runId # suspended'[b].runId
    <3> SUFFICES ASSUME NEW a \in DOMAIN suspended', NEW b \in DOMAIN suspended', a < b
                 PROVE  suspended'[b].level < suspended'[a].level
                        /\ suspended'[a].runId # suspended'[b].runId
      OBVIOUS
    <3>1. a \in 1 .. n /\ suspended'[a] = suspended[a]
      BY <2>6
    <3>2. CASE b = n + 1
      BY <2>6, <2>9, <3>1, <3>2
    <3>3. CASE b \in 1 .. n
      BY <1>2, <2>6, <3>1, <3>3 DEF Nested
    <3> QED  BY <2>10, <3>2, <3>3
  <2>13. Nested'
    BY <2>1, <2>3, <2>4, <2>11, <2>12, EmptyJobs DEF Nested
  <2>14. InPlace(levels, picked', Jobs(active', suspended'))
    BY <1>2, <2>3, <2>4, <2>7 DEF InPlace, Startable
  <2> QED  BY <1>1, <1>2, <1>4, <2>7, <2>8, <2>13, <2>14, QuietStep
<1> QED  BY <1>5, <1>6

\* With jobs suspended: work above the innermost one first, then that job.
LEMMA ScheduleSuspendedStep ==
  ASSUME OptionsAssumption, TreeInv, ScheduleSuspended
  PROVE  TreeInv'
<1> DEFINE j == Last(suspended)
           n == Len(suspended)
<1>1. /\ phase = "step" /\ active = <<>> /\ suspended # <<>> /\ picked' = PickBefore(j.level)
      /\ UNCHANGED <<opts, mem, imms, levels, visible, snapshots, held, force,
                     admitted, bgError, faults, log>>
  BY DEF ScheduleSuspended, treeVars, snapVars
<1>2. /\ Typed /\ Slots /\ Nested /\ Whole(levels)
      /\ InPlace(levels, picked, Jobs(active, suspended))
      /\ UnderWay(Jobs(active, suspended), Floor(snapshots, visible))
  BY DEF TreeInv
<1>3. /\ Front(suspended) \in Seq(Job) /\ j \in Job /\ j = suspended[n]
      /\ n \in Nat \ {0} /\ DOMAIN suspended = 1 .. n
      /\ DOMAIN Front(suspended) = 1 .. n - 1
      /\ \A i \in 1 .. n - 1 : Front(suspended)[i] = suspended[i]
      /\ Range(suspended) = Range(Front(suspended)) \cup {j}
  BY <1>1, <1>2, InnermostOf DEF Slots
<1>4. Typed'
  BY <1>1, <1>2 DEF Typed
<1>5. \A i \in 1 .. n - 1 : j.level < suspended[i].level /\ j.runId # suspended[i].runId
  <2> SUFFICES ASSUME NEW i \in 1 .. n - 1
               PROVE  j.level < suspended[i].level /\ j.runId # suspended[i].runId
    OBVIOUS
  <2>1. i \in DOMAIN suspended /\ n \in DOMAIN suspended /\ i < n
    BY <1>3
  <2> QED  BY <1>2, <1>3, <2>1 DEF Nested
<1>6. CASE PickBefore(j.level) = <<>>
  <2>1. active' = <<j>> /\ suspended' = Front(suspended) /\ phase' = "slice" /\ picked' = <<>>
    BY <1>1, <1>6 DEF ScheduleSuspended
  <2> HIDE DEF j, n
  <2>2. Range(active') = {j} /\ Range(picked') = {} /\ active' \in Seq(Job)
    BY <1>3, <2>1, EmptyJobs
  <2>3. Jobs(active', suspended') = Jobs(active, suspended)
    BY <1>1, <1>3, <2>1, <2>2, EmptyJobs DEF Jobs
  <2>4. Slots'
    <3>1. Len(active') = 1 /\ active' # <<>>
      BY <2>1
    <3>2. suspended' \in Seq(Job) /\ picked' \in Seq(Work)
      BY <1>3, <2>1
    <3> QED  BY <2>1, <2>2, <3>1, <3>2 DEF Slots
  <2>5. \A i \in 1 .. n - 1 : i \in DOMAIN suspended
    BY <1>3
  <2>6. Nested'
    BY <1>2, <1>3, <1>5, <2>1, <2>2, <2>5 DEF Nested
  <2>7. InPlace(levels, picked', Jobs(active', suspended'))
    BY <1>2, <2>2, <2>3 DEF InPlace
  <2> QED  BY <1>1, <1>2, <1>4, <2>3, <2>4, <2>6, <2>7, QuietStep
<1>7. CASE PickBefore(j.level) # <<>>
  <2>1. phase' = "start" /\ UNCHANGED <<active, suspended>>
    BY <1>7 DEF ScheduleSuspended
  <2>2. j.level \in Nat
    BY <1>3 DEF Job
  <2> HIDE DEF j, n
  <2>3. PICK w \in Work : /\ PickBefore(j.level) = <<w>> /\ Startable(w)
                          /\ w.kind = "tier" /\ w.level < j.level
    BY <1>2, <1>7, <2>2, PickBeforeFits DEF Typed
  <2>4. picked' = <<w>> /\ Range(picked') = {w}
    BY <1>1, <2>3, EmptyJobs
  <2>5. Slots'
    BY <1>1, <1>2, <2>1, <2>4 DEF Slots
  <2>6. \A i \in DOMAIN suspended : w.level < suspended[i].level
    <3>1. \A i \in 1 .. n : i = n \/ i \in 1 .. n - 1
      BY <1>3
    <3>2. w.level \in Nat /\ \A i \in 1 .. n : suspended[i].level \in Nat
      <4>1. \A i \in 1 .. n : suspended[i] \in Job
        BY <1>2, <1>3, ElementOfSeq DEF Slots
      <4> QED  BY <2>3, <4>1 DEF Work, Job
    <3> QED  BY <1>3, <1>5, <2>2, <2>3, <3>1, <3>2
  <2>7. Nested'
    BY <1>1, <1>2, <2>1, <2>3, <2>4, <2>6, EmptyJobs DEF Nested
  <2>8. InPlace(levels, picked', Jobs(active', suspended'))
    BY <1>2, <2>1, <2>3, <2>4 DEF InPlace, Startable
  <2> QED  BY <1>1, <1>2, <1>4, <2>1, <2>5, <2>7, <2>8, QuietStep
<1> QED  BY <1>6, <1>7

\* An I/O error drops the pass with all its jobs.
LEMMA PassFailsStep ==
  ASSUME OptionsAssumption, TreeInv, PassFails
  PROVE  TreeInv'
<1>1. /\ picked' = <<>> /\ active' = <<>> /\ suspended' = <<>> /\ phase' = "off" /\ force' = FALSE
      /\ bgError' \in BOOLEAN /\ faults < opts.faults /\ faults' = faults + 1
      /\ UNCHANGED <<opts, mem, imms, levels, visible, snapshots, held, admitted, log>>
  BY DEF PassFails, treeVars, snapVars, TreeInv, Typed
<1>2. opts.faults \in Nat
  BY DEF TreeInv, Typed, OptionsAssumption
<1>3. Typed'
  <2>1. faults \in 0 .. opts.faults
    BY DEF TreeInv, Typed
  <2>2. faults' \in 0 .. opts'.faults
    BY <1>1, <1>2, <2>1
  <2> QED  BY <1>1, <2>2 DEF TreeInv, Typed
<1>4. Jobs(active', suspended') = {} /\ Range(picked') = {}
  BY <1>1, EmptyJobs
<1>5. Slots' /\ Nested'
  BY <1>1, EmptyJobs DEF Slots, Nested
<1>6. InPlace(levels, picked', Jobs(active', suspended'))
  BY <1>4 DEF InPlace
<1>7. UnderWay(Jobs(active', suspended'), Floor(snapshots, visible))
  BY <1>4 DEF UnderWay
<1> QED  BY <1>1, <1>3, <1>5, <1>6, <1>7, QuietStep

\* A writer passes the stall check, or a flush fails.
LEMMA OutsideStep ==
  ASSUME OptionsAssumption, TreeInv, (\E w \in Writers : WaitForSpace(w)) \/ FlushFails
  PROVE  TreeInv'
<1>1. /\ UNCHANGED <<mem, imms, levels, visible, snapshots, held, phase, force, picked,
                     active, suspended, log, opts>>
      /\ admitted' \in SUBSET Writers /\ bgError' \in BOOLEAN /\ faults' \in 0 .. opts.faults
  <2>1. opts.faults \in Nat
    BY DEF TreeInv, Typed, OptionsAssumption
  <2>2. admitted \in SUBSET Writers /\ bgError \in BOOLEAN /\ faults \in 0 .. opts.faults
    BY DEF TreeInv, Typed
  <2>3. CASE \E w \in Writers : WaitForSpace(w)
    <3>1. PICK w \in Writers : WaitForSpace(w)
      BY <2>3
    <3>2. /\ UNCHANGED <<mem, imms, levels, visible, snapshots, held, phase, force, picked,
                         active, suspended, log, opts, bgError, faults>>
          /\ admitted' = admitted \cup {w}
      BY <3>1 DEF WaitForSpace, treeVars, snapVars, schedVars
    <3> QED  BY <2>2, <3>2
  <2>4. CASE FlushFails
    <3>1. /\ UNCHANGED <<mem, imms, levels, visible, snapshots, held, phase, force, picked,
                         active, suspended, log, opts, admitted>>
          /\ bgError' = TRUE /\ faults < opts.faults /\ faults' = faults + 1
      BY <2>4 DEF FlushFails, treeVars, snapVars, schedVars
    <3> QED  BY <2>1, <2>2, <3>1
  <2> QED  BY <2>3, <2>4
<1>2. Typed'
  BY <1>1 DEF TreeInv, Typed
<1>3. Slots' /\ Nested'
  BY <1>1 DEF TreeInv, Slots, Nested
<1> QED  BY <1>1, <1>2, <1>3, QuietStep DEF TreeInv

\* What a job merges is in the tree, and there is something.
LEMMA InputsInTree ==
  ASSUME Whole(levels), NEW w, Placed(levels, w)
  PROVE  /\ w.inputs \in Seq(Run) /\ InputVersions(w) \in SUBSET Tree(levels)
         /\ w.kind = "splice" \/ w.inputs # <<>> => InputVersions(w) # {}
<1>1. PICK front \in Seq(Run), back \in Seq(Run) : Fits(levels, w, front, back)
  BY DEF Placed
<1>2. w.inputs \in Seq(Run)
  BY <1>1 DEF Fits
<1>3. Range(back) \in SUBSET RunsOf(levels)
  <2>1. Range(levels[w.level]) = Range(front) \cup Range(back)
    BY <1>1, ConcatRange DEF Fits, Splits
  <2>2. Range(levels[w.level]) \in SUBSET RunsOf(levels)
    BY <1>1 DEF Fits, RunsOf
  <2> QED  BY <2>1, <2>2
<1>4. \A q \in RunsOf(levels) : RunVersions(q) \in SUBSET Tree(levels) /\ RunVersions(q) # {}
  <2> SUFFICES ASSUME NEW q \in RunsOf(levels)
               PROVE  RunVersions(q) \in SUBSET Tree(levels) /\ RunVersions(q) # {}
    OBVIOUS
  <2>1. q \in Run /\ q.tables # <<>>
    BY WholeLevels DEF Whole, Sound
  <2>2. q.tables \in Seq(Table) /\ 1 \in DOMAIN q.tables /\ q.tables[1] \in Table
    <3>1. q.tables \in Seq(Table)
      BY <2>1 DEF Run
    <3>2. Len(q.tables) \in Nat \ {0} /\ DOMAIN q.tables = 1 .. Len(q.tables)
      BY <2>1, <3>1, EmptySeq, LenProperties
    <3>3. 1 \in 1 .. Len(q.tables)
      BY <3>2
    <3> QED  BY <3>1, <3>2, <3>3, ElementOfSeq
  <2>3. q.tables[1] \in Range(q.tables) /\ q.tables[1] # {}
    BY <2>2 DEF Range, Table
  <2> QED  BY <2>3 DEF Tree, RunVersions
<1>5. CASE w.kind # "splice"
  <2>1. w.inputs = back
    BY <1>1, <1>5 DEF Fits
  <2>2. InputVersions(w) \in SUBSET Tree(levels)
    BY <1>3, <1>4, <2>1 DEF InputVersions
  <2>3. ASSUME w.inputs # <<>> PROVE InputVersions(w) # {}
    <3>1. Len(back) \in Nat \ {0} /\ DOMAIN back = 1 .. Len(back)
      BY <2>1, <2>3, EmptySeq, LenProperties
    <3>2. back[1] \in Range(back)
      <4>1. 1 \in 1 .. Len(back)
        BY <3>1
      <4> QED  BY <3>1, <4>1 DEF Range
    <3>3. RunVersions(back[1]) # {}
      BY <1>3, <1>4, <3>2
    <3> QED  BY <2>1, <3>2, <3>3 DEF InputVersions
  <2> QED  BY <1>2, <1>5, <2>2, <2>3
<1>6. CASE w.kind = "splice"
  <2>1. Len(back) = 2 /\ Cut(back[1], back[2], w)
    BY <1>1, <1>6 DEF Fits
  <2>2. back[1] \in Range(back) /\ back[2] \in Range(back)
    <3>1. 1 \in DOMAIN back /\ 2 \in DOMAIN back
      BY <2>1, LenProperties
    <3> QED  BY <3>1 DEF Range
  <2>3. /\ RunVersions(back[1]) \in SUBSET Tree(levels) /\ RunVersions(back[1]) # {}
        /\ RunVersions(back[2]) \in SUBSET Tree(levels)
    BY <1>3, <1>4, <2>2
  <2> DEFINE mid == w.inputs[2]
             upper == back[1]
  <2>4. w.inputs = <<upper, mid>> /\ RunVersions(mid) \in SUBSET RunVersions(back[2])
    BY <2>1 DEF Cut
  <2> HIDE DEF mid, upper
  <2>5. Range(w.inputs) = {upper, mid}
    BY <2>4 DEF Range
  <2>6. InputVersions(w) = RunVersions(upper) \cup RunVersions(mid)
    BY <2>5 DEF InputVersions
  <2> QED  BY <1>2, <2>3, <2>4, <2>6 DEF upper
<1> QED  BY <1>5, <1>6

\* Being in place is a matter of what was picked.
LEMMA PlacedAlike ==
  ASSUME NEW lv, NEW w, NEW j, Placed(lv, w),
         j.kind = w.kind, j.level = w.level, j.target = w.target, j.inputs = w.inputs,
         j.older = w.older, j.keepLeft = w.keepLeft, j.keepRight = w.keepRight
  PROVE  Placed(lv, j)
<1>1. PICK front \in Seq(Run), back \in Seq(Run) : Fits(lv, w, front, back)
  BY DEF Placed
<1>2. w.kind = "splice" => Cut(back[1], back[2], j)
  BY <1>1 DEF Fits, Cut
<1>3. Fits(lv, j, front, back)
  BY <1>1, <1>2 DEF Fits
<1> QED  BY <1>3 DEF Placed

\* The watermark is loaded and the merge cursor put before the first key
\* (RunningJob::new).
LEMMA StartRewriteStep ==
  ASSUME OptionsAssumption, TreeInv, StartRewrite
  PROVE  TreeInv'
<1> DEFINE w == picked[1]
           F == Floor(snapshots, visible)
           j == [kind |-> w.kind, level |-> w.level, target |-> w.target,
                 inputs |-> w.inputs, older |-> w.older,
                 keepLeft |-> w.keepLeft, keepRight |-> w.keepRight,
                 watermark |-> Watermark, runId |-> FreshId,
                 todo |-> {v.key : v \in InputVersions(w)}, out |-> NoOutput]
<1>1. /\ phase = "start" /\ w.kind # "deepen" /\ active' = <<j>> /\ picked' = <<>> /\ phase' = "slice"
      /\ UNCHANGED <<opts, mem, imms, levels, visible, snapshots, held, force, suspended,
                     admitted, bgError, faults, log>>
  BY DEF StartRewrite, snapVars
<1>2. /\ Typed /\ Handles(snapshots, held, visible) /\ Slots /\ Nested /\ Whole(levels)
      /\ InPlace(levels, picked, Jobs(active, suspended))
      /\ UnderWay(Jobs(active, suspended), F)
      /\ Tree(levels) \in SUBSET log /\ log \in SUBSET Version /\ \A v \in log : v.seq <= visible
  BY DEF TreeInv, History, Children
<1>3. picked \in Seq(Work) /\ Len(picked) = 1 /\ active = <<>>
  BY <1>1, <1>2 DEF Slots
<1>4. w \in Work /\ Range(picked) = {w}
  BY <1>3, OneOf
<1>5. /\ Placed(levels, w)
      /\ w.kind = "tier" => w.inputs # <<>>
      /\ \A i \in DOMAIN suspended : w.level < suspended[i].level
      /\ w.kind # "tier" => suspended = <<>>
  BY <1>2, <1>4 DEF InPlace, Nested
<1> DEFINE I == InputVersions(w)
<1>6. /\ w.kind \in {"tier", "splice"} /\ w.level \in Nat /\ w.target \in Nat
      /\ w.inputs \in Seq(Run) /\ w.older \in Seq(Run)
      /\ w.keepLeft \in Seq(Table) /\ w.keepRight \in Seq(Table)
  BY <1>1, <1>4 DEF Work
<1>7. I \in SUBSET Tree(levels) /\ I # {}
  BY <1>2, <1>5, <1>6, InputsInTree
<1>8. /\ FreshId \in Nat /\ \A q \in RunsOf(levels) : q.id # FreshId
      /\ \A x \in Range(active) \cup Range(suspended) : x.runId # FreshId
  BY <1>2, FreshIsFree DEF Slots
<1>9. F \in SeqNo /\ F \in Nat /\ visible \in Nat
  BY <1>2, FloorHere, SeqNoIsFinite DEF Typed, OptionsAssumption
<1>10. Watermark = F \/ (Watermark = visible + 1 /\ F = visible)
  BY DEF Watermark, Floor, Registered
<1>11. Watermark \in Int
  BY <1>9, <1>10
<1>12. KeysOf(I) \in SUBSET Keys /\ KeysOf(I) # {}
  <2>1. I \in SUBSET Version
    BY <1>2, <1>7
  <2>2. \A v \in I : v.key \in Keys
    BY <2>1 DEF Version
  <2> HIDE DEF I
  <2> QED  BY <1>7, <2>2 DEF KeysOf
<1>13. j = [kind |-> w.kind, level |-> w.level, target |-> w.target,
            inputs |-> w.inputs, older |-> w.older,
            keepLeft |-> w.keepLeft, keepRight |-> w.keepRight,
            watermark |-> Watermark, runId |-> FreshId,
            todo |-> KeysOf(I), out |-> NoOutput]
  BY DEF KeysOf
<1> HIDE DEF j, w, F
<1>14. j \in Job
  <2> HIDE DEF I
  <2> QED  BY <1>6, <1>8, <1>11, <1>12, <1>13, NoOutputIsEmpty DEF Job
<1>15. /\ j.kind = w.kind /\ j.level = w.level /\ j.target = w.target /\ j.inputs = w.inputs
       /\ j.older = w.older /\ j.keepLeft = w.keepLeft /\ j.keepRight = w.keepRight
       /\ j.watermark = Watermark /\ j.runId = FreshId /\ j.todo = KeysOf(I) /\ j.out = NoOutput
  BY <1>13
<1>16. Placed(levels, j)
  BY <1>5, <1>15, PlacedAlike
<1>17. InputVersions(j) = I
  BY <1>15 DEF InputVersions
<1> HIDE DEF I
<1>18. Progress(j)
  <2>1. Written(j.out) = {} /\ Ordered(j.out)
    BY <1>15, NoOutputIsEmpty
  <2>2. Merged(j)
    BY <1>15, <1>17 DEF Merged
  <2> QED  BY <1>15, <1>17, <2>1, <2>2 DEF Progress
<1>19. Covered(j, F)
  <2> SUFFICES ASSUME NEW v \in I, v.seq <= Watermark PROVE v.seq <= F
    BY <1>15, <1>17 DEF Covered
  <2>1. v.seq <= visible
    BY <1>2, <1>7
  <2> QED  BY <1>10, <2>1
<1>20. Jobs(active', suspended') = {j} \cup Jobs(active, suspended) /\ Range(active') = {j}
       /\ Range(picked') = {}
  BY <1>1, <1>3, EmptyJobs
<1>21. Typed'
  BY <1>1, <1>2 DEF Typed
<1>22. Slots'
  <2>1. active' \in Seq(Job) /\ Len(active') = 1 /\ active' # <<>>
    BY <1>1, <1>14
  <2>2. picked' \in Seq(Work)
    BY <1>1
  <2> QED  BY <1>1, <1>2, <2>1, <2>2 DEF Slots
<1>23. Nested'
  <2>1. \A i \in DOMAIN suspended : suspended[i] \in Range(suspended)
    BY DEF Range
  <2> QED  BY <1>1, <1>2, <1>5, <1>8, <1>15, <1>20, <2>1 DEF Nested
<1>24. InPlace(levels, picked', Jobs(active', suspended'))
  BY <1>2, <1>8, <1>15, <1>16, <1>20 DEF InPlace
<1>25. UnderWay(Jobs(active', suspended'), F)
  BY <1>2, <1>12, <1>15, <1>18, <1>19, <1>20 DEF UnderWay
<1> QED  BY <1>1, <1>21, <1>22, <1>23, <1>24, <1>25, QuietStep DEF F

\* The memtables do not care how the tree holds what it holds.
LEMMA MemoryOverLess ==
  ASSUME NEW m, NEW im, NEW lv, NEW nx, Memory(m, im, lv), Tree(nx) \in SUBSET Tree(lv)
  PROVE  Memory(m, im, nx)
BY DEF Memory, Newer

\* The bottom's runs move to a new level below (install_deepen).
LEMMA StartDeepenStep ==
  ASSUME OptionsAssumption, TreeInv, StartDeepen
  PROVE  TreeInv'
<1> DEFINE w == picked[1]
<1>1. /\ phase = "start" /\ w.kind = "deepen" /\ picked' = <<>> /\ phase' = "step"
      /\ levels' = Append([levels EXCEPT ![w.level] = Without(@, w.inputs)], w.inputs)
      /\ UNCHANGED <<opts, mem, imms, visible, snapshots, held, force, active, suspended,
                     admitted, bgError, faults, log>>
  BY DEF StartDeepen, snapVars
<1>2. /\ Typed /\ Handles(snapshots, held, visible) /\ Slots /\ Nested /\ Whole(levels)
      /\ InPlace(levels, picked, Jobs(active, suspended))
      /\ Memory(mem, imms, levels)
      /\ History(Children(mem, imms, levels), log, visible)
      /\ Unharmed(Children(mem, imms, levels), log, Floor(snapshots, visible))
  BY DEF TreeInv
<1>3. picked \in Seq(Work) /\ Len(picked) = 1 /\ active = <<>>
  BY <1>1, <1>2 DEF Slots
<1>4. w \in Work /\ Range(picked) = {w}
  BY <1>3, OneOf
<1>5. Placed(levels, w) /\ suspended = <<>>
  BY <1>1, <1>2, <1>4 DEF InPlace, Nested
<1>6. Whole(levels') /\ Tree(levels') = Tree(levels)
  <2> DEFINE nx == levels'
  <2>1. nx = Append([levels EXCEPT ![w.level] = Without(@, w.inputs)], w.inputs)
    BY <1>1
  <2> HIDE DEF nx, w
  <2>2. Whole(nx) /\ Tree(nx) = Tree(levels)
    BY <1>1, <1>2, <1>5, <2>1, DeepenKeeps
  <2> QED  BY <2>2 DEF nx
<1> HIDE DEF w
<1>7. Children(mem, imms, levels') = Children(mem, imms, levels)
  BY <1>6 DEF Children
<1>8. Memory(mem, imms, levels')
  BY <1>2, <1>6, MemoryOverLess
<1>9. Jobs(active', suspended') = {} /\ Range(picked') = {}
  BY <1>1, <1>3, <1>5, EmptyJobs
<1>10. Typed' /\ Handles(snapshots', held', visible')
  BY <1>1, <1>2 DEF Typed
<1>11. Slots'
  BY <1>1, <1>2, <1>3 DEF Slots
<1>12. Nested'
  BY <1>1, <1>5, EmptyJobs DEF Nested
<1>13. InPlace(levels', picked', Jobs(active', suspended'))
       /\ UnderWay(Jobs(active', suspended'), Floor(snapshots', visible'))
  BY <1>9 DEF InPlace, UnderWay
<1>14. /\ Memory(mem', imms', levels')
       /\ History(Children(mem', imms', levels'), log', visible')
       /\ Unharmed(Children(mem', imms', levels'), log', Floor(snapshots', visible'))
  BY <1>1, <1>2, <1>7, <1>8
<1> QED  BY <1>6, <1>10, <1>11, <1>12, <1>13, <1>14 DEF TreeInv

\* The runs a job knew behind its inputs are in the tree, in key order.
LEMMA OlderRanged ==
  ASSUME Whole(levels), NEW j \in Job, Placed(levels, j)
  PROVE  \A r \in Range(j.older) : Ranged(r.tables)
<1>1. PICK front \in Seq(Run), back \in Seq(Run) : Fits(levels, j, front, back)
  BY DEF Placed
<1>2. CASE j.kind = "splice"
  <2>1. j.older = <<>>
    BY <1>1, <1>2 DEF Fits
  <2> QED  BY <2>1, EmptyJobs
<1>3. CASE j.kind = "tier"
  <2>1. j.older = FlattenSeq(SubSeq(levels, j.level + 1, Len(levels))) /\ j.level \in DOMAIN levels
    BY <1>1, <1>3 DEF Fits
  <2>2. Range(j.older) \in SUBSET RunsOf(levels)
    BY <2>1, OlderRuns
  <2> QED  BY <2>2 DEF Whole, Sound
<1> QED  BY <1>2, <1>3 DEF Job

\* One user key of the active merge, and the installation when it was the last
\* one (run_slice, install).
LEMMA RunSliceStep ==
  ASSUME OptionsAssumption, TreeInv, RunSlice
  PROVE  TreeInv'
<1> DEFINE F == Floor(snapshots, visible)
<1>1. /\ phase = "slice"
      /\ UNCHANGED <<opts, mem, imms, visible, snapshots, held, force, picked, suspended,
                     admitted, bgError, faults, log>>
  BY DEF RunSlice, snapVars
<1>2. /\ Typed /\ Handles(snapshots, held, visible) /\ Slots /\ Nested /\ Whole(levels)
      /\ InPlace(levels, picked, Jobs(active, suspended))
      /\ UnderWay(Jobs(active, suspended), F)
      /\ Memory(mem, imms, levels)
      /\ History(Children(mem, imms, levels), log, visible)
      /\ Unharmed(Children(mem, imms, levels), log, F)
  BY DEF TreeInv
<1>3. active # <<>> /\ picked = <<>> /\ suspended \in Seq(Job) /\ active \in Seq(Job)
  <2>1. picked = <<>> /\ suspended \in Seq(Job) /\ active \in Seq(Job) /\ Len(active) = 1
    BY <1>1, <1>2 DEF Slots
  <2>2. \A a \in Seq(Job) : Len(a) = 1 => a # <<>>
    OBVIOUS
  <2> QED  BY <2>1, <2>2
<1>4. PICK j \in Job : active = <<j>> /\ active[1] = j /\ Range(active) = {j}
  BY <1>2, <1>3, TheActiveJob
<1>5. Jobs(active, suspended) = {j} \cup Range(suspended)
  BY <1>4, EmptyJobs
<1>6. /\ Placed(levels, j) /\ Progress(j) /\ Covered(j, F) /\ j.todo # {}
      /\ \A q \in RunsOf(levels) : q.id # j.runId
      /\ \A i \in DOMAIN suspended : j.level < suspended[i].level /\ j.runId # suspended[i].runId
  BY <1>2, <1>4, <1>5 DEF InPlace, UnderWay, Nested
<1> DEFINE k == Min(j.todo)
           Out(sh) == AddKey(j.out, Kept(InputVersions(j), k, j.watermark, sh))
<1>7. PICK sh \in OlderMayContain(j.older, k) :
         IF j.todo = {k}
         THEN /\ levels' = Install(j, FinishTables(Out(sh)))
              /\ active' = <<>> /\ phase' = "step"
         ELSE /\ active' = <<[j EXCEPT !.todo = @ \ {k}, !.out = Out(sh)]>>
              /\ phase' \in {"slice", "step"} /\ UNCHANGED levels
  BY <1>4 DEF RunSlice
<1> DEFINE out == Out(sh)
           nx == [j EXCEPT !.todo = @ \ {k}, !.out = out]
<1>8. /\ nx \in Job /\ Progress(nx) /\ k \in j.todo /\ out \in Output
      /\ nx.todo = j.todo \ {k} /\ nx.out = out
      /\ nx.kind = j.kind /\ nx.level = j.level /\ nx.target = j.target
      /\ nx.inputs = j.inputs /\ nx.older = j.older
      /\ nx.keepLeft = j.keepLeft /\ nx.keepRight = j.keepRight
      /\ nx.watermark = j.watermark /\ nx.runId = j.runId
  <2>1. \A r \in Range(j.older) : Ranged(r.tables)
    BY <1>2, <1>6, OlderRanged
  <2>2. k = Min(j.todo) /\ out = AddKey(j.out, Kept(InputVersions(j), k, j.watermark, sh))
        /\ nx = Advanced(j, k, out) /\ opts \in OptionSets
        /\ sh \in OlderMayContain(j.older, k)
    BY <1>2 DEF Typed, Advanced
  <2> HIDE DEF k, out, nx, Out
  <2> QED  BY <1>6, <2>1, <2>2, SliceProgress
<1>9. Placed(levels, nx) /\ Covered(nx, F) /\ \A q \in RunsOf(levels) : q.id # nx.runId
  <2> HIDE DEF nx, out, k, F
  <2>1. Placed(levels, nx)
    BY <1>6, <1>8, PlacedAlike
  <2>2. InputVersions(nx) = InputVersions(j)
    BY <1>8 DEF InputVersions
  <2> QED  BY <1>6, <1>8, <2>1, <2>2 DEF Covered
<1>10. Typed'
  BY <1>1, <1>2 DEF Typed
<1>11. CASE j.todo # {k}
  <2>1. active' = <<nx>> /\ phase' \in {"slice", "step"} /\ UNCHANGED levels
    BY <1>7, <1>11
  <2> HIDE DEF nx, out, k, F, Out
  <2>2. Range(active') = {nx} /\ Jobs(active', suspended') = {nx} \cup Range(suspended)
    BY <1>1, <2>1, EmptyJobs
  <2>3. nx.todo # {}
    BY <1>8, <1>11
  <2>4. Slots'
    <3>1. active' \in Seq(Job) /\ Len(active') = 1 /\ active' # <<>>
      BY <1>8, <2>1
    <3> QED  BY <1>1, <1>2, <1>3, <2>1, <3>1 DEF Slots
  <2>5. Nested'
    BY <1>1, <1>2, <1>6, <1>8, <2>2 DEF Nested
  <2>6. InPlace(levels, picked', Jobs(active', suspended'))
    BY <1>1, <1>2, <1>5, <1>9, <2>2 DEF InPlace
  <2>7. UnderWay(Jobs(active', suspended'), F)
    BY <1>2, <1>5, <1>8, <1>9, <2>2, <2>3 DEF UnderWay
  <2> QED  BY <1>1, <1>10, <2>1, <2>4, <2>5, <2>6, <2>7, QuietStep DEF F
<1>12. CASE j.todo = {k}
  <2>1. levels' = Install(j, FinishTables(out)) /\ active' = <<>> /\ phase' = "step"
    BY <1>7, <1>12
  <2> HIDE DEF nx, out, k, F, Out
  <2>2. levels' = Install(nx, FinishTables(nx.out))
    BY <1>8, <2>1 DEF Install
  <2> DEFINE K == Written(nx.out)
             after == levels'
             M == mem \cup Frozen(imms)
  <2>3. Around(after, nx) /\ Replaces(after, nx, K)
    <3>1. after = Install(nx, FinishTables(nx.out))
      BY <2>2
    <3> HIDE DEF after
    <3> QED  BY <1>2, <1>8, <1>9, <3>1, InstallKeeps
  <2>4. nx.todo = {}
    BY <1>8, <1>12
  <2>5. /\ K \in SUBSET InputVersions(nx)
        /\ \A y \in KeysOf(InputVersions(nx)) : \E b \in BOOLEAN :
              /\ VersionsOf(K, y) = Kept(InputVersions(nx), y, nx.watermark, b)
              /\ b \/ VersionsOf(Contents(nx.older), y) = {}
    BY <1>8, <2>4 DEF Progress, Merged
  <2>6. M \in SUBSET Version /\ Newer(M, Tree(levels))
    BY <1>2 DEF Memory, Newer, History, Children
  <2>7. History(M \cup Tree(levels), log, visible) /\ Unharmed(M \cup Tree(levels), log, F)
    BY <1>2 DEF Children
  <2>8. F \in Nat /\ nx.inputs \in Seq(Run) /\ nx.watermark \in Int /\ nx.kind \in {"tier", "splice"}
    BY <1>2, <1>8, FloorHere DEF F, Job
  <2>9. /\ Tree(after) \in SUBSET Tree(levels)
        /\ History(M \cup Tree(after), log, visible)
        /\ Unharmed(M \cup Tree(after), log, F)
    <3> HIDE DEF after, K, M
    <3> QED  BY <1>9, <2>3, <2>5, <2>6, <2>7, <2>8, ReplacementKeeps
  <2>10. /\ History(Children(mem', imms', levels'), log', visible')
         /\ Unharmed(Children(mem', imms', levels'), log', Floor(snapshots', visible'))
    <3> HIDE DEF K
    <3> QED  BY <1>1, <2>9 DEF Children, F
  <2>11. Memory(mem', imms', levels')
    BY <1>1, <1>2, <2>9, MemoryOverLess
  <2> HIDE DEF M, K
  <2>12. Whole(levels')
    BY <2>3 DEF Around
  <2>13. Jobs(active', suspended') = Range(suspended) /\ Range(active') = {} /\ Range(picked') = {}
    BY <1>1, <1>3, <2>1, EmptyJobs
  <2>14. \A x \in Range(suspended) :
            /\ x \in Job /\ Placed(levels, x) /\ nx.level < x.level /\ nx.runId # x.runId
            /\ \A q \in RunsOf(levels) : q.id # x.runId
    BY <1>2, <1>3, <1>5, <1>6, <1>8 DEF InPlace, Range
  <2>15. \A x \in Range(suspended) : Placed(after, x)
    <3> HIDE DEF after
    <3>1. nx.level \in Nat
      BY <1>8 DEF Job
    <3> QED  BY <1>2, <2>3, <2>14, <3>1, OthersStay
  <2>16. \A x \in Range(suspended), q \in RunsOf(levels') : q.id # x.runId
    BY <2>3, <2>14 DEF Around
  <2>17. InPlace(levels', picked', Jobs(active', suspended'))
    BY <2>13, <2>15, <2>16 DEF InPlace
  <2>18. UnderWay(Jobs(active', suspended'), Floor(snapshots', visible'))
    BY <1>1, <1>2, <1>5, <2>13 DEF UnderWay, F
  <2>19. Slots'
    BY <1>1, <1>2, <1>3, <2>1 DEF Slots
  <2>20. Nested'
    BY <1>1, <1>2, <2>13 DEF Nested
  <2>21. Handles(snapshots', held', visible')
    BY <1>1, <1>2
  <2> QED  BY <1>10, <2>10, <2>11, <2>12, <2>17, <2>18, <2>19, <2>20, <2>21 DEF TreeInv
<1> QED  BY <1>11, <1>12

-----------------------------------------------------------------------------
(* Writing and flushing                                                    *)

Rotated(m, im) == <<m>> \o im

\* Freezing the memtable.
LEMMA RotateKeeps ==
  ASSUME NEW m \in Table, NEW im, NEW lv, Memory(m, im, lv)
  PROVE  /\ Memory({}, Rotated(m, im), lv)
         /\ Children({}, Rotated(m, im), lv) = Children(m, im, lv)
<1> DEFINE u == <<m>>
           t == u \o im
           n == Len(im)
<1>1. u \in Seq(Table) /\ Len(u) = 1 /\ u[1] = m /\ Range(u) = {m}
  BY EmptyJobs
<1>2. im \in Seq(Table) /\ n \in Nat /\ DOMAIN im = 1 .. n
  BY LenProperties DEF Memory
<1> HIDE DEF u
<1>3. /\ t \in Seq(Table) /\ Range(t) = {m} \cup Range(im) /\ Len(t) = n + 1
      /\ DOMAIN t = 1 .. n + 1
      /\ t[1] = m /\ \A i \in 2 .. n + 1 : t[i] = im[i - 1]
  <2>1. t \in Seq(Table) /\ Range(t) = {m} \cup Range(im)
    BY <1>1, <1>2, ConcatRange, ConcatProperties
  <2>2. Len(t) = n + 1 /\ t[1] = m /\ \A i \in 2 .. n + 1 : t[i] = im[i - 1]
    <3>0. /\ Len(t) = Len(u) + n
          /\ \A i \in 1 .. Len(u) + n : t[i] = IF i <= Len(u) THEN u[i] ELSE im[i - Len(u)]
      <4> HIDE DEF n
      <4>1. u \in Seq(Table) /\ im \in Seq(Table)
        BY <1>1, <1>2
      <4> QED  BY <4>1, ConcatProperties DEF n
    <3>1. /\ Len(t) = 1 + n
          /\ \A i \in 1 .. 1 + n : t[i] = IF i <= 1 THEN u[i] ELSE im[i - 1]
      <4> HIDE DEF t, n
      <4> QED  BY <1>1, <3>0
    <3> HIDE DEF t, n
    <3>2. Len(t) = n + 1 /\ 1 \in 1 .. 1 + n
      BY <1>2, <3>1
    <3>3. \A i \in 2 .. n + 1 : i \in 1 .. 1 + n /\ ~(i <= 1)
      BY <1>2
    <3> QED  BY <1>1, <3>1, <3>2, <3>3
  <2>3. DOMAIN t = 1 .. Len(t)
    BY <2>1, LenProperties
  <2> QED  BY <2>1, <2>2, <2>3
<1>4. Frozen(t) = m \cup Frozen(im)
  <2> HIDE DEF t
  <2>1. \A x : x \in UNION Range(t) <=> x \in m \cup UNION Range(im)
    BY <1>3
  <2> QED  BY <2>1 DEF Frozen
<1> HIDE DEF t, n
<1>5. \A i, j \in DOMAIN t : i < j => Newer(t[i], t[j])
  <2> SUFFICES ASSUME NEW i \in 1 .. n + 1, NEW j \in 1 .. n + 1, i < j
               PROVE  Newer(t[i], t[j])
    BY <1>3
  <2>1. j \in 2 .. n + 1 /\ j - 1 \in 1 .. n /\ t[j] = im[j - 1]
    BY <1>2, <1>3
  <2>2. CASE i = 1
    <3>1. im[j - 1] \in Range(im)
      BY <1>2, <2>1 DEF Range
    <3>2. Newer(m, im[j - 1])
      BY <3>1 DEF Memory, Newer, Frozen
    <3> QED  BY <1>3, <2>1, <2>2, <3>2
  <2>3. CASE i # 1
    <3>1. i \in 2 .. n + 1 /\ i - 1 \in 1 .. n /\ t[i] = im[i - 1] /\ i - 1 < j - 1
      BY <1>2, <1>3, <2>3
    <3> QED  BY <1>2, <2>1, <3>1 DEF Memory
  <2> QED  BY <2>2, <2>3
<1>6. Newer({}, Frozen(t)) /\ Newer({}, Tree(lv)) /\ Newer(Frozen(t), Tree(lv))
  BY <1>4 DEF Memory, Newer
<1>7. Memory({}, t, lv)
  BY <1>3, <1>5, <1>6 DEF Memory
<1>8. Children({}, t, lv) = Children(m, im, lv)
  BY <1>4 DEF Children
<1> QED  BY <1>7, <1>8 DEF t, u, Rotated

\* force_rotate: the same versions, in one more frozen memtable.
LEMMA ForceRotateStep ==
  ASSUME OptionsAssumption, TreeInv, ForceRotate
  PROVE  TreeInv'
<1>1. /\ mem # {} /\ mem' = {} /\ imms' = Rotated(mem, imms)
      /\ UNCHANGED <<opts, levels, visible, snapshots, held, phase, force, picked, active,
                     suspended, admitted, bgError, faults, log>>
  BY DEF ForceRotate, snapVars, schedVars, Rotated
<1>2. Memory(mem, imms, levels)
  BY DEF TreeInv
<1>3. mem \in Table
  BY <1>1, <1>2 DEF Memory, Table
<1>4. /\ Memory(mem', imms', levels)
      /\ Children(mem', imms', levels) = Children(mem, imms, levels)
  BY <1>1, <1>2, <1>3, RotateKeeps
<1>5. Typed' /\ Slots' /\ Nested'
  BY <1>1 DEF TreeInv, Typed, Slots, Nested
<1>6. /\ Handles(snapshots', held', visible') /\ Whole(levels') /\ Memory(mem', imms', levels')
      /\ History(Children(mem', imms', levels'), log', visible')
      /\ Unharmed(Children(mem', imms', levels'), log', Floor(snapshots', visible'))
      /\ InPlace(levels', picked', Jobs(active', suspended'))
      /\ UnderWay(Jobs(active', suspended'), Floor(snapshots', visible'))
  BY <1>1, <1>4 DEF TreeInv
<1> QED  BY <1>5, <1>6 DEF TreeInv

\* A new run in front of the first level leaves every job in its place.
LEMMA AllStay ==
  ASSUME Whole(levels), NEW nx, Whole(nx), Len(nx) = Len(levels),
         \A l \in DOMAIN levels : 1 < l => nx[l] = levels[l],
         NEW more \in Seq(Run), nx[1] = more \o levels[1],
         NEW j, Placed(levels, j)
  PROVE  Placed(nx, j)
<1>1. PICK front \in Seq(Run), back \in Seq(Run) : Fits(levels, j, front, back)
  BY DEF Placed
<1>2. j.level \in DOMAIN levels /\ \A l \in DOMAIN levels : l \in Nat /\ l >= 1
  BY <1>1, WholeLevels DEF Fits
<1>3. \A l \in DOMAIN levels : j.level < l => nx[l] = levels[l]
  <2>1. \A l \in DOMAIN levels : j.level < l => 1 < l
    BY <1>2
  <2> QED  BY <2>1
<1>4. CASE j.level = 1
  <2>1. nx[j.level] = more \o levels[j.level]
    BY <1>4
  <2> QED  BY <1>3, <2>1, PlacedStays
<1>5. CASE j.level # 1
  <2>1. 1 < j.level /\ levels[j.level] \in Seq(Run)
    BY <1>2, <1>5, WholeLevels
  <2>2. nx[j.level] = <<>> \o levels[j.level]
    BY <1>2, <2>1, ConcatEmptySeq
  <2>3. <<>> \in Seq(Run)
    OBVIOUS
  <2> QED  BY <1>3, <2>2, <2>3, PlacedStays
<1> QED  BY <1>4, <1>5

\* flush_one: the oldest frozen memtable becomes a run.
LEMMA FlushOneStep ==
  ASSUME OptionsAssumption, TreeInv, FlushOne
  PROVE  TreeInv'
<1> DEFINE after == levels'
           rest == imms'
<1>1. /\ imms # <<>> /\ rest = Front(imms)
      /\ after = WithLevel(levels, 1, InFront(NewRun(FreshId, Last(imms)), levels[1]))
      /\ UNCHANGED <<opts, mem, visible, snapshots, held, phase, force, picked, active,
                     suspended, admitted, bgError, faults, log>>
  BY DEF FlushOne, snapVars, schedVars, WithLevel, InFront, NewRun
<1>2. /\ Typed /\ Handles(snapshots, held, visible) /\ Slots /\ Nested /\ Whole(levels)
      /\ InPlace(levels, picked, Jobs(active, suspended))
      /\ Memory(mem, imms, levels)
  BY DEF TreeInv
<1>3. /\ FreshId \in Nat /\ \A q \in RunsOf(levels) : q.id # FreshId
      /\ \A x \in Jobs(active, suspended) : x.runId # FreshId
  BY <1>2, FreshIsFree DEF Slots, Jobs
<1> HIDE DEF after
<1>4. Flushed(after, FreshId, mem, imms)
  <2> DEFINE id == FreshId
  <2>1. /\ opts \in OptionSets /\ Whole(levels) /\ Memory(mem, imms, levels) /\ imms # <<>>
        /\ id \in Nat /\ \A q \in RunsOf(levels) : q.id # id
        /\ after = WithLevel(levels, 1, InFront(NewRun(id, Last(imms)), levels[1]))
    BY <1>1, <1>2, <1>3 DEF Typed
  <2> HIDE DEF id, rest
  <2>2. Flushed(after, id, mem, imms)
    BY <2>1, FlushKeeps
  <2> QED  BY <2>2 DEF id
<1>5. PICK more \in Seq(Run) : after[1] = more \o levels[1]
  BY <1>4 DEF Flushed
<1>6. \A j : Placed(levels, j) => Placed(after, j)
  BY <1>2, <1>4, <1>5, AllStay DEF Flushed
<1>7. InPlace(after, picked, Jobs(active, suspended))
  <2>1. \A x \in Jobs(active, suspended), q \in RunsOf(after) : q.id # x.runId
    BY <1>2, <1>3, <1>4 DEF InPlace, Flushed
  <2> QED  BY <1>2, <1>6, <2>1 DEF InPlace
<1>8. Typed' /\ Slots' /\ Nested'
  BY <1>1, <1>2 DEF Typed, Slots, Nested
<1>9. /\ Handles(snapshots', held', visible') /\ Whole(levels') /\ Memory(mem', imms', levels')
      /\ History(Children(mem', imms', levels'), log', visible')
      /\ Unharmed(Children(mem', imms', levels'), log', Floor(snapshots', visible'))
      /\ InPlace(levels', picked', Jobs(active', suspended'))
      /\ UnderWay(Jobs(active', suspended'), Floor(snapshots', visible'))
  BY <1>1, <1>4, <1>7 DEF TreeInv, after, Flushed
<1> QED  BY <1>8, <1>9 DEF TreeInv

\* What an unfrozen batch brings is newer than everything there is.
LEMMA BatchIsNewer ==
  ASSUME NEW new \in SUBSET Version, NEW lg \in SUBSET Version, NEW vis \in Nat,
         \A v \in lg : v.seq <= vis, \A v \in new : vis < v.seq,
         NEW X \in SUBSET lg
  PROVE  Newer(new, X)
<1>1. \A v \in Version : v.seq \in Int
  BY DEF Version
<1> QED  BY <1>1 DEF Newer

\* Publishing versions that are newer than everything there is keeps the reads
\* from any floor up right.
LEMMA CommitKeepsReads ==
  ASSUME OptionsAssumption, NEW new \in SUBSET Version, NEW lg \in SUBSET Version,
         NEW ch \in SUBSET lg, NEW F \in Nat, Newer(new, lg), Unharmed(ch, lg, F)
  PROVE  Unharmed(ch \cup new, lg \cup new, F)
<1>1. Newer(new, ch)
  BY DEF Newer
<1>2. \A v \in lg \cup new : v \in ch \cup new \/ v.seq <= F
  BY DEF Unharmed
<1>3. ASSUME NEW k \in Keys, NEW s \in SeqNo, s >= F
      PROVE  Live(NewestAt(new \cup ch, k, s)) = Live(NewestAt(new \cup lg, k, s))
  <2>1. ch \in SUBSET Version /\ Newer(new, lg)
    OBVIOUS
  <2>2. CASE VisibleAt(new, k, s) = {}
    <3>1. NewestAt(new \cup ch, k, s) = NewestAt(ch, k, s)
      BY <1>1, <2>1, <2>2, NewestOfUnion
    <3>2. NewestAt(new \cup lg, k, s) = NewestAt(lg, k, s)
      BY <2>1, <2>2, NewestOfUnion
    <3>3. Live(NewestAt(ch, k, s)) = Live(NewestAt(lg, k, s))
      BY <1>3 DEF Unharmed
    <3> QED  BY <3>1, <3>2, <3>3
  <2>3. CASE VisibleAt(new, k, s) # {}
    <3>1. NewestAt(new \cup ch, k, s) = NewestAt(new, k, s)
      BY <1>1, <2>1, <2>3, NewestOfUnion
    <3>2. NewestAt(new \cup lg, k, s) = NewestAt(new, k, s)
      BY <2>1, <2>3, NewestOfUnion
    <3> QED  BY <3>1, <3>2
  <2> QED  BY <2>2, <2>3
<1>4. new \cup ch = ch \cup new /\ new \cup lg = lg \cup new
  OBVIOUS
<1> QED  BY <1>2, <1>3, <1>4 DEF Unharmed

\* The versions of a batch: one for each operation, with the next numbers.
Batch(ops, n) ==
    {[key |-> ops[i].key, seq |-> visible + i, del |-> ops[i].del] : i \in 1 .. n}

\* A batch has a version for each of its consecutive numbers.
LEMMA BatchIs ==
  ASSUME OptionsAssumption, opts \in OptionSets, visible \in Nat,
         NEW n \in 1 .. opts.batch, NEW ops \in [1 .. n -> opts.ops],
         visible + n <= opts.seq
  PROVE  /\ Batch(ops, n) \in SUBSET Version /\ Batch(ops, n) # {}
         /\ \A v \in Batch(ops, n) : v.seq \in visible + 1 .. visible + n
         /\ \A v, w \in Batch(ops, n) : v.seq = w.seq => v = w
         /\ \A m \in visible + 1 .. visible + n : \E v \in Batch(ops, n) : v.seq = m
         /\ visible + n \in SeqNo
<1>1. /\ opts.batch \in Nat /\ opts.seq \in Nat /\ opts.seq <= MaxSeq /\ MaxSeq \in Nat
      /\ opts.ops \in SUBSET [key : Keys, del : BOOLEAN]
  BY DEF OptionsAssumption, OptionFields
<1>2. n \in Nat /\ n >= 1 /\ \A i \in 1 .. n : ops[i] \in [key : Keys, del : BOOLEAN]
  BY <1>1
<1>3. visible + n \in SeqNo
  BY <1>1, <1>2 DEF SeqNo
<1> DEFINE V(i) == [key |-> ops[i].key, seq |-> visible + i, del |-> ops[i].del]
<1>4. \A i \in 1 .. n : V(i) \in Version /\ V(i).seq = visible + i
                        /\ visible + i \in visible + 1 .. visible + n
  <2> SUFFICES ASSUME NEW i \in 1 .. n
               PROVE  V(i) \in Version /\ V(i).seq = visible + i
                      /\ visible + i \in visible + 1 .. visible + n
    OBVIOUS
  <2>1. ops[i].key \in Keys /\ ops[i].del \in BOOLEAN
    BY <1>2
  <2>2. visible + i \in 1 .. MaxSeq /\ visible + i \in visible + 1 .. visible + n
    BY <1>1, <1>2
  <2> QED  BY <2>1, <2>2 DEF Version
<1>5. Batch(ops, n) = {V(i) : i \in 1 .. n}
  BY DEF Batch
<1> HIDE DEF V
<1>6. \A i, j \in 1 .. n : visible + i = visible + j => i = j
  OBVIOUS
<1>7. \A m \in visible + 1 .. visible + n : m - visible \in 1 .. n /\ visible + (m - visible) = m
  BY <1>2
<1>8. \A m \in visible + 1 .. visible + n : \E v \in Batch(ops, n) : v.seq = m
  BY <1>4, <1>5, <1>7
<1>9. Batch(ops, n) # {}
  <2>1. 1 \in 1 .. n
    BY <1>2
  <2> QED  BY <1>5, <2>1
<1>10. /\ Batch(ops, n) \in SUBSET Version
       /\ \A v \in Batch(ops, n) : v.seq \in visible + 1 .. visible + n
  BY <1>4, <1>5
<1>11. \A v, w \in Batch(ops, n) : v.seq = w.seq => v = w
  BY <1>4, <1>5, <1>6
<1> QED  BY <1>3, <1>8, <1>9, <1>10, <1>11

\* Placing a batch in the memtable.
LEMMA BatchPlaced ==
  ASSUME NEW m, NEW im, NEW lv, Memory(m, im, lv), NEW new \in SUBSET Version,
         Newer(new, Children(m, im, lv))
  PROVE  /\ Memory(m \cup new, im, lv)
         /\ Children(m \cup new, im, lv) = Children(m, im, lv) \cup new
<1>1. Newer(new, Frozen(im)) /\ Newer(new, Tree(lv))
  BY DEF Children, Newer
<1>2. Newer(m \cup new, Frozen(im)) /\ Newer(m \cup new, Tree(lv))
  BY <1>1 DEF Memory, Newer
<1>3. m \cup new \in SUBSET Version
  BY DEF Memory
<1> QED  BY <1>2, <1>3 DEF Memory, Children

\* apply_locked: the batch is placed and published, and a full memtable frozen.
LEMMA ApplyLockedStep ==
  ASSUME OptionsAssumption, TreeInv, NEW wr \in Writers, ApplyLocked(wr)
  PROVE  TreeInv'
<1> DEFINE F == Floor(snapshots, visible)
           G == Floor(snapshots, visible')
           ch == Children(mem, imms, levels)
<1>1. /\ Typed /\ Handles(snapshots, held, visible) /\ Slots /\ Nested /\ Whole(levels)
      /\ InPlace(levels, picked, Jobs(active, suspended))
      /\ UnderWay(Jobs(active, suspended), F)
      /\ Memory(mem, imms, levels)
      /\ History(ch, log, visible) /\ Unharmed(ch, log, F)
  BY DEF TreeInv
<1> DEFINE Applied(n, ops) ==
             /\ visible + n <= opts.seq
             /\ LET new == Batch(ops, n)
                    full == Cardinality(mem \cup new) >= opts.memtable_size
                IN  /\ log' = log \cup new
                    /\ mem' = IF full THEN {} ELSE mem \cup new
                    /\ imms' = IF full THEN Rotated(mem \cup new, imms) ELSE imms
             /\ visible' = visible + n
<1>0. PICK n \in 1 .. opts.batch : \E ops \in [1 .. n -> opts.ops] : Applied(n, ops)
  BY DEF ApplyLocked, Batch, Rotated
<1>2. PICK ops \in [1 .. n -> opts.ops] : Applied(n, ops)
  BY <1>0
<1>3. /\ admitted' = admitted \ {wr}
      /\ UNCHANGED <<opts, levels, snapshots, held, phase, force, picked, active, suspended,
                     bgError, faults>>
  BY DEF ApplyLocked, snapVars, schedVars
<1> DEFINE new == Batch(ops, n)
<1>4. visible \in SeqNo /\ visible \in Nat /\ F \in Nat
  BY <1>1, FloorHere, SeqNoIsFinite DEF Typed, OptionsAssumption
<1>5. /\ new \in SUBSET Version /\ new # {}
      /\ \A v \in new : v.seq \in visible + 1 .. visible'
      /\ \A v, w \in new : v.seq = w.seq => v = w
      /\ visible' \in SeqNo
  <2>1. opts \in OptionSets
    BY <1>1 DEF Typed
  <2> HIDE DEF new
  <2> QED  BY <1>2, <1>4, <2>1, BatchIs DEF new
<1>6. visible < visible' /\ visible' \in Nat
  <2>1. PICK v \in new : TRUE
    BY <1>5
  <2>2. visible' \in Nat
    BY <1>5, SeqNoIsFinite DEF OptionsAssumption
  <2>3. v.seq \in visible + 1 .. visible'
    BY <1>5, <2>1
  <2> QED  BY <1>4, <2>2, <2>3
<1> HIDE DEF new, ch, F, G
<1>7. /\ log' = log \cup new
      /\ \/ mem' = mem \cup new /\ imms' = imms
         \/ mem' = {} /\ imms' = Rotated(mem \cup new, imms)
  BY <1>2 DEF new
<1>8. /\ log \in SUBSET Version /\ ch \in SUBSET log /\ \A v \in log : v.seq <= visible
      /\ \A v, w \in log : v.seq = w.seq => v = w
  BY <1>1 DEF History
<1>9. \A v \in new : visible < v.seq /\ v.seq <= visible'
  BY <1>4, <1>5, <1>6
<1>10. Newer(new, log) /\ Newer(new, ch)
  BY <1>4, <1>5, <1>8, <1>9, BatchIsNewer
<1>11. /\ Memory(mem \cup new, imms, levels)
       /\ Children(mem \cup new, imms, levels) = ch \cup new
  <2>1. Memory(mem, imms, levels) /\ new \in SUBSET Version
        /\ Newer(new, Children(mem, imms, levels))
    BY <1>1, <1>5, <1>10 DEF ch
  <2> QED  BY <2>1, BatchPlaced DEF ch
<1>12. mem \cup new \in Table
  BY <1>5, <1>11 DEF Memory, Table
<1>13. Memory(mem', imms', levels) /\ Children(mem', imms', levels) = ch \cup new
  BY <1>7, <1>11, <1>12, RotateKeeps
<1>14. History(ch \cup new, log', visible')
  <2>1. \A v \in log' : v.seq <= visible'
    <3>1. \A v \in log : v.seq \in Int
      BY <1>8 DEF Version
    <3> QED  BY <1>4, <1>6, <1>7, <1>8, <1>9, <3>1
  <2>2. \A v \in log, w \in new : v.seq # w.seq
    <3>1. \A v \in Version : v.seq \in Int
      BY DEF Version
    <3> QED  BY <1>4, <1>5, <1>8, <1>9, <3>1
  <2>3. \A v, w \in log' : v.seq = w.seq => v = w
    BY <1>5, <1>7, <1>8, <2>2
  <2> QED  BY <1>5, <1>7, <1>8, <2>1, <2>3 DEF History
<1>15. F <= G /\ G \in Nat
  <2>1. \A s \in SeqNo : snapshots[s] > 0 => s <= visible
    BY <1>1, OnlyVisibleRegistered DEF Typed
  <2>2. \A s \in SeqNo : snapshots[s] > 0 => s <= visible'
    BY <1>4, <1>6, <2>1, SeqNoIsFinite DEF OptionsAssumption
  <2>3. snapshots \in [SeqNo -> Nat] /\ MaxSeq \in Nat /\ visible <= visible'
    BY <1>1, <1>4, <1>6 DEF Typed, OptionsAssumption
  <2>4. G \in SeqNo
    BY <1>5, <2>2, <2>3, FloorIs DEF G
  <2>5. F <= G
    BY <1>4, <1>5, <2>1, <2>2, <2>3, FloorRises DEF F, G
  <2> QED  BY <2>3, <2>4, <2>5, SeqNoIsFinite
<1>16. Unharmed(ch \cup new, log', G)
  <2>1. Unharmed(ch \cup new, log \cup new, F)
    BY <1>1, <1>4, <1>5, <1>8, <1>10, CommitKeepsReads
  <2>2. log' \in SUBSET Version
    BY <1>5, <1>7, <1>8
  <2> QED  BY <1>4, <1>7, <1>15, <2>1, <2>2, UnharmedAbove
<1>17. UnderWay(Jobs(active, suspended), G)
  BY <1>1, <1>4, <1>15, UnderWayAbove, JobsAreJobs DEF Slots
<1>18. Handles(snapshots', held', visible')
  <2>1. \A r \in Readers : held[r] \in Int
    BY <1>1, SeqNoIsFinite DEF Typed, NoSeq, OptionsAssumption
  <2> QED  BY <1>1, <1>3, <1>4, <1>6, <2>1 DEF Handles
<1>19. Typed'
  BY <1>1, <1>3, <1>5 DEF Typed
<1>20. Slots' /\ Nested'
  BY <1>1, <1>3 DEF Slots, Nested
<1>21. /\ Whole(levels') /\ Memory(mem', imms', levels')
       /\ History(Children(mem', imms', levels'), log', visible')
       /\ Unharmed(Children(mem', imms', levels'), log', Floor(snapshots', visible'))
       /\ InPlace(levels', picked', Jobs(active', suspended'))
       /\ UnderWay(Jobs(active', suspended'), Floor(snapshots', visible'))
  BY <1>1, <1>3, <1>13, <1>14, <1>16, <1>17 DEF G
<1> QED  BY <1>18, <1>19, <1>20, <1>21 DEF TreeInv

-----------------------------------------------------------------------------
(* The invariant holds                                                     *)

\* An empty tree satisfies the invariant.
LEMMA Starts ==
  ASSUME OptionsAssumption, Init
  PROVE  TreeInv
<1>1. /\ opts \in OptionSets /\ mem = {} /\ imms = <<>> /\ visible = 0
      /\ levels = [l \in 1 .. opts.max_levels |-> <<>>]
      /\ snapshots = [s \in SeqNo |-> 0] /\ held = [r \in Readers |-> NoSeq]
      /\ admitted = {} /\ bgError = FALSE /\ faults = 0 /\ log = {}
      /\ phase = "off" /\ force = FALSE
      /\ picked = <<>> /\ active = <<>> /\ suspended = <<>>
  BY DEF Init
<1>2. opts.max_levels \in Nat \ {0} /\ opts.faults \in Nat /\ MaxSeq \in Nat
  BY <1>1 DEF OptionsAssumption, OptionFields
<1>3. Typed
  <2>1. 0 \in SeqNo /\ 0 \in 0 .. opts.faults
    BY <1>2 DEF SeqNo
  <2>2. visible \in SeqNo /\ faults \in 0 .. opts.faults
    BY <1>1, <2>1
  <2>3. snapshots \in [SeqNo -> Nat] /\ held \in [Readers -> SeqNo \cup {NoSeq}]
    BY <1>1
  <2>4. admitted \in SUBSET Writers
    BY <1>1
  <2>5. bgError \in BOOLEAN /\ force \in BOOLEAN
    BY <1>1, Zenon
  <2> QED  BY <1>1, <2>2, <2>3, <2>4, <2>5 DEF Typed
<1>4. Handles(snapshots, held, visible)
  <2>1. \A s \in SeqNo : s # NoSeq
    BY <1>2, SeqNoIsFinite DEF NoSeq
  <2>2. \A s \in SeqNo : {r \in Readers : held[r] = s} = {}
    BY <1>1, <2>1
  <2>3. Cardinality({}) = 0
    BY FS_EmptySet
  <2>4. \A s \in SeqNo : snapshots[s] = Cardinality({r \in Readers : held[r] = s})
    BY <1>1, <2>2, <2>3
  <2>5. \A r \in Readers : held[r] <= visible
    BY <1>1 DEF NoSeq
  <2> QED  BY <2>4, <2>5 DEF Handles
<1>5. /\ levels \in Seq(Seq(Run)) /\ Len(levels) = opts.max_levels
      /\ DOMAIN levels = 1 .. opts.max_levels /\ \A l \in DOMAIN levels : levels[l] = <<>>
  <2>1. <<>> \in Seq(Run)
    OBVIOUS
  <2>2. levels \in [1 .. opts.max_levels -> Seq(Run)]
    BY <1>1, <2>1
  <2> QED  BY <1>1, <1>2, <2>2, FunctionIsSequence
<1>6. RunsOf(levels) = {} /\ Tree(levels) = {}
  <2>1. RunsOf(levels) = {}
    BY <1>5, EmptyJobs DEF RunsOf
  <2> QED  BY <2>1 DEF Tree
<1>7. Whole(levels)
  <2>1. \A l \in DOMAIN levels : Descending(levels[l])
    BY <1>5 DEF Descending
  <2>2. \A l, m \in DOMAIN levels : Over(levels[l], levels[m])
    BY <1>5, EmptyJobs DEF Over
  <2> QED  BY <1>2, <1>5, <1>6, <2>1, <2>2 DEF Whole
<1>8. Frozen(imms) = {} /\ Children(mem, imms, levels) = {}
  BY <1>1, <1>6, EmptyJobs DEF Frozen, Children
<1>9. Memory(mem, imms, levels)
  BY <1>1, <1>6, <1>8 DEF Memory, Newer
<1>10. /\ History(Children(mem, imms, levels), log, visible)
       /\ Unharmed(Children(mem, imms, levels), log, Floor(snapshots, visible))
  BY <1>1, <1>8 DEF History, Unharmed
<1>11. Slots /\ Nested
  BY <1>1, EmptyJobs DEF Slots, Nested
<1>12. /\ InPlace(levels, picked, Jobs(active, suspended))
       /\ UnderWay(Jobs(active, suspended), Floor(snapshots, visible))
  BY <1>1, EmptyJobs DEF InPlace, UnderWay
<1> QED  BY <1>3, <1>4, <1>7, <1>9, <1>10, <1>11, <1>12 DEF TreeInv

\* Every step of writers, readers, the flush thread and the compactor keeps it.
LEMMA TreeStep ==
  ASSUME OptionsAssumption, TreeInv, [Next]_vars
  PROVE  TreeInv'
<1>1. CASE UNCHANGED vars
  BY <1>1 DEF vars, treeVars, snapVars, schedVars, TreeInv, Typed, Slots, Nested
<1>2. CASE \E w \in Writers : WaitForSpace(w) \/ ApplyLocked(w)
  BY <1>2, OutsideStep, ApplyLockedStep
<1>3. CASE \E r \in Readers :
              RegisterSnapshot(r) \/ TryRegisterSnapshotAt(r) \/ DeregisterSnapshot(r)
  BY <1>3, RegistryStep
<1>4. CASE ForceRotate \/ FlushOne \/ FlushFails
  BY <1>4, ForceRotateStep, FlushOneStep, OutsideStep
<1>5. CASE Compact \/ StartPass(TRUE)
  <2>1. CASE \E f \in BOOLEAN : StartPass(f)
    BY <2>1, StartPassStep
  <2>2. CASE Preempt \/ ScheduleFresh \/ ScheduleSuspended
    BY <2>2, PreemptStep, ScheduleFreshStep, ScheduleSuspendedStep
  <2>3. CASE StartRewrite \/ StartDeepen \/ RunSlice
    BY <2>3, StartRewriteStep, StartDeepenStep, RunSliceStep
  <2> QED  BY <1>5, <2>1, <2>2, <2>3 DEF Compact
<1>6. CASE PassFails
  BY <1>6, PassFailsStep
<1> QED  BY <1>1, <1>2, <1>3, <1>4, <1>5, <1>6 DEF Next

\* The invariant the others rest on, in every reachable state.
THEOREM TreeAlways == Spec => []TreeInv
<1>1. Init => TreeInv
  BY Starts, OptionsAssumption
<1>2. TreeInv /\ [Next]_vars => TreeInv'
  BY TreeStep, OptionsAssumption
<1> QED  BY <1>1, <1>2, PTL DEF Spec

-----------------------------------------------------------------------------
(* Reading from the sources, newest first                                  *)

\* Every set of a sequence is newer than those behind it.
Downward(s) == \A i, j \in DOMAIN s : i < j => Newer(s[i], s[j])

\* Sources behind newer ones are still newest first.
LEMMA DownwardConcat ==
  ASSUME NEW s \in Seq(SUBSET Version), NEW t \in Seq(SUBSET Version),
         Downward(s), Downward(t),
         \A A \in Range(s), B \in Range(t) : Newer(A, B)
  PROVE  /\ s \o t \in Seq(SUBSET Version) /\ Downward(s \o t)
         /\ UNION Range(s \o t) = (UNION Range(s)) \cup UNION Range(t)
<1>1. /\ s \o t \in Seq(SUBSET Version) /\ DOMAIN (s \o t) = 1 .. Len(s) + Len(t)
      /\ Len(s) \in Nat /\ Len(t) \in Nat
      /\ DOMAIN s = 1 .. Len(s) /\ DOMAIN t = 1 .. Len(t)
      /\ \A i \in 1 .. Len(s) : (s \o t)[i] = s[i]
      /\ \A i \in Len(s) + 1 .. Len(s) + Len(t) :
            (s \o t)[i] = t[i - Len(s)] /\ i - Len(s) \in 1 .. Len(t)
  OBVIOUS
<1>2. Range(s \o t) = Range(s) \cup Range(t)
  BY ConcatRange
<1>3. (\A i \in DOMAIN s : s[i] \in Range(s)) /\ (\A i \in DOMAIN t : t[i] \in Range(t))
  BY DEF Range
<1> DEFINE u == s \o t
           m == Len(s)
           n == Len(t)
<1>4. ASSUME NEW i \in 1 .. m + n, NEW j \in 1 .. m + n, i < j
      PROVE  Newer(u[i], u[j])
  <2>1. CASE j <= m
    <3>1. u[i] = s[i] /\ u[j] = s[j] /\ i \in DOMAIN s /\ j \in DOMAIN s
      BY <1>1, <1>4, <2>1
    <3> QED  BY <1>4, <3>1 DEF Downward
  <2>2. CASE m < i
    <3>1. /\ u[i] = t[i - m] /\ u[j] = t[j - m] /\ i - m \in DOMAIN t /\ j - m \in DOMAIN t
          /\ i - m < j - m
      BY <1>1, <1>4, <2>2
    <3> QED  BY <3>1 DEF Downward
  <2>3. CASE i <= m /\ m < j
    <3>1. u[i] = s[i] /\ u[j] = t[j - m] /\ i \in DOMAIN s /\ j - m \in DOMAIN t
      BY <1>1, <2>3
    <3> QED  BY <1>3, <3>1
  <2> QED  BY <1>1, <2>1, <2>2, <2>3
<1>5. Downward(u)
  BY <1>1, <1>4 DEF Downward
<1>6. UNION (Range(s) \cup Range(t)) = (UNION Range(s)) \cup UNION Range(t)
  OBVIOUS
<1> QED  BY <1>1, <1>2, <1>5, <1>6

\* The memtable, the frozen memtables, then what there is of the runs.
SourcesOf(m, im, rest) == <<m>> \o im \o rest

\* The memtable, the frozen ones and what lies below are newest first.
LEMMA SourcesDescend ==
  ASSUME NEW m, NEW im, NEW lv, Memory(m, im, lv),
         NEW rest \in Seq(SUBSET Version), Downward(rest), UNION Range(rest) \in SUBSET Tree(lv)
  PROVE  LET all == SourcesOf(m, im, rest)
         IN  /\ all \in Seq(SUBSET Version) /\ Downward(all)
             /\ UNION Range(all) = m \cup Frozen(im) \cup UNION Range(rest)
<1> DEFINE first == <<m>>
           front == first \o im
<1>1. /\ m \in SUBSET Version /\ im \in Seq(Table) /\ Newer(m, Frozen(im)) /\ Downward(im)
      /\ Newer(m, Tree(lv)) /\ Newer(Frozen(im), Tree(lv))
  BY DEF Memory, Downward
<1>2. im \in Seq(SUBSET Version)
  BY <1>1 DEF Table
<1>3. first \in Seq(SUBSET Version) /\ Range(first) = {m} /\ Downward(first)
  <2>1. first \in Seq(SUBSET Version) /\ DOMAIN first = {1} /\ first[1] = m
    BY <1>1
  <2> QED  BY <2>1 DEF Range, Downward
<1>4. UNION Range(first) = m
  BY <1>3
<1> HIDE DEF first
<1>5. \A A \in Range(first), B \in Range(im) : Newer(A, B)
  BY <1>1, <1>3 DEF Newer, Frozen
<1>6. front \in Seq(SUBSET Version) /\ Downward(front)
      /\ UNION Range(front) = m \cup Frozen(im)
  BY <1>1, <1>2, <1>3, <1>4, <1>5, DownwardConcat DEF Frozen
<1> HIDE DEF front
<1>7. \A A \in Range(front), B \in Range(rest) : Newer(A, B)
  <2>1. Newer(m \cup Frozen(im), Tree(lv))
    BY <1>1 DEF Newer
  <2> QED  BY <1>6, <2>1 DEF Newer
<1>8. /\ front \o rest \in Seq(SUBSET Version) /\ Downward(front \o rest)
      /\ UNION Range(front \o rest) = (UNION Range(front)) \cup UNION Range(rest)
  BY <1>6, <1>7, DownwardConcat
<1>9. SourcesOf(m, im, rest) = front \o rest
  BY DEF SourcesOf, front, first
<1> QED  BY <1>6, <1>8, <1>9

\* The runs of a whole tree, newest first, as sets of versions.
VersionsInOrder(lv) == LET runs == FlattenSeq(lv) IN [i \in DOMAIN runs |-> RunVersions(runs[i])]

\* The runs of a tree, level by level, are newest first.
LEMMA RunsDescend ==
  ASSUME NEW lv, Whole(lv)
  PROVE  /\ VersionsInOrder(lv) \in Seq(SUBSET Version) /\ Downward(VersionsInOrder(lv))
         /\ UNION Range(VersionsInOrder(lv)) = Tree(lv)
<1> DEFINE runs == FlattenSeq(lv)
           vs == VersionsInOrder(lv)
<1>1. /\ runs \in Seq(Run) /\ Range(runs) = RunsOf(lv) /\ Descending(runs)
      /\ RunsOf(lv) \in SUBSET Run
  BY WholeLevels
<1>2. vs = [i \in DOMAIN runs |-> RunVersions(runs[i])]
  BY DEF VersionsInOrder
<1> HIDE DEF runs, vs
<1>3. \A r \in Run : RunVersions(r) \in SUBSET Version
  <2> SUFFICES ASSUME NEW r \in Run PROVE RunVersions(r) \in SUBSET Version
    OBVIOUS
  <2>1. r.tables \in Seq(Table)
    BY DEF Run
  <2> QED  BY <2>1 DEF RunVersions, Range, Table
<1>4. vs \in Seq(SUBSET Version)
  BY <1>1, <1>2, <1>3
<1>5. Downward(vs)
  BY <1>1, <1>2 DEF Downward, Descending, Apart
<1>6. UNION Range(vs) = UNION {RunVersions(r) : r \in Range(runs)}
  BY <1>2 DEF Range
<1> QED  BY <1>1, <1>4, <1>5, <1>6 DEF Tree, vs

\* The same, with of each run the fragment that may have k.
LEMMA FragmentsDescend ==
  ASSUME OptionsAssumption, NEW lv, Whole(lv), NEW k
  PROVE  LET fs == FragmentsFor(FlattenSeq(lv), k)
         IN  /\ fs \in Seq(SUBSET Version) /\ Downward(fs)
             /\ UNION Range(fs) \in SUBSET Tree(lv)
             /\ VersionsOf(UNION Range(fs), k) = VersionsOf(Tree(lv), k)
<1> DEFINE runs == FlattenSeq(lv)
           fs == FragmentsFor(runs, k)
<1>1. /\ runs \in Seq(Run) /\ Range(runs) = RunsOf(lv) /\ RunsOf(lv) \in SUBSET Run
  BY WholeLevels
<1>2. /\ DOMAIN VersionsInOrder(lv) = DOMAIN runs
      /\ \A i \in DOMAIN runs : VersionsInOrder(lv)[i] = RunVersions(runs[i])
      /\ VersionsInOrder(lv) \in Seq(SUBSET Version) /\ Downward(VersionsInOrder(lv))
  BY RunsDescend DEF VersionsInOrder
<1>3. fs = [i \in DOMAIN runs |-> FragmentFor(runs[i], k)]
  BY DEF FragmentsFor
<1> HIDE DEF runs, fs
<1>4. ASSUME NEW r \in Range(runs)
      PROVE  /\ FragmentFor(r, k) \in SUBSET RunVersions(r)
             /\ VersionsOf(FragmentFor(r, k), k) = VersionsOf(RunVersions(r), k)
  <2>1. r \in Run /\ Ranged(r.tables)
    BY <1>1, <1>4 DEF Whole, Sound
  <2>2. Keys \in SUBSET Int /\ IsFiniteSet(Keys)
    BY DEF OptionsAssumption
  <2> QED  BY <2>1, <2>2, FragmentHolds
<1>5. \A i \in DOMAIN runs : runs[i] \in Range(runs) /\ RunVersions(runs[i]) \in SUBSET Version
  <2>1. \A i \in DOMAIN runs : VersionsInOrder(lv)[i] \in SUBSET Version
    BY <1>2
  <2> QED  BY <1>2, <2>1 DEF Range
<1>6. fs \in Seq(SUBSET Version)
  <2>1. \A i \in DOMAIN runs : FragmentFor(runs[i], k) \in SUBSET Version
    BY <1>4, <1>5
  <2>2. DOMAIN runs = 1 .. Len(runs) /\ Len(runs) \in Nat
    BY <1>1
  <2>3. fs \in [1 .. Len(runs) -> SUBSET Version]
    BY <1>3, <2>1, <2>2
  <2> QED  BY <2>2, <2>3, FunctionIsSequence
<1>7. Downward(fs)
  <2> SUFFICES ASSUME NEW i \in DOMAIN runs, NEW j \in DOMAIN runs, i < j
               PROVE  Newer(fs[i], fs[j])
    BY <1>3 DEF Downward
  <2>1. Newer(RunVersions(runs[i]), RunVersions(runs[j]))
    BY <1>2 DEF Downward
  <2>2. fs[i] \in SUBSET RunVersions(runs[i]) /\ fs[j] \in SUBSET RunVersions(runs[j])
    BY <1>3, <1>4, <1>5
  <2> QED  BY <2>1, <2>2, NewerSubsets
<1>8. UNION Range(fs) = UNION {FragmentFor(r, k) : r \in Range(runs)}
  BY <1>3 DEF Range
<1>9. Tree(lv) = UNION {RunVersions(r) : r \in Range(runs)}
  BY <1>1 DEF Tree
<1>10. UNION Range(fs) \in SUBSET Tree(lv)
  BY <1>4, <1>8, <1>9
<1>11. VersionsOf(UNION Range(fs), k) = VersionsOf(Tree(lv), k)
  <2>1. \A r \in Range(runs) : \A v : v \in RunVersions(r) /\ v.key = k => v \in FragmentFor(r, k)
    BY <1>4 DEF VersionsOf
  <2>2. \A v \in Tree(lv) : v.key = k => v \in UNION Range(fs)
    BY <1>8, <1>9, <2>1
  <2> QED  BY <1>10, <2>2 DEF VersionsOf
<1> QED  BY <1>6, <1>7, <1>10, <1>11 DEF fs, runs

\* A point lookup, which stops at the first source that has the key, finds
\* what a scan of everything finds.
LEMMA LookupIsScan ==
  ASSUME OptionsAssumption, Whole(levels), Memory(mem, imms, levels), NEW k, NEW s
  PROVE  FirstHit(SourcesFor(k), k, s) = NewestAt(Children(mem, imms, levels), k, s)
<1> DEFINE fs == FragmentsFor(FlattenSeq(levels), k)
           all == SourcesOf(mem, imms, fs)
           ch == Children(mem, imms, levels)
<1>1. /\ fs \in Seq(SUBSET Version) /\ Downward(fs)
      /\ UNION Range(fs) \in SUBSET Tree(levels)
      /\ VersionsOf(UNION Range(fs), k) = VersionsOf(Tree(levels), k)
  BY FragmentsDescend
<1>2. SourcesFor(k) = all
  <2>1. levels \in Seq(Seq(Run))
    BY DEF Whole
  <2>2. FlattenSeq([l \in DOMAIN levels |->
                      [i \in DOMAIN levels[l] |-> FragmentFor(levels[l][i], k)]]) = fs
    BY <2>1, FragmentsOfFlatten
  <2> QED  BY <2>2 DEF SourcesFor, SourcesOf
<1> HIDE DEF fs
<1>3. /\ all \in Seq(SUBSET Version) /\ Downward(all)
      /\ UNION Range(all) = mem \cup Frozen(imms) \cup UNION Range(fs)
  BY <1>1, SourcesDescend
<1>4. FirstHit(all, k, s) = NewestAt(UNION Range(all), k, s)
  <2>1. MaxSeq \in Nat
    BY DEF OptionsAssumption
  <2>2. \A i, j \in DOMAIN all : i < j => Newer(all[i], all[j])
    BY <1>3 DEF Downward
  <2> HIDE DEF all
  <2> QED  BY <1>3, <2>1, <2>2, FirstHitIsNewest
<1>5. VersionsOf(UNION Range(all), k) = VersionsOf(ch, k)
  <2>1. \A v \in Tree(levels) : v.key = k => v \in UNION Range(fs)
    BY <1>1 DEF VersionsOf
  <2> HIDE DEF all
  <2> QED  BY <1>1, <1>3, <2>1 DEF VersionsOf, Children
<1> HIDE DEF all, ch
<1>6. NewestAt(UNION Range(all), k, s) = NewestAt(ch, k, s)
  BY <1>5, SameVersions
<1> QED  BY <1>2, <1>4, <1>6 DEF ch

\* The scan's children are the store's.
LEMMA ChildrenAre ==
  ASSUME Whole(levels)
  PROVE  InternalChildren = Children(mem, imms, levels)
<1>1. Range(RunsNewestFirst) = RunsOf(levels)
  BY WholeLevels DEF RunsNewestFirst
<1> QED  BY <1>1 DEF InternalChildren, Children, Frozen, Tree

-----------------------------------------------------------------------------
(* The properties the runs check                                           *)

\* What a reader at or above the floor finds, by point lookup and by scan.
ReadsAreRight ==
    \A k \in Keys : \A s \in SeqNo : s >= Floor(snapshots, visible) =>
        /\ Live(GetVersioned(k, s)) = Expected(k, s)
        /\ Live(FirstHit(SourcesFor(k), k, s)) = Expected(k, s)
        /\ Live(NewestAt(InternalChildren, k, s)) = Expected(k, s)

\* Every state from the floor on reads as the writes left it.
LEMMA ReadsFromFloor ==
  ASSUME OptionsAssumption, TreeInv
  PROVE  ReadsAreRight
<1> SUFFICES ASSUME NEW k \in Keys, NEW s \in SeqNo, s >= Floor(snapshots, visible)
             PROVE  /\ Live(GetVersioned(k, s)) = Expected(k, s)
                    /\ Live(FirstHit(SourcesFor(k), k, s)) = Expected(k, s)
                    /\ Live(NewestAt(InternalChildren, k, s)) = Expected(k, s)
  BY DEF ReadsAreRight
<1> DEFINE ch == Children(mem, imms, levels)
<1>1. Whole(levels) /\ Memory(mem, imms, levels) /\ Unharmed(ch, log, Floor(snapshots, visible))
  BY DEF TreeInv
<1>2. InternalChildren = ch /\ FirstHit(SourcesFor(k), k, s) = NewestAt(ch, k, s)
  BY <1>1, ChildrenAre, LookupIsScan
<1> HIDE DEF ch
<1>3. Live(NewestAt(ch, k, s)) = Live(NewestAt(log, k, s))
  BY <1>1 DEF Unharmed
<1>4. GetVersioned(k, s) = FirstHit(SourcesFor(k), k, s)
  BY DEF GetVersioned
<1> QED  BY <1>2, <1>3, <1>4 DEF Expected

\* Whatever merges, drops, moves and flushes have happened, and wherever the
\* pass stands, every state that try_register_snapshot_at would accept reads,
\* by ReadView::get_versioned and by a scan, as the writes left it.
THEOREM AcceptedStatesReadRight == Spec => []RegistrableStatesIntact
<1>1. ASSUME TreeInv
      PROVE  RegistrableStatesIntact
  <2>1. ReadsAreRight
    BY <1>1, ReadsFromFloor, OptionsAssumption
  <2>2. \A s \in SeqNo : CanRegister(s) => s >= Floor(snapshots, visible)
    <3> SUFFICES ASSUME NEW s \in SeqNo, CanRegister(s) PROVE s >= Floor(snapshots, visible)
      OBVIOUS
    <3>1. /\ Floor(snapshots, visible) \in Nat /\ s \in Nat
          /\ Floor(snapshots, visible) <= s
      BY <1>1, OptionsAssumption, FloorHere, RegistrableIsAboveFloor, SeqNoIsFinite
      DEF TreeInv, OptionsAssumption
    <3> QED  BY <3>1
  <2> QED  BY <2>1, <2>2 DEF ReadsAreRight, RegistrableStatesIntact
<1> QED  BY <1>1, TreeAlways, PTL

\* SnapshotList counts exactly the live handles: a number shared by two
\* holders stays registered when one drops it, and none leaks.
THEOREM RegistryCountsHandles == Spec => []SnapshotsMatchHandles
<1>1. TreeInv => SnapshotsMatchHandles
  BY DEF TreeInv, Handles, SnapshotsMatchHandles
<1> QED  BY <1>1, TreeAlways, PTL

\* The order a point lookup goes through memtables, runs and levels is the
\* order of recency, so that it may stop at the first hit.
THEOREM ReadOrderIsRecency == Spec => []RecencyOrder
<1>1. ASSUME TreeInv
      PROVE  RecencyOrder
  <2>1. Whole(levels) /\ Memory(mem, imms, levels)
    BY <1>1 DEF TreeInv
  <2>2. /\ VersionsInOrder(levels) \in Seq(SUBSET Version) /\ Downward(VersionsInOrder(levels))
        /\ UNION Range(VersionsInOrder(levels)) \in SUBSET Tree(levels)
    BY <2>1, RunsDescend
  <2>3. Downward(SourcesOf(mem, imms, VersionsInOrder(levels)))
    BY <2>1, <2>2, SourcesDescend
  <2>4. Downward(<<mem>> \o imms \o [i \in DOMAIN RunsNewestFirst |-> RunVersions(RunsNewestFirst[i])])
    BY <2>3 DEF SourcesOf, VersionsInOrder, RunsNewestFirst
  <2> QED  BY <2>4 DEF RecencyOrder, Downward, Newer
<1> QED  BY <1>1, TreeAlways, PTL

\* The fragments of every run are in key order and disjoint, so that the
\* binary search of Run::fragment_for finds the only one that can hold a key.
THEOREM FragmentsStayOrdered == Spec => []FragmentsOrdered
<1>1. ASSUME TreeInv
      PROVE  FragmentsOrdered
  <2>1. Whole(levels) /\ Range(RunsNewestFirst) = RunsOf(levels)
    BY <1>1, WholeLevels DEF TreeInv, RunsNewestFirst
  <2> SUFFICES ASSUME NEW run \in RunsOf(levels),
                      NEW a \in DOMAIN run.tables, NEW b \in DOMAIN run.tables, a < b
               PROVE  MaxKey(run.tables[a]) < MinKey(run.tables[b])
    BY <2>1 DEF FragmentsOrdered
  <2>2. run \in Run /\ Ranged(run.tables)
    BY <2>1, WholeLevels DEF Whole, Sound
  <2>3. run.tables[a] \in Table /\ run.tables[b] \in Table
    BY <2>2 DEF Run
  <2>4. /\ \E v \in run.tables[a] : v.key = MaxKey(run.tables[a])
        /\ \E v \in run.tables[b] : v.key = MinKey(run.tables[b])
    BY <2>3, KeyBounds, OptionsAssumption DEF OptionsAssumption
  <2> QED  BY <2>2, <2>4 DEF Ranged, Before
<1> QED  BY <1>1, TreeAlways, PTL

\* Max picks the greatest of a finite set of numbers.
LEMMA MaxIsGreatest ==
  ASSUME NEW S \in SUBSET Int, IsFiniteSet(S), S # {}
  PROVE  Max(S) \in S /\ \A y \in S : y <= Max(S)
<1>1. \E x \in S : \A y \in S : x >= y
  <2>1. PICK x \in S : \A y \in S : y <= x
    BY GreatestExists
  <2>2. \A y \in S : x >= y
    BY <2>1
  <2> QED  BY <2>2
<1>2. Max(S) \in S /\ \A y \in S : Max(S) >= y
  BY <1>1 DEF Max
<1> QED  BY <1>2

\* Every commit to a key after a registered snapshot is still found by
\* ReadView::latest, tombstones included: no merge hides a conflict from the
\* validation of the transaction that holds the snapshot.
THEOREM ConflictsAreFound == Spec => []ConflictsStayVisible
<1>1. ASSUME TreeInv
      PROVE  ConflictsStayVisible
  <2> DEFINE F == Floor(snapshots, visible)
             ch == Children(mem, imms, levels)
  <2>1. /\ Typed /\ Handles(snapshots, held, visible) /\ Whole(levels)
        /\ Memory(mem, imms, levels) /\ Unharmed(ch, log, F)
        /\ ch \in SUBSET log /\ log \in SUBSET Version
    BY <1>1 DEF TreeInv, History
  <2>2. MaxSeq \in Nat /\ SeqNo \in SUBSET Nat
    BY OptionsAssumption, SeqNoIsFinite DEF OptionsAssumption
  <2>3. F \in Nat /\ \A s \in SeqNo : snapshots[s] > 0 => F <= s
    BY <2>1, FloorHere, OptionsAssumption
  <2>4. \A v \in log : v \in ch \/ v.seq <= F
    BY <2>1 DEF Unharmed
  <2>5. \A v \in log : v.seq \in 1 .. MaxSeq /\ v.seq \in Int /\ v.seq <= MaxSeq
    BY <2>1, <2>2 DEF Version
  <2>6. \A k : FirstHit(SourcesFor(k), k, MaxSeq) = NewestAt(ch, k, MaxSeq)
    BY <2>1, LookupIsScan, OptionsAssumption
  <2> HIDE DEF F, ch
  <2> SUFFICES ASSUME NEW s \in SeqNo, snapshots[s] > 0, NEW k \in Keys
               PROVE  (\E v \in log : v.key = k /\ v.seq > s) <=> Latest(k) > s
    BY DEF ConflictsStayVisible, Registered
  <2>7. F <= s /\ s \in Nat
    BY <2>2, <2>3
  <2> DEFINE new == NewestAt(ch, k, MaxSeq)
             nums == {v.seq : v \in new}
             S == {0} \cup nums
  <2>8. Latest(k) = Max(S)
    <3>1. GetVersioned(k, MaxSeq) = new
      BY <2>6 DEF GetVersioned
    <3> QED  BY <3>1 DEF Latest
  <2>9. new \in SUBSET ch /\ \A v \in new : v.key = k
    BY DEF NewestAt, VisibleAt
  <2>10. \A x \in S : x \in Int /\ 0 <= x /\ x <= MaxSeq
    BY <2>1, <2>2, <2>5, <2>9
  <2>11. IsFiniteSet(S) /\ S \in SUBSET Int
    <3> HIDE DEF S
    <3> QED  BY <2>2, <2>10, InIntervalFinite
  <2>12. Max(S) \in S /\ \A y \in S : y <= Max(S)
    <3>1. S # {}
      OBVIOUS
    <3> HIDE DEF S
    <3> QED  BY <2>11, <3>1, MaxIsGreatest
  <2>13. ASSUME NEW v \in log, v.key = k, v.seq > s
         PROVE  Max(S) > s
    <3>1. v \in ch
      BY <2>3, <2>4, <2>5, <2>7, <2>13
    <3>2. v \in VisibleAt(ch, k, MaxSeq) /\ ch \in SUBSET Version
      BY <2>1, <2>5, <2>13, <3>1 DEF VisibleAt
    <3>3. PICK w \in VisibleAt(ch, k, MaxSeq) : w \in new
      BY <2>2, <3>2, NewestExists
    <3>4. w.seq >= v.seq /\ w \in log
      BY <2>1, <2>9, <3>2, <3>3 DEF NewestAt
    <3>5. w.seq \in S
      BY <3>3
    <3>6. w.seq <= Max(S) /\ Max(S) \in Int
      BY <2>11, <2>12, <3>5
    <3> HIDE DEF S
    <3> QED  BY <2>5, <2>7, <2>13, <3>4, <3>6
  <2>14. ASSUME Max(S) > s
         PROVE  \E v \in log : v.key = k /\ v.seq > s
    <3>1. Max(S) \in Int /\ Max(S) # 0
      BY <2>7, <2>11, <2>12, <2>14
    <3>2. Max(S) \in nums
      BY <2>12, <3>1
    <3>3. PICK v \in new : v.seq = Max(S)
      BY <3>2
    <3>4. v \in log /\ v.key = k
      BY <2>1, <2>9
    <3>5. v.seq > s
      BY <2>14, <3>3
    <3> QED  BY <3>4, <3>5
  <2> HIDE DEF S
  <2> QED  BY <2>8, <2>13, <2>14
<1> QED  BY <1>1, TreeAlways, PTL

\* A job, however long it was suspended and whatever the flush thread and the
\* passes above it installed meanwhile, finds its inputs at the back of its
\* level and behind them only the runs it knew.
THEOREM JobsFindTheirInputs == Spec => []JobsInPlace
<1>1. ASSUME TreeInv
      PROVE  JobsInPlace
  <2> SUFFICES ASSUME NEW job \in Range(active) \cup Range(suspended)
               PROVE  LET ids == [i \in DOMAIN job.inputs |-> job.inputs[i].id]
                          lvl == levels[job.level]
                          n   == Len(ids)
                      IN  /\ Len(lvl) >= n
                          /\ [i \in 1 .. n |-> lvl[Len(lvl) - n + i].id] = ids
                          /\ job.kind = "tier" =>
                               job.older = FlattenSeq(SubSeq(levels, job.level + 1, LastLevel))
                          /\ job.kind = "splice" => job.level = LastLevel
    BY DEF JobsInPlace
  <2>1. Placed(levels, job)
    BY <1>1 DEF TreeInv, InPlace, Jobs
  <2>2. PICK front \in Seq(Run), back \in Seq(Run) : Fits(levels, job, front, back)
    BY <2>1 DEF Placed
  <2> DEFINE ids == [i \in DOMAIN job.inputs |-> job.inputs[i].id]
             lvl == levels[job.level]
             n   == Len(job.inputs)
  <2>3. /\ job.inputs \in Seq(Run) /\ n \in Nat /\ DOMAIN job.inputs = 1 .. n
        /\ lvl = front \o back /\ n = Len(back)
        /\ \A i \in 1 .. n : job.inputs[i].id = back[i].id
    BY <2>2 DEF Fits, Splits
  <2>4. /\ Len(lvl) = Len(front) + n /\ Len(front) \in Nat
        /\ \A i \in 1 .. n : lvl[Len(lvl) - n + i] = back[i]
    BY <2>3
  <2>5. ids \in Seq(Nat) /\ Len(ids) = n
    <3>1. \A i \in 1 .. n : job.inputs[i].id \in Nat
      <4>1. \A i \in 1 .. n : job.inputs[i] \in Run
        BY <2>3
      <4> HIDE DEF n
      <4> QED  BY <4>1 DEF Run
    <3>2. ids \in [1 .. n -> Nat]
      BY <2>3, <3>1
    <3> QED  BY <2>3, <3>2, FunctionIsSequence
  <2>6. [i \in 1 .. n |-> lvl[Len(lvl) - n + i].id] = ids
    BY <2>3, <2>4
  <2>7. /\ job.kind = "tier" => job.older = FlattenSeq(SubSeq(levels, job.level + 1, LastLevel))
        /\ job.kind = "splice" => job.level = LastLevel
    BY <2>2 DEF Fits, LastLevel
  <2>8. Len(lvl) >= n
    BY <2>3, <2>4
  <2> HIDE DEF ids, lvl, n
  <2> QED  BY <2>5, <2>6, <2>7, <2>8 DEF ids, lvl, n
<1> QED  BY <1>1, TreeAlways, PTL

\* Every variable has the type its declaration in db.rs, version.rs and
\* compaction.rs gives it, and the slots of the scheduler that a phase of the
\* pass needs are filled.
THEOREM TreeTypes == Spec => []TypeOK
<1>1. ASSUME TreeInv
      PROVE  TypeOK
  <2>1. /\ Typed /\ Handles(snapshots, held, visible) /\ Whole(levels)
        /\ Memory(mem, imms, levels) /\ log \in SUBSET Version /\ Slots
    BY <1>1 DEF TreeInv, History
  <2>2. mem \subseteq Version /\ log \subseteq Version
    BY <2>1 DEF Memory
  <2>3. \A i \in DOMAIN imms : imms[i] \in (SUBSET Version) \ {{}}
    <3>1. imms \in Seq(Table)
      BY <2>1 DEF Memory
    <3>2. \A i \in DOMAIN imms : imms[i] \in Table
      BY <3>1
    <3> QED  BY <3>2 DEF Table
  <2>4. \A l \in DOMAIN levels : \A i \in DOMAIN levels[l] :
           LET r == levels[l][i]
           IN  r.id \in Nat /\ r.tables # <<>>
               /\ \A t \in DOMAIN r.tables : r.tables[t] \in (SUBSET Version) \ {{}}
    <3> SUFFICES ASSUME NEW l \in DOMAIN levels, NEW i \in DOMAIN levels[l]
                 PROVE  LET r == levels[l][i]
                        IN  r.id \in Nat /\ r.tables # <<>>
                            /\ \A t \in DOMAIN r.tables : r.tables[t] \in (SUBSET Version) \ {{}}
      OBVIOUS
    <3>1. levels[l][i] \in Range(levels[l])
      BY DEF Range
    <3>2. levels[l][i] \in RunsOf(levels) /\ RunsOf(levels) \in SUBSET Run
      BY <2>1, <3>1, WholeLevels
    <3>3. Sound(levels[l][i]) /\ levels[l][i] \in Run
      BY <2>1, <3>2 DEF Whole
    <3> QED  BY <3>3 DEF Sound, Run, Table
  <2>5. snapshots \in [SeqNo -> 0 .. Cardinality(Readers)]
    <3>1. snapshots \in [SeqNo -> Nat]
      BY <2>1 DEF Typed
    <3>2. \A s \in SeqNo : snapshots[s] <= Cardinality(Readers)
      <4> SUFFICES ASSUME NEW s \in SeqNo PROVE snapshots[s] <= Cardinality(Readers)
        OBVIOUS
      <4> DEFINE H == {r \in Readers : held[r] = s}
      <4>1. snapshots[s] = Cardinality(H)
        BY <2>1 DEF Handles
      <4>2. IsFiniteSet(Readers) /\ H \in SUBSET Readers
        BY OptionsAssumption DEF OptionsAssumption
      <4> HIDE DEF H
      <4>3. Cardinality(H) <= Cardinality(Readers)
        BY <4>2, FS_Subset
      <4> QED  BY <4>1, <4>3
    <3>3. Cardinality(Readers) \in Nat
      BY FS_CardinalityType, OptionsAssumption DEF OptionsAssumption
    <3>4. \A s \in SeqNo : snapshots[s] \in 0 .. Cardinality(Readers)
      BY <3>1, <3>2, <3>3
    <3> QED  BY <3>1, <3>4
  <2>6. /\ visible \in SeqNo /\ held \in [Readers -> SeqNo \cup {NoSeq}]
        /\ admitted \subseteq Writers /\ faults \in 0 .. opts.faults
    BY <2>1 DEF Typed
  <2>7. bgError \in BOOLEAN /\ force \in BOOLEAN
    BY <2>1 DEF Typed
  <2>8. /\ phase \in {"off", "step", "start", "slice"}
        /\ Len(picked) = (IF phase = "start" THEN 1 ELSE 0)
        /\ Len(active) <= 1 /\ (phase = "slice" => Len(active) = 1)
    BY <2>1 DEF Slots
  <2> QED  BY <2>2, <2>3, <2>4, <2>5, <2>6, <2>7, <2>8 DEF TypeOK
<1> QED  BY <1>1, TreeAlways, PTL

-----------------------------------------------------------------------------
(* The tree implements the snapshot store                                  *)

\* What the history says each key reads at s.
StateOf(lg, s) == [k \in Keys |-> Live(NewestAt(lg, k, s))]

\* The current state and the open snapshots show what the history says.
ShowsHistory ==
    /\ [k \in Keys |-> Live(GetVersioned(k, visible))] = StateOf(log, visible)
    /\ \A r \in Readers : ViewOf(r) = IF held[r] = NoSeq THEN <<>> ELSE StateOf(log, held[r])

\* What lookups return, now and for each holder, is the state of the log there.
LEMMA HistoryIsShown ==
  ASSUME OptionsAssumption, TreeInv
  PROVE  ShowsHistory
<1> DEFINE F == Floor(snapshots, visible)
<1>1. /\ Typed /\ Handles(snapshots, held, visible) /\ ReadsAreRight
      /\ visible \in SeqNo /\ held \in [Readers -> SeqNo \cup {NoSeq}]
      /\ snapshots \in [SeqNo -> Nat]
  BY ReadsFromFloor DEF TreeInv, Typed
<1>2. /\ F \in Nat /\ F <= visible /\ visible \in Nat
      /\ \A s \in SeqNo : snapshots[s] > 0 => F <= s
  BY <1>1, FloorHere, SeqNoIsFinite DEF OptionsAssumption
<1>3. \A k \in Keys, s \in SeqNo : s >= F => Live(GetVersioned(k, s)) = Live(NewestAt(log, k, s))
  BY <1>1 DEF ReadsAreRight, Expected
<1> HIDE DEF F
<1>4. [k \in Keys |-> Live(GetVersioned(k, visible))] = StateOf(log, visible)
  <2>1. visible >= F
    BY <1>2
  <2> QED  BY <1>1, <1>3, <2>1 DEF StateOf
<1>5. ASSUME NEW r \in Readers, held[r] # NoSeq
      PROVE  ViewOf(r) = StateOf(log, held[r])
  <2> DEFINE s == held[r]
             H == {q \in Readers : held[q] = s}
  <2>1. s \in SeqNo
    BY <1>1, <1>5
  <2>2. snapshots[s] = Cardinality(H)
    BY <1>1, <2>1 DEF Handles
  <2>3. IsFiniteSet(Readers) /\ H \in SUBSET Readers /\ H # {}
    BY DEF OptionsAssumption
  <2> HIDE DEF H
  <2>4. Cardinality(H) \in Nat /\ Cardinality(H) # 0
    BY <2>3, FS_Subset, FS_CardinalityType, FS_EmptySet
  <2>5. s >= F
    <3>1. snapshots[s] > 0
      BY <2>2, <2>4
    <3>2. s \in Nat
      BY <2>1, SeqNoIsFinite DEF OptionsAssumption
    <3> HIDE DEF s
    <3> QED  BY <1>2, <2>1, <3>1, <3>2
  <2>6. ViewOf(r) = [k \in Keys |-> Live(GetVersioned(k, s))]
    BY <1>5 DEF ViewOf
  <2> HIDE DEF s
  <2>7. ViewOf(r) = StateOf(log, s)
    BY <1>3, <2>1, <2>5, <2>6 DEF StateOf
  <2> QED  BY <2>7 DEF s
<1>6. \A r \in Readers : held[r] = NoSeq => ViewOf(r) = <<>>
  BY DEF ViewOf
<1> QED  BY <1>4, <1>5, <1>6 DEF ShowsHistory

\* Only a commit changes the history, and only the holders change what is held.
LEMMA OthersAreInvisible ==
  ASSUME Next
  PROVE  \/ UNCHANGED <<log, visible, held>>
         \/ \E w \in Writers : ApplyLocked(w)
         \/ \E r \in Readers :
               RegisterSnapshot(r) \/ TryRegisterSnapshotAt(r) \/ DeregisterSnapshot(r)
<1>1. CASE \E w \in Writers : WaitForSpace(w)
  BY <1>1 DEF WaitForSpace, treeVars, snapVars
<1>2. CASE ForceRotate \/ FlushOne \/ FlushFails
  BY <1>2 DEF ForceRotate, FlushOne, FlushFails, treeVars, snapVars
<1>3. CASE \E f \in BOOLEAN : StartPass(f)
  BY <1>3 DEF StartPass, treeVars, snapVars
<1>4. CASE Preempt \/ ScheduleFresh \/ ScheduleSuspended
  BY <1>4 DEF Preempt, ScheduleFresh, ScheduleSuspended, treeVars, snapVars
<1>5. CASE StartRewrite \/ StartDeepen
  BY <1>5 DEF StartRewrite, StartDeepen, snapVars
<1>6. CASE RunSlice
  BY <1>6 DEF RunSlice, snapVars
<1>7. CASE PassFails
  BY <1>7 DEF PassFails, treeVars, snapVars
<1> QED  BY <1>1, <1>2, <1>3, <1>4, <1>5, <1>6, <1>7 DEF Next, Compact

\* A state that was visible before a batch reads the same after it.
LEMMA OldStatesStay ==
  ASSUME NEW lg \in SUBSET Version, NEW new \in SUBSET Version, NEW vis \in Nat,
         \A v \in new : vis < v.seq, NEW s \in Nat, s <= vis
  PROVE  StateOf(lg \cup new, s) = StateOf(lg, s)
<1>1. \A v \in new : v.seq \in Int
  BY DEF Version
<1>2. \A k : VisibleAt(lg \cup new, k, s) = VisibleAt(lg, k, s)
  BY <1>1 DEF VisibleAt
<1>3. \A k : NewestAt(lg \cup new, k, s) = NewestAt(lg, k, s)
  BY <1>2 DEF NewestAt
<1> QED  BY <1>3 DEF StateOf

\* What a batch adds to the history.
LEMMA CommitAdds ==
  ASSUME OptionsAssumption, TreeInv, NEW wr \in Writers, ApplyLocked(wr)
  PROVE  /\ held' = held /\ visible' > visible /\ visible \in Nat
         /\ \E new \in SUBSET Version :
              /\ log' = log \cup new /\ log \cap new = {}
              /\ \A v \in new : v.seq \in visible + 1 .. visible'
              /\ \A n \in visible + 1 .. visible' : \E v \in new : v.seq = n
<1>1. opts \in OptionSets /\ visible \in SeqNo /\ \A v \in log : v.seq <= visible
  BY DEF TreeInv, Typed, History
<1>2. visible \in Nat
  BY <1>1, SeqNoIsFinite DEF OptionsAssumption
<1> DEFINE Applied(n, ops) == /\ visible + n <= opts.seq
                              /\ log' = log \cup Batch(ops, n)
                              /\ visible' = visible + n
<1>3. PICK n \in 1 .. opts.batch : \E ops \in [1 .. n -> opts.ops] : Applied(n, ops)
  BY DEF ApplyLocked, Batch
<1>4. PICK ops \in [1 .. n -> opts.ops] : Applied(n, ops)
  BY <1>3
<1> DEFINE new == Batch(ops, n)
<1>5. visible + n <= opts.seq /\ log' = log \cup new /\ visible' = visible + n
  BY <1>4
<1>6. n \in Nat /\ n >= 1
  BY <1>1 DEF OptionsAssumption, OptionFields
<1>7. /\ new \in SUBSET Version
      /\ \A v \in new : v.seq \in visible + 1 .. visible + n
      /\ \A m \in visible + 1 .. visible + n : \E v \in new : v.seq = m
  <2> HIDE DEF new
  <2> QED  BY <1>1, <1>2, <1>5, BatchIs DEF new
<1> HIDE DEF new
<1>8. log \cap new = {}
  BY <1>1, <1>2, <1>7
<1>9. held' = held
  BY DEF ApplyLocked, snapVars
<1> QED  BY <1>2, <1>5, <1>6, <1>7, <1>8, <1>9

\* A state has a key.
LEMMA KeysAreSome ==
  ASSUME OptionsAssumption, NEW lg, NEW s
  PROVE  StateOf(lg, s) # <<>>
<1>1. DOMAIN StateOf(lg, s) = Keys /\ Keys # {}
  BY DEF StateOf, OptionsAssumption
<1>2. DOMAIN <<>> = {}
  OBVIOUS
<1> QED  BY <1>1, <1>2

\* The store's own copy of the reading operators says the same.
LEMMA StoreReadsAlike ==
  ASSUME NEW lg, NEW s
  PROVE  Store!StateAt(lg, s) = StateOf(lg, s)
BY DEF Store!StateAt, Store!Live, Store!NewestAt, Store!VisibleAt,
       StateOf, Live, NewestAt, VisibleAt

\* The mapping of INSTANCE SnapshotStore.
Current == [k \in Keys |-> Live(GetVersioned(k, visible))]
Views == [r \in Readers |-> ViewOf(r)]

\* A write is a Commit of the abstract store.
LEMMA CommitIsCommit ==
  ASSUME OptionsAssumption, TreeInv, ShowsHistory, ShowsHistory', NEW wr \in Writers,
         ApplyLocked(wr)
  PROVE  Store!Commit
<1>1. PICK new \in SUBSET Version :
         /\ log' = log \cup new /\ log \cap new = {}
         /\ \A v \in new : v.seq \in visible + 1 .. visible'
         /\ \A n \in visible + 1 .. visible' : \E v \in new : v.seq = n
  BY CommitAdds
<1>2. held' = held /\ visible' > visible /\ visible \in Nat
  BY CommitAdds
<1>3. log' \ log = new /\ log \subseteq log'
  BY <1>1
<1>4. Current' = StateOf(log', visible')
  BY DEF ShowsHistory, Current
<1>5. Views' = Views
  <2>1. log \in SUBSET Version /\ \A r \in Readers : held[r] <= visible /\ held[r] \in SeqNo \cup {NoSeq}
    BY DEF TreeInv, History, Typed, Handles
  <2>2. \A v \in new : visible < v.seq
    BY <1>1, <1>2
  <2>3. ASSUME NEW r \in Readers, held[r] # NoSeq
        PROVE  StateOf(log', held[r]) = StateOf(log, held[r])
    <3> DEFINE s == held[r]
    <3>1. s \in Nat /\ s <= visible
      BY <2>1, <2>3, SeqNoIsFinite DEF OptionsAssumption
    <3> HIDE DEF s
    <3>2. /\ log \in SUBSET Version /\ new \in SUBSET Version /\ visible \in Nat
          /\ \A v \in new : visible < v.seq
      BY <1>2, <2>1, <2>2
    <3>3. StateOf(log \cup new, s) = StateOf(log, s)
      BY <3>1, <3>2, OldStatesStay
    <3> QED  BY <1>1, <3>3 DEF s
  <2>4. \A r \in Readers :
           /\ ViewOf(r) = IF held[r] = NoSeq THEN <<>> ELSE StateOf(log, held[r])
           /\ ViewOf(r)' = IF held[r] = NoSeq THEN <<>> ELSE StateOf(log', held[r])
    BY <1>2 DEF ShowsHistory
  <2>5. \A r \in Readers : ViewOf(r)' = ViewOf(r)
    BY <2>3, <2>4
  <2> QED  BY <2>5 DEF Views
<1>6. \A v \in new : v \in Version
  BY <1>1
<1>7. Current' = Store!StateAt(log', visible')
  BY <1>4, StoreReadsAlike
<1> QED  BY <1>1, <1>2, <1>3, <1>5, <1>6, <1>7 DEF Store!Commit, Current, Views

\* A registration is an Open of the abstract store.
LEMMA RegisterIsOpen ==
  ASSUME OptionsAssumption, TreeInv, ShowsHistory, ShowsHistory', NEW r \in Readers,
         RegisterSnapshot(r) \/ TryRegisterSnapshotAt(r)
  PROVE  Store!Open(r)
<1>1. visible \in SeqNo /\ visible \in Nat /\ SeqNo \in SUBSET Nat
      /\ held \in [Readers -> SeqNo \cup {NoSeq}]
  BY SeqNoIsFinite DEF TreeInv, Typed, OptionsAssumption
<1>2. /\ held[r] = NoSeq /\ log' = log /\ visible' = visible
      /\ \E s \in SeqNo : s <= visible /\ held' = [held EXCEPT ![r] = s]
  <2>1. CASE RegisterSnapshot(r)
    <3>1. /\ held[r] = NoSeq /\ log' = log /\ visible' = visible
          /\ held' = [held EXCEPT ![r] = visible]
      BY <2>1 DEF RegisterSnapshot, Register, treeVars
    <3>2. visible \in SeqNo /\ visible <= visible
      BY <1>1
    <3> QED  BY <3>1, <3>2
  <2>2. CASE TryRegisterSnapshotAt(r)
    BY <1>1, <2>2 DEF TryRegisterSnapshotAt, Register, CanRegister, treeVars
  <2> QED  BY <2>1, <2>2
<1>3. PICK s \in SeqNo : s <= visible /\ held' = [held EXCEPT ![r] = s]
  BY <1>2
<1>4. s \in 0 .. visible /\ s # NoSeq
  BY <1>1, <1>3 DEF NoSeq
<1>5. ViewOf(r) = <<>> /\ ViewOf(r)' = StateOf(log, s)
  <2>1. held'[r] = s
    BY <1>1, <1>3
  <2>2. ViewOf(r) = IF held[r] = NoSeq THEN <<>> ELSE StateOf(log, held[r])
    BY DEF ShowsHistory
  <2>3. ViewOf(r)' = IF held'[r] = NoSeq THEN <<>> ELSE StateOf(log', held'[r])
    BY DEF ShowsHistory
  <2> QED  BY <1>2, <1>4, <2>1, <2>2, <2>3
<1>6. \A q \in Readers : q # r => ViewOf(q)' = ViewOf(q)
  <2>1. \A q \in Readers : q # r => held'[q] = held[q]
    BY <1>1, <1>3
  <2> QED  BY <1>2, <2>1 DEF ShowsHistory
<1>7. /\ Views[r] = <<>> /\ Views'[r] # <<>>
      /\ Views' = [Views EXCEPT ![r] = StateOf(log, s)]
  BY <1>5, <1>6, KeysAreSome DEF Views
<1>8. Current' = Current
  BY <1>2 DEF ShowsHistory, Current
<1>9. Views' = [Views EXCEPT ![r] = Store!StateAt(log, s)]
  BY <1>7, StoreReadsAlike
<1> QED  BY <1>2, <1>4, <1>7, <1>8, <1>9 DEF Store!Open, Current, Views

\* A deregistration is a Close of the abstract store.
LEMMA DeregisterIsClose ==
  ASSUME OptionsAssumption, TreeInv, ShowsHistory, ShowsHistory', NEW r \in Readers,
         DeregisterSnapshot(r)
  PROVE  Store!Close(r)
<1>1. held \in [Readers -> SeqNo \cup {NoSeq}]
  BY DEF TreeInv, Typed
<1>2. /\ held[r] # NoSeq /\ log' = log /\ visible' = visible
      /\ held' = [held EXCEPT ![r] = NoSeq]
  BY DEF DeregisterSnapshot, treeVars
<1>3. ViewOf(r) # <<>> /\ ViewOf(r)' = <<>>
  <2>1. held'[r] = NoSeq
    BY <1>1, <1>2
  <2>2. ViewOf(r) = IF held[r] = NoSeq THEN <<>> ELSE StateOf(log, held[r])
    BY DEF ShowsHistory
  <2>3. ViewOf(r)' = IF held'[r] = NoSeq THEN <<>> ELSE StateOf(log', held'[r])
    BY DEF ShowsHistory
  <2> QED  BY <1>2, <2>1, <2>2, <2>3, KeysAreSome
<1>4. \A q \in Readers : q # r => ViewOf(q)' = ViewOf(q)
  <2>1. \A q \in Readers : q # r => held'[q] = held[q]
    BY <1>1, <1>2
  <2> QED  BY <1>2, <2>1 DEF ShowsHistory
<1>5. /\ Views[r] # <<>> /\ Views'[r] = <<>>
      /\ Views' = [Views EXCEPT ![r] = <<>>]
  BY <1>3, <1>4 DEF Views
<1>6. Current' = Current
  BY <1>2 DEF ShowsHistory, Current
<1> QED  BY <1>2, <1>5, <1>6 DEF Store!Close, Current, Views

\* Every step of the tree is a step of the store or none.
LEMMA StoreStep ==
  ASSUME OptionsAssumption, TreeInv, ShowsHistory, ShowsHistory', [Next]_vars
  PROVE  [Store!Next]_(Store!vars)
<1>1. CASE UNCHANGED <<log, visible, held>>
  <2>1. Current' = Current
    BY <1>1 DEF ShowsHistory, Current
  <2>2. \A r \in Readers : ViewOf(r)' = ViewOf(r)
    BY <1>1 DEF ShowsHistory
  <2>3. Views' = Views
    BY <2>2 DEF Views
  <2> QED  BY <1>1, <2>1, <2>3 DEF Store!vars, Current, Views
<1>2. CASE \E w \in Writers : ApplyLocked(w)
  BY <1>2, CommitIsCommit DEF Store!Next
<1>3. CASE \E r \in Readers :
              RegisterSnapshot(r) \/ TryRegisterSnapshotAt(r) \/ DeregisterSnapshot(r)
  BY <1>3, RegisterIsOpen, DeregisterIsClose DEF Store!Next
<1>4. CASE UNCHANGED vars
  BY <1>1, <1>4 DEF vars, treeVars, snapVars
<1> QED  BY <1>1, <1>2, <1>3, <1>4, OthersAreInvisible

\* The tree starts as the abstract store does.
LEMMA StoreStarts ==
  ASSUME OptionsAssumption, Init, ShowsHistory
  PROVE  Store!Init
<1>1. log = {} /\ visible = 0 /\ \A r \in Readers : held[r] = NoSeq
  BY DEF Init
<1>2. Current = Store!StateAt({}, 0)
  BY <1>1, StoreReadsAlike DEF ShowsHistory, Current
<1>3. Views = [r \in Readers |-> <<>>]
  BY <1>1 DEF ShowsHistory, Views
<1> QED  BY <1>1, <1>2, <1>3 DEF Store!Init, Current, Views

\* The tree implements the snapshot store: a flush, a merge, a move, a
\* suspension or a failure is invisible to every reader, a batch shows in the
\* current state only, and a snapshot shows one state of the history from the
\* moment it is opened until it is closed.
THEOREM TreeImplementsStore == Spec => ImplementsStore
<1>1. Init => Store!Init
  BY Starts, HistoryIsShown, StoreStarts, OptionsAssumption
<1>2. TreeInv => ShowsHistory
  BY HistoryIsShown, OptionsAssumption
<1>3. TreeInv /\ ShowsHistory /\ ShowsHistory' /\ [Next]_vars => [Store!Next]_(Store!vars)
  BY StoreStep, OptionsAssumption
<1> QED  BY <1>1, <1>2, <1>3, TreeAlways, PTL DEF Spec, ImplementsStore, Store!Spec
=============================================================================

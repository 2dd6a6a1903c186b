----------------------------- MODULE TriggerProofs -----------------------------
(***************************************************************************)
(* Proofs about Trigger: no touch of a keys-mode trigger is lost, and the  *)
(* feed of a changes-mode trigger takes effect exactly once, whatever the  *)
(* runner, the admin calls and the crashes do in between.                  *)
(***************************************************************************)
EXTENDS Trigger, SortedProofs

-----------------------------------------------------------------------------
(* Types                                                                   *)

Def == [inc : Nat, mode : Modes, clean : BOOLEAN]
DefOpt == {<<>>} \cup {<<d>> : d \in Def}
Event == {KeyEvent(k) : k \in Keys} \cup {ChangeEvent(n) : n \in Nat}
Account == [touched : [Keys -> Nat], seen : [Keys -> Nat],
            captured : Seq(Nat), applied : Seq(Nat)]
Image == [ops : Nat, queue : SUBSET Event, def : DefOpt, mod : Modes \cup {"none"},
          wrote : SUBSET Event, acct : Account]
Runner == [pc : {"idle", "found", "orphan", "clear", "packed", "guest"}, def : DefOpt,
           consume : SUBSET Event, snap : Nat, tries : Nat]

Types ==
    /\ log \in Seq(Image) /\ log # <<>>
    /\ defs \in DefOpt /\ run \in Runner /\ incs \in Nat
    /\ IsFiniteSet(run.consume)

-----------------------------------------------------------------------------
(* The inductive invariant                                                 *)

\* The definition of an image counts: it was made over a clean slate, and
\* nobody has begun to delete it (D: the definitions whose deletion was begun).
Alive(s, D) == s.def # <<>> /\ s.def[1].clean /\ s.def[1].inc \notin D
Changes(Q) == {e \in Q : e.t = "changes"}

\* Events and touches are numbered by the ops committed so far.
Numbered(s) ==
    /\ s.ops <= MaxOps
    /\ IsFiniteSet(s.queue)
    /\ \A e \in Changes(s.queue) : e.n <= s.ops
    /\ \A k \in Keys : s.acct.touched[k] <= s.ops

\* What TouchesKept and ChangesExactlyOnce say, of any image.
Touches(s) == \A k \in Keys : s.acct.touched[k] > s.acct.seen[k] => KeyEvent(k) \in s.queue
Feed(s) == s.acct.applied \o Numbers(Changes(s.queue)) = s.acct.captured
Complete(s, D) ==
    Alive(s, D) => /\ s.def[1].mode = "keys" => Touches(s)
                   /\ s.def[1].mode = "changes" => Feed(s)

\* A touch later than an image of the history was captured later than it, so
\* a drain that read the earlier image finds the conflict.
Witnessed(h, i, j) ==
    h[j].def # <<>> /\ h[j].def[1].mode = "keys" =>
        \A k \in Keys : h[j].acct.touched[k] > h[i].ops =>
            \E m \in (i + 1)..j : KeyEvent(k) \in h[m].wrote

\* Every image, because a crash may go back to any of them.
Sound(h, D) ==
    /\ \A i \in 1..Len(h) : Numbered(h[i]) /\ Complete(h[i], D)
    /\ \A j \in 1..Len(h) : \A i \in 1..j : Witnessed(h, i, j)

\* The registry and the admin call agree with the persisted definition.
Registry ==
    /\ defs # <<>> => store.def = defs
    /\ admin[1] = "activate" => defs = <<>> /\ store.def = <<admin[2]>>
    /\ admin[1] \in {"erase", "clear"} => defs = <<>> /\ ~Alive(store, doomed)
    /\ Alive(store, doomed) /\ defs = <<>> => store.queue = {}

\* Of a definition that counts the runner handles nothing but the queue's front.
Foremost(s, consume) ==
    /\ consume \subseteq Changes(s.queue)
    /\ \A e \in consume, f \in Changes(s.queue) \ consume : e.n < f.n
Drains ==
    /\ run.snap <= Len(log) /\ run.tries < Retries
    /\ run.pc = "guest" => run.snap >= 1
    /\ run.pc \in {"found", "packed", "guest"} => run.def # <<>>
    /\ Alive(store, doomed) =>
        /\ run.pc \notin {"orphan", "clear"}
        /\ run.pc # "idle" => run.def = store.def
        /\ run.pc \in {"packed", "guest"} /\ store.def[1].mode = "changes" =>
             Foremost(store, run.consume)

TriggerInv == Types /\ Sound(log, doomed) /\ Registry /\ Drains

-----------------------------------------------------------------------------
(* Queue keys in order                                                     *)

\* A set of change events is as large as the set of their numbers.
LEMMA SameCount ==
  ASSUME NEW E, IsFiniteSet(E), \A e \in E : e = ChangeEvent(e.n)
  PROVE  LET N == {e.n : e \in E} IN IsFiniteSet(N) /\ Cardinality(N) = Cardinality(E)
<1> DEFINE N == {e.n : e \in E}
           f == [e \in E |-> e.n]
<1>1. f \in [E -> N]
  OBVIOUS
<1>2. \A a, b \in E : f[a] = f[b] => a = b
  OBVIOUS
<1>3. \A n \in N : \E e \in E : f[e] = n
  OBVIOUS
<1> HIDE DEF f, N
<1>4. f \in Bijection(E, N)
  BY <1>1, <1>2, <1>3, Fun_IsBij
<1>5. IsFiniteSet(N) /\ Cardinality(N) = Cardinality(E)
  BY <1>4, FS_Bijection DEF ExistsBijection
<1> QED  BY <1>5 DEF N

\* Numbers lists the numbers of a set of change events.
LEMMA NumbersListed ==
  ASSUME NEW E, IsFiniteSet(E), \A e \in E : e = ChangeEvent(e.n) /\ e.n \in Nat
  PROVE  LET N == {e.n : e \in E}
         IN  /\ N \in SUBSET Int /\ N \in SUBSET Nat /\ IsFiniteSet(N)
             /\ Numbers(E) = Listed(N) /\ Numbers(E) \in Seq(Nat)
<1> DEFINE N == {e.n : e \in E}
<1>1. N \in SUBSET Int /\ N \in SUBSET Nat
  OBVIOUS
<1>2. IsFiniteSet(N) /\ Cardinality(N) = Cardinality(E)
  BY SameCount
<1>3. ASSUME NEW n \in N
      PROVE  Cardinality({e \in E : e.n < n}) = Cardinality({t \in N : t < n})
  <2> DEFINE F == {e \in E : e.n < n}
             M == {e.n : e \in F}
  <2>1. IsFiniteSet(F) /\ \A e \in F : e = ChangeEvent(e.n)
    BY FS_Subset
  <2>2. M = {t \in N : t < n}
    OBVIOUS
  <2>3. Cardinality(M) = Cardinality(F)
    <3> HIDE DEF F
    <3> QED  BY <2>1, SameCount
  <2> QED  BY <2>2, <2>3
<1>4. \A i : (CHOOSE n \in N : Cardinality({e \in E : e.n < n}) = i - 1)
               = (CHOOSE n \in N : Cardinality({t \in N : t < n}) = i - 1)
  <2> SUFFICES ASSUME NEW i
               PROVE  (CHOOSE n \in N : Cardinality({e \in E : e.n < n}) = i - 1)
                        = (CHOOSE n \in N : Cardinality({t \in N : t < n}) = i - 1)
    OBVIOUS
  <2> HIDE DEF N
  <2>1. \A n : n \in N /\ Cardinality({e \in E : e.n < n}) = i - 1
                 <=> n \in N /\ Cardinality({t \in N : t < n}) = i - 1
    BY <1>3
  <2> QED  BY <2>1
<1>5. Numbers(E) = Listed(N)
  <2> HIDE DEF N
  <2>1. Numbers(E) = [i \in 1..Cardinality(E) |->
                        CHOOSE n \in N : Cardinality({e \in E : e.n < n}) = i - 1]
    BY DEF Numbers, N
  <2> QED  BY <1>2, <1>4, <2>1 DEF Listed
<1>6. Numbers(E) \in Seq(Nat)
  <2> HIDE DEF N
  <2>1. Listed(N) \in Seq(N)
    BY <1>1, <1>2, ListedInOrder
  <2> QED  BY <1>1, <1>5, <2>1, SeqMonotonic
<1> QED  BY <1>1, <1>2, <1>5, <1>6

\* Later events are listed after the earlier ones.
LEMMA NumbersConcat ==
  ASSUME NEW E, NEW F, IsFiniteSet(E), IsFiniteSet(F),
         \A e \in E \cup F : e = ChangeEvent(e.n) /\ e.n \in Nat,
         \A e \in E, f \in F : e.n < f.n
  PROVE  Numbers(E \cup F) = Numbers(E) \o Numbers(F)
<1> DEFINE S == {e.n : e \in E}
           T == {e.n : e \in F}
           U == {e.n : e \in E \cup F}
<1>1. S \in SUBSET Int /\ IsFiniteSet(S) /\ Numbers(E) = Listed(S)
  BY NumbersListed
<1>2. T \in SUBSET Int /\ IsFiniteSet(T) /\ Numbers(F) = Listed(T)
  BY NumbersListed
<1>3. Numbers(E \cup F) = Listed(U)
  <2>1. IsFiniteSet(E \cup F)
    BY FS_Union
  <2> QED  BY <2>1, NumbersListed
<1>4. U = S \cup T /\ \A x \in S, y \in T : x < y
  OBVIOUS
<1> HIDE DEF S, T, U
<1>5. Listed(S \cup T) = Listed(S) \o Listed(T)
  BY <1>1, <1>2, <1>4, ListedConcat
<1> QED  BY <1>1, <1>2, <1>3, <1>4, <1>5

\* The events of one batch, in order.
LEMMA BatchNumbered ==
  ASSUME NEW n \in Nat, NEW base \in Nat
  PROVE  LET E == {ChangeEvent(base + i) : i \in 1..n}
             s == [i \in 1..n |-> base + i]
         IN  /\ IsFiniteSet(E) /\ \A e \in E : e = ChangeEvent(e.n) /\ e.n \in base + 1 .. base + n
             /\ s \in Seq(Nat) /\ Numbers(E) = s
<1> DEFINE E == {ChangeEvent(base + i) : i \in 1..n}
           s == [i \in 1..n |-> base + i]
           N == {e.n : e \in E}
<1>1. \A e \in E : e = ChangeEvent(e.n) /\ e.n \in base + 1 .. base + n /\ e.n \in Nat
  BY DEF ChangeEvent
<1>2. IsFiniteSet(E)
  <2> DEFINE f == [i \in 1..n |-> ChangeEvent(base + i)]
  <2>1. f \in Surjection(1..n, E)
    BY DEF Surjection
  <2>2. IsFiniteSet(1..n)
    BY FS_Interval
  <2> HIDE DEF f, E
  <2> QED  BY <2>1, <2>2, FS_Surjection
<1>3. s \in Seq(Nat) /\ s \in Seq(Int) /\ Len(s) = n
  <2>1. s \in [1..n -> Nat]
    OBVIOUS
  <2> HIDE DEF s
  <2>2. s \in Seq(Nat) /\ Len(s) = n
    BY <2>1, FunctionIsSequence
  <2> QED  BY <2>2, SeqMonotonic
<1>4. Increasing(s)
  BY DEF Increasing
<1>5. Range(s) = N
  <2>1. N = {base + i : i \in 1..n}
    <3>1. \A i \in 1..n : ChangeEvent(base + i) \in E /\ ChangeEvent(base + i).n = base + i
      BY DEF ChangeEvent
    <3>2. \A e \in E : \E i \in 1..n : e.n = base + i
      BY DEF ChangeEvent
    <3> HIDE DEF E
    <3> QED  BY <3>1, <3>2
  <2>2. Range(s) = {base + i : i \in 1..n}
    BY DEF Range
  <2> QED  BY <2>1, <2>2
<1>6. Numbers(E) = Listed(N)
  <2> HIDE DEF E
  <2> QED  BY <1>1, <1>2, NumbersListed
<1>7. s = Listed(Range(s))
  <2> HIDE DEF s
  <2> QED  BY <1>3, <1>4, IncreasingIsListed
<1>8. Numbers(E) = s
  BY <1>5, <1>6, <1>7
<1> QED  BY <1>1, <1>2, <1>3, <1>8

\* The front of the queue: what is left behind comes after it.
LEMMA FrontOfQueue ==
  ASSUME NEW Q \in SUBSET Event, IsFiniteSet(Q), NEW n \in Nat
  PROVE  /\ FirstOf(Q, n) \in SUBSET Q /\ IsFiniteSet(FirstOf(Q, n))
         /\ \A e \in Changes(FirstOf(Q, n)), f \in Changes(Q) \ FirstOf(Q, n) : e.n < f.n
<1>1. FirstOf(Q, n) \in SUBSET Q
  BY DEF FirstOf
<1>2. IsFiniteSet(FirstOf(Q, n))
  BY <1>1, FS_Subset
<1>3. ASSUME NEW e \in Changes(FirstOf(Q, n)), NEW f \in Changes(Q), f \notin FirstOf(Q, n), ~(e.n < f.n)
      PROVE  FALSE
  <2> DEFINE P == {x \in Q : Before(x, e)}
             R == {x \in Q : Before(x, f)}
  <2>1. /\ e \in Q /\ f \in Q /\ e.t = "changes" /\ f.t = "changes"
        /\ e = ChangeEvent(e.n) /\ f = ChangeEvent(f.n) /\ e.n \in Nat /\ f.n \in Nat
    BY <1>1, <1>3 DEF Changes, Event, KeyEvent, ChangeEvent
  <2>2. e # f
    BY <1>3 DEF Changes
  <2>3. f.n < e.n
    BY <1>3, <2>1, <2>2
  <2>4. \A x \in Q : x.t = "changes" => x.n \in Nat
    BY DEF Event, KeyEvent, ChangeEvent
  <2>5. R \in SUBSET P /\ IsFiniteSet(P)
    <3>1. \A x \in Q : Before(x, f) => Before(x, e)
      BY <2>1, <2>3, <2>4 DEF Before
    <3> QED  BY <3>1, FS_Subset
  <2>6. Cardinality(R) <= Cardinality(P) /\ Cardinality(R) \in Nat /\ Cardinality(P) \in Nat
    <3> HIDE DEF P, R
    <3> QED  BY <2>5, FS_Subset, FS_CardinalityType
  <2>7. Cardinality(P) < n
    BY <1>3 DEF FirstOf, Changes
  <2>8. ~(Cardinality(R) < n)
    BY <1>3, <2>1 DEF FirstOf
  <2> QED  BY <2>6, <2>7, <2>8
<1> QED  BY <1>1, <1>2, <1>3

-----------------------------------------------------------------------------
(* Histories of images                                                     *)

\* The store is the last of the states in the log.
LEMMA LogTyped ==
  ASSUME Types
  PROVE  /\ log \in Seq(Image) /\ Len(log) \in Nat \ {0} /\ store = log[Len(log)]
         /\ store \in Image /\ \A i \in 1..Len(log) : log[i] \in Image
<1>1. log \in Seq(Image) /\ log # <<>>
  BY DEF Types
<1>2. Len(log) \in Nat \ {0} /\ \A i \in 1..Len(log) : log[i] \in Image
  BY <1>1, EmptySeq, LenProperties, ElementOfSeq
<1> QED  BY <1>1, <1>2 DEF store, Last

\* A commit appends an image.
LEMMA LogGrows ==
  ASSUME Types, NEW s \in Image, log' = Append(log, s)
  PROVE  /\ log' \in Seq(Image) /\ log' # <<>> /\ Len(log') = Len(log) + 1 /\ store' = s
         /\ log'[Len(log) + 1] = s /\ \A i \in 1..Len(log) : log'[i] = log[i]
<1>1. log \in Seq(Image)
  BY DEF Types
<1>2. /\ Append(log, s) \in Seq(Image) /\ Append(log, s) # <<>>
      /\ Len(Append(log, s)) = Len(log) + 1 /\ Append(log, s)[Len(log) + 1] = s
      /\ \A i \in 1..Len(log) : Append(log, s)[i] = log[i]
  BY <1>1, AppendProperties
<1> QED  BY <1>2 DEF store, Last

\* A state that follows soundly may be added to the log.
LEMMA SoundGrows ==
  ASSUME NEW h \in Seq(Image), h # <<>>, NEW D, Sound(h, D), NEW s \in Image,
         Numbered(s), Complete(s, D),
         s.def # <<>> /\ s.def[1].mode = "keys" =>
           \A k \in Keys : \/ s.acct.touched[k] = 0
                           \/ KeyEvent(k) \in s.wrote
                           \/ /\ h[Len(h)].def = s.def
                              /\ h[Len(h)].acct.touched[k] = s.acct.touched[k]
  PROVE  Sound(Append(h, s), D)
<1> DEFINE g == Append(h, s)
           n == Len(h)
<1>1. /\ n \in Nat \ {0} /\ Len(g) = n + 1 /\ g[n + 1] = s /\ \A i \in 1..n : g[i] = h[i]
  BY AppendProperties, LenProperties, EmptySeq
<1>2. \A i \in 1..n : h[i] \in Image
  BY ElementOfSeq
<1> HIDE DEF g, n
<1>3. ASSUME NEW i \in 1..n + 1 PROVE Numbered(g[i]) /\ Complete(g[i], D)
  <2>1. CASE i = n + 1
    BY <1>1, <2>1
  <2>2. CASE i \in 1..n
    BY <1>1, <2>2 DEF Sound, n
  <2> QED  BY <1>1, <2>1, <2>2
<1>4. ASSUME NEW j \in 1..n + 1, NEW i \in 1..j PROVE Witnessed(g, i, j)
  <2>1. CASE j \in 1..n
    <3>1. Witnessed(h, i, j)
      BY <2>1 DEF Sound, n
    <3>2. i \in 1..n /\ \A m \in (i + 1)..j : m \in 1..n
      BY <1>1, <2>1
    <3>3. g[j] = h[j] /\ g[i] = h[i] /\ \A m \in (i + 1)..j : g[m] = h[m]
      BY <1>1, <2>1, <3>2
    <3> QED  BY <3>1, <3>3 DEF Witnessed
  <2>2. CASE j = n + 1
    <3> SUFFICES ASSUME s.def # <<>>, s.def[1].mode = "keys", NEW k \in Keys,
                        s.acct.touched[k] > g[i].ops
                 PROVE  \E m \in (i + 1)..j : KeyEvent(k) \in g[m].wrote
      BY <1>1, <2>2 DEF Witnessed
    <3>1. s.acct.touched[k] <= s.ops /\ s.acct.touched[k] \in Nat /\ s.ops \in Nat
      BY DEF Numbered, Image, Account
    <3>2. i \in 1..n
      BY <1>1, <2>2, <3>1
    <3>3. g[i] = h[i] /\ h[i].ops \in Nat /\ s.acct.touched[k] > h[i].ops
      BY <1>1, <1>2, <3>2 DEF Image
    <3>4. n + 1 \in (i + 1)..j
      BY <1>1, <2>2, <3>2
    <3>5. CASE KeyEvent(k) \in s.wrote
      BY <1>1, <3>4, <3>5
    <3>6. CASE h[n].def = s.def /\ h[n].acct.touched[k] = s.acct.touched[k]
      <4>1. Witnessed(h, i, n)
        BY <1>1, <3>2 DEF Sound, n
      <4>2. PICK m \in (i + 1)..n : KeyEvent(k) \in h[m].wrote
        BY <3>3, <3>6, <4>1 DEF Witnessed
      <4>3. m \in 1..n /\ m \in (i + 1)..j
        BY <1>1, <2>2, <3>2
      <4> QED  BY <1>1, <4>2, <4>3
    <3> QED  BY <3>1, <3>3, <3>5, <3>6 DEF n
  <2> QED  BY <1>1, <2>1, <2>2
<1>5. Sound(g, D)
  BY <1>1, <1>3, <1>4 DEF Sound
<1> QED  BY <1>5 DEF g

\* A crash goes back to one of them.
LEMMA SoundCut ==
  ASSUME NEW h \in Seq(Image), NEW D, Sound(h, D), NEW cut \in 1..Len(h)
  PROVE  /\ SubSeq(h, 1, cut) \in Seq(Image) /\ SubSeq(h, 1, cut) # <<>>
         /\ Last(SubSeq(h, 1, cut)) = h[cut] /\ Sound(SubSeq(h, 1, cut), D)
<1> DEFINE g == SubSeq(h, 1, cut)
           n == Len(h)
<1>1. n \in Nat /\ cut \in Nat /\ cut >= 1 /\ cut <= n /\ \A i \in 1..n : h[i] \in Image
  BY LenProperties, ElementOfSeq
<1>2. g \in Seq(Image) /\ Len(g) = cut /\ \A i \in 1..cut : g[i] = h[i]
  <2>1. \A i \in 1..cut : h[i] \in Image
    BY <1>1
  <2>2. /\ g \in Seq(Image) /\ Len(g) = IF 1 <= cut THEN cut - 1 + 1 ELSE 0
        /\ \A i \in 1..cut - 1 + 1 : g[i] = h[1 + i - 1]
    BY <1>1, <2>1, SubSeqProperties
  <2> HIDE DEF g, n
  <2>3. \A i \in 1..cut : i \in 1..cut - 1 + 1 /\ 1 + i - 1 = i
    BY <1>1
  <2> QED  BY <1>1, <2>2, <2>3
<1> HIDE DEF g
<1>3. g # <<>> /\ Last(g) = h[cut]
  BY <1>1, <1>2, EmptySeq DEF Last
<1>4. \A i \in 1..cut : Numbered(g[i]) /\ Complete(g[i], D)
  BY <1>1, <1>2 DEF Sound
<1>5. ASSUME NEW j \in 1..cut, NEW i \in 1..j PROVE Witnessed(g, i, j)
  <2>1. Witnessed(h, i, j)
    BY <1>1 DEF Sound
  <2>2. g[j] = h[j] /\ g[i] = h[i] /\ \A m \in (i + 1)..j : g[m] = h[m]
    BY <1>1, <1>2
  <2> QED  BY <2>1, <2>2 DEF Witnessed
<1>6. Sound(g, D)
  BY <1>2, <1>4, <1>5 DEF Sound
<1> QED  BY <1>2, <1>3, <1>6 DEF g

\* A definition that is being deleted no longer counts.
LEMMA SoundDoomed ==
  ASSUME NEW h, NEW D, NEW E, Sound(h, D)
  PROVE  Sound(h, D \cup E)
<1>1. \A s : Complete(s, D) => Complete(s, D \cup E)
  BY DEF Complete, Alive
<1> QED  BY <1>1 DEF Sound

-----------------------------------------------------------------------------
(* Steps                                                                   *)

\* A step that commits nothing.
LEMMA LogStands ==
  ASSUME Types, UNCHANGED log
  PROVE  store' = store /\ Len(log') = Len(log)
BY DEF store, Last

\* The write path: every op is captured with the commit that makes it.
LEMMA WriteKeeps ==
  ASSUME TriggerInv, NEW batch \in Batches, Write(batch)
  PROVE  TriggerInv'
<1> USE DEF TriggerInv
<1> DEFINE n == Len(batch)
           base == store.ops
           new == IF defs = <<>> THEN {} ELSE Captured(defs[1], base, batch)
           last(k) == Max({i \in DOMAIN batch : batch[i] = k})
           touched == [k \in Keys |-> IF k \in Range(batch) THEN base + last(k)
                                      ELSE store.acct.touched[k]]
           fresh == [i \in DOMAIN batch |-> base + i]
           acct == IF defs = <<>> THEN store.acct
                   ELSE [store.acct EXCEPT !.touched = touched, !.captured = @ \o fresh]
           s == [store EXCEPT !.ops = base + n, !.queue = @ \cup new, !.wrote = new, !.acct = acct]
<1>1. /\ batch \in Seq(Keys) /\ n \in Nat /\ DOMAIN batch = 1..n /\ \A i \in 1..n : batch[i] \in Keys
  BY TriggerAssumption, LenProperties, ElementOfSeq
<1>2. /\ store \in Image /\ base \in Nat /\ store = log[Len(log)] /\ Len(log) \in Nat \ {0}
      /\ log \in Seq(Image) /\ log # <<>>
  BY LogTyped DEF Image, Types
<1>3. /\ base + n <= MaxOps /\ log' = Append(log, s)
      /\ UNCHANGED <<defs, admin, run, backoff, incs, doomed>>
  BY DEF Write, Commits
<1>4. Numbered(store) /\ Complete(store, doomed)
  BY <1>2 DEF Sound
<1>5. ASSUME NEW k \in Keys, k \in Range(batch) PROVE last(k) \in 1..n
  <2> DEFINE S == {i \in DOMAIN batch : batch[i] = k}
  <2>1. S \in SUBSET (1..n) /\ S # {} /\ IsFiniteSet(1..n)
    <3>1. PICK j \in DOMAIN batch : batch[j] = k
      BY <1>5 DEF Range
    <3>2. IsFiniteSet(1..n)
      BY <1>1, FS_Interval
    <3> QED  BY <1>1, <3>1, <3>2
  <2>2. S \in SUBSET Int /\ IsFiniteSet(S)
    BY <2>1, FS_Subset
  <2> HIDE DEF S
  <2>3. \E x \in S : \A y \in S : y <= x
    BY <2>1, <2>2, GreatestExists
  <2>4. Max(S) \in S
    BY <2>3 DEF Max
  <2> QED  BY <2>1, <2>4 DEF S
<1>6. touched \in [Keys -> Nat] /\ \A k \in Keys : touched[k] <= base + n
  <2>1. ASSUME NEW k \in Keys PROVE touched[k] \in Nat /\ touched[k] <= base + n
    <3>1. CASE k \in Range(batch)
      <4> HIDE DEF last
      <4>1. last(k) \in 1..n /\ touched[k] = base + last(k)
        BY <1>5, <3>1
      <4> HIDE DEF touched, base, n
      <4> QED  BY <1>1, <1>2, <4>1
    <3>2. CASE k \notin Range(batch)
      <4>1. touched[k] = store.acct.touched[k]
        BY <3>2
      <4>2. store.acct.touched[k] \in Nat /\ store.acct.touched[k] <= base
        BY <1>2, <1>4 DEF Numbered, Image, Account
      <4> HIDE DEF touched, base, n
      <4> QED  BY <1>1, <1>2, <4>1, <4>2
    <3> QED  BY <3>1, <3>2
  <2> QED  BY <2>1
<1>7. /\ fresh \in Seq(Nat) /\ IsFiniteSet({ChangeEvent(base + i) : i \in 1..n})
      /\ Numbers({ChangeEvent(base + i) : i \in 1..n}) = fresh
  BY <1>1, <1>2, BatchNumbered
<1>8. /\ new \in SUBSET Event /\ IsFiniteSet(new) /\ \A e \in Changes(new) : e.n \in base + 1 .. base + n
      /\ defs # <<>> /\ defs[1].mode = "keys" =>
           Changes(new) = {} /\ \A k \in Range(batch) : KeyEvent(k) \in new
      /\ defs # <<>> /\ defs[1].mode = "changes" =>
           Changes(new) = new /\ new = {ChangeEvent(base + i) : i \in 1..n}
  <2>1. CASE defs = <<>>
    <3>1. new = {} /\ IsFiniteSet({})
      BY <2>1, FS_EmptySet
    <3> QED  BY <2>1, <3>1 DEF Changes
  <2>2. CASE defs # <<>> /\ defs[1].mode = "keys"
    <3>1. new = {KeyEvent(k) : k \in Range(batch)}
      BY <2>2 DEF Captured
    <3>2. Range(batch) \in SUBSET Keys
      BY <1>1 DEF Range
    <3>3. IsFiniteSet(new)
      <4> DEFINE f == [i \in 1..n |-> KeyEvent(batch[i])]
      <4>1. f \in Surjection(1..n, new)
        BY <1>1, <3>1 DEF Surjection, Range
      <4>2. IsFiniteSet(1..n)
        BY <1>1, FS_Interval
      <4> HIDE DEF f, new
      <4> QED  BY <4>1, <4>2, FS_Surjection
    <3>4. Changes(new) = {}
      BY <3>1 DEF Changes, KeyEvent
    <3> HIDE DEF new
    <3> QED  BY <2>2, <3>1, <3>2, <3>3, <3>4 DEF Event
  <2>3. CASE defs # <<>> /\ defs[1].mode # "keys"
    <3>1. new = {ChangeEvent(base + i) : i \in 1..n}
      BY <1>1, <2>3 DEF Captured, ChangeNumber
    <3>2. /\ IsFiniteSet(new)
          /\ \A e \in new : e = ChangeEvent(e.n) /\ e.n \in base + 1 .. base + n
      BY <1>1, <1>2, <3>1, BatchNumbered
    <3> HIDE DEF new
    <3>3. new \in SUBSET Event /\ Changes(new) = new
      <4> HIDE DEF base
      <4> QED  BY <1>2, <3>2 DEF Event, Changes, ChangeEvent
    <3> QED  BY <2>3, <3>1, <3>2, <3>3
  <2> QED  BY <2>1, <2>2, <2>3
<1>9. /\ acct \in Account /\ acct.seen = store.acct.seen /\ acct.applied = store.acct.applied
      /\ defs = <<>> => acct = store.acct
      /\ defs # <<>> => acct.touched = touched /\ acct.captured = store.acct.captured \o fresh
  <2>1. store.acct \in Account
    BY <1>2 DEF Image
  <2>2. store.acct.captured \o fresh \in Seq(Nat)
    <3> HIDE DEF fresh
    <3> QED  BY <1>7, <2>1, ConcatProperties DEF Account
  <2> HIDE DEF touched, fresh
  <2>4. CASE defs = <<>>
    BY <2>1, <2>4
  <2>5. CASE defs # <<>>
    <3> DEFINE c == store.acct.captured \o fresh
    <3>1. acct = [store.acct EXCEPT !.touched = touched, !.captured = c]
      BY <2>5
    <3>2. c \in Seq(Nat) /\ touched \in [Keys -> Nat]
      BY <1>6, <2>2
    <3> HIDE DEF acct, c
    <3>3. /\ acct \in Account /\ acct.seen = store.acct.seen /\ acct.applied = store.acct.applied
          /\ acct.touched = touched /\ acct.captured = c
      BY <2>1, <3>1, <3>2 DEF Account
    <3> QED  BY <2>5, <3>3 DEF c
  <2> QED  BY <2>4, <2>5
<1> DEFINE q == store.queue \cup new
<1> HIDE DEF new, touched, fresh, acct, last
<1>10. /\ s \in Image /\ s.ops = base + n /\ s.queue = q /\ s.def = store.def
       /\ s.wrote = new /\ s.acct = acct
  <2>1. base + n \in Nat /\ q \in SUBSET Event
    BY <1>1, <1>2, <1>8 DEF Image
  <2>2. s = [store EXCEPT !.ops = base + n, !.queue = q, !.wrote = new, !.acct = acct]
    OBVIOUS
  <2> HIDE DEF s, q
  <2> DEFINE o == base + n
  <2>3. o \in Nat /\ s = [store EXCEPT !.ops = o, !.queue = q, !.wrote = new, !.acct = acct]
    BY <2>1, <2>2
  <2> HIDE DEF o
  <2>4. /\ s \in Image /\ s.ops = o /\ s.queue = q /\ s.def = store.def
        /\ s.wrote = new /\ s.acct = acct
    BY <1>2, <1>8, <1>9, <2>1, <2>3 DEF Image
  <2> QED  BY <2>4 DEF o
<1> HIDE DEF s
<1>11. Changes(q) = Changes(store.queue) \cup Changes(new)
  BY DEF Changes
<1>12. \A e \in Changes(store.queue) : e.n \in Nat /\ e.n <= base /\ e = ChangeEvent(e.n)
  BY <1>2, <1>4 DEF Numbered, Changes, Image, Event, KeyEvent, ChangeEvent
<1>13. Numbered(s)
  <2>1. IsFiniteSet(q)
    BY <1>4, <1>8, FS_Union DEF Numbered
  <2>2. \A e \in Changes(q) : e.n <= base + n
    <3> HIDE DEF base, n, q
    <3> QED  BY <1>1, <1>2, <1>8, <1>11, <1>12
  <2>3. \A k \in Keys : acct.touched[k] <= base + n
    <3>1. CASE defs = <<>>
      <4>1. \A k \in Keys : store.acct.touched[k] <= base /\ store.acct.touched[k] \in Nat
        BY <1>2, <1>4 DEF Numbered, Image, Account
      <4> HIDE DEF base, n
      <4> QED  BY <1>1, <1>2, <1>9, <3>1, <4>1
    <3>2. CASE defs # <<>>
      BY <1>6, <1>9, <3>2
    <3> QED  BY <3>1, <3>2
  <2> HIDE DEF base, n, q
  <2> QED  BY <1>3, <1>10, <2>1, <2>2, <2>3 DEF Numbered
<1>14. defs # <<>> => store.def = defs
  BY DEF Registry
<1>15. Complete(s, doomed)
  <2> SUFFICES ASSUME Alive(s, doomed)
               PROVE  /\ s.def[1].mode = "keys" => Touches(s)
                      /\ s.def[1].mode = "changes" => Feed(s)
    BY DEF Complete
  <2>1. Alive(store, doomed)
    BY <1>10 DEF Alive
  <2>2. ASSUME s.def[1].mode = "keys" PROVE Touches(s)
    <3>1. Touches(store)
      BY <1>4, <1>10, <2>1, <2>2 DEF Complete
    <3>2. CASE defs = <<>>
      BY <1>9, <1>10, <3>1, <3>2 DEF Touches
    <3>3. CASE defs # <<>>
      <4>1. \A k \in Range(batch) : KeyEvent(k) \in new
        BY <1>8, <1>10, <1>14, <2>2, <3>3
      <4>2. \A k \in Keys : k \notin Range(batch) => acct.touched[k] = store.acct.touched[k]
        BY <1>9, <3>3 DEF touched
      <4> QED  BY <1>9, <1>10, <3>1, <4>1, <4>2 DEF Touches
    <3> QED  BY <3>2, <3>3
  <2>3. ASSUME s.def[1].mode = "changes" PROVE Feed(s)
    <3>1. Feed(store)
      BY <1>4, <1>10, <2>1, <2>3 DEF Complete
    <3>2. CASE defs = <<>>
      <4>1. q = store.queue
        BY <3>2 DEF new
      <4> QED  BY <1>9, <1>10, <3>1, <3>2, <4>1 DEF Feed
    <3>3. CASE defs # <<>>
      <4> DEFINE C == Changes(store.queue)
      <4>1. Changes(new) = new /\ new = {ChangeEvent(base + i) : i \in 1..n}
        BY <1>8, <1>10, <1>14, <2>3, <3>3
      <4>2. Numbers(new) = fresh
        BY <1>7, <4>1
      <4>3. IsFiniteSet(C)
        BY <1>4, FS_Subset DEF Numbered, Changes
      <4>4. \A e \in C \cup new : e = ChangeEvent(e.n) /\ e.n \in Nat
        BY <1>2, <1>8, <1>12, <4>1 DEF Event, KeyEvent, ChangeEvent, Changes
      <4>5. \A e \in C, f \in new : e.n < f.n
        <5> HIDE DEF base, n
        <5> QED  BY <1>1, <1>2, <1>8, <1>12, <4>1
      <4> HIDE DEF C
      <4>6. Numbers(C \cup new) = Numbers(C) \o fresh
        BY <1>8, <4>2, <4>3, <4>4, <4>5, NumbersConcat
      <4>7. Numbers(C) \in Seq(Nat)
        BY <4>3, <4>4, NumbersListed
      <4>8. store.acct.applied \in Seq(Nat) /\ fresh \in Seq(Nat)
        BY <1>2, <1>7 DEF Image, Account
      <4>9. (store.acct.applied \o Numbers(C)) \o fresh = store.acct.applied \o (Numbers(C) \o fresh)
        <5> DEFINE x == store.acct.applied
                   y == Numbers(C)
        <5>1. x \in Seq(Nat) /\ y \in Seq(Nat) /\ fresh \in Seq(Nat)
          BY <4>7, <4>8
        <5> HIDE DEF x, y
        <5>2. Regroups(x, y, fresh)
          BY <5>1, ConcatRegroups
        <5> QED  BY <5>2 DEF Regroups, x, y
      <4>10. store.acct.applied \o Numbers(C) = store.acct.captured
        BY <3>1 DEF Feed, C
      <4>11. Changes(q) = C \cup new
        BY <1>11, <4>1 DEF C
      <4>12. store.acct.applied \o Numbers(C \cup new) = store.acct.captured \o fresh
        BY <4>6, <4>9, <4>10
      <4> QED  BY <1>9, <1>10, <3>3, <4>11, <4>12 DEF Feed
    <3> QED  BY <3>2, <3>3
  <2> QED  BY <2>2, <2>3
<1>16. s.def # <<>> /\ s.def[1].mode = "keys" =>
         \A k \in Keys : \/ s.acct.touched[k] = 0
                         \/ KeyEvent(k) \in s.wrote
                         \/ /\ log[Len(log)].def = s.def
                            /\ log[Len(log)].acct.touched[k] = s.acct.touched[k]
  <2> SUFFICES ASSUME s.def # <<>>, s.def[1].mode = "keys", NEW k \in Keys
               PROVE  \/ KeyEvent(k) \in new
                      \/ store.acct.touched[k] = acct.touched[k]
    BY <1>2, <1>10
  <2>1. CASE defs = <<>>
    BY <1>9, <2>1
  <2>2. CASE defs # <<>>
    BY <1>8, <1>9, <1>10, <1>14, <2>2 DEF touched
  <2> QED  BY <2>1, <2>2
<1>17. Sound(log', doomed')
  BY <1>2, <1>3, <1>10, <1>13, <1>15, <1>16, SoundGrows
<1>18. Types' /\ store' = s /\ Len(log') = Len(log) + 1
  BY <1>3, <1>10, LogGrows DEF Types
<1>19. Alive(s, doomed) <=> Alive(store, doomed)
  BY <1>10 DEF Alive
<1>20. Registry'
  <2>1. defs = <<>> => q = store.queue
    BY DEF new
  <2> QED  BY <1>3, <1>10, <1>18, <1>19, <2>1 DEF Registry
<1>21. Drains'
  <2>1. run.snap <= Len(log')
    BY <1>2, <1>18 DEF Drains, Types, Runner
  <2>2. ASSUME Alive(s, doomed), run.pc \in {"packed", "guest"}, s.def[1].mode = "changes"
        PROVE  Foremost(s, run.consume)
    <3>1. Foremost(store, run.consume)
      BY <1>10, <1>19, <2>2 DEF Drains
    <3>2. \A e \in run.consume, f \in Changes(new) : e.n < f.n
      <4> HIDE DEF base, n
      <4> QED  BY <1>1, <1>2, <1>8, <1>12, <3>1 DEF Foremost
    <3> QED  BY <1>10, <1>11, <3>1, <3>2 DEF Foremost
  <2> QED  BY <1>3, <1>10, <1>18, <1>19, <2>1, <2>2 DEF Drains
<1> QED  BY <1>17, <1>18, <1>20, <1>21

\* A commit that records nothing of the trigger and takes no event of a
\* definition that counts.
LEMMA QuietCommit ==
  ASSUME Types, Sound(log, doomed), NEW s \in Image,
         s.ops = store.ops, s.acct = store.acct, s.def \in {store.def, <<>>},
         s.queue \in SUBSET store.queue, Alive(s, doomed) => s.queue = store.queue
  PROVE  Sound(Append(log, s), doomed)
<1>1. /\ log \in Seq(Image) /\ log # <<>> /\ Len(log) \in 1..Len(log)
      /\ store = log[Len(log)] /\ store \in Image
  BY LogTyped DEF Types
<1>2. Numbered(store) /\ Complete(store, doomed)
  BY <1>1 DEF Sound
<1>3. Numbered(s)
  <2>1. IsFiniteSet(s.queue)
    BY <1>2, FS_Subset DEF Numbered
  <2> QED  BY <1>2, <2>1 DEF Numbered, Changes
<1>4. Complete(s, doomed)
  <2> SUFFICES ASSUME Alive(s, doomed)
               PROVE  /\ s.def[1].mode = "keys" => Touches(s)
                      /\ s.def[1].mode = "changes" => Feed(s)
    BY DEF Complete
  <2>1. s.def = store.def /\ s.queue = store.queue /\ Alive(store, doomed)
    BY DEF Alive
  <2> QED  BY <1>2, <2>1 DEF Complete, Touches, Feed
<1>5. s.def # <<>> => /\ log[Len(log)].def = s.def
                      /\ log[Len(log)].acct = s.acct
  BY <1>1
<1> QED  BY <1>1, <1>3, <1>4, <1>5, SoundGrows

\* create_trigger: a definition that counts starts with an empty queue and
\* an idle runner.
LEMMA CreatePersistKeeps ==
  ASSUME TriggerInv, CreatePersist
  PROVE  TriggerInv'
<1> USE DEF TriggerInv
<1> DEFINE d == [inc |-> incs + 1, mode |-> store.mod,
                 clean |-> store.queue = {} /\ run.pc = "idle"]
           s == [store EXCEPT !.def = <<d>>, !.wrote = {}, !.acct = NoAccount]
<1>1. /\ log' = Append(log, s) /\ admin' = <<"activate", d>> /\ defs = <<>>
      /\ incs' = incs + 1 /\ store.mod \in Modes
      /\ UNCHANGED <<defs, run, doomed>>
  BY DEF CreatePersist, Commits
<1>2. /\ store \in Image /\ store = log[Len(log)] /\ Len(log) \in Nat \ {0}
      /\ log \in Seq(Image) /\ log # <<>>
  BY LogTyped DEF Types
<1>3. d \in Def /\ (d.clean => store.queue = {} /\ run.pc = "idle")
  <2> DEFINE b == store.queue = {} /\ run.pc = "idle"
             i == incs + 1
             m == store.mod
  <2>1. b \in BOOLEAN /\ i \in Nat /\ m \in Modes
    BY <1>1 DEF Types
  <2>2. d = [inc |-> i, mode |-> m, clean |-> b]
    OBVIOUS
  <2> HIDE DEF d, b, i, m
  <2>3. d \in Def /\ d.clean = b
    BY <2>1, <2>2 DEF Def
  <2> QED  BY <2>3 DEF b
<1>4. /\ NoAccount \in Account /\ \A k \in Keys : NoAccount.touched[k] = 0 /\ NoAccount.seen[k] = 0
      /\ NoAccount.applied = <<>> /\ NoAccount.captured = <<>>
  <2>1. <<>> \in Seq(Nat)
    BY EmptySeq
  <2> QED  BY <2>1 DEF NoAccount, Account
<1>5. /\ s \in Image /\ s.ops = store.ops /\ s.queue = store.queue /\ s.def = <<d>>
      /\ s.acct = NoAccount
  <2> HIDE DEF d
  <2>1. <<d>> \in DefOpt
    BY <1>3 DEF DefOpt
  <2> DEFINE o == <<d>>
             a == NoAccount
  <2>2. o \in DefOpt /\ a \in Account /\ s = [store EXCEPT !.def = o, !.wrote = {}, !.acct = a]
    BY <1>4, <2>1
  <2> HIDE DEF s, o, a
  <2>3. s \in Image /\ s.ops = store.ops /\ s.queue = store.queue /\ s.def = o /\ s.acct = a
    BY <1>2, <2>2 DEF Image
  <2> QED  BY <2>3 DEF o, a
<1> HIDE DEF d, s
<1>6. Numbered(s)
  <2>1. Numbered(store) /\ store.ops \in Nat
    BY <1>2 DEF Sound, Image
  <2> QED  BY <1>4, <1>5, <2>1 DEF Numbered
<1>7. Complete(s, doomed)
  <2> SUFFICES ASSUME Alive(s, doomed) PROVE Touches(s) /\ Feed(s)
    BY DEF Complete
  <2>1. s.queue = {}
    BY <1>3, <1>5 DEF Alive
  <2>2. Numbers(Changes(s.queue)) = <<>>
    <3>1. Changes(s.queue) = {} /\ Cardinality({}) = 0
      BY <2>1, FS_EmptySet DEF Changes
    <3> QED  BY <3>1 DEF Numbers
  <2>3. <<>> \o <<>> = <<>>
    OBVIOUS
  <2> QED  BY <1>4, <1>5, <2>2, <2>3 DEF Touches, Feed
<1>8. Sound(log', doomed')
  <2>1. \A k \in Keys : s.acct.touched[k] = 0
    BY <1>4, <1>5
  <2> QED  BY <1>1, <1>2, <1>5, <1>6, <1>7, <2>1, SoundGrows
<1>9. Types' /\ store' = s /\ Len(log') = Len(log) + 1
  BY <1>1, <1>5, LogGrows DEF Types
<1>10. Alive(s, doomed) => store.queue = {} /\ run.pc = "idle"
  BY <1>3, <1>5 DEF Alive
<1>11. Registry'
  BY <1>1, <1>5, <1>9, <1>10 DEF Registry
<1>12. Drains'
  <2>1. run.snap <= Len(log')
    BY <1>2, <1>9 DEF Drains, Types, Runner
  <2> QED  BY <1>1, <1>9, <1>10, <2>1 DEF Drains
<1> QED  BY <1>8, <1>9, <1>11, <1>12

\* create_trigger, its second part: the definition becomes active.
LEMMA CreateActivateKeeps ==
  ASSUME TriggerInv, CreateActivate
  PROVE  TriggerInv'
<1> USE DEF TriggerInv
<1>1. /\ admin[1] = "activate" /\ defs' = <<admin[2]>> /\ admin' = <<"idle">>
      /\ UNCHANGED <<log, run, incs, doomed>>
  BY DEF CreateActivate
<1>2. store' = store /\ Len(log') = Len(log) /\ store \in Image
  BY <1>1, LogStands, LogTyped
<1>3. defs' = store.def /\ defs' # <<>> /\ defs' \in DefOpt
  BY <1>1, <1>2 DEF Registry, Image
<1>4. Types' /\ Sound(log', doomed') /\ Registry' /\ Drains'
  BY <1>1, <1>2, <1>3 DEF Types, Registry, Drains
<1> QED  BY <1>4

\* delete_trigger: from its first step on the definition does not count.
LEMMA DeleteDeactivateKeeps ==
  ASSUME TriggerInv, DeleteDeactivate
  PROVE  TriggerInv'
<1> USE DEF TriggerInv
<1>1. /\ defs # <<>> /\ defs' = <<>> /\ admin' = <<"erase">>
      /\ doomed' = doomed \cup {defs[1].inc} /\ UNCHANGED <<log, run, incs>>
  BY DEF DeleteDeactivate
<1>2. store' = store /\ Len(log') = Len(log)
  BY <1>1, LogStands
<1>3. ~Alive(store, doomed')
  BY <1>1 DEF Registry, Alive
<1>4. Sound(log', doomed')
  BY <1>1, SoundDoomed
<1>5. Types' /\ Registry' /\ Drains'
  BY <1>1, <1>2, <1>3 DEF Types, DefOpt, Registry, Drains
<1> QED  BY <1>4, <1>5

\* delete_trigger, its second part: the definition goes.
LEMMA DeleteEraseKeeps ==
  ASSUME TriggerInv, DeleteErase
  PROVE  TriggerInv'
<1> USE DEF TriggerInv
<1> DEFINE s == [store EXCEPT !.def = <<>>, !.wrote = {}]
<1>1. /\ admin[1] = "erase" /\ log' = Append(log, s) /\ admin' = <<"clear">>
      /\ UNCHANGED <<defs, run, incs, doomed>>
  BY DEF DeleteErase, Commits
<1>2. store \in Image /\ Len(log) \in Nat
  BY LogTyped
<1>3. /\ s \in Image /\ s.ops = store.ops /\ s.acct = store.acct /\ s.def = <<>>
      /\ s.queue = store.queue
  BY <1>2 DEF Image, DefOpt
<1> HIDE DEF s
<1>4. Sound(log', doomed')
  BY <1>1, <1>3, QuietCommit
<1>5. Types' /\ store' = s /\ Len(log') = Len(log) + 1
  BY <1>1, <1>3, LogGrows DEF Types
<1>6. ~Alive(s, doomed)
  BY <1>3 DEF Alive
<1>7. defs = <<>>
  BY <1>1 DEF Registry
<1>8. Registry' /\ Drains'
  <2>1. run.snap <= Len(log')
    BY <1>2, <1>5 DEF Drains, Types, Runner
  <2> QED  BY <1>1, <1>5, <1>6, <1>7, <2>1 DEF Registry, Drains
<1> QED  BY <1>4, <1>5, <1>8

\* delete_trigger, its third part: a chunk of the queue goes.
LEMMA DeleteClearKeeps ==
  ASSUME TriggerInv, DeleteClear
  PROVE  TriggerInv'
<1> USE DEF TriggerInv
<1> DEFINE chunk == FirstOf(store.queue, ClearChunk)
           s == [store EXCEPT !.queue = @ \ chunk, !.wrote = chunk]
<1>1. /\ admin[1] = "clear" /\ UNCHANGED <<defs, run, incs, doomed>>
      /\ \/ admin' = <<"idle">> /\ UNCHANGED log
         \/ log' = Append(log, s) /\ UNCHANGED admin
  BY DEF DeleteClear, Commits
<1>2. store \in Image /\ Len(log) \in Nat /\ ~Alive(store, doomed) /\ defs = <<>>
  BY <1>1, LogTyped DEF Registry
<1>3. CASE admin' = <<"idle">> /\ UNCHANGED log
  <2>1. store' = store /\ Len(log') = Len(log)
    BY <1>3, LogStands
  <2>2. Types' /\ Sound(log', doomed') /\ Registry' /\ Drains'
    BY <1>1, <1>2, <1>3, <2>1 DEF Types, Registry, Drains
  <2> QED  BY <2>2
<1>4. CASE log' = Append(log, s) /\ UNCHANGED admin
  <2>1. chunk \in SUBSET store.queue
    BY DEF FirstOf
  <2> DEFINE q == store.queue \ chunk
  <2>2. q \in SUBSET Event /\ chunk \in SUBSET Event /\ q \in SUBSET store.queue
    BY <1>2, <2>1 DEF Image
  <2>3. s = [store EXCEPT !.queue = q, !.wrote = chunk]
    OBVIOUS
  <2> HIDE DEF s, q, chunk
  <2>4. /\ s \in Image /\ s.ops = store.ops /\ s.acct = store.acct /\ s.def = store.def
        /\ s.queue = q
    BY <1>2, <2>2, <2>3 DEF Image
  <2>5. ~Alive(s, doomed)
    BY <1>2, <2>4 DEF Alive
  <2>6. Sound(log', doomed')
    BY <1>1, <1>4, <2>2, <2>4, <2>5, QuietCommit
  <2>7. Types' /\ store' = s /\ Len(log') = Len(log) + 1
    BY <1>1, <1>4, <2>4, LogGrows DEF Types
  <2>8. run.snap <= Len(log')
    BY <1>2, <2>7 DEF Drains, Types, Runner
  <2>9. Registry' /\ Drains'
    BY <1>1, <1>2, <1>4, <2>4, <2>5, <2>7, <2>8 DEF Registry, Drains
  <2> QED  BY <2>6, <2>7, <2>9
<1> QED  BY <1>1, <1>3, <1>4

\* The module is replaced, or removed.
LEMMA InstallKeeps ==
  ASSUME TriggerInv, NEW m \in Modes \cup {"none"}, Install(m)
  PROVE  TriggerInv'
<1> USE DEF TriggerInv
<1> DEFINE s == [store EXCEPT !.mod = m, !.wrote = {}]
<1>1. log' = Append(log, s) /\ UNCHANGED <<defs, admin, run, incs, doomed>>
  BY DEF Install, Commits
<1>2. store \in Image /\ Len(log) \in Nat
  BY LogTyped
<1>3. /\ s \in Image /\ s.ops = store.ops /\ s.acct = store.acct /\ s.def = store.def
      /\ s.queue = store.queue
  BY <1>2 DEF Image
<1> HIDE DEF s
<1>4. Sound(log', doomed')
  BY <1>1, <1>3, QuietCommit
<1>5. Types' /\ store' = s /\ Len(log') = Len(log) + 1
  BY <1>1, <1>3, LogGrows DEF Types
<1>6. Alive(s, doomed) <=> Alive(store, doomed)
  BY <1>3 DEF Alive
<1>7. Registry'
  BY <1>1, <1>3, <1>5, <1>6 DEF Registry
<1>8. Drains'
  <2>1. run.snap <= Len(log')
    BY <1>2, <1>5 DEF Drains, Types, Runner
  <2>2. \A C : Foremost(store, C) => Foremost(s, C)
    BY <1>3 DEF Foremost
  <2> QED  BY <1>1, <1>3, <1>5, <1>6, <2>1, <2>2 DEF Drains
<1> QED  BY <1>4, <1>5, <1>7, <1>8

-----------------------------------------------------------------------------
(* Steps of the runner                                                     *)

\* A step of the runner that commits nothing leaves everything else alone.
LEMMA RunnerMoves ==
  ASSUME TriggerInv, UNCHANGED <<log, defs, admin, incs, doomed>>,
         run' \in Runner, IsFiniteSet(run'.consume), Drains'
  PROVE  TriggerInv'
<1>1. store' = store
  BY LogStands DEF TriggerInv
<1>2. Types' /\ Sound(log', doomed') /\ Registry'
  BY <1>1 DEF TriggerInv, Types, Registry
<1> QED  BY <1>2 DEF TriggerInv

\* Idle, the runner holds nothing.
LEMMA Idle ==
  /\ NoRun \in Runner /\ IsFiniteSet(NoRun.consume)
  /\ NoRun.pc = "idle" /\ NoRun.snap = 0 /\ NoRun.tries = 0
BY FS_EmptySet DEF NoRun, Runner, DefOpt

\* A drain that ends without a commit: nothing is held any more.
LEMMA RunnerGivesUp ==
  ASSUME TriggerInv, UNCHANGED <<log, defs, admin, incs, doomed>>, run' = NoRun
  PROVE  TriggerInv'
<1>1. store' = store /\ Len(log') = Len(log) /\ Len(log) \in Nat
  BY LogStands, LogTyped DEF TriggerInv
<1>2. Drains'
  <2>1. 0 < Retries
    BY TriggerAssumption
  <2> QED  BY <1>1, <2>1, Idle DEF Drains
<1> QED  BY <1>2, Idle, RunnerMoves

\* The runner looks for triggers and queues.
LEMMA DiscoverKeeps ==
  ASSUME TriggerInv, Discover
  PROVE  TriggerInv'
<1>1. /\ run.pc = "idle" /\ store.queue # {} /\ UNCHANGED <<log, defs, admin, incs, doomed>>
      /\ \/ defs = <<>> /\ run' = [run EXCEPT !.pc = "orphan"]
         \/ defs # <<>> /\ run' = [run EXCEPT !.pc = "found", !.def = defs]
  BY DEF Discover, OrphanFound
<1>2. /\ store' = store /\ Len(log') = Len(log) /\ run \in Runner /\ IsFiniteSet(run.consume)
      /\ defs \in DefOpt
  BY <1>1, LogStands DEF TriggerInv, Types
<1>3. CASE defs = <<>> /\ run' = [run EXCEPT !.pc = "orphan"]
  <2>1. /\ run' \in Runner /\ run'.pc = "orphan" /\ run'.consume = run.consume
        /\ run'.snap = run.snap /\ run'.tries = run.tries
    BY <1>2, <1>3 DEF Runner
  <2>2. ~Alive(store, doomed)
    BY <1>1, <1>3 DEF TriggerInv, Registry
  <2>3. Drains'
    BY <1>1, <1>2, <2>1, <2>2 DEF TriggerInv, Drains
  <2> QED  BY <1>1, <1>2, <2>1, <2>3, RunnerMoves
<1>4. CASE defs # <<>> /\ run' = [run EXCEPT !.pc = "found", !.def = defs]
  <2>1. /\ run' \in Runner /\ run'.pc = "found" /\ run'.consume = run.consume
        /\ run'.snap = run.snap /\ run'.tries = run.tries /\ run'.def = defs
    BY <1>2, <1>4 DEF Runner
  <2>2. store.def = defs
    BY <1>4 DEF TriggerInv, Registry
  <2>3. Drains'
    BY <1>1, <1>2, <1>4, <2>1, <2>2 DEF TriggerInv, Drains
  <2> QED  BY <1>1, <1>2, <2>1, <2>3, RunnerMoves
<1> QED  BY <1>1, <1>3, <1>4

\* A queue without a trigger is found ...
LEMMA OrphanScanKeeps ==
  ASSUME TriggerInv, OrphanScan
  PROVE  TriggerInv'
<1> DEFINE C == FirstOf(store.queue, ClearChunk)
<1>1. /\ run.pc = "orphan" /\ UNCHANGED <<log, defs, admin, incs, doomed>>
      /\ run' = NoRun \/ run' = [run EXCEPT !.pc = "clear", !.consume = C]
  BY DEF OrphanScan
<1>2. /\ store' = store /\ Len(log') = Len(log) /\ run \in Runner /\ Len(log) \in 1..Len(log)
      /\ store \in Image /\ store = log[Len(log)]
  BY <1>1, LogStands, LogTyped DEF TriggerInv, Types
<1>3. C \in SUBSET Event /\ IsFiniteSet(C)
  <2>1. store.queue \in SUBSET Event /\ IsFiniteSet(store.queue) /\ ClearChunk \in Nat
    BY <1>2, TriggerAssumption DEF TriggerInv, Sound, Numbered, Image
  <2> QED  BY <2>1, FrontOfQueue
<1> HIDE DEF C
<1>4. ~Alive(store, doomed)
  BY <1>1 DEF TriggerInv, Drains
<1>5. CASE run' = NoRun
  BY <1>1, <1>5, RunnerGivesUp
<1>6. CASE run' = [run EXCEPT !.pc = "clear", !.consume = C]
  <2>1. /\ run' \in Runner /\ run'.pc = "clear" /\ run'.consume = C
        /\ run'.snap = run.snap /\ run'.tries = run.tries
    BY <1>2, <1>3, <1>6 DEF Runner
  <2>2. Drains'
    BY <1>1, <1>2, <1>4, <2>1 DEF TriggerInv, Drains
  <2> QED  BY <1>1, <1>3, <2>1, <2>2, RunnerMoves
<1> QED  BY <1>1, <1>5, <1>6

\* ... and what was found is deleted.
LEMMA OrphanClearKeeps ==
  ASSUME TriggerInv, OrphanClear
  PROVE  TriggerInv'
<1> USE DEF TriggerInv
<1> DEFINE q == store.queue \ run.consume
           s == [store EXCEPT !.queue = q, !.wrote = run.consume]
<1>1. /\ run.pc = "clear" /\ run' = NoRun /\ log' = Append(log, s)
      /\ UNCHANGED <<defs, admin, incs, doomed>>
  BY DEF OrphanClear, Commits
<1>2. store \in Image /\ Len(log) \in Nat /\ ~Alive(store, doomed) /\ run \in Runner
  BY <1>1, LogTyped DEF Drains, Types
<1>3. q \in SUBSET Event /\ run.consume \in SUBSET Event /\ q \in SUBSET store.queue
  BY <1>2 DEF Image, Runner
<1> HIDE DEF q
<1>4. /\ s \in Image /\ s.ops = store.ops /\ s.acct = store.acct /\ s.def = store.def
      /\ s.queue = q
  BY <1>2, <1>3 DEF Image
<1> HIDE DEF s
<1>5. ~Alive(s, doomed)
  BY <1>2, <1>4 DEF Alive
<1>6. Sound(log', doomed')
  BY <1>1, <1>3, <1>4, <1>5, QuietCommit
<1>7. Types' /\ store' = s /\ Len(log') = Len(log) + 1
  BY <1>1, <1>4, Idle, LogGrows DEF Types
<1>8. Registry'
  BY <1>1, <1>2, <1>4, <1>5, <1>7 DEF Registry
<1>9. Drains'
  <2>1. 0 < Retries
    BY TriggerAssumption
  <2> QED  BY <1>1, <1>2, <1>5, <1>7, <2>1, Idle DEF Drains
<1> QED  BY <1>6, <1>7, <1>8, <1>9

\* The runner takes the front of the queue.
LEMMA PackKeeps ==
  ASSUME TriggerInv, Pack
  PROVE  TriggerInv'
<1> DEFINE C == FirstOf(store.queue, TriggerBatch)
           Spoiled == run.def[1].mode = "changes" /\ \E e \in C : e.t = "keys"
<1>1. run.pc = "found" /\ UNCHANGED <<log, defs, admin, incs, doomed>>
  BY DEF Pack
<1>2. /\ store' = store /\ Len(log') = Len(log) /\ run \in Runner /\ Len(log) \in 1..Len(log)
      /\ store \in Image /\ store = log[Len(log)]
  BY <1>1, LogStands, LogTyped DEF TriggerInv, Types
<1>3. /\ C \in SUBSET store.queue /\ C \in SUBSET Event /\ IsFiniteSet(C)
      /\ \A e \in Changes(C), f \in Changes(store.queue) \ C : e.n < f.n
  <2>1. store.queue \in SUBSET Event /\ IsFiniteSet(store.queue) /\ TriggerBatch \in Nat
    BY <1>2, TriggerAssumption DEF TriggerInv, Sound, Numbered, Image
  <2>2. /\ C \in SUBSET store.queue /\ IsFiniteSet(C)
        /\ \A e \in Changes(C), f \in Changes(store.queue) \ C : e.n < f.n
    BY <2>1, FrontOfQueue
  <2> QED  BY <2>1, <2>2
<1>4. run.def # <<>> /\ run.def[1].mode \in {"keys", "changes"}
  BY <1>1, <1>2 DEF TriggerInv, Drains, Runner, DefOpt, Def, Modes
<1>5. \A e \in C : e.t = "keys" \/ e.t = "changes"
  BY <1>3 DEF Event, KeyEvent, ChangeEvent
<1>6. \/ run' = NoRun
      \/ ~Spoiled /\ run' = [run EXCEPT !.pc = "packed", !.consume = C]
  <2>1. CASE Spoiled
    <3>1. Failed
      BY <2>1, <1>4, <1>5 DEF Pack
    <3> QED  BY <3>1 DEF Failed
  <2>2. CASE ~Spoiled
    <3>1. run.def[1].mode = "keys" \/ \A e \in C : e.t = "changes"
      BY <1>4, <1>5, <2>2
    <3>2. run' = IF C = {} THEN NoRun ELSE [run EXCEPT !.pc = "packed", !.consume = C]
      BY <2>2, <3>1 DEF Pack
    <3> QED  BY <2>2, <3>2
  <2> QED  BY <2>1, <2>2
<1> HIDE DEF C
<1>7. CASE run' = NoRun
  BY <1>1, <1>7, RunnerGivesUp
<1>8. CASE ~Spoiled /\ run' = [run EXCEPT !.pc = "packed", !.consume = C]
  <2>1. /\ run' \in Runner /\ run'.pc = "packed" /\ run'.consume = C /\ run'.def = run.def
        /\ run'.snap = run.snap /\ run'.tries = run.tries
    BY <1>2, <1>3, <1>8 DEF Runner
  <2>2. ASSUME Alive(store, doomed), store.def[1].mode = "changes"
        PROVE  Foremost(store, C)
    <3>1. run.def = store.def
      BY <1>1, <2>2 DEF TriggerInv, Drains
    <3>2. \A e \in C : e.t = "changes"
      BY <1>5, <1>8, <2>2, <3>1
    <3>3. Changes(C) = C /\ C \in SUBSET Changes(store.queue)
      BY <1>3, <3>2 DEF Changes
    <3> QED  BY <1>3, <3>3 DEF Foremost
  <2>3. Drains'
    BY <1>1, <1>2, <2>1, <2>2 DEF TriggerInv, Drains
  <2> QED  BY <1>1, <1>3, <2>1, <2>3, RunnerMoves
<1> QED  BY <1>6, <1>7, <1>8

\* The module is tried on it.
LEMMA AttemptKeeps ==
  ASSUME TriggerInv, Attempt
  PROVE  TriggerInv'
<1>1. /\ run.pc = "packed" /\ UNCHANGED <<log, defs, admin, incs, doomed>>
      /\ run' = NoRun \/ run' = [run EXCEPT !.pc = "guest", !.snap = Len(log)]
  BY DEF Attempt, Failed
<1>2. /\ store' = store /\ Len(log') = Len(log) /\ run \in Runner /\ Len(log) \in Nat \ {0}
      /\ IsFiniteSet(run.consume)
  BY <1>1, LogStands, LogTyped DEF TriggerInv, Types
<1>3. CASE run' = NoRun
  BY <1>1, <1>3, RunnerGivesUp
<1>4. CASE run' = [run EXCEPT !.pc = "guest", !.snap = Len(log)]
  <2>1. /\ run' \in Runner /\ run'.pc = "guest" /\ run'.consume = run.consume
        /\ run'.def = run.def /\ run'.snap = Len(log) /\ run'.tries = run.tries
    BY <1>2, <1>4 DEF Runner
  <2>2. Drains'
    BY <1>1, <1>2, <2>1 DEF TriggerInv, Drains
  <2> QED  BY <1>1, <1>2, <2>1, <2>2, RunnerMoves
<1> QED  BY <1>1, <1>3, <1>4

\* The drain meets a conflict: the events stay queued.
LEMMA DrainConflictsKeeps ==
  ASSUME TriggerInv, DrainConflicts
  PROVE  TriggerInv'
<1>1. /\ run.pc = "guest" /\ UNCHANGED <<log, defs, admin, incs, doomed>>
      /\ \/ run' = NoRun
         \/ run.tries + 1 < Retries /\ run' = [run EXCEPT !.pc = "packed", !.tries = @ + 1]
  BY DEF DrainConflicts, Failed, MayRetry
<1>2. /\ store' = store /\ Len(log') = Len(log) /\ run \in Runner /\ IsFiniteSet(run.consume)
  BY <1>1, LogStands DEF TriggerInv, Types
<1>3. CASE run' = NoRun
  BY <1>1, <1>3, RunnerGivesUp
<1>4. CASE run.tries + 1 < Retries /\ run' = [run EXCEPT !.pc = "packed", !.tries = @ + 1]
  <2>1. /\ run' \in Runner /\ run'.pc = "packed" /\ run'.consume = run.consume
        /\ run'.def = run.def /\ run'.snap = run.snap /\ run'.tries = run.tries + 1
    <3> DEFINE t == run.tries + 1
    <3>1. t \in Nat /\ run' = [run EXCEPT !.pc = "packed", !.tries = t]
      BY <1>2, <1>4 DEF Runner
    <3> HIDE DEF t
    <3>2. /\ run' \in Runner /\ run'.pc = "packed" /\ run'.consume = run.consume
          /\ run'.def = run.def /\ run'.snap = run.snap /\ run'.tries = t
      BY <1>2, <3>1 DEF Runner
    <3> QED  BY <3>2 DEF t
  <2>2. Drains'
    BY <1>1, <1>2, <1>4, <2>1 DEF TriggerInv, Drains
  <2> QED  BY <1>1, <1>2, <2>1, <2>2, RunnerMoves
<1> QED  BY <1>1, <1>3, <1>4

\* The commit of a drain: a key touched since the snapshot conflicts, and the
\* events consumed are the next ones of the feed.
LEMMA DrainCommitsKeeps ==
  ASSUME TriggerInv, DrainCommits
  PROVE  TriggerInv'
<1> USE DEF TriggerInv
<1> DEFINE C == run.consume
           q == store.queue \ C
           acct == Accounted(store.acct, run)
           s == [store EXCEPT !.queue = q, !.wrote = C, !.acct = acct]
           E == {e \in C : e.t = "changes"}
           n == Len(log)
<1>1. /\ run.pc = "guest" /\ ~Conflicts(run.snap, C) /\ run' = NoRun /\ log' = Append(log, s)
      /\ UNCHANGED <<defs, admin, incs, doomed>>
  BY DEF DrainCommits, Commits
<1>2. /\ store \in Image /\ store = log[n] /\ n \in Nat \ {0} /\ log \in Seq(Image) /\ log # <<>>
      /\ \A i \in 1..n : log[i] \in Image
      /\ run \in Runner /\ IsFiniteSet(C) /\ C \in SUBSET Event /\ store.acct \in Account
  BY LogTyped DEF Types, Runner, Image
<1>3. run.snap \in 1..n /\ log[run.snap].ops \in Nat
  <2>1. run.snap \in 1..n
    BY <1>1, <1>2 DEF Drains, Runner
  <2> QED  BY <1>2, <2>1 DEF Image
<1>4. Numbered(store) /\ Complete(store, doomed)
  BY <1>2 DEF Sound
<1>5. /\ IsFiniteSet(E) /\ \A e \in E : e = ChangeEvent(e.n) /\ e.n \in Nat
      /\ Numbers(E) \in Seq(Nat)
  <2>1. IsFiniteSet(E) /\ \A e \in E : e = ChangeEvent(e.n) /\ e.n \in Nat
    BY <1>2, FS_Subset DEF Event, KeyEvent, ChangeEvent
  <2> HIDE DEF E
  <2> QED  BY <2>1, NumbersListed
<1> DEFINE seen == [k \in Keys |-> IF KeyEvent(k) \in C THEN log[run.snap].ops
                                   ELSE store.acct.seen[k]]
           applied == store.acct.applied \o Numbers(E)
<1>6. seen \in [Keys -> Nat] /\ applied \in Seq(Nat)
  <2>1. seen \in [Keys -> Nat]
    BY <1>2, <1>3 DEF Account
  <2>2. store.acct.applied \in Seq(Nat)
    BY <1>2 DEF Account
  <2> HIDE DEF E
  <2>3. applied \in Seq(Nat)
    BY <1>5, <2>2, ConcatProperties
  <2> QED  BY <2>1, <2>3
<1>7. /\ acct \in Account /\ acct.touched = store.acct.touched /\ acct.captured = store.acct.captured
      /\ store.def = run.def => acct.seen = seen /\ acct.applied = applied
  <2>1. CASE store.def # run.def
    BY <1>2, <2>1 DEF Accounted
  <2>2. CASE store.def = run.def
    <3>1. acct = [store.acct EXCEPT !.seen = seen, !.applied = applied]
      BY <2>2 DEF Accounted
    <3> HIDE DEF acct, seen, applied
    <3> QED  BY <1>2, <1>6, <3>1 DEF Account
  <2> QED  BY <2>1, <2>2
<1> HIDE DEF acct
<1>8. /\ s \in Image /\ s.ops = store.ops /\ s.queue = q /\ s.def = store.def
      /\ s.wrote = C /\ s.acct = acct
  <2>1. q \in SUBSET Event
    BY <1>2 DEF Image
  <2> HIDE DEF q
  <2> QED  BY <1>2, <1>7, <2>1 DEF Image
<1> HIDE DEF s
<1>9. Numbered(s)
  <2>1. IsFiniteSet(q)
    BY <1>4, FS_Subset DEF Numbered
  <2> QED  BY <1>4, <1>7, <1>8, <2>1 DEF Numbered, Changes
<1>10. Alive(s, doomed) => Alive(store, doomed) /\ run.def = store.def
  BY <1>1, <1>8 DEF Alive, Drains
<1>11. ASSUME Alive(s, doomed), s.def[1].mode = "keys" PROVE Touches(s)
  <2> SUFFICES ASSUME NEW k \in Keys, acct.touched[k] > acct.seen[k]
               PROVE  KeyEvent(k) \in q
    BY <1>8 DEF Touches
  <2>1. acct.seen = seen /\ Touches(store) /\ acct.touched[k] = store.acct.touched[k]
    BY <1>4, <1>7, <1>8, <1>10, <1>11 DEF Complete
  <2>2. CASE KeyEvent(k) \in C
    <3>1. store.acct.touched[k] > log[run.snap].ops
      BY <2>1, <2>2
    <3>2. Witnessed(log, run.snap, n)
      BY <1>2, <1>3 DEF Sound
    <3>3. log[n].def # <<>> /\ log[n].def[1].mode = "keys"
      BY <1>2, <1>8, <1>10, <1>11 DEF Alive
    <3>4. \E m \in (run.snap + 1)..n : KeyEvent(k) \in log[m].wrote
      BY <1>2, <3>1, <3>2, <3>3 DEF Witnessed
    <3> QED  BY <1>1, <2>2, <3>4 DEF Conflicts
  <2>3. CASE KeyEvent(k) \notin C
    BY <2>1, <2>3 DEF Touches
  <2> QED  BY <2>2, <2>3
<1>12. ASSUME Alive(s, doomed), s.def[1].mode = "changes" PROVE Feed(s)
  <2> DEFINE F == Changes(store.queue) \ C
  <2>1. Foremost(store, C)
    BY <1>1, <1>8, <1>10, <1>12 DEF Drains
  <2>2. E = C /\ Changes(store.queue) = E \cup F /\ Changes(q) = F
    BY <2>1 DEF Foremost, Changes
  <2>3. /\ IsFiniteSet(F) /\ \A e \in F : e = ChangeEvent(e.n) /\ e.n \in Nat
    <3>1. F \in SUBSET store.queue
      BY DEF Changes
    <3>2. IsFiniteSet(F)
      BY <1>4, <3>1, FS_Subset DEF Numbered
    <3>3. \A e \in F : e = ChangeEvent(e.n) /\ e.n \in Nat
      BY <1>2 DEF Changes, Image, Event, KeyEvent, ChangeEvent
    <3> QED  BY <3>2, <3>3
  <2>4. \A e \in E, f \in F : e.n < f.n
    BY <2>1, <2>2 DEF Foremost
  <2> HIDE DEF E, F
  <2>5. Numbers(E \cup F) = Numbers(E) \o Numbers(F)
    BY <1>5, <2>3, <2>4, NumbersConcat
  <2>6. Numbers(F) \in Seq(Nat) /\ store.acct.applied \in Seq(Nat)
    BY <1>2, <2>3, NumbersListed DEF Account
  <2>7. (store.acct.applied \o Numbers(E)) \o Numbers(F)
          = store.acct.applied \o (Numbers(E) \o Numbers(F))
    <3> DEFINE x == store.acct.applied
               y == Numbers(E)
               z == Numbers(F)
    <3>1. x \in Seq(Nat) /\ y \in Seq(Nat) /\ z \in Seq(Nat)
      BY <1>5, <2>6
    <3> HIDE DEF x, y, z
    <3>2. Regroups(x, y, z)
      BY <3>1, ConcatRegroups
    <3> QED  BY <3>2 DEF Regroups, x, y, z
  <2>8. Feed(store)
    BY <1>4, <1>8, <1>10, <1>12 DEF Complete
  <2>9. store.acct.applied \o Numbers(E \cup F) = store.acct.captured
    BY <2>2, <2>8 DEF Feed
  <2>10. acct.applied = store.acct.applied \o Numbers(E)
    BY <1>7, <1>10, <1>12
  <2>11. acct.applied \o Numbers(F) = acct.captured
    BY <1>7, <2>5, <2>7, <2>9, <2>10
  <2> QED  BY <1>8, <2>2, <2>11 DEF Feed
<1>13. Sound(log', doomed')
  <2>1. Complete(s, doomed)
    BY <1>11, <1>12 DEF Complete
  <2>2. \A k \in Keys : /\ log[Len(log)].def = s.def
                        /\ log[Len(log)].acct.touched[k] = s.acct.touched[k]
    BY <1>2, <1>7, <1>8
  <2> QED  BY <1>1, <1>2, <1>8, <1>9, <2>1, <2>2, SoundGrows
<1>14. Types' /\ store' = s /\ Len(log') = n + 1
  BY <1>1, <1>8, Idle, LogGrows DEF Types
<1>15. Registry'
  <2>1. store.queue = {} => q = {}
    OBVIOUS
  <2>2. Alive(s, doomed) <=> Alive(store, doomed)
    BY <1>8 DEF Alive
  <2> QED  BY <1>1, <1>8, <1>14, <2>1, <2>2 DEF Registry
<1>16. Drains'
  <2>1. 0 < Retries
    BY TriggerAssumption
  <2> QED  BY <1>1, <1>2, <1>14, <2>1, Idle DEF Drains
<1> QED  BY <1>13, <1>14, <1>15, <1>16

-----------------------------------------------------------------------------
(* Crashes, and the specification                                          *)

\* Every image is sound: whichever one a crash goes back to is.
LEMMA CrashKeeps ==
  ASSUME TriggerInv, NEW cut \in 1..Len(log), Crash(cut)
  PROVE  TriggerInv'
<1> USE DEF TriggerInv
<1>1. /\ log' = SubSeq(log, 1, cut) /\ defs' = store'.def /\ admin' = <<"idle">> /\ run' = NoRun
      /\ UNCHANGED <<incs, doomed>>
  BY DEF Crash
<1>2. log \in Seq(Image) /\ \A i \in 1..Len(log) : log[i] \in Image
  BY LogTyped
<1>3. log' \in Seq(Image) /\ log' # <<>> /\ store' = log[cut] /\ Sound(log', doomed')
  BY <1>1, <1>2, SoundCut DEF store
<1>4. defs' \in DefOpt
  BY <1>1, <1>2, <1>3 DEF Image
<1>5. Types'
  BY <1>1, <1>3, <1>4, Idle DEF Types
<1>6. Registry'
  BY <1>1 DEF Registry, Alive
<1>7. Len(log') \in Nat /\ 0 < Retries
  BY <1>3, LenProperties, TriggerAssumption
<1>8. Drains'
  BY <1>1, <1>7, Idle DEF Drains
<1> QED  BY <1>3, <1>5, <1>6, <1>8

\* A store without triggers.
LEMMA TriggerInit ==
  ASSUME Init
  PROVE  TriggerInv
<1> PICK m \in Modes : log = <<[ops |-> 0, queue |-> {}, def |-> <<>>, mod |-> m,
                                wrote |-> {}, acct |-> NoAccount]>>
  BY DEF Init
<1> DEFINE s == [ops |-> 0, queue |-> {}, def |-> <<>>, mod |-> m,
                 wrote |-> {}, acct |-> NoAccount]
<1>1. NoAccount \in Account /\ \A k \in Keys : NoAccount.touched[k] = 0
  <2>1. <<>> \in Seq(Nat)
    BY EmptySeq
  <2> QED  BY <2>1 DEF NoAccount, Account
<1>2. s \in Image /\ s.ops = 0 /\ s.queue = {} /\ s.def = <<>> /\ s.acct = NoAccount
  BY <1>1 DEF Image, DefOpt
<1>3. log = <<s>>
  OBVIOUS
<1> HIDE DEF s
<1>4. log \in Seq(Image) /\ log # <<>> /\ Len(log) = 1 /\ store = s /\ log[1] = s
  <2>1. <<s>> \in Seq(Image) /\ Len(<<s>>) = 1 /\ <<s>>[1] = s /\ <<s>> # <<>>
    BY <1>2
  <2> QED  BY <1>3, <2>1 DEF store, Last
<1>5. /\ defs = <<>> /\ admin = <<"idle">> /\ run = NoRun /\ incs = 0 /\ doomed = {}
      /\ 0 < Retries /\ MaxOps \in Nat
  BY TriggerAssumption DEF Init
<1>6. Types
  BY <1>4, <1>5, Idle DEF Types, DefOpt
<1>7. Sound(log, doomed)
  <2>1. Numbered(s)
    BY <1>1, <1>2, <1>5, FS_EmptySet DEF Numbered, Changes
  <2>2. Complete(s, doomed)
    BY <1>2 DEF Complete, Alive
  <2>3. Witnessed(log, 1, 1)
    BY <1>2, <1>4 DEF Witnessed
  <2>4. \A i \in 1..1 : Numbered(log[i]) /\ Complete(log[i], doomed)
    <3>1. \A i \in 1..1 : i = 1
      OBVIOUS
    <3>2. \A i \in 1..1 : log[i] = s
      BY <1>4, <3>1
    <3> QED  BY <2>1, <2>2, <3>2
  <2>5. \A j \in 1..1 : \A i \in 1..j : Witnessed(log, i, j)
    <3>1. \A j \in 1..1 : j = 1 /\ \A i \in 1..j : i = 1
      OBVIOUS
    <3> QED  BY <2>3, <3>1
  <2> QED  BY <1>4, <2>4, <2>5 DEF Sound
<1>8. Registry /\ Drains
  BY <1>2, <1>4, <1>5, Idle DEF Registry, Drains, Alive
<1> QED  BY <1>6, <1>7, <1>8 DEF TriggerInv

\* Every step keeps the invariant.
LEMMA TriggerStep ==
  ASSUME TriggerInv, [Next]_vars
  PROVE  TriggerInv'
<1>1. ASSUME NEW b \in Batches, Write(b) PROVE TriggerInv'
  BY <1>1, WriteKeeps
<1>2. CASE CreatePersist
  BY <1>2, CreatePersistKeeps
<1>3. CASE DeleteDeactivate
  BY <1>3, DeleteDeactivateKeeps
<1>4. ASSUME NEW m \in Modes \cup {"none"}, Install(m) PROVE TriggerInv'
  BY <1>4, InstallKeeps
<1>5. CASE AdminStep
  BY <1>5, CreateActivateKeeps, DeleteEraseKeeps, DeleteClearKeeps DEF AdminStep
<1>6. CASE BackoffOver
  <2>1. UNCHANGED <<log, defs, admin, run, incs, doomed>>
    BY <1>6 DEF BackoffOver
  <2>2. store' = store /\ Len(log') = Len(log)
    BY <2>1, LogStands DEF TriggerInv
  <2> QED  BY <2>1, <2>2 DEF TriggerInv, Types, Registry, Drains
<1>7. CASE RunnerStep
  BY <1>6, <1>7, DiscoverKeeps, OrphanScanKeeps, OrphanClearKeeps, PackKeeps, AttemptKeeps,
     DrainCommitsKeeps, DrainConflictsKeeps DEF RunnerStep
<1>8. CASE GuestFails
  <2>1. UNCHANGED <<log, defs, admin, incs, doomed>> /\ run' = NoRun
    BY <1>8 DEF GuestFails, Failed
  <2> QED  BY <2>1, RunnerGivesUp
<1>9. ASSUME NEW cut \in 1..Len(log), Crash(cut) PROVE TriggerInv'
  BY <1>9, CrashKeeps
<1>10. CASE UNCHANGED vars
  <2>1. UNCHANGED <<log, defs, admin, run, incs, doomed>>
    BY <1>10 DEF vars
  <2>2. store' = store /\ Len(log') = Len(log)
    BY <2>1, LogStands DEF TriggerInv
  <2> QED  BY <2>1, <2>2 DEF TriggerInv, Types, Registry, Drains
<1> QED
  BY <1>1, <1>2, <1>3, <1>4, <1>5, <1>7, <1>8, <1>9, <1>10 DEF Next

\* Every state the crashes can bring back is complete, and the runner holds
\* nothing but the front of a live trigger's queue.
THEOREM TriggerAlways == Spec => []TriggerInv
<1>1. Init => TriggerInv
  BY TriggerInit
<1>2. TriggerInv /\ [Next]_vars => TriggerInv'
  BY TriggerStep
<1> QED  BY <1>1, <1>2, PTL DEF Spec

\* The log, the snapshot a drain reads and its retries stay within bounds.
THEOREM TriggerTypes == Spec => []TypeOK
<1>1. TriggerInv => TypeOK
  <2> SUFFICES ASSUME TriggerInv PROVE TypeOK
    OBVIOUS
  <2>1. /\ log \in Seq(Image) /\ Len(log) \in Nat /\ DOMAIN log = 1..Len(log)
        /\ \A i \in 1..Len(log) : log[i] \in Image /\ log[i].ops <= MaxOps
    <3>1. DOMAIN log = 1..Len(log)
      BY LogTyped, LenProperties DEF TriggerInv
    <3> QED  BY <3>1, LogTyped DEF TriggerInv, Sound, Numbered
  <2>2. \A s \in Range(log) : s.ops \in 0..MaxOps /\ s.mod \in Modes \cup {"none"}
    <3>1. MaxOps \in Nat
      BY TriggerAssumption
    <3> QED  BY <2>1, <3>1 DEF Range, Image
  <2>3. run \in Runner /\ run.snap <= Len(log) /\ run.tries < Retries /\ Retries \in Nat
    BY TriggerAssumption DEF TriggerInv, Types, Drains
  <2> QED  BY <2>1, <2>2, <2>3 DEF TypeOK, Runner
<1> QED  BY <1>1, TriggerAlways, PTL

\* However a touch falls relative to the runner's scan, snapshot, retries and
\* commit, and whatever prefix a crash keeps, its event stays in the queue
\* until the module has looked at the key again (capture_ops, execute_system).
THEOREM TouchesAreNeverLost == Spec => []TouchesKept
<1>1. TriggerInv => TouchesKept
  <2> SUFFICES ASSUME TriggerInv PROVE TouchesKept
    OBVIOUS
  <2>1. Complete(store, doomed)
    BY LogTyped DEF TriggerInv, Sound
  <2> QED  BY <2>1 DEF TouchesKept, Active, Complete, Alive, Touches
<1> QED  BY <1>1, TriggerAlways, PTL

\* What the module has applied, followed by what is queued, is what was
\* captured, in commit order: nothing is applied twice, skipped or reordered,
\* across retries, failed drains and crashes.
THEOREM FeedTakesEffectOnce == Spec => []ChangesExactlyOnce
<1>1. TriggerInv => ChangesExactlyOnce
  <2> SUFFICES ASSUME TriggerInv PROVE ChangesExactlyOnce
    OBVIOUS
  <2>1. Complete(store, doomed)
    BY LogTyped DEF TriggerInv, Sound
  <2> QED  BY <2>1 DEF ChangesExactlyOnce, Active, Complete, Alive, Feed, Changes
<1> QED  BY <1>1, TriggerAlways, PTL
=============================================================================

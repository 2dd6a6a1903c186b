-------------------------- MODULE GroupCommitProofs --------------------------
(***************************************************************************)
(* Proofs about GroupCommit, for any number of clients, keys and sequence  *)
(* numbers, with failures, panics, GC and closing all allowed: the numbers *)
(* and the conflict rule first, then the callers - where their waiters     *)
(* are, that a request is applied at most once, and that what a call       *)
(* returns is what happened to its batch.                                  *)
(***************************************************************************)
EXTENDS GroupCommit, FiniteSetTheorems, FunctionTheorems, SequenceTheorems, TLAPS

-----------------------------------------------------------------------------
(* Ranks: how the batches of a group get their numbers                     *)

\* The rank of a member of a finite set of positions is a number from 1 to
\* the size of the set, so apply_group_locked numbers a group from visible + 1.
LEMMA RankRange ==
  ASSUME NEW S \in SUBSET Int, IsFiniteSet(S), NEW i \in S
  PROVE  Rank(S, i) \in 1 .. Cardinality(S)
<1> DEFINE T == {j \in S : j <= i}
<1>1. /\ IsFiniteSet(T) /\ Cardinality(T) \in Nat /\ Cardinality(S) \in Nat
      /\ Cardinality(T) <= Cardinality(S)
  BY FS_Subset, FS_CardinalityType
<1>2. T # {}
  OBVIOUS
<1>3. Cardinality(T) # 0
  BY <1>1, <1>2, FS_EmptySet
<1> QED  BY <1>1, <1>3 DEF Rank

\* A later position has a larger rank: numbers go up in queue order.
LEMMA RankIncreases ==
  ASSUME NEW S \in SUBSET Int, IsFiniteSet(S), NEW i \in S, NEW j \in S, i < j
  PROVE  Rank(S, i) < Rank(S, j)
<1> DEFINE T == {k \in S : k <= i}
           U == {k \in S : k <= j}
<1>1. IsFiniteSet(U) /\ IsFiniteSet(T)
  BY FS_Subset
<1>2. T \in SUBSET U
  <2>1. \A k \in S : k <= i => k <= j
    OBVIOUS
  <2> QED  BY <2>1
<1>2a. j \in U /\ j \notin T
  OBVIOUS
<1>3. Cardinality(T) <= Cardinality(U) /\ Cardinality(U) # Cardinality(T)
  BY <1>1, <1>2, <1>2a, FS_Subset
<1>4. Cardinality(T) \in Nat /\ Cardinality(U) \in Nat
  BY <1>1, FS_CardinalityType
<1> QED  BY <1>3, <1>4 DEF Rank

\* Ranks among fewer positions are not larger: dropping refused batches only
\* lowers the numbers of the others.
LEMMA RankShrinks ==
  ASSUME NEW S \in SUBSET Int, IsFiniteSet(S), NEW T \in SUBSET S, NEW i \in T
  PROVE  Rank(T, i) <= Rank(S, i)
<1> DEFINE U == {k \in S : k <= i}
           V == {k \in T : k <= i}
<1>1. IsFiniteSet(U) /\ V \in SUBSET U
  BY FS_Subset
<1>2. Cardinality(V) <= Cardinality(U)
  BY <1>1, FS_Subset
<1> QED  BY <1>2 DEF Rank

\* Every rank up to the size of the set occurs: the numbers of a group have
\* no gap.
LEMMA RankOnto ==
  ASSUME NEW S \in SUBSET Int, IsFiniteSet(S), NEW n \in 1 .. Cardinality(S)
  PROVE  \E i \in S : Rank(S, i) = n
<1> DEFINE N == Cardinality(S)
           f == [i \in S |-> Rank(S, i)]
<1>1. N \in Nat
  BY FS_CardinalityType
<1>2. f \in [S -> 1 .. N]
  BY RankRange
<1>3. \A i, j \in S : f[i] = f[j] => i = j
  <2> SUFFICES ASSUME NEW i \in S, NEW j \in S, Rank(S, i) = Rank(S, j), i # j
               PROVE  FALSE
    OBVIOUS
  <2>1. Rank(S, i) \in Nat /\ Rank(S, j) \in Nat
    BY RankRange, <1>1
  <2>2. i < j \/ j < i
    OBVIOUS
  <2> QED  BY <2>1, <2>2, RankIncreases
<1>4. f \in Injection(S, 1 .. N)
  BY <1>2, <1>3 DEF Injection, IsInjective
<1>5. IsFiniteSet(1 .. N) /\ Cardinality(1 .. N) = N
  BY <1>1, FS_Interval
<1>6. f \in Surjection(S, 1 .. N)
  BY <1>4, <1>5, FS_Injection
<1> QED  BY <1>6 DEF Surjection

-----------------------------------------------------------------------------
(* One group                                                               *)

\* What apply_group_locked hands out for a group: as many numbers as it
\* appended batches, the next ones after visible, never beyond MAX_SEQNO.
LEMMA GroupNumbers ==
  ASSUME visible \in 0 .. MaxSeq, NEW g \in Seq(Clients), NEW passed \in SUBSET DOMAIN g,
         NEW o \in GroupOutcome(Cardinality(Accepted(g, passed)))
  PROVE  LET accepted == Accepted(g, passed)
         IN  /\ accepted \in SUBSET DOMAIN g
             /\ IsFiniteSet(accepted) /\ accepted \in SUBSET Int
             /\ Cardinality(accepted) \in Nat /\ o.cut \in 0 .. Cardinality(accepted)
             /\ o.synced \in BOOLEAN
             /\ visible + o.cut \in 0 .. MaxSeq
             /\ \A i \in Applied(accepted, o.cut) :
                  /\ i \in accepted /\ Rank(accepted, i) \in 1 .. o.cut
                  /\ visible + Rank(accepted, i) \in 1 .. MaxSeq
<1> DEFINE accepted == Accepted(g, passed)
           all == Fitting(g, passed)
<1>0. MaxSeq \in Nat /\ Faults \in BOOLEAN
  BY CommitAssumption
<1>1. all \in SUBSET DOMAIN g /\ accepted \in SUBSET all
  BY DEF ToWrite, Fitting, Accepted
<1>2. DOMAIN g = 1 .. Len(g) /\ Len(g) \in Nat
  BY LenProperties
<1>3. IsFiniteSet(DOMAIN g) /\ DOMAIN g \in SUBSET Int
  <2>1. IsFiniteSet(1 .. Len(g))
    BY <1>2, FS_Interval
  <2> QED  BY <1>2, <2>1
<1>4. /\ IsFiniteSet(all) /\ IsFiniteSet(accepted)
      /\ all \in SUBSET Int /\ accepted \in SUBSET Int
  <2>1. IsFiniteSet(all)
    BY <1>1, <1>3, FS_Subset
  <2> QED  BY <1>1, <1>3, <2>1, FS_Subset
<1>5. Cardinality(accepted) \in Nat
  BY <1>4, FS_CardinalityType
<1>6. o.cut \in 0 .. Cardinality(accepted) /\ o.synced \in BOOLEAN
  <2>1. CASE Faults
    <3>1. o \in [cut : 0 .. Cardinality(accepted), synced : BOOLEAN, rotated : BOOLEAN]
      BY <2>1 DEF GroupOutcome
    <3> QED  BY <3>1
  <2>2. CASE ~Faults
    <3>1. o = [cut |-> Cardinality(accepted), synced |-> TRUE, rotated |-> TRUE]
      BY <2>2 DEF GroupOutcome
    <3> QED  BY <3>1, <1>5
  <2> QED  BY <1>0, <2>1, <2>2
<1>7. \A i \in accepted : visible + Rank(accepted, i) \in 1 .. MaxSeq
  <2> SUFFICES ASSUME NEW i \in accepted PROVE visible + Rank(accepted, i) \in 1 .. MaxSeq
    OBVIOUS
  <2>1. Rank(accepted, i) \in 1 .. Cardinality(accepted)
    BY <1>4, RankRange
  <2>2. Rank(accepted, i) <= Rank(all, i)
    BY <1>1, <1>4, RankShrinks
  <2>3. Rank(all, i) \in 1 .. Cardinality(all) /\ Cardinality(all) \in Nat
    BY <1>1, <1>4, RankRange, FS_CardinalityType
  <2>4. visible + Rank(all, i) <= MaxSeq
    BY DEF Accepted
  <2> QED  BY <1>0, <1>5, <2>1, <2>2, <2>3, <2>4
<1>8. visible + o.cut \in 0 .. MaxSeq
  <2>1. CASE o.cut = 0
    BY <2>1, <1>0
  <2>2. CASE o.cut # 0
    <3>1. o.cut \in 1 .. Cardinality(accepted)
      BY <2>2, <1>5, <1>6
    <3>2. PICK i \in accepted : Rank(accepted, i) = o.cut
      BY <3>1, <1>4, RankOnto
    <3> QED  BY <3>1, <3>2, <1>0, <1>5, <1>7
  <2> QED  BY <2>1, <2>2
<1>9. ASSUME NEW i \in Applied(accepted, o.cut)
      PROVE  i \in accepted /\ Rank(accepted, i) \in 1 .. o.cut
  <2>1. i \in accepted /\ Rank(accepted, i) <= o.cut
    BY DEF Applied
  <2>2. Rank(accepted, i) \in 1 .. Cardinality(accepted)
    BY <2>1, <1>4, RankRange
  <2> QED  BY <2>1, <2>2, <1>5, <1>6
<1> HIDE DEF accepted, all
<1>10. /\ accepted \in SUBSET DOMAIN g
       /\ IsFiniteSet(accepted) /\ accepted \in SUBSET Int
       /\ Cardinality(accepted) \in Nat /\ o.cut \in 0 .. Cardinality(accepted)
       /\ o.synced \in BOOLEAN
       /\ visible + o.cut \in 0 .. MaxSeq
       /\ \A i \in Applied(accepted, o.cut) :
            /\ i \in accepted /\ Rank(accepted, i) \in 1 .. o.cut
            /\ visible + Rank(accepted, i) \in 1 .. MaxSeq
  BY <1>1, <1>4, <1>5, <1>6, <1>7, <1>8, <1>9
<1> QED  BY <1>10 DEF accepted

-----------------------------------------------------------------------------
(* Types                                                                   *)

\* Where the committer is says what it holds: a chunk while it applies or
\* delivers one, with one result per waiter to deliver, and drained waiters
\* only until the last of them is in a chunk.
Shape ==
    /\ cpc \in {"apply", "deliver"} <=> group # <<>>
    /\ cpc = "deliver" => Len(results) = Len(group)
    /\ cpc \in {"drain", "exited"} => drained = <<>>
    /\ cpc = "chunk" => drained # <<>>

\* A sequence without its i-th element.
LEMMA RemoveAtProperties ==
  ASSUME NEW S, NEW s \in Seq(S), NEW i \in DOMAIN s
  PROVE  /\ RemoveAt(s, i) \in Seq(S)
         /\ Len(RemoveAt(s, i)) = Len(s) - 1
         /\ \A j \in 1 .. Len(s) - 1 :
              RemoveAt(s, i)[j] = IF j < i THEN s[j] ELSE s[j + 1]
<1> DEFINE a == SubSeq(s, 1, i - 1)
           b == SubSeq(s, i + 1, Len(s))
<1>1. Len(s) \in Nat /\ i \in 1 .. Len(s)
  BY LenProperties
<1>2. /\ a \in Seq(S) /\ Len(a) = i - 1
      /\ \A j \in 1 .. i - 1 : a[j] = s[j]
  BY <1>1
<1>3. /\ b \in Seq(S) /\ Len(b) = Len(s) - i
      /\ \A j \in 1 .. Len(s) - i : b[j] = s[i + j]
  BY <1>1
<1>4. /\ a \o b \in Seq(S) /\ Len(a \o b) = Len(s) - 1
      /\ \A j \in 1 .. Len(s) - 1 : (a \o b)[j] = IF j < i THEN a[j] ELSE b[j - (i - 1)]
  <2> HIDE DEF a, b
  <2>1. /\ a \o b \in Seq(S) /\ Len(a \o b) = Len(a) + Len(b)
        /\ \A j \in 1 .. Len(a) + Len(b) :
              (a \o b)[j] = IF j <= Len(a) THEN a[j] ELSE b[j - Len(a)]
    BY <1>2, <1>3, ConcatProperties
  <2>2. Len(a) + Len(b) = Len(s) - 1 /\ Len(a) = i - 1
    BY <1>1, <1>2, <1>3
  <2>3. \A j \in 1 .. Len(s) - 1 : j <= i - 1 <=> j < i
    BY <1>1
  <2> QED  BY <2>1, <2>2, <2>3
<1> HIDE DEF a, b
<1>5. \A j \in 1 .. Len(s) - 1 : (a \o b)[j] = IF j < i THEN s[j] ELSE s[j + 1]
  BY <1>1, <1>2, <1>3, <1>4
<1> QED  BY <1>4, <1>5 DEF RemoveAt, a, b

\* A function on 1 .. n is a sequence of length n.
LEMMA FunctionIsSeq ==
  ASSUME NEW S, NEW n \in Nat, NEW f \in [1 .. n -> S]
  PROVE  f \in Seq(S) /\ Len(f) = n
<1>1. f \in Seq(S)
  BY SeqDef
<1>2. Len(f) \in Nat /\ 1 .. Len(f) = 1 .. n
  BY <1>1, LenProperties
<1>3. ASSUME NEW m \in Nat, 1 .. m = 1 .. n PROVE m = n
  <2>1. CASE m = 0
    BY <1>3, <2>1
  <2>2. CASE n = 0
    BY <1>3, <2>2
  <2>3. CASE m # 0 /\ n # 0
    <3>1. m \in 1 .. m /\ n \in 1 .. n
      BY <2>3
    <3>2. m \in 1 .. n /\ n \in 1 .. m
      BY <3>1, <1>3
    <3> QED  BY <3>2
  <2> QED  BY <2>1, <2>2, <2>3
<1> QED  BY <1>1, <1>2, <1>3

\* A client step keeps the types; the committer's variables it leaves alone.
LEMMA ClientTypes ==
  ASSUME TypeOK, Shape, NEW c \in Clients, Client(c)
  PROVE  TypeOK' /\ Shape'
<1> USE DEF NoReq, Outcome, None
<1>0. MaxSeq \in Nat
  BY CommitAssumption
<1>1. CASE BeginTxn(c)
  <2>1. req' = [req EXCEPT ![c] = [txn |-> TRUE, snap |-> visible, writes |-> {}, locks |-> {}]]
    BY <1>1 DEF BeginTxn
  <2>2. req' \in [Clients -> [txn : BOOLEAN, snap : 0 .. MaxSeq,
                              writes : SUBSET Keys, locks : SUBSET Keys]]
    BY <1>0, <2>1 DEF TypeOK
  <2>3. pc' \in [Clients -> {"idle", "open", "admitted", "parked", "returned"}]
    BY <1>1 DEF TypeOK, BeginTxn
  <2> QED
    BY <1>1, <2>2, <2>3 DEF TypeOK, Shape, BeginTxn, committerVars, storeVars, engineVars
<1>2. CASE Enqueue(c)
  <2>1. /\ pc' \in [Clients -> {"idle", "open", "admitted", "parked", "returned"}]
        /\ queue' \in Seq(Clients)
    BY <1>2 DEF TypeOK, Enqueue
  <2> QED
    BY <1>2, <2>1 DEF TypeOK, Shape, Enqueue, committerVars, storeVars, engineVars
<1>3. CASE TakeResult(c)
  BY <1>3 DEF TypeOK, Shape, TakeResult, Return, committerVars, storeVars, engineVars
<1>4. CASE Bail(c)
  <2>1. PICK i \in DOMAIN queue : queue' = RemoveAt(queue, i)
    BY <1>4 DEF Bail
  <2>2. queue' \in Seq(Clients)
    BY <2>1, RemoveAtProperties DEF TypeOK
  <2> QED
    BY <1>4, <2>2 DEF TypeOK, Shape, Bail, Return, committerVars, storeVars, engineVars
<1>5. CASE DirectCommit(c)
  <2>1. /\ UNCHANGED <<req, slot, queue, committerVars, engineVars, shutdown>>
        /\ \E r \in Outcome : Return(c, r)
    BY <1>5 DEF DirectCommit
  <2>2. /\ visible' \in 0 .. MaxSeq /\ commits' \subseteq wal' /\ bgError' \in BOOLEAN
        /\ \A b \in wal' : b \in wal \/ (b = Batch(c, visible + 1) /\ visible < MaxSeq)
    <3>1. CASE UNCHANGED <<storeVars, bgError>>
      BY <3>1 DEF TypeOK, storeVars
    <3>2. CASE UNCHANGED storeVars /\ bgError' = TRUE
      BY <3>2 DEF TypeOK, storeVars
    <3>3. CASE /\ visible < MaxSeq
               /\ wal' = wal \cup {Batch(c, visible + 1)}
               /\ commits' = commits \cup {Batch(c, visible + 1)}
               /\ visible' = visible + 1
               /\ bgError' \in {bgError, bgError \/ Faults}
      BY <1>0, <3>3, CommitAssumption DEF TypeOK
    <3> QED  BY <1>5, <3>1, <3>2, <3>3 DEF DirectCommit, Placeable
  <2>3. \A b \in wal' : /\ b.owner \in Clients \cup {None} /\ b.seq \in 1 .. MaxSeq
                        /\ b.keys \subseteq Keys /\ b.conflictKeys \subseteq Keys
                        /\ b.txn \in BOOLEAN /\ b.snap \in 0 .. MaxSeq
    BY <1>0, <2>2 DEF TypeOK, Batch, ConflictKeys
  <2> QED  BY <2>1, <2>2, <2>3 DEF TypeOK, Shape, Return, committerVars, engineVars
<1>6. ASSUME NEW w \in SUBSET Keys, NEW l \in SUBSET Keys, Submit(c, w, l)
      PROVE  TypeOK' /\ Shape'
  <2>1. req' \in [Clients -> [txn : BOOLEAN, snap : 0 .. MaxSeq,
                              writes : SUBSET Keys, locks : SUBSET Keys]]
    <3>1. req[c] \in [txn : BOOLEAN, snap : 0 .. MaxSeq, writes : SUBSET Keys, locks : SUBSET Keys]
      BY DEF TypeOK
    <3>2. [req[c] EXCEPT !.writes = w, !.locks = l]
            \in [txn : BOOLEAN, snap : 0 .. MaxSeq, writes : SUBSET Keys, locks : SUBSET Keys]
      BY <3>1
    <3>3. req' = [req EXCEPT ![c] = [req[c] EXCEPT !.writes = w, !.locks = l]]
      BY <1>6 DEF Submit, TypeOK
    <3> QED  BY <3>2, <3>3 DEF TypeOK
  <2>2. /\ pc' \in [Clients -> {"idle", "open", "admitted", "parked", "returned"}]
        /\ returned' \in [Clients -> Outcome \cup {None}]
    BY <1>6 DEF TypeOK, Submit, Return
  <2> QED
    BY <1>6, <2>1, <2>2 DEF TypeOK, Shape, Submit, committerVars, storeVars, engineVars
<1>7. ASSUME NEW f \in Footprints, Submit(c, f[1], f[2])
      PROVE  TypeOK' /\ Shape'
  <2>1. f[1] \in SUBSET Keys /\ f[2] \in SUBSET Keys
    BY CommitAssumption
  <2> QED  BY <1>6, <1>7, <2>1
<1> QED  BY <1>1, <1>2, <1>3, <1>4, <1>5, <1>7 DEF Client

\* A committer step keeps the types: no number beyond MAX_SEQNO is published,
\* and the results match the chunk.
LEMMA CommitterTypes ==
  ASSUME TypeOK, Shape, Committer \/ CommitterPanics
  PROVE  TypeOK' /\ Shape'
<1> USE DEF Outcome, None
<1>0. MaxSeq \in Nat
  BY CommitAssumption
<1>1. CASE Drain
  BY <1>1 DEF TypeOK, Shape, Drain, clientVars, storeVars, engineVars
<1>2. CASE ExitCommitter
  BY <1>2 DEF TypeOK, Shape, ExitCommitter, clientVars, storeVars, engineVars
<1>3. CASE CommitGroup
  <2>0. PICK unread \in Unread(group), passed \in SUBSET DOMAIN group :
          \E o \in GroupOutcome(Cardinality(Accepted(group, passed))) :
            ApplyGroup(group, passed, unread, o)
    BY <1>3 DEF CommitGroup
  <2>1. PICK o \in GroupOutcome(Cardinality(Accepted(group, passed))) :
          ApplyGroup(group, passed, unread, o)
    BY <2>0
  <2>2. group \in Seq(Clients) /\ visible \in 0 .. MaxSeq
    BY DEF TypeOK
  <2> DEFINE accepted == Accepted(group, passed)
             new(i) == Batch(group[i], visible + Rank(accepted, i))
  <2>3. /\ accepted \in SUBSET DOMAIN group
        /\ o.cut \in Nat /\ visible + o.cut \in 0 .. MaxSeq
        /\ \A i \in Applied(accepted, o.cut) :
             i \in accepted /\ visible + Rank(accepted, i) \in 1 .. MaxSeq
    BY <2>2, GroupNumbers
  <2>4. /\ visible' \in 0 .. MaxSeq /\ commits' \subseteq wal'
        /\ \A b \in wal' : b \in wal \/ \E i \in Applied(accepted, o.cut) : b = new(i)
    <3>1. wal' = wal \cup {new(i) : i \in Applied(accepted, o.cut)}
      BY <2>1 DEF ApplyGroup
    <3>2. commits' = commits \/ commits' = commits \cup {new(i) : i \in Applied(accepted, o.cut)}
      BY <2>1 DEF ApplyGroup
    <3>3. visible' = visible \/ visible' = visible + o.cut
      BY <2>1 DEF ApplyGroup
    <3> QED  BY <2>2, <2>3, <3>1, <3>2, <3>3 DEF TypeOK
  <2>5. ASSUME NEW i \in Applied(accepted, o.cut)
        PROVE  /\ new(i).owner \in Clients \cup {None} /\ new(i).seq \in 1 .. MaxSeq
               /\ new(i).keys \subseteq Keys /\ new(i).conflictKeys \subseteq Keys
               /\ new(i).txn \in BOOLEAN /\ new(i).snap \in 0 .. MaxSeq
    <3>1. group[i] \in Clients /\ visible + Rank(accepted, i) \in 1 .. MaxSeq
      BY <2>2, <2>3
    <3> HIDE DEF accepted
    <3> QED  BY <3>1 DEF TypeOK, Batch, ConflictKeys
  <2>6. \A b \in wal' : /\ b.owner \in Clients \cup {None} /\ b.seq \in 1 .. MaxSeq
                        /\ b.keys \subseteq Keys /\ b.conflictKeys \subseteq Keys
                        /\ b.txn \in BOOLEAN /\ b.snap \in 0 .. MaxSeq
    <3> HIDE DEF new
    <3> QED  BY <2>4, <2>5 DEF TypeOK
  <2>7. results' \in Seq(Outcome) /\ Len(results') = Len(group)
    <3>1. DOMAIN group = 1 .. Len(group) /\ Len(group) \in Nat
      BY <2>2, LenProperties
    <3>2. results' \in [DOMAIN group -> Outcome]
      BY <2>1 DEF ApplyGroup
    <3> QED  BY <3>1, <3>2, FunctionIsSeq
  <2>8. bgError' \in BOOLEAN
    BY <2>1 DEF ApplyGroup
  <2>9. UNCHANGED <<pc, req, returned, slot, queue, drained, group, always, gc, shutdown>>
        /\ cpc = "apply" /\ cpc' = "deliver"
    BY <1>3 DEF CommitGroup, clientVars, engineVars
  <2> HIDE DEF accepted, new
  <2> QED  BY <2>4, <2>6, <2>7, <2>8, <2>9 DEF TypeOK, Shape
<1>4. CASE Deliver
  <2>1. /\ group \in Seq(Clients) /\ group # <<>>
        /\ results \in Seq(Outcome) /\ results # <<>> /\ Len(results) = Len(group)
        /\ cpc = "deliver"
    BY <1>4 DEF Deliver, TypeOK, Shape
  <2>2. Head(group) \in Clients /\ Head(results) \in Outcome
    BY <2>1
  <2>3. /\ group' \in Seq(Clients) /\ Len(group') = Len(group) - 1
        /\ results' \in Seq(Outcome) /\ Len(results') = Len(results) - 1
    BY <1>4, <2>1 DEF Deliver
  <2>4. slot' \in [Clients -> Outcome \cup {None}]
    BY <1>4, <2>2 DEF Deliver, TypeOK
  <2>5. /\ UNCHANGED <<pc, req, returned, queue, drained, wal, commits, visible, always, gc,
                       bgError, shutdown>>
        /\ \/ cpc' = "deliver" /\ Len(group) > 1
           \/ cpc' = "chunk" /\ Len(group) = 1 /\ drained # <<>>
           \/ cpc' = "drain" /\ Len(group) = 1 /\ drained = <<>>
    BY <1>4, <2>1 DEF Deliver, clientVars, storeVars, engineVars
  <2>6. Shape'
    <3>1. Len(group) \in Nat /\ (group' = <<>> <=> Len(group') = 0)
      BY <2>1, <2>3
    <3>2. group' = <<>> <=> cpc' \in {"chunk", "drain"}
      BY <2>3, <2>5, <3>1
    <3> QED  BY <2>1, <2>3, <2>5, <3>2 DEF Shape
  <2> QED  BY <2>3, <2>4, <2>5, <2>6 DEF TypeOK
<1>5. ASSUME NEW n \in 1 .. Len(drained), FormChunk(n)
      PROVE  TypeOK' /\ Shape'
  <2>1. drained \in Seq(Clients) /\ Len(drained) \in Nat /\ group = <<>> /\ cpc = "chunk"
    BY <1>5 DEF TypeOK, Shape, FormChunk
  <2>2. /\ drained' \in Seq(Clients) /\ Len(drained') = Len(drained) - n
        /\ Chunk(n) \in Seq(Clients) /\ Len(Chunk(n)) = n
    <3>1. drained' = SubSeq(drained, n + 1, Len(drained)) /\ Chunk(n) = SubSeq(drained, 1, n)
      BY <1>5 DEF FormChunk, RestAfter, Chunk
    <3> QED  BY <2>1, <3>1
  <2>3. slot' \in [Clients -> Outcome \cup {None}]
    BY <1>5 DEF FormChunk, TypeOK
  <2>4. \/ group' = group /\ cpc' = IF n = Len(drained) THEN "drain" ELSE "chunk"
        \/ group' = Chunk(n) /\ cpc' = "apply"
    BY <1>5 DEF FormChunk
  <2>5. UNCHANGED <<pc, req, returned, queue, results, wal, commits, visible, always, gc,
                    bgError, shutdown>>
    BY <1>5 DEF FormChunk, clientVars, storeVars, engineVars
  <2>6. Shape'
    BY <2>1, <2>2, <2>4 DEF Shape
  <2> QED  BY <2>1, <2>2, <2>3, <2>4, <2>5, <2>6 DEF TypeOK
<1>6. CASE CommitterPanics
  BY <1>6 DEF TypeOK, Shape, CommitterPanics, clientVars, storeVars, engineVars
<1> QED  BY <1>1, <1>2, <1>3, <1>4, <1>5, <1>6 DEF Committer

\* GC, failures of other threads and closing keep the types.
LEMMA EnvironmentTypes ==
  ASSUME TypeOK, Shape,
         StartGc \/ EndGc \/ (\E k \in Keys : Relocate(k)) \/ BackgroundFails \/ CloseDb
  PROVE  TypeOK' /\ Shape'
<1>0. MaxSeq \in Nat
  BY CommitAssumption
<1>1. CASE StartGc \/ EndGc
  BY <1>1 DEF TypeOK, Shape, StartGc, EndGc, clientVars, committerVars, storeVars
<1>2. CASE BackgroundFails \/ CloseDb
  BY <1>2 DEF TypeOK, Shape, BackgroundFails, CloseDb, clientVars, committerVars, storeVars,
              engineVars
<1>3. ASSUME NEW k \in Keys, Relocate(k)
      PROVE  TypeOK' /\ Shape'
  <2>1. /\ visible' \in 0 .. MaxSeq /\ commits' \subseteq wal'
        /\ bgError' \in BOOLEAN /\ gc' \in BOOLEAN
        /\ \A b \in wal' : b \in wal \/ b = Relocation(k)
    <3>1. visible \in 0 .. MaxSeq /\ visible < MaxSeq /\ commits \subseteq wal
          /\ bgError \in BOOLEAN /\ gc \in BOOLEAN
      BY <1>3 DEF Relocate, TypeOK
    <3>2. CASE /\ wal' = wal \cup {Relocation(k)}
               /\ commits' = commits \cup {Relocation(k)}
               /\ visible' = visible + 1
               /\ bgError' \in {bgError, bgError \/ Faults}
               /\ UNCHANGED gc
      BY <1>0, <3>1, <3>2, CommitAssumption
    <3>3. CASE /\ wal' \in {wal, IF always THEN wal \cup {Relocation(k)} ELSE wal}
               /\ bgError' = TRUE /\ gc' = FALSE
               /\ UNCHANGED <<commits, visible>>
      BY <3>1, <3>3
    <3> QED  BY <1>3, <3>2, <3>3 DEF Relocate
  <2>2. visible + 1 \in 1 .. MaxSeq
    BY <1>0, <1>3 DEF Relocate, TypeOK
  <2>3. \A b \in wal' : /\ b.owner \in Clients \cup {None} /\ b.seq \in 1 .. MaxSeq
                        /\ b.keys \subseteq Keys /\ b.conflictKeys \subseteq Keys
                        /\ b.txn \in BOOLEAN /\ b.snap \in 0 .. MaxSeq
    <3>1. LET b == Relocation(k)
          IN  /\ b.owner \in Clients \cup {None} /\ b.seq \in 1 .. MaxSeq
              /\ b.keys \subseteq Keys /\ b.conflictKeys \subseteq Keys
              /\ b.txn \in BOOLEAN /\ b.snap \in 0 .. MaxSeq
      BY <1>0, <2>2 DEF Relocation
    <3> QED  BY <2>1, <3>1 DEF TypeOK
  <2>4. UNCHANGED <<clientVars, slot, queue, committerVars, always, shutdown>>
    BY <1>3 DEF Relocate
  <2> QED  BY <2>1, <2>3, <2>4 DEF TypeOK, Shape, clientVars, committerVars
<1> QED  BY <1>1, <1>2, <1>3

\* The empty store has the types, with no chunk and no result pending.
LEMMA InitTypes == Init => TypeOK /\ Shape
<1>1. MaxSeq \in Nat /\ Modes \subseteq BOOLEAN
  BY CommitAssumption
<1> SUFFICES ASSUME Init PROVE TypeOK /\ Shape
  OBVIOUS
<1>2. req \in [Clients -> [txn : BOOLEAN, snap : 0 .. MaxSeq,
                          writes : SUBSET Keys, locks : SUBSET Keys]]
  BY <1>1 DEF Init, NoReq
<1>3. /\ queue \in Seq(Clients) /\ drained \in Seq(Clients) /\ group \in Seq(Clients)
      /\ results \in Seq(Outcome)
  BY DEF Init
<1>4. visible \in 0 .. MaxSeq /\ always \in BOOLEAN
  BY <1>1 DEF Init
<1> QED  BY <1>2, <1>3, <1>4 DEF Init, TypeOK, Shape, None

\* Every step of a client, the committer or the environment keeps them.
LEMMA StepTypes == TypeOK /\ Shape /\ [Next]_vars => TypeOK' /\ Shape'
<1> SUFFICES ASSUME TypeOK, Shape, [Next]_vars PROVE TypeOK' /\ Shape'
  OBVIOUS
<1>1. CASE UNCHANGED vars
  BY <1>1 DEF vars, TypeOK, Shape, clientVars, committerVars, storeVars, engineVars
<1>2. CASE Next
  BY <1>2, ClientTypes, CommitterTypes, EnvironmentTypes DEF Next
<1> QED  BY <1>1, <1>2

\* Every state of the commit path has its type, for any number of clients: in
\* particular the published sequence number never passes MAX_SEQNO, however
\* the chunks are cut and whatever fails.
THEOREM TypeCorrect == Spec => []TypeOK
<1>1. Spec => [](TypeOK /\ Shape)
  BY InitTypes, StepTypes, PTL DEF Spec
<1> QED  BY <1>1, PTL

-----------------------------------------------------------------------------
(* Numbering and conflicts                                                 *)

\* The two invariants of the committed history, and that they use nothing but
\* the history and visible.
History == SeqnosContiguous /\ FirstCommitterWins

\* n new batches join the history: they take the numbers after visible, each
\* once, and each of them has seen everything older that it conflicts with.
GrowsBy(new, n) ==
    /\ commits' = commits \cup new /\ visible' = visible + n
    /\ {b.seq : b \in new} = visible + 1 .. visible + n
    /\ \A a, b \in new : a.seq = b.seq => a = b
    /\ \A b \in new, a \in commits \cup new :
         b.txn /\ a.keys \cap b.conflictKeys # {} => ~(b.snap < a.seq /\ a.seq < b.seq)

\* Growing that way keeps the history contiguous and free of conflicts.
LEMMA HistoryGrows ==
  ASSUME History, visible \in Nat, NEW new, NEW n \in Nat, GrowsBy(new, n)
  PROVE  History'
<1> USE DEF GrowsBy
<1>1. /\ {b.seq : b \in commits} = 1 .. visible
      /\ \A a, b \in commits : a.seq = b.seq => a = b
      /\ \A a, b \in commits :
           b.txn /\ a.keys \cap b.conflictKeys # {} => ~(b.snap < a.seq /\ a.seq < b.seq)
  BY DEF History, SeqnosContiguous, FirstCommitterWins
<1>2. \A b \in commits : b.seq \in 1 .. visible
  BY <1>1
<1>3. \A b \in new : b.seq \in visible + 1 .. visible + n
  OBVIOUS
<1>4. {b.seq : b \in commits'} = 1 .. visible'
  <2>1. {b.seq : b \in commits'} = {b.seq : b \in commits} \cup {b.seq : b \in new}
    OBVIOUS
  <2>2. (1 .. visible) \cup (visible + 1 .. visible + n) = 1 .. visible + n
    OBVIOUS
  <2> QED  BY <1>1, <2>1, <2>2
<1>5. \A a, b \in commits' : a.seq = b.seq => a = b
  BY <1>1, <1>2, <1>3
<1>6. \A a, b \in commits' :
        b.txn /\ a.keys \cap b.conflictKeys # {} => ~(b.snap < a.seq /\ a.seq < b.seq)
  <2> SUFFICES ASSUME NEW a \in commits', NEW b \in commits',
                      b.txn, a.keys \cap b.conflictKeys # {}
               PROVE  ~(b.snap < a.seq /\ a.seq < b.seq)
    OBVIOUS
  <2>1. CASE b \in new
    BY <2>1
  <2>2. CASE b \in commits /\ a \in commits
    BY <2>2, <1>1
  <2>3. CASE b \in commits /\ a \in new
    BY <2>3, <1>2, <1>3
  <2> QED  BY <2>1, <2>2, <2>3
<1> QED  BY <1>4, <1>5, <1>6 DEF History, SeqnosContiguous, FirstCommitterWins

\* A batch a client applies itself.
LEMMA DirectHistory ==
  ASSUME TypeOK, History, NEW c \in Clients, DirectCommit(c)
  PROVE  History'
<1>1. CASE UNCHANGED storeVars
  BY <1>1 DEF storeVars, History, SeqnosContiguous, FirstCommitterWins
<1>2. CASE /\ ~StoreConflict(c)
           /\ commits' = commits \cup {Batch(c, visible + 1)}
           /\ visible' = visible + 1
  <2> DEFINE b == Batch(c, visible + 1)
  <2>1. visible \in Nat
    BY CommitAssumption DEF TypeOK
  <2>2. b.seq = visible + 1 /\ b.txn = req[c].txn /\ b.snap = req[c].snap
        /\ b.conflictKeys = ConflictKeys(c)
    BY DEF Batch
  <2>3. {x.seq : x \in {b}} = visible + 1 .. visible + 1
    <3> HIDE DEF b
    <3> QED  BY <2>1, <2>2
  <2>4. \A a \in commits \cup {b} :
          b.txn /\ a.keys \cap b.conflictKeys # {} => ~(b.snap < a.seq /\ a.seq < b.seq)
    <3> SUFFICES ASSUME NEW a \in commits, b.txn, a.keys \cap b.conflictKeys # {}
                 PROVE  ~(a.seq > req[c].snap)
      BY <2>1, <2>2, CommitAssumption DEF TypeOK
    <3> QED  BY <1>2, <2>2 DEF StoreConflict, HasNewer
  <2>5. GrowsBy({b}, 1)
    <3>1. commits' = commits \cup {b} /\ visible' = visible + 1
      BY <1>2
    <3> HIDE DEF b
    <3> QED  BY <2>3, <2>4, <3>1 DEF GrowsBy
  <2> HIDE DEF b
  <2> QED  BY <2>1, <2>5, HistoryGrows
<1> QED  BY <1>1, <1>2 DEF DirectCommit, storeVars

\* A value GC moved: a new number, and nobody's transaction.
LEMMA RelocateHistory ==
  ASSUME TypeOK, History, NEW k \in Keys, Relocate(k)
  PROVE  History'
<1>1. CASE UNCHANGED <<commits, visible>>
  BY <1>1 DEF History, SeqnosContiguous, FirstCommitterWins
<1>2. CASE commits' = commits \cup {Relocation(k)} /\ visible' = visible + 1
  <2> DEFINE b == Relocation(k)
  <2>1. visible \in Nat
    BY CommitAssumption DEF TypeOK
  <2>2. b.seq = visible + 1 /\ b.txn = FALSE
    BY DEF Relocation
  <2>3. commits' = commits \cup {b} /\ visible' = visible + 1
    BY <1>2
  <2> HIDE DEF b
  <2>4. {x.seq : x \in {b}} = visible + 1 .. visible + 1
    BY <2>1, <2>2
  <2>5. GrowsBy({b}, 1)
    BY <2>2, <2>3, <2>4 DEF GrowsBy
  <2> QED  BY <2>1, <2>5, HistoryGrows
<1> QED  BY <1>1, <1>2 DEF Relocate

\* A chunk: the appended prefix of the accepted batches, if the sync succeeded.
LEMMA GroupHistory ==
  ASSUME TypeOK, History, CommitGroup
  PROVE  History'
<1>0. PICK unread \in Unread(group), passed \in SUBSET DOMAIN group :
        /\ Passes(group, passed, unread)
        /\ \E o \in GroupOutcome(Cardinality(Accepted(group, passed))) :
             ApplyGroup(group, passed, unread, o)
  BY DEF CommitGroup
<1>1. PICK o \in GroupOutcome(Cardinality(Accepted(group, passed))) :
        ApplyGroup(group, passed, unread, o)
  BY <1>0
<1>2. group \in Seq(Clients) /\ visible \in 0 .. MaxSeq /\ visible \in Nat
  BY CommitAssumption DEF TypeOK
<1> DEFINE accepted == Accepted(group, passed)
           applied  == Applied(accepted, o.cut)
           numbered(i) == Batch(group[i], visible + Rank(accepted, i))
           new == {numbered(i) : i \in applied}
<1>3. /\ IsFiniteSet(accepted) /\ accepted \in SUBSET Int
      /\ Cardinality(accepted) \in Nat /\ o.cut \in 0 .. Cardinality(accepted)
      /\ o.synced \in BOOLEAN
      /\ \A i \in applied : i \in accepted /\ Rank(accepted, i) \in 1 .. o.cut
  BY <1>2, GroupNumbers
<1>4. CASE ~o.synced
  <2>1. commits' = commits /\ visible' = visible
    BY <1>1, <1>4 DEF ApplyGroup
  <2> QED  BY <2>1 DEF History, SeqnosContiguous, FirstCommitterWins
<1>5. CASE o.synced
  <2>1. commits' = commits \cup new /\ visible' = visible + o.cut
    BY <1>1, <1>5 DEF ApplyGroup
  <2>2. \A i \in applied :
          /\ numbered(i).seq = visible + Rank(accepted, i)
          /\ numbered(i).keys = req[group[i]].writes
          /\ numbered(i).txn = req[group[i]].txn /\ numbered(i).snap = req[group[i]].snap
          /\ numbered(i).conflictKeys = ConflictKeys(group[i])
    <3> HIDE DEF accepted, applied
    <3> QED  BY DEF Batch
  <2> HIDE DEF numbered
  <2>3. \A i, j \in applied : Rank(accepted, i) = Rank(accepted, j) => i = j
    <3> SUFFICES ASSUME NEW i \in applied, NEW j \in applied,
                        Rank(accepted, i) = Rank(accepted, j), i # j
                 PROVE  FALSE
      OBVIOUS
    <3>1. i \in Int /\ j \in Int /\ i \in accepted /\ j \in accepted
          /\ Rank(accepted, i) \in Nat
      BY <1>3
    <3>2. i < j \/ j < i
      BY <3>1
    <3> HIDE DEF accepted, applied
    <3> QED  BY <1>3, <3>1, <3>2, RankIncreases
  <2>4. {b.seq : b \in new} = visible + 1 .. visible + o.cut
    <3>1. ASSUME NEW i \in applied PROVE numbered(i).seq \in visible + 1 .. visible + o.cut
      <4> HIDE DEF accepted, applied
      <4> QED  BY <1>2, <1>3, <2>2
    <3>2. ASSUME NEW n \in visible + 1 .. visible + o.cut
          PROVE  \E i \in applied : numbered(i).seq = n
      <4> HIDE DEF applied
      <4>1. n - visible \in 1 .. Cardinality(accepted) /\ n - visible <= o.cut
        BY <1>2, <1>3
      <4>2. PICK i \in accepted : Rank(accepted, i) = n - visible
        <5> HIDE DEF accepted
        <5> QED  BY <1>3, <4>1, RankOnto
      <4>3. i \in applied
        BY <4>1, <4>2 DEF applied, Applied
      <4> HIDE DEF accepted
      <4> QED  BY <1>2, <2>2, <4>2, <4>3
    <3> HIDE DEF accepted, applied
    <3> QED  BY <3>1, <3>2
  <2>5. \A a, b \in new : a.seq = b.seq => a = b
    <3> SUFFICES ASSUME NEW i \in applied, NEW j \in applied, numbered(i).seq = numbered(j).seq
                 PROVE  i = j
      OBVIOUS
    <3>1. visible + Rank(accepted, i) = visible + Rank(accepted, j)
      BY <2>2
    <3> HIDE DEF accepted, applied
    <3>2. Rank(accepted, i) = Rank(accepted, j)
      BY <1>2, <1>3, <3>1
    <3> QED  BY <2>3, <3>2
  <2>6. ASSUME NEW j \in applied
        PROVE  /\ ~StoreConflict(group[j])
               /\ req[group[j]].txn =>
                    \A i \in applied : i < j => req[group[i]].writes \cap ConflictKeys(group[j]) = {}
    <3>1. applied \in SUBSET passed
      BY DEF applied, Applied, accepted, Accepted, Fitting, ToWrite
    <3> HIDE DEF accepted, applied
    <3> QED  BY <1>0, <3>1 DEF Passes
  <2>7. ASSUME NEW j \in applied, NEW a \in commits \cup new, numbered(j).txn,
               a.keys \cap numbered(j).conflictKeys # {}
        PROVE  ~(numbered(j).snap < a.seq /\ a.seq < numbered(j).seq)
    <3> HIDE DEF accepted, applied
    <3>1. req[group[j]].txn /\ a.keys \cap ConflictKeys(group[j]) # {}
      BY <2>2, <2>7
    <3>2. CASE a \in commits
      <4>1. ~(a.seq > req[group[j]].snap)
        BY <2>6, <3>1, <3>2 DEF StoreConflict, HasNewer
      <4>2. a.seq \in Int /\ req[group[j]].snap \in Int
        <5>1. j \in DOMAIN group
          BY <1>2, <1>3, GroupNumbers DEF accepted
        <5>2. group[j] \in Clients
          BY <1>2, <5>1
        <5>3. a \in wal
          BY <3>2 DEF TypeOK
        <5> QED  BY <5>2, <5>3, CommitAssumption DEF TypeOK
      <4> QED  BY <2>2, <4>1, <4>2
    <3>3. CASE a \in new
      <4>1. PICK i \in applied : a = numbered(i)
        BY <3>3
      <4>2. ~(i < j)
        BY <2>2, <2>6, <3>1, <4>1
      <4>3. i \in accepted /\ j \in accepted /\ i \in Int /\ j \in Int
            /\ Rank(accepted, i) \in Nat /\ Rank(accepted, j) \in Nat
        <5>1. /\ i \in accepted /\ Rank(accepted, i) \in 1 .. o.cut
              /\ j \in accepted /\ Rank(accepted, j) \in 1 .. o.cut
          BY <1>3
        <5>2. o.cut \in Nat /\ accepted \in SUBSET Int
          BY <1>3
        <5> QED  BY <5>1, <5>2
      <4>4. Rank(accepted, j) <= Rank(accepted, i)
        <5>1. CASE i = j
          BY <4>3, <5>1
        <5>2. CASE j < i
          BY <1>3, <4>3, <5>2, RankIncreases
        <5> QED  BY <4>2, <4>3, <5>1, <5>2
      <4> QED  BY <1>2, <2>2, <4>1, <4>3, <4>4
    <3> QED  BY <3>2, <3>3
  <2>8. GrowsBy(new, o.cut)
    <3> HIDE DEF accepted, applied
    <3>1. \A b \in new, a \in commits \cup new :
            b.txn /\ a.keys \cap b.conflictKeys # {} => ~(b.snap < a.seq /\ a.seq < b.seq)
      BY <2>7
    <3> HIDE DEF new
    <3> QED  BY <2>1, <2>4, <2>5, <3>1 DEF GrowsBy
  <2>9. o.cut \in Nat
    BY <1>3
  <2> HIDE DEF new
  <2> QED  BY <1>2, <2>8, <2>9, HistoryGrows
<1> QED  BY <1>3, <1>4, <1>5

\* Nothing committed yet: the history is contiguous and free of conflicts.
LEMMA InitHistory == Init => History
  BY DEF Init, History, SeqnosContiguous, FirstCommitterWins

\* Only a direct commit, a relocation and a chunk extend the history, each of
\* them by the next numbers and by batches that passed validation.
LEMMA StepHistory == TypeOK /\ History /\ [Next]_vars => History'
<1> SUFFICES ASSUME TypeOK, History, [Next]_vars PROVE History'
  OBVIOUS
<1>1. CASE CommitGroup
  BY <1>1, GroupHistory
<1>2. CASE \E c \in Clients : DirectCommit(c)
  BY <1>2, DirectHistory
<1>3. CASE \E k \in Keys : Relocate(k)
  BY <1>3, RelocateHistory
<1>4. CASE UNCHANGED <<commits, visible>>
  BY <1>4 DEF History, SeqnosContiguous, FirstCommitterWins
<1>5. CASE UNCHANGED vars
  BY <1>4, <1>5 DEF vars, storeVars
<1>6. CASE \E c \in Clients : Client(c)
  <2>1. ASSUME NEW c \in Clients, Client(c), ~DirectCommit(c)
        PROVE  UNCHANGED <<commits, visible>>
    BY <2>1 DEF Client, BeginTxn, Enqueue, TakeResult, Bail, Submit, storeVars
  <2> QED  BY <1>2, <1>4, <1>6, <2>1
<1>7. CASE Committer \/ CommitterPanics
  <2>1. ASSUME Committer \/ CommitterPanics, ~CommitGroup
        PROVE  UNCHANGED <<commits, visible>>
    BY <2>1 DEF Committer, Drain, ExitCommitter, Deliver, FormChunk, CommitterPanics, storeVars
  <2> QED  BY <1>1, <1>4, <1>7, <2>1
<1>8. CASE StartGc \/ EndGc \/ BackgroundFails \/ CloseDb
  <2>1. UNCHANGED <<commits, visible>>
    BY <1>8 DEF StartGc, EndGc, BackgroundFails, CloseDb, storeVars
  <2> QED  BY <1>4, <2>1
<1> QED  BY <1>3, <1>5, <1>6, <1>7, <1>8 DEF Next

\* The inductive invariant of the commit path holds in every reachable state.
LEMMA HistoryAlways == Spec => [](TypeOK /\ Shape /\ History)
  BY InitTypes, StepTypes, InitHistory, StepHistory, PTL DEF Spec

\* First committer wins: for any number of clients, any cut of the queue into
\* chunks, either sync mode, GC relocations in between, and every failure, no
\* transaction commits over a commit to one of its keys it has not seen.
THEOREM ConflictsDetected == Spec => []FirstCommitterWins
<1>1. History => FirstCommitterWins
  BY DEF History
<1> QED  BY <1>1, HistoryAlways, PTL

\* The committed batches carry the numbers 1 to visible without a gap or a
\* repetition, whichever append, sync or rotation of a group failed.
THEOREM NumbersContiguous == Spec => []SeqnosContiguous
<1>1. History => SeqnosContiguous
  BY DEF History
<1> QED  BY <1>1, HistoryAlways, PTL

-----------------------------------------------------------------------------
(* Sequences without repetition                                            *)

\* A new element at the back.
LEMMA AppendNew ==
  ASSUME NEW S, NEW s \in Seq(S), IsInjective(s), NEW e \in S, e \notin Range(s)
  PROVE  /\ IsInjective(Append(s, e))
         /\ Range(Append(s, e)) = Range(s) \cup {e}
<1> DEFINE t == Append(s, e)
<1>1. /\ Len(s) \in Nat /\ DOMAIN s = 1 .. Len(s) /\ DOMAIN t = 1 .. Len(s) + 1
      /\ \A i \in 1 .. Len(s) : t[i] = s[i]
      /\ t[Len(s) + 1] = e
  BY LenProperties, AppendProperties
<1> HIDE DEF t
<1>2. \A i \in DOMAIN t : (i \in DOMAIN s /\ t[i] = s[i]) \/ (i = Len(s) + 1 /\ t[i] = e)
  <2> SUFFICES ASSUME NEW i \in DOMAIN t
               PROVE  (i \in DOMAIN s /\ t[i] = s[i]) \/ (i = Len(s) + 1 /\ t[i] = e)
    OBVIOUS
  <2>1. i \in 1 .. Len(s) \/ i = Len(s) + 1
    BY <1>1
  <2> QED  BY <1>1, <2>1
<1>3. \A i \in DOMAIN s : i \in DOMAIN t /\ t[i] = s[i]
  BY <1>1
<1>4. Len(s) + 1 \in DOMAIN t
  BY <1>1
<1>5. IsInjective(t)
  BY <1>2 DEF IsInjective, Range
<1>6. Range(t) = Range(s) \cup {e}
  BY <1>1, <1>2, <1>3, <1>4 DEF Range
<1> QED  BY <1>5, <1>6 DEF t

\* The i-th element taken out.
LEMMA RemoveOne ==
  ASSUME NEW S, NEW s \in Seq(S), IsInjective(s), NEW i \in DOMAIN s
  PROVE  /\ IsInjective(RemoveAt(s, i))
         /\ Range(RemoveAt(s, i)) = Range(s) \ {s[i]}
<1> DEFINE t == RemoveAt(s, i)
<1>1. /\ Len(s) \in Nat /\ DOMAIN s = 1 .. Len(s) /\ DOMAIN t = 1 .. Len(s) - 1
      /\ \A j \in 1 .. Len(s) - 1 : t[j] = IF j < i THEN s[j] ELSE s[j + 1]
  <2>1. t \in Seq(S) /\ Len(t) = Len(s) - 1
    BY RemoveAtProperties
  <2>2. DOMAIN t = 1 .. Len(t)
    BY <2>1, LenProperties
  <2> QED  BY <2>1, <2>2, RemoveAtProperties, LenProperties
<1> HIDE DEF t
<1> DEFINE up(j) == IF j < i THEN j ELSE j + 1
<1>2. \A j \in DOMAIN t : up(j) \in DOMAIN s /\ up(j) # i /\ t[j] = s[up(j)]
  BY <1>1
<1>3. \A j, k \in DOMAIN t : up(j) = up(k) => j = k
  BY <1>1
<1>4. \A k \in DOMAIN s : k # i => \E j \in DOMAIN t : up(j) = k
  <2> SUFFICES ASSUME NEW k \in DOMAIN s, k # i PROVE \E j \in DOMAIN t : up(j) = k
    OBVIOUS
  <2>1. CASE k < i
    BY <2>1, <1>1
  <2>2. CASE i < k
    <3>1. k - 1 \in DOMAIN t /\ up(k - 1) = k
      BY <2>2, <1>1
    <3> QED  BY <3>1
  <2> QED  BY <2>1, <2>2, <1>1
<1> HIDE DEF up
<1>5. IsInjective(t)
  BY <1>2, <1>3 DEF IsInjective
<1>6. Range(t) = Range(s) \ {s[i]}
  <2>1. ASSUME NEW j \in DOMAIN t PROVE t[j] \in Range(s) \ {s[i]}
    BY <1>2 DEF IsInjective, Range
  <2>2. ASSUME NEW k \in DOMAIN s, s[k] # s[i] PROVE s[k] \in Range(t)
    <3>1. PICK j \in DOMAIN t : up(j) = k
      BY <1>4, <2>2
    <3>2. t[j] = s[k]
      BY <1>2, <3>1
    <3> QED  BY <3>2 DEF Range
  <2> QED  BY <2>1, <2>2 DEF Range
<1> QED  BY <1>5, <1>6 DEF t

\* The first n elements and the rest.
LEMMA SplitAt ==
  ASSUME NEW S, NEW s \in Seq(S), IsInjective(s), NEW n \in 1 .. Len(s)
  PROVE  LET a == SubSeq(s, 1, n)
             b == SubSeq(s, n + 1, Len(s))
         IN  /\ IsInjective(a) /\ IsInjective(b)
             /\ Range(a) \cap Range(b) = {} /\ Range(a) \cup Range(b) = Range(s)
<1> DEFINE a == SubSeq(s, 1, n)
           b == SubSeq(s, n + 1, Len(s))
<1>1. Len(s) \in Nat /\ DOMAIN s = 1 .. Len(s) /\ n \in 1 .. Len(s)
  BY LenProperties
<1>2. DOMAIN a = 1 .. n /\ \A i \in 1 .. n : a[i] = s[i]
  <2>1. a \in Seq(S) /\ Len(a) = n /\ \A i \in 1 .. n : a[i] = s[i]
    BY <1>1
  <2> QED  BY <2>1, LenProperties
<1>3. DOMAIN b = 1 .. Len(s) - n /\ \A i \in 1 .. Len(s) - n : b[i] = s[n + i]
  <2>1. n + 1 \in Int /\ Len(s) \in Int /\ \A i \in n + 1 .. Len(s) : s[i] \in S
    BY <1>1, ElementOfSeq
  <2>2. /\ b \in Seq(S) /\ Len(b) = IF n + 1 <= Len(s) THEN Len(s) - (n + 1) + 1 ELSE 0
        /\ \A i \in 1 .. Len(s) - (n + 1) + 1 : b[i] = s[n + 1 + i - 1]
    BY <2>1, SubSeqProperties
  <2> HIDE DEF b
  <2>3. /\ Len(s) - (n + 1) + 1 = Len(s) - n
        /\ n + 1 <= Len(s) \/ Len(s) - n = 0
        /\ \A i \in 1 .. Len(s) - n : n + 1 + i - 1 = n + i
    <3>1. n \in Nat /\ Len(s) \in Nat /\ n <= Len(s)
      BY <1>1
    <3>2. Len(s) - (n + 1) + 1 = Len(s) - n
      BY <3>1
    <3>3. n + 1 <= Len(s) \/ Len(s) - n = 0
      BY <3>1
    <3>4. ASSUME NEW i \in 1 .. Len(s) - n PROVE n + 1 + i - 1 = n + i
      BY <3>1
    <3> QED  BY <3>2, <3>3, <3>4
  <2>4. Len(b) = Len(s) - n
    <3>1. CASE n + 1 <= Len(s)
      BY <2>2, <2>3, <3>1
    <3>2. CASE ~(n + 1 <= Len(s))
      BY <2>2, <2>3, <3>2
    <3> QED  BY <3>1, <3>2
  <2>5. \A i \in 1 .. Len(s) - n : b[i] = s[n + i]
    BY <2>2, <2>3
  <2> QED  BY <2>2, <2>4, <2>5, LenProperties
<1> HIDE DEF a, b
<1>4. \A i \in DOMAIN a : i \in DOMAIN s /\ i <= n /\ a[i] = s[i]
  BY <1>1, <1>2
<1>5. \A i \in DOMAIN b : n + i \in DOMAIN s /\ i \in Nat \ {0} /\ b[i] = s[n + i]
  BY <1>1, <1>3
<1>6. IsInjective(a)
  BY <1>4 DEF IsInjective
<1>7. IsInjective(b)
  <2> SUFFICES ASSUME NEW i \in DOMAIN b, NEW j \in DOMAIN b, b[i] = b[j] PROVE i = j
    BY DEF IsInjective
  <2>1. n + i = n + j
    BY <1>5 DEF IsInjective
  <2> QED  BY <1>1, <1>3, <2>1
<1>8. Range(a) \cap Range(b) = {}
  <2> SUFFICES ASSUME NEW i \in DOMAIN a, NEW j \in DOMAIN b, a[i] = b[j] PROVE FALSE
    BY DEF Range
  <2>1. i = n + j
    BY <1>4, <1>5 DEF IsInjective
  <2> QED  BY <1>1, <1>4, <1>5, <2>1
<1>9. Range(a) \cup Range(b) = Range(s)
  <2>1. Range(a) \subseteq Range(s) /\ Range(b) \subseteq Range(s)
    BY <1>4, <1>5 DEF Range
  <2>2. ASSUME NEW i \in DOMAIN s PROVE s[i] \in Range(a) \cup Range(b)
    <3>1. CASE i <= n
      BY <3>1, <1>1, <1>2 DEF Range
    <3>2. CASE n < i
      <4>1. i - n \in DOMAIN b /\ b[i - n] = s[i]
        BY <3>2, <1>1, <1>3
      <4> QED  BY <4>1 DEF Range
    <3> QED  BY <3>1, <3>2, <1>1
  <2> QED  BY <2>1, <2>2 DEF Range
<1> QED  BY <1>6, <1>7, <1>8, <1>9 DEF a, b

\* The first element taken off.
LEMMA TakeHead ==
  ASSUME NEW S, NEW s \in Seq(S), IsInjective(s), s # <<>>
  PROVE  /\ IsInjective(Tail(s)) /\ Head(s) \in Range(s)
         /\ Range(Tail(s)) = Range(s) \ {Head(s)}
         /\ DOMAIN Tail(s) = 1 .. Len(s) - 1
         /\ \A i \in DOMAIN Tail(s) : i + 1 \in DOMAIN s /\ Tail(s)[i] = s[i + 1]
<1> DEFINE t == Tail(s)
<1>1. /\ Len(s) \in Nat /\ DOMAIN s = 1 .. Len(s) /\ Len(s) > 0
      /\ Head(s) = s[1] /\ DOMAIN t = 1 .. Len(s) - 1
      /\ \A i \in 1 .. Len(s) - 1 : t[i] = s[i + 1]
  <2>1. Len(s) \in Nat /\ DOMAIN s = 1 .. Len(s) /\ Len(s) > 0
    BY LenProperties, EmptySeq
  <2>2. t \in Seq(S) /\ Len(t) = Len(s) - 1 /\ \A i \in 1 .. Len(s) - 1 : t[i] = s[i + 1]
    BY <2>1
  <2> QED  BY <2>1, <2>2, LenProperties
<1> HIDE DEF t
<1>2. \A i \in DOMAIN t : i + 1 \in DOMAIN s /\ i + 1 # 1 /\ t[i] = s[i + 1]
  BY <1>1
<1>3. IsInjective(t)
  <2> SUFFICES ASSUME NEW i \in DOMAIN t, NEW j \in DOMAIN t, t[i] = t[j] PROVE i = j
    BY DEF IsInjective
  <2>1. i + 1 = j + 1
    BY <1>2 DEF IsInjective
  <2> QED  BY <1>1, <2>1
<1>4. 1 \in DOMAIN s
  BY <1>1
<1>5. Range(t) = Range(s) \ {s[1]}
  <2>1. ASSUME NEW i \in DOMAIN t PROVE t[i] \in Range(s) \ {s[1]}
    BY <1>2, <1>4 DEF IsInjective, Range
  <2>2. ASSUME NEW k \in DOMAIN s, s[k] # s[1] PROVE s[k] \in Range(t)
    <3>1. k - 1 \in DOMAIN t /\ t[k - 1] = s[k]
      BY <1>1, <2>2
    <3> QED  BY <3>1 DEF Range
  <2> QED  BY <2>1, <2>2 DEF Range
<1> QED  BY <1>1, <1>2, <1>3, <1>4, <1>5 DEF t, Range

-----------------------------------------------------------------------------
(* The inductive invariant                                                 *)

\* The clients whose waiter the queue or the committer holds.
Held == Range(queue) \cup Range(drained) \cup Range(group)

\* A waiter is in one place, once; its client is parked and has no result yet.
\* Waiters exist in Always mode only.
Places ==
    /\ IsInjective(queue) /\ IsInjective(drained) /\ IsInjective(group)
    /\ Range(queue) \cap Range(drained) = {} /\ Range(queue) \cap Range(group) = {}
    /\ Range(drained) \cap Range(group) = {}
    /\ \A c \in Held : pc[c] = "parked" /\ slot[c] = None
    /\ Held # {} => always

\* Clients whose batch nobody has tried to apply yet.
Undecided(c) ==
    \/ pc[c] \in {"idle", "open", "admitted"}
    \/ c \in Range(queue) \cup Range(drained)
    \/ cpc = "apply" /\ c \in Range(group)

\* Such a batch has left nothing in the WAL.
Untouched == \A b \in wal : b.owner \in Clients => ~Undecided(b.owner)

\* r, told to c, is what happened.
Truthful(c, r) ==
    /\ r = "ok" /\ req[c].writes # {} => CommittedBy(c)
    /\ r \in {"conflict", "io", "invalid", "closed"} => ~CommittedBy(c)
    /\ r = "background" /\ cpc # "dead" => ~CommittedBy(c)

\* Every answer on its way to a caller is true: the result of a chunk in
\* delivery, the result in a slot, and the value returned.
Answers ==
    /\ \A c \in Clients :
         /\ pc[c] # "parked" => slot[c] = None
         /\ pc[c] # "returned" => returned[c] = None
         /\ Truthful(c, slot[c]) /\ Truthful(c, returned[c])
    /\ cpc = "deliver" => \A i \in DOMAIN group : Truthful(group[i], results[i])

\* One record per request; and once a group has left records it did not
\* publish, the degraded store applies no request any more.
Records ==
    /\ \A a, b \in wal : a.owner = b.owner /\ a.owner # None => a = b
    /\ RequestNumbersUnique
    /\ (\E b \in wal \ commits : b.owner # None) => bgError /\ always /\ cpc # "apply"

Waiters == Places /\ Untouched /\ Answers /\ Records

\* What the steps below start from.
Before == TypeOK /\ Shape /\ History /\ Waiters

-----------------------------------------------------------------------------
(* Steps that append nothing                                               *)

\* A step that appends nothing to the WAL and keeps the requests of those that
\* were already answered keeps the truth of an answer.
LEMMA AnswerStands ==
  ASSUME commits \subseteq commits', NEW c, NEW r,
         CommittedBy(c)' => CommittedBy(c),
         req'[c].writes = req[c].writes, cpc = "dead" => cpc' = "dead",
         Truthful(c, r)
  PROVE  Truthful(c, r)'
<1>1. CommittedBy(c) => CommittedBy(c)'
  BY DEF CommittedBy
<1> QED  BY <1>1 DEF Truthful

\* The records part, for steps that append nothing, recover nothing and start
\* no chunk in a degraded store.
LEMMA RecordsStand ==
  ASSUME Records, UNCHANGED <<wal, commits, always>>, bgError => bgError',
         bgError /\ cpc # "apply" => cpc' # "apply"
  PROVE  Records'
BY DEF Records, RequestNumbersUnique

\* Db::begin and the part of a commit before the enqueue.
LEMMA BeginWaiters ==
  ASSUME Before, NEW c \in Clients, BeginTxn(c)
  PROVE  Waiters'
<1> USE DEF Before, Waiters
<1>1. /\ pc[c] = "idle" /\ pc' = [pc EXCEPT ![c] = "open"]
      /\ \A d \in Clients : d # c => req'[d] = req[d]
      /\ UNCHANGED <<slot, returned, queue, cpc, drained, group, results, wal, commits,
                     always, bgError>>
  BY DEF BeginTxn, TypeOK, storeVars, committerVars, engineVars
<1>2. Places'
  BY <1>1 DEF Places, Held, TypeOK
<1>3. Untouched'
  BY <1>1 DEF Untouched, Undecided, TypeOK
<1>4. Answers'
  <2>1. \A d \in Clients : pc'[d] = IF d = c THEN "open" ELSE pc[d]
    BY <1>1 DEF TypeOK
  <2>2. \A d \in Clients : d # c =>
          (\A r : Truthful(d, r) => Truthful(d, r)')
    BY <1>1 DEF Truthful, CommittedBy
  <2>3. slot'[c] = None /\ returned'[c] = None
    BY <1>1 DEF Answers
  <2>4. Truthful(c, None)'
    BY DEF Truthful, None
  <2>5. ASSUME cpc' = "deliver", NEW i \in DOMAIN group'
        PROVE  Truthful(group[i], results[i])'
    <3>1. group[i] \in Clients /\ pc[group[i]] = "parked"
      BY <1>1, <2>5 DEF Places, Held, TypeOK, Range
    <3> QED  BY <1>1, <2>2, <2>5, <3>1 DEF Answers
  <2> QED  BY <1>1, <2>1, <2>2, <2>3, <2>4, <2>5 DEF Answers
<1>5. Records'
  BY <1>1, RecordsStand
<1> QED  BY <1>2, <1>3, <1>4, <1>5

\* Txn::commit up to the enqueue: an empty or refused batch returns at once.
LEMMA SubmitWaiters ==
  ASSUME Before, NEW c \in Clients, NEW w \in SUBSET Keys, NEW l \in SUBSET Keys, Submit(c, w, l)
  PROVE  Waiters'
<1> USE DEF Before, Waiters
<1>1. /\ pc[c] \in {"idle", "open"}
      /\ \A d \in Clients : d # c => req'[d] = req[d]
      /\ req'[c].writes = w
      /\ UNCHANGED <<slot, queue, cpc, drained, group, results, wal, commits, always, bgError>>
  BY DEF Submit, TypeOK, storeVars, committerVars, engineVars
<1>2. PICK p \in {"admitted", "returned"}, r \in Outcome \cup {None} :
        /\ pc' = [pc EXCEPT ![c] = p] /\ returned' = [returned EXCEPT ![c] = r]
        /\ p = "admitted" => r = None
        /\ r \in {"ok", "background", "closed", None}
        /\ r = "ok" => w = {}
  <2>1. returned = [returned EXCEPT ![c] = None]
    <3>1. returned[c] = None
      BY <1>1 DEF Answers
    <3> QED  BY <3>1 DEF TypeOK
  <2> USE DEF Outcome, None
  <2>2. CASE w \cup l = {} /\ Return(c, "ok")
    <3> WITNESS "returned" \in {"admitted", "returned"}, "ok" \in Outcome \cup {None}
    <3> QED  BY <2>2 DEF Return
  <2>3. CASE Return(c, "background")
    <3> WITNESS "returned" \in {"admitted", "returned"}, "background" \in Outcome \cup {None}
    <3> QED  BY <2>3 DEF Return
  <2>4. CASE Return(c, "closed")
    <3> WITNESS "returned" \in {"admitted", "returned"}, "closed" \in Outcome \cup {None}
    <3> QED  BY <2>4 DEF Return
  <2>5. CASE pc' = [pc EXCEPT ![c] = "admitted"] /\ UNCHANGED returned
    <3> WITNESS "admitted" \in {"admitted", "returned"}, None \in Outcome \cup {None}
    <3> QED  BY <2>1, <2>5
  <2> QED  BY <2>2, <2>3, <2>4, <2>5 DEF Submit
<1>3. Undecided(c) /\ ~CommittedBy(c) /\ c \notin Held
  <2>1. Undecided(c)
    BY <1>1 DEF Undecided
  <2>2. c \notin Held
    BY <1>1 DEF Places
  <2> QED  BY <2>1, <2>2 DEF Untouched, CommittedBy, TypeOK
<1>4. Places'
  BY <1>1, <1>2, <1>3 DEF Places, Held, TypeOK
<1>5. Untouched'
  <2>1. \A d \in Clients : Undecided(d)' => Undecided(d)
    BY <1>1, <1>2, <1>3 DEF Undecided, TypeOK
  <2> QED  BY <1>1, <2>1 DEF Untouched
<1>6. Answers'
  <2>1. /\ \A d \in Clients : pc'[d] = IF d = c THEN p ELSE pc[d]
        /\ \A d \in Clients : returned'[d] = IF d = c THEN r ELSE returned[d]
    BY <1>2 DEF TypeOK
  <2>2. \A d \in Clients : d # c => (\A x : Truthful(d, x) => Truthful(d, x)')
    BY <1>1 DEF Truthful, CommittedBy
  <2>3. slot'[c] = None
    BY <1>1 DEF Answers
  <2>4. Truthful(c, None)' /\ Truthful(c, r)'
    <3>1. ~CommittedBy(c)'
      BY <1>1, <1>3 DEF CommittedBy
    <3> QED  BY <1>1, <1>2, <3>1 DEF Truthful, None
  <2>5. ASSUME cpc' = "deliver", NEW i \in DOMAIN group'
        PROVE  Truthful(group[i], results[i])'
    <3>1. group[i] \in Clients /\ group[i] # c
      BY <1>1, <1>3, <2>5 DEF Held, TypeOK, Range
    <3> QED  BY <1>1, <2>2, <2>5, <3>1 DEF Answers
  <2> QED  BY <1>1, <1>2, <2>1, <2>2, <2>3, <2>4, <2>5 DEF Answers
<1>7. Records'
  BY <1>1, RecordsStand
<1> QED  BY <1>4, <1>5, <1>6, <1>7

\* Steps that leave requests, WAL and history alone and make no decided client
\* undecided keep Untouched, and every answer stands.
LEMMA QuietStep ==
  ASSUME Before, UNCHANGED <<req, wal, commits, always>>,
         cpc = "dead" => cpc' = "dead", bgError => bgError',
         bgError /\ cpc # "apply" => cpc' # "apply",
         \A c \in Clients : Undecided(c)' => Undecided(c)
  PROVE  /\ Untouched' /\ Records'
         /\ \A c, r : Truthful(c, r) => Truthful(c, r)'
<1>1. Untouched'
  BY DEF Before, Waiters, Untouched
<1>2. Records'
  BY RecordsStand DEF Before, Waiters
<1>3. \A c, r : Truthful(c, r) => Truthful(c, r)'
  BY DEF Truthful, CommittedBy
<1> QED  BY <1>1, <1>2, <1>3

\* queue_commit, the answer taken from the slot, and the waiter pulled back.
LEMMA CallWaiters ==
  ASSUME Before, NEW c \in Clients, Enqueue(c) \/ TakeResult(c) \/ Bail(c)
  PROVE  Waiters'
<1> USE DEF Before, Waiters
<1>1. CASE Enqueue(c)
  <2>1. /\ always /\ pc[c] = "admitted" /\ pc' = [pc EXCEPT ![c] = "parked"]
        /\ queue' = Append(queue, c)
        /\ UNCHANGED <<req, returned, slot, cpc, drained, group, results, wal, commits,
                       always, bgError>>
    BY <1>1 DEF Enqueue, storeVars, committerVars, engineVars
  <2>2. c \notin Held
    BY <2>1 DEF Places
  <2>3. IsInjective(queue') /\ Range(queue') = Range(queue) \cup {c}
    BY <2>1, <2>2, AppendNew DEF TypeOK, Held, Places
  <2>4. \A d \in Clients : pc'[d] = IF d = c THEN "parked" ELSE pc[d]
    BY <2>1 DEF TypeOK
  <2>5. slot[c] = None
    BY <2>1 DEF Answers
  <2>5a. Held \subseteq Clients
    BY DEF Held, Range, TypeOK
  <2>6. Places'
    BY <2>1, <2>2, <2>3, <2>4, <2>5, <2>5a DEF Places, Held
  <2>7. \A d \in Clients : Undecided(d)' => Undecided(d)
    BY <2>1, <2>3, <2>4 DEF Undecided
  <2>8. /\ Untouched' /\ Records'
        /\ \A d, r : Truthful(d, r) => Truthful(d, r)'
    BY <2>1, <2>7, QuietStep
  <2>9. Answers'
    BY <2>1, <2>4, <2>5, <2>8 DEF Answers
  <2> QED  BY <2>6, <2>8, <2>9
<1>2. CASE TakeResult(c)
  <2>1. /\ pc[c] = "parked" /\ slot[c] # None
        /\ pc' = [pc EXCEPT ![c] = "returned"]
        /\ returned' = [returned EXCEPT ![c] = slot[c]]
        /\ slot' = [slot EXCEPT ![c] = None]
        /\ UNCHANGED <<req, queue, cpc, drained, group, results, wal, commits, always, bgError>>
    BY <1>2 DEF TakeResult, Return, storeVars, committerVars, engineVars
  <2>2. c \notin Held
    BY <2>1 DEF Places
  <2>3. /\ \A d \in Clients : pc'[d] = IF d = c THEN "returned" ELSE pc[d]
        /\ \A d \in Clients : returned'[d] = IF d = c THEN slot[c] ELSE returned[d]
        /\ \A d \in Clients : slot'[d] = IF d = c THEN None ELSE slot[d]
    BY <2>1 DEF TypeOK
  <2>4. Held \subseteq Clients
    BY DEF Held, Range, TypeOK
  <2>5. Places'
    BY <2>1, <2>2, <2>3, <2>4 DEF Places, Held
  <2>6. \A d \in Clients : Undecided(d)' => Undecided(d)
    BY <2>1, <2>3 DEF Undecided
  <2>7. /\ Untouched' /\ Records'
        /\ \A d, r : Truthful(d, r) => Truthful(d, r)'
    BY <2>1, <2>6, QuietStep
  <2>8. Truthful(c, None)'
    BY DEF Truthful, None
  <2>9. Answers'
    BY <2>1, <2>3, <2>7, <2>8 DEF Answers
  <2> QED  BY <2>5, <2>7, <2>9
<1>3. CASE Bail(c)
  <2>1. PICK i \in DOMAIN queue : queue[i] = c /\ queue' = RemoveAt(queue, i)
    BY <1>3 DEF Bail
  <2>2. PICK r \in {"background", "closed"} :
          /\ pc' = [pc EXCEPT ![c] = "returned"] /\ returned' = [returned EXCEPT ![c] = r]
    BY <1>3 DEF Bail, Return
  <2>3. /\ pc[c] = "parked" /\ slot[c] = None
        /\ UNCHANGED <<req, slot, cpc, drained, group, results, wal, commits, always, bgError>>
    BY <1>3 DEF Bail, storeVars, committerVars, engineVars
  <2>4. IsInjective(queue') /\ Range(queue') = Range(queue) \ {c}
    BY <2>1, RemoveOne DEF TypeOK, Places
  <2>5. c \in Range(queue)
    BY <2>1 DEF Range
  <2>6. /\ \A d \in Clients : pc'[d] = IF d = c THEN "returned" ELSE pc[d]
        /\ \A d \in Clients : returned'[d] = IF d = c THEN r ELSE returned[d]
    BY <2>2 DEF TypeOK
  <2>7. Held \subseteq Clients
    BY DEF Held, Range, TypeOK
  <2>8. Places'
    BY <2>3, <2>4, <2>5, <2>6, <2>7 DEF Places, Held
  <2>9. \A d \in Clients : Undecided(d)' => Undecided(d)
    BY <2>3, <2>4, <2>6 DEF Undecided
  <2>10. /\ Untouched' /\ Records'
         /\ \A d, x : Truthful(d, x) => Truthful(d, x)'
    BY <2>3, <2>9, QuietStep
  <2>11. Truthful(c, r)'
    <3>1. ~CommittedBy(c)
      BY <2>5 DEF Untouched, Undecided, CommittedBy, TypeOK
    <3>2. ~CommittedBy(c)'
      BY <2>3, <3>1 DEF CommittedBy
    <3> QED  BY <3>2 DEF Truthful
  <2>12. Answers'
    BY <2>3, <2>6, <2>10, <2>11 DEF Answers
  <2> QED  BY <2>8, <2>10, <2>12
<1> QED  BY <1>1, <1>2, <1>3

\* The drain of the queue and the end of the committer.
LEMMA DrainWaiters ==
  ASSUME Before, Drain \/ ExitCommitter
  PROVE  Waiters'
<1> USE DEF Before, Waiters
<1>1. CASE Drain
  <2>1. /\ cpc = "drain" /\ cpc' = "chunk" /\ drained' = queue /\ queue' = <<>>
        /\ UNCHANGED <<req, pc, returned, slot, group, results, wal, commits, always, bgError>>
    BY <1>1 DEF Drain, clientVars, storeVars, engineVars
  <2>2. drained = <<>>
    BY <2>1 DEF Shape
  <2>3. Range(<<>>) = {} /\ IsInjective(<<>>)
    BY DEF Range, IsInjective
  <2>4. Places'
    BY <2>1, <2>2, <2>3 DEF Places, Held
  <2>5. \A d \in Clients : Undecided(d)' => Undecided(d)
    BY <2>1, <2>2, <2>3 DEF Undecided
  <2>6. /\ Untouched' /\ Records'
        /\ \A d, r : Truthful(d, r) => Truthful(d, r)'
    BY <2>1, <2>5, QuietStep
  <2>7. Answers'
    BY <2>1, <2>6 DEF Answers
  <2> QED  BY <2>4, <2>6, <2>7
<1>2. CASE ExitCommitter
  <2>1. /\ cpc = "drain" /\ cpc' = "exited"
        /\ UNCHANGED <<req, pc, returned, slot, queue, drained, group, results, wal, commits,
                       always, bgError>>
    BY <1>2 DEF ExitCommitter, clientVars, storeVars, engineVars
  <2>2. Places'
    BY <2>1 DEF Places, Held
  <2>3. \A d \in Clients : Undecided(d)' => Undecided(d)
    BY <2>1 DEF Undecided
  <2>4. /\ Untouched' /\ Records'
        /\ \A d, r : Truthful(d, r) => Truthful(d, r)'
    BY <2>1, <2>3, QuietStep
  <2>5. Answers'
    BY <2>1, <2>4 DEF Answers
  <2> QED  BY <2>2, <2>4, <2>5
<1> QED  BY <1>1, <1>2

\* The next chunk: refused with a true answer, since nothing was tried, or
\* taken in hand as a whole.
LEMMA ChunkWaiters ==
  ASSUME Before, NEW n \in 1 .. Len(drained), FormChunk(n)
  PROVE  Waiters'
<1> USE DEF Before, Waiters
<1>1. /\ cpc = "chunk" /\ drained' = RestAfter(n)
      /\ UNCHANGED <<req, pc, returned, queue, results, wal, commits, always, bgError>>
  BY DEF FormChunk, clientVars, storeVars, engineVars
<1> DEFINE chunk == Range(Chunk(n))
<1>2. /\ IsInjective(Chunk(n)) /\ IsInjective(drained')
      /\ chunk \cap Range(drained') = {}
      /\ chunk \cup Range(drained') = Range(drained)
  BY <1>1, SplitAt DEF Places, TypeOK, Chunk, RestAfter
<1>3. group = <<>> /\ Range(<<>>) = {}
  BY <1>1 DEF Shape, Range
<1>4. Range(group) = {}
  BY <1>3
<1>5. Held \subseteq Clients
  BY DEF Held, Range, TypeOK
<1>6. CASE bgError
  <2>1. /\ slot' = [c \in Clients |-> IF c \in chunk THEN "background" ELSE slot[c]]
        /\ cpc' \in {"drain", "chunk"} /\ UNCHANGED group
    BY <1>6 DEF FormChunk
  <2>2. \A c \in Clients : slot'[c] = IF c \in chunk THEN "background" ELSE slot[c]
    BY <2>1
  <2> HIDE DEF chunk
  <2>3. Places'
    BY <1>1, <1>2, <1>4, <1>5, <2>1, <2>2 DEF Places, Held
  <2>4. \A d \in Clients : Undecided(d)' => Undecided(d)
    BY <1>1, <1>2, <1>4, <2>1 DEF Undecided
  <2>5. /\ Untouched' /\ Records'
        /\ \A d, r : Truthful(d, r) => Truthful(d, r)'
    BY <1>1, <2>1, <2>4, QuietStep
  <2>6. ASSUME NEW c \in Clients, c \in chunk
        PROVE  Truthful(c, "background")' /\ pc'[c] = "parked"
    <3>1. c \in Range(drained)
      BY <1>2, <2>6
    <3>2. ~CommittedBy(c)
      BY <3>1 DEF Untouched, Undecided, CommittedBy, TypeOK
    <3>3. ~CommittedBy(c)'
      BY <1>1, <3>2 DEF CommittedBy
    <3> QED  BY <1>1, <3>1, <3>3 DEF Truthful, Places, Held
  <2>7. Answers'
    BY <1>1, <2>1, <2>2, <2>5, <2>6 DEF Answers
  <2> QED  BY <2>3, <2>5, <2>7
<1>7. CASE ~bgError
  <2>1. group' = Chunk(n) /\ cpc' = "apply" /\ UNCHANGED slot
    BY <1>7 DEF FormChunk
  <2>2. Range(group') = chunk
    BY <2>1
  <2> HIDE DEF chunk
  <2>3. Places'
    BY <1>1, <1>2, <1>4, <2>1, <2>2 DEF Places, Held
  <2>4. \A d \in Clients : Undecided(d)' => Undecided(d)
    BY <1>1, <1>2, <2>1, <2>2 DEF Undecided
  <2>5. /\ Untouched' /\ Records'
        /\ \A d, r : Truthful(d, r) => Truthful(d, r)'
    BY <1>1, <1>7, <2>1, <2>4, QuietStep
  <2>6. Answers'
    BY <1>1, <2>1, <2>5 DEF Answers
  <2> QED  BY <2>3, <2>5, <2>6
<1> QED  BY <1>6, <1>7

\* One result put into its slot.
LEMMA DeliverWaiters ==
  ASSUME Before, Deliver
  PROVE  Waiters'
<1> USE DEF Before, Waiters
<1> DEFINE c == Head(group)
           r == Head(results)
<1>1. /\ cpc = "deliver" /\ slot' = [slot EXCEPT ![c] = r]
      /\ group' = Tail(group) /\ results' = Tail(results)
      /\ cpc' \in {"deliver", "chunk", "drain"}
      /\ UNCHANGED <<req, pc, returned, queue, drained, wal, commits, always, bgError>>
  BY DEF Deliver, clientVars, storeVars, engineVars
<1>2. group # <<>> /\ results # <<>> /\ Len(results) = Len(group)
  BY <1>1, EmptySeq DEF Shape, TypeOK
<1>3. /\ IsInjective(group') /\ c \in Range(group) /\ Range(group') = Range(group) \ {c}
      /\ DOMAIN group' = 1 .. Len(group) - 1
      /\ \A i \in DOMAIN group' : i + 1 \in DOMAIN group /\ group'[i] = group[i + 1]
  BY <1>1, <1>2, TakeHead DEF TypeOK, Places
<1>4. \A i \in DOMAIN group' : results'[i] = results[i + 1]
  <2>1. Len(results') = Len(results) - 1 /\ \A i \in 1 .. Len(results') : results'[i] = results[i + 1]
    BY <1>1, <1>2, HeadTailProperties DEF TypeOK
  <2> QED  BY <1>2, <1>3, <2>1
<1>5. Truthful(c, r) /\ c \in Clients /\ pc[c] = "parked"
  <2>1. 1 \in DOMAIN group
    BY <1>2, LenProperties, EmptySeq DEF TypeOK
  <2>2. c = group[1] /\ r = results[1]
    BY <1>2 DEF TypeOK
  <2>3. c \in Clients
    BY <2>1, <2>2 DEF TypeOK
  <2> QED  BY <1>1, <1>3, <2>1, <2>2, <2>3 DEF Answers, Places, Held
<1> HIDE DEF c, r
<1>6. \A d \in Clients : slot'[d] = IF d = c THEN r ELSE slot[d]
  BY <1>1, <1>5 DEF TypeOK
<1>7. Held \subseteq Clients
  BY DEF Held, Range, TypeOK
<1>8. Places'
  BY <1>1, <1>3, <1>6, <1>7 DEF Places, Held
<1>9. \A d \in Clients : Undecided(d)' => Undecided(d)
  BY <1>1 DEF Undecided
<1>10. /\ Untouched' /\ Records'
       /\ \A d, x : Truthful(d, x) => Truthful(d, x)'
  BY <1>1, <1>9, QuietStep
<1>11. \A i \in DOMAIN group' : Truthful(group'[i], results'[i])
  BY <1>1, <1>3, <1>4 DEF Answers
<1>12. \A i \in DOMAIN group' : Truthful(group[i], results[i])'
  BY <1>10, <1>11
<1>13. Answers'
  BY <1>1, <1>5, <1>6, <1>10, <1>12 DEF Answers
<1> QED  BY <1>8, <1>10, <1>13

\* GroupPanicGuard.
LEMMA PanicWaiters ==
  ASSUME Before, CommitterPanics
  PROVE  Waiters'
<1> USE DEF Before, Waiters
<1>1. /\ cpc \in {"apply", "deliver"} /\ cpc' = "dead" /\ bgError' = TRUE
      /\ slot' = [c \in Clients |-> IF c \in Range(group) THEN "background" ELSE slot[c]]
      /\ group' = <<>>
      /\ UNCHANGED <<req, pc, returned, queue, drained, wal, commits, always>>
  BY DEF CommitterPanics, clientVars, storeVars, engineVars
<1>2. \A c \in Clients : slot'[c] = IF c \in Range(group) THEN "background" ELSE slot[c]
  BY <1>1
<1>3. Range(<<>>) = {} /\ IsInjective(<<>>)
  BY DEF Range, IsInjective
<1>4. Held \subseteq Clients
  BY DEF Held, Range, TypeOK
<1>5. Places'
  BY <1>1, <1>2, <1>3, <1>4 DEF Places, Held
<1>6. \A d \in Clients : Undecided(d)' => Undecided(d)
  BY <1>1 DEF Undecided
<1>7. /\ Untouched' /\ Records'
      /\ \A d, r : Truthful(d, r) => Truthful(d, r)'
  BY <1>1, <1>6, QuietStep
<1>8. \A c \in Range(group) : Truthful(c, "background")' /\ pc'[c] = "parked"
  BY <1>1 DEF Truthful, Places, Held
<1>9. Answers'
  BY <1>1, <1>2, <1>7, <1>8 DEF Answers
<1> QED  BY <1>5, <1>7, <1>9

\* GC's start and end, a background failure, the database closed.
LEMMA EnvironmentWaiters ==
  ASSUME Before, StartGc \/ EndGc \/ BackgroundFails \/ CloseDb \/ UNCHANGED vars
  PROVE  Waiters'
<1> USE DEF Before, Waiters
<1>1. /\ bgError => bgError'
      /\ UNCHANGED <<req, pc, returned, slot, queue, cpc, drained, group, results, wal, commits,
                     always>>
  BY DEF StartGc, EndGc, BackgroundFails, CloseDb, vars, clientVars, committerVars, storeVars,
         engineVars
<1>2. Places'
  BY <1>1 DEF Places, Held
<1>3. \A d \in Clients : Undecided(d)' => Undecided(d)
  BY <1>1 DEF Undecided
<1>4. /\ Untouched' /\ Records'
      /\ \A d, r : Truthful(d, r) => Truthful(d, r)'
  BY <1>1, <1>3, QuietStep
<1>5. Answers'
  BY <1>1, <1>4 DEF Answers
<1> QED  BY <1>2, <1>4, <1>5

-----------------------------------------------------------------------------
(* Steps that append                                                       *)

\* A relocation is nobody's request.
LEMMA RelocateWaiters ==
  ASSUME Before, NEW k \in Keys, Relocate(k)
  PROVE  Waiters'
<1> USE DEF Before, Waiters
<1> DEFINE n == Relocation(k)
<1>1. /\ bgError => bgError'
      /\ wal \subseteq wal' /\ wal' \subseteq wal \cup {n}
      /\ commits \subseteq commits' /\ commits' \subseteq commits \cup {n}
      /\ UNCHANGED <<req, pc, returned, slot, queue, cpc, drained, group, results, always>>
  BY DEF Relocate, clientVars, committerVars, storeVars
<1>2. n.owner = None /\ None \notin Clients
  BY CommitAssumption DEF Relocation, None
<1> HIDE DEF n
<1>3. Places'
  BY <1>1 DEF Places, Held
<1>4. Untouched'
  BY <1>1, <1>2 DEF Untouched, Undecided
<1>5. \A d \in Clients : \A r : Truthful(d, r) => Truthful(d, r)'
  BY <1>1, <1>2 DEF Truthful, CommittedBy
<1>6. \A i \in DOMAIN group : group[i] \in Clients
  BY DEF TypeOK
<1>7. Answers'
  BY <1>1, <1>5, <1>6 DEF Answers
<1>8. Records'
  BY <1>1, <1>2 DEF Records, RequestNumbersUnique
<1> QED  BY <1>3, <1>4, <1>7, <1>8

\* The batches of requests that were published carry numbers up to visible,
\* and unless the store is degraded those are all there are.
LEMMA NumbersTaken ==
  ASSUME Before, ~always \/ cpc = "apply", NEW b \in wal, b.owner # None
  PROVE  b \in commits /\ b.seq \in 1 .. visible
<1>1. b \in commits
  BY DEF Before, Waiters, Records
<1> QED  BY <1>1 DEF Before, History, SeqnosContiguous

\* The relaxed modes: the caller applies its own batch.
LEMMA DirectWaiters ==
  ASSUME Before, NEW c \in Clients, DirectCommit(c)
  PROVE  Waiters'
<1> USE DEF Before, Waiters
<1> DEFINE n == Batch(c, visible + 1)
<1>1. /\ ~always /\ pc[c] = "admitted"
      /\ UNCHANGED <<req, slot, queue, cpc, drained, group, results, always>>
  BY DEF DirectCommit, committerVars, engineVars
<1>2. bgError => bgError'
  BY DEF DirectCommit
<1>3. PICK r \in {"conflict", "ok", "io", "invalid"} :
        /\ Return(c, r)
        /\ \/ UNCHANGED storeVars /\ (r = "ok" => req[c].writes = {})
           \/ r = "ok" /\ wal' = wal \cup {n} /\ commits' = commits \cup {n}
  BY DEF DirectCommit
<1>4. n.owner = c /\ n.seq = visible + 1 /\ visible \in Nat /\ c # None
  BY CommitAssumption DEF Batch, TypeOK, None
<1> HIDE DEF n
<1>5. /\ \A d \in Clients : pc'[d] = IF d = c THEN "returned" ELSE pc[d]
      /\ \A d \in Clients : returned'[d] = IF d = c THEN r ELSE returned[d]
  BY <1>3 DEF Return, TypeOK
<1>6. /\ wal \subseteq wal' /\ wal' \subseteq wal \cup {n}
      /\ commits \subseteq commits' /\ commits' \subseteq commits \cup {n}
  BY <1>3 DEF storeVars
<1>7. Held = {} /\ Held' = {}
  BY <1>1 DEF Places, Held
<1>8. slot[c] = None /\ \A b \in wal : b.owner # c
  BY <1>1 DEF Answers, Untouched, Undecided, TypeOK
<1>9. Places'
  BY <1>1, <1>7 DEF Places, Held
<1>10. Untouched'
  BY <1>4, <1>5, <1>6, <1>7, <1>1 DEF Untouched, Undecided, Held
<1>11. \A d \in Clients : \A x : d # c /\ Truthful(d, x) => Truthful(d, x)'
  BY <1>1, <1>4, <1>6 DEF Truthful, CommittedBy
<1>12. Truthful(c, r)' /\ Truthful(c, None)'
  <2>1. Truthful(c, None)'
    BY DEF Truthful, None
  <2>2. CASE UNCHANGED storeVars /\ (r = "ok" => req[c].writes = {})
    <3>1. ~CommittedBy(c)'
      BY <1>8, <2>2 DEF CommittedBy, storeVars, TypeOK
    <3> QED  BY <1>1, <2>1, <2>2, <3>1 DEF Truthful
  <2>3. CASE r = "ok" /\ commits' = commits \cup {n}
    <3>1. CommittedBy(c)'
      BY <1>4, <2>3 DEF CommittedBy
    <3> QED  BY <2>1, <2>3, <3>1 DEF Truthful
  <2> QED  BY <1>3, <2>2, <2>3
<1>13. Answers'
  <2>1. ASSUME cpc' = "deliver" PROVE FALSE
    <3>1. group # <<>>
      BY <1>1, <2>1 DEF Shape
    <3>2. 1 \in DOMAIN group
      BY <3>1, LenProperties, EmptySeq DEF TypeOK
    <3> QED  BY <1>7, <3>2 DEF Held, Range
  <2> QED  BY <1>1, <1>5, <1>8, <1>11, <1>12, <2>1 DEF Answers
<1>14. Records'
  <2>1. \A b \in wal : b.owner # None => b \in commits /\ b.seq # n.seq
    BY <1>1, <1>4, NumbersTaken
  <2>2. \A b \in wal' \ commits' : b.owner = None
    BY <1>3, <1>6, <2>1 DEF storeVars
  <2>3. RequestNumbersUnique'
    BY <1>6, <2>1 DEF Records, RequestNumbersUnique
  <2>4. \A a, b \in wal' : a.owner = b.owner /\ a.owner # None => a = b
    BY <1>4, <1>6, <1>8 DEF Records
  <2> QED  BY <2>2, <2>3, <2>4 DEF Records
<1> QED  BY <1>9, <1>10, <1>13, <1>14

\* A chunk: what its members are told is what the WAL and the history got.
LEMMA GroupWaiters ==
  ASSUME Before, CommitGroup
  PROVE  Waiters'
<1> USE DEF Before, Waiters
<1>1. /\ cpc = "apply" /\ cpc' = "deliver"
      /\ UNCHANGED <<req, pc, returned, slot, queue, drained, group, always>>
  BY DEF CommitGroup, clientVars, engineVars
<1>2. PICK unread \in Unread(group), passed \in SUBSET DOMAIN group :
        /\ Passes(group, passed, unread)
        /\ \E o \in GroupOutcome(Cardinality(Accepted(group, passed))) :
             ApplyGroup(group, passed, unread, o)
  BY DEF CommitGroup
<1>3. PICK o \in GroupOutcome(Cardinality(Accepted(group, passed))) :
        ApplyGroup(group, passed, unread, o)
  BY <1>2
<1> DEFINE accepted == Accepted(group, passed)
           appended == Applied(accepted, o.cut)
           applied  == IF o.synced THEN appended ELSE {}
           numbered(i) == Batch(group[i], visible + Rank(accepted, i))
<1>4. /\ visible \in 0 .. MaxSeq /\ group \in Seq(Clients)
      /\ visible \in Nat /\ \A i \in DOMAIN group : group[i] \in Clients
  BY CommitAssumption DEF TypeOK
<1>5. /\ accepted \subseteq DOMAIN group /\ IsFiniteSet(accepted) /\ accepted \subseteq Int
      /\ o.cut \in 0 .. Cardinality(accepted) /\ o.synced \in BOOLEAN
      /\ Cardinality(accepted) \in Nat
      /\ \A i \in appended : i \in accepted /\ Rank(accepted, i) \in 1 .. o.cut
  BY <1>4, GroupNumbers
<1>6. accepted \subseteq ToWrite(group, passed) /\ ToWrite(group, passed) \subseteq passed
  BY DEF Accepted, Fitting, ToWrite
<1>7. /\ wal' = wal \cup {numbered(i) : i \in appended}
      /\ commits' = commits \cup {numbered(i) : i \in applied}
      /\ results' = [i \in DOMAIN group |->
           CASE i \in unread -> "io"
             [] i \notin passed \cup unread -> "conflict"
             [] i \in passed \ ToWrite(group, passed) -> "ok"
             [] i \in ToWrite(group, passed) \ accepted -> "invalid"
             [] OTHER -> IF i \in applied THEN "ok" ELSE "io"]
      /\ bgError' = (bgError \/ o.cut < Cardinality(accepted)
                       \/ (o.cut > 0 /\ ~(o.synced /\ o.rotated)))
  BY <1>3 DEF ApplyGroup
<1>8. passed \cap unread = {}
  BY <1>2 DEF Passes
<1>9. applied \subseteq appended /\ appended \subseteq DOMAIN group
  BY <1>5
<1>10. \A i \in appended : numbered(i).owner = group[i] /\ numbered(i).seq = visible + Rank(accepted, i)
  <2> HIDE DEF appended, accepted
  <2> QED  BY DEF Batch
<1>11. \A i, j \in appended : numbered(i).seq = numbered(j).seq => i = j
  <2> SUFFICES ASSUME NEW i \in appended, NEW j \in appended,
                      numbered(i).seq = numbered(j).seq, i # j
               PROVE  FALSE
    OBVIOUS
  <2>1. i \in accepted /\ j \in accepted /\ Rank(accepted, i) \in Nat /\ Rank(accepted, j) \in Nat
    BY <1>5
  <2>2. visible + Rank(accepted, i) = visible + Rank(accepted, j)
    BY <1>10
  <2> HIDE DEF accepted, appended, numbered
  <2>3. Rank(accepted, i) = Rank(accepted, j)
    BY <1>4, <2>1, <2>2
  <2>4. i < j \/ j < i
    BY <1>5, <2>1
  <2> QED  BY <1>5, <2>1, <2>3, <2>4, RankIncreases
<1> HIDE DEF numbered, appended, accepted
<1>12. \A i \in DOMAIN group : \A b \in wal : b.owner # group[i]
  <2>1. \A i \in DOMAIN group : Undecided(group[i])
    BY <1>1 DEF Undecided, Range
  <2> QED  BY <1>4, <2>1 DEF Untouched
<1>13. \A i \in DOMAIN group : CommittedBy(group[i])' <=> i \in applied
  <2>1. \A i, j \in DOMAIN group : group[i] = group[j] => i = j
    BY DEF Places, IsInjective
  <2>2. \A i \in DOMAIN group : \A b \in commits : b.owner # group[i]
    BY <1>12 DEF TypeOK
  <2> HIDE DEF applied
  <2>3. ASSUME NEW i \in DOMAIN group, i \in applied PROVE \E b \in commits' : b.owner = group[i]
    BY <1>7, <1>9, <1>10, <2>3
  <2>4. ASSUME NEW i \in DOMAIN group, NEW b \in commits', b.owner = group[i] PROVE i \in applied
    <3>1. PICK j \in applied : b = numbered(j)
      BY <1>7, <2>2, <2>4
    <3> QED  BY <1>9, <1>10, <2>1, <2>4, <3>1
  <2> QED  BY <1>1, <2>3, <2>4 DEF CommittedBy
<1>14. \A i \in DOMAIN group : Truthful(group[i], results[i])'
  <2> SUFFICES ASSUME NEW i \in DOMAIN group PROVE Truthful(group[i], results[i])'
    OBVIOUS
  <2>1. results'[i] \in {"ok", "conflict", "io", "invalid"}
    BY <1>7
  <2>2. results'[i] = "ok" /\ req[group[i]].writes # {} => i \in applied
    <3> SUFFICES ASSUME results'[i] = "ok", req[group[i]].writes # {} PROVE i \in applied
      OBVIOUS
    <3>1. i \in ToWrite(group, passed) \/ i \notin passed
      BY DEF ToWrite
    <3> HIDE DEF applied
    <3> QED  BY <1>7, <3>1
  <2>3. i \in applied => results'[i] = "ok"
    <3> SUFFICES ASSUME i \in applied PROVE results'[i] = "ok"
      OBVIOUS
    <3>1. i \in accepted /\ i \in ToWrite(group, passed) /\ i \in passed /\ i \notin unread
      BY <1>5, <1>6, <1>8, <1>9
    <3> HIDE DEF applied
    <3> QED  BY <1>7, <3>1
  <2>4. CommittedBy(group[i])' <=> results'[i] = "ok" /\ req[group[i]].writes # {}
    <3>1. i \in applied => req[group[i]].writes # {}
      BY <1>5, <1>6, <1>9 DEF ToWrite
    <3> HIDE DEF applied
    <3> QED  BY <1>13, <2>2, <2>3, <3>1
  <2> HIDE DEF applied
  <2> QED  BY <1>1, <2>1, <2>4 DEF Truthful
<1>15. \A d \in Clients : d \notin Range(group) => (\A r : Truthful(d, r) => Truthful(d, r)')
  <2>1. \A d \in Clients : d \notin Range(group) => (CommittedBy(d)' <=> CommittedBy(d))
    <3> HIDE DEF applied
    <3> QED  BY <1>7, <1>9, <1>10 DEF CommittedBy, Range
  <2> QED  BY <1>1, <2>1 DEF Truthful
<1>16. Answers'
  <2>1. \A d \in Clients : d \in Range(group) => slot[d] = None /\ returned[d] = None
    BY DEF Places, Held, Answers
  <2>2. \A d \in Clients : Truthful(d, None)'
    BY DEF Truthful, None
  <2>3. \A d \in Clients : Truthful(d, slot[d])' /\ Truthful(d, returned[d])'
    BY <1>1, <1>15, <2>1, <2>2 DEF Answers
  <2> QED  BY <1>1, <1>14, <2>3 DEF Answers
<1>17. Places'
  BY <1>1 DEF Places, Held
<1>18. Untouched'
  <2>1. \A d \in Clients : Undecided(d)' => Undecided(d) /\ d \notin Range(group)
    BY <1>1 DEF Undecided, Places, Held
  <2> QED  BY <1>7, <1>9, <1>10, <2>1 DEF Untouched, Range
<1>19. Records'
  <2>1. \A b \in wal : b.owner # None => b \in commits /\ b.seq \in 1 .. visible
    BY <1>1, NumbersTaken
  <2>2. \A i \in appended : numbered(i).seq > visible
    BY <1>4, <1>5, <1>10
  <2>3. RequestNumbersUnique'
    <3> SUFFICES ASSUME NEW a \in wal', NEW b \in wal', a.seq = b.seq, a.owner # None, b.owner # None
                 PROVE  a = b
      BY DEF RequestNumbersUnique
    <3>1. CASE a \in wal /\ b \in wal
      BY <3>1 DEF Records, RequestNumbersUnique
    <3>2. ASSUME NEW x \in wal, NEW i \in appended, x.owner # None, x.seq = numbered(i).seq
          PROVE  FALSE
      BY <1>4, <2>1, <2>2, <3>2
    <3>3. ASSUME NEW i \in appended, NEW j \in appended, a = numbered(i), b = numbered(j)
          PROVE  a = b
      BY <1>11, <3>3
    <3> QED  BY <1>7, <3>1, <3>2, <3>3
  <2>4. \A a, b \in wal' : a.owner = b.owner /\ a.owner # None => a = b
    <3>1. \A i, j \in appended : group[i] = group[j] => i = j
      BY <1>9 DEF Places, IsInjective
    <3>2. ASSUME NEW x \in wal, NEW i \in appended, x.owner = numbered(i).owner PROVE FALSE
      BY <1>9, <1>10, <1>12, <3>2
    <3> QED  BY <1>7, <1>10, <3>1, <3>2 DEF Records
  <2>5. (\E b \in wal' \ commits' : b.owner # None) => bgError' /\ always' /\ cpc' # "apply"
    <3> SUFFICES ASSUME NEW b \in wal', b \notin commits', b.owner # None
                 PROVE  bgError' /\ always
      BY <1>1
    <3>1. PICK i \in appended : b = numbered(i)
      BY <1>7, <2>1
    <3>2. ~o.synced
      BY <1>7, <3>1
    <3>3. o.cut > 0
      <4>1. Rank(accepted, i) \in 1 .. o.cut
        BY <1>5
      <4> QED  BY <1>5, <4>1
    <3>4. group[i] \in Held
      BY <1>9, <3>1 DEF Held, Range
    <3> QED  BY <1>7, <3>2, <3>3, <3>4 DEF Places
  <2> QED  BY <2>3, <2>4, <2>5 DEF Records
<1> QED  BY <1>16, <1>17, <1>18, <1>19

-----------------------------------------------------------------------------
(* The theorems                                                            *)

\* Nothing is queued, answered or written at first.
LEMMA InitWaiters == Init => Waiters
<1> SUFFICES ASSUME Init PROVE Waiters
  OBVIOUS
<1>1. Range(<<>>) = {} /\ IsInjective(<<>>)
  BY DEF Range, IsInjective
<1>2. Places
  BY <1>1 DEF Init, Places, Held
<1>3. Untouched /\ Records
  BY DEF Init, Untouched, Records, RequestNumbersUnique
<1>4. Answers
  BY DEF Init, Answers, Truthful, None
<1> QED  BY <1>2, <1>3, <1>4 DEF Waiters

\* Every step of a client, the committer or the environment keeps it.
LEMMA StepWaiters == Before /\ [Next]_vars => Waiters'
<1> SUFFICES ASSUME Before, [Next]_vars PROVE Waiters'
  OBVIOUS
<1>1. ASSUME NEW c \in Clients, Client(c) PROVE Waiters'
  <2>1. ASSUME NEW f \in Footprints, Submit(c, f[1], f[2]) PROVE Waiters'
    <3>1. f[1] \in SUBSET Keys /\ f[2] \in SUBSET Keys
      BY CommitAssumption
    <3> QED  BY <2>1, <3>1, SubmitWaiters
  <2> QED  BY <1>1, <2>1, BeginWaiters, CallWaiters, DirectWaiters DEF Client
<1>2. CASE Committer \/ CommitterPanics
  BY <1>2, DrainWaiters, ChunkWaiters, GroupWaiters, DeliverWaiters, PanicWaiters DEF Committer
<1> QED  BY <1>1, <1>2, RelocateWaiters, EnvironmentWaiters DEF Next

\* The whole invariant holds in every reachable state.
LEMMA WaitersAlways == Spec => []Before
<1>1. Init => Before
  BY InitTypes, InitHistory, InitWaiters DEF Before
<1>2. Before /\ [Next]_vars => Before'
  BY StepTypes, StepHistory, StepWaiters DEF Before
<1> QED  BY <1>1, <1>2, PTL DEF Spec

\* A request is applied at most once: drained, cut into chunks, pulled back,
\* aborted or panicked around, its waiter is in one place at a time.
THEOREM RequestsAppliedOnce == Spec => []AppliedOnce
<1>1. Before => AppliedOnce
  BY DEF Before, TypeOK, Waiters, Records, AppliedOnce
<1> QED  BY <1>1, WaitersAlways, PTL

\* What a call returns is what happened to its batch, on every path a result
\* takes to its caller; only the answer of a panicked committer leaves it open.
THEOREM CallersAreToldTheTruth == Spec => []AnswersAreTrue
<1>1. Before => AnswersAreTrue
  BY DEF Before, Waiters, Answers, Truthful, AnswersAreTrue
<1> QED  BY <1>1, WaitersAlways, PTL

\* No two requests share a sequence number in the WAL, whatever failed between
\* them: after a group whose records were left unpublished, the degraded store
\* appends no request any more.
THEOREM RequestNumbersNotReused == Spec => []RequestNumbersUnique
<1>1. Before => RequestNumbersUnique
  BY DEF Before, Waiters, Records
<1> QED  BY <1>1, WaitersAlways, PTL
=============================================================================

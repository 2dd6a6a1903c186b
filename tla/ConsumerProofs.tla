----------------------------- MODULE ConsumerProofs -----------------------------
(***************************************************************************)
(* Proofs about the stream and its consumers.                              *)
(*                                                                         *)
(* Stream: a live subscription loses nothing, and every entry it hands     *)
(* over can still be read, under any consumer; and the steps of the        *)
(* replica, the journal and the feed are such steps.                       *)
(*                                                                         *)
(* Feed: the pump never loses its race with GC, every item's snapshot      *)
(* stays readable while the client may look through it, and the items are  *)
(* the events of the range without a gap.                                  *)
(*                                                                         *)
(* EdgeReplica: what a scan of the replica shows is one state of the       *)
(* master, no older than the frontier it has announced, and neither goes   *)
(* back while the replica stays attached to one master.  What the code     *)
(* does not keep is excepted by name: a key revived by a late batch whose  *)
(* tombstone was compacted away (Revived), and a store that got from the   *)
(* stream what a crash of the master undid (phantom).                      *)
(***************************************************************************)
EXTENDS MCConsumers, SortedProofs

-----------------------------------------------------------------------------
(* The stream under any consumer                                           *)

\* What one group commit may be: ops that end with the last one of a commit.
WholeGroups ==
    {g \in Seq([key : Keys, put : BOOLEAN, last : BOOLEAN]) : g # <<>> /\ g[Len(g)].last}

\* A consumer works through the batch it was handed, subscribes or
\* unsubscribes, and registers and drops snapshots.
ConsumerStep ==
    /\ \/ UNCHANGED sub
       \/ sub.batch # <<>> /\ sub' \in {[sub EXCEPT !.batch = <<>>], [sub EXCEPT !.batch = Tail(@)]}
       \/ CanSubscribe /\ sub' = Subscription
       \/ sub' \in {NoSub, [NoSub EXCEPT !.failed = sub.failed]}
    /\ held' \subseteq Nat
    /\ UNCHANGED <<epoch, hist, published, flushed, gcVars>>

\* Another life of the history, where no GC has run: a prefix of whole
\* commits, and nobody subscribed.
NewLife(cut) ==
    /\ published = visible /\ retired = {} /\ dead = {}
    /\ epoch' = epoch + 1 /\ hist' = Append(hist, SubSeq(ops, 1, cut)) /\ published' = cut
    /\ sub' = NoSub
    /\ UNCHANGED <<held, gcVars>>

StreamNext ==
    \/ \E g \in WholeGroups : Commit(g)
    \/ Publish \/ GarbageCollection \/ Drain \/ Resolve
    \/ ConsumerStep
    \/ \E cut \in {0} \cup {ops[s].commit : s \in 1 .. visible} : NewLife(cut)

StreamSpec == StreamInit /\ [][StreamNext]_streamVars

-----------------------------------------------------------------------------
(* The inductive invariant                                                 *)

Op == [key : Keys, val : {Absent} \cup (Nat \X Nat), commit : Nat]

Sub == [on : BOOLEAN, start : Nat, queue : Seq(Nat), taken : Seq(Nat), batch : Seq(Nat),
        dropped : BOOLEAN, failed : BOOLEAN, pin : Nat]

StreamTypes ==
    /\ hist \in Seq(Seq(Op)) /\ epoch = Len(hist) /\ epoch \in Nat \ {0}
    /\ published \in 0 .. visible
    /\ sub \in Sub
    /\ held \subseteq Nat

\* Every op knows where its commit ends, and a commit is one run of ops.
WholeIn(h) ==
    \A s \in 1 .. Len(h) :
        /\ h[s].commit \in s .. Len(h)
        /\ \A t \in s .. h[s].commit : h[t].commit = h[s].commit
WholeCommits == WholeIn(ops)

\* What is queued or being resolved lies above the pin, a cut subscription has
\* nothing queued, and what is in the consumer's hands was published.
Pinned ==
    /\ sub.on => sub.pin <= published
    /\ sub.dropped => sub.queue = <<>>
    /\ \A s \in Range(sub.taken) \cup Range(sub.queue) : sub.on /\ s \in sub.pin + 1 .. published
    /\ \A s \in Range(sub.batch) : s \in 1 .. published

\* A record is retired at or above its own number, so one that is deleted
\* lies at or below the pin.
Condemned ==
    /\ \A r \in retired : r.seq \in 1 .. r.at /\ r.at <= visible /\ r.at \in Nat
    /\ \A d \in dead : d \in 1 .. visible /\ (sub.on => d <= sub.pin)

StreamShape == StreamTypes /\ WholeCommits /\ Pinned /\ Condemned

StreamInv == StreamShape /\ SubscriptionGapFree /\ StreamResolves

-----------------------------------------------------------------------------
(* Lemmas about the operators                                              *)

\* Min picks the least of a set of numbers.
LEMMA MinIsLeast ==
  ASSUME NEW S \in SUBSET Nat, S # {}
  PROVE  Min(S) \in S /\ \A y \in S : Min(S) <= y
<1>1. \E x \in S : \A y \in S : x <= y
  BY LeastNatural
<1> QED  BY <1>1 DEF Min

\* Max picks the greatest of a set of numbers up to a bound.
LEMMA MaxIsGreatest ==
  ASSUME NEW n \in Nat, NEW S \in SUBSET (1..n), S # {}
  PROVE  Max(S) \in S /\ \A y \in S : y <= Max(S)
<1>1. IsFiniteSet(1..n) /\ S \in SUBSET Int
  BY FS_Interval
<1>2. IsFiniteSet(S)
  BY <1>1, FS_Subset
<1>3. \E x \in S : \A y \in S : y <= x
  BY <1>1, <1>2, GreatestExists
<1>4. \E x \in S : \A y \in S : x >= y
  BY <1>1, <1>3
<1>5. Max(S) \in S /\ \A y \in S : Max(S) >= y
  BY <1>4 DEF Max
<1> QED  BY <1>1, <1>5

\* The number of sequence numbers of the range between two points is finite,
\* and Ascending lists them in order.
LEMMA AscendingIsListed ==
  ASSUME NEW a \in Nat, NEW b \in Nat
  PROVE  LET S == {s \in (a + 1)..b : InScope(s)}
         IN  S \in SUBSET Int /\ S \in SUBSET Nat /\ IsFiniteSet(S) /\ Ascending(S) = Listed(S)
<1> DEFINE S == {s \in (a + 1)..b : InScope(s)}
<1>1. IsFiniteSet((a + 1)..b)
  BY FS_Interval
<1>2. S \in SUBSET ((a + 1)..b) /\ S \in SUBSET Int /\ S \in SUBSET Nat
  OBVIOUS
<1>3. IsFiniteSet(S)
  BY <1>1, <1>2, FS_Subset
<1>4. Ascending(S) = Listed(S)
  BY DEF Ascending, Listed
<1> QED  BY <1>2, <1>3, <1>4

\* The sequence of those: increasing, and a sequence of numbers.
LEMMA AscendingMembers ==
  ASSUME NEW a \in Nat, NEW b \in Nat
  PROVE  LET S == {s \in (a + 1)..b : InScope(s)}
         IN  /\ Ascending(S) \in Seq(Nat) /\ Ascending(S) \in Seq(Int)
             /\ Range(Ascending(S)) = S
<1> DEFINE S == {s \in (a + 1)..b : InScope(s)}
<1>1. S \in SUBSET Int /\ S \in SUBSET Nat /\ IsFiniteSet(S) /\ Ascending(S) = Listed(S)
  BY AscendingIsListed
<1> HIDE DEF S
<1>2. Listed(S) \in Seq(S) /\ Listed(S) \in Seq(Int) /\ Range(Listed(S)) = S
  BY <1>1, ListedInOrder
<1>3. Listed(S) \in Seq(Nat)
  BY <1>1, <1>2, SeqMonotonic
<1>4. /\ Ascending(S) \in Seq(Nat) /\ Ascending(S) \in Seq(Int)
      /\ Range(Ascending(S)) = S
  BY <1>1, <1>2, <1>3
<1> QED  BY <1>4 DEF S

\* Publishing the next stretch appends its listing.
LEMMA AscendingGrows ==
  ASSUME NEW a \in Nat, NEW b \in Nat, NEW c \in Nat, a <= b, b <= c
  PROVE  Ascending({s \in (a + 1)..c : InScope(s)})
           = Ascending({s \in (a + 1)..b : InScope(s)}) \o Ascending({s \in (b + 1)..c : InScope(s)})
<1> DEFINE S == {s \in (a + 1)..b : InScope(s)}
           T == {s \in (b + 1)..c : InScope(s)}
           U == {s \in (a + 1)..c : InScope(s)}
<1>1. U = S \cup T
  OBVIOUS
<1>2. \A x \in S, y \in T : x < y
  OBVIOUS
<1>3. /\ S \in SUBSET Int /\ IsFiniteSet(S) /\ Ascending(S) = Listed(S)
      /\ T \in SUBSET Int /\ IsFiniteSet(T) /\ Ascending(T) = Listed(T)
      /\ Ascending(U) = Listed(U)
  BY AscendingIsListed
<1> HIDE DEF S, T, U
<1>4. Listed(S \cup T) = Listed(S) \o Listed(T)
  BY <1>2, <1>3, ListedConcat
<1>5. Ascending(U) = Ascending(S) \o Ascending(T)
  BY <1>1, <1>3, <1>4
<1> QED  BY <1>5 DEF S, T, U

\* Delivering the front leaves the listing of what lies beyond its last entry.
LEMMA AscendingShrinks ==
  ASSUME NEW a \in Nat, NEW b \in Nat, NEW q \in Seq(Nat), NEW r \in Seq(Nat), q # <<>>,
         q \o r = Ascending({s \in (a + 1)..b : InScope(s)})
  PROVE  /\ Last(q) \in a + 1 .. b
         /\ r = Ascending({s \in (Last(q) + 1)..b : InScope(s)})
<1> DEFINE S == {s \in (a + 1)..b : InScope(s)}
<1>1. S \in SUBSET Int /\ IsFiniteSet(S) /\ Ascending(S) = Listed(S)
  BY AscendingIsListed
<1>2. q \in Seq(Int) /\ r \in Seq(Int)
  BY SeqMonotonic
<1>3. Last(q) \in S /\ r = Listed({x \in S : x > Last(q)})
  <2>1. q \o r = Listed(S)
    BY <1>1
  <2> HIDE DEF S
  <2> QED  BY <1>1, <1>2, <2>1, ListedRest
<1>4. Last(q) \in a + 1 .. b /\ Last(q) \in Nat
  BY <1>3
<1>5. {x \in S : x > Last(q)} = {s \in (Last(q) + 1)..b : InScope(s)}
  BY <1>4
<1>6. Ascending({s \in (Last(q) + 1)..b : InScope(s)}) = Listed({s \in (Last(q) + 1)..b : InScope(s)})
  BY <1>4, AscendingIsListed
<1> QED  BY <1>3, <1>4, <1>5, <1>6

-----------------------------------------------------------------------------
(* Steps that extend the history                                           *)

\* The present history is one of those recorded.
LEMMA HistoryTyped ==
  ASSUME StreamTypes
  PROVE  /\ ops \in Seq(Op) /\ visible \in Nat /\ visible = Len(ops)
         /\ hist \in Seq(Seq(Op)) /\ epoch \in 1 .. Len(hist) /\ hist[epoch] \in Seq(Op)
<1>1. epoch \in 1 .. Len(hist) /\ hist \in Seq(Seq(Op))
  BY DEF StreamTypes
<1> DEFINE S == Seq(Op)
<1>2. hist \in Seq(S)
  BY <1>1
<1> HIDE DEF S
<1>3. hist[epoch] \in S
  BY <1>1, <1>2, ElementOfSeq
<1>4. hist[epoch] \in Seq(Op)
  BY <1>3 DEF S
<1> QED  BY <1>1, <1>4, LenProperties DEF ops, visible

\* New ops go to the end of the current life and touch nothing before them.
LEMMA HistoryExtends ==
  ASSUME StreamTypes, NEW new \in Seq(Op), hist' = [hist EXCEPT ![epoch] = @ \o new],
         epoch' = epoch
  PROVE  /\ ops \in Seq(Op) /\ ops' = ops \o new /\ ops' \in Seq(Op)
         /\ hist' \in Seq(Seq(Op)) /\ Len(hist') = Len(hist)
         /\ visible \in Nat /\ visible' = visible + Len(new)
<1>1. epoch \in 1 .. Len(hist) /\ hist \in Seq(Seq(Op))
  BY DEF StreamTypes
<1>2. hist[epoch] \in Seq(Op)
  BY HistoryTyped
<1>3. hist[epoch] \o new \in Seq(Op)
  BY <1>2, ConcatProperties
<1>4. hist' \in Seq(Seq(Op)) /\ Len(hist') = Len(hist) /\ hist'[epoch] = hist[epoch] \o new
  <2> DEFINE S == Seq(Op)
             e == hist[epoch] \o new
  <2>1. hist \in Seq(S) /\ e \in S /\ hist' = [hist EXCEPT ![epoch] = e]
    BY <1>1, <1>3
  <2> HIDE DEF S, e
  <2>2. /\ hist' \in Seq(S) /\ Len(hist') = Len(hist)
        /\ \A i \in 1 .. Len(hist) : hist'[i] = IF i = epoch THEN e ELSE hist[i]
    <3>1. epoch \in 1 .. Len(hist)
      BY <1>1
    <3>2. /\ [hist EXCEPT ![epoch] = e] \in Seq(S) /\ Len([hist EXCEPT ![epoch] = e]) = Len(hist)
          /\ \A i \in 1 .. Len(hist) :
               [hist EXCEPT ![epoch] = e][i] = IF i = epoch THEN e ELSE hist[i]
      BY <2>1, <3>1, ExceptSeq
    <3> QED  BY <2>1, <3>2
  <2> QED  BY <1>1, <2>2 DEF S, e
<1>5. ops = hist[epoch] /\ ops' = hist[epoch] \o new
  BY <1>4 DEF ops
<1> QED  BY <1>2, <1>3, <1>4, <1>5, LenProperties, ConcatProperties DEF visible

\* Whole commits after whole commits are whole.
LEMMA WholeConcat ==
  ASSUME NEW h \in Seq(Op), NEW new \in Seq(Op), WholeIn(h),
         \A i \in 1 .. Len(new) :
           /\ new[i].commit \in Len(h) + i .. Len(h) + Len(new)
           /\ \A j \in i .. new[i].commit - Len(h) : new[j].commit = new[i].commit
  PROVE  WholeIn(h \o new)
<1> DEFINE u == h \o new
           n == Len(h)
           m == Len(new)
<1>1. n \in Nat /\ m \in Nat /\ Len(u) = n + m
  BY LenProperties, ConcatProperties
<1>2. \A s \in 1 .. n : u[s] = h[s]
  BY ConcatProperties, LenProperties
<1>3. \A i \in 1 .. m : u[n + i] = new[i]
  <2> SUFFICES ASSUME NEW i \in 1 .. m PROVE u[n + i] = new[i]
    OBVIOUS
  <2>1. n + i \in 1 .. Len(h) + Len(new) /\ ~(n + i <= n) /\ (n + i) - n = i
    BY <1>1
  <2> QED  BY <1>1, <2>1, ConcatProperties
<1>4. \A s \in 1 .. n : h[s].commit \in s .. n /\ \A t \in s .. h[s].commit : h[t].commit = h[s].commit
  BY DEF WholeIn
<1>5. \A i \in 1 .. m : /\ new[i].commit \in n + i .. n + m
                        /\ \A j \in i .. new[i].commit - n : new[j].commit = new[i].commit
  OBVIOUS
<1> HIDE DEF u, n, m
<1>6. ASSUME NEW s \in 1 .. n + m
      PROVE  u[s].commit \in s .. n + m /\ \A t \in s .. u[s].commit : u[t].commit = u[s].commit
  <2>1. CASE s <= n
    <3>1. s \in 1 .. n /\ u[s] = h[s]
      BY <1>1, <1>2, <2>1
    <3>2. h[s].commit \in s .. n
      BY <1>4, <3>1
    <3>3. \A t \in s .. h[s].commit : t \in 1 .. n
      BY <1>1, <3>1, <3>2
    <3>4. \A t \in s .. h[s].commit : u[t] = h[t] /\ h[t].commit = h[s].commit
      BY <1>2, <1>4, <3>1, <3>3
    <3>5. u[s].commit = h[s].commit /\ s .. u[s].commit = s .. h[s].commit
      BY <3>1
    <3>6. u[s].commit \in s .. n + m
      BY <1>1, <3>2, <3>5
    <3> QED  BY <3>4, <3>5, <3>6
  <2>2. CASE s > n
    <3>1. PICK i \in 1 .. m : s = n + i
      <4>1. s - n \in 1 .. m /\ s = n + (s - n)
        BY <1>1, <2>2
      <4> QED  BY <4>1
    <3>2. u[s] = new[i] /\ new[i].commit \in n + i .. n + m
      BY <1>3, <1>5, <3>1
    <3>3. ASSUME NEW t \in s .. new[i].commit PROVE u[t].commit = new[i].commit
      <4>1. t - n \in i .. new[i].commit - n /\ t - n \in 1 .. m /\ n + (t - n) = t
        BY <1>1, <3>1, <3>2, SMTT(30)
      <4>2. u[t] = new[t - n]
        BY <1>3, <4>1
      <4> QED  BY <1>5, <4>1, <4>2
    <3>4. s .. u[s].commit = s .. new[i].commit
      BY <3>2
    <3> QED  BY <3>1, <3>2, <3>3, <3>4
  <2> QED  BY <1>1, <2>1, <2>2
<1>7. WholeIn(u)
  BY <1>1, <1>6 DEF WholeIn
<1> QED  BY <1>7 DEF u

\* Extending the history by whole commits keeps the shape, and what a
\* subscription must still hold.
LEMMA ExtensionKeepsShape ==
  ASSUME StreamShape, NEW new \in Seq(Op), hist' = [hist EXCEPT ![epoch] = @ \o new],
         UNCHANGED <<epoch, published, sub, held, dead>>,
         \A i \in 1 .. Len(new) :
           /\ new[i].commit \in visible + i .. visible + Len(new)
           /\ \A j \in i .. new[i].commit - visible : new[j].commit = new[i].commit,
         \A r \in retired' : r \in retired \/ (r.at = visible' /\ r.seq \in 1 .. visible)
  PROVE  /\ StreamShape'
         /\ SubscriptionGapFree => SubscriptionGapFree'
<1> USE DEF StreamShape
<1>1. /\ ops \in Seq(Op) /\ ops' = ops \o new /\ ops' \in Seq(Op)
      /\ hist' \in Seq(Seq(Op)) /\ Len(hist') = Len(hist)
      /\ visible \in Nat /\ visible' = visible + Len(new) /\ Len(new) \in Nat
  BY HistoryExtends, LenProperties
<1>2. StreamTypes'
  <2>1. published \in 0 .. visible'
    BY <1>1 DEF StreamTypes
  <2> QED  BY <1>1, <2>1 DEF StreamTypes
<1>3. WholeCommits'
  <2>1. WholeIn(ops \o new)
    BY <1>1, WholeConcat DEF WholeCommits, visible
  <2>2. WholeIn(ops')
    BY <1>1, <2>1
  <2> QED  BY <2>2 DEF WholeCommits, WholeIn
<1> HIDE DEF ops, visible
<1>4. Pinned'
  BY DEF Pinned
<1>5. Condemned'
  <2>1. \A r \in retired' : r.seq \in 1 .. r.at /\ r.at <= visible' /\ r.at \in Nat
    <3> SUFFICES ASSUME NEW r \in retired'
                 PROVE  r.seq \in 1 .. r.at /\ r.at <= visible' /\ r.at \in Nat
      OBVIOUS
    <3>1. CASE r \in retired
      BY <1>1, <3>1 DEF Condemned
    <3>2. CASE r.at = visible' /\ r.seq \in 1 .. visible
      BY <1>1, <3>2
    <3> QED  BY <3>1, <3>2
  <2>2. \A d \in dead : d \in 1 .. visible' /\ (sub.on => d <= sub.pin)
    <3> SUFFICES ASSUME NEW d \in dead PROVE d \in 1 .. visible' /\ (sub.on => d <= sub.pin)
      OBVIOUS
    <3>1. d \in 1 .. visible /\ (sub.on => d <= sub.pin)
      BY DEF Condemned
    <3> QED  BY <1>1, <3>1
  <2> QED  BY <2>1, <2>2 DEF Condemned
<1>6. ASSUME SubscriptionGapFree PROVE SubscriptionGapFree'
  <2>1. published \in 0 .. visible /\ sub.pin \in Nat /\ published \in Nat
    BY <1>1 DEF StreamTypes, Sub
  <2>2. ASSUME NEW s \in (sub.pin + 1)..published
        PROVE  ops'[s].key \in Scope <=> ops[s].key \in Scope
    <3>1. s \in 1 .. Len(ops)
      BY <1>1, <2>1 DEF visible
    <3>2. (ops \o new)[s] = ops[s]
      BY <1>1, <3>1, ConcatProperties, LenProperties
    <3> QED  BY <1>1, <3>2
  <2>3. {s \in (sub.pin + 1)..published : ops'[s].key \in Scope}
          = {s \in (sub.pin + 1)..published : ops[s].key \in Scope}
    BY <2>2
  <2> QED  BY <1>6, <2>3 DEF SubscriptionGapFree, InScope
<1> QED  BY <1>2, <1>3, <1>4, <1>5, <1>6

\* A group commit extends it by commits that end where the group says.
LEMMA CommitKeeps ==
  ASSUME StreamInv, NEW g \in WholeGroups, Commit(g)
  PROVE  StreamInv'
<1> USE DEF StreamInv
<1> DEFINE ends(i) == {j \in i..Len(g) : g[j].last}
           new == [i \in 1..Len(g) |->
                     [key |-> g[i].key,
                      val |-> IF g[i].put THEN <<epoch, visible + i>> ELSE Absent,
                      commit |-> visible + Min({j \in i..Len(g) : g[j].last})]]
<1>1. /\ g \in Seq([key : Keys, put : BOOLEAN, last : BOOLEAN])
      /\ Len(g) \in Nat \ {0} /\ g[Len(g)].last
      /\ \A i \in 1 .. Len(g) : g[i] \in [key : Keys, put : BOOLEAN, last : BOOLEAN]
  <2>1. /\ g \in Seq([key : Keys, put : BOOLEAN, last : BOOLEAN])
        /\ g # <<>> /\ g[Len(g)].last
    BY DEF WholeGroups
  <2> QED  BY <2>1, EmptySeq, ElementOfSeq
<1>2. visible \in Nat /\ epoch \in Nat
  BY LenProperties, ElementOfSeq DEF StreamShape, StreamTypes, visible, ops
<1>3. \A i \in 1 .. Len(g) : Len(g) \in ends(i) /\ ends(i) \in SUBSET Nat
  BY <1>1
<1>4. \A i \in 1 .. Len(g) : Min(ends(i)) \in ends(i) /\ \A j \in ends(i) : Min(ends(i)) <= j
  <2> SUFFICES ASSUME NEW i \in 1 .. Len(g)
               PROVE  Min(ends(i)) \in ends(i) /\ \A j \in ends(i) : Min(ends(i)) <= j
    OBVIOUS
  <2>1. ends(i) \in SUBSET Nat /\ ends(i) # {}
    BY <1>3
  <2> HIDE DEF ends
  <2> QED  BY <2>1, MinIsLeast
<1>5. \A i \in 1 .. Len(g) : \A j \in i .. Min(ends(i)) : j \in 1 .. Len(g) /\ Min(ends(j)) = Min(ends(i))
  <2> SUFFICES ASSUME NEW i \in 1 .. Len(g), NEW j \in i .. Min(ends(i))
               PROVE  j \in 1 .. Len(g) /\ Min(ends(j)) = Min(ends(i))
    OBVIOUS
  <2>1. Min(ends(i)) \in i .. Len(g) /\ g[Min(ends(i))].last
    BY <1>4
  <2>2. j \in 1 .. Len(g)
    BY <1>1, <2>1
  <2>3. Min(ends(j)) \in j .. Len(g) /\ g[Min(ends(j))].last
    BY <1>4, <2>2
  <2>4. Min(ends(i)) \in ends(j) /\ Min(ends(j)) \in ends(i)
    BY <1>1, <2>1, <2>2, <2>3
  <2>5. Min(ends(j)) <= Min(ends(i)) /\ Min(ends(i)) <= Min(ends(j))
    <3> HIDE DEF ends
    <3> QED  BY <1>4, <2>2, <2>4
  <2> QED  BY <1>1, <2>1, <2>2, <2>3, <2>5
<1>6. \A i \in 1 .. Len(g) : new[i] \in Op /\ new[i].commit = visible + Min(ends(i))
  <2> SUFFICES ASSUME NEW i \in 1 .. Len(g)
               PROVE  new[i] \in Op /\ new[i].commit = visible + Min(ends(i))
    OBVIOUS
  <2> DEFINE v == IF g[i].put THEN <<epoch, visible + i>> ELSE Absent
             m == visible + Min(ends(i))
  <2>1. new[i] = [key |-> g[i].key, val |-> v, commit |-> m]
    OBVIOUS
  <2>2. g[i].key \in Keys
    BY <1>1
  <2>3. visible + i \in Nat
    BY <1>2
  <2>4. v \in {Absent} \cup (Nat \X Nat)
    BY <1>2, <2>3
  <2>5. m \in Nat
    BY <1>2, <1>3, <1>4
  <2> HIDE DEF v, m, new
  <2>6. new[i] \in Op /\ new[i].commit = m
    BY <2>1, <2>2, <2>4, <2>5 DEF Op
  <2> QED  BY <2>6 DEF m
<1>7. new \in Seq(Op) /\ Len(new) = Len(g)
  <2>1. new \in [1 .. Len(g) -> Op]
    BY <1>6
  <2> HIDE DEF new
  <2> QED  BY <1>1, <2>1, FunctionIsSequence
<1>8. /\ hist' = [hist EXCEPT ![epoch] = @ \o new]
      /\ UNCHANGED <<epoch, published, sub, held, dead, retired>>
  BY DEF Commit, gcVars
<1> HIDE DEF new
<1>9. \A i \in 1 .. Len(new) :
        /\ new[i].commit \in visible + i .. visible + Len(new)
        /\ \A j \in i .. new[i].commit - visible : new[j].commit = new[i].commit
  <2> SUFFICES ASSUME NEW i \in 1 .. Len(g)
               PROVE  /\ new[i].commit \in visible + i .. visible + Len(g)
                      /\ \A j \in i .. new[i].commit - visible : new[j].commit = new[i].commit
    BY <1>7
  <2>1. new[i].commit = visible + Min(ends(i)) /\ Min(ends(i)) \in i .. Len(g)
    BY <1>4, <1>6
  <2> HIDE DEF ends
  <2>2. new[i].commit - visible = Min(ends(i))
    BY <1>1, <1>2, <2>1
  <2> QED  BY <1>1, <1>2, <1>5, <1>6, <2>1, <2>2
<1>10. StreamShape' /\ SubscriptionGapFree'
  BY <1>7, <1>8, <1>9, ExtensionKeepsShape
<1> QED  BY <1>8, <1>10 DEF StreamResolves

\* GC re-puts a live value as one more commit of its own, and the record it
\* condemns is older than what is then visible.
LEMMA RetireKeeps ==
  ASSUME StreamInv, NEW s \in 1 .. visible, Retire(s)
  PROVE  StreamInv'
<1> USE DEF StreamInv
<1> DEFINE live == \A i \in (s + 1)..visible : ops[i].key # ops[s].key
           x == [ops[s] EXCEPT !.commit = visible + 1]
           new == IF live THEN <<x>> ELSE <<>>
<1>1. /\ ops \in Seq(Op) /\ visible \in Nat /\ visible = Len(ops)
      /\ hist \in Seq(Seq(Op)) /\ epoch \in 1 .. Len(hist) /\ hist[epoch] \in Seq(Op)
  BY HistoryTyped DEF StreamShape
<1>2. x \in Op /\ x.commit = visible + 1
  <2>1. ops[s] \in Op
    BY <1>1, ElementOfSeq
  <2>2. \A o \in Op, n \in Nat : [o EXCEPT !.commit = n] \in Op /\ [o EXCEPT !.commit = n].commit = n
    BY DEF Op
  <2>3. visible + 1 \in Nat
    BY <1>1
  <2> QED  BY <2>1, <2>2, <2>3
<1>3. new \in Seq(Op) /\ (live => Len(new) = 1 /\ new[1] = x) /\ (~live => Len(new) = 0)
  BY <1>2
<1>4. hist' = [hist EXCEPT ![epoch] = @ \o new]
  <2>1. CASE live
    <3>1. Append(hist[epoch], x) = hist[epoch] \o <<x>>
      BY <1>1, <1>2, AppendIsConcat
    <3>2. hist' = [hist EXCEPT ![epoch] = Append(@, x)]
      BY <2>1 DEF Retire
    <3> QED  BY <2>1, <3>1, <3>2
  <2>2. CASE ~live
    <3>1. hist[epoch] \o <<>> = hist[epoch]
      BY <1>1, ConcatEmptySeq
    <3>2. hist' = hist
      BY <2>2 DEF Retire
    <3>3. [hist EXCEPT ![epoch] = hist[epoch] \o <<>>] = hist
      BY <1>1, <3>1
    <3> QED  BY <2>2, <3>2, <3>3
  <2> QED  BY <2>1, <2>2
<1>5. UNCHANGED <<epoch, published, sub, held, dead>> /\ retired' = retired \cup {[seq |-> s, at |-> visible']}
  BY DEF Retire
<1>6. \A i \in 1 .. Len(new) :
        /\ new[i].commit \in visible + i .. visible + Len(new)
        /\ \A j \in i .. new[i].commit - visible : new[j].commit = new[i].commit
  <2> SUFFICES ASSUME NEW i \in 1 .. Len(new)
               PROVE  /\ new[i].commit \in visible + i .. visible + Len(new)
                      /\ \A j \in i .. new[i].commit - visible : new[j].commit = new[i].commit
    OBVIOUS
  <2> HIDE DEF live, x, new
  <2>1. i = 1 /\ Len(new) = 1 /\ new[1] = x
    <3>1. CASE live
      <4>1. Len(new) = 1 /\ new[1] = x
        BY <1>3, <3>1
      <4> QED  BY <4>1
    <3>2. CASE ~live
      <4>1. Len(new) = 0
        BY <1>3, <3>2
      <4> QED  BY <4>1
    <3> QED  BY <3>1, <3>2
  <2>2. (visible + 1) - visible = 1
    BY <1>1
  <2> QED  BY <1>1, <1>2, <2>1, <2>2
<1>7. \A r \in retired' : r \in retired \/ (r.at = visible' /\ r.seq \in 1 .. visible)
  BY <1>5
<1> HIDE DEF live, x, new
<1>8. StreamShape' /\ SubscriptionGapFree'
  BY <1>3, <1>4, <1>5, <1>6, <1>7, ExtensionKeepsShape
<1> QED  BY <1>5, <1>8 DEF StreamResolves

-----------------------------------------------------------------------------
(* Steps that leave the history alone                                      *)

\* Steps that leave the history alone leave its commits and ranges alone.
LEMMA SameHistory ==
  ASSUME StreamShape, UNCHANGED <<epoch, hist>>
  PROVE  /\ ops' = ops /\ visible' = visible /\ WholeCommits'
         /\ \A a, b : {s \in a .. b : InScope(s)}' = {s \in a .. b : InScope(s)}
BY DEF StreamShape, WholeCommits, WholeIn, ops, visible, InScope

\* process_retired deletes a record: it lies at or below the pin.
LEMMA ReclaimKeeps ==
  ASSUME StreamInv, NEW r \in retired, Reclaim(r)
  PROVE  StreamInv'
<1> USE DEF StreamInv
<1>1. /\ ops' = ops /\ visible' = visible /\ WholeCommits'
      /\ UNCHANGED <<epoch, hist, published, flushed, sub, held>>
  BY SameHistory DEF Reclaim
<1>2. StreamTypes'
  BY <1>1 DEF StreamShape, StreamTypes
<1>3. Pinned'
  BY <1>1 DEF StreamShape, Pinned
<1>4. r.seq \in 1 .. r.at /\ r.at <= visible /\ r.at \in Nat /\ visible \in Nat
  BY HistoryTyped DEF StreamShape, Condemned
<1>5. ASSUME sub.on PROVE r.seq <= sub.pin
  <2> DEFINE S == held \cup {sub.pin}
  <2>1. sub.pin \in Nat /\ S \in SUBSET Nat /\ S # {}
    BY DEF StreamShape, StreamTypes, Sub
  <2>2. Watermark = Min(S)
    BY <1>5 DEF Watermark
  <2>3. Min(S) \in S /\ \A y \in S : Min(S) <= y
    BY <2>1, MinIsLeast
  <2>4. Min(S) <= sub.pin /\ Min(S) \in Nat
    BY <2>1, <2>3
  <2>5. Watermark > r.at
    BY DEF Reclaim
  <2> HIDE DEF S
  <2> QED  BY <1>4, <2>1, <2>2, <2>4, <2>5
<1>6. Condemned'
  <2>1. retired' \subseteq retired /\ dead' = dead \cup {r.seq}
    BY DEF Reclaim
  <2>2. r.seq \in 1 .. visible /\ (sub.on => r.seq <= sub.pin)
    BY <1>4, <1>5
  <2> QED  BY <1>1, <2>1, <2>2 DEF StreamShape, Condemned
<1>7. SubscriptionGapFree'
  BY <1>1 DEF SubscriptionGapFree, InScope
<1> QED  BY <1>1, <1>2, <1>3, <1>6, <1>7 DEF StreamShape, StreamResolves

\* A flush does not concern the stream.
LEMMA FlushKeeps ==
  ASSUME StreamInv, Flush
  PROVE  StreamInv'
<1> USE DEF StreamInv
<1>1. /\ ops' = ops /\ visible' = visible /\ WholeCommits'
      /\ UNCHANGED <<epoch, hist, published, sub, held, retired, dead>>
  BY SameHistory DEF Flush, gcVars
<1>2. StreamTypes'
  BY <1>1 DEF StreamShape, StreamTypes
<1>3. Pinned' /\ Condemned'
  BY <1>1 DEF StreamShape, Pinned, Condemned
<1>4. SubscriptionGapFree'
  BY <1>1 DEF SubscriptionGapFree, InScope
<1> QED  BY <1>1, <1>2, <1>3, <1>4 DEF StreamShape, StreamResolves

\* An offer appends the commit's entries in range, or cuts the subscription.
LEMMA PublishKeeps ==
  ASSUME StreamInv, Publish
  PROVE  StreamInv'
<1> USE DEF StreamInv
<1>1. /\ ops' = ops /\ visible' = visible /\ WholeCommits'
      /\ UNCHANGED <<epoch, hist, flushed, held, retired, dead>>
  BY SameHistory DEF Publish, gcVars
<1> DEFINE c == ops[published + 1].commit
           newly == Ascending({s \in (published + 1)..c : InScope(s)})
           q == sub.queue \o newly
<1>2. /\ published \in Nat /\ visible \in Nat /\ published < visible
      /\ c \in published + 1 .. visible /\ c \in Nat /\ published' = c
  <2>1. published \in Nat /\ visible \in Nat /\ published < visible /\ visible = Len(ops)
    BY HistoryTyped DEF Publish, StreamShape, StreamTypes
  <2>2. c \in published + 1 .. Len(ops)
    BY <2>1 DEF StreamShape, WholeCommits, WholeIn
  <2>3. published' = c
    BY DEF Publish
  <2> QED  BY <2>1, <2>2, <2>3
<1>3. /\ sub \in Sub /\ sub.queue \in Seq(Nat) /\ sub.taken \in Seq(Nat) /\ sub.pin \in Nat
      /\ sub.batch \in Seq(Nat)
  BY DEF StreamShape, StreamTypes, Sub
<1>4. /\ newly \in Seq(Nat) /\ Range(newly) = {s \in (published + 1)..c : InScope(s)}
  BY <1>2, AscendingMembers
<1>5. q \in Seq(Nat) /\ Range(q) = Range(sub.queue) \cup Range(newly)
  <2> HIDE DEF newly
  <2>1. newly \in Seq(Nat) /\ sub.queue \in Seq(Nat)
    BY <1>3, <1>4
  <2>2. sub.queue \o newly \in Seq(Nat)
    BY <2>1, ConcatProperties
  <2>3. Range(sub.queue \o newly) = Range(sub.queue) \cup Range(newly)
    BY <2>1, ConcatRange
  <2> QED  BY <2>2, <2>3
<1>6. sub' = IF sub.on /\ ~sub.dropped THEN Offer(q) ELSE sub
  BY DEF Publish
<1>7. /\ sub.on => sub.pin <= published
      /\ \A s \in Range(sub.taken) \cup Range(sub.queue) : sub.on /\ s \in sub.pin + 1 .. published
      /\ \A s \in Range(sub.batch) : s \in 1 .. published
  BY DEF StreamShape, Pinned
<1>8. /\ sub.on => sub.pin <= published'
      /\ \A s \in Range(sub.taken) \cup Range(sub.queue) : sub.on /\ s \in sub.pin + 1 .. published'
      /\ \A s \in Range(sub.batch) : s \in 1 .. published'
  <2>1. \A s \in sub.pin + 1 .. published : s \in sub.pin + 1 .. published'
    BY <1>2, <1>3
  <2>2. \A s \in 1 .. published : s \in 1 .. published'
    BY <1>2
  <2>3. sub.on => sub.pin <= published'
    BY <1>2, <1>3, <1>7
  <2> QED  BY <1>7, <2>1, <2>2, <2>3
<1>9. \A d \in dead : d \in 1 .. visible' /\ (sub.on => d <= sub.pin)
  BY <1>1 DEF StreamShape, Condemned
<1>10. published' \in 0 .. visible'
  BY <1>1, <1>2
<1>11. CASE ~(sub.on /\ ~sub.dropped)
  <2>1. sub' = sub
    BY <1>6, <1>11
  <2>2. StreamTypes'
    BY <1>1, <1>10, <2>1 DEF StreamShape, StreamTypes
  <2>3. Pinned'
    BY <1>8, <2>1 DEF StreamShape, Pinned
  <2>4. Condemned'
    BY <1>1, <2>1 DEF StreamShape, Condemned
  <2>5. SubscriptionGapFree' /\ StreamResolves'
    BY <1>11, <2>1 DEF SubscriptionGapFree, StreamResolves
  <2> QED  BY <1>1, <2>2, <2>3, <2>4, <2>5 DEF StreamShape
<1>12. CASE sub.on /\ ~sub.dropped /\ Len(q) > QueueCap
  <2>1. sub' = [sub EXCEPT !.queue = <<>>, !.dropped = TRUE]
    BY <1>6, <1>12 DEF Offer
  <2>2. /\ sub' \in Sub /\ sub'.queue = <<>> /\ sub'.dropped /\ sub'.on = sub.on
        /\ sub'.taken = sub.taken /\ sub'.batch = sub.batch /\ sub'.pin = sub.pin
        /\ sub'.failed = sub.failed
    <3>1. <<>> \in Seq(Nat) /\ sub \in Sub
      BY <1>3
    <3> QED  BY <2>1, <3>1 DEF Sub
  <2>3. StreamTypes'
    BY <1>1, <1>10, <2>2 DEF StreamShape, StreamTypes
  <2>4. Range(sub'.queue) = {} /\ sub'.queue = <<>>
    BY <2>2 DEF Range
  <2>5. Pinned'
    BY <1>8, <2>2, <2>4 DEF Pinned
  <2>6. Condemned'
    BY <1>1, <2>2 DEF StreamShape, Condemned
  <2>7. SubscriptionGapFree' /\ StreamResolves'
    BY <2>2 DEF SubscriptionGapFree, StreamResolves
  <2> QED  BY <1>1, <2>3, <2>5, <2>6, <2>7 DEF StreamShape
<1>13. CASE sub.on /\ ~sub.dropped /\ ~(Len(q) > QueueCap)
  <2>1. sub' = [sub EXCEPT !.queue = q]
    BY <1>6, <1>13 DEF Offer
  <2> HIDE DEF q, newly, c
  <2>2. /\ sub' \in Sub /\ sub'.queue = q /\ sub'.dropped = sub.dropped /\ sub'.on = sub.on
        /\ sub'.taken = sub.taken /\ sub'.batch = sub.batch /\ sub'.pin = sub.pin
        /\ sub'.failed = sub.failed
    <3>1. q \in Seq(Nat) /\ sub \in Sub
      BY <1>3, <1>5
    <3>2. \A x \in Seq(Nat) :
            LET t == [sub EXCEPT !.queue = x]
            IN  /\ t \in Sub /\ t.queue = x /\ t.dropped = sub.dropped /\ t.on = sub.on
                /\ t.taken = sub.taken /\ t.batch = sub.batch /\ t.pin = sub.pin
                /\ t.failed = sub.failed
      BY <3>1 DEF Sub
    <3> QED  BY <2>1, <3>1, <3>2
  <2>3. StreamTypes'
    BY <1>1, <1>10, <2>2 DEF StreamShape, StreamTypes
  <2>4. Pinned'
    <3>1. \A s \in Range(newly) : s \in sub.pin + 1 .. published'
      <4>1. \A s \in Range(newly) : s \in published + 1 .. c
        BY <1>4
      <4> QED  BY <1>2, <1>3, <1>7, <1>13, <4>1
    <3> QED  BY <1>5, <1>8, <1>13, <2>2, <3>1 DEF Pinned
  <2>5. Condemned'
    BY <1>1, <2>2 DEF StreamShape, Condemned
  <2>6. SubscriptionGapFree'
    <3> DEFINE old == Ascending({s \in (sub.pin + 1)..published : InScope(s)})
               all == Ascending({s \in (sub.pin + 1)..c : InScope(s)})
    <3>1. sub.taken \o sub.queue = old
      BY <1>13 DEF SubscriptionGapFree
    <3>2. all = old \o newly
      <4>1. sub.pin <= published /\ published <= c
        BY <1>2, <1>7, <1>13
      <4> QED  BY <1>2, <1>3, <4>1, AscendingGrows, ZenonT(40) DEF newly
    <3>3. sub.taken \o q = (sub.taken \o sub.queue) \o newly
      <4>1. newly \in Seq(Nat)
        BY <1>4
      <4>2. Regroups(sub.taken, sub.queue, newly)
        BY <1>3, <4>1, ConcatRegroups
      <4> QED  BY <4>2 DEF Regroups, q
    <3>4. sub'.taken \o sub'.queue = all
      <4> HIDE DEF old, all
      <4> QED  BY <2>2, <3>1, <3>2, <3>3
    <3>5. SubscriptionGapFree' <=>
            (sub'.on /\ ~sub'.dropped =>
               sub'.taken \o sub'.queue
                 = Ascending({s \in (sub'.pin + 1)..published' : ops'[s].key \in Scope}))
      BY DEF SubscriptionGapFree, InScope
    <3>6. {s \in (sub'.pin + 1)..published' : ops'[s].key \in Scope}
            = {s \in (sub.pin + 1)..c : InScope(s)}
      BY <1>1, <1>2, <2>2 DEF InScope
    <3> QED  BY <3>4, <3>5, <3>6
  <2>7. StreamResolves'
    BY <2>2 DEF StreamResolves
  <2> QED  BY <1>1, <2>3, <2>4, <2>5, <2>6, <2>7 DEF StreamShape
<1> QED  BY <1>11, <1>12, <1>13

\* The queue as a whole is taken.
LEMMA DrainKeeps ==
  ASSUME StreamInv, Drain
  PROVE  StreamInv'
<1> USE DEF StreamInv
<1>1. /\ ops' = ops /\ visible' = visible /\ WholeCommits'
      /\ UNCHANGED <<epoch, hist, published, held, retired, dead>>
  BY SameHistory DEF Drain, gcVars
<1>2. /\ sub \in Sub /\ sub.queue \in Seq(Nat) /\ sub.taken = <<>>
      /\ sub' = [sub EXCEPT !.taken = sub.queue, !.queue = <<>>]
  BY DEF StreamShape, StreamTypes, Sub, Drain
<1>3. /\ sub' \in Sub /\ sub'.queue = <<>> /\ sub'.taken = sub.queue /\ sub'.on = sub.on
      /\ sub'.dropped = sub.dropped /\ sub'.batch = sub.batch /\ sub'.pin = sub.pin
      /\ sub'.failed = sub.failed
  BY <1>2 DEF Sub
<1>4. StreamTypes'
  BY <1>1, <1>3 DEF StreamShape, StreamTypes
<1>5. Pinned'
  <2>1. Range(sub'.queue) = {}
    BY <1>3 DEF Range
  <2> QED  BY <1>1, <1>3, <2>1 DEF StreamShape, Pinned, Drain
<1>6. Condemned'
  BY <1>1, <1>3 DEF StreamShape, Condemned
<1>7. SubscriptionGapFree'
  <2>1. sub'.taken \o sub'.queue = sub.taken \o sub.queue
    BY <1>2, <1>3, ConcatEmptySeq
  <2> QED  BY <1>1, <1>3, <2>1 DEF SubscriptionGapFree, InScope
<1> QED  BY <1>1, <1>3, <1>4, <1>5, <1>6, <1>7 DEF StreamShape, StreamResolves

\* Every entry resolved can still be read, and the pin moves to the last one.
LEMMA ResolveKeeps ==
  ASSUME StreamInv, Resolve
  PROVE  StreamInv'
<1> USE DEF StreamInv
<1>1. /\ ops' = ops /\ visible' = visible /\ WholeCommits'
      /\ UNCHANGED <<epoch, hist, published, held, retired, dead>>
  BY SameHistory DEF Resolve, gcVars
<1>2. /\ sub \in Sub /\ sub.queue \in Seq(Nat) /\ sub.taken \in Seq(Nat) /\ sub.taken # <<>>
      /\ sub.pin \in Nat /\ published \in Nat
  BY HistoryTyped DEF StreamShape, StreamTypes, Sub, Resolve
<1>3. /\ \A s \in Range(sub.taken) \cup Range(sub.queue) : sub.on /\ s \in sub.pin + 1 .. published
      /\ sub.dropped => sub.queue = <<>>
      /\ sub.on => sub.pin <= published
      /\ \A d \in dead : d \in 1 .. visible /\ (sub.on => d <= sub.pin)
  BY DEF StreamShape, Pinned, Condemned
<1>4. ~ \E s \in Range(sub.taken) : ops[s].val # Absent /\ s \in dead
  BY <1>2, <1>3
<1> DEFINE l == Last(sub.taken)
<1>5. sub' = [sub EXCEPT !.taken = <<>>, !.batch = sub.taken, !.pin = l]
  BY <1>4 DEF Resolve, PinAfter
<1>6. l \in Range(sub.taken)
  <2>1. Len(sub.taken) \in 1 .. Len(sub.taken) /\ DOMAIN sub.taken = 1 .. Len(sub.taken)
    BY <1>2, LenProperties, EmptySeq
  <2> QED  BY <2>1 DEF Last, Range
<1>7. sub.on /\ l \in sub.pin + 1 .. published /\ l \in Nat
  BY <1>2, <1>3, <1>6
<1> HIDE DEF l
<1>8. /\ sub' \in Sub /\ sub'.taken = <<>> /\ sub'.batch = sub.taken /\ sub'.pin = l
      /\ sub'.queue = sub.queue /\ sub'.on = sub.on /\ sub'.dropped = sub.dropped
      /\ sub'.failed = sub.failed
  <2>1. <<>> \in Seq(Nat) /\ sub.taken \in Seq(Nat) /\ l \in Nat
    BY <1>2, <1>7
  <2> QED  BY <1>2, <1>5, <2>1 DEF Sub
<1>9. ASSUME ~sub.dropped
      PROVE  sub.queue = Ascending({s \in (l + 1)..published : InScope(s)})
  <2>1. sub.taken \o sub.queue = Ascending({s \in (sub.pin + 1)..published : InScope(s)})
    BY <1>7, <1>9 DEF SubscriptionGapFree
  <2> QED  BY <1>2, <2>1, AscendingShrinks DEF l
<1>10. StreamTypes'
  BY <1>1, <1>8 DEF StreamShape, StreamTypes
<1>11. Pinned'
  <2>1. Range(sub'.taken) = {}
    BY <1>8 DEF Range
  <2>2. \A s \in Range(sub.queue) : s \in l + 1 .. published
    <3>1. CASE sub.dropped
      <4>1. Range(sub.queue) = {}
        BY <1>3, <3>1 DEF Range
      <4> QED  BY <4>1
    <3>2. CASE ~sub.dropped
      BY <1>2, <1>7, <1>9, <3>2, AscendingMembers
    <3> QED  BY <3>1, <3>2
  <2>3. \A s \in Range(sub.taken) : s \in 1 .. published
    BY <1>2, <1>3
  <2>4. l <= published
    BY <1>2, <1>7
  <2> QED  BY <1>1, <1>3, <1>7, <1>8, <2>1, <2>2, <2>3, <2>4 DEF Pinned
<1>12. Condemned'
  <2>1. \A d \in dead : d \in 1 .. visible /\ d <= l
    BY <1>2, <1>3, <1>7
  <2> QED  BY <1>1, <1>8, <2>1 DEF StreamShape, Condemned
<1>13. SubscriptionGapFree'
  <2>1. SubscriptionGapFree' <=>
          (sub'.on /\ ~sub'.dropped =>
             sub'.taken \o sub'.queue
               = Ascending({s \in (sub'.pin + 1)..published' : ops'[s].key \in Scope}))
    BY DEF SubscriptionGapFree, InScope
  <2>2. {s \in (sub'.pin + 1)..published' : ops'[s].key \in Scope}
          = {s \in (l + 1)..published : InScope(s)}
    BY <1>1, <1>8 DEF InScope
  <2>3. sub'.taken \o sub'.queue = sub.queue
    BY <1>2, <1>8, ConcatEmptySeq
  <2> QED  BY <1>8, <1>9, <2>1, <2>2, <2>3
<1> QED  BY <1>1, <1>8, <1>10, <1>11, <1>12, <1>13 DEF StreamShape, StreamResolves

\* A subscription starts empty at what is visible, which is all published.
LEMMA SubscribesEmpty ==
  ASSUME StreamTypes, CanSubscribe
  PROVE  /\ Subscription \in Sub /\ Subscription.on /\ Subscription.pin = visible
         /\ Subscription.queue = <<>> /\ Subscription.taken = <<>> /\ Subscription.batch = <<>>
         /\ ~Subscription.dropped /\ ~Subscription.failed /\ published = visible
         /\ Ascending({s \in (visible + 1)..visible : InScope(s)}) = <<>>
<1>1. visible \in Nat /\ <<>> \in Seq(Nat)
  BY HistoryTyped
<1>2. {s \in (visible + 1)..visible : InScope(s)} = {}
  BY <1>1
<1>3. Ascending({}) = <<>>
  <2>1. Cardinality({}) = 0 /\ 1 .. 0 = {}
    BY FS_EmptySet
  <2> QED  BY <2>1 DEF Ascending
<1> QED  BY <1>1, <1>2, <1>3 DEF Subscription, NoSub, Sub, CanSubscribe

\* What a consumer does with its batch, its subscription and its snapshots.
LEMMA ConsumerKeeps ==
  ASSUME StreamInv, ConsumerStep
  PROVE  StreamInv'
<1> USE DEF StreamInv
<1>1. /\ ops' = ops /\ visible' = visible /\ WholeCommits'
      /\ UNCHANGED <<epoch, hist, published, retired, dead>> /\ held' \subseteq Nat
  BY SameHistory DEF ConsumerStep, gcVars
<1>2. /\ sub \in Sub /\ sub.batch \in Seq(Nat) /\ published \in Nat /\ visible \in Nat
      /\ <<>> \in Seq(Nat)
  BY HistoryTyped DEF StreamShape, StreamTypes, Sub
<1>3. ASSUME sub' \in Sub,
             sub'.on => \/ sub.on /\ sub'.pin = sub.pin
                        \/ sub'.pin = visible /\ published = visible,
             sub'.dropped => sub'.queue = <<>>,
             \A s \in Range(sub'.taken) \cup Range(sub'.queue) : sub'.on /\ s \in sub'.pin + 1 .. published,
             \A s \in Range(sub'.batch) : s \in 1 .. published,
             ~sub'.failed,
             sub'.on /\ ~sub'.dropped =>
               sub'.taken \o sub'.queue = Ascending({s \in (sub'.pin + 1)..published : InScope(s)})
      PROVE  StreamInv'
  <2>1. StreamTypes'
    BY <1>1, <1>3 DEF StreamShape, StreamTypes
  <2>2. Pinned'
    BY <1>1, <1>2, <1>3 DEF StreamShape, Pinned
  <2>3. Condemned'
    BY <1>1, <1>2, <1>3 DEF StreamShape, Condemned
  <2>4. SubscriptionGapFree' <=>
          (sub'.on /\ ~sub'.dropped =>
             sub'.taken \o sub'.queue
               = Ascending({s \in (sub'.pin + 1)..published' : ops'[s].key \in Scope}))
    BY DEF SubscriptionGapFree, InScope
  <2>5. {s \in (sub'.pin + 1)..published' : ops'[s].key \in Scope}
          = {s \in (sub'.pin + 1)..published : InScope(s)}
    BY <1>1 DEF InScope
  <2>6. SubscriptionGapFree'
    BY <1>3, <2>4, <2>5
  <2> QED  BY <1>1, <1>3, <2>1, <2>2, <2>3, <2>6 DEF StreamShape, StreamResolves
<1>4. CASE UNCHANGED sub
  <2>1. StreamTypes'
    BY <1>1, <1>4 DEF StreamShape, StreamTypes
  <2>2. Pinned' /\ Condemned'
    BY <1>1, <1>4 DEF StreamShape, Pinned, Condemned
  <2>3. SubscriptionGapFree'
    BY <1>1, <1>4 DEF SubscriptionGapFree, InScope
  <2> QED  BY <1>1, <1>4, <2>1, <2>2, <2>3 DEF StreamShape, StreamResolves
<1>5. ASSUME NEW b \in Seq(Nat), sub' = [sub EXCEPT !.batch = b],
             \A s \in Range(b) : s \in Range(sub.batch)
      PROVE  StreamInv'
  <2>1. /\ sub' \in Sub /\ sub'.batch = b /\ sub'.taken = sub.taken /\ sub'.queue = sub.queue
        /\ sub'.on = sub.on /\ sub'.pin = sub.pin /\ sub'.dropped = sub.dropped
        /\ sub'.failed = sub.failed
    BY <1>2, <1>5 DEF Sub
  <2>2. \A s \in Range(b) : s \in 1 .. published
    BY <1>5 DEF StreamShape, Pinned
  <2>3. {s \in (sub'.pin + 1)..published : InScope(s)} = {s \in (sub.pin + 1)..published : InScope(s)}
    BY <2>1
  <2>4. sub'.on /\ ~sub'.dropped =>
          sub'.taken \o sub'.queue = Ascending({s \in (sub'.pin + 1)..published : InScope(s)})
    BY <2>1, <2>3 DEF SubscriptionGapFree
  <2>5. /\ sub'.dropped => sub'.queue = <<>>
        /\ \A s \in Range(sub'.taken) \cup Range(sub'.queue) : sub'.on /\ s \in sub'.pin + 1 .. published
        /\ ~sub'.failed
    BY <2>1 DEF StreamShape, Pinned, StreamResolves
  <2>6. \A s \in Range(sub'.batch) : s \in 1 .. published
    BY <2>1, <2>2
  <2>7. sub'.on => sub'.on /\ sub'.pin = sub.pin /\ sub.on
    BY <2>1
  <2> QED  BY <1>3, <2>1, <2>4, <2>5, <2>6, <2>7
<1>6. CASE sub.batch # <<>> /\ sub' \in {[sub EXCEPT !.batch = <<>>], [sub EXCEPT !.batch = Tail(@)]}
  <2>1. Range(<<>>) = {} /\ <<>> \in Seq(Nat)
    BY DEF Range
  <2>2. Tail(sub.batch) \in Seq(Nat) /\ \A s \in Range(Tail(sub.batch)) : s \in Range(sub.batch)
    <3>1. /\ Tail(sub.batch) \in Seq(Nat) /\ Len(Tail(sub.batch)) = Len(sub.batch) - 1
          /\ \A i \in 1 .. Len(Tail(sub.batch)) : Tail(sub.batch)[i] = sub.batch[i + 1]
      BY <1>2, <1>6, HeadTailProperties
    <3>2. /\ DOMAIN Tail(sub.batch) = 1 .. Len(Tail(sub.batch)) /\ Len(Tail(sub.batch)) \in Nat
          /\ DOMAIN sub.batch = 1 .. Len(sub.batch) /\ Len(sub.batch) \in Nat
      BY <1>2, <3>1, LenProperties
    <3>3. \A i \in DOMAIN Tail(sub.batch) : i + 1 \in DOMAIN sub.batch /\ Tail(sub.batch)[i] = sub.batch[i + 1]
      BY <3>1, <3>2
    <3> QED  BY <3>1, <3>3 DEF Range
  <2> DEFINE e == <<>>
             t == Tail(sub.batch)
  <2>3. sub' = [sub EXCEPT !.batch = e] \/ sub' = [sub EXCEPT !.batch = t]
    BY <1>6
  <2>4. e \in Seq(Nat) /\ \A s \in Range(e) : s \in Range(sub.batch)
    BY <2>1
  <2>5. t \in Seq(Nat) /\ \A s \in Range(t) : s \in Range(sub.batch)
    BY <2>2
  <2> HIDE DEF e, t
  <2> QED  BY <1>5, <2>3, <2>4, <2>5
<1>7. CASE CanSubscribe /\ sub' = Subscription
  <2>1. /\ sub' \in Sub /\ sub'.on /\ sub'.pin = visible /\ published = visible
        /\ sub'.queue = <<>> /\ sub'.taken = <<>> /\ sub'.batch = <<>>
        /\ ~sub'.dropped /\ ~sub'.failed
        /\ Ascending({s \in (visible + 1)..visible : InScope(s)}) = <<>>
    BY <1>7, SubscribesEmpty DEF StreamShape
  <2>2. Range(<<>>) = {} /\ <<>> \o <<>> = <<>>
    BY DEF Range
  <2>3. sub'.taken \o sub'.queue = Ascending({s \in (sub'.pin + 1)..published : InScope(s)})
    BY <2>1, <2>2
  <2> QED  BY <1>2, <1>3, <2>1, <2>2, <2>3
<1>8. CASE sub' \in {NoSub, [NoSub EXCEPT !.failed = sub.failed]}
  <2>1. ~sub.failed
    BY DEF StreamResolves
  <2>2. sub' = NoSub \/ sub' = [NoSub EXCEPT !.failed = FALSE]
    BY <1>2, <1>8, <2>1 DEF Sub
  <2>3. /\ sub' \in Sub /\ ~sub'.on /\ sub'.queue = <<>> /\ sub'.taken = <<>> /\ sub'.batch = <<>>
        /\ ~sub'.dropped /\ ~sub'.failed
    <3>1. /\ NoSub \in Sub /\ ~NoSub.on /\ NoSub.queue = <<>> /\ NoSub.taken = <<>>
          /\ NoSub.batch = <<>> /\ ~NoSub.dropped /\ ~NoSub.failed
      BY <1>2 DEF Sub, NoSub
    <3>2. \A x \in Sub :
            LET y == [x EXCEPT !.failed = FALSE]
            IN  /\ y \in Sub /\ y.on = x.on /\ y.queue = x.queue /\ y.taken = x.taken
                /\ y.batch = x.batch /\ y.dropped = x.dropped /\ ~y.failed
      BY DEF Sub
    <3> QED  BY <2>2, <3>1, <3>2
  <2>4. Range(<<>>) = {}
    BY DEF Range
  <2> QED  BY <1>3, <2>3, <2>4
<1> QED  BY <1>4, <1>6, <1>7, <1>8 DEF ConsumerStep

\* A prefix that ends where a commit ends holds whole commits.
LEMMA WholePrefix ==
  ASSUME NEW h \in Seq(Op), WholeIn(h), NEW cut \in {0} \cup {h[s].commit : s \in 1 .. Len(h)}
  PROVE  /\ cut \in 0 .. Len(h) /\ SubSeq(h, 1, cut) \in Seq(Op) /\ Len(SubSeq(h, 1, cut)) = cut
         /\ WholeIn(SubSeq(h, 1, cut))
<1> DEFINE u == SubSeq(h, 1, cut)
<1>1. Len(h) \in Nat
  BY LenProperties
<1>2. \A s \in 1 .. Len(h) : h[s].commit \in s .. Len(h) /\ \A t \in s .. h[s].commit : h[t].commit = h[s].commit
  BY DEF WholeIn
<1>3. cut \in 0 .. Len(h)
  <2>1. CASE cut = 0
    BY <1>1, <2>1
  <2>2. CASE cut \in {h[s].commit : s \in 1 .. Len(h)}
    <3>1. PICK s \in 1 .. Len(h) : cut = h[s].commit
      BY <2>2
    <3> QED  BY <1>1, <1>2, <3>1
  <2> QED  BY <2>1, <2>2
<1>4. u \in Seq(Op) /\ Len(u) = cut /\ \A s \in 1 .. cut : u[s] = h[s]
  <2>1. 1 \in 1 .. Len(h) + 1 /\ cut \in 1 - 1 .. Len(h)
    BY <1>1, <1>3
  <2>2. /\ u \in Seq(Op)
        /\ Len(u) = IF 1 <= cut THEN cut - 1 + 1 ELSE 0
        /\ \A s \in 1 .. cut - 1 + 1 : u[s] = h[1 + s - 1]
    BY <2>1, SubSeqProperties
  <2> HIDE DEF u
  <2>3. Len(u) = cut
    BY <1>1, <1>3, <2>2
  <2>4. \A s \in 1 .. cut : s \in 1 .. cut - 1 + 1 /\ 1 + s - 1 = s
    BY <1>1, <1>3
  <2> QED  BY <2>2, <2>3, <2>4
<1>5. \A s \in 1 .. cut : h[s].commit \in s .. cut
  <2> SUFFICES ASSUME NEW s \in 1 .. cut, h[s].commit > cut PROVE FALSE
    BY <1>1, <1>2, <1>3
  <2>1. cut \in s .. h[s].commit /\ cut # 0
    BY <1>1, <1>2, <1>3
  <2>2. h[cut].commit = h[s].commit
    BY <1>1, <1>2, <1>3, <2>1
  <2>3. PICK c \in 1 .. Len(h) : cut = h[c].commit
    BY <2>1
  <2>4. h[cut].commit = cut
    BY <1>1, <1>2, <2>3
  <2> QED  BY <1>1, <1>2, <1>3, <2>2, <2>4
<1> HIDE DEF u
<1>6. WholeIn(u)
  <2> SUFFICES ASSUME NEW s \in 1 .. cut
               PROVE  u[s].commit \in s .. cut /\ \A t \in s .. u[s].commit : u[t].commit = u[s].commit
    BY <1>4 DEF WholeIn
  <2>1. u[s] = h[s] /\ h[s].commit \in s .. cut /\ s \in 1 .. Len(h)
    BY <1>1, <1>3, <1>4, <1>5
  <2>2. \A t \in s .. h[s].commit : t \in 1 .. cut
    BY <1>1, <1>3, <2>1
  <2>3. \A t \in s .. h[s].commit : u[t] = h[t] /\ h[t].commit = h[s].commit
    BY <1>2, <1>4, <2>1, <2>2
  <2>4. s .. u[s].commit = s .. h[s].commit
    BY <2>1
  <2> QED  BY <2>1, <2>3, <2>4
<1> QED  BY <1>3, <1>4, <1>6 DEF u

\* The new life is a prefix of the old one, and nobody follows it yet.
LEMMA NewLifeKeeps ==
  ASSUME StreamInv, NEW cut \in {0} \cup {ops[s].commit : s \in 1 .. visible}, NewLife(cut)
  PROVE  StreamInv'
<1> USE DEF StreamInv
<1>1. /\ ops \in Seq(Op) /\ visible \in Nat /\ visible = Len(ops)
      /\ hist \in Seq(Seq(Op)) /\ epoch = Len(hist) /\ epoch \in Nat
  BY HistoryTyped DEF StreamShape, StreamTypes
<1> DEFINE new == SubSeq(ops, 1, cut)
<1>2. cut \in 0 .. visible /\ new \in Seq(Op) /\ Len(new) = cut /\ WholeIn(new)
  BY <1>1, WholePrefix DEF StreamShape, WholeCommits
<1>3. /\ hist' = Append(hist, new) /\ epoch' = epoch + 1 /\ published' = cut /\ sub' = NoSub
      /\ held' = held /\ retired' = {} /\ dead' = {}
  BY DEF NewLife, gcVars
<1> HIDE DEF new
<1>4. hist' \in Seq(Seq(Op)) /\ Len(hist') = Len(hist) + 1 /\ hist'[Len(hist) + 1] = new
  <2> DEFINE S == Seq(Op)
  <2>1. hist \in Seq(S) /\ new \in S
    BY <1>1, <1>2
  <2> HIDE DEF S
  <2>2. /\ Append(hist, new) \in Seq(S) /\ Len(Append(hist, new)) = Len(hist) + 1
        /\ Append(hist, new)[Len(hist) + 1] = new
    BY <2>1, AppendProperties
  <2> QED  BY <1>3, <2>2 DEF S
<1>5. ops' = new /\ visible' = cut
  BY <1>1, <1>2, <1>3, <1>4 DEF ops, visible
<1>6. /\ sub' \in Sub /\ ~sub'.on /\ sub'.queue = <<>> /\ sub'.taken = <<>> /\ sub'.batch = <<>>
      /\ ~sub'.dropped /\ ~sub'.failed
  <2>1. <<>> \in Seq(Nat)
    OBVIOUS
  <2> QED  BY <1>3, <2>1 DEF NoSub, Sub
<1>7. StreamTypes'
  <2>1. epoch' \in Nat \ {0} /\ epoch' = Len(hist')
    BY <1>1, <1>3, <1>4
  <2>2. published' \in 0 .. visible'
    BY <1>1, <1>2, <1>3, <1>5
  <2> QED  BY <1>3, <1>4, <1>6, <2>1, <2>2 DEF StreamShape, StreamTypes
<1>8. WholeCommits'
  <2>1. WholeCommits' <=> WholeIn(ops')
    BY DEF WholeCommits, WholeIn
  <2> QED  BY <1>2, <1>5, <2>1
<1>9. Pinned'
  <2>1. Range(<<>>) = {}
    BY DEF Range
  <2> QED  BY <1>6, <2>1 DEF Pinned
<1>10. Condemned'
  BY <1>3 DEF Condemned
<1>11. SubscriptionGapFree' /\ StreamResolves'
  BY <1>6 DEF SubscriptionGapFree, StreamResolves
<1> QED  BY <1>7, <1>8, <1>9, <1>10, <1>11 DEF StreamShape

-----------------------------------------------------------------------------
(* The theorems about a stream                                             *)

\* An empty history without a subscription.
LEMMA StreamStarts ==
  ASSUME StreamInit
  PROVE  StreamInv
<1>1. /\ hist = <<<<>>>> /\ epoch = 1 /\ published = 0 /\ sub = NoSub /\ held = {}
      /\ retired = {} /\ dead = {}
  BY DEF StreamInit
<1>2. ops = <<>> /\ visible = 0
  BY <1>1 DEF ops, visible
<1>3. hist \in Seq(Seq(Op)) /\ Len(hist) = 1
  <2>1. <<>> \in Seq(Op)
    OBVIOUS
  <2> DEFINE S == Seq(Op)
  <2>2. <<>> \in S
    BY <2>1
  <2> HIDE DEF S
  <2>3. <<<<>>>> \in Seq(S) /\ Len(<<<<>>>>) = 1
    BY <2>2
  <2> QED  BY <1>1, <2>3 DEF S
<1>4. /\ sub \in Sub /\ ~sub.on /\ sub.queue = <<>> /\ sub.taken = <<>> /\ sub.batch = <<>>
      /\ ~sub.dropped /\ ~sub.failed
  <2>1. <<>> \in Seq(Nat)
    OBVIOUS
  <2> QED  BY <1>1, <2>1 DEF NoSub, Sub
<1>5. StreamTypes
  BY <1>1, <1>2, <1>3, <1>4 DEF StreamTypes
<1>6. WholeCommits
  BY <1>2 DEF WholeCommits, WholeIn
<1>7. Pinned
  <2>1. Range(<<>>) = {}
    BY DEF Range
  <2> QED  BY <1>4, <2>1 DEF Pinned
<1> QED  BY <1>1, <1>4, <1>5, <1>6, <1>7
         DEF StreamInv, StreamShape, Condemned, SubscriptionGapFree, StreamResolves

\* Every step of the write path, GC and a consumer keeps the invariant.
LEMMA StreamStep ==
  ASSUME StreamInv, [StreamNext]_streamVars
  PROVE  StreamInv'
<1>1. ASSUME NEW g \in WholeGroups, Commit(g) PROVE StreamInv'
  BY <1>1, CommitKeeps
<1>2. CASE Publish
  BY <1>2, PublishKeeps
<1>3. CASE GarbageCollection
  BY <1>3, FlushKeeps, RetireKeeps, ReclaimKeeps DEF GarbageCollection
<1>4. CASE Drain
  BY <1>4, DrainKeeps
<1>5. CASE Resolve
  BY <1>5, ResolveKeeps
<1>6. CASE ConsumerStep
  BY <1>6, ConsumerKeeps
<1>7. ASSUME NEW cut \in {0} \cup {ops[s].commit : s \in 1 .. visible}, NewLife(cut)
      PROVE  StreamInv'
  BY <1>7, NewLifeKeeps
<1>8. CASE UNCHANGED streamVars
  <2>1. ConsumerStep
    BY <1>8 DEF streamVars, gcVars, ConsumerStep, StreamInv, StreamShape, StreamTypes
  <2> QED  BY <2>1, ConsumerKeeps
<1> QED  BY <1>1, <1>2, <1>3, <1>4, <1>5, <1>6, <1>7, <1>8 DEF StreamNext

\* Whatever a consumer does with what it is handed, however group commits,
\* value-log GC and restarts come in between, the subscription's invariant
\* holds (offer, recv_timeout, resolve, process_retired).
THEOREM StreamAlways == StreamSpec => []StreamInv
<1>1. StreamInit => StreamInv
  BY StreamStarts
<1>2. StreamInv /\ [StreamNext]_streamVars => StreamInv'
  BY StreamStep
<1> QED  BY <1>1, <1>2, PTL DEF StreamSpec

-----------------------------------------------------------------------------
(* The consumers of MCConsumers                                            *)

\* What the pump has registered are sequence numbers.
Pump == [pc : {"off", "attach", "recv", "items", "ended"}, puts : BOOLEAN, start : Nat,
         hold : SUBSET Nat, commit : SUBSET Nat, tail : Nat, lost : BOOLEAN]
FeedHolds ==
    /\ feed \in Pump
    /\ chan \in Seq([seq : Nat, commit : Nat]) /\ hand \in Seq([seq : Nat, commit : Nat])

\* Where a new life may begin no GC runs.
Attached ==
    /\ mode \in Modes
    /\ mode \in {"edge", "journal"} => retired = {} /\ dead = {}
    /\ FeedHolds

\* The writer's groups are whole.
LEMMA WriterCommits ==
  ASSUME Attached, Writer
  PROVE  \E g \in WholeGroups : Commit(g)
<1> DEFINE OpOf == [key : Keys, put : BOOLEAN, last : BOOLEAN]
<1>1. PICK g \in GroupsFor(mode) : Commit(g)
  BY DEF Writer
<1>2. Put(1) \in OpOf /\ Put(2) \in OpOf /\ Put(3) \in OpOf /\ Del(1) \in OpOf /\ More(Put(2)) \in OpOf
  BY ConsumersAssumption DEF Put, Del, More
<1>3. Put(1).last /\ Put(2).last /\ Put(3).last /\ Del(1).last
  BY DEF Put, Del
<1> HIDE DEF OpOf
<1>4. g \in {<<Put(1)>>, <<Del(1)>>, <<Del(1), Put(2)>>, <<More(Put(2)), Put(3)>>, <<Put(3)>>}
  BY <1>1, ConsumersAssumption DEF GroupsFor, GroupsOf, AllGroups, Attached
<1>5. g \in Seq(OpOf) /\ g # <<>> /\ g[Len(g)].last
  <2>1. ASSUME NEW a \in OpOf, a.last, g = <<a>>
        PROVE  g \in Seq(OpOf) /\ g # <<>> /\ g[Len(g)].last
    BY <2>1
  <2>2. ASSUME NEW a \in OpOf, NEW b \in OpOf, b.last, g = <<a, b>>
        PROVE  g \in Seq(OpOf) /\ g # <<>> /\ g[Len(g)].last
    BY <2>2
  <2> QED  BY <1>2, <1>3, <1>4, <2>1, <2>2
<1>6. g \in WholeGroups
  BY <1>5 DEF WholeGroups, OpOf
<1> QED  BY <1>1, <1>6

\* A step of the edge's master, server or driver.
LEMMA EdgeSteps ==
  ASSUME StreamInv, Attached, EdgeFlush \/ EdgeFault \/ EdgeForwards \/ EdgeDrives \/ EdgePings
  PROVE  StreamNext /\ UNCHANGED <<retired, dead, mode, feedVars>>
<1> USE DEF gcVars
<1>1. CASE EdgeFlush
  BY <1>1 DEF EdgeFlush, WithEdge, FlushTree, StreamNext, GarbageCollection, Flush
<1>2. ASSUME UNCHANGED <<epoch, hist, published, flushed, held, gcVars>>,
             \/ UNCHANGED sub
             \/ sub.batch # <<>> /\ sub' = [sub EXCEPT !.batch = <<>>]
             \/ CanSubscribe /\ sub' = Subscription
             \/ sub' = NoSub
      PROVE  StreamNext
  <2>1. held' \subseteq Nat
    BY <1>2 DEF StreamInv, StreamShape, StreamTypes
  <2>2. ConsumerStep
    BY <1>2, <2>1 DEF ConsumerStep
  <2> QED  BY <2>2 DEF StreamNext
<1>3. CASE EdgeFault
  <2>1. CASE CompactTree
    BY <1>2, <1>3, <2>1 DEF EdgeFault, WithEdge, CompactTree, streamVars
  <2>2. CASE Break
    BY <1>2, <1>3, <2>2 DEF EdgeFault, WithEdge, Break
  <2>3. ASSUME NEW cut \in CommitPoints(ops), Remint(cut) \/ MasterCrash(cut)
        PROVE  StreamNext /\ UNCHANGED <<retired, dead, mode, feedVars>>
    <3>1. DOMAIN ops = 1 .. visible
      BY HistoryTyped, LenProperties DEF StreamInv, StreamShape
    <3>2. cut \in {0} \cup {ops[s].commit : s \in 1 .. visible}
      BY <2>3, <3>1 DEF CommitPoints
    <3>3. NewLife(cut) /\ UNCHANGED <<retired, dead, mode, feedVars>>
      BY <1>3, <2>3 DEF EdgeFault, WithEdge, Attached, Remint, MasterCrash, NextLife, NewLife
    <3> QED  BY <3>2, <3>3 DEF StreamNext
  <2> QED  BY <1>3, <2>1, <2>2, <2>3 DEF EdgeFault, EdgeDisturbances
<1>4. CASE EdgeForwards
  <2>1. CASE Forward
    BY <1>2, <1>4, <2>1 DEF EdgeForwards, WithEdge, Forward
  <2>2. CASE ForwardLagged
    BY <1>2, <1>4, <2>2 DEF EdgeForwards, WithEdge, ForwardLagged
  <2> QED  BY <1>4, <2>1, <2>2 DEF EdgeForwards, EdgeServer
<1>5. CASE EdgePings
  BY <1>2, <1>5 DEF EdgePings, WithEdge, Ping, masterVars, streamVars
<1>6. CASE EdgeDrives
  <2>1. UNCHANGED <<mode, feedVars>>
    BY <1>6 DEF EdgeDrives, WithEdge
  <2>2. CASE Reopen \/ Reattach
    BY <1>2, <2>1, <2>2 DEF Reopen, Reattach, Subscribes
  <2>3. CASE PullFails
    BY <1>2, <2>1, <2>3 DEF PullFails
  <2>4. CASE \/ ApplyBatch \/ Advance \/ StreamEnds \/ PullFlushes \/ PullSnapshot
             \/ Fetch \/ FetchGone \/ FetchTorn \/ Install \/ Announce
    BY <1>2, <2>1, <2>4
       DEF ApplyBatch, Advance, StreamEnds, PullFlushes, PullSnapshot, Fetch, FetchGone,
           FetchTorn, Install, Announce, masterVars, streamVars
  <2> QED  BY <1>6, <2>2, <2>3, <2>4 DEF EdgeDrives, EdgeDriver
<1> QED  BY <1>1, <1>3, <1>4, <1>5, <1>6

\* A step of the journal's drainer, or what befalls it.
LEMMA JournalSteps ==
  ASSUME StreamInv, Attached, JournalRuns \/ JournalEvent
  PROVE  StreamNext /\ UNCHANGED <<retired, dead, mode, feedVars>>
<1> USE DEF gcVars, sourceVars
<1>1. UNCHANGED <<mode, feedVars>> /\ mode = "journal"
  BY DEF JournalRuns, JournalEvent, WithJournal
<1>2. ASSUME UNCHANGED <<epoch, hist, published, flushed, held, gcVars>>,
             \/ UNCHANGED sub
             \/ sub.batch # <<>> /\ sub' = [sub EXCEPT !.batch = Tail(@)]
             \/ CanSubscribe /\ sub' = Subscription
             \/ sub' = NoSub
      PROVE  StreamNext
  <2>1. held' \subseteq Nat
    BY <1>2 DEF StreamInv, StreamShape, StreamTypes
  <2>2. ConsumerStep
    BY <1>2, <2>1 DEF ConsumerStep
  <2> QED  BY <2>2 DEF StreamNext
<1>3. CASE \/ Open \/ Rotate \/ SyncHeader \/ WriteBase \/ SyncBase \/ Prune \/ SyncDeltas \/ Compact
  BY <1>1, <1>2, <1>3
     DEF Open, Rotate, SyncHeader, WriteBase, SyncBase, Prune, SyncDeltas, Compact, streamVars
<1>4. CASE SubscribeForBase \/ HealLag \/ AppendDelta \/ Detach \/ Fail
  BY <1>1, <1>2, <1>4 DEF SubscribeForBase, HealLag, AppendDelta, Detach, Fail
<1>5. CASE Receive
  BY <1>1, <1>5 DEF Receive, StreamNext, Drain, Resolve
<1>6. ASSUME NEW cut \in {0} \cup {ops[s].commit : s \in 1..visible}, Crash(cut)
      PROVE  StreamNext /\ UNCHANGED <<retired, dead>>
  <2>1. NewLife(cut) /\ UNCHANGED <<retired, dead>>
    BY <1>1, <1>6 DEF Attached, Crash, NewLife
  <2> QED  BY <1>6, <2>1 DEF StreamNext
<1> QED  BY <1>1, <1>3, <1>4, <1>5, <1>6 DEF JournalRuns, JournalEvent, JournalStep, JournalEvents

\* A step of a program that uses the subscription itself.
LEMMA DirectSteps ==
  ASSUME StreamInv, DirectUser
  PROVE  StreamNext /\ UNCHANGED <<retired, dead, mode, feedVars>>
<1> USE DEF gcVars
<1>1. UNCHANGED <<mode, feedVars>> /\ SubscriberNext
  BY DEF DirectUser, Alone
<1>2. held \subseteq Nat
  BY DEF StreamInv, StreamShape, StreamTypes
<1>3. CASE Drain \/ Resolve
  BY <1>1, <1>3 DEF Drain, Resolve, StreamNext
<1>4. CASE Subscribe \/ Deliver \/ Unsubscribe
  <2>1. ConsumerStep /\ UNCHANGED <<retired, dead>>
    BY <1>2, <1>4 DEF Subscribe, Deliver, Unsubscribe, ConsumerStep
  <2> QED  BY <1>1, <2>1 DEF StreamNext
<1> QED  BY <1>1, <1>3, <1>4 DEF SubscriberNext

-----------------------------------------------------------------------------
(* The feed's pump                                                         *)

\* Every snapshot the pump holds is a sequence number.
LEMMA HoldingNumbers ==
  ASSUME NEW f, f.hold \cup f.commit \subseteq Nat,
         NEW c \in Seq([seq : Nat, commit : Nat]), NEW h \in Seq([seq : Nat, commit : Nat])
  PROVE  Holding(f, c, h) \subseteq Nat
<1> DEFINE Item == [seq : Nat, commit : Nat]
<1>1. c \in Seq(Item) /\ h \in Seq(Item)
  OBVIOUS
<1> HIDE DEF Item
<1>2. \A i \in Range(c) \cup Range(h) : i \in Item
  BY <1>1, ElementOfSeq, LenProperties DEF Range
<1>3. \A i \in Item : i.commit \in Nat
  BY DEF Item
<1> QED  BY <1>2, <1>3 DEF Holding

\* Where a batch's entry stands, and where its commit ends.
LEMMA BatchNumbers ==
  ASSUME StreamInv, sub.batch # <<>>
  PROVE  /\ \A s \in Range(sub.batch) : s \in 1 .. visible /\ ops[s].commit \in s .. visible
         /\ Head(sub.batch) \in Range(sub.batch) /\ Last(sub.batch) \in Range(sub.batch)
         /\ visible \in Nat
<1>1. sub.batch \in Seq(Nat) /\ published \in 0 .. visible /\ visible \in Nat /\ visible = Len(ops)
  BY HistoryTyped DEF StreamInv, StreamShape, StreamTypes, Sub
<1>2. \A s \in Range(sub.batch) : s \in 1 .. visible
  BY <1>1 DEF StreamInv, StreamShape, Pinned
<1>3. \A s \in 1 .. visible : ops[s].commit \in s .. visible
  BY <1>1 DEF StreamInv, StreamShape, WholeCommits, WholeIn
<1>4. 1 \in DOMAIN sub.batch /\ Len(sub.batch) \in DOMAIN sub.batch /\ Head(sub.batch) = sub.batch[1]
  BY <1>1, LenProperties, EmptySeq, HeadTailProperties
<1>5. Head(sub.batch) \in Range(sub.batch) /\ Last(sub.batch) \in Range(sub.batch)
  BY <1>4 DEF Range, Last
<1> QED  BY <1>1, <1>2, <1>3, <1>5

\* A step of the GraphQL pump or its client is one of a consumer.
LEMMA FeedSteps ==
  ASSUME StreamInv, Attached, FeedRuns
  PROVE  StreamNext /\ UNCHANGED <<retired, dead, mode>> /\ FeedHolds'
<1> USE DEF gcVars, feedSource
<1> DEFINE Item == [seq : Nat, commit : Nat]
<1>1. UNCHANGED mode /\ FeedNext
  BY DEF FeedRuns, WithFeed
<1>2. /\ feed \in Pump /\ feed.start \in Nat /\ feed.tail \in Nat
      /\ chan \in Seq(Item) /\ hand \in Seq(Item) /\ held \subseteq Nat /\ visible \in Nat
  BY HistoryTyped DEF Attached, FeedHolds, Pump, StreamInv, StreamShape, StreamTypes
<1>3. ASSUME FeedHolds', held' = held \/ held' = Holding(feed', chan', hand') \/ held' = {},
             UNCHANGED <<epoch, hist, published, flushed, retired, dead>>,
             \/ UNCHANGED sub
             \/ sub.batch # <<>> /\ sub' = [sub EXCEPT !.batch = Tail(@)]
             \/ CanSubscribe /\ sub' = Subscription
             \/ sub' = NoSub
      PROVE  StreamNext
  <2>1. held' \subseteq Nat
    <3>1. Holding(feed', chan', hand') \subseteq Nat
      BY <1>3, HoldingNumbers DEF FeedHolds, Pump
    <3> QED  BY <1>2, <1>3, <3>1
  <2>2. ConsumerStep
    BY <1>3, <2>1 DEF ConsumerStep
  <2> QED  BY <2>2 DEF StreamNext
<1>4. CASE FeedSubscribe
  <2>1. feed' = [feed EXCEPT !.pc = "attach", !.start = visible] /\ UNCHANGED <<chan, hand>>
    BY <1>4 DEF FeedSubscribe
  <2>2. FeedHolds'
    BY <1>2, <2>1 DEF FeedHolds, Pump
  <2> QED  BY <1>1, <1>3, <1>4, <2>2 DEF FeedSubscribe
<1>5. ASSUME NEW lost \in BOOLEAN, Ended(lost) PROVE FeedHolds' /\ sub' = NoSub
  <2>1. /\ feed' = [feed EXCEPT !.pc = "ended", !.hold = Nothing, !.commit = Nothing, !.lost = lost]
        /\ UNCHANGED <<chan, hand>> /\ sub' = NoSub
    BY <1>5 DEF Ended
  <2> QED  BY <1>2, <2>1 DEF FeedHolds, Pump, Nothing
<1>6. CASE FeedAttach
  <2>1. FeedHolds' /\ (UNCHANGED sub \/ sub' = NoSub)
    <3>1. CASE Registrable(feed.start)
      <4> DEFINE item == [seq |-> feed.start, commit |-> feed.start]
      <4>1. /\ feed' = [feed EXCEPT !.pc = "recv", !.hold = {feed.start}]
            /\ chan' = <<item>> /\ UNCHANGED <<sub, hand>>
        BY <1>6, <3>1 DEF FeedAttach
      <4>2. item \in Item
        BY <1>2
      <4> HIDE DEF item, Item
      <4>3. chan' \in Seq(Item) /\ hand' \in Seq(Item)
        BY <1>2, <4>1, <4>2
      <4>4. FeedHolds'
        BY <1>2, <4>1, <4>3 DEF FeedHolds, Pump, Item
      <4> QED  BY <4>1, <4>4
    <3>2. CASE ~Registrable(feed.start)
      BY <1>5, <1>6, <3>2 DEF FeedAttach
    <3> QED  BY <3>1, <3>2
  <2> QED  BY <1>1, <1>3, <1>6, <2>1 DEF FeedAttach
<1>7. CASE FeedReceive
  <2>1. FeedHolds'
    BY <1>7 DEF FeedReceive, feedVars, FeedHolds, Attached
  <2> QED  BY <1>1, <1>7, <2>1 DEF FeedReceive, StreamNext, Drain, Resolve
<1>8. CASE FeedItem
  <2> DEFINE s == Head(sub.batch)
             c == ops[s].commit
             l == ops[Last(sub.batch)].commit
             next == [feed EXCEPT !.pc = "items", !.tail = l]
             item == [seq |-> s, commit |-> c]
  <2>1. s \in Nat /\ c \in Nat /\ l \in Nat /\ item \in Item /\ sub.batch # <<>>
    BY <1>8, BatchNumbers DEF FeedItem
  <2>2. CASE Filtered(s)
    <3>1. feed' = next /\ sub' = [sub EXCEPT !.batch = Tail(@)] /\ UNCHANGED <<chan, hand>>
      BY <1>8, <2>2 DEF FeedItem
    <3> HIDE DEF s, c, l, item
    <3>2. FeedHolds'
      BY <1>2, <2>1, <3>1 DEF FeedHolds, Pump
    <3> QED  BY <1>1, <1>3, <1>8, <2>1, <3>1, <3>2 DEF FeedItem
  <2>3. CASE ~Filtered(s) /\ (c \in feed.commit \/ Registrable(c))
    <3>1. /\ feed' = [next EXCEPT !.commit = {c}] /\ chan' = Append(chan, item)
          /\ sub' = [sub EXCEPT !.batch = Tail(@)] /\ UNCHANGED hand
      BY <1>8, <2>3 DEF FeedItem
    <3> HIDE DEF s, c, l, item, Item
    <3>2. chan' \in Seq(Item) /\ hand' \in Seq(Item)
      BY <1>2, <2>1, <3>1, AppendProperties
    <3>3. FeedHolds'
      BY <1>2, <2>1, <3>1, <3>2 DEF FeedHolds, Pump, Item
    <3> QED  BY <1>1, <1>3, <1>8, <2>1, <3>1, <3>3 DEF FeedItem
  <2>4. CASE ~Filtered(s) /\ ~(c \in feed.commit \/ Registrable(c))
    <3>1. Ended(TRUE)
      BY <1>8, <2>4 DEF FeedItem
    <3> QED  BY <1>1, <1>3, <1>5, <1>8, <3>1 DEF FeedItem
  <2> QED  BY <2>2, <2>3, <2>4
<1>9. CASE FeedRoll
  <2>1. FeedHolds' /\ (UNCHANGED sub \/ sub' = NoSub)
    <3>1. CASE feed.tail \in feed.commit \/ Registrable(feed.tail)
      <4>1. /\ feed' = [feed EXCEPT !.pc = "recv", !.hold = {feed.tail}, !.commit = {}]
            /\ UNCHANGED <<sub, chan, hand>>
        BY <1>9, <3>1 DEF FeedRoll, Rolled, Nothing
      <4>2. FeedHolds'
        BY <1>2, <4>1 DEF FeedHolds, Pump
      <4> QED  BY <4>1, <4>2
    <3>2. CASE ~(feed.tail \in feed.commit \/ Registrable(feed.tail))
      BY <1>5, <1>9, <3>2 DEF FeedRoll
    <3> QED  BY <3>1, <3>2
  <2> QED  BY <1>1, <1>3, <1>9, <2>1 DEF FeedRoll
<1>10. CASE FeedEnds
  <2>1. Ended(FALSE)
    BY <1>10 DEF FeedEnds
  <2> QED  BY <1>1, <1>3, <1>5, <1>10, <2>1 DEF FeedEnds
<1>11. CASE FeedLeave
  <2>1. /\ feed' = [feed EXCEPT !.pc = "ended", !.hold = Nothing, !.commit = Nothing]
        /\ chan' = <<>> /\ hand' = <<>>
    BY <1>11 DEF FeedLeave
  <2>2. FeedHolds'
    <3>1. <<>> \in Seq([seq : Nat, commit : Nat])
      OBVIOUS
    <3>2. feed' \in Pump
      BY <1>2, <2>1 DEF Pump, Nothing
    <3> QED  BY <2>1, <3>1, <3>2 DEF FeedHolds, Pump
  <2> QED  BY <1>1, <1>3, <1>11, <2>2 DEF FeedLeave
<1>12. CASE FeedTake
  <2>1. hand' = <<Head(chan)>> /\ chan' = Tail(chan) /\ feed' = feed /\ chan # <<>>
    BY <1>12 DEF FeedTake
  <2> HIDE DEF Item
  <2>2. chan' \in Seq(Item) /\ hand' \in Seq(Item)
    BY <1>2, <2>1, HeadTailProperties
  <2>3. FeedHolds'
    BY <1>2, <2>1, <2>2 DEF FeedHolds, Pump, Item
  <2> QED  BY <1>1, <1>3, <1>12, <2>3 DEF FeedTake
<1>13. CASE FeedDone
  <2>1. hand' = <<>> /\ chan' = chan /\ feed' = feed
    BY <1>13 DEF FeedDone
  <2>2. FeedHolds'
    BY <1>2, <2>1 DEF FeedHolds, Pump
  <2> QED  BY <1>1, <1>3, <1>13, <2>2 DEF FeedDone
<1> QED  BY <1>1, <1>4, <1>6, <1>7, <1>8, <1>9, <1>10, <1>11, <1>12, <1>13 DEF FeedNext

-----------------------------------------------------------------------------
(* The theorems about the stream and its consumers                         *)

\* No consumer holds anything at first.
LEMMA ConsumersStart ==
  ASSUME Init
  PROVE  StreamInv /\ Attached
<1>1. StreamInv
  BY StreamStarts DEF Init
<1>2. retired = {} /\ dead = {} /\ mode \in Modes
  BY DEF Init, StreamInit
<1>3. chan = <<>> /\ hand = <<>> /\ \E b \in BOOLEAN : feed = [FeedOff EXCEPT !.puts = b]
  BY DEF Init, FeedInit
<1>4. FeedHolds
  <2>1. <<>> \in Seq([seq : Nat, commit : Nat])
    OBVIOUS
  <2>2. feed \in Pump
    <3>1. FeedOff \in Pump
      BY DEF Pump, FeedOff, Nothing
    <3>2. \A x \in Pump, b \in BOOLEAN : [x EXCEPT !.puts = b] \in Pump
      BY DEF Pump
    <3> QED  BY <1>3, <3>1, <3>2
  <2> QED  BY <1>3, <2>1, <2>2 DEF FeedHolds
<1> QED  BY <1>1, <1>2, <1>4 DEF Attached

\* Every step of the composition is a step of the stream, or leaves it alone.
LEMMA ConsumersStep ==
  ASSUME StreamInv, Attached, [Next]_vars
  PROVE  [StreamNext]_streamVars /\ Attached'
<1>1. CASE UNCHANGED vars
  BY <1>1 DEF vars, Attached, FeedHolds, streamVars, gcVars, feedVars
<1>2. CASE Writer
  <2>1. StreamNext
    BY <1>2, WriterCommits DEF StreamNext
  <2>2. UNCHANGED <<retired, dead, mode, feedVars>>
    BY <1>2 DEF Writer, Alone, Commit, gcVars
  <2> QED  BY <2>1, <2>2 DEF Attached, FeedHolds, feedVars
<1>3. CASE Publisher
  BY <1>3 DEF Publisher, Alone, Publish, StreamNext, Attached, FeedHolds, gcVars, feedVars
<1>4. CASE Collector
  BY <1>4 DEF Collector, Alone, StreamNext, Attached, FeedHolds, feedVars
<1>5. CASE DirectUser
  BY <1>5, DirectSteps DEF Attached, FeedHolds, feedVars
<1>6. CASE EdgeReads
  BY <1>6 DEF EdgeReads, Alone, Drain, Resolve, StreamNext, Attached, FeedHolds, gcVars, feedVars
<1>7. CASE EdgeFlush \/ EdgeFault \/ EdgeForwards \/ EdgeDrives \/ EdgePings
  BY <1>7, EdgeSteps DEF Attached, FeedHolds, feedVars
<1>8. CASE JournalRuns \/ JournalEvent
  BY <1>8, JournalSteps DEF Attached, FeedHolds, feedVars
<1>9. CASE FeedRuns
  BY <1>9, FeedSteps DEF Attached
<1> QED  BY <1>1, <1>2, <1>3, <1>4, <1>5, <1>6, <1>7, <1>8, <1>9 DEF Next

\* The edge replica's server and driver, the journal's drainer, the feed's pump
\* and a program of one's own use a subscription the way StreamSpec allows
\* (run_subscription, run_loop, journal's run, the GraphQL pump).
THEOREM ConsumersUseTheStream == Spec => StreamSpec
<1>1. Init => StreamInv /\ Attached /\ StreamInit
  BY ConsumersStart DEF Init
<1>2. StreamInv /\ Attached /\ [Next]_vars => StreamInv' /\ Attached' /\ [StreamNext]_streamVars
  BY ConsumersStep, StreamStep
<1> QED  BY <1>1, <1>2, PTL DEF Spec, StreamSpec

\* Under every consumer a live subscription holds exactly the published writes
\* of its range above what it has delivered (offer, recv_timeout, resolve).
THEOREM StreamLosesNothing == Spec => []SubscriptionGapFree
<1>1. StreamInv => SubscriptionGapFree
  BY DEF StreamInv
<1> QED  BY <1>1, ConsumersUseTheStream, StreamAlways, PTL

\* Under every consumer each entry a subscriber takes can be resolved: value-log
\* GC never deletes a record the stream has yet to hand over (process_retired).
THEOREM StreamAlwaysResolves == Spec => []StreamResolves
<1>1. StreamInv => StreamResolves
  BY DEF StreamInv
<1> QED  BY <1>1, ConsumersUseTheStream, StreamAlways, PTL

-----------------------------------------------------------------------------
(* The feed's inductive invariant                                          *)

\* The pump has a subscription.
Live == feed.pc \in {"attach", "recv", "items"}

\* What the feed reports of the history.
Shows(s) == InScope(s) /\ ~Filtered(s)

\* The snapshots registered are those the pump, the channel and the client
\* hold, and they lie in the visible past.
Registered ==
    /\ held = Holding(feed, chan, hand)
    /\ \A m \in held : m <= visible

\* Nothing has been received before the attach marker; a batch is worked off
\* before the next entries are drained.
Attachment ==
    /\ feed.pc \in {"off", "attach"} => sent = <<>>
    /\ Live =>
        /\ sub.on /\ feed.start <= sub.pin
        /\ feed.pc = "attach" => sub.batch = <<>> /\ sub.taken = <<>> /\ sub.pin = feed.start
        /\ feed.pc = "items" => sub.taken = <<>>
        /\ sub.batch # <<>> => sub.taken = <<>> /\ Last(sub.batch) = sub.pin
        /\ sub.taken # <<>> =>
             sub.taken = Ascending({s \in (sub.pin + 1)..Last(sub.taken) : InScope(s)})

\* Up to some entry everything was sent, and what follows up to the pin is in
\* the batch.
SentUpTo(lo) ==
    /\ sent = Ascending({s \in (feed.start + 1)..lo : Shows(s)})
    /\ sub.batch = Ascending({s \in (lo + 1)..sub.pin : InScope(s)})
Delivered == Live => \E lo \in feed.start..sub.pin : SentUpTo(lo)

\* The rolling hold lies at or below the end of every commit still to come.
HoldsAt(h) ==
    /\ feed.hold = {h}
    /\ \A s \in 1..visible : s > sub.pin \/ s \in Range(sub.batch) => h <= ops[s].commit
    /\ feed.pc = "items" => /\ h <= feed.tail /\ sub.pin \in 1..visible
                            /\ feed.tail = ops[sub.pin].commit
Ahead == feed.pc \in {"recv", "items"} => \E h \in 0..visible : HoldsAt(h)

\* A record about to be deleted has been superseded by the time it was
\* retired, and one that is deleted before every snapshot somebody may read.
Outdated(s, upto) == \E i \in (s + 1)..upto : ops[i].key = ops[s].key
OutOfSight(d) ==
    \E i \in (d + 1)..visible :
        /\ ops[i].key = ops[d].key
        /\ \A m \in held : i <= m
        /\ sub.on => i <= sub.pin
Superseded ==
    /\ \A r \in retired : Outdated(r.seq, r.at)
    /\ \A d \in dead : OutOfSight(d)

\* A store without a feed.
NoFeed == feed.pc = "off" /\ ~feed.lost /\ chan = <<>> /\ hand = <<>>

FeedShape ==
    IF mode = "feed"
    THEN Registered /\ Attachment /\ Delivered /\ Ahead /\ Superseded /\ ~feed.lost
    ELSE NoFeed

FeedInv == StreamInv /\ Attached /\ FeedShape

-----------------------------------------------------------------------------
(* Lemmas about the feed's operators                                        *)

\* The events shown between two points, in order.
LEMMA ShownAreListed ==
  ASSUME NEW a \in Nat, NEW b \in Nat
  PROVE  LET S == {s \in (a + 1)..b : Shows(s)}
         IN  /\ S \in SUBSET Int /\ IsFiniteSet(S) /\ Ascending(S) = Listed(S)
             /\ Ascending(S) \in Seq(Nat)
<1> DEFINE S == {s \in (a + 1)..b : Shows(s)}
<1>1. IsFiniteSet((a + 1)..b) /\ S \in SUBSET ((a + 1)..b) /\ S \in SUBSET Int /\ S \in SUBSET Nat
  BY FS_Interval
<1>2. IsFiniteSet(S)
  BY <1>1, FS_Subset
<1>3. Ascending(S) = Listed(S)
  BY DEF Ascending, Listed
<1> HIDE DEF S
<1>4. Listed(S) \in Seq(S)
  BY <1>1, <1>2, ListedInOrder
<1>5. Ascending(S) \in Seq(Nat)
  BY <1>1, <1>3, <1>4, SeqMonotonic
<1>6. S \in SUBSET Int /\ IsFiniteSet(S) /\ Ascending(S) = Listed(S) /\ Ascending(S) \in Seq(Nat)
  BY <1>1, <1>2, <1>3, <1>5
<1> QED  BY <1>6 DEF S

\* The events of two stretches that follow each other.
LEMMA ShownGrow ==
  ASSUME NEW a \in Nat, NEW b \in Nat, NEW c \in Nat, a <= b, b <= c
  PROVE  Ascending({s \in (a + 1)..c : Shows(s)})
           = Ascending({s \in (a + 1)..b : Shows(s)}) \o Ascending({s \in (b + 1)..c : Shows(s)})
<1> DEFINE S == {s \in (a + 1)..b : Shows(s)}
           T == {s \in (b + 1)..c : Shows(s)}
           U == {s \in (a + 1)..c : Shows(s)}
<1>1. U = S \cup T /\ \A x \in S, y \in T : x < y
  OBVIOUS
<1>2. /\ S \in SUBSET Int /\ IsFiniteSet(S) /\ Ascending(S) = Listed(S)
      /\ T \in SUBSET Int /\ IsFiniteSet(T) /\ Ascending(T) = Listed(T)
      /\ Ascending(U) = Listed(U)
  BY ShownAreListed
<1> HIDE DEF S, T, U
<1>3. Listed(S \cup T) = Listed(S) \o Listed(T)
  BY <1>1, <1>2, ListedConcat
<1>4. Ascending(U) = Ascending(S) \o Ascending(T)
  BY <1>1, <1>2, <1>3
<1> QED  BY <1>4 DEF S, T, U

\* The entries of the range and the events shown between two points.
Eligible(a, b) == Ascending({s \in (a + 1)..b : InScope(s)})
Events(a, b) == Ascending({s \in (a + 1)..b : Shows(s)})

\* What is listed of two stretches is listed of the whole, in order.
LEMMA StretchesJoin ==
  ASSUME NEW a \in Nat, NEW b \in Nat, NEW c \in Nat, a <= b, b <= c
  PROVE  /\ Eligible(a, c) = Eligible(a, b) \o Eligible(b, c)
         /\ Events(a, c) = Events(a, b) \o Events(b, c)
<1>1. Ascending({s \in (a + 1)..c : InScope(s)})
        = Ascending({s \in (a + 1)..b : InScope(s)}) \o Ascending({s \in (b + 1)..c : InScope(s)})
  BY AscendingGrows
<1>2. Ascending({s \in (a + 1)..c : Shows(s)})
        = Ascending({s \in (a + 1)..b : Shows(s)}) \o Ascending({s \in (b + 1)..c : Shows(s)})
  BY ShownGrow
<1> QED  BY <1>1, <1>2 DEF Eligible, Events

\* What a feed shows of an increasing sequence of entries: the events among
\* its members, in order.
LEMMA ShownOfIncreasing ==
  ASSUME NEW s \in Seq(Int), Increasing(s)
  PROVE  Shown(s) = Listed({x \in Range(s) : ~Filtered(x)})
<1> DEFINE I == {i \in DOMAIN s : ~Filtered(s[i])}
           at == Ascending(I)
           t == [n \in DOMAIN at |-> s[at[n]]]
<1>1. DOMAIN s = 1..Len(s) /\ Len(s) \in Nat /\ \A i \in DOMAIN s : s[i] \in Int
  BY LenProperties, ElementOfSeq
<1>2. IsFiniteSet(1..Len(s)) /\ I \in SUBSET (1..Len(s)) /\ I \in SUBSET Int
  BY <1>1, FS_Interval
<1>3. IsFiniteSet(I) /\ at = Listed(I)
  BY <1>2, FS_Subset DEF Ascending, Listed
<1>4. at \in Seq(I) /\ Increasing(at) /\ Range(at) = I
  <2> HIDE DEF I, at
  <2> QED  BY <1>2, <1>3, ListedInOrder
<1>5. DOMAIN at = 1..Len(at) /\ Len(at) \in Nat /\ \A n \in DOMAIN at : at[n] \in I
  <2> HIDE DEF I, at
  <2> QED  BY <1>4, LenProperties, ElementOfSeq
<1> HIDE DEF at
<1>6. \A n \in DOMAIN at : at[n] \in DOMAIN s /\ at[n] \in Int /\ s[at[n]] \in Int /\ ~Filtered(s[at[n]])
  BY <1>1, <1>5
<1>7. t \in Seq(Int)
  <2>1. t \in [1..Len(at) -> Int]
    BY <1>5, <1>6
  <2> HIDE DEF t
  <2> QED  BY <1>5, <2>1, FunctionIsSequence
<1>8. Increasing(t)
  <2> SUFFICES ASSUME NEW i \in DOMAIN at, NEW j \in DOMAIN at, i < j PROVE s[at[i]] < s[at[j]]
    BY DEF Increasing
  <2>1. at[i] < at[j]
    BY <1>4 DEF Increasing
  <2> QED  BY <1>6, <2>1 DEF Increasing
<1>9. Range(t) = {x \in Range(s) : ~Filtered(x)}
  <2>1. \A n \in DOMAIN at : s[at[n]] \in Range(s)
    BY <1>6 DEF Range
  <2>2. ASSUME NEW i \in DOMAIN s, ~Filtered(s[i]) PROVE \E n \in DOMAIN at : s[at[n]] = s[i]
    <3>1. i \in Range(at)
      BY <1>4, <2>2
    <3> QED  BY <3>1 DEF Range
  <2>3. DOMAIN t = DOMAIN at /\ \A n \in DOMAIN at : t[n] = s[at[n]]
    OBVIOUS
  <2> HIDE DEF t
  <2>4. ASSUME NEW x \in Range(t) PROVE x \in Range(s) /\ ~Filtered(x)
    <3>1. PICK n \in DOMAIN at : x = t[n]
      BY <2>3 DEF Range
    <3> QED  BY <1>6, <2>1, <2>3, <3>1
  <2>5. ASSUME NEW x \in Range(s), ~Filtered(x) PROVE x \in Range(t)
    <3>1. PICK i \in DOMAIN s : x = s[i]
      BY DEF Range
    <3>2. PICK n \in DOMAIN at : s[at[n]] = s[i]
      BY <2>2, <2>5, <3>1
    <3> QED  BY <2>3, <3>1, <3>2 DEF Range
  <2> QED  BY <2>4, <2>5
<1>10. t = Shown(s)
  BY DEF Shown, at
<1> HIDE DEF t
<1>11. t = Listed(Range(t))
  BY <1>7, <1>8, IncreasingIsListed
<1> QED  BY <1>9, <1>10, <1>11

\* Numbers never go back along a history: a later entry's commit ends later.
LEMMA LaterCommitsEndLater ==
  ASSUME StreamInv, NEW s \in 1..visible, NEW t \in 1..visible, s <= t
  PROVE  ops[s].commit <= ops[t].commit /\ ops[t].commit \in t..visible
<1>1. /\ ops[s].commit \in s..visible /\ ops[t].commit \in t..visible /\ visible \in Nat
      /\ \A u \in s..ops[s].commit : ops[u].commit = ops[s].commit
  BY HistoryTyped DEF StreamInv, StreamShape, WholeCommits, WholeIn
<1>2. CASE t <= ops[s].commit
  BY <1>1, <1>2
<1>3. CASE t > ops[s].commit
  BY <1>1, <1>3
<1> QED  BY <1>1, <1>2, <1>3

-----------------------------------------------------------------------------
(* The store's own steps                                                   *)

\* Where the subscription's entries lie.
LEMMA EntriesPublished ==
  ASSUME StreamInv, Attached
  PROVE  /\ visible \in Nat /\ sub.pin \in Nat /\ published \in 0..visible /\ held \subseteq Nat
         /\ sub.batch \in Seq(Nat) /\ sub.taken \in Seq(Nat) /\ sub.queue \in Seq(Nat)
         /\ sub.on => sub.pin <= published
         /\ \A s \in Range(sub.taken) : s \in (sub.pin + 1)..published
         /\ \A s \in Range(sub.batch) : s \in 1..published
         /\ sub.taken # <<>> => Last(sub.taken) \in Range(sub.taken)
         /\ sub.batch # <<>> => Last(sub.batch) \in Range(sub.batch)
         /\ feed \in Pump /\ feed.start \in Nat
<1>1. /\ visible \in Nat /\ sub.pin \in Nat /\ published \in 0..visible /\ held \subseteq Nat
      /\ sub.batch \in Seq(Nat) /\ sub.taken \in Seq(Nat) /\ sub.queue \in Seq(Nat)
  BY HistoryTyped DEF StreamInv, StreamShape, StreamTypes, Sub
<1>2. /\ sub.on => sub.pin <= published
      /\ \A s \in Range(sub.taken) : s \in (sub.pin + 1)..published
      /\ \A s \in Range(sub.batch) : s \in 1..published
  BY DEF StreamInv, StreamShape, Pinned
<1>3. ASSUME NEW q \in Seq(Nat), q # <<>> PROVE Last(q) \in Range(q)
  <2>1. Len(q) \in DOMAIN q
    BY <1>3, EmptySeq, LenProperties
  <2> QED  BY <2>1 DEF Last, Range
<1>4. feed \in Pump /\ feed.start \in Nat
  BY DEF Attached, FeedHolds, Pump
<1> QED  BY <1>1, <1>2, <1>3, <1>4

\* What the feed's invariant says stays true while the history grows and the
\* subscription's queue fills.
LEMMA FeedOutlivesHistory ==
  ASSUME StreamInv, StreamInv', Attached, FeedShape, mode = "feed",
         UNCHANGED <<feedVars, held, mode>>, Superseded',
         sub'.on = sub.on, sub'.pin = sub.pin, sub'.batch = sub.batch, sub'.taken = sub.taken,
         visible <= visible', \A s \in 1..visible : ops'[s] = ops[s]
  PROVE  FeedShape'
<1>1. Registered /\ Attachment /\ Delivered /\ Ahead /\ ~feed.lost
  BY DEF FeedShape
<1>2. UNCHANGED <<feed, chan, hand, sent>>
  BY DEF feedVars
<1>3. visible' \in Nat
  BY HistoryTyped DEF StreamInv, StreamShape, StreamTypes, visible
<1>4. /\ visible \in Nat /\ sub.pin \in Nat /\ published \in 0..visible /\ held \subseteq Nat
      /\ sub.on => sub.pin <= published
      /\ \A s \in Range(sub.taken) : s \in (sub.pin + 1)..published
      /\ sub.taken # <<>> => Last(sub.taken) \in Range(sub.taken)
      /\ \A s \in Range(sub.batch) : s \in 1..published
  BY EntriesPublished
<1>5. ASSUME NEW a \in Nat, NEW b \in Nat, b <= visible
      PROVE  /\ {s \in (a + 1)..b : Shows(s)}' = {s \in (a + 1)..b : Shows(s)}
             /\ {s \in (a + 1)..b : InScope(s)}' = {s \in (a + 1)..b : InScope(s)}
  <2>1. \A s \in (a + 1)..b : s \in 1..visible
    BY <1>4, <1>5
  <2>2. \A s \in (a + 1)..b : (Shows(s)' <=> Shows(s)) /\ (InScope(s)' <=> InScope(s))
    BY <1>2, <2>1 DEF Shows, InScope, Filtered
  <2> QED  BY <2>2
<1>6. Registered'
  BY <1>1, <1>2, <1>3, <1>4 DEF Registered
<1>7. Live' <=> Live
  BY <1>2 DEF Live
<1>8. Attachment'
  <2> SUFFICES ASSUME Live, sub.taken # <<>>
               PROVE  sub.taken = Ascending({s \in (sub.pin + 1)..Last(sub.taken) : InScope(s)}')
    BY <1>1, <1>2, <1>7 DEF Attachment
  <2>1. Last(sub.taken) \in Nat /\ Last(sub.taken) <= visible
    BY <1>4
  <2>2. sub.taken = Ascending({s \in (sub.pin + 1)..Last(sub.taken) : InScope(s)})
    BY <1>1 DEF Attachment
  <2> QED  BY <1>4, <1>5, <2>1, <2>2
<1>9. Delivered'
  <2> SUFFICES ASSUME Live PROVE \E lo \in feed.start..sub.pin : SentUpTo(lo)'
    BY <1>2, <1>7 DEF Delivered
  <2>1. PICK lo \in feed.start..sub.pin : SentUpTo(lo)
    BY <1>1 DEF Delivered
  <2>2. feed.start \in Nat /\ lo \in Nat /\ lo <= visible /\ sub.pin <= visible
    BY <1>1, <1>4, EntriesPublished DEF Attachment
  <2>3. /\ {s \in (feed.start + 1)..lo : Shows(s)}' = {s \in (feed.start + 1)..lo : Shows(s)}
        /\ {s \in (lo + 1)..sub.pin : InScope(s)}' = {s \in (lo + 1)..sub.pin : InScope(s)}
    BY <1>2, <1>4, <1>5, <2>2
  <2>4. SentUpTo(lo)'
    BY <1>2, <2>1, <2>3 DEF SentUpTo
  <2> QED  BY <2>4
<1>10. Ahead'
  <2> SUFFICES ASSUME feed.pc \in {"recv", "items"} PROVE \E h \in 0..visible' : HoldsAt(h)'
    BY <1>2 DEF Ahead
  <2>1. PICK h \in 0..visible : HoldsAt(h)
    BY <1>1 DEF Ahead
  <2>2. ASSUME NEW s \in 1..visible', s > sub.pin \/ s \in Range(sub.batch)
        PROVE  h <= ops'[s].commit
    <3>1. CASE s <= visible
      BY <1>4, <2>1, <2>2, <3>1 DEF HoldsAt
    <3>2. CASE s > visible
      <4>1. ops'[s].commit \in s..visible'
        BY <1>3, LenProperties, HistoryTyped DEF StreamInv, StreamShape, WholeCommits, WholeIn, visible
      <4> QED  BY <1>4, <2>1, <3>2, <4>1
    <3> QED  BY <1>3, <1>4, <3>1, <3>2
  <2>3. feed.pc = "items" => sub.pin \in 1..visible' /\ ops'[sub.pin] = ops[sub.pin]
    BY <1>3, <1>4, <2>1 DEF HoldsAt
  <2>4. h \in 0..visible'
    BY <1>3, <1>4, <2>1
  <2>5. HoldsAt(h)'
    BY <1>2, <2>1, <2>2, <2>3 DEF HoldsAt
  <2> QED  BY <2>4, <2>5
<1> QED  BY <1>1, <1>2, <1>6, <1>8, <1>9, <1>10 DEF FeedShape

\* A longer history hides what a shorter one did.
LEMMA SupersededLasts ==
  ASSUME StreamInv, Superseded, visible' \in Nat, visible <= visible',
         \A s \in 1..visible : ops'[s] = ops[s],
         UNCHANGED <<held, dead>>, sub'.on = sub.on, sub'.pin = sub.pin,
         \A r \in retired' : r \in retired \/ Outdated(r.seq, r.at)'
  PROVE  Superseded'
<1>1. /\ visible \in Nat
      /\ \A r \in retired : r.seq \in 1..r.at /\ r.at <= visible /\ r.at \in Nat
      /\ \A d \in dead : d \in 1..visible
  BY HistoryTyped DEF StreamInv, StreamShape, Condemned
<1>2. ASSUME NEW r \in retired PROVE Outdated(r.seq, r.at)'
  <2>1. PICK i \in (r.seq + 1)..r.at : ops[i].key = ops[r.seq].key
    BY DEF Superseded, Outdated
  <2>2. i \in 1..visible /\ r.seq \in 1..visible
    BY <1>1
  <2> QED  BY <2>1, <2>2 DEF Outdated
<1>3. ASSUME NEW d \in dead PROVE OutOfSight(d)'
  <2>1. PICK i \in (d + 1)..visible : /\ ops[i].key = ops[d].key
                                      /\ \A m \in held : i <= m
                                      /\ sub.on => i <= sub.pin
    BY DEF Superseded, OutOfSight
  <2>2. i \in 1..visible /\ d \in 1..visible /\ i \in (d + 1)..visible'
    BY <1>1
  <2>3. ops'[i] = ops[i] /\ ops'[d] = ops[d]
    BY <2>2
  <2> QED  BY <2>1, <2>2, <2>3 DEF OutOfSight
<1> QED  BY <1>2, <1>3 DEF Superseded

\* A group commit appends to the history.
LEMMA CommitAppends ==
  ASSUME StreamInv, NEW g, Len(g) \in Nat, Commit(g)
  PROVE  visible' \in Nat /\ visible <= visible' /\ \A s \in 1..visible : ops'[s] = ops[s]
<1> DEFINE new == [i \in 1..Len(g) |->
                     [key |-> g[i].key,
                      val |-> IF g[i].put THEN <<epoch, visible + i>> ELSE Absent,
                      commit |-> visible + Min({j \in i..Len(g) : g[j].last})]]
           S == Op \cup {new[i] : i \in 1..Len(g)}
<1>1. ops \in Seq(Op) /\ visible \in Nat /\ visible = Len(ops) /\ hist \in Seq(Seq(Op)) /\ epoch \in 1..Len(hist)
  BY HistoryTyped DEF StreamInv, StreamShape
<1>2. hist' = [hist EXCEPT ![epoch] = @ \o new] /\ epoch' = epoch
  BY DEF Commit
<1>3. new \in Seq(S) /\ Len(new) = Len(g)
  <2>1. new \in [1..Len(g) -> S]
    OBVIOUS
  <2> HIDE DEF new, S
  <2> QED  BY <2>1, FunctionIsSequence
<1>4. ops \in Seq(S)
  BY <1>1, SeqMonotonic
<1> HIDE DEF new, S
<1>5. ops' = ops \o new
  <2>1. epoch \in DOMAIN hist
    BY <1>1, LenProperties
  <2> QED  BY <1>2, <2>1 DEF ops
<1>6. /\ Len(ops \o new) = Len(ops) + Len(new)
      /\ \A s \in 1..Len(ops) : (ops \o new)[s] = ops[s]
  <2>1. Len(ops) \in Nat /\ Len(new) \in Nat
    BY <1>3, <1>4, LenProperties
  <2>2. \A s \in 1..Len(ops) : s \in 1..Len(ops) + Len(new) /\ s <= Len(ops)
    BY <2>1
  <2> QED  BY <1>3, <1>4, <2>2, ConcatProperties
<1>7. visible' = visible + Len(new)
  BY <1>1, <1>5, <1>6 DEF visible
<1> QED  BY <1>1, <1>3, <1>5, <1>6, <1>7

\* So does GC where it re-puts a live value.
LEMMA RetireAppends ==
  ASSUME StreamInv, NEW s \in 1..visible, Retire(s)
  PROVE  /\ visible' \in Nat /\ visible <= visible' /\ \A t \in 1..visible : ops'[t] = ops[t]
         /\ \E i \in (s + 1)..visible' : ops'[i].key = ops'[s].key
         /\ retired' = retired \cup {[seq |-> s, at |-> visible']}
<1> DEFINE live == \A i \in (s + 1)..visible : ops[i].key # ops[s].key
           x == [ops[s] EXCEPT !.commit = visible + 1]
<1>1. ops \in Seq(Op) /\ visible \in Nat /\ visible = Len(ops) /\ hist \in Seq(Seq(Op)) /\ epoch \in 1..Len(hist)
  BY HistoryTyped DEF StreamInv, StreamShape
<1>2. x \in Op /\ x.key = ops[s].key
  <2>1. ops[s] \in Op
    BY <1>1, ElementOfSeq
  <2>2. \A o \in Op, n \in Nat : [o EXCEPT !.commit = n] \in Op /\ [o EXCEPT !.commit = n].key = o.key
    BY DEF Op
  <2>3. visible + 1 \in Nat
    BY <1>1
  <2> QED  BY <2>1, <2>2, <2>3
<1>3. retired' = retired \cup {[seq |-> s, at |-> visible']} /\ epoch' = epoch
  BY DEF Retire
<1>4. CASE live
  <2>1. hist' = [hist EXCEPT ![epoch] = Append(@, x)]
    BY <1>4 DEF Retire
  <2> HIDE DEF x, live
  <2>2. ops' = Append(ops, x)
    <3>1. epoch \in DOMAIN hist
      BY <1>1, LenProperties
    <3> QED  BY <1>3, <2>1, <3>1 DEF ops
  <2>3. /\ Len(Append(ops, x)) = Len(ops) + 1
        /\ \A i \in 1..Len(ops) : Append(ops, x)[i] = ops[i]
        /\ Append(ops, x)[Len(ops) + 1] = x
    BY <1>1, <1>2, AppendProperties
  <2>4. visible' = visible + 1 /\ (\A t \in 1..visible : ops'[t] = ops[t]) /\ ops'[visible + 1] = x
    BY <1>1, <2>2, <2>3 DEF visible
  <2>5. visible + 1 \in (s + 1)..visible' /\ ops'[visible + 1].key = ops'[s].key
    BY <1>1, <1>2, <2>4
  <2>6. \E i \in (s + 1)..visible' : ops'[i].key = ops'[s].key
    BY <2>5
  <2>7. visible' \in Nat /\ visible <= visible'
    BY <1>1, <2>4
  <2> QED  BY <1>3, <2>4, <2>6, <2>7
<1>5. CASE ~live
  <2>1. hist' = hist
    BY <1>5 DEF Retire
  <2>2. ops' = ops /\ visible' = visible
    BY <1>3, <2>1 DEF ops, visible
  <2>3. \E i \in (s + 1)..visible : ops[i].key = ops[s].key
    BY <1>5
  <2> QED  BY <1>1, <1>3, <2>2, <2>3
<1> QED  BY <1>4, <1>5

-----------------------------------------------------------------------------
(* Snapshots                                                               *)

\* The watermark lies at or below every snapshot, and is one of them.
LEMMA WatermarkIsLeast ==
  ASSUME StreamInv
  PROVE  /\ \A m \in held : Watermark <= m
         /\ sub.on => Watermark <= sub.pin
         /\ Watermark \in Nat
         /\ \/ Watermark = visible + 1
            \/ Watermark \in held
            \/ sub.on /\ Watermark = sub.pin
<1> DEFINE S == held \cup (IF sub.on THEN {sub.pin} ELSE {})
<1>1. S \in SUBSET Nat /\ visible \in Nat
  BY HistoryTyped DEF StreamInv, StreamShape, StreamTypes, Sub
<1>2. Watermark = IF S = {} THEN visible + 1 ELSE Min(S)
  BY DEF Watermark
<1>3. S # {} => Min(S) \in S /\ \A y \in S : Min(S) <= y
  <2> HIDE DEF S
  <2> QED  BY <1>1, MinIsLeast
<1>4. /\ \A m \in S : Watermark <= m
      /\ Watermark \in Nat
      /\ Watermark = visible + 1 \/ Watermark \in S
  <2> HIDE DEF S
  <2> QED  BY <1>1, <1>2, <1>3
<1> QED  BY <1>4

\* A hold vouches for every later commit.
LEMMA HoldVouches ==
  ASSUME StreamInv, NEW h \in Nat, h \in held \/ (sub.on /\ h = sub.pin), NEW m \in Nat,
         h <= m, m <= visible
  PROVE  Registrable(m)
<1>1. Watermark <= h /\ Watermark \in Nat
  BY WatermarkIsLeast
<1> QED  BY <1>1 DEF Registrable

\* What may be registered or subscribed to sees past every deleted record.
LEMMA PumpHolds ==
  ASSUME StreamInv, Attached, Registered, Superseded,
         UNCHANGED <<epoch, hist, retired, dead>>,
         held' = Holding(feed', chan', hand'),
         \A m \in held' : m \in Nat /\ (m \in held \/ Registrable(m)),
         sub'.on => sub'.pin = visible \/ (sub.on /\ sub.pin <= sub'.pin), sub'.pin \in Nat
  PROVE  Registered' /\ Superseded'
<1>1. ops' = ops /\ visible' = visible /\ visible \in Nat
  BY SameHistory, HistoryTyped DEF StreamInv, StreamShape
<1>2. Registered'
  BY <1>1 DEF Registered, Registrable
<1>3. ASSUME NEW d \in dead PROVE OutOfSight(d)'
  <2>1. PICK i \in (d + 1)..visible : /\ ops[i].key = ops[d].key
                                      /\ \A m \in held : i <= m
                                      /\ sub.on => i <= sub.pin
    BY DEF Superseded, OutOfSight
  <2>2. d \in Nat /\ i \in Nat /\ i <= visible /\ sub.pin \in Nat /\ held \subseteq Nat
    BY <1>1, EntriesPublished DEF StreamInv, StreamShape, Condemned
  <2>3. ASSUME NEW m \in held' PROVE i <= m
    <3>1. CASE m \in held
      BY <2>1, <3>1
    <3>2. CASE m = visible
      BY <2>2, <3>2
    <3>3. CASE m # visible /\ Registrable(m)
      <4>1. Watermark <= m /\ m <= visible /\ m \in Nat
        BY <3>3 DEF Registrable
      <4>2. Watermark \in Nat /\ (Watermark = visible + 1 \/ Watermark \in held \/ (sub.on /\ Watermark = sub.pin))
        BY WatermarkIsLeast
      <4>3. i <= Watermark
        BY <1>1, <2>1, <2>2, <4>2
      <4> QED  BY <2>2, <4>1, <4>2, <4>3
    <3> QED  BY <3>1, <3>2, <3>3
  <2>4. sub'.on => i <= sub'.pin
    BY <1>1, <2>1, <2>2
  <2> QED  BY <1>1, <2>1, <2>3, <2>4 DEF OutOfSight
<1>4. Superseded'
  BY <1>1, <1>3 DEF Superseded, Outdated
<1> QED  BY <1>2, <1>4

\* A record is deleted once every snapshot lies above the point where it was
\* retired.
LEMMA ReclaimSupersedes ==
  ASSUME StreamInv, Superseded, NEW r \in retired, Reclaim(r)
  PROVE  Superseded'
<1>1. /\ ops' = ops /\ visible' = visible /\ visible \in Nat /\ UNCHANGED <<held, sub>>
      /\ retired' = retired \ {r} /\ dead' = dead \cup {r.seq} /\ Watermark > r.at
  BY SameHistory, HistoryTyped DEF StreamInv, StreamShape, Reclaim
<1>2. r.seq \in 1..r.at /\ r.at <= visible /\ r.at \in Nat
  BY DEF StreamInv, StreamShape, Condemned
<1>3. PICK i \in (r.seq + 1)..r.at : ops[i].key = ops[r.seq].key
  BY DEF Superseded, Outdated
<1>4. /\ \A m \in held : Watermark <= m
      /\ sub.on => Watermark <= sub.pin
      /\ Watermark \in Nat /\ held \subseteq Nat /\ sub.pin \in Nat
  BY WatermarkIsLeast DEF StreamInv, StreamShape, StreamTypes, Sub
<1>5. OutOfSight(r.seq)
  <2>1. i \in (r.seq + 1)..visible
    BY <1>1, <1>2
  <2>2. (\A m \in held : i <= m) /\ (sub.on => i <= sub.pin)
    BY <1>1, <1>2, <1>4
  <2> QED  BY <1>3, <2>1, <2>2 DEF OutOfSight
<1>6. \A d \in dead' : OutOfSight(d)
  BY <1>1, <1>5 DEF Superseded
<1>7. \A d : OutOfSight(d) => OutOfSight(d)'
  BY <1>1 DEF OutOfSight
<1>8. \A q \in retired' : Outdated(q.seq, q.at)'
  BY <1>1 DEF Superseded, Outdated
<1> QED  BY <1>6, <1>7, <1>8 DEF Superseded

\* A step of the store beside a feed.
LEMMA StoreBesideFeed ==
  ASSUME StreamInv, StreamInv', Attached, FeedShape, mode = "feed",
         Writer \/ Publisher \/ Collector
  PROVE  FeedShape'
<1>1. UNCHANGED <<feedVars, mode>>
  BY DEF Writer, Publisher, Collector, Alone
<1>2. Superseded /\ visible \in Nat /\ visible' \in Nat
  BY HistoryTyped DEF FeedShape, StreamInv, StreamShape, StreamTypes, visible
<1>3. CASE Writer
  <2>1. PICK g \in WholeGroups : Commit(g)
    BY <1>3, WriterCommits
  <2>2. Len(g) \in Nat
    BY LenProperties DEF WholeGroups
  <2>3. visible <= visible' /\ \A s \in 1..visible : ops'[s] = ops[s]
    BY <2>1, <2>2, CommitAppends
  <2>4. UNCHANGED <<sub, held, retired, dead>>
    BY <2>1 DEF Commit, gcVars
  <2>5. Superseded'
    BY <1>2, <2>3, <2>4, SupersededLasts
  <2> QED  BY <1>1, <2>3, <2>4, <2>5, FeedOutlivesHistory
<1>4. CASE Publisher
  <2>1. Publish
    BY <1>4 DEF Publisher
  <2>2. UNCHANGED <<epoch, hist, held, retired, dead>>
    BY <2>1 DEF Publish, gcVars
  <2>3. ops' = ops /\ visible' = visible
    BY <2>2 DEF ops, visible
  <2>4. sub'.on = sub.on /\ sub'.pin = sub.pin /\ sub'.batch = sub.batch /\ sub'.taken = sub.taken
    <3>1. \A q, b : LET x == [sub EXCEPT !.queue = q, !.dropped = b]
                        y == [sub EXCEPT !.queue = q]
                    IN  /\ x.on = sub.on /\ x.pin = sub.pin /\ x.batch = sub.batch /\ x.taken = sub.taken
                        /\ y.on = sub.on /\ y.pin = sub.pin /\ y.batch = sub.batch /\ y.taken = sub.taken
      BY DEF StreamInv, StreamShape, StreamTypes, Sub
    <3> QED  BY <2>1, <3>1 DEF Publish, Offer
  <2>5. Superseded'
    BY <1>2, <2>2, <2>3, <2>4, SupersededLasts
  <2> QED  BY <1>1, <1>2, <2>2, <2>3, <2>4, <2>5, FeedOutlivesHistory
<1>5. CASE Collector
  <2>1. CASE Flush
    <3>1. UNCHANGED <<epoch, hist, sub, held, retired, dead>>
      BY <2>1 DEF Flush, gcVars
    <3>2. ops' = ops /\ visible' = visible
      BY <3>1 DEF ops, visible
    <3>3. Superseded'
      BY <1>2, <3>1, <3>2, SupersededLasts
    <3> QED  BY <1>1, <1>2, <3>1, <3>2, <3>3, FeedOutlivesHistory
  <2>2. ASSUME NEW s \in 1..visible, Retire(s) PROVE FeedShape'
    <3>1. /\ visible <= visible' /\ \A t \in 1..visible : ops'[t] = ops[t]
          /\ \E i \in (s + 1)..visible' : ops'[i].key = ops'[s].key
          /\ retired' = retired \cup {[seq |-> s, at |-> visible']}
      BY <2>2, RetireAppends
    <3>2. UNCHANGED <<sub, held, dead>>
      BY <2>2 DEF Retire
    <3>3. \A r \in retired' : r \in retired \/ Outdated(r.seq, r.at)'
      BY <3>1 DEF Outdated
    <3>4. Superseded'
      BY <1>2, <3>1, <3>2, <3>3, SupersededLasts
    <3> QED  BY <1>1, <3>1, <3>2, <3>4, FeedOutlivesHistory
  <2>3. ASSUME NEW r \in retired, Reclaim(r) PROVE FeedShape'
    <3>1. UNCHANGED <<epoch, hist, sub, held>>
      BY <2>3 DEF Reclaim
    <3>2. ops' = ops /\ visible' = visible
      BY <3>1 DEF ops, visible
    <3>3. Superseded'
      BY <1>2, <2>3, ReclaimSupersedes
    <3> QED  BY <1>1, <1>2, <3>1, <3>2, <3>3, FeedOutlivesHistory
  <2> QED  BY <1>5, <2>1, <2>2, <2>3 DEF Collector, GarbageCollection
<1> QED  BY <1>3, <1>4, <1>5

-----------------------------------------------------------------------------
(* Batches                                                                 *)

\* Nothing to list.
LEMMA EmptyListing == Ascending({}) = <<>>
<1>1. Cardinality({}) = 0 /\ 1..0 = {}
  BY FS_EmptySet
<1> QED  BY <1>1 DEF Ascending

\* One number to list.
LEMMA SingleListing ==
  ASSUME NEW x \in Nat
  PROVE  Ascending({x}) = <<x>>
<1>1. <<x>> \in Seq(Int) /\ Increasing(<<x>>) /\ Range(<<x>>) = {x}
  BY DEF Increasing, Range
<1>2. <<x>> = Listed({x})
  BY <1>1, IncreasingIsListed
<1>3. Ascending({x}) = Listed({x})
  BY DEF Ascending, Listed
<1> QED  BY <1>2, <1>3

\* The first entry of a batch is the next of the range, the rest what follows.
LEMMA FirstOfBatch ==
  ASSUME NEW a \in Nat, NEW b \in Nat, NEW q \in Seq(Nat), q # <<>>,
         q = Ascending({s \in (a + 1)..b : InScope(s)})
  PROVE  LET x == Head(q)
         IN  /\ x \in (a + 1)..b /\ x \in Nat /\ InScope(x)
             /\ {s \in (a + 1)..x : InScope(s)} = {x}
             /\ Tail(q) = Ascending({s \in (x + 1)..b : InScope(s)})
             /\ Tail(q) # <<>> => Last(Tail(q)) = Last(q)
             /\ Range(Tail(q)) \subseteq Range(q)
<1> DEFINE x == Head(q)
           t == Tail(q)
           f == <<x>>
<1>1. x \in Nat /\ t \in Seq(Nat) /\ Len(t) = Len(q) - 1 /\ Len(q) \in Nat \ {0}
      /\ \A i \in 1..Len(t) : t[i] = q[i + 1]
  BY HeadTailProperties, EmptySeq, LenProperties
<1>2. f \in Seq(Nat) /\ f # <<>> /\ Last(f) = x /\ Range(f) = {x}
  <2>1. f \in Seq(Nat) /\ f # <<>> /\ Len(f) = 1 /\ f[1] = x
    BY <1>1
  <2>2. DOMAIN f = {1}
    BY <2>1
  <2> HIDE DEF f
  <2> QED  BY <2>1, <2>2 DEF Last, Range
<1>3. q = f \o t
  <2>1. \A S : \A s \in Seq(S) : s # <<>> => s = <<Head(s)>> \o Tail(s)
    OBVIOUS
  <2> QED  BY <2>1
<1>4. DOMAIN t = 1..Len(t) /\ DOMAIN q = 1..Len(q)
  BY <1>1, LenProperties
<1> HIDE DEF x, t, f
<1>5. f \o t = Ascending({s \in (a + 1)..b : InScope(s)})
  BY <1>3
<1>6. x \in (a + 1)..b /\ t = Ascending({s \in (x + 1)..b : InScope(s)})
  <2>1. /\ Last(f) \in (a + 1)..b
        /\ t = Ascending({s \in (Last(f) + 1)..b : InScope(s)})
    <3>1. /\ f \in Seq(Nat) /\ t \in Seq(Nat) /\ f # <<>> /\ a \in Nat /\ b \in Nat
          /\ f \o t = Ascending({s \in (a + 1)..b : InScope(s)})
      BY <1>1, <1>2, <1>5
    <3> QED  BY <3>1, AscendingShrinks, ZenonT(40)
  <2> QED  BY <1>2, <2>1
<1>7. Range(q) = {s \in (a + 1)..b : InScope(s)}
  BY AscendingMembers
<1>8. Range(t) = {s \in (x + 1)..b : InScope(s)}
  BY <1>1, <1>6, AscendingMembers
<1>9. Range(q) = {x} \cup Range(t)
  <2>1. Range(f \o t) = Range(f) \cup Range(t)
    BY <1>1, <1>2, ConcatRange
  <2> QED  BY <1>2, <1>3, <2>1
<1>10. InScope(x) /\ {s \in (a + 1)..x : InScope(s)} = {x}
  <2>1. x \in {s \in (a + 1)..b : InScope(s)}
    BY <1>7, <1>9
  <2>2. ASSUME NEW s \in (a + 1)..x, InScope(s) PROVE s = x
    <3>1. s \in (a + 1)..b /\ s \notin (x + 1)..b
      BY <1>1, <1>6
    <3>2. s \in Range(q) /\ s \notin Range(t)
      BY <1>7, <1>8, <2>2, <3>1
    <3> QED  BY <1>9, <3>2
  <2>3. x \in (a + 1)..x
    BY <1>1, <1>6
  <2> QED  BY <2>1, <2>2, <2>3
<1>11. t # <<>> => Last(t) = Last(q)
  <2> SUFFICES ASSUME t # <<>> PROVE Last(t) = Last(q)
    OBVIOUS
  <2>1. Len(t) \in Nat /\ Len(t) # 0
    BY <1>1, EmptySeq, LenProperties
  <2>2. Len(t) \in 1..Len(t) /\ Len(t) + 1 = Len(q)
    BY <1>1, <2>1
  <2>3. t[Len(t)] = q[Len(q)]
    BY <1>1, <2>2
  <2> QED  BY <2>3 DEF Last
<1>12. /\ x \in (a + 1)..b /\ x \in Nat /\ InScope(x)
       /\ {s \in (a + 1)..x : InScope(s)} = {x}
       /\ t = Ascending({s \in (x + 1)..b : InScope(s)})
       /\ t # <<>> => Last(t) = Last(q)
       /\ Range(t) \subseteq Range(q)
  BY <1>1, <1>6, <1>9, <1>10, <1>11
<1> QED  BY <1>12 DEF x, t

\* What is drained is the listing of its own stretch.
LEMMA WholeQueue ==
  ASSUME NEW a \in Nat, NEW b \in Nat, NEW q \in Seq(Nat), q # <<>>,
         q = Ascending({s \in (a + 1)..b : InScope(s)})
  PROVE  q = Ascending({s \in (a + 1)..Last(q) : InScope(s)})
<1> DEFINE l == Last(q)
           e == <<>>
<1>1. e \in Seq(Nat) /\ q \o e = q
  BY ConcatEmptySeq
<1>2. l \in (a + 1)..b /\ e = Ascending({s \in (l + 1)..b : InScope(s)})
  <2> HIDE DEF e
  <2> QED  BY <1>1, AscendingShrinks, ZenonT(40)
<1>3. l \in Nat /\ a <= l /\ l <= b
  BY <1>2
<1> HIDE DEF l
<1>4. Ascending({s \in (a + 1)..b : InScope(s)})
        = Ascending({s \in (a + 1)..l : InScope(s)}) \o Ascending({s \in (l + 1)..b : InScope(s)})
  BY <1>3, AscendingGrows
<1>5. Ascending({s \in (a + 1)..l : InScope(s)}) \in Seq(Nat)
  BY <1>3, AscendingMembers
<1>6. q = Ascending({s \in (a + 1)..l : InScope(s)}) \o e
  BY <1>2, <1>4
<1>7. Ascending({s \in (a + 1)..l : InScope(s)}) \o e = Ascending({s \in (a + 1)..l : InScope(s)})
  BY <1>5, ConcatEmptySeq
<1> QED  BY <1>6, <1>7 DEF l

-----------------------------------------------------------------------------
(* The pump's steps                                                        *)

\* What a step of the pump starts from.
LEMMA PumpStarts ==
  ASSUME StreamInv, Attached, FeedShape, mode = "feed", UNCHANGED <<epoch, hist, mode>>
  PROVE  /\ Registered /\ Attachment /\ Delivered /\ Ahead /\ Superseded /\ ~feed.lost
         /\ ops' = ops /\ visible' = visible /\ visible \in Nat /\ mode' = "feed"
         /\ \A s : InScope(s)' = InScope(s)
         /\ sub \in Sub /\ held \subseteq Nat /\ feed \in Pump
BY SameHistory, HistoryTyped
   DEF StreamInv, StreamShape, StreamTypes, FeedShape, Attached, FeedHolds, InScope

\* The feed subscribes; the attach marker's snapshot comes later.
LEMMA SubscribeKeeps ==
  ASSUME StreamInv, Attached, FeedShape, mode = "feed", mode' = mode, FeedSubscribe
  PROVE  FeedShape'
<1>1. /\ feed.pc = "off" /\ CanSubscribe /\ sub' = Subscription
      /\ feed' = [feed EXCEPT !.pc = "attach", !.start = visible]
      /\ UNCHANGED <<epoch, hist, retired, dead, held, chan, hand, sent>>
  BY DEF FeedSubscribe, feedSource, gcVars
<1>2. /\ Registered /\ Attachment /\ Superseded /\ ~feed.lost
      /\ ops' = ops /\ visible' = visible /\ visible \in Nat /\ mode' = "feed"
      /\ feed \in Pump /\ held \subseteq Nat
  BY <1>1, PumpStarts
<1>3. /\ feed'.pc = "attach" /\ feed'.start = visible /\ feed'.hold = feed.hold
      /\ feed'.commit = feed.commit /\ ~feed'.lost
  BY <1>1, <1>2 DEF Pump
<1>4. /\ sub'.on /\ sub'.pin = visible /\ sub'.batch = <<>> /\ sub'.taken = <<>>
  BY <1>1, SubscribesEmpty DEF StreamInv, StreamShape
<1>5. Registered' /\ Superseded'
  <2>1. held' = Holding(feed', chan', hand')
    BY <1>1, <1>2, <1>3 DEF Registered, Holding
  <2> QED  BY <1>1, <1>2, <1>4, <2>1, PumpHolds
<1>6. Attachment'
  BY <1>1, <1>2, <1>3, <1>4 DEF Attachment, Live
<1>7. Delivered'
  <2>1. \A s : s \notin (visible + 1)..visible
    BY <1>2
  <2>2. {s \in (visible + 1)..visible : Shows(s)'} = {} /\ {s \in (visible + 1)..visible : InScope(s)'} = {}
    BY <2>1
  <2>3. sent' = <<>>
    BY <1>1, <1>2 DEF Attachment
  <2>4. SentUpTo(visible)'
    BY <1>2, <1>3, <1>4, <2>2, <2>3, EmptyListing DEF SentUpTo
  <2>5. visible \in feed'.start..sub'.pin
    BY <1>2, <1>3, <1>4
  <2>6. \E lo \in feed'.start..sub'.pin : SentUpTo(lo)'
    BY <1>2, <2>4, <2>5
  <2> QED  BY <2>6 DEF Delivered
<1>8. Ahead'
  BY <1>3 DEF Ahead
<1> QED  BY <1>2, <1>3, <1>5, <1>6, <1>7, <1>8 DEF FeedShape

\* The attach marker takes the snapshot the subscription began at.
LEMMA AttachKeeps ==
  ASSUME StreamInv, Attached, FeedShape, mode = "feed", mode' = mode, FeedAttach
  PROVE  FeedShape'
<1>0. PICK b \in Nat : b = feed.start
  BY EntriesPublished
<1> DEFINE item == [seq |-> b, commit |-> b]
<1>1. /\ feed.pc = "attach" /\ held' = Holding(feed', chan', hand')
      /\ UNCHANGED <<epoch, hist, retired, dead>>
  BY DEF FeedAttach, feedSource, gcVars
<1>2. /\ Registered /\ Attachment /\ Delivered /\ Superseded /\ ~feed.lost
      /\ ops' = ops /\ visible' = visible /\ visible \in Nat /\ mode' = "feed"
      /\ (\A s : InScope(s)' = InScope(s))
      /\ feed \in Pump /\ held \subseteq Nat
  BY <1>1, PumpStarts
<1>3. /\ sub.on /\ sub.batch = <<>> /\ sub.taken = <<>> /\ sub.pin = b /\ sent = <<>>
      /\ b \in Nat /\ b <= visible
  BY <1>0, <1>1, <1>2, EntriesPublished DEF Attachment, Live
<1>4. Registrable(b)
  BY <1>3, HoldVouches
<1>5. /\ feed' = [feed EXCEPT !.pc = "recv", !.hold = {b}] /\ chan' = <<item>>
      /\ UNCHANGED <<sub, hand, sent>>
  BY <1>0, <1>4 DEF FeedAttach
<1>6. /\ feed'.pc = "recv" /\ feed'.start = b /\ feed'.hold = {b} /\ feed'.puts = feed.puts
      /\ feed'.commit = feed.commit /\ ~feed'.lost
  BY <1>0, <1>2, <1>5 DEF Pump
<1>7. Registered' /\ Superseded'
  <2>1. Range(chan') = {item}
    BY <1>5 DEF Range
  <2>2. \A m \in held' : m = b \/ m \in held
    BY <1>1, <1>2, <1>5, <1>6, <2>1 DEF Registered, Holding
  <2>3. \A m \in held' : m \in Nat /\ (m \in held \/ Registrable(m))
    BY <1>2, <1>3, <1>4, <2>2
  <2> HIDE DEF item
  <2> QED  BY <1>1, <1>2, <1>3, <1>5, <2>3, PumpHolds
<1>8. Attachment'
  BY <1>3, <1>5, <1>6, <1>2 DEF Attachment, Live
<1>9. Delivered'
  <2>1. \A s : s \notin (b + 1)..b
    BY <1>3
  <2>2. {s \in (b + 1)..b : Shows(s)'} = {} /\ {s \in (b + 1)..b : InScope(s)'} = {}
    BY <2>1
  <2>3. SentUpTo(b)'
    BY <1>3, <1>5, <1>6, <2>2, EmptyListing DEF SentUpTo
  <2>4. b \in feed'.start..sub'.pin
    BY <1>3, <1>5, <1>6
  <2>5. \E lo \in feed'.start..sub'.pin : SentUpTo(lo)'
    BY <2>3, <2>4
  <2> QED  BY <2>5 DEF Delivered
<1>10. Ahead'
  <2>1. ASSUME NEW s \in 1..visible, s > sub.pin \/ s \in Range(sub.batch) PROVE b <= ops[s].commit
    <3>1. s > b /\ s \in Nat
      BY <1>3, <2>1 DEF Range
    <3>2. ops[s].commit \in s..visible
      BY <1>2, LaterCommitsEndLater
    <3> QED  BY <1>3, <3>1, <3>2
  <2>2. HoldsAt(b)'
    BY <1>2, <1>5, <1>6, <2>1 DEF HoldsAt
  <2>3. \E h \in 0..visible' : HoldsAt(h)'
    BY <1>2, <1>3, <2>2
  <2> QED  BY <2>3 DEF Ahead
<1> QED  BY <1>2, <1>6, <1>7, <1>8, <1>9, <1>10 DEF FeedShape

\* The pump drains its queue, or resolves what it drained.
LEMMA ReceiveKeeps ==
  ASSUME StreamInv, StreamInv', Attached, FeedShape, mode = "feed", mode' = mode, FeedReceive
  PROVE  FeedShape'
<1>1. /\ feed.pc = "recv" /\ UNCHANGED <<feed, chan, hand, sent>>
      /\ UNCHANGED <<epoch, hist, retired, dead, held>>
  BY DEF FeedReceive, feedVars, Drain, Resolve, gcVars
<1>2. /\ Registered /\ Attachment /\ Delivered /\ Ahead /\ Superseded /\ ~feed.lost
      /\ ops' = ops /\ visible' = visible /\ visible \in Nat /\ mode' = "feed"
      /\ (\A s : InScope(s)' = InScope(s)) /\ (\A s : Shows(s)' = Shows(s))
      /\ sub \in Sub /\ feed \in Pump /\ held \subseteq Nat
  <2>1. \A s : InScope(s)' = InScope(s)
    BY <1>1, PumpStarts
  <2>2. \A s : Shows(s)' = Shows(s)
    BY <1>1, PumpStarts DEF Shows, Filtered, InScope
  <2> QED  BY <1>1, <2>1, <2>2, PumpStarts
<1>3. /\ sub.on /\ sub.pin \in Nat /\ published \in Nat /\ sub.pin <= published
      /\ sub.taken \in Seq(Nat) /\ sub.queue \in Seq(Nat) /\ feed.start \in Nat /\ feed.start <= sub.pin
      /\ \A s \in Range(sub.taken) : s \in (sub.pin + 1)..published
      /\ sub.taken # <<>> => Last(sub.taken) \in Range(sub.taken)
  BY <1>1, <1>2, EntriesPublished DEF Attachment, Live
<1>4. PICK lo \in feed.start..sub.pin : SentUpTo(lo)
  BY <1>1, <1>2 DEF Delivered, Live
<1>5. PICK h \in 0..visible : HoldsAt(h)
  BY <1>1, <1>2 DEF Ahead
<1>6. held' = Holding(feed', chan', hand')
  BY <1>1, <1>2 DEF Registered
<1>7. CASE Drain
  <2>1. /\ ~sub.dropped /\ sub.queue # <<>> /\ sub.taken = <<>> /\ sub.batch = <<>>
        /\ sub' = [sub EXCEPT !.taken = sub.queue, !.queue = <<>>]
    BY <1>7 DEF Drain
  <2>2. /\ sub'.on /\ sub'.pin = sub.pin /\ sub'.batch = sub.batch /\ sub'.taken = sub.queue
    BY <1>2, <1>3, <2>1 DEF Sub
  <2>3. sub.queue = Ascending({s \in (sub.pin + 1)..Last(sub.queue) : InScope(s)})
    <3>1. sub.taken \o sub.queue = Ascending({s \in (sub.pin + 1)..published : InScope(s)})
      BY <1>3, <2>1 DEF StreamInv, SubscriptionGapFree
    <3>2. sub.queue = Ascending({s \in (sub.pin + 1)..published : InScope(s)})
      BY <1>3, <2>1, <3>1, ConcatEmptySeq
    <3> QED  BY <1>3, <2>1, <3>2, WholeQueue
  <2>4. Registered' /\ Superseded'
    BY <1>1, <1>2, <1>3, <1>6, <2>2, PumpHolds
  <2>5. Attachment'
    BY <1>1, <1>2, <2>1, <2>2, <2>3 DEF Attachment, Live
  <2>6. Delivered'
    BY <1>1, <1>2, <1>4, <2>2 DEF Delivered, SentUpTo, Live
  <2>7. Ahead'
    BY <1>1, <1>2, <1>5, <2>2 DEF Ahead, HoldsAt
  <2> QED  BY <1>1, <1>2, <2>4, <2>5, <2>6, <2>7 DEF FeedShape
<1>8. CASE Resolve
  <2> DEFINE l == Last(sub.taken)
             q == sub.taken
  <2>1. sub.taken # <<>> /\ sub.batch = <<>>
    BY <1>1, <1>2, <1>8 DEF Resolve, Attachment, Live
  <2>2. l \in (sub.pin + 1)..published /\ l \in Nat
    BY <1>3, <2>1
  <2>3. sub' = [sub EXCEPT !.taken = <<>>, !.batch = q, !.pin = l]
    <3>1. ~sub'.failed
      BY DEF StreamInv, StreamResolves
    <3>2. [sub EXCEPT !.taken = <<>>, !.dropped = TRUE, !.failed = TRUE].failed
      BY <1>2 DEF Sub
    <3> QED  BY <1>8, <3>1, <3>2 DEF Resolve, PinAfter
  <2> HIDE DEF l, q
  <2>4. /\ sub'.on /\ sub'.pin = l /\ sub'.batch = q /\ sub'.taken = <<>>
    BY <1>2, <1>3, <2>3 DEF Sub
  <2>5. q = Ascending({s \in (sub.pin + 1)..l : InScope(s)}) /\ q # <<>> /\ Last(q) = l
    BY <1>1, <1>2, <2>1 DEF Attachment, Live, l, q
  <2>6. Registered' /\ Superseded'
    BY <1>1, <1>2, <1>3, <1>6, <2>2, <2>4, PumpHolds
  <2>7. Attachment'
    <3>1. feed.start <= l
      BY <1>3, <2>2
    <3> QED  BY <1>1, <1>2, <2>4, <2>5, <3>1 DEF Attachment, Live
  <2>8. sent = Ascending({s \in (feed.start + 1)..sub.pin : Shows(s)})
    <3> DEFINE R == {s \in (lo + 1)..sub.pin : InScope(s)}
    <3>1. lo \in Nat /\ feed.start <= lo /\ lo <= sub.pin
      BY <1>3
    <3>2. Range(Ascending(R)) = R
      BY <1>3, <3>1, AscendingMembers
    <3>3. Ascending(R) = <<>>
      BY <1>4, <2>1 DEF SentUpTo
    <3>4. Range(<<>>) = {}
      BY DEF Range
    <3>5. R = {}
      BY <3>2, <3>3, <3>4
    <3>6. \A s \in (lo + 1)..sub.pin : ~InScope(s)
      BY <3>5
    <3> HIDE DEF R
    <3>7. {s \in (feed.start + 1)..sub.pin : Shows(s)} = {s \in (feed.start + 1)..lo : Shows(s)}
      <4>1. ASSUME NEW s \in (feed.start + 1)..sub.pin, Shows(s) PROVE s \in (feed.start + 1)..lo
        BY <1>3, <3>1, <3>6, <4>1 DEF Shows
      <4>2. \A s \in (feed.start + 1)..lo : s \in (feed.start + 1)..sub.pin
        BY <1>3, <3>1
      <4> QED  BY <4>1, <4>2
    <3> QED  BY <1>4, <3>7 DEF SentUpTo
  <2>9. Delivered'
    <3>1. sub.pin \in feed'.start..sub'.pin
      BY <1>1, <1>3, <2>2, <2>4
    <3>2. /\ {s \in (feed.start + 1)..sub.pin : Shows(s)'} = {s \in (feed.start + 1)..sub.pin : Shows(s)}
          /\ {s \in (sub.pin + 1)..l : InScope(s)'} = {s \in (sub.pin + 1)..l : InScope(s)}
      BY <1>2
    <3>3. /\ sent' = Ascending({s \in (feed'.start + 1)..sub.pin : Shows(s)'})
          /\ sub'.batch = Ascending({s \in (sub.pin + 1)..sub'.pin : InScope(s)'})
      BY <1>1, <2>4, <2>5, <2>8, <3>2
    <3> DEFINE n == sub.pin
    <3>4. n \in feed'.start..sub'.pin /\ sent' = Ascending({s \in (feed'.start + 1)..n : Shows(s)'})
          /\ sub'.batch = Ascending({s \in (n + 1)..sub'.pin : InScope(s)'})
      BY <3>1, <3>3
    <3> HIDE DEF n
    <3>5. \E x \in feed'.start..sub'.pin :
            /\ sent' = Ascending({s \in (feed'.start + 1)..x : Shows(s)'})
            /\ sub'.batch = Ascending({s \in (x + 1)..sub'.pin : InScope(s)'})
      BY <3>4
    <3> QED  BY <3>5 DEF Delivered, SentUpTo
  <2>10. Ahead'
    <3>1. ASSUME NEW s \in 1..visible, s > l \/ s \in Range(q) PROVE s > sub.pin
      BY <1>3, <2>2, <3>1 DEF q
    <3>2. HoldsAt(h)'
      BY <1>1, <1>2, <1>5, <2>4, <3>1 DEF HoldsAt
    <3>3. \E x \in 0..visible' : HoldsAt(x)'
      BY <1>2, <3>2
    <3> QED  BY <3>3 DEF Ahead
  <2> QED  BY <1>1, <1>2, <2>6, <2>7, <2>9, <2>10 DEF FeedShape
<1> QED  BY <1>7, <1>8 DEF FeedReceive

\* One entry of the batch: its commit can always be registered, since the
\* rolling hold lies below it.
LEMMA ItemKeeps ==
  ASSUME StreamInv, Attached, FeedShape, mode = "feed", mode' = mode, FeedItem
  PROVE  FeedShape'
<1>1. /\ feed.pc \in {"recv", "items"} /\ sub.batch # <<>> /\ held' = Holding(feed', chan', hand')
      /\ UNCHANGED <<epoch, hist, retired, dead>>
  BY DEF FeedItem, feedSource, gcVars
<1>2. /\ Registered /\ Attachment /\ Delivered /\ Ahead /\ Superseded /\ ~feed.lost
      /\ ops' = ops /\ visible' = visible /\ visible \in Nat /\ mode' = "feed"
      /\ (\A s : InScope(s)' = InScope(s))
      /\ sub \in Sub /\ feed \in Pump /\ held \subseteq Nat
  BY <1>1, PumpStarts
<1>3. /\ sub.on /\ sub.pin \in Nat /\ sub.batch \in Seq(Nat) /\ feed.start \in Nat
      /\ sub.taken = <<>> /\ Last(sub.batch) = sub.pin /\ feed.start <= sub.pin
      /\ sub.pin \in Range(sub.batch) /\ sub.pin \in 1..visible
      /\ \A s \in Range(sub.batch) : s \in 1..visible
  <2>1. /\ \A s \in Range(sub.batch) : s \in 1..visible
        /\ Last(sub.batch) \in Range(sub.batch)
    BY <1>1, BatchNumbers
  <2> QED  BY <1>1, <1>2, <2>1, EntriesPublished DEF Attachment, Live
<1>4. PICK lo \in feed.start..sub.pin : SentUpTo(lo)
  BY <1>1, <1>2 DEF Delivered, Live
<1>5. PICK h \in 0..visible : HoldsAt(h)
  BY <1>1, <1>2 DEF Ahead
<1>6. PICK s \in Nat : s = Head(sub.batch)
  BY <1>1, <1>3, HeadTailProperties
<1>7. PICK q \in Seq(Nat) : q = Tail(sub.batch)
  BY <1>1, <1>3, HeadTailProperties
<1>8. /\ s \in (lo + 1)..sub.pin /\ InScope(s)
      /\ {x \in (lo + 1)..s : InScope(x)} = {s}
      /\ q = Ascending({x \in (s + 1)..sub.pin : InScope(x)})
      /\ q # <<>> => Last(q) = sub.pin
      /\ Range(q) \subseteq Range(sub.batch)
  <2>1. sub.batch = Ascending({x \in (lo + 1)..sub.pin : InScope(x)}) /\ lo \in Nat
    BY <1>3, <1>4 DEF SentUpTo
  <2> QED  BY <1>1, <1>3, <1>6, <1>7, <2>1, FirstOfBatch, ZenonT(40)
<1>9. s \in Range(sub.batch)
  BY <1>1, <1>6, BatchNumbers
<1>10. PICK c \in Nat : c = ops[s].commit /\ c <= visible /\ h <= c
  <2>1. ops[s].commit \in s..visible /\ s \in 1..visible
    BY <1>1, <1>6, BatchNumbers
  <2>2. h <= ops[s].commit
    BY <1>5, <1>9, <2>1 DEF HoldsAt
  <2> QED  BY <1>2, <2>1, <2>2
<1>11. PICK l \in Nat : l = ops[Last(sub.batch)].commit /\ h <= l
  <2>1. ops[sub.pin].commit \in sub.pin..visible
    BY <1>1, <1>3, BatchNumbers
  <2>2. h <= ops[sub.pin].commit
    BY <1>3, <1>5 DEF HoldsAt
  <2> QED  BY <1>3, <2>1, <2>2
<1>12. Registrable(c)
  <2>1. h \in held /\ h \in Nat
    BY <1>2, <1>5 DEF HoldsAt, Registered, Holding
  <2> QED  BY <1>10, <2>1, HoldVouches
<1> DEFINE item == [seq |-> s, commit |-> c]
<1>13. /\ sub' = [sub EXCEPT !.batch = q] /\ hand' = hand
       /\ IF Filtered(s)
          THEN feed' = [feed EXCEPT !.pc = "items", !.tail = l] /\ UNCHANGED <<chan, sent>>
          ELSE /\ feed' = [feed EXCEPT !.pc = "items", !.tail = l, !.commit = {c}]
               /\ chan' = Append(chan, item) /\ sent' = Append(sent, s)
  <2> HIDE DEF item
  <2>1. CASE Filtered(s)
    <3>1. /\ feed' = [feed EXCEPT !.pc = "items", !.tail = l] /\ UNCHANGED <<chan, sent, hand>>
          /\ sub' = [sub EXCEPT !.batch = q]
      BY <1>6, <1>7, <1>11, <2>1 DEF FeedItem
    <3> QED  BY <2>1, <3>1
  <2>2. CASE ~Filtered(s)
    <3>1. /\ feed' = [[feed EXCEPT !.pc = "items", !.tail = l] EXCEPT !.commit = {c}]
          /\ chan' = Append(chan, item) /\ sent' = Append(sent, s) /\ hand' = hand
          /\ sub' = [sub EXCEPT !.batch = q]
      BY <1>6, <1>7, <1>10, <1>11, <1>12, <2>2 DEF FeedItem, item
    <3>2. [[feed EXCEPT !.pc = "items", !.tail = l] EXCEPT !.commit = {c}]
            = [feed EXCEPT !.pc = "items", !.tail = l, !.commit = {c}]
      OBVIOUS
    <3> QED  BY <2>2, <3>1, <3>2
  <2> QED  BY <2>1, <2>2
<1>14. /\ feed'.pc = "items" /\ feed'.tail = l /\ feed'.start = feed.start /\ feed'.hold = feed.hold
       /\ feed'.puts = feed.puts /\ ~feed'.lost
       /\ feed'.commit = IF Filtered(s) THEN feed.commit ELSE {c}
  <2> HIDE DEF item
  <2> QED  BY <1>2, <1>13 DEF Pump
<1>15. /\ sub'.on /\ sub'.pin = sub.pin /\ sub'.batch = q /\ sub'.taken = <<>>
  BY <1>2, <1>3, <1>13 DEF Sub
<1>16. \A x : Shows(x)' = Shows(x)
  BY <1>2, <1>14 DEF Shows, Filtered, InScope
<1>17. Registered' /\ Superseded'
  <2>1. \A m \in held' : m = c \/ m \in held
    <3>1. CASE Filtered(s)
      BY <1>1, <1>2, <1>13, <1>14, <3>1 DEF Registered, Holding
    <3>2. CASE ~Filtered(s)
      <4>1. Range(chan') = Range(chan) \cup {item} /\ item.commit = c
        <5>1. chan \in Seq([seq : Nat, commit : Nat])
          BY DEF Attached, FeedHolds
        <5>2. item \in [seq : Nat, commit : Nat] /\ item.commit = c
          OBVIOUS
        <5>3. chan' = Append(chan, item)
          BY <1>13, <3>2
        <5> DEFINE Item == [seq : Nat, commit : Nat]
        <5>4. chan \in Seq(Item) /\ item \in Item
          BY <5>1, <5>2
        <5> HIDE DEF item, Item
        <5>5. Range(Append(chan, item)) = Range(chan) \cup {item}
          <6>1. /\ Len(Append(chan, item)) = Len(chan) + 1 /\ Append(chan, item) \in Seq(Item)
                /\ \A i \in 1..Len(chan) : Append(chan, item)[i] = chan[i]
                /\ Append(chan, item)[Len(chan) + 1] = item
            BY <5>4, AppendProperties
          <6>2. /\ DOMAIN chan = 1..Len(chan) /\ Len(chan) \in Nat
                /\ DOMAIN Append(chan, item) = 1..Len(chan) + 1
            BY <5>4, <6>1, LenProperties
          <6> QED  BY <6>1, <6>2, SMTT(30) DEF Range
        <5> QED  BY <5>2, <5>3, <5>5
      <4> HIDE DEF item
      <4> QED  BY <1>1, <1>2, <1>13, <1>14, <3>2, <4>1 DEF Registered, Holding
    <3> QED  BY <3>1, <3>2
  <2>2. \A m \in held' : m \in Nat /\ (m \in held \/ Registrable(m))
    BY <1>2, <1>12, <2>1
  <2>3. sub'.on => sub'.pin = visible \/ (sub.on /\ sub.pin <= sub'.pin)
    BY <1>3, <1>15
  <2> HIDE DEF item
  <2> QED  BY <1>1, <1>2, <1>3, <1>15, <2>2, <2>3, PumpHolds
<1>18. Attachment'
  BY <1>3, <1>8, <1>14, <1>15 DEF Attachment, Live
<1>19. Delivered'
  <2>1. lo \in Nat /\ feed.start <= lo /\ lo <= s /\ s <= sub.pin
    BY <1>3, <1>8
  <2>2. sent = Ascending({x \in (feed.start + 1)..lo : Shows(x)})
    BY <1>4 DEF SentUpTo
  <2>3. Ascending({x \in (feed.start + 1)..s : Shows(x)})
          = sent \o Ascending({x \in (lo + 1)..s : Shows(x)})
    <3>1. feed.start \in Nat /\ lo \in Nat /\ s \in Nat /\ feed.start <= lo /\ lo <= s
      BY <1>3, <2>1
    <3>2. Ascending({x \in (feed.start + 1)..s : Shows(x)})
            = Ascending({x \in (feed.start + 1)..lo : Shows(x)}) \o Ascending({x \in (lo + 1)..s : Shows(x)})
      <4>1. Events(feed.start, s) = Events(feed.start, lo) \o Events(lo, s)
        BY <3>1, StretchesJoin
      <4> QED  BY <4>1 DEF Events
    <3> QED  BY <2>2, <3>2
  <2>4. sent \in Seq(Nat)
    BY <1>3, <2>1, <2>2, ShownAreListed
  <2>5. sent' = Ascending({x \in (feed.start + 1)..s : Shows(x)})
    <3>1. CASE Filtered(s)
      <4>1. {x \in (lo + 1)..s : Shows(x)} = {}
        BY <1>8, <3>1 DEF Shows
      <4>2. sent \o <<>> = sent
        BY <2>4, ConcatEmptySeq
      <4> QED  BY <1>13, <2>3, <3>1, <4>1, <4>2, EmptyListing
    <3>2. CASE ~Filtered(s)
      <4>1. {x \in (lo + 1)..s : Shows(x)} = {s}
        BY <1>8, <3>2 DEF Shows
      <4>2. Ascending({x \in (lo + 1)..s : Shows(x)}) = <<s>>
        BY <4>1, SingleListing
      <4>3. Append(sent, s) = sent \o <<s>>
        BY <2>4, AppendIsConcat
      <4>4. sent' = Append(sent, s)
        BY <1>13, <3>2
      <4> QED  BY <2>3, <4>2, <4>3, <4>4
    <3> QED  BY <3>1, <3>2
  <2>6. /\ {x \in (feed.start + 1)..s : Shows(x)'} = {x \in (feed.start + 1)..s : Shows(x)}
        /\ {x \in (s + 1)..sub.pin : InScope(x)'} = {x \in (s + 1)..sub.pin : InScope(x)}
    BY <1>2, <1>16
  <2>7. SentUpTo(s)'
    BY <1>8, <1>14, <1>15, <2>5, <2>6 DEF SentUpTo
  <2>8. \E x \in feed'.start..sub'.pin : SentUpTo(x)'
    BY <1>3, <1>14, <1>15, <2>1, <2>7
  <2> QED  BY <2>8 DEF Delivered
<1>20. Ahead'
  <2>1. HoldsAt(h)'
    BY <1>2, <1>3, <1>5, <1>8, <1>11, <1>14, <1>15 DEF HoldsAt
  <2>2. \E x \in 0..visible' : HoldsAt(x)'
    BY <1>2, <2>1
  <2> QED  BY <2>2 DEF Ahead
<1> QED  BY <1>2, <1>14, <1>17, <1>18, <1>19, <1>20 DEF FeedShape

\* The hold rolls on to the end of the last commit delivered.
LEMMA RollKeeps ==
  ASSUME StreamInv, Attached, FeedShape, mode = "feed", mode' = mode, FeedRoll
  PROVE  FeedShape'
<1>1. /\ feed.pc = "items" /\ sub.batch = <<>> /\ held' = Holding(feed', chan', hand')
      /\ UNCHANGED <<epoch, hist, retired, dead>>
  BY DEF FeedRoll, feedSource, gcVars
<1>2. /\ Registered /\ Attachment /\ Delivered /\ Ahead /\ Superseded /\ ~feed.lost
      /\ ops' = ops /\ visible' = visible /\ visible \in Nat /\ mode' = "feed"
      /\ (\A s : InScope(s)' = InScope(s))
      /\ sub \in Sub /\ feed \in Pump /\ held \subseteq Nat
  BY <1>1, PumpStarts
<1>3. sub.on /\ sub.pin \in Nat
  BY <1>1, <1>2, EntriesPublished DEF Attachment, Live
<1>4. PICK h \in 0..visible : HoldsAt(h)
  BY <1>1, <1>2 DEF Ahead
<1>5. PICK t \in Nat : t = feed.tail /\ h <= t /\ t <= visible /\ sub.pin \in 1..visible
                       /\ t = ops[sub.pin].commit
  <2>1. h <= feed.tail /\ sub.pin \in 1..visible /\ feed.tail = ops[sub.pin].commit
    BY <1>1, <1>4 DEF HoldsAt
  <2>2. ops[sub.pin].commit \in sub.pin..visible
    BY <1>3, <2>1, LaterCommitsEndLater
  <2> QED  BY <1>2, <1>3, <2>1, <2>2
<1>6. Registrable(t)
  <2>1. h \in held /\ h \in Nat
    BY <1>2, <1>4 DEF HoldsAt, Registered, Holding
  <2> QED  BY <1>5, <2>1, HoldVouches
<1>7. /\ feed' = [feed EXCEPT !.pc = "recv", !.hold = {t}, !.commit = {}]
      /\ UNCHANGED <<sub, chan, hand, sent>>
  BY <1>5, <1>6 DEF FeedRoll, Rolled, Nothing
<1>8. /\ feed'.pc = "recv" /\ feed'.hold = {t} /\ feed'.commit = {} /\ feed'.start = feed.start
      /\ feed'.puts = feed.puts /\ ~feed'.lost
  BY <1>2, <1>7 DEF Pump
<1>9. Registered' /\ Superseded'
  <2>1. \A m \in held' : m = t \/ m \in held
    BY <1>1, <1>2, <1>7, <1>8 DEF Registered, Holding
  <2>2. \A m \in held' : m \in Nat /\ (m \in held \/ Registrable(m))
    BY <1>2, <1>6, <2>1
  <2> QED  BY <1>1, <1>2, <1>3, <1>7, <2>2, PumpHolds
<1>10. Attachment'
  BY <1>1, <1>2, <1>7, <1>8 DEF Attachment, Live
<1>11. Delivered'
  <2>1. \A s : Shows(s)' = Shows(s)
    BY <1>2, <1>8 DEF Shows, Filtered, InScope
  <2> QED  BY <1>1, <1>2, <1>7, <1>8, <2>1 DEF Delivered, SentUpTo, Live
<1>12. Ahead'
  <2>1. ASSUME NEW s \in 1..visible, s > sub.pin PROVE t <= ops[s].commit
    BY <1>3, <1>5, <2>1, LaterCommitsEndLater
  <2>2. Range(sub.batch) = {}
    BY <1>1 DEF Range
  <2>3. HoldsAt(t)'
    BY <1>2, <1>7, <1>8, <2>1, <2>2 DEF HoldsAt
  <2>4. \E x \in 0..visible' : HoldsAt(x)'
    BY <1>2, <1>5, <2>3
  <2> QED  BY <2>4 DEF Ahead
<1> QED  BY <1>2, <1>8, <1>9, <1>10, <1>11, <1>12 DEF FeedShape

\* The pump returns, the client leaves, takes an item or lets go of one.
LEMMA OthersKeep ==
  ASSUME StreamInv, Attached, FeedShape, mode = "feed", mode' = mode,
         FeedEnds \/ FeedLeave \/ FeedTake \/ FeedDone
  PROVE  FeedShape'
<1>1. UNCHANGED <<epoch, hist, retired, dead, sent>>
  BY DEF FeedEnds, FeedLeave, FeedTake, FeedDone, Ended, feedSource, gcVars
<1>2. /\ Registered /\ Attachment /\ Delivered /\ Ahead /\ Superseded /\ ~feed.lost
      /\ ops' = ops /\ visible' = visible /\ visible \in Nat /\ mode' = "feed"
      /\ (\A s : InScope(s)' = InScope(s))
      /\ sub \in Sub /\ feed \in Pump /\ held \subseteq Nat
  BY <1>1, PumpStarts
<1>3. NoSub.pin \in Nat /\ ~NoSub.on
  BY DEF NoSub
<1>4. /\ held' = Holding(feed', chan', hand') /\ held' \subseteq held
      /\ \/ sub' = NoSub /\ feed'.pc = "ended" /\ ~feed'.lost
         \/ sub' = sub /\ feed' = feed
  <2>1. CASE FeedEnds
    <3>1. /\ feed' = [feed EXCEPT !.pc = "ended", !.hold = {}, !.commit = {}, !.lost = FALSE]
          /\ sub' = NoSub /\ UNCHANGED <<chan, hand>> /\ held' = Holding(feed', chan', hand')
      BY <2>1 DEF FeedEnds, Ended, Nothing
    <3>2. feed'.pc = "ended" /\ feed'.hold = {} /\ feed'.commit = {} /\ ~feed'.lost
      BY <1>2, <3>1 DEF Pump
    <3> QED  BY <1>2, <3>1, <3>2 DEF Registered, Holding
  <2>2. CASE FeedLeave
    <3>1. /\ feed' = [feed EXCEPT !.pc = "ended", !.hold = {}, !.commit = {}]
          /\ sub' = NoSub /\ chan' = <<>> /\ hand' = <<>> /\ held' = {}
      BY <2>2 DEF FeedLeave, Nothing
    <3>2. feed'.pc = "ended" /\ feed'.hold = {} /\ feed'.commit = {} /\ ~feed'.lost
      BY <1>2, <3>1 DEF Pump
    <3>3. Range(<<>>) = {}
      BY DEF Range
    <3> QED  BY <3>1, <3>2, <3>3 DEF Holding
  <2>3. CASE FeedTake
    <3>1. /\ chan # <<>> /\ hand' = <<Head(chan)>> /\ chan' = Tail(chan)
          /\ UNCHANGED <<feed, sub>> /\ held' = Holding(feed, chan', hand')
      BY <2>3 DEF FeedTake
    <3>2. Range(hand') = {Head(chan)}
      BY <3>1 DEF Range
    <3>3. Head(chan) \in Range(chan) /\ \A i \in Range(Tail(chan)) : i \in Range(chan)
      <4> DEFINE Item == [seq : Nat, commit : Nat]
      <4>1. chan \in Seq(Item)
        BY DEF Attached, FeedHolds
      <4> HIDE DEF Item
      <4>2. /\ Tail(chan) \in Seq(Item) /\ Len(Tail(chan)) = Len(chan) - 1 /\ Head(chan) = chan[1]
            /\ \A i \in 1..Len(Tail(chan)) : Tail(chan)[i] = chan[i + 1]
        BY <3>1, <4>1, HeadTailProperties
      <4>3. /\ DOMAIN chan = 1..Len(chan) /\ Len(chan) \in Nat \ {0}
            /\ DOMAIN Tail(chan) = 1..Len(Tail(chan))
        BY <3>1, <4>1, <4>2, LenProperties, EmptySeq
      <4>4. 1 \in DOMAIN chan /\ \A i \in DOMAIN Tail(chan) : i + 1 \in DOMAIN chan
        BY <4>2, <4>3
      <4> QED  BY <4>2, <4>3, <4>4 DEF Range
    <3> QED  BY <1>2, <3>1, <3>2, <3>3 DEF Registered, Holding
  <2>4. CASE FeedDone
    <3>1. hand' = <<>> /\ UNCHANGED <<feed, sub, chan>> /\ held' = Holding(feed, chan, hand')
      BY <2>4 DEF FeedDone
    <3>2. Range(hand') = {}
      BY <3>1 DEF Range
    <3> QED  BY <1>2, <3>1, <3>2 DEF Registered, Holding
  <2> QED  BY <2>1, <2>2, <2>3, <2>4
<1>5. Registered' /\ Superseded'
  <2>1. sub'.pin \in Nat /\ (sub'.on => sub.on /\ sub.pin <= sub'.pin)
    BY <1>2, <1>3, <1>4, EntriesPublished
  <2> QED  BY <1>1, <1>2, <1>4, <2>1, PumpHolds
<1>6. CASE sub' = NoSub /\ feed'.pc = "ended" /\ ~feed'.lost
  <2>1. Attachment' /\ Delivered' /\ Ahead'
    BY <1>6 DEF Attachment, Delivered, Ahead, Live
  <2> QED  BY <1>2, <1>5, <1>6, <2>1 DEF FeedShape
<1>7. CASE sub' = sub /\ feed' = feed
  <2>1. Attachment'
    BY <1>1, <1>2, <1>7 DEF Attachment, Live
  <2>2. \A s : Shows(s)' = Shows(s)
    BY <1>2, <1>7 DEF Shows, Filtered, InScope
  <2>3. Delivered'
    BY <1>1, <1>2, <1>7, <2>2 DEF Delivered, SentUpTo, Live
  <2>4. Ahead'
    BY <1>2, <1>7 DEF Ahead, HoldsAt
  <2> QED  BY <1>2, <1>5, <1>7, <2>1, <2>3, <2>4 DEF FeedShape
<1> QED  BY <1>4, <1>6, <1>7

-----------------------------------------------------------------------------
(* The theorems about the feed                                             *)

\* No feed is attached at first.
LEMMA FeedStarts ==
  ASSUME Init
  PROVE  FeedInv
<1>1. StreamInv /\ Attached
  BY ConsumersStart
<1>2. /\ sub = NoSub /\ held = {} /\ retired = {} /\ dead = {}
      /\ chan = <<>> /\ hand = <<>> /\ sent = <<>>
  BY DEF Init, StreamInit, FeedInit
<1>3. feed.pc = "off" /\ feed.hold = {} /\ feed.commit = {} /\ ~feed.lost
  <2>1. \A b \in BOOLEAN : LET f == [FeedOff EXCEPT !.puts = b]
                           IN  f.pc = "off" /\ f.hold = {} /\ f.commit = {} /\ ~f.lost
    BY DEF FeedOff, Nothing
  <2> QED  BY <2>1 DEF Init, FeedInit
<1>4. Registered
  <2>1. Range(<<>>) = {}
    BY DEF Range
  <2> QED  BY <1>2, <1>3, <2>1 DEF Registered, Holding
<1>5. Attachment /\ Delivered /\ Ahead
  BY <1>2, <1>3 DEF Attachment, Delivered, Ahead, Live
<1>6. Superseded
  BY <1>2 DEF Superseded
<1> QED  BY <1>1, <1>2, <1>3, <1>4, <1>5, <1>6 DEF FeedInv, FeedShape, NoFeed

\* Every step of a consumer, the write path or GC keeps the invariant.
LEMMA FeedStep ==
  ASSUME FeedInv, [Next]_vars
  PROVE  FeedInv'
<1>1. StreamInv /\ Attached /\ FeedShape
  BY DEF FeedInv
<1>2. StreamInv' /\ Attached'
  BY <1>1, ConsumersStep, StreamStep
<1>3. mode' = mode
  BY DEF Next, vars, Writer, Publisher, Collector, DirectUser, Alone, EdgeFlush, EdgeFault,
         EdgeReads, EdgeForwards, EdgeDrives, EdgePings, WithEdge, JournalRuns, JournalEvent,
         WithJournal, FeedRuns, WithFeed
<1>4. CASE mode # "feed"
  <2>1. UNCHANGED feedVars
    BY <1>4 DEF Next, vars, Writer, Publisher, Collector, DirectUser, Alone, EdgeFlush, EdgeFault,
                EdgeReads, EdgeForwards, EdgeDrives, EdgePings, WithEdge, JournalRuns, JournalEvent,
                WithJournal, FeedRuns, WithFeed
  <2>2. FeedShape'
    BY <1>1, <1>3, <1>4, <2>1 DEF FeedShape, NoFeed, feedVars
  <2> QED  BY <1>2, <2>2 DEF FeedInv
<1>5. CASE mode = "feed"
  <2>1. \/ UNCHANGED vars \/ Writer \/ Publisher \/ Collector \/ FeedRuns
    BY <1>5 DEF Next, DirectUser, EdgeFlush, EdgeFault, EdgeReads, EdgeForwards, EdgeDrives,
                EdgePings, WithEdge, JournalRuns, JournalEvent, WithJournal
  <2>2. CASE UNCHANGED vars
    <3>1. UNCHANGED <<feedVars, epoch, hist, sub, held, retired, dead>>
      BY <2>2 DEF vars, streamVars, gcVars
    <3>2. ops' = ops /\ visible' = visible /\ visible \in Nat
      BY <1>1, <3>1, SameHistory, HistoryTyped DEF StreamInv, StreamShape
    <3>3. Superseded'
      BY <1>1, <1>5, <3>1, <3>2, SupersededLasts DEF FeedShape
    <3>4. FeedShape'
      BY <1>1, <1>2, <1>3, <1>5, <3>1, <3>2, <3>3, FeedOutlivesHistory
    <3> QED  BY <1>2, <3>4 DEF FeedInv
  <2>3. CASE Writer \/ Publisher \/ Collector
    BY <1>1, <1>2, <1>5, <2>3, StoreBesideFeed DEF FeedInv
  <2>4. CASE FeedRuns
    <3>1. FeedNext
      BY <2>4 DEF FeedRuns
    <3>2. FeedShape'
      BY <1>1, <1>2, <1>3, <1>5, <3>1, SubscribeKeeps, AttachKeeps, ReceiveKeeps, ItemKeeps,
         RollKeeps, OthersKeep DEF FeedNext
    <3> QED  BY <1>2, <3>2 DEF FeedInv
  <2> QED  BY <2>1, <2>2, <2>3, <2>4
<1> QED  BY <1>4, <1>5

\* However commits, GC, lags and the client's leaving come in between, the feed holds
\* the snapshots it needs and has delivered all up to where it is (the GraphQL pump).
THEOREM FeedAlways == Spec => []FeedInv
<1>1. Init => FeedInv
  BY FeedStarts
<1>2. FeedInv /\ [Next]_vars => FeedInv'
  BY FeedStep
<1> QED  BY <1>1, <1>2, PTL DEF Spec

\* The pump can always register the snapshot of the commit it is about to
\* deliver, and while an item waits in the channel or is in the client's hand
\* no record its snapshot shows is deleted (the hold of the GraphQL pump
\* against process_retired).
THEOREM FeedNeverLosesASnapshot == Spec => []FeedSnapshotsHold
<1>1. FeedInv => FeedSnapshotsHold
  <2> SUFFICES ASSUME FeedInv PROVE FeedSnapshotsHold
    OBVIOUS
  <2>1. CASE mode # "feed"
    <3>1. ~feed.lost /\ Range(chan) = {} /\ Range(hand) = {}
      BY <2>1 DEF FeedInv, FeedShape, NoFeed, Range
    <3> QED  BY <3>1 DEF FeedSnapshotsHold
  <2>2. CASE mode = "feed"
    <3>1. /\ Registered /\ Superseded /\ ~feed.lost /\ StreamInv
          /\ visible \in Nat /\ held \subseteq Nat
      BY <2>2, EntriesPublished DEF FeedInv, FeedShape
    <3> SUFFICES ASSUME NEW i \in Range(chan) \cup Range(hand), NEW k \in Keys,
                        NEW d \in dead, {s \in 1..i.commit : ops[s].key = k} # {},
                        d = Max({s \in 1..i.commit : ops[s].key = k})
                 PROVE  FALSE
      BY <3>1 DEF FeedSnapshotsHold
    <3> DEFINE m == i.commit
               W == {s \in 1..m : ops[s].key = k}
    <3>2. m \in held /\ m \in Nat
      BY <3>1 DEF Registered, Holding
    <3>3. W \in SUBSET (1..m) /\ W # {} /\ d = Max(W)
      OBVIOUS
    <3>4. d \in W /\ \A y \in W : y <= d
      <4> HIDE DEF W, m
      <4> QED  BY <3>2, <3>3, MaxIsGreatest
    <3>5. PICK j \in (d + 1)..visible : ops[j].key = ops[d].key /\ j <= m
      BY <3>1, <3>2 DEF Superseded, OutOfSight
    <3>6. j \in W /\ d \in Nat
      BY <3>1, <3>2, <3>4, <3>5
    <3> QED  BY <3>4, <3>5, <3>6
  <2> QED  BY <2>1, <2>2
<1> QED  BY <1>1, FeedAlways, PTL

\* The items after the attach marker are every event of the range above the
\* subscribe boundary, in order, without a gap or an overlap (the GraphQL pump,
\* offer and recv_timeout).
THEOREM FeedLosesNothing == Spec => []FeedIsGapFree
<1>1. FeedInv => FeedIsGapFree
  <2> SUFFICES ASSUME FeedInv, feed.pc \in {"recv", "items"}, ~sub.dropped
               PROVE  sent \o Shown(sub.batch \o sub.taken \o sub.queue)
                        = Ascending({s \in (feed.start + 1)..published : InScope(s) /\ ~Filtered(s)})
    BY DEF FeedIsGapFree
  <2>1. mode = "feed" /\ StreamInv /\ Attached
    BY DEF FeedInv, FeedShape, NoFeed
  <2>2. /\ sub.on /\ sub.pin \in Nat /\ published \in Nat /\ sub.pin <= published
        /\ feed.start \in Nat /\ feed.start <= sub.pin
        /\ sub.batch \in Seq(Nat) /\ sub.taken \in Seq(Nat) /\ sub.queue \in Seq(Nat)
    BY <2>1, EntriesPublished DEF FeedInv, FeedShape, Attachment, Live
  <2>3. PICK lo \in feed.start..sub.pin : SentUpTo(lo)
    BY <2>1 DEF FeedInv, FeedShape, Delivered, Live
  <2>4. lo \in Nat /\ feed.start <= lo /\ lo <= sub.pin /\ lo <= published
    BY <2>2
  <2> DEFINE q == sub.batch \o sub.taken \o sub.queue
             R == {s \in (lo + 1)..published : InScope(s)}
             T == {s \in (lo + 1)..published : Shows(s)}
  <2>5. q = Ascending(R)
    <3>1. q = sub.batch \o (sub.taken \o sub.queue)
      <4>1. Regroups(sub.batch, sub.taken, sub.queue)
        BY <2>2, ConcatRegroups
      <4> QED  BY <4>1 DEF Regroups
    <3>2. sub.taken \o sub.queue = Ascending({s \in (sub.pin + 1)..published : InScope(s)})
      BY <2>1, <2>2 DEF StreamInv, SubscriptionGapFree
    <3>3. sub.batch = Ascending({s \in (lo + 1)..sub.pin : InScope(s)})
      BY <2>3 DEF SentUpTo
    <3>4. Ascending(R) = Ascending({s \in (lo + 1)..sub.pin : InScope(s)})
                           \o Ascending({s \in (sub.pin + 1)..published : InScope(s)})
      <4>1. Eligible(lo, published) = Eligible(lo, sub.pin) \o Eligible(sub.pin, published)
        BY <2>2, <2>4, StretchesJoin
      <4> QED  BY <4>1 DEF Eligible
    <3> HIDE DEF q, R
    <3> QED  BY <3>1, <3>2, <3>3, <3>4
  <2>6. Shown(q) = Ascending(T)
    <3>1. R \in SUBSET Int /\ IsFiniteSet(R) /\ Ascending(R) = Listed(R)
      BY <2>2, <2>4, AscendingIsListed
    <3>2. {x \in R : ~Filtered(x)} = T
      BY DEF Shows
    <3>3. Ascending(T) = Listed(T)
      BY <2>2, <2>4, ShownAreListed
    <3> HIDE DEF q, R, T
    <3>4. q \in Seq(Int) /\ Increasing(q) /\ Range(q) = R
      BY <2>5, <3>1, ListedInOrder
    <3>5. Shown(q) = Listed({x \in R : ~Filtered(x)})
      BY <3>4, ShownOfIncreasing
    <3> QED  BY <3>2, <3>3, <3>5
  <2>7. Ascending({s \in (feed.start + 1)..published : Shows(s)}) = sent \o Ascending(T)
    <3>1. Ascending({s \in (feed.start + 1)..published : Shows(s)})
            = Ascending({s \in (feed.start + 1)..lo : Shows(s)}) \o Ascending(T)
      BY <2>2, <2>4, ShownGrow
    <3> HIDE DEF T
    <3> QED  BY <2>3, <3>1 DEF SentUpTo
  <2>8. {s \in (feed.start + 1)..published : Shows(s)}
          = {s \in (feed.start + 1)..published : InScope(s) /\ ~Filtered(s)}
    BY DEF Shows
  <2> HIDE DEF q, R, T
  <2>9. sent \o Shown(q) = Ascending({s \in (feed.start + 1)..published : InScope(s) /\ ~Filtered(s)})
    BY <2>6, <2>7, <2>8
  <2> QED  BY <2>9 DEF q
<1> QED  BY <1>1, FeedAlways, PTL

-----------------------------------------------------------------------------
(* What a store holds of a history                                         *)

\* The entries of the range after one number and up to another, as the stream
\* numbers them and as the store keeps them.
Entries(h, a, b) == {s \in (a + 1)..b : h[s].key \in Scope}
RecordAt(h, s) == [key |-> h[s].key, seq |-> s, val |-> h[s].val]
Records(h, a, b) == {RecordAt(h, s) : s \in Entries(h, a, b)}

\* The newest entry of its key up to f.
NewestIn(h, s, f) == \A t \in Entries(h, s, f) : h[t].key # h[s].key

\* Fragments that show the state at f: nothing later, and of every key the
\* newest entry, or nothing at all where that is a deletion.
Covers(h, f, recs) ==
    /\ recs \subseteq Records(h, 0, f)
    /\ \A s \in Entries(h, 0, f) :
         NewestIn(h, s, f) =>
           \/ RecordAt(h, s) \in recs
           \/ h[s].val = Absent /\ \A r \in recs : r.key # h[s].key

Later(a, b) == IF a < b THEN b ELSE a

\* The store shows the fragments' state, and what the stream has brought up to
\* d over it; nothing past that, unless a crash of the master undid it.
Mirrors(h, s, d) ==
    /\ s.flushed \in CommitPoints(h) /\ d \in CommitPoints(h)
    /\ Covers(h, s.flushed, s.version)
    /\ Records(h, s.flushed, d) \subseteq s.overlay
    /\ ~s.phantom => /\ s.overlay \subseteq Records(h, 0, Later(s.flushed, d))
                     /\ s.frontier <= Later(s.flushed, d)

-----------------------------------------------------------------------------
(* What is on its way to a store                                           *)

\* Frames that follow each other from a to b without a gap; the frame that
\* ends a laggard's stream is empty.
Follow(h, frames, a, b) ==
    \E e \in [0..Len(frames) -> CommitPoints(h)] :
        /\ e[0] = a /\ e[Len(frames)] = b
        /\ \A i \in 1..Len(frames) :
             /\ e[i - 1] <= e[i] /\ e[i] <= b
             /\ Range(frames[i]) = Entries(h, e[i - 1], e[i])

\* The server's batch, what it is resolving and what is queued follow from a
\* on, up to what is published.
Pending(h, s, n, a) ==
    \E b, c \in CommitPoints(h) :
        /\ a <= b /\ b <= c /\ c <= n
        /\ Range(s.batch) = Entries(h, a, b)
        /\ Range(s.taken) = Entries(h, b, c)
        /\ ~s.dropped => Range(s.queue) = Entries(h, c, n)
        /\ s.taken # <<>> => s.batch = <<>>

\* All that from d on; without a connection nothing arrives.
Flowing(h, c, s, n, d) ==
    c.up => \E a \in CommitPoints(h) :
                /\ a <= n
                /\ Follow(h, c.frames, d, a)
                /\ s.on => Pending(h, s, n, a)
Flows(d) == Flowing(ops, conn, sub, published, d)

-----------------------------------------------------------------------------
(* The replica's inductive invariant                                      *)

Rec == [key : Keys, seq : Nat, val : {Absent} \cup (Nat \X Nat)]
Store == [inst : Nat, flushed : Nat, version : SUBSET Rec, overlay : SUBSET Rec, frontier : Nat,
          phantom : BOOLEAN]
Conn == [inst : Nat, up : BOOLEAN, frames : Seq(Seq(Nat))]

EdgeTypes ==
    /\ nextFrag \in Nat \ {0} /\ target \in Nat
    /\ store \in Store /\ (fresh # <<>> => fresh[1] \in Store)
    /\ conn \in Conn

\* Fragments have ids of their own, and the tree shows the flushed state.
MasterTree ==
    /\ published \in CommitPoints(ops) /\ flushed \in CommitPoints(ops)
    /\ \A f \in tree : f.id \in 1..(nextFrag - 1)
    /\ \A f, g \in tree : f.id = g.id => f = g
    /\ Covers(ops, flushed, Recs(tree))

\* A connection is to the master there is, without it nobody subscribes, and the
\* frame that ends a laggard's stream is sent when the subscription is gone.
Connection ==
    /\ conn.up => conn.inst = epoch
    /\ ~conn.up => conn.frames = <<>> /\ ~sub.on
    /\ ~sub.on => sub.batch = <<>> /\ sub.taken = <<>>
    /\ sub.on => \A i \in 1..Len(conn.frames) : conn.frames[i] # LaggedFrame

\* The copies are of the fragments of the instance being pulled.
Copies ==
    Filling.inst = epoch =>
        \A id \in DOMAIN files :
            /\ id \in 1..(nextFrag - 1)
            /\ files[id].whole => \A f \in tree : f.id = id => files[id].recs = f.recs

\* The fragments of a slice while they can still be had, copied or live.
Copied(id) == id \in DOMAIN files /\ files[id].whole
Material == (UNION {files[t.id].recs : t \in {u \in slice[1].tables : Copied(u.id)}})
              \cup Recs({f \in tree : \E t \in slice[1].tables : t.id = f.id})
Obtainable == \A t \in slice[1].tables : Copied(t.id) \/ \E f \in tree : f.id = t.id

\* What is being pulled.
Pull ==
    /\ pc = "fetch" /\ Filling.inst = epoch =>
         /\ \A t \in slice[1].tables : t.id \in 1..(nextFrag - 1)
         /\ slice[1].flushed \in CommitPoints(ops)
         /\ Filling.flushed <= slice[1].flushed /\ slice[1].flushed <= flushed
         /\ Obtainable => Covers(ops, slice[1].flushed, Material)
    /\ pc = "announce" => slice[1].flushed = Filling.flushed /\ Missing = {}

\* The store belongs to this master or an earlier one, the store of a
\* re-attachment to a later one than the store it replaces.
Instances ==
    /\ store.inst <= epoch
    /\ fresh # <<>> => /\ store.inst < fresh[1].inst /\ fresh[1].inst <= epoch
                       /\ \/ pc \in {"pull", "snap", "fetch"} /\ ret = "resync"
                          \/ pc = "announce"
    /\ Filling.inst = epoch => Filling.flushed <= flushed

\* A pull of a re-sync is under way: nothing of the stream is applied before
\* its slice is installed.
Resyncing == pc \in {"pull", "snap", "fetch"} /\ ret = "resync"

\* What a scan shows.
Served == store.inst # 0 => \E d \in CommitPoints(hist[store.inst]) : Mirrors(hist[store.inst], store, d)

\* In step with the stream: what is in flight begins where the store ends.
InStep ==
    pc # "open" /\ ~Resyncing =>
        /\ Filling.inst # 0
        /\ conn.up => conn.inst = Filling.inst
        /\ \E d \in CommitPoints(hist[Filling.inst]) :
             /\ Mirrors(hist[Filling.inst], Filling, d)
             /\ Flows(d)
             /\ pc = "advance" => Filling.phantom \/ target <= Later(Filling.flushed, d)

\* The stream was opened before the pull and after everything the store to be
\* filled has seen of it, and the slice is taken after that.
Resync ==
    Resyncing =>
        /\ Filling.inst # 0
        /\ conn.up => conn.inst = Filling.inst
        /\ Filling.inst = epoch =>
             \E d, p \in CommitPoints(ops) :
                 /\ Mirrors(ops, Filling, d) /\ d <= p
                 /\ p <= published /\ Flows(p)
                 /\ pc = "snap" => p <= flushed
                 /\ pc = "fetch" => p <= slice[1].flushed

EdgeShape ==
    /\ EdgeTypes /\ MasterTree /\ Connection /\ Copies /\ Pull /\ Instances
    /\ Served /\ InStep /\ Resync

EdgeInv == StreamInv /\ Attached /\ (IF mode = "edge" THEN EdgeShape ELSE store.inst = 0)

-----------------------------------------------------------------------------
(* Entries and records of a history                                        *)

\* h2 goes on where h ends.
Continues(h2, h) == Len(h) <= Len(h2) /\ \A s \in 1..Len(h) : h2[s] = h[s]

\* Commit points are numbers, the beginning among them.
LEMMA PointsAreNumbers ==
  ASSUME NEW h \in Seq(Op)
  PROVE  CommitPoints(h) \subseteq Nat /\ 0 \in CommitPoints(h)
<1>1. \A s \in DOMAIN h : h[s] \in Op
  BY LenProperties, ElementOfSeq
<1> QED  BY <1>1 DEF CommitPoints, Op

\* Of a history of whole commits they are where its commits end.
LEMMA PointsAreEnds ==
  ASSUME NEW h \in Seq(Op), WholeIn(h)
  PROVE  /\ CommitPoints(h) \subseteq 0..Len(h) /\ Len(h) \in Nat
         /\ \A c \in CommitPoints(h) : c # 0 => h[c].commit = c
         /\ \A s \in 1..Len(h) : h[s].commit \in CommitPoints(h) /\ h[s].commit \in s..Len(h)
         /\ Len(h) \in CommitPoints(h)
<1>1. Len(h) \in Nat /\ DOMAIN h = 1..Len(h)
  BY LenProperties
<1>2. \A s \in 1..Len(h) : h[s].commit \in s..Len(h) /\ \A t \in s..h[s].commit : h[t].commit = h[s].commit
  BY DEF WholeIn
<1>3. \A s \in 1..Len(h) : h[s].commit \in CommitPoints(h) /\ h[s].commit \in s..Len(h)
  BY <1>1, <1>2 DEF CommitPoints
<1>4. \A c \in CommitPoints(h) : c = 0 \/ \E s \in 1..Len(h) : c = h[s].commit
  BY <1>1 DEF CommitPoints
<1>5. \A c \in CommitPoints(h) : c \in 0..Len(h)
  BY <1>1, <1>2, <1>4
<1>6. ASSUME NEW c \in CommitPoints(h), c # 0 PROVE h[c].commit = c
  <2>1. PICK s \in 1..Len(h) : c = h[s].commit
    BY <1>4, <1>6
  <2>2. c \in s..h[s].commit
    BY <1>1, <1>2, <2>1
  <2> QED  BY <1>2, <2>1, <2>2
<1>7. Len(h) \in CommitPoints(h)
  <2>1. CASE Len(h) = 0
    BY <2>1 DEF CommitPoints
  <2>2. CASE Len(h) # 0
    <3>1. Len(h) \in 1..Len(h)
      BY <1>1, <2>2
    <3>2. h[Len(h)].commit = Len(h)
      BY <1>1, <1>2, <3>1
    <3> QED  BY <1>3, <3>1, <3>2
  <2> QED  BY <2>1, <2>2
<1> QED  BY <1>1, <1>3, <1>5, <1>6, <1>7

\* A continuation has the commit points of what it continues.
LEMMA PointsStay ==
  ASSUME NEW h \in Seq(Op), NEW h2 \in Seq(Op), Continues(h2, h)
  PROVE  CommitPoints(h) \subseteq CommitPoints(h2)
<1>1. DOMAIN h = 1..Len(h) /\ DOMAIN h2 = 1..Len(h2) /\ Len(h) \in Nat /\ Len(h2) \in Nat
  BY LenProperties
<1>2. \A s \in DOMAIN h : s \in DOMAIN h2 /\ h2[s] = h[s]
  BY <1>1 DEF Continues
<1> QED  BY <1>2 DEF CommitPoints

\* Two stretches that follow each other make one.
LEMMA StretchesMeet ==
  ASSUME NEW h, NEW a \in Nat, NEW b \in Nat, NEW c \in Nat, a <= b, b <= c
  PROVE  /\ Entries(h, a, c) = Entries(h, a, b) \cup Entries(h, b, c)
         /\ Records(h, a, c) = Records(h, a, b) \cup Records(h, b, c)
<1>1. Entries(h, a, c) = Entries(h, a, b) \cup Entries(h, b, c)
  BY DEF Entries
<1> QED  BY <1>1 DEF Records

\* A longer prefix of a history has all the records of a shorter one.
LEMMA StretchGrows ==
  ASSUME NEW h, NEW a \in Nat, NEW b \in Nat, a <= b
  PROVE  Records(h, 0, a) \subseteq Records(h, 0, b)
<1>1. Entries(h, 0, a) \subseteq Entries(h, 0, b)
  BY DEF Entries
<1> QED  BY <1>1 DEF Records

\* A range that ends where it begins, or before, is empty.
LEMMA NoStretch ==
  ASSUME NEW h, NEW a \in Nat, NEW b \in Nat, b <= a
  PROVE  Entries(h, a, b) = {} /\ Records(h, a, b) = {}
<1>1. Entries(h, a, b) = {}
  BY DEF Entries
<1> QED  BY <1>1 DEF Records

\* Histories that agree up to a point have the same entries up to there.
LEMMA EntriesAlike ==
  ASSUME NEW h, NEW h2, NEW a \in Nat, NEW b \in Nat, \A s \in 1..b : h2[s] = h[s]
  PROVE  Entries(h2, a, b) = Entries(h, a, b) /\ Records(h2, a, b) = Records(h, a, b)
<1>1. \A s \in (a + 1)..b : h2[s] = h[s]
  OBVIOUS
<1>2. Entries(h2, a, b) = Entries(h, a, b)
  BY <1>1 DEF Entries
<1>3. \A s \in Entries(h, a, b) : RecordAt(h2, s) = RecordAt(h, s)
  BY <1>1 DEF Entries, RecordAt
<1> QED  BY <1>2, <1>3 DEF Records

\* What shows one history's state shows another's that agrees up to there.
LEMMA CoversAlike ==
  ASSUME NEW h, NEW h2, NEW f \in Nat, \A s \in 1..f : h2[s] = h[s], NEW recs, Covers(h, f, recs)
  PROVE  Covers(h2, f, recs)
<1>1. Entries(h2, 0, f) = Entries(h, 0, f) /\ Records(h2, 0, f) = Records(h, 0, f)
  BY EntriesAlike
<1>2. ASSUME NEW s \in Entries(h, 0, f), NewestIn(h2, s, f)
      PROVE  RecordAt(h2, s) \in recs \/ (h2[s].val = Absent /\ \A r \in recs : r.key # h2[s].key)
  <2>1. s \in 1..f /\ h2[s] = h[s] /\ s \in Nat
    BY DEF Entries
  <2>2. \A t \in Entries(h, s, f) : h2[t] = h[t] /\ t \in Entries(h2, s, f)
    BY <2>1 DEF Entries
  <2>3. NewestIn(h, s, f)
    BY <1>2, <2>1, <2>2 DEF NewestIn
  <2>4. RecordAt(h, s) \in recs \/ (h[s].val = Absent /\ \A r \in recs : r.key # h[s].key)
    BY <2>3 DEF Covers
  <2> QED  BY <2>1, <2>4 DEF RecordAt
<1> QED  BY <1>1, <1>2 DEF Covers

\* What a store shows of a history it shows of its continuation.
LEMMA MirrorsAlike ==
  ASSUME NEW h \in Seq(Op), WholeIn(h), NEW h2 \in Seq(Op), Continues(h2, h), NEW s, NEW d,
         Mirrors(h, s, d)
  PROVE  Mirrors(h2, s, d)
<1> DEFINE f == s.flushed
           u == Later(f, d)
<1>1. f \in CommitPoints(h) /\ d \in CommitPoints(h)
  BY DEF Mirrors
<1>2. f \in 0..Len(h) /\ d \in 0..Len(h) /\ Len(h) \in Nat
  BY <1>1, PointsAreEnds
<1>3. f \in CommitPoints(h2) /\ d \in CommitPoints(h2)
  BY <1>1, PointsStay
<1>4. f \in Nat /\ d \in Nat /\ u \in 0..Len(h) /\ u \in Nat
  BY <1>2 DEF Later
<1>5. /\ \A t \in 1..f : h2[t] = h[t]
      /\ \A t \in 1..d : h2[t] = h[t]
      /\ \A t \in 1..u : h2[t] = h[t]
  BY <1>2, <1>4 DEF Continues
<1>6. Covers(h, f, s.version)
  BY DEF Mirrors
<1> HIDE DEF f, u
<1>7. Covers(h2, f, s.version)
  BY <1>4, <1>5, <1>6, CoversAlike
<1>8. Records(h2, 0, u) = Records(h, 0, u) /\ Records(h2, f, d) = Records(h, f, d)
  BY <1>4, <1>5, EntriesAlike
<1> QED  BY <1>3, <1>7, <1>8 DEF Mirrors, f, u

-----------------------------------------------------------------------------
(* What a scan shows of a store                                            *)

\* The newest entry of a key at or below a number.
LastOf(h, k, c) ==
    LET W == {i \in 1..c : h[i].key = k} IN IF W = {} THEN 0 ELSE Max(W)

\* The newest entry of a key only gets newer as more of a history counts.
LEMMA LastGrows ==
  ASSUME NEW h, NEW k, NEW a \in Nat, NEW b \in Nat, a <= b
  PROVE  LastOf(h, k, a) <= LastOf(h, k, b)
<1> DEFINE V == {i \in 1..a : h[i].key = k}
           W == {i \in 1..b : h[i].key = k}
<1>1. V \subseteq W /\ V \in SUBSET (1..a) /\ W \in SUBSET (1..b)
  OBVIOUS
<1>2. LastOf(h, k, a) = (IF V = {} THEN 0 ELSE Max(V)) /\ LastOf(h, k, b) = (IF W = {} THEN 0 ELSE Max(W))
  BY DEF LastOf
<1> HIDE DEF V, W
<1>3. V # {} => Max(V) \in V
  BY <1>1, MaxIsGreatest
<1>4. W # {} => Max(W) \in 1..b /\ \A y \in W : y <= Max(W)
  BY <1>1, MaxIsGreatest
<1>5. CASE V = {}
  BY <1>2, <1>4, <1>5
<1>6. CASE V # {}
  BY <1>1, <1>2, <1>3, <1>4, <1>6
<1> QED  BY <1>5, <1>6

\* Where a store has got to.
LEMMA MirrorsPoint ==
  ASSUME NEW h \in Seq(Op), NEW s, NEW d, Mirrors(h, s, d)
  PROVE  /\ s.flushed \in CommitPoints(h) /\ d \in CommitPoints(h) /\ s.flushed \in Nat /\ d \in Nat
         /\ Later(s.flushed, d) \in CommitPoints(h) /\ Later(s.flushed, d) \in Nat
         /\ s.flushed <= Later(s.flushed, d) /\ d <= Later(s.flushed, d)
<1>1. s.flushed \in CommitPoints(h) /\ d \in CommitPoints(h)
  BY DEF Mirrors
<1>2. s.flushed \in Nat /\ d \in Nat
  BY <1>1, PointsAreNumbers
<1> QED  BY <1>1, <1>2 DEF Later

\* The newest of the records there are, or none.
Finds(h, s, k, c) ==
    LET A == s.version \cup s.overlay
    IN  \/ /\ \A r \in A : r.key # k
           /\ Scanned(s, k).seq = 0 /\ Scanned(s, k).val = Absent
        \/ \E m \in 1..c :
             /\ h[m].key = k /\ RecordAt(h, m) \in A
             /\ \A r \in A : r.key = k => r.seq \in 1..m
             /\ Scanned(s, k).seq = m /\ Scanned(s, k).val = h[m].val

\* That is what a scan finds.
LEMMA ScanFinds ==
  ASSUME NEW h, NEW s, NEW c \in Nat, NEW k, s.version \cup s.overlay \subseteq Records(h, 0, c)
  PROVE  Finds(h, s, k, c)
<1> DEFINE A == s.version \cup s.overlay
           R == {r \in NewestRecs(A) : r.key = k}
           W == {i \in 1..c : h[i].key = k /\ RecordAt(h, i) \in A}
<1>1. \A r \in A : r.seq \in 1..c /\ h[r.seq].key = r.key /\ r = RecordAt(h, r.seq) /\ r.seq \in Nat
  <2> SUFFICES ASSUME NEW r \in A
               PROVE  r.seq \in 1..c /\ h[r.seq].key = r.key /\ r = RecordAt(h, r.seq) /\ r.seq \in Nat
    OBVIOUS
  <2>1. PICK i \in Entries(h, 0, c) : r = RecordAt(h, i)
    BY DEF Records
  <2>2. i \in 1..c /\ r.seq = i /\ r.key = h[i].key
    BY <2>1 DEF Entries, RecordAt
  <2> QED  BY <2>1, <2>2
<1>2. Scanned(s, k) = IF R = {} THEN [seq |-> 0, val |-> Absent]
                      ELSE [seq |-> (CHOOSE x \in R : TRUE).seq, val |-> (CHOOSE x \in R : TRUE).val]
  BY DEF Scanned
<1>3. \A r \in A : r.key = k => r.seq \in W
  BY <1>1
<1>4. CASE W = {}
  <2>1. \A r \in A : r.key # k
    BY <1>3, <1>4
  <2>2. R = {}
    BY <2>1 DEF NewestRecs
  <2> HIDE DEF R, W
  <2>3. Scanned(s, k).seq = 0 /\ Scanned(s, k).val = Absent
    BY <1>2, <2>2
  <2> QED  BY <2>1, <2>3 DEF Finds
<1>5. CASE W # {}
  <2> DEFINE m == Max(W)
             r == RecordAt(h, m)
  <2>1. m \in W /\ \A i \in W : i <= m
    <3>1. W \in SUBSET (1..c)
      OBVIOUS
    <3> HIDE DEF W
    <3> QED  BY <1>5, <3>1, MaxIsGreatest
  <2>2. m \in 1..c /\ h[m].key = k /\ m \in Nat /\ r \in A
    <3>1. \A i \in W : i \in 1..c /\ h[i].key = k /\ i \in Nat /\ RecordAt(h, i) \in A
      OBVIOUS
    <3> HIDE DEF m, W, A
    <3> QED  BY <2>1, <3>1
  <2>3. r.seq = m /\ r.key = k /\ r.val = h[m].val
    BY <2>2 DEF RecordAt
  <2> HIDE DEF m, W, r, A
  <2>4. \A q \in A : q.key = k => q.seq <= m /\ q.seq \in 1..m
    <3> SUFFICES ASSUME NEW q \in A, q.key = k PROVE q.seq <= m /\ q.seq \in 1..m
      OBVIOUS
    <3>1. q.seq \in 1..c /\ q.seq <= m
      BY <1>1, <1>3, <2>1
    <3> QED  BY <2>2, <3>1
  <2>5. r \in R
    BY <2>2, <2>3, <2>4 DEF NewestRecs
  <2>6. \A q \in R : q = r
    <3> SUFFICES ASSUME NEW q \in R PROVE q = r
      OBVIOUS
    <3>1. q \in A /\ q.key = k /\ q.seq >= m
      BY <2>2, <2>3 DEF NewestRecs
    <3>2. q.seq = m
      BY <2>2, <2>4, <3>1
    <3> QED  BY <1>1, <3>1, <3>2 DEF r
  <2> HIDE DEF R
  <2>7. (CHOOSE x \in R : TRUE) = r /\ R # {}
    BY <2>5, <2>6
  <2>8. Scanned(s, k) = [seq |-> r.seq, val |-> r.val]
    BY <1>2, <2>7
  <2>9. Scanned(s, k).seq = m /\ Scanned(s, k).val = h[m].val
    BY <2>3, <2>8
  <2> QED  BY <2>2, <2>4, <2>9 DEF r, A, Finds
<1> QED  BY <1>4, <1>5

\* What a faithful store holds lies at or below where it has got to.
LEMMA StoreHolds ==
  ASSUME NEW h \in Seq(Op), NEW s, NEW d, Mirrors(h, s, d), ~s.phantom
  PROVE  s.version \cup s.overlay \subseteq Records(h, 0, Later(s.flushed, d))
<1> DEFINE f == s.flushed
           c == Later(s.flushed, d)
<1>1. f \in Nat /\ c \in Nat /\ f <= c
  BY MirrorsPoint
<1>2. s.version \subseteq Records(h, 0, f) /\ s.overlay \subseteq Records(h, 0, c)
  BY DEF Mirrors, Covers
<1> HIDE DEF f, c
<1>3. Records(h, 0, f) \subseteq Records(h, 0, c)
  BY <1>1, StretchGrows
<1> QED  BY <1>2, <1>3 DEF c

\* Where the newest entry of a key stands.
LEMMA LastStands ==
  ASSUME NEW h, NEW k, NEW c \in Nat
  PROVE  \/ /\ \A i \in 1..c : h[i].key # k
            /\ LastOf(h, k, c) = 0 /\ ValueAt(h, k, c) = Absent
         \/ \E m \in 1..c :
              /\ h[m].key = k /\ \A i \in (m + 1)..c : h[i].key # k
              /\ LastOf(h, k, c) = m /\ ValueAt(h, k, c) = h[m].val
<1> DEFINE W == {i \in 1..c : h[i].key = k}
<1>1. ValueAt(h, k, c) = (IF W = {} THEN Absent ELSE h[Max(W)].val) /\ LastOf(h, k, c) = (IF W = {} THEN 0 ELSE Max(W))
  BY DEF ValueAt, LastOf
<1>2. CASE W = {}
  <2>1. \A i \in 1..c : h[i].key # k
    BY <1>2
  <2> HIDE DEF W
  <2> QED  BY <1>1, <1>2, <2>1
<1>3. CASE W # {}
  <2> DEFINE m == Max(W)
  <2>1. m \in W /\ \A i \in W : i <= m
    <3>1. W \in SUBSET (1..c)
      OBVIOUS
    <3> HIDE DEF W
    <3> QED  BY <1>3, <3>1, MaxIsGreatest
  <2>2. m \in 1..c /\ h[m].key = k
    BY <2>1
  <2>3. \A i \in (m + 1)..c : h[i].key # k
    <3> SUFFICES ASSUME NEW i \in (m + 1)..c, h[i].key = k PROVE FALSE
      OBVIOUS
    <3>1. i \in W
      BY <2>2
    <3> HIDE DEF m, W
    <3> QED  BY <2>1, <2>2, <3>1
  <2>4. LastOf(h, k, c) = m /\ ValueAt(h, k, c) = h[m].val
    BY <1>1, <1>3
  <2> QED  BY <2>2, <2>3, <2>4
<1> QED  BY <1>2, <1>3

\* A scan finds of each key the newest entry up to there - or, where that is a
\* deletion whose tombstone is gone, an older entry that arrived late.
LEMMA ScanShows ==
  ASSUME NEW h \in Seq(Op), NEW s, NEW d, Mirrors(h, s, d), ~s.phantom, NEW k \in Scope
  PROVE  \/ /\ Scanned(s, k).seq = LastOf(h, k, Later(s.flushed, d))
            /\ Scanned(s, k).val = ValueAt(h, k, Later(s.flushed, d))
         \/ Revived(s, h, k)
<1> DEFINE f == s.flushed
           c == Later(s.flushed, d)
           A == s.version \cup s.overlay
<1>1. /\ f \in Nat /\ d \in Nat /\ c \in Nat /\ f <= c /\ d <= c
      /\ c = f \/ c = d
  BY MirrorsPoint DEF Later
<1>2. A \subseteq Records(h, 0, c)
  BY StoreHolds
<1>3. \/ /\ \A i \in 1..c : h[i].key # k
         /\ LastOf(h, k, c) = 0 /\ ValueAt(h, k, c) = Absent
      \/ \E m \in 1..c :
           /\ h[m].key = k /\ \A i \in (m + 1)..c : h[i].key # k
           /\ LastOf(h, k, c) = m /\ ValueAt(h, k, c) = h[m].val
  <2> HIDE DEF c
  <2> QED  BY <1>1, LastStands
<1>4. \/ /\ \A r \in A : r.key # k
         /\ Scanned(s, k).seq = 0 /\ Scanned(s, k).val = Absent
      \/ \E n \in 1..c :
           /\ h[n].key = k /\ RecordAt(h, n) \in A
           /\ \A r \in A : r.key = k => r.seq \in 1..n
           /\ Scanned(s, k).seq = n /\ Scanned(s, k).val = h[n].val
  <2> HIDE DEF c
  <2>1. Finds(h, s, k, c)
    BY <1>1, <1>2, ScanFinds
  <2> QED  BY <2>1 DEF Finds
<1> HIDE DEF c, A
<1>5. CASE \A i \in 1..c : h[i].key # k
  <2>1. LastOf(h, k, c) = 0 /\ ValueAt(h, k, c) = Absent
    BY <1>3, <1>5
  <2>2. Scanned(s, k).seq = 0 /\ Scanned(s, k).val = Absent
    BY <1>4, <1>5
  <2> QED  BY <2>1, <2>2 DEF c
<1>6. ASSUME NEW m \in 1..c, h[m].key = k, \A i \in (m + 1)..c : h[i].key # k,
             LastOf(h, k, c) = m, ValueAt(h, k, c) = h[m].val
      PROVE  \/ Scanned(s, k).seq = LastOf(h, k, c) /\ Scanned(s, k).val = ValueAt(h, k, c)
             \/ Revived(s, h, k)
  <2>1. ASSUME RecordAt(h, m) \in A
        PROVE  Scanned(s, k).seq = m /\ Scanned(s, k).val = h[m].val
    <3>1. RecordAt(h, m).key = k /\ RecordAt(h, m).seq = m
      BY <1>6 DEF RecordAt
    <3>2. PICK n \in 1..c :
            /\ h[n].key = k
            /\ \A r \in A : r.key = k => r.seq \in 1..n
            /\ Scanned(s, k).seq = n /\ Scanned(s, k).val = h[n].val
      BY <1>4, <2>1, <3>1
    <3>3. m \in 1..n
      BY <2>1, <3>1, <3>2
    <3>4. ~(n \in (m + 1)..c)
      BY <1>6, <3>2
    <3>5. n = m
      BY <1>1, <3>3, <3>4
    <3> QED  BY <3>2, <3>5
  <2>2. CASE m > f
    <3>1. c = d
      BY <1>1, <2>2
    <3>2. m \in Entries(h, f, d)
      BY <1>1, <1>6, <2>2, <3>1 DEF Entries
    <3>3. RecordAt(h, m) \in Records(h, f, d)
      BY <3>2 DEF Records
    <3>4. RecordAt(h, m) \in A
      BY <3>3 DEF Mirrors, A
    <3> QED  BY <1>6, <2>1, <3>4
  <2>3. CASE m <= f
    <3>1. m \in Entries(h, 0, f) /\ m \in 1..f
      BY <1>1, <1>6, <2>3 DEF Entries
    <3>2. NewestIn(h, m, f)
      BY <1>1, <1>6, <3>1 DEF NewestIn, Entries
    <3>3. RecordAt(h, m) \in s.version \/ (h[m].val = Absent /\ \A r \in s.version : r.key # h[m].key)
      BY <3>1, <3>2 DEF Mirrors, Covers
    <3>4. CASE RecordAt(h, m) \in s.version
      <4>1. RecordAt(h, m) \in A
        BY <3>4 DEF A
      <4> QED  BY <1>6, <2>1, <4>1
    <3>5. CASE h[m].val = Absent /\ \A r \in s.version : r.key # h[m].key
      <4>1. ValueAt(h, k, f) = Absent
        <5>1. \A i \in (m + 1)..f : h[i].key # k
          BY <1>1, <1>6
        <5>2. \/ \A i \in 1..f : h[i].key # k
              \/ \E n \in 1..f :
                   /\ h[n].key = k /\ \A i \in (n + 1)..f : h[i].key # k
                   /\ ValueAt(h, k, f) = h[n].val
          <6> HIDE DEF f
          <6> QED  BY <1>1, LastStands
        <5>3. PICK n \in 1..f : /\ h[n].key = k /\ \A i \in (n + 1)..f : h[i].key # k
                                /\ ValueAt(h, k, f) = h[n].val
          BY <1>6, <3>1, <5>2
        <5>4. ~(n \in (m + 1)..f) /\ ~(m \in (n + 1)..f)
          BY <1>6, <5>1, <5>3
        <5>5. n = m
          BY <1>1, <3>1, <5>3, <5>4
        <5> QED  BY <3>5, <5>3, <5>5
      <4>2. Scanned(s, k).seq <= f
        <5>1. ASSUME NEW n \in 1..c, h[n].key = k PROVE n <= f
          <6>1. ~(n \in (m + 1)..c)
            BY <1>6, <5>1
          <6> QED  BY <1>1, <3>1, <6>1
        <5> QED  BY <1>1, <1>4, <5>1
      <4> QED  BY <1>6, <3>5, <4>1, <4>2 DEF Revived
    <3> QED  BY <3>3, <3>4, <3>5
  <2> QED  BY <1>1, <2>2, <2>3
<1>7. \/ Scanned(s, k).seq = LastOf(h, k, c) /\ Scanned(s, k).val = ValueAt(h, k, c)
      \/ Revived(s, h, k)
  BY <1>3, <1>5, <1>6 DEF c
<1> QED  BY <1>7 DEF c

\* It never finds a later one.
LEMMA ScanBounded ==
  ASSUME NEW h \in Seq(Op), NEW s, NEW d, Mirrors(h, s, d), ~s.phantom, NEW k \in Scope
  PROVE  /\ Scanned(s, k).seq \in Nat
         /\ Scanned(s, k).seq <= LastOf(h, k, Later(s.flushed, d))
<1> DEFINE c == Later(s.flushed, d)
<1>1. c \in Nat
  BY MirrorsPoint
<1>2. s.version \cup s.overlay \subseteq Records(h, 0, c)
  BY StoreHolds
<1> HIDE DEF c
<1>3. \/ LastOf(h, k, c) = 0 /\ \A i \in 1..c : h[i].key # k
      \/ \E m \in 1..c : LastOf(h, k, c) = m /\ \A i \in (m + 1)..c : h[i].key # k
  BY <1>1, LastStands
<1>4. Scanned(s, k).seq = 0 \/ \E n \in 1..c : h[n].key = k /\ Scanned(s, k).seq = n
  <2>1. Finds(h, s, k, c)
    BY <1>1, <1>2, ScanFinds
  <2> QED  BY <2>1 DEF Finds
<1>5. ASSUME NEW n \in 1..c, h[n].key = k PROVE n <= LastOf(h, k, c) /\ n \in Nat
  <2>1. PICK m \in 1..c : LastOf(h, k, c) = m /\ \A i \in (m + 1)..c : h[i].key # k
    BY <1>3, <1>5
  <2>2. ~(n \in (m + 1)..c)
    BY <1>5, <2>1
  <2> QED  BY <1>1, <2>1, <2>2
<1>6. 0 <= LastOf(h, k, c)
  BY <1>3
<1>7. Scanned(s, k).seq \in Nat /\ Scanned(s, k).seq <= LastOf(h, k, c)
  BY <1>4, <1>5, <1>6
<1> QED  BY <1>7 DEF c

\* A store that is not behind another: neither its frontier nor what it shows,
\* unless a key is gone.
NotBehind(s2, s) ==
    /\ s2.frontier >= s.frontier
    /\ \A k \in Scope : Scanned(s2, k).seq >= Scanned(s, k).seq \/ Scanned(s2, k).val = Absent

\* What the store holds the other still holds, or it holds of the stream only
\* what its fragments do not cover.
Inherits(s2, s) ==
    \/ s.version \cup s.overlay \subseteq s2.version \cup s2.overlay
    \/ \A r \in s2.overlay : r.seq > s2.flushed

\* A store that has got further shows of every key an entry at least as new,
\* or that the key is gone.
LEMMA LaterNotBehind ==
  ASSUME NEW h \in Seq(Op), NEW s, NEW d, Mirrors(h, s, d), NEW s2, NEW d2, Mirrors(h, s2, d2),
         ~s.phantom, ~s2.phantom, Inherits(s2, s),
         Later(s.flushed, d) <= Later(s2.flushed, d2), s2.frontier >= s.frontier
  PROVE  NotBehind(s2, s)
<1> DEFINE a == Later(s.flushed, d)
           b == Later(s2.flushed, d2)
           A == s.version \cup s.overlay
           B == s2.version \cup s2.overlay
<1>1. a \in Nat /\ b \in Nat /\ a <= b /\ s2.flushed \in Nat
  BY MirrorsPoint
<1> SUFFICES ASSUME NEW k \in Scope
             PROVE  Scanned(s2, k).seq >= Scanned(s, k).seq \/ Scanned(s2, k).val = Absent
  BY DEF NotBehind
<1>2. Scanned(s, k).seq \in Nat /\ Scanned(s, k).seq <= LastOf(h, k, a)
  BY ScanBounded
<1>3. Scanned(s2, k).seq = LastOf(h, k, b) \/ Revived(s2, h, k)
  BY ScanShows
<1>4. Scanned(s2, k).seq \in Nat /\ Scanned(s2, k).seq <= LastOf(h, k, b)
  BY ScanBounded
<1>5. A \subseteq Records(h, 0, a) /\ B \subseteq Records(h, 0, b)
  BY StoreHolds
<1> HIDE DEF a, b
<1>6. \/ Scanned(s, k).seq = 0
      \/ \E n \in 1..a : h[n].key = k /\ RecordAt(h, n) \in A /\ Scanned(s, k).seq = n
  <2>1. Finds(h, s, k, a)
    BY <1>1, <1>5, ScanFinds
  <2> QED  BY <2>1 DEF Finds
<1>7. \/ Scanned(s2, k).val = Absent
      \/ \E m \in 1..b : /\ h[m].key = k /\ RecordAt(h, m) \in B /\ Scanned(s2, k).seq = m
                          /\ \A r \in B : r.key = k => r.seq \in 1..m
  <2>1. Finds(h, s2, k, b)
    BY <1>1, <1>5, ScanFinds
  <2> QED  BY <2>1 DEF Finds
<1> HIDE DEF A, B
<1>8. CASE Scanned(s2, k).seq = LastOf(h, k, b)
  <2>1. LastOf(h, k, a) <= LastOf(h, k, b)
    BY <1>1, LastGrows
  <2>2. LastOf(h, k, a) \in Nat
    BY <1>1, LastStands
  <2> QED  BY <1>2, <1>4, <1>8, <2>1, <2>2
<1>9. CASE Revived(s2, h, k) /\ Scanned(s2, k).val # Absent
  <2>1. PICK m \in 1..b : /\ h[m].key = k /\ RecordAt(h, m) \in B /\ Scanned(s2, k).seq = m
                          /\ \A r \in B : r.key = k => r.seq \in 1..m
    BY <1>7, <1>9
  <2>2. RecordAt(h, m).key = k /\ RecordAt(h, m).seq = m /\ m <= s2.flushed /\ m \in Nat
    BY <1>9, <2>1 DEF RecordAt, Revived
  <2>3. RecordAt(h, m) \in s2.overlay
    BY <1>9, <2>1, <2>2 DEF Revived, B
  <2>4. A \subseteq B
    <3>1. ~(\A r \in s2.overlay : r.seq > s2.flushed)
      BY <1>1, <2>2, <2>3
    <3> QED  BY <3>1 DEF Inherits, A, B
  <2>5. ASSUME NEW n \in 1..a, h[n].key = k, RecordAt(h, n) \in A PROVE n <= m
    <3>1. RecordAt(h, n).key = k /\ RecordAt(h, n).seq = n /\ RecordAt(h, n) \in B
      BY <2>4, <2>5 DEF RecordAt
    <3>2. n \in 1..m
      BY <2>1, <3>1
    <3> QED  BY <2>1, <3>2
  <2> QED  BY <1>2, <1>6, <2>1, <2>2, <2>5
<1> QED  BY <1>3, <1>8, <1>9

\* A frontier alone changes nothing that is shown.
LEMMA SameNotBehind ==
  ASSUME NEW s \in Store, NEW s2, s2.version = s.version, s2.overlay = s.overlay,
         s2.frontier >= s.frontier
  PROVE  NotBehind(s2, s)
<1> SUFFICES ASSUME NEW k \in Scope
             PROVE  Scanned(s2, k).seq = Scanned(s, k).seq /\ Scanned(s, k).seq \in Nat
  BY DEF NotBehind
<1> DEFINE A == s.version \cup s.overlay
           R == {r \in NewestRecs(A) : r.key = k}
           x == CHOOSE x \in R : TRUE
           v == IF R = {} THEN [seq |-> 0, val |-> Absent] ELSE [seq |-> x.seq, val |-> x.val]
<1>1. Scanned(s, k) = v /\ Scanned(s2, k) = v
  BY DEF Scanned
<1>2. R \subseteq Rec
  BY DEF Store, NewestRecs
<1>3. CASE R = {}
  BY <1>3, <1>1
<1>4. CASE R # {}
  <2>1. x \in R /\ v = [seq |-> x.seq, val |-> x.val]
    BY <1>4
  <2>2. x \in Rec
    BY <1>2, <2>1
  <2> HIDE DEF x, R, v
  <2>3. v.seq = x.seq /\ x.seq \in Nat
    BY <2>1, <2>2 DEF Rec
  <2> QED  BY <1>1, <2>3
<1> QED  BY <1>3, <1>4

-----------------------------------------------------------------------------
(* What the driver does to a store                                         *)

\* An attached store is empty and shows the beginning of every history.
LEMMA NewMirrors ==
  ASSUME NEW h \in Seq(Op), NEW inst
  PROVE  Mirrors(h, NewStore(inst), 0)
<1> DEFINE s == NewStore(inst)
<1>1. /\ s.flushed = 0 /\ s.version = {} /\ s.overlay = {} /\ s.frontier = 0 /\ ~s.phantom
      /\ Later(0, 0) = 0
  BY DEF NewStore, Later
<1>2. 0 \in CommitPoints(h)
  BY PointsAreNumbers
<1>3. 0 \in Nat /\ 0 <= 0
  OBVIOUS
<1>4. Entries(h, 0, 0) = {} /\ Records(h, 0, 0) = {}
  BY <1>3, NoStretch
<1> HIDE DEF s
<1>5. Covers(h, 0, {})
  BY <1>4 DEF Covers
<1>6. Mirrors(h, s, 0)
  BY <1>1, <1>2, <1>3, <1>4, <1>5 DEF Mirrors
<1> QED  BY <1>6 DEF s

\* A batch takes the store as far as it goes.
LEMMA ApplyMirrors ==
  ASSUME NEW h \in Seq(Op), NEW s, NEW d, Mirrors(h, s, d),
         NEW m \in CommitPoints(h), d <= m, NEW s2, s.frontier \in Nat,
         s2.flushed = s.flushed, s2.version = s.version, s2.frontier = s.frontier,
         s2.phantom = s.phantom, s2.overlay = s.overlay \cup Records(h, d, m)
  PROVE  Mirrors(h, s2, m) /\ Later(s.flushed, d) <= Later(s.flushed, m)
<1> DEFINE f == s.flushed
           c == Later(f, d)
           e == Later(f, m)
<1>1. /\ f \in CommitPoints(h) /\ d \in CommitPoints(h) /\ Covers(h, f, s.version)
      /\ Records(h, f, d) \subseteq s.overlay
      /\ ~s.phantom => s.overlay \subseteq Records(h, 0, c) /\ s.frontier <= c
  BY DEF Mirrors
<1>2. f \in Nat /\ d \in Nat /\ m \in Nat
  BY <1>1, PointsAreNumbers
<1>3. f \in Nat /\ d \in Nat /\ m \in Nat /\ c \in Nat /\ e \in Nat /\ c <= e /\ m <= e
  BY <1>2 DEF Later
<1> HIDE DEF f, c, e
<1>4. Records(h, 0, c) \subseteq Records(h, 0, e) /\ Records(h, 0, m) \subseteq Records(h, 0, e)
  BY <1>3, StretchGrows
<1>5. Entries(h, d, m) \subseteq Entries(h, 0, m) /\ Entries(h, f, m) \subseteq Entries(h, f, d) \cup Entries(h, d, m)
  BY <1>3 DEF Entries
<1>6. Records(h, d, m) \subseteq Records(h, 0, m) /\ Records(h, f, m) \subseteq Records(h, f, d) \cup Records(h, d, m)
  BY <1>5 DEF Records
<1>7. Records(h, f, m) \subseteq s2.overlay
  BY <1>1, <1>6
<1>8. ~s.phantom => s2.overlay \subseteq Records(h, 0, e) /\ s.frontier <= e
  BY <1>1, <1>3, <1>4, <1>6
<1> QED  BY <1>1, <1>3, <1>7, <1>8 DEF Mirrors, f, c, e

\* Announcing a frontier no further than the store has got to.
LEMMA AdvanceMirrors ==
  ASSUME NEW h, NEW s \in Store, NEW d, Mirrors(h, s, d), NEW t \in Nat,
         s.phantom \/ t <= Later(s.flushed, d)
  PROVE  /\ AdvanceTo(s, t) \in Store /\ Mirrors(h, AdvanceTo(s, t), d)
         /\ AdvanceTo(s, t).inst = s.inst /\ AdvanceTo(s, t).phantom = s.phantom
         /\ AdvanceTo(s, t).flushed = s.flushed
         /\ AdvanceTo(s, t).version = s.version /\ AdvanceTo(s, t).overlay = s.overlay
         /\ AdvanceTo(s, t).frontier >= s.frontier
<1> DEFINE n == IF t > s.frontier THEN t ELSE s.frontier
           s2 == AdvanceTo(s, t)
<1>1. s2 = [s EXCEPT !.frontier = n] /\ s.frontier \in Nat /\ n \in Nat /\ n >= s.frontier
  BY DEF AdvanceTo, Store
<1>2. ~s.phantom => n <= Later(s.flushed, d)
  BY DEF Mirrors
<1> HIDE DEF n, s2
<1>3. /\ s2.flushed = s.flushed /\ s2.version = s.version /\ s2.overlay = s.overlay
      /\ s2.frontier = n /\ s2.inst = s.inst /\ s2.phantom = s.phantom /\ s2 \in Store
  BY <1>1 DEF Store
<1>4. Mirrors(h, s2, d)
  BY <1>2, <1>3 DEF Mirrors
<1> QED  BY <1>1, <1>3, <1>4 DEF s2

\* What a slice does: the overlay keeps what is past its watermark.  A refresh
\* leaves the store where it was or takes it to the watermark; a re-sync takes
\* it there from any state before it.
LEMMA InstallMirrors ==
  ASSUME NEW h \in Seq(Op), NEW s \in Store, NEW d, Mirrors(h, s, d),
         NEW f2 \in CommitPoints(h), s.flushed <= f2,
         NEW s2, s2.flushed = f2, Covers(h, f2, s2.version), s2.frontier = s.frontier,
         s2.phantom = s.phantom, s2.overlay = {r \in s.overlay : r.seq > f2},
         NEW p \in CommitPoints(h), p = d \/ (d <= p /\ p <= f2)
  PROVE  Mirrors(h, s2, p) /\ Later(s.flushed, d) <= Later(f2, p)
<1> DEFINE f == s.flushed
           c == Later(f, d)
           e == Later(f2, p)
<1>1. /\ f \in CommitPoints(h) /\ d \in CommitPoints(h)
      /\ Records(h, f, d) \subseteq s.overlay /\ s.frontier \in Nat
      /\ ~s.phantom => s.overlay \subseteq Records(h, 0, c) /\ s.frontier <= c
  BY DEF Mirrors, Store
<1>2. f \in Nat /\ d \in Nat /\ f2 \in Nat /\ p \in Nat
  BY <1>1, PointsAreNumbers
<1>3. f \in Nat /\ d \in Nat /\ f2 \in Nat /\ p \in Nat /\ c \in Nat /\ e \in Nat /\ c <= e
  BY <1>2 DEF Later
<1>5. f <= f2
  OBVIOUS
<1> HIDE DEF f, c, e
<1>6. Records(h, 0, c) \subseteq Records(h, 0, e)
  BY <1>3, StretchGrows
<1>7. ~s.phantom => s2.overlay \subseteq Records(h, 0, e)
  BY <1>1, <1>6
<1>8. Records(h, f2, p) \subseteq s2.overlay
  <2>1. CASE p = d
    <3>1. Entries(h, f2, p) \subseteq Entries(h, f, d)
      BY <1>3, <1>5, <2>1 DEF Entries
    <3>2. ASSUME NEW i \in Entries(h, f2, p) PROVE RecordAt(h, i) \in s.overlay /\ RecordAt(h, i).seq > f2
      <4>1. RecordAt(h, i) \in Records(h, f, d)
        BY <3>1 DEF Records
      <4>2. RecordAt(h, i).seq = i /\ i > f2
        BY <1>3 DEF RecordAt, Entries
      <4> QED  BY <1>1, <4>1, <4>2
    <3> QED  BY <3>2 DEF Records
  <2>2. CASE p # d
    <3>1. p <= f2
      BY <2>2
    <3>2. Records(h, f2, p) = {}
      BY <1>3, <3>1, NoStretch
    <3> QED  BY <3>2
  <2> QED  BY <2>1, <2>2
<1>9. ~s.phantom => s.frontier <= e
  BY <1>1, <1>3
<1>10. Mirrors(h, s2, p)
  BY <1>3, <1>7, <1>8, <1>9 DEF Mirrors, e
<1> QED  BY <1>3, <1>10 DEF f, c, e

-----------------------------------------------------------------------------
(* What flows                                                              *)

\* With no frames in flight the stream goes on where the store ends.
LEMMA NothingFollows ==
  ASSUME NEW h, NEW a \in CommitPoints(h)
  PROVE  Follow(h, <<>>, a, a)
<1> DEFINE e == [i \in 0..0 |-> a]
<1>1. e \in [0..0 -> CommitPoints(h)] /\ e[0] = a
  OBVIOUS
<1> HIDE DEF e
<1> QED  BY <1>1 DEF Follow

\* One more frame.
LEMMA FollowAppend ==
  ASSUME NEW h \in Seq(Op), NEW u \in Seq(Seq(Nat)), NEW f \in Seq(Nat),
         NEW a, NEW b \in CommitPoints(h), NEW c \in CommitPoints(h), b <= c,
         Follow(h, u, a, b), Range(f) = Entries(h, b, c)
  PROVE  Follow(h, Append(u, f), a, c)
<1>1. PICK e \in [0..Len(u) -> CommitPoints(h)] :
        /\ e[0] = a /\ e[Len(u)] = b
        /\ \A i \in 1..Len(u) :
             /\ e[i - 1] <= e[i] /\ e[i] <= b
             /\ Range(u[i]) = Entries(h, e[i - 1], e[i])
  BY DEF Follow
<1> DEFINE n == Len(u)
           v == Append(u, f)
           g == [i \in 0..(n + 1) |-> IF i = n + 1 THEN c ELSE e[i]]
<1>2. n \in Nat /\ Len(v) = n + 1 /\ v[n + 1] = f /\ \A i \in 1..n : v[i] = u[i]
  <2> DEFINE S == Seq(Nat)
  <2>1. u \in Seq(S) /\ f \in S
    OBVIOUS
  <2> HIDE DEF S
  <2> QED  BY <2>1, LenProperties, AppendProperties
<1>3. \A i \in 0..n : e[i] \in CommitPoints(h) /\ e[i] \in Nat
  BY PointsAreNumbers
<1>4. b \in Nat /\ c \in Nat
  BY PointsAreNumbers
<1>5. g \in [0..(n + 1) -> CommitPoints(h)]
  BY <1>2, <1>3
<1>6. g[n + 1] = c /\ \A i \in 0..n : g[i] = e[i]
  BY <1>2
<1>7. e[n] = b /\ e[0] = a
  BY <1>1
<1>8. \A i \in 1..n : e[i - 1] <= e[i] /\ e[i] <= b /\ Range(u[i]) = Entries(h, e[i - 1], e[i])
  BY <1>1
<1> HIDE DEF n, v, g
<1>9. ASSUME NEW i \in 1..(n + 1)
      PROVE  g[i - 1] <= g[i] /\ g[i] <= c /\ Range(v[i]) = Entries(h, g[i - 1], g[i])
  <2>1. CASE i = n + 1
    <3>1. g[i] = c /\ i - 1 = n /\ g[i - 1] = b /\ v[i] = f
      BY <1>2, <1>6, <1>7, <2>1
    <3> QED  BY <1>4, <3>1
  <2>2. CASE i # n + 1
    <3>1. i \in 1..n /\ i - 1 \in 0..n /\ i \in 0..n
      BY <1>2, <2>2
    <3>2. g[i] = e[i] /\ g[i - 1] = e[i - 1] /\ v[i] = u[i]
      BY <1>2, <1>6, <3>1
    <3>3. e[i] <= c
      BY <1>3, <1>4, <1>8, <3>1
    <3> QED  BY <1>8, <3>1, <3>2, <3>3
  <2> QED  BY <2>1, <2>2
<1>10. g[0] = a
  BY <1>2, <1>6, <1>7
<1>11. Follow(h, v, a, c)
  BY <1>2, <1>5, <1>6, <1>9, <1>10 DEF Follow
<1> QED  BY <1>11 DEF v

\* The first frame is taken.
LEMMA FollowTail ==
  ASSUME NEW h \in Seq(Op), NEW u \in Seq(Seq(Nat)), u # <<>>, NEW a, NEW b, Follow(h, u, a, b)
  PROVE  \E m \in CommitPoints(h) :
           a <= m /\ m <= b /\ Range(Head(u)) = Entries(h, a, m) /\ Follow(h, Tail(u), m, b)
<1>1. PICK e \in [0..Len(u) -> CommitPoints(h)] :
        /\ e[0] = a /\ e[Len(u)] = b
        /\ \A i \in 1..Len(u) :
             /\ e[i - 1] <= e[i] /\ e[i] <= b
             /\ Range(u[i]) = Entries(h, e[i - 1], e[i])
  BY DEF Follow
<1> DEFINE n == Len(u)
           v == Tail(u)
           g == [i \in 0..(n - 1) |-> e[i + 1]]
<1>2. n \in Nat \ {0} /\ Len(v) = n - 1 /\ Head(u) = u[1] /\ \A i \in 1..(n - 1) : v[i] = u[i + 1]
  <2> DEFINE S == Seq(Nat)
  <2>1. u \in Seq(S)
    OBVIOUS
  <2> HIDE DEF S
  <2>2. n \in Nat /\ n # 0
    BY <2>1, LenProperties, EmptySeq
  <2> QED  BY <2>1, <2>2, HeadTailProperties
<1>3. \A i \in 1..n : e[i - 1] <= e[i] /\ e[i] <= b /\ Range(u[i]) = Entries(h, e[i - 1], e[i])
  BY <1>1
<1>4. e[0] = a /\ e[n] = b
  BY <1>1
<1>5. g \in [0..(n - 1) -> CommitPoints(h)] /\ \A i \in 0..(n - 1) : g[i] = e[i + 1]
  BY <1>2
<1>6. e[1] \in CommitPoints(h)
  BY <1>2
<1> HIDE DEF n, v, g
<1>7. ASSUME NEW i \in 1..(n - 1)
      PROVE  g[i - 1] <= g[i] /\ g[i] <= b /\ Range(v[i]) = Entries(h, g[i - 1], g[i])
  <2>1. i + 1 \in 1..n /\ (i + 1) - 1 = i /\ i \in 0..(n - 1) /\ i - 1 \in 0..(n - 1) /\ (i - 1) + 1 = i
    BY <1>2
  <2>2. g[i] = e[i + 1] /\ g[i - 1] = e[i] /\ v[i] = u[i + 1]
    BY <1>2, <1>5, <2>1
  <2>3. e[(i + 1) - 1] <= e[i + 1] /\ e[i + 1] <= b /\ Range(u[i + 1]) = Entries(h, e[(i + 1) - 1], e[i + 1])
    BY <1>3, <2>1
  <2> QED  BY <2>1, <2>2, <2>3
<1>8. g[0] = e[1] /\ g[n - 1] = b
  <2>1. 0 \in 0..(n - 1) /\ n - 1 \in 0..(n - 1) /\ (n - 1) + 1 = n
    BY <1>2
  <2> QED  BY <1>4, <1>5, <2>1
<1>9. Follow(h, v, e[1], b)
  BY <1>2, <1>5, <1>7, <1>8 DEF Follow
<1>10. a <= e[1] /\ e[1] <= b /\ Range(Head(u)) = Entries(h, a, e[1])
  <2>1. 1 \in 1..n /\ 1 - 1 = 0
    BY <1>2
  <2> QED  BY <1>2, <1>3, <1>4, <2>1
<1> QED  BY <1>6, <1>9, <1>10 DEF v

\* The history goes on.
LEMMA FollowAlike ==
  ASSUME NEW h \in Seq(Op), WholeIn(h), NEW h2 \in Seq(Op), Continues(h2, h),
         NEW u, NEW a, NEW b, Len(u) \in Nat, Follow(h, u, a, b)
  PROVE  Follow(h2, u, a, b)
<1>1. PICK e \in [0..Len(u) -> CommitPoints(h)] :
        /\ e[0] = a /\ e[Len(u)] = b
        /\ \A i \in 1..Len(u) :
             /\ e[i - 1] <= e[i] /\ e[i] <= b
             /\ Range(u[i]) = Entries(h, e[i - 1], e[i])
  BY DEF Follow
<1>2. CommitPoints(h) \subseteq CommitPoints(h2) /\ CommitPoints(h) \subseteq 0..Len(h) /\ Len(h) \in Nat
  BY PointsStay, PointsAreEnds
<1>3. e \in [0..Len(u) -> CommitPoints(h2)]
  BY <1>2
<1>4. ASSUME NEW i \in 1..Len(u) PROVE Entries(h2, e[i - 1], e[i]) = Entries(h, e[i - 1], e[i])
  <2>1. e[i - 1] \in 0..Len(h) /\ e[i] \in 0..Len(h)
    <3>1. i \in 0..Len(u) /\ i - 1 \in 0..Len(u)
      OBVIOUS
    <3>2. e[i - 1] \in CommitPoints(h) /\ e[i] \in CommitPoints(h)
      BY <3>1
    <3> QED  BY <1>2, <3>2
  <2>2. \A s \in 1..e[i] : h2[s] = h[s]
    BY <1>2, <2>1 DEF Continues
  <2>3. e[i - 1] \in Nat /\ e[i] \in Nat
    BY <2>1
  <2> QED  BY <2>2, <2>3, EntriesAlike
<1> QED  BY <1>1, <1>3, <1>4 DEF Follow

\* The range of an empty sequence.
LEMMA EmptyRange ==
  ASSUME NEW q, q = <<>>
  PROVE  Range(q) = {}
BY DEF Range

\* What is on its way stays so when the history goes on.
LEMMA FlowsAlike ==
  ASSUME NEW h \in Seq(Op), WholeIn(h), NEW h2 \in Seq(Op), Continues(h2, h), NEW c \in Conn,
         NEW s, NEW n \in 0..Len(h), NEW d, Flowing(h, c, s, n, d)
  PROVE  Flowing(h2, c, s, n, d)
<1> SUFFICES ASSUME c.up PROVE Flowing(h2, c, s, n, d)
  BY DEF Flowing
<1>1. PICK a \in CommitPoints(h) : a <= n /\ Follow(h, c.frames, d, a) /\ (s.on => Pending(h, s, n, a))
  BY DEF Flowing
<1>2. CommitPoints(h) \subseteq CommitPoints(h2) /\ CommitPoints(h) \subseteq 0..Len(h) /\ Len(h) \in Nat
  BY PointsStay, PointsAreEnds
<1>3. Len(c.frames) \in Nat
  <2>1. c.frames \in Seq(Seq(Nat))
    BY DEF Conn
  <2> QED  BY <2>1, LenProperties
<1>4. Follow(h2, c.frames, d, a)
  BY <1>1, <1>3, FollowAlike
<1>5. CASE ~s.on
  BY <1>1, <1>2, <1>4, <1>5 DEF Flowing
<1>6. CASE s.on
  <2>1. PICK b \in CommitPoints(h), e \in CommitPoints(h) :
        /\ a <= b /\ b <= e /\ e <= n
        /\ Range(s.batch) = Entries(h, a, b)
        /\ Range(s.taken) = Entries(h, b, e)
        /\ ~s.dropped => Range(s.queue) = Entries(h, e, n)
        /\ s.taken # <<>> => s.batch = <<>>
    BY <1>1, <1>6 DEF Pending
  <2>2. a \in Nat /\ b \in 0..Len(h) /\ e \in 0..Len(h) /\ b \in Nat /\ e \in Nat /\ n \in Nat
    BY <1>2
  <2>3. \A x \in 0..Len(h) : \A i \in 1..x : h2[i] = h[i]
    BY <1>2 DEF Continues
  <2>4. /\ \A i \in 1..b : h2[i] = h[i]
        /\ \A i \in 1..e : h2[i] = h[i]
        /\ \A i \in 1..n : h2[i] = h[i]
    BY <2>2, <2>3
  <2>5. /\ Entries(h2, a, b) = Entries(h, a, b) /\ Entries(h2, b, e) = Entries(h, b, e)
        /\ Entries(h2, e, n) = Entries(h, e, n)
    BY <2>2, <2>4, EntriesAlike
  <2>6. Pending(h2, s, n, a)
    BY <1>2, <2>1, <2>5 DEF Pending
  <2> QED  BY <1>1, <1>2, <1>4, <2>6 DEF Flowing
<1> QED  BY <1>5, <1>6

\* A commit is published: a subscription that is not cut has it in its queue.
LEMMA FlowsPublished ==
  ASSUME NEW h \in Seq(Op), NEW c, NEW s, NEW n \in CommitPoints(h), NEW d, Flowing(h, c, s, n, d),
         NEW n2 \in CommitPoints(h), n <= n2, NEW s2,
         s2.on = s.on, s2.batch = s.batch, s2.taken = s.taken,
         s.on /\ ~s2.dropped => ~s.dropped /\ Range(s2.queue) = Range(s.queue) \cup Entries(h, n, n2)
  PROVE  Flowing(h, c, s2, n2, d)
<1> SUFFICES ASSUME c.up PROVE Flowing(h, c, s2, n2, d)
  BY DEF Flowing
<1>1. PICK a \in CommitPoints(h) : a <= n /\ Follow(h, c.frames, d, a) /\ (s.on => Pending(h, s, n, a))
  BY DEF Flowing
<1>2. CommitPoints(h) \subseteq Nat
  BY PointsAreNumbers
<1>3. a <= n2
  BY <1>1, <1>2
<1>4. CASE ~s.on
  BY <1>1, <1>3, <1>4 DEF Flowing
<1>5. CASE s.on
  <2>1. PICK b \in CommitPoints(h), e \in CommitPoints(h) :
        /\ a <= b /\ b <= e /\ e <= n
        /\ Range(s.batch) = Entries(h, a, b)
        /\ Range(s.taken) = Entries(h, b, e)
        /\ ~s.dropped => Range(s.queue) = Entries(h, e, n)
        /\ s.taken # <<>> => s.batch = <<>>
    BY <1>1, <1>5 DEF Pending
  <2>2. e \in Nat /\ n \in Nat /\ n2 \in Nat /\ e <= n2
    BY <1>2, <2>1
  <2>3. Entries(h, e, n2) = Entries(h, e, n) \cup Entries(h, n, n2)
    BY <2>1, <2>2, StretchesMeet
  <2>4. Pending(h, s2, n2, a)
    BY <1>5, <2>1, <2>2, <2>3 DEF Pending
  <2> QED  BY <1>1, <1>3, <2>4 DEF Flowing
<1> QED  BY <1>4, <1>5

\* The queue is taken.
LEMMA FlowsDrained ==
  ASSUME NEW h \in Seq(Op), NEW c, NEW s, NEW n \in CommitPoints(h), NEW d, Flowing(h, c, s, n, d),
         NEW s2, s.on, ~s.dropped, s.taken = <<>>, s.batch = <<>>,
         s2.on, ~s2.dropped, s2.taken = s.queue, s2.batch = <<>>, s2.queue = <<>>
  PROVE  Flowing(h, c, s2, n, d)
<1> SUFFICES ASSUME c.up PROVE Flowing(h, c, s2, n, d)
  BY DEF Flowing
<1>1. PICK a \in CommitPoints(h) : a <= n /\ Follow(h, c.frames, d, a) /\ (s.on => Pending(h, s, n, a))
  BY DEF Flowing
<1>2. CommitPoints(h) \subseteq Nat
  BY PointsAreNumbers
<1>3. PICK b \in CommitPoints(h), e \in CommitPoints(h) :
        /\ a <= b /\ b <= e /\ e <= n
        /\ Range(s.batch) = Entries(h, a, b)
        /\ Range(s.taken) = Entries(h, b, e)
        /\ ~s.dropped => Range(s.queue) = Entries(h, e, n)
  BY <1>1 DEF Pending
<1>4. a \in Nat /\ b \in Nat /\ e \in Nat /\ n \in Nat /\ b <= n /\ n <= n
  BY <1>2, <1>3
<1>5. Entries(h, b, n) = Entries(h, b, e) \cup Entries(h, e, n) /\ Entries(h, n, n) = {}
  BY <1>3, <1>4, StretchesMeet, NoStretch
<1>6. Range(s.batch) = {} /\ Range(s.taken) = {} /\ Range(s2.queue) = {} /\ Range(s2.batch) = {}
  BY EmptyRange
<1>7. Range(s2.taken) = Entries(h, b, n)
  BY <1>3, <1>5, <1>6
<1>8. Pending(h, s2, n, a)
  BY <1>3, <1>4, <1>5, <1>6, <1>7 DEF Pending
<1> QED  BY <1>1, <1>8 DEF Flowing

\* What was taken is resolved, or the subscription is cut.
LEMMA FlowsResolved ==
  ASSUME NEW h \in Seq(Op), NEW c, NEW s, NEW n \in Nat, NEW d, Flowing(h, c, s, n, d),
         NEW s2, s.on, s2.on, s.taken # <<>>, s2.taken = <<>>, s2.queue = s.queue,
         \/ s2.dropped /\ s2.batch = s.batch
         \/ s2.dropped = s.dropped /\ s2.batch = s.taken
  PROVE  Flowing(h, c, s2, n, d)
<1> SUFFICES ASSUME c.up PROVE Flowing(h, c, s2, n, d)
  BY DEF Flowing
<1>1. PICK a \in CommitPoints(h) : a <= n /\ Follow(h, c.frames, d, a) /\ (s.on => Pending(h, s, n, a))
  BY DEF Flowing
<1>2. CommitPoints(h) \subseteq Nat
  BY PointsAreNumbers
<1>3. PICK b \in CommitPoints(h), e \in CommitPoints(h) :
        /\ a <= b /\ b <= e /\ e <= n
        /\ Range(s.batch) = Entries(h, a, b)
        /\ Range(s.taken) = Entries(h, b, e)
        /\ ~s.dropped => Range(s.queue) = Entries(h, e, n)
        /\ s.taken # <<>> => s.batch = <<>>
  BY <1>1 DEF Pending
<1>4. a \in Nat /\ b \in Nat /\ e \in Nat /\ b <= b /\ e <= e
  BY <1>2
<1>5. Entries(h, b, b) = {} /\ Entries(h, e, e) = {} /\ Entries(h, a, e) = Entries(h, a, b) \cup Entries(h, b, e)
  <2>1. Entries(h, b, b) = {}
    BY <1>4, NoStretch
  <2>2. Entries(h, e, e) = {}
    BY <1>4, NoStretch
  <2>3. Entries(h, a, e) = Entries(h, a, b) \cup Entries(h, b, e)
    <3>1. a \in Nat /\ b \in Nat /\ e \in Nat /\ a <= b /\ b <= e
      BY <1>3, <1>4
    <3> QED  BY <3>1, StretchesMeet
  <2> QED  BY <2>1, <2>2, <2>3
<1>6. Range(s.batch) = {} /\ Range(s2.taken) = {}
  BY <1>3, EmptyRange
<1>7. CASE s2.dropped /\ s2.batch = s.batch
  <2>1. b <= b /\ b <= n
    BY <1>2, <1>3, <1>4, <1>7
  <2>2. Pending(h, s2, n, a)
    BY <1>3, <1>5, <1>6, <1>7, <2>1 DEF Pending
  <2> QED  BY <1>1, <2>2 DEF Flowing
<1>8. CASE s2.dropped = s.dropped /\ s2.batch = s.taken
  <2>1. a <= e /\ e <= e
    BY <1>3, <1>4
  <2>2. Range(s2.batch) = Entries(h, a, e)
    BY <1>3, <1>5, <1>6, <1>8
  <2>3. Pending(h, s2, n, a)
    BY <1>3, <1>5, <1>6, <1>8, <2>1, <2>2 DEF Pending
  <2> QED  BY <1>1, <2>3 DEF Flowing
<1> QED  BY <1>7, <1>8

\* A resolved batch becomes a frame.
LEMMA FlowsForwarded ==
  ASSUME NEW h \in Seq(Op), NEW c \in Conn, NEW s, s.batch \in Seq(Nat), NEW n \in Nat, NEW d,
         Flowing(h, c, s, n, d),
         NEW c2, c2.up => c.up, c2.frames = Append(c.frames, s.batch),
         NEW s2, s.on, s2.on, s.batch # <<>>, s2.batch = <<>>, s2.taken = s.taken, s2.queue = s.queue,
         s2.dropped = s.dropped
  PROVE  Flowing(h, c2, s2, n, d)
<1> SUFFICES ASSUME c2.up PROVE Flowing(h, c2, s2, n, d)
  BY DEF Flowing
<1>1. PICK a \in CommitPoints(h) : a <= n /\ Follow(h, c.frames, d, a) /\ (s.on => Pending(h, s, n, a))
  BY DEF Flowing
<1>2. CommitPoints(h) \subseteq Nat
  BY PointsAreNumbers
<1>3. PICK b \in CommitPoints(h), e \in CommitPoints(h) :
        /\ a <= b /\ b <= e /\ e <= n
        /\ Range(s.batch) = Entries(h, a, b)
        /\ Range(s.taken) = Entries(h, b, e)
        /\ ~s.dropped => Range(s.queue) = Entries(h, e, n)
        /\ s.taken # <<>> => s.batch = <<>>
  BY <1>1 DEF Pending
<1>4. b \in Nat /\ b <= b /\ Entries(h, b, b) = {} /\ Range(s2.batch) = {}
  <2>1. b \in Nat /\ b <= b
    BY <1>2
  <2> QED  BY <2>1, NoStretch, EmptyRange
<1>5. Follow(h, c2.frames, d, b)
  <2> DEFINE u == c.frames
             f == s.batch
  <2>1. u \in Seq(Seq(Nat)) /\ f \in Seq(Nat) /\ c2.frames = Append(u, f)
    BY DEF Conn
  <2>2. Follow(h, u, d, a) /\ a <= b /\ Range(f) = Entries(h, a, b)
    BY <1>1, <1>3
  <2> HIDE DEF u, f
  <2>3. Follow(h, Append(u, f), d, b)
    BY <2>1, <2>2, FollowAppend
  <2> QED  BY <2>1, <2>3
<1>6. b <= n
  BY <1>2, <1>3, <1>4
<1>7. Pending(h, s2, n, b)
  BY <1>3, <1>4 DEF Pending
<1> QED  BY <1>5, <1>6, <1>7 DEF Flowing

\* The end of a laggard's stream.
LEMMA FlowsEnded ==
  ASSUME NEW h \in Seq(Op), NEW c \in Conn, NEW s, NEW n, NEW d, Flowing(h, c, s, n, d),
         NEW c2, c2.up => c.up, c2.frames = Append(c.frames, <<>>), NEW s2, ~s2.on
  PROVE  Flowing(h, c2, s2, n, d)
<1> SUFFICES ASSUME c2.up PROVE Flowing(h, c2, s2, n, d)
  BY DEF Flowing
<1>1. PICK a \in CommitPoints(h) : a <= n /\ Follow(h, c.frames, d, a)
  BY DEF Flowing
<1>2. a \in Nat
  BY PointsAreNumbers
<1>3. a <= a
  BY <1>2
<1>4. Follow(h, c2.frames, d, a)
  <2> DEFINE u == c.frames
             f == <<>>
  <2>1. u \in Seq(Seq(Nat)) /\ f \in Seq(Nat) /\ c2.frames = Append(u, f)
    BY DEF Conn
  <2>2. Follow(h, u, d, a) /\ Range(f) = Entries(h, a, a)
    BY <1>1, <1>2, <1>3, NoStretch, EmptyRange
  <2> HIDE DEF u, f
  <2>3. Follow(h, Append(u, f), d, a)
    BY <1>3, <2>1, <2>2, FollowAppend
  <2> QED  BY <2>1, <2>3
<1> QED  BY <1>1, <1>4 DEF Flowing

\* The driver takes the first frame.
LEMMA FlowsApplied ==
  ASSUME NEW h \in Seq(Op), NEW c \in Conn, NEW s, NEW n \in Nat, NEW d, Flowing(h, c, s, n, d),
         c.up, c.frames # <<>>, NEW c2, c2.frames = Tail(c.frames)
  PROVE  \E m \in CommitPoints(h) :
           /\ d <= m /\ m <= n /\ Range(Head(c.frames)) = Entries(h, d, m)
           /\ Flowing(h, c2, s, n, m)
<1> DEFINE u == c.frames
<1>1. PICK a \in CommitPoints(h) : a <= n /\ Follow(h, c.frames, d, a) /\ (s.on => Pending(h, s, n, a))
  BY DEF Flowing
<1>2. u \in Seq(Seq(Nat)) /\ u # <<>> /\ Follow(h, u, d, a) /\ c2.frames = Tail(u)
  BY <1>1 DEF Conn
<1> HIDE DEF u
<1>3. PICK m \in CommitPoints(h) :
        d <= m /\ m <= a /\ Range(Head(u)) = Entries(h, d, m) /\ Follow(h, Tail(u), m, a)
  BY <1>2, FollowTail
<1>4. m \in Nat /\ a \in Nat
  BY PointsAreNumbers
<1>5. m <= n
  BY <1>1, <1>3, <1>4
<1>6. Flowing(h, c2, s, n, m)
  BY <1>1, <1>2, <1>3 DEF Flowing
<1> QED  BY <1>3, <1>5, <1>6 DEF u

\* A subscription starts where the published history ends.
LEMMA FlowsFresh ==
  ASSUME NEW h \in Seq(Op), NEW c, c.frames = <<>>, NEW n \in CommitPoints(h),
         NEW s, s.batch = <<>>, s.taken = <<>>, s.queue = <<>>
  PROVE  Flowing(h, c, s, n, n)
<1>1. n \in Nat
  BY PointsAreNumbers
<1>2. n <= n
  BY <1>1
<1>3. Entries(h, n, n) = {} /\ Range(s.batch) = {} /\ Range(s.taken) = {} /\ Range(s.queue) = {}
  BY <1>1, <1>2, NoStretch, EmptyRange
<1>4. Pending(h, s, n, n)
  BY <1>2, <1>3 DEF Pending
<1>5. Follow(h, c.frames, n, n)
  BY NothingFollows
<1> QED  BY <1>2, <1>4, <1>5 DEF Flowing

-----------------------------------------------------------------------------
(* What the master does to its tree                                        *)

\* A flush adds what came since the last one.
LEMMA CoversGrows ==
  ASSUME NEW h, NEW f \in Nat, NEW g \in Nat, f <= g, NEW recs, Covers(h, f, recs)
  PROVE  Covers(h, g, recs \cup Records(h, f, g))
<1>1. Entries(h, 0, g) = Entries(h, 0, f) \cup Entries(h, f, g)
  BY DEF Entries
<1>2. Records(h, 0, g) = Records(h, 0, f) \cup Records(h, f, g)
  BY <1>1 DEF Records
<1>3. ASSUME NEW s \in Entries(h, 0, g), NewestIn(h, s, g)
      PROVE  \/ RecordAt(h, s) \in recs \cup Records(h, f, g)
             \/ h[s].val = Absent /\ \A r \in recs \cup Records(h, f, g) : r.key # h[s].key
  <2>1. CASE s \in Entries(h, 0, f)
    <3>1. Entries(h, s, f) \subseteq Entries(h, s, g) /\ Entries(h, f, g) \subseteq Entries(h, s, g)
      BY <2>1 DEF Entries
    <3>2. NewestIn(h, s, f)
      BY <1>3, <3>1 DEF NewestIn
    <3>3. RecordAt(h, s) \in recs \/ (h[s].val = Absent /\ \A r \in recs : r.key # h[s].key)
      BY <2>1, <3>2 DEF Covers
    <3>4. \A r \in Records(h, f, g) : r.key # h[s].key
      BY <1>3, <3>1 DEF NewestIn, Records, RecordAt
    <3> QED  BY <3>3, <3>4
  <2>2. CASE s \in Entries(h, f, g)
    BY <2>2 DEF Records
  <2> QED  BY <1>1, <2>1, <2>2
<1> QED  BY <1>2, <1>3 DEF Covers

\* Compaction keeps the newest record of every key up to the watermark, and of
\* the tombstones among them those it cannot drop.
LEMMA CoversKept ==
  ASSUME NEW h, NEW f \in Nat, NEW recs, Covers(h, f, recs), NEW w \in Nat,
         NEW gone \in SUBSET Tombstones(recs, w)
  PROVE  Covers(h, f, Kept(recs, w) \ gone)
<1> DEFINE left == Kept(recs, w) \ gone
           below == {r \in recs : r.seq <= w}
<1>1. left \subseteq recs /\ recs \subseteq Records(h, 0, f)
  BY DEF Kept, NewestRecs, Covers
<1>2. \A q \in recs : q.seq \in 1..f /\ q.key = h[q.seq].key /\ q = RecordAt(h, q.seq) /\ q.seq \in Entries(h, 0, f)
  <2> SUFFICES ASSUME NEW q \in recs
               PROVE  q.seq \in 1..f /\ q.key = h[q.seq].key /\ q = RecordAt(h, q.seq) /\ q.seq \in Entries(h, 0, f)
    OBVIOUS
  <2>1. PICK i \in Entries(h, 0, f) : q = RecordAt(h, i)
    BY <1>1 DEF Records
  <2> QED  BY <2>1 DEF Entries, RecordAt
<1>3. ASSUME NEW s \in Entries(h, 0, f), NewestIn(h, s, f)
      PROVE  RecordAt(h, s) \in left \/ (h[s].val = Absent /\ \A r \in left : r.key # h[s].key)
  <2> DEFINE r == RecordAt(h, s)
  <2>1. s \in 1..f /\ s \in Nat /\ r.key = h[s].key /\ r.seq = s /\ r.val = h[s].val
    BY DEF Entries, RecordAt
  <2>2. ASSUME NEW q \in recs, q.key = h[s].key PROVE q.seq <= s /\ (q.seq = s => q = r)
    <3>1. q.seq \in 1..f /\ h[q.seq].key = h[s].key /\ q = RecordAt(h, q.seq) /\ q.seq \in Entries(h, 0, f)
      BY <1>2, <2>2
    <3>2. q.seq > s => q.seq \in Entries(h, s, f)
      BY <2>1, <3>1 DEF Entries
    <3>3. ~(q.seq > s)
      BY <1>3, <3>1, <3>2 DEF NewestIn
    <3> QED  BY <2>1, <3>1, <3>3
  <2>3. r \in recs \/ (h[s].val = Absent /\ \A q \in recs : q.key # h[s].key)
    BY <1>3 DEF Covers
  <2> HIDE DEF r, left, below
  <2>4. CASE r \in recs /\ s > w
    <3>1. r \in Kept(recs, w)
      BY <2>1, <2>4 DEF Kept
    <3>2. r \notin gone
      BY <2>1, <2>4 DEF Tombstones
    <3> QED  BY <3>1, <3>2 DEF r, left
  <2>5. CASE r \in recs /\ s <= w
    <3>1. r \in below /\ \A q \in below : q.key = r.key => q.seq <= r.seq
      BY <2>1, <2>2, <2>5 DEF below
    <3>2. r \in Kept(recs, w)
      BY <3>1 DEF Kept, NewestRecs, below
    <3>3. CASE r \notin gone
      BY <3>2, <3>3 DEF left, r
    <3>4. CASE r \in gone
      <4>1. h[s].val = Absent
        BY <2>1, <3>4 DEF Tombstones
      <4>2. ASSUME NEW q \in left, q.key = h[s].key PROVE FALSE
        <5>1. q \in recs /\ q \in Kept(recs, w) /\ q \notin gone
          BY <1>1, <4>2 DEF left
        <5>2. q.seq <= s /\ q.seq # s /\ q.seq \in Nat
          BY <1>2, <2>1, <2>2, <3>4, <4>2, <5>1
        <5>3. q \in below /\ ~(q.seq > w)
          BY <2>1, <2>5, <5>1, <5>2 DEF below
        <5>4. q \in NewestRecs(below)
          BY <5>1, <5>3 DEF Kept, below
        <5>5. r.seq <= q.seq
          BY <2>1, <3>1, <4>2, <5>4 DEF NewestRecs
        <5> QED  BY <2>1, <5>2, <5>5
      <4> QED  BY <4>1, <4>2
    <3> QED  BY <3>3, <3>4
  <2>6. CASE h[s].val = Absent /\ \A q \in recs : q.key # h[s].key
    BY <1>1, <2>6 DEF left
  <2> QED  BY <2>1, <2>3, <2>4, <2>5, <2>6
<1> HIDE DEF left
<1>4. Covers(h, f, left)
  BY <1>1, <1>3 DEF Covers
<1> QED  BY <1>4 DEF left

\* The newest record of every key of a prefix, but for some tombstones.
LEMMA CoversNewest ==
  ASSUME NEW h, NEW f \in Nat, NEW gone \in SUBSET Tombstones(Records(h, 0, f), f)
  PROVE  Covers(h, f, NewestRecs(Records(h, 0, f)) \ gone)
<1> DEFINE recs == Records(h, 0, f)
<1>1. \A r \in recs : r.seq \in 1..f
  BY DEF Records, Entries, RecordAt
<1>2. Covers(h, f, recs)
  BY DEF Covers, Records
<1> HIDE DEF recs
<1>3. {r \in recs : r.seq > f} = {} /\ {r \in recs : r.seq <= f} = recs
  BY <1>1
<1>4. Kept(recs, f) = NewestRecs(recs)
  BY <1>3 DEF Kept
<1>5. Covers(h, f, Kept(recs, f) \ gone)
  BY <1>2, CoversKept DEF recs
<1> QED  BY <1>4, <1>5 DEF recs

\* The beginning, of which there are no records.
LEMMA CoversNothing ==
  ASSUME NEW h
  PROVE  Covers(h, 0, {})
<1>1. Entries(h, 0, 0) = {}
  BY DEF Entries
<1> QED  BY <1>1 DEF Covers

\* What one fragment holds, or none that would hold nothing.
LEMMA OneFragmentHolds ==
  ASSUME NEW id, NEW recs
  PROVE  /\ Recs(OneFragment(id, recs)) = recs
         /\ \A f \in OneFragment(id, recs) : f.id = id
         /\ \A f, g \in OneFragment(id, recs) : f = g
<1> DEFINE F == OneFragment(id, recs)
           x == [id |-> id, recs |-> recs]
<1>1. CASE recs = {}
  <2>1. F = {}
    BY <1>1 DEF OneFragment
  <2> QED  BY <1>1, <2>1 DEF Recs
<1>2. CASE recs # {}
  <2>1. F = {x} /\ x.id = id /\ x.recs = recs
    BY <1>2 DEF OneFragment
  <2> HIDE DEF F, x
  <2>2. Recs(F) = recs
    BY <2>1 DEF Recs
  <2>3. \A f \in F : f.id = id
    BY <2>1
  <2> QED  BY <2>1, <2>2, <2>3 DEF F
<1> QED  BY <1>1, <1>2

-----------------------------------------------------------------------------
(* Steps that leave the driver where it is                                 *)

\* What the stream's invariant says of the histories.
LEMMA EdgeFacts ==
  ASSUME StreamInv
  PROVE  /\ ops \in Seq(Op) /\ WholeIn(ops) /\ visible = Len(ops) /\ visible \in Nat
         /\ published \in 0..Len(ops) /\ published \in Nat
         /\ epoch \in Nat /\ epoch >= 1 /\ ops = hist[epoch]
         /\ \A e \in 1..epoch : hist[e] \in Seq(Op)
         /\ sub \in Sub
<1>1. ops \in Seq(Op) /\ visible \in Nat /\ visible = Len(ops)
  BY HistoryTyped DEF StreamInv, StreamShape
<1>2. WholeIn(ops) /\ published \in 0..visible /\ sub \in Sub /\ epoch \in Nat \ {0} /\ epoch = Len(hist)
  BY DEF StreamInv, StreamShape, StreamTypes, WholeCommits
<1>3. \A e \in 1..epoch : hist[e] \in Seq(Op)
  <2> DEFINE S == Seq(Op)
  <2>1. hist \in Seq(S)
    BY DEF StreamInv, StreamShape, StreamTypes
  <2> HIDE DEF S
  <2>2. \A e \in 1..Len(hist) : hist[e] \in S
    BY <2>1, ElementOfSeq
  <2> QED  BY <1>2, <2>2 DEF S
<1> QED  BY <1>1, <1>2, <1>3 DEF ops

\* What the store being filled belongs to.
LEMMA FillingFacts ==
  ASSUME StreamInv, EdgeShape
  PROVE  /\ Filling \in Store /\ Filling.inst \in 0..epoch /\ store \in Store /\ store.inst \in 0..epoch
         /\ Filling.inst # 0 => hist[Filling.inst] \in Seq(Op)
         /\ fresh = <<>> => Filling = store
         /\ fresh # <<>> => Filling = fresh[1] /\ Filling.inst # store.inst
<1>1. epoch \in Nat /\ epoch >= 1 /\ \A e \in 1..epoch : hist[e] \in Seq(Op)
  BY EdgeFacts
<1>2. /\ store \in Store /\ (fresh # <<>> => fresh[1] \in Store)
      /\ store.inst <= epoch /\ (fresh # <<>> => store.inst < fresh[1].inst /\ fresh[1].inst <= epoch)
  BY DEF EdgeShape, EdgeTypes, Instances
<1>3. store.inst \in Nat /\ (fresh # <<>> => fresh[1].inst \in Nat)
  BY <1>2 DEF Store
<1>4. /\ fresh = <<>> => Filling = store
      /\ fresh # <<>> => Filling = fresh[1]
  BY DEF Filling
<1> QED  BY <1>1, <1>2, <1>3, <1>4

\* The histories of the instances there are go on where they were, nothing new
\* comes over the connection that was not already on its way, and the driver
\* and its stores do nothing.
LEMMA DriverWaits ==
  ASSUME StreamInv, EdgeShape,
         UNCHANGED <<store, fresh, slice, pc, ret, target>>,
         epoch' \in Nat, epoch <= epoch',
         \A e \in 1..epoch : hist'[e] = hist[e]
                             \/ (e = epoch /\ hist'[e] \in Seq(Op) /\ Continues(hist'[e], hist[e])),
         conn'.up => conn.up, conn'.inst = conn.inst,
         epoch' = epoch => published <= published' /\ published' \in Nat /\ flushed <= flushed' /\ flushed' \in Nat,
         \A d \in CommitPoints(ops) : Flows(d) => Flows(d)'
  PROVE  Served' /\ InStep' /\ Resync'
<1>1. /\ ops \in Seq(Op) /\ WholeIn(ops) /\ epoch \in Nat /\ epoch >= 1 /\ ops = hist[epoch]
      /\ published \in Nat
  BY EdgeFacts
<1>2. Filling' = Filling /\ Resyncing' = Resyncing
  BY DEF Filling, Resyncing
<1>3. /\ store \in Store /\ (fresh # <<>> => fresh[1] \in Store)
      /\ store.inst <= epoch /\ (fresh # <<>> => fresh[1].inst <= epoch)
  BY DEF EdgeShape, EdgeTypes, Instances
<1>4. store.inst \in 0..epoch /\ Filling.inst \in 0..epoch /\ Filling \in Store
  BY <1>1, <1>3 DEF Filling, Store
<1>5. ASSUME NEW e \in 0..epoch, e # 0, NEW s, NEW d \in CommitPoints(hist[e]), Mirrors(hist[e], s, d)
      PROVE  d \in CommitPoints(hist'[e]) /\ Mirrors(hist'[e], s, d)
  <2>1. e \in 1..epoch
    BY <1>1, <1>5
  <2>2. CASE hist'[e] = hist[e]
    BY <1>5, <2>2
  <2>3. CASE e = epoch /\ hist'[e] \in Seq(Op) /\ Continues(hist'[e], hist[e])
    <3>1. Mirrors(hist'[e], s, d)
      BY <1>1, <1>5, <2>3, MirrorsAlike
    <3> QED  BY <3>1 DEF Mirrors
  <2> QED  BY <2>1, <2>2, <2>3
<1>6. Served'
  <2> SUFFICES ASSUME store.inst # 0
               PROVE  \E d \in CommitPoints(hist'[store.inst]) : Mirrors(hist'[store.inst], store, d)
    BY DEF Served
  <2>1. PICK d \in CommitPoints(hist[store.inst]) : Mirrors(hist[store.inst], store, d)
    BY DEF EdgeShape, Served
  <2> QED  BY <1>4, <1>5, <2>1
<1>7. conn.up => conn.inst = epoch
  BY DEF EdgeShape, Connection
<1>8. ASSUME NEW d, Flows(d), Filling.inst = epoch => d \in CommitPoints(ops),
             conn.up => conn.inst = Filling.inst
      PROVE  Flows(d)'
  <2>1. CASE conn'.up
    BY <1>7, <1>8, <2>1
  <2>2. CASE ~conn'.up
    BY <2>2 DEF Flows, Flowing
  <2> QED  BY <2>1, <2>2
<1>9. InStep'
  <2> SUFFICES ASSUME pc # "open", ~Resyncing
               PROVE  /\ Filling.inst # 0
                      /\ conn'.up => conn'.inst = Filling.inst
                      /\ \E d \in CommitPoints(hist'[Filling.inst]) :
                           /\ Mirrors(hist'[Filling.inst], Filling, d)
                           /\ Flows(d)'
                           /\ pc = "advance" => Filling.phantom \/ target <= Later(Filling.flushed, d)
    BY <1>2 DEF InStep
  <2>1. /\ Filling.inst # 0 /\ (conn.up => conn.inst = Filling.inst)
        /\ \E d \in CommitPoints(hist[Filling.inst]) :
             /\ Mirrors(hist[Filling.inst], Filling, d)
             /\ Flows(d)
             /\ pc = "advance" => Filling.phantom \/ target <= Later(Filling.flushed, d)
    BY DEF EdgeShape, InStep
  <2>2. PICK d \in CommitPoints(hist[Filling.inst]) :
             /\ Mirrors(hist[Filling.inst], Filling, d)
             /\ Flows(d)
             /\ pc = "advance" => Filling.phantom \/ target <= Later(Filling.flushed, d)
    BY <2>1
  <2>3. d \in CommitPoints(hist'[Filling.inst]) /\ Mirrors(hist'[Filling.inst], Filling, d)
    BY <1>4, <1>5, <2>1, <2>2
  <2>4. Flows(d)'
    BY <1>1, <1>8, <2>1, <2>2
  <2> QED  BY <2>1, <2>2, <2>3, <2>4
<1>10. Resync'
  <2> SUFFICES ASSUME Resyncing
               PROVE  /\ Filling.inst # 0
                      /\ conn'.up => conn'.inst = Filling.inst
                      /\ Filling.inst = epoch' =>
                           \E d, p \in CommitPoints(ops') :
                             /\ Mirrors(ops', Filling, d) /\ d <= p
                             /\ p <= published' /\ Flows(p)'
                             /\ pc = "snap" => p <= flushed'
                             /\ pc = "fetch" => p <= slice[1].flushed
    BY <1>2 DEF Resync
  <2>1. /\ Filling.inst # 0 /\ (conn.up => conn.inst = Filling.inst)
        /\ Filling.inst = epoch =>
             \E d, p \in CommitPoints(ops) :
               /\ Mirrors(ops, Filling, d) /\ d <= p
               /\ p <= published /\ Flows(p)
               /\ pc = "snap" => p <= flushed
               /\ pc = "fetch" => p <= slice[1].flushed
    BY DEF EdgeShape, Resync
  <2>2. ASSUME Filling.inst = epoch'
        PROVE  \E d, p \in CommitPoints(ops') :
                 /\ Mirrors(ops', Filling, d) /\ d <= p
                 /\ p <= published' /\ Flows(p)'
                 /\ pc = "snap" => p <= flushed'
                 /\ pc = "fetch" => p <= slice[1].flushed
    <3>1. epoch' = epoch /\ Filling.inst = epoch /\ ops' = hist'[epoch]
      BY <1>1, <1>4, <2>2 DEF ops
    <3>2. PICK d \in CommitPoints(ops), p \in CommitPoints(ops) :
               /\ Mirrors(ops, Filling, d) /\ d <= p
               /\ p <= published /\ Flows(p)
               /\ pc = "snap" => p <= flushed
               /\ pc = "fetch" => p <= slice[1].flushed
      BY <2>1, <3>1
    <3>3. d \in CommitPoints(ops') /\ Mirrors(ops', Filling, d)
      BY <1>1, <1>5, <3>1, <3>2
    <3>4. p \in CommitPoints(ops') /\ p \in Nat
      <4>1. ops' = ops \/ (ops' \in Seq(Op) /\ Continues(ops', ops))
        BY <1>1, <3>1
      <4> QED  BY <1>1, <4>1, PointsStay, PointsAreNumbers
    <3>5. Flows(p)'
      BY <1>8, <2>1, <3>1, <3>2
    <3>6. p <= published' /\ (pc = "snap" => p <= flushed')
      <4>1. flushed \in Nat
        BY <1>1, PointsAreNumbers DEF EdgeShape, MasterTree
      <4> QED  BY <1>1, <3>1, <3>2, <3>4, <4>1
    <3> QED  BY <3>2, <3>3, <3>4, <3>5, <3>6
  <2> QED  BY <2>1, <2>2
<1> QED  BY <1>6, <1>9, <1>10

\* The write path and the server's side of the connection: the fragments stay.
LEMMA MasterMoves ==
  ASSUME StreamInv, EdgeShape,
         UNCHANGED <<treeVars, files, store, fresh, slice, pc, ret, target, epoch, flushed>>,
         \A e \in 1..epoch : e # epoch => hist'[e] = hist[e],
         ops' \in Seq(Op), Continues(ops', ops),
         published' \in CommitPoints(ops'), published <= published',
         conn' \in Conn, conn'.up => conn.up, conn'.inst = conn.inst, Connection',
         \A d \in CommitPoints(ops) : Flows(d) => Flows(d)'
  PROVE  EdgeShape'
<1>1. /\ ops \in Seq(Op) /\ WholeIn(ops) /\ epoch \in Nat /\ epoch >= 1 /\ ops = hist[epoch]
      /\ published \in Nat
  BY EdgeFacts
<1>2. /\ EdgeTypes /\ MasterTree /\ Copies /\ Pull /\ Instances
      /\ flushed \in CommitPoints(ops) /\ flushed \in Nat /\ Covers(ops, flushed, Recs(tree))
  BY <1>1, PointsAreNumbers DEF EdgeShape, MasterTree
<1>3. CommitPoints(ops) \subseteq CommitPoints(ops') /\ published' \in Nat /\ CommitPoints(ops) \subseteq 0..Len(ops)
  BY <1>1, PointsStay, PointsAreNumbers, PointsAreEnds
<1>4. Filling' = Filling /\ tree' = tree /\ nextFrag' = nextFrag
  BY DEF Filling, treeVars
<1>5. EdgeTypes'
  BY <1>2, <1>4 DEF EdgeTypes
<1>6. ASSUME NEW f \in CommitPoints(ops), NEW recs, Covers(ops, f, recs) PROVE Covers(ops', f, recs)
  <2>1. f \in 0..Len(ops) /\ Len(ops) \in Nat
    BY <1>1, <1>3, LenProperties
  <2>2. f \in Nat /\ \A s \in 1..f : ops'[s] = ops[s]
    BY <2>1 DEF Continues
  <2> QED  BY <1>6, <2>2, CoversAlike
<1>7. MasterTree'
  BY <1>2, <1>3, <1>4, <1>6 DEF MasterTree, Recs
<1>8. Copies'
  BY <1>2, <1>4 DEF Copies
<1>9. Pull'
  <2>1. Material' = Material /\ (Obtainable <=> Obtainable') /\ Missing' = Missing
    BY <1>4 DEF Material, Obtainable, Missing, Copied, Recs
  <2>2. pc = "fetch" /\ Filling.inst = epoch =>
         /\ \A t \in slice[1].tables : t.id \in 1..(nextFrag - 1)
         /\ slice[1].flushed \in CommitPoints(ops)
         /\ Filling.flushed <= slice[1].flushed /\ slice[1].flushed <= flushed
         /\ Obtainable => Covers(ops, slice[1].flushed, Material)
    BY <1>2 DEF Pull
  <2>3. pc = "fetch" /\ Filling.inst = epoch =>
         /\ \A t \in slice[1].tables : t.id \in 1..(nextFrag - 1)
         /\ slice[1].flushed \in CommitPoints(ops')
         /\ Filling.flushed <= slice[1].flushed /\ slice[1].flushed <= flushed
         /\ Obtainable => Covers(ops', slice[1].flushed, Material)
    BY <1>3, <1>6, <2>2
  <2>4. pc = "announce" => slice[1].flushed = Filling.flushed /\ Missing = {}
    BY <1>2 DEF Pull
  <2> QED  BY <1>4, <2>1, <2>3, <2>4 DEF Pull
<1>10. Instances'
  BY <1>2, <1>4 DEF Instances
<1>11. Served' /\ InStep' /\ Resync'
  <2>1. \A e \in 1..epoch : hist'[e] = hist[e]
                             \/ (e = epoch /\ hist'[e] \in Seq(Op) /\ Continues(hist'[e], hist[e]))
    BY <1>1 DEF ops
  <2>2. epoch' \in Nat /\ epoch <= epoch' /\ flushed <= flushed' /\ flushed' \in Nat
    BY <1>1, <1>2
  <2> QED  BY <1>3, <2>1, <2>2, DriverWaits
<1> QED  BY <1>5, <1>7, <1>8, <1>9, <1>10, <1>11 DEF EdgeShape

\* The history of one life.
LEMMA OneHistory ==
  ASSUME NEW H \in Seq(Seq(Op)), NEW e \in 1..Len(H)
  PROVE  H[e] \in Seq(Op)
<1> DEFINE S == Seq(Op)
<1>1. H \in Seq(S)
  OBVIOUS
<1> HIDE DEF S
<1>2. H[e] \in S
  BY <1>1, ElementOfSeq
<1> QED  BY <1>2 DEF S

\* Entries at the end make a continuation.
LEMMA ConcatContinues ==
  ASSUME NEW S, NEW h \in Seq(S), NEW new \in Seq(S)
  PROVE  Continues(h \o new, h)
<1> DEFINE u == h \o new
<1>1. Len(u) = Len(h) + Len(new) /\ Len(h) \in Nat /\ Len(new) \in Nat /\ \A s \in 1..Len(h) : u[s] = h[s]
  BY ConcatProperties, LenProperties
<1> HIDE DEF u
<1>2. Continues(u, h)
  BY <1>1 DEF Continues
<1> QED  BY <1>2 DEF u

\* A group commit on the master (apply_group_locked) changes nothing at the edge.
LEMMA EdgeWrites ==
  ASSUME StreamInv, StreamInv', EdgeShape, NEW g \in WholeGroups, Commit(g), UNCHANGED edgeVars
  PROVE  EdgeShape'
<1>1. /\ ops \in Seq(Op) /\ WholeIn(ops) /\ epoch \in Nat /\ epoch >= 1 /\ ops = hist[epoch]
      /\ published \in 0..Len(ops) /\ published \in Nat
  BY EdgeFacts
<1>2. epoch' = epoch /\ UNCHANGED <<published, flushed, sub>>
  BY DEF Commit
<1>3. ops' = hist'[epoch] /\ ops' \in Seq(Op)
  <2>1. hist' \in Seq(Seq(Op)) /\ epoch' \in 1..Len(hist')
    BY <1>1, <1>2 DEF StreamInv, StreamShape, StreamTypes
  <2> QED  BY <1>2, <2>1, OneHistory DEF ops
<1> DEFINE new == [i \in 1..Len(g) |->
                     [key |-> g[i].key,
                      val |-> IF g[i].put THEN <<epoch, visible + i>> ELSE Absent,
                      commit |-> visible + Min({j \in i..Len(g) : g[j].last})]]
<1>4. hist' = [hist EXCEPT ![epoch] = hist[epoch] \o new]
  BY DEF Commit
<1>5. epoch \in DOMAIN hist
  BY <1>1, LenProperties DEF StreamInv, StreamShape, StreamTypes
<1>6. Continues(ops \o new, ops)
  <2> DEFINE S == Op \cup {new[i] : i \in 1..Len(g)}
  <2>1. Len(g) \in Nat
    BY LenProperties DEF WholeGroups
  <2>2. new \in [1..Len(g) -> S]
    OBVIOUS
  <2>3. ops \in Seq(S)
    <3>1. Op \subseteq S
      OBVIOUS
    <3> HIDE DEF S
    <3> QED  BY <1>1, <3>1, SeqMonotonic
  <2> HIDE DEF S, new
  <2>4. new \in Seq(S)
    BY <2>1, <2>2, FunctionIsSequence
  <2> QED  BY <2>3, <2>4, ConcatContinues
<1> HIDE DEF new
<1>7. ops' = ops \o new /\ \A e \in 1..epoch : e # epoch => hist'[e] = hist[e]
  BY <1>1, <1>3, <1>4, <1>5
<1>8. Continues(ops', ops)
  BY <1>6, <1>7
<1>9. \A d \in CommitPoints(ops) : Flows(d) => Flows(d)'
  <2> SUFFICES ASSUME NEW d \in CommitPoints(ops), Flows(d)
               PROVE  Flowing(ops', conn, sub, published, d)
    BY <1>2 DEF Flows, edgeVars
  <2> QED  BY <1>1, <1>3, <1>8, FlowsAlike DEF Flows, EdgeShape, EdgeTypes
<1>10. published' \in CommitPoints(ops') /\ published <= published'
  BY <1>1, <1>2, <1>3, <1>8, PointsStay DEF EdgeShape, MasterTree
<1>11. conn' = conn /\ conn \in Conn /\ Connection'
  BY <1>2 DEF edgeVars, EdgeShape, EdgeTypes, Connection
<1>12. UNCHANGED <<treeVars, files, store, fresh, slice, pc, ret, target, epoch, flushed>>
  BY <1>2 DEF edgeVars, treeVars
<1> QED  BY <1>3, <1>7, <1>8, <1>9, <1>10, <1>11, <1>12, MasterMoves

\* The same where the history stays.
LEMMA ServerMoves ==
  ASSUME StreamInv, EdgeShape,
         UNCHANGED <<treeVars, files, store, fresh, slice, pc, ret, target, epoch, hist, flushed>>,
         published' \in CommitPoints(ops), published <= published',
         conn' \in Conn, conn'.up => conn.up, conn'.inst = conn.inst, Connection',
         \A d \in CommitPoints(ops) : Flows(d) => Flowing(ops, conn', sub', published', d)
  PROVE  EdgeShape'
<1>1. ops' = ops /\ ops \in Seq(Op) /\ Continues(ops, ops)
  BY EdgeFacts, LenProperties DEF ops, Continues
<1>2. \A d \in CommitPoints(ops) : Flows(d) => Flows(d)'
  BY <1>1 DEF Flows
<1>3. published' \in CommitPoints(ops') /\ ops' \in Seq(Op) /\ Continues(ops', ops)
  BY <1>1
<1>4. \A e \in 1..epoch : e # epoch => hist'[e] = hist[e]
  OBVIOUS
<1>5. UNCHANGED <<treeVars, files, store, fresh, slice, pc, ret, target, epoch, flushed>>
  OBVIOUS
<1> QED  BY <1>2, <1>3, <1>4, <1>5, MasterMoves

\* publish_stream: the next commit is queued, or the subscription is cut.
LEMMA EdgePublishes ==
  ASSUME StreamInv, EdgeShape, Publish, UNCHANGED edgeVars
  PROVE  EdgeShape'
<1>1. /\ ops \in Seq(Op) /\ WholeIn(ops) /\ visible = Len(ops) /\ visible \in Nat
      /\ published \in 0..Len(ops) /\ published \in Nat /\ sub \in Sub
  BY EdgeFacts
<1>2. /\ conn \in Conn /\ Connection /\ published \in CommitPoints(ops)
  BY DEF EdgeShape, EdgeTypes, MasterTree
<1> DEFINE c == ops[published + 1].commit
           q == Ascending({s \in (published + 1)..c : InScope(s)})
<1>3. /\ published < visible /\ published' = c
      /\ sub' = IF sub.on /\ ~sub.dropped THEN Offer(sub.queue \o q) ELSE sub
      /\ UNCHANGED <<epoch, hist, flushed>>
  BY DEF Publish
<1>4. c \in CommitPoints(ops) /\ c \in Nat /\ published <= c
  <2>1. published + 1 \in 1..Len(ops)
    BY <1>1, <1>3
  <2>2. c \in CommitPoints(ops) /\ c \in published + 1 .. Len(ops)
    BY <1>1, <2>1, PointsAreEnds
  <2> QED  BY <1>1, <2>2
<1>5. q \in Seq(Nat) /\ Range(q) = Entries(ops, published, c)
  <2>1. q \in Seq(Nat) /\ Range(q) = {s \in (published + 1)..c : InScope(s)}
    BY <1>1, <1>4, AscendingMembers
  <2> QED  BY <2>1 DEF Entries, InScope
<1> HIDE DEF c, q
<1>6. Range(sub.queue \o q) = Range(sub.queue) \cup Entries(ops, published, c)
  <2>1. sub.queue \in Seq(Nat)
    BY <1>1 DEF Sub
  <2> QED  BY <1>5, <2>1, ConcatRange
<1>7. /\ sub'.on = sub.on /\ sub'.batch = sub.batch /\ sub'.taken = sub.taken
      /\ sub.on /\ ~sub'.dropped => ~sub.dropped /\ Range(sub'.queue) = Range(sub.queue) \cup Entries(ops, published, c)
  <2> DEFINE u == sub.queue \o q
  <2>1. CASE sub.on /\ ~sub.dropped
    <3>1. sub' = Offer(u) /\ Range(u) = Range(sub.queue) \cup Entries(ops, published, c)
      BY <1>3, <1>6, <2>1
    <3> HIDE DEF u
    <3> QED  BY <1>1, <2>1, <3>1 DEF Offer, Sub
  <2>2. CASE ~(sub.on /\ ~sub.dropped)
    BY <1>3, <2>2
  <2> QED  BY <2>1, <2>2
<1>8. \A d \in CommitPoints(ops) : Flows(d) => Flowing(ops, conn', sub', published', d)
  <2> SUFFICES ASSUME NEW d \in CommitPoints(ops), Flows(d) PROVE Flowing(ops, conn, sub', c, d)
    BY <1>3 DEF edgeVars
  <2>1. Flowing(ops, conn, sub, published, d)
    BY DEF Flows
  <2> QED  BY <1>1, <1>2, <1>4, <1>7, <2>1, FlowsPublished
<1>9. Connection' /\ conn' = conn
  BY <1>2, <1>3, <1>7 DEF Connection, edgeVars
<1>10. UNCHANGED <<treeVars, files, store, fresh, slice, pc, ret, target, epoch, hist, flushed>>
  BY <1>3 DEF edgeVars, treeVars
<1>11. published' \in CommitPoints(ops) /\ published <= published'
  BY <1>3, <1>4
<1> QED  BY <1>2, <1>8, <1>9, <1>10, <1>11, ServerMoves

\* The server's forwarder drains and resolves what is queued.
LEMMA EdgeReading ==
  ASSUME StreamInv, EdgeShape, Drain \/ Resolve, UNCHANGED edgeVars
  PROVE  EdgeShape'
<1>1. ops \in Seq(Op) /\ published \in Nat /\ sub \in Sub
  BY EdgeFacts
<1>2. conn \in Conn /\ Connection /\ published \in CommitPoints(ops)
  BY DEF EdgeShape, EdgeTypes, MasterTree
<1>3. UNCHANGED <<epoch, hist, published, flushed>>
  BY DEF Drain, Resolve
<1>4. ASSUME Drain PROVE sub.on /\ sub'.on /\ \A d \in CommitPoints(ops) : Flows(d) => Flowing(ops, conn, sub', published, d)
  <2>1. /\ sub.on /\ ~sub.dropped /\ sub.taken = <<>> /\ sub.batch = <<>>
        /\ sub' = [sub EXCEPT !.taken = sub.queue, !.queue = <<>>]
    BY <1>4 DEF Drain
  <2>2. /\ sub'.on /\ ~sub'.dropped /\ sub'.taken = sub.queue /\ sub'.batch = <<>> /\ sub'.queue = <<>>
    BY <1>1, <2>1 DEF Sub
  <2>3. ASSUME NEW d \in CommitPoints(ops), Flows(d) PROVE Flowing(ops, conn, sub', published, d)
    <3>1. Flowing(ops, conn, sub, published, d)
      BY <2>3 DEF Flows
    <3> QED  BY <1>1, <1>2, <2>1, <2>2, <3>1, FlowsDrained
  <2> QED  BY <2>1, <2>2, <2>3
<1>5. ASSUME Resolve PROVE sub.on /\ sub'.on /\ \A d \in CommitPoints(ops) : Flows(d) => Flowing(ops, conn, sub', published, d)
  <2>1. /\ sub.taken # <<>>
        /\ \/ sub' = [sub EXCEPT !.taken = <<>>, !.dropped = TRUE, !.failed = TRUE]
           \/ sub' = [sub EXCEPT !.taken = <<>>, !.batch = sub.taken, !.pin = PinAfter(sub.taken)]
    BY <1>5 DEF Resolve
  <2>2. sub.on
    BY <1>2, <2>1 DEF Connection
  <2>3. /\ sub'.on /\ sub'.taken = <<>> /\ sub'.queue = sub.queue
        /\ \/ sub'.dropped /\ sub'.batch = sub.batch
           \/ sub'.dropped = sub.dropped /\ sub'.batch = sub.taken
    BY <1>1, <2>1, <2>2 DEF Sub
  <2>4. ASSUME NEW d \in CommitPoints(ops), Flows(d) PROVE Flowing(ops, conn, sub', published, d)
    <3>1. Flowing(ops, conn, sub, published, d)
      BY <2>4 DEF Flows
    <3> QED  BY <1>1, <2>1, <2>2, <2>3, <3>1, FlowsResolved
  <2> QED  BY <2>2, <2>3, <2>4
<1>6. sub.on /\ sub'.on /\ \A d \in CommitPoints(ops) : Flows(d) => Flowing(ops, conn, sub', published, d)
  BY <1>4, <1>5
<1>7. Connection' /\ conn' = conn
  BY <1>2, <1>3, <1>6 DEF Connection, edgeVars
<1>8. UNCHANGED <<treeVars, files, store, fresh, slice, pc, ret, target, epoch, hist, flushed>>
  BY <1>3 DEF edgeVars, treeVars
<1>9. published' \in CommitPoints(ops) /\ published <= published' /\ published' = published
  BY <1>1, <1>2, <1>3
<1>10. \A d \in CommitPoints(ops) : Flows(d) => Flowing(ops, conn', sub', published', d)
  BY <1>6, <1>7, <1>9
<1> QED  BY <1>2, <1>7, <1>8, <1>9, <1>10, ServerMoves

\* A batch, or the news of a lag, goes into the channel; a connection breaks.
LEMMA EdgeForwarding ==
  ASSUME StreamInv, EdgeShape, Forward \/ ForwardLagged \/ Break
  PROVE  EdgeShape'
<1>1. ops \in Seq(Op) /\ published \in Nat /\ sub \in Sub
  BY EdgeFacts
<1>2. conn \in Conn /\ Connection /\ published \in CommitPoints(ops) /\ conn.frames \in Seq(Seq(Nat))
  BY DEF EdgeShape, EdgeTypes, MasterTree, Conn
<1>3. UNCHANGED <<treeVars, files, store, fresh, slice, pc, ret, target, epoch, hist, flushed, published>> /\ conn.up
  BY DEF Forward, ForwardLagged, Break
<1>4. ~NoSub.on /\ NoSub.batch = <<>> /\ NoSub.taken = <<>>
  BY DEF NoSub
<1>5. \A u \in Seq(Seq(Nat)), f \in Seq(Nat) : Append(u, f) \in Seq(Seq(Nat))
  <2> DEFINE S == Seq(Nat)
  <2> SUFFICES \A u \in Seq(S), f \in S : Append(u, f) \in Seq(S)
    OBVIOUS
  <2> HIDE DEF S
  <2> QED  BY AppendProperties
<1>6. ASSUME Forward
      PROVE  /\ conn' \in Conn /\ conn'.up /\ conn'.inst = conn.inst /\ Connection'
             /\ \A d \in CommitPoints(ops) : Flows(d) => Flowing(ops, conn', sub', published, d)
  <2> DEFINE u == Append(conn.frames, sub.batch)
  <2>1. sub.batch # <<>> /\ conn' = [conn EXCEPT !.frames = u] /\ sub' = [sub EXCEPT !.batch = <<>>]
    BY <1>6 DEF Forward
  <2>2. sub.on /\ sub.batch \in Seq(Nat)
    BY <1>1, <1>2, <2>1 DEF Connection, Sub
  <2>3. u \in Seq(Seq(Nat))
    BY <1>2, <1>5, <2>2
  <2> HIDE DEF u
  <2>4. conn' \in Conn /\ conn'.up /\ conn'.inst = conn.inst /\ conn'.frames = u
    BY <1>2, <1>3, <2>1, <2>3 DEF Conn
  <2>5. /\ sub'.on /\ sub'.batch = <<>> /\ sub'.taken = sub.taken /\ sub'.queue = sub.queue
        /\ sub'.dropped = sub.dropped
    BY <1>1, <2>1, <2>2 DEF Sub
  <2>6. Connection'
    <3>1. \A i \in 1..Len(u) : u[i] # <<>>
      <4>1. \A i \in 1..Len(conn.frames) : conn.frames[i] # <<>>
        BY <1>2, <2>2 DEF Connection, LaggedFrame
      <4>2. \A i \in 1..Len(u) : u[i] = sub.batch \/ \E j \in 1..Len(conn.frames) : u[i] = conn.frames[j]
        <5> DEFINE S == Seq(Nat)
        <5>1. conn.frames \in Seq(S) /\ sub.batch \in S
          BY <1>2, <2>2
        <5> HIDE DEF S
        <5> QED  BY <5>1, AppendProperties, LenProperties DEF u
      <4> QED  BY <2>1, <4>1, <4>2
    <3> QED  BY <1>2, <1>3, <2>4, <2>5, <3>1 DEF Connection, LaggedFrame
  <2>7. ASSUME NEW d \in CommitPoints(ops), Flows(d) PROVE Flowing(ops, conn', sub', published, d)
    <3>1. Flowing(ops, conn, sub, published, d)
      BY <2>7 DEF Flows
    <3>2. conn'.up => conn.up
      BY <1>3
    <3>3. conn'.frames = Append(conn.frames, sub.batch)
      BY <2>4 DEF u
    <3> QED  BY <1>1, <1>2, <2>1, <2>2, <2>5, <3>1, <3>2, <3>3, FlowsForwarded
  <2> QED  BY <2>4, <2>6, <2>7
<1>7. ASSUME ForwardLagged
      PROVE  /\ conn' \in Conn /\ conn'.up /\ conn'.inst = conn.inst /\ Connection'
             /\ \A d \in CommitPoints(ops) : Flows(d) => Flowing(ops, conn', sub', published, d)
  <2> DEFINE u == Append(conn.frames, <<>>)
  <2>1. conn' = [conn EXCEPT !.frames = u] /\ sub' = NoSub
    BY <1>7 DEF ForwardLagged, LaggedFrame
  <2>2. u \in Seq(Seq(Nat))
    <3>1. <<>> \in Seq(Nat)
      OBVIOUS
    <3> QED  BY <1>2, <1>5, <3>1
  <2> HIDE DEF u
  <2>3. conn' \in Conn /\ conn'.up /\ conn'.inst = conn.inst /\ conn'.frames = u
    BY <1>2, <1>3, <2>1, <2>2 DEF Conn
  <2>4. Connection'
    BY <1>2, <1>3, <1>4, <2>1, <2>3 DEF Connection
  <2>5. ASSUME NEW d \in CommitPoints(ops), Flows(d) PROVE Flowing(ops, conn', sub', published, d)
    <3>1. Flowing(ops, conn, sub, published, d)
      BY <2>5 DEF Flows
    <3>2. conn'.frames = Append(conn.frames, <<>>) /\ ~sub'.on /\ (conn'.up => conn.up)
      BY <1>3, <1>4, <2>1, <2>3 DEF u
    <3> QED  BY <1>1, <1>2, <3>1, <3>2, FlowsEnded
  <2> QED  BY <2>3, <2>4, <2>5
<1>8. ASSUME Break
      PROVE  /\ conn' \in Conn /\ ~conn'.up /\ conn'.inst = conn.inst /\ Connection'
             /\ \A d \in CommitPoints(ops) : Flows(d) => Flowing(ops, conn', sub', published, d)
  <2>1. conn' = [conn EXCEPT !.up = FALSE, !.frames = <<>>] /\ sub' = NoSub
    BY <1>8 DEF Break
  <2>2. conn' \in Conn /\ ~conn'.up /\ conn'.inst = conn.inst /\ conn'.frames = <<>>
    <3>1. <<>> \in Seq(Seq(Nat))
      OBVIOUS
    <3> QED  BY <1>2, <2>1, <3>1 DEF Conn
  <2>3. Connection'
    BY <1>4, <2>1, <2>2 DEF Connection
  <2> QED  BY <2>2, <2>3 DEF Flowing
<1>9. published' \in CommitPoints(ops) /\ published <= published' /\ published' = published
  BY <1>1, <1>2, <1>3
<1>10. /\ conn' \in Conn /\ (conn'.up => conn.up) /\ conn'.inst = conn.inst /\ Connection'
       /\ \A d \in CommitPoints(ops) : Flows(d) => Flowing(ops, conn', sub', published', d)
  BY <1>3, <1>6, <1>7, <1>8, <1>9
<1>11. UNCHANGED <<treeVars, files, store, fresh, slice, pc, ret, target, epoch, hist, flushed>>
  BY <1>3
<1> QED  BY <1>9, <1>10, <1>11, ServerMoves

-----------------------------------------------------------------------------
(* The master's flushes and compactions, and its replacement               *)

\* The records of fragments, one by one.
LEMMA OneMore ==
  ASSUME NEW F, NEW f
  PROVE  Recs(F \cup {f}) = Recs(F) \cup f.recs /\ Recs({f}) = f.recs /\ Recs({}) = {}
BY DEF Recs

\* A flush adds what was not in the master's tree yet.
LEMMA EdgeFlushes ==
  ASSUME StreamInv, EdgeShape, FlushTree
  PROVE  EdgeShape'
<1>1. /\ ops \in Seq(Op) /\ WholeIn(ops) /\ visible = Len(ops) /\ visible \in Nat
      /\ epoch \in Nat /\ published \in Nat
  BY EdgeFacts
<1>2. /\ EdgeTypes /\ MasterTree /\ Connection /\ Copies /\ Pull /\ Instances
      /\ flushed \in CommitPoints(ops) /\ flushed \in Nat /\ Covers(ops, flushed, Recs(tree))
      /\ nextFrag \in Nat \ {0}
  BY <1>1, PointsAreNumbers DEF EdgeShape, EdgeTypes, MasterTree
<1> DEFINE new == {Record(epoch, s) : s \in {i \in (flushed + 1)..visible : InScope(i)}}
           frag == [id |-> nextFrag, recs |-> new]
<1>3. /\ pc \in {"pull", "snap"} /\ flushed < visible /\ flushed' = visible
      /\ UNCHANGED <<epoch, hist, published, sub, driverVars>>
      /\ IF new = {} THEN UNCHANGED treeVars ELSE tree' = tree \cup {frag} /\ nextFrag' = nextFrag + 1
  BY DEF FlushTree, Flush
<1>4. new = Records(ops, flushed, visible)
  <2>1. \A s : Record(epoch, s) = RecordAt(ops, s)
    BY DEF Record, RecordAt, ops
  <2>2. {i \in (flushed + 1)..visible : InScope(i)} = Entries(ops, flushed, visible)
    BY DEF Entries, InScope
  <2> QED  BY <2>1, <2>2 DEF Records
<1>5. frag.id = nextFrag /\ frag.recs = new
  OBVIOUS
<1> HIDE DEF new, frag
<1>6. ops' = ops /\ Filling' = Filling
  BY <1>3 DEF ops, driverVars, Filling
<1>7. Covers(ops, visible, Recs(tree) \cup new)
  BY <1>1, <1>2, <1>3, <1>4, CoversGrows
<1>8. /\ Recs(tree') = Recs(tree) \cup new
      /\ nextFrag' \in Nat \ {0} /\ nextFrag <= nextFrag'
      /\ \A f \in tree' : f \in tree \/ f.id = nextFrag
      /\ \A f \in tree' : f.id \in 1..(nextFrag' - 1)
      /\ \A f, g \in tree' : f.id = g.id => f = g
  <2>1. \A f \in tree : f.id \in 1..(nextFrag - 1)
    BY <1>2 DEF MasterTree
  <2>2. CASE new = {}
    <3>1. tree' = tree /\ nextFrag' = nextFrag
      BY <1>3, <2>2 DEF treeVars
    <3> QED  BY <1>2, <2>1, <2>2, <3>1 DEF MasterTree
  <2>3. CASE new # {}
    <3>1. tree' = tree \cup {frag} /\ nextFrag' = nextFrag + 1
      BY <1>3, <2>3
    <3>2. Recs(tree') = Recs(tree) \cup new
      BY <1>5, <3>1, OneMore
    <3>3. \A f \in tree : f.id # nextFrag
      BY <1>2, <2>1
    <3>4. nextFrag \in 1..(nextFrag' - 1) /\ nextFrag' \in Nat \ {0} /\ nextFrag <= nextFrag'
      BY <1>2, <3>1
    <3>5. \A f \in tree : f.id \in 1..(nextFrag' - 1)
      BY <1>2, <2>1, <3>1
    <3>6. ASSUME NEW f \in tree', NEW g \in tree', f.id = g.id PROVE f = g
      BY <1>2, <1>5, <3>1, <3>3, <3>6 DEF MasterTree
    <3>7. \A f \in tree' : f \in tree \/ f.id = nextFrag
      BY <1>5, <3>1
    <3>8. \A f \in tree' : f.id \in 1..(nextFrag' - 1)
      BY <3>4, <3>5, <3>7
    <3> QED  BY <3>2, <3>4, <3>6, <3>7, <3>8
  <2> QED  BY <2>2, <2>3
<1>9. EdgeTypes'
  BY <1>2, <1>3, <1>8 DEF EdgeTypes, driverVars
<1>10. MasterTree'
  <2>1. visible \in CommitPoints(ops)
    BY <1>1, PointsAreEnds
  <2>2. published' \in CommitPoints(ops)
    BY <1>2, <1>3 DEF MasterTree
  <2> QED  BY <1>3, <1>6, <1>7, <1>8, <2>1, <2>2 DEF MasterTree
<1>11. Connection'
  BY <1>2, <1>3 DEF Connection, driverVars
<1>12. Copies'
  <2> SUFFICES ASSUME Filling.inst = epoch, NEW id \in DOMAIN files
               PROVE  /\ id \in 1..(nextFrag' - 1)
                      /\ files[id].whole => \A f \in tree' : f.id = id => files[id].recs = f.recs
    BY <1>3, <1>6 DEF Copies, driverVars
  <2>1. /\ id \in 1..(nextFrag - 1)
        /\ files[id].whole => \A f \in tree : f.id = id => files[id].recs = f.recs
    BY <1>2 DEF Copies
  <2> QED  BY <1>2, <1>8, <2>1
<1>13. Pull'
  BY <1>3 DEF Pull, driverVars
<1>14. Instances'
  <2>1. Filling.inst = epoch => Filling.flushed <= flushed
    BY <1>2 DEF Instances
  <2>2. Filling.inst = epoch => Filling.flushed <= visible
    <3>1. Filling.inst = epoch => Filling.flushed \in Nat
      BY <1>2 DEF Filling, EdgeTypes, Store
    <3> QED  BY <1>1, <1>2, <1>3, <2>1, <3>1
  <2> QED  BY <1>2, <1>3, <1>6, <2>2 DEF Instances, driverVars
<1>15. Served' /\ InStep' /\ Resync'
  <2>1. \A d \in CommitPoints(ops) : Flows(d) => Flows(d)'
    BY <1>3, <1>6 DEF Flows, driverVars
  <2>2. /\ epoch' \in Nat /\ epoch <= epoch' /\ published <= published' /\ published' \in Nat
        /\ flushed <= flushed' /\ flushed' \in Nat /\ conn' = conn
    BY <1>1, <1>2, <1>3 DEF driverVars
  <2>3. UNCHANGED <<store, fresh, slice, pc, ret, target>> /\ hist' = hist
    BY <1>3 DEF driverVars
  <2> QED  BY <2>1, <2>2, <2>3, DriverWaits
<1> QED  BY <1>9, <1>10, <1>11, <1>12, <1>13, <1>14, <1>15 DEF EdgeShape

\* Once all of a slice is copied the copies are its material.
LEMMA AllCopied ==
  ASSUME Copies, Filling.inst = epoch, \A t \in slice[1].tables : Copied(t.id)
  PROVE  Material = UNION {files[t.id].recs : t \in slice[1].tables} /\ Obtainable
<1>1. {u \in slice[1].tables : Copied(u.id)} = slice[1].tables
  OBVIOUS
<1>2. \A f \in tree, t \in slice[1].tables : t.id = f.id => f.recs = files[t.id].recs
  BY DEF Copies, Copied
<1> DEFINE copies == UNION {files[t.id].recs : t \in slice[1].tables}
           live == Recs({f \in tree : \E t \in slice[1].tables : t.id = f.id})
<1>3. live \subseteq copies
  BY <1>2 DEF Recs
<1>4. UNION {files[t.id].recs : t \in {u \in slice[1].tables : Copied(u.id)}} = copies
  BY <1>1
<1>5. Material = (UNION {files[t.id].recs : t \in {u \in slice[1].tables : Copied(u.id)}}) \cup live
  BY DEF Material
<1> HIDE DEF live, copies
<1>6. Material = copies
  BY <1>3, <1>4, <1>5
<1> QED  BY <1>6 DEF Obtainable, copies

\* Compaction: the old fragments are gone, what was copied of them is not.
LEMMA EdgeCompacts ==
  ASSUME StreamInv, EdgeShape, CompactTree
  PROVE  EdgeShape'
<1>1. /\ ops \in Seq(Op) /\ WholeIn(ops) /\ epoch \in Nat /\ published \in Nat
  BY EdgeFacts
<1>2. /\ EdgeTypes /\ MasterTree /\ Connection /\ Copies /\ Pull /\ Instances
      /\ flushed \in CommitPoints(ops) /\ flushed \in Nat /\ Covers(ops, flushed, Recs(tree))
      /\ nextFrag \in Nat \ {0}
  BY <1>1, PointsAreNumbers DEF EdgeShape, EdgeTypes, MasterTree
<1>3. /\ UNCHANGED <<epoch, hist, published, flushed, sub, driverVars>>
      /\ nextFrag' = nextFrag + 1
      /\ \E gone \in SUBSET Tombstones(Recs(tree), Watermark) :
           tree' = OneFragment(nextFrag, Kept(Recs(tree), Watermark) \ gone)
  BY DEF CompactTree, streamVars
<1>4. /\ Covers(ops, flushed, Recs(tree'))
      /\ \A f \in tree' : f.id = nextFrag
      /\ \A f, g \in tree' : f = g
  <2>1. PICK gone \in SUBSET Tombstones(Recs(tree), Watermark) :
          tree' = OneFragment(nextFrag, Kept(Recs(tree), Watermark) \ gone)
    BY <1>3
  <2>2. Watermark \in Nat
    BY WatermarkIsLeast
  <2>3. Covers(ops, flushed, Kept(Recs(tree), Watermark) \ gone)
    BY <1>2, <2>2, CoversKept
  <2> QED  BY <2>1, <2>3, OneFragmentHolds
<1>5. ops' = ops /\ Filling' = Filling
  BY <1>3 DEF ops, driverVars, Filling
<1>6. EdgeTypes'
  BY <1>2, <1>3 DEF EdgeTypes, driverVars
<1>7. MasterTree'
  <2>1. nextFrag \in 1..(nextFrag' - 1)
    BY <1>2, <1>3
  <2> QED  BY <1>2, <1>3, <1>4, <1>5, <2>1 DEF MasterTree
<1>8. Connection'
  BY <1>2, <1>3 DEF Connection, driverVars
<1>9. \A i \in 1..(nextFrag - 1) : i \in 1..(nextFrag' - 1) /\ \A f \in tree' : f.id # i
  BY <1>2, <1>3, <1>4
<1>10. Copies'
  <2> SUFFICES ASSUME Filling.inst = epoch, NEW id \in DOMAIN files
               PROVE  /\ id \in 1..(nextFrag' - 1)
                      /\ files[id].whole => \A f \in tree' : f.id = id => files[id].recs = f.recs
    BY <1>3, <1>5 DEF Copies, driverVars
  <2>1. id \in 1..(nextFrag - 1)
    BY <1>2 DEF Copies
  <2> QED  BY <1>9, <2>1
<1>11. Pull'
  <2>1. ASSUME pc = "fetch", Filling.inst = epoch
        PROVE  /\ \A t \in slice[1].tables : t.id \in 1..(nextFrag' - 1)
               /\ slice[1].flushed \in CommitPoints(ops)
               /\ Filling.flushed <= slice[1].flushed /\ slice[1].flushed <= flushed
               /\ Obtainable' => Covers(ops, slice[1].flushed, Material')
    <3>1. /\ \A t \in slice[1].tables : t.id \in 1..(nextFrag - 1)
          /\ slice[1].flushed \in CommitPoints(ops)
          /\ Filling.flushed <= slice[1].flushed /\ slice[1].flushed <= flushed
          /\ Obtainable => Covers(ops, slice[1].flushed, Material)
      BY <1>2, <2>1 DEF Pull
    <3>2. slice' = slice /\ files' = files
      BY <1>3 DEF driverVars
    <3>3. ASSUME Obtainable' PROVE Covers(ops, slice[1].flushed, Material')
      <4>1. \A t \in slice[1].tables : Copied(t.id)
        BY <1>9, <3>1, <3>2, <3>3 DEF Obtainable, Copied
      <4>2. Material = UNION {files[t.id].recs : t \in slice[1].tables} /\ Obtainable
        BY <1>2, <2>1, <4>1, AllCopied
      <4>3. {f \in tree' : \E t \in slice[1].tables : t.id = f.id} = {}
        BY <1>9, <3>1
      <4>4. Material' = UNION {files[t.id].recs : t \in slice[1].tables}
        <5>1. {u \in slice[1].tables : Copied(u.id)'} = slice[1].tables
          BY <3>2, <4>1 DEF Copied
        <5>2. Recs({f \in tree' : \E t \in slice[1].tables : t.id = f.id}) = {}
          BY <4>3, OneMore
        <5>3. Material' = (UNION {files[t.id].recs : t \in {u \in slice[1].tables : Copied(u.id)'}})
                           \cup Recs({f \in tree' : \E t \in slice[1].tables : t.id = f.id})
          BY <3>2 DEF Material, Recs
        <5> QED  BY <5>1, <5>2, <5>3
      <4> QED  BY <3>1, <4>2, <4>4
    <3> QED  BY <1>9, <3>1, <3>3
  <2>2. pc = "announce" => slice[1].flushed = Filling.flushed /\ Missing = {}
    BY <1>2 DEF Pull
  <2> QED  BY <1>3, <1>5, <2>1, <2>2 DEF Pull, Missing, driverVars
<1>12. Instances'
  BY <1>2, <1>3, <1>5 DEF Instances, driverVars
<1>13. Served' /\ InStep' /\ Resync'
  <2>1. \A d \in CommitPoints(ops) : Flows(d) => Flows(d)'
    BY <1>3, <1>5 DEF Flows, driverVars
  <2>2. /\ epoch' \in Nat /\ epoch <= epoch' /\ published <= published' /\ published' \in Nat
        /\ flushed <= flushed' /\ flushed' \in Nat /\ conn' = conn
    BY <1>1, <1>2, <1>3 DEF driverVars
  <2>3. UNCHANGED <<store, fresh, slice, pc, ret, target>> /\ hist' = hist
    BY <1>3 DEF driverVars
  <2> QED  BY <2>1, <2>2, <2>3, DriverWaits
<1> QED  BY <1>6, <1>7, <1>8, <1>10, <1>11, <1>12, <1>13 DEF EdgeShape

\* h2 is a prefix of h that ends with a commit.
CutTo(h2, h, cut) ==
    /\ \A i \in 1..cut : h2[i] = h[i]
    /\ cut \in CommitPoints(h2)
    /\ \A c \in CommitPoints(h) : c <= cut => c \in CommitPoints(h2)

\* The store got nothing from the stream past the cut.
Unharmed(s, cut) == s.frontier <= cut /\ \A r \in s.overlay : r.seq <= cut

\* The next life is a prefix of this one.
LEMMA LifeGoesOn ==
  ASSUME StreamInv, NEW cut \in CommitPoints(ops), NextLife(cut)
  PROVE  /\ cut \in 0..Len(ops) /\ cut \in Nat /\ ops' \in Seq(Op) /\ Len(ops') = cut /\ WholeIn(ops')
         /\ \A s \in 1..cut : ops'[s] = ops[s]
         /\ epoch \in Nat /\ epoch >= 1 /\ epoch' = epoch + 1 /\ ops' = hist'[epoch']
         /\ \A e \in 1..epoch : hist'[e] = hist[e]
         /\ cut \in CommitPoints(ops') /\ CutTo(ops', ops, cut)
<1>1. /\ ops \in Seq(Op) /\ WholeIn(ops) /\ epoch \in Nat /\ epoch >= 1 /\ epoch = Len(hist)
      /\ hist \in Seq(Seq(Op)) /\ ops = hist[epoch]
  BY EdgeFacts DEF StreamInv, StreamShape, StreamTypes
<1> DEFINE h == SubSeq(ops, 1, cut)
<1>2. epoch' = epoch + 1 /\ hist' = Append(hist, h)
  BY DEF NextLife
<1>3. /\ cut \in 0..Len(ops) /\ h \in Seq(Op) /\ Len(h) = cut /\ WholeIn(h) /\ Len(ops) \in Nat
      /\ \A s \in 1..cut : h[s] = ops[s]
  <2>1. cut \in {0} \cup {ops[s].commit : s \in 1..Len(ops)} /\ Len(ops) \in Nat
    <3>1. DOMAIN ops = 1..Len(ops) /\ Len(ops) \in Nat
      BY <1>1, LenProperties
    <3> QED  BY <3>1 DEF CommitPoints
  <2>2. cut \in 0..Len(ops) /\ h \in Seq(Op) /\ Len(h) = cut /\ WholeIn(h)
    BY <1>1, <2>1, WholePrefix
  <2> QED  BY <1>1, <2>1, <2>2
<1> HIDE DEF h
<1>4. hist'[epoch'] = h /\ \A e \in 1..epoch : hist'[e] = hist[e]
  <2> DEFINE S == Seq(Op)
  <2>1. hist \in Seq(S) /\ h \in S
    BY <1>1, <1>3
  <2> HIDE DEF S
  <2>2. /\ Append(hist, h)[Len(hist) + 1] = h
        /\ \A i \in 1..Len(hist) : Append(hist, h)[i] = hist[i]
    BY <2>1, AppendProperties
  <2> QED  BY <1>1, <1>2, <2>2
<1>5. ops' = h
  BY <1>4 DEF ops
<1>6. cut \in CommitPoints(h)
  BY <1>3, PointsAreEnds
<1>7. ASSUME NEW c \in CommitPoints(ops), c <= cut PROVE c \in CommitPoints(h)
  <2>1. c \in 0..Len(ops) /\ (c # 0 => ops[c].commit = c)
    BY <1>1, PointsAreEnds
  <2>2. CASE c = 0
    BY <2>2 DEF CommitPoints
  <2>3. CASE c # 0
    <3>1. c \in 1..cut
      BY <1>3, <1>7, <2>1, <2>3
    <3>2. h[c].commit = c
      BY <1>3, <2>1, <2>3, <3>1
    <3>3. h[c].commit \in CommitPoints(h)
      BY <1>3, <3>1, PointsAreEnds
    <3> QED  BY <3>2, <3>3
  <2> QED  BY <2>2, <2>3
<1>8. CutTo(ops', ops, cut)
  BY <1>3, <1>5, <1>6, <1>7 DEF CutTo
<1> QED  BY <1>1, <1>2, <1>3, <1>4, <1>5, <1>6, <1>8

\* What the present life wrote between two numbers.
LEMMA WrittenRecords ==
  ASSUME NEW a, NEW b
  PROVE  Written(a, b) = Records(ops, a, b)
<1>1. \A s : Record(epoch, s) = RecordAt(ops, s)
  BY DEF Record, RecordAt, ops
<1>2. {i \in (a + 1)..b : InScope(i)} = Entries(ops, a, b)
  BY DEF Entries, InScope
<1> QED  BY <1>1, <1>2 DEF Written, Records

\* Another master takes over: the stores at the edge belong to an earlier one.
LEMMA EdgeReminted ==
  ASSUME StreamInv, EdgeShape, NEW cut \in CommitPoints(ops), Remint(cut)
  PROVE  EdgeShape'
<1>1. /\ NextLife(cut) /\ sub' = NoSub /\ published' = cut /\ flushed' = cut
      /\ conn' = [conn EXCEPT !.up = FALSE, !.frames = <<>>]
      /\ nextFrag' = 2
      /\ UNCHANGED <<store, fresh, files, slice, pc, ret, target>>
      /\ \E gone \in SUBSET Tombstones(Written(0, cut), cut) :
           tree' = OneFragment(1, NewestRecs(Written(0, cut)) \ gone)
  BY DEF Remint, NextLife
<1>2. EdgeTypes /\ Pull /\ Instances /\ conn \in Conn
  BY DEF EdgeShape, EdgeTypes
<1>3. /\ cut \in Nat /\ ops' \in Seq(Op) /\ \A s \in 1..cut : ops'[s] = ops[s]
      /\ epoch \in Nat /\ epoch >= 1 /\ epoch' = epoch + 1
      /\ \A e \in 1..epoch : hist'[e] = hist[e]
      /\ cut \in CommitPoints(ops')
  BY <1>1, LifeGoesOn
<1>4. /\ Covers(ops', cut, Recs(tree'))
      /\ \A f \in tree' : f.id = 1
      /\ \A f, g \in tree' : f = g
  <2>1. PICK gone \in SUBSET Tombstones(Written(0, cut), cut) :
          tree' = OneFragment(1, NewestRecs(Written(0, cut)) \ gone)
    BY <1>1
  <2>2. Written(0, cut) = Records(ops, 0, cut)
    BY WrittenRecords
  <2>3. Covers(ops, cut, NewestRecs(Written(0, cut)) \ gone)
    BY <1>3, <2>2, CoversNewest
  <2>4. Covers(ops', cut, NewestRecs(Written(0, cut)) \ gone)
    BY <1>3, <2>3, CoversAlike
  <2> QED  BY <2>1, <2>4, OneFragmentHolds
<1>5. Filling' = Filling /\ Filling.inst \in 0..epoch /\ Filling.inst # epoch'
  <2>1. store.inst \in Nat /\ (fresh # <<>> => fresh[1].inst \in Nat)
    BY <1>2 DEF EdgeTypes, Store
  <2>2. store.inst <= epoch /\ (fresh # <<>> => fresh[1].inst <= epoch)
    BY <1>2 DEF Instances
  <2>3. Filling.inst \in 0..epoch
    BY <1>3, <2>1, <2>2 DEF Filling
  <2> QED  BY <1>1, <1>3, <2>3 DEF Filling
<1>6. conn' \in Conn /\ ~conn'.up /\ conn'.frames = <<>> /\ conn'.inst = conn.inst
  <2>1. <<>> \in Seq(Seq(Nat))
    OBVIOUS
  <2> QED  BY <1>1, <1>2, <2>1 DEF Conn
<1>7. EdgeTypes'
  BY <1>1, <1>2, <1>6 DEF EdgeTypes
<1>8. MasterTree'
  <2>1. published' = cut /\ flushed' = cut /\ 1 \in 1..(nextFrag' - 1)
    BY <1>1
  <2> QED  BY <1>3, <1>4, <2>1 DEF MasterTree
<1>9. Connection'
  BY <1>1, <1>6 DEF Connection, NoSub
<1>10. Copies'
  BY <1>5 DEF Copies
<1>11. Pull'
  <2>1. pc = "announce" => slice[1].flushed = Filling.flushed /\ Missing = {}
    BY <1>2 DEF Pull
  <2>2. Missing' = Missing
    BY <1>1 DEF Missing
  <2> QED  BY <1>1, <1>5, <2>1, <2>2 DEF Pull
<1>12. Instances'
  <2>1. store.inst \in Nat /\ (fresh # <<>> => fresh[1].inst \in Nat)
    BY <1>2 DEF EdgeTypes, Store
  <2>2. store.inst <= epoch' /\ (fresh # <<>> => fresh[1].inst <= epoch')
    BY <1>1, <1>2, <1>3, <2>1 DEF Instances
  <2> QED  BY <1>1, <1>2, <1>5, <2>2 DEF Instances
<1>13. Served' /\ InStep' /\ Resync'
  <2>1. \A d \in CommitPoints(ops) : Flows(d) => Flows(d)'
    BY <1>6 DEF Flows, Flowing
  <2>2. epoch' \in Nat /\ epoch <= epoch' /\ epoch' # epoch
    BY <1>3
  <2>3. UNCHANGED <<store, fresh, slice, pc, ret, target>>
    BY <1>1
  <2> QED  BY <1>3, <1>6, <2>1, <2>2, <2>3, DriverWaits
<1> QED  BY <1>7, <1>8, <1>9, <1>10, <1>11, <1>12, <1>13 DEF EdgeShape

\* What a crash of the master leaves of a store's claim.
LEMMA MirrorsCut ==
  ASSUME NEW h \in Seq(Op), NEW h2 \in Seq(Op), NEW cut \in Nat, CutTo(h2, h, cut),
         NEW s, NEW d, Mirrors(h, s, d), s.flushed <= cut,
         NEW s2, s2.flushed = s.flushed, s2.version = s.version, s2.overlay = s.overlay,
         s2.frontier = s.frontier,
         ~s2.phantom => ~s.phantom /\ Unharmed(s, cut),
         NEW e, e = IF d <= cut THEN d ELSE cut
  PROVE  Mirrors(h2, s2, e)
<1> DEFINE f == s.flushed
           c == Later(f, d)
           u == Later(f, e)
<1>1. /\ f \in CommitPoints(h) /\ d \in CommitPoints(h) /\ f \in Nat /\ d \in Nat /\ c \in Nat
      /\ Covers(h, f, s.version) /\ Records(h, f, d) \subseteq s.overlay
      /\ ~s.phantom => s.overlay \subseteq Records(h, 0, c) /\ s.frontier <= c
  BY MirrorsPoint DEF Mirrors
<1>2. /\ e \in Nat /\ u \in Nat /\ e <= d /\ e <= cut /\ u <= cut /\ (u = c \/ u = cut)
      /\ f <= cut
  BY <1>1 DEF Later
<1>3. e \in CommitPoints(h2) /\ f \in CommitPoints(h2)
  BY <1>1 DEF CutTo
<1> HIDE DEF f, c, u
<1>4. /\ \A i \in 1..f : h2[i] = h[i]
      /\ \A i \in 1..e : h2[i] = h[i]
      /\ \A i \in 1..u : h2[i] = h[i]
  BY <1>1, <1>2 DEF CutTo
<1>5. Covers(h2, f, s.version)
  BY <1>1, <1>4, CoversAlike
<1>6. Records(h2, f, e) = Records(h, f, e) /\ Records(h2, 0, u) = Records(h, 0, u)
  BY <1>1, <1>2, <1>4, EntriesAlike
<1>7. Records(h, f, e) \subseteq Records(h, f, d)
  <2>1. Entries(h, f, e) \subseteq Entries(h, f, d)
    BY <1>1, <1>2 DEF Entries
  <2> QED  BY <2>1 DEF Records
<1>8. ASSUME ~s2.phantom PROVE s.overlay \subseteq Records(h, 0, u) /\ s.frontier <= u
  <2>1. /\ ~s.phantom /\ s.frontier <= cut /\ \A r \in s.overlay : r.seq <= cut
        /\ s.overlay \subseteq Records(h, 0, c) /\ s.frontier <= c
    BY <1>1, <1>8 DEF Unharmed
  <2>2. ASSUME NEW r \in s.overlay PROVE r \in Records(h, 0, u)
    <3>1. PICK i \in Entries(h, 0, c) : r = RecordAt(h, i)
      BY <2>1 DEF Records
    <3>2. r.seq = i /\ i <= cut
      BY <2>1, <3>1 DEF RecordAt
    <3>3. i \in Entries(h, 0, u)
      BY <1>1, <1>2, <3>1, <3>2 DEF Entries
    <3> QED  BY <3>1, <3>3 DEF Records
  <2> QED  BY <1>2, <2>1, <2>2
<1> QED  BY <1>1, <1>3, <1>5, <1>6, <1>7, <1>8 DEF Mirrors, f, u

\* A store the crash of its master leaves as it is but for its life.
LEMMA SurvivedStore ==
  ASSUME NEW s \in Store, NEW cut, epoch \in Nat
  PROVE  LET t == Survived(s, cut)
         IN  /\ t \in Store /\ t.inst = Rebound(s.inst) /\ t.flushed = s.flushed
             /\ t.version = s.version /\ t.overlay = s.overlay /\ t.frontier = s.frontier
             /\ t.phantom <=> s.phantom \/ Haunted(s, cut)
             /\ s.inst # epoch => t = s
<1> DEFINE t == Survived(s, cut)
<1>1. PICK p \in BOOLEAN : p = (s.phantom \/ Haunted(s, cut))
  BY DEF Store
<1>2. PICK i \in Nat : i = Rebound(s.inst)
  BY DEF Store, Rebound
<1>3. t = [s EXCEPT !.inst = i, !.phantom = p]
  BY <1>1, <1>2 DEF Survived
<1>4. s.phantom \in BOOLEAN
  BY DEF Store
<1>5. s.inst # epoch => i = s.inst /\ p = s.phantom
  <2>1. s.inst # epoch => i = s.inst /\ ~Haunted(s, cut)
    BY <1>2 DEF Rebound, Haunted
  <2> QED  BY <1>1, <1>4, <2>1
<1> HIDE DEF t
<1>6. /\ t \in Store /\ t.inst = i /\ t.flushed = s.flushed
      /\ t.version = s.version /\ t.overlay = s.overlay /\ t.frontier = s.frontier
      /\ t.phantom = p
  BY <1>3 DEF Store
<1>7. s.inst # epoch => t = s
  BY <1>3, <1>5 DEF Store
<1> QED  BY <1>1, <1>2, <1>6, <1>7 DEF t

\* A crash of the master: a store bound to it shows what is left, or is known
\* to show more.
LEMMA EdgeCrashed ==
  ASSUME StreamInv, EdgeShape, NEW cut \in CommitPoints(ops), MasterCrash(cut)
  PROVE  EdgeShape' /\ (store'.inst = store.inst => store' = store)
<1>1. /\ cut >= flushed /\ NextLife(cut)
      /\ sub' = NoSub /\ published' = cut /\ flushed' = cut
      /\ conn' = [conn EXCEPT !.inst = Rebound(@), !.up = FALSE, !.frames = <<>>]
      /\ store' = Survived(store, cut)
      /\ fresh' = IF fresh = <<>> THEN <<>> ELSE <<Survived(fresh[1], cut)>>
      /\ tree' = tree \cup OneFragment(nextFrag, Written(flushed, cut))
      /\ nextFrag' = nextFrag + 1
      /\ UNCHANGED <<files, slice, pc, ret, target>>
  BY DEF MasterCrash, NextLife
<1>2. EdgeTypes /\ MasterTree /\ Copies /\ Pull /\ Instances /\ Served /\ InStep /\ Resync
  BY DEF EdgeShape
<1>3. /\ cut \in Nat /\ ops' \in Seq(Op) /\ \A s \in 1..cut : ops'[s] = ops[s]
      /\ epoch \in Nat /\ epoch >= 1 /\ epoch' = epoch + 1 /\ ops' = hist'[epoch']
      /\ \A e \in 1..epoch : hist'[e] = hist[e]
      /\ cut \in CommitPoints(ops') /\ CutTo(ops', ops, cut)
  BY <1>1, LifeGoesOn
<1>4. /\ ops \in Seq(Op) /\ ops = hist[epoch]
      /\ flushed \in Nat /\ nextFrag \in Nat \ {0} /\ Covers(ops, flushed, Recs(tree))
  BY <1>2, EdgeFacts, PointsAreNumbers DEF MasterTree, EdgeTypes
<1> DEFINE s == Filling
           s2 == Survived(s, cut)
<1>5. /\ s \in Store /\ s.inst \in 0..epoch /\ store \in Store /\ store.inst \in 0..epoch
      /\ fresh = <<>> => s = store
      /\ fresh # <<>> => s = fresh[1] /\ s.inst # store.inst
  BY FillingFacts
<1>6. /\ s2 \in Store /\ s2.inst = Rebound(s.inst) /\ s2.flushed = s.flushed
      /\ s2.version = s.version /\ s2.overlay = s.overlay /\ s2.frontier = s.frontier
      /\ s2.phantom <=> s.phantom \/ Haunted(s, cut)
      /\ s.inst # epoch => s2 = s
  BY <1>3, <1>5, SurvivedStore
<1>7. /\ store' \in Store /\ store'.inst = Rebound(store.inst)
      /\ store.inst # epoch => store' = store
  BY <1>1, <1>3, <1>5, SurvivedStore
<1>8. /\ Filling' = s2
      /\ fresh' # <<>> <=> fresh # <<>>
      /\ fresh' # <<>> => fresh'[1] = s2 /\ s = fresh[1]
      /\ fresh = <<>> => store' = s2
  BY <1>1, <1>5 DEF Filling
<1>9. store.inst = epoch => fresh = <<>> /\ s = store
  <2>1. fresh # <<>> => store.inst < fresh[1].inst /\ fresh[1].inst <= epoch
    BY <1>2 DEF Instances
  <2> QED  BY <1>3, <1>5, <2>1
<1>10. s.inst = epoch => s.flushed \in Nat /\ s.flushed <= cut
  <2>1. s.inst = epoch => s.flushed <= flushed
    BY <1>2 DEF Instances
  <2>2. s.flushed \in Nat
    BY <1>5 DEF Store
  <2> QED  BY <1>1, <1>3, <1>4, <2>1, <2>2
<1> HIDE DEF s, s2
<1>11. /\ s2.inst = epoch' <=> s.inst = epoch
       /\ s2.inst # 0 <=> s.inst # 0
       /\ s2.inst \in 0..epoch' /\ s.inst <= s2.inst
  BY <1>3, <1>5, <1>6 DEF Rebound
<1>12. store'.inst = store.inst => store' = store
  BY <1>3, <1>5, <1>7 DEF Rebound
<1>13. conn' \in Conn /\ ~conn'.up /\ conn'.frames = <<>>
  <2>1. <<>> \in Seq(Seq(Nat)) /\ conn \in Conn
    BY <1>2 DEF EdgeTypes
  <2>2. Rebound(conn.inst) \in Nat
    BY <1>3, <2>1 DEF Rebound, Conn
  <2> QED  BY <1>1, <2>1, <2>2 DEF Conn
<1>14. EdgeTypes'
  <2>1. nextFrag' \in Nat \ {0}
    BY <1>1, <1>4
  <2> QED  BY <1>1, <1>2, <1>6, <1>7, <1>8, <1>13, <2>1 DEF EdgeTypes
<1>15. /\ \A f \in tree : f.id \in 1..(nextFrag - 1)
       /\ \A f, g \in tree : f.id = g.id => f = g
       /\ \A f \in tree' : f \in tree \/ (f.id = nextFrag /\ f \in OneFragment(nextFrag, Written(flushed, cut)))
       /\ tree \subseteq tree'
  BY <1>1, <1>2, OneFragmentHolds DEF MasterTree
<1>16. MasterTree'
  <2>1. Recs(tree') = Recs(tree) \cup Records(ops, flushed, cut)
    <3>1. Recs(OneFragment(nextFrag, Written(flushed, cut))) = Records(ops, flushed, cut)
      BY OneFragmentHolds, WrittenRecords
    <3> QED  BY <1>1, <3>1 DEF Recs
  <2>2. Covers(ops, cut, Recs(tree'))
    <3>1. flushed <= cut
      BY <1>1, <1>3, <1>4
    <3> QED  BY <1>3, <1>4, <2>1, <3>1, CoversGrows
  <2>3. Covers(ops', cut, Recs(tree'))
    BY <1>3, <2>2, CoversAlike
  <2>4. \A f \in tree' : f.id \in 1..(nextFrag' - 1)
    BY <1>1, <1>4, <1>15
  <2>5. ASSUME NEW f \in tree', NEW g \in tree', f.id = g.id PROVE f = g
    <3>1. CASE f \in tree /\ g \in tree
      BY <1>15, <2>5, <3>1
    <3>2. CASE f \notin tree \/ g \notin tree
      <4>1. f.id = nextFrag \/ g.id = nextFrag
        BY <1>15, <3>2
      <4>2. f \notin tree /\ g \notin tree
        BY <1>4, <1>15, <2>5, <4>1
      <4> QED  BY <1>15, <4>2, OneFragmentHolds
    <3> QED  BY <3>1, <3>2
  <2> QED  BY <1>1, <1>3, <2>3, <2>4, <2>5 DEF MasterTree
<1>17. Connection'
  BY <1>1, <1>13 DEF Connection, NoSub
<1>18. \A i \in 1..(nextFrag - 1) :
         i \in 1..(nextFrag' - 1) /\ \A f \in tree' : f.id = i => f \in tree
  BY <1>1, <1>4, <1>15
<1>19. Copies'
  <2> SUFFICES ASSUME s.inst = epoch, NEW id \in DOMAIN files
               PROVE  /\ id \in 1..(nextFrag' - 1)
                      /\ files[id].whole => \A f \in tree' : f.id = id => files[id].recs = f.recs
    BY <1>1, <1>8, <1>11 DEF Copies
  <2>1. /\ id \in 1..(nextFrag - 1)
        /\ files[id].whole => \A f \in tree : f.id = id => files[id].recs = f.recs
    BY <1>2 DEF Copies, s
  <2> QED  BY <1>18, <2>1
<1>20. Pull'
  <2>1. ASSUME pc = "fetch", s.inst = epoch
        PROVE  /\ \A t \in slice[1].tables : t.id \in 1..(nextFrag' - 1)
               /\ slice[1].flushed \in CommitPoints(ops')
               /\ s2.flushed <= slice[1].flushed /\ slice[1].flushed <= cut
               /\ Obtainable' => Covers(ops', slice[1].flushed, Material')
    <3>1. /\ \A t \in slice[1].tables : t.id \in 1..(nextFrag - 1)
          /\ slice[1].flushed \in CommitPoints(ops)
          /\ s.flushed <= slice[1].flushed /\ slice[1].flushed <= flushed
          /\ Obtainable => Covers(ops, slice[1].flushed, Material)
      BY <1>2, <2>1 DEF Pull, s
    <3>2. slice[1].flushed \in Nat /\ slice[1].flushed <= cut
      BY <1>1, <1>3, <1>4, <3>1, PointsAreNumbers
    <3>3. \A t \in slice[1].tables, f \in tree' : t.id = f.id <=> f \in tree /\ t.id = f.id
      BY <1>18, <3>1
    <3>4. Obtainable' <=> Obtainable
      BY <1>1, <1>15, <3>3 DEF Obtainable, Copied
    <3>5. Material' = Material
      <4>1. {f \in tree' : \E t \in slice[1].tables : t.id = f.id}
              = {f \in tree : \E t \in slice[1].tables : t.id = f.id}
        BY <1>15, <3>3
      <4> QED  BY <1>1, <4>1 DEF Material, Copied, Recs
    <3>6. Obtainable => Covers(ops', slice[1].flushed, Material)
      <4>1. \A i \in 1..slice[1].flushed : ops'[i] = ops[i]
        BY <1>3, <3>2
      <4> QED  BY <3>1, <3>2, <4>1, CoversAlike
    <3>7. slice[1].flushed \in CommitPoints(ops')
      <4>1. \A c \in CommitPoints(ops) : c <= cut => c \in CommitPoints(ops')
        BY <1>3 DEF CutTo
      <4> QED  BY <3>1, <3>2, <4>1
    <3>8. \A t \in slice[1].tables : t.id \in 1..(nextFrag' - 1)
      BY <1>18, <3>1
    <3> QED  BY <1>6, <3>1, <3>2, <3>4, <3>5, <3>6, <3>7, <3>8
  <2>2. pc = "announce" => slice[1].flushed = s2.flushed /\ Missing' = {}
    <3>1. Missing' = Missing
      BY <1>1 DEF Missing
    <3> QED  BY <1>2, <1>6, <3>1 DEF Pull, s
  <2> QED  BY <1>1, <1>8, <1>11, <2>1, <2>2 DEF Pull
<1>21. Instances'
  <2>1. store'.inst <= epoch'
    BY <1>3, <1>5, <1>7 DEF Rebound
  <2>2. ASSUME fresh # <<>>
        PROVE  /\ store'.inst < s2.inst /\ s2.inst <= epoch'
               /\ \/ pc \in {"pull", "snap", "fetch"} /\ ret = "resync"
                  \/ pc = "announce"
    <3>1. /\ store.inst < s.inst /\ store.inst # epoch
          /\ \/ pc \in {"pull", "snap", "fetch"} /\ ret = "resync"
             \/ pc = "announce"
      BY <1>2, <1>5, <1>9, <2>2 DEF Instances
    <3> QED  BY <1>3, <1>5, <1>7, <1>11, <3>1
  <2>3. s.inst = epoch => s2.flushed <= cut
    BY <1>6, <1>10
  <2> QED  BY <1>1, <1>8, <1>11, <2>1, <2>2, <2>3 DEF Instances
<1>22. \A d : Flows(d)'
  BY <1>13 DEF Flows, Flowing
<1>23. ASSUME NEW d \in CommitPoints(ops), Mirrors(ops, s, d), s.inst = epoch,
              NEW e, e = IF d <= cut THEN d ELSE cut
       PROVE  e \in CommitPoints(ops') /\ Mirrors(ops', s2, e)
  <2>1. ~s2.phantom => ~s.phantom /\ Unharmed(s, cut)
    <3>1. /\ s.frontier \in Nat /\ \A r \in s.overlay : r.seq \in Nat
      BY <1>5 DEF Store, Rec
    <3> QED  BY <1>3, <1>6, <1>23, <3>1 DEF Haunted, Unharmed
  <2>2. /\ s2.flushed = s.flushed /\ s2.version = s.version /\ s2.overlay = s.overlay
        /\ s2.frontier = s.frontier /\ s.flushed <= cut
    BY <1>6, <1>10, <1>23
  <2>3. Mirrors(ops', s2, e)
    BY <1>3, <1>4, <1>23, <2>1, <2>2, MirrorsCut
  <2> QED  BY <2>3 DEF Mirrors
<1>24. ASSUME NEW d \in CommitPoints(hist[s.inst]), Mirrors(hist[s.inst], s, d), s.inst # 0,
              pc = "advance" => s.phantom \/ target <= Later(s.flushed, d)
       PROVE  \E e \in CommitPoints(hist'[s2.inst]) :
                /\ Mirrors(hist'[s2.inst], s2, e)
                /\ pc = "advance" => s2.phantom \/ target <= Later(s2.flushed, e)
  <2>1. CASE s.inst # epoch
    <3>1. s2 = s /\ hist'[s.inst] = hist[s.inst]
      BY <1>3, <1>5, <1>6, <1>24, <2>1
    <3> QED  BY <1>24, <3>1
  <2>2. CASE s.inst = epoch
    <3>1. PICK e : e = IF d <= cut THEN d ELSE cut
      OBVIOUS
    <3>2. e \in CommitPoints(ops') /\ Mirrors(ops', s2, e) /\ hist'[s2.inst] = ops'
      BY <1>3, <1>4, <1>11, <1>23, <1>24, <2>2, <3>1
    <3>3. pc = "advance" => s2.phantom \/ target <= Later(s2.flushed, e)
      <4>1. d \in Nat /\ target \in Nat
        BY <1>2, <1>4, <1>24, <2>2, PointsAreNumbers DEF EdgeTypes
      <4>2. ~Haunted(s, cut) => target <= cut
        BY <1>3, <2>2, <4>1 DEF Haunted
      <4> QED  BY <1>3, <1>6, <1>10, <1>24, <2>2, <3>1, <4>1, <4>2 DEF Later
    <3> QED  BY <3>2, <3>3
  <2> QED  BY <2>1, <2>2
<1>25. Served'
  <2> SUFFICES ASSUME store'.inst # 0
               PROVE  \E e \in CommitPoints(hist'[store'.inst]) : Mirrors(hist'[store'.inst], store', e)
    BY DEF Served
  <2>1. store.inst # 0
    BY <1>3, <1>7, <1>12 DEF Rebound
  <2>2. PICK d \in CommitPoints(hist[store.inst]) : Mirrors(hist[store.inst], store, d)
    BY <1>2, <2>1 DEF Served
  <2>3. CASE store.inst # epoch
    <3>1. store' = store /\ hist'[store.inst] = hist[store.inst]
      BY <1>3, <1>5, <1>7, <2>1, <2>3
    <3> QED  BY <2>2, <3>1
  <2>4. CASE store.inst = epoch
    <3>1. PICK e : e = IF d <= cut THEN d ELSE cut
      OBVIOUS
    <3>2. store' = s2 /\ s = store /\ hist'[s2.inst] = ops'
      BY <1>3, <1>8, <1>9, <1>11, <2>4
    <3>3. e \in CommitPoints(ops') /\ Mirrors(ops', s2, e)
      BY <1>4, <1>23, <2>2, <2>4, <3>1, <3>2
    <3> QED  BY <3>2, <3>3
  <2> QED  BY <2>3, <2>4
<1>26. InStep'
  <2> SUFFICES ASSUME pc # "open", ~Resyncing
               PROVE  /\ s2.inst # 0
                      /\ \E e \in CommitPoints(hist'[s2.inst]) :
                           /\ Mirrors(hist'[s2.inst], s2, e)
                           /\ pc = "advance" => s2.phantom \/ target <= Later(s2.flushed, e)
    BY <1>1, <1>8, <1>13, <1>22 DEF InStep, Resyncing
  <2>1. /\ s.inst # 0
        /\ \E d \in CommitPoints(hist[s.inst]) :
             /\ Mirrors(hist[s.inst], s, d)
             /\ pc = "advance" => s.phantom \/ target <= Later(s.flushed, d)
    BY <1>2 DEF InStep, s
  <2> QED  BY <1>11, <1>24, <2>1
<1>27. Resync'
  <2> SUFFICES ASSUME Resyncing
               PROVE  /\ s2.inst # 0
                      /\ s2.inst = epoch' =>
                           \E d, p \in CommitPoints(ops') :
                             /\ Mirrors(ops', s2, d) /\ d <= p
                             /\ p <= cut
                             /\ pc = "fetch" => p <= slice[1].flushed
    <3>1. Resyncing' <=> Resyncing
      BY <1>1 DEF Resyncing
    <3> QED  BY <1>1, <1>8, <1>13, <1>22, <3>1 DEF Resync
  <2>1. /\ s.inst # 0
        /\ s.inst = epoch =>
             \E d, p \in CommitPoints(ops) :
               /\ Mirrors(ops, s, d) /\ d <= p
               /\ pc = "fetch" => p <= slice[1].flushed
    BY <1>2 DEF Resync, s
  <2>2. ASSUME s.inst = epoch
        PROVE  \E d, p \in CommitPoints(ops') :
                 /\ Mirrors(ops', s2, d) /\ d <= p
                 /\ p <= cut
                 /\ pc = "fetch" => p <= slice[1].flushed
    <3>1. PICK d \in CommitPoints(ops), p \in CommitPoints(ops) :
            /\ Mirrors(ops, s, d) /\ d <= p
            /\ pc = "fetch" => p <= slice[1].flushed
      BY <2>1, <2>2
    <3>2. d \in Nat /\ p \in Nat
      BY <1>4, PointsAreNumbers
    <3>3. PICK e : e = IF d <= cut THEN d ELSE cut
      OBVIOUS
    <3>4. PICK q : q = IF p <= cut THEN p ELSE cut
      OBVIOUS
    <3>5. e \in CommitPoints(ops') /\ Mirrors(ops', s2, e)
      BY <1>23, <2>2, <3>1, <3>3
    <3>6. q \in CommitPoints(ops')
      <4>1. \A c \in CommitPoints(ops) : c <= cut => c \in CommitPoints(ops')
        BY <1>3 DEF CutTo
      <4> QED  BY <1>3, <3>1, <3>4, <4>1
    <3>7. e <= q /\ q <= cut
      BY <1>3, <3>1, <3>2, <3>3, <3>4
    <3>8. pc = "fetch" => q <= slice[1].flushed
      <4>1. pc = "fetch" => slice[1].flushed \in Nat
        BY <1>2, <1>4, <2>2, PointsAreNumbers DEF Pull, s
      <4> QED  BY <1>3, <3>1, <3>2, <3>4, <4>1
    <3> QED  BY <3>5, <3>6, <3>7, <3>8
  <2> QED  BY <1>11, <2>1, <2>2
<1> QED  BY <1>12, <1>14, <1>16, <1>17, <1>19, <1>20, <1>21, <1>25, <1>26, <1>27 DEF EdgeShape

-----------------------------------------------------------------------------
(* Pulling a slice                                                         *)

\* The master does nothing.
LEMMA MasterStill ==
  ASSUME EdgeShape, UNCHANGED <<epoch, hist, published, flushed, treeVars>>
  PROVE  MasterTree' /\ ops' = ops /\ nextFrag' = nextFrag /\ tree' = tree
<1>1. ops' = ops /\ tree' = tree /\ nextFrag' = nextFrag
  BY DEF ops, treeVars
<1>2. MasterTree
  BY DEF EdgeShape
<1> QED  BY <1>1, <1>2 DEF MasterTree, Recs

\* One step of a pull on to the next.
LEMMA PullGoesOn ==
  ASSUME StreamInv, EdgeShape,
         UNCHANGED <<epoch, hist, published, flushed, sub, treeVars, store, fresh, conn, ret, target>>,
         pc \in {"pull", "snap", "fetch"}, pc' \in {"pull", "snap", "fetch"},
         pc' = "snap" => flushed = visible,
         pc' = "fetch" => \/ pc = "fetch" /\ slice' = slice
                          \/ pc = "snap" /\ slice'[1].flushed = flushed
  PROVE  EdgeTypes' /\ MasterTree' /\ Connection' /\ Instances' /\ Served' /\ InStep' /\ Resync'
<1>1. /\ published \in 0..Len(ops) /\ visible = Len(ops) /\ visible \in Nat /\ published \in Nat
      /\ ops \in Seq(Op)
  BY EdgeFacts
<1>2. EdgeTypes /\ Connection /\ Instances /\ Served /\ InStep /\ Resync
  BY DEF EdgeShape
<1>3. MasterTree' /\ ops' = ops /\ nextFrag' = nextFrag
  BY MasterStill
<1>4. Filling' = Filling /\ (Resyncing' <=> Resyncing)
  BY DEF Filling, Resyncing
<1>5. \A d : Flows(d)' <=> Flows(d)
  BY <1>3 DEF Flows
<1>6. EdgeTypes' /\ Connection'
  BY <1>2, <1>3 DEF EdgeTypes, Connection
<1>7. Instances'
  BY <1>2, <1>4 DEF Instances
<1>8. Served'
  BY <1>2 DEF Served
<1>9. InStep'
  <2> SUFFICES ASSUME ~Resyncing
               PROVE  /\ Filling.inst # 0
                      /\ conn.up => conn.inst = Filling.inst
                      /\ \E d \in CommitPoints(hist[Filling.inst]) :
                           /\ Mirrors(hist[Filling.inst], Filling, d)
                           /\ Flows(d)
    BY <1>4, <1>5 DEF InStep
  <2> QED  BY <1>2 DEF InStep
<1>10. Resync'
  <2> SUFFICES ASSUME Resyncing
               PROVE  /\ Filling.inst # 0
                      /\ conn.up => conn.inst = Filling.inst
                      /\ Filling.inst = epoch =>
                           \E d, p \in CommitPoints(ops) :
                             /\ Mirrors(ops, Filling, d) /\ d <= p
                             /\ p <= published /\ Flows(p)
                             /\ pc' = "snap" => p <= flushed
                             /\ pc' = "fetch" => p <= slice'[1].flushed
    BY <1>3, <1>4, <1>5 DEF Resync
  <2>1. /\ Filling.inst # 0
        /\ conn.up => conn.inst = Filling.inst
        /\ Filling.inst = epoch =>
             \E d, p \in CommitPoints(ops) :
               /\ Mirrors(ops, Filling, d) /\ d <= p
               /\ p <= published /\ Flows(p)
               /\ pc = "snap" => p <= flushed
               /\ pc = "fetch" => p <= slice[1].flushed
    BY <1>2 DEF Resync
  <2>2. ASSUME NEW p \in CommitPoints(ops), p <= published,
               pc = "snap" => p <= flushed, pc = "fetch" => p <= slice[1].flushed
        PROVE  (pc' = "snap" => p <= flushed) /\ (pc' = "fetch" => p <= slice'[1].flushed)
    <3>1. p \in Nat /\ p <= visible
      BY <1>1, <2>2, PointsAreNumbers
    <3> QED  BY <2>2, <3>1
  <2> QED  BY <2>1, <2>2
<1> QED  BY <1>3, <1>6, <1>7, <1>8, <1>9, <1>10

\* slice_manifest flushes, then takes its snapshot: past all the stream began with.
LEMMA EdgeAsks ==
  ASSUME StreamInv, EdgeShape, PullFlushes \/ PullSnapshot
  PROVE  EdgeShape'
<1>1. /\ UNCHANGED <<epoch, hist, published, flushed, sub, treeVars, store, fresh, conn, ret, target, files>>
      /\ Filling.inst = epoch
  BY DEF PullFlushes, PullSnapshot, masterVars, streamVars, SameInstance
<1>2. \/ pc = "pull" /\ pc' = "snap" /\ slice' = slice /\ flushed = visible
      \/ /\ pc = "snap" /\ pc' = "fetch"
         /\ slice' = <<[flushed |-> flushed, tables |-> {Advertised(f) : f \in tree}]>>
  BY DEF PullFlushes, PullSnapshot
<1>3. pc' = "fetch" => slice'[1].flushed = flushed /\ slice'[1].tables = {Advertised(f) : f \in tree}
  BY <1>2
<1>4. EdgeTypes' /\ MasterTree' /\ Connection' /\ Instances' /\ Served' /\ InStep' /\ Resync'
  BY <1>1, <1>2, <1>3, PullGoesOn
<1>5. ops' = ops /\ nextFrag' = nextFrag /\ tree' = tree /\ Filling' = Filling
  BY <1>1, MasterStill DEF Filling
<1>6. /\ Copies /\ Instances /\ flushed \in CommitPoints(ops) /\ Covers(ops, flushed, Recs(tree))
      /\ \A f \in tree : f.id \in 1..(nextFrag - 1)
  BY DEF EdgeShape, MasterTree
<1>7. Copies'
  BY <1>1, <1>5, <1>6 DEF Copies
<1>8. Pull'
  <2> SUFFICES ASSUME pc' = "fetch"
               PROVE  /\ \A t \in slice'[1].tables : t.id \in 1..(nextFrag - 1)
                      /\ slice'[1].flushed \in CommitPoints(ops)
                      /\ Filling.flushed <= slice'[1].flushed /\ slice'[1].flushed <= flushed
                      /\ Covers(ops, slice'[1].flushed, Material')
    BY <1>1, <1>2, <1>5 DEF Pull
  <2>1. slice'[1].flushed = flushed /\ slice'[1].tables = {Advertised(f) : f \in tree}
    BY <1>3
  <2>2. \A f : Advertised(f).id = f.id
    BY DEF Advertised
  <2>3. \A t \in slice'[1].tables : \E f \in tree : t.id = f.id
    BY <2>1, <2>2
  <2>4. \A f \in tree : \E t \in slice'[1].tables : t.id = f.id
    BY <2>1, <2>2
  <2>5. \A t \in slice'[1].tables : t.id \in 1..(nextFrag - 1)
    BY <1>6, <2>3
  <2>6. flushed <= flushed /\ Filling.flushed <= flushed
    <3>1. flushed \in Nat
      BY <1>6, EdgeFacts, PointsAreNumbers
    <3> QED  BY <1>1, <1>6, <3>1 DEF Instances
  <2>7. Material' = Recs(tree)
    <3>1. {f \in tree : \E t \in slice'[1].tables : t.id = f.id} = tree
      BY <2>4
    <3> DEFINE copies == UNION {files[t.id].recs : t \in {u \in slice'[1].tables : Copied(u.id)}}
    <3>2. Material' = copies \cup Recs(tree)
      BY <1>1, <1>5, <3>1 DEF Material, Copied, Recs
    <3>3. ASSUME NEW t \in slice'[1].tables, Copied(t.id) PROVE files[t.id].recs \subseteq Recs(tree)
      <4>1. PICK f \in tree : t.id = f.id
        BY <2>3
      <4>2. files[t.id].recs = f.recs
        BY <1>1, <1>6, <3>3, <4>1 DEF Copies, Copied
      <4> QED  BY <4>2 DEF Recs
    <3>4. copies \subseteq Recs(tree)
      BY <3>3
    <3> QED  BY <3>2, <3>4
  <2> QED  BY <1>6, <2>1, <2>5, <2>6, <2>7
<1> QED  BY <1>4, <1>7, <1>8 DEF EdgeShape

\* A copy of a live fragment, whole or torn.
LEMMA CopyKeeps ==
  ASSUME EdgeShape, UNCHANGED <<epoch, hist, published, flushed, treeVars, store, fresh>>,
         NEW f \in tree, NEW whole \in BOOLEAN, files' = WithFile(f.id, f.recs, whole)
  PROVE  Copies'
<1>1. /\ Copies /\ \A g \in tree : g.id \in 1..(nextFrag - 1)
      /\ \A g, x \in tree : g.id = x.id => g = x
  BY DEF EdgeShape, MasterTree
<1>2. nextFrag' = nextFrag /\ tree' = tree /\ Filling' = Filling
  BY MasterStill DEF Filling
<1>3. /\ DOMAIN files' = (DOMAIN files) \cup {f.id}
      /\ files'[f.id].recs = f.recs
      /\ \A i \in DOMAIN files : i # f.id => files'[i] = files[i]
  BY DEF WithFile
<1> SUFFICES ASSUME Filling.inst = epoch, NEW id \in DOMAIN files'
             PROVE  /\ id \in 1..(nextFrag - 1)
                    /\ files'[id].whole => \A g \in tree : g.id = id => files'[id].recs = g.recs
  BY <1>2 DEF Copies
<1>4. CASE id = f.id
  BY <1>1, <1>3, <1>4
<1>5. CASE id # f.id
  <2>1. id \in DOMAIN files /\ files'[id] = files[id]
    BY <1>3, <1>5
  <2> QED  BY <1>1, <2>1 DEF Copies
<1> QED  BY <1>4, <1>5

\* fetch_table copies a fragment of the slice.
LEMMA EdgeFetches ==
  ASSUME StreamInv, EdgeShape, Fetch
  PROVE  EdgeShape'
<1>1. /\ UNCHANGED <<epoch, hist, published, flushed, sub, treeVars, store, fresh, conn, ret, target, slice, pc>>
      /\ Filling.inst = epoch /\ pc = "fetch"
  BY DEF Fetch, masterVars, streamVars, SameInstance
<1>2. PICK t \in Missing, f \in tree : f.id = t.id /\ files' = WithFile(f.id, f.recs, TRUE)
  BY DEF Fetch
<1>3. EdgeTypes' /\ MasterTree' /\ Connection' /\ Instances' /\ Served' /\ InStep' /\ Resync'
  BY <1>1, PullGoesOn
<1>4. Copies'
  BY <1>1, <1>2, CopyKeeps
<1>5. ops' = ops /\ nextFrag' = nextFrag /\ tree' = tree /\ Filling' = Filling
  BY <1>1, MasterStill DEF Filling
<1>6. /\ DOMAIN files' = (DOMAIN files) \cup {f.id}
      /\ files'[f.id].recs = f.recs /\ files'[f.id].whole
      /\ \A i \in DOMAIN files : i # f.id => files'[i] = files[i]
  BY <1>2 DEF WithFile
<1>7. t \in slice[1].tables /\ f.id \notin DOMAIN files /\ t.id = f.id
  BY <1>2 DEF Missing
<1>8. \A i : Copied(i)' <=> Copied(i) \/ i = f.id
  BY <1>6, <1>7 DEF Copied
<1>9. Pull'
  <2>1. /\ \A u \in slice[1].tables : u.id \in 1..(nextFrag - 1)
        /\ slice[1].flushed \in CommitPoints(ops)
        /\ Filling.flushed <= slice[1].flushed /\ slice[1].flushed <= flushed
        /\ Obtainable => Covers(ops, slice[1].flushed, Material)
    BY <1>1 DEF EdgeShape, Pull
  <2>2. Obtainable' => Obtainable
    BY <1>1, <1>5, <1>8 DEF Obtainable
  <2> DEFINE live == Recs({g \in tree : \E u \in slice[1].tables : u.id = g.id})
             old == UNION {files[u.id].recs : u \in {x \in slice[1].tables : Copied(x.id)}}
             new == UNION {files'[u.id].recs : u \in {x \in slice[1].tables : Copied(x.id) \/ x.id = f.id}}
  <2>3. Material = old \cup live /\ Material' = new \cup live
    BY <1>1, <1>5, <1>8 DEF Material, Recs
  <2>4. f.recs \subseteq live
    BY <1>7 DEF Recs
  <2>5. new = old \cup f.recs
    <3>1. \A u \in slice[1].tables : Copied(u.id) => u.id # f.id /\ files'[u.id] = files[u.id]
      BY <1>6, <1>7 DEF Copied
    <3>2. \A r : r \in new <=> \E u \in slice[1].tables : (Copied(u.id) \/ u.id = f.id) /\ r \in files'[u.id].recs
      OBVIOUS
    <3>3. \A r : r \in old <=> \E u \in slice[1].tables : Copied(u.id) /\ r \in files[u.id].recs
      OBVIOUS
    <3> HIDE DEF new, old
    <3>4. \A r : r \in new <=> r \in old \/ r \in f.recs
      BY <1>6, <1>7, <3>1, <3>2, <3>3
    <3> QED  BY <3>4
  <2> HIDE DEF live, old, new
  <2>6. Material' = Material
    BY <2>3, <2>4, <2>5
  <2> QED  BY <1>1, <1>5, <2>1, <2>2, <2>6 DEF Pull
<1> QED  BY <1>3, <1>4, <1>9 DEF EdgeShape

\* A fragment is gone, or its copy is torn: the pull begins again.
LEMMA EdgeFetchFails ==
  ASSUME StreamInv, EdgeShape, FetchGone \/ FetchTorn
  PROVE  EdgeShape'
<1>1. /\ UNCHANGED <<epoch, hist, published, flushed, sub, treeVars, store, fresh, conn, ret, target>>
      /\ Filling.inst = epoch /\ pc = "fetch" /\ pc' = "pull"
  BY DEF FetchGone, FetchTorn, masterVars, streamVars, SameInstance
<1>2. EdgeTypes' /\ MasterTree' /\ Connection' /\ Instances' /\ Served' /\ InStep' /\ Resync'
  BY <1>1, PullGoesOn
<1>3. Copies'
  <2>1. CASE FetchGone
    <3>1. nextFrag' = nextFrag /\ tree' = tree /\ Filling' = Filling /\ files' = files
      BY <1>1, <2>1, MasterStill DEF Filling, FetchGone
    <3> QED  BY <1>1, <3>1 DEF Copies, EdgeShape
  <2>2. CASE FetchTorn
    <3>1. PICK f \in tree : files' = WithFile(f.id, f.recs, FALSE)
      BY <2>2 DEF FetchTorn
    <3> QED  BY <1>1, <3>1, CopyKeeps
  <2> QED  BY <2>1, <2>2
<1>4. Pull'
  BY <1>1 DEF Pull
<1> QED  BY <1>2, <1>3, <1>4 DEF EdgeShape

-----------------------------------------------------------------------------
(* Installing a slice and announcing it                                    *)

\* The records of a history are records.
LEMMA RecordsTyped ==
  ASSUME NEW h \in Seq(Op), NEW b \in 0..Len(h)
  PROVE  Records(h, 0, b) \subseteq Rec
<1>1. \A s \in 1..Len(h) : h[s] \in Op
  BY ElementOfSeq
<1>2. Len(h) \in Nat
  BY LenProperties
<1>3. \A s \in Entries(h, 0, b) : h[s] \in Op /\ s \in Nat
  BY <1>1, <1>2 DEF Entries
<1>4. \A s \in Entries(h, 0, b) : RecordAt(h, s) \in Rec
  BY <1>3 DEF RecordAt, Rec, Op
<1> QED  BY <1>4 DEF Records

\* install_slice: the slice replaces the fragments and what it covers of the overlay.
LEMMA EdgeInstalls ==
  ASSUME StreamInv, EdgeShape, Install
  PROVE  EdgeShape' /\ (store'.inst = store.inst /\ ~store.phantom => store' = store \/ NotBehind(store', store))
<1>1. /\ UNCHANGED <<epoch, hist, published, flushed, sub, treeVars, files, conn, slice, ret, target>>
      /\ Filling.inst = epoch /\ pc = "fetch" /\ pc' = "announce"
      /\ Missing = {} /\ \A t \in slice[1].tables : Opens(t)
  BY DEF Install, masterVars, streamVars, SameInstance
<1>2. /\ ops \in Seq(Op) /\ WholeIn(ops) /\ epoch \in Nat /\ epoch >= 1 /\ ops = hist[epoch]
      /\ published \in Nat
  BY EdgeFacts
<1>3. /\ EdgeTypes /\ Connection /\ Copies /\ Pull /\ Instances /\ Served /\ InStep /\ Resync
  BY DEF EdgeShape
<1>4. MasterTree' /\ ops' = ops /\ nextFrag' = nextFrag /\ tree' = tree
  BY <1>1, MasterStill
<1> DEFINE s == Filling
           f2 == slice[1].flushed
           vers == UNION {files[t.id].recs : t \in slice[1].tables}
           over == {r \in s.overlay : r.seq > f2}
           s2 == Installed(s)
<1>5. /\ s \in Store /\ (fresh = <<>> => s = store) /\ (fresh # <<>> => s = fresh[1] /\ s.inst # store.inst)
      /\ s.flushed \in Nat
  BY FillingFacts DEF Store
<1>6. \A t \in slice[1].tables : Copied(t.id)
  BY <1>1 DEF Missing, Opens, Copied
<1>7. /\ f2 \in CommitPoints(ops) /\ s.flushed <= f2 /\ f2 <= flushed
      /\ Covers(ops, f2, vers)
  <2>1. Material = vers /\ Obtainable
    BY <1>1, <1>3, <1>6, AllCopied
  <2> QED  BY <1>1, <1>3, <2>1 DEF Pull
<1>8. f2 \in 0..Len(ops) /\ f2 \in Nat
  BY <1>2, <1>7, PointsAreEnds
<1>9. s2 = [s EXCEPT !.version = vers, !.overlay = over, !.flushed = f2]
  BY DEF Installed, OverlayAfter
<1> HIDE DEF s, f2, vers, s2
<1>10. vers \subseteq Rec
  BY <1>2, <1>7, <1>8, RecordsTyped DEF Covers
<1>11. over \subseteq Rec
  BY <1>5 DEF Store
<1> HIDE DEF over
<1>12. /\ s2 \in Store /\ s2.inst = s.inst /\ s2.frontier = s.frontier /\ s2.flushed = f2
       /\ s2.version = vers /\ s2.overlay = over /\ s2.phantom = s.phantom
  BY <1>5, <1>8, <1>9, <1>10, <1>11 DEF Store
<1>13. /\ fresh = <<>> => store' = s2 /\ fresh' = <<>>
       /\ fresh # <<>> => fresh' = <<s2>> /\ store' = store
  BY <1>5 DEF Install, s2
<1>14. /\ Filling' = s2 /\ (fresh' # <<>> <=> fresh # <<>>)
       /\ (fresh' # <<>> => fresh'[1] = s2)
  BY <1>13 DEF Filling
<1>15. ASSUME NEW d, Mirrors(ops, s, d), NEW p \in CommitPoints(ops), p = d \/ (d <= p /\ p <= f2)
       PROVE  Mirrors(ops, s2, p) /\ (~s.phantom => NotBehind(s2, s))
  <2>1. s2.overlay = {r \in s.overlay : r.seq > f2} /\ Covers(ops, f2, s2.version)
    BY <1>7, <1>12 DEF over
  <2>2. Mirrors(ops, s2, p) /\ Later(s.flushed, d) <= Later(f2, p)
    BY <1>2, <1>5, <1>7, <1>12, <1>15, <2>1, InstallMirrors
  <2>3. s2.frontier >= s.frontier
    BY <1>5, <1>12 DEF Store
  <2>4. Inherits(s2, s)
    BY <1>12, <2>1 DEF Inherits
  <2> QED  BY <1>2, <1>12, <1>15, <2>2, <2>3, <2>4, LaterNotBehind
<1>16. /\ s.inst # 0 /\ (conn.up => conn.inst = s.inst)
       /\ \E d \in CommitPoints(ops) : Mirrors(ops, s2, d) /\ Flows(d) /\ (~s.phantom => NotBehind(s2, s))
  <2>1. CASE Resyncing
    <3>1. /\ s.inst # 0 /\ (conn.up => conn.inst = s.inst)
          /\ \E d, p \in CommitPoints(ops) :
               /\ Mirrors(ops, s, d) /\ d <= p
               /\ p <= published /\ Flows(p)
               /\ p <= f2
      BY <1>1, <1>3, <2>1 DEF Resync, s, f2
    <3> QED  BY <1>15, <3>1
  <2>2. CASE ~Resyncing
    <3>1. /\ s.inst # 0 /\ (conn.up => conn.inst = s.inst)
          /\ \E d \in CommitPoints(ops) : Mirrors(ops, s, d) /\ Flows(d)
      BY <1>1, <1>2, <1>3, <2>2 DEF InStep, s
    <3> QED  BY <1>15, <3>1
  <2> QED  BY <2>1, <2>2
<1>17. store'.inst = store.inst /\ ~store.phantom => store' = store \/ NotBehind(store', store)
  BY <1>5, <1>13, <1>16
<1>18. EdgeTypes'
  BY <1>1, <1>3, <1>4, <1>12, <1>13, <1>14 DEF EdgeTypes
<1>19. Connection'
  BY <1>1, <1>3 DEF Connection
<1>20. Copies'
  BY <1>1, <1>3, <1>4, <1>12, <1>14 DEF Copies, s
<1>21. Pull'
  <2>1. Missing' = Missing
    BY <1>1 DEF Missing
  <2> QED  BY <1>1, <1>12, <1>14, <2>1 DEF Pull, f2
<1>22. Instances'
  <2>1. fresh' # <<>> => store'.inst < s2.inst /\ s2.inst <= epoch
    BY <1>3, <1>5, <1>12, <1>13 DEF Instances
  <2>2. store'.inst <= epoch
    BY <1>3, <1>5, <1>12, <1>13 DEF Instances
  <2> QED  BY <1>1, <1>7, <1>12, <1>14, <2>1, <2>2 DEF Instances
<1>23. hist'[s2.inst] = ops
  BY <1>1, <1>2, <1>12 DEF s
<1>24. InStep'
  <2> SUFFICES /\ s2.inst # 0 /\ (conn.up => conn.inst = s2.inst)
               /\ \E d \in CommitPoints(ops) : Mirrors(ops, s2, d) /\ Flows(d)'
    BY <1>1, <1>14, <1>23 DEF InStep
  <2>1. \A d : Flows(d)' <=> Flows(d)
    BY <1>1, <1>4 DEF Flows
  <2> QED  BY <1>12, <1>16, <2>1
<1>25. Served'
  <2>1. CASE fresh = <<>>
    BY <1>13, <1>16, <1>23, <2>1 DEF Served
  <2>2. CASE fresh # <<>>
    BY <1>1, <1>3, <1>13, <2>2 DEF Served
  <2> QED  BY <2>1, <2>2
<1>26. Resync'
  BY <1>1 DEF Resync, Resyncing
<1> QED  BY <1>4, <1>17, <1>18, <1>19, <1>20, <1>21, <1>22, <1>24, <1>25, <1>26 DEF EdgeShape

\* The frontier of the installed slice, and the store of a re-attachment.
LEMMA EdgeAnnounces ==
  ASSUME StreamInv, EdgeShape, Announce
  PROVE  EdgeShape' /\ (store'.inst = store.inst /\ ~store.phantom => store' = store \/ NotBehind(store', store))
<1>1. /\ UNCHANGED <<epoch, hist, published, flushed, sub, treeVars, conn, target>>
      /\ pc = "announce" /\ pc' = "run" /\ fresh' = <<>>
      /\ files' = [id \in {t.id : t \in slice[1].tables} |-> files[id]]
  BY DEF Announce, masterVars, streamVars
<1>2. /\ ops \in Seq(Op) /\ epoch \in Nat
  BY EdgeFacts
<1>3. /\ EdgeTypes /\ Connection /\ Copies /\ Pull /\ Instances /\ InStep
  BY DEF EdgeShape
<1>4. MasterTree' /\ ops' = ops /\ nextFrag' = nextFrag /\ tree' = tree
  BY <1>1, MasterStill
<1> DEFINE s == Filling
           f2 == slice[1].flushed
           s2 == AdvanceTo(s, f2)
<1>5. /\ s \in Store /\ (fresh = <<>> => s = store) /\ (fresh # <<>> => s.inst # store.inst)
      /\ s.inst \in 0..epoch /\ (s.inst # 0 => hist[s.inst] \in Seq(Op))
  BY FillingFacts
<1>6. f2 = s.flushed /\ Missing = {}
  BY <1>1, <1>3 DEF Pull
<1>7. /\ s.inst # 0 /\ (conn.up => conn.inst = s.inst)
      /\ \E d \in CommitPoints(hist[s.inst]) : Mirrors(hist[s.inst], s, d) /\ Flows(d)
  BY <1>1, <1>3 DEF InStep, Resyncing
<1>8. PICK d \in CommitPoints(hist[s.inst]) : Mirrors(hist[s.inst], s, d) /\ Flows(d)
  BY <1>7
<1>9. store' = s2 /\ Filling' = s2
  BY <1>1 DEF Announce, Filling
<1> HIDE DEF s, f2, s2
<1>10. /\ s2 \in Store /\ Mirrors(hist[s.inst], s2, d)
       /\ s2.inst = s.inst /\ s2.flushed = s.flushed
       /\ s2.version = s.version /\ s2.overlay = s.overlay /\ s2.frontier >= s.frontier
  <2>1. f2 \in Nat /\ f2 <= Later(s.flushed, d)
    BY <1>5, <1>6, <1>7, <1>8, MirrorsPoint
  <2> QED  BY <1>5, <1>8, <2>1, AdvanceMirrors DEF s2
<1>11. store'.inst = store.inst => NotBehind(store', store)
  BY <1>5, <1>9, <1>10, SameNotBehind
<1>12. EdgeTypes'
  BY <1>1, <1>3, <1>4, <1>9, <1>10 DEF EdgeTypes
<1>13. Connection'
  BY <1>1, <1>3 DEF Connection
<1>14. Copies'
  <2> SUFFICES ASSUME s2.inst = epoch, NEW id \in {t.id : t \in slice[1].tables}
               PROVE  /\ id \in 1..(nextFrag - 1)
                      /\ files'[id].whole => \A f \in tree : f.id = id => files'[id].recs = f.recs
    BY <1>1, <1>4, <1>9 DEF Copies
  <2>1. id \in DOMAIN files /\ files'[id] = files[id]
    BY <1>1, <1>6 DEF Missing
  <2> QED  BY <1>3, <1>10, <2>1 DEF Copies, s
<1>15. Pull'
  BY <1>1 DEF Pull
<1>16. Instances'
  <2>1. s.inst <= epoch
    BY <1>2, <1>5
  <2>2. s.inst = epoch => s.flushed <= flushed
    BY <1>3 DEF Instances, s
  <2> QED  BY <1>1, <1>9, <1>10, <2>1, <2>2 DEF Instances
<1>17. Flows(d)'
  BY <1>1, <1>4, <1>8 DEF Flows
<1>18. InStep'
  BY <1>1, <1>7, <1>9, <1>10, <1>17 DEF InStep
<1>19. Served'
  BY <1>1, <1>9, <1>10 DEF Served
<1>20. Resync'
  BY <1>1 DEF Resync, Resyncing
<1> QED  BY <1>4, <1>11, <1>12, <1>13, <1>14, <1>15, <1>16, <1>18, <1>19, <1>20 DEF EdgeShape

-----------------------------------------------------------------------------
(* The end of a stream, and the next one                                   *)

\* The driver is back where it opens a stream; it keeps its store.
LEMMA EdgeGivesUp ==
  ASSUME StreamInv, EdgeShape,
         UNCHANGED <<epoch, hist, published, flushed, treeVars, files, store, target>>,
         pc' = "open", fresh' = <<>>, conn' = NoConn,
         ~sub'.on /\ sub'.batch = <<>> /\ sub'.taken = <<>>
  PROVE  EdgeShape'
<1>1. EdgeTypes /\ Copies /\ Instances /\ Served
  BY DEF EdgeShape
<1>2. MasterTree' /\ ops' = ops /\ nextFrag' = nextFrag /\ tree' = tree
  BY MasterStill
<1>3. Filling' = store
  BY DEF Filling
<1>4. store.inst = epoch => Filling = store
  <2>1. fresh # <<>> => store.inst < fresh[1].inst /\ fresh[1].inst <= epoch
    BY <1>1 DEF Instances
  <2>2. store.inst \in Nat /\ epoch \in Nat /\ (fresh # <<>> => fresh[1].inst \in Nat)
    BY <1>1, EdgeFacts DEF EdgeTypes, Store
  <2> QED  BY <2>1, <2>2 DEF Filling
<1>5. EdgeTypes'
  <2>1. NoConn \in Conn
    <3>1. <<>> \in Seq(Seq(Nat))
      OBVIOUS
    <3> QED  BY <3>1 DEF NoConn, Conn
  <2> QED  BY <1>1, <1>2, <2>1 DEF EdgeTypes
<1>6. Connection'
  BY DEF Connection, NoConn
<1>7. Copies'
  BY <1>1, <1>2, <1>3, <1>4 DEF Copies
<1>8. Instances'
  BY <1>1, <1>3, <1>4 DEF Instances
<1>9. Served'
  BY <1>1 DEF Served
<1>10. Pull' /\ InStep' /\ Resync'
  BY DEF Pull, InStep, Resync, Resyncing
<1> QED  BY <1>2, <1>5, <1>6, <1>7, <1>8, <1>9, <1>10 DEF EdgeShape

\* The driver reads the end of its stream.
LEMMA EdgeStreamEnds ==
  ASSUME StreamInv, EdgeShape, StreamEnds
  PROVE  EdgeShape'
<1>1. /\ UNCHANGED <<epoch, hist, published, flushed, sub, treeVars, files, store, fresh, target>>
      /\ pc = "run" /\ pc' = "open" /\ conn' = NoConn
      /\ \/ conn.frames # <<>> /\ Head(conn.frames) = LaggedFrame
         \/ conn.frames = <<>> /\ ~conn.up
  BY DEF StreamEnds, masterVars, streamVars
<1>2. fresh = <<>>
  BY <1>1 DEF EdgeShape, Instances
<1>3. Connection /\ conn.frames \in Seq(Seq(Nat))
  BY DEF EdgeShape, EdgeTypes, Conn
<1>4. ~sub.on
  <2>1. CASE conn.frames # <<>> /\ Head(conn.frames) = LaggedFrame
    <3> DEFINE S == Seq(Nat)
               u == conn.frames
    <3>1. u \in Seq(S) /\ u # <<>> /\ Head(u) = LaggedFrame
      BY <1>3, <2>1
    <3> HIDE DEF S, u
    <3>2. 1 \in 1..Len(u) /\ u[1] = LaggedFrame
      BY <3>1, EmptySeq, LenProperties, HeadTailProperties
    <3> QED  BY <1>3, <3>2 DEF Connection, u
  <2>2. CASE conn.frames = <<>> /\ ~conn.up
    BY <1>3, <2>2 DEF Connection
  <2> QED  BY <1>1, <2>1, <2>2
<1>5. ~sub'.on /\ sub'.batch = <<>> /\ sub'.taken = <<>>
  BY <1>1, <1>3, <1>4 DEF Connection
<1>6. /\ UNCHANGED <<epoch, hist, published, flushed, treeVars, files, store, target>>
      /\ pc' = "open" /\ fresh' = <<>> /\ conn' = NoConn
  BY <1>1, <1>2
<1> QED  BY <1>5, <1>6, EdgeGivesUp

\* A pull that can not end: a refresh gives up, a re-sync starts over.
LEMMA EdgePullFails ==
  ASSUME StreamInv, EdgeShape, PullFails
  PROVE  EdgeShape'
<1>1. /\ UNCHANGED <<epoch, hist, published, flushed, treeVars, files, store, target>>
      /\ pc \in {"pull", "snap", "fetch"} /\ slice' = <<>> /\ fresh' = <<>> /\ ret' = "resync"
      /\ IF ret = "refresh" THEN pc' = "run" /\ UNCHANGED <<conn, sub>>
                            ELSE pc' = "open" /\ conn' = NoConn /\ sub' = NoSub
  BY DEF PullFails
<1>2. CASE ret # "refresh"
  <2>1. ~sub'.on /\ sub'.batch = <<>> /\ sub'.taken = <<>> /\ pc' = "open" /\ conn' = NoConn
    BY <1>1, <1>2 DEF NoSub
  <2>2. /\ UNCHANGED <<epoch, hist, published, flushed, treeVars, files, store, target>>
        /\ fresh' = <<>>
    BY <1>1
  <2> QED  BY <2>1, <2>2, EdgeGivesUp
<1>3. CASE ret = "refresh"
  <2>1. EdgeTypes /\ Connection /\ Copies /\ Instances /\ Served /\ InStep
    BY DEF EdgeShape
  <2>2. MasterTree' /\ ops' = ops /\ nextFrag' = nextFrag /\ tree' = tree
    BY <1>1, MasterStill
  <2>3. fresh = <<>> /\ ~Resyncing /\ pc' = "run" /\ UNCHANGED <<conn, sub>>
    BY <1>1, <1>3, <2>1 DEF Instances, Resyncing
  <2>4. Filling' = Filling /\ Filling = store
    BY <1>1, <2>3 DEF Filling
  <2>5. EdgeTypes' /\ Connection' /\ Copies'
    BY <1>1, <2>1, <2>2, <2>3, <2>4 DEF EdgeTypes, Connection, Copies
  <2>6. Pull' /\ Resync'
    BY <2>3 DEF Pull, Resync, Resyncing
  <2>7. Instances' /\ Served'
    BY <1>1, <2>1, <2>3, <2>4 DEF Instances, Served
  <2>8. InStep'
    <3>1. \A d : Flows(d)' <=> Flows(d)
      BY <1>1, <2>2, <2>3 DEF Flows
    <3> QED  BY <1>1, <2>1, <2>3, <2>4, <3>1 DEF InStep
  <2> QED  BY <2>2, <2>5, <2>6, <2>7, <2>8 DEF EdgeShape
<1> QED  BY <1>2, <1>3

\* The next stream begins at what is published, before anything is pulled.
LEMMA EdgeOpens ==
  ASSUME StreamInv, EdgeShape, Reopen \/ Reattach
  PROVE  EdgeShape'
<1>1. /\ UNCHANGED <<epoch, hist, published, flushed, treeVars, store, slice, target>>
      /\ published = visible /\ sub' = Subscription
      /\ pc = "open" /\ pc' = "pull" /\ ret' = "resync"
      /\ conn' = [inst |-> epoch, up |-> TRUE, frames |-> <<>>]
      /\ \/ store.inst = epoch /\ fresh' = <<>> /\ files' = files
         \/ store.inst # epoch /\ fresh' = <<NewStore(epoch)>> /\ files' = <<>>
  BY DEF Reopen, Reattach, Subscribes, CanSubscribe, AttachFiles
<1>2. /\ ops \in Seq(Op) /\ WholeIn(ops) /\ epoch \in Nat /\ epoch >= 1 /\ ops = hist[epoch]
      /\ published \in Nat /\ visible = Len(ops)
  BY EdgeFacts
<1>3. EdgeTypes /\ MasterTree /\ Copies /\ Instances /\ Served /\ flushed \in CommitPoints(ops)
  BY DEF EdgeShape, MasterTree
<1>4. MasterTree' /\ ops' = ops /\ nextFrag' = nextFrag /\ tree' = tree
  BY <1>1, MasterStill
<1>5. /\ Subscription.on /\ Subscription.batch = <<>> /\ Subscription.taken = <<>>
      /\ Subscription.queue = <<>>
  BY DEF Subscription, NoSub
<1>6. conn' \in Conn /\ conn'.up /\ conn'.inst = epoch /\ conn'.frames = <<>>
  <2>1. <<>> \in Seq(Seq(Nat))
    OBVIOUS
  <2> QED  BY <1>1, <1>2, <2>1 DEF Conn
<1>7. store \in Store /\ store.inst \in Nat /\ store.inst <= epoch
  BY <1>3 DEF EdgeTypes, Store, Instances
<1> DEFINE new == NewStore(epoch)
<1>8. new \in Store /\ new.inst = epoch /\ new.flushed = 0
  BY <1>2 DEF NewStore, Store
<1>9. Mirrors(ops, new, 0)
  BY <1>2, NewMirrors
<1> HIDE DEF new
<1>10. flushed \in Nat /\ flushed >= 0
  BY <1>2, <1>3, PointsAreNumbers
<1>11. \/ /\ store.inst = epoch /\ fresh' = <<>> /\ files' = files /\ Filling' = store
          /\ store.inst = Filling.inst /\ Filling = store
       \/ /\ store.inst < epoch /\ fresh' = <<new>> /\ fresh' # <<>> /\ fresh'[1] = new /\ files' = <<>>
          /\ Filling' = new
  <2>1. fresh = <<>>
    BY <1>1, <1>3 DEF Instances
  <2>2. CASE store.inst = epoch /\ fresh' = <<>> /\ files' = files
    <3>1. store' = store /\ fresh' = <<>> /\ Filling = store
      BY <1>1, <2>1, <2>2 DEF Filling
    <3>2. Filling' = store
      BY <3>1 DEF Filling
    <3> QED  BY <2>2, <3>1, <3>2
  <2>3. CASE store.inst # epoch /\ fresh' = <<new>> /\ files' = <<>>
    <3>1. store.inst < epoch
      BY <1>2, <1>7, <2>3
    <3> QED  BY <2>3, <3>1 DEF Filling
  <2> QED  BY <1>1, <2>2, <2>3 DEF new
<1>12. EdgeTypes'
  BY <1>1, <1>3, <1>4, <1>6, <1>8, <1>11 DEF EdgeTypes
<1>13. Connection'
  <2>1. Len(conn'.frames) = 0
    BY <1>6
  <2> QED  BY <1>1, <1>5, <1>6, <2>1 DEF Connection
<1>14. Copies'
  BY <1>1, <1>3, <1>4, <1>11 DEF Copies
<1>15. Pull'
  BY <1>1 DEF Pull
<1>16. Instances'
  <2>1. epoch <= epoch
    BY <1>2
  <2> QED  BY <1>1, <1>3, <1>8, <1>10, <1>11, <2>1 DEF Instances
<1>17. Served'
  BY <1>1, <1>3 DEF Served
<1>18. InStep'
  BY <1>1 DEF InStep, Resyncing
<1>19. Resync'
  <2>1. \E d \in CommitPoints(ops) : Mirrors(ops, Filling', d)
    <3>1. 0 \in CommitPoints(ops)
      BY <1>2, PointsAreNumbers
    <3> QED  BY <1>2, <1>3, <1>9, <1>11, <3>1 DEF Served
  <2>2. PICK d \in CommitPoints(ops) : Mirrors(ops, Filling', d)
    BY <2>1
  <2>3. PICK p \in CommitPoints(ops) : p = published /\ d <= p /\ p <= published
    <3>1. d \in 0..Len(ops) /\ Len(ops) \in Nat
      BY <1>2, PointsAreEnds
    <3>2. published \in CommitPoints(ops) /\ d <= published /\ published <= published
      BY <1>1, <1>2, <1>3, <3>1 DEF MasterTree
    <3> QED  BY <3>2
  <2>4. Flows(p)'
    <3>1. /\ ops \in Seq(Op) /\ p \in CommitPoints(ops) /\ conn'.frames = <<>>
          /\ sub'.batch = <<>> /\ sub'.taken = <<>> /\ sub'.queue = <<>>
      BY <1>1, <1>2, <1>5, <1>6
    <3>2. Flowing(ops, conn', sub', p, p)
      BY <3>1, FlowsFresh
    <3>3. published' = p
      BY <1>1, <2>3
    <3> QED  BY <1>4, <3>2, <3>3 DEF Flows
  <2>5. Filling'.inst = epoch
    BY <1>8, <1>11
  <2>6. SUFFICES /\ Filling'.inst # 0 /\ conn'.inst = Filling'.inst
                 /\ \E d1, p1 \in CommitPoints(ops) :
                      Mirrors(ops, Filling', d1) /\ d1 <= p1 /\ p1 <= published /\ Flows(p1)'
    BY <1>1, <1>4 DEF Resync, Resyncing
  <2>7. Filling'.inst # 0 /\ conn'.inst = Filling'.inst
    BY <1>2, <1>6, <2>5
  <2>8. Mirrors(ops, Filling', d) /\ d <= p /\ p <= published /\ Flows(p)'
    BY <2>2, <2>3, <2>4
  <2> QED  BY <2>7, <2>8, Zenon
<1> QED  BY <1>4, <1>12, <1>13, <1>14, <1>15, <1>16, <1>17, <1>18, <1>19 DEF EdgeShape

-----------------------------------------------------------------------------
(* The driver applies the stream                                           *)

\* The last commit a batch carries is no later than where the batch ends.
LEMMA TargetBounded ==
  ASSUME NEW h \in Seq(Op), WholeIn(h), NEW d \in CommitPoints(h), NEW m \in CommitPoints(h),
         NEW B, B = Entries(h, d, m), B # {}
  PROVE  Max({h[s].commit : s \in B}) \in Nat /\ Max({h[s].commit : s \in B}) <= m
<1> DEFINE C == {h[s].commit : s \in B}
<1>1. /\ d \in Nat /\ m \in 0..Len(h) /\ Len(h) \in Nat
  BY PointsAreNumbers, PointsAreEnds
<1>2. ASSUME NEW s \in B PROVE h[s].commit \in 1..m
  <2>1. s \in (d + 1)..m /\ s \in 1..Len(h) /\ m \in 1..Len(h)
    BY <1>1 DEF Entries
  <2>2. h[m].commit = m /\ h[s].commit \in s..Len(h) /\ \A t \in s..h[s].commit : h[t].commit = h[s].commit
    BY <1>1, <2>1, PointsAreEnds, SMTT(30) DEF WholeIn
  <2>3. CASE h[s].commit <= m
    BY <1>1, <2>1, <2>2, <2>3
  <2>4. CASE ~(h[s].commit <= m)
    <3>1. m \in s..h[s].commit
      BY <1>1, <2>1, <2>2, <2>4
    <3> QED  BY <1>1, <2>1, <2>2, <3>1
  <2> QED  BY <2>3, <2>4
<1>3. C \in SUBSET (1..m) /\ C # {} /\ m \in Nat
  BY <1>1, <1>2
<1> HIDE DEF C
<1>4. Max(C) \in C
  BY <1>3, MaxIsGreatest
<1>5. ASSUME NEW x \in C PROVE x \in Nat /\ x <= m
  <2>1. x \in 1..m
    BY <1>3
  <2> QED  BY <1>3, <2>1
<1>6. Max(C) \in Nat /\ Max(C) <= m
  BY <1>4, <1>5
<1> QED  BY <1>6 DEF C

\* apply_stream: the batch that follows what the store has.
LEMMA EdgeApplies ==
  ASSUME StreamInv, EdgeShape, ApplyBatch
  PROVE  EdgeShape' /\ (~store.phantom => NotBehind(store', store))
<1> DEFINE u == conn.frames
           B == Range(Head(u))
           new == {Record(conn.inst, s) : s \in B}
<1>1. /\ UNCHANGED <<epoch, hist, published, flushed, sub, treeVars, fresh, files, slice, ret>>
      /\ pc = "run" /\ pc' = "advance" /\ u # <<>> /\ Head(u) # LaggedFrame
      /\ store' = [store EXCEPT !.overlay = @ \cup new]
      /\ target' = Max({hist[conn.inst][s].commit : s \in B})
      /\ conn' = [conn EXCEPT !.frames = Tail(@)]
  BY DEF ApplyBatch, masterVars, streamVars
<1>2. /\ ops \in Seq(Op) /\ WholeIn(ops) /\ epoch \in Nat /\ epoch >= 1 /\ ops = hist[epoch]
      /\ published \in 0..Len(ops) /\ published \in Nat
  BY EdgeFacts
<1>3. /\ EdgeTypes /\ Connection /\ Copies /\ Pull /\ Instances /\ Served /\ InStep /\ Resync
  BY DEF EdgeShape
<1>4. MasterTree' /\ ops' = ops /\ nextFrag' = nextFrag /\ tree' = tree
  BY <1>1, MasterStill
<1>5. fresh = <<>> /\ fresh' = <<>> /\ Filling = store /\ Filling' = store'
  BY <1>1, <1>3 DEF Instances, Filling
<1>6. conn \in Conn /\ conn.up /\ conn.inst = epoch /\ u \in Seq(Seq(Nat)) /\ store \in Store
  BY <1>1, <1>3 DEF Connection, EdgeTypes, Conn
<1>7. store.inst = epoch /\ \E d \in CommitPoints(ops) : Mirrors(ops, store, d) /\ Flows(d)
  BY <1>1, <1>2, <1>3, <1>5, <1>6 DEF InStep, Resyncing
<1>8. PICK d \in CommitPoints(ops) : Mirrors(ops, store, d) /\ Flows(d)
  BY <1>7
<1> HIDE DEF u, B, new
<1>9. /\ conn' \in Conn /\ conn'.inst = epoch /\ conn'.up /\ conn'.frames = Tail(u)
      /\ u = conn.frames
  <2>1. Tail(u) \in Seq(Seq(Nat))
    BY <1>1, <1>6
  <2> QED  BY <1>1, <1>6, <2>1 DEF Conn, u
<1>10. PICK m \in CommitPoints(ops) :
         d <= m /\ m <= published /\ Range(Head(u)) = Entries(ops, d, m)
         /\ Flowing(ops, conn', sub, published, m)
  <2>1. /\ ops \in Seq(Op) /\ conn \in Conn /\ published \in Nat
        /\ Flowing(ops, conn, sub, published, d)
        /\ conn.up /\ conn.frames # <<>> /\ conn'.frames = Tail(conn.frames)
    BY <1>1, <1>2, <1>6, <1>8, <1>9 DEF Flows
  <2>2. \E m \in CommitPoints(ops) :
          /\ d <= m /\ m <= published /\ Range(Head(conn.frames)) = Entries(ops, d, m)
          /\ Flowing(ops, conn', sub, published, m)
    BY <2>1, FlowsApplied
  <2> QED  BY <1>9, <2>2
<1>11. B = Entries(ops, d, m) /\ new = Records(ops, d, m)
  <2>1. B = Entries(ops, d, m)
    BY <1>10 DEF B
  <2>2. \A s : Record(conn.inst, s) = RecordAt(ops, s)
    BY <1>2, <1>6 DEF Record, RecordAt
  <2> QED  BY <2>1, <2>2 DEF new, Records
<1>12. B # {}
  <2> DEFINE S == Seq(Nat)
  <2>1. Head(u) \in S
    <3>1. u \in Seq(S) /\ u # <<>>
      BY <1>1, <1>6
    <3> HIDE DEF S
    <3> QED  BY <3>1
  <2>2. Head(u) \in Seq(Nat) /\ Head(u) # <<>>
    BY <1>1, <2>1 DEF LaggedFrame
  <2> HIDE DEF S
  <2>3. 1 \in DOMAIN Head(u)
    BY <2>2, LenProperties, EmptySeq
  <2> QED  BY <2>3 DEF B, Range
<1>13. target' \in Nat /\ target' <= m
  <2>1. hist[conn.inst] = ops
    BY <1>2, <1>6
  <2> QED  BY <1>1, <1>2, <1>11, <1>12, <2>1, TargetBounded
<1>14. d \in Nat /\ m \in Nat /\ m \in 0..Len(ops)
  BY <1>2, PointsAreEnds, PointsAreNumbers
<1>15. new \subseteq Rec
  <2>1. Entries(ops, d, m) \subseteq Entries(ops, 0, m)
    BY <1>14 DEF Entries
  <2>2. Records(ops, d, m) \subseteq Records(ops, 0, m)
    BY <2>1 DEF Records
  <2> QED  BY <1>2, <1>11, <1>14, <2>2, RecordsTyped
<1>16. /\ store' \in Store /\ store'.inst = epoch /\ store'.flushed = store.flushed
       /\ store'.version = store.version /\ store'.frontier = store.frontier
       /\ store'.phantom = store.phantom
       /\ store'.overlay = store.overlay \cup Records(ops, d, m) /\ store.frontier \in Nat
  <2>1. store.overlay \cup new \subseteq Rec
    BY <1>6, <1>15 DEF Store
  <2> QED  BY <1>1, <1>6, <1>7, <1>11, <2>1 DEF Store
<1>17. Mirrors(ops, store', m) /\ Later(store.flushed, d) <= Later(store.flushed, m)
  BY <1>2, <1>8, <1>10, <1>16, ApplyMirrors
<1>18. m <= Later(store'.flushed, m)
  BY <1>2, <1>17, MirrorsPoint
<1>19. target' <= Later(store'.flushed, m)
  <2>1. Later(store'.flushed, m) \in Nat
    BY <1>2, <1>17, MirrorsPoint
  <2> QED  BY <1>13, <1>14, <1>18, <2>1
<1>20. ~store.phantom => NotBehind(store', store)
  <2>1. store'.frontier >= store.frontier
    BY <1>16
  <2>2. Later(store.flushed, d) <= Later(store'.flushed, m)
    BY <1>16, <1>17
  <2>3. Inherits(store', store)
    BY <1>16 DEF Inherits
  <2> QED  BY <1>2, <1>8, <1>16, <1>17, <2>1, <2>2, <2>3, LaterNotBehind
<1>21. EdgeTypes'
  BY <1>3, <1>4, <1>5, <1>9, <1>13, <1>16 DEF EdgeTypes
<1>22. Connection'
  <2>1. sub'.on => \A i \in 1..Len(conn'.frames) : conn'.frames[i] # LaggedFrame
    <3> DEFINE S == Seq(Nat)
    <3>1. u \in Seq(S) /\ u # <<>>
      BY <1>1, <1>6
    <3> HIDE DEF S
    <3>2. \A i \in 1..Len(Tail(u)) : i + 1 \in 1..Len(u) /\ Tail(u)[i] = u[i + 1]
      BY <3>1, HeadTailProperties, LenProperties
    <3>3. sub.on => \A i \in 1..Len(u) : u[i] # LaggedFrame
      BY <1>3, <1>9 DEF Connection
    <3> QED  BY <1>1, <1>9, <3>2, <3>3
  <2> QED  BY <1>1, <1>3, <1>9, <2>1 DEF Connection
<1>23. Copies'
  BY <1>1, <1>3, <1>4, <1>5, <1>7, <1>16 DEF Copies
<1>24. Pull'
  BY <1>1 DEF Pull
<1>25. Instances'
  BY <1>1, <1>3, <1>5, <1>7, <1>16 DEF Instances
<1>26. hist'[store'.inst] = ops
  BY <1>1, <1>2, <1>16
<1>27. Served'
  BY <1>10, <1>17, <1>26 DEF Served
<1>28. InStep'
  <2> SUFFICES /\ store'.inst # 0 /\ conn'.inst = store'.inst
               /\ \E e \in CommitPoints(ops) :
                    Mirrors(ops, store', e) /\ Flows(e)' /\ target' <= Later(store'.flushed, e)
    BY <1>5, <1>26 DEF InStep
  <2>1. Flows(m)'
    BY <1>1, <1>4, <1>10 DEF Flows
  <2> QED  BY <1>2, <1>9, <1>10, <1>16, <1>17, <1>19, <2>1
<1>29. Resync'
  BY <1>1 DEF Resync, Resyncing
<1> QED  BY <1>4, <1>20, <1>21, <1>22, <1>23, <1>24, <1>25, <1>27, <1>28, <1>29 DEF EdgeShape

\* Between two events the driver asks for nothing, or for a refresh.
LEMMA EdgeAdvances ==
  ASSUME StreamInv, EdgeShape, Advance
  PROVE  EdgeShape' /\ NotBehind(store', store)
<1>1. /\ UNCHANGED <<epoch, hist, published, flushed, sub, treeVars, fresh, files, conn, slice>>
      /\ pc = "advance" /\ store' = AdvanceTo(store, target) /\ target' = 0
      /\ pc' = "run" \/ (pc' = "pull" /\ ret' = "refresh")
  BY DEF Advance, masterVars, streamVars, RunOrRefresh
<1>2. /\ ops \in Seq(Op) /\ epoch \in Nat
  BY EdgeFacts
<1>3. /\ EdgeTypes /\ Connection /\ Copies /\ Instances /\ InStep
  BY DEF EdgeShape
<1>4. MasterTree' /\ ops' = ops /\ nextFrag' = nextFrag /\ tree' = tree
  BY <1>1, MasterStill
<1>5. fresh = <<>> /\ fresh' = <<>> /\ Filling = store /\ Filling' = store'
  BY <1>1, <1>3 DEF Instances, Filling
<1>6. ~Resyncing /\ ~Resyncing' /\ pc' \in {"run", "pull"}
  BY <1>1 DEF Resyncing
<1>7. store \in Store /\ store.inst <= epoch /\ target \in Nat
  BY <1>3 DEF EdgeTypes, Instances
<1>8. /\ store.inst # 0 /\ (conn.up => conn.inst = store.inst)
      /\ \E d \in CommitPoints(hist[store.inst]) :
           /\ Mirrors(hist[store.inst], store, d) /\ Flows(d)
           /\ store.phantom \/ target <= Later(store.flushed, d)
  BY <1>1, <1>3, <1>5, <1>6 DEF InStep
<1>9. PICK d \in CommitPoints(hist[store.inst]) :
        /\ Mirrors(hist[store.inst], store, d) /\ Flows(d)
        /\ store.phantom \/ target <= Later(store.flushed, d)
  BY <1>8
<1>10. /\ store' \in Store /\ Mirrors(hist[store.inst], store', d)
       /\ store'.inst = store.inst /\ store'.flushed = store.flushed
       /\ store'.version = store.version /\ store'.overlay = store.overlay
       /\ store'.frontier >= store.frontier
  BY <1>1, <1>7, <1>9, AdvanceMirrors
<1>11. NotBehind(store', store)
  BY <1>7, <1>10, SameNotBehind
<1>12. EdgeTypes'
  BY <1>1, <1>3, <1>4, <1>5, <1>10 DEF EdgeTypes
<1>13. Connection'
  BY <1>1, <1>3 DEF Connection
<1>14. Copies'
  BY <1>1, <1>3, <1>4, <1>5, <1>10 DEF Copies
<1>15. Pull'
  BY <1>6 DEF Pull
<1>16. Instances'
  BY <1>1, <1>3, <1>5, <1>10 DEF Instances
<1>17. Flows(d)'
  BY <1>1, <1>4, <1>9 DEF Flows
<1>18. hist'[store'.inst] = hist[store.inst]
  BY <1>1, <1>10
<1>19. Served'
  BY <1>9, <1>10, <1>18 DEF Served
<1>20. InStep'
  <2> SUFFICES /\ store'.inst # 0 /\ (conn.up => conn.inst = store'.inst)
               /\ \E e \in CommitPoints(hist[store.inst]) :
                    Mirrors(hist[store.inst], store', e) /\ Flows(e)'
    BY <1>1, <1>5, <1>6, <1>18 DEF InStep
  <2> QED  BY <1>8, <1>9, <1>10, <1>17
<1>21. Resync'
  BY <1>6 DEF Resync
<1> QED  BY <1>4, <1>11, <1>12, <1>13, <1>14, <1>15, <1>16, <1>19, <1>20, <1>21 DEF EdgeShape

\* A ping on an idle connection; a refresh may be due.
LEMMA EdgeIdles ==
  ASSUME StreamInv, EdgeShape, Ping
  PROVE  EdgeShape'
<1>1. /\ UNCHANGED <<epoch, hist, published, flushed, sub, treeVars, store, fresh, files, conn, slice, target>>
      /\ pc = "run"
      /\ pc' = "run" \/ (pc' = "pull" /\ ret' = "refresh")
  BY DEF Ping, masterVars, streamVars, RunOrRefresh
<1>2. /\ EdgeTypes /\ Connection /\ Copies /\ Instances /\ Served /\ InStep
  BY DEF EdgeShape
<1>3. MasterTree' /\ ops' = ops /\ nextFrag' = nextFrag /\ tree' = tree
  BY <1>1, MasterStill
<1>4. fresh = <<>> /\ Filling' = Filling
  BY <1>1, <1>2 DEF Instances, Filling
<1>5. ~Resyncing /\ ~Resyncing' /\ pc' \in {"run", "pull"}
  BY <1>1 DEF Resyncing
<1>6. EdgeTypes' /\ Connection' /\ Copies'
  BY <1>1, <1>2, <1>3, <1>4 DEF EdgeTypes, Connection, Copies
<1>7. Instances' /\ Served'
  BY <1>1, <1>2, <1>4 DEF Instances, Served
<1>8. InStep'
  <2>1. \A d : Flows(d)' <=> Flows(d)
    BY <1>1, <1>3 DEF Flows
  <2> QED  BY <1>1, <1>2, <1>4, <1>5, <2>1 DEF InStep
<1>9. Pull' /\ Resync'
  BY <1>5 DEF Pull, Resync
<1> QED  BY <1>3, <1>6, <1>7, <1>8, <1>9 DEF EdgeShape

-----------------------------------------------------------------------------
(* The theorems about the replica                                          *)

\* Nothing is attached at first.
LEMMA EdgeStarts ==
  ASSUME Init
  PROVE  EdgeInv
<1>1. StreamInv /\ Attached
  BY ConsumersStart
<1>2. /\ ops \in Seq(Op) /\ ops = <<>>
  BY <1>1, EdgeFacts DEF Init, StreamInit, ops
<1>3. /\ epoch = 1 /\ published = 0 /\ flushed = 0 /\ sub = NoSub
      /\ tree = {} /\ nextFrag = 1 /\ store = NoStore /\ fresh = <<>> /\ files = <<>>
      /\ conn = NoConn /\ pc = "open" /\ target = 0
  BY DEF Init, StreamInit, EdgeInit
<1>4. /\ NoStore \in Store /\ NoStore.inst = 0
  BY DEF NoStore, NewStore, Store
<1>5. NoConn \in Conn
  <2>1. <<>> \in Seq(Seq(Nat))
    OBVIOUS
  <2> QED  BY <2>1 DEF NoConn, Conn
<1>6. EdgeTypes
  BY <1>3, <1>4, <1>5 DEF EdgeTypes
<1>7. MasterTree
  <2>1. 0 \in CommitPoints(ops)
    BY <1>2, PointsAreNumbers
  <2>2. 0 \in Nat /\ 0 <= 0
    OBVIOUS
  <2>3. Recs(tree) = {}
    BY <1>3, OneMore
  <2>4. Covers(ops, 0, Recs(tree))
    BY <2>3, CoversNothing
  <2> QED  BY <1>3, <2>1, <2>4 DEF MasterTree
<1>8. Connection
  BY <1>3 DEF Connection, NoConn, NoSub
<1>9. Filling.inst = 0
  BY <1>3, <1>4 DEF Filling
<1>10. Copies /\ Pull
  BY <1>3, <1>9 DEF Copies, Pull
<1>11. Instances /\ Served /\ InStep /\ Resync
  BY <1>3, <1>4, <1>9 DEF Instances, Served, InStep, Resync, Resyncing
<1> QED  BY <1>1, <1>3, <1>4, <1>6, <1>7, <1>8, <1>10, <1>11 DEF EdgeInv, EdgeShape

\* A step of the driver; only four of its steps touch the attached store.
LEMMA EdgeDriverSteps ==
  ASSUME StreamInv, EdgeShape, EdgeDriver
  PROVE  EdgeShape' /\ (store'.inst = store.inst /\ ~store.phantom => store' = store \/ NotBehind(store', store))
<1>1. CASE ApplyBatch \/ Advance
  BY <1>1, EdgeApplies, EdgeAdvances
<1>2. CASE Install \/ Announce
  BY <1>2, EdgeInstalls, EdgeAnnounces
<1>3. CASE StreamEnds
  BY <1>3, EdgeStreamEnds DEF StreamEnds
<1>4. CASE Reopen \/ Reattach
  BY <1>4, EdgeOpens DEF Reopen, Reattach
<1>5. CASE PullFlushes \/ PullSnapshot
  BY <1>5, EdgeAsks DEF PullFlushes, PullSnapshot
<1>6. CASE Fetch
  BY <1>6, EdgeFetches DEF Fetch
<1>7. CASE FetchGone \/ FetchTorn
  BY <1>7, EdgeFetchFails DEF FetchGone, FetchTorn
<1>8. CASE PullFails
  BY <1>8, EdgePullFails DEF PullFails
<1> QED  BY <1>1, <1>2, <1>3, <1>4, <1>5, <1>6, <1>7, <1>8 DEF EdgeDriver

\* Every step keeps the invariant, and a store that stays attached is not behind after it.
LEMMA EdgeStep ==
  ASSUME EdgeInv, [Next]_vars
  PROVE  EdgeInv' /\ (store'.inst = store.inst /\ ~store.phantom => store' = store \/ NotBehind(store', store))
<1>1. StreamInv /\ Attached
  BY DEF EdgeInv
<1>2. StreamInv' /\ Attached' /\ mode' = mode
  <2>1. mode' = mode
    BY DEF vars, Next, Writer, Publisher, Collector, DirectUser, EdgeReads, Alone, EdgeFlush,
           EdgeFault, EdgeForwards, EdgeDrives, EdgePings, WithEdge, JournalRuns, JournalEvent,
           WithJournal, FeedRuns, WithFeed
  <2> QED  BY <1>1, <2>1, ConsumersStep, StreamStep
<1>3. CASE UNCHANGED vars
  <2>1. UNCHANGED <<epoch, hist, published, flushed, sub, edgeVars, mode>>
    BY <1>3 DEF vars, streamVars
  <2>2. ops' = ops /\ Filling' = Filling /\ store' = store
    BY <2>1 DEF ops, Filling, edgeVars
  <2>3. EdgeShape => EdgeShape'
    BY <2>1, <2>2
       DEF EdgeShape, edgeVars, EdgeTypes, MasterTree, Connection, Copies, Pull, Instances, Served,
           InStep, Resync, Resyncing, Flows, Missing, Material, Obtainable, Copied, Recs
  <2> QED  BY <1>2, <2>2, <2>3 DEF EdgeInv
<1>4. CASE mode # "edge" /\ Next
  <2>1. store' = store
    BY <1>4 DEF Next, Writer, Publisher, Collector, DirectUser, EdgeReads, Alone, EdgeFlush,
           EdgeFault, EdgeForwards, EdgeDrives, EdgePings, WithEdge, JournalRuns, JournalEvent,
           WithJournal, FeedRuns, WithFeed, edgeVars
  <2> QED  BY <1>2, <1>4, <2>1 DEF EdgeInv
<1>5. CASE mode = "edge" /\ Next
  <2>1. EdgeShape
    BY <1>5 DEF EdgeInv
  <2> SUFFICES EdgeShape' /\ (store'.inst = store.inst /\ ~store.phantom => store' = store \/ NotBehind(store', store))
    BY <1>2, <1>5 DEF EdgeInv
  <2>2. CASE Writer
    <3>1. \E g \in WholeGroups : Commit(g)
      BY <1>1, <2>2, WriterCommits
    <3>2. UNCHANGED edgeVars
      BY <2>2 DEF Writer, Alone
    <3>3. store' = store
      BY <3>2 DEF edgeVars
    <3> QED  BY <1>1, <1>2, <2>1, <3>1, <3>2, <3>3, EdgeWrites
  <2>3. CASE Publisher
    <3>1. Publish /\ UNCHANGED edgeVars
      BY <2>3 DEF Publisher, Alone
    <3>2. store' = store
      BY <3>1 DEF edgeVars
    <3> QED  BY <1>1, <2>1, <3>1, <3>2, EdgePublishes
  <2>4. CASE EdgeReads
    <3>1. (Drain \/ Resolve) /\ UNCHANGED edgeVars
      BY <2>4 DEF EdgeReads, Alone
    <3>2. store' = store
      BY <3>1 DEF edgeVars
    <3> QED  BY <1>1, <2>1, <3>1, <3>2, EdgeReading
  <2>5. CASE EdgeFlush
    <3>1. FlushTree /\ store' = store
      BY <2>5 DEF EdgeFlush, FlushTree, driverVars
    <3> QED  BY <1>1, <2>1, <3>1, EdgeFlushes
  <2>6. CASE EdgeFault
    <3>1. CASE CompactTree
      <4>1. store' = store
        BY <3>1 DEF CompactTree, driverVars
      <4> QED  BY <1>1, <2>1, <3>1, <4>1, EdgeCompacts
    <3>2. CASE Break
      <4>1. store' = store
        BY <3>2 DEF Break
      <4> QED  BY <1>1, <2>1, <3>2, <4>1, EdgeForwarding
    <3>3. ASSUME NEW cut \in CommitPoints(ops), Remint(cut)
          PROVE  EdgeShape' /\ store' = store
      <4>1. store' = store
        BY <3>3 DEF Remint
      <4> QED  BY <1>1, <2>1, <3>3, <4>1, EdgeReminted
    <3>4. ASSUME NEW cut \in CommitPoints(ops), MasterCrash(cut)
          PROVE  EdgeShape' /\ (store'.inst = store.inst => store' = store)
      BY <1>1, <2>1, <3>4, EdgeCrashed
    <3> QED  BY <2>6, <3>1, <3>2, <3>3, <3>4 DEF EdgeFault, EdgeDisturbances
  <2>7. CASE EdgeForwards
    <3>1. (Forward \/ ForwardLagged) /\ store' = store
      BY <2>7 DEF EdgeForwards, EdgeServer, Forward, ForwardLagged
    <3> QED  BY <1>1, <2>1, <3>1, EdgeForwarding
  <2>8. CASE EdgeDrives
    BY <1>1, <2>1, <2>8, EdgeDriverSteps DEF EdgeDrives
  <2>9. CASE EdgePings
    <3>1. Ping /\ store' = store
      BY <2>9 DEF EdgePings, Ping
    <3> QED  BY <1>1, <2>1, <3>1, EdgeIdles
  <2>10. ~Collector /\ ~DirectUser /\ ~JournalRuns /\ ~JournalEvent /\ ~FeedRuns
    BY <1>5 DEF Collector, DirectUser, JournalRuns, JournalEvent, WithJournal, FeedRuns, WithFeed
  <2> QED  BY <1>5, <2>2, <2>3, <2>4, <2>5, <2>6, <2>7, <2>8, <2>9, <2>10 DEF Next
<1> QED  BY <1>3, <1>4, <1>5

\* Whatever the master, the network and the driver do, the store's records are those of a
\* commit of the master, but for revived keys and for what a crash undid, and what
\* the stream has yet to bring begins where they end (run_loop, compaction, open).
THEOREM EdgeAlways == Spec => []EdgeInv
<1>1. Init => EdgeInv
  BY EdgeStarts
<1>2. EdgeInv /\ [Next]_vars => EdgeInv'
  BY EdgeStep
<1> QED  BY <1>1, <1>2, PTL DEF Spec

\* Whatever slices, late batches, dropped tombstones, cuts, crashes, re-syncs and
\* re-attachments went before, a scan of the replica shows the master's state at one
\* commit no older than the frontier, but for the keys Revived names, unless the
\* master lost in a crash what it had streamed (EdgeStore::scan, apply_stream,
\* install_slice, run_loop, the tombstone rule of the compaction's merge).
THEOREM EdgeView == Spec => []EdgeViewIsACut
<1>1. EdgeInv => EdgeViewIsACut
  <2> SUFFICES ASSUME EdgeInv, store.inst # 0, ~store.phantom
               PROVE  \E c \in CommitPoints(hist[store.inst]) :
                        /\ c >= store.frontier
                        /\ \A k \in Scope : \/ Scanned(store, k).val = ValueAt(hist[store.inst], k, c)
                                           \/ Revived(store, hist[store.inst], k)
    BY DEF EdgeViewIsACut
  <2>1. StreamInv /\ EdgeShape
    BY DEF EdgeInv
  <2>2. hist[store.inst] \in Seq(Op) /\ store \in Store
    <3>1. epoch \in Nat /\ store.inst \in 1..epoch /\ store \in Store
      BY <2>1, EdgeFacts, FillingFacts
    <3> QED  BY <2>1, <3>1, EdgeFacts
  <2>3. PICK d \in CommitPoints(hist[store.inst]) : Mirrors(hist[store.inst], store, d)
    BY <2>1 DEF EdgeShape, Served
  <2> DEFINE c == Later(store.flushed, d)
  <2>4. c \in CommitPoints(hist[store.inst]) /\ c \in Nat
    BY <2>2, <2>3, MirrorsPoint
  <2>5. c >= store.frontier
    BY <2>2, <2>3, <2>4 DEF Mirrors, Store
  <2>6. \A k \in Scope : \/ Scanned(store, k).val = ValueAt(hist[store.inst], k, c)
                         \/ Revived(store, hist[store.inst], k)
    BY <2>2, <2>3, ScanShows
  <2> QED  BY <2>4, <2>5, <2>6
<1> QED  BY <1>1, EdgeAlways, PTL

\* While the replica stays attached to one master its frontier does not go back,
\* and what it shows of a key gives way only to a newer entry or to a deletion,
\* with the same exception (Frontier::advance_to, apply_stream, install_slice,
\* swap_attachment).
THEOREM EdgeStaysForward == Spec => EdgeNeverGoesBack
<1>1. EdgeInv /\ [Next]_vars =>
        [store.inst = store'.inst /\ ~store.phantom =>
           /\ store'.frontier >= store.frontier
           /\ \A k \in Scope : \/ Scanned(store', k).seq >= Scanned(store, k).seq
                              \/ Scanned(store', k).val = Absent]_store
  BY EdgeStep DEF NotBehind
<1> QED  BY <1>1, EdgeAlways, PTL DEF Spec, EdgeNeverGoesBack
=============================================================================

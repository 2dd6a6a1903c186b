------------------------------- MODULE Cursors -------------------------------
(***************************************************************************)
(* Reading a view: the cursors over blocks, tables, runs and memtables,    *)
(* their merge, snapshot visibility in both directions, the prefetch       *)
(* window, the transaction's own writes laid over it, and the scan handle  *)
(* a WASM guest pulls batches from - while a writer goes on inserting into *)
(* the live memtable.  Point reads take the same structures apart.         *)
(*                                                                         *)
(* A user key is a number, an entry is [k, s, put]; the value of a put is  *)
(* named by its sequence number.  A block is a sequence of entries, a      *)
(* table of blocks, a run of tables.                                       *)
(***************************************************************************)
EXTENDS Integers, FiniteSets, Sequences, SequencesExt, FiniteSetsExt

CONSTANTS
    Keys,        \* user keys, from 1
    MaxOps,      \* bound: ops written before the scan
    MaxInserts,  \* bound: ops written while it runs
    BlockLen,    \* entries per block (block_size)
    Prefetch,    \* PREFETCH_ENTRIES
    Cuts,        \* <<older, flushed>>: where the history is cut into two runs and the memtable
    Snaps,       \* the snapshots scanned
    Overlays,    \* write sets of the transaction: key -> put?
    Caps,        \* the batch sizes the guest asks for
    MaxErrors    \* bound: reads that fail

ASSUME CursorsAssumption ==
    /\ Keys = 1..Cardinality(Keys)
    /\ {BlockLen, Prefetch} \subseteq Nat \ {0}
    /\ {MaxOps, MaxInserts, MaxErrors} \cup Caps \subseteq Nat
    /\ Snaps \subseteq 1..MaxOps
    /\ \A c \in Cuts : 0 <= c[1] /\ c[1] <= c[2] /\ c[2] <= MaxOps

Top == MaxOps + MaxInserts + 1   \* MAX_SEQNO
Infinity == Cardinality(Keys) + 1 \* no upper bound

VARIABLES
    mem,      \* the live memtable: a set of entries
    runs,     \* the pinned runs, newest first
    req,      \* the scan: snapshot, range, direction, overlay
    cur,      \* MergeIterator's children: the memtable's cursor, then one per run
    mvcc,     \* MvccForward or MvccReverse
    ready,    \* DbIterator's window; what is left of it
    txn,      \* TxnIter: overlay still to come, base_peek, done
    scan,     \* the guest's handle: pending entry, errored
    call,     \* the host call in progress
    seen,     \* history: what the guest was given or skipped
    told,     \* history: the guest was told the scan is over
    errors

viewVars == <<mem, runs, req>>
vars == <<mem, runs, req, cur, mvcc, ready, txn, scan, call, seen, told, errors>>

-----------------------------------------------------------------------------
(* Order and layout                                                        *)

\* cmp_ikey: user keys ascending, newest first within a key.
Less(a, b) == a.k < b.k \/ (a.k = b.k /\ a.s > b.s)
Seek(k, s) == [k |-> k, s |-> s]
SameKey(a, b) == a.k = b.k /\ a.s = b.s

InOrder(E) == [i \in 1..Cardinality(E) |->
                 CHOOSE e \in E : Cardinality({f \in E : Less(f, e)}) = i - 1]

\* TableBuilder: a block is closed when it is full.
Blocks(es) ==
    [i \in 1..((Len(es) + BlockLen - 1) \div BlockLen) |->
        SubSeq(es, (i - 1) * BlockLen + 1, Min({i * BlockLen, Len(es)}))]

\* A run is cut into tables at user-key boundaries, "width" keys apart.
RunOf(E, width) ==
    LET parts == {P \in {{e \in E : (e.k - 1) \div width = i} : i \in 0..Cardinality(Keys)} : P # {}}
        nth(i) == CHOOSE P \in parts :
                    Cardinality({Q \in parts : \A q \in Q, p \in P : q.k < p.k}) = i - 1
    IN  [i \in 1..Cardinality(parts) |-> Blocks(InOrder(nth(i)))]

\* The binary searches: the first index not "below", or one past the end.
LowerBound(below) ==
    LET n == Len(below)
        f[lo \in 1..(n + 1), hi \in 1..(n + 1)] ==
          IF lo >= hi THEN lo
          ELSE LET mid == (lo + hi) \div 2
               IN  IF below[mid] THEN f[mid + 1, hi] ELSE f[lo, mid]
    IN  f[1, n + 1]

-----------------------------------------------------------------------------
(* Cursors.  A table cursor is [b, p], a run cursor [t, b, p].             *)

Invalid == [t |-> 0, b |-> 0, p |-> 0]
Valid(c) == c.t # 0
At(t, b, p) == [t |-> t, b |-> b, p |-> p]

FirstOf(run, t) == IF t \in DOMAIN run THEN At(t, 1, 1) ELSE Invalid
LastOf(run, t) ==
    IF t \in DOMAIN run THEN At(t, Len(run[t]), Len(Last(run[t]))) ELSE Invalid
LastEntry(table) == Last(Last(table))

BlockSeek(block, x) == LowerBound([i \in DOMAIN block |-> Less(block[i], x)])
\* BlockIter::seek_for_prev; 0 is before the block.
BlockSeekForPrev(block, x) ==
    LET lb == BlockSeek(block, x)
    IN  IF lb <= Len(block) /\ SameKey(block[lb], x) THEN lb ELSE lb - 1

\* The index searched by user key: versions of one key can be in two blocks.
BlockForKey(table, x) == LowerBound([i \in DOMAIN table |-> Last(table[i]).k < x.k])

BlockFor(table, x) == LowerBound([i \in DOMAIN table |-> Less(Last(table[i]), x)])
TableFor(run, x) == LowerBound([i \in DOMAIN run |-> Less(LastEntry(run[i]), x)])

\* RunIter::seek and TableIter::seek below it.
RunSeek(run, x) ==
    LET t == TableFor(run, x)
    IN  IF t > Len(run) THEN Invalid
        ELSE LET b == BlockFor(run[t], x) IN At(t, b, BlockSeek(run[t][b], x))

\* RunIter::seek_for_prev: step back over a block's and over a table's edge.
RunSeekForPrev(run, x) ==
    LET t == TableFor(run, x)
    IN  IF t > Len(run) THEN LastOf(run, Len(run))
        ELSE LET b == BlockFor(run[t], x)
                 p == BlockSeekForPrev(run[t][b], x)
             IN  CASE p > 0           -> At(t, b, p)
                   [] p = 0 /\ b > 1  -> At(t, b - 1, Len(run[t][b - 1]))
                   [] p = 0 /\ b = 1  -> LastOf(run, t - 1)

RunNext(run, c) ==
    CASE c.p < Len(run[c.t][c.b])                        -> At(c.t, c.b, c.p + 1)
      [] c.p = Len(run[c.t][c.b]) /\ c.b < Len(run[c.t]) -> At(c.t, c.b + 1, 1)
      [] c.p = Len(run[c.t][c.b]) /\ c.b = Len(run[c.t]) -> FirstOf(run, c.t + 1)

RunPrev(run, c) ==
    CASE c.p > 1             -> At(c.t, c.b, c.p - 1)
      [] c.p = 1 /\ c.b > 1  -> At(c.t, c.b - 1, Len(run[c.t][c.b - 1]))
      [] c.p = 1 /\ c.b = 1  -> LastOf(run, c.t - 1)

\* MemIter holds an entry of the skiplist, which goes on growing.
Least(E) == {e \in E : \A f \in E : ~Less(f, e)}
Greatest(E) == {e \in E : \A f \in E : ~Less(e, f)}

-----------------------------------------------------------------------------
(* MergeIterator                                                           *)

Sources == 1..(Len(runs) + 1)
EntriesOf(c, i) ==
    IF i = 1 THEN c[1]
    ELSE IF Valid(c[i]) THEN {runs[i - 1][c[i].t][c[i].b][c[i].p]} ELSE {}

\* The children as one seek leaves them.
Children(m, r) ==
    [i \in 1..(Len(r) + 1) |->
        CASE i = 1 /\ ~req'.rev -> Least({e \in m : ~Less(e, Seek(req'.lo, Top))})
          [] i = 1 /\ req'.rev  -> Greatest({e \in m : Less(e, Seek(req'.hi, Top))})
          [] i > 1 /\ ~req'.rev -> RunSeek(r[i - 1], Seek(req'.lo, Top))
          [] i > 1 /\ req'.rev  -> IF req'.hi = Infinity THEN LastOf(r[i - 1], Len(r[i - 1]))
                                   ELSE RunSeekForPrev(r[i - 1], Seek(req'.hi, Top))]

\* pick: the entry of the merge, from the child that has it.
Here == LET all == UNION {EntriesOf(cur, i) : i \in Sources}
        IN  IF req.rev THEN Greatest(all) ELSE Least(all)
Picked == CHOOSE i \in Sources : EntriesOf(cur, i) = Here

\* next or prev of the picked child.
Advance ==
    cur' = [cur EXCEPT ![Picked] =
              LET e == CHOOSE x \in Here : TRUE
              IN  CASE Picked = 1 /\ ~req.rev -> Least({f \in mem : Less(e, f)})
                    [] Picked = 1 /\ req.rev  -> Greatest({f \in mem : Less(f, e)})
                    [] Picked > 1 /\ ~req.rev -> RunNext(runs[Picked - 1], @)
                    [] Picked > 1 /\ req.rev  -> RunPrev(runs[Picked - 1], @)]

-----------------------------------------------------------------------------
(* A view, and a transaction that opens a scan on it                       *)

Ops == [k : Keys, put : BOOLEAN]
Written(ops, lo, hi) == {[k |-> ops[i].k, s |-> i, put |-> ops[i].put] : i \in lo..hi}
NoMvcc == [last |-> 0, group |-> 0, cand |-> {}, done |-> FALSE, window |-> <<>>]

Init ==
    /\ \E ops \in [1..MaxOps -> Ops], cut \in Cuts, width \in {1, Cardinality(Keys)} :
         /\ mem = Written(ops, cut[2] + 1, MaxOps)
         /\ runs = <<RunOf(Written(ops, cut[1] + 1, cut[2]), width),
                     RunOf(Written(ops, 1, cut[1]), width)>>
    /\ req = [open |-> FALSE] /\ cur = <<>> /\ mvcc = NoMvcc /\ ready = <<>>
    /\ txn = [overlay |-> <<>>, peek |-> <<>>, done |-> FALSE]
    /\ scan = [pending |-> <<>>, errored |-> FALSE]
    /\ call = [op |-> "none"] /\ seen = <<>> /\ told = FALSE /\ errors = 0

Ranges == {<<lo, hi>> \in Keys \X (Keys \cup {Infinity}) : lo < hi}

\* What the overlay holds of the range, in scan order.
OverlaySeq(w, lo, hi, rev) ==
    LET ks == {k \in DOMAIN w : lo <= k /\ k < hi}
        nth(i) == CHOOSE k \in ks :
                    Cardinality({j \in ks : IF rev THEN j > k ELSE j < k}) = i - 1
    IN  [i \in 1..Cardinality(ks) |-> [k |-> nth(i), put |-> w[nth(i)]]]

\* Txn::iter, DbIterator::new, MvccForward::new, MvccReverse::new
Open(snap, range, rev, w) ==
    /\ ~req.open
    /\ req' = [open |-> TRUE, snap |-> snap, lo |-> range[1], hi |-> range[2],
               rev |-> rev, writes |-> w]
    /\ cur' = Children(mem, runs)
    /\ txn' = [txn EXCEPT !.overlay = OverlaySeq(w, range[1], range[2], rev)]
    /\ UNCHANGED <<mem, runs, mvcc, ready, scan, call, seen, told, errors>>

\* A writer inserts into the live memtable, above every snapshot.
Insert(k) ==
    LET new == Cardinality({e \in mem : e.s > MaxOps})
    IN  /\ req.open /\ ~told /\ new < MaxInserts
        /\ mem' = mem \cup {[k |-> k, put |-> TRUE, s |-> MaxOps + 1 + new]}
        /\ UNCHANGED <<runs, req, cur, mvcc, ready, txn, scan, call, seen, told, errors>>

-----------------------------------------------------------------------------
(* DbIterator::fill: next_visible until the window is full                 *)

Full == Len(mvcc.window) >= Prefetch
Filling == call.op = "fill" /\ ~mvcc.done /\ ~Full

Exhausted(w) == mvcc' = [mvcc EXCEPT !.done = TRUE, !.window = w] /\ UNCHANGED cur

\* MvccForward::next_visible, one turn of its loop.
ForwardTurn ==
    /\ Filling /\ ~req.rev
    /\ IF Here = {} \/ (\E e \in Here : e.k >= req.hi) THEN Exhausted(mvcc.window)
       ELSE \E e \in Here :
              /\ Advance
              /\ IF e.k = mvcc.last \/ e.s > req.snap THEN UNCHANGED mvcc
                 ELSE mvcc' = [mvcc EXCEPT !.last = e.k,
                                 !.window = IF e.put THEN Append(@, [k |-> e.k, v |-> e.s]) ELSE @]
    /\ UNCHANGED <<viewVars, ready, txn, scan, call, seen, told, errors>>

\* take_emittable that forgets the group it is in.
EmittableNone == <<>>

\* take_emittable: the group's candidate, if it is a put.
Emittable ==
    IF \E c \in mvcc.cand : c.put
    THEN <<[k |-> mvcc.group, v |-> (CHOOSE c \in mvcc.cand : TRUE).s]>> ELSE <<>>

\* MvccReverse::next_visible: versions arrive oldest first; the newest visible
\* one stands when the key changes.
ReverseTurn ==
    /\ Filling /\ req.rev
    /\ IF Here = {} \/ (\E e \in Here : e.k < req.lo) THEN Exhausted(mvcc.window \o Emittable)
       ELSE \E e \in Here :
              IF mvcc.group # e.k /\ Emittable # <<>>
              THEN /\ mvcc' = [mvcc EXCEPT !.group = e.k, !.cand = {},
                                           !.window = @ \o Emittable]
                   /\ UNCHANGED cur
              ELSE /\ mvcc' = [mvcc EXCEPT
                                 !.group = e.k,
                                 !.cand = IF e.s <= req.snap THEN {e}
                                          ELSE IF mvcc.group = e.k THEN @ ELSE {}]
                   /\ Advance
    /\ UNCHANGED <<viewVars, ready, txn, scan, call, seen, told, errors>>

\* The window is handed over.
Filled ==
    /\ call.op = "fill" /\ (mvcc.done \/ Full)
    /\ ready' = mvcc.window
    /\ mvcc' = [mvcc EXCEPT !.window = <<>>]
    /\ call' = call.of
    /\ UNCHANGED <<viewVars, cur, txn, scan, seen, told, errors>>

\* A block or a value cannot be read: the iterators end, the handle sticks.
FillFails ==
    /\ Filling /\ errors < MaxErrors
    /\ errors' = errors + 1
    /\ scan' = [scan EXCEPT !.errored = TRUE]
    /\ txn' = [txn EXCEPT !.done = TRUE]
    /\ call' = [op |-> "none"]
    /\ UNCHANGED <<viewVars, cur, mvcc, ready, seen, told>>

-----------------------------------------------------------------------------
(* TxnIter, and the guest's scan handle above it                           *)

\* scan_next, scan_skip and scan_entry_hint; an errored handle answers EIO.
Calls(op, cap) ==
    /\ req.open /\ call.op = "none" /\ ~scan.errored /\ ~told
    /\ call' = [op |-> op, cap |-> cap, used |-> 0]
    /\ UNCHANGED <<viewVars, cur, mvcc, ready, txn, scan, seen, told, errors>>

InCall == call.op \in {"next", "skip", "hint"}
Ensured == scan.pending # <<>> \/ txn.done

\* fill_base
FillBase ==
    /\ InCall /\ ~Ensured /\ txn.peek = <<>>
    /\ \/ /\ ready # <<>>
          /\ txn' = [txn EXCEPT !.peek = <<Head(ready)>>] /\ ready' = Tail(ready)
          /\ UNCHANGED call
       \/ /\ ready = <<>> /\ ~mvcc.done
          /\ call' = [op |-> "fill", of |-> call]
          /\ UNCHANGED <<txn, ready>>
    /\ UNCHANGED <<viewVars, cur, mvcc, scan, seen, told, errors>>

\* An equal base key is shadowed.
OverlayFirst(o, b) == IF req.rev THEN o.k >= b.k ELSE o.k <= b.k

\* TxnIter::next, one turn of its loop.
Merge ==
    /\ InCall /\ ~Ensured
    /\ txn.peek # <<>> \/ (ready = <<>> /\ mvcc.done)
    /\ CASE txn.overlay = <<>> /\ txn.peek = <<>> ->
              txn' = [txn EXCEPT !.done = TRUE] /\ UNCHANGED scan
         [] txn.overlay # <<>> /\ (txn.peek = <<>> \/ OverlayFirst(txn.overlay[1], txn.peek[1])) ->
              LET o == txn.overlay[1]
              IN  /\ txn' = [txn EXCEPT !.overlay = Tail(@),
                               !.peek = IF @ # <<>> /\ @[1].k = o.k THEN <<>> ELSE @]
                  /\ scan' = IF o.put THEN [scan EXCEPT !.pending = <<[k |-> o.k, v |-> 0]>>]
                             ELSE scan
         [] txn.peek # <<>> /\ (txn.overlay = <<>> \/ ~OverlayFirst(txn.overlay[1], txn.peek[1])) ->
              /\ scan' = [scan EXCEPT !.pending = txn.peek]
              /\ txn' = [txn EXCEPT !.peek = <<>>]
    /\ UNCHANGED <<viewVars, cur, mvcc, ready, call, seen, told, errors>>

\* packed_len
Size(e) == e.k

\* scan_next packs what fits; an entry that does not fit waits.
ServeNext ==
    /\ call.op = "next" /\ Ensured
    /\ IF scan.pending # <<>> /\ call.used + Size(scan.pending[1]) <= call.cap
       THEN /\ seen' = seen \o scan.pending
            /\ scan' = [scan EXCEPT !.pending = <<>>]
            /\ call' = [call EXCEPT !.used = @ + Size(scan.pending[1])]
            /\ UNCHANGED told
       ELSE /\ call' = [op |-> "none"]
            /\ told' = (scan.pending = <<>> /\ call.used = 0)
            /\ UNCHANGED <<seen, scan>>
    /\ UNCHANGED <<viewVars, cur, mvcc, ready, txn, errors>>

\* scan_skip drops the next entry, scan_entry_hint only sizes it.
ServeOther ==
    /\ call.op \in {"skip", "hint"} /\ Ensured
    /\ call' = [op |-> "none"]
    /\ told' = (scan.pending = <<>>)
    /\ IF call.op = "skip"
       THEN seen' = seen \o scan.pending /\ scan' = [scan EXCEPT !.pending = <<>>]
       ELSE UNCHANGED <<seen, scan>>
    /\ UNCHANGED <<viewVars, cur, mvcc, ready, txn, errors>>

Scanning == ForwardTurn \/ ReverseTurn \/ Filled \/ FillBase \/ Merge \/ ServeNext \/ ServeOther
Next ==
    \/ \E snap \in Snaps, range \in Ranges, rev \in BOOLEAN, w \in Overlays :
         Open(snap, range, rev, w)
    \/ \E k \in Keys : Insert(k)
    \/ \E cap \in Caps : Calls("next", cap)
    \/ \E op \in {"skip", "hint"} : Calls(op, 0)
    \/ Scanning \/ FillFails

Spec == Init /\ [][Next]_vars

-----------------------------------------------------------------------------
(* Point reads                                                             *)

NewestAt(E, k, s) == {e \in E : e.k = k /\ e.s <= s
                                /\ \A f \in E : f.k = k /\ f.s <= s => f.s <= e.s}

\* Memtable::get
MemGet(k, s) == {e \in Least({f \in mem : ~Less(f, Seek(k, s))}) : e.k = k}

\* Run::fragment_for, by the tables' largest user keys.
FragmentFor(run, k) == LowerBound([i \in DOMAIN run |-> LastEntry(run[i]).k < k])

\* Run::get and Table::get; the bloom filter has no false negatives.
RunGet(run, k, s) ==
    LET t == FragmentFor(run, k)
    IN  IF t > Len(run) \/ run[t][1][1].k > k THEN {}
        ELSE LET b == BlockFor(run[t], Seek(k, s))
             IN  IF b > Len(run[t]) THEN {}
                 ELSE LET p == BlockSeek(run[t][b], Seek(k, s))
                      IN  {e \in {run[t][b][i] : i \in {p} \cap DOMAIN run[t][b]} : e.k = k}

\* ReadView::get_versioned: the first source that answers.
GetVersioned(k, s) ==
    LET hits == {r \in DOMAIN runs : RunGet(runs[r], k, s) # {}}
    IN  IF MemGet(k, s) # {} THEN MemGet(k, s)
        ELSE IF hits = {} THEN {} ELSE RunGet(runs[Min(hits)], k, s)

-----------------------------------------------------------------------------
(* Properties                                                              *)

All == mem \cup UNION {{runs[r][t][b][p] : p \in DOMAIN runs[r][t][b]} :
                       <<r, t, b>> \in {<<r, t, b>> \in (DOMAIN runs) \X (1..MaxOps) \X (1..MaxOps) :
                                          t \in DOMAIN runs[r] /\ b \in DOMAIN runs[r][t]}}

\* A point read at any sequence number finds the newest version at or below
\* it, wherever block, table and run boundaries fall.
GetsAgree ==
    ~req.open => \A k \in Keys, s \in 1..Top : GetVersioned(k, s) = NewestAt(All, k, s)

\* The transaction's view of a key of the range.
Visible(k) ==
    IF k \in DOMAIN req.writes THEN (IF req.writes[k] THEN <<[k |-> k, v |-> 0]>> ELSE <<>>)
    ELSE LET E == {e \in NewestAt(All, k, req.snap) : e.put}
         IN  IF E = {} THEN <<>> ELSE <<[k |-> k, v |-> (CHOOSE e \in E : TRUE).s]>>
Expected ==
    LET n == req.hi - req.lo
    IN  FlattenSeq([i \in 1..n |-> Visible(IF req.rev THEN req.hi - i ELSE req.lo + i - 1)])

\* A scan, forward or backward, yields exactly the keys and values of its
\* snapshot under the transaction's own writes, in order, each once - while a
\* writer inserts ahead of and behind the cursor, however the guest mixes
\* batch sizes, skips and hints.  The guest is told the end only at the end.
ScansAreExact ==
    req.open => /\ IsPrefix(seen \o scan.pending, Expected)
                /\ told => seen = Expected
=============================================================================

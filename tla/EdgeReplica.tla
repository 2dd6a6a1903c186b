---------------------------- MODULE EdgeReplica ----------------------------
(***************************************************************************)
(* A scoped read-only replica: the edge store (fragments of the master's   *)
(* flushed tree, an overlay fed by the stream, the frontier), the driver   *)
(* thread that keeps it in sync (attach, subscribe, pull a slice, apply,   *)
(* refresh, re-sync, re-attach), and the server half of its connection.    *)
(*                                                                         *)
(* A record is [key, seq, val].  The order of runs within a tree is        *)
(* LsmTree's subject: a tree is a set of fragments and a key's value is    *)
(* its newest record.  An instance of the master is named by its latest    *)
(* life (see Stream): a crash that lost the unsynced tail begins another   *)
(* life of the same instance, a fork or a restore another instance.        *)
(***************************************************************************)
EXTENDS Stream

CONSTANTS
    ChanCap,      \* frames in flight between the forwarder and the edge
    MaxEdgeFaults \* bound: connections broken, masters crashed or replaced,
                  \* compactions in the way of a pull, local writes failed, together

ASSUME EdgeAssumption ==
    {ChanCap, MaxEdgeFaults} \subseteq Nat

VARIABLES
    tree,      \* the master's live version: fragments [id, recs]
    nextFrag,  \* the master's next file id
    store,     \* the attached EdgeStore
    fresh,     \* <<the store of a re-attach in progress>>
    files,     \* the edge's directory: fragment id -> [recs, whole]
    conn,      \* the stream connection: instance, alive, frames in flight
    slice,     \* <<the SliceManifest being pulled>>
    pc,        \* what the driver does next
    ret,       \* what the pull is for: "refresh" or "resync"
    target,    \* the frontier to announce once the store is changed
    edgeFaults \* how many of those so far

edgeVars == <<tree, nextFrag, store, fresh, files, conn, slice, pc, ret, target, edgeFaults>>

Record(e, s) == [key |-> hist[e][s].key, seq |-> s, val |-> hist[e][s].val]
CommitPoints(h) == {0} \cup {h[s].commit : s \in DOMAIN h}
NewestRecs(recs) == {r \in recs : \A q \in recs : q.key = r.key => q.seq <= r.seq}
Recs(frags) == UNION {f.recs : f \in frags}
\* What a slice advertises of a fragment: its size and key bounds, never its bytes.
Advertised(f) == [id |-> f.id, size |-> Cardinality(f.recs),
                  keys |-> {r.key : r \in f.recs}]

\* EdgeStore::attach.  phantom is history: the master lost, in a crash, some of
\* what it had streamed to this store.
NewStore(inst) == [inst |-> inst, flushed |-> 0, version |-> {}, overlay |-> {}, frontier |-> 0,
                   phantom |-> FALSE]
NoStore == NewStore(0)
NoConn == [inst |-> 0, up |-> FALSE, frames |-> <<>>]
LaggedFrame == <<>>

\* EdgeReplica::start is the re-attach path taken with nothing attached.
EdgeInit ==
    /\ tree = {} /\ nextFrag = 1
    /\ store = NoStore /\ fresh = <<>> /\ files = <<>>
    /\ conn = NoConn /\ slice = <<>>
    /\ pc = "open" /\ ret = "resync" /\ target = 0
    /\ edgeFaults = 0

driverVars == <<store, fresh, files, conn, slice, pc, ret, target>>
treeVars == <<tree, nextFrag>>

-----------------------------------------------------------------------------
(* The master                                                              *)

\* A flush adds a run to the live version; only the scope's part is modelled,
\* and only the flushes a pull can notice.
FlushTree ==
    /\ pc \in {"pull", "snap"} /\ Flush
    /\ LET new == {Record(epoch, s) : s \in {i \in (flushed + 1)..visible : InScope(i)}}
       IN  IF new = {} THEN UNCHANGED treeVars
           ELSE /\ tree' = tree \cup {[id |-> nextFrag, recs |-> new]}
                /\ nextFrag' = nextFrag + 1
    /\ UNCHANGED <<driverVars, edgeFaults>>

\* run_slice over the whole tree: what lies above the watermark stays, and of
\* each key's rest the newest.
Kept(recs, upto) == {r \in recs : r.seq > upto} \cup NewestRecs({r \in recs : r.seq <= upto})
Tombstones(recs, upto) == {r \in recs : r.seq <= upto /\ r.val = Absent}
OneFragment(id, recs) == IF recs = {} THEN {} ELSE {[id |-> id, recs |-> recs]}

\* Compaction replaces every fragment: the old ids answer Gone.  A tombstone at
\* or below the watermark goes when nothing older can hold its key; which do,
\* by the level merged into and the bloom filters, is left open.  The watermark
\* follows what the subscription has resolved, not what has been delivered.
CompactTree ==
    /\ edgeFaults < MaxEdgeFaults /\ tree # {}
    /\ edgeFaults' = edgeFaults + 1
    /\ \E gone \in SUBSET Tombstones(Recs(tree), Watermark) :
         tree' = OneFragment(nextFrag, Kept(Recs(tree), Watermark) \ gone)
    /\ nextFrag' = nextFrag + 1
    /\ UNCHANGED <<streamVars, driverVars>>

\* A broken stream connection: the server drops the subscription, and the
\* frames in flight are lost.
Break ==
    /\ conn.up /\ edgeFaults < MaxEdgeFaults
    /\ edgeFaults' = edgeFaults + 1
    /\ conn' = [conn EXCEPT !.up = FALSE, !.frames = <<>>]
    /\ sub' = NoSub
    /\ UNCHANGED <<epoch, hist, published, flushed, held, gcVars, treeVars, store, fresh,
                   files, slice, pc, ret, target>>

\* The next life of the history: a prefix of whole commits, in tables (an open
\* flushes what it replayed), with nobody connected.
NextLife(cut) ==
    /\ edgeFaults < MaxEdgeFaults /\ published = visible
    /\ edgeFaults' = edgeFaults + 1
    /\ epoch' = epoch + 1
    /\ hist' = Append(hist, SubSeq(ops, 1, cut))
    /\ published' = cut /\ flushed' = cut
    /\ sub' = NoSub
    /\ UNCHANGED <<held, gcVars, files, slice, pc, ret, target>>

\* The records of the scope between two numbers of the present life.
Written(from, upto) == {Record(epoch, s) : s \in {i \in (from + 1)..upto : InScope(i)}}

\* The master is replaced by a fork or a restored backup of itself: a prefix
\* of the history, a new instance id, and file ids the old one may have used.
Remint(cut) ==
    /\ NextLife(cut)
    /\ conn' = [conn EXCEPT !.up = FALSE, !.frames = <<>>]
    /\ \E gone \in SUBSET Tombstones(Written(0, cut), cut) :
         tree' = OneFragment(1, NewestRecs(Written(0, cut)) \ gone)
    /\ nextFrag' = 2
    /\ UNCHANGED <<store, fresh>>

\* A crashed master keeps its instance id: what was bound to it still is.
Rebound(inst) == IF inst = epoch THEN epoch + 1 ELSE inst

\* Did the store get something from the stream that the crash undid?
Haunted(s, cut) ==
    /\ s.inst = epoch
    /\ s.frontier > cut \/ target > cut \/ \E r \in s.overlay : r.seq > cut

Survived(s, cut) == [s EXCEPT !.inst = Rebound(@), !.phantom = @ \/ Haunted(s, cut)]

\* A crash of the master in a relaxed sync mode: what was not flushed may be
\* lost from some commit on, streamed or not, and the id counter goes on.
MasterCrash(cut) ==
    /\ cut >= flushed
    /\ NextLife(cut)
    /\ conn' = [conn EXCEPT !.inst = Rebound(@), !.up = FALSE, !.frames = <<>>]
    /\ store' = Survived(store, cut)
    /\ fresh' = IF fresh = <<>> THEN <<>> ELSE <<Survived(fresh[1], cut)>>
    /\ tree' = tree \cup OneFragment(nextFrag, Written(flushed, cut))
    /\ nextFrag' = nextFrag + 1

\* run_subscription: a resolved batch goes into the bounded channel.
Forward ==
    /\ sub.batch # <<>> /\ conn.up /\ Len(conn.frames) < ChanCap
    /\ conn' = [conn EXCEPT !.frames = Append(@, sub.batch)]
    /\ sub' = [sub EXCEPT !.batch = <<>>]
    /\ UNCHANGED <<epoch, hist, published, flushed, held, gcVars, treeVars, store, fresh,
                   files, slice, pc, ret, target, edgeFaults>>

\* PUSH_LAGGED ends the stream; the subscription is dropped with it.
ForwardLagged ==
    /\ Lagged /\ conn.up /\ Len(conn.frames) < ChanCap
    /\ conn' = [conn EXCEPT !.frames = Append(@, LaggedFrame)]
    /\ sub' = NoSub
    /\ UNCHANGED <<epoch, hist, published, flushed, held, gcVars, treeVars, store, fresh,
                   files, slice, pc, ret, target, edgeFaults>>

-----------------------------------------------------------------------------
(* The driver thread: run_loop                                             *)

masterVars == <<streamVars, treeVars, edgeFaults>>

\* EdgeStore::apply_stream: the overlay first, under the state lock.
ApplyBatch ==
    /\ pc = "run" /\ conn.frames # <<>> /\ Head(conn.frames) # LaggedFrame
    /\ LET batch == Range(Head(conn.frames))
       IN  /\ store' = [store EXCEPT !.overlay =
                          @ \cup {Record(conn.inst, s) : s \in batch}]
           /\ target' = Max({hist[conn.inst][s].commit : s \in batch})
    /\ conn' = [conn EXCEPT !.frames = Tail(@)]
    /\ pc' = "advance"
    /\ UNCHANGED <<masterVars, fresh, files, slice, ret>>

\* A frontier that follows the latest event.
AdvanceToAny(s, seqno) == [s EXCEPT !.frontier = seqno]

\* Frontier::advance_to, after the lock is released.
AdvanceTo(s, seqno) == [s EXCEPT !.frontier = IF seqno > @ THEN seqno ELSE @]

\* An event is dealt with; the refresh timer may be due.
RunOrRefresh == \/ pc' = "run" /\ UNCHANGED ret
                \/ pc' = "pull" /\ ret' = "refresh"

Advance ==
    /\ pc = "advance"
    /\ store' = AdvanceTo(store, target) /\ target' = 0
    /\ RunOrRefresh
    /\ UNCHANGED <<masterVars, fresh, files, conn, slice>>

\* The server pings an idle connection.
Ping ==
    /\ pc = "run" /\ conn.up /\ conn.frames = <<>>
    /\ RunOrRefresh
    /\ UNCHANGED <<masterVars, store, fresh, files, conn, slice, target>>

\* Lagged, or a read error on the connection.
StreamEnds ==
    /\ pc = "run"
    /\ \/ conn.frames # <<>> /\ Head(conn.frames) = LaggedFrame
       \/ conn.frames = <<>> /\ ~conn.up
    /\ pc' = "open" /\ conn' = NoConn
    /\ UNCHANGED <<masterVars, store, fresh, files, slice, ret, target>>

-----------------------------------------------------------------------------
(* resync: subscribe first, then pull                                      *)

Subscribes(inst) ==
    /\ CanSubscribe
    /\ sub' = Subscription
    /\ conn' = [inst |-> inst, up |-> TRUE, frames |-> <<>>]
    /\ pc' = "pull" /\ ret' = "resync"
    /\ UNCHANGED <<epoch, hist, published, flushed, held, gcVars>>

\* StreamConn::open to the instance the store caches.
Reopen ==
    /\ pc = "open" /\ store.inst = epoch
    /\ Subscribes(store.inst)
    /\ fresh' = <<>>
    /\ UNCHANGED <<treeVars, edgeFaults, store, files, slice, target>>

\* A re-attach that keeps the old directory.
AttachKeepingFiles == files

\* EdgeStore::attach wipes the directory, whatever it held.
AttachFiles == <<>>

\* ProvenanceMismatch: a fresh client and store, then the stream.
Reattach ==
    /\ pc = "open" /\ store.inst # epoch
    /\ fresh' = <<NewStore(epoch)>> /\ files' = AttachFiles
    /\ Subscribes(epoch)
    /\ UNCHANGED <<treeVars, edgeFaults, store, slice, target>>

\* The store a pull fills, and the instance its client is bound to.
Filling == IF fresh # <<>> THEN fresh[1] ELSE store
SameInstance == Filling.inst = epoch

\* slice_manifest first flushes, so that acknowledged writes are covered ...
PullFlushes ==
    /\ pc = "pull" /\ SameInstance /\ flushed = visible
    /\ pc' = "snap"
    /\ UNCHANGED <<masterVars, store, fresh, files, conn, slice, ret, target>>

\* ... then reads the flush watermark and the version under the manifest lock.
PullSnapshot ==
    /\ pc = "snap" /\ SameInstance
    /\ slice' = <<[flushed |-> flushed, tables |-> {Advertised(f) : f \in tree}]>>
    /\ pc' = "fetch"
    /\ UNCHANGED <<masterVars, store, fresh, files, conn, ret, target>>

Missing == {t \in slice[1].tables : t.id \notin DOMAIN files}
WithFile(id, recs, whole) ==
    [i \in (DOMAIN files) \cup {id} |->
        IF i = id THEN [recs |-> recs, whole |-> whole] ELSE files[i]]

\* FETCH_TABLE of a fragment not yet copied.
Fetch ==
    /\ pc = "fetch" /\ SameInstance
    /\ \E t \in Missing, f \in tree :
         f.id = t.id /\ files' = WithFile(f.id, f.recs, TRUE)
    /\ UNCHANGED <<masterVars, store, fresh, conn, slice, pc, ret, target>>

\* Gone: compaction dropped the fragment; take a fresh snapshot.
FetchGone ==
    /\ pc = "fetch" /\ SameInstance
    /\ \E t \in Missing : \A f \in tree : f.id # t.id
    /\ pc' = "pull" /\ slice' = <<>>
    /\ UNCHANGED <<masterVars, store, fresh, files, conn, ret, target>>

\* The local write fails part way; what was written stays under the name.
FetchTorn ==
    /\ pc = "fetch" /\ SameInstance /\ edgeFaults < MaxEdgeFaults
    /\ edgeFaults' = edgeFaults + 1
    /\ \E t \in Missing, f \in tree :
         f.id = t.id /\ files' = WithFile(f.id, f.recs, FALSE)
    /\ pc' = "pull" /\ slice' = <<>>
    /\ UNCHANGED <<streamVars, treeVars, store, fresh, conn, ret, target>>

\* install_slice opens every fragment and compares it with what was advertised.
Opens(t) == files[t.id].whole /\ Advertised([id |-> t.id, recs |-> files[t.id].recs]) = t

\* The overlay keeps the tail past the slice's watermark.
OverlayAfter(s, upto) == {r \in s.overlay : r.seq > upto}

\* The version and the overlay are swapped together.
Installed(s) ==
    [s EXCEPT !.version = UNION {files[t.id].recs : t \in slice[1].tables},
              !.overlay = OverlayAfter(s, slice[1].flushed),
              !.flushed = slice[1].flushed]

Install ==
    /\ pc = "fetch" /\ SameInstance /\ Missing = {} /\ \A t \in slice[1].tables : Opens(t)
    /\ IF fresh # <<>> THEN fresh' = <<Installed(fresh[1])>> /\ UNCHANGED store
                       ELSE store' = Installed(store) /\ UNCHANGED fresh
    /\ pc' = "announce"
    /\ UNCHANGED <<masterVars, files, conn, slice, ret, target>>

\* The frontier moves, unreferenced fragments go, and a re-attached store is
\* swapped in (swap_attachment).
Announce ==
    /\ pc = "announce"
    /\ store' = AdvanceTo(Filling, slice[1].flushed)
    /\ fresh' = <<>>
    /\ files' = [id \in {t.id : t \in slice[1].tables} |-> files[id]]
    /\ pc' = "run" /\ slice' = <<>> /\ ret' = "resync"
    /\ UNCHANGED <<masterVars, conn, target>>

\* The attempt budget is spent: the master is another instance, or a fragment
\* does not open.  A refresh gives up quietly; a re-sync starts over.
PullFails ==
    /\ \/ pc \in {"pull", "snap", "fetch"} /\ ~SameInstance
       \/ pc = "fetch" /\ Missing = {} /\ \E t \in slice[1].tables : ~Opens(t)
    /\ slice' = <<>> /\ fresh' = <<>> /\ ret' = "resync"
    /\ IF ret = "refresh" THEN pc' = "run" /\ UNCHANGED <<conn, sub>>
                          ELSE pc' = "open" /\ conn' = NoConn /\ sub' = NoSub
    /\ UNCHANGED <<epoch, hist, published, flushed, held, gcVars, treeVars, edgeFaults, store,
                   files, target>>

-----------------------------------------------------------------------------
EdgeDisturbances == CompactTree \/ Break
                    \/ \E cut \in CommitPoints(ops) : Remint(cut) \/ MasterCrash(cut)
EdgeServer == Forward \/ ForwardLagged
EdgeDriver == ApplyBatch \/ Advance \/ StreamEnds \/ Reopen \/ Reattach \/ PullFlushes
              \/ PullSnapshot \/ Fetch \/ FetchGone \/ FetchTorn \/ Install \/ Announce
              \/ PullFails

-----------------------------------------------------------------------------
(* Properties                                                              *)

\* EdgeStore::scan merges the overlay and the fragments by sequence number.
Scanned(s, k) == LET R == {r \in NewestRecs(s.version \cup s.overlay) : r.key = k}
                 IN  IF R = {} THEN [seq |-> 0, val |-> Absent]
                     ELSE LET r == CHOOSE x \in R : TRUE IN [seq |-> r.seq, val |-> r.val]

\* EdgeStore::get asks the overlay first, and the fragments only on a miss.
Got(s, k) == IF \E r \in s.overlay : r.key = k
             THEN Scanned([s EXCEPT !.version = {}], k) ELSE Scanned(s, k)

\* A key whose deletion is in the slice, its tombstone compacted away, while an
\* older record of it arrived late, in a batch the slice already covers.
\* (apply_stream does not filter by the watermark.)
Revived(s, h, k) ==
    /\ ValueAt(h, k, s.flushed) = Absent
    /\ \A r \in s.version : r.key # k
    /\ Scanned(s, k).seq <= s.flushed

\* What a scan of the replica shows is the master's state at one commit, no
\* older than the frontier, whatever slices, late batches, cuts, crashes,
\* re-syncs and re-attachments went before; nothing of another instance shows
\* through.  Two things are excepted, and only these: a key revived until the
\* batch with its deletion is applied, and a store whose master lost in a crash
\* what it had streamed.
EdgeViewIsACut ==
    store.inst # 0 /\ ~store.phantom =>
        \E c \in CommitPoints(hist[store.inst]) :
            /\ c >= store.frontier
            /\ \A k \in Scope : \/ Scanned(store, k).val = ValueAt(hist[store.inst], k, c)
                               \/ Revived(store, hist[store.inst], k)

\* Within one attachment the frontier does not go back, and what a scan shows
\* of a key gives way only to a newer record or to the key's deletion.
EdgeNeverGoesBack ==
    [][store.inst = store'.inst /\ ~store.phantom =>
         /\ store'.frontier >= store.frontier
         /\ \A k \in Scope : \/ Scanned(store', k).seq >= Scanned(store, k).seq
                            \/ Scanned(store', k).val = Absent
      ]_store

\* A key's value at the frontier or later.
CoversFrontier(k, shown) ==
    \E c \in CommitPoints(hist[store.inst]) :
        c >= store.frontier /\ shown.val = ValueAt(hist[store.inst], k, c)

\* A point read shows every in-scope commit at or below the frontier.
\* (EdgeStats::frontier_seqno, the promise behind wait_frontier.)
EdgeGetCoversFrontier ==
    store.inst # 0 => \A k \in Scope : CoversFrontier(k, Got(store, k))

\* So does a scan, also while batches arrive that the slice already covers.
\* ("Overlap is harmless because entries carry seqnos", docs/p/replication.md.)
EdgeScanCoversFrontier ==
    store.inst # 0 /\ ~store.phantom => \A k \in Scope : CoversFrontier(k, Scanned(store, k))

\* A replica back in touch with its master, by the instance id, shows nothing
\* the master does not have.  ("Stale history is never served", the same page.)
EdgeShowsNoLostHistory ==
    pc = "run" /\ conn.up /\ store.inst = epoch =>
        \A r \in store.overlay : r.seq <= visible /\ r = Record(epoch, r.seq)

\* A torn local copy stays under its name and is never fetched again.
Poisoned == \E id \in DOMAIN files : ~files[id].whole

\* Once the master is quiet the replica is attached to it and shows its state,
\* however often it lagged, was cut off or found the master restarted or
\* replaced - unless a torn copy of a live fragment blocks every pull, or the
\* master lost in a crash what it had streamed.
EdgeCatchesUp ==
    <>[](Poisoned \/ store.phantom
         \/ (/\ store.inst = epoch
             /\ \A k \in Scope : Scanned(store, k).val = ValueAt(ops, k, visible)))
=============================================================================

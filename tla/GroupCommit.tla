----------------------------- MODULE GroupCommit -----------------------------
(***************************************************************************)
(* The commit path: optimistic transactions and plain batches, the commit  *)
(* queue, the committer thread that drains it chunk by chunk, and the      *)
(* direct path relaxed sync modes take.                                    *)
(*                                                                         *)
(* A client issues one request.  It checks bg_error, enqueues a waiter and *)
(* parks; it returns when the committer filled its slot, or when the store *)
(* is degraded or shut down and it can still pull the waiter back out of   *)
(* the queue.  The committer owns whatever it drained until it delivers.   *)
(*                                                                         *)
(* Sequence numbers count batches: a batch's own contiguous range is one   *)
(* number, since snapshots lie between batches.  Chunks are cut by bytes;  *)
(* the sizes are unknown here, so a chunk may end after any waiter.        *)
(***************************************************************************)
EXTENDS Integers, FiniteSets, Sequences, SequencesExt

CONSTANTS
    Clients,     \* threads, each with one request
    Keys,        \* user keys
    Footprints,  \* the <<writes, locks>> a request may have
    TooBig,      \* keys whose values push a batch over the WAL record limit
    MaxSeq,      \* MAX_SEQNO: batches beyond it are refused
    Modes,       \* is the sync mode Always, so that commits ride the queue?
    Gc,          \* value-log GC may run
    Faults,      \* I/O may fail
    Panics,      \* the committer may panic
    Closes       \* the database handle may be dropped

ASSUME CommitAssumption ==
    /\ MaxSeq \in Nat
    /\ Footprints \subseteq (SUBSET Keys) \X (SUBSET Keys)
    /\ TooBig \subseteq Keys
    /\ Modes \subseteq BOOLEAN
    /\ {Gc, Faults, Panics, Closes} \subseteq BOOLEAN
    /\ "none" \notin Clients
    /\ IsFiniteSet(Clients)

VARIABLES
    pc,         \* where each client is
    req,        \* its request: transaction or batch, snapshot, write and lock sets
    slot,       \* WaiterInner.result of its waiter
    returned,   \* what its call returned
    queue,      \* commit_queue
    cpc,        \* where the committer is
    drained,    \* waiters drained and not yet in a chunk
    group,      \* the chunk in flight
    results,    \* its results, to be delivered
    wal,        \* the WAL's records: every batch appended, published or not
    commits,    \* history: every batch applied to the memtable
    visible,    \* visible_seqno
    always,     \* the store's sync mode is Always
    gc,         \* a value-log GC pass is between its check and its end
    bgError,    \* bg_error is set
    shutdown    \* shutdown flag

clientVars == <<pc, req, returned>>
committerVars == <<cpc, drained, group, results>>
storeVars == <<wal, commits, visible>>
engineVars == <<always, gc>>
vars == <<clientVars, slot, queue, committerVars, storeVars, engineVars, bgError, shutdown>>

None == "none"
Outcome == {"ok", "conflict", "io", "invalid", "background", "closed"}
NoReq == [txn |-> FALSE, snap |-> 0, writes |-> {}, locks |-> {}]

\* The keys a transaction's commit validates: its writes and its locks.
ConflictKeys(c) == req[c].writes \cup req[c].locks

\* ReadView::latest on the committed batches: newest seqno of k, 0 if none.
HasNewer(k, s) == \E b \in commits : k \in b.keys /\ b.seq > s

-----------------------------------------------------------------------------
(* Clients                                                                 *)

\* Db::begin: a snapshot at the visible seqno is registered.
BeginTxn(c) ==
    /\ pc[c] = "idle"
    /\ pc' = [pc EXCEPT ![c] = "open"]
    /\ req' = [req EXCEPT ![c] =
                   [txn |-> TRUE, snap |-> visible, writes |-> {}, locks |-> {}]]
    /\ UNCHANGED <<slot, returned, queue, committerVars, storeVars, engineVars, bgError, shutdown>>

Return(c, r) ==
    /\ pc' = [pc EXCEPT ![c] = "returned"]
    /\ returned' = [returned EXCEPT ![c] = r]

\* Txn::commit and write_batch up to the enqueue.  Nothing to do returns at
\* once; a degraded or closed store refuses.
Submit(c, w, l) ==
    /\ pc[c] = "open" \/ (pc[c] = "idle" /\ l = {} /\ w # {})
    /\ req' = [req EXCEPT ![c].writes = w, ![c].locks = l]
    /\ \/ w \cup l = {} /\ Return(c, "ok")
       \/ w \cup l # {} /\ bgError /\ Return(c, "background")
       \/ w \cup l # {} /\ ~bgError /\ shutdown /\ Return(c, "closed")
       \/ /\ w \cup l # {} /\ ~bgError /\ ~shutdown
          /\ pc' = [pc EXCEPT ![c] = "admitted"]
          /\ UNCHANGED returned
    /\ UNCHANGED <<slot, queue, committerVars, storeVars, engineVars, bgError, shutdown>>

\* queue_commit: the waiter goes to the back of the queue; the client parks.
Enqueue(c) ==
    /\ always
    /\ pc[c] = "admitted"
    /\ pc' = [pc EXCEPT ![c] = "parked"]
    /\ queue' = Append(queue, c)
    /\ UNCHANGED <<req, returned, slot, committerVars, storeVars, engineVars, bgError, shutdown>>

TakeResult(c) ==
    /\ pc[c] = "parked"
    /\ slot[c] # None
    /\ Return(c, slot[c])
    /\ slot' = [slot EXCEPT ![c] = None]
    /\ UNCHANGED <<req, queue, committerVars, storeVars, engineVars, bgError, shutdown>>

\* The impatient form: give up although the committer may hold the waiter.
BailAnyway(c) ==
    /\ pc[c] = "parked"
    /\ slot[c] = None
    /\ bgError \/ shutdown
    /\ queue' = SelectSeq(queue, LAMBDA q : q # c)
    /\ Return(c, IF bgError THEN "background" ELSE "closed")
    /\ UNCHANGED <<req, slot, committerVars, storeVars, engineVars, bgError, shutdown>>

\* The poll of a parked client: it gives up only if its waiter is still queued.
Bail(c) ==
    /\ pc[c] = "parked"
    /\ slot[c] = None
    /\ bgError \/ shutdown
    /\ \E i \in DOMAIN queue : queue[i] = c /\ queue' = RemoveAt(queue, i)
    /\ Return(c, IF bgError THEN "background" ELSE "closed")
    /\ UNCHANGED <<req, slot, committerVars, storeVars, engineVars, bgError, shutdown>>

-----------------------------------------------------------------------------
(* Validation and application under write_mu                               *)

\* Is the request of c in conflict with the committed batches?
StoreConflict(c) == req[c].txn /\ \E k \in ConflictKeys(c) : HasNewer(k, req[c].snap)

\* Validation that looks at the store only.
PassesStoreOnly(g, passed, unread) ==
    \A i \in DOMAIN g : i \in passed <=> i \notin unread /\ ~StoreConflict(g[i])

\* The chunk positions that pass validation, in order: a transaction fails on
\* a newer committed version of one of its keys, on a key an earlier batch of
\* the same chunk is about to write, and when a table cannot be read.
Passes(g, passed, unread) ==
    \A i \in DOMAIN g :
        i \in passed <=>
            /\ i \notin unread
            /\ ~StoreConflict(g[i])
            /\ req[g[i]].txn =>
                 \A j \in passed : j < i => req[g[j]].writes \cap ConflictKeys(g[i]) = {}

\* Positions whose validation read the tables in vain.
Unread(g) == IF Faults THEN SUBSET {i \in DOMAIN g : req[g[i]].txn} ELSE {{}}

Rank(S, i) == Cardinality({j \in S : j <= i})

\* The batch of c as the history remembers it.
Batch(c, n) ==
    [owner |-> c, seq |-> n, keys |-> req[c].writes, txn |-> req[c].txn,
     snap |-> req[c].snap, conflictKeys |-> ConflictKeys(c)]

\* Skipping the batch that failed instead of ending the group there.
AppliedSkipping(accepted, cut) == {i \in accepted : Rank(accepted, i) # cut + 1}

\* The accepted batches that survive when the append of number cut + 1 fails:
\* always a prefix, so the published numbers have no gap.
Applied(accepted, cut) == {i \in accepted : Rank(accepted, i) <= cut}

\* The validated batches with something to write, and those of them that fit
\* in a WAL record.
ToWrite(g, passed) == {i \in passed : req[g[i]].writes # {}}
Fitting(g, passed) == {i \in ToWrite(g, passed) : req[g[i]].writes \cap TooBig = {}}

\* Without the seqno-space check.
AcceptedUnbounded(g, passed) == Fitting(g, passed)

\* Seqno assignment, in order, while numbers last: a batch refused for its size
\* or beyond MAX_SEQNO consumes none.
Accepted(g, passed) ==
    {i \in Fitting(g, passed) : visible + Rank(Fitting(g, passed), i) <= MaxSeq}

\* What one apply_group_locked can come to for n accepted batches: how many
\* were appended, whether the WAL sync succeeded, whether the rotation after
\* publishing did.
GroupOutcome(n) ==
    IF Faults
    THEN [cut : 0 .. n, synced : BOOLEAN, rotated : BOOLEAN]
    ELSE {[cut |-> n, synced |-> TRUE, rotated |-> TRUE]}

\* One write_mu critical section of the committer (apply_group_locked): seqno
\* assignment, append, sync, publish, rotate.  A failed append fails the rest
\* of the group; a failed sync publishes nothing although the records are in
\* the WAL; a failed rotation leaves the acknowledgements standing.
ApplyGroup(g, passed, unread, o) ==
    LET accepted == Accepted(g, passed)
        appended == Applied(accepted, o.cut)
        applied  == IF o.synced THEN appended ELSE {}
        numbered(i) == Batch(g[i], visible + Rank(accepted, i))
    IN  /\ wal' = wal \cup {numbered(i) : i \in appended}
        /\ commits' = commits \cup {numbered(i) : i \in applied}
        /\ visible' = IF o.synced THEN visible + o.cut ELSE visible
        /\ results' = [i \in DOMAIN g |->
              CASE i \in unread -> "io"
                [] i \notin passed \cup unread -> "conflict"
                [] i \in passed \ ToWrite(g, passed) -> "ok"
                [] i \in ToWrite(g, passed) \ accepted -> "invalid"
                [] OTHER -> IF i \in applied THEN "ok" ELSE "io"]
        /\ bgError' = (bgError \/ o.cut < Cardinality(accepted)
                          \/ (o.cut > 0 /\ ~(o.synced /\ o.rotated)))

\* apply_locked's two checks: seqno space and record size.
Placeable(c) == visible < MaxSeq /\ req[c].writes \cap TooBig = {}

\* Relaxed sync modes: the client itself, under write_mu, validates (a read may
\* fail) and applies (apply_locked).  bg_error is not looked at again.
DirectCommit(c) ==
    /\ ~always
    /\ pc[c] = "admitted"
    /\ \/ /\ StoreConflict(c)
          /\ Return(c, "conflict") /\ UNCHANGED <<storeVars, bgError>>
       \/ /\ ~StoreConflict(c) /\ req[c].writes = {}
          /\ Return(c, "ok") /\ UNCHANGED <<storeVars, bgError>>
       \/ /\ Faults /\ req[c].txn
          /\ Return(c, "io") /\ UNCHANGED <<storeVars, bgError>>
       \/ /\ ~StoreConflict(c) /\ req[c].writes # {} /\ ~Placeable(c)
          /\ Return(c, "invalid") /\ UNCHANGED <<storeVars, bgError>>
       \/ /\ ~StoreConflict(c) /\ req[c].writes # {} /\ Placeable(c)
          /\ wal' = wal \cup {Batch(c, visible + 1)}
          /\ commits' = commits \cup {Batch(c, visible + 1)}
          /\ visible' = visible + 1
          /\ bgError' \in {bgError, bgError \/ Faults}
          /\ Return(c, "ok")
       \/ /\ ~StoreConflict(c) /\ req[c].writes # {} /\ Placeable(c) /\ Faults
          /\ bgError' = TRUE
          /\ Return(c, "io")
          /\ UNCHANGED storeVars
    /\ UNCHANGED <<req, slot, queue, committerVars, engineVars, shutdown>>

\* gc_vlog looks at bg_error once, when the pass begins.
StartGc ==
    /\ Gc /\ ~gc /\ ~bgError
    /\ gc' = TRUE
    /\ UNCHANGED <<clientVars, slot, queue, committerVars, storeVars, always, bgError, shutdown>>

\* Relocation: under write_mu, a key found live in the victim is put again, a
\* batch owned by nobody (apply_locked).  A failed rotation degrades the store
\* and the pass goes on; any other failure ends it, and a record whose sync
\* failed (Always mode) stays in the WAL, unpublished.
Relocation(k) ==
    [owner |-> None, seq |-> visible + 1, keys |-> {k}, txn |-> FALSE,
     snap |-> 0, conflictKeys |-> {}]

Relocate(k) ==
    /\ gc
    /\ visible < MaxSeq
    /\ HasNewer(k, 0)
    /\ \/ /\ wal' = wal \cup {Relocation(k)}
          /\ commits' = commits \cup {Relocation(k)}
          /\ visible' = visible + 1
          /\ bgError' \in {bgError, bgError \/ Faults}
          /\ UNCHANGED gc
       \/ /\ Faults
          /\ wal' \in {wal, IF always THEN wal \cup {Relocation(k)} ELSE wal}
          /\ bgError' = TRUE
          /\ gc' = FALSE
          /\ UNCHANGED <<commits, visible>>
    /\ UNCHANGED <<clientVars, slot, queue, committerVars, always, shutdown>>

EndGc ==
    /\ gc
    /\ gc' = FALSE
    /\ UNCHANGED <<clientVars, slot, queue, committerVars, storeVars, always, bgError, shutdown>>

-----------------------------------------------------------------------------
(* The committer thread                                                    *)

\* Reading the queue without emptying it.
DrainCopying ==
    /\ cpc = "drain" /\ queue # <<>>
    /\ drained' = queue
    /\ cpc' = "chunk"
    /\ UNCHANGED <<clientVars, slot, queue, group, results, storeVars, engineVars, bgError, shutdown>>

Drain ==
    /\ cpc = "drain" /\ queue # <<>>
    /\ drained' = queue
    /\ queue' = <<>>
    /\ cpc' = "chunk"
    /\ UNCHANGED <<clientVars, slot, group, results, storeVars, engineVars, bgError, shutdown>>

\* Nothing queued and shutting down: the thread ends.
ExitCommitter ==
    /\ cpc = "drain" /\ queue = <<>> /\ shutdown
    /\ cpc' = "exited"
    /\ UNCHANGED <<clientVars, slot, queue, drained, group, results, storeVars, engineVars, bgError, shutdown>>

Chunk(n) == SubSeq(drained, 1, n)

\* The next chunk's start, one waiter too far.
RestAfterSkipping(n) == SubSeq(drained, n + 2, Len(drained))

RestAfter(n) == SubSeq(drained, n + 1, Len(drained))

\* A chunk without the degradation gate.
FormChunkUngated(n) ==
    /\ cpc = "chunk" /\ n \in 1 .. Len(drained)
    /\ group' = Chunk(n)
    /\ drained' = RestAfter(n)
    /\ cpc' = "apply"
    /\ UNCHANGED <<clientVars, slot, queue, results, storeVars, engineVars, bgError, shutdown>>

\* A refused chunk that is not stepped over.
FormChunkStuck(n) ==
    /\ cpc = "chunk" /\ n \in 1 .. Len(drained)
    /\ IF bgError
       THEN /\ slot' = [c \in Clients |->
                          IF c \in Range(Chunk(n)) THEN "background" ELSE slot[c]]
            /\ UNCHANGED <<cpc, group, drained>>
       ELSE /\ group' = Chunk(n)
            /\ cpc' = "apply"
            /\ drained' = RestAfter(n)
            /\ UNCHANGED slot
    /\ UNCHANGED <<clientVars, queue, results, storeVars, engineVars, bgError, shutdown>>

\* The next chunk.  The degradation gate is looked at per chunk: a degraded
\* store fails the chunk, otherwise the panic guard is armed and ops are taken.
FormChunk(n) ==
    /\ cpc = "chunk" /\ n \in 1 .. Len(drained)
    /\ IF bgError
       THEN /\ slot' = [c \in Clients |->
                          IF c \in Range(Chunk(n)) THEN "background" ELSE slot[c]]
            /\ cpc' = IF n = Len(drained) THEN "drain" ELSE "chunk"
            /\ UNCHANGED group
       ELSE /\ group' = Chunk(n)
            /\ cpc' = "apply"
            /\ UNCHANGED slot
    /\ drained' = RestAfter(n)
    /\ UNCHANGED <<clientVars, queue, results, storeVars, engineVars, bgError, shutdown>>

CommitGroup ==
    /\ cpc = "apply"
    /\ \E unread \in Unread(group), passed \in SUBSET DOMAIN group :
         /\ Passes(group, passed, unread)
         /\ \E o \in GroupOutcome(Cardinality(Accepted(group, passed))) :
              ApplyGroup(group, passed, unread, o)
    /\ cpc' = "deliver"
    /\ UNCHANGED <<clientVars, slot, queue, drained, group, engineVars, shutdown>>

\* Results go out one waiter at a time.
Deliver ==
    /\ cpc = "deliver"
    /\ slot' = [slot EXCEPT ![Head(group)] = Head(results)]
    /\ group' = Tail(group)
    /\ results' = Tail(results)
    /\ cpc' = CASE Len(group) > 1 -> "deliver"
                [] Len(group) = 1 /\ drained # <<>> -> "chunk"
                [] OTHER -> "drain"
    /\ UNCHANGED <<clientVars, queue, drained, storeVars, engineVars, bgError, shutdown>>

\* GroupPanicGuard: a panic while a chunk is in flight degrades the store and
\* fails the waiters of that chunk that have no result yet.
CommitterPanics ==
    /\ Panics
    /\ cpc \in {"apply", "deliver"}
    /\ cpc' = "dead"
    /\ bgError' = TRUE
    /\ slot' = [c \in Clients |-> IF c \in Range(group) THEN "background" ELSE slot[c]]
    /\ group' = <<>> /\ results' = <<>>
    /\ UNCHANGED <<clientVars, queue, drained, storeVars, engineVars, shutdown>>

-----------------------------------------------------------------------------
(* The environment                                                         *)

\* A flush or a compaction failed: set_bg_error from another thread.
BackgroundFails ==
    /\ Faults /\ ~bgError
    /\ bgError' = TRUE
    /\ UNCHANGED <<clientVars, slot, queue, committerVars, storeVars, engineVars, shutdown>>

\* Drop for Db: background threads are told to stop.
CloseDb ==
    /\ Closes /\ ~shutdown
    /\ shutdown' = TRUE
    /\ UNCHANGED <<clientVars, slot, queue, committerVars, storeVars, engineVars, bgError>>

Init ==
    /\ pc = [c \in Clients |-> "idle"]
    /\ req = [c \in Clients |-> NoReq]
    /\ slot = [c \in Clients |-> None]
    /\ returned = [c \in Clients |-> None]
    /\ queue = <<>> /\ cpc = "drain" /\ drained = <<>> /\ group = <<>> /\ results = <<>>
    /\ wal = {} /\ commits = {} /\ visible = 0
    /\ always \in Modes /\ gc = FALSE /\ bgError = FALSE /\ shutdown = FALSE

Committer ==
    \/ Drain \/ ExitCommitter \/ CommitGroup \/ Deliver
    \/ \E n \in 1 .. Len(drained) : FormChunk(n)

Client(c) ==
    \/ BeginTxn(c) \/ Enqueue(c) \/ TakeResult(c) \/ Bail(c) \/ DirectCommit(c)
    \/ \E f \in Footprints : Submit(c, f[1], f[2])

Next ==
    \/ \E c \in Clients : Client(c)
    \/ Committer \/ CommitterPanics
    \/ StartGc \/ EndGc \/ \E k \in Keys : Relocate(k)
    \/ BackgroundFails \/ CloseDb

Spec == Init /\ [][Next]_vars

\* The committer loop and a parked client's poll wake on a timeout at the
\* latest; a client in the middle of a call goes on.
FairSpec ==
    /\ Spec
    /\ WF_vars(Committer)
    /\ \A c \in Clients :
         WF_vars(Enqueue(c) \/ TakeResult(c) \/ Bail(c) \/ DirectCommit(c))

-----------------------------------------------------------------------------
(* Properties                                                              *)

\* Every variable has its type; a client waits in the queue at most once.
TypeOK ==
    /\ pc \in [Clients -> {"idle", "open", "admitted", "parked", "returned"}]
    /\ req \in [Clients -> [txn : BOOLEAN, snap : 0 .. MaxSeq,
                            writes : SUBSET Keys, locks : SUBSET Keys]]
    /\ slot \in [Clients -> Outcome \cup {None}]
    /\ returned \in [Clients -> Outcome \cup {None}]
    /\ queue \in Seq(Clients) /\ drained \in Seq(Clients) /\ group \in Seq(Clients)
    /\ results \in Seq(Outcome)
    /\ cpc \in {"drain", "chunk", "apply", "deliver", "dead", "exited"}
    /\ visible \in 0 .. MaxSeq
    /\ commits \subseteq wal
    /\ \A b \in wal : /\ b.owner \in Clients \cup {None} /\ b.seq \in 1 .. MaxSeq
                      /\ b.keys \subseteq Keys /\ b.conflictKeys \subseteq Keys
                      /\ b.txn \in BOOLEAN /\ b.snap \in 0 .. MaxSeq
    /\ always \in BOOLEAN /\ gc \in BOOLEAN /\ bgError \in BOOLEAN /\ shutdown \in BOOLEAN

\* First committer wins: between a committed transaction's snapshot and its
\* own commit, nobody else committed a key it wrote or locked, whether they
\* met in the store or in the same chunk.
FirstCommitterWins ==
    \A a, b \in commits :
        b.txn /\ a.keys \cap b.conflictKeys # {} => ~(b.snap < a.seq /\ a.seq < b.seq)

\* The committed batches carry the numbers 1 to visible, each once: no gap
\* after a failed batch, nothing published beyond it, nothing applied twice.
SeqnosContiguous ==
    /\ {b.seq : b \in commits} = 1 .. visible
    /\ \A a, b \in commits : a.seq = b.seq => a = b

\* A batch is applied at most once per request, whatever was retried,
\* pulled back or failed around it.
AppliedOnce ==
    \A a, b \in commits : a.owner = b.owner /\ a.owner # None => a = b

CommittedBy(c) == \E b \in commits : b.owner = c

\* What the caller is told is what happened: success means the writes are
\* committed, and a conflict, a refusal, a closed store or an aborted batch
\* means none of them is.  Only "background" after a committer panic, which
\* the error says leaves the state unknown, may hide a committed batch.
AnswersAreTrue ==
    \A c \in Clients :
        /\ returned[c] = "ok" /\ req[c].writes # {} => CommittedBy(c)
        /\ returned[c] \in {"conflict", "io", "invalid", "closed"} => ~CommittedBy(c)
        /\ returned[c] = "background" /\ cpc # "dead" => ~CommittedBy(c)

\* Every record of the WAL has a sequence number of its own, as the reading
\* side takes for granted when it orders versions.
WalSeqnosUnique ==
    \A a, b \in wal : a.seq = b.seq => a = b

\* No two requests share a number in the WAL, whatever failed between them: the
\* committer's gate keeps a refused group's numbers from being written again.
\* Only a GC relocation escapes that gate (WalSeqnosUnique).
RequestNumbersUnique ==
    \A a, b \in wal : a.seq = b.seq /\ None \notin {a.owner, b.owner} => a = b

\* A parked client is answered, or pulls its batch back from a degraded or
\* closed store, as long as the committer does not panic (CallsReturn).
CallsAnswered ==
    \A c \in Clients : (pc[c] = "parked") ~> (pc[c] = "returned" \/ cpc = "dead")

\* Every call returns: a parked client is answered, or finds the store
\* degraded or closed and pulls its batch back.
CallsReturn == \A c \in Clients : (pc[c] = "parked") ~> (pc[c] = "returned")

\* Dropping the database ends the committer.
CloseCompletes == shutdown ~> (cpc \in {"exited", "dead"})
=============================================================================

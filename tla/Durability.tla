----------------------------- MODULE Durability -----------------------------
(***************************************************************************)
(* The files of a store and what a crash leaves of them: WALs, value-log   *)
(* files, tables and the manifest; the write path's durability order,      *)
(* rotation, flush, value-log GC and its deletion gates, pins, and         *)
(* recovery, which may itself be cut short by a crash.                     *)
(*                                                                         *)
(* A batch is one record with one key.  Its value is inline (file 0) or in *)
(* the value log at <<file, pos>>.  The value bytes are named by the user  *)
(* write that brought them, <<epoch, seq>>: a relocation carries the name  *)
(* of what it moves.  The tree's levels are the set of flushed runs:       *)
(* compaction, which LsmTree models, changes no read, and keeping the      *)
(* shadowed versions is the harder case for dangling pointers.             *)
(***************************************************************************)
EXTENDS Integers, FiniteSets, Sequences, SequencesExt, FiniteSetsExt

CONSTANTS
    Keys,       \* user keys
    MaxSeq,     \* bound: batches written, in any store
    OptionSets  \* the stores checked: options and failures, see OptionFields

OptionFields ==
    [sync : {"always", "relaxed"},   \* Options::sync: fsync inline, or not
     memtable_size : Nat \ {0},      \* in records
     vlog_file_size : Nat \ {0},     \* in records
     large : SUBSET BOOLEAN,         \* above the value-log threshold, or below it?
     gc : BOOLEAN,                   \* value-log GC may run
     keys : SUBSET Keys,
     seq : 0 .. MaxSeq,              \* bound: batches written
     crashes : Nat, faults : Nat,    \* bounds: crashes and I/O failures
     kills : BOOLEAN,                \* may a crash be the process's alone?
     pins : Nat, forks : Nat]        \* bounds: pins held at once, forks made

ASSUME DurabilityAssumption ==
    /\ MaxSeq \in Nat
    /\ \A o \in OptionSets : o \in OptionFields

VARIABLES
    wals,       \* WAL files: records, how many are fsynced, a torn remnant?
    vlogs,      \* value-log files: records, how many are fsynced
    ssts,       \* table files
    manifest,   \* the durable ManifestData
    opts,       \* the store's options and the run's bounds
    phase,      \* "down", "opened", "sweep" (recovering), "up", or "failed"
    wal,        \* the active WAL
    mem,        \* the active memtable
    imms,       \* frozen memtables with their WAL, newest first
    head,       \* the value log's head file
    vmap,       \* the value-log files of this life that are not released
    unlisted,   \* those of them Version::vlogs lacks: their rotation failed
    retired,    \* DbInner::retired
    obsolete,   \* released files, unlinked when the last reader lets go
    nextId,     \* next_file_id
    visible,    \* visible_seqno
    pinning,    \* the snapshot of a pin that is not durable yet
    inflight,   \* the batch between its WAL append and its publication
    gc,         \* <<the running GC pass>>
    bgError,    \* bg_error is set
    late,       \* a writer passed the bg_error check before it was set
    building,   \* <<the fork being created>>, see Forks
    archives,   \* the forks published so far
    crashes, faults,
    cached,     \* file id -> records fsynced, where a killed process left more
    exposed,    \* history: a power loss took records a kill had left
    acked,      \* history: what the store shows its readers
    promised,   \* history: what it promised to keep
    gray        \* history: logged, never acknowledged, never shown at the head

disk == <<wals, vlogs, ssts, manifest>>
tree == <<mem, imms, visible>>
vlogVars == <<head, vmap, unlisted, retired, obsolete>>
aside == <<opts, building, archives>>
failures == <<crashes, faults, cached, exposed>>
history == <<acked, promised, gray>>
vars == <<disk, aside, phase, wal, tree, vlogVars, nextId, pinning, inflight, gc, bgError,
          late, failures, history>>

Inline == 0

\* A function without some of its domain: files unlinked.
Keep(f, ids) == [id \in (DOMAIN f) \cap ids |-> f[id]]
With(f, id, file) == [i \in (DOMAIN f) \cup {id} |-> IF i = id THEN file ELSE f[i]]

EmptyWal == [recs |-> <<>>, synced |-> 0, torn |-> FALSE]
EmptyVlog == [recs |-> <<>>, synced |-> 0]
Synced(f) == [f EXCEPT !.synced = Len(f.recs)]

\* Version::vlogs: the files a pointer can be resolved in.
InVersion == vmap \ unlisted

Flushed == UNION {r.recs : r \in manifest.runs}
Contents == Flushed \cup mem \cup UNION {m.recs : m \in Range(imms)}

Newest(recs, k, s) ==
    {r \in recs : r.key = k /\ r.seq <= s /\
                  \A q \in recs : q.key = k /\ q.seq <= s => q.seq <= r.seq}

\* DbInner::watermark: pins are registered snapshots, and so is a fork's cut.
Registered == pinning \cup manifest.pins \cup {b.cut : b \in {b \in Range(building) : b.taken}}
Watermark == IF Registered = {} THEN visible + 1 ELSE Min(Registered)

-----------------------------------------------------------------------------
(* The write path                                                          *)

\* Append a batch: the value goes to the head, and in Always mode is fsynced
\* there, before the WAL record that points at it is written.  A torn remnant
\* of an earlier failed append is overwritten, perhaps not to its end.
AppendBatch(k, v, large, user) ==
    LET pos   == Len(vlogs[head].recs) + 1
        file  == [vlogs[head] EXCEPT !.recs = Append(@, [key |-> k, val |-> v])]
        batch == [seq |-> visible + 1, key |-> k, val |-> v, user |-> user,
                  file |-> IF large THEN head ELSE Inline, pos |-> IF large THEN pos ELSE 0]
    IN  /\ vlogs' = IF ~large THEN vlogs
                    ELSE [vlogs EXCEPT ![head] = IF opts.sync = "always" THEN Synced(file) ELSE file]
        /\ \E t \in {FALSE, wals[wal].torn} :
             wals' = [wals EXCEPT ![wal].recs = Append(@, batch), ![wal].torn = t]
        /\ inflight' = <<batch>>
        /\ gray' = gray \cup {batch}

\* A client's batch.  The bg_error check lies before write_mu, so one writer
\* may still get through after the store degraded.
Write(k, large) ==
    /\ phase = "up" /\ inflight = <<>> /\ visible < opts.seq
    /\ ~bgError \/ late
    /\ AppendBatch(k, <<crashes, visible + 1>>, large, TRUE)
    /\ late' = FALSE
    /\ UNCHANGED <<ssts, manifest, aside, phase, wal, tree, vlogVars, nextId, pinning, gc,
                   bgError, failures, acked, promised>>

\* Leaving the sealed WAL unsynced.
RotatedUnsealed(ws) == With(ws, nextId, EmptyWal)

\* rotate_memtable_locked: seal the WAL, then start a fresh one.
Rotated(ws) == With([ws EXCEPT ![wal] = Synced(@)], nextId, EmptyWal)

\* Memtable::insert: an equal internal key is replaced.
Insert(recs, r) == {q \in recs : <<q.key, q.seq>> # <<r.key, r.seq>>} \cup {r}

\* The WAL as it stands when the batch is acknowledged: fsynced in Always mode.
WalAtAck == IF opts.sync = "always" THEN [wals EXCEPT ![wal] = Synced(@)] ELSE wals

Acknowledge ==
    /\ visible' = inflight[1].seq
    /\ acked' = Insert(acked, inflight[1])
    /\ gray' = gray \ {inflight[1]}
    /\ promised' = IF opts.sync = "always" THEN Insert(promised, inflight[1]) ELSE promised
    /\ inflight' = <<>>

HeadIsFull == Len(vlogs[head].recs) >= opts.vlog_file_size

\* The rest of the critical section: WAL fsync, memtable insert, publication,
\* and the rotations that are due (a sealed file is fsynced).
Published ==
    /\ inflight # <<>>
    /\ LET mem1 == Insert(mem, inflight[1])
           full == Cardinality(mem1) >= opts.memtable_size
           turn == HeadIsFull
           id2  == IF full THEN nextId + 1 ELSE nextId
       IN  /\ mem' = IF full THEN {} ELSE mem1
           /\ imms' = IF full THEN <<[wal |-> wal, recs |-> mem1]>> \o imms ELSE imms
           /\ wals' = IF full THEN Rotated(WalAtAck) ELSE WalAtAck
           /\ wal' = IF full THEN nextId ELSE wal
           /\ vlogs' = IF turn THEN With([vlogs EXCEPT ![head] = Synced(@)], id2, EmptyVlog)
                               ELSE vlogs
           /\ head' = IF turn THEN id2 ELSE head
           /\ vmap' = IF turn THEN vmap \cup {id2} ELSE vmap
           /\ nextId' = IF turn THEN id2 + 1 ELSE id2
    /\ Acknowledge
    /\ UNCHANGED <<ssts, manifest, aside, phase, retired, obsolete, pinning, gc>>

Publish == Published /\ UNCHANGED <<unlisted, bgError, late, failures>>

\* sync_wal, the barrier of Periodic's timer and of the caller: the head, then
\* the WAL.
SyncWal ==
    /\ phase = "up" /\ inflight = <<>> /\ ~bgError
    /\ vlogs' = [vlogs EXCEPT ![head] = Synced(@)]
    /\ wals' = [wals EXCEPT ![wal] = Synced(@)]
    /\ promised' = acked
    /\ UNCHANGED <<ssts, manifest, aside, phase, wal, tree, vlogVars, nextId, pinning, inflight,
                   gc, bgError, late, failures, acked, gray>>

\* The memtable and its WAL are frozen, behind fresh ones.
Freeze ==
    /\ wals' = Rotated(wals)
    /\ wal' = nextId
    /\ nextId' = nextId + 1
    /\ imms' = <<[wal |-> wal, recs |-> mem]>> \o imms
    /\ mem' = {}
    /\ UNCHANGED <<vlogs, ssts, manifest, phase, visible, vlogVars, pinning, inflight, gc,
                   bgError, late, failures, history>>

\* force_rotate (flush): any non-empty memtable is frozen, bg_error or not.
ForceRotate ==
    /\ phase = "up" /\ inflight = <<>> /\ mem # {}
    /\ Freeze
    /\ UNCHANGED aside

-----------------------------------------------------------------------------
(* I/O failures                                                            *)

Fails ==
    /\ faults < opts.faults
    /\ faults' = faults + 1
    /\ UNCHANGED <<crashes, cached, exposed>>

\* set_bg_error.  A writer of another thread may have passed the check.
Degrade(ownThreadIsCommitter) ==
    /\ bgError' = TRUE
    /\ late' \in IF ownThreadIsCommitter THEN {FALSE} ELSE BOOLEAN

\* The batch in flight ends with an error; a failed relocation ends its pass.
Abort ==
    /\ inflight' = <<>>
    /\ gc' = IF inflight[1].user THEN gc ELSE <<>>
    /\ Degrade(opts.sync = "always" /\ inflight[1].user)

Logged(ws) == UNION {Range(ws[id].recs) : id \in DOMAIN ws}

\* The batch failed before its record was complete: at the value log, where an
\* orphan stays behind, or at the WAL, with a torn remnant that is no record.
AppendFails ==
    /\ inflight # <<>> /\ Fails /\ Abort
    /\ \E t \in {wals[wal].torn, TRUE} :
         wals' = [wals EXCEPT ![wal].recs = Front(@), ![wal].torn = t]
    /\ gray' = IF inflight[1] \in Logged(wals') THEN gray ELSE gray \ {inflight[1]}
    /\ UNCHANGED <<vlogs, ssts, manifest, aside, phase, wal, tree, vlogVars, nextId, pinning,
                   acked, promised>>

\* The WAL fsync failed: the record is there, unacknowledged, perhaps durable.
SyncFails ==
    /\ inflight # <<>> /\ opts.sync = "always" /\ Fails /\ Abort
    /\ UNCHANGED <<disk, aside, phase, wal, tree, vlogVars, nextId, pinning, history>>

\* The rotation after a write fails when the new WAL exists: the batch stands,
\* the old WAL stays active and the store degrades.
PublishRotateFails ==
    /\ inflight # <<>> /\ Fails
    /\ mem' = Insert(mem, inflight[1])
    /\ Cardinality(mem') >= opts.memtable_size
    /\ wals' = Rotated(WalAtAck)
    /\ nextId' = nextId + 1
    /\ Degrade(opts.sync = "always" /\ inflight[1].user)
    /\ Acknowledge
    /\ UNCHANGED <<vlogs, ssts, manifest, aside, phase, wal, imms, vlogVars, pinning, gc>>

\* The rotation of the value log fails at the directory sync: the head is
\* already the new file, which no Version lists until the store is reopened.
\* Later records of this life point into it all the same: a late writer's, and
\* those a running GC pass relocates.
PublishHeadFails ==
    /\ Published /\ HeadIsFull /\ Fails
    /\ unlisted' = unlisted \cup {head'}
    /\ Degrade(opts.sync = "always" /\ inflight[1].user)

\* force_rotate fails after create_new: the old WAL stays active beside a
\* newer, empty one.  flush() returns the error; bg_error is not set.
RotateFails ==
    /\ phase = "up" /\ inflight = <<>> /\ mem # {} /\ Fails
    /\ wals' = Rotated(wals)
    /\ nextId' = nextId + 1
    /\ UNCHANGED <<vlogs, ssts, manifest, aside, phase, wal, tree, vlogVars, pinning, inflight,
                   gc, bgError, late, history>>

\* The flush failed after its table was written; the thread retries later.
FlushFails ==
    /\ phase = "up" /\ imms # <<>> /\ Fails
    /\ ssts' = ssts \cup {nextId}
    /\ nextId' = nextId + 1
    /\ Degrade(FALSE)
    /\ UNCHANGED <<wals, vlogs, manifest, aside, phase, wal, tree, vlogVars, pinning, inflight,
                   gc, history>>

-----------------------------------------------------------------------------
(* Flush                                                                   *)

\* Every WAL up to the memtable's own is covered by tables.
FloorAfter(imm) == imm.wal + 1

\* flush_one: the head is fsynced, so that no durable table holds a pointer to
\* a value that is not; the table is written; one manifest write records the
\* run and the new WAL floor; then the memtable is dropped and the covered WALs
\* are unlinked.  A crash before the manifest write leaves the table alone.
Flush ==
    /\ phase \in {"up", "opened"} /\ imms # <<>>
    /\ vlogs' = [vlogs EXCEPT ![head] = Synced(@)]
    /\ ssts' = ssts \cup {nextId}
    /\ nextId' = nextId + 1
    /\ LET imm   == Last(imms)
           floor == Max({manifest.floor, FloorAfter(imm)})
       IN  /\ manifest' = [manifest EXCEPT
                 !.runs = @ \cup {[id |-> nextId, recs |-> imm.recs]},
                 !.flushed = Max({@} \cup {r.seq : r \in imm.recs}),
                 !.floor = floor,
                 !.next = nextId + 1]
           /\ wals' = Keep(wals, {id \in DOMAIN wals : id >= floor})
    /\ imms' = Front(imms)
    /\ UNCHANGED <<aside, phase, wal, mem, visible, vlogVars, pinning, inflight, gc, bgError,
                   late, failures, history>>

-----------------------------------------------------------------------------
(* Pins: the snapshots that outlive the process; what holds for them holds  *)
(* for the ones that do not                                                *)

\* pin: hold the state first, then make it durable, then record the pin.
PinBarrier ==
    /\ phase = "up" /\ inflight = <<>> /\ ~bgError /\ pinning = {}
    /\ Cardinality(manifest.pins) < opts.pins /\ visible \notin manifest.pins
    /\ pinning' = {visible}
    /\ vlogs' = [vlogs EXCEPT ![head] = Synced(@)]
    /\ wals' = [wals EXCEPT ![wal] = Synced(@)]
    /\ promised' = acked
    /\ UNCHANGED <<ssts, manifest, aside, phase, wal, tree, vlogVars, nextId, inflight,
                   gc, bgError, late, failures, acked, gray>>

PinCommit ==
    /\ pinning # {}
    /\ manifest' = [manifest EXCEPT !.pins = @ \cup pinning]
    /\ pinning' = {}
    /\ UNCHANGED <<wals, vlogs, ssts, aside, phase, wal, tree, vlogVars, nextId, inflight,
                   gc, bgError, late, failures, history>>

\* unpin: the removal is durable before the hold goes.
Unpin(s) ==
    /\ phase = "up" /\ s \in manifest.pins
    /\ manifest' = [manifest EXCEPT !.pins = @ \ {s}]
    /\ UNCHANGED <<wals, vlogs, ssts, aside, phase, wal, tree, vlogVars, nextId, pinning,
                   inflight, gc, bgError, late, failures, history>>

-----------------------------------------------------------------------------
(* Value-log garbage collection                                            *)

RetiredIds(rs) == {r.id : r \in rs}

\* gc_vlog: a victim among the sealed files that are not retired.  Which one,
\* by discard statistics or by sampling, is left open.
StartGc(v) ==
    /\ opts.gc /\ phase = "up" /\ gc = <<>> /\ ~bgError
    /\ v \in InVersion \ ({head} \cup RetiredIds(manifest.retired))
    /\ gc' = <<[victim |-> v, todo |-> DOMAIN vlogs[v].recs, synced |-> FALSE]>>
    /\ UNCHANGED <<disk, aside, phase, wal, tree, vlogVars, nextId, pinning, inflight, bgError,
                   late, failures, history>>

\* Liveness by key alone: the key still has a value, wherever it is.
PointsAtKey(r, v, i) == r.key = vlogs[v].recs[i].key

\* A record is live if the newest version of its key points exactly at it.
PointsAt(r, v, i) == r.file = v /\ r.pos = i

\* One record, probed and moved under write_mu; bg_error is not looked at.
Relocate(i) ==
    /\ gc # <<>> /\ inflight = <<>>
    /\ LET v == gc[1].victim
           x == vlogs[v].recs[i]
       IN  /\ i \in gc[1].todo
           /\ gc' = [gc EXCEPT ![1].todo = @ \ {i}]
           /\ IF \E r \in Newest(Contents, x.key, visible) : PointsAt(r, v, i)
              THEN visible < opts.seq /\ AppendBatch(x.key, x.val, TRUE, FALSE)
              ELSE UNCHANGED <<wals, vlogs, inflight, gray>>
    /\ UNCHANGED <<ssts, manifest, aside, phase, wal, tree, vlogVars, nextId, pinning, bgError,
                   late, failures, acked, promised>>

\* The relocations are made durable before the manifest disowns the victim.
GcBarrier ==
    /\ gc # <<>> /\ inflight = <<>>
    /\ gc[1].todo = {} /\ ~gc[1].synced
    /\ gc' = [gc EXCEPT ![1].synced = TRUE]
    /\ vlogs' = [vlogs EXCEPT ![head] = Synced(@)]
    /\ wals' = [wals EXCEPT ![wal] = Synced(@)]
    /\ promised' = acked
    /\ UNCHANGED <<ssts, manifest, aside, phase, wal, tree, vlogVars, nextId, pinning, inflight,
                   bgError, late, failures, acked, gray>>

\* Retirement at S, the visible seqno now; the victim stays resolvable.
Retire ==
    /\ gc # <<>> /\ gc[1].synced
    /\ LET r == [id |-> gc[1].victim, at |-> visible]
       IN  /\ manifest' = [manifest EXCEPT !.live = @ \ {r.id}, !.retired = @ \cup {r}]
           /\ retired' = retired \cup {r}
    /\ gc' = <<>>
    /\ UNCHANGED <<wals, vlogs, ssts, aside, phase, wal, tree, head, vmap, unlisted, obsolete,
                   nextId, pinning, inflight, bgError, late, failures, history>>

\* Deletion gates: no reader at or below S, and everything up to S in tables.
Deletable(r) == Watermark > r.at /\ manifest.flushed >= r.at

ProcessRetired ==
    LET ready == {r \in retired : Deletable(r)}
    IN  /\ phase = "up" /\ ready # {}
        /\ retired' = retired \ ready
        /\ manifest' = [manifest EXCEPT !.retired = @ \ ready]
        /\ vmap' = vmap \ RetiredIds(ready)
        /\ obsolete' = obsolete \cup RetiredIds(ready)
        /\ UNCHANGED <<wals, vlogs, ssts, aside, phase, wal, tree, head, unlisted, nextId,
                       pinning, inflight, gc, bgError, late, failures, history>>

\* VlogFileHandle::drop, some time after: the last pinned Version went away.
\* The view a fork is built from pins one.
Unlink(id) ==
    /\ id \in obsolete
    /\ \A b \in Range(building) : b.taken => id \notin b.vmap
    /\ obsolete' = obsolete \ {id}
    /\ vlogs' = Keep(vlogs, (DOMAIN vlogs) \ {id})
    /\ UNCHANGED <<wals, ssts, manifest, aside, phase, wal, tree, head, vmap, unlisted, retired,
                   nextId, pinning, inflight, gc, bgError, late, failures, history>>

-----------------------------------------------------------------------------
(* Crash and recovery                                                      *)

\* The records of a file that are on the disk itself, not in the page cache.
OnDisk(files, id) ==
    IF id \in DOMAIN cached /\ cached[id] < files[id].synced THEN cached[id] ELSE files[id].synced
Unsynced(files) == {id \in DOMAIN files : OnDisk(files, id) < Len(files[id].recs)}

\* What a power loss leaves of the files: the durable records, perhaps more.
Survivals(files) ==
    {n \in [Unsynced(files) -> UNION {0 .. Len(files[id].recs) : id \in Unsynced(files)}] :
        \A id \in DOMAIN n : n[id] \in OnDisk(files, id) .. Len(files[id].recs)}
After(files, n) ==
    [id \in DOMAIN files |->
        IF id \in DOMAIN n
        THEN [files[id] EXCEPT !.recs = SubSeq(@, 1, n[id]), !.synced = n[id]] ELSE files[id]]

\* A WAL that lost records may end in part of the next one.
Shortened(n) == {id \in DOMAIN n : n[id] < Len(wals[id].recs)}
WalsAfter(n, torn) ==
    [id \in DOMAIN wals |->
        [After(wals, n)[id] EXCEPT !.torn = IF id \in Shortened(n) \cup {wal} THEN id \in torn ELSE @]]

\* Were they records that a killed process had left to the page cache?
Exposes(files, n) == \E id \in DOMAIN n : n[id] < files[id].synced

\* The process is gone, and its memory.  A flush may have got as far as its
\* table.
ProcessEnds ==
    /\ phase \notin {"down", "failed"} /\ crashes < opts.crashes
    /\ phase' = "down"
    /\ crashes' = crashes + 1
    /\ mem' = {} /\ imms' = <<>> /\ visible' = 0
    /\ wal' = 0 /\ head' = 0 /\ vmap' = {} /\ retired' = {} /\ obsolete' = {} /\ nextId' = 0
    /\ unlisted' = {} /\ pinning' = {} /\ inflight' = <<>> /\ gc' = <<>>
    /\ bgError' = FALSE /\ late' = FALSE
    /\ ssts' \in {ssts, IF imms = <<>> THEN ssts ELSE ssts \cup {nextId}}
    /\ building' = <<>>
    /\ UNCHANGED <<manifest, opts, archives, faults, history>>

\* A power loss, or a crash of the machine.
Crash ==
    /\ ProcessEnds
    /\ \E n \in Survivals(wals), m \in Survivals(vlogs) :
         /\ \E torn \in SUBSET (Shortened(n) \cup {wal}) :
              /\ wal \in torn => wals[wal].torn \/ wal \in Shortened(n)
              /\ wals' = WalsAfter(n, torn)
         /\ vlogs' = After(vlogs, m)
         /\ exposed' = (exposed \/ Exposes(wals, n) \/ Exposes(vlogs, m))
    /\ cached' = <<>>

AllOf(files) == [id \in Unsynced(files) |-> Len(files[id].recs)]

\* The death of the process alone: what it wrote stays in the page cache, where
\* the next open finds it, but for part of the WAL record it was writing.
Kill ==
    /\ opts.kills /\ ProcessEnds
    /\ \E torn \in SUBSET {wal}, n \in {AllOf(wals)} \cup
           (IF inflight = <<>> THEN {} ELSE {[AllOf(wals) EXCEPT ![wal] = @ - 1]}) :
         /\ IF Shortened(n) = {} THEN wal \in torn <=> wals[wal].torn ELSE TRUE
         /\ wals' = WalsAfter(n, torn)
    /\ vlogs' = After(vlogs, AllOf(vlogs))
    /\ cached' = [id \in Unsynced(wals) \cup Unsynced(vlogs) |->
                     IF id \in DOMAIN wals THEN OnDisk(wals, id) ELSE OnDisk(vlogs, id)]
    /\ UNCHANGED exposed

\* Vlog files of the new store: the manifest's, the retired ones still there,
\* and young ones, made after the manifest's head was recorded.
Young == {id \in DOMAIN vlogs : id >= manifest.head} \ RetiredIds(manifest.retired)
Adopted == manifest.live \cup (RetiredIds(manifest.retired) \cap DOMAIN vlogs) \cup Young

\* Replay reads the WALs from the floor up, oldest first: <<id, i>> is the i-th
\* record of WAL id, or, one past its last, the mark of a file that ends in
\* bytes that are no record.
ReplayIds == {id \in DOMAIN wals : id >= manifest.floor}
Marks(id) == 1 .. Len(wals[id].recs) + (IF wals[id].torn THEN 1 ELSE 0)
Replay == UNION {{<<id, i>> : i \in Marks(id)} : id \in ReplayIds}
Before(p, q) == p[1] < q[1] \/ (p[1] = q[1] /\ p[2] < q[2])

TornAt(p) == p[2] > Len(wals[p[1]].recs)
RecAt(p) == wals[p[1]].recs[p[2]]

\* A record that points into a file nobody knows.
UnknownFile(p) == ~TornAt(p) /\ RecAt(p).file # Inline /\ RecAt(p).file \notin Adopted

\* A record that points into a young file that does not hold its value: the
\* payload never became durable.
Missing(p) ==
    /\ ~TornAt(p) /\ RecAt(p).file \in Young
    /\ ~\E i \in DOMAIN vlogs[RecAt(p).file].recs :
          i = RecAt(p).pos /\ vlogs[RecAt(p).file].recs[i].key = RecAt(p).key

\* Replay ends at the first place it cannot take; what comes after is lost.
Bad(p) == TornAt(p) \/ Missing(p) \/ UnknownFile(p)
ReplayEnd(ps) == {p \in ps : Bad(p) /\ \A q \in ps : Bad(q) => ~Before(q, p)}
Taken(ps) == {p \in ps : \A q \in ps : Bad(q) => Before(p, q)}

\* Stepping over what cannot be replayed.
ReplayedSkipping(ps) == {RecAt(p) : p \in {p \in ps : ~TornAt(p) /\ ~Missing(p)}}

\* An internal key seen twice keeps what was replayed last.
SameKey(r, q) == r.key = q.key /\ r.seq = q.seq
ReplayedRecs(ps) ==
    {RecAt(p) : p \in {p \in Taken(ps) :
        \A q \in Taken(ps) : Before(p, q) => ~SameKey(RecAt(p), RecAt(q))}}

\* Damage the open refuses: a torn WAL that is not the newest one, a pointer
\* into an unknown file, a file the manifest names and the disk has not.
Refused(ps) ==
    \/ ~(manifest.live \subseteq DOMAIN vlogs)
    \/ ~({r.id : r \in manifest.runs} \subseteq ssts)
    \/ \E p \in ReplayEnd(ps) : UnknownFile(p) \/ (TornAt(p) /\ p[1] # Max(ReplayIds))

\* The id counter as the manifest has it.
RecoveredNextIdFromManifest == Max({1, manifest.next})

\* The id counter must clear every file found, orphans included.
RecoveredNextId ==
    Max({1, manifest.next} \cup {id + 1 : id \in Young \cup (DOMAIN wals) \cup ssts})

\* Leaving a torn tail in place.
TruncatedNever(ps) == wals

\* A torn tail of the newest WAL is cut off before that WAL stops being newest.
Truncated(ps) ==
    [id \in DOMAIN wals |->
        [wals[id] EXCEPT !.torn = @ /\ \A p \in ReplayEnd(ps) : TornAt(p) => p[1] # id]]

OpenFails ==
    /\ phase' = "failed"
    /\ UNCHANGED <<disk, aside, wal, tree, vlogVars, nextId, pinning, inflight, gc, bgError,
                   late, failures, history>>

\* open_inner_with up to the recovery flush.  A file id that is taken, or a pin
\* above the recovered head, refuses the open.
OpenReplay ==
    /\ phase = "down"
    /\ \E ps \in {Replay} : \E recs \in {ReplayedRecs(ps)}, id \in {RecoveredNextId} :
         LET top == Max({manifest.flushed} \cup {r.seq : r \in recs})
         IN  IF \/ Refused(ps) \/ \E s \in manifest.pins : s > top
                \/ id \in DOMAIN vlogs \/ id + 1 \in DOMAIN wals
             THEN OpenFails
             ELSE /\ wals' = With(Truncated(ps), id + 1, EmptyWal)
                  /\ vlogs' = With(vlogs, id, EmptyVlog)
                  /\ phase' = "opened"
                  /\ wal' = id + 1 /\ head' = id /\ nextId' = id + 2
                  /\ vmap' = Adopted \cup {id}
                  /\ retired' = {r \in manifest.retired : r.id \in DOMAIN vlogs}
                  /\ imms' = IF recs = {} THEN <<>> ELSE <<[wal |-> Max(ReplayIds), recs |-> recs]>>
                  /\ visible' = top
                  /\ acked' = Flushed \cup recs
                  /\ promised' = Flushed \cup recs
                  /\ gray' = {r \in gray \cap acked' : \E q \in acked' : q.key = r.key /\ q.seq > r.seq}
                  /\ cached' = Keep(cached, {x \in DOMAIN cached :
                                                x \in DOMAIN wals => Truncated(ps)[x] = wals[x]})
                  /\ UNCHANGED <<ssts, manifest, aside, mem, unlisted, obsolete, pinning,
                                 inflight, gc, bgError, late, crashes, faults, exposed>>

\* Once the recovered memtable is flushed: the open-completion manifest.
OpenComplete ==
    /\ phase = "opened" /\ imms = <<>>
    /\ phase' = "sweep"
    /\ manifest' = [manifest EXCEPT !.floor = wal, !.head = head, !.next = nextId,
                                    !.live = vmap \ RetiredIds(manifest.retired)]
    /\ wals' = Keep(wals, {id \in DOMAIN wals : id >= wal})
    /\ UNCHANGED <<vlogs, ssts, aside, wal, tree, vlogVars, nextId, pinning, inflight, gc,
                   bgError, late, failures, history>>

\* startup_gc: files no durable state refers to.
StartupGc ==
    /\ phase = "sweep"
    /\ phase' = "up"
    /\ ssts' = {r.id : r \in manifest.runs}
    /\ vlogs' = Keep(vlogs, manifest.live \cup RetiredIds(manifest.retired))
    /\ wals' = Keep(wals, {id \in DOMAIN wals : id >= manifest.floor})
    /\ UNCHANGED <<manifest, aside, wal, tree, vlogVars, nextId, pinning, inflight, gc, bgError,
                   late, failures, history>>

-----------------------------------------------------------------------------
\* init_fresh: an empty directory with its first manifest, not yet opened.
Init ==
    /\ wals = <<>> /\ vlogs = <<>> /\ ssts = {}
    /\ manifest = [next |-> 1, flushed |-> 0, floor |-> 0, runs |-> {}, live |-> {}, head |-> 0,
                   retired |-> {}, pins |-> {}]
    /\ opts \in OptionSets /\ phase = "down" /\ wal = 0 /\ mem = {} /\ imms = <<>>
    /\ head = 0 /\ vmap = {} /\ retired = {} /\ obsolete = {} /\ nextId = 0 /\ visible = 0
    /\ pinning = {} /\ inflight = <<>> /\ gc = <<>>
    /\ bgError = FALSE /\ late = FALSE /\ crashes = 0 /\ faults = 0
    /\ unlisted = {} /\ cached = <<>> /\ exposed = FALSE
    /\ acked = {} /\ promised = {} /\ gray = {} /\ building = <<>> /\ archives = {}

Next ==
    \/ \E k \in opts.keys, large \in opts.large : Write(k, large)
    \/ Publish \/ SyncWal \/ ForceRotate \/ Flush
    \/ AppendFails \/ SyncFails \/ PublishRotateFails \/ PublishHeadFails \/ RotateFails \/ FlushFails
    \/ PinBarrier \/ PinCommit
    \/ \E s \in manifest.pins : Unpin(s)
    \/ \E v \in vmap : StartGc(v)
    \/ \E i \in 1 .. opts.vlog_file_size : Relocate(i)
    \/ GcBarrier \/ Retire \/ ProcessRetired
    \/ \E id \in obsolete : Unlink(id)
    \/ Crash \/ Kill \/ OpenReplay \/ OpenComplete \/ StartupGc

Spec == Init /\ [][Next]_vars

-----------------------------------------------------------------------------
(* Properties                                                              *)

Serving == phase \in {"opened", "sweep", "up"}

\* Every variable has its type.
TypeOK ==
    /\ \A id \in DOMAIN wals : wals[id].synced \in 0 .. Len(wals[id].recs)
    /\ \A id \in DOMAIN vlogs : vlogs[id].synced \in 0 .. Len(vlogs[id].recs)
    /\ phase \in {"down", "opened", "sweep", "up", "failed"}
    /\ visible \in 0 .. MaxSeq
    /\ Serving => wal \in DOMAIN wals /\ head \in DOMAIN vlogs /\ vmap \subseteq DOMAIN vlogs
    /\ Serving => \A id \in (DOMAIN wals) \cup (DOMAIN vlogs) \cup ssts : id < nextId

\* What the store promised to keep it keeps: every batch acknowledged in
\* Always mode, and in the relaxed modes every batch acknowledged before a
\* barrier (sync_wal, a pin, a GC pass), whatever failed before the crash.
\* What one recovery found is kept through the next crash.  This property and
\* the ones below end where a power loss takes records that an earlier death of
\* the process alone had left to the page cache: recovery takes them for
\* durable and fsyncs none of them.
PromisesKept ==
    [][~exposed' =>
         /\ phase = "down" /\ phase' = "opened" => promised \subseteq acked'
         /\ Serving' => promised' \subseteq Contents']_vars

\* Recovery finds a prefix: nothing that was never written, and no batch whose
\* acknowledged predecessor is lost.
RecoversPrefix ==
    [][phase = "down" /\ phase' = "opened" /\ ~exposed =>
         /\ acked' \subseteq acked \cup gray
         /\ \A lost \in acked \ acked', r \in acked' : r.seq < lost.seq]_vars

Readable == {s \in 0 .. MaxSeq : s <= visible /\ (s >= Watermark \/ s = visible)}

\* What the users made of a key at s: the value of the last acknowledged write,
\* or of a failed one after it that recovery brought back.
Truth(k, s) ==
    LET written == {u \in acked : u.user /\ u.key = k /\ u.seq <= s}
    IN  {u.val : u \in {u \in written : \A q \in written : u.seq < q.seq => q \in gray}}

\* Every state a reader can ask for is readable: the newest version of a key
\* points into a file that can be looked up and is there, at a record of that
\* key, and its value is the one the users wrote last, however often GC moved
\* it.  A victim deleted early or a stale value relocated over a newer one would
\* break it.  A file that a failed rotation left unlisted is excepted, in that
\* only the next open can look it up: the value is there all the same.
ReadsResolve ==
    Serving /\ ~exposed => \A s \in Readable, k \in Keys : \A r \in Newest(Contents, k, s) :
        /\ r.file # Inline =>
             /\ r.file \in InVersion \cup (unlisted \cap DOMAIN vlogs)
             /\ r.pos \in DOMAIN vlogs[r.file].recs
             /\ vlogs[r.file].recs[r.pos] = [key |-> k, val |-> r.val]
        /\ r.val \in Truth(k, s)

\* A degraded store goes on serving its readers what was acknowledged.  ("get,
\* iter and snapshots keep serving what is there", docs/p/durability.md.)
DegradedStoreServes ==
    Serving => \A s \in Readable, k \in Keys : \A r \in Newest(Contents, k, s) :
        r.file # Inline => r.file \in InVersion

\* "No durable SST pointer without a durable payload, in every sync mode"
\* (DESIGN.md): the tables of the manifest point at values that are fsynced.
PayloadsBehindTables ==
    \A r \in Flushed : r.file \in DOMAIN vlogs => r.pos <= OnDisk(vlogs, r.file)

\* Only a failed I/O call can make an open fail: no crash, at any point of a
\* write, a rotation, a flush, a GC pass or a recovery, damages the store.
DamageNeedsFailure == phase = "failed" /\ ~exposed => faults > 0

\* The same of any crashes, of the process or of the machine, in any order.
\* ("In every mode the store reopens consistent", docs/p/durability.md.)
CrashesDoNoDamage == phase = "failed" => faults > 0

\* Every open succeeds, also after an I/O failure: recovery brings the store
\* back to its last durable state.
ReopenSucceeds == phase # "failed"
=============================================================================

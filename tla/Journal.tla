------------------------------- MODULE Journal -------------------------------
(***************************************************************************)
(* The opt-in mutation journal: attach and re-attach, the base snapshot,   *)
(* deltas drained from the stream, rotation, compaction and pruning, lag   *)
(* healing, I/O failures, crashes that leave a torn tail - and rebuild,    *)
(* the function from a journal directory to a database.                    *)
(*                                                                         *)
(* A record is [t, seq, key, val]; a size is a number of records.  fsync   *)
(* of a new file makes its name durable, and unlinks reach the disk in     *)
(* order: the code relies on both.                                         *)
(***************************************************************************)
EXTENDS Stream

CONSTANTS
    RotateAt,   \* rotate_bytes, in records
    MaxEvents   \* bound: crashes, I/O failures, detaches and compactions together

ASSUME JournalAssumption == RotateAt \in Nat /\ RotateAt > 1 /\ MaxEvents \in Nat

VARIABLES
    jfiles,     \* log files by id: records, how many are fsynced, torn remnant?
    jpc,        \* what the drainer does next
    jret,       \* where it returns to after a rotation
    anchor,     \* the file that holds the newest base
    promised,   \* history: a base snapshot has been made durable
    reported,   \* history: the highest sequence number reported durable
    events      \* crashes, failures, detaches and compactions so far

journalVars == <<jfiles, jpc, jret, anchor, promised, reported, events>>
sourceVars == <<epoch, hist, published, flushed, held, gcVars>>

NoKey == 0
Hdr == [t |-> "hdr", seq |-> 0, key |-> NoKey, val |-> Absent]
Checkpoint(s) == [Hdr EXCEPT !.t = "cp", !.seq = s]
BaseEnd(s) == [Hdr EXCEPT !.t = "end", !.seq = s]
Base(k, v) == [Hdr EXCEPT !.t = "base", !.key = k, !.val = v]
Delta(s) == [t |-> "delta", seq |-> s, key |-> ops[s].key, val |-> ops[s].val]

NewFile == [recs |-> <<Hdr>>, synced |-> 0, torn |-> FALSE]
Active == Max(DOMAIN jfiles)
SyncedFile(f) == [f EXCEPT !.synced = Len(f.recs)]
Appended(rs) == [jfiles EXCEPT ![Active].recs = @ \o rs]
\* Reporting without the fsync.
SyncSkipped == jfiles

\* LogWriter::sync
SyncActive == [jfiles EXCEPT ![Active] = SyncedFile(@)]
Full(fs) == Len(fs[Active].recs) >= RotateAt

JournalInit ==
    /\ jfiles = <<>> /\ jpc = "off" /\ jret = "loop" /\ anchor = 0
    /\ promised = FALSE /\ reported = 0 /\ events = 0

-----------------------------------------------------------------------------
(* Attaching                                                               *)

\* A torn tail left in place.
RepairedNot(f) == f

\* LogWriter::open drops a torn tail before anything is appended after it.
Repaired(f) == [SyncedFile(f) EXCEPT !.torn = FALSE]

\* LogWriter::open: a fresh directory starts with a header; an existing one
\* must open with a header, and its newest file is repaired.
Open ==
    /\ jpc \in {"off", "stopped"}
    /\ \/ /\ jfiles = <<>>
          /\ jfiles' = <<NewFile>> /\ jpc' = "header" /\ jret' = "fresh"
       \/ /\ jfiles # <<>> /\ jfiles[Min(DOMAIN jfiles)].recs # <<>>
          /\ jfiles' = [jfiles EXCEPT ![Active] = Repaired(@)]
          /\ jpc' = "again" /\ UNCHANGED jret
       \/ /\ jfiles # <<>> /\ jfiles[Min(DOMAIN jfiles)].recs = <<>>
          /\ jpc' = "refused" /\ UNCHANGED <<jfiles, jret>>
    /\ UNCHANGED <<streamVars, anchor, promised, reported, events>>

\* Subscribe first, so that no commit slips between the base and the stream;
\* a journal that is not fresh is compacted.
SubscribeForBase ==
    /\ jpc \in {"fresh", "again"} /\ CanSubscribe
    /\ sub' = Subscription
    /\ jpc' = IF jpc = "fresh" THEN "base" ELSE "rotate"
    /\ jret' = "base"
    /\ UNCHANGED <<sourceVars, jfiles, anchor, promised, reported, events>>

-----------------------------------------------------------------------------
(* Base snapshots, rotation and compaction                                 *)

\* rotate: the old file is fsynced, the next one is created ...
Rotate ==
    /\ jpc = "rotate"
    /\ jfiles' = [i \in (DOMAIN jfiles) \cup {Active + 1} |->
                    CASE i = Active -> SyncedFile(jfiles[i])
                      [] i = Active + 1 -> NewFile
                      [] OTHER -> jfiles[i]]
    /\ jpc' = "header"
    /\ UNCHANGED <<streamVars, jret, anchor, promised, reported, events>>

\* ... and durable through its header.
SyncHeader ==
    /\ jpc = "header"
    /\ jfiles' = SyncActive /\ jpc' = jret
    /\ UNCHANGED <<streamVars, jret, anchor, promised, reported, events>>

BaseRecords(s) ==
    LET live == {k \in Scope : ValueAt(ops, k, s) # Absent}
        keys == Ascending(live)
    IN  [i \in DOMAIN keys |-> Base(keys[i], ValueAt(ops, keys[i], s))]

\* write_base_snapshot: one span, never split by a rotation.
WriteBase ==
    /\ jpc = "base"
    /\ jfiles' = Appended(<<Checkpoint(visible)>> \o BaseRecords(visible) \o <<BaseEnd(visible)>>)
    /\ anchor' = Active
    /\ jpc' = "sync"
    /\ UNCHANGED <<streamVars, jret, promised, reported, events>>

SyncBase ==
    /\ jpc = "sync"
    /\ jfiles' = SyncActive /\ promised' = TRUE
    /\ IF Full(jfiles) THEN jpc' = "rotate" /\ jret' = "prune" ELSE jpc' = "prune" /\ UNCHANGED jret
    /\ UNCHANGED <<streamVars, anchor, reported, events>>

\* The base is reported durable, then what it supersedes goes, oldest first.
Prune ==
    /\ jpc = "prune"
    /\ LET old == {i \in DOMAIN jfiles : i < anchor}
           cut == Max({r.seq : r \in {x \in Range(jfiles[anchor].recs) : x.t = "end"}})
       IN  /\ reported' = Max({reported, cut})
           /\ IF old = {} THEN jpc' = "loop" /\ UNCHANGED jfiles
              ELSE /\ jfiles' = [i \in (DOMAIN jfiles) \ {Min(old)} |-> jfiles[i]]
                   /\ UNCHANGED jpc
    /\ UNCHANGED <<streamVars, jret, anchor, promised, events>>

-----------------------------------------------------------------------------
(* The drainer                                                             *)

Idle == jpc = "loop" /\ sub.taken = <<>> /\ sub.batch = <<>>

\* compact, requested or because the deltas outgrew the base.
Compact ==
    /\ Idle /\ events < MaxEvents
    /\ events' = events + 1
    /\ jpc' = "rotate" /\ jret' = "base"
    /\ UNCHANGED <<streamVars, jfiles, anchor, promised, reported>>

Receive == jpc = "loop" /\ (Drain \/ Resolve) /\ UNCHANGED journalVars

\* write_deltas appends one record at a time, rotating on the way ...
AppendDelta ==
    /\ jpc \in {"loop", "deltas"} /\ sub.batch # <<>>
    /\ jfiles' = Appended(<<Delta(Head(sub.batch))>>)
    /\ sub' = [sub EXCEPT !.batch = Tail(@)]
    /\ IF Full(jfiles') THEN jpc' = "rotate" /\ jret' = "deltas" ELSE jpc' = "deltas" /\ UNCHANGED jret
    /\ UNCHANGED <<sourceVars, anchor, promised, reported, events>>

\* ... and fsyncs and reports at the end of the batch.
SyncDeltas ==
    /\ jpc = "deltas" /\ sub.batch = <<>>
    /\ jfiles' = SyncActive
    /\ reported' = Max({reported, sub.pin})
    /\ jpc' = "loop"
    /\ UNCHANGED <<streamVars, jret, anchor, promised, events>>

\* heal_lag without the new base.
HealedWithoutBase == "loop"

\* After a cut the hole is covered by a new base.
Healed == "rotate"

HealLag ==
    /\ jpc = "loop" /\ Lagged /\ ~sub.failed /\ CanSubscribe
    /\ sub' = Subscription
    /\ jpc' = Healed /\ jret' = "base"
    /\ UNCHANGED <<sourceVars, jfiles, anchor, promised, reported, events>>

\* Drop: the last records are fsynced; what is still queued is forgotten.
Detach ==
    /\ Idle /\ events < MaxEvents
    /\ events' = events + 1
    /\ jfiles' = SyncActive /\ jpc' = "off" /\ sub' = NoSub
    /\ UNCHANGED <<sourceVars, jret, anchor, promised, reported>>

-----------------------------------------------------------------------------
(* Failures and crashes                                                    *)

\* What may be left of the active file's unsynced tail, a torn record last.
Leftovers(f) ==
    {g \in {[f EXCEPT !.recs = SubSeq(@, 1, n), !.torn = b] :
               n \in f.synced..Len(f.recs), b \in BOOLEAN} :
        g.torn => f.torn \/ Len(g.recs) < Len(f.recs)}
Images == IF jfiles = <<>> THEN {jfiles}
          ELSE {[jfiles EXCEPT ![Active] = f] : f \in Leftovers(jfiles[Active])}

\* record_error: the journal stops and is stale until it is re-attached.
Fail ==
    /\ jpc \in {"rotate", "header", "sync", "deltas"} /\ events < MaxEvents
    /\ events' = events + 1
    /\ jfiles' \in Images
    /\ jpc' = "stopped" /\ sub' = NoSub
    /\ UNCHANGED <<sourceVars, jret, anchor, promised, reported>>

\* A crash takes the unsynced tail of the log, and perhaps of the source.
Crash(cut) ==
    /\ events < MaxEvents /\ published = visible
    /\ events' = events + 1
    /\ \E img \in Images : jfiles' = [i \in DOMAIN img |-> SyncedFile(img[i])]
    /\ jpc' = "off" /\ jret' = "loop" /\ anchor' = 0
    /\ epoch' = epoch + 1 /\ hist' = Append(hist, SubSeq(ops, 1, cut))
    /\ published' = cut /\ sub' = NoSub
    /\ reported' = Min({reported, cut})
    /\ UNCHANGED <<flushed, held, gcVars, promised>>

JournalStep == Open \/ SubscribeForBase \/ Rotate \/ SyncHeader \/ WriteBase \/ SyncBase
               \/ Prune \/ Receive \/ AppendDelta \/ SyncDeltas \/ HealLag
JournalEvents == Compact \/ Detach \/ Fail
                 \/ \E cut \in {0} \cup {ops[s].commit : s \in 1..visible} : Crash(cut)

-----------------------------------------------------------------------------
(* rebuild                                                                 *)

\* read_all_records: contiguous ids, a header first, a tear only at the end.
Chain(img) ==
    /\ img # <<>> /\ DOMAIN img = Min(DOMAIN img)..Max(DOMAIN img)
    /\ \A i \in DOMAIN img : /\ img[i].torn => i = Max(DOMAIN img)
                             /\ img[i].recs # <<>> => img[i].recs[1] = Hdr
AllRecords(img) ==
    LET ids == Ascending(DOMAIN img)
    IN  FlattenSeq([n \in DOMAIN ids |-> img[ids[n]].recs])

\* find_last_complete_checkpoint: the last base-end that closes a checkpoint.
Ends(rs) ==
    {e \in DOMAIN rs : rs[e].t = "end" /\
        \E c \in 1..e : rs[c].t = "cp" /\ \A j \in c..(e - 1) : rs[j].t # "end"}

Refused == [ok |-> FALSE, state |-> <<>>, base |-> 0, last |-> 0, past |-> FALSE]

\* rebuild: the last complete base, then the deltas after it put over it in
\* order.  "past": the deltas have got past the base, or have not begun.
Rebuild(img) ==
    LET rs    == AllRecords(img)
        end   == Max(Ends(rs))
        start == Max({c \in 1..end : rs[c].t = "cp"})
        span  == (start + 1)..(end - 1)
        ds    == SelectSeq(SubSeq(rs, end + 1, Len(rs)), LAMBDA r : r.t = "delta")
        last  == Max({rs[end].seq} \cup {r.seq : r \in Range(ds)})
        Value(k) == LET over == {i \in DOMAIN ds : ds[i].key = k}
                        base == {i \in span : rs[i].t = "base" /\ rs[i].key = k}
                    IN  CASE over # {} -> ds[Max(over)].val
                          [] over = {} /\ base # {} -> rs[Max(base)].val
                          [] OTHER -> Absent
    IN  IF /\ Chain(img) /\ rs # <<>> /\ Ends(rs) # {}
           /\ \A j \in span : rs[j].t \in {"base", "hdr"}
           /\ \A i \in 1..(Len(ds) - 1) : ds[i].seq < ds[i + 1].seq
        THEN [ok |-> TRUE, state |-> [k \in Scope |-> Value(k)], base |-> rs[end].seq,
              last |-> last, past |-> ds # <<>> => last = Last(ds).seq]
        ELSE Refused

\* The rebuilt database is the source, in one of its lives, at the number the
\* RebuildReport gives.
IsSourceAtLast(db) ==
    \E e \in DOMAIN hist : db.last <= Len(hist[e]) /\ db.state = StateAt(hist[e], db.last)

-----------------------------------------------------------------------------
(* Properties                                                              *)

\* Once a base has been durable, every state a crash could leave the journal
\* directory in - amid a rotation, a compaction, a prune, a heal, a batch, a
\* re-attach after a torn tail - is accepted by rebuild.
JournalAlwaysRebuilds == promised => \A img \in Images : Rebuild(img).ok

\* What rebuild makes of any such directory reaches everything that was ever
\* reported durable, and is the source's state at the number it reports,
\* as long as the deltas it holds reach past the base.
JournalKeepsReported ==
    promised => \A img \in Images :
        LET db == Rebuild(img)
        IN  db.ok => db.last >= reported /\ (db.past => IsSourceAtLast(db))

\* rebuild reconstructs the source's keyspace as of the last durable record.
JournalRebuildsACut ==
    promised => \A img \in Images :
        LET db == Rebuild(img) IN db.ok => IsSourceAtLast(db)

\* A journal that keeps running ends up with everything its source holds.
JournalCatchesUp ==
    <>[](\/ jpc \in {"stopped", "refused"}
         \/ LET db == Rebuild(jfiles) IN db.ok /\ db.state = StateAt(ops, visible))
=============================================================================

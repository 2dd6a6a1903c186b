-------------------------------- MODULE Forks --------------------------------
(***************************************************************************)
(* Forks of a store (fork.rs): an archive directory holding the tables and *)
(* value-log files of one cut, made while writes, flushes, value-log GC    *)
(* and file deletion go on, over the store of Durability.                  *)
(***************************************************************************)
EXTENDS Durability

forkVars == <<building, archives>>
store == <<disk, phase, wal, tree, vlogVars, nextId, pinning, inflight, gc, bgError, late,
           failures, history>>

\* create, step 1: flush() freezes the memtable, if there is anything in it.
\* asked is the head the caller saw, which the flush must cover.
ForkBegin ==
    /\ phase = "up" /\ inflight = <<>> /\ ~bgError
    /\ building = <<>> /\ Cardinality(archives) < opts.forks
    /\ building' = <<[asked |-> visible, drained |-> FALSE, taken |-> FALSE]>>
    /\ IF mem = {} THEN UNCHANGED store ELSE Freeze
    /\ UNCHANGED <<opts, archives>>

\* ... and waits until no frozen memtable is left.
ForkDrained ==
    /\ building # <<>> /\ imms = <<>> /\ ~bgError
    /\ ~building[1].drained
    /\ building' = [building EXCEPT ![1].drained = TRUE]
    /\ UNCHANGED <<store, opts, archives>>

\* The state recs hold at a cut: the newest version of each key.
StateAt(recs, cut) == UNION {Newest(recs, k, cut) : k \in {r.key : r \in recs}}

\* The cuts a fork can be made at: the flushed head, always intact, or a point
\* below it that no GC has passed.
Cuts ==
    {c \in 0 .. manifest.flushed :
        c = manifest.flushed \/ (c <= visible /\ (c >= Watermark \/ c = visible))}

\* create, step 2: under the manifest lock the view is pinned and the cut
\* registered, so that no file of the view can go before the archive is built.
ForkCut(cut) ==
    /\ building # <<>> /\ building[1].drained /\ ~building[1].taken
    /\ building' = <<[asked |-> building[1].asked, drained |-> TRUE, taken |-> TRUE,
                      cut |-> cut, point |-> cut < manifest.flushed,
                      recs |-> Flushed, vmap |-> vmap, unlisted |-> unlisted,
                      truth |-> [k \in Keys |-> Truth(k, cut)]]>>
    /\ UNCHANGED <<store, opts, archives>>

\* Linking the tables of a point cut as they are.
TablesOfView(b) == b.recs

\* The archive's tables: of a head cut, the view's own; of a point cut, one new
\* run with the newest version of each key at or below the cut.
TablesOf(b) == IF b.point THEN StateAt(b.recs, b.cut) ELSE b.recs

\* The value-log files of the archive: all that the view lists, retired ones
\* included.
FilesOf(b) == b.vmap \ b.unlisted

\* create, steps 3 and 4: the head is fsynced, the sealed files are linked and
\* the head's written prefix is copied into a temporary directory; one rename
\* publishes it.  A crash before leaves a directory the next open sweeps.
ForkPublish ==
    /\ building # <<>> /\ building[1].taken
    /\ LET synced == [vlogs EXCEPT ![head] = Synced(@)]
           b      == building[1]
       IN  /\ vlogs' = synced
           /\ archives' = archives \cup
                {[cut |-> b.cut, point |-> b.point, asked |-> b.asked, truth |-> b.truth,
                  recs |-> TablesOf(b), vlogs |-> Keep(synced, FilesOf(b)),
                  unlisted |-> b.unlisted]}
    /\ building' = <<>>
    /\ UNCHANGED <<opts, wals, ssts, manifest, phase, wal, tree, vlogVars, nextId, pinning,
                   inflight, gc, bgError, late, failures, history>>

\* Any error on the way: TmpDirGuard removes the directory, CutPin the hold.
ForkFails ==
    /\ building # <<>>
    /\ building' = <<>>
    /\ UNCHANGED <<store, opts, archives>>

ForkNext ==
    \/ ForkBegin \/ ForkDrained \/ ForkPublish \/ ForkFails
    \/ \E cut \in Cuts : ForkCut(cut)

ForkSpec == Init /\ [][Next \/ ForkNext]_vars

-----------------------------------------------------------------------------
\* Every archive stands on its own: it holds, for each key, what a reader of
\* the source at the cut would have read, nothing above the cut, and each
\* pointer resolves among its own durable files; a head cut covers all that was
\* visible when the fork was asked for.  Deletion racing the build, a rotation
\* of the head under it or a hold that comes late would break it.  A view taken
\* after a rotation of the value log failed lacks the unlisted file, and so does
\* the archive.
ArchivesAreCuts ==
    ~exposed => \A a \in archives :
        /\ \A r \in a.recs : r.seq <= a.cut
        /\ a.point \/ a.cut >= a.asked
        /\ LET current == StateAt(a.recs, a.cut)
           IN  /\ {r.key : r \in current} = {k \in Keys : a.truth[k] # {}}
               /\ \A r \in current : r.val \in a.truth[r.key]
               /\ \A r \in current : r.file \notin {Inline} \cup a.unlisted =>
                     /\ r.file \in DOMAIN a.vlogs
                     /\ r.pos \in 1 .. a.vlogs[r.file].synced
                     /\ a.vlogs[r.file].recs[r.pos] = [key |-> r.key, val |-> r.val]
=============================================================================

--------------------------- MODULE DurabilityProofs ---------------------------
(***************************************************************************)
(* Proofs about the files of Durability and Forks, for every set of stores *)
(* and every bound: file ids are never used twice, only the active WAL and *)
(* the head have anything that is not taken to be fsynced, and what a      *)
(* manifest, a version or a GC pass names is on disk.                      *)
(***************************************************************************)
EXTENDS Forks, SortedProofs

-----------------------------------------------------------------------------
(* Types                                                                   *)

Batch ==
    [seq : 1 .. MaxSeq, key : Keys, val : Nat \X Nat, user : BOOLEAN, file : Nat, pos : Nat]
Payload == [key : Keys, val : Nat \X Nat]
WalFile == [recs : Seq(Batch), synced : Nat, torn : BOOLEAN]
VlogFile == [recs : Seq(Payload), synced : Nat]
Run == [id : Nat, recs : SUBSET Batch]
Frozen == [wal : Nat, recs : SUBSET Batch]
Retirement == [id : Nat, at : 0 .. MaxSeq]
ManifestData ==
    [next : Nat, flushed : 0 .. MaxSeq, floor : Nat, runs : SUBSET Run, live : SUBSET Nat,
     head : Nat, retired : SUBSET Retirement, pins : SUBSET (0 .. MaxSeq)]
Pass == [victim : Nat, todo : SUBSET Nat, synced : BOOLEAN]

FileTypes(files, Kind) ==
    /\ files \in [DOMAIN files -> Kind]
    /\ DOMAIN files \in SUBSET Nat /\ IsFiniteSet(DOMAIN files)
    /\ \A id \in DOMAIN files : files[id].synced <= Len(files[id].recs)

DiskTypes ==
    /\ FileTypes(wals, WalFile)
    /\ FileTypes(vlogs, VlogFile)
    /\ ssts \in SUBSET Nat /\ IsFiniteSet(ssts)
    /\ manifest \in ManifestData

MemoryTypes ==
    /\ opts \in OptionSets
    /\ phase \in {"down", "opened", "sweep", "up", "failed"}
    /\ wal \in Nat /\ head \in Nat /\ nextId \in Nat /\ visible \in 0 .. MaxSeq
    /\ mem \in SUBSET Batch /\ imms \in Seq(Frozen)
    /\ vmap \in SUBSET Nat /\ obsolete \in SUBSET Nat /\ retired \in SUBSET Retirement
    /\ pinning \in SUBSET (0 .. MaxSeq)
    /\ inflight = <<>> \/ \E b \in Batch : inflight = <<b>>
    /\ gc = <<>> \/ (DOMAIN gc = {1} /\ gc[1] \in Pass)
    /\ bgError \in BOOLEAN /\ late \in BOOLEAN /\ crashes \in Nat /\ faults \in Nat
    /\ acked \in SUBSET Batch /\ promised \in SUBSET Batch /\ gray \in SUBSET Batch
    /\ cached \in [DOMAIN cached -> Nat]

\* What a phase has nothing of.
Phases ==
    /\ phase # "up" => /\ mem = {} /\ obsolete = {} /\ pinning = {}
                       /\ inflight = <<>> /\ gc = <<>> /\ building = <<>>
    /\ phase \notin {"up", "opened"} => imms = <<>>

\* The file ids of a serving store.
Ids ==
    Serving =>
      /\ \A id \in DOMAIN wals : id < nextId
      /\ \A id \in DOMAIN vlogs : id <= head
      /\ \A id \in ssts : id < nextId
      /\ manifest.next <= nextId /\ 0 < head /\ head < nextId
      /\ wal \in DOMAIN wals /\ manifest.floor <= wal
      /\ \A id \in DOMAIN wals : id > wal => wals[id].recs = <<>> /\ ~wals[id].torn
      /\ \A i \in DOMAIN imms : imms[i].wal < wal
      /\ \A i, j \in DOMAIN imms : i < j => imms[j].wal < imms[i].wal

\* Only the active WAL and the head have anything that is not fsynced.
Sealed ==
    /\ \A id \in DOMAIN wals : ~(Serving /\ id = wal) => wals[id].synced = Len(wals[id].recs)
    /\ \A id \in DOMAIN vlogs : ~(Serving /\ id = head) => vlogs[id].synced = Len(vlogs[id].recs)
    /\ inflight # <<>> => wals[wal].synced < Len(wals[wal].recs)

\* The value-log files a manifest, a version and a GC pass name.
ValueFiles ==
    /\ Inline \notin DOMAIN vlogs /\ manifest.live \subseteq DOMAIN vlogs
    /\ RetiredIds(manifest.retired) \subseteq DOMAIN vlogs
    /\ manifest.live \cap RetiredIds(manifest.retired) = {}
    /\ \A r, q \in manifest.retired : r.id = q.id => r = q
    /\ \A r \in manifest.runs : r.id \in ssts
    /\ manifest.head <= manifest.next /\ manifest.floor <= manifest.next
    /\ Serving =>
        /\ head \in vmap /\ vmap \subseteq DOMAIN vlogs /\ manifest.head <= head
        /\ head \notin RetiredIds(manifest.retired)
        /\ retired = manifest.retired /\ RetiredIds(manifest.retired) \subseteq vmap
        /\ vmap \cap obsolete = {} /\ manifest.live \cap obsolete = {}
        /\ obsolete \subseteq DOMAIN vlogs
    /\ phase = "sweep" => vmap \subseteq manifest.live \cup RetiredIds(manifest.retired)
    /\ ~Serving => \A v \in DOMAIN vlogs : v < manifest.next \/ \E h \in Young : v <= h
    /\ gc # <<>> => /\ gc[1].victim \in vmap \ (RetiredIds(manifest.retired) \cup {head})
                    /\ gc[1].todo \subseteq DOMAIN vlogs[gc[1].victim].recs

FilesInv == DiskTypes /\ MemoryTypes /\ Phases /\ Ids /\ Sealed /\ ValueFiles

-----------------------------------------------------------------------------
(* Operations on files                                                     *)

\* Keep leaves the files it is told to.
LEMMA KeepIs ==
  ASSUME NEW f, NEW ids
  PROVE  /\ DOMAIN Keep(f, ids) = (DOMAIN f) \cap ids
         /\ \A id \in (DOMAIN f) \cap ids : Keep(f, ids)[id] = f[id]
BY DEF Keep

\* g is f with the file id added or put in place of the one there was.
Updated(f, g, id, file) ==
    /\ DOMAIN g = (DOMAIN f) \cup {id} /\ g[id] = file
    /\ \A i \in DOMAIN f : i # id => g[i] = f[i]
    /\ g = [i \in DOMAIN g |-> g[i]]

\* With adds or replaces one file.
LEMMA WithUpdates ==
  ASSUME NEW f, NEW id, NEW file
  PROVE  Updated(f, With(f, id, file), id, file)
BY DEF With, Updated

\* Fewer files have their types.
LEMMA KeepTyped ==
  ASSUME NEW f, NEW Kind, FileTypes(f, Kind), NEW ids
  PROVE  FileTypes(Keep(f, ids), Kind)
<1> DEFINE g == Keep(f, ids)
<1>1. DOMAIN g = (DOMAIN f) \cap ids /\ \A id \in DOMAIN g : g[id] = f[id]
  BY KeepIs
<1>2. g \in [DOMAIN g -> Kind]
  BY DEF FileTypes, Keep
<1>3. IsFiniteSet(DOMAIN g) /\ DOMAIN g \in SUBSET Nat
  BY <1>1, FS_Subset DEF FileTypes
<1> QED  BY <1>1, <1>2, <1>3 DEF FileTypes

\* One more file, or a new state of one, has its type.
LEMMA UpdatedTyped ==
  ASSUME NEW f, NEW g, NEW Kind, FileTypes(f, Kind), NEW id \in Nat, NEW file \in Kind,
         file.synced <= Len(file.recs), Updated(f, g, id, file)
  PROVE  FileTypes(g, Kind)
<1>1. g \in [DOMAIN g -> Kind]
  BY DEF FileTypes, Updated
<1>2. IsFiniteSet(DOMAIN g) /\ DOMAIN g \in SUBSET Nat
  BY FS_AddElement DEF FileTypes, Updated
<1> QED  BY <1>1, <1>2 DEF FileTypes, Updated

\* A file that is fsynced has its type.
LEMMA SyncedWal ==
  ASSUME NEW f \in WalFile
  PROVE  /\ Synced(f) \in WalFile /\ Synced(f).recs = f.recs
         /\ Synced(f).synced = Len(f.recs) /\ Synced(f).torn = f.torn /\ Len(f.recs) \in Nat
BY LenProperties DEF Synced, WalFile

\* A value-log file fsynced.
LEMMA SyncedVlog ==
  ASSUME NEW f \in VlogFile
  PROVE  /\ Synced(f) \in VlogFile /\ Synced(f).recs = f.recs
         /\ Synced(f).synced = Len(f.recs) /\ Len(f.recs) \in Nat
BY LenProperties DEF Synced, VlogFile

\* A new file.
LEMMA EmptyFiles ==
  /\ EmptyWal \in WalFile /\ EmptyWal.recs = <<>> /\ EmptyWal.synced = 0
  /\ ~EmptyWal.torn /\ EmptyVlog \in VlogFile /\ EmptyVlog.recs = <<>> /\ EmptyVlog.synced = 0
  /\ Len(<<>>) = 0
BY DEF EmptyWal, EmptyVlog, WalFile, VlogFile

-----------------------------------------------------------------------------
(* Every step keeps the types and the order of the files                   *)

\* What a serving store has at hand: an active WAL and a head.
LEMMA ActiveFiles ==
  ASSUME FilesInv, Serving
  PROVE  /\ wal \in DOMAIN wals /\ wals[wal] \in WalFile /\ wal \in Nat
         /\ head \in DOMAIN vlogs /\ vlogs[head] \in VlogFile /\ head \in Nat
         /\ nextId \in Nat /\ nextId \notin DOMAIN wals /\ nextId \notin DOMAIN vlogs
         /\ wal < nextId /\ 0 < head /\ head < nextId
BY DEF FilesInv, Ids, ValueFiles, DiskTypes, MemoryTypes, FileTypes

\* What is busy says that the store is up.
LEMMA BusyIsUp ==
  ASSUME FilesInv, inflight # <<>> \/ gc # <<>> \/ pinning # {} \/ building # <<>> \/ mem # {}
  PROVE  phase = "up" /\ Serving
BY DEF FilesInv, Phases, Serving

\* The options are of their kind.
LEMMA OptionsTyped ==
  ASSUME FilesInv
  PROVE  /\ opts.sync \in {"always", "relaxed"} /\ opts.memtable_size \in Nat
         /\ opts.vlog_file_size \in Nat /\ opts.large \in SUBSET BOOLEAN
         /\ opts.keys \in SUBSET Keys /\ opts.seq \in 0 .. MaxSeq /\ MaxSeq \in Nat
BY DurabilityAssumption DEF FilesInv, MemoryTypes, OptionFields

\* A pass whose victim and list are as before, or shorter.
GcKept ==
    \/ gc' = gc
    \/ gc' = <<>>
    \/ /\ gc # <<>> /\ gc' # <<>> /\ gc'[1] \in Pass /\ DOMAIN gc' = {1}
       /\ gc'[1].victim = gc[1].victim /\ gc'[1].todo \subseteq gc[1].todo

\* Fsyncing the head and the active WAL keeps everything but what is synced.
SyncBoth ==
    /\ vlogs' = [vlogs EXCEPT ![head] = Synced(@)]
    /\ wals' = [wals EXCEPT ![wal] = Synced(@)]

\* Both files of a barrier change in nothing but what is fsynced.
LEMMA SyncBothUpdates ==
  ASSUME FilesInv, Serving, SyncBoth
  PROVE  Updated(wals, wals', wal, Synced(wals[wal])) /\ Updated(vlogs, vlogs', head, Synced(vlogs[head]))
BY ActiveFiles DEF SyncBoth, Updated, FilesInv, DiskTypes, FileTypes

\* sync_wal, pin's barrier and the GC barrier.
LEMMA SyncFilesKept ==
  ASSUME FilesInv, SyncWal \/ PinBarrier \/ GcBarrier
  PROVE  FilesInv'
<1>1. Serving /\ phase = "up" /\ inflight = <<>> /\ SyncBoth
  BY BusyIsUp DEF SyncWal, PinBarrier, GcBarrier, SyncBoth, Serving
<1>2. /\ Updated(wals, wals', wal, Synced(wals[wal]))
      /\ Updated(vlogs, vlogs', head, Synced(vlogs[head]))
  BY <1>1, SyncBothUpdates
<1>3. /\ Synced(wals[wal]) \in WalFile /\ Synced(wals[wal]).recs = wals[wal].recs
      /\ Synced(wals[wal]).synced = Len(wals[wal].recs) /\ Synced(wals[wal]).torn = wals[wal].torn
      /\ Synced(vlogs[head]) \in VlogFile /\ Synced(vlogs[head]).recs = vlogs[head].recs
      /\ Synced(vlogs[head]).synced = Len(vlogs[head].recs)
      /\ Len(wals[wal].recs) \in Nat /\ Len(vlogs[head].recs) \in Nat
  BY <1>1, ActiveFiles, SyncedWal, SyncedVlog
<1>4. /\ UNCHANGED <<ssts, manifest, aside, phase, wal, tree, vlogVars, nextId, inflight,
                     bgError, late, failures, acked, gray>>
      /\ promised' = acked
      /\ pinning' \in {pinning, {visible}}
      /\ gc' = gc \/ (gc # <<>> /\ gc' = [gc EXCEPT ![1].synced = TRUE])
  BY DEF SyncWal, PinBarrier, GcBarrier
<1>g. GcKept
  <2>1. CASE gc' = gc
    BY <2>1 DEF GcKept
  <2>2. CASE gc # <<>> /\ gc' = [gc EXCEPT ![1].synced = TRUE]
    <3>1. DOMAIN gc = {1} /\ gc[1] \in Pass
      BY <2>2 DEF FilesInv, MemoryTypes
    <3>2. DOMAIN gc' = {1} /\ gc'[1] = [gc[1] EXCEPT !.synced = TRUE]
      BY <2>2, <3>1
    <3>3. gc' # <<>>
      BY <3>2
    <3> QED  BY <2>2, <3>1, <3>2, <3>3 DEF GcKept, Pass
  <2> QED  BY <1>4, <2>1, <2>2
<1>5. DiskTypes'
  BY <1>1, <1>2, <1>3, <1>4, ActiveFiles, UpdatedTyped DEF FilesInv, DiskTypes
<1>6. MemoryTypes'
  BY <1>4, <1>g DEF FilesInv, MemoryTypes, aside, tree, vlogVars, failures, GcKept
<1>7. Phases' /\ Ids'
  BY <1>1, <1>2, <1>3, <1>4, ActiveFiles DEF FilesInv, Phases, Ids, Serving, tree, vlogVars, Updated, aside
<1>8. Sealed'
  BY <1>1, <1>2, <1>3, <1>4, ActiveFiles DEF FilesInv, Sealed, Serving, tree, vlogVars, Updated
<1>9. ValueFiles'
  BY <1>1, <1>2, <1>3, <1>4, <1>g, ActiveFiles
     DEF FilesInv, ValueFiles, Serving, tree, vlogVars, Updated, GcKept
<1> QED  BY <1>5, <1>6, <1>7, <1>8, <1>9 DEF FilesInv
\* What appending the batch b does to the files.
Appends(b, large) ==
    /\ b \in Batch /\ inflight' = <<b>> /\ b.seq = visible + 1
    /\ Updated(wals, wals', wal, wals'[wal]) /\ wals'[wal] \in WalFile
    /\ wals'[wal].recs = Append(wals[wal].recs, b) /\ wals'[wal].synced = wals[wal].synced
    /\ wals'[wal].torn => wals[wal].torn
    /\ Updated(vlogs, vlogs', head, vlogs'[head]) /\ vlogs'[head] \in VlogFile
    /\ large => /\ b.file = head /\ b.pos = Len(vlogs[head].recs) + 1
                /\ vlogs'[head].recs = Append(vlogs[head].recs, [key |-> b.key, val |-> b.val])
                /\ vlogs'[head].synced >= vlogs[head].synced
                /\ vlogs'[head].synced <= Len(vlogs[head].recs) + 1
                /\ opts.sync = "always" => vlogs'[head].synced = Len(vlogs[head].recs) + 1
    /\ ~large => b.file = Inline /\ vlogs' = vlogs
    /\ gray' = gray \cup {b}

\* AppendBatch, field by field.
LEMMA AppendIs ==
  ASSUME FilesInv, phase = "up", visible < opts.seq, NEW k \in Keys, NEW v \in Nat \X Nat,
         NEW large \in BOOLEAN, NEW user \in BOOLEAN, AppendBatch(k, v, large, user)
  PROVE  Appends(inflight'[1], large) /\ inflight'[1].key = k /\ inflight'[1].val = v
         /\ inflight'[1].user = user
<1> DEFINE pos   == Len(vlogs[head].recs) + 1
           file  == [vlogs[head] EXCEPT !.recs = Append(@, [key |-> k, val |-> v])]
           b == [seq |-> visible + 1, key |-> k, val |-> v, user |-> user,
                 file |-> IF large THEN head ELSE Inline, pos |-> IF large THEN pos ELSE 0]
<1>1. /\ wal \in DOMAIN wals /\ wals[wal] \in WalFile /\ wal \in Nat
      /\ head \in DOMAIN vlogs /\ vlogs[head] \in VlogFile /\ head \in Nat
      /\ wals[wal].recs \in Seq(Batch) /\ vlogs[head].recs \in Seq(Payload)
      /\ Len(vlogs[head].recs) \in Nat /\ vlogs[head].synced <= Len(vlogs[head].recs)
  <2>1. Serving
    BY DEF Serving
  <2>2. /\ wal \in DOMAIN wals /\ wals[wal] \in WalFile /\ wal \in Nat
        /\ head \in DOMAIN vlogs /\ vlogs[head] \in VlogFile /\ head \in Nat
    BY <2>1, ActiveFiles
  <2>3. vlogs[head].synced <= Len(vlogs[head].recs)
    BY <2>2 DEF FilesInv, DiskTypes, FileTypes
  <2> QED  BY <2>2, <2>3, LenProperties DEF WalFile, VlogFile
<1>2. visible + 1 \in 1 .. MaxSeq /\ visible \in Nat
  <2>1. opts \in OptionSets /\ visible \in 0 .. MaxSeq
    BY DEF FilesInv, MemoryTypes
  <2> HIDE DEF pos, file, b
  <2> QED  BY <2>1, OptionsTyped
<1>3. /\ inflight' = <<b>> /\ gray' = gray \cup {b}
      /\ vlogs' = IF ~large THEN vlogs
                  ELSE [vlogs EXCEPT ![head] = IF opts.sync = "always" THEN Synced(file) ELSE file]
      /\ \E t \in {FALSE, wals[wal].torn} :
           wals' = [wals EXCEPT ![wal].recs = Append(@, b), ![wal].torn = t]
  BY DEF AppendBatch
<1>4. b \in Batch
  BY <1>1, <1>2 DEF Batch, Inline
<1>5. PICK t \in {FALSE, wals[wal].torn} :
        wals' = [wals EXCEPT ![wal].recs = Append(@, b), ![wal].torn = t]
  BY <1>3
<1>6. inflight'[1] = b
  BY <1>3
<1>7. /\ b.seq = visible + 1 /\ b.key = k /\ b.val = v /\ b.user = user
      /\ large => b.file = head /\ b.pos = pos
      /\ ~large => b.file = Inline
  OBVIOUS
<1>8. [key |-> k, val |-> v] \in Payload
  BY DEF Payload
<1> HIDE DEF b
<1>9. /\ wals \in [DOMAIN wals -> WalFile] /\ vlogs \in [DOMAIN vlogs -> VlogFile]
  BY DEF FilesInv, DiskTypes, FileTypes
<1>10. Append(wals[wal].recs, b) \in Seq(Batch)
  BY <1>1, <1>4, AppendProperties
<1>11. /\ Updated(wals, wals', wal, wals'[wal]) /\ wals'[wal] \in WalFile
       /\ wals'[wal].recs = Append(wals[wal].recs, b) /\ wals'[wal].synced = wals[wal].synced
       /\ wals'[wal].torn => wals[wal].torn
  BY <1>1, <1>5, <1>9, <1>10 DEF Updated, WalFile
<1>12. /\ file \in VlogFile /\ file.recs = Append(vlogs[head].recs, [key |-> k, val |-> v])
       /\ file.synced = vlogs[head].synced /\ Len(file.recs) = pos
  <2> DEFINE x == [key |-> k, val |-> v]
  <2>1. x \in Payload
    BY <1>8
  <2> HIDE DEF x
  <2>2. /\ Append(vlogs[head].recs, x) \in Seq(Payload)
        /\ Len(Append(vlogs[head].recs, x)) = pos
    BY <1>1, <2>1, AppendProperties
  <2>3. file = [vlogs[head] EXCEPT !.recs = Append(vlogs[head].recs, x)]
    BY DEF x
  <2>4. /\ file \in VlogFile /\ file.recs = Append(vlogs[head].recs, x)
        /\ file.synced = vlogs[head].synced
    BY <1>1, <2>2, <2>3 DEF VlogFile
  <2> QED  BY <2>2, <2>4 DEF x
<1> HIDE DEF file
<1>13. /\ Synced(file) \in VlogFile /\ Synced(file).recs = file.recs
       /\ Synced(file).synced = Len(file.recs)
  BY <1>12, SyncedVlog
<1>14. Updated(vlogs, vlogs', head, vlogs'[head]) /\ vlogs'[head] \in VlogFile
  BY <1>1, <1>3, <1>9, <1>12, <1>13 DEF Updated
<1>15. large => vlogs'[head] = IF opts.sync = "always" THEN Synced(file) ELSE file
  BY <1>1, <1>3
<1>16. large => /\ vlogs'[head].recs = Append(vlogs[head].recs, [key |-> b.key, val |-> b.val])
                /\ vlogs'[head].synced >= vlogs[head].synced
                /\ vlogs'[head].synced <= pos
                /\ opts.sync = "always" => vlogs'[head].synced = pos
  <2>1. vlogs[head].synced \in Nat /\ pos \in Nat
    BY <1>1 DEF VlogFile
  <2>2. CASE opts.sync = "always"
    BY <1>1, <1>7, <1>12, <1>13, <1>15, <2>1, <2>2
  <2>3. CASE opts.sync # "always"
    BY <1>1, <1>7, <1>12, <1>15, <2>1, <2>3, SMTT(30)
  <2> QED  BY <2>2, <2>3
<1> QED  BY <1>3, <1>4, <1>6, <1>7, <1>11, <1>14, <1>16 DEF Appends

\* Appending a batch.
LEMMA AppendFilesKept ==
  ASSUME FilesInv, phase = "up", NEW large \in BOOLEAN, Appends(inflight'[1], large), GcKept,
         UNCHANGED <<ssts, manifest, aside, phase, wal, tree, vlogVars, nextId, pinning,
                     bgError, failures, acked, promised>>,
         late' \in BOOLEAN
  PROVE  FilesInv'
<1> DEFINE b == inflight'[1]
<1>1. Serving
  BY DEF Serving
<1>2. /\ b \in Batch /\ inflight' = <<b>> /\ gray' = gray \cup {b}
      /\ Updated(wals, wals', wal, wals'[wal]) /\ wals'[wal] \in WalFile
      /\ wals'[wal].recs = Append(wals[wal].recs, b) /\ wals'[wal].synced = wals[wal].synced
      /\ Updated(vlogs, vlogs', head, vlogs'[head]) /\ vlogs'[head] \in VlogFile
  BY DEF Appends
<1> HIDE DEF b
<1>3. /\ wals[wal].recs \in Seq(Batch) /\ vlogs[head].recs \in Seq(Payload)
      /\ wals[wal].synced <= Len(wals[wal].recs) /\ vlogs[head].synced <= Len(vlogs[head].recs)
      /\ wals[wal].synced \in Nat /\ Len(wals[wal].recs) \in Nat /\ Len(vlogs[head].recs) \in Nat
      /\ Len(wals'[wal].recs) = Len(wals[wal].recs) + 1
  <2>1. /\ wals[wal].recs \in Seq(Batch) /\ vlogs[head].recs \in Seq(Payload)
        /\ wals[wal].synced <= Len(wals[wal].recs) /\ vlogs[head].synced <= Len(vlogs[head].recs)
        /\ wals[wal].synced \in Nat
    BY <1>1, ActiveFiles DEF FilesInv, DiskTypes, FileTypes, WalFile, VlogFile
  <2> QED  BY <1>2, <2>1, AppendProperties, LenProperties
<1>4. /\ vlogs'[head].synced <= Len(vlogs'[head].recs)
      /\ Len(vlogs[head].recs) <= Len(vlogs'[head].recs)
      /\ DOMAIN vlogs[head].recs \subseteq DOMAIN vlogs'[head].recs
  <2>1. CASE large
    <3>1. [key |-> b.key, val |-> b.val] \in Payload
      BY <1>2 DEF Batch, Payload
    <3>2. /\ vlogs'[head].recs = Append(vlogs[head].recs, [key |-> b.key, val |-> b.val])
          /\ vlogs'[head].synced <= Len(vlogs[head].recs) + 1
      BY <2>1 DEF Appends, b
    <3>3. /\ Len(vlogs'[head].recs) = Len(vlogs[head].recs) + 1
          /\ vlogs'[head].recs \in Seq(Payload)
      BY <1>3, <3>1, <3>2, AppendProperties
    <3> QED  BY <1>3, <3>2, <3>3, LenProperties
  <2>2. CASE ~large
    <3>1. vlogs' = vlogs
      BY <2>2 DEF Appends
    <3> QED  BY <1>3, <3>1
  <2> QED  BY <2>1, <2>2
<1>5. DiskTypes'
  <2>1. FileTypes(wals, WalFile)'
    BY <1>1, <1>2, <1>3, ActiveFiles, UpdatedTyped DEF FilesInv, DiskTypes
  <2>2. FileTypes(vlogs, VlogFile)'
    BY <1>1, <1>2, <1>4, ActiveFiles, UpdatedTyped DEF FilesInv, DiskTypes
  <2> QED  BY <2>1, <2>2 DEF FilesInv, DiskTypes
<1>6. MemoryTypes'
  BY <1>2 DEF FilesInv, MemoryTypes, aside, tree, vlogVars, failures, GcKept
<1>7. Phases' /\ Ids'
  <2>1. wals'[wal].torn \in BOOLEAN
    BY <1>2 DEF WalFile
  <2> QED  BY <1>1, <1>2, <2>1, ActiveFiles DEF FilesInv, Phases, Ids, Serving, tree, vlogVars, Updated, aside
<1>8. Sealed'
  BY <1>1, <1>2, <1>3, ActiveFiles DEF FilesInv, Sealed, Serving, tree, vlogVars, Updated
<1>9. ValueFiles'
  BY <1>1, <1>2, <1>4, ActiveFiles
     DEF FilesInv, ValueFiles, Serving, tree, vlogVars, Updated, GcKept
<1> QED  BY <1>5, <1>6, <1>7, <1>8, <1>9 DEF FilesInv

\* A client's batch.
LEMMA WriteFilesKept ==
  ASSUME FilesInv, NEW k \in opts.keys, NEW large \in opts.large, Write(k, large)
  PROVE  FilesInv'
<1>1. /\ phase = "up" /\ visible < opts.seq /\ AppendBatch(k, <<crashes, visible + 1>>, large, TRUE)
      /\ k \in Keys /\ large \in BOOLEAN /\ <<crashes, visible + 1>> \in Nat \X Nat
  <2>1. crashes \in Nat /\ visible \in Nat
    BY OptionsTyped DEF FilesInv, MemoryTypes
  <2>2. <<crashes, visible + 1>> \in Nat \X Nat
    BY <2>1
  <2> QED  BY <2>2, OptionsTyped DEF Write
<1>2. Appends(inflight'[1], large)
  BY <1>1, AppendIs
<1>3. /\ GcKept /\ late' \in BOOLEAN
      /\ UNCHANGED <<ssts, manifest, aside, phase, wal, tree, vlogVars, nextId, pinning,
                     bgError, failures, acked, promised>>
  BY DEF Write, GcKept
<1> QED  BY <1>1, <1>2, <1>3, AppendFilesKept

\* A record of the victim: its name, and what is taken off the list.
LEMMA RelocateIs ==
  ASSUME FilesInv, NEW i, Relocate(i)
  PROVE  /\ phase = "up" /\ Serving /\ GcKept /\ i \in gc[1].todo
         /\ vlogs[gc[1].victim].recs[i] \in Payload
<1>1. phase = "up" /\ Serving /\ gc # <<>> /\ i \in gc[1].todo
  BY BusyIsUp DEF Relocate
<1>2. DOMAIN gc = {1} /\ gc[1] \in Pass
  BY <1>1 DEF FilesInv, MemoryTypes
<1>3. gc' = [gc EXCEPT ![1].todo = @ \ {i}]
  BY DEF Relocate
<1>4. DOMAIN gc' = {1} /\ gc'[1] = [gc[1] EXCEPT !.todo = gc[1].todo \ {i}]
  BY <1>2, <1>3
<1>5. gc' # <<>>
  BY <1>4
<1>6. GcKept
  BY <1>1, <1>2, <1>4, <1>5 DEF GcKept, Pass
<1>7. vlogs[gc[1].victim].recs[i] \in Payload
  <2>1. /\ gc[1].victim \in DOMAIN vlogs /\ i \in DOMAIN vlogs[gc[1].victim].recs
        /\ vlogs[gc[1].victim].recs \in Seq(Payload)
    BY <1>1 DEF FilesInv, ValueFiles, DiskTypes, FileTypes, VlogFile
  <2> QED  BY <2>1, ElementOfSeq, LenProperties
<1> QED  BY <1>1, <1>6, <1>7

\* What a relocation leaves alone.
RelocateLeaves ==
    UNCHANGED <<ssts, manifest, aside, phase, wal, tree, vlogVars, nextId, pinning, bgError,
                late, failures, acked, promised>>

\* A relocation either appends a batch or leaves the record where it is.
LEMMA RelocateCases ==
  ASSUME FilesInv, NEW i, Relocate(i)
  PROVE  \/ /\ RelocateLeaves /\ UNCHANGED <<wals, vlogs, inflight, gray>>
         \/ /\ RelocateLeaves /\ Appends(inflight'[1], TRUE) /\ inflight = <<>>
            /\ LET x == vlogs[gc[1].victim].recs[i]
               IN  /\ inflight'[1].key = x.key /\ inflight'[1].val = x.val /\ ~inflight'[1].user
                   /\ \E r \in Newest(Contents, x.key, visible) : PointsAt(r, gc[1].victim, i)
<1> DEFINE x == vlogs[gc[1].victim].recs[i]
           live == \E r \in Newest(Contents, x.key, visible) : PointsAt(r, gc[1].victim, i)
<1>1. RelocateLeaves /\ inflight = <<>>
  BY DEF Relocate, RelocateLeaves
<1>2. /\ live => visible < opts.seq /\ AppendBatch(x.key, x.val, TRUE, FALSE)
      /\ ~live => UNCHANGED <<wals, vlogs, inflight, gray>>
  BY DEF Relocate
<1>3. x \in Payload /\ phase = "up"
  BY RelocateIs
<1> HIDE DEF x
<1>4. x.key \in Keys /\ x.val \in Nat \X Nat
  BY <1>3 DEF Payload
<1>5. CASE live
  <2>1. /\ Appends(inflight'[1], TRUE) /\ inflight'[1].key = x.key /\ inflight'[1].val = x.val
        /\ ~inflight'[1].user
    BY <1>2, <1>3, <1>4, <1>5, AppendIs
  <2> QED  BY <1>1, <1>5, <2>1 DEF x
<1>6. CASE ~live
  BY <1>1, <1>2, <1>6
<1> QED  BY <1>5, <1>6

\* A relocation.
LEMMA RelocateFilesKept ==
  ASSUME FilesInv, NEW i, Relocate(i)
  PROVE  FilesInv'
<1>1. phase = "up" /\ Serving /\ GcKept
  BY RelocateIs
<1>2. CASE RelocateLeaves /\ UNCHANGED <<wals, vlogs, inflight, gray>>
  <2>1. DiskTypes' /\ MemoryTypes' /\ Phases' /\ Ids'
    BY <1>1, <1>2 DEF FilesInv, DiskTypes, FileTypes, MemoryTypes, Phases, Ids, Serving, aside, tree,
                 vlogVars, failures, GcKept, RelocateLeaves
  <2>2. Sealed' /\ ValueFiles'
    BY <1>1, <1>2 DEF FilesInv, Sealed, ValueFiles, Serving, vlogVars, GcKept, RelocateLeaves
  <2> QED  BY <2>1, <2>2 DEF FilesInv
<1>3. CASE RelocateLeaves /\ Appends(inflight'[1], TRUE)
  <2>1. /\ late' \in BOOLEAN
        /\ UNCHANGED <<ssts, manifest, aside, phase, wal, tree, vlogVars, nextId, pinning,
                       bgError, failures, acked, promised>>
    BY <1>3 DEF RelocateLeaves, FilesInv, MemoryTypes
  <2> QED  BY <1>1, <1>3, <2>1, AppendFilesKept
<1> QED  BY <1>2, <1>3, RelocateCases

\* Pins, a GC pass that begins, and the forks' own steps.
LEMMA AsideFilesKept ==
  ASSUME FilesInv,
         \/ PinCommit \/ \E s \in manifest.pins : Unpin(s)
         \/ \E v \in vmap : StartGc(v)
         \/ ForkDrained \/ ForkFails \/ \E cut \in Cuts : ForkCut(cut)
  PROVE  FilesInv'
<1>1. CASE PinCommit \/ \E s \in manifest.pins : Unpin(s)
  <2>1. /\ phase = "up" /\ Serving
    BY <1>1, BusyIsUp DEF PinCommit, Unpin, Serving
  <2>2. /\ manifest' = [manifest EXCEPT !.pins = manifest'.pins] /\ manifest'.pins \in SUBSET (0 .. MaxSeq)
        /\ pinning' \in {pinning, {}}
        /\ UNCHANGED <<wals, vlogs, ssts, aside, phase, wal, tree, vlogVars, nextId,
                       inflight, gc, bgError, late, failures, history>>
    BY <1>1 DEF PinCommit, Unpin, FilesInv, DiskTypes, MemoryTypes, ManifestData
  <2>3. /\ manifest' \in ManifestData /\ manifest'.live = manifest.live
        /\ manifest'.retired = manifest.retired /\ manifest'.runs = manifest.runs
        /\ manifest'.head = manifest.head /\ manifest'.next = manifest.next
        /\ manifest'.floor = manifest.floor
    BY <2>2 DEF FilesInv, DiskTypes, ManifestData
  <2>4. DiskTypes' /\ MemoryTypes' /\ Phases' /\ Ids'
    BY <2>1, <2>2, <2>3 DEF FilesInv, DiskTypes, FileTypes, MemoryTypes, Phases, Ids, Serving, aside, tree,
                 vlogVars, failures, history
  <2>5. Sealed' /\ ValueFiles'
    BY <2>1, <2>2, <2>3 DEF FilesInv, Sealed, ValueFiles, Serving, vlogVars
  <2> QED  BY <2>4, <2>5 DEF FilesInv
<1>2. CASE \E v \in vmap : StartGc(v)
  <2>1. PICK v \in vmap : StartGc(v)
    BY <1>2
  <2>2. /\ phase = "up" /\ Serving /\ v \in vmap \ ({head} \cup RetiredIds(manifest.retired))
        /\ gc' = <<[victim |-> v, todo |-> DOMAIN vlogs[v].recs, synced |-> FALSE]>>
        /\ UNCHANGED <<disk, aside, phase, wal, tree, vlogVars, nextId, pinning, inflight, bgError,
                   late, failures, history>>
    BY <2>1 DEF StartGc, Serving
  <2>3. v \in DOMAIN vlogs /\ v \in Nat /\ DOMAIN vlogs[v].recs \in SUBSET Nat
    <3>1. v \in DOMAIN vlogs /\ v \in Nat /\ vlogs[v].recs \in Seq(Payload)
      BY <2>2 DEF FilesInv, ValueFiles, DiskTypes, FileTypes, VlogFile
    <3> QED  BY <3>1, LenProperties
  <2>4. [victim |-> v, todo |-> DOMAIN vlogs[v].recs, synced |-> FALSE] \in Pass
    BY <2>3 DEF Pass
  <2>5. DOMAIN gc' = {1} /\ gc'[1] = [victim |-> v, todo |-> DOMAIN vlogs[v].recs, synced |-> FALSE]
    BY <2>2
  <2>6. DiskTypes' /\ MemoryTypes' /\ Phases' /\ Ids'
    BY <2>2, <2>4, <2>5 DEF FilesInv, DiskTypes, FileTypes, MemoryTypes, Phases, Ids, Serving, aside, tree,
                 vlogVars, failures, history, disk
  <2>7. Sealed' /\ ValueFiles'
    BY <2>2, <2>3, <2>4, <2>5 DEF FilesInv, Sealed, ValueFiles, Serving, vlogVars, disk
  <2> QED  BY <2>6, <2>7 DEF FilesInv
<1>3. CASE ForkDrained \/ ForkFails \/ \E cut \in Cuts : ForkCut(cut)
  <2>1. /\ phase = "up" /\ Serving
    BY <1>3, BusyIsUp DEF ForkDrained, ForkFails, ForkCut
  <2>2. UNCHANGED <<store, opts>>
    BY <1>3 DEF ForkDrained, ForkFails, ForkCut
  <2>3. DiskTypes' /\ MemoryTypes' /\ Phases' /\ Ids'
    BY <2>1, <2>2 DEF FilesInv, DiskTypes, FileTypes, MemoryTypes, Phases, Ids, Serving, store, tree,
                 vlogVars, failures, history, disk
  <2>4. Sealed' /\ ValueFiles'
    BY <2>1, <2>2 DEF FilesInv, Sealed, ValueFiles, Serving, vlogVars, disk, store
  <2> QED  BY <2>3, <2>4 DEF FilesInv
<1> QED  BY <1>1, <1>2, <1>3

\* One retirement more.
LEMMA RetiredIdsOf ==
  /\ \A rs, ss : RetiredIds(rs \cup ss) = RetiredIds(rs) \cup RetiredIds(ss)
  /\ \A rs, ss : RetiredIds(rs \ ss) \subseteq RetiredIds(rs)
  /\ \A rs, r : r \in rs => r.id \in RetiredIds(rs)
  /\ \A rs : RetiredIds(rs) \ {} = {r.id : r \in rs}
BY DEF RetiredIds

\* Retirement moves the victim from the live files to the retired ones.
LEMMA RetireFilesKept ==
  ASSUME FilesInv, Retire
  PROVE  FilesInv'
<1> DEFINE r == [id |-> gc[1].victim, at |-> visible]
<1>1. /\ phase = "up" /\ Serving /\ gc # <<>>
  BY BusyIsUp DEF Retire
<1>2. r \in Retirement /\ r.id = gc[1].victim
  BY <1>1 DEF FilesInv, MemoryTypes, Pass, Retirement
<1>3. /\ manifest' = [manifest EXCEPT !.live = @ \ {r.id}, !.retired = @ \cup {r}]
      /\ retired' = retired \cup {r} /\ gc' = <<>>
      /\ UNCHANGED <<wals, vlogs, ssts, aside, phase, wal, tree, head, vmap, obsolete, nextId,
                   pinning, inflight, bgError, late, failures, history>>
  BY DEF Retire
<1> HIDE DEF r
<1>4. /\ manifest' \in ManifestData /\ manifest'.live = manifest.live \ {r.id}
      /\ manifest'.retired = manifest.retired \cup {r} /\ manifest'.runs = manifest.runs
      /\ manifest'.head = manifest.head /\ manifest'.next = manifest.next
      /\ manifest'.floor = manifest.floor
  <2>1. r.id \in Nat
    BY <1>2 DEF Retirement
  <2> QED  BY <1>2, <1>3, <2>1 DEF FilesInv, DiskTypes, ManifestData
<1>5. RetiredIds(manifest'.retired) = RetiredIds(manifest.retired) \cup {r.id}
  BY <1>4 DEF RetiredIds
<1>6. DiskTypes' /\ MemoryTypes' /\ Phases' /\ Ids'
  BY <1>1, <1>2, <1>3, <1>4 DEF FilesInv, DiskTypes, FileTypes, MemoryTypes, Phases, Ids, Serving, aside, tree,
                 failures, history
<1>7. /\ \A p, q \in manifest'.retired : p.id = q.id => p = q
      /\ manifest'.live \cap RetiredIds(manifest'.retired) = {}
  <2>1. r.id \notin RetiredIds(manifest.retired)
    BY <1>1, <1>2 DEF FilesInv, ValueFiles
  <2>2. \A q \in manifest.retired : q.id # r.id
    BY <2>1 DEF RetiredIds
  <2> QED  BY <1>4, <1>5, <2>1, <2>2 DEF FilesInv, ValueFiles
<1>8. Sealed'
  BY <1>1, <1>3 DEF FilesInv, Sealed, Serving
<1>9. /\ gc[1].victim \in vmap /\ gc[1].victim \in DOMAIN vlogs /\ gc[1].victim # head
  BY <1>1 DEF FilesInv, ValueFiles
<1>10. /\ RetiredIds(manifest'.retired) \subseteq DOMAIN vlogs
       /\ RetiredIds(manifest'.retired) \subseteq vmap /\ head \notin RetiredIds(manifest'.retired)
       /\ manifest'.live \subseteq manifest.live /\ retired' = manifest'.retired
  BY <1>1, <1>2, <1>3, <1>4, <1>5, <1>9 DEF FilesInv, ValueFiles
<1>11. ValueFiles'
  BY <1>1, <1>3, <1>4, <1>7, <1>10 DEF FilesInv, ValueFiles, Serving
<1> QED  BY <1>6, <1>8, <1>11 DEF FilesInv

\* The gates let files out of the resolution map and of the manifest.
LEMMA ProcessRetiredFilesKept ==
  ASSUME FilesInv, ProcessRetired
  PROVE  FilesInv'
<1> DEFINE ready == {r \in retired : Deletable(r)}
<1>1. /\ phase = "up" /\ Serving
      /\ retired' = retired \ ready
      /\ manifest' = [manifest EXCEPT !.retired = @ \ ready]
      /\ vmap' = vmap \ RetiredIds(ready)
      /\ obsolete' = obsolete \cup RetiredIds(ready)
      /\ UNCHANGED <<wals, vlogs, ssts, aside, phase, wal, tree, head, nextId, pinning,
                       inflight, gc, bgError, late, failures, history>>
  BY DEF ProcessRetired, Serving
<1> HIDE DEF ready
<1>2. ready \subseteq retired /\ retired = manifest.retired /\ retired \in SUBSET Retirement
  BY <1>1 DEF ready, FilesInv, ValueFiles, MemoryTypes
<1>3. /\ manifest' \in ManifestData /\ manifest'.live = manifest.live
      /\ manifest'.retired = manifest.retired \ ready /\ manifest'.runs = manifest.runs
      /\ manifest'.head = manifest.head /\ manifest'.next = manifest.next
      /\ manifest'.floor = manifest.floor
  BY <1>1, <1>2 DEF FilesInv, DiskTypes, ManifestData
<1>4. /\ RetiredIds(manifest'.retired) \subseteq RetiredIds(manifest.retired)
      /\ RetiredIds(ready) \subseteq RetiredIds(manifest.retired)
      /\ RetiredIds(manifest'.retired) \cap RetiredIds(ready) = {}
  BY <1>2, <1>3 DEF RetiredIds, FilesInv, ValueFiles
<1>5. RetiredIds(ready) \subseteq Nat
  BY <1>2 DEF RetiredIds, Retirement
<1>6. DiskTypes' /\ MemoryTypes' /\ Phases' /\ Ids'
  BY <1>1, <1>2, <1>3, <1>5 DEF FilesInv, DiskTypes, FileTypes, MemoryTypes, Phases, Ids, Serving, aside, tree,
                 failures, history
<1>7. Sealed' /\ ValueFiles'
  BY <1>1, <1>2, <1>3, <1>4 DEF FilesInv, Sealed, ValueFiles, Serving
<1> QED  BY <1>6, <1>7 DEF FilesInv

\* An unlinked file is no longer named by anything.
LEMMA UnlinkFilesKept ==
  ASSUME FilesInv, NEW id \in obsolete, Unlink(id)
  PROVE  FilesInv'
<1>1. /\ obsolete' = obsolete \ {id}
      /\ vlogs' = Keep(vlogs, (DOMAIN vlogs) \ {id})
      /\ UNCHANGED <<wals, ssts, manifest, aside, phase, wal, tree, head, vmap, retired, nextId,
                   pinning, inflight, gc, bgError, late, failures, history>>
  BY DEF Unlink
<1>2. phase = "up" /\ Serving
  BY DEF FilesInv, Phases, Serving
<1>3. /\ DOMAIN vlogs' = (DOMAIN vlogs) \ {id} /\ \A v \in DOMAIN vlogs' : vlogs'[v] = vlogs[v]
  BY <1>1, KeepIs
<1>4. FileTypes(vlogs, VlogFile)'
  BY <1>1, KeepTyped DEF FilesInv, DiskTypes
<1>5. id \notin vmap /\ id \notin manifest.live /\ id \notin RetiredIds(manifest.retired) /\ id # head
  BY <1>2 DEF FilesInv, ValueFiles
<1>6. DiskTypes'
  BY <1>1, <1>4 DEF FilesInv, DiskTypes
<1>7. MemoryTypes' /\ Phases' /\ Ids'
  BY <1>1, <1>2, <1>3 DEF FilesInv, MemoryTypes, Phases, Ids, Serving, aside, tree, failures, history
<1>8. Sealed' /\ ValueFiles'
  BY <1>1, <1>2, <1>3, <1>5 DEF FilesInv, Sealed, ValueFiles, Serving
<1> QED  BY <1>6, <1>7, <1>8 DEF FilesInv

\* The end of the batch in flight with an error.
LEMMA AbortIs ==
  ASSUME FilesInv, inflight # <<>>, Abort
  PROVE  inflight' = <<>> /\ GcKept /\ bgError' \in BOOLEAN /\ late' \in BOOLEAN
BY DEF Abort, Degrade, GcKept

\* A failed WAL fsync changes no file.
LEMMA SyncFailsFilesKept ==
  ASSUME FilesInv, SyncFails
  PROVE  FilesInv'
<1>1. /\ inflight # <<>> /\ Abort /\ faults' = faults + 1 /\ UNCHANGED <<crashes, cached>>
      /\ UNCHANGED <<disk, aside, phase, wal, tree, vlogVars, nextId, pinning, history>>
  BY DEF SyncFails, Fails
<1>2. phase = "up" /\ Serving
  BY <1>1, BusyIsUp
<1>3. inflight' = <<>> /\ GcKept /\ bgError' \in BOOLEAN /\ late' \in BOOLEAN
  BY <1>1, AbortIs
<1>4. DiskTypes' /\ MemoryTypes' /\ Phases' /\ Ids'
  BY <1>1, <1>2, <1>3, SMTT(30) DEF FilesInv, DiskTypes, FileTypes, MemoryTypes, Phases, Ids, Serving, aside, tree,
                 vlogVars, history, disk, GcKept
<1>5. Sealed' /\ ValueFiles'
  BY <1>1, <1>2, <1>3 DEF FilesInv, Sealed, ValueFiles, Serving, vlogVars, disk, GcKept
<1> QED  BY <1>4, <1>5 DEF FilesInv

\* A failed flush leaves a table behind.
LEMMA FlushFailsFilesKept ==
  ASSUME FilesInv, FlushFails
  PROVE  FilesInv'
<1>1. /\ phase = "up" /\ Serving /\ faults' = faults + 1 /\ UNCHANGED <<crashes, cached>>
      /\ ssts' = ssts \cup {nextId} /\ nextId' = nextId + 1 /\ bgError' \in BOOLEAN /\ late' \in BOOLEAN
      /\ UNCHANGED <<wals, vlogs, manifest, aside, phase, wal, tree, vlogVars, pinning, inflight,
                   gc, history>>
  BY DEF FlushFails, Fails, Serving, Degrade
<1>2. nextId \in Nat /\ nextId < nextId + 1
  BY DEF FilesInv, MemoryTypes
<1>3. DiskTypes'
  BY <1>1, <1>2, FS_AddElement DEF FilesInv, DiskTypes, FileTypes
<1>4. MemoryTypes' /\ Phases'
  BY <1>1, <1>2 DEF FilesInv, MemoryTypes, Phases, Serving, aside, tree, vlogVars, history
<1>5. Ids'
  <2>1. /\ \A id \in DOMAIN wals : id \in Nat
        /\ \A id \in ssts : id \in Nat
        /\ manifest.next \in Nat /\ head \in Nat
    BY DEF FilesInv, DiskTypes, MemoryTypes, FileTypes, ManifestData
  <2> QED  BY <1>1, <1>2, <2>1 DEF FilesInv, Ids, Serving, tree, vlogVars
<1>6. Sealed' /\ ValueFiles'
  BY <1>1 DEF FilesInv, Sealed, ValueFiles, Serving, vlogVars
<1> QED  BY <1>3, <1>4, <1>5, <1>6 DEF FilesInv

\* The active WAL without its last record.
Retracts ==
    /\ Updated(wals, wals', wal, wals'[wal]) /\ wals'[wal] \in WalFile
    /\ wals'[wal].synced = wals[wal].synced /\ Len(wals[wal].recs) \in Nat
    /\ Len(wals'[wal].recs) = Len(wals[wal].recs) - 1
    /\ \A i \in 1 .. Len(wals[wal].recs) - 1 : wals'[wal].recs[i] = wals[wal].recs[i]

\* A failed append takes the record back.
LEMMA AppendFailsIs ==
  ASSUME FilesInv, AppendFails
  PROVE  Retracts /\ Serving /\ phase = "up"
<1>1. Serving /\ phase = "up" /\ inflight # <<>>
  BY BusyIsUp DEF AppendFails
<1>2. /\ wal \in DOMAIN wals /\ wals[wal] \in WalFile /\ wals \in [DOMAIN wals -> WalFile]
      /\ wals[wal].recs \in Seq(Batch) /\ wals[wal].synced \in Nat /\ Len(wals[wal].recs) \in Nat
      /\ wals[wal].synced < Len(wals[wal].recs) /\ wals[wal].torn \in BOOLEAN
  <2>1. /\ wal \in DOMAIN wals /\ wals[wal] \in WalFile /\ wals \in [DOMAIN wals -> WalFile]
        /\ wals[wal].synced < Len(wals[wal].recs)
    BY <1>1, ActiveFiles DEF FilesInv, DiskTypes, FileTypes, Sealed
  <2> QED  BY <2>1, LenProperties DEF WalFile
<1>3. PICK t \in BOOLEAN : wals' = [wals EXCEPT ![wal].recs = Front(@), ![wal].torn = t]
  BY <1>2 DEF AppendFails
<1> DEFINE s == wals[wal].recs
<1>4. /\ Front(s) \in Seq(Batch) /\ Len(Front(s)) = Len(s) - 1
      /\ \A i \in 1 .. Len(s) - 1 : Front(s)[i] = s[i]
  <2>1. \A i \in 1 .. Len(s) - 1 : s[i] \in Batch
    BY <1>2, ElementOfSeq
  <2>2. Front(s) = SubSeq(s, 1, Len(s) - 1)
    BY DEF Front
  <2>3. /\ SubSeq(s, 1, Len(s) - 1) \in Seq(Batch)
        /\ Len(SubSeq(s, 1, Len(s) - 1)) = Len(s) - 1
        /\ \A i \in 1 .. Len(s) - 1 : SubSeq(s, 1, Len(s) - 1)[i] = s[1 + i - 1]
    BY <1>2, <2>1, SubSeqProperties
  <2> QED  BY <1>2, <2>2, <2>3
<1>5. /\ DOMAIN wals' = DOMAIN wals /\ wals'[wal] \in WalFile /\ wals'[wal].recs = Front(s)
      /\ wals'[wal].synced = wals[wal].synced
      /\ Updated(wals, wals', wal, wals'[wal])
  BY <1>2, <1>3, <1>4 DEF WalFile, Updated
<1> QED  BY <1>1, <1>2, <1>4, <1>5 DEF Retracts

\* A failed append.
LEMMA AppendFailsFilesKept ==
  ASSUME FilesInv, AppendFails
  PROVE  FilesInv'
<1>1. Retracts /\ Serving /\ phase = "up"
  BY AppendFailsIs
<1>2. /\ inflight # <<>> /\ Abort /\ faults' = faults + 1 /\ UNCHANGED <<crashes, cached>> /\ gray' \subseteq gray
      /\ UNCHANGED <<vlogs, ssts, manifest, aside, phase, wal, tree, vlogVars, nextId, pinning,
                   acked, promised>>
  BY DEF AppendFails, Fails
<1>3. inflight' = <<>> /\ GcKept /\ bgError' \in BOOLEAN /\ late' \in BOOLEAN
  BY <1>2, AbortIs
<1>4. wals[wal].synced < Len(wals[wal].recs) /\ wals[wal].synced \in Nat
  BY <1>1, <1>2, ActiveFiles DEF FilesInv, Sealed, WalFile
<1>5. wals'[wal].synced <= Len(wals'[wal].recs)
  BY <1>1, <1>4 DEF Retracts
<1>6. DiskTypes'
  <2>1. FileTypes(wals, WalFile)'
    BY <1>1, <1>5, ActiveFiles, UpdatedTyped DEF FilesInv, DiskTypes, Retracts
  <2> QED  BY <1>2, <2>1 DEF FilesInv, DiskTypes
<1>7. MemoryTypes' /\ Phases'
  BY <1>1, <1>2, <1>3 DEF FilesInv, MemoryTypes, Phases, Serving, aside, tree, vlogVars, GcKept
<1>8. Ids'
  BY <1>1, <1>2, ActiveFiles DEF FilesInv, Ids, Serving, tree, vlogVars, Updated, Retracts
<1>9. Sealed' /\ ValueFiles'
  BY <1>1, <1>2, <1>3, ActiveFiles DEF FilesInv, Sealed, ValueFiles, Serving, vlogVars, GcKept, Updated, Retracts
<1> QED  BY <1>6, <1>7, <1>8, <1>9 DEF FilesInv

\* g holds the WALs after a rotation: the active one fsynced, and an empty one.
RotatedTo(g) ==
    /\ DOMAIN g = (DOMAIN wals) \cup {nextId}
    /\ g[wal] = Synced(wals[wal]) /\ g[nextId] = EmptyWal
    /\ \A id \in DOMAIN wals : id # wal => g[id] = wals[id]
    /\ FileTypes(g, WalFile)

\* The WALs of a rotation.
LEMMA RotatedIs ==
  ASSUME FilesInv, Serving
  PROVE  RotatedTo(Rotated(wals)) /\ Rotated(WalAtAck) = Rotated(wals)
<1>1. /\ wal \in DOMAIN wals /\ wals[wal] \in WalFile /\ wal \in Nat /\ nextId \in Nat
      /\ nextId \notin DOMAIN wals /\ wal < nextId
  BY ActiveFiles
<1>2. /\ Synced(wals[wal]) \in WalFile /\ Synced(wals[wal]).recs = wals[wal].recs
      /\ Synced(wals[wal]).synced = Len(wals[wal].recs) /\ Len(wals[wal].recs) \in Nat
  BY <1>1, SyncedWal
<1>3. FileTypes(wals, WalFile) /\ wals \in [DOMAIN wals -> WalFile]
  BY DEF FilesInv, DiskTypes, FileTypes
<1> DEFINE s == [wals EXCEPT ![wal] = Synced(@)]
           g == With(s, nextId, EmptyWal)
<1>4. Updated(wals, s, wal, Synced(wals[wal]))
  BY <1>1, <1>3 DEF Updated
<1>5. FileTypes(s, WalFile)
  BY <1>1, <1>2, <1>3, <1>4, UpdatedTyped
<1>6. Updated(s, g, nextId, EmptyWal)
  BY WithUpdates
<1>7. /\ EmptyWal \in WalFile /\ EmptyWal.synced <= Len(EmptyWal.recs)
  BY EmptyFiles
<1>8. FileTypes(g, WalFile)
  BY <1>1, <1>5, <1>6, <1>7, UpdatedTyped
<1>9. RotatedTo(g)
  BY <1>1, <1>4, <1>6, <1>8 DEF Updated, RotatedTo
<1>10. Synced(Synced(wals[wal])) = Synced(wals[wal])
  BY <1>1 DEF Synced, WalFile
<1>11. [WalAtAck EXCEPT ![wal] = Synced(@)] = s
  BY <1>1, <1>3, <1>10 DEF WalAtAck
<1> QED  BY <1>9, <1>11 DEF Rotated

\* One more frozen memtable, in front.
Prepended(x) ==
    /\ imms' \in Seq(Frozen) /\ Len(imms) \in Nat /\ Len(imms') = Len(imms) + 1 /\ imms'[1] = x
    /\ DOMAIN imms' = 1 .. Len(imms) + 1 /\ DOMAIN imms = 1 .. Len(imms)
    /\ \A i \in 2 .. Len(imms) + 1 : imms'[i] = imms[i - 1]

\* A frozen memtable goes in front.
LEMMA PrependIs ==
  ASSUME FilesInv, NEW x \in Frozen, imms' = <<x>> \o imms
  PROVE  Prepended(x)
<1>1. imms \in Seq(Frozen) /\ <<x>> \in Seq(Frozen) /\ Len(<<x>>) = 1 /\ <<x>>[1] = x
  BY DEF FilesInv, MemoryTypes
<1> DEFINE u == <<x>>
<1>2. u \in Seq(Frozen) /\ Len(u) = 1 /\ u[1] = x
  BY <1>1
<1>3. imms' = u \o imms
  OBVIOUS
<1> HIDE DEF u
<1>4. /\ imms' \in Seq(Frozen) /\ Len(imms') = Len(u) + Len(imms)
      /\ \A i \in 1 .. Len(u) + Len(imms) : imms'[i] = IF i <= Len(u) THEN u[i] ELSE imms[i - Len(u)]
  BY <1>1, <1>2, <1>3, ConcatProperties
<1>5. Len(imms) \in Nat /\ DOMAIN imms = 1 .. Len(imms) /\ DOMAIN imms' = 1 .. Len(imms')
  BY <1>1, <1>4, LenProperties
<1> QED  BY <1>2, <1>4, <1>5 DEF Prepended

\* Freezing the memtable behind a fresh WAL.
FreezeKeeps ==
    UNCHANGED <<vlogs, ssts, manifest, opts, phase, visible, vlogVars, pinning, inflight, gc,
                bgError, late, failures, history>>

\* The memtable and its WAL frozen.
LEMMA FreezeFilesKept ==
  ASSUME FilesInv, phase = "up", inflight = <<>>, Freeze, FreezeKeeps
  PROVE  FilesInv'
<1>1. /\ Serving /\ wals' = Rotated(wals) /\ wal' = nextId /\ nextId' = nextId + 1
      /\ imms' = <<[wal |-> wal, recs |-> mem]>> \o imms /\ mem' = {}
  BY DEF Freeze, Serving
<1>2. /\ wal \in DOMAIN wals /\ wals[wal] \in WalFile /\ wal \in Nat /\ nextId \in Nat
      /\ nextId \notin DOMAIN wals /\ wal < nextId /\ head \in Nat /\ head < nextId
  BY <1>1, ActiveFiles
<1>3. RotatedTo(wals')
  BY <1>1, RotatedIs
<1> DEFINE x == [wal |-> wal, recs |-> mem]
<1>4. x \in Frozen /\ x.wal = wal
  BY <1>2 DEF Frozen, FilesInv, MemoryTypes
<1>5. Prepended(x)
  BY <1>1, <1>4, PrependIs
<1> HIDE DEF x
<1>6. DiskTypes'
  BY <1>3 DEF FreezeKeeps, FilesInv, DiskTypes, RotatedTo
<1>7. MemoryTypes' /\ Phases'
  BY <1>1, <1>2, <1>5 DEF FreezeKeeps, FilesInv, MemoryTypes, Phases, vlogVars, failures, history, Prepended
<1>8. Ids'
  <2>1. /\ \A id \in DOMAIN wals : id \in Nat /\ id < nextId
        /\ \A id \in ssts : id \in Nat /\ id < nextId
        /\ manifest.next \in Nat /\ manifest.next <= nextId /\ manifest.floor \in Nat
        /\ manifest.floor <= wal
        /\ \A i \in DOMAIN imms : imms[i].wal \in Nat /\ imms[i].wal < wal
        /\ \A i, j \in DOMAIN imms : i < j => imms[j].wal < imms[i].wal
    <3>1. \A i \in DOMAIN imms : imms[i] \in Frozen
      BY ElementOfSeq, LenProperties DEF FilesInv, MemoryTypes
    <3> QED  BY <1>1, <3>1 DEF FilesInv, DiskTypes, FileTypes, ManifestData, Ids, Frozen
  <2>2. /\ \A i \in DOMAIN imms' : imms'[i].wal < nextId
        /\ \A i, j \in DOMAIN imms' : i < j => imms'[j].wal < imms'[i].wal
    <3>1. \A i \in DOMAIN imms' : i = 1 \/ (i \in 2 .. Len(imms) + 1 /\ i - 1 \in DOMAIN imms)
      BY <1>5 DEF Prepended
    <3>2. \A i \in DOMAIN imms' : (i = 1 /\ imms'[i].wal = wal) \/ (i \in 2 .. Len(imms) + 1 /\ imms'[i].wal = imms[i - 1].wal)
      BY <1>4, <1>5, <3>1 DEF Prepended
    <3>3. \A i \in DOMAIN imms' : imms'[i].wal < nextId
      BY <1>2, <2>1, <3>1, <3>2
    <3>4. ASSUME NEW i \in DOMAIN imms', NEW j \in DOMAIN imms', i < j
          PROVE  imms'[j].wal < imms'[i].wal
      BY <1>2, <2>1, <3>1, <3>2, <3>4, SMTT(30)
    <3> QED  BY <3>3, <3>4
  <2>3. Serving'
    BY <1>1 DEF FreezeKeeps, Serving
  <2>4. \A id \in DOMAIN wals' : id < nextId'
    BY <1>1, <1>2, <1>3, <2>1 DEF RotatedTo
  <2>5. \A id \in DOMAIN wals' : ~(id > wal')
    BY <1>1, <1>2, <1>3, <2>1 DEF RotatedTo
  <2>6. wal' \in DOMAIN wals' /\ manifest'.floor <= wal'
    BY <1>1, <1>2, <1>3, <2>1 DEF RotatedTo, FreezeKeeps
  <2> QED  BY <1>1, <1>2, <2>1, <2>2, <2>4, <2>5, <2>6 DEF FreezeKeeps, FilesInv, Ids, Serving, vlogVars
<1>9. Sealed'
  <2>1. /\ Synced(wals[wal]).recs = wals[wal].recs
        /\ Synced(wals[wal]).synced = Len(wals[wal].recs)
    BY <1>2, SyncedWal
  <2> QED  BY <1>1, <1>2, <1>3, <2>1 DEF FreezeKeeps, FilesInv, Sealed, Serving, RotatedTo, vlogVars
<1>10. ValueFiles'
  BY <1>1 DEF FreezeKeeps, FilesInv, ValueFiles, Serving, vlogVars
<1> QED  BY <1>6, <1>7, <1>8, <1>9, <1>10 DEF FilesInv

\* flush() and the first step of a fork.
LEMMA RotationFilesKept ==
  ASSUME FilesInv, ForceRotate \/ ForkBegin
  PROVE  FilesInv'
<1>1. CASE phase = "up" /\ inflight = <<>> /\ Freeze /\ FreezeKeeps
  BY <1>1, FreezeFilesKept
<1>2. CASE phase = "up" /\ UNCHANGED <<store, opts>>
  <2>1. DiskTypes' /\ MemoryTypes' /\ Phases' /\ Ids'
    BY <1>2 DEF FilesInv, DiskTypes, FileTypes, MemoryTypes, Phases, Ids, Serving, store, tree,
                 vlogVars, failures, history, disk
  <2>2. Sealed' /\ ValueFiles'
    BY <1>2 DEF FilesInv, Sealed, ValueFiles, Serving, vlogVars, disk, store
  <2> QED  BY <2>1, <2>2 DEF FilesInv
<1> QED  BY <1>1, <1>2 DEF ForceRotate, ForkBegin, Freeze, FreezeKeeps, aside

\* A rotation that fails leaves an empty WAL behind.
LEMMA RotateFailsFilesKept ==
  ASSUME FilesInv, RotateFails
  PROVE  FilesInv'
<1>1. /\ Serving /\ phase = "up" /\ inflight = <<>> /\ wals' = Rotated(wals) /\ nextId' = nextId + 1
      /\ faults' = faults + 1 /\ UNCHANGED <<crashes, cached>>
      /\ UNCHANGED <<vlogs, ssts, manifest, aside, phase, wal, tree, vlogVars, pinning, inflight,
                   gc, bgError, late, history>>
  BY DEF RotateFails, Fails, Serving
<1>2. /\ wal \in DOMAIN wals /\ wals[wal] \in WalFile /\ wal \in Nat /\ nextId \in Nat
      /\ nextId \notin DOMAIN wals /\ wal < nextId /\ head \in Nat /\ head < nextId
  BY <1>1, ActiveFiles
<1>3. RotatedTo(wals')
  BY <1>1, RotatedIs
<1>4. DiskTypes'
  BY <1>1, <1>3 DEF FilesInv, DiskTypes, RotatedTo
<1>5. MemoryTypes' /\ Phases'
  BY <1>1, <1>2 DEF FilesInv, MemoryTypes, Phases, aside, tree, vlogVars, history
<1>6. /\ Synced(wals[wal]).recs = wals[wal].recs /\ Synced(wals[wal]).torn = wals[wal].torn
      /\ Synced(wals[wal]).synced = Len(wals[wal].recs)
  BY <1>2, SyncedWal
<1>7. Ids'
  <2>1. /\ \A id \in DOMAIN wals : id \in Nat /\ id < nextId
        /\ \A id \in ssts : id \in Nat /\ id < nextId
        /\ manifest.next \in Nat /\ manifest.next <= nextId
    BY <1>1 DEF FilesInv, DiskTypes, FileTypes, ManifestData, Ids
  <2>2. \A id \in DOMAIN wals' : id < nextId'
    BY <1>1, <1>2, <1>3, <2>1 DEF RotatedTo
  <2>3. \A id \in DOMAIN wals' : id > wal => wals'[id].recs = <<>> /\ ~wals'[id].torn
    BY <1>1, <1>2, <1>3, EmptyFiles DEF RotatedTo, FilesInv, Ids
  <2>4. wal' \in DOMAIN wals'
    BY <1>1, <1>2, <1>3 DEF RotatedTo
  <2> QED  BY <1>1, <1>2, <2>1, <2>2, <2>3, <2>4 DEF FilesInv, Ids, Serving, tree, vlogVars
<1>8. Sealed'
  BY <1>1, <1>2, <1>3, <1>6, EmptyFiles DEF FilesInv, Sealed, Serving, RotatedTo, vlogVars
<1>9. ValueFiles'
  BY <1>1 DEF FilesInv, ValueFiles, Serving, vlogVars
<1> QED  BY <1>4, <1>5, <1>7, <1>8, <1>9 DEF FilesInv

\* What the WALs and the frozen memtables keep through a publication.
WalSideKept ==
    /\ FileTypes(wals', WalFile)
    /\ \A id \in DOMAIN wals' : id \in DOMAIN wals \/ id = nextId
    /\ wal' \in DOMAIN wals' /\ wal <= wal' /\ wal' \in Nat
    /\ \A id \in DOMAIN wals' : id > wal' => wals'[id].recs = <<>> /\ ~wals'[id].torn
    /\ \A id \in DOMAIN wals' : id # wal' => wals'[id].synced = Len(wals'[id].recs)
    /\ imms' \in Seq(Frozen) /\ mem' \in SUBSET Batch
    /\ \A i \in DOMAIN imms' : imms'[i].wal < wal'
    /\ \A i, j \in DOMAIN imms' : i < j => imms'[j].wal < imms'[i].wal

\* An insert keeps the records' type.
LEMMA InsertTyped ==
  ASSUME NEW recs \in SUBSET Batch, NEW r \in Batch
  PROVE  Insert(recs, r) \in SUBSET Batch
BY DEF Insert

\* The WALs after a batch is acknowledged, as long as none rotates.
LEMMA WalAtAckIs ==
  ASSUME FilesInv, Serving
  PROVE  /\ FileTypes(WalAtAck, WalFile) /\ DOMAIN WalAtAck = DOMAIN wals
         /\ WalAtAck[wal].recs = wals[wal].recs /\ WalAtAck[wal].torn = wals[wal].torn
         /\ WalAtAck[wal].synced \in {wals[wal].synced, Len(wals[wal].recs)}
         /\ opts.sync = "always" => WalAtAck[wal].synced = Len(wals[wal].recs)
         /\ \A id \in DOMAIN wals : id # wal => WalAtAck[id] = wals[id]
<1>1. /\ wal \in DOMAIN wals /\ wals[wal] \in WalFile /\ wal \in Nat
      /\ FileTypes(wals, WalFile) /\ wals \in [DOMAIN wals -> WalFile]
  BY ActiveFiles DEF FilesInv, DiskTypes, FileTypes
<1>2. /\ Synced(wals[wal]) \in WalFile /\ Synced(wals[wal]).recs = wals[wal].recs
      /\ Synced(wals[wal]).torn = wals[wal].torn
      /\ Synced(wals[wal]).synced = Len(wals[wal].recs) /\ Len(wals[wal].recs) \in Nat
  BY <1>1, SyncedWal
<1> DEFINE s == [wals EXCEPT ![wal] = Synced(@)]
<1>4. Updated(wals, s, wal, Synced(wals[wal]))
  BY <1>1 DEF Updated
<1>5. FileTypes(s, WalFile)
  BY <1>1, <1>2, <1>4, UpdatedTyped
<1>6. CASE opts.sync = "always"
  <2>1. WalAtAck = s
    BY <1>6 DEF WalAtAck
  <2> HIDE DEF s
  <2> QED  BY <1>1, <1>2, <1>4, <1>5, <2>1 DEF Updated
<1>7. CASE opts.sync # "always"
  BY <1>1, <1>7 DEF WalAtAck
<1> QED  BY <1>6, <1>7

\* The names of frozen memtables: below the active WAL, oldest last.
LEMMA FrozenOrder ==
  ASSUME FilesInv, Serving
  PROVE  /\ \A i \in DOMAIN imms : imms[i] \in Frozen /\ imms[i].wal \in Nat /\ imms[i].wal < wal
         /\ \A i, j \in DOMAIN imms : i < j => imms[j].wal < imms[i].wal
         /\ DOMAIN imms = 1 .. Len(imms) /\ Len(imms) \in Nat /\ imms \in Seq(Frozen)
<1>1. imms \in Seq(Frozen)
  BY DEF FilesInv, MemoryTypes
<1>2. DOMAIN imms = 1 .. Len(imms) /\ Len(imms) \in Nat /\ \A i \in DOMAIN imms : imms[i] \in Frozen
  BY <1>1, LenProperties, ElementOfSeq
<1> QED  BY <1>1, <1>2 DEF FilesInv, Ids, Frozen

\* A memtable frozen at the active WAL keeps the order.
LEMMA PrependOrder ==
  ASSUME FilesInv, Serving, NEW x \in Frozen, x.wal = wal, Prepended(x)
  PROVE  /\ \A i \in DOMAIN imms' : imms'[i].wal < nextId
         /\ \A i, j \in DOMAIN imms' : i < j => imms'[j].wal < imms'[i].wal
<1>1. wal \in Nat /\ nextId \in Nat /\ wal < nextId
  BY ActiveFiles
<1>2. /\ \A i \in DOMAIN imms : imms[i].wal \in Nat /\ imms[i].wal < wal
      /\ \A i, j \in DOMAIN imms : i < j => imms[j].wal < imms[i].wal
  BY FrozenOrder
<1>3. \A i \in DOMAIN imms' : i = 1 \/ (i \in 2 .. Len(imms) + 1 /\ i - 1 \in DOMAIN imms)
  BY DEF Prepended
<1>4. \A i \in DOMAIN imms' :
         \/ i = 1 /\ imms'[i].wal = wal
         \/ i \in 2 .. Len(imms) + 1 /\ imms'[i].wal = imms[i - 1].wal
  <2>1. imms'[1].wal = wal /\ \A i \in 2 .. Len(imms) + 1 : imms'[i] = imms[i - 1]
    BY DEF Prepended
  <2> QED  BY <1>3, <2>1
<1>5. \A i \in DOMAIN imms' : imms'[i].wal < nextId
  BY <1>1, <1>2, <1>3, <1>4
<1>6. ASSUME NEW i \in DOMAIN imms', NEW j \in DOMAIN imms', i < j
      PROVE  imms'[j].wal < imms'[i].wal
  BY <1>1, <1>2, <1>3, <1>4, <1>6
<1> QED  BY <1>5, <1>6

\* A publication with a rotation of the memtable.
LEMMA RotationKeepsWalSide ==
  ASSUME FilesInv, Serving, wals' = Rotated(wals), wal' = nextId, mem' = {},
         NEW recs \in SUBSET Batch, imms' = <<[wal |-> wal, recs |-> recs]>> \o imms
  PROVE  WalSideKept
<1> DEFINE x == [wal |-> wal, recs |-> recs]
<1>1. /\ wal \in DOMAIN wals /\ wals[wal] \in WalFile /\ wal \in Nat /\ nextId \in Nat
      /\ nextId \notin DOMAIN wals /\ wal < nextId
  BY ActiveFiles
<1>2. x \in Frozen /\ x.wal = wal
  BY <1>1 DEF Frozen
<1>3. Prepended(x)
  BY <1>2, PrependIs
<1> HIDE DEF x
<1>4. /\ \A i \in DOMAIN imms' : imms'[i].wal < nextId
      /\ \A i, j \in DOMAIN imms' : i < j => imms'[j].wal < imms'[i].wal
  BY <1>2, <1>3, PrependOrder
<1>5. RotatedTo(wals')
  BY RotatedIs
<1>6. /\ Synced(wals[wal]).recs = wals[wal].recs
      /\ Synced(wals[wal]).synced = Len(wals[wal].recs)
  BY <1>1, SyncedWal
<1>7. \A id \in DOMAIN wals' : id # wal' => wals'[id].synced = Len(wals'[id].recs)
  BY <1>1, <1>5, <1>6 DEF RotatedTo, FilesInv, Sealed
<1>8. \A id \in DOMAIN wals' : id <= nextId
  BY <1>1, <1>5 DEF RotatedTo, FilesInv, Ids, DiskTypes, FileTypes
<1>9. \A id \in DOMAIN wals' : id \in Nat
  BY <1>5 DEF RotatedTo, FileTypes
<1>10. \A id \in DOMAIN wals' : ~(id > wal')
  BY <1>1, <1>8, <1>9
<1> QED  BY <1>1, <1>3, <1>4, <1>5, <1>7, <1>10 DEF WalSideKept, RotatedTo, Prepended

\* The value log after a publication.
VlogSideKept ==
    /\ FileTypes(vlogs', VlogFile)
    /\ DOMAIN vlogs \subseteq DOMAIN vlogs' /\ \A v \in DOMAIN vlogs : vlogs'[v].recs = vlogs[v].recs
    /\ \A v \in DOMAIN vlogs' : v <= head' /\ (v \in DOMAIN vlogs \/ v = head')
    /\ \A v \in DOMAIN vlogs' : v # head' => vlogs'[v].synced = Len(vlogs'[v].recs)
    /\ head' \in DOMAIN vlogs' /\ head' \in Nat
    /\ head' = head \/ (head' \notin DOMAIN vlogs /\ head < head')
    /\ vmap' = vmap \cup {head'}

\* A fresh head behind a full one.
LEMMA TurnKeepsVlogSide ==
  ASSUME FilesInv, Serving, NEW id \in Nat, nextId <= id,
         vlogs' = With([vlogs EXCEPT ![head] = Synced(@)], id, EmptyVlog),
         head' = id, vmap' = vmap \cup {id}
  PROVE  VlogSideKept
<1>1. /\ head \in DOMAIN vlogs /\ vlogs[head] \in VlogFile /\ head \in Nat /\ nextId \in Nat
      /\ head < nextId
  BY ActiveFiles
<1>2. /\ Synced(vlogs[head]) \in VlogFile /\ Synced(vlogs[head]).recs = vlogs[head].recs
      /\ Synced(vlogs[head]).synced = Len(vlogs[head].recs) /\ Len(vlogs[head].recs) \in Nat
  BY <1>1, SyncedVlog
<1>3. FileTypes(vlogs, VlogFile) /\ vlogs \in [DOMAIN vlogs -> VlogFile]
  BY DEF FilesInv, DiskTypes, FileTypes
<1>4. \A v \in DOMAIN vlogs : v \in Nat /\ v <= head /\ v < id
  BY <1>1, <1>3 DEF FileTypes, FilesInv, Ids
<1> DEFINE s == [vlogs EXCEPT ![head] = Synced(@)]
<1>5. Updated(vlogs, s, head, Synced(vlogs[head]))
  BY <1>1, <1>3 DEF Updated
<1>6. FileTypes(s, VlogFile)
  BY <1>1, <1>2, <1>3, <1>5, UpdatedTyped
<1>7. Updated(s, vlogs', id, EmptyVlog)
  BY WithUpdates
<1>8. EmptyVlog \in VlogFile /\ EmptyVlog.synced <= Len(EmptyVlog.recs)
  BY EmptyFiles
<1> HIDE DEF s
<1>9. FileTypes(vlogs', VlogFile)
  BY <1>6, <1>7, <1>8, UpdatedTyped
<1>10. /\ DOMAIN vlogs' = (DOMAIN vlogs) \cup {id} /\ vlogs'[head] = Synced(vlogs[head])
       /\ \A v \in DOMAIN vlogs : v # head => vlogs'[v] = vlogs[v]
  <2>1. DOMAIN s = DOMAIN vlogs /\ \A v \in DOMAIN vlogs : v # id
    BY <1>1, <1>4, <1>5 DEF Updated
  <2>2. /\ DOMAIN vlogs' = (DOMAIN vlogs) \cup {id} /\ \A v \in DOMAIN vlogs : vlogs'[v] = s[v]
    BY <1>7, <2>1 DEF Updated
  <2> QED  BY <1>1, <1>5, <2>2 DEF Updated
<1>11. \A v \in DOMAIN vlogs' : v # head' => vlogs'[v].synced = Len(vlogs'[v].recs)
  BY <1>2, <1>10 DEF FilesInv, Sealed
<1>12. \A v \in DOMAIN vlogs : vlogs'[v].recs = vlogs[v].recs
  BY <1>2, <1>10
<1>13. head' \notin DOMAIN vlogs /\ head < head' /\ head' \in DOMAIN vlogs'
  BY <1>1, <1>4, <1>10
<1>14. \A v \in DOMAIN vlogs' : v <= head' /\ (v \in DOMAIN vlogs \/ v = head')
  BY <1>4, <1>10
<1> QED  BY <1>9, <1>10, <1>11, <1>12, <1>13, <1>14 DEF VlogSideKept

\* The head as it is.
LEMMA SameVlogSide ==
  ASSUME FilesInv, Serving, vlogs' = vlogs, head' = head, vmap' = vmap
  PROVE  VlogSideKept
<1>1. /\ head \in DOMAIN vlogs /\ head \in Nat /\ head \in vmap
  BY ActiveFiles DEF FilesInv, ValueFiles
<1> QED  BY <1>1 DEF VlogSideKept, FilesInv, DiskTypes, Ids, Sealed

\* The acknowledgement's bookkeeping has its types.
LEMMA AckTypes ==
  ASSUME FilesInv, inflight # <<>>, Acknowledge
  PROVE  /\ inflight[1] \in Batch /\ visible' \in 0 .. MaxSeq /\ inflight' = <<>>
         /\ acked' \in SUBSET Batch /\ gray' \in SUBSET Batch /\ promised' \in SUBSET Batch
<1>1. inflight[1] \in Batch
  BY DEF FilesInv, MemoryTypes
<1>2. inflight[1].seq \in 0 .. MaxSeq
  BY <1>1 DEF Batch
<1>3. Insert(acked, inflight[1]) \in SUBSET Batch /\ Insert(promised, inflight[1]) \in SUBSET Batch
  BY <1>1, InsertTyped DEF FilesInv, MemoryTypes
<1> QED  BY <1>1, <1>2, <1>3 DEF Acknowledge, FilesInv, MemoryTypes

\* A publication that keeps both sides keeps the files.
LEMMA PublicationFilesKept ==
  ASSUME FilesInv, inflight # <<>>, Acknowledge, WalSideKept, VlogSideKept,
         nextId' \in Nat, nextId <= nextId', head' < nextId', nextId \in DOMAIN wals' => nextId < nextId',
         bgError' \in BOOLEAN, late' \in BOOLEAN, faults' \in Nat, UNCHANGED <<crashes, cached>>,
         UNCHANGED <<ssts, manifest, aside, phase, retired, obsolete, pinning, gc>>
  PROVE  FilesInv'
<1>1. Serving /\ phase = "up" /\ Serving'
  BY BusyIsUp DEF Serving
<1>2. /\ visible' \in 0 .. MaxSeq /\ inflight' = <<>>
      /\ acked' \in SUBSET Batch /\ gray' \in SUBSET Batch /\ promised' \in SUBSET Batch
  BY AckTypes
<1>3. DiskTypes'
  BY DEF FilesInv, DiskTypes, WalSideKept, VlogSideKept
<1>4. MemoryTypes' /\ Phases'
  BY <1>1, <1>2 DEF FilesInv, MemoryTypes, Phases, WalSideKept, VlogSideKept, aside
<1>5. Ids'
  <2>1. /\ \A id \in DOMAIN wals : id \in Nat /\ id < nextId
        /\ \A id \in ssts : id \in Nat /\ id < nextId
        /\ manifest.next \in Nat /\ manifest.next <= nextId
        /\ manifest.floor \in Nat /\ manifest.floor <= wal
        /\ wal \in Nat /\ nextId \in Nat /\ head \in Nat /\ 0 < head
    BY <1>1, ActiveFiles DEF FilesInv, DiskTypes, FileTypes, ManifestData, Ids
  <2>2. \A id \in DOMAIN wals' : id < nextId'
    BY <2>1 DEF WalSideKept
  <2>3. /\ \A id \in ssts : id < nextId'
        /\ manifest.next <= nextId' /\ 0 < head' /\ manifest.floor <= wal'
    BY <2>1 DEF WalSideKept, VlogSideKept
  <2> QED  BY <2>2, <2>3 DEF Ids, WalSideKept, VlogSideKept
<1>6. Sealed'
  BY <1>1, <1>2 DEF Sealed, WalSideKept, VlogSideKept
<1>7. ValueFiles'
  <2>1. /\ head' \in vmap' /\ vmap' \subseteq DOMAIN vlogs' /\ manifest.head <= head'
    <3>1. head \in Nat /\ manifest.head \in Nat /\ manifest.head <= head /\ vmap \subseteq DOMAIN vlogs
      BY <1>1, ActiveFiles DEF FilesInv, ValueFiles, DiskTypes, ManifestData
    <3> QED  BY <3>1 DEF VlogSideKept
  <2>2. /\ head' \notin RetiredIds(manifest.retired) /\ vmap' \cap obsolete = {}
        /\ RetiredIds(manifest.retired) \subseteq vmap'
        /\ obsolete \subseteq DOMAIN vlogs'
    BY <1>1 DEF FilesInv, ValueFiles, VlogSideKept
  <2>3. gc # <<>> => /\ gc[1].victim \in vmap' \ (RetiredIds(manifest.retired) \cup {head'})
                     /\ gc[1].todo \subseteq DOMAIN vlogs'[gc[1].victim].recs
    <3>1. gc # <<>> => gc[1].victim \in DOMAIN vlogs
      BY <1>1 DEF FilesInv, ValueFiles
    <3> QED  BY <3>1 DEF FilesInv, ValueFiles, VlogSideKept
  <2>4. /\ manifest.live \subseteq DOMAIN vlogs' /\ RetiredIds(manifest.retired) \subseteq DOMAIN vlogs'
    BY DEF FilesInv, ValueFiles, VlogSideKept
  <2>5. Inline \notin DOMAIN vlogs'
    BY <1>1, ActiveFiles DEF FilesInv, ValueFiles, VlogSideKept, Inline
  <2> QED  BY <1>1, <2>1, <2>2, <2>3, <2>4, <2>5 DEF FilesInv, ValueFiles
<1> QED  BY <1>3, <1>4, <1>5, <1>6, <1>7 DEF FilesInv

\* The rest of the critical section, in all its cases: the rotation of the value
\* log may fail once the head is the new file.
LEMMA PublishFilesKept ==
  ASSUME FilesInv, Publish \/ PublishHeadFails
  PROVE  FilesInv'
<1> DEFINE mem1 == Insert(mem, inflight[1])
           full == Cardinality(mem1) >= opts.memtable_size
           turn == Len(vlogs[head].recs) >= opts.vlog_file_size
           id2  == IF full THEN nextId + 1 ELSE nextId
<1>0. Published
  BY DEF Publish, PublishHeadFails
<1>1. /\ inflight # <<>> /\ Acknowledge
      /\ UNCHANGED <<ssts, manifest, aside, phase, retired, obsolete, pinning, gc>>
  BY <1>0 DEF Published
<1>2. /\ mem' = IF full THEN {} ELSE mem1
      /\ imms' = IF full THEN <<[wal |-> wal, recs |-> mem1]>> \o imms ELSE imms
      /\ wals' = IF full THEN Rotated(WalAtAck) ELSE WalAtAck
      /\ wal' = IF full THEN nextId ELSE wal
      /\ vlogs' = IF turn THEN With([vlogs EXCEPT ![head] = Synced(@)], id2, EmptyVlog) ELSE vlogs
      /\ head' = IF turn THEN id2 ELSE head
      /\ vmap' = IF turn THEN vmap \cup {id2} ELSE vmap
      /\ nextId' = IF turn THEN id2 + 1 ELSE id2
  BY <1>0 DEF Published, HeadIsFull
<1>3. Serving
  BY <1>1, BusyIsUp
<1>4. nextId \in Nat /\ wal \in Nat /\ wal < nextId /\ head \in Nat /\ head < nextId
      /\ nextId \notin DOMAIN wals /\ wal \in DOMAIN wals
  BY <1>3, ActiveFiles
<1>5. mem1 \in SUBSET Batch
  BY <1>1, InsertTyped, AckTypes DEF FilesInv, MemoryTypes
<1> HIDE DEF mem1, full, turn
<1>6. WalSideKept
  <2>1. CASE full
    <3>1. /\ wals' = Rotated(wals) /\ wal' = nextId /\ mem' = {}
          /\ imms' = <<[wal |-> wal, recs |-> mem1]>> \o imms
      BY <1>2, <1>3, <2>1, RotatedIs
    <3> QED  BY <1>3, <1>5, <3>1, RotationKeepsWalSide
  <2>2. CASE ~full
    <3>1. wals' = WalAtAck /\ wal' = wal /\ mem' = mem1 /\ imms' = imms
      BY <1>2, <2>2
    <3>2. /\ FileTypes(wals', WalFile) /\ DOMAIN wals' = DOMAIN wals
          /\ \A id \in DOMAIN wals : id # wal => wals'[id] = wals[id]
      BY <1>3, <3>1, WalAtAckIs
    <3>3. /\ \A i \in DOMAIN imms : imms[i].wal < wal
          /\ \A i, j \in DOMAIN imms : i < j => imms[j].wal < imms[i].wal
          /\ imms \in Seq(Frozen)
      BY <1>3, FrozenOrder
    <3>4. \A id \in DOMAIN wals' : id > wal => wals'[id].recs = <<>> /\ ~wals'[id].torn
      BY <1>3, <1>4, <3>2 DEF FilesInv, Ids
    <3>5. \A id \in DOMAIN wals' : id # wal => wals'[id].synced = Len(wals'[id].recs)
      BY <3>2 DEF FilesInv, Sealed
    <3> QED  BY <1>4, <1>5, <3>1, <3>2, <3>3, <3>4, <3>5 DEF WalSideKept
  <2> QED  BY <2>1, <2>2
<1>7. id2 \in Nat /\ nextId <= id2
  BY <1>4
<1>8. VlogSideKept
  <2>1. CASE turn
    BY <1>2, <1>3, <1>7, <2>1, TurnKeepsVlogSide
  <2>2. CASE ~turn
    BY <1>2, <1>3, <2>2, SameVlogSide
  <2> QED  BY <2>1, <2>2
<1>9. /\ nextId' \in Nat /\ nextId <= nextId' /\ head' < nextId'
      /\ full => nextId < nextId'
  <2>1. id2 < id2 + 1 /\ head < id2
    BY <1>4, <1>7
  <2>2. full => nextId < id2
    BY <1>4
  <2> HIDE DEF id2
  <2> QED  BY <1>2, <1>4, <1>7, <2>1, <2>2
<1>10. nextId \in DOMAIN wals' => nextId < nextId'
  <2>1. CASE full
    BY <1>9, <2>1
  <2>2. CASE ~full
    BY <1>2, <1>3, <1>4, <2>2, WalAtAckIs
  <2> QED  BY <2>1, <2>2
<1>11. /\ bgError' \in BOOLEAN /\ late' \in BOOLEAN /\ faults' \in Nat
       /\ UNCHANGED <<crashes, cached>>
  <2>1. CASE Publish
    BY <2>1 DEF Publish, failures, FilesInv, MemoryTypes
  <2>2. CASE PublishHeadFails
    <3>1. /\ faults' = faults + 1 /\ bgError' = TRUE /\ late' \in BOOLEAN
          /\ UNCHANGED <<crashes, cached>>
      BY <2>2 DEF PublishHeadFails, Fails, Degrade
    <3> QED  BY <3>1 DEF FilesInv, MemoryTypes
  <2> QED  BY <2>1, <2>2
<1> QED  BY <1>1, <1>6, <1>8, <1>9, <1>10, <1>11, PublicationFilesKept

\* The same when the rotation fails.
LEMMA PublishRotateFailsFilesKept ==
  ASSUME FilesInv, PublishRotateFails
  PROVE  FilesInv'
<1>1. /\ inflight # <<>> /\ Acknowledge /\ mem' = Insert(mem, inflight[1])
      /\ wals' = Rotated(WalAtAck) /\ nextId' = nextId + 1
      /\ faults' = faults + 1 /\ bgError' \in BOOLEAN /\ late' \in BOOLEAN
      /\ UNCHANGED <<crashes, cached>>
      /\ UNCHANGED <<vlogs, ssts, manifest, aside, phase, wal, imms, vlogVars, pinning, gc>>
  BY DEF PublishRotateFails, Fails, Degrade
<1>2. Serving
  BY <1>1, BusyIsUp
<1>3. /\ nextId \in Nat /\ wal \in Nat /\ wal < nextId /\ head \in Nat /\ head < nextId
      /\ nextId \notin DOMAIN wals /\ wal \in DOMAIN wals /\ wals[wal] \in WalFile
  BY <1>2, ActiveFiles
<1>4. RotatedTo(wals')
  BY <1>1, <1>2, RotatedIs
<1>5. WalSideKept
  <2>1. mem' \in SUBSET Batch
    BY <1>1, InsertTyped, AckTypes DEF FilesInv, MemoryTypes
  <2>2. /\ \A i \in DOMAIN imms : imms[i].wal < wal
        /\ \A i, j \in DOMAIN imms : i < j => imms[j].wal < imms[i].wal
        /\ imms \in Seq(Frozen)
    BY <1>2, FrozenOrder
  <2>3. \A id \in DOMAIN wals' : id > wal => wals'[id].recs = <<>> /\ ~wals'[id].torn
    BY <1>2, <1>3, <1>4, EmptyFiles DEF RotatedTo, FilesInv, Ids
  <2>4. \A id \in DOMAIN wals' : id # wal => wals'[id].synced = Len(wals'[id].recs)
    BY <1>3, <1>4, EmptyFiles DEF RotatedTo, FilesInv, Sealed
  <2> QED  BY <1>1, <1>3, <1>4, <2>1, <2>2, <2>3, <2>4 DEF WalSideKept, RotatedTo
<1>6. VlogSideKept
  BY <1>1, <1>2, SameVlogSide DEF vlogVars
<1>7. /\ nextId' \in Nat /\ nextId <= nextId' /\ head' < nextId' /\ nextId < nextId'
      /\ faults' \in Nat
  BY <1>1, <1>3 DEF vlogVars, FilesInv, MemoryTypes
<1>8. UNCHANGED <<ssts, manifest, aside, phase, retired, obsolete, pinning, gc>>
  BY <1>1 DEF vlogVars
<1> QED  BY <1>1, <1>5, <1>6, <1>7, <1>8, PublicationFilesKept

\* The head after it is fsynced.
SyncedHead == [vlogs EXCEPT ![head] = Synced(@)]

\* The head fsynced.
LEMMA SyncedHeadIs ==
  ASSUME FilesInv, Serving
  PROVE  /\ FileTypes(SyncedHead, VlogFile) /\ DOMAIN SyncedHead = DOMAIN vlogs
         /\ \A v \in DOMAIN vlogs : /\ SyncedHead[v].recs = vlogs[v].recs
                                    /\ SyncedHead[v].synced = Len(vlogs[v].recs)
<1>1. head \in DOMAIN vlogs /\ vlogs[head] \in VlogFile /\ head \in Nat
  BY ActiveFiles
<1>2. /\ Synced(vlogs[head]) \in VlogFile /\ Synced(vlogs[head]).recs = vlogs[head].recs
      /\ Synced(vlogs[head]).synced = Len(vlogs[head].recs) /\ Len(vlogs[head].recs) \in Nat
  BY <1>1, SyncedVlog
<1>3. FileTypes(vlogs, VlogFile) /\ vlogs \in [DOMAIN vlogs -> VlogFile]
  BY DEF FilesInv, DiskTypes, FileTypes
<1>4. Updated(vlogs, SyncedHead, head, Synced(vlogs[head]))
  BY <1>1, <1>3 DEF Updated, SyncedHead
<1>5. FileTypes(SyncedHead, VlogFile)
  BY <1>1, <1>2, <1>3, <1>4, UpdatedTyped
<1> QED  BY <1>1, <1>2, <1>4, <1>5 DEF Updated, FilesInv, Sealed

\* The publication of an archive fsyncs the head.
LEMMA ForkPublishFilesKept ==
  ASSUME FilesInv, ForkPublish
  PROVE  FilesInv'
<1>1. /\ building # <<>> /\ vlogs' = SyncedHead /\ building' = <<>>
      /\ UNCHANGED <<opts, wals, ssts, manifest, phase, wal, tree, vlogVars, nextId, pinning,
                   inflight, gc, bgError, late, failures, history>>
  BY DEF ForkPublish, SyncedHead
<1>2. Serving /\ phase = "up"
  BY <1>1, BusyIsUp
<1>3. /\ FileTypes(vlogs', VlogFile) /\ DOMAIN vlogs' = DOMAIN vlogs
      /\ \A v \in DOMAIN vlogs : /\ vlogs'[v].recs = vlogs[v].recs
                                 /\ vlogs'[v].synced = Len(vlogs[v].recs)
  BY <1>1, <1>2, SyncedHeadIs
<1>4. DiskTypes' /\ MemoryTypes' /\ Phases' /\ Ids'
  BY <1>1, <1>2, <1>3 DEF FilesInv, DiskTypes, MemoryTypes, Phases, Ids, Serving, tree,
                 vlogVars, failures, history
<1>5. Sealed'
  BY <1>1, <1>2, <1>3 DEF FilesInv, Sealed, Serving, vlogVars
<1>6. ValueFiles'
  <2>1. gc # <<>> => gc[1].victim \in DOMAIN vlogs
    BY <1>2 DEF FilesInv, ValueFiles
  <2> QED  BY <1>1, <1>2, <1>3, <2>1 DEF FilesInv, ValueFiles, Serving, vlogVars
<1> QED  BY <1>4, <1>5, <1>6 DEF FilesInv

\* The greatest of a finite set of integers.
LEMMA MaxIs ==
  ASSUME NEW S \in SUBSET Int, IsFiniteSet(S), S # {}
  PROVE  Max(S) \in S /\ \A y \in S : y <= Max(S)
<1>1. PICK x \in S : \A y \in S : y <= x
  BY GreatestExists
<1>2. \A y \in S : x >= y
  BY <1>1
<1>3. Max(S) \in S /\ \A y \in S : Max(S) >= y
  BY <1>1, <1>2, Zenon DEF Max
<1> QED  BY <1>3

\* The greatest sequence number of some batches and a floor under it.
LEMMA TopIs ==
  ASSUME NEW recs \in SUBSET Batch, NEW n \in 0 .. MaxSeq, MaxSeq \in Nat
  PROVE  /\ Max({n} \cup {r.seq : r \in recs}) \in 0 .. MaxSeq
         /\ n <= Max({n} \cup {r.seq : r \in recs})
         /\ \A r \in recs : r.seq <= Max({n} \cup {r1.seq : r1 \in recs})
         /\ \/ Max({n} \cup {r.seq : r \in recs}) = n
            \/ \E r \in recs : r.seq = Max({n} \cup {r1.seq : r1 \in recs})
<1> DEFINE S == {n} \cup {r.seq : r \in recs}
<1>1. S \subseteq 0 .. MaxSeq /\ n \in S
  BY DEF Batch
<1>2. IsFiniteSet(0 .. MaxSeq)
  BY FS_Interval
<1>3. IsFiniteSet(S) /\ S \in SUBSET Int /\ S # {}
  BY <1>1, <1>2, FS_Subset
<1>4. \A r \in recs : r.seq \in S
  OBVIOUS
<1>5. \A x \in S : x = n \/ \E r \in recs : r.seq = x
  OBVIOUS
<1> HIDE DEF S
<1>6. Max(S) \in S /\ \A y \in S : y <= Max(S)
  BY <1>3, MaxIs
<1>7. /\ Max(S) \in 0 .. MaxSeq /\ n <= Max(S) /\ \A r \in recs : r.seq <= Max(S)
      /\ Max(S) = n \/ \E r \in recs : r.seq = Max(S)
  BY <1>1, <1>4, <1>5, <1>6
<1> QED  BY <1>7 DEF S

\* What a flush makes of the frozen memtables, and of the floor.
FlushedFloor == Max({manifest.floor, Last(imms).wal + 1})

\* The tables, WALs and memtables of a flush.
LEMMA FlushIs ==
  ASSUME FilesInv, Serving, imms # <<>>
  PROVE  /\ Last(imms) = imms[Len(imms)] /\ Last(imms) \in Frozen /\ Last(imms).wal < wal
         /\ FlushedFloor \in Nat /\ manifest.floor <= FlushedFloor /\ FlushedFloor <= wal
         /\ Last(imms).wal < FlushedFloor
         /\ FlushedFloor = manifest.floor \/ FlushedFloor = Last(imms).wal + 1
         /\ Front(imms) \in Seq(Frozen) /\ Len(Front(imms)) = Len(imms) - 1 /\ Len(imms) \in Nat \ {0}
         /\ DOMAIN Front(imms) = 1 .. Len(imms) - 1 /\ DOMAIN imms = 1 .. Len(imms)
         /\ \A i \in 1 .. Len(imms) - 1 : Front(imms)[i] = imms[i]
<1>1. /\ \A i \in DOMAIN imms : imms[i] \in Frozen /\ imms[i].wal \in Nat /\ imms[i].wal < wal
      /\ DOMAIN imms = 1 .. Len(imms) /\ Len(imms) \in Nat /\ imms \in Seq(Frozen)
  BY FrozenOrder
<1>2. Len(imms) # 0
  BY <1>1, EmptySeq
<1>3. Last(imms) = imms[Len(imms)] /\ Len(imms) \in DOMAIN imms
  BY <1>1, <1>2 DEF Last
<1>4. manifest.floor \in Nat /\ manifest.floor <= wal /\ wal \in Nat
  BY DEF FilesInv, DiskTypes, ManifestData, Ids, MemoryTypes
<1>5. Last(imms).wal \in Nat /\ Last(imms).wal < wal
  BY <1>1, <1>3
<1> DEFINE f == Last(imms).wal + 1
           S == {manifest.floor, f}
<1>6. f \in Nat /\ f <= wal
  BY <1>4, <1>5
<1> HIDE DEF f
<1>7. Max(S) \in S /\ \A y \in S : y <= Max(S)
  <2>1. IsFiniteSet(S)
    <3>1. S \in SUBSET (0 .. wal)
      BY <1>4, <1>6
    <3>2. IsFiniteSet(0 .. wal)
      BY <1>4, FS_Interval
    <3> QED  BY <3>1, <3>2, FS_Subset
  <2>2. S \in SUBSET Int /\ S # {}
    BY <1>4, <1>6
  <2> QED  BY <2>1, <2>2, MaxIs
<1>8. Max(S) \in Nat /\ manifest.floor <= Max(S) /\ Max(S) <= wal /\ f <= Max(S)
      /\ (Max(S) = manifest.floor \/ Max(S) = f)
  BY <1>4, <1>6, <1>7
<1>9. FlushedFloor = Max(S)
  BY DEF FlushedFloor, f
<1>10. /\ Front(imms) \in Seq(Frozen) /\ Len(Front(imms)) = Len(imms) - 1
       /\ \A i \in 1 .. Len(imms) - 1 : Front(imms)[i] = imms[i]
  <2>1. \A i \in 1 .. Len(imms) - 1 : imms[i] \in Frozen
    BY <1>1
  <2>2. Front(imms) = SubSeq(imms, 1, Len(imms) - 1)
    BY DEF Front
  <2>3. /\ SubSeq(imms, 1, Len(imms) - 1) \in Seq(Frozen)
        /\ Len(SubSeq(imms, 1, Len(imms) - 1)) = IF 1 <= Len(imms) - 1 THEN Len(imms) - 1 - 1 + 1 ELSE 0
        /\ \A i \in 1 .. Len(imms) - 1 - 1 + 1 : SubSeq(imms, 1, Len(imms) - 1)[i] = imms[1 + i - 1]
    BY <1>1, <2>1, SubSeqProperties
  <2> QED  BY <1>1, <1>2, <2>2, <2>3
<1>11. DOMAIN Front(imms) = 1 .. Len(imms) - 1
  BY <1>10, LenProperties
<1>12. Last(imms).wal < FlushedFloor /\ (FlushedFloor = manifest.floor \/ FlushedFloor = Last(imms).wal + 1)
  BY <1>5, <1>8, <1>9, <1>4 DEF f
<1> QED  BY <1>1, <1>2, <1>3, <1>5, <1>8, <1>9, <1>10, <1>11, <1>12

\* The manifest after a flush.
FlushManifest ==
    /\ manifest' \in ManifestData
    /\ manifest'.runs = manifest.runs \cup {[id |-> nextId, recs |-> Last(imms).recs]}
    /\ manifest'.flushed = Max({manifest.flushed} \cup {r.seq : r \in Last(imms).recs})
    /\ manifest'.floor = FlushedFloor /\ manifest'.next = nextId + 1
    /\ manifest'.live = manifest.live /\ manifest'.head = manifest.head
    /\ manifest'.retired = manifest.retired /\ manifest'.pins = manifest.pins

\* The manifest of a flush, field by field.
LEMMA FlushManifestIs ==
  ASSUME FilesInv, Flush
  PROVE  FlushManifest /\ Serving
<1>1. imms # <<>> /\ Serving
  BY DEF Flush, Serving
<1>2. manifest' = [manifest EXCEPT
                 !.runs = @ \cup {[id |-> nextId, recs |-> Last(imms).recs]},
                 !.flushed = Max({@} \cup {r.seq : r \in Last(imms).recs}),
                 !.floor = FlushedFloor,
                 !.next = nextId + 1]
  BY DEF Flush, FlushedFloor, FloorAfter
<1>3. Last(imms) \in Frozen /\ FlushedFloor \in Nat /\ nextId \in Nat
  BY <1>1, FlushIs, ActiveFiles
<1> DEFINE run == [id |-> nextId, recs |-> Last(imms).recs]
           top == Max({manifest.flushed} \cup {r.seq : r \in Last(imms).recs})
<1>4. run \in Run
  BY <1>3 DEF Run, Frozen
<1>5. top \in 0 .. MaxSeq
  <2>1. Last(imms).recs \in SUBSET Batch /\ manifest.flushed \in 0 .. MaxSeq /\ MaxSeq \in Nat
    BY <1>3, OptionsTyped DEF Frozen, FilesInv, DiskTypes, ManifestData
  <2> QED  BY <2>1, TopIs
<1>6. manifest \in ManifestData
  BY DEF FilesInv, DiskTypes
<1> HIDE DEF run, top
<1>7. manifest' = [manifest EXCEPT !.runs = manifest.runs \cup {run}, !.flushed = top,
                                   !.floor = FlushedFloor, !.next = nextId + 1]
  BY <1>2 DEF run, top
<1>8. /\ manifest' \in ManifestData
      /\ manifest'.runs = manifest.runs \cup {run} /\ manifest'.flushed = top
      /\ manifest'.floor = FlushedFloor /\ manifest'.next = nextId + 1
      /\ manifest'.live = manifest.live /\ manifest'.head = manifest.head
      /\ manifest'.retired = manifest.retired /\ manifest'.pins = manifest.pins
  <2>1. manifest.runs \cup {run} \in SUBSET Run /\ nextId + 1 \in Nat
    BY <1>3, <1>4, <1>6 DEF ManifestData
  <2> QED  BY <1>3, <1>5, <1>6, <1>7, <2>1 DEF ManifestData
<1> QED  BY <1>1, <1>8 DEF FlushManifest, run, top

\* A flush.
LEMMA FlushFilesKept ==
  ASSUME FilesInv, Flush
  PROVE  FilesInv'
<1>1. /\ imms # <<>> /\ Serving /\ vlogs' = SyncedHead /\ ssts' = ssts \cup {nextId} /\ nextId' = nextId + 1
      /\ wals' = Keep(wals, {id \in DOMAIN wals : id >= FlushedFloor}) /\ imms' = Front(imms)
      /\ UNCHANGED <<aside, phase, wal, mem, visible, vlogVars, pinning, inflight, gc, bgError,
                   late, failures, history>>
  BY DEF Flush, Serving, SyncedHead, FlushedFloor, FloorAfter
<1>2. FlushManifest
  BY FlushManifestIs
<1>3. /\ FlushedFloor \in Nat /\ FlushedFloor <= wal /\ imms' \in Seq(Frozen)
      /\ DOMAIN imms' = 1 .. Len(imms) - 1 /\ DOMAIN imms = 1 .. Len(imms) /\ Len(imms) \in Nat
      /\ \A i \in 1 .. Len(imms) - 1 : imms'[i] = imms[i]
  BY <1>1, FlushIs
<1>4. /\ FileTypes(vlogs', VlogFile) /\ DOMAIN vlogs' = DOMAIN vlogs
      /\ \A v \in DOMAIN vlogs : /\ vlogs'[v].recs = vlogs[v].recs
                                 /\ vlogs'[v].synced = Len(vlogs[v].recs)
  BY <1>1, SyncedHeadIs
<1>5. /\ FileTypes(wals', WalFile) /\ DOMAIN wals' = {id \in DOMAIN wals : id >= FlushedFloor}
      /\ \A id \in DOMAIN wals' : wals'[id] = wals[id]
  <2> DEFINE K == {id \in DOMAIN wals : id >= FlushedFloor}
  <2>1. (DOMAIN wals) \cap K = K
    OBVIOUS
  <2>2. wals' = Keep(wals, K)
    BY <1>1
  <2> HIDE DEF K
  <2>3. FileTypes(wals', WalFile)
    BY <2>2, KeepTyped DEF FilesInv, DiskTypes
  <2>4. DOMAIN wals' = K /\ \A id \in DOMAIN wals' : wals'[id] = wals[id]
    BY <2>1, <2>2, KeepIs
  <2> QED  BY <2>3, <2>4 DEF K
<1>6. /\ nextId \in Nat /\ wal \in Nat /\ wal \in DOMAIN wals /\ wal < nextId /\ head < nextId
      /\ head \in Nat /\ wal \in DOMAIN wals'
  <2>1. /\ nextId \in Nat /\ wal \in Nat /\ wal \in DOMAIN wals /\ wal < nextId /\ head < nextId
        /\ head \in Nat
    BY <1>1, ActiveFiles
  <2> QED  BY <1>3, <1>5, <2>1
<1>7. DiskTypes'
  BY <1>1, <1>2, <1>4, <1>5, <1>6, FS_AddElement DEF FilesInv, DiskTypes, FlushManifest
<1>8. MemoryTypes' /\ Phases'
  BY <1>1, <1>3, <1>6 DEF FilesInv, MemoryTypes, Phases, Serving, aside, vlogVars, failures, history
<1>9. Ids'
  <2>1. /\ \A id \in DOMAIN wals : id \in Nat /\ id < nextId
        /\ \A id \in ssts : id \in Nat /\ id < nextId
        /\ \A i \in DOMAIN imms : imms[i].wal < wal
        /\ \A i, j \in DOMAIN imms : i < j => imms[j].wal < imms[i].wal
    BY <1>1, FrozenOrder DEF FilesInv, DiskTypes, FileTypes, Ids
  <2>2. /\ \A id \in DOMAIN wals' : id < nextId'
        /\ \A id \in ssts' : id < nextId'
    <3>1. /\ \A id \in DOMAIN wals : id < nextId + 1
          /\ \A id \in ssts \cup {nextId} : id < nextId + 1
      BY <1>6, <2>1
    <3>2. DOMAIN wals' \subseteq DOMAIN wals
      BY <1>5
    <3> QED  BY <1>1, <3>1, <3>2
  <2>3. \A id \in DOMAIN wals' : id > wal => wals'[id].recs = <<>> /\ ~wals'[id].torn
    BY <1>1, <1>5 DEF FilesInv, Ids
  <2>4. /\ \A i \in DOMAIN imms' : imms'[i].wal < wal
        /\ \A i, j \in DOMAIN imms' : i < j => imms'[j].wal < imms'[i].wal
    BY <1>3, <2>1
  <2>5. manifest'.next <= nextId' /\ manifest'.floor <= wal
    BY <1>1, <1>2, <1>3, <1>6 DEF FlushManifest
  <2> QED  BY <1>1, <1>4, <1>6, <2>2, <2>3, <2>4, <2>5 DEF FilesInv, Ids, Serving, vlogVars
<1>10. Sealed'
  BY <1>1, <1>4, <1>5, <1>6 DEF FilesInv, Sealed, Serving, vlogVars
<1>11. ValueFiles'
  <2>1. manifest'.head <= manifest'.next /\ manifest'.floor <= manifest'.next
    <3>1. manifest.head <= nextId /\ FlushedFloor <= nextId
      BY <1>3, <1>6, <1>1 DEF FilesInv, ValueFiles, Ids, DiskTypes, ManifestData
    <3>2. manifest.head \in Nat
      BY DEF FilesInv, DiskTypes, ManifestData
    <3> QED  BY <1>2, <1>3, <1>6, <3>1, <3>2 DEF FlushManifest
  <2>2. \A r \in manifest'.runs : r.id \in ssts'
    BY <1>1, <1>2 DEF FlushManifest, FilesInv, ValueFiles
  <2>3. gc # <<>> => gc[1].victim \in DOMAIN vlogs
    BY <1>1 DEF FilesInv, ValueFiles
  <2>4. phase' # "sweep" /\ Serving'
    BY <1>1 DEF Flush, Serving
  <2>5. UNCHANGED <<head, vmap, retired, obsolete, gc>>
    BY <1>1 DEF vlogVars
  <2> QED  BY <1>1, <1>2, <1>4, <2>1, <2>2, <2>3, <2>4, <2>5 DEF FilesInv, ValueFiles, FlushManifest
<1> QED  BY <1>7, <1>8, <1>9, <1>10, <1>11 DEF FilesInv

\* g is what a crash left of f: a prefix of each file.
PrefixTo(f, g) ==
    /\ DOMAIN g = DOMAIN f
    /\ \A id \in DOMAIN f :
         /\ g[id].synced = Len(g[id].recs)
         /\ Len(g[id].recs) \in 0 .. Len(f[id].recs)
         /\ Len(f[id].recs) \in Nat
         /\ \A i \in 1 .. Len(g[id].recs) : g[id].recs[i] = f[id].recs[i]

\* The same, where each prefix has all that was taken to be fsynced.
CutTo(f, g) ==
    /\ PrefixTo(f, g)
    /\ \A id \in DOMAIN f :
         /\ Len(g[id].recs) \in f[id].synced .. Len(f[id].recs)
         /\ f[id].synced = Len(f[id].recs) => g[id].recs = f[id].recs

\* A prefix of a file's records.
LEMMA PrefixIs ==
  ASSUME NEW Elem, NEW s \in Seq(Elem), NEW n \in 0 .. Len(s)
  PROVE  /\ SubSeq(s, 1, n) \in Seq(Elem) /\ Len(SubSeq(s, 1, n)) = n
         /\ \A i \in 1 .. n : SubSeq(s, 1, n)[i] = s[i]
<1>1. Len(s) \in Nat /\ \A i \in 1 .. n : s[i] \in Elem
  BY LenProperties, ElementOfSeq
<1>2. /\ SubSeq(s, 1, n) \in Seq(Elem)
      /\ Len(SubSeq(s, 1, n)) = IF 1 <= n THEN n - 1 + 1 ELSE 0
      /\ \A i \in 1 .. n - 1 + 1 : SubSeq(s, 1, n)[i] = s[1 + i - 1]
  BY <1>1, SubSeqProperties
<1> QED  BY <1>1, <1>2

\* The records that are on the disk itself.
LEMMA OnDiskIs ==
  ASSUME FilesInv, NEW f, NEW id, f[id].synced \in Nat
  PROVE  OnDisk(f, id) \in Nat /\ OnDisk(f, id) <= f[id].synced
BY DEF OnDisk, FilesInv, MemoryTypes

\* A crash leaves files of their type; where it exposes none, it leaves all that
\* was taken to be fsynced.
LEMMA AfterIs ==
  ASSUME FilesInv, NEW f, NEW Kind \in {WalFile, VlogFile}, FileTypes(f, Kind), NEW n \in Survivals(f)
  PROVE  /\ FileTypes(After(f, n), Kind) /\ PrefixTo(f, After(f, n))
         /\ ~Exposes(f, n) => CutTo(f, After(f, n))
         /\ Kind = WalFile => \A id \in DOMAIN f : After(f, n)[id].torn = f[id].torn
         /\ \A id \in DOMAIN n : id \in DOMAIN f /\ Len(After(f, n)[id].recs) = n[id]
<1> DEFINE g == After(f, n)
           Elem == IF Kind = WalFile THEN Batch ELSE Payload
<1>1. /\ DOMAIN n = Unsynced(f)
      /\ \A id \in DOMAIN n : n[id] \in OnDisk(f, id) .. Len(f[id].recs)
  BY DEF Survivals
<1>2. /\ DOMAIN g = DOMAIN f
      /\ \A id \in DOMAIN f : g[id] = IF id \in DOMAIN n
             THEN [f[id] EXCEPT !.recs = SubSeq(f[id].recs, 1, n[id]), !.synced = n[id]] ELSE f[id]
  BY DEF After
<1>3. ASSUME NEW id \in DOMAIN f
      PROVE  /\ f[id] \in Kind /\ f[id].recs \in Seq(Elem) /\ f[id].synced \in Nat
             /\ Len(f[id].recs) \in Nat /\ f[id].synced <= Len(f[id].recs)
  <2>1. f[id] \in Kind /\ f[id].synced <= Len(f[id].recs)
    BY DEF FileTypes
  <2>2. f[id].recs \in Seq(Elem) /\ f[id].synced \in Nat
    <3>1. CASE Kind = WalFile
      BY <2>1, <3>1 DEF WalFile
    <3>2. CASE Kind # WalFile
      <4>1. Kind = VlogFile /\ Elem = Payload
        BY <3>2
      <4> QED  BY <2>1, <4>1 DEF VlogFile
    <3> QED  BY <3>1, <3>2
  <2> QED  BY <2>1, <2>2, LenProperties
<1>d. ASSUME NEW id \in DOMAIN f
      PROVE  OnDisk(f, id) \in Nat /\ OnDisk(f, id) <= f[id].synced
  BY <1>3, OnDiskIs
<1> HIDE DEF g, Elem
<1>4. ASSUME NEW id \in DOMAIN f
      PROVE  /\ g[id] \in Kind /\ g[id].synced = Len(g[id].recs)
             /\ Len(g[id].recs) \in 0 .. Len(f[id].recs)
             /\ id \in DOMAIN n => Len(g[id].recs) = n[id]
             /\ ~Exposes(f, n) => Len(g[id].recs) \in f[id].synced .. Len(f[id].recs)
             /\ \A i \in 1 .. Len(g[id].recs) : g[id].recs[i] = f[id].recs[i]
             /\ ~Exposes(f, n) /\ f[id].synced = Len(f[id].recs) => g[id].recs = f[id].recs
             /\ Kind = WalFile => g[id].torn = f[id].torn
  <2>1. CASE id \in DOMAIN n
    <3> DEFINE s == SubSeq(f[id].recs, 1, n[id])
    <3>1. n[id] \in 0 .. Len(f[id].recs) /\ n[id] \in Nat
      BY <1>1, <1>3, <1>d, <2>1
    <3>e. ~Exposes(f, n) => n[id] \in f[id].synced .. Len(f[id].recs)
      BY <1>3, <2>1, <3>1 DEF Exposes
    <3>2. s \in Seq(Elem) /\ Len(s) = n[id] /\ \A i \in 1 .. n[id] : s[i] = f[id].recs[i]
      BY <1>3, <3>1, PrefixIs
    <3>6. ~Exposes(f, n) /\ f[id].synced = Len(f[id].recs) => s = f[id].recs
      <4>1. SubSeq(f[id].recs, 1, Len(f[id].recs)) = f[id].recs
        BY <1>3, SubSeqFull
      <4>2. ~Exposes(f, n) /\ f[id].synced = Len(f[id].recs) => n[id] = Len(f[id].recs)
        BY <1>3, <3>1, <3>e
      <4> QED  BY <4>1, <4>2
    <3>3. g[id] = [f[id] EXCEPT !.recs = s, !.synced = n[id]]
      BY <1>2, <2>1
    <3> HIDE DEF s
    <3>4. g[id] \in Kind /\ g[id].recs = s /\ g[id].synced = n[id]
      <4>1. CASE Kind = WalFile
        BY <1>3, <3>1, <3>2, <3>3, <4>1 DEF WalFile, Elem
      <4>2. CASE Kind # WalFile
        <5>1. Kind = VlogFile /\ Elem = Payload
          BY <4>2 DEF Elem
        <5> QED  BY <1>3, <3>1, <3>2, <3>3, <5>1 DEF VlogFile
      <4> QED  BY <4>1, <4>2
    <3>5. Kind = WalFile => g[id].torn = f[id].torn
      BY <1>3, <3>3 DEF WalFile
    <3> QED  BY <3>1, <3>2, <3>e, <3>4, <3>5, <3>6
  <2>2. CASE id \notin DOMAIN n
    <3>1. ~(OnDisk(f, id) < Len(f[id].recs))
      BY <1>1, <2>2 DEF Unsynced
    <3>2. f[id].synced \in Nat /\ Len(f[id].recs) \in Nat /\ f[id].synced <= Len(f[id].recs)
      BY <1>3
    <3>3. f[id].synced = Len(f[id].recs)
      BY <1>d, <3>1, <3>2
    <3>4. g[id] = f[id]
      BY <1>2, <2>2
    <3> QED  BY <1>3, <2>2, <3>2, <3>3, <3>4
  <2> QED  BY <2>1, <2>2
<1>5. PrefixTo(f, g)
  BY <1>2, <1>3, <1>4 DEF PrefixTo
<1>7. ~Exposes(f, n) => CutTo(f, g)
  BY <1>4, <1>5 DEF CutTo
<1>6. FileTypes(g, Kind)
  <2>1. g = [id \in DOMAIN g |-> g[id]]
    BY DEF g, After
  <2>2. g \in [DOMAIN g -> Kind]
    BY <1>2, <1>4, <2>1
  <2>3. \A id \in DOMAIN g : g[id].synced <= Len(g[id].recs)
    <3>1. ASSUME NEW id \in DOMAIN f
          PROVE  g[id].synced <= Len(g[id].recs)
      <4>1. Len(f[id].recs) \in Nat
        BY <1>3
      <4>2. g[id].synced = Len(g[id].recs) /\ Len(g[id].recs) \in 0 .. Len(f[id].recs)
        BY <1>4
      <4> QED  BY <4>1, <4>2
    <3> QED  BY <1>2, <3>1
  <2> QED  BY <1>2, <2>2, <2>3 DEF FileTypes
<1>8. \A id \in DOMAIN n : id \in DOMAIN f /\ Len(g[id].recs) = n[id]
  BY <1>1, <1>4 DEF Unsynced
<1> QED  BY <1>2, <1>4, <1>5, <1>6, <1>7, <1>8 DEF g

\* The WALs are n records long, and end in part of one more where torn says so.
WalsLeft(n, torn) ==
    /\ n \in Survivals(wals) /\ wals' = WalsAfter(n, torn)
    /\ wal \in torn => wals[wal].torn \/ wal \in Shortened(n)

\* What the death of the process alone leaves is what a power loss may leave,
\* and nothing that was taken to be fsynced is gone.
LEMMA KillIs ==
  ASSUME FilesInv, Serving, Kill
  PROVE  /\ \E n, torn : WalsLeft(n, torn) /\ ~Exposes(wals, n)
         /\ AllOf(vlogs) \in Survivals(vlogs) /\ ~Exposes(vlogs, AllOf(vlogs))
         /\ vlogs' = After(vlogs, AllOf(vlogs))
<1>1. ASSUME NEW f, NEW Kind \in {WalFile, VlogFile}, FileTypes(f, Kind)
      PROVE  /\ AllOf(f) \in Survivals(f) /\ ~Exposes(f, AllOf(f))
             /\ DOMAIN AllOf(f) = Unsynced(f)
             /\ \A id \in Unsynced(f) :
                  /\ AllOf(f)[id] = Len(f[id].recs) /\ Len(f[id].recs) \in Nat
                  /\ f[id].synced \in Nat /\ f[id].synced <= Len(f[id].recs)
                  /\ OnDisk(f, id) \in Nat /\ OnDisk(f, id) <= f[id].synced
  <2>1. ASSUME NEW id \in DOMAIN f
        PROVE  /\ f[id].synced \in Nat /\ Len(f[id].recs) \in Nat /\ f[id].synced <= Len(f[id].recs)
    <3>1. f[id] \in Kind /\ f[id].synced <= Len(f[id].recs)
      BY <1>1 DEF FileTypes
    <3>2. CASE Kind = WalFile
      BY <3>1, <3>2, LenProperties DEF WalFile
    <3>3. CASE Kind = VlogFile
      BY <3>1, <3>3, LenProperties DEF VlogFile
    <3> QED  BY <3>2, <3>3
  <2>2. ASSUME NEW id \in DOMAIN f
        PROVE  OnDisk(f, id) \in Nat /\ OnDisk(f, id) <= f[id].synced
    BY <2>1, OnDiskIs
  <2>3. DOMAIN AllOf(f) = Unsynced(f) /\ \A id \in Unsynced(f) : AllOf(f)[id] = Len(f[id].recs)
    BY DEF AllOf
  <2>4. Unsynced(f) \subseteq DOMAIN f
    BY DEF Unsynced
  <2>5. AllOf(f) \in [Unsynced(f) -> UNION {0 .. Len(f[id].recs) : id \in Unsynced(f)}]
    <3>1. \A id \in Unsynced(f) : Len(f[id].recs) \in 0 .. Len(f[id].recs)
      BY <2>1, <2>4
    <3> QED  BY <3>1 DEF AllOf
  <2>6. \A id \in DOMAIN AllOf(f) : AllOf(f)[id] \in OnDisk(f, id) .. Len(f[id].recs)
    BY <2>1, <2>2, <2>3, <2>4
  <2>7. ~Exposes(f, AllOf(f))
    BY <2>1, <2>3, <2>4 DEF Exposes
  <2> QED  BY <2>1, <2>2, <2>3, <2>4, <2>5, <2>6, <2>7 DEF Survivals
<1>2. FileTypes(wals, WalFile) /\ FileTypes(vlogs, VlogFile)
  BY DEF FilesInv, DiskTypes
<1>3. PICK torn \in SUBSET {wal}, n \in {AllOf(wals)} \cup
           (IF inflight = <<>> THEN {} ELSE {[AllOf(wals) EXCEPT ![wal] = @ - 1]}) :
         /\ IF Shortened(n) = {} THEN wal \in torn <=> wals[wal].torn ELSE TRUE
         /\ wals' = WalsAfter(n, torn)
  BY DEF Kill
<1>4. wal \in DOMAIN wals
  BY ActiveFiles
<1>5. /\ n \in Survivals(wals) /\ ~Exposes(wals, n) /\ Shortened(n) \subseteq {wal}
  <2>1. CASE n = AllOf(wals)
    <3>1. Shortened(n) = {}
      BY <1>1, <1>2, <2>1 DEF Shortened
    <3> QED  BY <1>1, <1>2, <2>1, <3>1
  <2>2. CASE inflight # <<>> /\ n = [AllOf(wals) EXCEPT ![wal] = @ - 1]
    <3>1. wals[wal].synced < Len(wals[wal].recs)
      BY <2>2 DEF FilesInv, Sealed
    <3>2. wal \in Unsynced(wals)
      <4>1. wals[wal].synced \in Nat /\ Len(wals[wal].recs) \in Nat
        BY <1>4, ActiveFiles, LenProperties DEF WalFile
      <4>2. OnDisk(wals, wal) \in Nat /\ OnDisk(wals, wal) <= wals[wal].synced
        BY <4>1, OnDiskIs
      <4> QED  BY <1>4, <3>1, <4>1, <4>2 DEF Unsynced
    <3>3. /\ DOMAIN n = Unsynced(wals) /\ n[wal] = Len(wals[wal].recs) - 1
          /\ \A id \in Unsynced(wals) \ {wal} : n[id] = Len(wals[id].recs)
      BY <1>1, <1>2, <2>2, <3>2
    <3>4. \A id \in Unsynced(wals) :
             /\ n[id] \in Nat /\ n[id] <= Len(wals[id].recs) /\ ~(n[id] < wals[id].synced)
             /\ n[id] \in OnDisk(wals, id) .. Len(wals[id].recs)
      BY <1>1, <1>2, <3>1, <3>2, <3>3
    <3>5. n \in [Unsynced(wals) -> UNION {0 .. Len(wals[id].recs) : id \in Unsynced(wals)}]
      <4>1. \A id \in Unsynced(wals) : n[id] \in 0 .. Len(wals[id].recs)
        BY <1>1, <1>2, <3>4
      <4>2. n = [id \in Unsynced(wals) |-> n[id]]
        BY <1>1, <1>2, <2>2 DEF AllOf
      <4> QED  BY <4>1, <4>2
    <3>6. ~Exposes(wals, n)
      BY <3>3, <3>4 DEF Exposes
    <3>7. Shortened(n) \subseteq {wal}
      BY <1>1, <1>2, <3>3 DEF Shortened
    <3> QED  BY <3>3, <3>4, <3>5, <3>6, <3>7 DEF Survivals
  <2> QED  BY <1>3, <2>1, <2>2
<1>6. wal \in torn => wals[wal].torn \/ wal \in Shortened(n)
  BY <1>3, <1>5
<1>7. WalsLeft(n, torn) /\ ~Exposes(wals, n)
  BY <1>3, <1>5, <1>6 DEF WalsLeft
<1>8. vlogs' = After(vlogs, AllOf(vlogs))
  BY DEF Kill
<1> QED  BY <1>1, <1>2, <1>7, <1>8

\* What a crash leaves, if it takes nothing that was thought to be fsynced.
Crashed ==
    /\ FileTypes(wals', WalFile) /\ CutTo(wals, wals')
    /\ FileTypes(vlogs', VlogFile) /\ CutTo(vlogs, vlogs')
    /\ \A id \in DOMAIN wals : id # wal => wals'[id].torn = wals[id].torn
    /\ wals'[wal].torn => wals[wal].torn \/ Len(wals'[wal].recs) < Len(wals[wal].recs)

\* What any crash leaves.
Remains ==
    /\ FileTypes(wals', WalFile) /\ PrefixTo(wals, wals')
    /\ FileTypes(vlogs', VlogFile) /\ PrefixTo(vlogs, vlogs')

\* The WALs after a crash.
LEMMA WalsLeftAre ==
  ASSUME FilesInv, Serving, NEW n, NEW torn, WalsLeft(n, torn)
  PROVE  /\ FileTypes(wals', WalFile) /\ PrefixTo(wals, wals')
         /\ ~Exposes(wals, n) =>
              /\ CutTo(wals, wals')
              /\ \A id \in DOMAIN wals : id # wal => wals'[id].torn = wals[id].torn
              /\ wals'[wal].torn => wals[wal].torn \/ Len(wals'[wal].recs) < Len(wals[wal].recs)
<1> DEFINE g == After(wals, n)
<1>1. FileTypes(wals, WalFile) /\ wal \in DOMAIN wals
  BY ActiveFiles DEF FilesInv, DiskTypes
<1>2. /\ FileTypes(g, WalFile) /\ PrefixTo(wals, g)
      /\ ~Exposes(wals, n) => CutTo(wals, g)
      /\ \A id \in DOMAIN wals : g[id].torn = wals[id].torn
      /\ \A id \in DOMAIN n : id \in DOMAIN wals /\ Len(g[id].recs) = n[id]
  BY <1>1, AfterIs DEF WalsLeft
<1>3. wals' = [id \in DOMAIN wals |->
        [g[id] EXCEPT !.torn = IF id \in Shortened(n) \cup {wal} THEN id \in torn ELSE @]]
  BY DEF WalsLeft, WalsAfter
<1> HIDE DEF g
<1>4. DOMAIN wals' = DOMAIN wals /\ DOMAIN g = DOMAIN wals
  BY <1>2, <1>3 DEF PrefixTo
<1>5. ASSUME NEW id \in DOMAIN wals
      PROVE  /\ wals'[id] \in WalFile /\ wals'[id].recs = g[id].recs /\ wals'[id].synced = g[id].synced
             /\ wals'[id].torn = IF id \in Shortened(n) \cup {wal} THEN id \in torn ELSE wals[id].torn
  <2>1. g[id] \in WalFile /\ wals[id] \in WalFile /\ g[id].torn = wals[id].torn
    BY <1>1, <1>2, <1>4 DEF FileTypes
  <2>2. PICK t : t = IF id \in Shortened(n) \cup {wal} THEN id \in torn ELSE g[id].torn
    OBVIOUS
  <2>3. wals'[id] = [g[id] EXCEPT !.torn = t]
    BY <1>3, <2>2
  <2>4. t \in BOOLEAN
    <3>1. g[id].torn \in BOOLEAN
      BY <2>1 DEF WalFile
    <3>2. CASE id \in Shortened(n) \cup {wal}
      <4>1. CASE id \in torn
        BY <2>2, <3>2, <4>1
      <4>2. CASE id \notin torn
        BY <2>2, <3>2, <4>2
      <4> QED  BY <4>1, <4>2
    <3>3. CASE id \notin Shortened(n) \cup {wal}
      BY <2>2, <3>1, <3>3
    <3> QED  BY <3>2, <3>3
  <2>5. /\ wals'[id] \in WalFile /\ wals'[id].recs = g[id].recs /\ wals'[id].synced = g[id].synced
        /\ wals'[id].torn = t
    BY <2>1, <2>3, <2>4 DEF WalFile
  <2> QED  BY <2>1, <2>2, <2>5
<1>6. FileTypes(wals', WalFile)
  <2>1. wals' = [id \in DOMAIN wals' |-> wals'[id]]
    BY <1>3
  <2>2. wals' \in [DOMAIN wals' -> WalFile]
    BY <1>4, <1>5, <2>1
  <2> QED  BY <1>1, <1>2, <1>4, <1>5, <2>2 DEF FileTypes
<1>7. PrefixTo(wals, wals')
  BY <1>2, <1>4, <1>5 DEF PrefixTo
<1>8. ASSUME ~Exposes(wals, n)
      PROVE  /\ CutTo(wals, wals')
             /\ \A id \in DOMAIN wals : id # wal => wals'[id].torn = wals[id].torn
             /\ wals'[wal].torn => wals[wal].torn \/ Len(wals'[wal].recs) < Len(wals[wal].recs)
  <2>1. CutTo(wals, g)
    BY <1>2, <1>8
  <2>2. CutTo(wals, wals')
    BY <1>5, <1>7, <2>1 DEF CutTo
  <2>3. ASSUME NEW id \in Shortened(n)
        PROVE  id \in DOMAIN wals /\ Len(g[id].recs) < Len(wals[id].recs)
    BY <1>2 DEF Shortened
  <2>4. ASSUME NEW id \in DOMAIN wals, id # wal
        PROVE  id \notin Shortened(n)
    <3>1. wals[id].synced = Len(wals[id].recs) /\ Len(wals[id].recs) \in Nat
      BY <1>2, <2>4 DEF FilesInv, Sealed, PrefixTo
    <3>2. g[id].recs = wals[id].recs
      BY <2>1, <3>1 DEF CutTo
    <3> QED  BY <2>3, <3>1, <3>2
  <2>5. wals'[wal].torn => wals[wal].torn \/ Len(wals'[wal].recs) < Len(wals[wal].recs)
    BY <1>1, <1>5, <2>3 DEF WalsLeft
  <2> QED  BY <1>5, <2>2, <2>4, <2>5
<1> QED  BY <1>6, <1>7, <1>8

\* What a crash leaves, file by file.
LEMMA CrashIs ==
  ASSUME FilesInv, Crash \/ Kill
  PROVE  /\ Serving /\ ProcessEnds /\ Remains /\ cached' \in [DOMAIN cached' -> Nat]
         /\ ~exposed' => ~exposed /\ Crashed
<1>0. ProcessEnds
  BY DEF Crash, Kill
<1>1. Serving
  BY <1>0 DEF ProcessEnds, Serving, FilesInv, MemoryTypes
<1>2. FileTypes(wals, WalFile) /\ FileTypes(vlogs, VlogFile)
  BY DEF FilesInv, DiskTypes
<1>3. \E n, torn : WalsLeft(n, torn) /\ \E m \in Survivals(vlogs) :
         /\ vlogs' = After(vlogs, m)
         /\ ~exposed' => ~exposed /\ ~Exposes(wals, n) /\ ~Exposes(vlogs, m)
  <2>1. CASE Crash
    BY <2>1 DEF Crash, WalsLeft
  <2>2. CASE Kill
    <3>1. exposed' = exposed
      BY <2>2 DEF Kill
    <3>2. PICK n, torn : WalsLeft(n, torn) /\ ~Exposes(wals, n)
      BY <1>1, <2>2, KillIs
    <3>3. AllOf(vlogs) \in Survivals(vlogs) /\ ~Exposes(vlogs, AllOf(vlogs))
          /\ vlogs' = After(vlogs, AllOf(vlogs))
      BY <1>1, <2>2, KillIs
    <3> QED  BY <3>1, <3>2, <3>3
  <2> QED  BY <2>1, <2>2
<1>4. PICK n, torn : WalsLeft(n, torn) /\ \E m \in Survivals(vlogs) :
         /\ vlogs' = After(vlogs, m)
         /\ ~exposed' => ~exposed /\ ~Exposes(wals, n) /\ ~Exposes(vlogs, m)
  BY <1>3
<1>5. PICK m \in Survivals(vlogs) :
         /\ vlogs' = After(vlogs, m)
         /\ ~exposed' => ~exposed /\ ~Exposes(wals, n) /\ ~Exposes(vlogs, m)
  BY <1>4
<1>6. /\ FileTypes(vlogs', VlogFile) /\ PrefixTo(vlogs, vlogs')
      /\ ~Exposes(vlogs, m) => CutTo(vlogs, vlogs')
  BY <1>2, <1>5, AfterIs
<1>7. /\ FileTypes(wals', WalFile) /\ PrefixTo(wals, wals')
      /\ ~Exposes(wals, n) =>
           /\ CutTo(wals, wals')
           /\ \A id \in DOMAIN wals : id # wal => wals'[id].torn = wals[id].torn
           /\ wals'[wal].torn => wals[wal].torn \/ Len(wals'[wal].recs) < Len(wals[wal].recs)
  BY <1>1, <1>4, WalsLeftAre
<1>8. Remains
  BY <1>6, <1>7 DEF Remains
<1>9. ~exposed' => ~exposed /\ Crashed
  BY <1>5, <1>6, <1>7 DEF Crashed
<1>10. cached' \in [DOMAIN cached' -> Nat]
  <2>1. CASE Crash
    BY <2>1 DEF Crash
  <2>2. CASE Kill
    <3>1. cached' = [id \in Unsynced(wals) \cup Unsynced(vlogs) |->
                     IF id \in DOMAIN wals THEN OnDisk(wals, id) ELSE OnDisk(vlogs, id)]
      BY <2>2 DEF Kill
    <3>2. \A id \in DOMAIN wals : OnDisk(wals, id) \in Nat
      BY <1>2, OnDiskIs DEF FileTypes, WalFile
    <3>3. \A id \in DOMAIN vlogs : OnDisk(vlogs, id) \in Nat
      BY <1>2, OnDiskIs DEF FileTypes, VlogFile
    <3>4. Unsynced(wals) \subseteq DOMAIN wals /\ Unsynced(vlogs) \subseteq DOMAIN vlogs
      BY DEF Unsynced
    <3> QED  BY <3>1, <3>2, <3>3, <3>4
  <2> QED  BY <2>1, <2>2
<1> QED  BY <1>0, <1>1, <1>8, <1>9, <1>10

\* A crash.
LEMMA CrashFilesKept ==
  ASSUME FilesInv, Crash \/ Kill
  PROVE  FilesInv'
<1>1. Remains /\ Serving /\ ProcessEnds /\ cached' \in [DOMAIN cached' -> Nat]
  BY CrashIs
<1>2. /\ phase' = "down" /\ crashes' = crashes + 1
      /\ mem' = {} /\ imms' = <<>> /\ visible' = 0
      /\ wal' = 0 /\ head' = 0 /\ vmap' = {} /\ retired' = {} /\ obsolete' = {} /\ nextId' = 0
      /\ pinning' = {} /\ inflight' = <<>> /\ gc' = <<>>
      /\ bgError' = FALSE /\ late' = FALSE
      /\ (ssts' = ssts \/ ssts' = ssts \cup {nextId})
      /\ building' = <<>>
      /\ UNCHANGED <<manifest, opts, archives, faults, history>>
  BY <1>1 DEF ProcessEnds
<1>3. nextId \in Nat /\ head \in DOMAIN vlogs /\ head \in Nat
  BY <1>1, ActiveFiles
<1>4. DiskTypes'
  <2>1. ssts' \in SUBSET Nat /\ IsFiniteSet(ssts')
    <3>1. ssts \in SUBSET Nat /\ IsFiniteSet(ssts)
      BY DEF FilesInv, DiskTypes
    <3>2. IsFiniteSet(ssts \cup {nextId})
      BY <3>1, FS_AddElement
    <3> QED  BY <1>2, <1>3, <3>1, <3>2
  <2> QED  BY <1>1, <1>2, <2>1 DEF FilesInv, DiskTypes, Remains
<1>5. MemoryTypes'
  <2>1. crashes' \in Nat /\ 0 \in 0 .. MaxSeq /\ imms' \in Seq(Frozen)
    BY <1>2, OptionsTyped DEF FilesInv, MemoryTypes
  <2> QED  BY <1>1, <1>2, <2>1 DEF FilesInv, MemoryTypes, history
<1>6. ~Serving'
  BY <1>2 DEF Serving
<1>7. Phases' /\ Ids' /\ Sealed'
  BY <1>1, <1>2, <1>6 DEF Phases, Ids, Sealed, Remains, PrefixTo
<1>8. DOMAIN vlogs' = DOMAIN vlogs
  BY <1>1 DEF Remains, PrefixTo
<1>9. \A v \in DOMAIN vlogs : \E h \in Young' : v <= h
  <2>1. head \in Young'
    BY <1>1, <1>2, <1>3, <1>8 DEF Young, FilesInv, ValueFiles, DiskTypes, ManifestData
  <2>2. \A v \in DOMAIN vlogs : v <= head
    BY <1>1 DEF FilesInv, Ids
  <2> QED  BY <2>1, <2>2
<1>10. ValueFiles'
  BY <1>1, <1>2, <1>6, <1>8, <1>9 DEF FilesInv, ValueFiles
<1> QED  BY <1>4, <1>5, <1>7, <1>10 DEF FilesInv

\* A refused open touches no file.
LEMMA OpenFailsFilesKept ==
  ASSUME FilesInv, phase = "down", OpenFails
  PROVE  FilesInv'
<1>1. /\ phase' = "failed" /\ ~Serving /\ ~Serving'
      /\ UNCHANGED <<disk, aside, wal, tree, vlogVars, nextId, pinning, inflight, gc, bgError,
                   late, failures, history>>
  BY DEF OpenFails, Serving
<1>2. DiskTypes' /\ MemoryTypes' /\ Phases' /\ Ids' /\ Sealed'
  BY <1>1 DEF FilesInv, DiskTypes, FileTypes, MemoryTypes, Phases, Ids, Sealed, disk, aside, tree,
              vlogVars, failures, history
<1>3. Young' = Young
  BY <1>1 DEF Young, disk
<1>4. ValueFiles'
  BY <1>1, <1>3 DEF FilesInv, ValueFiles, disk, vlogVars
<1> QED  BY <1>2, <1>4 DEF FilesInv

\* The records a replay reads have their type.
LEMMA ReplayTyped ==
  ASSUME FilesInv
  PROVE  /\ \A p \in Replay : /\ p = <<p[1], p[2]>> /\ p[1] \in ReplayIds /\ p[2] \in Marks(p[1])
                              /\ p[1] \in DOMAIN wals /\ p[1] \in Nat /\ p[2] \in Nat \ {0}
                              /\ manifest.floor <= p[1]
                              /\ TornAt(p) => wals[p[1]].torn /\ p[2] = Len(wals[p[1]].recs) + 1
                              /\ ~TornAt(p) => p[2] \in 1 .. Len(wals[p[1]].recs) /\ RecAt(p) \in Batch
         /\ \A id \in DOMAIN wals : /\ id \in Nat /\ Len(wals[id].recs) \in Nat /\ wals[id].torn \in BOOLEAN
                                    /\ wals[id].recs \in Seq(Batch)
<1>1. ASSUME NEW id \in DOMAIN wals
      PROVE  /\ id \in Nat /\ Len(wals[id].recs) \in Nat /\ wals[id].torn \in BOOLEAN
             /\ wals[id].recs \in Seq(Batch)
  <2>1. wals[id] \in WalFile /\ id \in Nat
    BY DEF FilesInv, DiskTypes, FileTypes
  <2> QED  BY <2>1, LenProperties DEF WalFile
<1>2. ASSUME NEW p \in Replay
      PROVE  /\ p = <<p[1], p[2]>> /\ p[1] \in ReplayIds /\ p[2] \in Marks(p[1])
             /\ p[1] \in DOMAIN wals /\ p[1] \in Nat /\ p[2] \in Nat \ {0}
             /\ manifest.floor <= p[1]
             /\ TornAt(p) => wals[p[1]].torn /\ p[2] = Len(wals[p[1]].recs) + 1
             /\ ~TornAt(p) => p[2] \in 1 .. Len(wals[p[1]].recs) /\ RecAt(p) \in Batch
  <2>0. PICK id \in ReplayIds : \E i \in Marks(id) : p = <<id, i>>
    BY DEF Replay
  <2>1. PICK i \in Marks(id) : p = <<id, i>>
    BY <2>0
  <2>2. p[1] = id /\ p[2] = i /\ p = <<p[1], p[2]>>
    BY <2>1
  <2>3. id \in DOMAIN wals /\ manifest.floor <= id
    <3>1. id \in DOMAIN wals /\ id >= manifest.floor
      BY DEF ReplayIds
    <3> QED  BY <3>1, <1>1 DEF FilesInv, DiskTypes, ManifestData
  <2>4. /\ id \in Nat /\ Len(wals[id].recs) \in Nat /\ wals[id].torn \in BOOLEAN
        /\ wals[id].recs \in Seq(Batch)
    BY <1>1, <2>3
  <2>5. i \in 1 .. Len(wals[id].recs) + (IF wals[id].torn THEN 1 ELSE 0)
    BY DEF Marks
  <2>6. /\ i \in Nat \ {0}
        /\ i > Len(wals[id].recs) => wals[id].torn /\ i = Len(wals[id].recs) + 1
        /\ ~(i > Len(wals[id].recs)) => i \in 1 .. Len(wals[id].recs)
    <3>1. CASE wals[id].torn
      BY <2>4, <2>5, <3>1
    <3>2. CASE ~wals[id].torn
      BY <2>4, <2>5, <3>2
    <3> QED  BY <3>1, <3>2
  <2>7. i \in 1 .. Len(wals[id].recs) => wals[id].recs[i] \in Batch
    BY <2>4, ElementOfSeq
  <2> QED  BY <2>1, <2>2, <2>3, <2>4, <2>6, <2>7 DEF TornAt, RecAt
<1> QED  BY <1>1, <1>2

\* What a replay takes is not damaged, and its records are batches.
LEMMA TakenIs ==
  ASSUME FilesInv
  PROVE  /\ \A p \in Taken(Replay) : p \in Replay /\ ~Bad(p) /\ RecAt(p) \in Batch
         /\ ReplayedRecs(Replay) \in SUBSET Batch
         /\ ReplayedRecs(Replay) # {} => ReplayIds # {}
<1>1. ASSUME NEW p \in Taken(Replay)
      PROVE  p \in Replay /\ ~Bad(p) /\ RecAt(p) \in Batch
  <2>1. p \in Replay /\ \A q \in Replay : Bad(q) => Before(p, q)
    BY DEF Taken
  <2>2. p[1] \in Nat /\ p[2] \in Nat
    BY <2>1, ReplayTyped
  <2>3. ~Before(p, p)
    BY <2>2 DEF Before
  <2>4. ~Bad(p)
    BY <2>1, <2>3
  <2> QED  BY <2>1, <2>4, ReplayTyped DEF Bad
<1>2. \A r \in ReplayedRecs(Replay) : \E p \in Taken(Replay) : r = RecAt(p)
  BY DEF ReplayedRecs
<1>3. ReplayedRecs(Replay) \in SUBSET Batch
  BY <1>1, <1>2
<1>4. ReplayedRecs(Replay) # {} => ReplayIds # {}
  BY <1>1, <1>2, ReplayTyped
<1> QED  BY <1>1, <1>3, <1>4

\* The successors of a finite set of numbers.
LEMMA Successors ==
  ASSUME NEW S \in SUBSET Nat, IsFiniteSet(S)
  PROVE  {id + 1 : id \in S} \in SUBSET Nat /\ IsFiniteSet({id + 1 : id \in S})
<1> DEFINE T == {id + 1 : id \in S}
<1>1. T \in SUBSET Nat
  OBVIOUS
<1>2. CASE S = {}
  <2>1. T = {}
    BY <1>2
  <2> QED  BY <1>1, <2>1, FS_EmptySet
<1>3. CASE S # {}
  <2>1. PICK m \in S : \A y \in S : y <= m
    BY <1>3, GreatestExists
  <2>2. T \in SUBSET (0 .. m + 1)
    BY <2>1
  <2>3. IsFiniteSet(0 .. m + 1)
    BY FS_Interval
  <2> QED  BY <1>1, <2>2, <2>3, FS_Subset
<1> QED  BY <1>2, <1>3

\* The recovered counter clears every file there is.
LEMMA RecoveredIdIs ==
  ASSUME FilesInv, ~Serving
  PROVE  /\ RecoveredNextId \in Nat /\ 1 <= RecoveredNextId /\ manifest.next <= RecoveredNextId
         /\ \A id \in (DOMAIN wals) \cup (DOMAIN vlogs) \cup ssts : id \in Nat /\ id < RecoveredNextId
         /\ manifest.head <= RecoveredNextId
<1> DEFINE F == Young \cup (DOMAIN wals) \cup ssts
           S == {1, manifest.next} \cup {id + 1 : id \in F}
<1>1. /\ DOMAIN wals \in SUBSET Nat /\ DOMAIN vlogs \in SUBSET Nat /\ ssts \in SUBSET Nat
      /\ IsFiniteSet(DOMAIN wals) /\ IsFiniteSet(DOMAIN vlogs) /\ IsFiniteSet(ssts)
      /\ manifest.next \in Nat /\ manifest.head \in Nat /\ manifest.head <= manifest.next
  BY DEF FilesInv, DiskTypes, FileTypes, ManifestData, ValueFiles
<1>2. Young \subseteq DOMAIN vlogs
  BY DEF Young
<1>3. F \in SUBSET Nat /\ IsFiniteSet(F)
  <2>1. IsFiniteSet(Young)
    BY <1>1, <1>2, FS_Subset
  <2>2. IsFiniteSet(Young \cup DOMAIN wals)
    BY <1>1, <2>1, FS_Union
  <2>3. IsFiniteSet((Young \cup DOMAIN wals) \cup ssts)
    BY <1>1, <2>2, FS_Union
  <2> QED  BY <1>1, <1>2, <2>3
<1>4. \A id \in F : id + 1 \in S
  OBVIOUS
<1>5. S \in SUBSET Nat /\ IsFiniteSet(S) /\ 1 \in S /\ manifest.next \in S
  <2> DEFINE T == {id + 1 : id \in F}
  <2>1. T \in SUBSET Nat /\ IsFiniteSet(T)
    BY <1>3, Successors
  <2> HIDE DEF T, F
  <2>2. IsFiniteSet({1, manifest.next})
    <3>1. {1} \cup {manifest.next} = {1, manifest.next}
      OBVIOUS
    <3>2. IsFiniteSet({1}) /\ IsFiniteSet({manifest.next})
      BY FS_Singleton
    <3>3. IsFiniteSet({1} \cup {manifest.next})
      BY <3>2, FS_Union
    <3> QED  BY <3>1, <3>3
  <2>3. IsFiniteSet({1, manifest.next} \cup T)
    BY <2>1, <2>2, FS_Union
  <2>4. {1, manifest.next} \cup T \in SUBSET Nat
    <3>1. 1 \in Nat /\ manifest.next \in Nat
      BY <1>1
    <3> QED  BY <2>1, <3>1, Zenon
  <2> QED  BY <2>3, <2>4 DEF T
<1>6. RecoveredNextId = Max(S)
  BY DEF RecoveredNextId
<1> HIDE DEF F, S
<1>7. Max(S) \in S /\ \A y \in S : y <= Max(S)
  <2>1. S \in SUBSET Int /\ S # {}
    BY <1>5
  <2> QED  BY <1>5, <2>1, MaxIs
<1>8. Max(S) \in Nat /\ 1 <= Max(S) /\ manifest.next <= Max(S) /\ \A id \in F : id + 1 <= Max(S)
  BY <1>4, <1>5, <1>7
<1>9. \A id \in F : id < Max(S)
  BY <1>3, <1>8
<1>10. \A id \in (DOMAIN wals) \cup ssts \cup Young : id < Max(S)
  BY <1>9 DEF F
<1>11. \A v \in DOMAIN vlogs : v < Max(S)
  <2>1. ASSUME NEW v \in DOMAIN vlogs
        PROVE  v < Max(S)
    <3>1. v < manifest.next \/ \E h \in Young : v <= h
      BY DEF FilesInv, ValueFiles
    <3>2. v \in Nat /\ \A h \in Young : h \in Nat /\ h < Max(S)
      BY <1>1, <1>2, <1>10
    <3> QED  BY <1>1, <1>8, <3>1, <3>2
  <2> QED  BY <2>1
<1>12. \A id \in (DOMAIN wals) \cup (DOMAIN vlogs) \cup ssts : id \in Nat /\ id < Max(S)
  BY <1>1, <1>10, <1>11
<1>13. manifest.head <= Max(S)
  BY <1>1, <1>8
<1> QED  BY <1>6, <1>8, <1>12, <1>13

\* The head a replay recovers.
TopOf(recs) == Max({manifest.flushed} \cup {r.seq : r \in recs})

\* What an open that is not refused does.
Opens(recs, id) ==
    /\ ~Refused(Replay) /\ \A s \in manifest.pins : ~(s > TopOf(recs))
    /\ id \notin DOMAIN vlogs /\ id + 1 \notin DOMAIN wals
    /\ wals' = With(Truncated(Replay), id + 1, EmptyWal)
    /\ vlogs' = With(vlogs, id, EmptyVlog)
    /\ phase' = "opened"
    /\ wal' = id + 1 /\ head' = id /\ nextId' = id + 2
    /\ vmap' = Adopted \cup {id}
    /\ retired' = {r \in manifest.retired : r.id \in DOMAIN vlogs}
    /\ imms' = IF recs = {} THEN <<>> ELSE <<[wal |-> Max(ReplayIds), recs |-> recs]>>
    /\ visible' = TopOf(recs)
    /\ acked' = Flushed \cup recs
    /\ promised' = Flushed \cup recs
    /\ gray' = {r \in gray \cap acked' : \E q \in acked' : q.key = r.key /\ q.seq > r.seq}
    /\ cached' = Keep(cached, {x \in DOMAIN cached :
                                  x \in DOMAIN wals => Truncated(Replay)[x] = wals[x]})
    /\ UNCHANGED <<ssts, manifest, aside, mem, unlisted, obsolete, pinning, inflight, gc,
                   bgError, late, crashes, faults, exposed>>

\* OpenReplay, once it has read the WALs and chosen its file ids.
OpenBody(ps, recs, id) ==
    IF \/ Refused(ps) \/ \E s \in manifest.pins : s > TopOf(recs)
       \/ id \in DOMAIN vlogs \/ id + 1 \in DOMAIN wals
    THEN OpenFails
    ELSE /\ wals' = With(Truncated(ps), id + 1, EmptyWal)
         /\ vlogs' = With(vlogs, id, EmptyVlog)
         /\ phase' = "opened"
         /\ wal' = id + 1 /\ head' = id /\ nextId' = id + 2
         /\ vmap' = Adopted \cup {id}
         /\ retired' = {r \in manifest.retired : r.id \in DOMAIN vlogs}
         /\ imms' = IF recs = {} THEN <<>> ELSE <<[wal |-> Max(ReplayIds), recs |-> recs]>>
         /\ visible' = TopOf(recs)
         /\ acked' = Flushed \cup recs
         /\ promised' = Flushed \cup recs
         /\ gray' = {r \in gray \cap acked' : \E q \in acked' : q.key = r.key /\ q.seq > r.seq}
         /\ cached' = Keep(cached, {x \in DOMAIN cached :
                                       x \in DOMAIN wals => Truncated(ps)[x] = wals[x]})
         /\ UNCHANGED <<ssts, manifest, aside, mem, unlisted, obsolete, pinning,
                        inflight, gc, bgError, late, crashes, faults, exposed>>

\* An open either fails or opens.
LEMMA OpenReplayIs ==
  ASSUME OpenReplay
  PROVE  /\ phase = "down"
         /\ OpenFails \/ Opens(ReplayedRecs(Replay), RecoveredNextId)
<1>1. /\ phase = "down"
      /\ \E ps \in {Replay} : \E recs \in {ReplayedRecs(ps)}, id \in {RecoveredNextId} :
           OpenBody(ps, recs, id)
  BY Zenon DEF OpenReplay, OpenBody, TopOf
<1>2. OpenBody(Replay, ReplayedRecs(Replay), RecoveredNextId)
  BY <1>1
<1> DEFINE recs == ReplayedRecs(Replay)
           id == RecoveredNextId
           refused == \/ Refused(Replay) \/ \E s \in manifest.pins : s > TopOf(recs)
                      \/ id \in DOMAIN vlogs \/ id + 1 \in DOMAIN wals
<1>3. CASE refused
  BY <1>1, <1>2, <1>3, Zenon DEF OpenBody
<1>4. CASE ~refused
  <2>1. Opens(recs, id)
    BY <1>2, <1>4, Zenon DEF OpenBody, Opens
  <2> QED  BY <1>1, <2>1
<1> QED  BY <1>3, <1>4

\* The WALs with a torn tail cut off.
LEMMA TruncatedIs ==
  ASSUME FilesInv
  PROVE  /\ FileTypes(Truncated(Replay), WalFile) /\ DOMAIN Truncated(Replay) = DOMAIN wals
         /\ \A id \in DOMAIN wals :
              /\ Truncated(Replay)[id].recs = wals[id].recs
              /\ Truncated(Replay)[id].synced = wals[id].synced
              /\ Truncated(Replay)[id].torn <=>
                   wals[id].torn /\ \A p \in ReplayEnd(Replay) : TornAt(p) => p[1] # id
<1> DEFINE g == Truncated(Replay)
           keeps(id) == \A p \in ReplayEnd(Replay) : TornAt(p) => p[1] # id
<1>1. /\ DOMAIN g = DOMAIN wals /\ g = [id \in DOMAIN g |-> g[id]]
      /\ \A id \in DOMAIN wals : g[id] = [wals[id] EXCEPT !.torn = wals[id].torn /\ keeps(id)]
  BY DEF Truncated
<1>2. FileTypes(wals, WalFile) /\ \A id \in DOMAIN wals : wals[id] \in WalFile /\ wals[id].torn \in BOOLEAN
  BY DEF FilesInv, DiskTypes, FileTypes, WalFile
<1> HIDE DEF g, keeps
<1>3. ASSUME NEW id \in DOMAIN wals
      PROVE  /\ g[id] \in WalFile /\ g[id].recs = wals[id].recs /\ g[id].synced = wals[id].synced
             /\ g[id].torn <=> wals[id].torn /\ keeps(id)
  <2> DEFINE t == wals[id].torn /\ keeps(id)
  <2>1. t \in BOOLEAN
    BY Zenon
  <2>2. wals[id] \in WalFile /\ g[id] = [wals[id] EXCEPT !.torn = t]
    BY <1>1, <1>2
  <2> HIDE DEF t
  <2>3. g[id] \in WalFile /\ g[id].recs = wals[id].recs /\ g[id].synced = wals[id].synced /\ g[id].torn = t
    BY <2>1, <2>2 DEF WalFile
  <2> QED  BY <2>3 DEF t
<1>4. FileTypes(g, WalFile)
  <2>1. g \in [DOMAIN g -> WalFile]
    BY <1>1, <1>3
  <2> QED  BY <1>1, <1>2, <1>3, <2>1 DEF FileTypes
<1> QED  BY <1>1, <1>3, <1>4 DEF g, keeps

\* The open, up to the recovery flush.
LEMMA OpensFilesKept ==
  ASSUME FilesInv, phase = "down", Opens(ReplayedRecs(Replay), RecoveredNextId)
  PROVE  FilesInv'
<1> DEFINE recs == ReplayedRecs(Replay)
           id == RecoveredNextId
           T == Truncated(Replay)
<1>1. ~Serving /\ mem = {} /\ obsolete = {} /\ pinning = {} /\ inflight = <<>> /\ gc = <<>>
      /\ building = <<>>
  BY DEF Serving, FilesInv, Phases
<1>2. /\ id \in Nat /\ 1 <= id /\ manifest.next <= id /\ manifest.head <= id
      /\ \A v \in (DOMAIN wals) \cup (DOMAIN vlogs) \cup ssts : v \in Nat /\ v < id
  BY <1>1, RecoveredIdIs
<1>3. recs \in SUBSET Batch /\ (recs # {} => ReplayIds # {})
  BY TakenIs
<1>4. Opens(recs, id)
  OBVIOUS
<1>5. /\ FileTypes(T, WalFile) /\ DOMAIN T = DOMAIN wals
      /\ \A v \in DOMAIN wals : T[v].recs = wals[v].recs /\ T[v].synced = wals[v].synced
  BY TruncatedIs
<1>6. /\ TopOf(recs) \in 0 .. MaxSeq
  <2>1. manifest.flushed \in 0 .. MaxSeq /\ MaxSeq \in Nat
    BY OptionsTyped DEF FilesInv, DiskTypes, ManifestData
  <2> QED  BY <1>3, <2>1, TopIs DEF TopOf
<1>m. recs # {} => Max(ReplayIds) \in DOMAIN wals
  <2>1. ReplayIds \in SUBSET Nat /\ ReplayIds \in SUBSET DOMAIN wals /\ IsFiniteSet(DOMAIN wals)
    BY DEF ReplayIds, FilesInv, DiskTypes, FileTypes
  <2>2. IsFiniteSet(ReplayIds)
    BY <2>1, FS_Subset
  <2>3. ReplayIds \in SUBSET Int
    BY <2>1
  <2> QED  BY <1>3, <2>1, <2>2, <2>3, MaxIs
<1>f. Flushed \in SUBSET Batch
  BY DEF Flushed, FilesInv, DiskTypes, ManifestData, Run
<1> HIDE DEF recs, id, T
<1>7. wals' = With(T, id + 1, EmptyWal) /\ vlogs' = With(vlogs, id, EmptyVlog)
  BY <1>4 DEF Opens, T
<1>8. /\ Updated(T, wals', id + 1, EmptyWal) /\ Updated(vlogs, vlogs', id, EmptyVlog)
  BY <1>7, WithUpdates
<1>9. /\ FileTypes(wals', WalFile) /\ FileTypes(vlogs', VlogFile)
  <2>1. /\ EmptyWal \in WalFile /\ EmptyWal.synced <= Len(EmptyWal.recs)
        /\ EmptyVlog \in VlogFile /\ EmptyVlog.synced <= Len(EmptyVlog.recs) /\ id + 1 \in Nat
    BY <1>2, EmptyFiles
  <2>2. FileTypes(vlogs, VlogFile)
    BY DEF FilesInv, DiskTypes
  <2>3. FileTypes(wals', WalFile)
    BY <1>5, <1>8, <2>1, UpdatedTyped
  <2> QED  BY <1>2, <1>8, <2>1, <2>2, <2>3, UpdatedTyped
<1>10. DiskTypes'
  BY <1>4, <1>9 DEF FilesInv, DiskTypes, Opens
<1>11. /\ DOMAIN wals' = (DOMAIN wals) \cup {id + 1} /\ wals'[id + 1] = EmptyWal
       /\ \A v \in DOMAIN wals : wals'[v].recs = wals[v].recs /\ wals'[v].synced = wals[v].synced
       /\ DOMAIN vlogs' = (DOMAIN vlogs) \cup {id} /\ vlogs'[id] = EmptyVlog
       /\ \A v \in DOMAIN vlogs : vlogs'[v] = vlogs[v]
  <2>1. \A v \in DOMAIN wals : v # id + 1
    BY <1>2
  <2>2. \A v \in DOMAIN vlogs : v # id
    BY <1>2
  <2> QED  BY <1>5, <1>8, <2>1, <2>2 DEF Updated
<1>12. Serving' /\ phase' = "opened"
  BY <1>4 DEF Opens, Serving
<1>13. Adopted \subseteq DOMAIN vlogs /\ DOMAIN vlogs \in SUBSET Nat
  BY DEF Adopted, Young, FilesInv, ValueFiles, DiskTypes, FileTypes
<1>14. retired' = manifest.retired
  <2>1. \A r \in manifest.retired : r.id \in DOMAIN vlogs
    BY DEF FilesInv, ValueFiles, RetiredIds
  <2> QED  BY <1>4, <2>1 DEF Opens
<1>15. /\ imms' \in Seq(Frozen) /\ \A i \in DOMAIN imms' : i = 1 /\ imms'[i].wal < id + 1
  <2>1. CASE recs = {}
    <3>1. imms' = <<>>
      BY <1>4, <2>1 DEF Opens
    <3> QED  BY <3>1
  <2>2. CASE recs # {}
    <3> DEFINE x == [wal |-> Max(ReplayIds), recs |-> recs]
    <3>1. imms' = <<x>>
      BY <1>4, <2>2 DEF Opens
    <3>2. Max(ReplayIds) \in Nat /\ Max(ReplayIds) < id
      BY <1>2, <1>m, <2>2
    <3>3. x \in Frozen /\ x.wal < id + 1
      BY <1>2, <1>3, <3>2 DEF Frozen
    <3> HIDE DEF x
    <3> QED  BY <3>1, <3>3
  <2> QED  BY <2>1, <2>2
<1>16. MemoryTypes'
  <2>1. /\ id + 1 \in Nat /\ id + 2 \in Nat
    BY <1>2
  <2>2. vmap' \in SUBSET Nat
    BY <1>2, <1>4, <1>13 DEF Opens
  <2>3. acked' \in SUBSET Batch /\ promised' \in SUBSET Batch
    BY <1>3, <1>4, <1>f DEF Opens
  <2>4. gray' \in SUBSET Batch
    <3>1. gray' \subseteq gray
      BY <1>4 DEF Opens
    <3>2. gray \in SUBSET Batch
      BY DEF FilesInv, MemoryTypes
    <3> QED  BY <3>1, <3>2
  <2>5. retired' \in SUBSET Retirement
    BY <1>14 DEF FilesInv, DiskTypes, ManifestData
  <2>6. cached' \in [DOMAIN cached' -> Nat]
    BY <1>4 DEF Opens, Keep, FilesInv, MemoryTypes
  <2> QED  BY <1>2, <1>4, <1>6, <1>15, <2>1, <2>2, <2>3, <2>4, <2>5, <2>6 DEF Opens, FilesInv, MemoryTypes, aside
<1>17. Phases'
  BY <1>1, <1>4 DEF Opens, Phases, aside
<1>18. Ids'
  <2>1. wal' = id + 1 /\ head' = id /\ nextId' = id + 2 /\ ssts' = ssts /\ manifest' = manifest
    BY <1>4 DEF Opens
  <2>2. /\ manifest.floor \in Nat /\ manifest.floor <= manifest.next
    BY DEF FilesInv, DiskTypes, ManifestData, ValueFiles
  <2>3. \A v \in DOMAIN wals' : v < id + 2 /\ ~(v > id + 1)
    BY <1>2, <1>11
  <2>4. \A v \in DOMAIN vlogs' : v <= id
    BY <1>2, <1>11
  <2>5. \A v \in ssts : v < id + 2
    BY <1>2
  <2>6. manifest.next \in Nat /\ manifest.next <= id + 2 /\ 0 < id /\ id < id + 2 /\ manifest.floor <= id + 1
    BY <1>2, <2>2 DEF FilesInv, DiskTypes, ManifestData
  <2>7. \A i, j \in DOMAIN imms' : ~(i < j)
    BY <1>15
  <2> QED  BY <1>11, <1>15, <2>1, <2>3, <2>4, <2>5, <2>6, <2>7 DEF Ids
<1>19. Sealed'
  <2>1. wal' = id + 1 /\ head' = id /\ inflight' = <<>>
    BY <1>1, <1>4 DEF Opens
  <2> QED  BY <1>1, <1>11, <1>12, <2>1 DEF FilesInv, Sealed
<1>20. ValueFiles'
  <2>1. /\ head' = id /\ vmap' = Adopted \cup {id} /\ obsolete' = {} /\ manifest' = manifest
        /\ ssts' = ssts /\ gc' = <<>>
    BY <1>1, <1>4 DEF Opens
  <2>2. /\ RetiredIds(manifest.retired) \subseteq Adopted /\ id \notin RetiredIds(manifest.retired)
    BY <1>2 DEF Adopted, FilesInv, ValueFiles
  <2>3. id # Inline
    BY <1>2 DEF Inline
  <2> QED  BY <1>2, <2>3, <1>11, <1>12, <1>13, <1>14, <2>1, <2>2 DEF FilesInv, ValueFiles
<1> QED  BY <1>10, <1>16, <1>17, <1>18, <1>19, <1>20 DEF FilesInv

\* The open-completion manifest.
LEMMA OpenCompleteFilesKept ==
  ASSUME FilesInv, OpenComplete
  PROVE  FilesInv'
<1>1. /\ phase = "opened" /\ imms = <<>> /\ phase' = "sweep" /\ Serving /\ Serving'
      /\ manifest' = [manifest EXCEPT !.floor = wal, !.head = head, !.next = nextId,
                                    !.live = vmap \ RetiredIds(manifest.retired)]
      /\ wals' = Keep(wals, {id \in DOMAIN wals : id >= wal})
      /\ UNCHANGED <<vlogs, ssts, aside, wal, tree, vlogVars, nextId, pinning, inflight, gc,
                   bgError, late, failures, history>>
  BY DEF OpenComplete, Serving
<1>2. /\ nextId \in Nat /\ wal \in Nat /\ wal \in DOMAIN wals /\ wal < nextId /\ head < nextId
      /\ head \in Nat /\ vmap \in SUBSET Nat
  BY <1>1, ActiveFiles DEF FilesInv, MemoryTypes
<1>3. /\ manifest' \in ManifestData /\ manifest'.floor = wal /\ manifest'.head = head
      /\ manifest'.next = nextId /\ manifest'.live = vmap \ RetiredIds(manifest.retired)
      /\ manifest'.retired = manifest.retired /\ manifest'.runs = manifest.runs
  <2> DEFINE L == vmap \ RetiredIds(manifest.retired)
  <2>1. L \in SUBSET Nat /\ manifest \in ManifestData
    BY <1>2 DEF FilesInv, DiskTypes
  <2> HIDE DEF L
  <2>2. manifest' = [manifest EXCEPT !.floor = wal, !.head = head, !.next = nextId, !.live = L]
    BY <1>1 DEF L
  <2>3. /\ manifest' \in ManifestData /\ manifest'.floor = wal /\ manifest'.head = head
        /\ manifest'.next = nextId /\ manifest'.live = L
        /\ manifest'.retired = manifest.retired /\ manifest'.runs = manifest.runs
    BY <1>2, <2>1, <2>2 DEF ManifestData
  <2> QED  BY <2>3 DEF L
<1>4. /\ FileTypes(wals', WalFile) /\ DOMAIN wals' = {id \in DOMAIN wals : id >= wal}
      /\ \A id \in DOMAIN wals' : wals'[id] = wals[id]
  <2> DEFINE K == {id \in DOMAIN wals : id >= wal}
  <2>1. (DOMAIN wals) \cap K = K
    OBVIOUS
  <2>2. wals' = Keep(wals, K)
    BY <1>1
  <2> HIDE DEF K
  <2>3. FileTypes(wals', WalFile)
    BY <2>2, KeepTyped DEF FilesInv, DiskTypes
  <2>4. DOMAIN wals' = K /\ \A id \in DOMAIN wals' : wals'[id] = wals[id]
    BY <2>1, <2>2, KeepIs
  <2> QED  BY <2>3, <2>4 DEF K
<1>5. DiskTypes'
  BY <1>1, <1>3, <1>4 DEF FilesInv, DiskTypes
<1>6. MemoryTypes' /\ Phases'
  BY <1>1, <1>2 DEF FilesInv, MemoryTypes, Phases, aside, tree, vlogVars, failures, history
<1>7. Ids'
  <2>1. wal \in DOMAIN wals' /\ wal <= wal
    BY <1>2, <1>4
  <2>2. manifest'.next <= nextId
    BY <1>2, <1>3
  <2> QED  BY <1>1, <1>2, <1>3, <1>4, <2>1, <2>2 DEF FilesInv, Ids, Serving, tree, vlogVars
<1>8. Sealed'
  BY <1>1, <1>2, <1>4 DEF FilesInv, Sealed, Serving, vlogVars, Phases
<1>9. ValueFiles'
  <2>1. /\ manifest'.head <= manifest'.next /\ manifest'.head <= head
        /\ manifest'.floor <= manifest'.next
    BY <1>2, <1>3
  <2>2. manifest'.live \subseteq DOMAIN vlogs /\ manifest'.live \cap RetiredIds(manifest.retired) = {}
        /\ vmap \subseteq manifest'.live \cup RetiredIds(manifest.retired)
    BY <1>1, <1>3 DEF FilesInv, ValueFiles
  <2>3. gc = <<>> /\ obsolete = {}
    BY <1>1 DEF FilesInv, Phases
  <2> QED  BY <1>1, <1>3, <2>1, <2>2, <2>3 DEF FilesInv, ValueFiles, vlogVars
<1> QED  BY <1>5, <1>6, <1>7, <1>8, <1>9 DEF FilesInv

\* The sweep of files nothing refers to.
LEMMA StartupGcFilesKept ==
  ASSUME FilesInv, StartupGc
  PROVE  FilesInv'
<1>1. /\ phase = "sweep" /\ phase' = "up" /\ Serving /\ Serving'
      /\ ssts' = {r.id : r \in manifest.runs}
      /\ vlogs' = Keep(vlogs, manifest.live \cup RetiredIds(manifest.retired))
      /\ wals' = Keep(wals, {id \in DOMAIN wals : id >= manifest.floor})
      /\ UNCHANGED <<manifest, aside, wal, tree, vlogVars, nextId, pinning, inflight, gc, bgError,
                   late, failures, history>>
  BY DEF StartupGc, Serving
<1>2. /\ FileTypes(wals', WalFile) /\ DOMAIN wals' = {id \in DOMAIN wals : id >= manifest.floor}
      /\ \A id \in DOMAIN wals' : wals'[id] = wals[id]
  <2> DEFINE K == {id \in DOMAIN wals : id >= manifest.floor}
  <2>1. (DOMAIN wals) \cap K = K
    OBVIOUS
  <2>2. wals' = Keep(wals, K)
    BY <1>1
  <2> HIDE DEF K
  <2>3. FileTypes(wals', WalFile)
    BY <2>2, KeepTyped DEF FilesInv, DiskTypes
  <2>4. DOMAIN wals' = K /\ \A id \in DOMAIN wals' : wals'[id] = wals[id]
    BY <2>1, <2>2, KeepIs
  <2> QED  BY <2>3, <2>4 DEF K
<1>3. /\ FileTypes(vlogs', VlogFile) /\ DOMAIN vlogs' = manifest.live \cup RetiredIds(manifest.retired)
      /\ \A id \in DOMAIN vlogs' : vlogs'[id] = vlogs[id] /\ id \in DOMAIN vlogs
  <2> DEFINE K == manifest.live \cup RetiredIds(manifest.retired)
  <2>1. (DOMAIN vlogs) \cap K = K
    BY DEF FilesInv, ValueFiles
  <2>2. vlogs' = Keep(vlogs, K)
    BY <1>1
  <2> HIDE DEF K
  <2>3. FileTypes(vlogs', VlogFile)
    BY <2>2, KeepTyped DEF FilesInv, DiskTypes
  <2>4. DOMAIN vlogs' = K /\ \A id \in DOMAIN vlogs' : vlogs'[id] = vlogs[id] /\ id \in DOMAIN vlogs
    BY <2>1, <2>2, KeepIs
  <2> QED  BY <2>3, <2>4 DEF K
<1>4. ssts' \in SUBSET ssts
  BY <1>1 DEF FilesInv, ValueFiles
<1>5. DiskTypes'
  <2>1. IsFiniteSet(ssts') /\ ssts' \in SUBSET Nat
    BY <1>4, FS_Subset DEF FilesInv, DiskTypes
  <2> QED  BY <1>1, <1>2, <1>3, <2>1 DEF FilesInv, DiskTypes
<1>6. MemoryTypes' /\ Phases'
  BY <1>1 DEF FilesInv, MemoryTypes, Phases, aside, tree, vlogVars, failures, history
<1>7. Ids'
  <2>1. wal \in DOMAIN wals'
    BY <1>1, <1>2 DEF FilesInv, Ids, DiskTypes, ManifestData, MemoryTypes
  <2> QED  BY <1>1, <1>2, <1>3, <1>4, <2>1 DEF FilesInv, Ids, tree, vlogVars
<1>8. Sealed'
  BY <1>1, <1>2, <1>3 DEF FilesInv, Sealed, Phases, vlogVars
<1>9. ValueFiles'
  <2>1. gc = <<>> /\ obsolete = {}
    BY <1>1 DEF FilesInv, Phases
  <2>2. \A r \in manifest.runs : r.id \in ssts'
    BY <1>1
  <2> QED  BY <1>1, <1>3, <2>1, <2>2 DEF FilesInv, ValueFiles, vlogVars
<1> QED  BY <1>5, <1>6, <1>7, <1>8, <1>9 DEF FilesInv

\* An empty directory.
LEMMA InitFiles ==
  ASSUME Init
  PROVE  FilesInv
<1>1. /\ wals = <<>> /\ vlogs = <<>> /\ ssts = {}
      /\ manifest = [next |-> 1, flushed |-> 0, floor |-> 0, runs |-> {}, live |-> {}, head |-> 0,
                   retired |-> {}, pins |-> {}]
      /\ opts \in OptionSets /\ phase = "down" /\ wal = 0 /\ mem = {} /\ imms = <<>>
      /\ head = 0 /\ vmap = {} /\ retired = {} /\ obsolete = {} /\ nextId = 0 /\ visible = 0
      /\ pinning = {} /\ inflight = <<>> /\ gc = <<>>
      /\ bgError = FALSE /\ late = FALSE /\ crashes = 0 /\ faults = 0
      /\ acked = {} /\ promised = {} /\ gray = {} /\ building = <<>> /\ cached = <<>>
  BY DEF Init
<1>2. MaxSeq \in Nat /\ 0 \in 0 .. MaxSeq
  BY DurabilityAssumption
<1>3. /\ FileTypes(wals, WalFile) /\ FileTypes(vlogs, VlogFile) /\ DOMAIN wals = {} /\ DOMAIN vlogs = {}
  BY <1>1, FS_EmptySet DEF FileTypes
<1>4. DiskTypes
  BY <1>1, <1>2, <1>3, FS_EmptySet DEF DiskTypes, ManifestData
<1>5. MemoryTypes
  <2>1. imms \in Seq(Frozen) /\ \A T : {} \in SUBSET T
    BY <1>1
  <2>2. /\ mem \in SUBSET Batch /\ vmap \in SUBSET Nat /\ obsolete \in SUBSET Nat
        /\ retired \in SUBSET Retirement /\ pinning \in SUBSET (0 .. MaxSeq)
        /\ acked \in SUBSET Batch /\ promised \in SUBSET Batch /\ gray \in SUBSET Batch
    BY <1>1, <2>1, Zenon
  <2>3. cached \in [DOMAIN cached -> Nat]
    BY <1>1
  <2> QED  BY <1>1, <1>2, <2>1, <2>2, <2>3 DEF MemoryTypes
<1>6. Phases /\ Ids /\ Sealed
  BY <1>1, <1>3 DEF Phases, Ids, Sealed, Serving
<1>7. ValueFiles
  BY <1>1, <1>3 DEF ValueFiles, Serving, RetiredIds
<1> QED  BY <1>4, <1>5, <1>6, <1>7 DEF FilesInv

\* What a stutter leaves alone.
LEMMA StutterFilesKept ==
  ASSUME FilesInv, UNCHANGED vars
  PROVE  FilesInv'
<1>1. UNCHANGED <<disk, aside, phase, wal, tree, vlogVars, nextId, pinning, inflight, gc, bgError,
          late, failures, history>>
  BY DEF vars
<1>2. DiskTypes' /\ MemoryTypes' /\ Phases' /\ Ids'
  BY <1>1 DEF FilesInv, DiskTypes, FileTypes, MemoryTypes, Phases, Ids, Serving, tree,
               vlogVars, failures, history, disk, aside
<1>3. Young' = Young
  BY <1>1 DEF Young, disk
<1>4. Sealed' /\ ValueFiles'
  BY <1>1, <1>3 DEF FilesInv, Sealed, ValueFiles, Serving, vlogVars, disk
<1> QED  BY <1>2, <1>4 DEF FilesInv

\* Every step of the store or of a fork keeps the files.
LEMMA StepFilesKept ==
  ASSUME FilesInv, [Next \/ ForkNext]_vars
  PROVE  FilesInv'
<1>1. CASE \E k \in opts.keys, large \in opts.large : Write(k, large)
  BY <1>1, WriteFilesKept
<1>2. CASE Publish \/ PublishHeadFails
  BY <1>2, PublishFilesKept
<1>3. CASE SyncWal \/ PinBarrier \/ GcBarrier
  BY <1>3, SyncFilesKept
<1>4. CASE ForceRotate \/ ForkBegin
  BY <1>4, RotationFilesKept
<1>5. CASE Flush
  BY <1>5, FlushFilesKept
<1>6. CASE AppendFails
  BY <1>6, AppendFailsFilesKept
<1>7. CASE SyncFails
  BY <1>7, SyncFailsFilesKept
<1>8. CASE PublishRotateFails
  BY <1>8, PublishRotateFailsFilesKept
<1>9. CASE RotateFails
  BY <1>9, RotateFailsFilesKept
<1>10. CASE FlushFails
  BY <1>10, FlushFailsFilesKept
<1>11. CASE \/ PinCommit \/ \E s \in manifest.pins : Unpin(s)
            \/ \E v \in vmap : StartGc(v)
            \/ ForkDrained \/ ForkFails \/ \E cut \in Cuts : ForkCut(cut)
  BY <1>11, AsideFilesKept
<1>12. CASE \E i \in 1 .. opts.vlog_file_size : Relocate(i)
  BY <1>12, RelocateFilesKept
<1>13. CASE Retire
  BY <1>13, RetireFilesKept
<1>14. CASE ProcessRetired
  BY <1>14, ProcessRetiredFilesKept
<1>15. CASE \E id \in obsolete : Unlink(id)
  BY <1>15, UnlinkFilesKept
<1>16. CASE Crash \/ Kill
  BY <1>16, CrashFilesKept
<1>17. CASE OpenReplay
  BY <1>17, OpenReplayIs, OpenFailsFilesKept, OpensFilesKept
<1>18. CASE OpenComplete
  BY <1>18, OpenCompleteFilesKept
<1>19. CASE StartupGc
  BY <1>19, StartupGcFilesKept
<1>20. CASE ForkPublish
  BY <1>20, ForkPublishFilesKept
<1>21. CASE UNCHANGED vars
  BY <1>21, StutterFilesKept
<1> QED
  BY <1>1, <1>2, <1>3, <1>4, <1>5, <1>6, <1>7, <1>8, <1>9, <1>10, <1>11, <1>12, <1>13, <1>14,
     <1>15, <1>16, <1>17, <1>18, <1>19, <1>20, <1>21 DEF Next, ForkNext

\* The files' invariant gives every variable its type.
LEMMA FilesTyped ==
  ASSUME FilesInv
  PROVE  TypeOK
<1>1. /\ \A id \in DOMAIN wals : wals[id].synced \in 0 .. Len(wals[id].recs)
      /\ \A id \in DOMAIN vlogs : vlogs[id].synced \in 0 .. Len(vlogs[id].recs)
  <2>1. ASSUME NEW id \in DOMAIN wals
        PROVE  wals[id].synced \in 0 .. Len(wals[id].recs)
    <3>1. wals[id] \in WalFile /\ wals[id].synced <= Len(wals[id].recs)
      BY DEF FilesInv, DiskTypes, FileTypes
    <3> QED  BY <3>1, LenProperties DEF WalFile
  <2>2. ASSUME NEW id \in DOMAIN vlogs
        PROVE  vlogs[id].synced \in 0 .. Len(vlogs[id].recs)
    <3>1. vlogs[id] \in VlogFile /\ vlogs[id].synced <= Len(vlogs[id].recs)
      BY DEF FilesInv, DiskTypes, FileTypes
    <3> QED  BY <3>1, LenProperties DEF VlogFile
  <2> QED  BY <2>1, <2>2
<1>2. Serving => \A id \in (DOMAIN wals) \cup (DOMAIN vlogs) \cup ssts : id < nextId
  <2>1. ASSUME Serving, NEW id \in DOMAIN vlogs
        PROVE  id < nextId
    <3>1. id \in Nat /\ id <= head /\ head \in Nat /\ nextId \in Nat /\ head < nextId
      BY <2>1, ActiveFiles DEF FilesInv, DiskTypes, FileTypes, Ids
    <3> QED  BY <3>1
  <2> QED  BY <2>1 DEF FilesInv, Ids
<1>3. Serving => wal \in DOMAIN wals /\ head \in DOMAIN vlogs /\ vmap \subseteq DOMAIN vlogs
  BY ActiveFiles DEF FilesInv, ValueFiles
<1> QED  BY <1>1, <1>2, <1>3 DEF FilesInv, MemoryTypes, TypeOK

\* FilesInv holds of every run.
THEOREM FilesAlways == ForkSpec => []FilesInv
<1>1. Init => FilesInv
  BY InitFiles
<1>2. FilesInv /\ [Next \/ ForkNext]_vars => FilesInv'
  BY StepFilesKept
<1> QED  BY <1>1, <1>2, PTL DEF ForkSpec

\* Every file, id and record is of its type, whatever fails and whenever the
\* store crashes: a file id is never used twice, and the active WAL, the head and
\* every file that can be resolved are on disk.
THEOREM FilesAreTyped == ForkSpec => []TypeOK
<1>1. FilesInv => TypeOK
  BY FilesTyped
<1> QED  BY <1>1, FilesAlways, PTL
=============================================================================

------------------------------ MODULE ReadProofs ------------------------------
(***************************************************************************)
(* Proofs about what readers and forks find in the value log while GC      *)
(* moves values, retires files and deletes them: every pointer that a      *)
(* reader may follow leads to its value, and that value is the one the     *)
(* users wrote, through crashes, recoveries and failed calls; and an       *)
(* archive, built while all this goes on, is the store at one cut.         *)
(***************************************************************************)
EXTENDS LogProofs

-----------------------------------------------------------------------------
(* Values                                                                  *)

\* What a record points at is its own value.
Resolves(r) ==
    /\ r.pos \in 1 .. Len(vlogs[r.file].recs)
    /\ vlogs[r.file].recs[r.pos].key = r.key /\ vlogs[r.file].recs[r.pos].val = r.val

\* The file of a record, while it is on disk, holds the record's value, fsynced
\* once the record is in a table; a replay that finds a payload finds the right one.
Bytes ==
    /\ \A r \in Contents : r.file \in DOMAIN vlogs => Resolves(r)
    /\ \A r \in Flushed : r.file \in DOMAIN vlogs => r.pos <= vlogs[r.file].synced
    /\ \A p \in Place : RecAt(p).file # Inline /\ ~Missing(p) => Resolves(RecAt(p))

\* No file to come takes the id of one that a table points into.
Fresh ==
    \A r \in Flushed :
        IF Serving THEN r.file <= head ELSE r.file < manifest.next \/ \E h \in Young : r.file <= h

\* What a reader is shown has one record per internal key.
Unique == \A r, q \in acked : SameKey(r, q) => r = q

\* What readers are shown, and what a replay would take.
Written == acked \cup {RecAt(p) : p \in {p \in Place : Clean(p)}}

\* Every relocation carries the value the users wrote last, at the time: what
\* was written since then failed at its fsync, and was brought back later.
Carries(r) ==
    \E u \in acked :
        /\ u.user /\ u.key = r.key /\ u.seq < r.seq /\ u.val = r.val
        /\ \A q \in acked : q.user /\ q.key = r.key /\ u.seq < q.seq /\ q.seq < r.seq => q \in gray
Truthful == \A r \in Written : ~r.user => Carries(r)

\* Only a store that has degraded holds records in its log that it did not
\* acknowledge.
Confessed ==
    phase = "up" /\ ~bgError => \A p \in Place : RecAt(p) \in acked \/ inflight = <<RecAt(p)>>

\* The victim of a GC pass: what was scanned is superseded, or its relocation
\* is in flight; after the barrier, by what no crash can take.
GcPass ==
    gc # <<>> =>
      /\ \A p \in Place : RecAt(p).file = gc[1].victim => RecAt(p) \in acked
      /\ \A r \in acked : r.file = gc[1].victim /\ r.pos \notin gc[1].todo =>
           \/ \E q \in acked : q.key = r.key /\ r.seq < q.seq
           \/ inflight # <<>> /\ ~inflight[1].user /\ inflight[1].key = r.key
      /\ gc[1].synced => gc[1].todo = {} /\ \A r \in acked : r.file = gc[1].victim =>
           \E q \in promised : q.key = r.key /\ r.seq < q.seq

\* A retired file holds nothing that a reader beyond its retirement needs.
Retirements ==
    \A t \in manifest.retired : \A r \in Written : r.file = t.id =>
        \E q \in promised : q.key = r.key /\ r.seq < q.seq /\ q.seq <= t.at

\* A record whose file is gone is superseded, in the tables, for every reader.
Gone(r) == \E q \in Flushed : q.key = r.key /\ r.seq < q.seq /\ \A s \in Registered : q.seq <= s
Reachable ==
    /\ Serving => vmap \subseteq Adopted
    /\ \A r \in Contents : r.file # Inline =>
         r.file \in (IF Serving THEN vmap ELSE Adopted) \/ Gone(r)

\* The fork being created: its hold is set once the flush it asked for is done.
Held ==
    building # <<>> =>
      /\ building = <<building[1]>> /\ building[1].asked \in Nat
      /\ building[1].taken \in BOOLEAN
      /\ building[1].taken => building[1].drained /\ building[1].cut \in Nat

ReadInv ==
    /\ Bytes /\ Fresh /\ Unique /\ Truthful /\ Confessed /\ GcPass /\ Retirements /\ Reachable
    /\ Held

-----------------------------------------------------------------------------
(* Forks                                                                   *)

\* A view of the tables at a cut: it has a version of each key that was written
\* by then, the newest of which has its value, in one of the files.
Cut(recs, cut, truth, files) ==
    /\ \A k \in Keys : truth[k] # {} => Newest(recs, k, cut) # {}
    /\ \A k \in Keys : \A r \in Newest(recs, k, cut) :
         /\ r.val \in truth[k]
         /\ r.file # Inline => r.file \in files /\ r.file \in DOMAIN vlogs /\ Resolves(r)
                               /\ r.pos <= vlogs[r.file].synced

\* The fork waits for what its caller has seen, until it is in the tables.
Awaited(b) ==
    /\ b.asked <= manifest.flushed \/ \E r \in Contents \ mem : b.asked <= r.seq
    /\ b.drained => b.asked <= manifest.flushed

\* What the fork has pinned is a cut, and stays one.
Pinned(b) ==
    b.taken =>
      /\ b.recs \subseteq Batch /\ b.point \in BOOLEAN
      /\ b.point \/ (b.asked <= b.cut /\ \A r \in b.recs : r.seq <= b.cut)
      /\ Cut(b.recs, b.cut, b.truth, b.vmap)

\* What an archive promises, see ArchivesAreCuts.
Whole(a) ==
    /\ \A r \in a.recs : r.seq <= a.cut
    /\ a.point \/ a.cut >= a.asked
    /\ LET current == StateAt(a.recs, a.cut)
       IN  /\ {r.key : r \in current} = {k \in Keys : a.truth[k] # {}}
           /\ \A r \in current : r.val \in a.truth[r.key]
           /\ \A r \in current : r.file \notin {Inline} \cup a.unlisted =>
                 /\ r.file \in DOMAIN a.vlogs
                 /\ r.pos \in 1 .. a.vlogs[r.file].synced
                 /\ a.vlogs[r.file].recs[r.pos] = [key |-> r.key, val |-> r.val]

Making == \A b \in Range(building) : Awaited(b) /\ Pinned(b)
ForkInv == Making /\ \A a \in archives : Whole(a)

-----------------------------------------------------------------------------
(* What the invariants of the files and the log say about records          *)

Facts ==
    /\ \A f \in DOMAIN vlogs : /\ f \in Nat /\ Len(vlogs[f].recs) \in Nat /\ vlogs[f].synced \in Nat
                               /\ vlogs[f].synced <= Len(vlogs[f].recs)
    /\ Inline \notin DOMAIN vlogs /\ Adopted \subseteq DOMAIN vlogs /\ Young \subseteq DOMAIN vlogs
    /\ \A r \in Written \cup Contents :
         r \in Batch /\ r.seq \in Nat /\ r.file \in Nat /\ r.pos \in Nat /\ r.key \in Keys
    /\ manifest.flushed \in Nat /\ visible \in Nat /\ \A t \in manifest.retired : t.at \in Nat
    /\ Flushed \subseteq Contents /\ Contents \subseteq acked /\ promised \subseteq acked
    /\ Serving => Contents = acked
    /\ ~Serving => Contents = Flushed
    /\ \A r \in Flushed : r.seq <= manifest.flushed
    /\ \A r \in Contents \ Flushed : manifest.flushed < r.seq /\ \E p \in Place : RecAt(p) = r
    /\ \A p \in Place : /\ manifest.flushed < RecAt(p).seq
                        /\ RecAt(p).file # Inline => RecAt(p).file \in Adopted
    /\ phase = "up" => \A p \in Place :
         /\ RecAt(p).file # Inline => Resolves(RecAt(p))
         /\ Clean(p) /\ RecAt(p) \in Written /\ RecAt(p).seq <= visible + 1
    /\ Serving => /\ manifest.flushed <= visible /\ \A r \in acked : r.seq <= visible
                  /\ head \in Nat /\ (\A f \in DOMAIN vlogs : f <= head) /\ vmap \subseteq DOMAIN vlogs
    /\ inflight # <<>> =>
         /\ phase = "up" /\ inflight = <<inflight[1]>> /\ inflight[1].seq = visible + 1
         /\ inflight[1].file \in {Inline, head} /\ \E p \in Place : RecAt(p) = inflight[1]

\* They do say so.
LEMMA FactsHold == FilesInv /\ LogInv => Facts
<1> SUFFICES ASSUME FilesInv, LogInv PROVE Facts
  OBVIOUS
<1>1. /\ \A f \in DOMAIN vlogs : /\ f \in Nat /\ Len(vlogs[f].recs) \in Nat /\ vlogs[f].synced \in Nat
                                 /\ vlogs[f].synced <= Len(vlogs[f].recs)
      /\ Inline \notin DOMAIN vlogs /\ Adopted \subseteq DOMAIN vlogs /\ Young \subseteq DOMAIN vlogs
  BY YoungFiles DEF FilesInv, ValueFiles
<1>2. acked \in SUBSET Batch /\ MaxSeq \in Nat /\ visible \in Nat /\ manifest.flushed \in 0 .. MaxSeq
  <2>1. acked \in SUBSET Batch /\ visible \in 0 .. MaxSeq
    BY DEF FilesInv, MemoryTypes
  <2>2. manifest.flushed \in 0 .. MaxSeq
    BY DEF FilesInv, DiskTypes, ManifestData
  <2> QED  BY <2>1, <2>2, OptionsTyped
<1>3. /\ Flushed \subseteq acked /\ promised \subseteq acked /\ (Serving => Contents = acked)
      /\ \A r \in Flushed : r.seq <= manifest.flushed
      /\ Serving => manifest.flushed <= visible /\ \A r \in acked : r.seq <= visible
  BY DEF LogInv, Contained
<1>4. Flushed \subseteq Contents
  BY ContentsIs
<1>5. ~Serving => Contents = Flushed
  <2> SUFFICES ASSUME ~Serving PROVE Contents = Flushed
    OBVIOUS
  <2>1. mem = {} /\ imms = <<>>
    BY DEF FilesInv, Phases, Serving
  <2>2. DOMAIN imms = {}
    BY <2>1
  <2> QED  BY <2>1, <2>2, ContentsIs, FrozenRecsIs
<1>6. Contents \subseteq acked
  BY <1>3, <1>5
<1>7. \A p \in Place : RecAt(p) \in Batch
  BY PlacesTyped DEF PlaceTyped
<1>8. \A r \in Written \cup Contents :
         r \in Batch /\ r.seq \in Nat /\ r.file \in Nat /\ r.pos \in Nat /\ r.key \in Keys
  <2>1. \A r \in Batch : r.seq \in Nat /\ r.file \in Nat /\ r.pos \in Nat /\ r.key \in Keys
    BY <1>2 DEF Batch
  <2> QED  BY <1>2, <1>6, <1>7, <2>1 DEF Written
<1>9. \A t \in manifest.retired : t.at \in Nat
  BY <1>2 DEF FilesInv, DiskTypes, ManifestData, Retirement
<1>10. \A p \in Place : /\ manifest.flushed < RecAt(p).seq
                        /\ RecAt(p).file # Inline => RecAt(p).file \in Adopted
  <2> SUFFICES ASSUME NEW p \in Place
               PROVE  /\ manifest.flushed < RecAt(p).seq
                      /\ RecAt(p).file # Inline => RecAt(p).file \in Adopted
    OBVIOUS
  <2>1. RecAt(p).seq > manifest.flushed /\ RecAt(p).seq \in 1 .. MaxSeq
    BY PlacesTyped DEF LogInv, LogAbove, PlaceTyped
  <2>2. RecAt(p).file # Inline => PointsRight(p)
    BY DEF LogInv, Pointers
  <2> QED  BY <1>2, <2>1, <2>2 DEF PointsRight
<1>11. \A r \in Contents \ Flushed : manifest.flushed < r.seq /\ \E p \in Place : RecAt(p) = r
  BY <1>10, UnflushedLogged
<1>12. ASSUME phase = "up", NEW p \in Place
       PROVE  /\ RecAt(p).file # Inline => Resolves(RecAt(p))
              /\ ~Missing(p) /\ RecAt(p).seq <= visible + 1
  <2>1. RecAt(p).file # Inline => Resolves(RecAt(p))
    BY <1>12 DEF LogInv, Pointers, PointsRight, Resolves
  <2>2. RecAt(p).seq <= visible + 1
    BY <1>12 DEF LogInv, LogBelow
  <2>3. RecAt(p).file \in Young =>
          /\ RecAt(p).pos \in DOMAIN vlogs[RecAt(p).file].recs
          /\ vlogs[RecAt(p).file].recs[RecAt(p).pos].key = RecAt(p).key
    BY <1>1, <2>1, YoungFiles DEF Resolves
  <2> QED  BY <2>1, <2>2, <2>3 DEF Missing
<1>13. ASSUME phase = "up", NEW p \in Place PROVE Clean(p) /\ RecAt(p) \in Written
  <2>1. Clean(p)
    BY <1>12, <1>13 DEF Clean
  <2> QED  BY <2>1 DEF Written
<1>14. Serving => head \in Nat /\ (\A f \in DOMAIN vlogs : f <= head) /\ vmap \subseteq DOMAIN vlogs
  BY DEF FilesInv, Ids, ValueFiles, MemoryTypes
<1>15. ASSUME inflight # <<>>
       PROVE  /\ phase = "up" /\ inflight = <<inflight[1]>> /\ inflight[1].seq = visible + 1
              /\ inflight[1].file \in {Inline, head} /\ \E p \in Place : RecAt(p) = inflight[1]
  <2>1. /\ phase = "up" /\ LastPlace \in Place /\ RecAt(LastPlace) = inflight[1]
        /\ inflight[1].seq = visible + 1
    BY <1>15, InflightIs
  <2>2. inflight[1].file # Inline => inflight[1].file = head
    BY <1>2, <2>1 DEF LogInv, Pointers, PointsRight
  <2>3. inflight = <<inflight[1]>>
    BY <1>15 DEF FilesInv, MemoryTypes
  <2> QED  BY <2>1, <2>2, <2>3
<1> QED
  BY <1>1, <1>2, <1>3, <1>4, <1>5, <1>6, <1>8, <1>9, <1>10, <1>11, <1>12, <1>13, <1>14, <1>15 DEF Facts

\* The same of the next state.
LEMMA NextFacts ==
  ASSUME FilesInv', LogInv'
  PROVE  Facts'
<1>1. (FilesInv /\ LogInv => Facts)'
  BY FactsHold, PTL
<1> QED  BY <1>1

-----------------------------------------------------------------------------
(* Steps of a store that stays up                                          *)

\* The value log keeps what it has, files unlinked apart, and new files come
\* after the head.
Grown ==
    /\ \A f \in (DOMAIN vlogs) \cap (DOMAIN vlogs') :
         /\ Len(vlogs[f].recs) <= Len(vlogs'[f].recs) /\ vlogs[f].synced <= vlogs'[f].synced
         /\ \A i \in 1 .. Len(vlogs[f].recs) : vlogs'[f].recs[i] = vlogs[f].recs[i]
    /\ \A f \in DOMAIN vlogs' : f \in DOMAIN vlogs \/ head < f

\* A value found is found again while its file is there.
LEMMA GrownResolves ==
  ASSUME Facts, Facts', Grown, NEW r, r.file \in DOMAIN vlogs, r.file \in DOMAIN vlogs', r.pos \in Nat,
         Resolves(r)
  PROVE  Resolves(r)' /\ vlogs[r.file].synced <= vlogs'[r.file].synced
<1>1. Len(vlogs[r.file].recs) \in Nat /\ Len(vlogs'[r.file].recs) \in Nat
  BY DEF Facts
<1> QED  BY <1>1 DEF Grown, Resolves

\* Values stay where they are in a log that grows.
LEMMA UpBytes ==
  ASSUME Facts, Facts', Bytes, Fresh, phase = "up", phase' = "up", Grown, head <= head', Flushed' \subseteq Contents,
         \A r \in Flushed' : r.file \in DOMAIN vlogs' => r \in Flushed \/ r.pos <= vlogs'[r.file].synced
  PROVE  Bytes' /\ Fresh'
<1>1. Serving /\ Serving' /\ head \in Nat /\ head' \in Nat
  BY DEF Serving, Facts
<1>2. \A p \in Place' : RecAt(p)'.file # Inline => Resolves(RecAt(p))'
  BY DEF Facts
<1>3. ASSUME NEW r \in Flushed'
      PROVE  /\ r.file \in Nat /\ r.pos \in Nat /\ r \in Contents
             /\ r.file <= head
             /\ r.file \in DOMAIN vlogs' => r.file \in DOMAIN vlogs /\ Resolves(r) /\ Resolves(r)'
  <2>1. r \in Contents /\ r.file \in Nat /\ r.pos \in Nat
    BY <1>3 DEF Facts
  <2>2. r.file <= head
    <3>1. CASE r \in Flushed
      BY <1>1, <3>1 DEF Fresh
    <3>2. CASE r \notin Flushed
      <4>1. PICK p \in Place : RecAt(p) = r
        BY <2>1, <3>2 DEF Facts
      <4>2. r.file = Inline \/ r.file \in DOMAIN vlogs
        BY <4>1 DEF Facts
      <4> QED  BY <1>1, <4>2 DEF Facts, Inline
    <3> QED  BY <3>1, <3>2
  <2>3. ASSUME r.file \in DOMAIN vlogs' PROVE r.file \in DOMAIN vlogs /\ Resolves(r) /\ Resolves(r)'
    <3>1. r.file \in DOMAIN vlogs
      BY <1>1, <2>1, <2>2, <2>3 DEF Grown
    <3>2. Resolves(r)
      BY <2>1, <3>1 DEF Bytes
    <3> QED  BY <2>1, <2>3, <3>1, <3>2, GrownResolves
  <2> QED  BY <2>1, <2>2, <2>3
<1>4. ASSUME NEW r \in Contents', r.file \in DOMAIN vlogs' PROVE Resolves(r)'
  <2>1. CASE r \in Flushed'
    BY <1>3, <1>4, <2>1
  <2>2. CASE r \notin Flushed'
    <3>1. PICK p \in Place' : RecAt(p)' = r
      BY <2>2 DEF Facts
    <3>2. r.file # Inline
      BY <1>4 DEF Facts
    <3>3. Resolves(RecAt(p))'
      BY <1>2, <3>1, <3>2
    <3> QED  BY <3>1, <3>3 DEF Resolves
  <2> QED  BY <2>1, <2>2
<1>5. ASSUME NEW r \in Flushed', r.file \in DOMAIN vlogs' PROVE r.pos <= vlogs'[r.file].synced
  <2>1. CASE r \in Flushed
    <3>1. r.file \in DOMAIN vlogs /\ r.pos <= vlogs[r.file].synced /\ r.pos \in Nat
      BY <1>3, <1>5, <2>1 DEF Bytes
    <3>2. vlogs[r.file].synced <= vlogs'[r.file].synced /\ vlogs[r.file].synced \in Nat /\ vlogs'[r.file].synced \in Nat
      BY <1>5, <3>1 DEF Grown, Facts
    <3> QED  BY <3>1, <3>2
  <2> QED  BY <1>5, <2>1
<1>6. Bytes'
  BY <1>2, <1>4, <1>5 DEF Bytes
<1>7. ASSUME NEW r \in Flushed' PROVE r.file <= head'
  BY <1>1, <1>3, <1>7
<1> QED  BY <1>1, <1>6, <1>7 DEF Fresh

\* The users' values are what they were while the history stands.
LEMMA TruthKept ==
  ASSUME Unique, Truthful, acked' = acked, gray \cap acked \subseteq gray', Written' \subseteq Written
  PROVE  Unique' /\ Truthful'
<1>1. Unique'
  BY DEF Unique, SameKey
<1>2. ASSUME NEW r \in Written', ~r.user PROVE Carries(r)'
  <2>1. Carries(r)
    BY <1>2 DEF Truthful
  <2> QED  BY <2>1 DEF Carries
<1> QED  BY <1>1, <1>2 DEF Truthful

\* So is what was said of the files retired.
LEMMA RetirementsKept ==
  ASSUME Retirements, promised \subseteq promised', Written' \subseteq Written,
         manifest'.retired \subseteq manifest.retired
  PROVE  Retirements'
BY DEF Retirements

\* A log that is no longer than it was adds nothing to what is written.
LEMMA UpWritten ==
  ASSUME Facts, phase = "up", Shrinks, acked' = acked
  PROVE  Written' \subseteq Written
<1>1. \A p \in Place' : RecAt(p)' \in Written
  BY DEF Facts, Shrinks
<1>2. acked \subseteq Written
  BY DEF Written
<1> QED  BY <1>1, <1>2 DEF Written

\* A pass that goes on, or is over, while the history stands.
LEMMA PassKept ==
  ASSUME GcPass, Confessed, phase = "up", Shrinks, acked' = acked, promised \subseteq promised',
         bgError => bgError', inflight' = inflight \/ (bgError' /\ inflight' = <<>>),
         gc' = <<>> \/ (gc' = gc /\ (inflight' = inflight \/ inflight[1].user))
  PROVE  GcPass' /\ Confessed'
<1>1. Confessed'
  <2> SUFFICES ASSUME ~bgError', NEW p \in Place' PROVE RecAt(p)' \in acked' \/ inflight' = <<RecAt(p)'>>
    BY DEF Confessed
  <2>1. p \in Place /\ RecAt(p)' = RecAt(p) /\ inflight' = inflight /\ ~bgError
    BY DEF Shrinks
  <2> QED  BY <2>1 DEF Confessed
<1>2. CASE gc' = <<>>
  BY <1>1, <1>2 DEF GcPass
<1>3. CASE gc' # <<>>
  <2>1. gc' = gc /\ gc # <<>> /\ (inflight' = inflight \/ inflight[1].user)
    BY <1>3
  <2>2. \A p \in Place' : RecAt(p)'.file = gc'[1].victim => RecAt(p)' \in acked'
    BY <2>1 DEF GcPass, Shrinks
  <2>3. \A r \in acked' : r.file = gc'[1].victim /\ r.pos \notin gc'[1].todo =>
           \/ \E q \in acked' : q.key = r.key /\ r.seq < q.seq
           \/ inflight' # <<>> /\ ~inflight'[1].user /\ inflight'[1].key = r.key
    BY <2>1 DEF GcPass
  <2>4. gc'[1].synced => gc'[1].todo = {} /\ \A r \in acked' : r.file = gc'[1].victim =>
           \E q \in promised' : q.key = r.key /\ r.seq < q.seq
    BY <2>1 DEF GcPass
  <2> QED  BY <1>1, <2>2, <2>3, <2>4 DEF GcPass
<1> QED  BY <1>2, <1>3

\* No snapshot is taken below those held and what is in the tables.
NoneLower ==
    \A s \in Registered' : s \in Registered \/
        (s \in Nat /\ \E low \in Registered \cup {manifest.flushed} : low \in Nat /\ low <= s)

\* The readers to come are at or above what covers a record that is gone.
LEMMA GoneKept ==
  ASSUME Facts, Facts', Serving, Serving', Flushed \subseteq Flushed',
         NoneLower,
         NEW r, Gone(r)
  PROVE  Gone(r)'
<1>1. PICK q \in Flushed : q.key = r.key /\ r.seq < q.seq /\ \A s \in Registered : q.seq <= s
  BY DEF Gone
<1>2. q \in Flushed' /\ q.seq \in Nat /\ q.seq <= manifest.flushed /\ manifest.flushed \in Nat
  BY <1>1 DEF Facts
<1>3. \A s \in Registered' : q.seq <= s
  BY <1>1, <1>2 DEF NoneLower
<1> QED  BY <1>1, <1>2, <1>3 DEF Gone

\* No file goes out of a reader's reach but one that holds nothing for readers.
LEMMA ReachKept ==
  ASSUME Facts, Facts', Reachable, Serving, Serving', Flushed \subseteq Flushed',
         NoneLower,
         vmap \subseteq vmap', vmap' \subseteq Adopted',
         \A r \in Contents' : r \in Contents \/ r.file = Inline \/ r.file \in vmap'
  PROVE  Reachable'
<1>1. ASSUME NEW r \in Contents', r.file # Inline PROVE r.file \in vmap' \/ Gone(r)'
  <2>1. CASE r \in Contents
    <3>1. r.file \in vmap \/ Gone(r)
      BY <1>1, <2>1 DEF Reachable
    <3> QED  BY <3>1, GoneKept
  <2> QED  BY <1>1, <2>1
<1> QED  BY <1>1 DEF Reachable

\* The store stays up, shows what it showed and takes no promise back; what is
\* new in its tables is fsynced.
Steady ==
    /\ phase = "up" /\ phase' = "up" /\ Shrinks /\ Grown /\ head <= head'
    /\ acked' = acked /\ promised \subseteq promised' /\ gray \cap acked \subseteq gray'
    /\ Flushed \subseteq Flushed' /\ manifest'.retired \subseteq manifest.retired
    /\ \A r \in Flushed' : r.file \in DOMAIN vlogs' => r \in Flushed \/ r.pos <= vlogs'[r.file].synced

\* What a steady step keeps.
LEMMA SteadyKept ==
  ASSUME Facts, Facts', ReadInv, Steady
  PROVE  Bytes' /\ Fresh' /\ Unique' /\ Truthful' /\ Retirements'
<1>1. Serving /\ Serving'
  BY DEF Steady, Serving
<1>2. Flushed' \subseteq Contents
  BY <1>1 DEF Facts, Steady
<1>3. Bytes' /\ Fresh'
  BY <1>2, UpBytes DEF ReadInv, Steady
<1>4. Written' \subseteq Written
  BY UpWritten DEF Steady
<1> QED  BY <1>3, <1>4, TruthKept, RetirementsKept DEF ReadInv, Steady

\* The readers of a steady step, and the pass.
SameReach ==
    /\ vmap' = vmap /\ Adopted \subseteq Adopted'
    /\ NoneLower
SamePass ==
    /\ bgError => bgError'
    /\ inflight' = inflight \/ (bgError' /\ inflight' = <<>>)
    /\ gc' = <<>> \/ (gc' = gc /\ (inflight' = inflight \/ inflight[1].user))

\* A steady step that leaves readers and pass as they are.
LEMMA SteadyReads ==
  ASSUME Facts, Facts', ReadInv, Steady, SameReach, SamePass, Held'
  PROVE  ReadInv'
<1>1. Serving /\ Serving'
  BY DEF Steady, Serving
<1>2. Contents' = Contents
  BY <1>1 DEF Facts, Steady
<1>3. vmap \subseteq Adopted
  BY <1>1 DEF ReadInv, Reachable
<1>4. Reachable'
  BY <1>1, <1>2, <1>3, ReachKept DEF ReadInv, Steady, SameReach
<1>5. GcPass' /\ Confessed'
  BY PassKept DEF ReadInv, Steady, SamePass
<1> QED  BY <1>4, <1>5, SteadyKept DEF ReadInv

\* The snapshots held: pins, and the cut of a fork.
LEMMA RegisteredIs ==
  ASSUME Held
  PROVE  /\ building = <<>> => Registered = pinning \cup manifest.pins
         /\ building # <<>> => Registered = pinning \cup manifest.pins \cup
                                 (IF building[1].taken THEN {building[1].cut} ELSE {})
<1>1. CASE building = <<>>
  <2>1. Range(building) = {}
    BY <1>1 DEF Range
  <2> QED  BY <1>1, <2>1 DEF Registered
<1>2. CASE building # <<>>
  <2> DEFINE b == building[1]
  <2>1. building = <<b>>
    BY <1>2 DEF Held
  <2>2. DOMAIN building = {1}
    BY <2>1
  <2>3. Range(building) = {b}
    BY <2>2 DEF Range
  <2> HIDE DEF b
  <2>4. Registered = pinning \cup manifest.pins \cup (IF b.taken THEN {b.cut} ELSE {})
    BY <2>3 DEF Registered
  <2> QED  BY <1>2, <2>4 DEF b
<1> QED  BY <1>1, <1>2

\* The same of the next state.
LEMMA NextRegisteredIs ==
  ASSUME Held'
  PROVE  /\ building' = <<>> => Registered' = pinning' \cup manifest'.pins
         /\ building' # <<>> => Registered' = pinning' \cup manifest'.pins \cup
                                 (IF building'[1].taken THEN {building'[1].cut} ELSE {})
<1>1. (Held => /\ building = <<>> => Registered = pinning \cup manifest.pins
               /\ building # <<>> => Registered = pinning \cup manifest.pins \cup
                                 (IF building[1].taken THEN {building[1].cut} ELSE {}))'
  BY RegisteredIs, PTL
<1> QED  BY <1>1

\* They are numbers.
LEMMA RegisteredTyped ==
  ASSUME FilesInv, Held
  PROVE  Registered \subseteq Nat
<1>1. pinning \subseteq Nat /\ manifest.pins \subseteq Nat
  BY OptionsTyped DEF FilesInv, MemoryTypes, DiskTypes, ManifestData
<1>2. CASE building = <<>>
  BY <1>1, <1>2, RegisteredIs
<1>3. CASE building # <<>>
  BY <1>1, <1>3, RegisteredIs DEF Held
<1> QED  BY <1>2, <1>3

\* The watermark is the least of them, or beyond all that is visible.
LEMMA WatermarkIs ==
  ASSUME FilesInv, Held
  PROVE  /\ Registered = {} => Watermark = visible + 1
         /\ Registered # {} => Watermark \in Registered /\ Watermark \in Nat /\ \A s \in Registered : Watermark <= s
<1>1. Registered \subseteq Nat
  BY RegisteredTyped
<1>2. Registered # {} => Min(Registered) \in Registered /\ \A s \in Registered : Min(Registered) <= s
  BY <1>1, LeastNatural DEF Min
<1> QED  BY <1>1, <1>2 DEF Watermark

-----------------------------------------------------------------------------
(* Pins, forks, barriers, rotations and failures                           *)

\* A value log left alone, or fsynced.
LEMMA SameGrown ==
  ASSUME Facts, vlogs' = vlogs
  PROVE  Grown
BY DEF Facts, Grown

\* The barrier fsyncs the head.
LEMMA SyncGrown ==
  ASSUME FilesInv, Facts, Serving, DOMAIN vlogs' = DOMAIN vlogs,
         \A f \in DOMAIN vlogs : vlogs'[f].recs = vlogs[f].recs /\ vlogs'[f].synced \in {vlogs[f].synced, Len(vlogs[f].recs)}
  PROVE  Grown
BY DEF Facts, Grown

\* What the manifest says of runs and value-log files.
SameManifest ==
    /\ manifest'.flushed = manifest.flushed /\ manifest'.runs = manifest.runs
    /\ manifest'.live = manifest.live /\ manifest'.retired = manifest.retired
    /\ manifest'.head = manifest.head

\* The files an open would adopt are the same while the manifest's are.
LEMMA SameAdopted ==
  ASSUME SameManifest, DOMAIN vlogs \subseteq DOMAIN vlogs'
  PROVE  Adopted \subseteq Adopted' /\ Flushed' = Flushed
<1>1. Flushed' = Flushed
  BY DEF SameManifest, Flushed
<1>2. RetiredIds(manifest'.retired) = RetiredIds(manifest.retired)
  BY DEF SameManifest
<1>3. Young \subseteq Young'
  BY <1>2 DEF Young, SameManifest
<1> QED  BY <1>1, <1>2, <1>3 DEF Adopted, SameManifest

\* A store that stays up, with its value log fsynced or not, and its WALs
\* fsynced, rotated or not.
Plain ==
    /\ phase = "up" /\ phase' = "up" /\ Shrinks /\ SameManifest
    /\ DOMAIN vlogs' = DOMAIN vlogs /\ Grown /\ UNCHANGED <<head, vmap, acked, gray>>
    /\ promised \subseteq promised'

\* It is steady.
LEMMA PlainSteady ==
  ASSUME Facts, Plain
  PROVE  Steady /\ vmap' = vmap /\ Adopted \subseteq Adopted' /\ Flushed' = Flushed
<1>1. Adopted \subseteq Adopted' /\ Flushed' = Flushed
  BY SameAdopted DEF Plain
<1>2. head <= head'
  BY DEF Facts, Plain, Serving
<1> QED  BY <1>1, <1>2 DEF Steady, Plain, SameManifest

\* A fork that did not change is held as it was.
LEMMA SameHeld ==
  ASSUME Held, building' = building
  PROVE  Held'
BY DEF Held

\* Snapshots held as they were.
LEMMA SameRegistered ==
  ASSUME Held, building' = building, pinning' = pinning, manifest'.pins = manifest.pins
  PROVE  \A s \in Registered' : s \in Registered
<1>1. Held'
  BY SameHeld
<1> QED  BY <1>1, RegisteredIs, NextRegisteredIs

\* pin, unpin, and a fork's steps that write nothing.
LEMMA AsideReads ==
  ASSUME FilesInv, FilesInv', LogInv, LogInv', ReadInv,
         \/ PinCommit \/ \E s \in manifest.pins : Unpin(s)
         \/ ForkDrained \/ ForkFails \/ \E cut \in Cuts : ForkCut(cut)
  PROVE  ReadInv'
<1>f. Facts /\ Facts' /\ Held
  BY FactsHold, NextFacts DEF ReadInv
<1>1. /\ phase = "up" /\ Serving
      /\ UNCHANGED <<wals, vlogs, head, vmap, phase, acked, promised, gray, bgError, inflight, gc>>
      /\ SameManifest /\ manifest'.floor = manifest.floor
  <2>1. CASE PinCommit \/ \E s \in manifest.pins : Unpin(s)
    <3>1. phase = "up" /\ Serving
      BY <2>1, BusyIsUp DEF PinCommit, Unpin, Serving
    <3>2. manifest' = [manifest EXCEPT !.pins = manifest'.pins] /\ manifest \in ManifestData
      BY <2>1 DEF PinCommit, Unpin, FilesInv, DiskTypes, ManifestData
    <3>3. SameManifest /\ manifest'.floor = manifest.floor
      BY <3>2 DEF SameManifest, ManifestData
    <3> QED  BY <2>1, <3>1, <3>3 DEF PinCommit, Unpin, vlogVars, history
  <2>2. CASE ForkDrained \/ ForkFails \/ \E cut \in Cuts : ForkCut(cut)
    <3>1. phase = "up" /\ Serving
      BY <2>2, BusyIsUp DEF ForkDrained, ForkFails, ForkCut
    <3>2. UNCHANGED <<store, opts>>
      BY <2>2 DEF ForkDrained, ForkFails, ForkCut
    <3> QED  BY <3>1, <3>2 DEF store, disk, vlogVars, history, SameManifest
  <2> QED  BY <1>f, <2>1, <2>2
<1>2. Plain
  BY <1>1, <1>f, SameWals, SameGrown DEF Plain
<1>3. Steady /\ vmap' = vmap /\ Adopted \subseteq Adopted' /\ Flushed' = Flushed
  BY <1>2, <1>f, PlainSteady
<1>4. SamePass
  BY <1>1 DEF SamePass
<1>5. Held' /\ NoneLower
  <2>1. CASE PinCommit
    <3>1. building' = building /\ pinning' = {}
      BY <2>1 DEF PinCommit, aside
    <3>2. Held'
      BY <1>f, <3>1, SameHeld
    <3>3. manifest'.pins = manifest.pins \cup pinning
      BY <2>1 DEF PinCommit, FilesInv, DiskTypes, ManifestData
    <3> QED  BY <1>f, <3>1, <3>2, <3>3, RegisteredIs, NextRegisteredIs DEF NoneLower
  <2>2. CASE \E s \in manifest.pins : Unpin(s)
    <3>1. building' = building /\ pinning' = pinning
      BY <2>2 DEF Unpin, aside
    <3>2. Held'
      BY <1>f, <3>1, SameHeld
    <3>3. manifest'.pins \subseteq manifest.pins
      BY <2>2 DEF Unpin, FilesInv, DiskTypes, ManifestData
    <3> QED  BY <1>f, <3>1, <3>2, <3>3, RegisteredIs, NextRegisteredIs DEF NoneLower
  <2>3. CASE ForkDrained
    <3>1. /\ building # <<>> /\ building' = [building EXCEPT ![1].drained = TRUE]
          /\ pinning' = pinning /\ manifest' = manifest
      BY <2>3 DEF ForkDrained, store, disk
    <3> DEFINE b == building[1]
               c == [b EXCEPT !.drained = TRUE]
    <3>2. building = <<b>> /\ ~b.drained
      BY <1>f, <2>3, <3>1 DEF Held, ForkDrained
    <3>a. building' = [building EXCEPT ![1] = c]
      BY <3>1
    <3> HIDE DEF b, c
    <3>3. building' = <<c>>
      BY <3>a, <3>2
    <3>4. building' # <<>> /\ building'[1] = c
      BY <3>3
    <3>5. b.asked \in Nat /\ b.taken \in BOOLEAN /\ ~b.taken
      BY <1>f, <3>1, <3>2 DEF Held, b
    <3>6. c.asked = b.asked /\ c.taken = b.taken
      BY DEF c
    <3>7. Held'
      BY <3>3, <3>4, <3>5, <3>6 DEF Held
    <3> QED  BY <1>f, <3>1, <3>4, <3>5, <3>6, <3>7, RegisteredIs, NextRegisteredIs DEF b, NoneLower
  <2>4. CASE ForkFails
    <3>1. building # <<>> /\ building' = <<>> /\ pinning' = pinning /\ manifest' = manifest
      BY <2>4 DEF ForkFails, store, disk
    <3>2. Held'
      BY <3>1 DEF Held
    <3> QED  BY <1>f, <3>1, <3>2, RegisteredIs, NextRegisteredIs DEF NoneLower
  <2>5. CASE \E cut \in Cuts : ForkCut(cut)
    <3>1. PICK cut \in Cuts : ForkCut(cut)
      BY <2>5
    <3> DEFINE b == building[1]
               c == [asked |-> b.asked, drained |-> TRUE, taken |-> TRUE,
                     cut |-> cut, point |-> cut < manifest.flushed,
                     recs |-> Flushed, vmap |-> vmap, unlisted |-> unlisted,
                      truth |-> [k \in Keys |-> Truth(k, cut)]]
    <3>2. building # <<>> /\ building' = <<c>> /\ pinning' = pinning /\ manifest' = manifest /\ ~b.taken
      BY <3>1 DEF ForkCut, store, disk
    <3>3. building' # <<>> /\ building'[1] = c
      BY <3>2
    <3>4. c.asked = b.asked /\ c.taken = TRUE /\ c.drained = TRUE /\ c.cut = cut
      OBVIOUS
    <3>5. b.asked \in Nat
      BY <1>f, <3>2 DEF Held
    <3>6. cut \in Nat /\ manifest.flushed \in Nat /\ visible \in Nat /\ manifest.flushed <= visible
      BY <1>1, <1>f, <3>1 DEF Cuts, Facts
    <3> HIDE DEF b, c
    <3>7. Held'
      BY <3>2, <3>3, <3>4, <3>5, <3>6 DEF Held
    <3>8. Registered' = pinning \cup manifest.pins \cup {cut}
      BY <3>2, <3>3, <3>4, <3>7, NextRegisteredIs
    <3>9. Registered = pinning \cup manifest.pins
      BY <1>f, <3>2, RegisteredIs DEF b
    <3>10. cut = manifest.flushed \/ cut = visible \/ \E s \in Registered : s \in Nat /\ s <= cut
      <4>1. cut = manifest.flushed \/ (cut >= Watermark /\ cut <= visible) \/ cut = visible
        BY <3>1 DEF Cuts
      <4> QED  BY <1>f, <3>6, <4>1, WatermarkIs
    <3>11. \E low \in Registered \cup {manifest.flushed} : low \in Nat /\ low <= cut
      BY <3>6, <3>10
    <3> QED  BY <3>6, <3>7, <3>8, <3>9, <3>11 DEF NoneLower
  <2> QED  BY <2>1, <2>2, <2>3, <2>4, <2>5
<1> QED  BY <1>1, <1>3, <1>4, <1>5, <1>f, SteadyReads DEF SameReach

\* The files after a barrier: what they held, all of it fsynced.
LEMMA SyncBothKeeps ==
  ASSUME FilesInv, FilesInv', Facts, Serving, SyncBoth, manifest'.floor = manifest.floor
  PROVE  Shrinks /\ Grown /\ DOMAIN vlogs' = DOMAIN vlogs
<1>1. Updated(wals, wals', wal, Synced(wals[wal])) /\ Updated(vlogs, vlogs', head, Synced(vlogs[head]))
  BY SyncBothUpdates
<1>2. /\ wal \in DOMAIN wals /\ Synced(wals[wal]).recs = wals[wal].recs
      /\ head \in DOMAIN vlogs /\ Synced(vlogs[head]).recs = vlogs[head].recs
      /\ Synced(vlogs[head]).synced = Len(vlogs[head].recs)
  BY ActiveFiles, SyncedWal, SyncedVlog
<1>3. DOMAIN wals' = DOMAIN wals /\ \A id \in DOMAIN wals : wals'[id].recs = wals[id].recs
  BY <1>1, <1>2 DEF Updated
<1>4. Shrinks
  BY <1>3, SameRecords
<1>5. /\ DOMAIN vlogs' = DOMAIN vlogs
      /\ \A f \in DOMAIN vlogs : /\ vlogs'[f].recs = vlogs[f].recs
                                 /\ vlogs'[f].synced \in {vlogs[f].synced, Len(vlogs[f].recs)}
  BY <1>1, <1>2 DEF Updated
<1> QED  BY <1>4, <1>5, SyncGrown

\* sync_wal and the barrier of a pin.
LEMMA BarrierReads ==
  ASSUME FilesInv, FilesInv', LogInv, LogInv', ReadInv, SyncWal \/ PinBarrier
  PROVE  ReadInv'
<1>f. Facts /\ Facts' /\ Held
  BY FactsHold, NextFacts DEF ReadInv
<1>1. /\ phase = "up" /\ Serving /\ SyncBoth /\ promised' = acked /\ pinning' \in {pinning, {visible}}
      /\ UNCHANGED <<manifest, building, phase, head, vmap, gc, inflight, bgError, acked, gray>>
  BY DEF SyncWal, PinBarrier, Serving, SyncBoth, vlogVars, aside
<1>2. Shrinks /\ Grown /\ DOMAIN vlogs' = DOMAIN vlogs
  BY <1>1, <1>f, SyncBothKeeps
<1>3. Plain
  BY <1>1, <1>2, <1>f DEF Plain, SameManifest, Facts
<1>4. Steady /\ vmap' = vmap /\ Adopted \subseteq Adopted' /\ Flushed' = Flushed
  BY <1>3, <1>f, PlainSteady
<1>5. SamePass
  BY <1>1 DEF SamePass
<1>6. Held'
  BY <1>1, <1>f, SameHeld
<1>7. NoneLower
  <2>1. visible \in Nat /\ manifest.flushed \in Nat /\ manifest.flushed <= visible
    BY <1>1, <1>f DEF Facts
  <2> QED  BY <1>1, <1>6, <1>f, <2>1, RegisteredIs, NextRegisteredIs DEF NoneLower
<1> QED  BY <1>4, <1>5, <1>6, <1>7, <1>f, SteadyReads DEF SameReach

\* The barrier of a pass: what supersedes the victim's records is promised.
LEMMA GcBarrierReads ==
  ASSUME FilesInv, FilesInv', LogInv, LogInv', ReadInv, GcBarrier
  PROVE  ReadInv'
<1>f. Facts /\ Facts' /\ Held
  BY FactsHold, NextFacts DEF ReadInv
<1>1. /\ phase = "up" /\ Serving /\ SyncBoth /\ promised' = acked /\ gc # <<>> /\ inflight = <<>>
      /\ UNCHANGED <<manifest, building, phase, head, vmap, pinning, inflight, bgError, acked, gray>>
      /\ gc[1].todo = {} /\ gc' = [gc EXCEPT ![1].synced = TRUE]
  BY BusyIsUp DEF GcBarrier, SyncBoth, vlogVars, aside
<1>2. Shrinks /\ Grown /\ DOMAIN vlogs' = DOMAIN vlogs
  BY <1>1, <1>f, SyncBothKeeps
<1>3. Plain
  BY <1>1, <1>2, <1>f DEF Plain, SameManifest, Facts
<1>4. Steady /\ vmap' = vmap /\ Adopted \subseteq Adopted' /\ Flushed' = Flushed
  BY <1>3, <1>f, PlainSteady
<1>5. Held'
  BY <1>1, <1>f, SameHeld
<1>6. NoneLower
  BY <1>1, <1>f, SameRegistered DEF NoneLower
<1>7. Reachable'
  <2>1. Serving' /\ Contents' = Contents /\ vmap \subseteq Adopted
    BY <1>1, <1>f DEF Facts, ReadInv, Reachable, Serving
  <2> QED  BY <1>1, <1>4, <1>6, <1>f, <2>1, ReachKept DEF ReadInv
<1>8. Confessed'
  BY <1>1, <1>2 DEF ReadInv, Confessed, Shrinks
<1>9. GcPass'
  <2>1. DOMAIN gc = {1} /\ gc[1] \in Pass
    BY <1>1 DEF FilesInv, MemoryTypes
  <2>2. gc'[1].victim = gc[1].victim /\ gc'[1].todo = {} /\ gc'[1].synced
    BY <1>1, <2>1 DEF Pass
  <2>3. \A p \in Place' : RecAt(p)'.file = gc'[1].victim => RecAt(p)' \in acked'
    BY <1>1, <1>2, <2>2 DEF ReadInv, GcPass, Shrinks
  <2>4. \A r \in acked : r.file = gc[1].victim => \E q \in acked : q.key = r.key /\ r.seq < q.seq
    BY <1>1 DEF ReadInv, GcPass
  <2> QED  BY <1>1, <2>2, <2>3, <2>4 DEF GcPass
<1> QED  BY <1>4, <1>5, <1>7, <1>8, <1>9, <1>f, SteadyKept DEF ReadInv

\* A failed fsync, and a failed flush.
LEMMA FailureReads ==
  ASSUME FilesInv, FilesInv', LogInv, LogInv', ReadInv, SyncFails \/ FlushFails
  PROVE  ReadInv'
<1>f. Facts /\ Facts' /\ Held
  BY FactsHold, NextFacts DEF ReadInv
<1>1. /\ phase = "up" /\ UNCHANGED <<wals, vlogs, manifest, building, phase, head, vmap, pinning,
                                     acked, promised, gray>>
      /\ SamePass
  <2>1. CASE SyncFails
    <3>1. inflight # <<>> /\ phase = "up"
      BY <2>1, BusyIsUp DEF SyncFails
    <3> QED  BY <2>1, <3>1 DEF SyncFails, Abort, Degrade, SamePass, disk, aside, vlogVars, history
  <2>2. CASE FlushFails
    BY <2>2 DEF FlushFails, Degrade, SamePass, aside, vlogVars, history
  <2> QED  BY <2>1, <2>2
<1>2. Plain
  BY <1>1, <1>f, SameWals, SameGrown DEF Plain, SameManifest
<1>3. Steady /\ vmap' = vmap /\ Adopted \subseteq Adopted'
  BY <1>2, <1>f, PlainSteady
<1>4. Held' /\ NoneLower
  BY <1>1, <1>f, SameHeld, SameRegistered DEF NoneLower
<1> QED  BY <1>1, <1>3, <1>4, <1>f, SteadyReads DEF SameReach

\* Rotations without a batch in flight, the failed one included.
LEMMA RotationReads ==
  ASSUME FilesInv, FilesInv', LogInv, LogInv', ReadInv, ForceRotate \/ ForkBegin \/ RotateFails
  PROVE  ReadInv'
<1>f. Facts /\ Facts' /\ Held
  BY FactsHold, NextFacts DEF ReadInv
<1>1. /\ phase = "up" /\ Serving /\ wals' \in {wals, Rotated(wals)}
      /\ UNCHANGED <<vlogs, manifest, phase, head, vmap, pinning, gc, inflight, bgError, history>>
  BY DEF ForceRotate, ForkBegin, RotateFails, Freeze, store, disk, vlogVars, Serving, tree
<1>2. Shrinks
  <2>1. CASE wals' = wals
    BY <1>1, <2>1, SameWals
  <2>2. CASE wals' = Rotated(wals)
    BY <1>1, <2>2, RotatedIs, RotatedGrows
  <2> QED  BY <1>1, <2>1, <2>2
<1>3. Plain
  BY <1>1, <1>2, <1>f, SameGrown DEF Plain, SameManifest, history
<1>4. Steady /\ vmap' = vmap /\ Adopted \subseteq Adopted'
  BY <1>3, <1>f, PlainSteady
<1>5. SamePass
  BY <1>1 DEF SamePass
<1>6. Held' /\ NoneLower
  <2>1. CASE ForceRotate \/ RotateFails
    <3>1. building' = building
      BY <2>1 DEF ForceRotate, RotateFails, aside
    <3> QED  BY <1>1, <1>f, <3>1, SameHeld, SameRegistered DEF NoneLower
  <2>2. CASE ForkBegin
    <3> DEFINE c == [asked |-> visible, drained |-> FALSE, taken |-> FALSE]
    <3>1. building = <<>> /\ building' = <<c>> /\ visible \in Nat
      BY <1>f, <2>2 DEF ForkBegin, Facts
    <3>2. building' # <<>> /\ building'[1] = c /\ c.asked = visible /\ c.taken = FALSE
      BY <3>1
    <3> HIDE DEF c
    <3>3. Held'
      BY <3>1, <3>2 DEF Held
    <3> QED  BY <1>1, <1>f, <3>1, <3>2, <3>3, RegisteredIs, NextRegisteredIs DEF NoneLower
  <2> QED  BY <2>1, <2>2
<1> QED  BY <1>4, <1>5, <1>6, <1>f, SteadyReads DEF SameReach

\* The end of a fork: the head is fsynced.
LEMMA ForkPublishReads ==
  ASSUME FilesInv, FilesInv', LogInv, LogInv', ReadInv, ForkPublish
  PROVE  ReadInv'
<1>f. Facts /\ Facts' /\ Held
  BY FactsHold, NextFacts DEF ReadInv
<1>1. /\ phase = "up" /\ Serving /\ vlogs' = SyncedHead /\ building # <<>> /\ building' = <<>>
      /\ UNCHANGED <<wals, manifest, phase, head, vmap, pinning, gc, inflight, bgError, history>>
  BY BusyIsUp DEF ForkPublish, SyncedHead, vlogVars
<1>2. DOMAIN vlogs' = DOMAIN vlogs /\ Grown
  <2>1. /\ DOMAIN vlogs' = DOMAIN vlogs
        /\ \A v \in DOMAIN vlogs : /\ vlogs'[v].recs = vlogs[v].recs
                                   /\ vlogs'[v].synced = Len(vlogs[v].recs)
    BY <1>1, SyncedHeadIs
  <2> QED  BY <1>1, <1>f, <2>1, SyncGrown
<1>3. Plain
  BY <1>1, <1>2, <1>f, SameWals DEF Plain, SameManifest, history
<1>4. Steady /\ vmap' = vmap /\ Adopted \subseteq Adopted'
  BY <1>3, <1>f, PlainSteady
<1>5. SamePass
  BY <1>1 DEF SamePass
<1>6. Held'
  BY <1>1 DEF Held
<1>7. NoneLower
  BY <1>1, <1>6, <1>f, RegisteredIs, NextRegisteredIs DEF NoneLower
<1> QED  BY <1>4, <1>5, <1>6, <1>7, <1>f, SteadyReads DEF SameReach

-----------------------------------------------------------------------------
(* Garbage collection                                                      *)

\* A pass begins: it has scanned nothing yet, and what its victim holds is
\* acknowledged, for the victim is not the head.
LEMMA StartGcReads ==
  ASSUME FilesInv, FilesInv', LogInv, LogInv', ReadInv, NEW v \in vmap, StartGc(v)
  PROVE  ReadInv'
<1>f. Facts /\ Facts' /\ Held
  BY FactsHold, NextFacts DEF ReadInv
<1> DEFINE g == [victim |-> v, todo |-> DOMAIN vlogs[v].recs, synced |-> FALSE]
<1>1. /\ phase = "up" /\ Serving /\ ~bgError /\ v # head /\ gc' = <<g>>
      /\ UNCHANGED <<wals, vlogs, manifest, building, phase, head, vmap, pinning, inflight, bgError,
                     acked, promised, gray>>
  BY DEF StartGc, Serving, disk, aside, vlogVars, history
<1>2. Plain
  BY <1>1, <1>f, SameWals, SameGrown DEF Plain, SameManifest
<1>3. Steady /\ vmap' = vmap /\ Adopted \subseteq Adopted'
  BY <1>2, <1>f, PlainSteady
<1>4. Held' /\ NoneLower
  BY <1>1, <1>f, SameHeld, SameRegistered DEF NoneLower
<1>5. Reachable'
  <2>1. Serving' /\ Contents' = Contents /\ vmap \subseteq Adopted
    BY <1>1, <1>f DEF Facts, ReadInv, Reachable, Serving
  <2> QED  BY <1>1, <1>3, <1>4, <1>f, <2>1, ReachKept DEF ReadInv, Steady
<1>6. Confessed'
  BY <1>1, <1>3 DEF ReadInv, Confessed, Steady, Shrinks
<1>7. GcPass'
  <2>1. gc'[1] = g /\ g.victim = v /\ g.todo = DOMAIN vlogs[v].recs /\ ~g.synced
    BY <1>1
  <2> HIDE DEF g
  <2>2. v \in DOMAIN vlogs /\ v # Inline
    BY <1>1, <1>f DEF Facts
  <2>3. ASSUME NEW p \in Place', RecAt(p)'.file = v PROVE RecAt(p)' \in acked'
    <3>1. p \in Place /\ RecAt(p)' = RecAt(p)
      BY <1>3 DEF Steady, Shrinks
    <3>2. inflight = <<RecAt(p)>> => inflight[1] = RecAt(p) /\ inflight # <<>>
      OBVIOUS
    <3>3. inflight # <<RecAt(p)>>
      BY <1>1, <1>f, <2>2, <2>3, <3>1, <3>2 DEF Facts
    <3> QED  BY <1>1, <3>1, <3>3 DEF ReadInv, Confessed
  <2>4. ASSUME NEW r \in acked', r.file = v PROVE r.pos \in DOMAIN vlogs[v].recs
    <3>1. r \in Contents
      BY <1>1, <1>f DEF Facts
    <3>2. r.pos \in 1 .. Len(vlogs[v].recs)
      BY <2>2, <2>4, <3>1 DEF ReadInv, Bytes, Resolves
    <3> QED  BY <2>2, <3>2, YoungFiles
  <2> QED  BY <2>1, <2>3, <2>4 DEF GcPass
<1> QED  BY <1>3, <1>4, <1>5, <1>6, <1>7, <1>f, SteadyKept DEF ReadInv

\* Retirement, after the barrier: what the victim holds is superseded.
LEMMA RetireReads ==
  ASSUME FilesInv, FilesInv', LogInv, LogInv', ReadInv, Retire
  PROVE  ReadInv'
<1>f. Facts /\ Facts' /\ Held
  BY FactsHold, NextFacts DEF ReadInv
<1> DEFINE t == [id |-> gc[1].victim, at |-> visible]
<1>1. /\ phase = "up" /\ Serving /\ gc # <<>> /\ gc[1].synced /\ gc' = <<>>
      /\ manifest' = [manifest EXCEPT !.live = @ \ {t.id}, !.retired = @ \cup {t}]
      /\ UNCHANGED <<wals, vlogs, building, phase, head, vmap, pinning, inflight, bgError,
                     acked, promised, gray>>
  BY BusyIsUp DEF Retire, Serving, aside, history
<1>t. t.id = gc[1].victim /\ t.at = visible
  OBVIOUS
<1> HIDE DEF t
<1>2. /\ manifest'.live = manifest.live \ {t.id} /\ manifest'.retired = manifest.retired \cup {t}
      /\ manifest'.runs = manifest.runs /\ manifest'.flushed = manifest.flushed /\ manifest'.pins = manifest.pins
      /\ manifest'.head = manifest.head /\ manifest'.floor = manifest.floor
  BY <1>1 DEF FilesInv, DiskTypes, ManifestData
<1>3. Shrinks /\ Grown
  BY <1>1, <1>2, <1>f, SameWals, SameGrown
<1>4. Flushed' = Flushed /\ Contents' = acked /\ Contents = acked /\ Serving' /\ head <= head'
  BY <1>1, <1>2, <1>f DEF Flushed, Facts, Serving
<1>5. Bytes' /\ Fresh'
  BY <1>1, <1>3, <1>4, <1>f, UpBytes DEF ReadInv, Facts
<1>6. Written' \subseteq Written
  BY <1>1, <1>3, <1>f, UpWritten
<1>7. Unique' /\ Truthful'
  BY <1>1, <1>6, TruthKept DEF ReadInv
<1>8. Retirements'
  <2> SUFFICES ASSUME NEW x \in manifest'.retired, NEW r \in Written', r.file = x.id
               PROVE  \E q \in promised : q.key = r.key /\ r.seq < q.seq /\ q.seq <= x.at
    BY <1>1 DEF Retirements
  <2>1. CASE x \in manifest.retired
    BY <1>6, <2>1 DEF ReadInv, Retirements
  <2>2. CASE x = t
    <3>1. r \in acked
      <4>1. r \in acked \/ \E p \in Place : RecAt(p) = r
        BY <1>6 DEF Written
      <4> QED  BY <1>1, <1>t, <2>2, <4>1 DEF ReadInv, GcPass
    <3>2. PICK q \in promised : q.key = r.key /\ r.seq < q.seq
      BY <1>1, <1>t, <2>2, <3>1 DEF ReadInv, GcPass
    <3>3. q.seq <= visible
      BY <1>1, <1>f, <3>2 DEF Facts
    <3> QED  BY <1>t, <2>2, <3>2, <3>3
  <2> QED  BY <1>2, <2>1, <2>2
<1>9. Confessed' /\ GcPass'
  BY <1>1, <1>3 DEF ReadInv, Confessed, GcPass, Shrinks
<1>10. Held' /\ NoneLower
  BY <1>1, <1>2, <1>f, SameHeld, SameRegistered DEF NoneLower
<1>11. vmap \subseteq Adopted'
  <2>1. RetiredIds(manifest'.retired) = RetiredIds(manifest.retired) \cup {t.id}
    BY <1>2 DEF RetiredIds
  <2>2. vmap \subseteq Adopted /\ vmap \subseteq DOMAIN vlogs
    BY <1>1, <1>f DEF ReadInv, Reachable, Facts
  <2> QED  BY <1>1, <1>2, <2>1, <2>2 DEF Adopted, Young
<1>12. Reachable'
  BY <1>1, <1>4, <1>10, <1>11, <1>f, ReachKept DEF ReadInv
<1> QED  BY <1>5, <1>7, <1>8, <1>9, <1>10, <1>12 DEF ReadInv

\* The gates: no reader is left below what supersedes the records of a file, and
\* that is in the tables, when the file goes out of reach.
LEMMA ProcessRetiredReads ==
  ASSUME FilesInv, FilesInv', LogInv, LogInv', ReadInv, ProcessRetired
  PROVE  ReadInv'
<1>f. Facts /\ Facts' /\ Held
  BY FactsHold, NextFacts DEF ReadInv
<1> DEFINE ready == {r \in retired : Deletable(r)}
<1>1. /\ phase = "up" /\ Serving
      /\ manifest' = [manifest EXCEPT !.retired = @ \ ready]
      /\ vmap' = vmap \ RetiredIds(ready)
      /\ UNCHANGED <<wals, vlogs, building, phase, head, pinning, inflight, gc, bgError, acked, promised, gray>>
  BY DEF ProcessRetired, Serving, aside, history
<1>2. ready \subseteq manifest.retired /\ \A t \in ready : Watermark > t.at /\ manifest.flushed >= t.at
  BY <1>1 DEF FilesInv, ValueFiles, Deletable
<1> HIDE DEF ready
<1>3. /\ manifest'.live = manifest.live /\ manifest'.retired = manifest.retired \ ready
      /\ manifest'.runs = manifest.runs /\ manifest'.flushed = manifest.flushed /\ manifest'.pins = manifest.pins
      /\ manifest'.head = manifest.head /\ manifest'.floor = manifest.floor
  BY <1>1 DEF FilesInv, DiskTypes, ManifestData
<1>4. Flushed' = Flushed /\ Contents' = acked /\ Contents = acked /\ Serving' /\ head <= head'
  BY <1>1, <1>3, <1>f DEF Flushed, Facts, Serving
<1>5. Steady
  BY <1>1, <1>3, <1>4, <1>f, SameWals, SameGrown DEF Steady
<1>6. GcPass' /\ Confessed'
  BY <1>1, <1>5, PassKept DEF ReadInv, Steady
<1>7. Held' /\ NoneLower
  BY <1>1, <1>3, <1>f, SameHeld, SameRegistered DEF NoneLower
<1>8. ASSUME NEW r \in acked, NEW t \in ready, r.file = t.id PROVE Gone(r)
  <2>1. PICK q \in promised : q.key = r.key /\ r.seq < q.seq /\ q.seq <= t.at
    BY <1>2, <1>8 DEF ReadInv, Retirements, Written
  <2>2. q \in acked /\ q.seq \in Nat /\ t.at \in Nat /\ manifest.flushed \in Nat
    BY <1>2, <1>4, <1>f, <2>1 DEF Facts
  <2>3. q \in Flushed
    <3>1. q.seq <= manifest.flushed
      BY <1>2, <2>1, <2>2
    <3> QED  BY <1>4, <1>f, <2>2, <3>1 DEF Facts
  <2>4. \A s \in Registered : q.seq <= s
    <3>1. Registered \subseteq Nat
      BY <1>f, RegisteredTyped
    <3> QED  BY <1>2, <1>f, <2>1, <2>2, <3>1, WatermarkIs
  <2> QED  BY <2>1, <2>3, <2>4 DEF Gone
<1>9. Reachable'
  <2>1. vmap' \subseteq Adopted'
    <3>1. vmap' \subseteq Adopted /\ vmap' \cap RetiredIds(ready) = {}
      BY <1>1 DEF ReadInv, Reachable
    <3>2. RetiredIds(manifest.retired) \subseteq RetiredIds(manifest'.retired) \cup RetiredIds(ready)
      BY <1>3 DEF RetiredIds
    <3>3. RetiredIds(manifest'.retired) \subseteq RetiredIds(manifest.retired)
      BY <1>3 DEF RetiredIds
    <3> QED  BY <1>1, <1>3, <3>1, <3>2, <3>3 DEF Adopted, Young
  <2>2. ASSUME NEW r \in acked, r.file # Inline PROVE r.file \in vmap' \/ Gone(r)'
    <3>1. r.file \in vmap \/ Gone(r)
      BY <1>1, <1>4, <2>2 DEF ReadInv, Reachable
    <3>2. r.file \in RetiredIds(ready) => Gone(r)
      BY <1>8, <2>2 DEF RetiredIds
    <3>3. Gone(r) => Gone(r)'
      BY <1>1, <1>4, <1>7, <1>f, GoneKept
    <3> QED  BY <1>1, <3>1, <3>2, <3>3
  <2> QED  BY <1>4, <2>1, <2>2 DEF Reachable
<1> QED  BY <1>5, <1>6, <1>7, <1>9, <1>f, SteadyKept DEF ReadInv

\* A file that is unlinked was out of reach before.
LEMMA UnlinkReads ==
  ASSUME FilesInv, FilesInv', LogInv, LogInv', ReadInv, NEW id \in obsolete, Unlink(id)
  PROVE  ReadInv'
<1>f. Facts /\ Facts' /\ Held
  BY FactsHold, NextFacts DEF ReadInv
<1>1. /\ phase = "up" /\ Serving /\ vlogs' = Keep(vlogs, (DOMAIN vlogs) \ {id})
      /\ UNCHANGED <<wals, manifest, building, phase, head, vmap, pinning, inflight, gc, bgError,
                     acked, promised, gray>>
  BY DEF Unlink, FilesInv, Phases, Serving, aside, history
<1>2. /\ DOMAIN vlogs' = (DOMAIN vlogs) \ {id} /\ \A v \in DOMAIN vlogs' : vlogs'[v] = vlogs[v]
  BY <1>1, KeepIs
<1>3. Grown
  BY <1>2, <1>f DEF Grown, Facts
<1>4. Flushed' = Flushed /\ Contents' = acked /\ Contents = acked /\ Serving' /\ head <= head'
  BY <1>1, <1>f DEF Flushed, Facts, Serving
<1>5. Steady
  BY <1>1, <1>3, <1>4, <1>f, SameWals DEF Steady
<1>6. GcPass' /\ Confessed'
  BY <1>1, <1>5, PassKept DEF ReadInv, Steady
<1>7. Held' /\ NoneLower
  BY <1>1, <1>f, SameHeld, SameRegistered DEF NoneLower
<1>8. vmap' \subseteq Adopted'
  <2>1. vmap \subseteq Adopted /\ id \notin vmap
    BY <1>1 DEF ReadInv, Reachable, FilesInv, ValueFiles
  <2> QED  BY <1>1, <1>2, <2>1 DEF Adopted, Young
<1>9. Reachable'
  BY <1>1, <1>4, <1>7, <1>8, <1>f, ReachKept DEF ReadInv
<1> QED  BY <1>5, <1>6, <1>7, <1>9, <1>f, SteadyKept DEF ReadInv

-----------------------------------------------------------------------------
(* Appends                                                                 *)

\* The pass goes on: what is taken off its list is superseded, or its
\* relocation is in flight.
Scans ==
    gc' # <<>> =>
      /\ gc # <<>> /\ gc'[1].victim = gc[1].victim /\ gc'[1].synced = gc[1].synced
      /\ gc'[1].todo \subseteq gc[1].todo
      /\ \A r \in acked : r.file = gc[1].victim /\ r.pos \in gc[1].todo \ gc'[1].todo =>
           \/ \E q \in acked : q.key = r.key /\ r.seq < q.seq
           \/ inflight' # <<>> /\ ~inflight'[1].user /\ inflight'[1].key = r.key

\* It keeps what it has to.
LEMMA ScanPass ==
  ASSUME GcPass, inflight = <<>>, Scans, acked' = acked, promised' = promised,
         \A p \in Place' : gc # <<>> /\ RecAt(p)'.file = gc[1].victim => RecAt(p)' \in acked
  PROVE  GcPass'
<1> SUFFICES ASSUME gc' # <<>> PROVE GcPass'
  BY DEF GcPass
<1>1. /\ gc # <<>> /\ gc'[1].victim = gc[1].victim /\ gc'[1].synced = gc[1].synced
      /\ gc'[1].todo \subseteq gc[1].todo
  BY DEF Scans
<1>2. \A r \in acked : r.file = gc[1].victim /\ r.pos \notin gc'[1].todo =>
           \/ \E q \in acked : q.key = r.key /\ r.seq < q.seq
           \/ inflight' # <<>> /\ ~inflight'[1].user /\ inflight'[1].key = r.key
  BY <1>1 DEF GcPass, Scans
<1>3. \A p \in Place' : RecAt(p)'.file = gc'[1].victim => RecAt(p)' \in acked'
  BY <1>1
<1>4. gc'[1].synced => gc'[1].todo = {} /\ \A r \in acked' : r.file = gc'[1].victim =>
           \E q \in promised' : q.key = r.key /\ r.seq < q.seq
  BY <1>1 DEF GcPass
<1> QED  BY <1>1, <1>2, <1>3, <1>4 DEF GcPass

\* What an append leaves alone besides.
AppendLeavesReaders == UNCHANGED <<vmap, building, bgError>>

\* An append: what it carries is a user's value, or the last one of its key.
LEMMA AppendReads ==
  ASSUME FilesInv, FilesInv', LogInv, LogInv', ReadInv, AppendLeaves, AppendLeavesReaders,
         NEW large \in BOOLEAN, Appends(inflight'[1], large), Scans,
         inflight'[1].user \/ Carries(inflight'[1])
  PROVE  ReadInv'
<1>f. Facts /\ Facts' /\ Held
  BY FactsHold, NextFacts DEF ReadInv
<1> DEFINE b == inflight'[1]
<1>1. /\ phase = "up" /\ phase' = "up" /\ Serving /\ Serving' /\ inflight = <<>>
      /\ UNCHANGED <<manifest, building, head, vmap, pinning, bgError, acked, promised>>
  BY DEF AppendLeaves, AppendLeavesReaders, Serving
<1>2. OnePlaceMore(b)
  BY <1>1, AppendPlaces DEF AppendLeaves
<1>3. VlogsGrow /\ Adopted' = Adopted
  BY <1>1, AppendVlogs DEF AppendLeaves
<1>4. /\ DOMAIN vlogs' = DOMAIN vlogs /\ gray' = gray \cup {b} /\ inflight' = <<b>>
      /\ b.file \in {Inline, head}
  BY <1>1, ActiveFiles DEF Appends, Updated
<1> HIDE DEF b
<1>5. Grown
  BY <1>3, <1>4 DEF Grown, VlogsGrow
<1>6. Flushed' = Flushed /\ Contents' = acked /\ Contents = acked /\ head <= head'
  BY <1>1, <1>f DEF Flushed, Facts
<1>7. Bytes' /\ Fresh'
  BY <1>1, <1>5, <1>6, <1>f, UpBytes DEF ReadInv, Facts
<1>8. \A p \in Place' : RecAt(p)' = b \/ (p \in Place /\ RecAt(p)' = RecAt(p))
  BY <1>2 DEF OnePlaceMore
<1>9. \A r \in Written' : r \in Written \/ r = b
  <2>1. \A p \in Place : RecAt(p) \in Written
    BY <1>1, <1>f DEF Facts
  <2>2. acked \subseteq Written
    BY DEF Written
  <2>3. \A r \in Written' : r \in acked' \/ \E p \in Place' : r = RecAt(p)'
    BY DEF Written
  <2> QED  BY <1>1, <1>8, <2>1, <2>2, <2>3
<1>10. Unique'
  BY <1>1 DEF ReadInv, Unique, SameKey
<1>11. Truthful'
  <2>1. ASSUME NEW r \in Written', ~r.user PROVE Carries(r)
    BY <1>9, <2>1 DEF ReadInv, Truthful, b
  <2>2. ASSUME NEW r, Carries(r) PROVE Carries(r)'
    BY <1>1, <1>4, <2>2 DEF Carries
  <2> QED  BY <2>1, <2>2 DEF Truthful
<1>12. Retirements'
  <2>1. \A t \in manifest.retired : b.file # t.id
    BY <1>1, <1>4 DEF FilesInv, ValueFiles, RetiredIds
  <2> QED  BY <1>1, <1>9, <2>1 DEF ReadInv, Retirements
<1>13. \A p \in Place : ~bgError => RecAt(p) \in acked
  BY <1>1 DEF ReadInv, Confessed
<1>14. Confessed'
  BY <1>1, <1>4, <1>8, <1>13 DEF Confessed
<1>15. GcPass'
  <2>1. gc # <<>> => b.file # gc[1].victim
    BY <1>1, <1>4, <1>f DEF FilesInv, ValueFiles
  <2>2. \A p \in Place' : gc # <<>> /\ RecAt(p)'.file = gc[1].victim => RecAt(p)' \in acked
    BY <1>8, <2>1 DEF ReadInv, GcPass
  <2> QED  BY <1>1, <2>2, ScanPass DEF ReadInv
<1>16. Held' /\ NoneLower
  BY <1>1, <1>f, SameHeld, SameRegistered DEF NoneLower
<1>17. Reachable'
  BY <1>1, <1>3, <1>6, <1>16, <1>f, ReachKept DEF ReadInv, Reachable
<1> QED  BY <1>7, <1>10, <1>11, <1>12, <1>14, <1>15, <1>16, <1>17 DEF ReadInv

\* A client's batch.
LEMMA WriteReads ==
  ASSUME FilesInv, FilesInv', LogInv, LogInv', ReadInv,
         NEW k \in opts.keys, NEW large \in opts.large, Write(k, large)
  PROVE  ReadInv'
<1>1. /\ phase = "up" /\ visible < opts.seq /\ AppendBatch(k, <<crashes, visible + 1>>, large, TRUE)
      /\ k \in Keys /\ large \in BOOLEAN /\ <<crashes, visible + 1>> \in Nat \X Nat
  <2>1. crashes \in Nat /\ visible \in Nat
    BY OptionsTyped DEF FilesInv, MemoryTypes
  <2>2. <<crashes, visible + 1>> \in Nat \X Nat
    BY <2>1
  <2> QED  BY <2>2, OptionsTyped DEF Write
<1>2. Appends(inflight'[1], large) /\ inflight'[1].user
  BY <1>1, AppendIs
<1>3. AppendLeaves /\ AppendLeavesReaders /\ gc' = gc
  BY DEF Write, AppendLeaves, AppendLeavesReaders, aside, tree, vlogVars
<1>4. Scans
  BY <1>3 DEF Scans
<1> QED  BY <1>1, <1>2, <1>3, <1>4, AppendReads

\* A relocation: its value is the one of the newest version of its key.  What is
\* not moved has a newer version.
LEMMA RelocateReads ==
  ASSUME FilesInv, FilesInv', LogInv, LogInv', ReadInv, NEW i, Relocate(i)
  PROVE  ReadInv'
<1>f. Facts /\ Facts' /\ Held
  BY FactsHold, NextFacts DEF ReadInv
<1> DEFINE v == gc[1].victim
           x == vlogs[v].recs[i]
           live == \E r \in Newest(Contents, x.key, visible) : PointsAt(r, v, i)
<1>1. /\ phase = "up" /\ Serving /\ i \in gc[1].todo /\ gc # <<>> /\ inflight = <<>>
      /\ gc' = [gc EXCEPT ![1].todo = @ \ {i}]
      /\ ~live => UNCHANGED <<wals, vlogs, inflight, gray>>
  BY RelocateIs DEF Relocate
<1>2. Contents = acked /\ \A r \in acked : r.seq <= visible /\ r.seq \in Nat /\ r.pos \in Nat
  BY <1>1, <1>f DEF Facts, Written
<1>3. v \in DOMAIN vlogs
  BY <1>1 DEF FilesInv, ValueFiles
<1>4. ASSUME NEW r \in acked, r.file = v, r.pos = i PROVE r.key = x.key /\ r.val = x.val
  BY <1>2, <1>3, <1>4 DEF ReadInv, Bytes, Resolves
<1>5. /\ gc' # <<>> /\ gc'[1].victim = gc[1].victim /\ gc'[1].synced = gc[1].synced
      /\ gc'[1].todo = gc[1].todo \ {i}
  <2>1. DOMAIN gc = {1} /\ gc[1] \in Pass
    BY <1>1 DEF FilesInv, MemoryTypes
  <2>2. DOMAIN gc' = {1} /\ gc'[1] = [gc[1] EXCEPT !.todo = gc[1].todo \ {i}]
    BY <1>1, <2>1
  <2> QED  BY <2>1, <2>2 DEF Pass
<1>6. CASE ~live
  <2>1. RelocateLeaves /\ UNCHANGED <<wals, vlogs, inflight, gray>>
    BY <1>1, <1>6 DEF Relocate, RelocateLeaves
  <2>2. Plain
    BY <1>1, <1>f, <2>1, SameWals, SameGrown DEF Plain, SameManifest, RelocateLeaves, vlogVars
  <2>3. Steady /\ vmap' = vmap /\ Adopted \subseteq Adopted' /\ Flushed' = Flushed
    BY <1>f, <2>2, PlainSteady
  <2>4. Held' /\ NoneLower
    BY <1>f, <2>1, SameHeld, SameRegistered DEF NoneLower, RelocateLeaves, aside
  <2>5. Serving' /\ Contents' = Contents
    BY <1>1, <1>f, <2>1 DEF Facts, RelocateLeaves, Serving
  <2>6. Reachable'
    BY <1>1, <1>f, <2>3, <2>4, <2>5, ReachKept DEF ReadInv, Reachable
  <2>7. Confessed'
    BY <1>1, <2>1, <2>3 DEF ReadInv, Confessed, Steady, Shrinks, RelocateLeaves
  <2>8. Scans
    <3> SUFFICES ASSUME NEW r \in acked, r.file = v, r.pos = i
                 PROVE  \E q \in acked : q.key = r.key /\ r.seq < q.seq
      BY <1>1, <1>5 DEF Scans
    <3>1. r.key = x.key
      BY <1>4
    <3>2. r \notin Newest(Contents, x.key, visible)
      BY <1>6 DEF PointsAt
    <3>3. PICK q \in Contents : q.key = x.key /\ q.seq <= visible /\ ~(q.seq <= r.seq)
      BY <1>2, <3>1, <3>2 DEF Newest
    <3> QED  BY <1>2, <3>1, <3>3
  <2>9. \A p \in Place' : RecAt(p)'.file = gc[1].victim => RecAt(p)' \in acked
    BY <1>1, <2>3 DEF Steady, Shrinks, ReadInv, GcPass
  <2>10. GcPass'
    BY <1>1, <2>1, <2>8, <2>9, ScanPass DEF ReadInv, RelocateLeaves
  <2> QED  BY <1>f, <2>3, <2>4, <2>6, <2>7, <2>10, SteadyKept DEF ReadInv
<1>7. CASE live
  <2>1. /\ RelocateLeaves /\ Appends(inflight'[1], TRUE)
        /\ inflight'[1].key = x.key /\ inflight'[1].val = x.val /\ ~inflight'[1].user
    <3>1. RelocateLeaves /\ visible < opts.seq /\ AppendBatch(x.key, x.val, TRUE, FALSE)
      BY <1>7 DEF Relocate, RelocateLeaves
    <3>2. x \in Payload
      BY RelocateIs
    <3> HIDE DEF x
    <3>3. x.key \in Keys /\ x.val \in Nat \X Nat
      BY <3>2 DEF Payload
    <3> QED  BY <1>1, <3>1, <3>3, AppendIs
  <2> DEFINE b == inflight'[1]
  <2>2. PICK r0 \in Newest(Contents, x.key, visible) : PointsAt(r0, v, i)
    BY <1>7
  <2>3. /\ r0 \in acked /\ r0.key = x.key /\ r0.val = x.val /\ r0.file = v /\ r0.pos = i
        /\ \A q \in acked : q.key = x.key => q.seq <= r0.seq
    BY <1>2, <1>4, <2>2 DEF Newest, PointsAt
  <2>4. b.seq = visible + 1 /\ visible \in Nat /\ b.key = x.key /\ b.val = x.val /\ ~b.user
    BY <1>f, <2>1 DEF Appends, Facts
  <2> HIDE DEF b
  <2>5. Carries(b)
    <3>1. CASE r0.user
      <4>1. r0.seq < b.seq
        BY <1>2, <2>3, <2>4
      <4>2. \A q \in acked : q.user /\ q.key = b.key /\ r0.seq < q.seq /\ q.seq < b.seq => q \in gray
        BY <1>2, <2>3, <2>4
      <4> QED  BY <2>3, <2>4, <3>1, <4>1, <4>2 DEF Carries
    <3>2. CASE ~r0.user
      <4>1. Carries(r0)
        BY <2>3, <3>2 DEF ReadInv, Truthful, Written
      <4>2. PICK u \in acked :
              /\ u.user /\ u.key = r0.key /\ u.seq < r0.seq /\ u.val = r0.val
              /\ \A q \in acked : q.user /\ q.key = r0.key /\ u.seq < q.seq /\ q.seq < r0.seq => q \in gray
        BY <4>1 DEF Carries
      <4>3. u.seq < b.seq
        BY <1>2, <2>4
      <4>4. ASSUME NEW q \in acked, q.user, q.key = b.key, u.seq < q.seq PROVE q \in gray
        <5>1. q.seq <= r0.seq
          BY <2>3, <2>4, <4>4
        <5>2. q.seq # r0.seq
          BY <2>3, <2>4, <3>2, <4>4 DEF ReadInv, Unique, SameKey
        <5>3. q.seq < r0.seq
          BY <1>2, <2>3, <5>1, <5>2
        <5> QED  BY <2>3, <2>4, <4>2, <4>4, <5>3
      <4> QED  BY <2>3, <2>4, <4>2, <4>3, <4>4 DEF Carries
    <3> QED  BY <3>1, <3>2
  <2>6. AppendLeaves /\ AppendLeavesReaders
    BY <1>1, <2>1 DEF AppendLeaves, AppendLeavesReaders, RelocateLeaves, aside, tree, vlogVars
  <2>7. Scans
    <3>1. inflight' # <<>> /\ inflight'[1] = b
      <4>1. inflight' = <<b>>
        BY <2>1 DEF Appends, b
      <4> QED  BY <4>1
    <3> SUFFICES ASSUME NEW r \in acked, r.file = v, r.pos = i
                 PROVE  inflight' # <<>> /\ ~inflight'[1].user /\ inflight'[1].key = r.key
      BY <1>1, <1>5 DEF Scans
    <3>2. r.key = x.key
      BY <1>4
    <3> QED  BY <2>4, <3>1, <3>2
  <2> QED  BY <2>1, <2>5, <2>6, <2>7, AppendReads DEF b
<1> QED  BY <1>6, <1>7

\* A failed append: the record goes as if it had never been.
LEMMA AppendFailsReads ==
  ASSUME FilesInv, FilesInv', LogInv, LogInv', ReadInv, AppendFails
  PROVE  ReadInv'
<1>f. Facts /\ Facts' /\ Held
  BY FactsHold, NextFacts DEF ReadInv
<1>1. /\ phase = "up" /\ Serving /\ inflight # <<>> /\ Abort
      /\ UNCHANGED <<vlogs, manifest, building, phase, head, vmap, pinning, acked, promised>>
      /\ gray \ {inflight[1]} \subseteq gray'
  BY BusyIsUp DEF AppendFails, aside, vlogVars
<1>2. Shrinks
  BY RetractPlaces DEF OnePlaceLess
<1>3. gray \cap acked \subseteq gray'
  <2>1. inflight[1] \notin acked
    BY <1>1, InflightIs
  <2> QED  BY <1>1, <2>1
<1>4. Flushed' = Flushed /\ head <= head' /\ Grown
  BY <1>1, <1>f, SameGrown DEF Flushed, Facts
<1>5. Steady
  BY <1>1, <1>2, <1>3, <1>4 DEF Steady
<1>6. SamePass
  BY <1>1 DEF SamePass, Abort, Degrade
<1>7. Held' /\ NoneLower
  BY <1>1, <1>f, SameHeld, SameRegistered DEF NoneLower
<1>8. Adopted' = Adopted
  BY <1>1 DEF Adopted, Young
<1> QED  BY <1>1, <1>5, <1>6, <1>7, <1>8, <1>f, SteadyReads DEF SameReach

-----------------------------------------------------------------------------
(* Publication and flush                                                   *)

\* A fresh head, or the same.
LEMMA SideGrown ==
  ASSUME FilesInv, Serving, VlogSideKept, VlogsGrow
  PROVE  Grown /\ head \in Nat /\ head' \in Nat /\ head <= head'
<1>1. head \in DOMAIN vlogs /\ head \in Nat
  BY ActiveFiles
<1>2. head' \in Nat /\ head <= head' /\ \A f \in DOMAIN vlogs' : f \in DOMAIN vlogs \/ head < f
  BY <1>1 DEF VlogSideKept
<1>3. \A f \in (DOMAIN vlogs) \cap (DOMAIN vlogs') :
         /\ Len(vlogs[f].recs) <= Len(vlogs'[f].recs) /\ vlogs[f].synced <= vlogs'[f].synced
         /\ \A i \in 1 .. Len(vlogs[f].recs) : vlogs'[f].recs[i] = vlogs[f].recs[i]
  BY DEF VlogsGrow
<1> QED  BY <1>1, <1>2, <1>3 DEF Grown

\* The batch in flight becomes visible: nothing lies above it in the log, and
\* it points into the head.
LEMMA AckReads ==
  ASSUME FilesInv, FilesInv', LogInv, LogInv', ReadInv, inflight # <<>>, Acknowledge,
         Shrinks, VlogSideKept, VlogsGrow, bgError => bgError',
         UNCHANGED <<manifest, building, pinning, phase, gc>>
  PROVE  ReadInv'
<1>f. Facts /\ Facts' /\ Held
  BY FactsHold, NextFacts DEF ReadInv
<1> DEFINE b == inflight[1]
<1>1. /\ phase = "up" /\ phase' = "up" /\ Serving /\ Serving'
      /\ b.seq = visible + 1 /\ b.file \in {Inline, head} /\ \E p \in Place : RecAt(p) = b
      /\ inflight = <<b>> /\ visible \in Nat /\ b \notin acked
  <2>1. phase = "up" /\ b \notin acked
    BY InflightIs
  <2> QED  BY <1>f, <2>1 DEF Facts, Serving
<1>2. /\ acked' = acked \cup {b} /\ promised \subseteq promised' /\ gray' = gray \ {b} /\ inflight' = <<>>
  BY InsertAbove DEF Acknowledge, LogInv, Contained
<1>3. Flushed' = Flushed /\ Contents = acked /\ Contents' = acked'
  BY <1>1, <1>f DEF Flushed, Facts
<1> HIDE DEF b
<1>4. Grown /\ head \in Nat /\ head' \in Nat /\ head <= head'
  BY <1>1, SideGrown
<1>5. Bytes' /\ Fresh'
  BY <1>1, <1>3, <1>4, <1>f, UpBytes DEF ReadInv, Facts
<1>6. Written' \subseteq Written
  <2>1. \A p \in Place' : RecAt(p)' \in Written
    BY <1>1, <1>f DEF Facts, Shrinks
  <2>2. acked' \subseteq Written
    BY <1>1, <1>2, <1>f DEF Facts, Written
  <2> QED  BY <2>1, <2>2 DEF Written
<1>7. \A r \in Written : r.seq \in Nat /\ r.seq <= visible + 1
  <2>1. \A r \in acked : r.seq \in Nat /\ r.seq <= visible + 1
    BY <1>1, <1>f DEF Facts, Written
  <2>2. \A p \in Place : RecAt(p) \in Written /\ RecAt(p).seq <= visible + 1
    BY <1>1, <1>f DEF Facts
  <2> QED  BY <1>f, <2>1, <2>2 DEF Written, Facts
<1>8. \A r \in acked : r.seq \in Nat /\ r.seq < b.seq
  BY <1>1, <1>f DEF Facts, Written
<1>9. Unique'
  BY <1>2, <1>8 DEF ReadInv, Unique, SameKey
<1>10. Truthful'
  <2> SUFFICES ASSUME NEW r \in Written', ~r.user PROVE Carries(r)'
    BY DEF Truthful
  <2>1. Carries(r) /\ r.seq \in Nat /\ r.seq <= visible + 1
    BY <1>6, <1>7 DEF ReadInv, Truthful
  <2>2. PICK u \in acked :
          /\ u.user /\ u.key = r.key /\ u.seq < r.seq /\ u.val = r.val
          /\ \A q \in acked : q.user /\ q.key = r.key /\ u.seq < q.seq /\ q.seq < r.seq => q \in gray
    BY <2>1 DEF Carries
  <2>3. \A q \in acked' : q.user /\ q.key = r.key /\ u.seq < q.seq /\ q.seq < r.seq => q \in gray'
    <3>1. ~(b.seq < r.seq)
      BY <1>1, <2>1
    <3> QED  BY <1>1, <1>2, <2>2, <3>1
  <2> QED  BY <1>2, <2>2, <2>3 DEF Carries
<1>11. Retirements'
  BY <1>2, <1>6, RetirementsKept DEF ReadInv
<1>12. Confessed'
  <2>1. ASSUME NEW p \in Place, ~bgError PROVE RecAt(p) \in acked'
    <3>1. RecAt(p) \in acked \/ inflight = <<RecAt(p)>>
      BY <1>1, <2>1 DEF ReadInv, Confessed
    <3> QED  BY <1>1, <1>2, <3>1
  <2> QED  BY <2>1 DEF Confessed, Shrinks
<1>13. GcPass'
  <2> SUFFICES ASSUME gc # <<>> PROVE GcPass'
    BY DEF GcPass
  <2>1. b.file # gc[1].victim
    BY <1>1, <1>f DEF FilesInv, ValueFiles, Facts
  <2>2. \A p \in Place' : RecAt(p)'.file = gc'[1].victim => RecAt(p)' \in acked'
    BY <1>2 DEF ReadInv, GcPass, Shrinks
  <2>3. ASSUME NEW r \in acked, r.file = gc[1].victim, r.pos \notin gc[1].todo
        PROVE  \E q \in acked' : q.key = r.key /\ r.seq < q.seq
    <3>1. \/ \E q \in acked : q.key = r.key /\ r.seq < q.seq
          \/ b.key = r.key
      BY <2>3 DEF ReadInv, GcPass, b
    <3> QED  BY <1>2, <1>8, <3>1
  <2>4. gc[1].synced => gc[1].todo = {} /\ \A r \in acked : r.file = gc[1].victim =>
           \E q \in promised' : q.key = r.key /\ r.seq < q.seq
    BY <1>2 DEF ReadInv, GcPass
  <2> QED  BY <1>2, <2>1, <2>2, <2>3, <2>4 DEF GcPass
<1>14. Held' /\ NoneLower
  BY <1>f, SameHeld, SameRegistered DEF NoneLower
<1>15. vmap \subseteq vmap' /\ vmap' \subseteq Adopted'
  <2>1. Adopted \subseteq Adopted'
    BY SameAdopted DEF SameManifest, VlogSideKept
  <2>2. head' \in Young'
    BY <1>1 DEF Young, FilesInv, ValueFiles, VlogSideKept
  <2> QED  BY <1>1, <2>1, <2>2 DEF Adopted, ReadInv, Reachable, VlogSideKept
<1>16. Reachable'
  <2>1. b.file = Inline \/ b.file \in vmap'
    BY <1>1, <1>15 DEF FilesInv, ValueFiles
  <2> QED  BY <1>1, <1>2, <1>3, <1>14, <1>15, <1>f, <2>1, ReachKept DEF ReadInv
<1> QED  BY <1>5, <1>9, <1>10, <1>11, <1>12, <1>13, <1>14, <1>16 DEF ReadInv

\* What the publication does to the files, whether the rotation of the value log
\* that is due succeeds or not.
LEMMA PublishIs ==
  ASSUME FilesInv, FilesInv', LogInv, Publish \/ PublishHeadFails
  PROVE  /\ inflight # <<>> /\ Acknowledge /\ Shrinks /\ VlogSideKept /\ VlogsGrow
         /\ UNCHANGED <<manifest, building, archives, pinning, phase, gc>>
         /\ bgError => bgError'
         /\ mem' \in {{}, Insert(mem, inflight[1])}
<1> DEFINE full == Cardinality(Insert(mem, inflight[1])) >= opts.memtable_size
           turn == Len(vlogs[head].recs) >= opts.vlog_file_size
           id2  == IF full THEN nextId + 1 ELSE nextId
<1>0. Published /\ (bgError => bgError')
  <2>1. CASE Publish
    BY <2>1 DEF Publish
  <2>2. CASE PublishHeadFails
    <3>1. Published /\ bgError' = TRUE
      BY <2>2 DEF PublishHeadFails, Degrade
    <3> QED  BY <3>1
  <2> QED  BY <2>1, <2>2
<1>1. /\ inflight # <<>> /\ Acknowledge /\ obsolete' = obsolete
      /\ UNCHANGED <<manifest, building, archives, pinning, phase, gc>>
      /\ mem' \in {{}, Insert(mem, inflight[1])}
  BY <1>0 DEF Published, aside
<1>2. /\ wals' = IF full THEN Rotated(WalAtAck) ELSE WalAtAck
      /\ vlogs' = IF turn THEN With([vlogs EXCEPT ![head] = Synced(@)], id2, EmptyVlog) ELSE vlogs
      /\ head' = IF turn THEN id2 ELSE head
      /\ vmap' = IF turn THEN vmap \cup {id2} ELSE vmap
  BY <1>0 DEF Published, HeadIsFull
<1>3. Serving /\ nextId \in Nat /\ head < nextId /\ head \in Nat
  BY <1>1, InflightIs, ActiveFiles
<1>4. id2 \in Nat /\ nextId <= id2 /\ head # id2
  BY <1>3
<1> HIDE DEF full, turn, id2
<1>5. Shrinks
  <2>1. CASE full
    BY <1>1, <1>2, <1>3, <2>1, RotatedIs, RotatedGrows
  <2>2. CASE ~full
    BY <1>1, <1>2, <1>3, <2>2, AckGrows
  <2> QED  BY <2>1, <2>2
<1>6. VlogSideKept /\ VlogsGrow
  <2>1. CASE turn
    <3>1. VlogSideKept
      BY <1>2, <1>3, <1>4, <2>1, TurnKeepsVlogSide
    <3> QED  BY <1>1, <1>2, <1>3, <1>4, <2>1, <3>1, SideGrows
  <2>2. CASE ~turn
    BY <1>1, <1>2, <1>3, <2>2, SameVlogs, SameVlogSide
  <2> QED  BY <2>1, <2>2
<1> QED  BY <1>0, <1>1, <1>5, <1>6

\* The same when the rotation of the WAL fails.
LEMMA PublishRotateFailsIs ==
  ASSUME FilesInv, FilesInv', LogInv, PublishRotateFails
  PROVE  /\ inflight # <<>> /\ Acknowledge /\ Shrinks /\ VlogSideKept /\ VlogsGrow
         /\ UNCHANGED <<manifest, building, archives, pinning, phase, gc>> /\ bgError'
         /\ mem' = Insert(mem, inflight[1])
<1>1. /\ inflight # <<>> /\ Acknowledge /\ wals' = Rotated(WalAtAck) /\ bgError'
      /\ UNCHANGED <<vlogs, head, vmap, obsolete, manifest, building, archives, pinning, phase, gc>>
      /\ mem' = Insert(mem, inflight[1])
  BY DEF PublishRotateFails, Degrade, aside, vlogVars
<1>2. Serving
  BY <1>1, InflightIs
<1>3. Shrinks
  BY <1>1, <1>2, RotatedIs, RotatedGrows
<1>4. VlogSideKept /\ VlogsGrow
  BY <1>1, <1>2, SameVlogs, SameVlogSide
<1> QED  BY <1>1, <1>3, <1>4

\* The publication, with or without rotations.
LEMMA PublicationReads ==
  ASSUME FilesInv, FilesInv', LogInv, LogInv', ReadInv,
         Publish \/ PublishHeadFails \/ PublishRotateFails
  PROVE  ReadInv'
BY PublishIs, PublishRotateFailsIs, AckReads

\* A flush: the head is fsynced first, so what the new table points at is.
LEMMA FlushReads ==
  ASSUME FilesInv, FilesInv', LogInv, LogInv', ReadInv, Flush
  PROVE  ReadInv'
<1>f. Facts /\ Facts' /\ Held
  BY FactsHold, NextFacts DEF ReadInv
<1>1. /\ Serving /\ Serving' /\ phase \in {"up", "opened"} /\ vlogs' = SyncedHead
      /\ UNCHANGED <<building, phase, wal, head, vmap, pinning, inflight, gc, bgError, acked, promised, gray>>
  BY DEF Flush, Serving, SyncedHead, aside, vlogVars, history
<1>2. /\ manifest'.live = manifest.live /\ manifest'.head = manifest.head
      /\ manifest'.retired = manifest.retired /\ manifest'.pins = manifest.pins
  BY FlushManifestIs DEF FlushManifest
<1>3. /\ Shrinks /\ \A p \in Place' : p \in Place /\ Last(imms).wal < p[1]
      /\ Last(imms).wal \in Nat
  BY FlushPlaces
<1>4. /\ Flushed' = Flushed \cup Last(imms).recs /\ Contents' = Contents /\ Last(imms).recs \subseteq Contents
  BY FlushContents
<1>5. /\ DOMAIN vlogs' = DOMAIN vlogs
      /\ \A f \in DOMAIN vlogs : vlogs'[f].recs = vlogs[f].recs /\ vlogs'[f].synced = Len(vlogs[f].recs)
  BY <1>1, SyncedHeadIs
<1>6. Grown /\ head <= head' /\ Flushed' \subseteq Contents /\ head \in Nat
  <2>1. Grown
    BY <1>1, <1>5, <1>f, SyncGrown
  <2> QED  BY <1>1, <1>4, <1>f, <2>1 DEF Facts
<1>7. ASSUME NEW r \in Contents, r.file \in DOMAIN vlogs
      PROVE  Resolves(r) /\ Resolves(r)' /\ r.pos <= vlogs'[r.file].synced
  <2>1. Resolves(r)
    BY <1>7 DEF ReadInv, Bytes
  <2>2. Len(vlogs[r.file].recs) \in Nat
    BY <1>7, <1>f DEF Facts
  <2> QED  BY <1>5, <1>7, <2>1, <2>2 DEF Resolves
<1>8. Held' /\ NoneLower
  BY <1>1, <1>2, <1>f, SameHeld, SameRegistered DEF NoneLower
<1>9. Adopted' = Adopted
  BY <1>2, <1>5 DEF Adopted, Young
<1>10. CASE phase = "up"
  <2>1. Steady
    BY <1>1, <1>2, <1>3, <1>4, <1>5, <1>6, <1>7, <1>10 DEF Steady
  <2>2. SamePass
    BY <1>1 DEF SamePass
  <2> QED  BY <1>1, <1>8, <1>9, <1>f, <2>1, <2>2, SteadyReads DEF SameReach
<1>11. CASE phase = "opened"
  <2>1. Place' = {}
    <3>1. imms # <<>>
      BY DEF Flush
    <3>2. Len(imms) = 1 /\ Last(imms) = imms[1]
      <4>1. Len(imms) = 1
        BY <1>11, <3>1 DEF LogInv, OpenedLogged
      <4> QED  BY <1>1, <3>1, <4>1, FlushIs
    <3>3. \A p \in Place : p[1] <= imms[1].wal
      BY <1>11, <3>1 DEF LogInv, OpenedLogged
    <3>4. ASSUME NEW p \in Place' PROVE FALSE
      <4>1. p \in Place /\ Last(imms).wal < p[1] /\ p[1] <= Last(imms).wal
        BY <1>3, <3>2, <3>3
      <4>2. p[1] \in Nat
        BY <4>1, PlacesTyped DEF PlaceTyped
      <4> QED  BY <1>3, <4>1, <4>2
    <3> QED  BY <3>4
  <2>2. Bytes'
    BY <1>4, <1>5, <1>6, <1>7, <2>1 DEF Bytes
  <2>3. Fresh'
    <3> SUFFICES ASSUME NEW r \in Flushed' PROVE r.file <= head
      BY <1>1 DEF Fresh
    <3>1. CASE r \in Flushed
      BY <1>1, <3>1 DEF ReadInv, Fresh
    <3>2. CASE r \notin Flushed
      <4>1. r \in Contents \ Flushed
        BY <1>6, <3>2
      <4>2. r.file = Inline \/ r.file \in DOMAIN vlogs
        BY <1>f, <4>1 DEF Facts
      <4> QED  BY <1>1, <1>f, <4>2 DEF Facts, Inline
    <3> QED  BY <3>1, <3>2
  <2>4. Written' \subseteq Written
    BY <1>1, <2>1 DEF Written
  <2>5. Unique' /\ Truthful'
    BY <1>1, <2>4, TruthKept DEF ReadInv
  <2>6. Retirements'
    BY <1>1, <1>2, <2>4, RetirementsKept DEF ReadInv
  <2>7. Confessed' /\ GcPass'
    BY <1>1, <1>11 DEF Confessed, GcPass, FilesInv, Phases
  <2>8. Reachable'
    <3>1. vmap \subseteq Adopted
      BY <1>1 DEF ReadInv, Reachable
    <3> QED  BY <1>1, <1>4, <1>8, <1>9, <1>f, <3>1, ReachKept DEF ReadInv
  <2> QED  BY <1>8, <2>2, <2>3, <2>5, <2>6, <2>7, <2>8 DEF ReadInv
<1> QED  BY <1>1, <1>10, <1>11

-----------------------------------------------------------------------------
(* Crash and recovery                                                      *)

\* A crash: it takes values from the head only, and none that a table holds.
LEMMA CrashReads ==
  ASSUME FilesInv, FilesInv', LogInv, LogInv', ReadInv,
         Crash \/ Kill, ~exposed'
  PROVE  ReadInv'
<1>f. Facts /\ Facts' /\ Held
  BY FactsHold, NextFacts DEF ReadInv
<1>1. /\ Serving /\ Crashed /\ ~Serving' /\ phase' = "down" /\ phase \in {"up", "opened", "sweep"}
      /\ manifest' = manifest /\ building' = <<>> /\ gc' = <<>> /\ pinning' = {}
      /\ acked' = acked /\ promised' = promised /\ gray' = gray
  BY CrashIs DEF ProcessEnds, Serving, history
<1>2. /\ DOMAIN vlogs' = DOMAIN vlogs
      /\ \A f \in DOMAIN vlogs :
           /\ vlogs'[f].synced = Len(vlogs'[f].recs) /\ vlogs[f].synced \in Nat /\ Len(vlogs[f].recs) \in Nat
           /\ Len(vlogs'[f].recs) \in vlogs[f].synced .. Len(vlogs[f].recs)
           /\ \A i \in 1 .. Len(vlogs'[f].recs) : vlogs'[f].recs[i] = vlogs[f].recs[i]
           /\ f # head => vlogs'[f].recs = vlogs[f].recs
  BY <1>1, <1>f DEF Crashed, CutTo, PrefixTo, FilesInv, Sealed, Facts
<1>3. Shrinks /\ Young' = Young /\ Adopted' = Adopted
  BY CrashPlaces
<1>4. Flushed' = Flushed /\ Contents' = Flushed /\ Flushed \subseteq Contents
  BY <1>1, <1>f DEF Flushed, Facts
<1>5. head \in Young /\ head \in Nat
  BY <1>1, ActiveFiles DEF Young, FilesInv, ValueFiles
<1>6. ASSUME NEW r \in Flushed, r.file \in DOMAIN vlogs'
      PROVE  Resolves(r)' /\ r.pos <= vlogs'[r.file].synced
  <2>1. Resolves(r) /\ r.pos <= vlogs[r.file].synced /\ r.pos \in Nat
    BY <1>2, <1>4, <1>6, <1>f DEF ReadInv, Bytes, Facts
  <2>2. r.pos \in 1 .. Len(vlogs'[r.file].recs)
    BY <1>2, <1>6, <2>1 DEF Resolves
  <2> QED  BY <1>2, <1>6, <2>1, <2>2 DEF Resolves
<1>7. ASSUME NEW p \in Place', RecAt(p)'.file # Inline, ~Missing(p)'
      PROVE  Resolves(RecAt(p))'
  <2> DEFINE r == RecAt(p)
  <2>1. p \in Place /\ RecAt(p)' = r /\ r.file # Inline
    BY <1>3, <1>7 DEF Shrinks
  <2>2. Resolves(r) /\ r.file \in DOMAIN vlogs
    <3>1. CASE phase = "up"
      BY <1>f, <2>1, <3>1 DEF Facts
    <3>2. CASE phase = "opened"
      <4>1. ~Missing(p)
        BY <1>7, <2>1, <3>2, CrashOpened
      <4> QED  BY <1>f, <2>1, <4>1 DEF Facts, ReadInv, Bytes
    <3>3. CASE phase = "sweep"
      BY <2>1, <3>3 DEF LogInv, LogBelow
    <3> QED  BY <1>1, <3>1, <3>2, <3>3
  <2>3. r.file = head => r.pos \in DOMAIN vlogs'[head].recs
    <3>1. p \in Replay' /\ ~TornAt(p)'
      BY <1>7 DEF Place
    <3> QED  BY <1>3, <1>5, <1>7, <2>1, <3>1 DEF Missing
  <2>4. head \in DOMAIN vlogs'
    BY <1>1, <1>2, ActiveFiles
  <2>5. DOMAIN vlogs'[head].recs = 1 .. Len(vlogs'[head].recs)
    BY <2>4 DEF FilesInv, DiskTypes, FileTypes, VlogFile
  <2>6. r.pos \in 1 .. Len(vlogs'[r.file].recs)
    BY <1>2, <2>2, <2>3, <2>5 DEF Resolves
  <2> HIDE DEF r
  <2> QED  BY <1>2, <2>1, <2>2, <2>6 DEF Resolves
<1>8. Bytes'
  BY <1>4, <1>6, <1>7 DEF Bytes
<1>9. Fresh'
  BY <1>1, <1>3, <1>4, <1>5 DEF ReadInv, Fresh
<1>10. Written' \subseteq Written
  <2>1. ASSUME NEW p \in Place', Clean(p)' PROVE RecAt(p)' \in Written
    <3>1. p \in Place /\ RecAt(p)' = RecAt(p)
      BY <1>3 DEF Shrinks
    <3>2. CASE phase = "up"
      BY <1>f, <3>1, <3>2 DEF Facts
    <3>3. CASE phase = "opened"
      <4>1. Place' = Place /\ \A q \in Place : Missing(q)' <=> Missing(q)
        BY <3>3, CrashOpened DEF SamePlaces
      <4>2. Clean(p)
        BY <2>1, <4>1 DEF Clean, Before
      <4> QED  BY <3>1, <4>2 DEF Written
    <3>4. CASE phase = "sweep"
      BY <3>1, <3>4 DEF LogInv, LogBelow
    <3> QED  BY <1>1, <3>2, <3>3, <3>4
  <2> QED  BY <1>1, <2>1 DEF Written
<1>11. Unique' /\ Truthful' /\ Retirements'
  BY <1>1, <1>10, TruthKept, RetirementsKept DEF ReadInv
<1>12. Confessed' /\ GcPass' /\ Held'
  BY <1>1 DEF Confessed, GcPass, Held
<1>13. Reachable'
  <2>1. \A s \in Registered' : s \in Registered
    <3>1. Registered' = manifest.pins
      BY <1>1, <1>12, NextRegisteredIs
    <3> QED  BY <1>f, <3>1, RegisteredIs
  <2>2. ASSUME NEW r \in Flushed, r.file # Inline PROVE r.file \in Adopted' \/ Gone(r)'
    <3>1. r.file \in Adopted \/ Gone(r)
      BY <1>1, <1>4, <2>2 DEF ReadInv, Reachable
    <3> QED  BY <1>3, <1>4, <2>1, <3>1 DEF Gone
  <2> QED  BY <1>1, <1>4, <2>2 DEF Reachable
<1> QED  BY <1>8, <1>9, <1>11, <1>12, <1>13 DEF ReadInv

\* Of each internal key that a replay takes, it keeps a record.
LEMMA LatestExists ==
  ASSUME FilesInv, LogInv, WholeLog, NEW p \in Place, Clean(p)
  PROVE  \E r \in ReplayedRecs(Replay) : SameKey(RecAt(p), r)
<1> DEFINE B == {q \in Taken(Replay) : SameKey(RecAt(p), RecAt(q))}
           I == {q[1] : q \in B}
<1>1. p \in B
  BY TakenPlaces DEF SameKey, WholeLog
<1>2. \A q \in B : /\ q[1] \in Nat /\ q[2] \in Nat /\ q[1] \in DOMAIN wals
                   /\ q[2] \in 1 .. Len(wals[q[1]].recs) /\ Len(wals[q[1]].recs) \in Nat
                   /\ q \in Taken(Replay)
  BY TakenIs, ReplayTyped DEF Bad
<1>3. I \in SUBSET Nat /\ IsFiniteSet(I) /\ I # {}
  <2>1. I \subseteq DOMAIN wals /\ I \in SUBSET Nat /\ I # {}
    BY <1>1, <1>2
  <2>2. IsFiniteSet(DOMAIN wals)
    BY DEF FilesInv, DiskTypes, FileTypes
  <2> QED  BY <2>1, <2>2, FS_Subset
<1>4. PICK a \in I : \A y \in I : y <= a
  <2> HIDE DEF I
  <2> QED  BY <1>3, GreatestExists
<1> DEFINE J == {q[2] : q \in {q \in B : q[1] = a}}
<1>5. J \in SUBSET Nat /\ IsFiniteSet(J) /\ J # {}
  <2>1. a \in Nat /\ J # {} /\ J \in SUBSET Nat /\ J \subseteq 1 .. Len(wals[a].recs) /\ Len(wals[a].recs) \in Nat
    BY <1>2, <1>4
  <2>2. IsFiniteSet(1 .. Len(wals[a].recs))
    BY <2>1, FS_Interval
  <2> QED  BY <2>1, <2>2, FS_Subset
<1>6. PICK c \in J : \A y \in J : y <= c
  <2> HIDE DEF J
  <2> QED  BY <1>5, GreatestExists
<1>7. PICK e \in B : e[1] = a /\ e[2] = c
  OBVIOUS
<1>8. ASSUME NEW q \in B PROVE ~Before(e, q)
  <2>1. q[1] <= a /\ a \in Nat /\ q[1] \in Nat /\ q[2] \in Nat /\ c \in Nat
    BY <1>2, <1>4, <1>7
  <2>2. q[1] = a => q[2] <= c
    BY <1>6
  <2> QED  BY <1>7, <2>1, <2>2 DEF Before
<1>9. \A q \in Taken(Replay) : Before(e, q) => ~SameKey(RecAt(e), RecAt(q))
  <2>1. SameKey(RecAt(p), RecAt(e))
    BY <1>7
  <2> QED  BY <1>8, <2>1 DEF SameKey
<1>10. RecAt(e) \in ReplayedRecs(Replay)
  BY <1>7, <1>9 DEF ReplayedRecs
<1> QED  BY <1>7, <1>10

\* The open: it brings back what has its value, and with each relocation what
\* the relocation stands for.
LEMMA OpensReads ==
  ASSUME FilesInv, FilesInv', LogInv, LogInv', ReadInv, phase = "down",
         Opens(ReplayedRecs(Replay), RecoveredNextId)
  PROVE  ReadInv'
<1>f. Facts /\ Facts' /\ Held
  BY FactsHold, NextFacts DEF ReadInv
<1> DEFINE recs == ReplayedRecs(Replay)
           id == RecoveredNextId
<1>1. Opened /\ WholeLog
  BY OpensIs DEF Opened, WholeLog
<1>2. /\ phase' = "opened" /\ ~Serving /\ Serving' /\ head' = id /\ vmap' = Adopted \cup {id}
      /\ acked' = Flushed \cup recs /\ promised' = Flushed \cup recs
      /\ gray' = {r \in gray \cap acked' : \E q \in acked' : q.key = r.key /\ q.seq > r.seq}
      /\ UNCHANGED <<manifest, building, pinning, gc>> /\ gc = <<>> /\ building = <<>> /\ pinning = {}
  BY DEF Opens, Serving, aside, FilesInv, Phases
<1>3. /\ DOMAIN vlogs' = (DOMAIN vlogs) \cup {id} /\ id \notin DOMAIN vlogs /\ id # Inline
      /\ \A v \in DOMAIN vlogs : vlogs'[v] = vlogs[v]
  BY <1>1 DEF Opened
<1>4. /\ Place' = Place /\ Young \subseteq Young' /\ Adopted \subseteq Adopted' /\ Flushed' = Flushed
      /\ \A p \in Place : /\ RecAt(p)' = RecAt(p) /\ (Missing(p)' <=> Missing(p))
                          /\ RecAt(p).file # id /\ (Clean(p)' <=> Clean(p))
  BY <1>1, OpenedPlaces
<1>5. \A r \in recs : \E p \in Place : RecAt(p) = r /\ Latest(p) /\ Clean(p)
  BY <1>1, LatestTaken DEF WholeLog
<1>6. /\ id \in Nat /\ manifest.next <= id /\ \A v \in DOMAIN vlogs : v < id
      /\ manifest.next \in Nat
  BY <1>2, RecoveredIdIs DEF FilesInv, DiskTypes, ManifestData
<1>7. \A p \in Place : Clean(p) => ~Missing(p) /\ \E r \in recs : SameKey(RecAt(p), r)
  <2>1. ASSUME NEW p \in Place PROVE ~Before(p, p)
    BY PlacesTyped DEF PlaceTyped, Before
  <2> QED  BY <1>1, <2>1, LatestExists DEF Clean
<1>8. Contents' = Flushed \cup recs /\ Contents = Flushed /\ Flushed \subseteq acked
  BY <1>2, <1>f DEF Facts
<1> HIDE DEF recs, id
<1>9. ASSUME NEW r \in Flushed PROVE r.file < id
  <2>1. r.file \in Nat /\ (r.file < manifest.next \/ \E h \in Young : r.file <= h)
    BY <1>2, <1>8, <1>9, <1>f DEF ReadInv, Fresh, Facts
  <2>2. \A h \in Young : h \in DOMAIN vlogs /\ h \in Nat /\ h < id
    BY <1>6, <1>f DEF Facts
  <2> QED  BY <1>6, <2>1, <2>2
<1>10. ASSUME NEW p \in Place, RecAt(p).file # Inline, ~Missing(p)
       PROVE  /\ RecAt(p).file \in DOMAIN vlogs /\ Resolves(RecAt(p))
              /\ vlogs'[RecAt(p).file] = vlogs[RecAt(p).file]
  BY <1>3, <1>10, <1>f DEF Facts, ReadInv, Bytes
<1>11. Bytes'
  <2>1. ASSUME NEW r \in Contents', r.file \in DOMAIN vlogs' PROVE Resolves(r)'
    <3>1. CASE r \in Flushed
      <4>1. r.file \in DOMAIN vlogs
        BY <1>3, <1>6, <1>9, <2>1, <3>1
      <4> QED  BY <1>3, <1>8, <3>1, <4>1 DEF ReadInv, Bytes, Resolves
    <3>2. CASE r \in recs
      <4>1. PICK p \in Place : RecAt(p) = r /\ Clean(p)
        BY <1>5, <3>2
      <4>2. r.file # Inline
        BY <1>3, <1>f, <2>1 DEF Facts
      <4>3. Resolves(r) /\ vlogs'[r.file] = vlogs[r.file]
        BY <1>7, <1>10, <4>1, <4>2
      <4> QED  BY <4>3 DEF Resolves
    <3> QED  BY <1>8, <2>1, <3>1, <3>2
  <2>2. ASSUME NEW r \in Flushed', r.file \in DOMAIN vlogs' PROVE r.pos <= vlogs'[r.file].synced
    <3>1. r \in Flushed /\ r.file \in DOMAIN vlogs
      BY <1>3, <1>4, <1>6, <1>9, <2>2
    <3> QED  BY <1>3, <3>1 DEF ReadInv, Bytes
  <2>3. ASSUME NEW p \in Place', RecAt(p)'.file # Inline, ~Missing(p)' PROVE Resolves(RecAt(p))'
    <3> DEFINE r == RecAt(p)
    <3>1. p \in Place /\ RecAt(p)' = r /\ r.file # Inline /\ ~Missing(p)
      BY <1>4, <2>3
    <3>2. Resolves(r) /\ vlogs'[r.file] = vlogs[r.file]
      BY <1>10, <3>1
    <3> HIDE DEF r
    <3> QED  BY <3>1, <3>2 DEF Resolves
  <2> QED  BY <2>1, <2>2, <2>3 DEF Bytes
<1>12. Fresh'
  <2>1. \A r \in Flushed : r.file <= id
    BY <1>6, <1>8, <1>9, <1>f DEF Facts
  <2> QED  BY <1>2, <1>4, <2>1 DEF Fresh
<1>13. Written' \subseteq Written
  <2>1. acked' \subseteq Written
    BY <1>2, <1>5, <1>8 DEF Written
  <2>2. \A p \in Place' : Clean(p)' => RecAt(p)' \in Written
    BY <1>4 DEF Written
  <2> QED  BY <2>1, <2>2 DEF Written
<1>14. Unique'
  <2> SUFFICES ASSUME NEW r \in acked', NEW q \in acked', SameKey(r, q) PROVE r = q
    BY DEF Unique, SameKey
  <2>1. CASE r \in Flushed /\ q \in Flushed
    BY <1>8, <2>1 DEF ReadInv, Unique
  <2>2. ASSUME NEW x \in Flushed, NEW y \in recs PROVE x.seq # y.seq
    <3>1. manifest.flushed < y.seq /\ y.seq \in Nat
      BY <1>5, <1>f DEF Facts, Written
    <3>2. x.seq <= manifest.flushed /\ x.seq \in Nat /\ manifest.flushed \in Nat
      BY <1>8, <1>f DEF Facts
    <3> QED  BY <3>1, <3>2
  <2>3. CASE r \in recs /\ q \in recs
    <3>1. PICK a \in Place : RecAt(a) = r /\ Latest(a)
      BY <1>5, <2>3
    <3>2. PICK c \in Place : RecAt(c) = q /\ Latest(c)
      BY <1>5, <2>3
    <3>3. ~Before(a, c) /\ ~Before(c, a)
      BY <3>1, <3>2 DEF Latest, SameKey
    <3>4. a \in Nat \X Nat /\ c \in Nat \X Nat
      BY PlacesTyped DEF PlaceTyped
    <3>5. a = c
      BY <3>3, <3>4, BeforeOrder
    <3> QED  BY <3>1, <3>2, <3>5
  <2> QED  BY <1>2, <2>1, <2>2, <2>3 DEF SameKey
<1>15. Truthful'
  <2> SUFFICES ASSUME NEW r \in Written', ~r.user PROVE Carries(r)'
    BY DEF Truthful
  <2>1. Carries(r) /\ r \in Written /\ r.seq \in Nat
    BY <1>13, <1>f DEF ReadInv, Truthful, Facts
  <2>2. PICK u \in acked :
          /\ u.user /\ u.key = r.key /\ u.seq < r.seq /\ u.val = r.val
          /\ \A q \in acked : q.user /\ q.key = r.key /\ u.seq < q.seq /\ q.seq < r.seq => q \in gray
    BY <2>1 DEF Carries
  <2>3. PICK r2 \in acked' : r2.key = r.key /\ r2.seq = r.seq
    <3>1. CASE r \in acked'
      BY <3>1
    <3>2. CASE r \notin acked'
      <4>1. PICK p \in Place' : RecAt(p)' = r /\ Clean(p)'
        BY <3>2 DEF Written
      <4>2. p \in Place /\ RecAt(p) = r /\ Clean(p)
        BY <1>4, <4>1
      <4> QED  BY <1>2, <1>7, <4>2 DEF SameKey
    <3> QED  BY <3>1, <3>2
  <2>4. /\ acked' \subseteq acked \cup gray
        /\ \A lost \in acked \ acked', x \in acked' : x.seq < lost.seq
    BY <1>1, PrefixRecovered
  <2>5. u.seq \in Nat
    BY <1>f DEF Facts, Written
  <2>6. u \in acked'
    BY <2>1, <2>2, <2>3, <2>4, <2>5
  <2>7. \A q \in acked' : q.user /\ q.key = r.key /\ u.seq < q.seq /\ q.seq < r.seq => q \in gray'
    <3> SUFFICES ASSUME NEW q \in acked', q.user, q.key = r.key, u.seq < q.seq, q.seq < r.seq
                 PROVE  q \in gray'
      OBVIOUS
    <3>1. q \in gray
      BY <2>2, <2>4
    <3>2. r2.seq > q.seq
      <4>1. q.seq \in Nat
        BY <1>2, <1>13, <1>f DEF Facts, Written
      <4> QED  BY <2>1, <2>3, <4>1
    <3> QED  BY <1>2, <2>3, <3>1, <3>2
  <2> QED  BY <2>2, <2>6, <2>7 DEF Carries
<1>16. Retirements'
  <2>1. promised \subseteq promised'
    BY <1>1, <1>2, PromisedReplayed DEF recs
  <2> QED  BY <1>2, <1>13, <2>1, RetirementsKept DEF ReadInv
<1>17. Confessed' /\ GcPass' /\ Held'
  BY <1>2 DEF Confessed, GcPass, Held
<1>18. vmap' \subseteq Adopted'
  <2>1. head' \in Young'
    BY <1>2, ActiveFiles DEF Young, FilesInv, ValueFiles, Ids
  <2> QED  BY <1>2, <1>4, <2>1 DEF Adopted
<1>19. Reachable'
  <2>1. Registered' = Registered
    BY <1>2, <1>17, <1>f, RegisteredIs, NextRegisteredIs
  <2>2. ASSUME NEW r \in Contents', r.file # Inline PROVE r.file \in vmap' \/ Gone(r)'
    <3>1. CASE r \in Flushed
      <4>1. r.file \in Adopted \/ Gone(r)
        BY <1>2, <1>8, <2>2, <3>1 DEF ReadInv, Reachable
      <4> QED  BY <1>2, <1>4, <2>1, <4>1 DEF Gone
    <3>2. CASE r \in recs
      BY <1>2, <1>5, <1>f, <2>2, <3>2 DEF Facts
    <3> QED  BY <1>8, <2>2, <3>1, <3>2
  <2> QED  BY <1>2, <1>18, <2>2 DEF Reachable
<1> QED  BY <1>11, <1>12, <1>14, <1>15, <1>16, <1>17, <1>19 DEF ReadInv

\* The open-completion manifest: what the tables hold is all there is.
LEMMA OpenCompleteReads ==
  ASSUME FilesInv, FilesInv', LogInv, LogInv', ReadInv, OpenComplete
  PROVE  ReadInv'
<1>f. Facts /\ Facts' /\ Held
  BY FactsHold, NextFacts DEF ReadInv
<1>1. /\ phase = "opened" /\ phase' = "sweep" /\ Serving /\ Serving' /\ imms = <<>> /\ mem = {}
      /\ UNCHANGED <<vlogs, head, vmap, pinning, building, gc, acked, promised, gray>> /\ gc = <<>>
  BY DEF OpenComplete, Serving, aside, vlogVars, history, FilesInv, Phases
<1>2. /\ manifest'.head = head /\ manifest'.runs = manifest.runs /\ manifest'.flushed = manifest.flushed
      /\ manifest'.retired = manifest.retired /\ manifest'.pins = manifest.pins
      /\ manifest'.live = vmap \ RetiredIds(manifest.retired)
  BY DEF OpenComplete, FilesInv, DiskTypes, ManifestData
<1>3. Place' = {}
  BY <1>1 DEF LogInv, LogBelow
<1>4. Flushed' = Flushed /\ Contents' = Contents
  BY <1>1, <1>2, <1>f DEF Flushed, Facts
<1>5. Bytes' /\ Fresh'
  <2>1. \A r : Resolves(r)' <=> Resolves(r)
    BY <1>1 DEF Resolves
  <2> QED  BY <1>1, <1>3, <1>4, <2>1 DEF ReadInv, Bytes, Fresh
<1>6. Written' \subseteq Written
  BY <1>1, <1>3 DEF Written
<1>7. Unique' /\ Truthful' /\ Retirements'
  BY <1>1, <1>2, <1>6, TruthKept, RetirementsKept DEF ReadInv
<1>8. Confessed' /\ GcPass' /\ Held'
  BY <1>1, <1>f, SameHeld DEF Confessed, GcPass
<1>9. vmap \subseteq Adopted'
  BY <1>1, <1>2, <1>f DEF Adopted, Facts
<1>10. NoneLower
  BY <1>1, <1>2, <1>f, SameRegistered DEF NoneLower
<1>11. Reachable'
  BY <1>1, <1>4, <1>9, <1>10, <1>f, ReachKept DEF ReadInv
<1> QED  BY <1>5, <1>7, <1>8, <1>11 DEF ReadInv

\* The sweep deletes no file that the manifest names.
LEMMA StartupGcReads ==
  ASSUME FilesInv, FilesInv', LogInv, LogInv', ReadInv, StartupGc
  PROVE  ReadInv'
<1>f. Facts /\ Facts' /\ Held
  BY FactsHold, NextFacts DEF ReadInv
<1>1. /\ phase = "sweep" /\ phase' = "up" /\ Serving /\ Serving' /\ imms = <<>> /\ mem = {}
      /\ UNCHANGED <<manifest, head, vmap, pinning, building, gc, inflight, acked, promised, gray>>
      /\ gc = <<>>
      /\ wals' = Keep(wals, {id \in DOMAIN wals : id >= manifest.floor})
      /\ vlogs' = Keep(vlogs, manifest.live \cup RetiredIds(manifest.retired))
  BY DEF StartupGc, Serving, aside, vlogVars, history, FilesInv, Phases
<1>2. /\ DOMAIN vlogs' = (DOMAIN vlogs) \cap (manifest.live \cup RetiredIds(manifest.retired))
      /\ \A f \in DOMAIN vlogs' : vlogs'[f] = vlogs[f]
  BY <1>1, KeepIs
<1>3. Place' = {}
  <2>1. Place = {}
    BY <1>1 DEF LogInv, LogBelow
  <2>2. \A id \in DOMAIN wals' : id \in DOMAIN wals /\ wals'[id] = wals[id]
    BY <1>1, KeepIs
  <2>3. ASSUME NEW p \in Place' PROVE FALSE
    <3>1. PlaceTyped(p)'
      BY NextPlacesTyped
    <3>2. p = <<p[1], p[2]>> /\ p[1] \in DOMAIN wals /\ manifest.floor <= p[1] /\ p[2] \in 1 .. Len(wals[p[1]].recs)
      BY <1>1, <2>2, <3>1 DEF PlaceTyped
    <3>3. <<p[1], p[2]>> \in Place
      BY <3>2, PlacesTyped DEF PlaceHas
    <3> QED  BY <2>1, <3>3
  <2> QED  BY <2>3
<1>4. Flushed' = Flushed /\ Contents' = Contents
  BY <1>1, <1>f DEF Flushed, Facts
<1>5. Bytes'
  <2>1. ASSUME NEW r \in Contents', r.file \in DOMAIN vlogs' PROVE Resolves(r)'
    <3>1. r \in Contents /\ r.file \in DOMAIN vlogs /\ vlogs'[r.file] = vlogs[r.file]
      BY <1>2, <1>4, <2>1
    <3> QED  BY <3>1 DEF ReadInv, Bytes, Resolves
  <2>2. ASSUME NEW r \in Flushed', r.file \in DOMAIN vlogs' PROVE r.pos <= vlogs'[r.file].synced
    <3>1. r \in Flushed /\ r.file \in DOMAIN vlogs /\ vlogs'[r.file] = vlogs[r.file]
      BY <1>2, <1>4, <2>2
    <3> QED  BY <3>1 DEF ReadInv, Bytes
  <2> QED  BY <1>3, <2>1, <2>2 DEF Bytes
<1>6. Fresh'
  BY <1>1, <1>4 DEF ReadInv, Fresh
<1>7. Written' \subseteq Written
  BY <1>1, <1>3 DEF Written
<1>8. Unique' /\ Truthful' /\ Retirements'
  BY <1>1, <1>7, TruthKept, RetirementsKept DEF ReadInv
<1>9. Confessed' /\ GcPass' /\ Held'
  BY <1>1, <1>3, <1>f, SameHeld DEF Confessed, GcPass
<1>10. vmap \subseteq Adopted'
  <2>1. vmap \subseteq DOMAIN vlogs'
    BY <1>1, <1>f DEF Facts
  <2> QED  BY <1>1, <1>2, <2>1 DEF Adopted
<1>11. NoneLower
  BY <1>1, <1>f, SameRegistered DEF NoneLower
<1>12. Reachable'
  BY <1>1, <1>4, <1>10, <1>11, <1>f, ReachKept DEF ReadInv
<1> QED  BY <1>5, <1>6, <1>8, <1>9, <1>12 DEF ReadInv

\* What readers find in an empty directory.
LEMMA InitReads ==
  ASSUME Init, FilesInv, LogInv
  PROVE  ReadInv
<1>f. Facts
  BY FactsHold
<1>1. /\ wals = <<>> /\ DOMAIN wals = {} /\ manifest.runs = {} /\ manifest.retired = {}
      /\ phase = "down" /\ ~Serving /\ acked = {} /\ gc = <<>> /\ building = <<>>
  BY DEF Init, Serving
<1>2. Place = {}
  BY <1>1, PlacesTyped DEF PlaceTyped
<1>3. Flushed = {} /\ Contents = {}
  BY <1>1, <1>f DEF Flushed, Facts
<1>4. Written = {}
  BY <1>1, <1>2 DEF Written
<1>5. Bytes /\ Fresh /\ Unique /\ Truthful
  BY <1>1, <1>2, <1>3, <1>4 DEF Bytes, Fresh, Unique, Truthful
<1>6. Confessed /\ GcPass /\ Retirements /\ Held
  BY <1>1 DEF Confessed, GcPass, Retirements, Held
<1>7. Reachable
  BY <1>1, <1>3 DEF Reachable
<1> QED  BY <1>5, <1>6, <1>7 DEF ReadInv

\* A refused open, and a step that changes nothing.
LEMMA UnmovedReads ==
  ASSUME ReadInv, Unmoved, UNCHANGED <<vmap, building, gc, bgError>>, phase \in {"up", "opened", "sweep", "down", "failed"}
  PROVE  ReadInv'
<1>1. /\ phase' = phase \/ (phase = "down" /\ phase' = "failed")
      /\ UNCHANGED <<wals, vlogs, manifest, opts, wal, mem, imms, visible, head, vmap, pinning, inflight,
                     building, gc, bgError, acked, promised, gray>>
  BY DEF Unmoved
<1>2. Young' = Young /\ Adopted' = Adopted /\ Flushed' = Flushed /\ Contents' = Contents /\ ReplayIds' = ReplayIds
      /\ (Serving' <=> Serving) /\ Registered' = Registered
  BY <1>1 DEF Young, Adopted, Flushed, Contents, ReplayIds, Serving, Registered
<1>3. Place' = Place
  BY <1>1, <1>2 DEF Place, Replay, Marks, TornAt
<1>4. ASSUME NEW p PROVE RecAt(p)' = RecAt(p) /\ (Missing(p)' <=> Missing(p))
  BY <1>1, <1>2 DEF RecAt, Missing, TornAt
<1>5. ASSUME NEW p PROVE Clean(p)' <=> Clean(p)
  BY <1>3, <1>4 DEF Clean, Before
<1>6. \A r : Resolves(r)' <=> Resolves(r)
  BY <1>1 DEF Resolves
<1>7. Bytes' /\ Fresh'
  <2>1. ASSUME NEW p \in Place, RecAt(p)'.file # Inline, ~Missing(p)' PROVE Resolves(RecAt(p))'
    <3>1. Resolves(RecAt(p)) /\ RecAt(p)' = RecAt(p)
      BY <1>4, <2>1 DEF ReadInv, Bytes
    <3> QED  BY <1>1, <3>1 DEF Resolves
  <2> QED  BY <1>1, <1>2, <1>3, <1>6, <2>1 DEF ReadInv, Bytes, Fresh
<1>8. Written' \subseteq Written
  BY <1>1, <1>3, <1>4, <1>5 DEF Written
<1>9. Unique' /\ Truthful' /\ Retirements'
  BY <1>1, <1>8, TruthKept, RetirementsKept DEF ReadInv
<1>10. Confessed' /\ GcPass' /\ Held'
  <2>1. Held'
    BY <1>1, SameHeld DEF ReadInv
  <2>2. GcPass'
    BY <1>1, <1>3, <1>4 DEF ReadInv, GcPass
  <2>3. Confessed'
    BY <1>1, <1>3, <1>4 DEF ReadInv, Confessed
  <2> QED  BY <2>1, <2>2, <2>3
<1>11. Reachable'
  BY <1>1, <1>2 DEF ReadInv, Reachable, Gone
<1> QED  BY <1>7, <1>9, <1>10, <1>11 DEF ReadInv

-----------------------------------------------------------------------------
(* All steps                                                               *)

\* Every step of the store or of a fork keeps what readers need.
LEMMA StepReads ==
  ASSUME FilesInv, LogInv, ReadInv, [Next \/ ForkNext]_vars, ~exposed'
  PROVE  ReadInv'
<1>0. FilesInv' /\ LogInv'
  BY StepFilesKept, StepLogKept
<1>1. CASE \E k \in opts.keys, large \in opts.large : Write(k, large)
  BY <1>0, <1>1, WriteReads
<1>2. CASE Publish \/ PublishHeadFails \/ PublishRotateFails
  BY <1>0, <1>2, PublicationReads
<1>3. CASE SyncWal \/ PinBarrier
  BY <1>0, <1>3, BarrierReads
<1>4. CASE GcBarrier
  BY <1>0, <1>4, GcBarrierReads
<1>5. CASE ForceRotate \/ ForkBegin \/ RotateFails
  BY <1>0, <1>5, RotationReads
<1>6. CASE Flush
  BY <1>0, <1>6, FlushReads
<1>7. CASE AppendFails
  BY <1>0, <1>7, AppendFailsReads
<1>8. CASE SyncFails \/ FlushFails
  BY <1>0, <1>8, FailureReads
<1>10. CASE \/ PinCommit \/ \E s \in manifest.pins : Unpin(s)
            \/ ForkDrained \/ ForkFails \/ \E cut \in Cuts : ForkCut(cut)
  BY <1>0, <1>10, AsideReads
<1>11. CASE \E v \in vmap : StartGc(v)
  BY <1>0, <1>11, StartGcReads
<1>12. CASE \E i \in 1 .. opts.vlog_file_size : Relocate(i)
  BY <1>0, <1>12, RelocateReads
<1>13. CASE Retire
  BY <1>0, <1>13, RetireReads
<1>14. CASE ProcessRetired
  BY <1>0, <1>14, ProcessRetiredReads
<1>15. CASE \E id \in obsolete : Unlink(id)
  BY <1>0, <1>15, UnlinkReads
<1>16. CASE Crash \/ Kill
  BY <1>0, <1>16, CrashReads
<1>17. phase \in {"up", "opened", "sweep", "down", "failed"}
  BY DEF FilesInv, MemoryTypes
<1>18. CASE OpenReplay
  <2>1. phase = "down" /\ (OpenFails \/ Opens(ReplayedRecs(Replay), RecoveredNextId))
    BY <1>18, OpenReplayIs
  <2>2. CASE OpenFails
    <3>1. Unmoved /\ UNCHANGED <<vmap, building, gc, bgError>>
      BY <2>1, <2>2 DEF OpenFails, Unmoved, disk, aside, tree, vlogVars, failures, history
    <3> QED  BY <1>17, <3>1, UnmovedReads
  <2>3. CASE Opens(ReplayedRecs(Replay), RecoveredNextId)
    BY <1>0, <2>1, <2>3, OpensReads
  <2> QED  BY <2>1, <2>2, <2>3
<1>19. CASE OpenComplete
  BY <1>0, <1>19, OpenCompleteReads
<1>20. CASE StartupGc
  BY <1>0, <1>20, StartupGcReads
<1>21. CASE ForkPublish
  BY <1>0, <1>21, ForkPublishReads
<1>22. CASE UNCHANGED vars
  <2>1. Unmoved /\ UNCHANGED <<vmap, building, gc, bgError>>
    BY <1>22 DEF Unmoved, vars, disk, aside, tree, vlogVars, failures, history
  <2> QED  BY <1>17, <2>1, UnmovedReads
<1> QED
  BY <1>1, <1>2, <1>3, <1>4, <1>5, <1>6, <1>7, <1>8, <1>10, <1>11, <1>12, <1>13, <1>14,
     <1>15, <1>16, <1>18, <1>19, <1>20, <1>21, <1>22 DEF Next, ForkNext

\* What readers need, until a power loss exposes what a kill had left.
ReadHolds == ~exposed => ReadInv

\* What readers need holds in every state of every run, with every failed
\* rotation and every death of the process among its steps, as long as no power
\* loss takes records that a killed process had left to the page cache.
THEOREM ReadsAlways == ForkSpec => [](FilesInv /\ LogHolds /\ ReadHolds)
<1>1. Init => FilesInv /\ LogHolds /\ ReadHolds
  BY InitFiles, InitLog, InitReads DEF LogHolds, ReadHolds
<1>2. FilesInv /\ LogHolds /\ ReadHolds /\ [Next \/ ForkNext]_vars
        => (FilesInv /\ LogHolds /\ ReadHolds)'
  BY StepFilesKept, StepLogKept, StepReads, PhaseSteps DEF LogHolds, ReadHolds
<1> QED  BY <1>1, <1>2, PTL DEF ForkSpec

\* The value of the newest record is among those that users wrote last.
LEMMA NewestIsTrue ==
  ASSUME FilesInv, LogInv, ReadInv, Serving, NEW k, NEW s \in Nat, NEW r \in Newest(acked, k, s)
  PROVE  r.val \in Truth(k, s)
<1>f. Facts
  BY FactsHold
<1>1. r \in acked /\ r.key = k /\ r.seq <= s /\ r.seq \in Nat
      /\ \A q \in acked : q.key = k /\ q.seq <= s => q.seq <= r.seq
  BY <1>f DEF Newest, Facts, Written
<1>2. \A q \in acked : q.seq \in Nat
  BY <1>f DEF Facts, Written
<1> DEFINE written == {u \in acked : u.user /\ u.key = k /\ u.seq <= s}
<1>3. CASE r.user
  <2>1. r \in written /\ \A q \in written : r.seq < q.seq => q \in gray
    BY <1>1, <1>2, <1>3
  <2> QED  BY <2>1 DEF Truth
<1>4. CASE ~r.user
  <2>1. PICK u \in acked :
          /\ u.user /\ u.key = k /\ u.seq < r.seq /\ u.val = r.val
          /\ \A q \in acked : q.user /\ q.key = k /\ u.seq < q.seq /\ q.seq < r.seq => q \in gray
    BY <1>1, <1>4 DEF ReadInv, Truthful, Written, Carries
  <2>2. u \in written
    BY <1>1, <1>2, <2>1
  <2>3. ASSUME NEW q \in written, u.seq < q.seq PROVE q \in gray
    <3>1. q \in acked /\ q.user /\ q.key = k /\ q.seq <= r.seq
      BY <1>1
    <3>2. q.seq # r.seq
      BY <1>1, <1>4, <3>1 DEF ReadInv, Unique, SameKey
    <3> QED  BY <1>1, <1>2, <2>1, <2>3, <3>1, <3>2
  <2> QED  BY <2>1, <2>2, <2>3 DEF Truth
<1> QED  BY <1>3, <1>4

\* What a reader asks for is in one of the files of the view.
LEMMA NewestIsThere ==
  ASSUME FilesInv, LogInv, ReadInv, Serving, NEW s \in Readable, NEW k, NEW r \in Newest(Contents, k, s),
         r.file # Inline
  PROVE  r.file \in vmap
<1>f. Facts /\ Held
  BY FactsHold DEF ReadInv
<1>1. /\ s \in Nat /\ s <= visible /\ (s >= Watermark \/ s = visible)
      /\ r \in Contents /\ r.key = k /\ r.seq \in Nat
      /\ \A q \in Contents : q.key = k /\ q.seq <= s => q.seq <= r.seq
  BY <1>f, OptionsTyped DEF Readable, Newest, Facts
<1>2. ASSUME Gone(r) PROVE FALSE
  <2>1. PICK q \in Flushed : q.key = k /\ r.seq < q.seq /\ \A x \in Registered : q.seq <= x
    BY <1>1, <1>2 DEF Gone
  <2>2. q \in Contents /\ q \in acked /\ q.seq \in Nat /\ q.seq <= visible /\ visible \in Nat
    BY <1>f DEF Facts
  <2>3. q.seq <= s
    <3>1. CASE s = visible
      BY <2>2, <3>1
    <3>2. CASE s >= Watermark
      <4>1. Registered # {}
        BY <1>1, <1>f, <2>2, <3>2, WatermarkIs
      <4>2. Watermark \in Registered /\ Watermark \in Nat
        BY <1>f, <4>1, WatermarkIs
      <4> QED  BY <1>1, <2>1, <2>2, <3>2, <4>2
    <3> QED  BY <1>1, <3>1, <3>2
  <2> QED  BY <1>1, <2>1, <2>2, <2>3
<1> QED  BY <1>1, <1>2 DEF ReadInv, Reachable

\* A payload is its key and its value.
LEMMA PayloadIs ==
  ASSUME FilesInv, NEW f \in DOMAIN vlogs, NEW i \in 1 .. Len(vlogs[f].recs)
  PROVE  /\ i \in DOMAIN vlogs[f].recs
         /\ vlogs[f].recs[i] = [key |-> vlogs[f].recs[i].key, val |-> vlogs[f].recs[i].val]
<1>1. vlogs[f].recs \in Seq(Payload)
  BY DEF FilesInv, DiskTypes, FileTypes, VlogFile
<1>2. i \in DOMAIN vlogs[f].recs /\ vlogs[f].recs[i] \in Payload
  BY <1>1
<1> QED  BY <1>2 DEF Payload

\* Every state a reader can ask for is readable: the newest version of a key
\* points into a file that is there, and that readers can look up unless a failed
\* rotation left it unlisted, at a record of that key with its value; and the
\* value is the one the users wrote last, however often GC moved it; for any
\* keys, options, kills, crashes and failed calls, until a power loss exposes
\* what a kill had left to the page cache.
THEOREM ReadersResolve == ForkSpec => []ReadsResolve
<1>1. ASSUME FilesInv, LogInv, ReadInv PROVE ReadsResolve
  <2> USE <1>1
  <2> SUFFICES ASSUME Serving, NEW s \in Readable, NEW k \in Keys, NEW r \in Newest(Contents, k, s)
               PROVE  /\ r.file # Inline =>
                           /\ r.file \in InVersion \cup (unlisted \cap DOMAIN vlogs)
                           /\ r.pos \in DOMAIN vlogs[r.file].recs
                           /\ vlogs[r.file].recs[r.pos] = [key |-> k, val |-> r.val]
                      /\ r.val \in Truth(k, s)
    BY DEF ReadsResolve
  <2>1. Facts /\ r \in Contents /\ r.key = k /\ s \in Nat
    BY FactsHold, OptionsTyped DEF Newest, Readable
  <2>2. ASSUME r.file # Inline
        PROVE  /\ r.file \in InVersion \cup (unlisted \cap DOMAIN vlogs)
               /\ r.pos \in DOMAIN vlogs[r.file].recs
               /\ vlogs[r.file].recs[r.pos] = [key |-> k, val |-> r.val]
    <3>1. r.file \in vmap /\ r.file \in DOMAIN vlogs
      BY <2>1, <2>2, NewestIsThere DEF Facts
    <3>2. Resolves(r)
      BY <2>1, <3>1 DEF ReadInv, Bytes
    <3>3. r.file \in InVersion \cup (unlisted \cap DOMAIN vlogs)
      BY <3>1 DEF InVersion
    <3> QED  BY <2>1, <3>1, <3>2, <3>3, PayloadIs DEF Resolves
  <2>3. r.val \in Truth(k, s)
    BY <2>1, NewestIsTrue DEF Facts
  <2> QED  BY <2>2, <2>3
<1>2. FilesInv /\ LogHolds /\ ReadHolds => ReadsResolve
  BY <1>1 DEF LogHolds, ReadHolds, ReadsResolve
<1> QED  BY <1>2, ReadsAlways, PTL

-----------------------------------------------------------------------------
(* Forks in the making                                                     *)

\* What the store does to a fork in the making: what is in the tables stays
\* there, values stay where they are and the files of the view are not unlinked.
Ongoing ==
    /\ Grown /\ manifest.flushed <= manifest'.flushed
    /\ acked \subseteq acked' /\ \A r \in acked : r \in mem' => r \in mem
    /\ building # <<>> /\ building[1].taken =>
         (DOMAIN vlogs) \cap building[1].vmap \subseteq DOMAIN vlogs'

\* A step that publishes nothing, flushes nothing and unlinks nothing.
LEMMA PlainOngoing ==
  ASSUME Facts, Grown, manifest'.flushed = manifest.flushed, acked' = acked, mem' \in {{}, mem},
         DOMAIN vlogs \subseteq DOMAIN vlogs'
  PROVE  Ongoing
BY DEF Facts, Ongoing

\* A publication.
LEMMA PublicationOngoing ==
  ASSUME FilesInv, FilesInv', LogInv, LogInv',
         Publish \/ PublishHeadFails \/ PublishRotateFails
  PROVE  Ongoing
<1>f. Facts
  BY FactsHold
<1> DEFINE b == inflight[1]
<1>1. /\ inflight # <<>> /\ Acknowledge /\ VlogSideKept /\ VlogsGrow /\ manifest' = manifest
      /\ mem' \in {{}, Insert(mem, b)}
  BY PublishIs, PublishRotateFailsIs
<1>2. Serving /\ b \notin acked
  BY <1>1, InflightIs
<1>3. Grown
  BY <1>1, <1>2, SideGrown
<1>4. acked' = acked \cup {b}
  BY <1>1, InsertAbove DEF Acknowledge
<1>5. \A r \in Insert(mem, b) : r \in mem \/ r = b
  BY DEF Insert
<1> HIDE DEF b
<1>6. \A r \in acked : r \in mem' => r \in mem
  BY <1>1, <1>2, <1>5
<1>7. DOMAIN vlogs \subseteq DOMAIN vlogs'
  BY <1>1 DEF VlogsGrow
<1> QED  BY <1>1, <1>3, <1>4, <1>6, <1>7, <1>f DEF Ongoing, Facts

\* An append, or a record that a pass leaves where it is.
LEMMA AppendOngoing ==
  ASSUME FilesInv, FilesInv', LogInv,
         (\E k \in opts.keys, large \in opts.large : Write(k, large)) \/ \E i : Relocate(i)
  PROVE  Ongoing
<1>f. Facts
  BY FactsHold
<1>1. /\ phase = "up" /\ UNCHANGED <<manifest, obsolete, acked, mem>>
      /\ vlogs' = vlogs \/ \E large \in BOOLEAN : Appends(inflight'[1], large)
  <2>1. CASE \E k \in opts.keys, large \in opts.large : Write(k, large)
    <3>1. PICK k \in opts.keys, large \in opts.large : Write(k, large)
      BY <2>1
    <3>2. crashes \in Nat /\ visible \in Nat
      BY OptionsTyped DEF FilesInv, MemoryTypes
    <3>3. <<crashes, visible + 1>> \in Nat \X Nat /\ k \in Keys /\ large \in BOOLEAN
      BY <3>2, OptionsTyped
    <3>4. phase = "up" /\ visible < opts.seq /\ AppendBatch(k, <<crashes, visible + 1>>, large, TRUE)
      BY <3>1 DEF Write
    <3>5. Appends(inflight'[1], large)
      BY <3>3, <3>4, AppendIs
    <3> QED  BY <3>1, <3>3, <3>4, <3>5 DEF Write, tree, vlogVars
  <2>2. CASE \E i : Relocate(i)
    <3>1. PICK i : Relocate(i)
      BY <2>2
    <3>2. RelocateLeaves /\ (vlogs' = vlogs \/ Appends(inflight'[1], TRUE))
      BY <3>1, RelocateCases
    <3>3. phase = "up"
      BY <3>1, RelocateIs
    <3> QED  BY <3>2, <3>3 DEF RelocateLeaves, tree, vlogVars
  <2> QED  BY <2>1, <2>2
<1>2. CASE vlogs' = vlogs
  BY <1>1, <1>2, <1>f, SameGrown, PlainOngoing
<1>3. CASE \E large \in BOOLEAN : Appends(inflight'[1], large)
  <2>1. PICK large \in BOOLEAN : Appends(inflight'[1], large)
    BY <1>3
  <2>2. Serving
    BY <1>1 DEF Serving
  <2>3. VlogsGrow
    BY <1>1, <2>1, <2>2, AppendVlogs
  <2>4. DOMAIN vlogs' = DOMAIN vlogs
    BY <2>1, <2>2, ActiveFiles DEF Appends, Updated
  <2>5. Grown
    BY <2>3, <2>4 DEF Grown, VlogsGrow
  <2> QED  BY <1>1, <1>f, <2>4, <2>5, PlainOngoing
<1> QED  BY <1>1, <1>2, <1>3

\* Every step of a store that stays up is like that.
LEMMA UpOngoing ==
  ASSUME FilesInv, FilesInv', LogInv, LogInv', Held, [Next \/ ForkNext]_vars, phase = "up", phase' = "up"
  PROVE  Ongoing
<1>f. Facts /\ Serving
  BY FactsHold DEF Serving
<1>1. CASE (\E k \in opts.keys, large \in opts.large : Write(k, large))
           \/ \E i \in 1 .. opts.vlog_file_size : Relocate(i)
  BY <1>1, AppendOngoing
<1>2. CASE Publish \/ PublishHeadFails \/ PublishRotateFails
  BY <1>2, PublicationOngoing
<1>3. CASE SyncWal \/ PinBarrier \/ GcBarrier
  <2>1. SyncBoth /\ UNCHANGED <<manifest, acked, mem>>
    BY <1>3 DEF SyncWal, PinBarrier, GcBarrier, SyncBoth, tree
  <2>2. Grown /\ DOMAIN vlogs' = DOMAIN vlogs
    BY <1>f, <2>1, SyncBothKeeps
  <2> QED  BY <1>f, <2>1, <2>2, PlainOngoing
<1>4. CASE \/ ForceRotate \/ ForkBegin \/ RotateFails \/ AppendFails \/ SyncFails \/ FlushFails
           \/ PinCommit \/ (\E s \in manifest.pins : Unpin(s)) \/ (\E v \in vmap : StartGc(v))
           \/ ForkDrained \/ ForkFails \/ (\E cut \in Cuts : ForkCut(cut))
           \/ Retire \/ ProcessRetired \/ UNCHANGED vars
  <2>1. vlogs' = vlogs /\ acked' = acked /\ mem' \in {{}, mem}
    <3>1. CASE ForceRotate \/ ForkBegin \/ RotateFails
      BY <3>1 DEF ForceRotate, ForkBegin, RotateFails, Freeze, store, disk, tree, history
    <3>2. CASE AppendFails \/ SyncFails \/ FlushFails
      BY <3>2 DEF AppendFails, SyncFails, FlushFails, Abort, disk, tree, history
    <3>3. CASE PinCommit \/ (\E s \in manifest.pins : Unpin(s)) \/ (\E v \in vmap : StartGc(v))
      BY <3>3 DEF PinCommit, Unpin, StartGc, disk, tree, history
    <3>4. CASE ForkDrained \/ ForkFails \/ (\E cut \in Cuts : ForkCut(cut))
      BY <3>4 DEF ForkDrained, ForkFails, ForkCut, store, disk, tree, history
    <3>5. CASE Retire \/ ProcessRetired
      BY <3>5 DEF Retire, ProcessRetired, tree, history
    <3>6. CASE UNCHANGED vars
      BY <3>6 DEF vars, disk, tree, history
    <3> QED  BY <1>4, <3>1, <3>2, <3>3, <3>4, <3>5, <3>6
  <2>2. manifest'.flushed = manifest.flushed
    <3>1. CASE PinCommit \/ (\E s \in manifest.pins : Unpin(s)) \/ Retire \/ ProcessRetired
      BY <3>1 DEF PinCommit, Unpin, Retire, ProcessRetired, FilesInv, DiskTypes, ManifestData
    <3>2. CASE ForceRotate \/ ForkBegin \/ RotateFails \/ AppendFails \/ SyncFails \/ FlushFails
      BY <3>2 DEF ForceRotate, ForkBegin, RotateFails, Freeze, AppendFails, SyncFails, FlushFails, store, disk
    <3>3. CASE \/ (\E v \in vmap : StartGc(v))
               \/ ForkDrained \/ ForkFails \/ (\E cut \in Cuts : ForkCut(cut)) \/ UNCHANGED vars
      BY <3>3 DEF StartGc, ForkDrained, ForkFails, ForkCut, store, disk, vars
    <3> QED  BY <1>4, <3>1, <3>2, <3>3
  <2> QED  BY <1>f, <2>1, <2>2, SameGrown, PlainOngoing
<1>5. CASE Flush
  <2>1. vlogs' = SyncedHead /\ acked' = acked /\ mem' = mem /\ imms # <<>>
    BY <1>5 DEF Flush, SyncedHead, history
  <2>2. DOMAIN vlogs' = DOMAIN vlogs
        /\ \A f \in DOMAIN vlogs : vlogs'[f].recs = vlogs[f].recs /\ vlogs'[f].synced = Len(vlogs[f].recs)
    BY <1>f, <2>1, SyncedHeadIs
  <2>3. manifest.flushed <= manifest'.flushed
    <3>1. Last(imms).recs \in SUBSET Batch
      BY <1>f, <2>1, FlushIs DEF Frozen
    <3>2. manifest.flushed \in 0 .. MaxSeq /\ MaxSeq \in Nat
      BY OptionsTyped DEF FilesInv, DiskTypes, ManifestData
    <3>3. manifest'.flushed = Max({manifest.flushed} \cup {r.seq : r \in Last(imms).recs})
      BY <1>5, FlushManifestIs DEF FlushManifest
    <3> QED  BY <3>1, <3>2, <3>3, TopIs
  <2> QED  BY <1>f, <2>1, <2>2, <2>3, SyncGrown DEF Ongoing
<1>6. CASE \E id \in obsolete : Unlink(id)
  <2>1. PICK id \in obsolete : Unlink(id)
    BY <1>6
  <2>2. vlogs' = Keep(vlogs, (DOMAIN vlogs) \ {id}) /\ UNCHANGED <<manifest, acked, mem>>
    BY <2>1 DEF Unlink, tree, history
  <2>3. DOMAIN vlogs' = (DOMAIN vlogs) \ {id} /\ \A v \in DOMAIN vlogs' : vlogs'[v] = vlogs[v]
    BY <2>2, KeepIs
  <2>4. Grown
    BY <1>f, <2>3 DEF Grown, Facts
  <2>5. building # <<>> /\ building[1].taken => id \notin building[1].vmap
    <3> SUFFICES ASSUME building # <<>>, building[1].taken PROVE id \notin building[1].vmap
      OBVIOUS
    <3>1. \A b \in Range(building) : b.taken => id \notin b.vmap
      BY <2>1 DEF Unlink
    <3>2. building[1] \in Range(building)
      <4>1. 1 \in DOMAIN building
        BY DEF Held
      <4> QED  BY <4>1 DEF Range
    <3> QED  BY <3>1, <3>2
  <2>6. building # <<>> /\ building[1].taken => (DOMAIN vlogs) \cap building[1].vmap \subseteq DOMAIN vlogs'
    BY <2>3, <2>5
  <2>7. manifest.flushed <= manifest'.flushed /\ acked \subseteq acked' /\ mem' = mem
    BY <1>f, <2>2 DEF Facts
  <2> QED  BY <2>4, <2>6, <2>7 DEF Ongoing
<1>7. CASE ForkPublish
  <2>1. vlogs' = SyncedHead /\ UNCHANGED <<manifest, acked, mem>>
    BY <1>7 DEF ForkPublish, SyncedHead, tree, history
  <2>2. DOMAIN vlogs' = DOMAIN vlogs
        /\ \A f \in DOMAIN vlogs : vlogs'[f].recs = vlogs[f].recs /\ vlogs'[f].synced = Len(vlogs[f].recs)
    BY <1>f, <2>1, SyncedHeadIs
  <2> QED  BY <1>f, <2>1, <2>2, SyncGrown, PlainOngoing
<1>8. ~Crash /\ ~Kill /\ ~OpenReplay /\ ~OpenComplete /\ ~StartupGc
  BY DEF Crash, Kill, ProcessEnds, OpenReplay, OpenComplete, StartupGc
<1> QED
  BY <1>1, <1>2, <1>3, <1>4, <1>5, <1>6, <1>7, <1>8 DEF Next, ForkNext

\* The fork in the making, if there is one.
LEMMA MakingIs ==
  /\ \A b : building = <<b>> => Range(building) = {b}
  /\ \A b : building' = <<b>> => Range(building') = {b}
  /\ building = <<>> => Range(building) = {}
  /\ building' = <<>> => Range(building') = {}
<1>1. ASSUME NEW b PROVE Range(<<b>>) = {b}
  <2>1. DOMAIN <<b>> = {1} /\ <<b>>[1] = b
    OBVIOUS
  <2> QED  BY <2>1 DEF Range
<1>2. Range(<<>>) = {}
  BY DEF Range
<1> QED  BY <1>1, <1>2

\* A cut stays one.
LEMMA CutStays ==
  ASSUME Facts, Facts', Grown, NEW recs, recs \subseteq Batch, NEW cut, NEW truth, NEW files,
         (DOMAIN vlogs) \cap files \subseteq DOMAIN vlogs', MaxSeq \in Nat, Cut(recs, cut, truth, files)
  PROVE  Cut(recs, cut, truth, files)'
<1>1. \A k \in Keys : truth[k] # {} => Newest(recs, k, cut) # {}
  BY DEF Cut
<1>2. ASSUME NEW k \in Keys, NEW r \in Newest(recs, k, cut)
      PROVE  /\ r.val \in truth[k]
             /\ r.file # Inline => r.file \in files /\ r.file \in DOMAIN vlogs' /\ Resolves(r)'
                                   /\ r.pos <= vlogs'[r.file].synced
  <2>1. /\ r.val \in truth[k] /\ r.pos \in Nat
        /\ r.file # Inline => r.file \in files /\ r.file \in DOMAIN vlogs /\ Resolves(r)
                              /\ r.pos <= vlogs[r.file].synced
    BY DEF Cut, Newest, Batch
  <2> SUFFICES ASSUME r.file # Inline
               PROVE  r.file \in DOMAIN vlogs' /\ Resolves(r)' /\ r.pos <= vlogs'[r.file].synced
    BY <2>1
  <2>2. r.file \in DOMAIN vlogs' /\ r.file \in DOMAIN vlogs
    BY <2>1
  <2>3. Resolves(r)' /\ vlogs[r.file].synced <= vlogs'[r.file].synced
    BY <2>1, <2>2, GrownResolves
  <2>4. vlogs[r.file].synced \in Nat /\ vlogs'[r.file].synced \in Nat
    BY <2>2 DEF Facts
  <2> QED  BY <2>1, <2>2, <2>3, <2>4
<1> QED  BY <1>1, <1>2 DEF Cut

\* What a fork waits for and what it has pinned stay, while it is in the making.
LEMMA MakingKept ==
  ASSUME FilesInv, Facts, Facts', Held, Serving, Serving', Ongoing,
         building # <<>>, building' = building, Making
  PROVE  Making'
<1>1. PICK b : b = building[1]
  OBVIOUS
<1>2. building' = <<b>> /\ b.asked \in Nat /\ Awaited(b) /\ Pinned(b)
  <2>1. building = <<b>> /\ b.asked \in Nat
    BY <1>1 DEF Held
  <2> QED  BY <2>1, MakingIs DEF Making
<1>3. Awaited(b)'
  <2>1. manifest.flushed \in Nat /\ manifest'.flushed \in Nat /\ manifest.flushed <= manifest'.flushed
    BY DEF Facts, Ongoing
  <2>2. ASSUME NEW r \in Contents \ mem PROVE r \in Contents' \ mem'
    BY DEF Facts, Ongoing
  <2> QED  BY <1>2, <2>1, <2>2 DEF Awaited
<1>4. Pinned(b)'
  <2> SUFFICES ASSUME b.taken PROVE Pinned(b)'
    BY DEF Pinned
  <2>1. b.recs \subseteq Batch /\ Cut(b.recs, b.cut, b.truth, b.vmap)
    BY <1>2 DEF Pinned
  <2>2. (DOMAIN vlogs) \cap b.vmap \subseteq DOMAIN vlogs' /\ Grown
    BY <1>1 DEF Ongoing
  <2>3. Cut(b.recs, b.cut, b.truth, b.vmap)'
    BY <2>1, <2>2, OptionsTyped, CutStays
  <2> QED  BY <1>2, <2>1, <2>3 DEF Pinned
<1>5. Range(building') = {b}
  BY <1>2, MakingIs
<1> QED  BY <1>3, <1>4, <1>5 DEF Making

\* flush() is called: whatever its caller sees is frozen, or in the tables.
LEMMA BeginForks ==
  ASSUME FilesInv, FilesInv', LogInv, LogInv', ForkInv, ForkBegin
  PROVE  ForkInv'
<1>f. Facts /\ Facts'
  BY FactsHold, NextFacts
<1> DEFINE c == [asked |-> visible, drained |-> FALSE, taken |-> FALSE]
<1>1. /\ phase = "up" /\ phase' = "up" /\ building' = <<c>> /\ archives' = archives
      /\ manifest' = manifest /\ acked' = acked /\ mem' = {}
  BY DEF ForkBegin, Freeze, store, disk, tree, history
<1>2. c.asked = visible /\ c.drained = FALSE /\ c.taken = FALSE
  OBVIOUS
<1> HIDE DEF c
<1>3. Contents' = acked /\ Serving
  BY <1>1, <1>f DEF Facts, Serving
<1>4. visible <= manifest.flushed \/ \E r \in acked : visible <= r.seq
  BY <1>3 DEF LogInv, Contained
<1>5. PICK b : b = c
  OBVIOUS
<1>6. Awaited(b)' /\ Pinned(b)'
  BY <1>1, <1>2, <1>3, <1>4, <1>5 DEF Awaited, Pinned
<1>7. Range(building') = {b}
  BY <1>1, <1>5, MakingIs
<1>8. Making'
  BY <1>6, <1>7 DEF Making
<1> QED  BY <1>1, <1>8 DEF ForkInv, Whole, StateAt, Newest

\* Nothing is frozen any more: what was is in the tables.
LEMMA DrainedForks ==
  ASSUME FilesInv, FilesInv', LogInv, LogInv', Held, ForkInv, ForkDrained
  PROVE  ForkInv'
<1>f. Facts /\ Facts'
  BY FactsHold, NextFacts
<1>1. /\ building # <<>> /\ imms = <<>> /\ building' = [building EXCEPT ![1].drained = TRUE]
      /\ archives' = archives /\ UNCHANGED store /\ ~building[1].drained
  BY DEF ForkDrained
<1>2. PICK b : b = building[1]
  OBVIOUS
<1>3. building = <<b>> /\ b.asked \in Nat /\ ~b.drained /\ b.taken \in BOOLEAN /\ ~b.taken
  BY <1>1, <1>2 DEF Held
<1> DEFINE c == [b EXCEPT !.drained = TRUE]
<1>4. building' = <<c>>
  <2>1. building' = [building EXCEPT ![1] = c]
    BY <1>1, <1>2
  <2> HIDE DEF c
  <2> QED  BY <1>3, <2>1
<1>5. c.asked = b.asked /\ c.taken = b.taken
  OBVIOUS
<1> HIDE DEF c
<1>6. Awaited(b)
  BY <1>3, MakingIs DEF ForkInv, Making
<1>7. b.asked <= manifest.flushed
  <2>1. ASSUME NEW r \in Contents \ mem PROVE r.seq <= manifest.flushed /\ r.seq \in Nat
    <3>1. DOMAIN imms = {}
      BY <1>1
    <3>2. r \in Flushed
      BY <2>1, <3>1, ContentsIs, FrozenRecsIs
    <3> QED  BY <1>f, <3>2 DEF Facts
  <2>2. manifest.flushed \in Nat
    BY <1>f DEF Facts
  <2> QED  BY <1>3, <1>6, <2>1, <2>2 DEF Awaited
<1>8. Awaited(c)' /\ Pinned(c)'
  BY <1>1, <1>3, <1>5, <1>7 DEF Awaited, Pinned, store, disk
<1>9. Making'
  BY <1>4, <1>8, MakingIs DEF Making
<1> QED  BY <1>1, <1>9 DEF ForkInv, Whole, StateAt, Newest

\* Where there is a version there is a newest one.
LEMMA NewestExists ==
  ASSUME MaxSeq \in Nat, NEW recs, recs \subseteq Batch, NEW k, NEW s, NEW x \in recs, x.key = k, x.seq <= s
  PROVE  Newest(recs, k, s) # {}
<1> DEFINE R == {r \in recs : r.key = k /\ r.seq <= s}
           N == {r.seq : r \in R}
<1>1. N \in SUBSET (1 .. MaxSeq) /\ x.seq \in N
  BY DEF Batch
<1>2. IsFiniteSet(N) /\ N \in SUBSET Int /\ N # {}
  <2>1. IsFiniteSet(1 .. MaxSeq)
    BY FS_Interval
  <2> HIDE DEF N
  <2>2. IsFiniteSet(N)
    BY <1>1, <2>1, FS_Subset
  <2> QED  BY <1>1, <2>2
<1>3. PICK n \in N : \A y \in N : y <= n
  <2> HIDE DEF N
  <2> QED  BY <1>2, GreatestExists
<1>4. PICK r \in R : r.seq = n
  OBVIOUS
<1>5. \A q \in recs : q.key = k /\ q.seq <= s => q.seq <= r.seq
  BY <1>3, <1>4
<1> QED  BY <1>4, <1>5 DEF Newest

\* The view that is pinned is a cut: nothing at or below it is outside the
\* tables, and no file of it is gone.
LEMMA TablesAreCut ==
  ASSUME FilesInv, LogInv, ReadInv, Serving, NEW cut \in Cuts, NEW truth, NEW files,
         \A k \in Keys : truth[k] = Truth(k, cut), files = vmap
  PROVE  Cut(Flushed, cut, truth, files)
<1>f. Facts
  BY FactsHold
<1>1. /\ cut \in 0 .. manifest.flushed /\ manifest.flushed \in 0 .. MaxSeq /\ MaxSeq \in Nat /\ cut \in Nat
      /\ cut = manifest.flushed \/ (cut <= visible /\ (cut >= Watermark \/ cut = visible))
  BY OptionsTyped DEF Cuts, FilesInv, DiskTypes, ManifestData
<1>2. Flushed \subseteq acked /\ Contents = acked /\ acked \subseteq Batch /\ \A r \in acked : r.seq \in Nat
  BY <1>f DEF Facts, Written
<1>3. ASSUME NEW r \in acked, r.seq <= cut PROVE r \in Flushed
  BY <1>1, <1>2, <1>3, <1>f DEF Facts
<1>4. ASSUME NEW k \in Keys, truth[k] # {} PROVE Newest(Flushed, k, cut) # {}
  <2>1. PICK u \in acked : u.key = k /\ u.seq <= cut
    BY <1>4 DEF Truth
  <2>2. u \in Flushed /\ Flushed \subseteq Batch
    BY <1>2, <1>3, <2>1
  <2> QED  BY <1>1, <2>1, <2>2, NewestExists
<1>5. ASSUME NEW k \in Keys, NEW r \in Newest(Flushed, k, cut)
      PROVE  /\ r.val \in truth[k]
             /\ r.file # Inline => r.file \in files /\ r.file \in DOMAIN vlogs /\ Resolves(r)
                                   /\ r.pos <= vlogs[r.file].synced
  <2>1. r \in Flushed /\ r.key = k /\ r.seq <= cut /\ \A q \in Flushed : q.key = k /\ q.seq <= cut => q.seq <= r.seq
    BY DEF Newest
  <2>2. r \in Newest(acked, k, cut)
    BY <1>2, <1>3, <2>1 DEF Newest
  <2>3. r.val \in truth[k]
    BY <1>1, <2>2, NewestIsTrue
  <2>4. ASSUME r.file # Inline PROVE r.file \in vmap
    <3>1. CASE cut = manifest.flushed
      <4>1. r.file \in vmap \/ Gone(r)
        BY <1>2, <2>1, <2>4 DEF ReadInv, Reachable
      <4>2. ASSUME Gone(r) PROVE FALSE
        <5>1. PICK q \in Flushed : q.key = k /\ r.seq < q.seq
          BY <2>1, <4>2 DEF Gone
        <5>2. q.seq <= r.seq /\ q.seq \in Nat /\ r.seq \in Nat
          BY <1>2, <1>f, <2>1, <3>1, <5>1 DEF Facts
        <5> QED  BY <5>1, <5>2
      <4> QED  BY <4>1, <4>2
    <3>2. CASE cut <= visible /\ (cut >= Watermark \/ cut = visible)
      <4>1. cut \in Readable
        BY <1>1, <3>2 DEF Readable
      <4> QED  BY <1>2, <2>2, <2>4, <4>1, NewestIsThere
    <3> QED  BY <1>1, <3>1, <3>2
  <2>5. ASSUME r.file \in vmap PROVE r.file \in DOMAIN vlogs /\ Resolves(r) /\ r.pos <= vlogs[r.file].synced
    BY <1>2, <1>f, <2>1, <2>5 DEF Facts, ReadInv, Bytes
  <2> QED  BY <2>3, <2>4, <2>5
<1> QED  BY <1>4, <1>5 DEF Cut

\* The cut is taken.
LEMMA CutForks ==
  ASSUME FilesInv, FilesInv', LogInv, LogInv', ReadInv, ForkInv, NEW cut \in Cuts, ForkCut(cut)
  PROVE  ForkInv'
<1>f. Facts /\ Facts' /\ Held
  BY FactsHold, NextFacts DEF ReadInv
<1>1. PICK b : b = building[1]
  OBVIOUS
<1>2. /\ building = <<b>> /\ b.drained /\ UNCHANGED store /\ archives' = archives /\ phase = "up"
      /\ building' = <<[asked |-> b.asked, drained |-> TRUE, taken |-> TRUE,
                      cut |-> cut, point |-> cut < manifest.flushed,
                      recs |-> Flushed, vmap |-> vmap, unlisted |-> unlisted,
                      truth |-> [k \in Keys |-> Truth(k, cut)]]>>
  BY <1>1, <1>f, BusyIsUp DEF ForkCut, Held
<1>3. PICK c : c = [asked |-> b.asked, drained |-> TRUE, taken |-> TRUE,
                    cut |-> cut, point |-> cut < manifest.flushed,
                    recs |-> Flushed, vmap |-> vmap, unlisted |-> unlisted,
                      truth |-> [k \in Keys |-> Truth(k, cut)]]
  OBVIOUS
<1>4. /\ c.asked = b.asked /\ c.drained = TRUE /\ c.taken = TRUE /\ c.cut = cut
      /\ c.point = (cut < manifest.flushed) /\ c.recs = Flushed /\ c.vmap = vmap
      /\ \A k \in Keys : c.truth[k] = Truth(k, cut)
  BY <1>3
<1>5. building' = <<c>>
  BY <1>2, <1>3
<1>6. Awaited(b) /\ b.asked <= manifest.flushed
  BY <1>2, MakingIs DEF ForkInv, Making, Awaited
<1>7. Awaited(c)'
  BY <1>2, <1>4, <1>6 DEF Awaited, store, disk
<1>8. Cut(c.recs, c.cut, c.truth, c.vmap)
  <2>1. Serving
    BY <1>2 DEF Serving
  <2>2. Cut(Flushed, cut, c.truth, c.vmap)
    BY <1>4, <2>1, TablesAreCut
  <2> QED  BY <1>4, <2>2
<1>9. Pinned(c)
  <2>1. Flushed \subseteq Batch /\ \A r \in Flushed : r.seq <= manifest.flushed
    BY <1>f DEF Facts
  <2>2. cut \in Nat /\ manifest.flushed \in Nat /\ (cut = manifest.flushed \/ cut < manifest.flushed)
    BY <1>f DEF Cuts, Facts
  <2>3. c.recs \subseteq Batch /\ c.point \in BOOLEAN
    BY <1>4, <2>1
  <2>4. ASSUME ~c.point PROVE c.asked <= c.cut /\ \A r \in c.recs : r.seq <= c.cut
    <3>1. cut = manifest.flushed
      BY <1>4, <2>2, <2>4
    <3> QED  BY <1>4, <1>6, <2>1, <3>1
  <2> QED  BY <1>8, <2>3, <2>4 DEF Pinned
<1>10. Pinned(c)'
  BY <1>2, <1>9 DEF Pinned, Cut, Resolves, store, disk
<1>11. Making'
  BY <1>5, <1>7, <1>10, MakingIs DEF Making
<1> QED  BY <1>2, <1>11 DEF ForkInv, Whole, StateAt, Newest

\* The state at a cut, record by record.
LEMMA StateAtIs ==
  ASSUME NEW recs, NEW cut, NEW x
  PROVE  x \in StateAt(recs, cut) <=>
           x \in recs /\ x.seq <= cut /\ \A q \in recs : q.key = x.key /\ q.seq <= cut => q.seq <= x.seq
<1> DEFINE K == {r.key : r \in recs}
           F == {Newest(recs, k, cut) : k \in K}
<1>1. StateAt(recs, cut) = UNION F
  BY DEF StateAt
<1>2. ASSUME x \in UNION F
      PROVE  x \in recs /\ x.seq <= cut /\ \A q \in recs : q.key = x.key /\ q.seq <= cut => q.seq <= x.seq
  <2>1. PICK k \in K : x \in Newest(recs, k, cut)
    BY <1>2
  <2> QED  BY <2>1 DEF Newest
<1>3. ASSUME x \in recs, x.seq <= cut, \A q \in recs : q.key = x.key /\ q.seq <= cut => q.seq <= x.seq
      PROVE  x \in UNION F
  <2>1. x.key \in K /\ x \in Newest(recs, x.key, cut)
    BY <1>3 DEF Newest
  <2> QED  BY <2>1
<1> HIDE DEF F
<1> QED  BY <1>1, <1>2, <1>3

\* The state of a state at a cut is that state.
LEMMA StateAtTwice ==
  ASSUME NEW recs, NEW cut
  PROVE  StateAt(StateAt(recs, cut), cut) = StateAt(recs, cut)
<1> DEFINE S == StateAt(recs, cut)
<1>1. \A x : x \in S <=>
        x \in recs /\ x.seq <= cut /\ \A q \in recs : q.key = x.key /\ q.seq <= cut => q.seq <= x.seq
  BY StateAtIs
<1> HIDE DEF S
<1>2. \A x : x \in StateAt(S, cut) <=>
        x \in S /\ x.seq <= cut /\ \A q \in S : q.key = x.key /\ q.seq <= cut => q.seq <= x.seq
  BY StateAtIs
<1>3. \A x : x \in StateAt(S, cut) <=> x \in S
  BY <1>1, <1>2
<1> QED  BY <1>3 DEF S

\* What is built from a cut, with the files of its view, is whole.
LEMMA CutIsWhole ==
  ASSUME FilesInv, Facts, NEW b, b.recs \subseteq Batch, b.point \in BOOLEAN,
         b.point \/ (b.asked <= b.cut /\ \A r \in b.recs : r.seq <= b.cut),
         b.asked \in Nat, b.cut \in Nat, Cut(b.recs, b.cut, b.truth, b.vmap),
         NEW a, a.cut = b.cut, a.point = b.point, a.asked = b.asked, a.truth = b.truth,
         a.recs = TablesOf(b), a.vlogs = Keep(vlogs, FilesOf(b)), a.unlisted = b.unlisted
  PROVE  Whole(a)
<1> DEFINE current == StateAt(b.recs, b.cut)
<1>1. StateAt(a.recs, a.cut) = current
  BY StateAtTwice DEF TablesOf
<1>2. ASSUME NEW r \in current
      PROVE  /\ r \in Batch /\ r.seq <= b.cut /\ r.key \in Keys /\ r \in Newest(b.recs, r.key, b.cut)
  BY <1>2, StateAtIs DEF Newest, Batch
<1>3. \A r \in a.recs : r.seq <= a.cut
  BY <1>2 DEF TablesOf
<1> HIDE DEF current
<1>4. a.point \/ a.cut >= a.asked
  BY DEF Batch
<1>5. \A r \in current : r.val \in a.truth[r.key]
  BY <1>2 DEF Cut
<1>6. {r.key : r \in current} = {k \in Keys : a.truth[k] # {}}
  <2>1. ASSUME NEW r \in current PROVE r.key \in Keys /\ a.truth[r.key] # {}
    BY <1>2, <1>5
  <2>2. ASSUME NEW k \in Keys, a.truth[k] # {} PROVE \E r \in current : r.key = k
    <3>1. PICK x : x \in Newest(b.recs, k, b.cut)
      BY <2>2 DEF Cut
    <3>2. x.key = k /\ x \in current
      BY <3>1, StateAtIs DEF Newest, current
    <3> QED  BY <3>2
  <2> QED  BY <2>1, <2>2
<1>7. ASSUME NEW r \in current, r.file \notin {Inline} \cup a.unlisted
      PROVE  /\ r.file \in DOMAIN a.vlogs
             /\ r.pos \in 1 .. a.vlogs[r.file].synced
             /\ a.vlogs[r.file].recs[r.pos] = [key |-> r.key, val |-> r.val]
  <2>1. r.file \in b.vmap /\ r.file \in DOMAIN vlogs /\ Resolves(r) /\ r.pos <= vlogs[r.file].synced
    BY <1>2, <1>7 DEF Cut
  <2>2. r.file \in DOMAIN a.vlogs /\ a.vlogs[r.file] = vlogs[r.file]
    <3>1. r.file \in (DOMAIN vlogs) \cap FilesOf(b)
      BY <1>7, <2>1 DEF FilesOf
    <3>2. DOMAIN Keep(vlogs, FilesOf(b)) = (DOMAIN vlogs) \cap FilesOf(b)
          /\ \A id \in (DOMAIN vlogs) \cap FilesOf(b) : Keep(vlogs, FilesOf(b))[id] = vlogs[id]
      BY DEF Keep
    <3> QED  BY <3>1, <3>2
  <2>3. r.pos \in 1 .. Len(vlogs[r.file].recs) /\ vlogs[r.file].synced \in Nat
        /\ Len(vlogs[r.file].recs) \in Nat
    BY <2>1 DEF Resolves, Facts
  <2>4. vlogs[r.file].recs[r.pos] = [key |-> r.key, val |-> r.val]
    BY <2>1, <2>3, PayloadIs DEF Resolves
  <2> QED  BY <2>1, <2>2, <2>3, <2>4
<1> QED  BY <1>1, <1>3, <1>4, <1>5, <1>6, <1>7 DEF Whole

\* The same of the next state.
LEMMA NextCutIsWhole ==
  ASSUME FilesInv', Facts', NEW b, b.recs \subseteq Batch, b.point \in BOOLEAN,
         b.point \/ (b.asked <= b.cut /\ \A r \in b.recs : r.seq <= b.cut),
         b.asked \in Nat, b.cut \in Nat, Cut(b.recs, b.cut, b.truth, b.vmap)',
         NEW a, a.cut = b.cut, a.point = b.point, a.asked = b.asked, a.truth = b.truth,
         a.recs = TablesOf(b), a.vlogs = Keep(vlogs', FilesOf(b)), a.unlisted = b.unlisted
  PROVE  Whole(a)
<1>1. (FilesInv /\ Facts /\ Cut(b.recs, b.cut, b.truth, b.vmap) /\ a.vlogs = Keep(vlogs, FilesOf(b))
         => Whole(a))'
  BY CutIsWhole, PTL
<1>2. Whole(a)' => Whole(a)
  BY DEF Whole, StateAt, Newest
<1>3. (a.vlogs = Keep(vlogs, FilesOf(b)))'
  BY DEF Keep, FilesOf
<1> QED  BY <1>1, <1>2, <1>3

\* The archive is published.
LEMMA PublishForks ==
  ASSUME FilesInv, FilesInv', LogInv, LogInv', ReadInv, ForkInv, ForkPublish
  PROVE  ForkInv'
<1>f. Facts /\ Facts' /\ Held
  BY FactsHold, NextFacts DEF ReadInv
<1>1. PICK b : b = building[1]
  OBVIOUS
<1>2. building = <<b>> /\ building # <<>> /\ b.taken /\ b.asked \in Nat /\ b.cut \in Nat /\ building' = <<>>
      /\ phase = "up" /\ phase' = "up"
  BY <1>1, <1>f, BusyIsUp DEF ForkPublish, Held
<1> DEFINE made == [cut |-> b.cut, point |-> b.point, asked |-> b.asked, truth |-> b.truth,
                    recs |-> TablesOf(b), vlogs |-> Keep(vlogs', FilesOf(b)), unlisted |-> b.unlisted]
<1>3. archives' = archives \cup {made}
  BY <1>1 DEF ForkPublish
<1>4. Pinned(b)
  BY <1>2, MakingIs DEF ForkInv, Making
<1>5. Ongoing
  BY <1>2, <1>f, UpOngoing DEF ForkNext
<1>6. Cut(b.recs, b.cut, b.truth, b.vmap)'
  <2>1. (DOMAIN vlogs) \cap b.vmap \subseteq DOMAIN vlogs' /\ Grown
    BY <1>1, <1>2, <1>5 DEF Ongoing
  <2> QED  BY <1>2, <1>4, <1>f, <2>1, OptionsTyped, CutStays DEF Pinned
<1>7. PICK a : a = made
  OBVIOUS
<1>8. /\ a.cut = b.cut /\ a.point = b.point /\ a.asked = b.asked /\ a.truth = b.truth
      /\ a.recs = TablesOf(b) /\ a.vlogs = Keep(vlogs', FilesOf(b)) /\ a.unlisted = b.unlisted
  BY <1>7
<1>9. archives' = archives \cup {a}
  BY <1>3, <1>7
<1> HIDE DEF made
<1>10. Whole(a)
  BY <1>2, <1>4, <1>6, <1>8, <1>f, NextCutIsWhole DEF Pinned
<1>11. Making'
  BY <1>2, MakingIs DEF Making
<1>12. \A x \in archives' : Whole(x)
  BY <1>9, <1>10 DEF ForkInv
<1>13. ASSUME NEW x PROVE Whole(x)' <=> Whole(x)
  BY DEF Whole, StateAt, Newest
<1> QED  BY <1>11, <1>12, <1>13 DEF ForkInv

\* Every other step leaves the archives alone, and a fork in the making too or
\* drops it.
LEMMA LeftAlone ==
  ASSUME [Next]_vars \/ ForkFails
  PROVE  archives' = archives /\ building' \in {building, <<>>}
<1>1. CASE (\E k \in opts.keys, large \in opts.large : Write(k, large))
           \/ \E i \in 1 .. opts.vlog_file_size : Relocate(i)
  BY <1>1 DEF Write, Relocate, aside
<1>2. CASE Publish \/ PublishHeadFails \/ SyncWal \/ ForceRotate \/ Flush
  BY <1>2 DEF Publish, PublishHeadFails, Published, SyncWal, ForceRotate, Freeze, Flush, aside
<1>3. CASE AppendFails \/ SyncFails \/ PublishRotateFails \/ RotateFails \/ FlushFails
  BY <1>3 DEF AppendFails, SyncFails, PublishRotateFails, RotateFails, FlushFails, Abort, aside
<1>4. CASE PinBarrier \/ PinCommit \/ \E s \in manifest.pins : Unpin(s)
  BY <1>4 DEF PinBarrier, PinCommit, Unpin, aside
<1>5. CASE (\E v \in vmap : StartGc(v)) \/ GcBarrier \/ Retire
  BY <1>5 DEF StartGc, GcBarrier, Retire, aside
<1>6. CASE ProcessRetired \/ \E id \in obsolete : Unlink(id)
  BY <1>6 DEF ProcessRetired, Unlink, aside
<1>7. CASE Crash \/ Kill
  BY <1>7 DEF Crash, Kill, ProcessEnds
<1>8. CASE OpenReplay
  BY <1>8, OpenReplayIs DEF OpenFails, Opens, aside
<1>9. CASE OpenComplete \/ StartupGc
  BY <1>9 DEF OpenComplete, StartupGc, aside
<1>10. CASE UNCHANGED vars \/ ForkFails
  BY <1>10 DEF vars, aside, ForkFails
<1> QED
  BY <1>1, <1>2, <1>3, <1>4, <1>5, <1>6, <1>7, <1>8, <1>9, <1>10 DEF Next

\* Every step keeps what forks need.
LEMMA StepForks ==
  ASSUME FilesInv, LogInv, ReadInv, ForkInv, [Next \/ ForkNext]_vars, ~exposed'
  PROVE  ForkInv'
<1>0. FilesInv' /\ LogInv' /\ ReadInv'
  BY StepFilesKept, StepLogKept, StepReads
<1>f. Facts /\ Facts' /\ Held
  BY <1>0, FactsHold, NextFacts DEF ReadInv
<1>1. CASE ForkBegin
  BY <1>0, <1>1, BeginForks
<1>2. CASE ForkDrained
  BY <1>0, <1>f, <1>2, DrainedForks
<1>3. CASE \E cut \in Cuts : ForkCut(cut)
  BY <1>0, <1>3, CutForks
<1>4. CASE ForkPublish
  BY <1>0, <1>4, PublishForks
<1>5. CASE [Next]_vars \/ ForkFails
  <2>1. archives' = archives /\ building' \in {building, <<>>}
    BY <1>5, LeftAlone
  <2>2. Making'
    <3>1. CASE building' = <<>>
      BY <3>1, MakingIs DEF Making
    <3>2. CASE building' # <<>>
      <4>1. building' = building /\ building # <<>>
        BY <2>1, <3>2
      <4>2. phase = "up" /\ phase' = "up"
        <5>1. phase = "up"
          BY <4>1, BusyIsUp
        <5>2. building' # <<>> => phase' = "up"
          BY <1>0 DEF FilesInv, Phases
        <5> QED  BY <3>2, <5>1, <5>2
      <4>3. Ongoing
        BY <1>0, <1>f, <4>2, UpOngoing
      <4>4. Serving /\ Serving'
        BY <4>2 DEF Serving
      <4> QED  BY <1>f, <4>1, <4>3, <4>4, MakingKept DEF ForkInv
    <3> QED  BY <3>1, <3>2
  <2>3. ASSUME NEW x PROVE Whole(x)' <=> Whole(x)
    BY DEF Whole, StateAt, Newest
  <2> QED  BY <2>1, <2>2, <2>3 DEF ForkInv
<1> QED  BY <1>1, <1>2, <1>3, <1>4, <1>5 DEF ForkNext

\* What forks need, until a power loss exposes what a kill had left.
ForksHold == ~exposed => ForkInv

\* What forks need holds in every state of every run, as long as no power loss
\* takes records that a killed process had left to the page cache.
THEOREM ForksAlways == ForkSpec => []ForksHold
<1>1. Init => ForksHold
  BY MakingIs DEF Init, ForkInv, Making, ForksHold
<1>2. FilesInv /\ LogHolds /\ ReadHolds /\ ForksHold /\ [Next \/ ForkNext]_vars => ForksHold'
  BY StepForks, PhaseSteps DEF LogHolds, ReadHolds, ForksHold
<1> QED  BY <1>1, <1>2, ReadsAlways, PTL DEF ForkSpec

\* Every archive is the state of the store at its cut, durable and complete but
\* for the file a failed rotation left unlisted, for every workload and every
\* order of writes, GC, deletion and failures, until a power loss exposes what a
\* killed process had left to the page cache.
THEOREM ArchivesAreWhole == ForkSpec => []ArchivesAreCuts
<1>1. ForksHold => ArchivesAreCuts
  BY DEF ForksHold, ForkInv, Whole, ArchivesAreCuts
<1> QED  BY <1>1, ForksAlways, PTL
=============================================================================

------------------------------ MODULE LogProofs ------------------------------
(***************************************************************************)
(* Proofs about what the WALs of a store hold, as a replay would meet it,  *)
(* and so about recovery: what was promised comes back, what comes back is *)
(* a prefix of what was written, and no open is refused unless a call has  *)
(* failed.  They hold for any keys, options, numbers of crashes and of     *)
(* failed calls, and whatever forks are made meanwhile.                    *)
(***************************************************************************)
EXTENDS DurabilityProofs

-----------------------------------------------------------------------------
(* The log                                                                 *)

\* Where a replay would meet a record, and the places before the first payload
\* that is lost.
Place == {p \in Replay : ~TornAt(p)}
Clean(p) == \A q \in Place : Missing(q) => Before(p, q)

\* The log is in order.  In Always mode a number is taken again after a failed
\* fsync, whose record stays; in the relaxed modes no number is.
LogOrder ==
    \A p, q \in Place : Before(p, q) =>
        /\ RecAt(p).seq <= RecAt(q).seq
        /\ opts.sync = "relaxed" => RecAt(p).seq < RecAt(q).seq

\* The floor moves with what is flushed.
LogAbove == \A p \in Place : RecAt(p).seq > manifest.flushed

\* What is in flight is the last record, and nothing lies above it.
LogBelow ==
    /\ phase = "up" => \A p \in Place :
         /\ RecAt(p).seq <= visible + 1
         /\ opts.sync = "relaxed" /\ (inflight = <<>> \/ p # <<wal, Len(wals[wal].recs)>>) =>
              RecAt(p).seq <= visible
    /\ inflight # <<>> => /\ wals[wal].recs # <<>>
                          /\ RecAt(<<wal, Len(wals[wal].recs)>>) = inflight[1]
                          /\ inflight[1].seq = visible + 1 /\ inflight[1] \in gray
    /\ phase = "sweep" => Place = {}
    /\ phase = "opened" => wals[wal].recs = <<>> /\ ~wals[wal].torn

\* Whatever a replay would take was acknowledged, or is a batch that failed at
\* its fsync; what is neither lies behind a lost payload or is shadowed.
LogKnown ==
    \A p \in Place :
        \/ RecAt(p) \in acked \cup gray
        \/ phase # "up" /\ ~Clean(p)
        \/ phase # "up" /\ \E q \in Place :
              Before(p, q) /\ SameKey(RecAt(p), RecAt(q)) /\ Clean(q)

\* The payload of a record that points into a young file is there and fsynced.
PayloadSafe(r) ==
    r.file \in Young => r.pos \in 1 .. vlogs[r.file].synced /\ vlogs[r.file].recs[r.pos].key = r.key

\* A record's pointer leads into a file the store has adopted and will not
\* unlink, above no retirement, and while the store is up to its own payload.
PointsRight(p) ==
    LET r == RecAt(p)
    IN  /\ r.file \in Adopted /\ r.file \notin obsolete
        /\ phase = "opened" => r.file # head
        /\ \A t \in manifest.retired : r.file = t.id => r.seq <= t.at
        /\ phase = "up" => /\ r.pos \in 1 .. Len(vlogs[r.file].recs)
                           /\ vlogs[r.file].recs[r.pos].key = r.key
                           /\ vlogs[r.file].recs[r.pos].val = r.val
                           /\ r.file # head => r.seq <= visible
        /\ opts.sync = "always" => PayloadSafe(r)
Pointers == \A p \in Place : RecAt(p).file # Inline => PointsRight(p)

\* The place a replay that takes all would keep of an internal key, and one that
\* no crash can take away: everything up to it is fsynced.
Latest(p) == \A q \in Place : Before(p, q) => ~SameKey(RecAt(p), RecAt(q))
Safe(p) == \A q \in Place : Before(p, q) \/ (q[2] <= wals[q[1]].synced /\ PayloadSafe(RecAt(q)))

\* What the tables hold, what was promised and what readers see.
Contained ==
    /\ \A r \in Flushed : r.seq <= manifest.flushed
    /\ Flushed \subseteq acked /\ promised \subseteq acked
    /\ opts.sync = "always" => promised = acked
    /\ Serving => /\ acked = Contents /\ manifest.flushed <= visible
                  /\ \A r \in acked : r.seq <= visible
                  /\ visible <= manifest.flushed \/ \E r \in acked : visible <= r.seq

\* A record of a frozen memtable is in that memtable's WAL, or in one between it
\* and the next older memtable's, and what newer WALs hold is above it; a record
\* of the active memtable is in a WAL newer than all of these.
FrozenAt(r, j, p) ==
    /\ RecAt(p) = r /\ Latest(p) /\ p[1] <= imms[j].wal
    /\ \A l \in DOMAIN imms : l > j => imms[l].wal < p[1]
    /\ \A q \in Place : q[1] > imms[j].wal => RecAt(q).seq > r.seq
FrozenLogged == \A j \in DOMAIN imms : \A r \in imms[j].recs : \E p \in Place : FrozenAt(r, j, p)
MemAt(r, p) == RecAt(p) = r /\ Latest(p) /\ \A l \in DOMAIN imms : imms[l].wal < p[1]
MemLogged == \A r \in mem : \E p \in Place : MemAt(r, p)

\* While recovery flushes, one memtable stands for the whole log.
OpenedLogged ==
    phase = "opened" /\ imms # <<>> =>
      /\ Len(imms) = 1 /\ \A p \in Place : p[1] <= imms[1].wal
      /\ \A id \in DOMAIN wals : id <= imms[1].wal \/ id = wal

\* What was promised and is not in a table yet is where no crash can take it.
Durable == \A r \in promised \ Flushed : \E p \in Place : RecAt(p) = r /\ Latest(p) /\ Safe(p)

\* In the relaxed modes, what a crash has taken lies above all that is left.
Lost ==
    opts.sync = "relaxed" /\ ~Serving => \A r \in acked \ Flushed :
        \/ \E p \in Place : RecAt(p) = r
        \/ r.seq > manifest.flushed /\ \A q \in Place : RecAt(q).seq < r.seq

\* A pin lies below something that was promised.
PinsCovered ==
    \A s \in manifest.pins \cup pinning : s <= manifest.flushed \/ \E r \in promised : s <= r.seq

\* Without a failed call only the newest WAL is torn, or a torn one lies behind
\* a lost payload, where no replay gets to see it.
Torn ==
    faults = 0 =>
      /\ Serving => \A id \in DOMAIN wals : id <= wal
      /\ phase \in {"up", "sweep"} => \A id \in DOMAIN wals : ~wals[id].torn
      /\ \A id \in ReplayIds : wals[id].torn =>
           \/ \A b \in DOMAIN wals : b <= id
           \/ \E q \in Place : q[1] <= id /\ Missing(q)

\* The inductive invariant.
LogInv ==
    /\ LogOrder /\ LogAbove /\ LogBelow /\ LogKnown /\ Pointers /\ Contained
    /\ FrozenLogged /\ MemLogged /\ OpenedLogged /\ Durable /\ Lost /\ PinsCovered /\ Torn

-----------------------------------------------------------------------------
(* Places in the log                                                       *)

\* Places are in order.
LEMMA BeforeOrder ==
  /\ \A p, q \in Nat \X Nat : Before(p, q) \/ Before(q, p) \/ p = q
  /\ \A p, q \in Nat \X Nat : Before(p, q) => ~Before(q, p) /\ p # q
  /\ \A p, q, s \in Nat \X Nat : Before(p, q) /\ Before(q, s) => Before(p, s)
  /\ \A p, q, s \in Nat \X Nat : Before(p, q) /\ ~Before(s, q) => Before(p, s)
  /\ \A p, q, s \in Nat \X Nat : ~Before(q, p) /\ Before(q, s) => Before(p, s)
<1>1. ASSUME NEW p \in Nat \X Nat, NEW q \in Nat \X Nat
      PROVE  /\ Before(p, q) \/ Before(q, p) \/ p = q
             /\ Before(p, q) => ~Before(q, p) /\ p # q
  <2>1. p = <<p[1], p[2]>> /\ q = <<q[1], q[2]>> /\ p[1] \in Nat /\ p[2] \in Nat /\ q[1] \in Nat /\ q[2] \in Nat
    OBVIOUS
  <2>2. (p[1] = q[1] /\ p[2] = q[2]) => p = q
    BY <2>1
  <2> QED  BY <2>1, <2>2 DEF Before
<1>2. ASSUME NEW p \in Nat \X Nat, NEW q \in Nat \X Nat, NEW s \in Nat \X Nat
      PROVE  /\ Before(p, q) /\ Before(q, s) => Before(p, s)
             /\ Before(p, q) /\ ~Before(s, q) => Before(p, s)
             /\ ~Before(q, p) /\ Before(q, s) => Before(p, s)
  <2>1. /\ p[1] \in Nat /\ p[2] \in Nat /\ q[1] \in Nat /\ q[2] \in Nat /\ s[1] \in Nat /\ s[2] \in Nat
    OBVIOUS
  <2> QED  BY <2>1 DEF Before
<1> QED  BY <1>1, <1>2

\* The places of any set of WALs, from a floor up.
PlacesOf(ws, floor) ==
    {p \in UNION {{<<id, i>> : i \in 1 .. Len(ws[id].recs) + (IF ws[id].torn THEN 1 ELSE 0)} :
                    id \in {id \in DOMAIN ws : id >= floor}} :
        ~(p[2] > Len(ws[p[1]].recs))}

\* A place is a record's number in a WAL from the floor up.
LEMMA PlacesOfIs ==
  ASSUME NEW ws, FileTypes(ws, WalFile), NEW floor \in Nat
  PROVE  /\ \A p \in PlacesOf(ws, floor) :
              /\ p \in Nat \X Nat /\ p[1] \in Nat /\ p[2] \in Nat /\ p[1] \in DOMAIN ws /\ floor <= p[1]
              /\ p[2] \in 1 .. Len(ws[p[1]].recs) /\ ws[p[1]].recs[p[2]] \in Batch
              /\ ws[p[1]].recs[p[2]].seq \in 1 .. MaxSeq
         /\ \A id \in DOMAIN ws : floor <= id => \A i \in 1 .. Len(ws[id].recs) :
              /\ <<id, i>> \in PlacesOf(ws, floor) /\ <<id, i>>[1] = id /\ <<id, i>>[2] = i
         /\ \A id \in DOMAIN ws : /\ id \in Nat /\ Len(ws[id].recs) \in Nat
                                  /\ DOMAIN ws[id].recs = 1 .. Len(ws[id].recs)
<1>1. ASSUME NEW id \in DOMAIN ws
      PROVE  /\ id \in Nat /\ ws[id].recs \in Seq(Batch) /\ Len(ws[id].recs) \in Nat
             /\ ws[id].torn \in BOOLEAN /\ DOMAIN ws[id].recs = 1 .. Len(ws[id].recs)
             /\ \A i \in 1 .. Len(ws[id].recs) : ws[id].recs[i] \in Batch
  <2>1. ws[id] \in WalFile /\ id \in Nat
    BY DEF FileTypes
  <2>2. ws[id].recs \in Seq(Batch) /\ ws[id].torn \in BOOLEAN
    BY <2>1 DEF WalFile
  <2> QED  BY <2>1, <2>2, LenProperties, ElementOfSeq
<1>2. ASSUME NEW p \in PlacesOf(ws, floor)
      PROVE  /\ p \in Nat \X Nat /\ p[1] \in Nat /\ p[2] \in Nat /\ p[1] \in DOMAIN ws /\ floor <= p[1]
             /\ p[2] \in 1 .. Len(ws[p[1]].recs) /\ ws[p[1]].recs[p[2]] \in Batch
             /\ ws[p[1]].recs[p[2]].seq \in 1 .. MaxSeq
  <2>1. PICK id \in {id \in DOMAIN ws : id >= floor} :
          p \in {<<id, i>> : i \in 1 .. Len(ws[id].recs) + (IF ws[id].torn THEN 1 ELSE 0)}
    BY DEF PlacesOf
  <2>2. PICK i \in 1 .. Len(ws[id].recs) + (IF ws[id].torn THEN 1 ELSE 0) : p = <<id, i>>
    BY <2>1
  <2>3. p[1] = id /\ p[2] = i /\ id \in DOMAIN ws /\ id >= floor
    BY <2>2
  <2>4. ~(p[2] > Len(ws[p[1]].recs))
    BY DEF PlacesOf
  <2>5. id \in Nat /\ Len(ws[id].recs) \in Nat
    BY <1>1, <2>3
  <2>6. i \in Nat \ {0}
    <3>1. CASE ws[id].torn
      BY <2>5, <3>1
    <3>2. CASE ~ws[id].torn
      BY <2>5, <3>2
    <3> QED  BY <3>1, <3>2
  <2>7. i \in 1 .. Len(ws[id].recs)
    BY <2>3, <2>4, <2>5, <2>6
  <2>8. ws[id].recs[i] \in Batch /\ ws[id].recs[i].seq \in 1 .. MaxSeq
    BY <1>1, <2>3, <2>7 DEF Batch
  <2>9. p \in Nat \X Nat
    BY <2>2, <2>5, <2>6
  <2> QED  BY <2>3, <2>5, <2>6, <2>7, <2>8, <2>9
<1>3. ASSUME NEW id \in DOMAIN ws, floor <= id, NEW i \in 1 .. Len(ws[id].recs)
      PROVE  /\ <<id, i>> \in PlacesOf(ws, floor) /\ <<id, i>>[1] = id /\ <<id, i>>[2] = i
  <2>1. id \in Nat /\ Len(ws[id].recs) \in Nat /\ ws[id].torn \in BOOLEAN
    BY <1>1
  <2>2. i \in 1 .. Len(ws[id].recs) + (IF ws[id].torn THEN 1 ELSE 0)
    <3>1. CASE ws[id].torn
      BY <2>1, <3>1
    <3>2. CASE ~ws[id].torn
      BY <2>1, <3>2
    <3> QED  BY <3>1, <3>2
  <2>3. id >= floor /\ ~(i > Len(ws[id].recs))
    BY <1>3, <2>1
  <2> DEFINE p == <<id, i>>
  <2>4. p[1] = id /\ p[2] = i
    OBVIOUS
  <2>5. p \in {<<id, j>> : j \in 1 .. Len(ws[id].recs) + (IF ws[id].torn THEN 1 ELSE 0)}
    BY <2>2
  <2> HIDE DEF p
  <2>6. p \in PlacesOf(ws, floor)
    <3> DEFINE M(d) == {<<d, j>> : j \in 1 .. Len(ws[d].recs) + (IF ws[d].torn THEN 1 ELSE 0)}
               D == {d \in DOMAIN ws : d >= floor}
    <3>1. p \in M(id) /\ id \in D
      BY <2>3, <2>5
    <3>2. ~(p[2] > Len(ws[p[1]].recs))
      BY <2>3, <2>4
    <3> HIDE DEF M, D
    <3>3. p \in UNION {M(d) : d \in D}
      BY <3>1
    <3>4. PlacesOf(ws, floor) = {q \in UNION {M(d) : d \in D} : ~(q[2] > Len(ws[q[1]].recs))}
      BY DEF PlacesOf, M, D
    <3> QED  BY <3>2, <3>3, <3>4
  <2> QED  BY <2>4, <2>6 DEF p
<1> QED  BY <1>1, <1>2, <1>3

\* A record at a place in this state, or in the next one.
PlaceTyped(p) ==
    /\ p \in Nat \X Nat /\ p[1] \in Nat /\ p[2] \in Nat /\ p[1] \in DOMAIN wals /\ manifest.floor <= p[1]
    /\ p[2] \in 1 .. Len(wals[p[1]].recs) /\ RecAt(p) \in Batch /\ RecAt(p).seq \in 1 .. MaxSeq
PlaceHas(id) ==
    /\ manifest.floor <= id => \A i \in 1 .. Len(wals[id].recs) :
          <<id, i>> \in Place /\ <<id, i>>[1] = id /\ <<id, i>>[2] = i
    /\ id \in Nat /\ Len(wals[id].recs) \in Nat /\ DOMAIN wals[id].recs = 1 .. Len(wals[id].recs)

\* Every place has its type, and every record from the floor up its place.
LEMMA PlacesTyped ==
  ASSUME FilesInv
  PROVE  (\A p \in Place : PlaceTyped(p)) /\ (\A id \in DOMAIN wals : PlaceHas(id))
<1>1. FileTypes(wals, WalFile) /\ manifest.floor \in Nat
  BY DEF FilesInv, DiskTypes, ManifestData
<1>2. Place = PlacesOf(wals, manifest.floor)
  BY DEF Place, Replay, Marks, ReplayIds, TornAt, PlacesOf
<1> QED  BY <1>1, <1>2, PlacesOfIs DEF PlaceTyped, PlaceHas, RecAt

\* The same of the next state.
LEMMA NextPlacesTyped ==
  ASSUME FilesInv'
  PROVE  (\A p \in Place' : PlaceTyped(p)') /\ (\A id \in DOMAIN wals' : PlaceHas(id)')
<1>1. FileTypes(wals', WalFile) /\ manifest'.floor \in Nat
  BY DEF FilesInv, DiskTypes, ManifestData
<1>2. Place' = PlacesOf(wals', manifest'.floor)
  BY DEF Place, Replay, Marks, ReplayIds, TornAt, PlacesOf
<1> QED  BY <1>1, <1>2, PlacesOfIs DEF PlaceTyped, PlaceHas, RecAt

-----------------------------------------------------------------------------
(* Steps that write no record                                              *)

\* No place is new, and those that are left hold what they held.
Shrinks == Place' \subseteq Place /\ \A p \in Place' : RecAt(p)' = RecAt(p)

\* The files that the places left point into stay young or old, and keep what
\* is fsynced.
FsyncedKept(f) ==
    /\ f \in Young /\ vlogs[f].synced <= vlogs'[f].synced
    /\ \A i \in 1 .. vlogs[f].synced : vlogs'[f].recs[i] = vlogs[f].recs[i]
YoungKept ==
    \A p \in Place' : RecAt(p).file # Inline /\ RecAt(p).file \in Young' => FsyncedKept(RecAt(p).file)
FsyncsKept == \A p \in Place' : wals[p[1]].synced <= wals'[p[1]].synced

\* The files a manifest calls young are there.
LEMMA YoungFiles ==
  ASSUME FilesInv
  PROVE  /\ Young \subseteq DOMAIN vlogs /\ Adopted \subseteq DOMAIN vlogs /\ Inline \notin Adopted
         /\ \A f \in DOMAIN vlogs : f \in Nat /\ vlogs[f].synced \in Nat /\ vlogs[f].synced <= Len(vlogs[f].recs)
                                    /\ Len(vlogs[f].recs) \in Nat /\ DOMAIN vlogs[f].recs = 1 .. Len(vlogs[f].recs)
                                    /\ vlogs[f].recs \in Seq(Payload)
<1>1. ASSUME NEW f \in DOMAIN vlogs
      PROVE  /\ f \in Nat /\ vlogs[f].synced \in Nat /\ vlogs[f].synced <= Len(vlogs[f].recs)
             /\ Len(vlogs[f].recs) \in Nat /\ DOMAIN vlogs[f].recs = 1 .. Len(vlogs[f].recs)
             /\ vlogs[f].recs \in Seq(Payload)
  <2>1. vlogs[f] \in VlogFile /\ f \in Nat /\ vlogs[f].synced <= Len(vlogs[f].recs)
    BY DEF FilesInv, DiskTypes, FileTypes
  <2>2. vlogs[f].recs \in Seq(Payload) /\ vlogs[f].synced \in Nat
    BY <2>1 DEF VlogFile
  <2> QED  BY <2>1, <2>2, LenProperties
<1>2. Young \subseteq DOMAIN vlogs /\ Adopted \subseteq DOMAIN vlogs /\ Inline \notin Adopted
  BY DEF Young, Adopted, FilesInv, ValueFiles
<1> QED  BY <1>1, <1>2

\* What was safe stays safe, and the latest of an internal key the latest.
LEMMA ShrinksKeeps ==
  ASSUME FilesInv, FilesInv', Shrinks, YoungKept
  PROVE  /\ \A p \in Place' : PayloadSafe(RecAt(p)) => PayloadSafe(RecAt(p))'
         /\ FsyncsKept => \A p \in Place' : Safe(p) => Safe(p)'
         /\ \A p \in Place' : Latest(p) => Latest(p)'
<1>1. ASSUME NEW p \in Place', PayloadSafe(RecAt(p))
      PROVE  PayloadSafe(RecAt(p))'
  <2> DEFINE r == RecAt(p)
  <2>1. RecAt(p)' = r
    BY DEF Shrinks
  <2> HIDE DEF r
  <2>2. SUFFICES ASSUME r.file \in Young'
                 PROVE  r.pos \in 1 .. vlogs'[r.file].synced /\ vlogs'[r.file].recs[r.pos].key = r.key
    BY <2>1 DEF PayloadSafe
  <2>3. r.file # Inline
    BY <2>2 DEF Young, FilesInv, ValueFiles
  <2>4. FsyncedKept(r.file)
    BY <2>2, <2>3 DEF YoungKept, r
  <2>5. r.pos \in 1 .. vlogs[r.file].synced /\ vlogs[r.file].recs[r.pos].key = r.key
    BY <1>1, <2>4 DEF PayloadSafe, r, FsyncedKept
  <2>6. vlogs[r.file].synced \in Nat /\ vlogs'[r.file].synced \in Nat
    <3>1. r.file \in DOMAIN vlogs /\ r.file \in DOMAIN vlogs'
      BY <2>2, <2>4 DEF FsyncedKept, Young
    <3> QED  BY <3>1 DEF FilesInv, DiskTypes, FileTypes, VlogFile
  <2> QED  BY <2>4, <2>5, <2>6 DEF FsyncedKept
<1>2. ASSUME FsyncsKept, NEW p \in Place', Safe(p), NEW q \in Place'
      PROVE  Before(p, q) \/ (q[2] <= wals'[q[1]].synced /\ PayloadSafe(RecAt(q))')
  <2>1. q \in Place
    BY DEF Shrinks
  <2>2. CASE Before(p, q)
    BY <2>2
  <2>3. CASE ~Before(p, q)
    <3>1. q[2] <= wals[q[1]].synced /\ PayloadSafe(RecAt(q))
      BY <1>2, <2>1, <2>3 DEF Safe
    <3>2. wals[q[1]].synced <= wals'[q[1]].synced
      BY <1>2 DEF FsyncsKept
    <3>3. PlaceTyped(q) /\ PlaceTyped(q)'
      BY <2>1, PlacesTyped, NextPlacesTyped
    <3>4. wals[q[1]].synced \in Nat /\ wals'[q[1]].synced \in Nat /\ q[2] \in Nat
      BY <3>3 DEF PlaceTyped, FilesInv, DiskTypes, FileTypes, WalFile
    <3> QED  BY <1>1, <3>1, <3>2, <3>4
  <2> QED  BY <2>2, <2>3
<1>3. ASSUME NEW p \in Place', Latest(p), NEW q \in Place', Before(p, q)
      PROVE  ~SameKey(RecAt(p)', RecAt(q)')
  BY <1>3 DEF Latest, Shrinks
<1>4. FsyncsKept => \A p \in Place' : Safe(p) => Safe(p)'
  <2> SUFFICES ASSUME FsyncsKept, NEW p \in Place', Safe(p) PROVE Safe(p)'
    OBVIOUS
  <2> QED  BY <1>2 DEF Safe, Before
<1>5. \A p \in Place' : Latest(p) => Latest(p)'
  <2> SUFFICES ASSUME NEW p \in Place', Latest(p) PROVE Latest(p)'
    OBVIOUS
  <2> QED  BY <1>3 DEF Latest, Before, SameKey
<1> QED  BY <1>1, <1>4, <1>5

\* The order of what is left.
LEMMA ShrinksOrder ==
  ASSUME FilesInv, FilesInv', Shrinks, LogOrder, opts' = opts
  PROVE  LogOrder'
<1>1. ASSUME NEW p \in Place', NEW q \in Place', Before(p, q)
      PROVE  /\ RecAt(p)'.seq <= RecAt(q)'.seq
             /\ opts'.sync = "relaxed" => RecAt(p)'.seq < RecAt(q)'.seq
  BY <1>1 DEF LogOrder, Shrinks
<1> QED  BY <1>1 DEF LogOrder, Before

\* What a step that keeps the value log as it is, or adds to it, says of the
\* files that records point into.
VlogsGrow ==
    /\ obsolete' = obsolete /\ manifest'.live = manifest.live /\ manifest'.retired = manifest.retired
    /\ manifest'.head = manifest.head /\ DOMAIN vlogs \subseteq DOMAIN vlogs'
    /\ \A f \in DOMAIN vlogs :
         /\ vlogs[f].synced <= vlogs'[f].synced /\ Len(vlogs[f].recs) <= Len(vlogs'[f].recs)
         /\ \A i \in 1 .. Len(vlogs[f].recs) : vlogs'[f].recs[i] = vlogs[f].recs[i]

\* A record's pointer is as good as it was.
PointsKept(p) ==
    LET r == RecAt(p)
    IN  r.file # Inline =>
          /\ r.file \in Adopted' /\ r.file \notin obsolete'
          /\ \A t \in manifest'.retired : r.file = t.id => r.seq <= t.at
          /\ Len(vlogs[r.file].recs) <= Len(vlogs'[r.file].recs)
          /\ \A i \in 1 .. Len(vlogs[r.file].recs) : vlogs'[r.file].recs[i] = vlogs[r.file].recs[i]
          /\ r.file # head' => r.seq <= visible'

\* Pointers of a store that stays up.
LEMMA UpPointers ==
  ASSUME FilesInv, FilesInv', Shrinks, Pointers, phase = "up", phase' = "up", opts' = opts,
         YoungKept, \A p \in Place' : PointsKept(p)
  PROVE  Pointers'
<1>1. ASSUME NEW p \in Place', RecAt(p)'.file # Inline
      PROVE  PointsRight(p)'
  <2> DEFINE r == RecAt(p)
  <2>1. RecAt(p)' = r /\ p \in Place
    BY DEF Shrinks
  <2>2. PointsRight(p) /\ PointsKept(p)
    BY <1>1, <2>1 DEF Pointers
  <2>3. opts.sync = "always" => PayloadSafe(RecAt(p))'
    BY <2>2, ShrinksKeeps DEF PointsRight
  <2>4. r.file \in DOMAIN vlogs /\ r.file \in DOMAIN vlogs'
    BY <1>1, <2>1, <2>2, YoungFiles DEF PointsKept, PointsRight, Adopted, FilesInv, ValueFiles, Young
  <2>5. Len(vlogs[r.file].recs) \in Nat /\ Len(vlogs'[r.file].recs) \in Nat
    <3>1. vlogs[r.file].recs \in Seq(Payload) /\ vlogs'[r.file].recs \in Seq(Payload)
      BY <2>4 DEF FilesInv, DiskTypes, FileTypes, VlogFile
    <3> QED  BY <3>1, LenProperties
  <2> HIDE DEF r
  <2>6. /\ r.pos \in 1 .. Len(vlogs[r.file].recs)
        /\ vlogs[r.file].recs[r.pos].key = r.key /\ vlogs[r.file].recs[r.pos].val = r.val
    BY <2>2 DEF PointsRight, r
  <2>7. /\ r.file \in Adopted' /\ r.file \notin obsolete'
        /\ \A t \in manifest'.retired : r.file = t.id => r.seq <= t.at
        /\ Len(vlogs[r.file].recs) <= Len(vlogs'[r.file].recs)
        /\ \A i \in 1 .. Len(vlogs[r.file].recs) : vlogs'[r.file].recs[i] = vlogs[r.file].recs[i]
        /\ r.file # head' => r.seq <= visible'
    BY <1>1, <2>1, <2>2 DEF PointsKept, r
  <2>8. /\ r.pos \in 1 .. Len(vlogs'[r.file].recs) /\ vlogs'[r.file].recs[r.pos] = vlogs[r.file].recs[r.pos]
    BY <2>5, <2>6, <2>7
  <2> QED  BY <2>1, <2>3, <2>6, <2>7, <2>8 DEF PointsRight, PayloadSafe
<1> QED  BY <1>1 DEF Pointers, PointsRight, RecAt

\* A value log that only grows keeps every pointer as good as it was.
LEMMA VlogsGrowKeep ==
  ASSUME FilesInv, FilesInv', Shrinks, Pointers, phase = "up", VlogsGrow,
         \/ head' = head /\ visible <= visible'
         \/ \A p \in Place' : RecAt(p).seq <= visible'
  PROVE  YoungKept /\ \A p \in Place' : PointsKept(p)
<1>1. ASSUME NEW p \in Place', RecAt(p).file # Inline
      PROVE  RecAt(p).file \in DOMAIN vlogs /\ PointsRight(p) /\ RecAt(p).seq \in Nat
  <2>1. PointsRight(p) /\ PlaceTyped(p)
    BY <1>1, PlacesTyped DEF Pointers, Shrinks
  <2> QED  BY <2>1, YoungFiles DEF PointsRight, PlaceTyped
<1>2. ASSUME NEW f \in DOMAIN vlogs
      PROVE  /\ f \in Young' <=> f \in Young
             /\ f \in Adopted => f \in Adopted'
  BY DEF VlogsGrow, Young, Adopted
<1>3. YoungKept
  <2>1. ASSUME NEW p \in Place', RecAt(p).file # Inline, RecAt(p).file \in Young'
        PROVE  FsyncedKept(RecAt(p).file)
    <3> DEFINE f == RecAt(p).file
    <3>1. f \in DOMAIN vlogs /\ f \in Young
      BY <1>1, <1>2, <2>1
    <3> HIDE DEF f
    <3>2. vlogs[f].synced \in Nat /\ vlogs[f].synced <= Len(vlogs[f].recs) /\ Len(vlogs[f].recs) \in Nat
      BY <3>1, YoungFiles
    <3>3. FsyncedKept(f)
      BY <3>1, <3>2 DEF FsyncedKept, VlogsGrow
    <3> QED  BY <3>3 DEF f
  <2> QED  BY <2>1 DEF YoungKept
<1>4. ASSUME NEW p \in Place' PROVE PointsKept(p)
  <2> DEFINE r == RecAt(p)
  <2>1. SUFFICES ASSUME r.file # Inline
                 PROVE  /\ r.file \in Adopted' /\ r.file \notin obsolete'
                        /\ \A t \in manifest'.retired : r.file = t.id => r.seq <= t.at
                        /\ Len(vlogs[r.file].recs) <= Len(vlogs'[r.file].recs)
                        /\ \A i \in 1 .. Len(vlogs[r.file].recs) : vlogs'[r.file].recs[i] = vlogs[r.file].recs[i]
                        /\ r.file # head' => r.seq <= visible'
    BY DEF PointsKept
  <2>2. r.file \in DOMAIN vlogs /\ PointsRight(p) /\ r.seq \in Nat
    BY <1>1, <2>1
  <2>3. /\ r.file \in Adopted /\ r.file \notin obsolete
        /\ \A t \in manifest.retired : r.file = t.id => r.seq <= t.at
        /\ r.file # head => r.seq <= visible
    BY <2>2 DEF PointsRight
  <2>4. visible \in Nat /\ visible' \in Nat
    BY OptionsTyped DEF FilesInv, MemoryTypes
  <2>5. r.file # head' => r.seq <= visible'
    BY <2>2, <2>3, <2>4
  <2> QED  BY <1>2, <2>2, <2>3, <2>5 DEF VlogsGrow
<1> QED  BY <1>3, <1>4

SamePlaces == Place' = Place /\ \A p \in Place : RecAt(p)' = RecAt(p)

\* WALs that keep their records beside new, empty ones.
WalsGrow ==
    /\ manifest'.floor = manifest.floor /\ DOMAIN wals \subseteq DOMAIN wals'
    /\ \A id \in DOMAIN wals :
         /\ wals'[id].recs = wals[id].recs /\ wals'[id].torn = wals[id].torn
         /\ wals[id].synced <= wals'[id].synced
    /\ \A id \in DOMAIN wals' : id \notin DOMAIN wals => wals'[id].recs = <<>> /\ ~wals'[id].torn

\* WALs that keep their records, beside empty ones, keep the places.
LEMMA SameRecords ==
  ASSUME FilesInv, FilesInv', manifest'.floor = manifest.floor, DOMAIN wals \subseteq DOMAIN wals',
         \A id \in DOMAIN wals : wals'[id].recs = wals[id].recs,
         \A id \in DOMAIN wals' : id \notin DOMAIN wals => wals'[id].recs = <<>>
  PROVE  SamePlaces /\ Shrinks
<1>1. ASSUME NEW p \in Place PROVE p \in Place' /\ RecAt(p)' = RecAt(p)
  <2>1. PlaceTyped(p)
    BY PlacesTyped
  <2>2. p = <<p[1], p[2]>> /\ p[1] \in DOMAIN wals' /\ manifest'.floor <= p[1]
    BY <2>1 DEF PlaceTyped
  <2>3. wals'[p[1]].recs = wals[p[1]].recs
    BY <2>1 DEF PlaceTyped
  <2>4. p[2] \in 1 .. Len(wals'[p[1]].recs)
    BY <2>1, <2>3 DEF PlaceTyped
  <2>5. <<p[1], p[2]>> \in Place'
    BY <2>2, <2>4, NextPlacesTyped DEF PlaceHas
  <2> QED  BY <2>2, <2>3, <2>5 DEF RecAt
<1>2. ASSUME NEW p \in Place' PROVE p \in Place
  <2>1. PlaceTyped(p)'
    BY NextPlacesTyped
  <2>2. p = <<p[1], p[2]>> /\ p[1] \in DOMAIN wals' /\ manifest.floor <= p[1] /\ p[2] \in 1 .. Len(wals'[p[1]].recs)
    BY <2>1 DEF PlaceTyped
  <2>3. p[1] \in DOMAIN wals
    <3> SUFFICES ASSUME p[1] \notin DOMAIN wals PROVE FALSE
      OBVIOUS
    <3>1. Len(wals'[p[1]].recs) = 0
      BY <2>2, EmptyFiles
    <3> QED  BY <2>2, <3>1
  <2>4. p[2] \in 1 .. Len(wals[p[1]].recs)
    BY <2>2, <2>3
  <2>5. <<p[1], p[2]>> \in Place
    BY <2>2, <2>3, <2>4, PlacesTyped DEF PlaceHas
  <2> QED  BY <2>2, <2>5
<1> QED  BY <1>1, <1>2 DEF SamePlaces, Shrinks

\* The store stays up and shows what it showed; its records stay where they are.
Calm ==
    /\ SamePlaces /\ Shrinks /\ phase = "up" /\ phase' = "up" /\ opts' = opts
    /\ manifest'.flushed = manifest.flushed /\ manifest'.runs = manifest.runs
    /\ visible' = visible /\ acked' = acked /\ gray' = gray

\* What a step that keeps the places and the history keeps.
LEMMA CalmKept ==
  ASSUME FilesInv, FilesInv', LogInv, Calm
  PROVE  LogOrder' /\ LogAbove' /\ LogKnown' /\ OpenedLogged' /\ Lost' /\ Flushed' = Flushed
<1>1. LogOrder'
  BY ShrinksOrder DEF LogInv, Calm
<1>2. LogAbove'
  <2>1. \A p \in Place' : RecAt(p)'.seq > manifest'.flushed
    BY DEF LogInv, LogAbove, Calm, SamePlaces
  <2> QED  BY <2>1 DEF LogAbove
<1>3. LogKnown'
  <2>1. ASSUME NEW p \in Place' PROVE RecAt(p)' \in acked' \cup gray'
    BY DEF LogInv, LogKnown, Calm, SamePlaces
  <2> QED  BY <2>1 DEF LogKnown
<1>4. OpenedLogged' /\ Lost'
  BY DEF Calm, OpenedLogged, Lost, Serving
<1>5. Flushed' = Flushed
  BY DEF Calm, Flushed
<1> QED  BY <1>1, <1>2, <1>3, <1>4, <1>5

\* A snapshot held in the next state.
PinsKept ==
    \A s \in manifest'.pins \cup pinning' : s \in manifest.pins \cup pinning \/ (s = visible /\ promised' = acked)

\* The pins stay covered where no promise is taken back.
LEMMA CalmPins ==
  ASSUME FilesInv, FilesInv', LogInv, Calm, PinsKept, promised' = promised \/ promised' = acked
  PROVE  PinsCovered'
<1>1. ASSUME NEW s \in manifest'.pins \cup pinning'
      PROVE  s <= manifest'.flushed \/ \E r \in promised' : s <= r.seq
  <2>1. CASE s \in manifest.pins \cup pinning
    BY <2>1 DEF LogInv, PinsCovered, Contained, Calm
  <2>2. CASE s = visible /\ promised' = acked
    BY <2>2 DEF LogInv, Contained, Calm, Serving
  <2> QED  BY <2>1, <2>2 DEF PinsKept
<1> QED  BY <1>1 DEF PinsCovered

\* What the memtables hold and the log has.
LEMMA CalmMemtables ==
  ASSUME FilesInv, FilesInv', LogInv, Calm, UNCHANGED <<mem, imms>>
  PROVE  FrozenLogged' /\ MemLogged'
<1>1. ASSUME NEW j \in DOMAIN imms', NEW r \in imms'[j].recs
      PROVE  \E p \in Place' : FrozenAt(r, j, p)'
  <2>1. PICK p \in Place : FrozenAt(r, j, p)
    BY DEF LogInv, FrozenLogged
  <2>2. FrozenAt(r, j, p)'
    BY <2>1 DEF FrozenAt, Calm, SamePlaces, Latest
  <2> QED  BY <2>2 DEF Calm, SamePlaces
<1>2. ASSUME NEW r \in mem'
      PROVE  \E p \in Place' : MemAt(r, p)'
  <2>1. PICK p \in Place : MemAt(r, p)
    BY DEF LogInv, MemLogged
  <2>2. MemAt(r, p)'
    BY <2>1 DEF MemAt, Calm, SamePlaces, Latest
  <2> QED  BY <2>2 DEF Calm, SamePlaces
<1> QED  BY <1>1, <1>2 DEF FrozenLogged, MemLogged, FrozenAt, MemAt, Latest, RecAt, SameKey, Before

\* What was promised before the step keeps its safe place.
LEMMA DurableKept ==
  ASSUME FilesInv, FilesInv', LogInv, SamePlaces, Shrinks, YoungKept, FsyncsKept, NEW r \in promised \ Flushed
  PROVE  \E p \in Place' : RecAt(p)' = r /\ Latest(p)' /\ Safe(p)'
<1>1. PICK p \in Place : RecAt(p) = r /\ Latest(p) /\ Safe(p)
  BY DEF LogInv, Durable
<1>2. p \in Place' /\ RecAt(p)' = r
  BY <1>1 DEF SamePlaces
<1>3. Latest(p)' /\ Safe(p)'
  BY <1>1, <1>2, ShrinksKeeps
<1> QED  BY <1>2, <1>3

\* Every record in a memtable has a place that is the latest of its internal key.
LEMMA UnflushedLogged ==
  ASSUME FilesInv, LogInv, NEW r \in Contents \ Flushed
  PROVE  \E p \in Place : RecAt(p) = r /\ Latest(p)
<1>1. CASE r \in mem
  BY <1>1 DEF LogInv, MemLogged, MemAt
<1>2. CASE r \notin mem
  <2> DEFINE F == {m.recs : m \in Range(imms)}
  <2>0. Contents = Flushed \cup mem \cup UNION F
    BY DEF Contents
  <2>1. r \in UNION F
    <3> HIDE DEF F
    <3> QED  BY <1>2, <2>0
  <2>2. PICK m \in Range(imms) : r \in m.recs
    BY <2>1
  <2>3. PICK j \in DOMAIN imms : imms[j] = m
    BY <2>2 DEF Range
  <2> QED  BY <2>2, <2>3 DEF LogInv, FrozenLogged, FrozenAt
<1> QED  BY <1>1, <1>2

\* A barrier: every file is fsynced to its end.
AllSynced ==
    /\ \A id \in DOMAIN wals' : wals'[id].synced = Len(wals'[id].recs)
    /\ \A f \in DOMAIN vlogs' : vlogs'[f].synced = Len(vlogs'[f].recs)

\* After a barrier what the store shows is safe.
LEMMA BarrierDurable ==
  ASSUME FilesInv, FilesInv', LogInv, SamePlaces, Shrinks, YoungKept, Pointers', phase' = "up",
         AllSynced, Serving, NEW r \in acked \ Flushed
  PROVE  \E p \in Place' : RecAt(p)' = r /\ Latest(p)' /\ Safe(p)'
<1>1. r \in Contents
  BY DEF LogInv, Contained
<1>2. PICK p \in Place : RecAt(p) = r /\ Latest(p)
  BY <1>1, UnflushedLogged
<1>3. p \in Place' /\ RecAt(p)' = r /\ Latest(p)'
  BY <1>2, ShrinksKeeps DEF SamePlaces
<1>4. ASSUME NEW q \in Place' PROVE q[2] <= wals'[q[1]].synced /\ PayloadSafe(RecAt(q))'
  <2>1. PlaceTyped(q)'
    BY NextPlacesTyped
  <2>2. wals'[q[1]].synced = Len(wals'[q[1]].recs)
    BY <2>1 DEF PlaceTyped, AllSynced
  <2>3. q[2] <= wals'[q[1]].synced
    BY <2>1, <2>2 DEF PlaceTyped
  <2>4. ASSUME RecAt(q)'.file \in Young'
        PROVE  /\ RecAt(q)'.pos \in 1 .. vlogs'[RecAt(q)'.file].synced
               /\ vlogs'[RecAt(q)'.file].recs[RecAt(q)'.pos].key = RecAt(q)'.key
    <3>1. RecAt(q)'.file # Inline /\ RecAt(q)'.file \in DOMAIN vlogs'
      BY <2>4 DEF Young, FilesInv, ValueFiles
    <3>2. PointsRight(q)'
      BY <3>1 DEF Pointers, RecAt, PointsRight
    <3> QED  BY <3>1, <3>2 DEF PointsRight, AllSynced
  <2>5. PayloadSafe(RecAt(q))'
    BY <2>4 DEF PayloadSafe
  <2> QED  BY <2>3, <2>5
<1>5. Safe(p)'
  BY <1>4 DEF Safe, Before
<1> QED  BY <1>3, <1>5

\* What the steps that write nothing have in common: those of the GC and of
\* pins and forks but their rotation, barriers, and failures.
Quiet ==
    /\ Calm /\ UNCHANGED <<wal, mem, imms>> /\ WalsGrow /\ DOMAIN wals' = DOMAIN wals
    /\ YoungKept /\ \A p \in Place' : PointsKept(p)
    /\ inflight' = inflight \/ (inflight' = <<>> /\ opts.sync = "always")
    /\ PinsKept /\ (faults' = 0 => faults = 0)
    /\ promised' = promised \/ (promised' = acked /\ AllSynced)

\* A step that keeps the places, the memory and the history keeps LogInv.
LEMMA QuietKept ==
  ASSUME FilesInv, FilesInv', LogInv, Quiet
  PROVE  LogInv'
<1>1. LogOrder' /\ LogAbove' /\ LogKnown' /\ OpenedLogged' /\ Lost' /\ Flushed' = Flushed
  BY CalmKept DEF Quiet
<1>2. FrozenLogged' /\ MemLogged' /\ PinsCovered'
  BY CalmMemtables, CalmPins DEF Quiet
<1>3. Pointers'
  BY UpPointers DEF Quiet, Calm, LogInv
<1>4. LogBelow'
  <2>1. \A p \in Place' : RecAt(p)' = RecAt(p) /\ p \in Place
    BY DEF Quiet, Calm, SamePlaces
  <2>2. wal \in DOMAIN wals
    BY ActiveFiles DEF Quiet, Calm, Serving
  <2>3. wals'[wal'].recs = wals[wal].recs
    BY <2>2 DEF Quiet, WalsGrow
  <2>4. wal' = wal /\ visible' = visible /\ phase = "up" /\ phase' = "up" /\ opts' = opts
    BY DEF Quiet, Calm
  <2>5. CASE inflight' = inflight
    <3> DEFINE last == <<wal, Len(wals[wal].recs)>>
    <3>1. \A p \in Place : /\ RecAt(p).seq <= visible + 1
                           /\ opts.sync = "relaxed" /\ (inflight = <<>> \/ p # last) => RecAt(p).seq <= visible
      BY <2>4 DEF LogInv, LogBelow
    <3>2. \A p \in Place' : /\ RecAt(p)'.seq <= visible' + 1
                            /\ opts'.sync = "relaxed" /\ (inflight' = <<>> \/ p # <<wal', Len(wals'[wal'].recs)>>)
                                 => RecAt(p)'.seq <= visible'
      BY <2>1, <2>3, <2>4, <2>5, <3>1
    <3>3. inflight' # <<>> =>
            /\ wals'[wal'].recs # <<>> /\ RecAt(<<wal, Len(wals[wal].recs)>>) = inflight'[1]
            /\ inflight'[1].seq = visible' + 1 /\ inflight'[1] \in gray'
      BY <2>3, <2>4, <2>5 DEF LogInv, LogBelow, Quiet, Calm
    <3>4. inflight' # <<>> => RecAt(<<wal, Len(wals[wal].recs)>>)' = inflight'[1]
      BY <2>3, <2>4, <3>3 DEF RecAt
    <3> QED  BY <2>4, <3>2, <3>3, <3>4 DEF LogBelow
  <2>6. CASE inflight' = <<>> /\ opts.sync = "always"
    <3>1. \A p \in Place' : RecAt(p)'.seq <= visible' + 1
      BY <2>1, <2>4 DEF LogInv, LogBelow
    <3>2. opts'.sync # "relaxed"
      BY <2>4, <2>6
    <3> QED  BY <2>4, <2>6, <3>1, <3>2 DEF LogBelow
  <2> QED  BY <2>5, <2>6 DEF Quiet
<1>5. Contained'
  <2>1. Contents' = Contents
    BY <1>1 DEF Quiet, Contents
  <2>2. /\ \A r \in Flushed' : r.seq <= manifest'.flushed
        /\ Flushed' \subseteq acked' /\ promised' \subseteq acked'
        /\ opts'.sync = "always" => promised' = acked'
        /\ acked' = Contents' /\ manifest'.flushed <= visible'
        /\ \A r \in acked' : r.seq <= visible'
        /\ visible' <= manifest'.flushed \/ \E r \in acked' : visible' <= r.seq
    BY <1>1, <2>1 DEF Quiet, Calm, LogInv, Contained, Serving
  <2> QED  BY <2>2 DEF Contained
<1>6. Durable'
  <2>1. ASSUME NEW r \in promised' \ Flushed'
        PROVE  \E p \in Place' : RecAt(p)' = r /\ Latest(p)' /\ Safe(p)'
    <3>1. CASE promised' = promised
      <4>1. FsyncsKept
        <5>1. ASSUME NEW p \in Place' PROVE wals[p[1]].synced <= wals'[p[1]].synced
          <6>1. PlaceTyped(p)
            BY PlacesTyped DEF Quiet, Calm, Shrinks
          <6> QED  BY <6>1 DEF PlaceTyped, Quiet, WalsGrow
        <5> QED  BY <5>1 DEF FsyncsKept
      <4> QED  BY <1>1, <3>1, <4>1, DurableKept DEF Quiet, Calm
    <3>2. CASE promised' = acked /\ AllSynced
      <4>1. Serving /\ r \in acked \ Flushed
        BY <1>1, <3>2 DEF Quiet, Calm, Serving
      <4> QED  BY <1>3, <3>2, <4>1, BarrierDurable DEF Quiet, Calm
    <3> QED  BY <3>1, <3>2 DEF Quiet
  <2> QED  BY <2>1 DEF Durable, Latest, Safe, RecAt, Before
<1>7. Torn'
  <2> SUFFICES ASSUME faults' = 0
               PROVE  /\ \A id \in DOMAIN wals' : id <= wal'
                      /\ \A id \in DOMAIN wals' : ~wals'[id].torn
    BY DEF Torn, ReplayIds
  <2>1. /\ \A id \in DOMAIN wals : id <= wal
        /\ \A id \in DOMAIN wals : ~wals[id].torn
    BY DEF Quiet, Calm, LogInv, Torn, Serving
  <2> QED  BY <2>1 DEF Quiet, WalsGrow
<1> QED  BY <1>1, <1>2, <1>3, <1>4, <1>5, <1>6, <1>7 DEF LogInv

\* The manifest's files, and what it has covered.
ManifestStands ==
    /\ manifest'.floor = manifest.floor /\ manifest'.flushed = manifest.flushed
    /\ manifest'.runs = manifest.runs /\ manifest'.head = manifest.head

\* What quiet steps leave alone but for the value log and the pins.
QuietMemory ==
    /\ phase = "up" /\ UNCHANGED <<opts, phase, wal, mem, imms, visible, acked, gray>> /\ ManifestStands
    /\ inflight' = inflight \/ (inflight' = <<>> /\ opts.sync = "always")
    /\ PinsKept /\ (faults' = 0 => faults = 0)
    /\ promised' = promised \/ (promised' = acked /\ AllSynced)

\* WALs left alone keep the places.
LEMMA SameWals ==
  ASSUME FilesInv, FilesInv', wals' = wals, manifest'.floor = manifest.floor
  PROVE  WalsGrow /\ SamePlaces /\ Shrinks
<1>1. \A id \in DOMAIN wals : wals[id].synced <= wals[id].synced
  BY DEF FilesInv, DiskTypes, FileTypes, WalFile
<1> QED  BY <1>1, SameRecords DEF WalsGrow

\* A value log left alone has grown.
LEMMA SameVlogs ==
  ASSUME FilesInv, vlogs' = vlogs, obsolete' = obsolete, manifest'.live = manifest.live,
         manifest'.retired = manifest.retired, manifest'.head = manifest.head
  PROVE  VlogsGrow
<1>1. \A f \in DOMAIN vlogs : vlogs[f].synced <= vlogs[f].synced /\ Len(vlogs[f].recs) <= Len(vlogs[f].recs)
  BY YoungFiles
<1> QED  BY <1>1 DEF VlogsGrow

\* A step that only fsyncs or adds files keeps LogInv.
LEMMA GrowKept ==
  ASSUME FilesInv, FilesInv', LogInv, QuietMemory, WalsGrow, SamePlaces, Shrinks, DOMAIN wals' = DOMAIN wals,
         VlogsGrow, head' = head
  PROVE  LogInv'
<1>1. visible <= visible'
  <2>1. visible \in Nat /\ visible' = visible
    BY OptionsTyped DEF QuietMemory, FilesInv, MemoryTypes
  <2> QED  BY <2>1
<1>2. YoungKept /\ \A p \in Place' : PointsKept(p)
  BY <1>1, VlogsGrowKeep DEF LogInv, QuietMemory
<1>3. Quiet
  BY <1>2 DEF Quiet, Calm, QuietMemory, ManifestStands
<1> QED  BY <1>3, QuietKept

\* Steps that touch no file and nothing of the manifest but its pins.
LEMMA AloofKept ==
  ASSUME FilesInv, FilesInv', LogInv, QuietMemory, UNCHANGED <<wals, vlogs, obsolete, head>>,
         manifest'.live = manifest.live, manifest'.retired = manifest.retired
  PROVE  LogInv'
<1>1. WalsGrow /\ SamePlaces /\ Shrinks /\ VlogsGrow
  BY SameWals, SameVlogs DEF QuietMemory, ManifestStands
<1> QED  BY <1>1, GrowKept

\* Pins, the start of a GC pass and a fork's preparation.
LEMMA AsideLogKept ==
  ASSUME FilesInv, FilesInv', LogInv,
         \/ PinCommit \/ \E s \in manifest.pins : Unpin(s)
         \/ \E v \in vmap : StartGc(v)
         \/ ForkDrained \/ ForkFails \/ \E cut \in Cuts : ForkCut(cut)
  PROVE  LogInv'
<1>1. faults \in Nat /\ manifest \in ManifestData
  BY DEF FilesInv, MemoryTypes, DiskTypes
<1>2. CASE PinCommit
  <2>1. phase = "up"
    BY <1>2, BusyIsUp DEF PinCommit
  <2>2. manifest' = [manifest EXCEPT !.pins = @ \cup pinning] /\ pinning' = {}
    BY <1>2 DEF PinCommit
  <2>3. /\ ManifestStands /\ manifest'.live = manifest.live /\ manifest'.retired = manifest.retired
        /\ manifest'.pins = manifest.pins \cup pinning
    BY <1>1, <2>2 DEF ManifestStands, ManifestData
  <2>4. PinsKept
    BY <2>2, <2>3 DEF PinsKept
  <2> QED  BY <1>2, <2>1, <2>3, <2>4, AloofKept
           DEF PinCommit, QuietMemory, tree, vlogVars, aside, history, failures
<1>3. CASE \E s \in manifest.pins : Unpin(s)
  <2>1. PICK s \in manifest.pins : Unpin(s)
    BY <1>3
  <2>2. manifest' = [manifest EXCEPT !.pins = @ \ {s}] /\ pinning' = pinning /\ phase = "up"
    BY <2>1 DEF Unpin
  <2>3. /\ ManifestStands /\ manifest'.live = manifest.live /\ manifest'.retired = manifest.retired
        /\ manifest'.pins = manifest.pins \ {s}
    BY <1>1, <2>2 DEF ManifestStands, ManifestData
  <2>4. PinsKept
    BY <2>2, <2>3 DEF PinsKept
  <2> QED  BY <2>1, <2>2, <2>3, <2>4, AloofKept
           DEF Unpin, QuietMemory, tree, vlogVars, aside, history, failures
<1>4. CASE \E v \in vmap : StartGc(v)
  <2>1. PICK v \in vmap : StartGc(v)
    BY <1>4
  <2>2. phase = "up" /\ manifest' = manifest /\ pinning' = pinning
    BY <2>1 DEF StartGc, disk
  <2>3. ManifestStands /\ PinsKept
    BY <2>2 DEF ManifestStands, PinsKept
  <2> QED  BY <2>1, <2>2, <2>3, AloofKept
           DEF StartGc, disk, QuietMemory, tree, vlogVars, aside, history, failures
<1>5. CASE ForkDrained \/ ForkFails \/ \E cut \in Cuts : ForkCut(cut)
  <2>1. building # <<>> /\ UNCHANGED <<store, opts>>
    BY <1>5 DEF ForkDrained, ForkFails, ForkCut
  <2>2. phase = "up" /\ manifest' = manifest /\ pinning' = pinning
    BY <2>1, BusyIsUp DEF store, disk
  <2>3. ManifestStands /\ PinsKept
    BY <2>2 DEF ManifestStands, PinsKept
  <2> QED  BY <2>1, <2>2, <2>3, AloofKept
           DEF store, disk, QuietMemory, tree, vlogVars, history, failures
<1> QED  BY <1>2, <1>3, <1>4, <1>5

\* A flush or a WAL fsync that fails leaves what was there.
LEMMA FailureLogKept ==
  ASSUME FilesInv, FilesInv', LogInv, SyncFails \/ FlushFails
  PROVE  LogInv'
<1>1. faults \in Nat /\ faults' = faults + 1
  BY DEF FilesInv, MemoryTypes, SyncFails, FlushFails, Fails
<1>2. faults' # 0
  BY <1>1
<1>3. ManifestStands /\ PinsKept /\ manifest' = manifest
  BY DEF SyncFails, FlushFails, ManifestStands, PinsKept, disk
<1>4. CASE SyncFails
  <2>1. phase = "up" /\ inflight' = <<>> /\ opts.sync = "always"
    BY <1>4, BusyIsUp DEF SyncFails, Abort
  <2> QED  BY <1>2, <1>3, <1>4, <2>1, AloofKept
           DEF SyncFails, disk, QuietMemory, tree, vlogVars, aside, history
<1>5. CASE FlushFails
  BY <1>2, <1>3, <1>5, AloofKept DEF FlushFails, QuietMemory, tree, vlogVars, aside, history
<1> QED  BY <1>4, <1>5

\* The barriers: sync_wal, a pin's and a GC pass's.
LEMMA BarrierLogKept ==
  ASSUME FilesInv, FilesInv', LogInv, SyncWal \/ PinBarrier \/ GcBarrier
  PROVE  LogInv'
<1>1. phase = "up" /\ Serving
  BY BusyIsUp DEF SyncWal, PinBarrier, GcBarrier, Serving
<1>2. /\ Updated(wals, wals', wal, Synced(wals[wal])) /\ Updated(vlogs, vlogs', head, Synced(vlogs[head]))
      /\ SyncBoth
  <2>1. SyncBoth
    BY DEF SyncWal, PinBarrier, GcBarrier, SyncBoth
  <2> QED  BY <1>1, <2>1, SyncBothUpdates
<1>3. /\ wal \in DOMAIN wals /\ wals[wal] \in WalFile /\ head \in DOMAIN vlogs /\ vlogs[head] \in VlogFile
  BY <1>1, ActiveFiles
<1>4. /\ Synced(wals[wal]).recs = wals[wal].recs /\ Synced(wals[wal]).synced = Len(wals[wal].recs)
      /\ Synced(wals[wal]).torn = wals[wal].torn
      /\ Synced(vlogs[head]).recs = vlogs[head].recs /\ Synced(vlogs[head]).synced = Len(vlogs[head].recs)
  BY <1>3, SyncedWal, SyncedVlog DEF Synced, WalFile
<1>5. \A id \in DOMAIN wals : /\ wals[id].synced \in Nat /\ wals[id].synced <= Len(wals[id].recs)
                              /\ (id # wal => wals[id].synced = Len(wals[id].recs))
  BY <1>1 DEF FilesInv, DiskTypes, FileTypes, WalFile, Sealed
<1>6. \A f \in DOMAIN vlogs : f # head => vlogs[f].synced = Len(vlogs[f].recs)
  BY DEF FilesInv, Sealed
<1>7. manifest' = manifest /\ obsolete' = obsolete /\ head' = head
  BY DEF SyncWal, PinBarrier, GcBarrier, vlogVars
<1>8. WalsGrow /\ DOMAIN wals' = DOMAIN wals
  <2>1. DOMAIN wals' = DOMAIN wals
    BY <1>2, <1>3 DEF Updated
  <2>2. ASSUME NEW id \in DOMAIN wals
        PROVE  /\ wals'[id].recs = wals[id].recs /\ wals'[id].torn = wals[id].torn
               /\ wals[id].synced <= wals'[id].synced
    <3>1. CASE id = wal
      BY <1>2, <1>4, <1>5, <3>1 DEF Updated
    <3>2. CASE id # wal
      BY <1>2, <1>5, <3>2 DEF Updated
    <3> QED  BY <3>1, <3>2
  <2> QED  BY <1>7, <2>1, <2>2 DEF WalsGrow
<1>9. SamePlaces /\ Shrinks
  BY <1>8, SameRecords DEF WalsGrow
<1>10. DOMAIN vlogs' = DOMAIN vlogs
  BY <1>2, <1>3 DEF Updated
<1>11. VlogsGrow
  <2>1. ASSUME NEW f \in DOMAIN vlogs
        PROVE  /\ vlogs'[f].recs = vlogs[f].recs /\ vlogs[f].synced <= vlogs'[f].synced
               /\ Len(vlogs[f].recs) \in Nat
    <3>0. vlogs[f].synced \in Nat /\ vlogs[f].synced <= Len(vlogs[f].recs) /\ Len(vlogs[f].recs) \in Nat
      BY YoungFiles
    <3>1. CASE f = head
      BY <1>2, <1>4, <3>0, <3>1 DEF Updated
    <3>2. CASE f # head
      BY <1>2, <3>0, <3>2 DEF Updated
    <3> QED  BY <3>0, <3>1, <3>2
  <2>2. \A f \in DOMAIN vlogs : Len(vlogs[f].recs) <= Len(vlogs'[f].recs)
    BY <2>1
  <2> QED  BY <1>7, <1>10, <2>1, <2>2 DEF VlogsGrow
<1>12. AllSynced
  <2>1. ASSUME NEW id \in DOMAIN wals' PROVE wals'[id].synced = Len(wals'[id].recs)
    BY <1>2, <1>4, <1>5, <1>8 DEF Updated
  <2>2. ASSUME NEW f \in DOMAIN vlogs' PROVE vlogs'[f].synced = Len(vlogs'[f].recs)
    BY <1>2, <1>4, <1>6, <1>10 DEF Updated
  <2> QED  BY <2>1, <2>2 DEF AllSynced
<1>13. promised' = acked /\ pinning' \in {pinning, {visible}}
  BY DEF SyncWal, PinBarrier, GcBarrier
<1>14. PinsKept /\ ManifestStands
  BY <1>7, <1>13 DEF PinsKept, ManifestStands
<1>15. /\ UNCHANGED <<opts, phase, wal, mem, imms, visible, acked, gray>>
       /\ inflight' = inflight /\ faults' = faults
  BY DEF SyncWal, PinBarrier, GcBarrier, aside, tree, failures
<1>16. QuietMemory
  BY <1>1, <1>12, <1>13, <1>14, <1>15 DEF QuietMemory
<1> QED  BY <1>7, <1>8, <1>9, <1>11, <1>16, GrowKept

\* Publishing a fork's archive fsyncs the head.
LEMMA ForkPublishLogKept ==
  ASSUME FilesInv, FilesInv', LogInv, ForkPublish
  PROVE  LogInv'
<1>1. phase = "up" /\ Serving
  BY BusyIsUp DEF ForkPublish
<1>2. vlogs' = SyncedHead /\ manifest' = manifest /\ pinning' = pinning /\ wals' = wals /\ faults' = faults
  BY DEF ForkPublish, SyncedHead, failures
<1>3. VlogsGrow
  <2>1. ASSUME NEW f \in DOMAIN vlogs
        PROVE  /\ vlogs'[f].recs = vlogs[f].recs /\ vlogs[f].synced <= vlogs'[f].synced
               /\ Len(vlogs[f].recs) <= Len(vlogs'[f].recs)
    <3>1. vlogs[f].synced <= Len(vlogs[f].recs) /\ Len(vlogs[f].recs) \in Nat
      BY YoungFiles
    <3>2. vlogs'[f].recs = vlogs[f].recs /\ vlogs'[f].synced = Len(vlogs[f].recs)
      BY <1>1, <1>2, SyncedHeadIs
    <3> QED  BY <3>1, <3>2
  <2>2. DOMAIN vlogs' = DOMAIN vlogs
    BY <1>1, <1>2, SyncedHeadIs
  <2>3. obsolete' = obsolete
    BY DEF ForkPublish, vlogVars
  <2> QED  BY <1>2, <2>1, <2>2, <2>3 DEF VlogsGrow
<1>4. PinsKept /\ ManifestStands
  BY <1>2 DEF PinsKept, ManifestStands
<1>5. UNCHANGED <<opts, phase, wal, mem, imms, visible, acked, gray, promised, inflight, head>>
  BY DEF ForkPublish, tree, history, vlogVars
<1>6. QuietMemory
  BY <1>1, <1>2, <1>4, <1>5 DEF QuietMemory
<1>7. WalsGrow /\ SamePlaces /\ Shrinks
  BY <1>2, SameWals
<1> QED  BY <1>2, <1>3, <1>5, <1>6, <1>7, GrowKept

\* Steps that change which value-log files there are.
LEMMA PointeesKept ==
  ASSUME FilesInv, FilesInv', LogInv, QuietMemory, wals' = wals, YoungKept, \A p \in Place' : PointsKept(p)
  PROVE  LogInv'
<1>1. WalsGrow /\ SamePlaces /\ Shrinks
  BY SameWals DEF QuietMemory, ManifestStands
<1>2. Quiet
  BY <1>1 DEF Quiet, Calm, QuietMemory, ManifestStands
<1> QED  BY <1>2, QuietKept

\* What a place of a store that is up points into.
LEMMA PointeeIs ==
  ASSUME FilesInv, LogInv, phase = "up", NEW p \in Place, RecAt(p).file # Inline
  PROVE  /\ RecAt(p).file \in DOMAIN vlogs /\ RecAt(p).file \in Adopted /\ RecAt(p).file \notin obsolete
         /\ \A t \in manifest.retired : RecAt(p).file = t.id => RecAt(p).seq <= t.at
         /\ RecAt(p).file # head => RecAt(p).seq <= visible
         /\ RecAt(p).seq > manifest.flushed /\ RecAt(p).seq \in Nat /\ manifest.flushed \in Nat
         /\ vlogs[RecAt(p).file].synced \in Nat /\ Len(vlogs[RecAt(p).file].recs) \in Nat
<1>1. PointsRight(p) /\ PlaceTyped(p) /\ RecAt(p).seq > manifest.flushed
  BY PlacesTyped DEF LogInv, Pointers, LogAbove
<1>2. manifest.flushed \in Nat
  BY OptionsTyped DEF FilesInv, DiskTypes, ManifestData
<1> QED  BY <1>1, <1>2, YoungFiles DEF PointsRight, PlaceTyped

\* A retired file is one no record at the head of the log points into from now on.
LEMMA RetireLogKept ==
  ASSUME FilesInv, FilesInv', LogInv, Retire
  PROVE  LogInv'
<1>1. phase = "up" /\ Serving
  BY BusyIsUp DEF Retire
<1> DEFINE v == gc[1].victim
           r == [id |-> v, at |-> visible]
<1>2. /\ ManifestStands /\ manifest'.pins = manifest.pins
      /\ manifest'.live = manifest.live \ {v} /\ manifest'.retired = manifest.retired \cup {r}
  BY DEF FilesInv, DiskTypes, ManifestData, Retire, ManifestStands
<1>3. v \in DOMAIN vlogs /\ v # head
  BY <1>1 DEF FilesInv, ValueFiles, Retire
<1>4. UNCHANGED <<opts, phase, wal, mem, imms, visible, acked, gray, promised, inflight, head, wals, vlogs,
                  obsolete, pinning, faults>>
  BY DEF Retire, tree, history, aside, failures
<1>5. PinsKept
  BY <1>2, <1>4 DEF PinsKept
<1>6. QuietMemory
  BY <1>1, <1>2, <1>4, <1>5 DEF QuietMemory
<1>7. r.id = v /\ r.at = visible
  OBVIOUS
<1> HIDE DEF v, r
<1>8. /\ RetiredIds(manifest'.retired) = RetiredIds(manifest.retired) \cup {v}
  BY <1>2, <1>7 DEF RetiredIds
<1>9. Young' = Young \ {v}
  BY <1>2, <1>4, <1>8 DEF Young, ManifestStands
<1>10. Adopted' = Adopted \cup {v}
  BY <1>2, <1>3, <1>4, <1>8, <1>9 DEF Adopted
<1>11. Place' = Place /\ \A p \in Place : RecAt(p)' = RecAt(p)
  BY <1>2, <1>4, SameWals DEF ManifestStands, SamePlaces
<1>12. YoungKept
  <2>1. ASSUME NEW p \in Place', RecAt(p).file # Inline, RecAt(p).file \in Young'
        PROVE  FsyncedKept(RecAt(p).file)
    BY <1>1, <1>4, <1>9, <1>11, <2>1, PointeeIs DEF FsyncedKept
  <2> QED  BY <2>1 DEF YoungKept
<1>13. ASSUME NEW p \in Place' PROVE PointsKept(p)
  <2>1. CASE RecAt(p).file = Inline
    BY <2>1 DEF PointsKept
  <2>2. CASE RecAt(p).file # Inline
    <3>1. /\ RecAt(p).file \in Adopted /\ RecAt(p).file \notin obsolete
          /\ \A t \in manifest.retired : RecAt(p).file = t.id => RecAt(p).seq <= t.at
          /\ RecAt(p).file # head => RecAt(p).seq <= visible
          /\ Len(vlogs[RecAt(p).file].recs) \in Nat
      BY <1>1, <1>11, <2>2, PointeeIs
    <3>2. \A t \in manifest'.retired : RecAt(p).file = t.id => RecAt(p).seq <= t.at
      BY <1>2, <1>3, <1>7, <3>1
    <3> QED  BY <1>4, <1>10, <3>1, <3>2 DEF PointsKept
  <2> QED  BY <2>1, <2>2
<1> QED  BY <1>4, <1>6, <1>12, <1>13, PointeesKept

\* What every record of the log is above cannot be pointed into from the log.
LEMMA ProcessRetiredLogKept ==
  ASSUME FilesInv, FilesInv', LogInv, ProcessRetired
  PROVE  LogInv'
<1> DEFINE ready == {t \in retired : Deletable(t)}
<1>1. phase = "up" /\ Serving
  BY DEF ProcessRetired, Serving
<1>2. /\ ManifestStands /\ manifest'.pins = manifest.pins
      /\ manifest'.live = manifest.live /\ manifest'.retired = manifest.retired \ ready
      /\ obsolete' = obsolete \cup RetiredIds(ready)
  BY DEF FilesInv, DiskTypes, ManifestData, ProcessRetired, ManifestStands
<1>3. retired = manifest.retired /\ manifest.retired \in SUBSET Retirement
  BY <1>1 DEF FilesInv, ValueFiles, DiskTypes, ManifestData
<1>4. UNCHANGED <<opts, phase, wal, mem, imms, visible, acked, gray, promised, inflight, head, wals, vlogs,
                  pinning, faults>>
  BY DEF ProcessRetired, tree, history, aside, failures
<1>5. PinsKept
  BY <1>2, <1>4 DEF PinsKept
<1>6. QuietMemory
  BY <1>1, <1>2, <1>4, <1>5 DEF QuietMemory
<1>7. \A t \in ready : t \in manifest.retired /\ manifest.flushed >= t.at
  BY <1>3 DEF Deletable
<1> HIDE DEF ready
<1>8. Place' = Place /\ \A p \in Place : RecAt(p)' = RecAt(p)
  BY <1>2, <1>4, SameWals DEF ManifestStands, SamePlaces
<1>9. ASSUME NEW p \in Place, RecAt(p).file # Inline
      PROVE  RecAt(p).file \notin RetiredIds(ready)
  <2> SUFFICES ASSUME NEW t \in ready, RecAt(p).file = t.id PROVE FALSE
    BY DEF RetiredIds
  <2>1. RecAt(p).seq <= t.at /\ RecAt(p).seq > manifest.flushed /\ RecAt(p).seq \in Nat /\ manifest.flushed \in Nat
    BY <1>1, <1>7, <1>9, PointeeIs
  <2>2. t.at \in Nat /\ manifest.flushed >= t.at
    BY <1>3, <1>7, OptionsTyped DEF Retirement
  <2> QED  BY <2>1, <2>2
<1>10. \A f \in DOMAIN vlogs : f \notin RetiredIds(ready) =>
         (f \in RetiredIds(manifest'.retired) <=> f \in RetiredIds(manifest.retired))
  BY <1>2 DEF RetiredIds
<1>11. \A f \in DOMAIN vlogs : f \notin RetiredIds(ready) =>
         (f \in Young' <=> f \in Young) /\ (f \in Adopted => f \in Adopted')
  BY <1>2, <1>4, <1>10 DEF Young, Adopted, ManifestStands
<1>12. YoungKept
  <2>1. ASSUME NEW p \in Place', RecAt(p).file # Inline, RecAt(p).file \in Young'
        PROVE  FsyncedKept(RecAt(p).file)
    BY <1>1, <1>4, <1>8, <1>9, <1>11, <2>1, PointeeIs DEF FsyncedKept
  <2> QED  BY <2>1 DEF YoungKept
<1>13. ASSUME NEW p \in Place' PROVE PointsKept(p)
  <2>1. CASE RecAt(p).file = Inline
    BY <2>1 DEF PointsKept
  <2>2. CASE RecAt(p).file # Inline
    <3>1. /\ RecAt(p).file \in DOMAIN vlogs
          /\ RecAt(p).file \in Adopted /\ RecAt(p).file \notin obsolete
          /\ \A t \in manifest.retired : RecAt(p).file = t.id => RecAt(p).seq <= t.at
          /\ RecAt(p).file # head => RecAt(p).seq <= visible
          /\ Len(vlogs[RecAt(p).file].recs) \in Nat
      BY <1>1, <1>8, <2>2, PointeeIs
    <3>2. RecAt(p).file \notin RetiredIds(ready)
      BY <1>8, <1>9, <2>2
    <3>3. RecAt(p).file \in Adopted' /\ RecAt(p).file \notin obsolete'
      BY <1>2, <1>11, <3>1, <3>2
    <3>4. \A t \in manifest'.retired : RecAt(p).file = t.id => RecAt(p).seq <= t.at
      BY <1>2, <3>1
    <3> QED  BY <1>4, <3>1, <3>3, <3>4 DEF PointsKept
  <2> QED  BY <2>1, <2>2
<1> QED  BY <1>4, <1>6, <1>12, <1>13, PointeesKept

\* An unlinked file is one the log does not point into.
LEMMA UnlinkLogKept ==
  ASSUME FilesInv, FilesInv', LogInv, NEW id \in obsolete, Unlink(id)
  PROVE  LogInv'
<1>1. phase = "up" /\ Serving
  BY DEF FilesInv, Phases, Serving
<1>2. /\ manifest' = manifest /\ obsolete' = obsolete \ {id}
      /\ DOMAIN vlogs' = (DOMAIN vlogs) \ {id} /\ \A f \in DOMAIN vlogs' : vlogs'[f] = vlogs[f]
  <2>1. vlogs' = Keep(vlogs, (DOMAIN vlogs) \ {id})
    BY DEF Unlink
  <2>2. DOMAIN vlogs' = (DOMAIN vlogs) \ {id} /\ \A f \in DOMAIN vlogs' : vlogs'[f] = vlogs[f]
    BY <2>1, KeepIs
  <2> QED  BY <2>2 DEF Unlink
<1>3. ManifestStands
  BY <1>2 DEF ManifestStands
<1>4. UNCHANGED <<opts, phase, wal, mem, imms, visible, acked, gray, promised, inflight, head, wals,
                  pinning, faults>>
  BY DEF Unlink, tree, history, aside, failures
<1>5. PinsKept
  BY <1>2, <1>4 DEF PinsKept
<1>6. QuietMemory
  BY <1>1, <1>3, <1>4, <1>5 DEF QuietMemory
<1>7. Place' = Place /\ \A p \in Place : RecAt(p)' = RecAt(p)
  BY <1>2, <1>4, SameWals DEF SamePlaces
<1>8. \A f \in DOMAIN vlogs : f # id => (f \in Young' <=> f \in Young) /\ (f \in Adopted => f \in Adopted')
  BY <1>2 DEF Young, Adopted
<1>9. YoungKept
  <2>1. ASSUME NEW p \in Place', RecAt(p).file # Inline, RecAt(p).file \in Young'
        PROVE  FsyncedKept(RecAt(p).file)
    BY <1>1, <1>2, <1>7, <1>8, <2>1, PointeeIs DEF FsyncedKept
  <2> QED  BY <2>1 DEF YoungKept
<1>10. ASSUME NEW p \in Place' PROVE PointsKept(p)
  <2>1. CASE RecAt(p).file = Inline
    BY <2>1 DEF PointsKept
  <2>2. CASE RecAt(p).file # Inline
    BY <1>1, <1>2, <1>4, <1>7, <1>8, <2>2, PointeeIs DEF PointsKept
  <2> QED  BY <2>1, <2>2
<1> QED  BY <1>4, <1>6, <1>9, <1>10, PointeesKept

-----------------------------------------------------------------------------
(* Rotations                                                               *)

\* A serving store's log ends in its active WAL.
LEMMA PlacesActive ==
  ASSUME FilesInv, Serving
  PROVE  \A p \in Place : p[1] <= wal
<1>1. ASSUME NEW p \in Place, ~(p[1] <= wal) PROVE FALSE
  <2>1. PlaceTyped(p)
    BY PlacesTyped
  <2>2. p[1] > wal
    BY <1>1, <2>1, ActiveFiles DEF PlaceTyped
  <2>3. wals[p[1]].recs = <<>>
    BY <2>1, <2>2 DEF PlaceTyped, FilesInv, Ids
  <2> QED  BY <2>1, <2>3, EmptyFiles DEF PlaceTyped
<1> QED  BY <1>1

\* The records of a list of frozen memtables.
FrozenRecs(ms) == UNION {m.recs : m \in Range(ms)}

\* The records of the frozen memtables.
LEMMA FrozenRecsIs ==
  ASSUME NEW ms
  PROVE  \A r : r \in FrozenRecs(ms) <=> \E j \in DOMAIN ms : r \in ms[j].recs
<1> DEFINE F == {m.recs : m \in Range(ms)}
<1>1. ASSUME NEW r, r \in FrozenRecs(ms) PROVE \E j \in DOMAIN ms : r \in ms[j].recs
  <2>1. r \in UNION F
    BY <1>1 DEF FrozenRecs
  <2>2. PICK m \in Range(ms) : r \in m.recs
    BY <2>1
  <2> QED  BY <2>2 DEF Range
<1>2. ASSUME NEW r, NEW j \in DOMAIN ms, r \in ms[j].recs PROVE r \in FrozenRecs(ms)
  <2>1. ms[j] \in Range(ms)
    BY DEF Range
  <2>2. ms[j].recs \in F
    BY <2>1
  <2> HIDE DEF F
  <2>3. r \in UNION F
    BY <1>2, <2>2
  <2> QED  BY <2>3 DEF F, FrozenRecs
<1> QED  BY <1>1, <1>2

\* What a store shows: its tables, its memtable and the frozen ones.
LEMMA ContentsIs ==
  /\ Contents = Flushed \cup mem \cup FrozenRecs(imms)
  /\ Contents' = Flushed' \cup mem' \cup FrozenRecs(imms')
BY DEF Contents, FrozenRecs

\* x is what the memtable is frozen into.
LEMMA FrozenTurn ==
  ASSUME FilesInv, FilesInv', LogInv, SamePlaces, Serving, NEW x, x.wal = wal, Prepended(x), mem' = {},
         \A r \in x.recs : \E p \in Place : MemAt(r, p)
  PROVE  FrozenLogged' /\ MemLogged'
<1>1. \A p \in Place : p[1] <= wal
  BY PlacesActive
<1>2. \A p \in Place : RecAt(p)' = RecAt(p) /\ (Latest(p) => Latest(p)') /\ PlaceTyped(p)
  BY PlacesTyped DEF SamePlaces, Latest
<1>3. ASSUME NEW j \in DOMAIN imms', NEW r \in imms'[j].recs
      PROVE  \E p \in Place' : FrozenAt(r, j, p)'
  <2>1. CASE j = 1
    <3>1. imms'[j] = x /\ r \in x.recs
      BY <2>1 DEF Prepended
    <3>2. PICK p \in Place : MemAt(r, p)
      BY <3>1
    <3>3. \A l \in DOMAIN imms' : l > j => l \in 2 .. Len(imms) + 1 /\ l - 1 \in DOMAIN imms /\ imms'[l] = imms[l - 1]
      BY <2>1 DEF Prepended
    <3>4. \A l \in DOMAIN imms' : l > j => imms'[l].wal < p[1]
      BY <3>2, <3>3 DEF MemAt
    <3>5. \A q \in Place : ~(q[1] > wal)
      BY <1>1, <1>2, ActiveFiles DEF PlaceTyped
    <3>6. FrozenAt(r, j, p)'
      BY <1>1, <1>2, <3>1, <3>2, <3>4, <3>5 DEF MemAt, FrozenAt, SamePlaces
    <3> QED  BY <3>2, <3>6 DEF SamePlaces
  <2>2. CASE j # 1
    <3>1. j \in 2 .. Len(imms) + 1 /\ j - 1 \in DOMAIN imms /\ imms'[j] = imms[j - 1] /\ j \in Nat
      BY <2>2 DEF Prepended
    <3>2. PICK p \in Place : FrozenAt(r, j - 1, p)
      BY <3>1 DEF LogInv, FrozenLogged
    <3>3. \A l \in DOMAIN imms' : l > j => l - 1 \in DOMAIN imms /\ imms'[l] = imms[l - 1] /\ l - 1 > j - 1
      BY <3>1 DEF Prepended
    <3>4. \A l \in DOMAIN imms' : l > j => imms'[l].wal < p[1]
      BY <3>2, <3>3 DEF FrozenAt
    <3>5. FrozenAt(r, j, p)'
      BY <1>2, <3>1, <3>2, <3>4 DEF FrozenAt, SamePlaces
    <3> QED  BY <3>2, <3>5 DEF SamePlaces
  <2> QED  BY <2>1, <2>2
<1>4. FrozenLogged'
  BY <1>3 DEF FrozenLogged, FrozenAt, Latest, RecAt, SameKey, Before
<1> QED  BY <1>4 DEF MemLogged

\* What the store shows when a memtable is frozen.
LEMMA TurnContents ==
  ASSUME Flushed' = Flushed, NEW x, Prepended(x), mem' = {}
  PROVE  Contents' = Flushed \cup x.recs \cup FrozenRecs(imms)
<1>1. ASSUME NEW r PROVE r \in FrozenRecs(imms') <=> r \in x.recs \/ r \in FrozenRecs(imms)
  <2>1. r \in FrozenRecs(imms') <=> \E j \in DOMAIN imms' : r \in imms'[j].recs
    BY FrozenRecsIs
  <2>2. r \in FrozenRecs(imms) <=> \E j \in DOMAIN imms : r \in imms[j].recs
    BY FrozenRecsIs
  <2>3. ASSUME NEW j \in DOMAIN imms', r \in imms'[j].recs
        PROVE  r \in x.recs \/ \E i \in DOMAIN imms : r \in imms[i].recs
    <3>1. CASE j = 1
      BY <2>3, <3>1 DEF Prepended
    <3>2. CASE j # 1
      <4>1. j - 1 \in DOMAIN imms /\ imms'[j] = imms[j - 1]
        BY <3>2 DEF Prepended
      <4> QED  BY <2>3, <4>1
    <3> QED  BY <3>1, <3>2
  <2>4. ASSUME NEW j \in DOMAIN imms, r \in imms[j].recs PROVE \E i \in DOMAIN imms' : r \in imms'[i].recs
    <3>1. j + 1 \in DOMAIN imms' /\ j + 1 \in 2 .. Len(imms) + 1 /\ (j + 1) - 1 = j
      BY DEF Prepended
    <3>2. imms'[j + 1] = imms[j]
      BY <3>1 DEF Prepended
    <3> QED  BY <2>4, <3>1, <3>2
  <2>5. r \in x.recs => \E i \in DOMAIN imms' : r \in imms'[i].recs
    <3>1. 1 \in DOMAIN imms' /\ imms'[1] = x
      BY DEF Prepended
    <3> QED  BY <3>1
  <2> QED  BY <2>1, <2>2, <2>3, <2>4, <2>5
<1> QED  BY <1>1, ContentsIs

\* The WALs after a rotation.
LEMMA RotatedGrows ==
  ASSUME FilesInv, FilesInv', Serving, RotatedTo(wals'), manifest'.floor = manifest.floor
  PROVE  WalsGrow /\ SamePlaces /\ Shrinks /\ FsyncsKept
<1>1. wal \in DOMAIN wals /\ wals[wal] \in WalFile
  BY ActiveFiles
<1>2. /\ Synced(wals[wal]).recs = wals[wal].recs /\ Synced(wals[wal]).torn = wals[wal].torn
      /\ Synced(wals[wal]).synced = Len(wals[wal].recs)
  BY <1>1, SyncedWal DEF Synced, WalFile
<1>3. \A id \in DOMAIN wals : wals[id].synced \in Nat /\ wals[id].synced <= Len(wals[id].recs)
  BY DEF FilesInv, DiskTypes, FileTypes, WalFile
<1>4. WalsGrow
  BY <1>1, <1>2, <1>3, EmptyFiles DEF RotatedTo, WalsGrow
<1>5. SamePlaces /\ Shrinks
  BY <1>4, SameRecords DEF WalsGrow
<1>6. FsyncsKept
  BY <1>4, <1>5, PlacesTyped DEF FsyncsKept, WalsGrow, PlaceTyped, Shrinks
<1> QED  BY <1>4, <1>5, <1>6

\* What a rotation without a batch in flight leaves as it was.
Rotates ==
    /\ phase = "up" /\ inflight = <<>> /\ RotatedTo(wals')
    /\ UNCHANGED <<opts, phase, manifest, vlogs, obsolete, head, visible, inflight, pinning, history>>

\* A rotation keeps LogInv if it keeps the memtables' places.
LEMMA RotatesKept ==
  ASSUME FilesInv, FilesInv', LogInv, Rotates, Contents' = Contents, FrozenLogged', MemLogged', Torn'
  PROVE  LogInv'
<1>1. WalsGrow /\ SamePlaces /\ Shrinks /\ FsyncsKept
  BY RotatedGrows DEF Rotates, Serving
<1>2. Calm
  BY <1>1 DEF Calm, Rotates, history
<1>3. LogOrder' /\ LogAbove' /\ LogKnown' /\ OpenedLogged' /\ Lost' /\ Flushed' = Flushed
  BY <1>2, CalmKept
<1>4. promised' = promised /\ PinsKept
  BY DEF Rotates, PinsKept, history
<1>5. PinsCovered'
  BY <1>2, <1>4, CalmPins
<1>6. YoungKept /\ \A p \in Place' : PointsKept(p)
  <2>1. visible \in Nat
    BY OptionsTyped DEF FilesInv, MemoryTypes
  <2>2. VlogsGrow
    BY SameVlogs DEF Rotates
  <2> QED  BY <1>1, <2>1, <2>2, VlogsGrowKeep DEF LogInv, Rotates
<1>7. Pointers'
  BY <1>1, <1>6, UpPointers DEF Rotates, LogInv
<1>8. LogBelow'
  <2>1. \A p \in Place' : RecAt(p)'.seq <= visible' + 1 /\ (opts'.sync = "relaxed" => RecAt(p)'.seq <= visible')
    BY <1>1 DEF LogInv, LogBelow, Rotates, SamePlaces
  <2> QED  BY <2>1 DEF Rotates, LogBelow
<1>9. Contained'
  <2>1. /\ \A r \in Flushed' : r.seq <= manifest'.flushed
        /\ Flushed' \subseteq acked' /\ promised' \subseteq acked'
        /\ opts'.sync = "always" => promised' = acked'
        /\ acked' = Contents' /\ manifest'.flushed <= visible'
        /\ \A r \in acked' : r.seq <= visible'
        /\ visible' <= manifest'.flushed \/ \E r \in acked' : visible' <= r.seq
    BY <1>3 DEF Rotates, LogInv, Contained, Serving, history
  <2> QED  BY <2>1 DEF Contained
<1>10. Durable'
  <2>1. \A r \in promised' \ Flushed' : \E p \in Place' : RecAt(p)' = r /\ Latest(p)' /\ Safe(p)'
    BY <1>1, <1>3, <1>4, <1>6, DurableKept
  <2> QED  BY <2>1 DEF Durable, Latest, Safe, RecAt, Before
<1> QED  BY <1>3, <1>5, <1>7, <1>8, <1>9, <1>10 DEF LogInv

\* flush() and the first step of a fork.
LEMMA FreezeLogKept ==
  ASSUME FilesInv, FilesInv', LogInv, phase = "up", inflight = <<>>, Freeze, FreezeKeeps
  PROVE  LogInv'
<1>1. /\ Serving /\ wals' = Rotated(wals) /\ wal' = nextId /\ mem' = {}
      /\ imms' = <<[wal |-> wal, recs |-> mem]>> \o imms
  BY DEF Freeze, Serving
<1>2. RotatedTo(wals')
  BY <1>1, RotatedIs
<1>3. Rotates
  BY <1>2 DEF Rotates, FreezeKeeps, vlogVars
<1>4. WalsGrow /\ SamePlaces /\ Shrinks
  BY <1>1, <1>2, RotatedGrows DEF FreezeKeeps
<1> DEFINE x == [wal |-> wal, recs |-> mem]
<1>5. x \in Frozen /\ x.wal = wal /\ x.recs = mem
  BY DEF Frozen, FilesInv, MemoryTypes
<1>6. Prepended(x)
  BY <1>1, <1>5, PrependIs
<1> HIDE DEF x
<1>7. FrozenLogged' /\ MemLogged'
  <2>1. \A r \in x.recs : \E p \in Place : MemAt(r, p)
    BY <1>5 DEF LogInv, MemLogged
  <2> QED  BY <1>1, <1>4, <1>5, <1>6, <2>1, FrozenTurn
<1>8. Flushed' = Flushed
  BY DEF FreezeKeeps, Flushed
<1>9. Contents' = Contents
  BY <1>1, <1>5, <1>6, <1>8, TurnContents, ContentsIs
<1>10. Torn'
  <2> SUFFICES ASSUME faults' = 0
               PROVE  /\ \A id \in DOMAIN wals' : id <= wal'
                      /\ \A id \in DOMAIN wals' : ~wals'[id].torn
    BY DEF Torn, ReplayIds
  <2>1. \A id \in DOMAIN wals : ~wals[id].torn /\ id \in Nat /\ id < nextId
    BY <1>1 DEF FreezeKeeps, failures, LogInv, Torn, FilesInv, Ids, DiskTypes, FileTypes
  <2>2. \A id \in DOMAIN wals' : id \in DOMAIN wals \/ id = nextId
    BY <1>2 DEF RotatedTo
  <2>3. nextId \in Nat
    BY <1>1, ActiveFiles
  <2>4. \A id \in DOMAIN wals' : id <= wal'
    BY <1>1, <2>1, <2>2, <2>3
  <2>5. \A id \in DOMAIN wals' : ~wals'[id].torn
    BY <1>4, <2>1 DEF WalsGrow
  <2> QED  BY <2>4, <2>5
<1> QED  BY <1>3, <1>7, <1>9, <1>10, RotatesKept

\* A step of a fork that leaves the store alone.
LEMMA StillLogKept ==
  ASSUME FilesInv, FilesInv', LogInv, phase = "up", UNCHANGED <<store, opts>>
  PROVE  LogInv'
<1>1. manifest' = manifest /\ pinning' = pinning
  BY DEF store, disk
<1>2. ManifestStands /\ PinsKept
  BY <1>1 DEF ManifestStands, PinsKept
<1> QED  BY <1>1, <1>2, AloofKept DEF store, disk, QuietMemory, tree, vlogVars, history, failures

\* The rotations.
LEMMA RotationLogKept ==
  ASSUME FilesInv, FilesInv', LogInv, ForceRotate \/ ForkBegin
  PROVE  LogInv'
<1>1. CASE phase = "up" /\ inflight = <<>> /\ Freeze /\ FreezeKeeps
  BY <1>1, FreezeLogKept
<1>2. CASE phase = "up" /\ UNCHANGED <<store, opts>>
  BY <1>2, StillLogKept
<1> QED  BY <1>1, <1>2 DEF ForceRotate, ForkBegin, Freeze, FreezeKeeps, aside

\* A rotation that fails beside its new WAL.
LEMMA RotateFailsLogKept ==
  ASSUME FilesInv, FilesInv', LogInv, RotateFails
  PROVE  LogInv'
<1>1. phase = "up" /\ Serving /\ wals' = Rotated(wals) /\ faults' = faults + 1 /\ faults \in Nat
  BY DEF RotateFails, Fails, Serving, FilesInv, MemoryTypes
<1>2. RotatedTo(wals')
  BY <1>1, RotatedIs
<1>3. Rotates
  BY <1>2 DEF Rotates, RotateFails, aside, tree, vlogVars, history
<1>4. WalsGrow /\ SamePlaces /\ Shrinks
  BY <1>1, <1>2, RotatedGrows DEF RotateFails
<1>5. Calm
  BY <1>3, <1>4 DEF Calm, Rotates, history
<1>6. FrozenLogged' /\ MemLogged'
  BY <1>5, CalmMemtables DEF RotateFails, tree
<1>7. Contents' = Contents
  BY DEF RotateFails, tree, Contents, Flushed
<1>8. Torn'
  BY <1>1 DEF Torn
<1> QED  BY <1>3, <1>6, <1>7, <1>8, RotatesKept

-----------------------------------------------------------------------------
(* A batch is written                                                      *)

\* The end of the active WAL: its last record, and the one after it.
LastPlace == <<wal, Len(wals[wal].recs)>>
NextPlace == <<wal, Len(wals[wal].recs) + 1>>

\* The log has one more record.
OnePlaceMore(b) ==
    /\ Place' = Place \cup {NextPlace} /\ \A p : p = NextPlace => RecAt(p)' = b
    /\ NextPlace[1] = wal /\ NextPlace[2] = Len(wals[wal].recs) + 1
    /\ \A p \in Place : RecAt(p)' = RecAt(p) /\ Before(p, NextPlace) /\ ~Before(NextPlace, p)
    /\ ~Before(NextPlace, NextPlace) /\ LastPlace' = NextPlace
    /\ wals'[wal].recs # <<>>

\* An append adds one place, the last.
LEMMA AppendPlaces ==
  ASSUME FilesInv, FilesInv', Serving, NEW large \in BOOLEAN, Appends(inflight'[1], large),
         wal' = wal, manifest' = manifest
  PROVE  OnePlaceMore(inflight'[1])
<1> DEFINE b == inflight'[1]
           n == Len(wals[wal].recs)
<1>1. /\ b \in Batch /\ wals[wal].recs \in Seq(Batch) /\ wal \in DOMAIN wals /\ n \in Nat
      /\ wal \in Nat /\ manifest.floor <= wal /\ DOMAIN wals' = DOMAIN wals
      /\ \A id \in DOMAIN wals : id # wal => wals'[id] = wals[id]
      /\ wals'[wal].recs = Append(wals[wal].recs, b)
  <2>1. wals[wal].recs \in Seq(Batch) /\ wal \in DOMAIN wals /\ wal \in Nat
    BY ActiveFiles DEF WalFile
  <2>2. n \in Nat
    BY <2>1, LenProperties
  <2> QED  BY <2>1, <2>2 DEF Appends, Updated, FilesInv, Ids
<1> HIDE DEF b, n
<1>2. /\ Len(wals'[wal].recs) = n + 1 /\ wals'[wal].recs[n + 1] = b /\ wals'[wal].recs # <<>>
      /\ \A i \in 1 .. n : wals'[wal].recs[i] = wals[wal].recs[i]
  BY <1>1, AppendProperties DEF n
<1>3. NextPlace[1] = wal /\ NextPlace[2] = n + 1 /\ LastPlace' = NextPlace
  BY <1>2 DEF NextPlace, LastPlace, n
<1>4. ASSUME NEW p, p = NextPlace PROVE RecAt(p)' = b
  <2>1. p[1] = wal /\ p[2] = n + 1
    BY <1>3, <1>4
  <2> QED  BY <1>2, <2>1 DEF RecAt
<1>5. NextPlace \in Place'
  <2>1. wal \in DOMAIN wals' /\ manifest'.floor <= wal
    BY <1>1
  <2>2. n + 1 \in 1 .. Len(wals'[wal].recs)
    BY <1>1, <1>2
  <2>3. <<wal, n + 1>> \in Place'
    BY <2>1, <2>2, NextPlacesTyped DEF PlaceHas
  <2> QED  BY <2>3 DEF NextPlace, n
<1>6. ASSUME NEW p \in Place
      PROVE  p \in Place' /\ RecAt(p)' = RecAt(p) /\ Before(p, NextPlace) /\ ~Before(NextPlace, p)
  <2>1. PlaceTyped(p) /\ p[1] <= wal
    BY PlacesTyped, PlacesActive
  <2>2. p = <<p[1], p[2]>> /\ p[1] \in DOMAIN wals' /\ manifest'.floor <= p[1] /\ p[2] \in 1 .. Len(wals[p[1]].recs)
        /\ p[1] \in Nat /\ p[2] \in Nat
    BY <1>1, <2>1 DEF PlaceTyped
  <2>3. CASE p[1] = wal
    <3>1. p[2] \in 1 .. n /\ p[2] \in 1 .. Len(wals'[p[1]].recs)
      BY <1>1, <1>2, <2>2, <2>3 DEF n
    <3>2. <<p[1], p[2]>> \in Place'
      BY <2>2, <3>1, NextPlacesTyped DEF PlaceHas
    <3>3. RecAt(p)' = RecAt(p)
      BY <1>2, <2>3, <3>1 DEF RecAt
    <3>4. Before(p, NextPlace) /\ ~Before(NextPlace, p)
      BY <1>1, <1>3, <2>2, <2>3, <3>1 DEF Before
    <3> QED  BY <2>2, <3>2, <3>3, <3>4
  <2>4. CASE p[1] # wal
    <3>1. wals'[p[1]] = wals[p[1]]
      BY <1>1, <2>2, <2>4
    <3>2. <<p[1], p[2]>> \in Place'
      BY <2>2, <3>1, NextPlacesTyped DEF PlaceHas
    <3>3. RecAt(p)' = RecAt(p)
      BY <3>1 DEF RecAt
    <3>4. p[1] < wal
      BY <1>1, <2>1, <2>2, <2>4
    <3>5. Before(p, NextPlace) /\ ~Before(NextPlace, p)
      BY <1>1, <1>3, <2>2, <3>4 DEF Before
    <3> QED  BY <2>2, <3>2, <3>3, <3>5
  <2> QED  BY <2>3, <2>4
<1>7. ASSUME NEW p \in Place' PROVE p \in Place \/ p = NextPlace
  <2>1. PlaceTyped(p)'
    BY NextPlacesTyped
  <2>2. p = <<p[1], p[2]>> /\ p[1] \in DOMAIN wals /\ manifest.floor <= p[1] /\ p[2] \in 1 .. Len(wals'[p[1]].recs)
        /\ p[1] \in Nat /\ p[2] \in Nat
    BY <1>1, <2>1 DEF PlaceTyped
  <2>3. CASE p[2] \in 1 .. Len(wals[p[1]].recs)
    <3>1. <<p[1], p[2]>> \in Place
      BY <2>2, <2>3, PlacesTyped DEF PlaceHas
    <3> QED  BY <2>2, <3>1
  <2>4. CASE p[2] \notin 1 .. Len(wals[p[1]].recs)
    <3>1. p[1] = wal
      BY <1>1, <2>2, <2>4
    <3>2. p[2] = n + 1
      BY <1>1, <1>2, <2>2, <2>4, <3>1 DEF n
    <3> QED  BY <2>2, <3>1, <3>2 DEF NextPlace, n
  <2> QED  BY <2>3, <2>4
<1>8. ~Before(NextPlace, NextPlace)
  BY <1>1, <1>3 DEF Before
<1> QED  BY <1>2, <1>3, <1>4, <1>5, <1>6, <1>7, <1>8 DEF OnePlaceMore, n, b

\* What the value log keeps while a batch is appended.
LEMMA AppendVlogs ==
  ASSUME FilesInv, FilesInv', Serving, NEW large \in BOOLEAN, Appends(inflight'[1], large),
         manifest' = manifest, obsolete' = obsolete
  PROVE  /\ VlogsGrow /\ Young' = Young /\ Adopted' = Adopted
         /\ \A r : PayloadSafe(r) => PayloadSafe(r)'
<1> DEFINE b == inflight'[1]
<1>1. /\ vlogs[head].recs \in Seq(Payload) /\ head \in DOMAIN vlogs
      /\ vlogs[head].synced \in Nat /\ Len(vlogs[head].recs) \in Nat
  BY ActiveFiles, YoungFiles
<1>2. /\ DOMAIN vlogs' = DOMAIN vlogs /\ \A f \in DOMAIN vlogs : f # head => vlogs'[f] = vlogs[f]
      /\ b \in Batch
  BY <1>1 DEF Appends, Updated
<1>3. /\ vlogs[head].synced <= vlogs'[head].synced /\ Len(vlogs[head].recs) <= Len(vlogs'[head].recs)
      /\ \A i \in 1 .. Len(vlogs[head].recs) : vlogs'[head].recs[i] = vlogs[head].recs[i]
  <2>1. CASE large
    <3>1. [key |-> b.key, val |-> b.val] \in Payload
      BY <1>2 DEF Batch, Payload
    <3> DEFINE y == [key |-> b.key, val |-> b.val]
    <3>2. /\ vlogs'[head].recs = Append(vlogs[head].recs, y) /\ vlogs'[head].synced >= vlogs[head].synced
          /\ y \in Payload
      BY <2>1, <3>1 DEF Appends
    <3>3. vlogs'[head].synced \in Nat
      BY <1>1, <1>2, YoungFiles DEF FilesInv, DiskTypes, FileTypes, VlogFile
    <3> HIDE DEF y
    <3>4. /\ Len(vlogs'[head].recs) = Len(vlogs[head].recs) + 1
          /\ \A i \in 1 .. Len(vlogs[head].recs) : vlogs'[head].recs[i] = vlogs[head].recs[i]
      BY <1>1, <3>2, AppendProperties
    <3> QED  BY <1>1, <3>2, <3>3, <3>4
  <2>2. CASE ~large
    <3>1. vlogs' = vlogs
      BY <2>2 DEF Appends
    <3> QED  BY <1>1, <3>1
  <2> QED  BY <2>1, <2>2
<1>4. ASSUME NEW f \in DOMAIN vlogs
      PROVE  /\ vlogs[f].synced <= vlogs'[f].synced /\ Len(vlogs[f].recs) <= Len(vlogs'[f].recs)
             /\ \A i \in 1 .. Len(vlogs[f].recs) : vlogs'[f].recs[i] = vlogs[f].recs[i]
             /\ vlogs'[f].synced \in Nat
  <2>1. vlogs[f].synced \in Nat /\ Len(vlogs[f].recs) \in Nat
    BY YoungFiles
  <2>2. vlogs'[f].synced \in Nat
    BY <1>2 DEF FilesInv, DiskTypes, FileTypes, VlogFile
  <2>3. CASE f = head
    BY <1>3, <2>2, <2>3
  <2>4. CASE f # head
    BY <1>2, <2>1, <2>4
  <2> QED  BY <2>3, <2>4
<1>5. VlogsGrow
  BY <1>2, <1>4 DEF VlogsGrow
<1>6. Young' = Young /\ Adopted' = Adopted
  BY <1>2 DEF Young, Adopted
<1>7. ASSUME NEW r, PayloadSafe(r), r.file \in Young
      PROVE  r.pos \in 1 .. vlogs'[r.file].synced /\ vlogs'[r.file].recs[r.pos].key = r.key
  <2>1. r.file \in DOMAIN vlogs /\ r.pos \in 1 .. vlogs[r.file].synced /\ vlogs[r.file].recs[r.pos].key = r.key
    BY <1>7, YoungFiles DEF PayloadSafe
  <2>2. vlogs[r.file].synced \in Nat /\ vlogs[r.file].synced <= Len(vlogs[r.file].recs) /\ Len(vlogs[r.file].recs) \in Nat
    BY <2>1, YoungFiles
  <2>3. r.pos \in 1 .. Len(vlogs[r.file].recs)
    BY <2>1, <2>2
  <2> QED  BY <1>4, <2>1, <2>2, <2>3, SMTT(30)
<1>8. \A r : PayloadSafe(r) => PayloadSafe(r)'
  BY <1>6, <1>7 DEF PayloadSafe
<1> QED  BY <1>5, <1>6, <1>8

\* A batch is appended.
AppendLeaves ==
    /\ phase = "up" /\ inflight = <<>>
    /\ UNCHANGED <<ssts, manifest, opts, phase, wal, mem, imms, visible, head, obsolete, pinning,
                   failures, acked, promised>>

\* An append.
LEMMA AppendLogKept ==
  ASSUME FilesInv, FilesInv', LogInv, AppendLeaves, NEW large \in BOOLEAN, Appends(inflight'[1], large)
  PROVE  LogInv'
<1> DEFINE b == inflight'[1]
<1>1. Serving /\ phase = "up" /\ phase' = "up" /\ inflight = <<>> /\ opts' = opts /\ wal' = wal
      /\ manifest' = manifest /\ obsolete' = obsolete /\ visible' = visible /\ acked' = acked
      /\ mem' = mem /\ imms' = imms /\ promised' = promised /\ pinning' = pinning /\ head' = head
  BY DEF AppendLeaves, Serving
<1>2. OnePlaceMore(b)
  BY <1>1, AppendPlaces
<1>3. /\ VlogsGrow /\ Young' = Young /\ Adopted' = Adopted
      /\ \A r : PayloadSafe(r) => PayloadSafe(r)'
  BY <1>1, AppendVlogs
<1>4. /\ b \in Batch /\ b.seq = visible + 1 /\ inflight' = <<b>> /\ gray' = gray \cup {b}
      /\ (~large => b.file = Inline)
  BY DEF Appends
<1>5. visible \in Nat /\ manifest.flushed \in Nat /\ manifest.flushed <= visible /\ Inline \notin DOMAIN vlogs
  BY <1>1, OptionsTyped DEF FilesInv, MemoryTypes, DiskTypes, ManifestData, LogInv, Contained, ValueFiles
<1> HIDE DEF b
<1>6. ASSUME NEW p \in Place
      PROVE  /\ p \in Place' /\ RecAt(p)' = RecAt(p) /\ Before(p, NextPlace) /\ ~Before(NextPlace, p)
             /\ RecAt(p).seq \in Nat /\ RecAt(p).seq <= visible + 1
             /\ opts.sync = "relaxed" => RecAt(p).seq <= visible
             /\ RecAt(p).seq > manifest.flushed
             /\ p[1] \in DOMAIN wals /\ p[1] \in Nat /\ wals'[p[1]].synced = wals[p[1]].synced
  <2>1. PlaceTyped(p)
    BY PlacesTyped
  <2>2. wals'[p[1]].synced = wals[p[1]].synced
    BY <2>1 DEF PlaceTyped, Appends, Updated
  <2> QED  BY <1>1, <1>2, <2>1, <2>2 DEF OnePlaceMore, PlaceTyped, LogInv, LogBelow, LogAbove
<1>7. ASSUME NEW p \in Place'
      PROVE  /\ p \in Place \/ p = NextPlace
             /\ p = NextPlace => RecAt(p)' = b /\ ~Before(p, p)
  BY <1>2 DEF OnePlaceMore
<1>8. LogOrder'
  <2>1. ASSUME NEW p \in Place', NEW q \in Place', Before(p, q)
        PROVE  /\ RecAt(p)'.seq <= RecAt(q)'.seq
               /\ opts'.sync = "relaxed" => RecAt(p)'.seq < RecAt(q)'.seq
    <3>1. CASE p \in Place /\ q \in Place
      BY <1>1, <1>6, <2>1, <3>1 DEF LogInv, LogOrder
    <3>2. CASE p \in Place /\ q = NextPlace
      BY <1>1, <1>4, <1>5, <1>6, <1>7, <3>2
    <3>3. CASE p = NextPlace
      BY <1>6, <1>7, <2>1, <3>3
    <3> QED  BY <1>7, <3>1, <3>2, <3>3
  <2> QED  BY <2>1 DEF LogOrder, Before
<1>9. LogAbove'
  <2>1. \A p \in Place' : RecAt(p)'.seq > manifest'.flushed
    BY <1>1, <1>4, <1>5, <1>6, <1>7
  <2> QED  BY <2>1 DEF LogAbove
<1>10. LogBelow'
  <2>1. NextPlace = <<wal', Len(wals'[wal'].recs)>>
    BY <1>2 DEF OnePlaceMore, LastPlace
  <2>2. ASSUME NEW p \in Place'
        PROVE  /\ RecAt(p)'.seq <= visible' + 1
               /\ opts'.sync = "relaxed" /\ (inflight' = <<>> \/ p # <<wal', Len(wals'[wal'].recs)>>) =>
                    RecAt(p)'.seq <= visible'
    <3>1. CASE p \in Place
      BY <1>1, <1>6, <3>1
    <3>2. CASE p = NextPlace
      <4>1. inflight' # <<>>
        BY <1>4
      <4> DEFINE last == <<wal', Len(wals'[wal'].recs)>>
      <4>2. p = last
        BY <2>1, <3>2
      <4> HIDE DEF last
      <4>3. RecAt(p)'.seq <= visible' + 1
        BY <1>1, <1>4, <1>5, <1>7, <3>2
      <4>4. ~(opts'.sync = "relaxed" /\ (inflight' = <<>> \/ p # last))
        BY <4>1, <4>2
      <4> QED  BY <4>3, <4>4 DEF last
    <3> QED  BY <1>7, <3>1, <3>2
  <2>3. RecAt(<<wal, Len(wals[wal].recs)>>)' = b
    <3>1. LastPlace' = NextPlace /\ \A p : p = NextPlace => RecAt(p)' = b
      BY <1>2 DEF OnePlaceMore
    <3>2. PICK p : p = NextPlace /\ RecAt(p)' = b
      BY <3>1
    <3>3. <<wal', Len(wals'[wal'].recs)>> = p
      BY <2>1, <3>2
    <3>4. p[1] = wal' /\ p[2] = Len(wals'[wal'].recs)
      BY <3>3
    <3> QED  BY <3>2, <3>3, <3>4 DEF RecAt
  <2>4. wals'[wal'].recs # <<>>
    BY <1>1, <1>2 DEF OnePlaceMore
  <2>5. inflight'[1] = b
    BY <1>4
  <2> QED  BY <1>1, <1>4, <2>2, <2>3, <2>4, <2>5 DEF LogBelow
<1>11. LogKnown'
  <2>1. ASSUME NEW p \in Place' PROVE RecAt(p)' \in acked' \cup gray'
    BY <1>1, <1>4, <1>6, <1>7 DEF LogInv, LogKnown
  <2> QED  BY <2>1 DEF LogKnown
<1>12. ASSUME NEW p \in Place', RecAt(p)'.file # Inline PROVE PointsRight(p)'
  <2>1. CASE p \in Place
    <3>1. RecAt(p)' = RecAt(p)
      BY <1>6, <2>1
    <3>2. /\ RecAt(p).file \in DOMAIN vlogs /\ RecAt(p).file \in Adopted /\ RecAt(p).file \notin obsolete
          /\ \A t \in manifest.retired : RecAt(p).file = t.id => RecAt(p).seq <= t.at
          /\ RecAt(p).file # head => RecAt(p).seq <= visible
          /\ PointsRight(p)
      BY <1>1, <1>12, <2>1, <3>1, PointeeIs DEF LogInv, Pointers
    <3> DEFINE r == RecAt(p)
    <3>3. /\ r.pos \in 1 .. Len(vlogs[r.file].recs)
          /\ vlogs[r.file].recs[r.pos].key = r.key /\ vlogs[r.file].recs[r.pos].val = r.val
          /\ opts.sync = "always" => PayloadSafe(r)
      BY <1>1, <3>2 DEF PointsRight
    <3>4. /\ Len(vlogs[r.file].recs) <= Len(vlogs'[r.file].recs)
          /\ \A i \in 1 .. Len(vlogs[r.file].recs) : vlogs'[r.file].recs[i] = vlogs[r.file].recs[i]
      BY <1>3, <3>2 DEF VlogsGrow
    <3>5. Len(vlogs[r.file].recs) \in Nat /\ Len(vlogs'[r.file].recs) \in Nat
      <4>1. r.file \in DOMAIN vlogs /\ r.file \in DOMAIN vlogs'
        BY <1>3, <3>2 DEF VlogsGrow
      <4>2. vlogs[r.file].recs \in Seq(Payload) /\ vlogs'[r.file].recs \in Seq(Payload)
        BY <4>1 DEF FilesInv, DiskTypes, FileTypes, VlogFile
      <4> QED  BY <4>2, LenProperties
    <3>6. /\ r.pos \in 1 .. Len(vlogs'[r.file].recs)
          /\ vlogs'[r.file].recs[r.pos].key = r.key /\ vlogs'[r.file].recs[r.pos].val = r.val
      <4> HIDE DEF r
      <4>1. r.pos \in 1 .. Len(vlogs'[r.file].recs) /\ vlogs'[r.file].recs[r.pos] = vlogs[r.file].recs[r.pos]
        BY <3>3, <3>4, <3>5, SMTT(30)
      <4> QED  BY <3>3, <4>1
    <3>7. opts.sync = "always" => PayloadSafe(RecAt(p))'
      <4> SUFFICES ASSUME opts.sync = "always" PROVE PayloadSafe(RecAt(p))'
        OBVIOUS
      <4>1. PICK q : q = RecAt(p)
        OBVIOUS
      <4>2. PayloadSafe(q)'
        BY <1>3, <3>3, <4>1
      <4> QED  BY <3>1, <4>1, <4>2 DEF PayloadSafe
    <3> QED  BY <1>1, <1>3, <3>1, <3>2, <3>6, <3>7 DEF PointsRight
  <2>2. CASE p = NextPlace
    <3>1. RecAt(p)' = b
      BY <1>7, <1>2, <2>2 DEF OnePlaceMore
    <3>2. large /\ b.file = head
      BY <1>4, <1>12, <3>1 DEF Appends, b
    <3>3. /\ b.pos = Len(vlogs[head].recs) + 1
          /\ vlogs'[head].recs = Append(vlogs[head].recs, [key |-> b.key, val |-> b.val])
          /\ opts.sync = "always" => vlogs'[head].synced = Len(vlogs[head].recs) + 1
      BY <3>2 DEF Appends, b
    <3>4. [key |-> b.key, val |-> b.val] \in Payload
      BY <1>4 DEF Batch, Payload
    <3> DEFINE y == [key |-> b.key, val |-> b.val]
    <3>5. y \in Payload /\ y.key = b.key /\ y.val = b.val /\ vlogs'[head].recs = Append(vlogs[head].recs, y)
      BY <3>3, <3>4
    <3> HIDE DEF y
    <3>6. vlogs[head].recs \in Seq(Payload) /\ Len(vlogs[head].recs) \in Nat /\ head \in DOMAIN vlogs
      BY <1>1, ActiveFiles, YoungFiles
    <3>7. /\ Len(vlogs'[head].recs) = Len(vlogs[head].recs) + 1
          /\ vlogs'[head].recs[Len(vlogs[head].recs) + 1] = y
      BY <3>5, <3>6, AppendProperties
    <3>8. b.pos \in 1 .. Len(vlogs'[head].recs) /\ vlogs'[head].recs[b.pos] = y
      BY <3>3, <3>6, <3>7
    <3>9. opts.sync = "always" => b.pos \in 1 .. vlogs'[head].synced
      BY <3>3, <3>6
    <3>10. /\ head \in Adopted /\ head \notin obsolete /\ head \notin RetiredIds(manifest.retired)
      BY <1>1, <3>6 DEF FilesInv, ValueFiles, Adopted, Young
    <3>11. \A t \in manifest.retired : head # t.id
      BY <3>10 DEF RetiredIds
    <3> QED  BY <1>1, <1>3, <3>1, <3>2, <3>5, <3>8, <3>9, <3>10, <3>11 DEF PointsRight, PayloadSafe
  <2> QED  BY <1>7, <2>1, <2>2
<1>13. Pointers'
  BY <1>12 DEF Pointers, PointsRight, RecAt, PayloadSafe
<1>14. Flushed' = Flushed /\ Contents' = Contents
  BY <1>1 DEF Flushed, Contents
<1>15. Contained' /\ PinsCovered' /\ OpenedLogged' /\ Lost'
  <2>1. /\ \A r \in Flushed' : r.seq <= manifest'.flushed
        /\ Flushed' \subseteq acked' /\ promised' \subseteq acked'
        /\ opts'.sync = "always" => promised' = acked'
        /\ acked' = Contents' /\ manifest'.flushed <= visible'
        /\ \A r \in acked' : r.seq <= visible'
        /\ visible' <= manifest'.flushed \/ \E r \in acked' : visible' <= r.seq
    BY <1>1, <1>14 DEF LogInv, Contained
  <2>2. Contained'
    BY <2>1 DEF Contained
  <2>3. PinsCovered'
    BY <1>1 DEF LogInv, PinsCovered
  <2> QED  BY <1>1, <2>2, <2>3 DEF OpenedLogged, Lost, Serving
<1>16. ASSUME NEW p \in Place, RecAt(p).seq <= visible, Latest(p) PROVE Latest(p)'
  <2>1. ASSUME NEW q \in Place', Before(p, q) PROVE ~SameKey(RecAt(p)', RecAt(q)')
    <3>1. CASE q \in Place
      BY <1>6, <1>16, <2>1, <3>1 DEF Latest
    <3>2. CASE q = NextPlace
      BY <1>4, <1>5, <1>6, <1>7, <1>16, <3>2 DEF SameKey
    <3> QED  BY <1>7, <3>1, <3>2
  <2> QED  BY <2>1 DEF Latest, Before, SameKey
<1>17. ASSUME NEW p \in Place, Safe(p) PROVE Safe(p)'
  <2>1. ASSUME NEW q \in Place', ~Before(p, q)
        PROVE  q[2] <= wals'[q[1]].synced /\ PayloadSafe(RecAt(q))'
    <3>1. q \in Place
      BY <1>6, <1>7, <2>1
    <3>2. q[2] <= wals[q[1]].synced /\ PayloadSafe(RecAt(q))
      BY <1>17, <2>1, <3>1 DEF Safe
    <3>3. PICK r : r = RecAt(q)
      OBVIOUS
    <3>4. PayloadSafe(r)'
      BY <1>3, <3>2, <3>3
    <3>5. PayloadSafe(RecAt(q))'
      BY <1>6, <3>1, <3>3, <3>4 DEF PayloadSafe
    <3> QED  BY <1>6, <3>1, <3>2, <3>5
  <2> QED  BY <2>1 DEF Safe, Before, PayloadSafe, RecAt
<1>18. \A r \in acked : r.seq <= visible
  BY <1>1 DEF LogInv, Contained
<1>19. acked = Contents
  BY <1>1 DEF LogInv, Contained
<1>20. ASSUME NEW j \in DOMAIN imms', NEW r \in imms'[j].recs
       PROVE  \E p \in Place' : FrozenAt(r, j, p)'
  <2>1. PICK p \in Place : FrozenAt(r, j, p)
    BY <1>1 DEF LogInv, FrozenLogged
  <2>2. r.seq <= visible
    <3>1. r \in FrozenRecs(imms)
      BY <1>1, FrozenRecsIs
    <3> QED  BY <1>18, <1>19, <3>1, ContentsIs
  <2>3. Latest(p)'
    BY <1>16, <2>1, <2>2 DEF FrozenAt
  <2>4. ASSUME NEW q \in Place', q[1] > imms[j].wal PROVE RecAt(q)'.seq > r.seq
    <3>1. CASE q \in Place
      BY <1>6, <2>1, <2>4, <3>1 DEF FrozenAt
    <3>2. CASE q = NextPlace
      <4>1. r.seq \in Nat
        BY <1>6, <2>1 DEF FrozenAt
      <4> QED  BY <1>4, <1>5, <1>7, <2>2, <3>2, <4>1, <1>2 DEF OnePlaceMore
    <3> QED  BY <1>7, <3>1, <3>2
  <2>5. FrozenAt(r, j, p)'
    BY <1>1, <1>6, <2>1, <2>3, <2>4 DEF FrozenAt
  <2> QED  BY <1>6, <2>5
<1>21. ASSUME NEW r \in mem' PROVE \E p \in Place' : MemAt(r, p)'
  <2>1. PICK p \in Place : MemAt(r, p)
    BY <1>1 DEF LogInv, MemLogged
  <2>2. r.seq <= visible
    BY <1>1, <1>18, <1>19, ContentsIs
  <2>3. Latest(p)'
    BY <1>16, <2>1, <2>2 DEF MemAt
  <2>4. MemAt(r, p)'
    BY <1>1, <1>6, <2>1, <2>3 DEF MemAt
  <2> QED  BY <1>6, <2>4
<1>22. FrozenLogged' /\ MemLogged'
  BY <1>20, <1>21 DEF FrozenLogged, MemLogged, FrozenAt, MemAt, Latest, RecAt, SameKey, Before
<1>23. Durable'
  <2>1. ASSUME NEW r \in promised' \ Flushed'
        PROVE  \E p \in Place' : RecAt(p)' = r /\ Latest(p)' /\ Safe(p)'
    <3>1. PICK p \in Place : RecAt(p) = r /\ Latest(p) /\ Safe(p)
      BY <1>1, <1>14 DEF LogInv, Durable
    <3>2. r.seq <= visible
      BY <1>1, <1>18 DEF LogInv, Contained
    <3> QED  BY <1>6, <1>16, <1>17, <3>1, <3>2
  <2> QED  BY <2>1 DEF Durable, Latest, Safe, RecAt, Before
<1>24. Torn'
  <2> SUFFICES ASSUME faults' = 0
               PROVE  /\ \A id \in DOMAIN wals' : id <= wal'
                      /\ \A id \in DOMAIN wals' : ~wals'[id].torn
    BY DEF Torn, ReplayIds
  <2>1. \A id \in DOMAIN wals : ~wals[id].torn /\ id <= wal
    BY <1>1 DEF AppendLeaves, failures, LogInv, Torn
  <2>2. DOMAIN wals' = DOMAIN wals /\ wal \in DOMAIN wals
    BY <1>1, ActiveFiles DEF Appends, Updated
  <2>3. ASSUME NEW id \in DOMAIN wals' PROVE ~wals'[id].torn
    <3>1. CASE id = wal
      BY <2>1, <2>2, <3>1 DEF Appends
    <3>2. CASE id # wal
      BY <2>1, <2>2, <3>2 DEF Appends, Updated
    <3> QED  BY <3>1, <3>2
  <2> QED  BY <1>1, <2>1, <2>2, <2>3
<1> QED  BY <1>8, <1>9, <1>10, <1>11, <1>13, <1>15, <1>22, <1>23, <1>24 DEF LogInv

\* A client's batch.
LEMMA WriteLogKept ==
  ASSUME FilesInv, FilesInv', LogInv, NEW k \in opts.keys, NEW large \in opts.large, Write(k, large)
  PROVE  LogInv'
<1>1. /\ phase = "up" /\ visible < opts.seq /\ AppendBatch(k, <<crashes, visible + 1>>, large, TRUE)
      /\ k \in Keys /\ large \in BOOLEAN /\ <<crashes, visible + 1>> \in Nat \X Nat
  <2>1. crashes \in Nat /\ visible \in Nat
    BY OptionsTyped DEF FilesInv, MemoryTypes
  <2>2. <<crashes, visible + 1>> \in Nat \X Nat
    BY <2>1
  <2> QED  BY <2>2, OptionsTyped DEF Write
<1>2. Appends(inflight'[1], large)
  BY <1>1, AppendIs
<1>3. AppendLeaves
  BY DEF Write, AppendLeaves, aside, tree, vlogVars
<1> QED  BY <1>1, <1>2, <1>3, AppendLogKept

\* A relocation appends a batch too, or finds nothing to move.
LEMMA RelocateLogKept ==
  ASSUME FilesInv, FilesInv', LogInv, NEW i, Relocate(i)
  PROVE  LogInv'
<1>1. phase = "up"
  BY RelocateIs
<1>2. CASE RelocateLeaves /\ UNCHANGED <<wals, vlogs, inflight, gray>>
  <2>1. manifest' = manifest /\ pinning' = pinning
    BY <1>2 DEF RelocateLeaves
  <2>2. ManifestStands /\ PinsKept
    BY <2>1 DEF ManifestStands, PinsKept
  <2> QED  BY <1>1, <1>2, <2>1, <2>2, AloofKept DEF RelocateLeaves, QuietMemory, aside, tree, vlogVars, failures
<1>3. CASE RelocateLeaves /\ Appends(inflight'[1], TRUE) /\ inflight = <<>>
  <2>1. AppendLeaves
    BY <1>1, <1>3 DEF AppendLeaves, RelocateLeaves, aside, tree, vlogVars
  <2> QED  BY <1>3, <2>1, AppendLogKept
<1> QED  BY <1>2, <1>3, RelocateCases

-----------------------------------------------------------------------------
(* A batch is acknowledged                                                 *)

\* The batch in flight is the log's last record, above all that was acknowledged.
LEMMA InflightIs ==
  ASSUME FilesInv, LogInv, inflight # <<>>
  PROVE  /\ Serving /\ phase = "up" /\ LastPlace \in Place /\ RecAt(LastPlace) = inflight[1]
         /\ inflight[1].seq = visible + 1 /\ visible \in Nat /\ inflight[1] \in gray /\ inflight[1] \in Batch
         /\ \A r \in acked : r.seq <= visible /\ r.seq \in Nat
         /\ \A p \in Place : p # LastPlace => Before(p, LastPlace)
         /\ \A p \in Place : ~Before(LastPlace, p)
         /\ LastPlace[1] = wal /\ LastPlace[2] = Len(wals[wal].recs)
<1>1. Serving /\ phase = "up"
  BY BusyIsUp
<1>2. /\ wals[wal].recs # <<>> /\ wal \in DOMAIN wals /\ manifest.floor <= wal
      /\ wals[wal].recs \in Seq(Batch) /\ wal \in Nat
  BY <1>1, ActiveFiles DEF LogInv, LogBelow, FilesInv, Ids, WalFile
<1>3. Len(wals[wal].recs) \in 1 .. Len(wals[wal].recs) /\ Len(wals[wal].recs) \in Nat
  BY <1>2, EmptySeq, LenProperties
<1>4. LastPlace \in Place /\ LastPlace[1] = wal /\ LastPlace[2] = Len(wals[wal].recs)
  BY <1>2, <1>3, PlacesTyped DEF PlaceHas, LastPlace
<1>5. ASSUME NEW p \in Place PROVE ~Before(LastPlace, p) /\ (p # LastPlace => Before(p, LastPlace))
  <2>1. PlaceTyped(p) /\ p[1] <= wal
    BY <1>1, PlacesTyped, PlacesActive
  <2>2. ~Before(LastPlace, p)
    BY <1>2, <1>3, <1>4, <2>1 DEF Before, PlaceTyped
  <2>3. LastPlace \in Nat \X Nat /\ p \in Nat \X Nat
    BY <1>4, <2>1, PlacesTyped DEF PlaceTyped
  <2> QED  BY <2>2, <2>3, BeforeOrder
<1>6. \A r \in acked : r.seq <= visible /\ r.seq \in Nat
  BY <1>1, SMTT(30) DEF LogInv, Contained, FilesInv, MemoryTypes, Batch
<1>7. visible \in Nat /\ inflight[1] \in Batch
  BY OptionsTyped DEF FilesInv, MemoryTypes
<1>8. RecAt(LastPlace) = inflight[1] /\ inflight[1].seq = visible + 1 /\ inflight[1] \in gray
  BY DEF LogInv, LogBelow, LastPlace
<1> QED  BY <1>1, <1>4, <1>5, <1>6, <1>7, <1>8

\* An insert above all there is replaces nothing.
LEMMA InsertAbove ==
  ASSUME FilesInv, LogInv, inflight # <<>>, NEW recs \in SUBSET acked
  PROVE  Insert(recs, inflight[1]) = recs \cup {inflight[1]}
<1>1. ASSUME NEW q \in recs PROVE <<q.key, q.seq>> # <<inflight[1].key, inflight[1].seq>>
  <2>1. q.seq # inflight[1].seq
    BY InflightIs
  <2> QED  BY <2>1
<1> QED  BY <1>1 DEF Insert

\* What publishing a batch does, whether or not the memtable or the head turns.
Publishes ==
    /\ inflight # <<>> /\ Acknowledge
    /\ UNCHANGED <<opts, phase, manifest, obsolete, pinning>>
    /\ SamePlaces /\ Shrinks /\ FsyncsKept /\ VlogsGrow
    /\ opts.sync = "always" => \A id \in DOMAIN wals' : wals'[id].synced = Len(wals'[id].recs)
    /\ Contents' = Contents \cup {inflight[1]}

\* A publication keeps LogInv if it keeps the memtables' places.
LEMMA PublishesKept ==
  ASSUME FilesInv, FilesInv', LogInv, Publishes, FrozenLogged', MemLogged', Torn'
  PROVE  LogInv'
<1> DEFINE b == inflight[1]
<1>1. /\ Serving /\ phase = "up" /\ LastPlace \in Place /\ RecAt(LastPlace) = b
      /\ b.seq = visible + 1 /\ visible \in Nat /\ b \in Batch
      /\ \A r \in acked : r.seq <= visible /\ r.seq \in Nat
      /\ \A p \in Place : ~Before(LastPlace, p)
  BY InflightIs DEF Publishes
<1>2. /\ phase' = "up" /\ opts' = opts /\ manifest' = manifest /\ obsolete' = obsolete /\ pinning' = pinning
      /\ SamePlaces /\ Shrinks /\ FsyncsKept /\ VlogsGrow
  BY <1>1 DEF Publishes
<1>3. /\ visible' = visible + 1 /\ gray' = gray \ {b} /\ inflight' = <<>>
      /\ acked' = acked \cup {b}
      /\ promised' = IF opts.sync = "always" THEN promised \cup {b} ELSE promised
  <2>1. promised \subseteq acked /\ inflight # <<>>
    BY DEF LogInv, Contained, Publishes
  <2>2. Insert(acked, inflight[1]) = acked \cup {b} /\ Insert(promised, inflight[1]) = promised \cup {b}
    BY <2>1, InsertAbove
  <2> QED  BY <1>1, <2>2 DEF Publishes, Acknowledge
<1> HIDE DEF b
<1>4. LogOrder' /\ Flushed' = Flushed
  BY <1>2, ShrinksOrder DEF LogInv, Flushed
<1>5. LogAbove'
  <2>1. \A p \in Place' : RecAt(p)'.seq > manifest'.flushed
    BY <1>2 DEF LogInv, LogAbove, SamePlaces
  <2> QED  BY <2>1 DEF LogAbove
<1>6. LogKnown'
  <2>1. \A p \in Place' : RecAt(p)' \in acked' \cup gray'
    BY <1>1, <1>2, <1>3 DEF LogInv, LogKnown, SamePlaces
  <2> QED  BY <2>1 DEF LogKnown
<1>7. \A p \in Place' : RecAt(p)'.seq <= visible' /\ RecAt(p).seq <= visible' /\ RecAt(p)'.seq \in Nat
  <2>1. ASSUME NEW p \in Place' PROVE RecAt(p)'.seq <= visible' /\ RecAt(p)' = RecAt(p) /\ RecAt(p).seq \in Nat
    <3>1. RecAt(p)' = RecAt(p) /\ p \in Place /\ PlaceTyped(p)
      BY <1>2, PlacesTyped DEF SamePlaces
    <3> QED  BY <1>1, <1>3, <3>1 DEF LogInv, LogBelow, PlaceTyped
  <2> QED  BY <2>1
<1>8. LogBelow'
  <2>1. visible' \in Nat
    BY <1>1, <1>3
  <2>2. \A p \in Place' : RecAt(p)'.seq <= visible' + 1
    BY <1>7, <2>1
  <2> QED  BY <1>2, <1>3, <1>7, <2>2 DEF LogBelow
<1>9. YoungKept /\ \A p \in Place' : PointsKept(p)
  BY <1>1, <1>2, <1>7, VlogsGrowKeep DEF LogInv
<1>10. Pointers'
  BY <1>1, <1>2, <1>9, UpPointers DEF LogInv
<1>11. Contained'
  <2>1. manifest.flushed \in Nat /\ manifest.flushed <= visible
    BY <1>1, OptionsTyped DEF FilesInv, DiskTypes, ManifestData, LogInv, Contained
  <2>2. acked = Contents /\ Flushed \subseteq acked /\ promised \subseteq acked
        /\ (opts.sync = "always" => promised = acked)
        /\ \A r \in Flushed : r.seq <= manifest.flushed
    BY <1>1 DEF LogInv, Contained
  <2>3. \A r \in acked' : r.seq <= visible'
    BY <1>1, <1>3
  <2>4. \E r \in acked' : visible' <= r.seq
    BY <1>1, <1>3
  <2>5. /\ \A r \in Flushed' : r.seq <= manifest'.flushed
        /\ Flushed' \subseteq acked' /\ promised' \subseteq acked'
        /\ opts'.sync = "always" => promised' = acked'
        /\ acked' = Contents' /\ manifest'.flushed <= visible'
    BY <1>1, <1>2, <1>3, <1>4, <2>1, <2>2 DEF Publishes, b
  <2> QED  BY <2>3, <2>4, <2>5 DEF Contained
<1>12. PinsCovered'
  <2>1. \A s \in manifest'.pins \cup pinning' : s <= manifest'.flushed \/ \E r \in promised' : s <= r.seq
    BY <1>2, <1>3 DEF LogInv, PinsCovered
  <2> QED  BY <2>1 DEF PinsCovered
<1>13. Durable'
  <2>1. ASSUME NEW r \in promised' \ Flushed'
        PROVE  \E p \in Place' : RecAt(p)' = r /\ Latest(p)' /\ Safe(p)'
    <3>1. CASE r \in promised
      BY <1>2, <1>4, <1>9, <3>1, DurableKept
    <3>2. CASE r \notin promised
      <4>1. opts.sync = "always" /\ r = b
        BY <1>3, <3>2
      <4>2. PICK p \in Place' : p = LastPlace
        BY <1>1, <1>2 DEF SamePlaces
      <4>3. RecAt(p)' = r /\ \A q \in Place' : ~Before(p, q)
        BY <1>1, <1>2, <4>1, <4>2 DEF SamePlaces
      <4>4. Latest(p)'
        BY <4>3 DEF Latest, Before
      <4>5. ASSUME NEW q \in Place' PROVE q[2] <= wals'[q[1]].synced /\ PayloadSafe(RecAt(q))'
        <5>1. PlaceTyped(q)'
          BY NextPlacesTyped
        <5>2. wals'[q[1]].synced = Len(wals'[q[1]].recs)
          BY <4>1, <5>1 DEF PlaceTyped, Publishes
        <5>3. q[2] <= wals'[q[1]].synced
          BY <5>1, <5>2 DEF PlaceTyped
        <5>4. RecAt(q)'.file # Inline => PayloadSafe(RecAt(q))'
          BY <1>2, <1>10, <4>1 DEF Pointers, PointsRight, RecAt, PayloadSafe
        <5>5. RecAt(q)'.file = Inline => PayloadSafe(RecAt(q))'
          BY DEF PayloadSafe, Young, FilesInv, ValueFiles
        <5> QED  BY <5>3, <5>4, <5>5
      <4>6. Safe(p)'
        BY <4>5 DEF Safe, Before
      <4> QED  BY <4>3, <4>4, <4>6
    <3> QED  BY <3>1, <3>2
  <2> QED  BY <2>1 DEF Durable, Latest, Safe, RecAt, Before
<1>14. OpenedLogged' /\ Lost'
  BY <1>2 DEF OpenedLogged, Lost, Serving
<1> QED  BY <1>4, <1>5, <1>6, <1>8, <1>10, <1>11, <1>12, <1>13, <1>14 DEF LogInv

\* The memtable with the batch in it is in the log, each record at its latest place.
LEMMA InsertLogged ==
  ASSUME FilesInv, LogInv, inflight # <<>>
  PROVE  /\ \A r \in mem \cup {inflight[1]} : \E p \in Place : MemAt(r, p)
         /\ mem \subseteq acked /\ Insert(mem, inflight[1]) = mem \cup {inflight[1]}
<1>1. ASSUME NEW r \in mem PROVE \E p \in Place : MemAt(r, p)
  BY DEF LogInv, MemLogged
<1>2. \E p \in Place : MemAt(inflight[1], p)
  <2>1. /\ LastPlace \in Place /\ RecAt(LastPlace) = inflight[1] /\ LastPlace[1] = wal /\ Serving
        /\ \A p \in Place : ~Before(LastPlace, p)
    BY InflightIs
  <2>2. Latest(LastPlace)
    BY <2>1 DEF Latest
  <2>3. \A l \in DOMAIN imms : imms[l].wal < LastPlace[1]
    BY <2>1, FrozenOrder
  <2> QED  BY <2>1, <2>2, <2>3 DEF MemAt
<1>3. mem \subseteq acked
  <2>1. acked = Contents
    BY InflightIs DEF LogInv, Contained
  <2> QED  BY <2>1, ContentsIs
<1>4. Insert(mem, inflight[1]) = mem \cup {inflight[1]}
  BY <1>3, InsertAbove
<1> QED  BY <1>1, <1>2, <1>3, <1>4

\* What is kept where it is when a batch is acknowledged.
LEMMA AckGrows ==
  ASSUME FilesInv, FilesInv', Serving, wals' = WalAtAck, manifest'.floor = manifest.floor
  PROVE  WalsGrow /\ SamePlaces /\ Shrinks /\ FsyncsKept
<1>1. \A id \in DOMAIN wals : wals[id].synced \in Nat /\ wals[id].synced <= Len(wals[id].recs)
  BY DEF FilesInv, DiskTypes, FileTypes, WalFile
<1>2. /\ DOMAIN wals' = DOMAIN wals
      /\ \A id \in DOMAIN wals : /\ wals'[id].recs = wals[id].recs /\ wals'[id].torn = wals[id].torn
                                 /\ wals'[id].synced \in {wals[id].synced, Len(wals[id].recs)}
  <2>1. ASSUME NEW id \in DOMAIN wals
        PROVE  /\ wals'[id].recs = wals[id].recs /\ wals'[id].torn = wals[id].torn
               /\ wals'[id].synced \in {wals[id].synced, Len(wals[id].recs)}
    <3>1. CASE id = wal
      BY <3>1, WalAtAckIs
    <3>2. CASE id # wal
      BY <3>2, WalAtAckIs
    <3> QED  BY <3>1, <3>2
  <2> QED  BY <2>1, WalAtAckIs
<1>3. WalsGrow
  BY <1>1, <1>2 DEF WalsGrow
<1>4. SamePlaces /\ Shrinks
  BY <1>3, SameRecords DEF WalsGrow
<1>5. FsyncsKept
  BY <1>3, <1>4, PlacesTyped DEF FsyncsKept, WalsGrow, PlaceTyped, Shrinks
<1> QED  BY <1>3, <1>4, <1>5

\* The head goes on, or is fsynced behind a new one.
LEMMA SideGrows ==
  ASSUME FilesInv, FilesInv', Serving, VlogSideKept, manifest' = manifest, obsolete' = obsolete,
         vlogs' = vlogs \/ head' # head
  PROVE  VlogsGrow
<1>1. ASSUME NEW f \in DOMAIN vlogs
      PROVE  /\ vlogs[f].synced <= vlogs'[f].synced /\ Len(vlogs[f].recs) <= Len(vlogs'[f].recs)
             /\ vlogs'[f].recs = vlogs[f].recs
  <2>1. vlogs[f].synced \in Nat /\ vlogs[f].synced <= Len(vlogs[f].recs) /\ Len(vlogs[f].recs) \in Nat
    BY YoungFiles
  <2>2. vlogs'[f].recs = vlogs[f].recs /\ f \in DOMAIN vlogs'
    BY DEF VlogSideKept
  <2>3. CASE vlogs' = vlogs
    BY <2>1, <2>3
  <2>4. CASE head' # head
    <3>1. f # head'
      BY <2>4 DEF VlogSideKept
    <3>2. vlogs'[f].synced = Len(vlogs'[f].recs)
      BY <2>2, <3>1 DEF VlogSideKept
    <3> QED  BY <2>1, <2>2, <3>2
  <2> QED  BY <2>3, <2>4
<1> QED  BY <1>1 DEF VlogsGrow, VlogSideKept

\* The publication, with the rotations that are due.
LEMMA PublishLogKept ==
  ASSUME FilesInv, FilesInv', LogInv, Publish \/ PublishHeadFails
  PROVE  LogInv'
<1> DEFINE b == inflight[1]
           mem1 == Insert(mem, inflight[1])
           full == Cardinality(mem1) >= opts.memtable_size
           turn == Len(vlogs[head].recs) >= opts.vlog_file_size
           id2  == IF full THEN nextId + 1 ELSE nextId
<1>0. Published
  BY DEF Publish, PublishHeadFails
<1>c. faults \in Nat /\ (faults' = faults \/ faults' = faults + 1)
  BY DEF Publish, PublishHeadFails, Fails, failures, FilesInv, MemoryTypes
<1>1. /\ inflight # <<>> /\ Acknowledge /\ opts' = opts /\ phase' = phase /\ manifest' = manifest
      /\ obsolete' = obsolete /\ pinning' = pinning /\ (faults' = 0 => faults = 0)
  <2>1. faults' = 0 => faults = 0
    BY <1>c
  <2> QED  BY <1>0, <2>1 DEF Published, aside
<1>2. /\ mem' = IF full THEN {} ELSE mem1
      /\ imms' = IF full THEN <<[wal |-> wal, recs |-> mem1]>> \o imms ELSE imms
      /\ wals' = IF full THEN Rotated(WalAtAck) ELSE WalAtAck
      /\ wal' = IF full THEN nextId ELSE wal
      /\ vlogs' = IF turn THEN With([vlogs EXCEPT ![head] = Synced(@)], id2, EmptyVlog) ELSE vlogs
      /\ head' = IF turn THEN id2 ELSE head
      /\ vmap' = IF turn THEN vmap \cup {id2} ELSE vmap
  BY <1>0 DEF Published, HeadIsFull
<1>3. Serving /\ phase = "up" /\ b \in Batch /\ mem1 = mem \cup {b} /\ mem \subseteq acked
  BY <1>1, InflightIs, InsertLogged
<1>4. /\ nextId \in Nat /\ wal \in Nat /\ wal < nextId /\ head \in Nat /\ head < nextId
      /\ nextId \notin DOMAIN wals /\ wal \in DOMAIN wals
  BY <1>3, ActiveFiles
<1>5. \A r \in mem1 : \E p \in Place : MemAt(r, p)
  BY <1>1, <1>3, InsertLogged
<1>6. mem1 \in SUBSET Batch
  BY <1>3 DEF FilesInv, MemoryTypes
<1> HIDE DEF b, mem1, full, turn
<1>7. VlogsGrow
  <2>1. CASE turn
    <3>1. id2 \in Nat /\ nextId <= id2 /\ head # id2
      BY <1>4
    <3> HIDE DEF id2
    <3>2. VlogSideKept
      BY <1>2, <1>3, <2>1, <3>1, TurnKeepsVlogSide
    <3> QED  BY <1>1, <1>2, <1>3, <2>1, <3>1, <3>2, SideGrows
  <2>2. CASE ~turn
    BY <1>1, <1>2, <2>2, SameVlogs
  <2> QED  BY <2>1, <2>2
<1>8. Flushed' = Flushed
  BY <1>1 DEF Flushed
<1>9. CASE full
  <2>1. wals' = Rotated(wals) /\ wal' = nextId /\ mem' = {}
    BY <1>2, <1>3, <1>9, RotatedIs
  <2>2. RotatedTo(wals')
    BY <1>3, <2>1, RotatedIs
  <2>3. WalsGrow /\ SamePlaces /\ Shrinks /\ FsyncsKept
    BY <1>1, <1>3, <2>2, RotatedGrows
  <2> DEFINE x == [wal |-> wal, recs |-> mem1]
  <2>4. x \in Frozen /\ x.wal = wal /\ x.recs = mem1 /\ imms' = <<x>> \o imms
    BY <1>2, <1>4, <1>6, <1>9 DEF Frozen
  <2>5. Prepended(x)
    BY <2>4, PrependIs
  <2> HIDE DEF x
  <2>6. FrozenLogged' /\ MemLogged'
    BY <1>3, <1>5, <2>1, <2>3, <2>4, <2>5, FrozenTurn
  <2>7. Contents' = Contents \cup {b}
    <3>1. Contents' = Flushed \cup x.recs \cup FrozenRecs(imms)
      BY <1>8, <2>1, <2>5, TurnContents
    <3> QED  BY <1>3, <2>4, <3>1, ContentsIs
  <2>8. \A id \in DOMAIN wals' : wals'[id].synced = Len(wals'[id].recs)
    <3>1. /\ Synced(wals[wal]).recs = wals[wal].recs /\ Synced(wals[wal]).synced = Len(wals[wal].recs)
      BY <1>3, ActiveFiles, SyncedWal
    <3>2. \A id \in DOMAIN wals : id # wal => wals[id].synced = Len(wals[id].recs)
      BY DEF FilesInv, Sealed
    <3> QED  BY <1>4, <2>2, <3>1, <3>2, EmptyFiles DEF RotatedTo
  <2>9. Torn'
    <3> SUFFICES ASSUME faults' = 0
                 PROVE  /\ \A id \in DOMAIN wals' : id <= wal'
                        /\ \A id \in DOMAIN wals' : ~wals'[id].torn
      BY DEF Torn, ReplayIds
    <3>1. \A id \in DOMAIN wals : ~wals[id].torn /\ id \in Nat /\ id < nextId
      BY <1>1, <1>3 DEF LogInv, Torn, FilesInv, Ids, DiskTypes, FileTypes
    <3>2. \A id \in DOMAIN wals' : id \in DOMAIN wals \/ id = nextId
      BY <2>2 DEF RotatedTo
    <3>3. \A id \in DOMAIN wals' : id <= wal'
      BY <1>4, <2>1, <3>1, <3>2
    <3>4. \A id \in DOMAIN wals' : ~wals'[id].torn
      BY <2>3, <3>1 DEF WalsGrow
    <3> QED  BY <3>3, <3>4
  <2>10. Publishes
    BY <1>1, <1>7, <2>3, <2>7, <2>8 DEF Publishes, b
  <2> QED  BY <2>6, <2>9, <2>10, PublishesKept
<1>10. CASE ~full
  <2>1. wals' = WalAtAck /\ wal' = wal /\ mem' = mem1 /\ imms' = imms
    BY <1>2, <1>10
  <2>2. WalsGrow /\ SamePlaces /\ Shrinks /\ FsyncsKept
    BY <1>1, <1>3, <2>1, AckGrows
  <2>3. FrozenLogged' /\ MemLogged'
    <3>1. ASSUME NEW j \in DOMAIN imms', NEW r \in imms'[j].recs
          PROVE  \E p \in Place' : FrozenAt(r, j, p)'
      <4>1. PICK p \in Place : FrozenAt(r, j, p)
        BY <2>1 DEF LogInv, FrozenLogged
      <4>2. FrozenAt(r, j, p)'
        BY <2>1, <2>2, <4>1 DEF FrozenAt, SamePlaces, Latest
      <4> QED  BY <2>2, <4>2 DEF SamePlaces
    <3>2. ASSUME NEW r \in mem'
          PROVE  \E p \in Place' : MemAt(r, p)'
      <4>1. PICK p \in Place : MemAt(r, p)
        BY <1>5, <2>1
      <4>2. MemAt(r, p)'
        BY <2>1, <2>2, <4>1 DEF MemAt, SamePlaces, Latest
      <4> QED  BY <2>2, <4>2 DEF SamePlaces
    <3> QED  BY <3>1, <3>2 DEF FrozenLogged, MemLogged, FrozenAt, MemAt, Latest, RecAt, SameKey, Before
  <2>4. Contents' = Contents \cup {b}
    BY <1>3, <1>8, <2>1, ContentsIs
  <2>5. opts.sync = "always" => \A id \in DOMAIN wals' : wals'[id].synced = Len(wals'[id].recs)
    <3> SUFFICES ASSUME opts.sync = "always", NEW id \in DOMAIN wals' PROVE wals'[id].synced = Len(wals'[id].recs)
      OBVIOUS
    <3>1. id \in DOMAIN wals
      BY <1>3, <2>1, WalAtAckIs
    <3>2. CASE id = wal
      BY <1>3, <2>1, <3>2, WalAtAckIs
    <3>3. CASE id # wal
      BY <1>3, <2>1, <3>1, <3>3, WalAtAckIs DEF FilesInv, Sealed
    <3> QED  BY <3>2, <3>3
  <2>6. Torn'
    <3> SUFFICES ASSUME faults' = 0
                 PROVE  /\ \A id \in DOMAIN wals' : id <= wal'
                        /\ \A id \in DOMAIN wals' : ~wals'[id].torn
      BY DEF Torn, ReplayIds
    <3>1. \A id \in DOMAIN wals : ~wals[id].torn /\ id <= wal
      BY <1>1, <1>3 DEF LogInv, Torn
    <3>2. DOMAIN wals' = DOMAIN wals
      BY <1>3, <2>1, WalAtAckIs
    <3> QED  BY <2>1, <2>2, <3>1, <3>2 DEF WalsGrow
  <2>7. Publishes
    BY <1>1, <1>7, <2>2, <2>4, <2>5 DEF Publishes, b
  <2> QED  BY <2>3, <2>6, <2>7, PublishesKept
<1> QED  BY <1>9, <1>10

\* The same when the rotation fails.
LEMMA PublishRotateFailsLogKept ==
  ASSUME FilesInv, FilesInv', LogInv, PublishRotateFails
  PROVE  LogInv'
<1>1. /\ inflight # <<>> /\ Acknowledge /\ mem' = Insert(mem, inflight[1])
      /\ wals' = Rotated(WalAtAck) /\ faults' = faults + 1 /\ faults \in Nat
      /\ UNCHANGED <<vlogs, opts, manifest, phase, wal, imms, obsolete, pinning>>
  BY DEF PublishRotateFails, Fails, Degrade, aside, vlogVars, FilesInv, MemoryTypes
<1>2. Serving /\ phase = "up" /\ mem' = mem \cup {inflight[1]}
  BY <1>1, InflightIs, InsertLogged
<1>3. RotatedTo(wals')
  BY <1>1, <1>2, RotatedIs
<1>4. WalsGrow /\ SamePlaces /\ Shrinks /\ FsyncsKept
  BY <1>1, <1>2, <1>3, RotatedGrows
<1>5. FrozenLogged' /\ MemLogged'
  <2>1. ASSUME NEW j \in DOMAIN imms', NEW r \in imms'[j].recs
        PROVE  \E p \in Place' : FrozenAt(r, j, p)'
    <3>1. PICK p \in Place : FrozenAt(r, j, p)
      BY <1>1 DEF LogInv, FrozenLogged
    <3>2. FrozenAt(r, j, p)'
      BY <1>1, <1>4, <3>1 DEF FrozenAt, SamePlaces, Latest
    <3> QED  BY <1>4, <3>2 DEF SamePlaces
  <2>2. ASSUME NEW r \in mem'
        PROVE  \E p \in Place' : MemAt(r, p)'
    <3>1. PICK p \in Place : MemAt(r, p)
      BY <1>1, <1>2, InsertLogged
    <3>2. MemAt(r, p)'
      BY <1>1, <1>4, <3>1 DEF MemAt, SamePlaces, Latest
    <3> QED  BY <1>4, <3>2 DEF SamePlaces
  <2> QED  BY <2>1, <2>2 DEF FrozenLogged, MemLogged, FrozenAt, MemAt, Latest, RecAt, SameKey, Before
<1>6. Flushed' = Flushed /\ VlogsGrow
  BY <1>1, SameVlogs DEF Flushed
<1>7. Contents' = Contents \cup {inflight[1]}
  BY <1>1, <1>2, <1>6, ContentsIs
<1>8. \A id \in DOMAIN wals' : wals'[id].synced = Len(wals'[id].recs)
  <2>1. /\ Synced(wals[wal]).recs = wals[wal].recs /\ Synced(wals[wal]).synced = Len(wals[wal].recs)
    BY <1>2, ActiveFiles, SyncedWal
  <2>2. \A id \in DOMAIN wals : id # wal => wals[id].synced = Len(wals[id].recs)
    BY DEF FilesInv, Sealed
  <2> QED  BY <1>2, <1>3, <2>1, <2>2, EmptyFiles, ActiveFiles DEF RotatedTo
<1>9. Torn'
  BY <1>1 DEF Torn
<1>10. Publishes
  BY <1>1, <1>4, <1>6, <1>7, <1>8 DEF Publishes
<1> QED  BY <1>5, <1>9, <1>10, PublishesKept

\* The last record of the active WAL goes.
OnePlaceLess ==
    /\ Place' = Place \ {LastPlace} /\ Shrinks /\ FsyncsKept
    /\ \A p \in Place' : RecAt(p) \in Logged(wals')

\* A failed append takes the last place away.
LEMMA RetractPlaces ==
  ASSUME FilesInv, FilesInv', LogInv, AppendFails
  PROVE  OnePlaceLess
<1>1. /\ Retracts /\ Serving /\ manifest' = manifest /\ wal' = wal /\ inflight # <<>>
  BY AppendFailsIs DEF AppendFails
<1>2. LastPlace[1] = wal /\ LastPlace[2] = Len(wals[wal].recs) /\ wal \in DOMAIN wals /\ wal \in Nat
  BY <1>1, InflightIs, ActiveFiles
<1> DEFINE n == Len(wals[wal].recs)
<1>3. /\ n \in Nat /\ Len(wals'[wal].recs) = n - 1 /\ DOMAIN wals' = DOMAIN wals
      /\ \A i \in 1 .. n - 1 : wals'[wal].recs[i] = wals[wal].recs[i]
      /\ \A id \in DOMAIN wals : id # wal => wals'[id] = wals[id]
      /\ wals'[wal].synced = wals[wal].synced
  BY <1>1, <1>2 DEF Retracts, Updated
<1>4. ASSUME NEW p \in Place' PROVE p \in Place /\ p # LastPlace /\ RecAt(p)' = RecAt(p)
  <2>1. PlaceTyped(p)'
    BY NextPlacesTyped
  <2>2. p = <<p[1], p[2]>> /\ p[1] \in DOMAIN wals /\ manifest.floor <= p[1] /\ p[2] \in 1 .. Len(wals'[p[1]].recs)
        /\ p[1] \in Nat /\ p[2] \in Nat
    BY <1>1, <1>3, <2>1 DEF PlaceTyped
  <2>3. p[2] \in 1 .. Len(wals[p[1]].recs) /\ RecAt(p)' = RecAt(p) /\ (p[1] = wal => p[2] # n)
    <3>1. CASE p[1] = wal
      BY <1>3, <2>2, <3>1 DEF RecAt
    <3>2. CASE p[1] # wal
      BY <1>3, <2>2, <3>2 DEF RecAt
    <3> QED  BY <3>1, <3>2
  <2>4. <<p[1], p[2]>> \in Place
    BY <2>2, <2>3, PlacesTyped DEF PlaceHas
  <2> QED  BY <1>2, <2>2, <2>3, <2>4
<1>5. ASSUME NEW p \in Place, p # LastPlace PROVE p \in Place'
  <2>1. PlaceTyped(p)
    BY PlacesTyped
  <2>2. p = <<p[1], p[2]>> /\ p[1] \in DOMAIN wals' /\ manifest'.floor <= p[1] /\ p[2] \in 1 .. Len(wals[p[1]].recs)
        /\ p[1] \in Nat /\ p[2] \in Nat
    BY <1>1, <1>3, <2>1 DEF PlaceTyped
  <2>3. ~(p[1] = wal /\ p[2] = n)
    BY <1>5, <2>2 DEF LastPlace
  <2>4. p[2] \in 1 .. Len(wals'[p[1]].recs)
    <3>1. CASE p[1] = wal
      BY <1>3, <2>2, <2>3, <3>1
    <3>2. CASE p[1] # wal
      BY <1>3, <2>2, <3>2
    <3> QED  BY <3>1, <3>2
  <2>5. <<p[1], p[2]>> \in Place'
    BY <2>2, <2>4, NextPlacesTyped DEF PlaceHas
  <2> QED  BY <2>2, <2>5
<1>6. Place' = Place \ {LastPlace} /\ Shrinks
  BY <1>4, <1>5 DEF Shrinks
<1>7. FsyncsKept
  <2>1. ASSUME NEW p \in Place' PROVE wals[p[1]].synced <= wals'[p[1]].synced
    <3>1. PlaceTyped(p) /\ wals'[p[1]].synced = wals[p[1]].synced
      BY <1>3, <1>4, PlacesTyped DEF PlaceTyped
    <3> QED  BY <3>1 DEF PlaceTyped, FilesInv, DiskTypes, FileTypes, WalFile
  <2> QED  BY <2>1 DEF FsyncsKept
<1>8. ASSUME NEW p \in Place' PROVE RecAt(p) \in Logged(wals')
  <2>1. PlaceTyped(p)' /\ RecAt(p)' = RecAt(p)
    BY <1>4, NextPlacesTyped
  <2>2. p[1] \in DOMAIN wals' /\ p[2] \in DOMAIN wals'[p[1]].recs
    BY <2>1, NextPlacesTyped DEF PlaceTyped, PlaceHas
  <2>3. RecAt(p)' \in Range(wals'[p[1]].recs)
    BY <2>2 DEF RecAt, Range
  <2> DEFINE F == {Range(wals'[id].recs) : id \in DOMAIN wals'}
  <2>4. Range(wals'[p[1]].recs) \in F
    BY <2>2
  <2>5. Logged(wals') = UNION F
    BY DEF Logged
  <2> HIDE DEF F
  <2> QED  BY <2>1, <2>3, <2>4, <2>5
<1> QED  BY <1>6, <1>7, <1>8 DEF OnePlaceLess

\* A batch that cannot be written leaves no record.
LEMMA AppendFailsLogKept ==
  ASSUME FilesInv, FilesInv', LogInv, AppendFails
  PROVE  LogInv'
<1>1. /\ phase = "up" /\ Serving /\ phase' = "up" /\ inflight # <<>> /\ inflight' = <<>> /\ faults' = faults + 1
      /\ faults \in Nat /\ gray' = IF inflight[1] \in Logged(wals') THEN gray ELSE gray \ {inflight[1]}
      /\ UNCHANGED <<vlogs, manifest, opts, wal, mem, imms, visible, head, obsolete, pinning, acked, promised>>
  BY AppendFailsIs DEF AppendFails, Fails, Abort, aside, tree, vlogVars, FilesInv, MemoryTypes
<1>2. Place' = Place \ {LastPlace} /\ Shrinks /\ FsyncsKept
  BY RetractPlaces DEF OnePlaceLess
<1>3. ASSUME NEW p \in Place'
      PROVE  /\ p \in Place /\ p # LastPlace /\ RecAt(p)' = RecAt(p) /\ RecAt(p) \in Logged(wals')
             /\ RecAt(p).seq <= visible + 1 /\ (opts.sync = "relaxed" => RecAt(p).seq <= visible)
             /\ RecAt(p) \in acked' \cup gray'
  <2>1. p \in Place /\ p # LastPlace /\ RecAt(p)' = RecAt(p) /\ RecAt(p) \in Logged(wals')
    BY RetractPlaces DEF OnePlaceLess, Shrinks
  <2>2. RecAt(p).seq <= visible + 1 /\ (opts.sync = "relaxed" => RecAt(p).seq <= visible)
    BY <1>1, <2>1 DEF LogInv, LogBelow, LastPlace
  <2>3. RecAt(p) \in acked' \cup gray'
    BY <1>1, <2>1 DEF LogInv, LogKnown
  <2> QED  BY <2>1, <2>2, <2>3
<1>4. ASSUME NEW p \in Place, RecAt(p) \in acked PROVE p \in Place' /\ RecAt(p)' = RecAt(p)
  <2>1. p # LastPlace
    <3> SUFFICES ASSUME p = LastPlace PROVE FALSE
      OBVIOUS
    <3>1. RecAt(LastPlace).seq = visible + 1 /\ visible \in Nat /\ \A r \in acked : r.seq <= visible
      BY <1>1, InflightIs
    <3> QED  BY <1>4, <3>1
  <2> QED  BY <1>2, <1>3, <2>1
<1>5. Contents \subseteq acked /\ Flushed' = Flushed /\ Contents' = Contents
  BY <1>1 DEF LogInv, Contained, Flushed, Contents
<1>6. LogOrder'
  BY <1>1, <1>2, ShrinksOrder DEF LogInv
<1>7. LogAbove'
  <2>1. \A p \in Place' : RecAt(p)'.seq > manifest'.flushed
    BY <1>1, <1>3 DEF LogInv, LogAbove
  <2> QED  BY <2>1 DEF LogAbove
<1>8. LogKnown'
  <2>1. \A p \in Place' : RecAt(p)' \in acked' \cup gray'
    BY <1>3
  <2> QED  BY <2>1 DEF LogKnown
<1>9. LogBelow'
  <2>1. \A p \in Place' : RecAt(p)'.seq <= visible' + 1 /\ (opts'.sync = "relaxed" => RecAt(p)'.seq <= visible')
    BY <1>1, <1>3
  <2> QED  BY <1>1, <2>1 DEF LogBelow
<1>10. YoungKept /\ \A p \in Place' : PointsKept(p)
  <2>1. VlogsGrow
    BY <1>1, SameVlogs
  <2>2. visible <= visible'
    BY <1>1, OptionsTyped DEF FilesInv, MemoryTypes
  <2> QED  BY <1>1, <1>2, <2>1, <2>2, VlogsGrowKeep DEF LogInv
<1>11. Pointers'
  BY <1>1, <1>2, <1>10, UpPointers DEF LogInv
<1>12. Contained'
  <2>1. /\ \A r \in Flushed' : r.seq <= manifest'.flushed
        /\ Flushed' \subseteq acked' /\ promised' \subseteq acked'
        /\ opts'.sync = "always" => promised' = acked'
        /\ acked' = Contents' /\ manifest'.flushed <= visible'
        /\ \A r \in acked' : r.seq <= visible'
        /\ visible' <= manifest'.flushed \/ \E r \in acked' : visible' <= r.seq
    BY <1>1, <1>5 DEF LogInv, Contained
  <2> QED  BY <2>1 DEF Contained
<1>13. \A p \in Place' : Latest(p) => Latest(p)'
  BY <1>2, <1>10, ShrinksKeeps
<1>14. FrozenLogged' /\ MemLogged'
  <2>1. ASSUME NEW j \in DOMAIN imms', NEW r \in imms'[j].recs
        PROVE  \E p \in Place' : FrozenAt(r, j, p)'
    <3>1. PICK p \in Place : FrozenAt(r, j, p)
      BY <1>1 DEF LogInv, FrozenLogged
    <3>2. r \in acked
      <4>1. r \in FrozenRecs(imms)
        BY <1>1, FrozenRecsIs
      <4> QED  BY <1>5, <4>1, ContentsIs
    <3>3. p \in Place' /\ RecAt(p)' = RecAt(p)
      BY <1>4, <3>1, <3>2 DEF FrozenAt
    <3>4. FrozenAt(r, j, p)'
      BY <1>1, <1>3, <1>13, <3>1, <3>3 DEF FrozenAt
    <3> QED  BY <3>3, <3>4
  <2>2. ASSUME NEW r \in mem'
        PROVE  \E p \in Place' : MemAt(r, p)'
    <3>1. PICK p \in Place : MemAt(r, p)
      BY <1>1 DEF LogInv, MemLogged
    <3>2. r \in acked
      BY <1>1, <1>5, ContentsIs
    <3>3. p \in Place' /\ RecAt(p)' = RecAt(p)
      BY <1>4, <3>1, <3>2 DEF MemAt
    <3>4. MemAt(r, p)'
      BY <1>1, <1>13, <3>1, <3>3 DEF MemAt
    <3> QED  BY <3>3, <3>4
  <2> QED  BY <2>1, <2>2 DEF FrozenLogged, MemLogged, FrozenAt, MemAt, Latest, RecAt, SameKey, Before
<1>15. Durable'
  <2>1. ASSUME NEW r \in promised' \ Flushed'
        PROVE  \E p \in Place' : RecAt(p)' = r /\ Latest(p)' /\ Safe(p)'
    <3>1. r \in promised \ Flushed /\ r \in acked
      BY <1>1, <1>5 DEF LogInv, Contained
    <3>2. PICK p \in Place : RecAt(p) = r /\ Latest(p) /\ Safe(p)
      BY <3>1 DEF LogInv, Durable
    <3>3. p \in Place' /\ RecAt(p)' = r
      BY <1>4, <3>1, <3>2
    <3>4. Latest(p)' /\ Safe(p)'
      BY <1>2, <1>10, <3>2, <3>3, ShrinksKeeps
    <3> QED  BY <3>3, <3>4
  <2> QED  BY <2>1 DEF Durable, Latest, Safe, RecAt, Before
<1>16. PinsCovered'
  <2>1. \A s \in manifest'.pins \cup pinning' : s <= manifest'.flushed \/ \E r \in promised' : s <= r.seq
    BY <1>1 DEF LogInv, PinsCovered
  <2> QED  BY <2>1 DEF PinsCovered
<1>17. OpenedLogged' /\ Lost' /\ Torn'
  BY <1>1 DEF OpenedLogged, Lost, Serving, Torn
<1> QED  BY <1>6, <1>7, <1>8, <1>9, <1>11, <1>12, <1>14, <1>15, <1>16, <1>17 DEF LogInv

-----------------------------------------------------------------------------
(* A flush                                                                 *)

\* What the log keeps is what lies above the flushed memtable's WAL.
LEMMA FlushPlaces ==
  ASSUME FilesInv, FilesInv', LogInv, Flush
  PROVE  /\ \A p \in Place' : p \in Place /\ Last(imms).wal < p[1]
         /\ \A p \in Place : Last(imms).wal < p[1] => p \in Place'
         /\ Shrinks /\ FsyncsKept /\ Last(imms).wal \in Nat
         /\ \A id \in DOMAIN wals' : id \in DOMAIN wals /\ wals'[id] = wals[id] /\ ~(id <= Last(imms).wal)
         /\ wals'[wal] = wals[wal]
<1>1. /\ imms # <<>> /\ Serving
      /\ wals' = Keep(wals, {id \in DOMAIN wals : id >= FlushedFloor}) /\ manifest'.floor = FlushedFloor
  BY FlushManifestIs DEF Flush, Serving, FlushedFloor, FloorAfter, FlushManifest
<1> DEFINE X == Last(imms).wal
<1>2. /\ X \in Nat /\ FlushedFloor \in Nat /\ manifest.floor <= FlushedFloor /\ X < FlushedFloor
      /\ FlushedFloor = manifest.floor \/ FlushedFloor = X + 1
      /\ FlushedFloor <= wal /\ wal \in DOMAIN wals
  BY <1>1, FlushIs, ActiveFiles DEF Frozen
<1>3. /\ DOMAIN wals' = {id \in DOMAIN wals : id >= FlushedFloor}
      /\ \A id \in DOMAIN wals' : wals'[id] = wals[id]
  <2> DEFINE K == {id \in DOMAIN wals : id >= FlushedFloor}
  <2>1. (DOMAIN wals) \cap K = K /\ wals' = Keep(wals, K)
    BY <1>1
  <2> HIDE DEF K
  <2>2. DOMAIN wals' = K /\ \A id \in DOMAIN wals' : wals'[id] = wals[id]
    BY <2>1, KeepIs
  <2> QED  BY <2>2 DEF K
<1> HIDE DEF X
<1>4. ASSUME NEW p \in Place' PROVE p \in Place /\ X < p[1] /\ RecAt(p)' = RecAt(p) /\ wals'[p[1]] = wals[p[1]]
  <2>1. PlaceTyped(p)'
    BY NextPlacesTyped
  <2>2. p = <<p[1], p[2]>> /\ p[1] \in DOMAIN wals' /\ manifest'.floor <= p[1] /\ p[2] \in 1 .. Len(wals'[p[1]].recs)
        /\ p[1] \in Nat
    BY <2>1 DEF PlaceTyped
  <2>3. wals'[p[1]] = wals[p[1]] /\ p[1] \in DOMAIN wals
    BY <1>3, <2>2
  <2>4. FlushedFloor <= p[1]
    BY <1>1, <2>2
  <2>5. X < p[1] /\ manifest.floor <= p[1]
    <3>1. manifest.floor \in Nat
      BY DEF FilesInv, DiskTypes, ManifestData
    <3> QED  BY <1>2, <2>2, <2>4, <3>1
  <2>6. <<p[1], p[2]>> \in Place
    BY <2>2, <2>3, <2>5, PlacesTyped DEF PlaceHas
  <2> QED  BY <2>2, <2>3, <2>5, <2>6 DEF RecAt
<1>5. ASSUME NEW p \in Place, X < p[1] PROVE p \in Place'
  <2>1. PlaceTyped(p)
    BY PlacesTyped
  <2>2. p = <<p[1], p[2]>> /\ p[1] \in DOMAIN wals /\ manifest.floor <= p[1] /\ p[2] \in 1 .. Len(wals[p[1]].recs)
        /\ p[1] \in Nat
    BY <2>1 DEF PlaceTyped
  <2>3. FlushedFloor <= p[1]
    BY <1>2, <1>5, <2>2
  <2>4. p[1] \in DOMAIN wals' /\ wals'[p[1]] = wals[p[1]] /\ manifest'.floor <= p[1]
    BY <1>1, <1>2, <1>3, <2>2, <2>3
  <2>5. <<p[1], p[2]>> \in Place'
    BY <2>2, <2>4, NextPlacesTyped DEF PlaceHas
  <2> QED  BY <2>2, <2>5
<1>6. Shrinks
  BY <1>4 DEF Shrinks
<1>7. FsyncsKept
  <2>1. ASSUME NEW p \in Place' PROVE wals[p[1]].synced <= wals'[p[1]].synced
    <3>1. PlaceTyped(p) /\ wals'[p[1]] = wals[p[1]]
      BY <1>4, PlacesTyped
    <3> QED  BY <3>1 DEF PlaceTyped, FilesInv, DiskTypes, FileTypes, WalFile
  <2> QED  BY <2>1 DEF FsyncsKept
<1>8. ASSUME NEW id \in DOMAIN wals' PROVE id \in DOMAIN wals /\ wals'[id] = wals[id] /\ ~(id <= X)
  <2>1. id \in DOMAIN wals /\ wals'[id] = wals[id] /\ id >= FlushedFloor
    BY <1>3
  <2>2. id \in Nat
    BY <2>1 DEF FilesInv, DiskTypes, FileTypes
  <2> QED  BY <1>2, <2>1, <2>2
<1>9. wals'[wal] = wals[wal]
  <2>1. wal \in Nat
    BY <1>1, ActiveFiles
  <2>2. wal \in DOMAIN wals'
    BY <1>2, <1>3, <2>1
  <2> QED  BY <1>3, <2>2
<1> QED  BY <1>2, <1>4, <1>5, <1>6, <1>7, <1>8, <1>9 DEF X

\* A flush shows what was shown, and the table holds what the memtable held.
LEMMA FlushContents ==
  ASSUME FilesInv, Flush
  PROVE  /\ Flushed' = Flushed \cup Last(imms).recs /\ Contents' = Contents
         /\ \A r \in Contents \ Flushed' : r \in mem \/ \E j \in 1 .. Len(imms) - 1 : r \in imms[j].recs
         /\ Last(imms).recs \subseteq Contents
<1>1. imms # <<>> /\ Serving /\ imms' = Front(imms) /\ mem' = mem
  BY DEF Flush, Serving
<1> DEFINE n == Len(imms)
<1>2. /\ n \in Nat \ {0} /\ Last(imms) = imms[n] /\ DOMAIN imms = 1 .. n /\ DOMAIN imms' = 1 .. n - 1
      /\ \A i \in 1 .. n - 1 : imms'[i] = imms[i]
  BY <1>1, FlushIs
<1> HIDE DEF n
<1>3. Flushed' = Flushed \cup Last(imms).recs
  <2> DEFINE run == [id |-> nextId, recs |-> Last(imms).recs]
  <2>1. manifest'.runs = manifest.runs \cup {run}
    BY FlushManifestIs DEF FlushManifest
  <2>2. run.recs = Last(imms).recs
    OBVIOUS
  <2> HIDE DEF run
  <2>3. ASSUME NEW r PROVE r \in Flushed' <=> r \in Flushed \/ r \in run.recs
    <3> DEFINE A == {q.recs : q \in manifest.runs}
               B == {q.recs : q \in manifest'.runs}
    <3>1. B = A \cup {run.recs}
      BY <2>1
    <3>2. Flushed = UNION A /\ Flushed' = UNION B
      BY DEF Flushed
    <3> HIDE DEF A, B
    <3> QED  BY <3>1, <3>2
  <2> QED  BY <2>2, <2>3
<1>4. ASSUME NEW r PROVE r \in FrozenRecs(imms) <=> r \in FrozenRecs(imms') \/ r \in Last(imms).recs
  <2>1. r \in FrozenRecs(imms) <=> \E j \in DOMAIN imms : r \in imms[j].recs
    BY FrozenRecsIs
  <2>2. r \in FrozenRecs(imms') <=> \E j \in DOMAIN imms' : r \in imms'[j].recs
    BY FrozenRecsIs
  <2>3. \A j \in 1 .. n : j = n \/ j \in 1 .. n - 1
    BY <1>2
  <2>4. n \in 1 .. n /\ \A j \in 1 .. n - 1 : j \in 1 .. n
    BY <1>2
  <2> QED  BY <1>2, <2>1, <2>2, <2>3, <2>4
<1>5. Contents' = Contents
  BY <1>1, <1>3, <1>4, ContentsIs
<1>6. ASSUME NEW r \in Contents, r \notin Flushed' PROVE r \in mem \/ \E j \in 1 .. n - 1 : r \in imms[j].recs
  <2>1. r \notin mem => r \in FrozenRecs(imms')
    BY <1>3, <1>4, <1>6, ContentsIs
  <2>2. r \in FrozenRecs(imms') <=> \E j \in DOMAIN imms' : r \in imms'[j].recs
    BY FrozenRecsIs
  <2> QED  BY <1>2, <2>1, <2>2
<1>7. Last(imms).recs \subseteq Contents
  BY <1>4, ContentsIs
<1> QED  BY <1>3, <1>5, <1>6, <1>7 DEF n

\* The latest place of an internal key is one.
LEMMA LatestIsOne ==
  ASSUME FilesInv, NEW p \in Place, NEW q \in Place, Latest(p), Latest(q), RecAt(p) = RecAt(q)
  PROVE  p = q
<1>1. p \in Nat \X Nat /\ q \in Nat \X Nat
  BY PlacesTyped DEF PlaceTyped
<1>2. SameKey(RecAt(p), RecAt(q)) /\ SameKey(RecAt(q), RecAt(p))
  BY DEF SameKey
<1> QED  BY <1>1, <1>2, BeforeOrder DEF Latest

\* Flush drops the log up to the memtable it has written, and nothing else.
LEMMA FlushLogKept ==
  ASSUME FilesInv, FilesInv', LogInv, Flush
  PROVE  LogInv'
<1> DEFINE imm == Last(imms)
           n == Len(imms)
<1>1. /\ imms # <<>> /\ Serving /\ phase \in {"up", "opened"} /\ vlogs' = SyncedHead /\ imms' = Front(imms)
      /\ UNCHANGED <<opts, phase, wal, mem, visible, head, obsolete, pinning, inflight, faults, acked, promised,
                     gray>>
  BY DEF Flush, Serving, SyncedHead, aside, vlogVars, failures, history
<1>2. /\ manifest'.flushed = Max({manifest.flushed} \cup {r.seq : r \in imm.recs})
      /\ manifest'.live = manifest.live /\ manifest'.head = manifest.head
      /\ manifest'.retired = manifest.retired /\ manifest'.pins = manifest.pins
  BY FlushManifestIs DEF FlushManifest
<1>3. /\ n \in Nat \ {0} /\ imm = imms[n] /\ DOMAIN imms = 1 .. n /\ DOMAIN imms' = 1 .. n - 1 /\ imm \in Frozen
      /\ \A i \in 1 .. n - 1 : imms'[i] = imms[i]
  BY <1>1, FlushIs
<1>4. /\ \A p \in Place' : p \in Place /\ imm.wal < p[1] /\ RecAt(p)' = RecAt(p)
      /\ \A p \in Place : imm.wal < p[1] => p \in Place'
      /\ Shrinks /\ FsyncsKept /\ imm.wal \in Nat
      /\ \A id \in DOMAIN wals' : id \in DOMAIN wals /\ wals'[id] = wals[id] /\ ~(id <= imm.wal)
      /\ wals'[wal] = wals[wal]
  BY FlushPlaces DEF Shrinks
<1>5. /\ Flushed' = Flushed \cup imm.recs /\ Contents' = Contents
      /\ \A r \in Contents \ Flushed' : r \in mem \/ \E j \in 1 .. n - 1 : r \in imms[j].recs
      /\ imm.recs \subseteq Contents
  BY FlushContents
<1>6. acked = Contents
  BY <1>1 DEF LogInv, Contained
<1>7. /\ manifest'.flushed \in Nat /\ manifest.flushed \in Nat /\ manifest.flushed <= manifest'.flushed
      /\ \A r \in imm.recs : r.seq <= manifest'.flushed /\ r.seq \in Nat
      /\ manifest'.flushed = manifest.flushed \/ \E r \in imm.recs : r.seq = manifest'.flushed
  <2>1. imm.recs \in SUBSET Batch /\ manifest.flushed \in 0 .. MaxSeq /\ MaxSeq \in Nat
    BY <1>3, OptionsTyped DEF Frozen, FilesInv, DiskTypes, ManifestData
  <2>2. \A r \in imm.recs : r.seq \in Nat
    BY <2>1 DEF Batch
  <2> HIDE DEF imm
  <2> DEFINE top == Max({manifest.flushed} \cup {r.seq : r \in imm.recs})
  <2>3. /\ top \in 0 .. MaxSeq /\ manifest.flushed <= top
        /\ \A r \in imm.recs : r.seq <= top
        /\ (top = manifest.flushed \/ \E r \in imm.recs : r.seq = top)
    BY <2>1, TopIs
  <2>4. manifest'.flushed = top
    BY <1>2
  <2> HIDE DEF top
  <2> QED  BY <2>1, <2>2, <2>3, <2>4
<1> HIDE DEF imm, n
<1>8. ASSUME phase = "opened" PROVE Place' = {} /\ imms' = <<>> /\ mem = {} /\ n = 1
  <2>1. n = 1 /\ \A p \in Place : p[1] <= imm.wal
    BY <1>1, <1>3, <1>8 DEF LogInv, OpenedLogged, n
  <2>2. \A p \in Place : ~(imm.wal < p[1])
    BY <1>4, <2>1, PlacesTyped DEF PlaceTyped
  <2>3. imms' = <<>> /\ mem = {}
    <3>1. imms' \in Seq(Frozen) /\ Len(imms') = 0 /\ mem = {}
      BY <1>1, <1>8, <2>1, FlushIs DEF n, FilesInv, Phases
    <3> QED  BY <3>1, EmptySeq
  <2> QED  BY <1>4, <2>1, <2>2, <2>3
<1>9. LogOrder'
  BY <1>1, <1>4, ShrinksOrder DEF LogInv
<1>10. LogAbove'
  <2>1. ASSUME NEW q \in Place' PROVE RecAt(q)'.seq > manifest'.flushed
    <3>1. RecAt(q).seq > manifest.flushed /\ RecAt(q).seq \in Nat
      BY <1>4, PlacesTyped DEF LogInv, LogAbove, PlaceTyped
    <3>2. ASSUME NEW r \in imm.recs PROVE RecAt(q).seq > r.seq
      <4>1. PICK p \in Place : FrozenAt(r, n, p)
        BY <1>3 DEF LogInv, FrozenLogged
      <4>2. q[1] > imms[n].wal
        BY <1>3, <1>4, PlacesTyped DEF PlaceTyped
      <4> QED  BY <1>4, <4>1, <4>2 DEF FrozenAt
    <3> QED  BY <1>4, <1>7, <3>1, <3>2
  <2> QED  BY <2>1 DEF LogAbove
<1>11. LogBelow'
  <2>1. ASSUME phase = "up", NEW p \in Place'
        PROVE  /\ RecAt(p)'.seq <= visible' + 1
               /\ opts'.sync = "relaxed" /\ (inflight' = <<>> \/ p # <<wal', Len(wals'[wal'].recs)>>) =>
                    RecAt(p)'.seq <= visible'
    BY <1>1, <1>4, <2>1 DEF LogInv, LogBelow
  <2>2. inflight' # <<>> => /\ wals'[wal'].recs # <<>>
                            /\ RecAt(<<wal', Len(wals'[wal'].recs)>>) = inflight'[1]
                            /\ inflight'[1].seq = visible' + 1 /\ inflight'[1] \in gray'
    BY <1>1, <1>4 DEF LogInv, LogBelow
  <2>3. inflight' # <<>> => RecAt(<<wal, Len(wals[wal].recs)>>)' = inflight'[1]
    BY <1>1, <1>4, <2>2 DEF RecAt
  <2>4. phase' = "opened" => wals'[wal'].recs = <<>> /\ ~wals'[wal'].torn
    BY <1>1, <1>4 DEF LogInv, LogBelow
  <2>5. phase' # "sweep"
    BY <1>1
  <2>6. inflight' # <<>> => /\ wals'[wal'].recs # <<>>
                            /\ RecAt(<<wal, Len(wals[wal].recs)>>)' = inflight'[1]
                            /\ inflight'[1].seq = visible' + 1 /\ inflight'[1] \in gray'
    BY <2>2, <2>3
  <2> QED  BY <1>1, <2>1, <2>4, <2>5, <2>6 DEF LogBelow
<1>12. LogKnown'
  <2>1. ASSUME NEW p \in Place' PROVE RecAt(p)' \in acked' \cup gray'
    <3>1. phase = "up"
      BY <1>1, <1>8
    <3> QED  BY <1>1, <1>4, <3>1 DEF LogInv, LogKnown
  <2> QED  BY <2>1 DEF LogKnown
<1>13. YoungKept /\ (phase = "up" => \A p \in Place' : PointsKept(p))
  <2>1. CASE phase = "opened"
    BY <1>8, <2>1 DEF YoungKept
  <2>2. CASE phase = "up"
    <3>1. VlogsGrow
      <4>1. \A f \in DOMAIN vlogs : vlogs[f].synced <= vlogs'[f].synced /\ Len(vlogs[f].recs) <= Len(vlogs'[f].recs)
                                    /\ vlogs'[f].recs = vlogs[f].recs
        BY <1>1, SyncedHeadIs, YoungFiles
      <4>2. DOMAIN vlogs' = DOMAIN vlogs
        BY <1>1, SyncedHeadIs
      <4> QED  BY <1>1, <1>2, <4>1, <4>2 DEF VlogsGrow
    <3>2. visible <= visible'
      BY <1>1, OptionsTyped DEF FilesInv, MemoryTypes
    <3> QED  BY <1>1, <1>4, <2>2, <3>1, <3>2, VlogsGrowKeep DEF LogInv
  <2> QED  BY <1>1, <2>1, <2>2
<1>14. Pointers'
  <2>1. CASE phase = "opened"
    BY <1>8, <2>1 DEF Pointers
  <2>2. CASE phase = "up"
    BY <1>1, <1>4, <1>13, <2>2, UpPointers DEF LogInv
  <2> QED  BY <1>1, <2>1, <2>2
<1>15. Contained'
  <2>1. /\ Flushed \subseteq acked /\ promised \subseteq acked /\ manifest.flushed <= visible
        /\ \A r \in Flushed : r.seq <= manifest.flushed
        /\ opts.sync = "always" => promised = acked
        /\ \A r \in acked : r.seq <= visible
        /\ visible <= manifest.flushed \/ \E r \in acked : visible <= r.seq
    BY <1>1 DEF LogInv, Contained
  <2>6. visible \in Nat /\ \A r \in acked : r.seq \in Nat
    <3>1. MaxSeq \in Nat /\ visible \in 0 .. MaxSeq /\ acked \in SUBSET Batch
      BY OptionsTyped DEF FilesInv, MemoryTypes
    <3> QED  BY <3>1 DEF Batch
  <2>2. \A r \in Flushed' : r.seq <= manifest'.flushed
    BY <1>5, <1>6, <1>7, <2>1, <2>6
  <2>3. manifest'.flushed <= visible
    BY <1>5, <1>6, <1>7, <2>1
  <2>4. visible <= manifest'.flushed \/ \E r \in acked : visible <= r.seq
    BY <1>7, <2>1, <2>6
  <2>5. Flushed' \subseteq acked
    BY <1>5, <1>6, <2>1
  <2> QED  BY <1>1, <1>5, <1>6, <2>1, <2>2, <2>3, <2>4, <2>5 DEF Contained
<1>16. \A p \in Place' : (Latest(p) => Latest(p)') /\ (Safe(p) => Safe(p)')
  BY <1>4, <1>13, ShrinksKeeps
<1>17. FrozenLogged' /\ MemLogged'
  <2>1. ASSUME NEW j \in DOMAIN imms', NEW r \in imms'[j].recs
        PROVE  \E p \in Place' : FrozenAt(r, j, p)'
    <3>1. j \in DOMAIN imms /\ imms'[j] = imms[j] /\ n \in DOMAIN imms /\ n > j
      BY <1>3
    <3>2. PICK p \in Place : FrozenAt(r, j, p)
      BY <3>1 DEF LogInv, FrozenLogged
    <3>3. p \in Place' /\ RecAt(p)' = RecAt(p)
      BY <1>3, <1>4, <3>1, <3>2 DEF FrozenAt
    <3>4. \A l \in DOMAIN imms' : l \in DOMAIN imms /\ imms'[l] = imms[l]
      BY <1>3
    <3>5. FrozenAt(r, j, p)'
      BY <1>4, <1>16, <3>1, <3>2, <3>3, <3>4 DEF FrozenAt
    <3> QED  BY <3>3, <3>5
  <2>2. ASSUME NEW r \in mem'
        PROVE  \E p \in Place' : MemAt(r, p)'
    <3>1. PICK p \in Place : MemAt(r, p)
      BY <1>1 DEF LogInv, MemLogged
    <3>2. n \in DOMAIN imms
      BY <1>3
    <3>3. p \in Place' /\ RecAt(p)' = RecAt(p)
      BY <1>3, <1>4, <3>1, <3>2 DEF MemAt
    <3>4. \A l \in DOMAIN imms' : l \in DOMAIN imms /\ imms'[l] = imms[l]
      BY <1>3
    <3>5. MemAt(r, p)'
      BY <1>16, <3>1, <3>3, <3>4 DEF MemAt
    <3> QED  BY <3>3, <3>5
  <2> QED  BY <2>1, <2>2 DEF FrozenLogged, MemLogged, FrozenAt, MemAt, Latest, RecAt, SameKey, Before
<1>18. Durable'
  <2>1. ASSUME NEW r \in promised' \ Flushed'
        PROVE  \E p \in Place' : RecAt(p)' = r /\ Latest(p)' /\ Safe(p)'
    <3>1. r \in promised \ Flushed /\ r \in Contents \ Flushed'
      BY <1>1, <1>5, <1>6 DEF LogInv, Contained
    <3>2. PICK p \in Place : RecAt(p) = r /\ Latest(p) /\ Safe(p)
      BY <3>1 DEF LogInv, Durable
    <3>3. PICK q \in Place : RecAt(q) = r /\ Latest(q) /\ imm.wal < q[1]
      <4>1. CASE r \in mem
        <5>1. PICK q \in Place : MemAt(r, q)
          BY <4>1 DEF LogInv, MemLogged
        <5>2. n \in DOMAIN imms
          BY <1>3
        <5> QED  BY <1>3, <5>1, <5>2 DEF MemAt
      <4>2. CASE r \notin mem
        <5>1. PICK j \in 1 .. n - 1 : r \in imms[j].recs
          BY <1>5, <3>1, <4>2
        <5>2. j \in DOMAIN imms /\ n \in DOMAIN imms /\ n > j
          BY <1>3
        <5>3. PICK q \in Place : FrozenAt(r, j, q)
          BY <5>1, <5>2 DEF LogInv, FrozenLogged
        <5> QED  BY <1>3, <5>2, <5>3 DEF FrozenAt
      <4> QED  BY <4>1, <4>2
    <3>4. p = q
      BY <3>2, <3>3, LatestIsOne
    <3>5. p \in Place' /\ RecAt(p)' = r
      BY <1>4, <3>2, <3>3, <3>4
    <3> QED  BY <1>16, <3>2, <3>5
  <2> QED  BY <2>1 DEF Durable, Latest, Safe, RecAt, Before
<1>19. PinsCovered'
  <2>1. ASSUME NEW s \in manifest'.pins \cup pinning' PROVE s <= manifest'.flushed \/ \E r \in promised' : s <= r.seq
    <3>1. s \in manifest.pins \cup pinning
      BY <1>1, <1>2
    <3>2. s \in Nat
      <4>1. manifest.pins \in SUBSET (0 .. MaxSeq) /\ pinning \in SUBSET (0 .. MaxSeq) /\ MaxSeq \in Nat
        <5>1. manifest \in ManifestData /\ pinning \in SUBSET (0 .. MaxSeq)
          BY DEF FilesInv, DiskTypes, MemoryTypes
        <5> QED  BY <5>1, OptionsTyped DEF ManifestData
      <4>2. s \in 0 .. MaxSeq
        BY <3>1, <4>1, Zenon
      <4> QED  BY <4>1, <4>2
    <3>3. s <= manifest.flushed \/ \E r \in promised : s <= r.seq
      BY <3>1 DEF LogInv, PinsCovered
    <3> QED  BY <1>1, <1>7, <3>2, <3>3
  <2> QED  BY <2>1 DEF PinsCovered
<1>20. OpenedLogged' /\ Lost'
  BY <1>1, <1>8 DEF OpenedLogged, Lost, Serving
<1>21. Torn'
  <2> SUFFICES ASSUME faults' = 0
               PROVE  /\ \A id \in DOMAIN wals' : id <= wal'
                      /\ \A id \in DOMAIN wals' : ~wals'[id].torn
    BY DEF Torn, ReplayIds
  <2>1. \A id \in DOMAIN wals : id <= wal
    BY <1>1 DEF LogInv, Torn
  <2>2. ASSUME NEW id \in DOMAIN wals' PROVE ~wals'[id].torn
    <3>1. CASE phase = "up"
      BY <1>1, <1>4, <3>1 DEF LogInv, Torn
    <3>2. CASE phase = "opened"
      <4>1. imms[1] = imm
        BY <1>3, <1>8, <3>2
      <4>2. id = wal
        BY <1>1, <1>4, <3>2, <4>1 DEF LogInv, OpenedLogged
      <4> QED  BY <1>4, <3>2, <4>2 DEF LogInv, LogBelow
    <3> QED  BY <1>1, <3>1, <3>2
  <2> QED  BY <1>1, <1>4, <2>1, <2>2
<1> QED  BY <1>9, <1>10, <1>11, <1>12, <1>14, <1>15, <1>17, <1>18, <1>19, <1>20, <1>21 DEF LogInv

-----------------------------------------------------------------------------
(* A crash                                                                 *)

\* What a crash leaves of the log: what is fsynced, and of the active WAL
\* perhaps more.
LEMMA CrashPlaces ==
  ASSUME FilesInv, FilesInv', LogInv, Crash \/ Kill, ~exposed'
  PROVE  /\ Shrinks /\ FsyncsKept /\ YoungKept /\ Young' = Young /\ Adopted' = Adopted
         /\ \A p \in Place : Safe(p) => p \in Place'
         /\ \A p \in Place : p \notin Place' => \A q \in Place' : Before(q, p)
<1>1. Crashed /\ Serving /\ manifest' = manifest
  BY CrashIs DEF ProcessEnds
<1>2. /\ DOMAIN wals' = DOMAIN wals
      /\ \A id \in DOMAIN wals :
           /\ wals'[id].synced = Len(wals'[id].recs) /\ wals[id].synced \in Nat /\ Len(wals[id].recs) \in Nat
           /\ Len(wals'[id].recs) \in wals[id].synced .. Len(wals[id].recs)
           /\ \A i \in 1 .. Len(wals'[id].recs) : wals'[id].recs[i] = wals[id].recs[i]
           /\ id # wal => wals'[id].recs = wals[id].recs
  BY <1>1 DEF Crashed, CutTo, PrefixTo, FilesInv, Sealed, DiskTypes, FileTypes, WalFile
<1>3. ASSUME NEW p \in Place' PROVE p \in Place /\ RecAt(p)' = RecAt(p) /\ p[2] <= Len(wals'[p[1]].recs)
  <2>1. PlaceTyped(p)'
    BY NextPlacesTyped
  <2>2. p = <<p[1], p[2]>> /\ p[1] \in DOMAIN wals /\ manifest.floor <= p[1] /\ p[2] \in 1 .. Len(wals'[p[1]].recs)
    BY <1>1, <1>2, <2>1 DEF PlaceTyped
  <2>3. p[2] \in 1 .. Len(wals[p[1]].recs)
    BY <1>2, <2>2
  <2>4. <<p[1], p[2]>> \in Place
    BY <2>2, <2>3, PlacesTyped DEF PlaceHas
  <2> QED  BY <1>2, <2>2, <2>4 DEF RecAt
<1>4. ASSUME NEW p \in Place, p[2] <= Len(wals'[p[1]].recs) PROVE p \in Place'
  <2>1. PlaceTyped(p)
    BY PlacesTyped
  <2>2. p = <<p[1], p[2]>> /\ p[1] \in DOMAIN wals' /\ manifest'.floor <= p[1] /\ p[2] \in 1 .. Len(wals[p[1]].recs)
    BY <1>1, <1>2, <2>1 DEF PlaceTyped
  <2>3. p[2] \in 1 .. Len(wals'[p[1]].recs)
    BY <1>2, <1>4, <2>2
  <2>4. <<p[1], p[2]>> \in Place'
    BY <2>2, <2>3, NextPlacesTyped DEF PlaceHas
  <2> QED  BY <2>2, <2>4
<1>5. Shrinks
  BY <1>3 DEF Shrinks
<1>6. FsyncsKept
  <2>1. ASSUME NEW p \in Place' PROVE wals[p[1]].synced <= wals'[p[1]].synced
    <3>1. p[1] \in DOMAIN wals
      BY <1>3, PlacesTyped DEF PlaceTyped
    <3> QED  BY <1>2, <3>1
  <2> QED  BY <2>1 DEF FsyncsKept
<1>7. DOMAIN vlogs' = DOMAIN vlogs
  BY <1>1 DEF Crashed, CutTo, PrefixTo
<1>8. Young' = Young /\ Adopted' = Adopted
  BY <1>1, <1>7 DEF Young, Adopted
<1>9. YoungKept
  <2>1. ASSUME NEW p \in Place', RecAt(p).file # Inline, RecAt(p).file \in Young'
        PROVE  FsyncedKept(RecAt(p).file)
    <3> DEFINE f == RecAt(p).file
    <3>1. f \in Young /\ f \in DOMAIN vlogs
      BY <1>8, <2>1, YoungFiles
    <3> HIDE DEF f
    <3>2. /\ vlogs'[f].synced = Len(vlogs'[f].recs)
          /\ Len(vlogs'[f].recs) \in vlogs[f].synced .. Len(vlogs[f].recs)
          /\ \A i \in 1 .. Len(vlogs'[f].recs) : vlogs'[f].recs[i] = vlogs[f].recs[i]
      BY <1>1, <3>1 DEF Crashed, CutTo, PrefixTo
    <3>3. vlogs[f].synced \in Nat /\ Len(vlogs[f].recs) \in Nat
      BY <3>1, YoungFiles
    <3>4. FsyncedKept(f)
      BY <3>1, <3>2, <3>3 DEF FsyncedKept
    <3> QED  BY <3>4 DEF f
  <2> QED  BY <2>1 DEF YoungKept
<1>10. ASSUME NEW p \in Place, Safe(p) PROVE p \in Place'
  <2>1. PlaceTyped(p)
    BY PlacesTyped
  <2>2. ~Before(p, p)
    BY <2>1 DEF PlaceTyped, Before
  <2>3. p[2] <= wals[p[1]].synced
    BY <1>10, <2>2 DEF Safe
  <2>4. p[2] <= Len(wals'[p[1]].recs)
    BY <1>2, <2>1, <2>3 DEF PlaceTyped
  <2> QED  BY <1>4, <2>4
<1>11. ASSUME NEW p \in Place, p \notin Place', NEW q \in Place' PROVE Before(q, p)
  <2>1. PlaceTyped(p) /\ PlaceTyped(q) /\ q[1] <= wal /\ p[1] <= wal /\ wal \in Nat
    BY <1>1, <1>3, PlacesTyped, PlacesActive, ActiveFiles
  <2>2. ~(p[2] <= Len(wals'[p[1]].recs))
    BY <1>4, <1>11
  <2>3. p[1] = wal
    BY <1>2, <2>1, <2>2 DEF PlaceTyped
  <2>4. q[1] = wal => q[2] < p[2]
    BY <1>2, <1>3, <2>1, <2>2, <2>3 DEF PlaceTyped
  <2> QED  BY <2>1, <2>3, <2>4 DEF Before, PlaceTyped
<1> QED  BY <1>5, <1>6, <1>8, <1>9, <1>10, <1>11

\* A crash during recovery changes nothing a replay would see.
LEMMA CrashOpened ==
  ASSUME FilesInv, FilesInv', LogInv, Crash \/ Kill, ~exposed', phase = "opened"
  PROVE  SamePlaces /\ \A p \in Place : Missing(p)' <=> Missing(p)
<1>1. Crashed /\ Serving /\ manifest' = manifest
  BY CrashIs DEF ProcessEnds
<1>2. /\ DOMAIN wals' = DOMAIN wals
      /\ \A id \in DOMAIN wals : wals'[id].recs = wals[id].recs
  <2>1. DOMAIN wals' = DOMAIN wals
    BY <1>1 DEF Crashed, CutTo, PrefixTo
  <2>2. ASSUME NEW id \in DOMAIN wals PROVE wals[id].synced = Len(wals[id].recs)
    <3>1. CASE id # wal
      BY <3>1 DEF FilesInv, Sealed
    <3>2. CASE id = wal
      <4>1. wals[id].recs = <<>> /\ wals[id].synced <= Len(wals[id].recs) /\ wals[id].synced \in Nat
        BY <3>2 DEF LogInv, LogBelow, FilesInv, DiskTypes, FileTypes, WalFile
      <4> QED  BY <4>1, EmptyFiles
    <3> QED  BY <3>1, <3>2
  <2> QED  BY <1>1, <2>1, <2>2 DEF Crashed, CutTo, PrefixTo
<1>3. SamePlaces
  BY <1>1, <1>2, SameRecords
<1>4. DOMAIN vlogs' = DOMAIN vlogs /\ Young' = Young
  BY <1>1 DEF Crashed, CutTo, PrefixTo, Young
<1>5. ASSUME NEW p \in Place PROVE Missing(p)' <=> Missing(p)
  <2> DEFINE r == RecAt(p)
  <2>1. RecAt(p)' = r /\ p \in Place' /\ TornAt(p) = FALSE /\ TornAt(p)' = FALSE
    BY <1>3 DEF SamePlaces, Place, TornAt
  <2>2. CASE r.file \notin Young
    BY <1>4, <2>1, <2>2 DEF Missing
  <2>3. CASE r.file \in Young
    <3>1. r.file # Inline /\ r.file \in DOMAIN vlogs
      BY <2>3, YoungFiles DEF Adopted
    <3>2. r.file # head
      BY <3>1 DEF LogInv, Pointers, PointsRight
    <3>3. vlogs[r.file].synced = Len(vlogs[r.file].recs)
      BY <3>1, <3>2 DEF FilesInv, Sealed
    <3>4. vlogs'[r.file].recs = vlogs[r.file].recs
      BY <1>1, <3>1, <3>3 DEF Crashed, CutTo, PrefixTo
    <3> HIDE DEF r
    <3>5. Missing(p) <=> ~\E i \in DOMAIN vlogs[r.file].recs : i = r.pos /\ vlogs[r.file].recs[i].key = r.key
      BY <2>1, <2>3 DEF Missing, r
    <3>6. Missing(p)' <=> ~\E i \in DOMAIN vlogs'[r.file].recs : i = r.pos /\ vlogs'[r.file].recs[i].key = r.key
      BY <1>4, <2>1, <2>3 DEF Missing
    <3> QED  BY <3>4, <3>5, <3>6
  <2> QED  BY <2>2, <2>3
<1> QED  BY <1>3, <1>5

\* A crash keeps what is promised and leaves a prefix of the rest.
LEMMA CrashLogKept ==
  ASSUME FilesInv, FilesInv', LogInv, Crash \/ Kill, ~exposed'
  PROVE  LogInv'
<1>1. /\ Serving /\ ~Serving' /\ phase' = "down" /\ manifest' = manifest /\ mem' = {} /\ imms' = <<>>
      /\ obsolete' = {} /\ pinning' = {} /\ inflight' = <<>>
      /\ UNCHANGED <<opts, faults, acked, promised, gray>>
  BY CrashIs DEF ProcessEnds, Serving, history
<1>2. /\ Shrinks /\ FsyncsKept /\ YoungKept /\ Young' = Young /\ Adopted' = Adopted
      /\ \A p \in Place : Safe(p) => p \in Place'
      /\ \A p \in Place : p \notin Place' => \A q \in Place' : Before(q, p)
  BY CrashPlaces
<1>3. \A p \in Place' : p \in Place /\ RecAt(p)' = RecAt(p)
  BY <1>2 DEF Shrinks
<1>4. Flushed' = Flushed
  BY <1>1 DEF Flushed
<1>5. /\ \A p \in Place' : PayloadSafe(RecAt(p)) => PayloadSafe(RecAt(p))'
      /\ \A p \in Place' : (Safe(p) => Safe(p)') /\ (Latest(p) => Latest(p)')
  BY <1>2, ShrinksKeeps
<1>6. LogOrder'
  BY <1>1, <1>2, ShrinksOrder DEF LogInv
<1>7. LogAbove'
  <2>1. \A p \in Place' : RecAt(p)'.seq > manifest'.flushed
    BY <1>1, <1>3 DEF LogInv, LogAbove
  <2> QED  BY <2>1 DEF LogAbove
<1>8. LogBelow'
  BY <1>1 DEF LogBelow
<1>9. LogKnown'
  <2>1. ASSUME NEW p \in Place', RecAt(p) \notin acked \cup gray
        PROVE  \/ ~Clean(p)'
               \/ \E q \in Place' : Before(p, q) /\ SameKey(RecAt(p)', RecAt(q)') /\ Clean(q)'
    <3>1. p \in Place /\ phase # "up"
      BY <1>3, <2>1 DEF LogInv, LogKnown
    <3>2. phase = "opened"
      BY <1>1, <3>1 DEF LogInv, LogBelow, Serving
    <3>3. SamePlaces /\ \A q \in Place : Missing(q)' <=> Missing(q)
      BY <3>2, CrashOpened
    <3>4. \A q \in Place : Clean(q)' <=> Clean(q)
      BY <3>3 DEF Clean, SamePlaces, Before
    <3>5. CASE ~Clean(p)
      BY <3>1, <3>4, <3>5
    <3>6. CASE \E q \in Place : Before(p, q) /\ SameKey(RecAt(p), RecAt(q)) /\ Clean(q)
      <4>1. PICK q \in Place : Before(p, q) /\ SameKey(RecAt(p), RecAt(q)) /\ Clean(q)
        BY <3>6
      <4>2. q \in Place' /\ RecAt(q)' = RecAt(q) /\ RecAt(p)' = RecAt(p) /\ Clean(q)'
        BY <1>3, <3>3, <3>4, <4>1 DEF SamePlaces
      <4> QED  BY <4>1, <4>2
    <3> QED  BY <2>1, <3>1, <3>5, <3>6 DEF LogInv, LogKnown
  <2>2. ASSUME NEW p \in Place'
        PROVE  \/ RecAt(p)' \in acked' \cup gray'
               \/ phase' # "up" /\ ~Clean(p)'
               \/ phase' # "up" /\ \E q \in Place' : Before(p, q) /\ SameKey(RecAt(p)', RecAt(q)') /\ Clean(q)'
    BY <1>1, <1>3, <2>1
  <2> QED  BY <2>2 DEF LogKnown, SameKey, Before, Clean
<1>10. Pointers'
  <2>1. ASSUME NEW p \in Place', RecAt(p)'.file # Inline PROVE PointsRight(p)'
    <3>1. p \in Place /\ RecAt(p)' = RecAt(p) /\ PointsRight(p)
      BY <1>3, <2>1 DEF LogInv, Pointers
    <3>2. opts.sync = "always" => PayloadSafe(RecAt(p))'
      BY <1>5, <3>1 DEF PointsRight
    <3>3. /\ RecAt(p)'.file \in Adopted' /\ RecAt(p)'.file \notin obsolete'
          /\ \A t \in manifest'.retired : RecAt(p)'.file = t.id => RecAt(p)'.seq <= t.at
      BY <1>1, <1>2, <3>1 DEF PointsRight
    <3> QED  BY <1>1, <3>2, <3>3 DEF PointsRight, PayloadSafe
  <2> QED  BY <2>1 DEF Pointers, PointsRight, RecAt
<1>11. Contained'
  <2>1. /\ \A r \in Flushed' : r.seq <= manifest'.flushed
        /\ Flushed' \subseteq acked' /\ promised' \subseteq acked'
        /\ opts'.sync = "always" => promised' = acked'
    BY <1>1, <1>4 DEF LogInv, Contained
  <2> QED  BY <1>1, <2>1 DEF Contained
<1>12. FrozenLogged' /\ MemLogged' /\ OpenedLogged'
  <2>1. DOMAIN imms' = {} /\ mem' = {}
    BY <1>1
  <2> QED  BY <1>1, <2>1 DEF FrozenLogged, MemLogged, OpenedLogged
<1>13. Durable'
  <2>1. ASSUME NEW r \in promised' \ Flushed'
        PROVE  \E p \in Place' : RecAt(p)' = r /\ Latest(p)' /\ Safe(p)'
    <3>1. PICK p \in Place : RecAt(p) = r /\ Latest(p) /\ Safe(p)
      BY <1>1, <1>4 DEF LogInv, Durable
    <3> QED  BY <1>2, <1>3, <1>5, <3>1
  <2> QED  BY <2>1 DEF Durable, Latest, Safe, RecAt, Before
<1>14. Lost'
  <2>1. ASSUME opts.sync = "relaxed", NEW r \in acked \ Flushed
        PROVE  \/ \E p \in Place' : RecAt(p)' = r
               \/ r.seq > manifest.flushed /\ \A q \in Place' : RecAt(q)'.seq < r.seq
    <3>1. r \in Contents \ Flushed
      BY <1>1 DEF LogInv, Contained
    <3>2. PICK p \in Place : RecAt(p) = r
      BY <3>1, UnflushedLogged
    <3>3. CASE p \in Place'
      BY <1>3, <3>2, <3>3
    <3>4. CASE p \notin Place'
      <4>1. r.seq > manifest.flushed
        BY <3>2 DEF LogInv, LogAbove
      <4>2. \A q \in Place' : q \in Place /\ RecAt(q)' = RecAt(q) /\ Before(q, p)
        BY <1>2, <1>3, <3>4
      <4> QED  BY <2>1, <3>2, <4>1, <4>2 DEF LogInv, LogOrder
    <3> QED  BY <3>3, <3>4
  <2>2. opts'.sync = "relaxed" => \A r \in acked' \ Flushed' :
          \/ \E p \in Place' : RecAt(p)' = r
          \/ r.seq > manifest'.flushed /\ \A q \in Place' : RecAt(q)'.seq < r.seq
    BY <1>1, <1>4, <2>1
  <2> QED  BY <2>2 DEF Lost
<1>15. PinsCovered'
  <2>1. \A s \in manifest'.pins \cup pinning' : s <= manifest'.flushed \/ \E r \in promised' : s <= r.seq
    BY <1>1 DEF LogInv, PinsCovered
  <2> QED  BY <2>1 DEF PinsCovered
<1>16. Torn'
  <2>1. Crashed
    BY CrashIs
  <2>2. /\ DOMAIN wals' = DOMAIN wals /\ ReplayIds' = ReplayIds
        /\ \A id \in DOMAIN wals : id # wal => wals'[id].torn = wals[id].torn
    BY <1>1, <2>1 DEF Crashed, CutTo, PrefixTo, ReplayIds
  <2>3. ASSUME faults = 0, NEW id \in ReplayIds', wals'[id].torn
        PROVE  \/ \A b \in DOMAIN wals' : b <= id
               \/ \E q \in Place' : q[1] <= id /\ Missing(q)'
    <3>1. CASE id = wal
      BY <1>1, <2>2, <2>3, <3>1 DEF LogInv, Torn
    <3>2. CASE id # wal
      <4>1. wals[id].torn /\ id \in DOMAIN wals /\ id \in ReplayIds
        BY <2>2, <2>3, <3>2 DEF ReplayIds
      <4>2. phase = "opened"
        BY <1>1, <2>3, <4>1 DEF LogInv, Torn, Serving
      <4>3. SamePlaces /\ \A q \in Place : Missing(q)' <=> Missing(q)
        BY <4>2, CrashOpened
      <4>4. \/ \A b \in DOMAIN wals : b <= id
            \/ \E q \in Place : q[1] <= id /\ Missing(q)
        BY <2>3, <4>1 DEF LogInv, Torn
      <4> QED  BY <2>2, <4>3, <4>4 DEF SamePlaces
    <3> QED  BY <3>1, <3>2
  <2>4. faults' = 0 => \A id \in ReplayIds' : wals'[id].torn =>
           \/ \A b \in DOMAIN wals' : b <= id
           \/ \E q \in Place' : q[1] <= id /\ Missing(q)'
    BY <1>1, <2>3
  <2> QED  BY <1>1, <2>4 DEF Torn, Missing, TornAt, RecAt
<1> QED  BY <1>6, <1>7, <1>8, <1>9, <1>10, <1>11, <1>12, <1>13, <1>14, <1>15, <1>16 DEF LogInv

-----------------------------------------------------------------------------
(* The end of a recovery, and steps that move nothing                      *)

\* A recovery that has flushed what it replayed has nothing left in the log.
LEMMA EmptyLogKept ==
  ASSUME FilesInv, FilesInv', LogInv, Serving, phase' \in {"sweep", "up"}, Place' = {}, imms = <<>>, mem = {},
         inflight = <<>>, Torn',
         UNCHANGED <<opts, mem, imms, visible, pinning, inflight, acked, promised, gray>>,
         manifest'.flushed = manifest.flushed, manifest'.runs = manifest.runs, manifest'.pins = manifest.pins
  PROVE  LogInv'
<1>1. Flushed' = Flushed /\ Contents' = Contents /\ Contents = Flushed
  <2>1. \A r : r \notin FrozenRecs(imms)
    <3>1. DOMAIN imms = {}
      OBVIOUS
    <3> QED  BY <3>1, FrozenRecsIs
  <2>2. Flushed' = Flushed
    BY DEF Flushed
  <2> QED  BY <2>1, <2>2, ContentsIs
<1>2. LogOrder' /\ LogAbove' /\ LogKnown' /\ Pointers'
  BY DEF LogOrder, LogAbove, LogKnown, Pointers
<1>3. LogBelow'
  BY DEF LogBelow
<1>4. Contained'
  <2>1. /\ \A r \in Flushed' : r.seq <= manifest'.flushed
        /\ Flushed' \subseteq acked' /\ promised' \subseteq acked'
        /\ opts'.sync = "always" => promised' = acked'
        /\ acked' = Contents' /\ manifest'.flushed <= visible'
        /\ \A r \in acked' : r.seq <= visible'
        /\ visible' <= manifest'.flushed \/ \E r \in acked' : visible' <= r.seq
    BY <1>1 DEF LogInv, Contained
  <2> QED  BY <2>1 DEF Contained
<1>5. FrozenLogged' /\ MemLogged' /\ OpenedLogged'
  <2>1. DOMAIN imms' = {} /\ mem' = {}
    OBVIOUS
  <2> QED  BY <2>1 DEF FrozenLogged, MemLogged, OpenedLogged
<1>6. Durable' /\ Lost'
  <2>1. promised' \ Flushed' = {}
    BY <1>1 DEF LogInv, Contained
  <2>2. Serving'
    BY DEF Serving
  <2> QED  BY <2>1, <2>2 DEF Durable, Lost
<1>7. PinsCovered'
  <2>1. \A s \in manifest'.pins \cup pinning' : s <= manifest'.flushed \/ \E r \in promised' : s <= r.seq
    BY DEF LogInv, PinsCovered
  <2> QED  BY <2>1 DEF PinsCovered
<1> QED  BY <1>2, <1>3, <1>4, <1>5, <1>6, <1>7 DEF LogInv

\* The open-completion manifest covers the whole log.
LEMMA OpenCompleteLogKept ==
  ASSUME FilesInv, FilesInv', LogInv, OpenComplete
  PROVE  LogInv'
<1>1. /\ phase = "opened" /\ imms = <<>> /\ phase' = "sweep" /\ Serving
      /\ wals' = Keep(wals, {id \in DOMAIN wals : id >= wal})
      /\ UNCHANGED <<opts, wal, mem, imms, visible, pinning, inflight, faults, acked, promised, gray>>
  BY DEF OpenComplete, Serving, aside, tree, failures, history
<1>2. /\ manifest'.floor = wal /\ manifest'.flushed = manifest.flushed /\ manifest'.runs = manifest.runs
      /\ manifest'.pins = manifest.pins
  BY DEF OpenComplete, FilesInv, DiskTypes, ManifestData
<1>3. mem = {} /\ inflight = <<>> /\ wals[wal].recs = <<>> /\ ~wals[wal].torn /\ wal \in Nat
  BY <1>1, ActiveFiles DEF FilesInv, Phases, LogInv, LogBelow
<1>4. /\ DOMAIN wals' = {id \in DOMAIN wals : id >= wal}
      /\ \A id \in DOMAIN wals' : wals'[id] = wals[id] /\ id \in Nat
  <2> DEFINE K == {id \in DOMAIN wals : id >= wal}
  <2>1. (DOMAIN wals) \cap K = K /\ \A id \in K : id \in Nat
    BY DEF FilesInv, DiskTypes, FileTypes
  <2>2. wals' = Keep(wals, K)
    BY <1>1
  <2> HIDE DEF K
  <2>3. DOMAIN wals' = K /\ \A id \in DOMAIN wals' : wals'[id] = wals[id]
    BY <2>1, <2>2, KeepIs
  <2> QED  BY <2>1, <2>3 DEF K
<1>5. ASSUME NEW id \in DOMAIN wals' PROVE wals'[id].recs = <<>> /\ ~wals'[id].torn
  <2>1. id \in DOMAIN wals /\ id >= wal /\ wals'[id] = wals[id] /\ id \in Nat
    BY <1>4
  <2>2. id = wal \/ id > wal
    BY <1>3, <2>1
  <2> QED  BY <1>1, <1>3, <2>1, <2>2 DEF FilesInv, Ids
<1>6. Place' = {}
  <2>1. ASSUME NEW p \in Place' PROVE FALSE
    <3>1. p[1] \in DOMAIN wals' /\ p[2] \in 1 .. Len(wals'[p[1]].recs)
      BY NextPlacesTyped DEF PlaceTyped
    <3> QED  BY <1>5, <3>1, EmptyFiles
  <2> QED  BY <2>1
<1>7. Torn'
  <2> SUFFICES ASSUME faults' = 0
               PROVE  /\ \A id \in DOMAIN wals' : id <= wal'
                      /\ \A id \in DOMAIN wals' : ~wals'[id].torn
    BY DEF Torn, ReplayIds
  <2>1. \A id \in DOMAIN wals : id <= wal
    BY <1>1 DEF LogInv, Torn
  <2> QED  BY <1>1, <1>4, <1>5, <2>1
<1> QED  BY <1>1, <1>2, <1>3, <1>6, <1>7, EmptyLogKept

\* The sweep finds an empty log.
LEMMA StartupGcLogKept ==
  ASSUME FilesInv, FilesInv', LogInv, StartupGc
  PROVE  LogInv'
<1>1. /\ phase = "sweep" /\ phase' = "up" /\ Serving
      /\ wals' = Keep(wals, {id \in DOMAIN wals : id >= manifest.floor})
      /\ UNCHANGED <<opts, manifest, wal, mem, imms, visible, pinning, inflight, faults, acked, promised, gray>>
  BY DEF StartupGc, Serving, aside, tree, failures, history
<1>2. mem = {} /\ inflight = <<>> /\ imms = <<>> /\ Place = {}
  BY <1>1 DEF FilesInv, Phases, LogInv, LogBelow
<1>3. \A id \in DOMAIN wals' : id \in DOMAIN wals /\ wals'[id] = wals[id]
  BY <1>1, KeepIs, ZenonT(40)
<1>4. Place' = {}
  <2>1. ASSUME NEW p \in Place' PROVE FALSE
    <3>1. PlaceTyped(p)'
      BY NextPlacesTyped
    <3>2. p = <<p[1], p[2]>> /\ p[1] \in DOMAIN wals /\ manifest.floor <= p[1] /\ p[2] \in 1 .. Len(wals[p[1]].recs)
      BY <1>1, <1>3, <3>1 DEF PlaceTyped
    <3>3. <<p[1], p[2]>> \in Place
      BY <3>2, PlacesTyped DEF PlaceHas
    <3> QED  BY <1>2, <3>3
  <2> QED  BY <2>1
<1>5. Torn'
  <2> SUFFICES ASSUME faults' = 0
               PROVE  /\ \A id \in DOMAIN wals' : id <= wal'
                      /\ \A id \in DOMAIN wals' : ~wals'[id].torn
    BY DEF Torn, ReplayIds
  <2>1. \A id \in DOMAIN wals : id <= wal /\ ~wals[id].torn
    BY <1>1 DEF LogInv, Torn
  <2> QED  BY <1>1, <1>3, <2>1
<1> QED  BY <1>1, <1>2, <1>4, <1>5, EmptyLogKept

\* The log of an empty directory.
LEMMA InitLog ==
  ASSUME Init, FilesInv
  PROVE  LogInv
<1>1. /\ wals = <<>> /\ DOMAIN wals = {} /\ manifest.runs = {} /\ manifest.pins = {} /\ pinning = {}
      /\ phase = "down" /\ mem = {} /\ imms = <<>> /\ DOMAIN imms = {} /\ inflight = <<>>
      /\ acked = {} /\ promised = {}
  BY DEF Init
<1>2. Place = {} /\ ReplayIds = {}
  <2>1. \A p \in Place : p[1] \in DOMAIN wals
    BY PlacesTyped DEF PlaceTyped
  <2>2. ReplayIds = {}
    BY <1>1 DEF ReplayIds
  <2> QED  BY <1>1, <2>1, <2>2
<1>3. Flushed = {}
  BY <1>1 DEF Flushed
<1>4. LogOrder /\ LogAbove /\ LogBelow /\ LogKnown /\ Pointers
  BY <1>1, <1>2 DEF LogOrder, LogAbove, LogBelow, LogKnown, Pointers
<1>5. Contained /\ FrozenLogged /\ MemLogged /\ OpenedLogged
  BY <1>1, <1>3 DEF Contained, Serving, FrozenLogged, MemLogged, OpenedLogged
<1>6. Durable /\ Lost /\ PinsCovered /\ Torn
  BY <1>1, <1>2 DEF Durable, Lost, PinsCovered, Torn, Serving
<1> QED  BY <1>4, <1>5, <1>6 DEF LogInv

\* Nothing moves, but that an open may be refused.
Unmoved ==
    /\ phase' = phase \/ (phase = "down" /\ phase' = "failed")
    /\ UNCHANGED <<wals, vlogs, manifest, opts, wal, mem, imms, visible, head, obsolete, pinning, inflight,
                   faults, acked, promised, gray>>

\* A refused open, and a step that changes nothing, keep LogInv.
LEMMA UnmovedLogKept ==
  ASSUME FilesInv, LogInv, Unmoved
  PROVE  LogInv'
<1>1. /\ phase' = phase \/ (phase = "down" /\ phase' = "failed")
      /\ UNCHANGED <<wals, vlogs, manifest, opts, wal, mem, imms, visible, head, obsolete, pinning, inflight,
                     faults, acked, promised, gray>>
  BY DEF Unmoved
<1>2. Young' = Young /\ Adopted' = Adopted /\ Flushed' = Flushed /\ Contents' = Contents /\ ReplayIds' = ReplayIds
  BY <1>1 DEF Young, Adopted, Flushed, Contents, ReplayIds
<1>3. Place' = Place
  BY <1>1, <1>2 DEF Place, Replay, Marks, TornAt
<1>4. ASSUME NEW p PROVE RecAt(p)' = RecAt(p) /\ (Missing(p)' <=> Missing(p))
  BY <1>1, <1>2 DEF RecAt, Missing, TornAt
<1>5. ASSUME NEW p PROVE (Latest(p)' <=> Latest(p)) /\ (Clean(p)' <=> Clean(p))
  BY <1>3, <1>4 DEF Latest, Clean, Before, SameKey
<1>6. ASSUME NEW r PROVE PayloadSafe(r)' <=> PayloadSafe(r)
  BY <1>1, <1>2 DEF PayloadSafe
<1>7. ASSUME NEW p PROVE Safe(p)' <=> Safe(p)
  BY <1>1, <1>3, <1>4, <1>6 DEF Safe, Before, PayloadSafe
<1>8. LogOrder' /\ LogAbove'
  BY <1>1, <1>3, <1>4 DEF LogInv, LogOrder, LogAbove, Before
<1>9. LogBelow'
  <2>1. RecAt(<<wal, Len(wals[wal].recs)>>)' = RecAt(<<wal, Len(wals[wal].recs)>>)
    BY <1>1 DEF RecAt
  <2> QED  BY <1>1, <1>3, <1>4, <2>1 DEF LogInv, LogBelow
<1>10. LogKnown'
  <2>1. phase' = "up" <=> phase = "up"
    BY <1>1
  <2> QED  BY <1>1, <1>3, <1>4, <1>5, <2>1 DEF LogInv, LogKnown, SameKey, Before
<1>11. Pointers'
  <2>1. ASSUME NEW p \in Place, RecAt(p).file # Inline PROVE PointsRight(p)'
    <3>1. PointsRight(p) /\ RecAt(p)' = RecAt(p)
      BY <1>4, <2>1 DEF LogInv, Pointers
    <3> QED  BY <1>1, <1>2, <3>1 DEF PointsRight, PayloadSafe
  <2> QED  BY <1>3, <1>4, <2>1 DEF Pointers, PointsRight, RecAt
<1>12. Contained' /\ OpenedLogged' /\ PinsCovered'
  BY <1>1, <1>2, <1>3 DEF LogInv, Contained, OpenedLogged, PinsCovered, Serving
<1>13. FrozenLogged' /\ MemLogged'
  BY <1>1, <1>3, <1>4, <1>5 DEF LogInv, FrozenLogged, FrozenAt, MemLogged, MemAt
<1>14. Durable'
  BY <1>1, <1>2, <1>3, <1>4, <1>5, <1>7 DEF LogInv, Durable
<1>15. Lost' /\ Torn'
  <2>1. ~Serving' <=> ~Serving
    BY <1>1 DEF Serving
  <2>2. phase' \in {"up", "sweep"} <=> phase \in {"up", "sweep"}
    BY <1>1
  <2> QED  BY <1>1, <1>2, <1>3, <1>4, <2>1, <2>2 DEF LogInv, Lost, Torn
<1> QED  BY <1>8, <1>9, <1>10, <1>11, <1>12, <1>13, <1>14, <1>15 DEF LogInv

-----------------------------------------------------------------------------
(* The open                                                                *)

\* Of the places a replay cannot take, one comes first.
LEMMA LeastBad ==
  ASSUME FilesInv, NEW b \in Replay, Bad(b)
  PROVE  \E e \in ReplayEnd(Replay) : ~Before(b, e)
<1> DEFINE B == {p \in Replay : Bad(p)}
           I == {p[1] : p \in B}
<1>1. \A p \in Replay : p[1] \in Nat /\ p[2] \in Nat
  BY ReplayTyped
<1>2. I \in SUBSET Nat /\ I # {}
  <2>1. b \in B
    OBVIOUS
  <2> QED  BY <1>1, <2>1
<1>3. PICK a \in I : \A y \in I : a <= y
  <2> HIDE DEF I
  <2> QED  BY <1>2, LeastNatural
<1> DEFINE J == {p[2] : p \in {p \in B : p[1] = a}}
<1>4. J \in SUBSET Nat /\ J # {}
  BY <1>1
<1>5. PICK c \in J : \A y \in J : c <= y
  <2> HIDE DEF J
  <2> QED  BY <1>4, LeastNatural
<1>6. PICK e \in B : e[1] = a /\ e[2] = c
  OBVIOUS
<1>7. ASSUME NEW q \in B PROVE ~Before(q, e)
  <2>1. a <= q[1] /\ a \in Nat /\ q[1] \in Nat /\ q[2] \in Nat /\ c \in Nat
    BY <1>1, <1>2, <1>3, <1>4
  <2>2. q[1] = a => c <= q[2]
    BY <1>5
  <2> QED  BY <1>6, <2>1, <2>2 DEF Before
<1>8. \A q \in Replay : Bad(q) => ~Before(q, e)
  BY <1>7
<1> QED  BY <1>7, <1>8 DEF ReplayEnd

\* A torn WAL ends in a mark.
LEMMA TornPlace ==
  ASSUME FilesInv, NEW id \in ReplayIds, wals[id].torn
  PROVE  \E m \in Replay : TornAt(m) /\ Bad(m) /\ m[1] = id /\ m[2] = Len(wals[id].recs) + 1
<1> DEFINE m == <<id, Len(wals[id].recs) + 1>>
           M(d) == {<<d, i>> : i \in Marks(d)}
<1>1. id \in DOMAIN wals /\ Len(wals[id].recs) \in Nat
  BY ReplayTyped DEF ReplayIds
<1>2. Len(wals[id].recs) + 1 \in Marks(id)
  BY <1>1 DEF Marks
<1>3. m \in M(id)
  BY <1>2
<1>4. m[1] = id /\ m[2] = Len(wals[id].recs) + 1
  OBVIOUS
<1> HIDE DEF m, M
<1>5. m \in UNION {M(d) : d \in ReplayIds}
  BY <1>3
<1>6. m \in Replay
  BY <1>5 DEF Replay, M
<1>7. TornAt(m)
  BY <1>1, <1>4 DEF TornAt
<1> QED  BY <1>4, <1>6, <1>7 DEF Bad

\* The newest WAL a replay reads.
LEMMA NewestReplayed ==
  ASSUME FilesInv
  PROVE  \A p \in Replay : /\ p[1] \in ReplayIds /\ Max(ReplayIds) \in ReplayIds /\ Max(ReplayIds) \in Nat
                           /\ p[1] <= Max(ReplayIds) /\ p[1] \in Nat
<1>1. ReplayIds \in SUBSET Int /\ IsFiniteSet(ReplayIds) /\ ReplayIds \in SUBSET Nat
  <2>1. ReplayIds \in SUBSET Nat /\ ReplayIds \in SUBSET DOMAIN wals /\ IsFiniteSet(DOMAIN wals)
    BY DEF ReplayIds, FilesInv, DiskTypes, FileTypes
  <2>2. IsFiniteSet(ReplayIds)
    BY <2>1, FS_Subset
  <2> QED  BY <2>1, <2>2
<1>2. \A p \in Replay : p[1] \in ReplayIds
  BY ReplayTyped
<1>3. ReplayIds # {} => Max(ReplayIds) \in ReplayIds /\ \A y \in ReplayIds : y <= Max(ReplayIds)
  BY <1>1, MaxIs
<1> QED  BY <1>1, <1>2, <1>3

\* No record points into a file nobody knows.
LEMMA NoUnknown ==
  ASSUME FilesInv, LogInv, NEW p \in Replay, ~TornAt(p)
  PROVE  p \in Place /\ ~UnknownFile(p)
<1>1. p \in Place
  BY DEF Place
<1> QED  BY <1>1 DEF LogInv, Pointers, PointsRight, UnknownFile

\* What a replay takes of a log it does not refuse: all but what follows the
\* first lost payload.
LEMMA TakenPlaces ==
  ASSUME FilesInv, LogInv, \A e \in ReplayEnd(Replay) : TornAt(e) => e[1] = Max(ReplayIds)
  PROVE  /\ \A p \in Taken(Replay) : p \in Place /\ Clean(p)
         /\ \A p \in Place : Clean(p) => p \in Taken(Replay)
<1>1. ASSUME NEW p \in Taken(Replay) PROVE p \in Place /\ Clean(p)
  <2>1. p \in Replay /\ ~Bad(p) /\ \A q \in Replay : Bad(q) => Before(p, q)
    BY TakenIs DEF Taken
  <2> QED  BY <2>1 DEF Bad, Place, Clean
<1>2. ASSUME NEW q \in Place, Clean(q), NEW b \in Replay, Bad(b)
      PROVE  Before(q, b)
  <2>1. CASE ~TornAt(b)
    BY <1>2, <2>1, NoUnknown DEF Bad, Clean
  <2>2. CASE TornAt(b)
    <3>1. PICK e \in ReplayEnd(Replay) : ~Before(b, e)
      BY <1>2, LeastBad
    <3>2. e \in Replay /\ Bad(e)
      BY DEF ReplayEnd
    <3>3. q \in Replay /\ ~TornAt(q)
      BY DEF Place
    <3>4. /\ q \in Nat \X Nat /\ b \in Nat \X Nat /\ e \in Nat \X Nat
          /\ q[1] \in Nat /\ b[1] \in Nat /\ e[1] \in Nat /\ q[2] \in Nat /\ b[2] \in Nat
      <4>1. \A p \in Replay : p[1] \in Nat /\ p[2] \in Nat /\ p = <<p[1], p[2]>>
        BY ReplayTyped
      <4>2. \A p \in Replay : p \in Nat \X Nat
        BY <4>1
      <4> QED  BY <3>2, <3>3, <4>1, <4>2
    <3>5. CASE TornAt(e)
      <4>1. e[1] = Max(ReplayIds) /\ q[1] <= e[1] /\ b[1] <= e[1]
        BY <3>3, <3>5, NewestReplayed
      <4>2. b[1] = e[1]
        BY <3>1, <3>4, <4>1 DEF Before
      <4>3. q[1] = b[1] => q[2] < b[2]
        <5>1. b[2] = Len(wals[b[1]].recs) + 1 /\ q[2] \in 1 .. Len(wals[q[1]].recs) /\ Len(wals[b[1]].recs) \in Nat
          BY <2>2, <3>3, ReplayTyped
        <5> QED  BY <5>1
      <4> QED  BY <3>4, <4>1, <4>2, <4>3 DEF Before
    <3>6. CASE ~TornAt(e)
      <4>1. Before(q, e)
        BY <1>2, <3>2, <3>6, NoUnknown DEF Bad, Clean
      <4> QED  BY <3>1, <3>4, <4>1, BeforeOrder
    <3> QED  BY <3>5, <3>6
  <2> QED  BY <2>1, <2>2
<1>3. ASSUME NEW q \in Place, Clean(q) PROVE q \in Taken(Replay)
  BY <1>2, <1>3 DEF Taken, Place
<1> QED  BY <1>1, <1>3

\* What is safe is taken.
LEMMA SafeIsClean ==
  ASSUME FilesInv, NEW p \in Place, Safe(p)
  PROVE  Clean(p)
<1>1. ASSUME NEW q \in Place, Missing(q), ~Before(p, q)
      PROVE  FALSE
  <2>1. PayloadSafe(RecAt(q)) /\ RecAt(q).file \in Young
    BY <1>1 DEF Safe, Missing
  <2> DEFINE r == RecAt(q)
  <2> HIDE DEF r
  <2>2. r.pos \in 1 .. vlogs[r.file].synced /\ vlogs[r.file].recs[r.pos].key = r.key /\ r.file \in Young
    BY <2>1 DEF PayloadSafe, r
  <2>3. r.pos \in DOMAIN vlogs[r.file].recs
    <3>1. /\ vlogs[r.file].synced \in Nat /\ vlogs[r.file].synced <= Len(vlogs[r.file].recs)
          /\ Len(vlogs[r.file].recs) \in Nat /\ DOMAIN vlogs[r.file].recs = 1 .. Len(vlogs[r.file].recs)
      BY <2>2, YoungFiles
    <3> QED  BY <2>2, <3>1
  <2> QED  BY <1>1, <2>2, <2>3 DEF Missing, r
<1> QED  BY <1>1 DEF Clean

\* The files an open leaves: the WALs with their records, an empty WAL, an empty
\* value-log file.
Opened ==
    /\ phase = "down" /\ phase' = "opened" /\ wal' = RecoveredNextId + 1 /\ head' = RecoveredNextId
    /\ DOMAIN wals' = (DOMAIN wals) \cup {RecoveredNextId + 1}
    /\ wals'[RecoveredNextId + 1].recs = <<>> /\ ~wals'[RecoveredNextId + 1].torn
    /\ \A v \in DOMAIN wals :
         /\ wals'[v].recs = wals[v].recs /\ wals'[v].synced = wals[v].synced /\ v < RecoveredNextId
         /\ wals'[v].torn => wals[v].torn /\ \A p \in ReplayEnd(Replay) : TornAt(p) => p[1] # v
    /\ DOMAIN vlogs' = (DOMAIN vlogs) \cup {RecoveredNextId} /\ RecoveredNextId \notin DOMAIN vlogs
    /\ RecoveredNextId # Inline
    /\ \A v \in DOMAIN vlogs : vlogs'[v] = vlogs[v]
    /\ RecoveredNextId \in Nat
    /\ imms' = IF ReplayedRecs(Replay) = {} THEN <<>>
               ELSE <<[wal |-> Max(ReplayIds), recs |-> ReplayedRecs(Replay)]>>
    /\ visible' = TopOf(ReplayedRecs(Replay)) /\ TopOf(ReplayedRecs(Replay)) \in Nat
    /\ acked' = Flushed \cup ReplayedRecs(Replay) /\ promised' = Flushed \cup ReplayedRecs(Replay)
    /\ mem = {} /\ obsolete = {} /\ pinning = {} /\ inflight = <<>>
    /\ \A s \in manifest.pins : s \in Nat /\ s <= TopOf(ReplayedRecs(Replay))
    /\ manifest.flushed <= TopOf(ReplayedRecs(Replay)) /\ manifest.flushed \in Nat
    /\ \A r \in ReplayedRecs(Replay) : r.seq <= TopOf(ReplayedRecs(Replay)) /\ r.seq \in Nat
    /\ \/ TopOf(ReplayedRecs(Replay)) = manifest.flushed
       \/ \E r \in ReplayedRecs(Replay) : r.seq = TopOf(ReplayedRecs(Replay))
    /\ UNCHANGED <<manifest, opts, mem, obsolete, pinning, inflight, faults>>
    /\ \A e \in ReplayEnd(Replay) : TornAt(e) => e[1] = Max(ReplayIds)

\* An open does that.
LEMMA OpensIs ==
  ASSUME FilesInv, phase = "down", Opens(ReplayedRecs(Replay), RecoveredNextId)
  PROVE  Opened
<1> DEFINE recs == ReplayedRecs(Replay)
           id == RecoveredNextId
           T == Truncated(Replay)
           x == [wal |-> Max(ReplayIds), recs |-> recs]
<1>1. ~Serving /\ mem = {} /\ obsolete = {} /\ pinning = {} /\ inflight = <<>>
  BY DEF Serving, FilesInv, Phases
<1>2. /\ id \in Nat /\ 1 <= id
      /\ \A v \in (DOMAIN wals) \cup (DOMAIN vlogs) \cup ssts : v \in Nat /\ v < id
  BY <1>1, RecoveredIdIs
<1>3. recs \in SUBSET Batch
  BY TakenIs
<1>4. Opens(recs, id)
  OBVIOUS
<1>5. /\ DOMAIN T = DOMAIN wals
      /\ \A v \in DOMAIN wals :
           /\ T[v].recs = wals[v].recs /\ T[v].synced = wals[v].synced
           /\ T[v].torn <=> wals[v].torn /\ \A p \in ReplayEnd(Replay) : TornAt(p) => p[1] # v
  BY TruncatedIs
<1>6. ~Refused(Replay) /\ \A s \in manifest.pins : ~(s > TopOf(recs))
  BY <1>4 DEF Opens
<1>7. \A e \in ReplayEnd(Replay) : TornAt(e) => e[1] = Max(ReplayIds)
  BY <1>6 DEF Refused
<1>8. /\ wals' = With(T, id + 1, EmptyWal) /\ vlogs' = With(vlogs, id, EmptyVlog)
      /\ phase' = "opened" /\ wal' = id + 1 /\ head' = id
      /\ imms' = IF recs = {} THEN <<>> ELSE <<x>>
      /\ visible' = TopOf(recs) /\ acked' = Flushed \cup recs /\ promised' = Flushed \cup recs
      /\ UNCHANGED <<manifest, opts, mem, obsolete, pinning, inflight, faults>>
  BY <1>4 DEF Opens, aside, failures
<1> HIDE DEF recs, id, T, x
<1>9. /\ Updated(T, wals', id + 1, EmptyWal) /\ Updated(vlogs, vlogs', id, EmptyVlog)
  BY <1>8, WithUpdates
<1>10. EmptyWal.recs = <<>> /\ ~EmptyWal.torn
  BY DEF EmptyWal
<1>11. /\ DOMAIN wals' = (DOMAIN wals) \cup {id + 1} /\ wals'[id + 1].recs = <<>> /\ ~wals'[id + 1].torn
       /\ \A v \in DOMAIN wals : wals'[v] = T[v]
       /\ DOMAIN vlogs' = (DOMAIN vlogs) \cup {id}
       /\ \A v \in DOMAIN vlogs : vlogs'[v] = vlogs[v]
  <2>1. \A v \in DOMAIN wals : v # id + 1
    BY <1>2
  <2>2. \A v \in DOMAIN vlogs : v # id
    BY <1>2
  <2> QED  BY <1>5, <1>9, <1>10, <2>1, <2>2 DEF Updated
<1>12. id \notin DOMAIN vlogs /\ id # Inline /\ \A v \in DOMAIN wals : v < id
  BY <1>2 DEF Inline
<1>13. manifest.flushed \in 0 .. MaxSeq /\ MaxSeq \in Nat /\ manifest.pins \in SUBSET (0 .. MaxSeq)
  BY OptionsTyped DEF FilesInv, DiskTypes, ManifestData
<1>14. /\ TopOf(recs) \in 0 .. MaxSeq /\ manifest.flushed <= TopOf(recs)
       /\ \A r \in recs : r.seq <= TopOf(recs) /\ r.seq \in Nat
       /\ TopOf(recs) = manifest.flushed \/ \E r \in recs : r.seq = TopOf(recs)
  <2>1. \A r \in recs : r.seq \in Nat
    BY <1>3, <1>13 DEF Batch
  <2> QED  BY <1>3, <1>13, <2>1, TopIs DEF TopOf
<1>15. TopOf(recs) \in Nat /\ manifest.flushed \in Nat
  BY <1>13, <1>14
<1>16. \A s \in manifest.pins : s \in Nat /\ s <= TopOf(recs)
  <2>1. ASSUME NEW s \in manifest.pins PROVE s \in Nat /\ s <= TopOf(recs)
    <3>1. ~(s > TopOf(recs))
      BY <1>6 DEF recs
    <3>2. s \in 0 .. MaxSeq
      BY <1>13, Zenon
    <3> QED  BY <1>13, <1>15, <3>1, <3>2
  <2> QED  BY <2>1
<1>17. \A v \in DOMAIN wals :
         /\ wals'[v].recs = wals[v].recs /\ wals'[v].synced = wals[v].synced /\ v < id
         /\ wals'[v].torn => wals[v].torn /\ \A p \in ReplayEnd(Replay) : TornAt(p) => p[1] # v
  BY <1>5, <1>11, <1>12
<1>18. imms' = IF recs = {} THEN <<>> ELSE <<[wal |-> Max(ReplayIds), recs |-> recs]>>
  BY <1>8 DEF x
<1> QED  BY <1>1, <1>2, <1>7, <1>8, <1>11, <1>12, <1>14, <1>15, <1>16, <1>17, <1>18, Zenon DEF Opened, recs, id

\* The places of the new store are the ones it replayed.
LEMMA OpenedPlaces ==
  ASSUME FilesInv, FilesInv', LogInv, Opened
  PROVE  /\ Place' = Place /\ Shrinks /\ Young \subseteq Young' /\ Adopted \subseteq Adopted'
         /\ \A p \in Place : /\ RecAt(p)' = RecAt(p) /\ (Missing(p)' <=> Missing(p))
                             /\ RecAt(p).file # RecoveredNextId
                             /\ RecAt(p).file \in Young' => RecAt(p).file \in Young
                             /\ Clean(p)' <=> Clean(p)
                             /\ p[1] \in ReplayIds
         /\ Flushed' = Flushed
<1>1. /\ DOMAIN wals' = (DOMAIN wals) \cup {RecoveredNextId + 1} /\ wals'[RecoveredNextId + 1].recs = <<>>
      /\ \A v \in DOMAIN wals : wals'[v].recs = wals[v].recs
      /\ DOMAIN vlogs' = (DOMAIN vlogs) \cup {RecoveredNextId}
      /\ RecoveredNextId \notin DOMAIN vlogs /\ RecoveredNextId # Inline
      /\ \A v \in DOMAIN vlogs : vlogs'[v] = vlogs[v]
      /\ manifest' = manifest
  BY DEF Opened
<1>2. SamePlaces /\ Shrinks
  BY <1>1, SameRecords
<1>3. Place' = Place /\ \A p \in Place : RecAt(p)' = RecAt(p)
  BY <1>2 DEF SamePlaces, Shrinks
<1>4. Young \subseteq Young' /\ Adopted \subseteq Adopted' /\ \A v \in Young' : v \in Young \/ v = RecoveredNextId
  BY <1>1 DEF Young, Adopted
<1>5. ASSUME NEW p \in Place
      PROVE  /\ RecAt(p).file # RecoveredNextId
             /\ RecAt(p).file \in Young' => RecAt(p).file \in Young
             /\ p[1] \in ReplayIds
  <2>1. RecAt(p).file # Inline => RecAt(p).file \in DOMAIN vlogs
    BY YoungFiles DEF LogInv, Pointers, PointsRight
  <2>2. p[1] \in ReplayIds
    BY ReplayTyped DEF Place
  <2> QED  BY <1>1, <1>4, <2>1, <2>2
<1>6. ASSUME NEW p \in Place PROVE Missing(p)' <=> Missing(p)
  <2>1. ~TornAt(p) /\ ~TornAt(p)' /\ RecAt(p)' = RecAt(p)
    <3>1. p \in Place'
      BY <1>3
    <3> QED  BY <1>3, <3>1 DEF Place, TornAt
  <2> DEFINE r == RecAt(p)
  <2>2. r.file \in Young <=> r.file \in Young'
    BY <1>4, <1>5
  <2>3. RecAt(p)' = r /\ RecAt(p) = r
    BY <2>1
  <2>4. r.file \in Young => vlogs'[r.file] = vlogs[r.file]
    BY <1>1, YoungFiles
  <2> HIDE DEF r
  <2> QED  BY <2>1, <2>2, <2>3, <2>4 DEF Missing
<1>7. ASSUME NEW p \in Place PROVE Clean(p)' <=> Clean(p)
  BY <1>3, <1>6 DEF Clean, Before
<1>8. Flushed' = Flushed
  BY <1>1 DEF Flushed
<1> QED  BY <1>2, <1>3, <1>4, <1>5, <1>6, <1>7, <1>8

\* Nothing shadows the latest of what was taken: past a lost payload there is
\* nothing of the same internal key.
LEMMA LatestTaken ==
  ASSUME FilesInv, LogInv, \A e \in ReplayEnd(Replay) : TornAt(e) => e[1] = Max(ReplayIds),
         NEW r \in ReplayedRecs(Replay)
  PROVE  \E p \in Place : RecAt(p) = r /\ Latest(p) /\ Clean(p) /\ p[1] \in ReplayIds
<1>1. PICK p \in Taken(Replay) :
        r = RecAt(p) /\ \A q \in Taken(Replay) : Before(p, q) => ~SameKey(RecAt(p), RecAt(q))
  BY DEF ReplayedRecs
<1>2. p \in Place /\ Clean(p) /\ p[1] \in ReplayIds
  BY TakenPlaces, ReplayTyped DEF Place
<1>3. ASSUME NEW q \in Place, Before(p, q) PROVE ~SameKey(RecAt(p), RecAt(q))
  <2>1. CASE opts.sync = "relaxed"
    <3>1. RecAt(p).seq < RecAt(q).seq
      BY <1>2, <1>3, <2>1 DEF LogInv, LogOrder
    <3>2. RecAt(p).seq \in Nat /\ RecAt(q).seq \in Nat
      BY <1>2, PlacesTyped DEF PlaceTyped
    <3> QED  BY <3>1, <3>2 DEF SameKey
  <2>2. CASE opts.sync = "always"
    <3>1. ASSUME NEW m \in Place, Missing(m) PROVE FALSE
      <4>1. RecAt(m).file \in Young
        BY <3>1 DEF Missing
      <4>2. RecAt(m).file # Inline
        BY <4>1, YoungFiles DEF Adopted
      <4>3. PayloadSafe(RecAt(m))
        BY <2>2, <4>2 DEF LogInv, Pointers, PointsRight
      <4> DEFINE x == RecAt(m)
      <4> HIDE DEF x
      <4>4. x.pos \in 1 .. vlogs[x.file].synced /\ vlogs[x.file].recs[x.pos].key = x.key /\ x.file \in DOMAIN vlogs
        BY <4>1, <4>3, YoungFiles DEF PayloadSafe, x
      <4>5. x.pos \in DOMAIN vlogs[x.file].recs
        <5>1. /\ vlogs[x.file].synced \in Nat /\ vlogs[x.file].synced <= Len(vlogs[x.file].recs)
              /\ Len(vlogs[x.file].recs) \in Nat /\ DOMAIN vlogs[x.file].recs = 1 .. Len(vlogs[x.file].recs)
          BY <4>4, YoungFiles
        <5> QED  BY <4>4, <5>1
      <4> QED  BY <3>1, <4>4, <4>5 DEF Missing, x
    <3>2. q \in Taken(Replay)
      BY <3>1, TakenPlaces DEF Clean
    <3> QED  BY <1>1, <1>3, <3>2
  <2> QED  BY <2>1, <2>2, OptionsTyped
<1> QED  BY <1>1, <1>2, <1>3 DEF Latest

\* The open, up to the recovery flush.
LEMMA OpensLogKept ==
  ASSUME FilesInv, FilesInv', LogInv, Opened
  PROVE  LogInv'
<1> DEFINE recs == ReplayedRecs(Replay)
           id == RecoveredNextId
           top == TopOf(recs)
<1>1. /\ phase = "down" /\ phase' = "opened" /\ ~Serving /\ Serving'
      /\ wal' = id + 1 /\ head' = id /\ id \in Nat
      /\ DOMAIN wals' = (DOMAIN wals) \cup {id + 1} /\ wals'[id + 1].recs = <<>> /\ ~wals'[id + 1].torn
      /\ \A v \in DOMAIN wals :
           /\ wals'[v].recs = wals[v].recs /\ wals'[v].synced = wals[v].synced /\ v < id
           /\ wals'[v].torn => wals[v].torn /\ \A p \in ReplayEnd(Replay) : TornAt(p) => p[1] # v
      /\ \A v \in DOMAIN vlogs : vlogs'[v] = vlogs[v]
      /\ visible' = top /\ top \in Nat
      /\ acked' = Flushed \cup recs /\ promised' = Flushed \cup recs
      /\ mem' = {} /\ obsolete' = {} /\ pinning' = {} /\ inflight' = <<>>
      /\ manifest' = manifest /\ opts' = opts /\ faults' = faults
      /\ \A e \in ReplayEnd(Replay) : TornAt(e) => e[1] = Max(ReplayIds)
  BY DEF Opened, Serving
<1>2. imms' = IF recs = {} THEN <<>> ELSE <<[wal |-> Max(ReplayIds), recs |-> recs]>>
  BY DEF Opened
<1>3. /\ \A s \in manifest.pins : s \in Nat /\ s <= top
      /\ manifest.flushed <= top /\ manifest.flushed \in Nat
      /\ \A r \in recs : r.seq <= top /\ r.seq \in Nat
      /\ top = manifest.flushed \/ \E r \in recs : r.seq = top
  BY DEF Opened
<1>4. /\ Place' = Place /\ Shrinks /\ Young \subseteq Young' /\ Adopted \subseteq Adopted' /\ Flushed' = Flushed
      /\ \A p \in Place : /\ RecAt(p)' = RecAt(p) /\ (Missing(p)' <=> Missing(p))
                          /\ RecAt(p).file # id
                          /\ RecAt(p).file \in Young' => RecAt(p).file \in Young
                          /\ Clean(p)' <=> Clean(p)
                          /\ p[1] \in ReplayIds
  BY OpenedPlaces
<1>5. \A r \in recs : \E p \in Place : RecAt(p) = r /\ Latest(p) /\ Clean(p) /\ p[1] \in ReplayIds
  BY <1>1, LatestTaken
<1>6. /\ \A p \in Taken(Replay) : p \in Place /\ Clean(p)
      /\ \A p \in Place : Clean(p) => p \in Taken(Replay)
  BY <1>1, TakenPlaces
<1>7. YoungKept
  <2>1. ASSUME NEW p \in Place', RecAt(p).file \in Young' PROVE FsyncedKept(RecAt(p).file)
    <3> DEFINE f == RecAt(p).file
    <3>1. f \in Young
      BY <1>4, <2>1
    <3> HIDE DEF f
    <3>2. f \in DOMAIN vlogs /\ vlogs'[f] = vlogs[f] /\ vlogs[f].synced \in Nat
      BY <1>1, <3>1, YoungFiles
    <3>3. FsyncedKept(f)
      BY <3>1, <3>2 DEF FsyncedKept
    <3> QED  BY <3>3 DEF f
  <2> QED  BY <2>1 DEF YoungKept
<1>8. \A p \in Place : Latest(p) => Latest(p)'
  BY <1>4, <1>7, ShrinksKeeps
<1>9. \A p \in Replay : /\ p[1] \in ReplayIds /\ Max(ReplayIds) \in ReplayIds /\ Max(ReplayIds) \in Nat
                        /\ p[1] <= Max(ReplayIds) /\ p[1] \in Nat
  BY NewestReplayed
<1>10. \A p \in Place : p \in Replay /\ p[1] <= Max(ReplayIds)
  BY <1>9 DEF Place
<1>11. \A v \in DOMAIN wals : v # id + 1 /\ v \in Nat
  BY <1>1, ReplayTyped
<1> HIDE DEF recs, id, top
<1>12. LogOrder'
  BY <1>1, <1>4, ShrinksOrder DEF LogInv
<1>13. LogAbove'
  BY <1>1, <1>4 DEF LogInv, LogAbove
<1>14. LogBelow'
  BY <1>1 DEF LogBelow
<1>15. LogKnown'
  <2>1. ASSUME NEW p \in Place
        PROVE  \/ RecAt(p) \in acked'
               \/ ~Clean(p)
               \/ \E q \in Place : Before(p, q) /\ SameKey(RecAt(p), RecAt(q)) /\ Clean(q)
    <3>1. CASE Clean(p)
      <4>1. p \in Taken(Replay)
        BY <1>6, <3>1
      <4>2. RecAt(p) \in recs \/ \E q \in Taken(Replay) : Before(p, q) /\ SameKey(RecAt(p), RecAt(q))
        BY <4>1 DEF recs, ReplayedRecs
      <4> QED  BY <1>1, <1>6, <4>2
    <3> QED  BY <3>1
  <2>2. ASSUME NEW p \in Place'
        PROVE  \/ RecAt(p)' \in acked' \cup gray'
               \/ phase' # "up" /\ ~Clean(p)'
               \/ phase' # "up" /\ \E q \in Place' :
                     Before(p, q) /\ SameKey(RecAt(p)', RecAt(q)') /\ Clean(q)'
    BY <1>1, <1>4, <2>1
  <2> QED  BY <2>2 DEF LogKnown, Before, SameKey
<1>16. Pointers'
  <2>1. ASSUME NEW p \in Place, RecAt(p).file # Inline PROVE PointsRight(p)'
    <3>1. PointsRight(p) /\ RecAt(p)' = RecAt(p)
      BY <1>4, <2>1 DEF LogInv, Pointers
    <3>2. opts.sync = "always" => PayloadSafe(RecAt(p))'
      BY <1>4, <1>7, <2>1, <3>1, ShrinksKeeps DEF PointsRight
    <3>3. RecAt(p).file \in Adopted' /\ RecAt(p).file # head'
      BY <1>1, <1>4, <2>1, <3>1 DEF PointsRight
    <3> QED  BY <1>1, <3>1, <3>2, <3>3 DEF PointsRight, PayloadSafe
  <2> QED  BY <1>4, <2>1 DEF Pointers, PointsRight, RecAt
<1>17. ASSUME NEW r \in FrozenRecs(imms') PROVE r \in recs
  <2>1. CASE recs = {}
    <3>1. DOMAIN imms' = {}
      BY <1>2, <2>1
    <3> QED  BY <1>17, <3>1, FrozenRecsIs
  <2>2. CASE recs # {}
    <3>1. imms' = <<[wal |-> Max(ReplayIds), recs |-> recs]>>
      BY <1>2, <2>2
    <3>2. \A j \in DOMAIN imms' : imms'[j].recs = recs
      BY <3>1
    <3> QED  BY <1>17, <3>2, FrozenRecsIs
  <2> QED  BY <2>1, <2>2
<1>18. ASSUME NEW r \in recs PROVE r \in FrozenRecs(imms')
  <2>1. imms' = <<[wal |-> Max(ReplayIds), recs |-> recs]>>
    BY <1>2, <1>18
  <2>2. 1 \in DOMAIN imms' /\ imms'[1].recs = recs
    BY <2>1
  <2> QED  BY <1>18, <2>2, FrozenRecsIs
<1>19. Contained'
  <2>1. Contents' = Flushed \cup recs
    BY <1>1, <1>4, <1>17, <1>18, ContentsIs
  <2>2. \A r \in Flushed : r.seq <= manifest.flushed /\ r.seq \in Nat
    BY DEF LogInv, Contained, Flushed, FilesInv, DiskTypes, ManifestData, Run, Batch
  <2>3. \A r \in acked' : r.seq <= visible'
    BY <1>1, <1>3, <2>2
  <2>4. visible' <= manifest.flushed \/ \E r \in acked' : visible' <= r.seq
    BY <1>1, <1>3
  <2> QED  BY <1>1, <1>3, <1>4, <2>1, <2>2, <2>3, <2>4 DEF Contained
<1>20. FrozenLogged'
  <2>1. ASSUME NEW j \in DOMAIN imms', NEW r \in imms'[j].recs
        PROVE  \E p \in Place' : FrozenAt(r, j, p)'
    <3>1. /\ j = 1 /\ imms'[j].wal = Max(ReplayIds) /\ r \in recs /\ DOMAIN imms' = {1}
      BY <1>2, <2>1
    <3>2. PICK p \in Place : RecAt(p) = r /\ Latest(p)
      BY <1>5, <3>1
    <3>3. \A q \in Place : ~(q[1] > Max(ReplayIds))
      BY <1>9, <1>10
    <3>4. RecAt(p)' = r /\ Latest(p)' /\ p[1] <= imms'[j].wal
      BY <1>4, <1>8, <1>10, <3>1, <3>2
    <3>5. \A l \in DOMAIN imms' : ~(l > j)
      BY <3>1
    <3> QED  BY <1>4, <3>1, <3>3, <3>4, <3>5 DEF FrozenAt
  <2> QED  BY <2>1 DEF FrozenLogged, FrozenAt, RecAt, Latest, Before, SameKey
<1>21. MemLogged'
  BY <1>1 DEF MemLogged
<1>22. OpenedLogged'
  <2>1. SUFFICES ASSUME imms' # <<>>
                 PROVE  /\ Len(imms') = 1 /\ \A p \in Place' : p[1] <= imms'[1].wal
                        /\ \A v \in DOMAIN wals' : v <= imms'[1].wal \/ v = wal'
    BY DEF OpenedLogged
  <2>2. recs # {} /\ imms' = <<[wal |-> Max(ReplayIds), recs |-> recs]>>
    BY <1>2, <2>1
  <2>3. Len(imms') = 1 /\ imms'[1].wal = Max(ReplayIds)
    BY <2>2
  <2>4. Max(ReplayIds) \in ReplayIds /\ Max(ReplayIds) \in Nat /\ manifest.floor <= Max(ReplayIds) /\ manifest.floor \in Nat
    <3>1. PICK p \in Place : p[1] \in ReplayIds
      BY <1>5, <2>2
    <3>2. manifest.floor \in Nat
      BY DEF FilesInv, DiskTypes, ManifestData
    <3>3. Max(ReplayIds) \in ReplayIds /\ Max(ReplayIds) \in Nat
      BY <1>9, <1>10
    <3>4. Max(ReplayIds) >= manifest.floor
      BY <3>3 DEF ReplayIds
    <3> QED  BY <3>2, <3>3, <3>4
  <2>5. ASSUME NEW v \in DOMAIN wals PROVE v <= Max(ReplayIds)
    <3>1. CASE v >= manifest.floor
      <4>1. v \in ReplayIds
        BY <3>1 DEF ReplayIds
      <4>2. ReplayIds \in SUBSET Int /\ IsFiniteSet(ReplayIds) /\ ReplayIds # {}
        <5>1. ReplayIds \in SUBSET Nat /\ ReplayIds \in SUBSET DOMAIN wals /\ IsFiniteSet(DOMAIN wals)
          BY DEF ReplayIds, FilesInv, DiskTypes, FileTypes
        <5>2. IsFiniteSet(ReplayIds)
          BY <5>1, FS_Subset
        <5> QED  BY <4>1, <5>1, <5>2
      <4> QED  BY <4>1, <4>2, MaxIs
    <3>2. CASE ~(v >= manifest.floor)
      BY <1>11, <2>4, <3>2
    <3> QED  BY <3>1, <3>2
  <2> QED  BY <1>1, <1>4, <1>10, <2>3, <2>5
<1>23. Durable'
  <2>1. ASSUME NEW r \in recs PROVE \E p \in Place' : RecAt(p)' = r /\ Latest(p)' /\ Safe(p)'
    <3>1. PICK p \in Place : RecAt(p) = r /\ Latest(p) /\ Clean(p)
      BY <1>5, <2>1
    <3>2. ASSUME NEW q \in Place', ~Before(p, q)
          PROVE  q[2] <= wals'[q[1]].synced /\ PayloadSafe(RecAt(q))'
      <4>1. q \in Place /\ PlaceTyped(q) /\ ~Missing(q)
        BY <1>4, <3>1, <3>2, PlacesTyped DEF Clean
      <4>2. q[2] <= wals'[q[1]].synced
        <5>1. wals[q[1]].synced = Len(wals[q[1]].recs) /\ q[1] \in DOMAIN wals
          BY <1>1, <4>1 DEF FilesInv, Sealed, PlaceTyped
        <5> QED  BY <1>1, <4>1, <5>1 DEF PlaceTyped
      <4> DEFINE x == RecAt(q)
      <4>3. RecAt(q)' = x
        BY <1>4, <4>1
      <4>4. CASE x.file \in Young'
        <5>1. x.file \in Young /\ ~TornAt(q)
          BY <1>4, <4>1, <4>4 DEF Place
        <5>2. PICK i \in DOMAIN vlogs[x.file].recs : i = x.pos /\ vlogs[x.file].recs[i].key = x.key
          BY <4>1, <5>1 DEF Missing
        <5> HIDE DEF x
        <5>3. /\ x.file \in DOMAIN vlogs /\ vlogs'[x.file] = vlogs[x.file]
              /\ DOMAIN vlogs[x.file].recs = 1 .. Len(vlogs[x.file].recs)
          BY <1>1, <5>1, YoungFiles
        <5>4. vlogs[x.file].synced = Len(vlogs[x.file].recs)
          BY <1>1, <5>3 DEF FilesInv, Sealed
        <5> QED  BY <4>2, <4>3, <5>2, <5>3, <5>4 DEF PayloadSafe
      <4>5. CASE x.file \notin Young'
        BY <4>2, <4>3, <4>5 DEF PayloadSafe
      <4> QED  BY <4>4, <4>5
    <3>3. Safe(p)'
      BY <3>2 DEF Safe, Before
    <3> QED  BY <1>4, <1>8, <3>1, <3>3
  <2> QED  BY <1>1, <1>4, <2>1 DEF Durable
<1>24. Lost'
  BY <1>1 DEF Lost
<1>25. PinsCovered'
  <2>1. ASSUME NEW s \in manifest.pins PROVE s <= manifest.flushed \/ \E r \in promised' : s <= r.seq
    BY <1>1, <1>3, <2>1
  <2> QED  BY <1>1, <2>1 DEF PinsCovered
<1>26. Torn'
  <2>1. SUFFICES ASSUME faults = 0
                 PROVE  /\ \A v \in DOMAIN wals' : v <= wal'
                        /\ \A v \in ReplayIds' : wals'[v].torn =>
                             \/ \A b \in DOMAIN wals' : b <= v
                             \/ \E q \in Place' : q[1] <= v /\ Missing(q)'
    BY <1>1 DEF Torn
  <2>2. \A v \in DOMAIN wals' : v <= wal'
    BY <1>1, <1>11
  <2>3. ASSUME NEW v \in ReplayIds', wals'[v].torn
        PROVE  \E q \in Place' : q[1] <= v /\ Missing(q)'
    <3>1. v \in DOMAIN wals' /\ v >= manifest.floor
      BY <1>1 DEF ReplayIds
    <3>2. v \in DOMAIN wals /\ wals[v].torn /\ v \in ReplayIds /\ v \in Nat
         /\ \A p \in ReplayEnd(Replay) : TornAt(p) => p[1] # v
      BY <1>1, <1>11, <2>3, <3>1 DEF ReplayIds
    <3>3. CASE \E q \in Place : q[1] <= v /\ Missing(q)
      BY <1>4, <3>3
    <3>4. CASE \A b \in DOMAIN wals : b <= v
      <4>1. PICK m \in Replay : TornAt(m) /\ Bad(m) /\ m[1] = v
        BY <3>2, TornPlace
      <4>2. PICK e \in ReplayEnd(Replay) : ~Before(m, e)
        BY <4>1, LeastBad
      <4>3. e \in Replay /\ Bad(e) /\ Max(ReplayIds) \in DOMAIN wals /\ Max(ReplayIds) \in Nat /\ v <= Max(ReplayIds)
        BY <1>9, <4>1 DEF ReplayEnd, ReplayIds
      <4>4. Max(ReplayIds) = v
        BY <3>2, <3>4, <4>3
      <4>5. ~TornAt(e)
        BY <1>1, <3>2, <4>4
      <4>6. e \in Place /\ Missing(e)
        BY <4>3, <4>5, NoUnknown DEF Bad
      <4>7. e[1] <= v
        BY <1>9, <3>2, <4>1, <4>2, <4>3 DEF Before
      <4> QED  BY <1>4, <4>6, <4>7
    <3> QED  BY <2>1, <3>2, <3>3, <3>4 DEF LogInv, Torn
  <2> QED  BY <2>2, <2>3
<1> QED  BY <1>12, <1>13, <1>14, <1>15, <1>16, <1>19, <1>20, <1>21, <1>22, <1>23, <1>24, <1>25, <1>26 DEF LogInv

-----------------------------------------------------------------------------
(* What the log's invariant shows                                          *)

\* A log that is not damaged: a torn end only in the newest WAL.
WholeLog == \A e \in ReplayEnd(Replay) : TornAt(e) => e[1] = Max(ReplayIds)

\* Replay brings back what was promised.
LEMMA PromisedReplayed ==
  ASSUME FilesInv, LogInv, WholeLog
  PROVE  promised \subseteq Flushed \cup ReplayedRecs(Replay)
<1>1. ASSUME NEW r \in promised \ Flushed PROVE r \in ReplayedRecs(Replay)
  <2>1. PICK p \in Place : RecAt(p) = r /\ Latest(p) /\ Safe(p)
    BY <1>1 DEF LogInv, Durable
  <2>2. p \in Taken(Replay)
    BY <2>1, SafeIsClean, TakenPlaces DEF WholeLog
  <2>3. \A q \in Taken(Replay) : Before(p, q) => ~SameKey(RecAt(p), RecAt(q))
    BY <2>1, TakenPlaces DEF Latest, WholeLog
  <2> QED  BY <2>1, <2>2, <2>3 DEF ReplayedRecs
<1> QED  BY <1>1

\* Without a failed call the log is not damaged.
LEMMA WholeWithoutFaults ==
  ASSUME FilesInv, LogInv, faults = 0
  PROVE  WholeLog
<1>1. SUFFICES ASSUME NEW e \in ReplayEnd(Replay), TornAt(e)
               PROVE  e[1] = Max(ReplayIds)
  BY DEF WholeLog
<1>2. e \in Replay /\ \A q \in Replay : Bad(q) => ~Before(q, e)
  BY DEF ReplayEnd
<1>3. e[1] \in ReplayIds /\ e[1] \in Nat /\ e[2] \in Nat /\ wals[e[1]].torn /\ e[2] = Len(wals[e[1]].recs) + 1
  BY <1>1, <1>2, ReplayTyped
<1>4. CASE \A b \in DOMAIN wals : b <= e[1]
  <2>1. Max(ReplayIds) \in DOMAIN wals /\ Max(ReplayIds) \in Nat /\ e[1] <= Max(ReplayIds)
    BY <1>2, NewestReplayed DEF ReplayIds
  <2> QED  BY <1>3, <1>4, <2>1
<1>5. CASE \E q \in Place : q[1] <= e[1] /\ Missing(q)
  <2>1. PICK q \in Place : q[1] <= e[1] /\ Missing(q)
    BY <1>5
  <2>2. q \in Replay /\ Bad(q)
    BY <2>1 DEF Place, Bad
  <2>3. q[1] \in Nat /\ q[2] \in 1 .. Len(wals[q[1]].recs) /\ Len(wals[q[1]].recs) \in Nat
    BY <2>2, ReplayTyped DEF Place
  <2>4. Before(q, e)
    BY <1>3, <2>1, <2>3 DEF Before
  <2> QED  BY <1>2, <2>2, <2>4
<1> QED  BY <1>3, <1>4, <1>5 DEF LogInv, Torn

\* An open fails only where it is refused.
LEMMA FailedOpenIs ==
  ASSUME OpenReplay, phase' = "failed"
  PROVE  \/ Refused(Replay) \/ \E s \in manifest.pins : s > TopOf(ReplayedRecs(Replay))
         \/ RecoveredNextId \in DOMAIN vlogs \/ RecoveredNextId + 1 \in DOMAIN wals
<1>1. \E ps \in {Replay} : \E recs \in {ReplayedRecs(ps)}, id \in {RecoveredNextId} :
           OpenBody(ps, recs, id)
  BY Zenon DEF OpenReplay, OpenBody, TopOf
<1>2. OpenBody(Replay, ReplayedRecs(Replay), RecoveredNextId)
  BY <1>1
<1> DEFINE recs == ReplayedRecs(Replay)
           id == RecoveredNextId
           refused == \/ Refused(Replay) \/ \E s \in manifest.pins : s > TopOf(recs)
                      \/ id \in DOMAIN vlogs \/ id + 1 \in DOMAIN wals
<1>3. CASE ~refused
  <2>1. phase' = "opened"
    BY <1>2, <1>3, Zenon DEF OpenBody
  <2> QED  BY <2>1
<1> QED  BY <1>3

\* Without a failed call no open is refused.
LEMMA OpenSucceeds ==
  ASSUME FilesInv, LogInv, faults = 0, OpenReplay
  PROVE  phase' # "failed"
<1> SUFFICES ASSUME phase' = "failed" PROVE FALSE
  OBVIOUS
<1> DEFINE recs == ReplayedRecs(Replay)
<1>1. phase = "down" /\ ~Serving
  BY OpenReplayIs DEF Serving
<1>2. WholeLog
  BY WholeWithoutFaults
<1>3. ~Refused(Replay)
  <2>1. ASSUME NEW e \in ReplayEnd(Replay) PROVE ~UnknownFile(e)
    BY NoUnknown DEF ReplayEnd, UnknownFile
  <2>2. /\ manifest.live \subseteq DOMAIN vlogs
        /\ {r.id : r \in manifest.runs} \subseteq ssts
    BY DEF FilesInv, ValueFiles
  <2> QED  BY <1>2, <2>1, <2>2 DEF Refused, WholeLog
<1>4. ASSUME NEW s \in manifest.pins, s > TopOf(recs) PROVE FALSE
  <2>1. manifest.flushed \in 0 .. MaxSeq /\ MaxSeq \in Nat /\ manifest.pins \in SUBSET (0 .. MaxSeq)
    BY OptionsTyped DEF FilesInv, DiskTypes, ManifestData
  <2>2. recs \in SUBSET Batch /\ promised \in SUBSET Batch
    BY TakenIs DEF FilesInv, MemoryTypes
  <2>3. s \in 0 .. MaxSeq
    BY <2>1, Zenon
  <2>4. promised \subseteq Flushed \cup recs
    BY <1>2, PromisedReplayed
  <2> HIDE DEF recs
  <2>5. /\ TopOf(recs) \in 0 .. MaxSeq /\ manifest.flushed <= TopOf(recs)
        /\ \A r \in recs : r.seq <= TopOf(recs)
    BY <2>1, <2>2, TopIs DEF TopOf
  <2>6. s <= manifest.flushed \/ \E r \in promised : s <= r.seq
    BY DEF LogInv, PinsCovered
  <2>7. \A r \in Flushed : r.seq <= manifest.flushed
    BY DEF LogInv, Contained
  <2>8. \A r \in promised : r.seq <= TopOf(recs) /\ r.seq \in Nat
    <3>1. ASSUME NEW r \in promised PROVE r.seq \in Nat
      BY <2>1, <2>2 DEF Batch
    <3> QED  BY <2>1, <2>4, <2>5, <2>7, <3>1
  <2> QED  BY <1>4, <2>1, <2>3, <2>5, <2>6, <2>8
<1>5. RecoveredNextId \notin DOMAIN vlogs /\ RecoveredNextId + 1 \notin DOMAIN wals
  <2>1. RecoveredNextId \in Nat /\ \A v \in (DOMAIN wals) \cup (DOMAIN vlogs) : v \in Nat /\ v < RecoveredNextId
    BY <1>1, RecoveredIdIs
  <2> QED  BY <2>1
<1> QED  BY <1>3, <1>4, <1>5, FailedOpenIs

\* The steps that change the phase, the count of failed calls and what a power
\* loss exposed.
LEMMA PhaseSteps ==
  ASSUME FilesInv, [Next \/ ForkNext]_vars
  PROVE  /\ faults \in Nat /\ faults' \in Nat /\ faults <= faults' /\ (exposed => exposed')
         /\ phase' = phase \/ Crash \/ Kill \/ OpenReplay \/ OpenComplete \/ StartupGc
<1>1. faults \in Nat
  BY DEF FilesInv, MemoryTypes
<1> DEFINE counted == (faults' = faults \/ faults' = faults + 1) /\ (exposed => exposed')
           moved == phase' = phase \/ Crash \/ Kill \/ OpenReplay \/ OpenComplete \/ StartupGc
<1> SUFFICES counted /\ moved
  BY <1>1
<1>2. CASE \E k \in opts.keys, large \in opts.large : Write(k, large)
  BY <1>2 DEF Write, failures
<1>3. CASE Publish \/ PublishHeadFails
  BY <1>3 DEF Publish, PublishHeadFails, Published, Fails, failures
<1>4. CASE SyncWal \/ PinBarrier \/ GcBarrier
  BY <1>4 DEF SyncWal, PinBarrier, GcBarrier, failures
<1>5. CASE ForceRotate
  BY <1>5 DEF ForceRotate, Freeze, failures
<1>6. CASE Flush
  BY <1>6 DEF Flush, failures
<1>7. CASE AppendFails \/ SyncFails
  BY <1>7 DEF AppendFails, SyncFails, Fails, failures
<1>8. CASE PublishRotateFails \/ RotateFails \/ FlushFails
  <2>1. Fails /\ phase' = phase
    BY <1>8 DEF PublishRotateFails, RotateFails, FlushFails
  <2> QED  BY <2>1 DEF Fails
<1>9. CASE PinCommit \/ \E s \in manifest.pins : Unpin(s)
  BY <1>9 DEF PinCommit, Unpin, failures
<1>10. CASE \E v \in vmap : StartGc(v)
  BY <1>10 DEF StartGc, failures
<1>11. CASE \E i \in 1 .. opts.vlog_file_size : Relocate(i)
  BY <1>11 DEF Relocate, failures
<1>12. CASE Retire \/ ProcessRetired
  BY <1>12 DEF Retire, ProcessRetired, failures
<1>13. CASE \E id \in obsolete : Unlink(id)
  BY <1>13 DEF Unlink, failures
<1>14. CASE Crash \/ Kill
  <2>1. ProcessEnds /\ (exposed => exposed')
    <3>1. CASE Crash
      <4>1. PICK n \in Survivals(wals), m \in Survivals(vlogs) :
                exposed' = (exposed \/ Exposes(wals, n) \/ Exposes(vlogs, m))
        BY <3>1 DEF Crash
      <4> QED  BY <3>1, <4>1 DEF Crash
    <3>2. CASE Kill
      BY <3>2 DEF Kill
    <3> QED  BY <1>14, <3>1, <3>2
  <2>2. faults' = faults
    BY <2>1 DEF ProcessEnds
  <2> QED  BY <1>14, <2>1, <2>2
<1>15. CASE OpenReplay
  BY <1>15, OpenReplayIs DEF OpenFails, Opens, failures
<1>16. CASE OpenComplete \/ StartupGc
  BY <1>16 DEF OpenComplete, StartupGc, failures
<1>17. CASE ForkBegin
  BY <1>17 DEF ForkBegin, Freeze, store, disk, failures
<1>18. CASE ForkDrained \/ ForkFails \/ \E cut \in Cuts : ForkCut(cut)
  BY <1>18 DEF ForkDrained, ForkFails, ForkCut, store, failures
<1>19. CASE ForkPublish
  BY <1>19 DEF ForkPublish, failures
<1>20. CASE UNCHANGED vars
  BY <1>20 DEF vars, disk, failures
<1> QED
  BY <1>2, <1>3, <1>4, <1>5, <1>6, <1>7, <1>8, <1>9, <1>10, <1>11, <1>12, <1>13, <1>14, <1>15, <1>16,
     <1>17, <1>18, <1>19, <1>20 DEF Next, ForkNext

\* Every step of the store or of a fork keeps the log.
LEMMA StepLogKept ==
  ASSUME FilesInv, LogInv, [Next \/ ForkNext]_vars, ~exposed'
  PROVE  LogInv'
<1>0. FilesInv'
  BY StepFilesKept
<1>1. CASE \E k \in opts.keys, large \in opts.large : Write(k, large)
  BY <1>0, <1>1, WriteLogKept
<1>2. CASE Publish \/ PublishHeadFails
  BY <1>0, <1>2, PublishLogKept
<1>3. CASE SyncWal \/ PinBarrier \/ GcBarrier
  BY <1>0, <1>3, BarrierLogKept
<1>4. CASE ForceRotate \/ ForkBegin
  BY <1>0, <1>4, RotationLogKept
<1>5. CASE Flush
  BY <1>0, <1>5, FlushLogKept
<1>6. CASE AppendFails
  BY <1>0, <1>6, AppendFailsLogKept
<1>7. CASE SyncFails \/ FlushFails
  BY <1>0, <1>7, FailureLogKept
<1>8. CASE PublishRotateFails
  BY <1>0, <1>8, PublishRotateFailsLogKept
<1>9. CASE RotateFails
  BY <1>0, <1>9, RotateFailsLogKept
<1>10. CASE \/ PinCommit \/ \E s \in manifest.pins : Unpin(s)
            \/ \E v \in vmap : StartGc(v)
            \/ ForkDrained \/ ForkFails \/ \E cut \in Cuts : ForkCut(cut)
  BY <1>0, <1>10, AsideLogKept
<1>11. CASE \E i \in 1 .. opts.vlog_file_size : Relocate(i)
  BY <1>0, <1>11, RelocateLogKept
<1>12. CASE Retire
  BY <1>0, <1>12, RetireLogKept
<1>13. CASE ProcessRetired
  BY <1>0, <1>13, ProcessRetiredLogKept
<1>14. CASE \E id \in obsolete : Unlink(id)
  BY <1>0, <1>14, UnlinkLogKept
<1>15. CASE Crash \/ Kill
  BY <1>0, <1>15, CrashLogKept
<1>16. CASE OpenReplay
  <2>1. phase = "down" /\ (OpenFails \/ Opens(ReplayedRecs(Replay), RecoveredNextId))
    BY <1>16, OpenReplayIs
  <2>2. CASE OpenFails
    <3>1. Unmoved
      BY <2>1, <2>2 DEF OpenFails, Unmoved, disk, aside, tree, vlogVars, failures, history
    <3> QED  BY <3>1, UnmovedLogKept
  <2>3. CASE Opens(ReplayedRecs(Replay), RecoveredNextId)
    BY <1>0, <2>1, <2>3, OpensIs, OpensLogKept
  <2> QED  BY <2>1, <2>2, <2>3
<1>17. CASE OpenComplete
  BY <1>0, <1>17, OpenCompleteLogKept
<1>18. CASE StartupGc
  BY <1>0, <1>18, StartupGcLogKept
<1>19. CASE ForkPublish
  BY <1>0, <1>19, ForkPublishLogKept
<1>20. CASE UNCHANGED vars
  <2>1. Unmoved
    BY <1>20 DEF Unmoved, vars, disk, aside, tree, vlogVars, failures, history
  <2> QED  BY <2>1, UnmovedLogKept
<1> QED
  BY <1>1, <1>2, <1>3, <1>4, <1>5, <1>6, <1>7, <1>8, <1>9, <1>10, <1>11, <1>12, <1>13, <1>14,
     <1>15, <1>16, <1>17, <1>18, <1>19, <1>20 DEF Next, ForkNext

\* The invariant, unless a power loss took what an earlier death of the process
\* had left to the page cache.
LogHolds == ~exposed => LogInv

\* LogHolds holds of every run.
THEOREM LogAlways == ForkSpec => [](FilesInv /\ LogHolds)
<1>1. Init => FilesInv /\ LogHolds
  BY InitFiles, InitLog DEF LogHolds
<1>2. FilesInv /\ LogHolds /\ [Next \/ ForkNext]_vars => (FilesInv /\ LogHolds)'
  BY StepFilesKept, StepLogKept, PhaseSteps DEF LogHolds
<1> QED  BY <1>1, <1>2, PTL DEF ForkSpec

\* The step from a directory to a store that serves.
LEMMA OpenStep ==
  ASSUME FilesInv, [Next \/ ForkNext]_vars, phase = "down", phase' = "opened"
  PROVE  Opened
<1>1. OpenReplay
  BY PhaseSteps DEF Crash, Kill, ProcessEnds, OpenComplete, StartupGc
<1>2. ~OpenFails
  BY DEF OpenFails
<1> QED  BY <1>1, <1>2, OpenReplayIs, OpensIs

\* Every batch acknowledged in Always mode, and every batch acknowledged before
\* a barrier in the relaxed modes, is served by every later state of the store,
\* through crashes at any point, crashes of the recovery included, and failed
\* I/O calls, for any number of keys, files, crashes and failures; until a power
\* loss takes what an earlier death of the process had left to the page cache.
THEOREM PromisesHold == ForkSpec => PromisesKept
<1>1. ASSUME FilesInv, LogHolds, LogHolds', [Next \/ ForkNext]_vars, ~exposed'
      PROVE  /\ phase = "down" /\ phase' = "opened" => promised \subseteq acked'
             /\ Serving' => promised' \subseteq Contents'
  <2>0. LogInv /\ LogInv'
    BY <1>1, PhaseSteps DEF LogHolds
  <2>1. ASSUME phase = "down", phase' = "opened" PROVE promised \subseteq acked'
    <3>1. Opened
      BY <1>1, <2>1, OpenStep
    <3>2. WholeLog /\ acked' = Flushed \cup ReplayedRecs(Replay)
      BY <3>1 DEF Opened, WholeLog
    <3> QED  BY <1>1, <2>0, <3>2, PromisedReplayed
  <2>2. Serving' => promised' \subseteq Contents'
    BY <2>0 DEF LogInv, Contained
  <2> QED  BY <2>1, <2>2
<1>2. FilesInv /\ LogHolds /\ (FilesInv /\ LogHolds)' /\ [Next \/ ForkNext]_vars =>
        [~exposed' =>
           /\ phase = "down" /\ phase' = "opened" => promised \subseteq acked'
           /\ Serving' => promised' \subseteq Contents']_vars
  BY <1>1
<1> QED  BY <1>2, LogAlways, PTL DEF ForkSpec, PromisesKept

\* What an open brings back: batches that were written, and of the acknowledged
\* ones none above one it has lost.
LEMMA PrefixRecovered ==
  ASSUME FilesInv, LogInv, Opened
  PROVE  /\ acked' \subseteq acked \cup gray
         /\ \A lost \in acked \ acked', r \in acked' : r.seq < lost.seq
<1> DEFINE recs == ReplayedRecs(Replay)
<1>1. WholeLog /\ acked' = Flushed \cup recs /\ phase = "down" /\ ~Serving
  BY DEF Opened, WholeLog, Serving
<1>2. ASSUME NEW r \in recs
      PROVE  \E p \in Place : RecAt(p) = r /\ Latest(p) /\ Clean(p)
  BY <1>1, <1>2, LatestTaken DEF WholeLog
<1>3. \A p \in Place : Clean(p) => p \in Taken(Replay)
  BY <1>1, TakenPlaces DEF WholeLog
<1>4. Flushed \subseteq acked /\ \A r \in Flushed : r.seq <= manifest.flushed
  BY DEF LogInv, Contained
<1>5. manifest.flushed \in Nat /\ \A r \in acked : r.seq \in Nat
  BY OptionsTyped DEF FilesInv, DiskTypes, ManifestData, MemoryTypes, Batch
<1>6. \A p \in Place : PlaceTyped(p)
  BY PlacesTyped
<1>7. \A p \in Place : RecAt(p).seq \in Nat /\ RecAt(p).seq > manifest.flushed /\ p \in Nat \X Nat
  BY <1>6 DEF PlaceTyped, LogInv, LogAbove
<1>8. ASSUME NEW r \in recs PROVE r \in acked \cup gray
  <2>1. PICK p \in Place : RecAt(p) = r /\ Latest(p) /\ Clean(p)
    BY <1>2, <1>8
  <2> QED  BY <2>1 DEF LogInv, LogKnown, Latest
<1>9. ASSUME NEW lost \in acked \ acked', NEW r \in acked'
      PROVE  r.seq < lost.seq
  <2>1. lost \notin Flushed /\ lost \notin recs
    BY <1>1, <1>9
  <2>2. CASE opts.sync = "always"
    <3>1. promised = acked
      BY <2>2 DEF LogInv, Contained
    <3> QED  BY <1>1, <2>1, <3>1, PromisedReplayed
  <2>3. CASE opts.sync = "relaxed"
    <3>1. \/ \E p \in Place : RecAt(p) = lost
          \/ lost.seq > manifest.flushed /\ \A q \in Place : RecAt(q).seq < lost.seq
      BY <1>1, <1>9, <2>1, <2>3 DEF LogInv, Lost
    <3>2. CASE \E p \in Place : RecAt(p) = lost
      <4>1. PICK p \in Place : RecAt(p) = lost
        BY <3>2
      <4>2. ASSUME NEW q \in Place, Before(p, q) PROVE ~SameKey(RecAt(p), RecAt(q))
        <5>1. RecAt(p).seq < RecAt(q).seq
          BY <2>3, <4>2 DEF LogInv, LogOrder
        <5> QED  BY <1>7, <5>1 DEF SameKey
      <4>3. ~Clean(p)
        <5>1. ASSUME p \in Taken(Replay) PROVE FALSE
          <6>1. \A q \in Taken(Replay) : Before(p, q) => ~SameKey(RecAt(p), RecAt(q))
            BY <1>1, <4>2, TakenPlaces DEF WholeLog
          <6> QED  BY <2>1, <4>1, <5>1, <6>1 DEF ReplayedRecs
        <5> QED  BY <1>3, <5>1
      <4>4. PICK m \in Place : Missing(m) /\ ~Before(p, m)
        BY <4>3 DEF Clean
      <4>5. CASE r \in Flushed
        BY <1>4, <1>5, <1>7, <4>1, <4>5 DEF Flushed
      <4>6. CASE r \in recs
        <5>1. PICK q \in Place : RecAt(q) = r /\ Clean(q)
          BY <1>2, <4>6
        <5>2. Before(q, m)
          BY <4>4, <5>1 DEF Clean
        <5>3. Before(q, p)
          BY <1>7, <4>4, <5>2, BeforeOrder
        <5> QED  BY <2>3, <4>1, <5>1, <5>3 DEF LogInv, LogOrder
      <4> QED  BY <1>1, <1>9, <4>5, <4>6
    <3>3. CASE lost.seq > manifest.flushed /\ \A q \in Place : RecAt(q).seq < lost.seq
      <4>1. CASE r \in Flushed
        <5>1. r.seq <= manifest.flushed /\ r.seq \in Nat
          BY <1>4, <1>5, <4>1
        <5> QED  BY <1>5, <1>9, <3>3, <5>1
      <4>2. CASE r \in recs
        BY <1>2, <3>3, <4>2
      <4> QED  BY <1>1, <1>9, <4>1, <4>2
    <3> QED  BY <3>1, <3>2, <3>3
  <2> QED  BY <2>2, <2>3, OptionsTyped
<1>10. acked' \subseteq acked \cup gray
  BY <1>1, <1>4, <1>8
<1> QED  BY <1>9, <1>10

\* Recovery brings back nothing that was never written, and no acknowledged
\* batch without all acknowledged before it: neither a torn tail, nor a payload
\* that never became durable, nor a retry over a failed append leaves a gap; the
\* exception is as above.
THEOREM RecoveryIsPrefix == ForkSpec => RecoversPrefix
<1>1. ASSUME FilesInv, LogHolds, [Next \/ ForkNext]_vars, phase = "down", phase' = "opened", ~exposed
      PROVE  /\ acked' \subseteq acked \cup gray
             /\ \A lost \in acked \ acked', r \in acked' : r.seq < lost.seq
  BY <1>1, OpenStep, PrefixRecovered DEF LogHolds
<1>2. FilesInv /\ LogHolds /\ [Next \/ ForkNext]_vars =>
        [phase = "down" /\ phase' = "opened" /\ ~exposed =>
           /\ acked' \subseteq acked \cup gray
           /\ \A lost \in acked \ acked', r \in acked' : r.seq < lost.seq]_vars
  BY <1>1
<1> QED  BY <1>2, LogAlways, PTL DEF ForkSpec, RecoversPrefix

\* An open is refused only in a run where an I/O call has failed: crashes alone
\* leave every directory one that opens, but a power loss that takes what an
\* earlier death of the process had left to the page cache.
THEOREM DamageIsFailure == ForkSpec => []DamageNeedsFailure
<1>1. Init => DamageNeedsFailure
  BY DEF Init, DamageNeedsFailure
<1>2. ASSUME FilesInv, LogHolds, [Next \/ ForkNext]_vars, DamageNeedsFailure
      PROVE  DamageNeedsFailure'
  <2>1. faults \in Nat /\ faults' \in Nat /\ faults <= faults' /\ (exposed => exposed')
    BY <1>2, PhaseSteps
  <2>2. SUFFICES ASSUME phase' = "failed", ~exposed' PROVE faults' > 0
    BY DEF DamageNeedsFailure
  <2>3. phase = "failed" \/ OpenReplay
    BY <1>2, <2>2, PhaseSteps DEF Crash, Kill, ProcessEnds, OpenComplete, StartupGc
  <2>4. faults > 0
    BY <1>2, <2>1, <2>2, <2>3, OpenSucceeds DEF DamageNeedsFailure, LogHolds
  <2> QED  BY <2>1, <2>4
<1>3. FilesInv /\ LogHolds /\ [Next \/ ForkNext]_vars /\ DamageNeedsFailure => DamageNeedsFailure'
  BY <1>2
<1> QED  BY <1>1, <1>3, LogAlways, PTL DEF ForkSpec
=============================================================================

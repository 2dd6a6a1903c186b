------------------------------ MODULE Versions ------------------------------
(***************************************************************************)
(* Multi-version records and the two pure decisions the engine takes about *)
(* them: which version of a user key a reader at a sequence number sees,   *)
(* and which versions a compaction keeps.                                  *)
(*                                                                         *)
(* A version is a record with the fields key, seq and del (del is TRUE for *)
(* a tombstone, ValueKind::Delete).  Sequence numbers are unique, so a     *)
(* memtable, a table fragment or a whole run is a set of versions; the     *)
(* value bytes are left out, the sequence number stands for them.          *)
(***************************************************************************)
EXTENDS Naturals

\* The versions of user key k in vs, and those of them a reader at s may see.
VersionsOf(vs, k) == {v \in vs : v.key = k}
VisibleAt(vs, k, s) == {v \in vs : v.key = k /\ v.seq <= s}

\* The newest version of k at or below s: a singleton, or empty when there is
\* none.  Memtable::get, Table::get and the merging iterator all compute it.
NewestAt(vs, k, s) ==
    {v \in VisibleAt(vs, k, s) : \A w \in VisibleAt(vs, k, s) : w.seq <= v.seq}

\* A tombstone hides the key: what the caller of get sees.
Live(vs) == {v \in vs : ~v.del}

\* Retention without the guard on the tombstone: the form a careless merge has.
KeptDroppingTombstones(vs, k, w, shadowsOlder) ==
    {v \in VersionsOf(vs, k) : v.seq > w} \cup Live(NewestAt(vs, k, w))

\* Retention that drops a tombstone shadowing nothing even above the watermark.
KeptDroppingNewTombstones(vs, k, w, shadowsOlder) ==
    {v \in VersionsOf(vs, k) : v.seq > w /\ ~(v.del /\ ~shadowsOlder)}
        \cup {v \in NewestAt(vs, k, w) : ~(v.del /\ ~shadowsOlder)}

\* What a compaction whose inputs hold vs keeps of user key k under watermark
\* w: everything above w verbatim, and the newest version at or below w unless
\* it is a tombstone that shadows nothing older (run_slice's keep decision).
Kept(vs, k, w, shadowsOlder) ==
    {v \in VersionsOf(vs, k) : v.seq > w}
        \cup {v \in NewestAt(vs, k, w) : ~(v.del /\ ~shadowsOlder)}
=============================================================================

----------------------------- MODULE MCCursors -----------------------------
(* Instances of Cursors.                                                   *)
EXTENDS Cursors

\* No write of its own; a delete and a put.
SmallOverlays == {[k \in {} |-> TRUE], [k \in {1, 2} |-> k = 2]}

\* Two runs under a memtable with one entry; a run of one below a run of three,
\* which is more than a block; a run of three under a memtable with one entry.
SmallCuts == {<<1, 3>>, <<1, 4>>, <<0, 3>>}
=============================================================================

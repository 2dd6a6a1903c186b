----------------------------- MODULE MCLsmTree -----------------------------
(***************************************************************************)
(* Instances of LsmTree for TLC: four stores, each with the options and    *)
(* the workload in which one part of the tree is busy.                     *)
(***************************************************************************)
EXTENDS LsmTree

CONSTANTS r1, r2, w1, w2

Op(k, d) == [key |-> k, del |-> d]

\* Both keys written, and one of them also deleted.
PutPut == {Op(1, FALSE), Op(2, FALSE)}
PutPutDelete == PutPut \cup {Op(1, TRUE)}

\* Tier merges and bottom splices of puts and deletes under a snapshot holder.
Splicing ==
    [memtable_size |-> 1, target_file_size |-> 1, max_immutable_memtables |-> 1,
     l0_compaction_trigger |-> 1, tier_width |-> 2, l0_stall_trigger |-> 2,
     max_levels |-> 2, max_dynamic_levels |-> 2,
     seq |-> 3, batch |-> 1, faults |-> 0, ops |-> PutPutDelete,
     readers |-> {r1}, writers |-> {w1}]

\* Two holders that may share a sequence number.
Sharing == [Splicing EXCEPT !.seq = 2, !.ops = PutPut, !.readers = {r1, r2}]

\* Batches of two and a tree that grows from one level to three.
Deepening == [Splicing EXCEPT !.memtable_size = 2, !.batch = 2, !.ops = PutPut,
                              !.max_levels = 1, !.max_dynamic_levels = 3]

\* Two writers, a preempted lower merge, an I/O failure.
Stalling == [Splicing EXCEPT !.l0_compaction_trigger = 2, !.tier_width = 1,
                             !.max_levels = 3, !.max_dynamic_levels = 3,
                             !.seq = 4, !.faults = 1, !.ops = PutPut,
                             !.readers = {}, !.writers = {w1, w2}]

Stores == {Splicing, Sharing, Deepening, Stalling}
=============================================================================

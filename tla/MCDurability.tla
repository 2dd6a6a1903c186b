---------------------------- MODULE MCDurability ----------------------------
(***************************************************************************)
(* Instances of Durability and Forks for TLC: eleven stores, each with the *)
(* options and the bounds under which one part of the code is busy.        *)
(***************************************************************************)
EXTENDS Forks, TLC

\* Crashes and I/O failures around writes, rotations and flushes.
Crashing ==
    [sync |-> "always", memtable_size |-> 2, vlog_file_size |-> 2, large |-> {TRUE, FALSE},
     gc |-> FALSE, keys |-> {1}, seq |-> 2, crashes |-> 2, kills |-> FALSE,
     faults |-> 1, pins |-> 0, forks |-> 0]

\* A crash around value-log GC and pins; around the GC of one key while the
\* other is written.
Collecting ==
    [Crashing EXCEPT !.vlog_file_size = 1, !.large = {TRUE}, !.gc = TRUE,
                     !.crashes = 1, !.faults = 0, !.pins = 1]
Relocating == [Collecting EXCEPT !.sync = "relaxed", !.keys = {1, 2}, !.pins = 0]

\* Value-log GC under readers: longer histories of two keys, no crash.
Reading == [Collecting EXCEPT !.keys = {1, 2}, !.large = {TRUE, FALSE}, !.seq = 3, !.crashes = 0]

\* A fork, at the head or at a pin, during value-log GC.
Forking == [Collecting EXCEPT !.crashes = 0, !.forks = 1]

Relaxed(o) == [o EXCEPT !.sync = "relaxed"]

\* A rotation of the value log that fails under a late writer, or a fork.
Degrading == [Crashing EXCEPT !.sync = "relaxed", !.vlog_file_size = 1, !.large = {TRUE},
                              !.crashes = 1, !.forks = 1]

\* Deaths of the process and power losses, in turn.
Killing == [Crashing EXCEPT !.sync = "relaxed", !.memtable_size = 3, !.kills = TRUE, !.faults = 0]

KillingStores == {Killing, [Killing EXCEPT !.sync = "always"]}
DegradingStores == {Degrading}

\* Without a crash the sync mode makes no difference to a reader.
CrashingStores == {Crashing, Relaxed(Crashing)}
CollectingStores == {Collecting, Relaxed(Collecting), Relocating, Relaxed(Reading)}
ForkingStores == {Forking, Relaxed(Forking)}
Stores ==
    CrashingStores \cup CollectingStores \cup ForkingStores \cup DegradingStores \cup KillingStores
=============================================================================

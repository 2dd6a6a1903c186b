--------------------------- MODULE SnapshotStore ---------------------------
(***************************************************************************)
(* What the engine promises its readers, with no tree in it: commits       *)
(* extend the history, the current state is what the whole history says,   *)
(* and a snapshot shows, from the moment it is opened until it is closed,  *)
(* the state at one sequence number of that history.                       *)
(***************************************************************************)
EXTENDS Versions

CONSTANTS Keys, Readers, Version, NoView

VARIABLES
    log,      \* every committed version
    newest,   \* the largest committed sequence number
    current,  \* what an unregistered read of each key returns
    views     \* what each open snapshot reads, NoView when closed

vars == <<log, newest, current, views>>

StateAt(vs, s) == [k \in Keys |-> Live(NewestAt(vs, k, s))]

Init ==
    /\ log = {} /\ newest = 0
    /\ current = StateAt({}, 0)
    /\ views = [r \in Readers |-> NoView]

\* A batch takes the next sequence numbers and is visible at once, whole.
Commit ==
    /\ newest' > newest
    /\ log \subseteq log'
    /\ \A v \in log' \ log : v \in Version /\ v.seq \in newest + 1 .. newest'
    /\ \A n \in newest + 1 .. newest' : \E v \in log' \ log : v.seq = n
    /\ current' = StateAt(log', newest')
    /\ UNCHANGED views

Open(r) ==
    /\ views[r] = NoView /\ views'[r] # NoView
    /\ \E s \in 0 .. newest : views' = [views EXCEPT ![r] = StateAt(log, s)]
    /\ UNCHANGED <<log, newest, current>>

Close(r) ==
    /\ views[r] # NoView /\ views'[r] = NoView
    /\ views' = [views EXCEPT ![r] = NoView]
    /\ UNCHANGED <<log, newest, current>>

Next == Commit \/ \E r \in Readers : Open(r) \/ Close(r)

Spec == Init /\ [][Next]_vars
=============================================================================

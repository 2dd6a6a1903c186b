----------------------------- MODULE MCConsumers -----------------------------
(* Instances of the stream's consumers, one attached at a time.            *)
EXTENDS EdgeReplica, Journal, Feed

CONSTANTS
    Modes,      \* which consumers are tried
    CopySeq     \* bound: sequence numbers written under the three real consumers

ASSUME ConsumersAssumption ==
    /\ Modes \subseteq {"edge", "journal", "feed", "direct"}
    /\ {1, 2, 3} \subseteq Keys

VARIABLE mode

vars == <<streamVars, edgeVars, journalVars, feedVars, mode>>

Put(k) == [key |-> k, put |-> TRUE, last |-> TRUE]
Del(k) == [key |-> k, put |-> FALSE, last |-> TRUE]
More(op) == [op EXCEPT !.last = FALSE]
AllGroups == {<<Put(1)>>, <<Del(1)>>, <<Del(1), Put(2)>>, <<More(Put(2)), Put(3)>>, <<Put(3)>>}
\* A put; a delete; one commit that ends out of scope; a delete and a put as two commits
\* of one group; a put out of scope.
GroupsOf(m) == CASE m = "edge"    -> {<<Put(1)>>, <<Del(1)>>, <<More(Put(2)), Put(3)>>}
                 [] m = "journal" -> {<<Put(1)>>, <<Del(1), Put(2)>>}
                 [] m = "feed"    -> AllGroups \ {<<Del(1)>>, <<Put(3)>>}
                 [] m = "direct"  -> {<<Put(1)>>, <<Put(3)>>}
Init == /\ mode \in Modes /\ StreamInit /\ EdgeInit /\ JournalInit /\ FeedInit
        /\ mode # "feed" => ~feed.puts

\* Under the replica, key 1 is put and deleted in turn.
InTurn(g) ==
    /\ g = <<Put(1)>> => ValueAt(ops, 1, visible) = Absent
    /\ g = <<Del(1)>> => ValueAt(ops, 1, visible) # Absent

GroupsFor(m) ==
    {g \in GroupsOf(m) : /\ m # "direct" => visible + Len(g) <= CopySeq
                         /\ m = "edge" => InTurn(g)}

\* Who takes a step, and what the others leave alone.
Alone == UNCHANGED <<edgeVars, journalVars, feedVars, mode>>
WithEdge == mode = "edge" /\ UNCHANGED <<journalVars, feedVars, mode>>
WithJournal == mode = "journal" /\ UNCHANGED <<edgeVars, feedVars, mode>>
WithFeed == mode = "feed" /\ UNCHANGED <<edgeVars, journalVars, mode>>

Writer == Alone /\ \E g \in GroupsFor(mode) : Commit(g)
Publisher == Alone /\ Publish
Collector == Alone /\ mode \in {"feed", "direct"} /\ GarbageCollection
DirectUser == Alone /\ mode = "direct" /\ SubscriberNext

EdgeFlush == WithEdge /\ FlushTree
EdgeFault == WithEdge /\ EdgeDisturbances
EdgeReads == Alone /\ mode = "edge" /\ (Drain \/ Resolve)
EdgeForwards == WithEdge /\ EdgeServer
EdgeDrives == WithEdge /\ EdgeDriver
EdgePings == WithEdge /\ Ping

JournalRuns == WithJournal /\ JournalStep
JournalEvent == WithJournal /\ JournalEvents

FeedRuns == WithFeed /\ FeedNext

Next ==
    \/ Writer \/ Publisher \/ Collector \/ DirectUser
    \/ EdgeFlush \/ EdgeFault \/ EdgeReads \/ EdgeForwards \/ EdgeDrives \/ EdgePings
    \/ JournalRuns \/ JournalEvent
    \/ FeedRuns
Spec == Init /\ [][Next]_vars

\* The write path publishes what it committed; every consumer thread, the
\* server's forwarder and the flush thread run on.
FairSpec ==
    /\ Spec
    /\ WF_vars(Publisher)
    /\ WF_vars(EdgeReads) /\ WF_vars(EdgeDrives) /\ WF_vars(EdgeForwards) /\ WF_vars(EdgeFlush)
    /\ WF_vars(JournalRuns)

\* The replica, when it is the one attached, ends up showing a quiet master.
ReplicaConverges == mode = "edge" => EdgeCatchesUp

\* So does the journal: what rebuild makes of it is the quiet source.
JournalConverges == mode = "journal" => JournalCatchesUp
==============================================================================

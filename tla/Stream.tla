------------------------------- MODULE Stream -------------------------------
(***************************************************************************)
(* The committed-write stream of a store and one subscription to it:       *)
(* commits become visible, are offered to the subscription's bounded       *)
(* queue, drained, resolved and handed to a consumer (the edge replica,    *)
(* the journal, a GraphQL feed).  Value-log GC runs beside it: a queued    *)
(* entry may point into a file that GC would like to delete, and only the  *)
(* subscription's advancing snapshot stands in the way.                    *)
(*                                                                         *)
(* A sequence number is an index into the history of the current epoch.    *)
(* An epoch is one life of the history: a re-minted master or a restart    *)
(* that lost its unsynced tail continues a prefix of the history under the *)
(* same numbers.  Every value is named by the write that brought it.       *)
(***************************************************************************)
EXTENDS Integers, FiniteSets, Sequences, SequencesExt, FiniteSetsExt

CONSTANTS
    Keys,       \* user keys
    Scope,      \* the keys in the subscription's range [lo, hi)
    Groups,     \* what one group commit may write: ops [key, put, last of its commit]
    MaxSeq,     \* bound: sequence numbers
    QueueCap    \* sub_queue_bytes, in entries

ASSUME StreamAssumption ==
    /\ Scope \subseteq Keys
    /\ {MaxSeq, QueueCap} \subseteq Nat
    /\ \A g \in Groups : g \in Seq([key : Keys, put : BOOLEAN, last : BOOLEAN]) /\ g # <<>>
                         /\ Last(g).last

VARIABLES
    epoch,      \* the current life of the store's history
    hist,       \* hist[e]: the ops of epoch e, by sequence number
    published,  \* ops offered to subscribers (visible_seqno runs ahead within a group)
    flushed,    \* last_flushed_seqno
    sub,        \* the subscription: SubShared and Subscription
    held,       \* snapshots registered by the consumer
    retired,    \* value-log records whose file is retired, with retired_at
    dead        \* sequence numbers whose value-log record is deleted

gcVars == <<retired, dead>>
streamVars == <<epoch, hist, published, flushed, sub, held, gcVars>>

Absent == <<>>
ops == hist[epoch]
visible == Len(ops)

InScope(s) == ops[s].key \in Scope
Ascending(S) ==
    [i \in 1..Cardinality(S) |-> CHOOSE s \in S : Cardinality({t \in S : t < s}) = i - 1]

\* The newest value of a key at or below a sequence number of a history.
ValueAt(h, k, s) ==
    LET W == {i \in 1..s : h[i].key = k}
    IN  IF W = {} THEN Absent ELSE h[Max(W)].val
StateAt(h, s) == [k \in Scope |-> ValueAt(h, k, s)]

NoSub == [on |-> FALSE, start |-> 0, queue |-> <<>>, taken |-> <<>>, batch |-> <<>>,
          dropped |-> FALSE, failed |-> FALSE, pin |-> 0]

StreamInit ==
    /\ epoch = 1 /\ hist = <<<<>>>>
    /\ published = 0 /\ flushed = 0
    /\ sub = NoSub /\ held = {}
    /\ retired = {} /\ dead = {}

-----------------------------------------------------------------------------
(* The write path, under write_mu                                          *)

\* A group's ops become visible at once; each knows its commit's last number.
Commit(g) ==
    /\ published = visible /\ visible + Len(g) <= MaxSeq
    /\ hist' = [hist EXCEPT ![epoch] = @ \o
         [i \in 1..Len(g) |->
            [key |-> g[i].key,
             val |-> IF g[i].put THEN <<epoch, visible + i>> ELSE Absent,
             commit |-> visible + Min({j \in i..Len(g) : g[j].last})]]]
    /\ UNCHANGED <<epoch, published, flushed, sub, held, gcVars>>

\* Overflow that only forgets the buffered entries.
OfferForgetting(q) ==
    IF Len(q) > QueueCap THEN [sub EXCEPT !.queue = <<>>] ELSE [sub EXCEPT !.queue = q]

\* SubShared::offer: an overflowing subscriber loses its buffer and is cut.
Offer(q) ==
    IF Len(q) > QueueCap THEN [sub EXCEPT !.queue = <<>>, !.dropped = TRUE]
                         ELSE [sub EXCEPT !.queue = q]

\* publish_stream: the next commit is offered; a flagged subscription is pruned.
Publish ==
    /\ published < visible
    /\ LET c == ops[published + 1].commit
       IN  /\ published' = c
           /\ sub' = IF sub.on /\ ~sub.dropped
                     THEN Offer(sub.queue \o
                                Ascending({s \in (published + 1)..c : InScope(s)}))
                     ELSE sub
    /\ UNCHANGED <<epoch, hist, flushed, held, gcVars>>

\* Everything written so far is in tables.
Flush ==
    /\ published = visible /\ flushed < visible
    /\ flushed' = visible
    /\ UNCHANGED <<epoch, hist, published, sub, held, gcVars>>

-----------------------------------------------------------------------------
(* The subscription                                                        *)

\* Db::subscribe, between two writes: everything above start flows through.
Subscription ==
    [NoSub EXCEPT !.on = TRUE, !.start = visible, !.pin = visible]
CanSubscribe == published = visible

\* recv_timeout takes the whole queue.
Drain ==
    /\ sub.on /\ ~sub.dropped /\ sub.queue # <<>> /\ sub.taken = <<>> /\ sub.batch = <<>>
    /\ sub' = [sub EXCEPT !.taken = sub.queue, !.queue = <<>>]
    /\ UNCHANGED <<epoch, hist, published, flushed, held, gcVars>>

\* The pin jumping to what is visible.
PinAfterLeaping(taken) == visible

\* Subscription::resolve moves the pin to the last entry delivered.
PinAfter(taken) == Last(taken)

\* resolve: every put's value is read; one that is gone kills the stream.
Resolve ==
    /\ sub.taken # <<>>
    /\ sub' = IF \E s \in Range(sub.taken) : ops[s].val # Absent /\ s \in dead
              THEN [sub EXCEPT !.taken = <<>>, !.dropped = TRUE, !.failed = TRUE]
              ELSE [sub EXCEPT !.taken = <<>>, !.batch = sub.taken,
                               !.pin = PinAfter(sub.taken)]
    /\ UNCHANGED <<epoch, hist, published, flushed, held, gcVars>>

\* recv_timeout answers Lagged.
Lagged == sub.on /\ sub.dropped /\ sub.taken = <<>> /\ sub.batch = <<>>

-----------------------------------------------------------------------------
(* Value-log GC and snapshots                                              *)

Watermark ==
    LET registered == held \cup (IF sub.on THEN {sub.pin} ELSE {})
    IN  IF registered = {} THEN visible + 1 ELSE Min(registered)

\* try_register_snapshot_at
Registrable(s) == s <= visible /\ (s >= Watermark \/ s = visible)

\* gc_vlog on the file holding the record of s: a live value is re-put
\* through the write path, and the file is retired at what is then visible.
Retire(s) ==
    /\ published = visible /\ ops[s].val # Absent
    /\ s \notin dead /\ \A r \in retired : r.seq # s
    /\ epoch' = epoch
    /\ LET live == \A i \in (s + 1)..visible : ops[i].key # ops[s].key
       IN  /\ live => visible < MaxSeq
           /\ hist' = IF live
                      THEN [hist EXCEPT ![epoch] =
                              Append(@, [ops[s] EXCEPT !.commit = visible + 1])]
                      ELSE hist
           /\ retired' = retired \cup {[seq |-> s, at |-> visible']}
    /\ UNCHANGED <<published, flushed, sub, held, dead>>

\* process_retired: both deletion gates have passed.
Reclaim(r) ==
    /\ Watermark > r.at /\ flushed >= r.at
    /\ retired' = retired \ {r}
    /\ dead' = dead \cup {r.seq}
    /\ UNCHANGED <<epoch, hist, published, flushed, sub, held>>

GarbageCollection ==
    \/ Flush
    \/ \E s \in 1..visible : Retire(s)
    \/ \E r \in retired : Reclaim(r)

-----------------------------------------------------------------------------
(* A program that uses the subscription directly                           *)

Subscribe ==
    /\ ~sub.on /\ CanSubscribe
    /\ sub' = Subscription
    /\ UNCHANGED <<epoch, hist, published, flushed, held, gcVars>>

\* The batch is handed over.
Deliver ==
    /\ sub.batch # <<>>
    /\ sub' = [sub EXCEPT !.batch = <<>>]
    /\ UNCHANGED <<epoch, hist, published, flushed, held, gcVars>>

\* Drop for Subscription, after a cut or before it.
Unsubscribe ==
    /\ sub.on
    /\ sub' = [NoSub EXCEPT !.failed = sub.failed]
    /\ UNCHANGED <<epoch, hist, published, flushed, held, gcVars>>

SubscriberNext == Subscribe \/ Drain \/ Resolve \/ Deliver \/ Unsubscribe

-----------------------------------------------------------------------------
(* Properties                                                              *)

\* A live subscription never loses, skips or repeats a committed write of its
\* range: what it still holds is exactly what was published above what it has
\* delivered.  (offer, the overflow rule and the drain of recv_timeout.)
SubscriptionGapFree ==
    sub.on /\ ~sub.dropped =>
        sub.taken \o sub.queue = Ascending({s \in (sub.pin + 1)..published : InScope(s)})

\* The value of every entry handed to a subscriber can be read: GC never
\* deletes a record between the commit and the consumer's turn, although no
\* file is pinned.  ("the pin makes this unreachable", Subscription::resolve.)
StreamResolves == ~sub.failed
=============================================================================

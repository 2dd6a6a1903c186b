-------------------------------- MODULE Feed --------------------------------
(***************************************************************************)
(* The GraphQL subscription pump: it attaches to the stream, pins one      *)
(* snapshot per commit for the items it sends, and keeps a rolling hold    *)
(* registered so that the pins can never be outrun by GC.  Items wait in a *)
(* bounded channel; the client reads the whole keyspace through the item   *)
(* it has in hand.                                                         *)
(***************************************************************************)
EXTENDS Stream

CONSTANTS
    ChannelItems   \* CHANNEL_ITEMS

ASSUME FeedAssumption == ChannelItems \in Nat /\ ChannelItems > 0

VARIABLES
    feed,      \* the pump: where it is, its hold, the commit it has pinned
    chan,      \* items in the channel, [seq, commit]
    hand,      \* <<the item the client is looking at>>
    sent       \* history: sequence numbers sent after the attach marker

feedVars == <<feed, chan, hand, sent>>
feedSource == <<epoch, hist, published, flushed, gcVars>>

Nothing == {}
FeedOff == [pc |-> "off", puts |-> FALSE, start |-> 0, hold |-> Nothing,
            commit |-> Nothing, tail |-> 0, lost |-> FALSE]

FeedInit ==
    /\ feed \in {[FeedOff EXCEPT !.puts = b] : b \in BOOLEAN}
    /\ chan = <<>> /\ hand = <<>> /\ sent = <<>>

\* Snapshots live as long as something holds them.
Holding(f, c, h) == f.hold \cup f.commit \cup {i.commit : i \in Range(c) \cup Range(h)}

\* The thread returns: its hold and its subscription go, sent items stay.
Ended(lost) ==
    /\ feed' = [feed EXCEPT !.pc = "ended", !.hold = Nothing, !.commit = Nothing, !.lost = lost]
    /\ sub' = NoSub
    /\ UNCHANGED <<chan, hand, sent>>

-----------------------------------------------------------------------------
FeedSubscribe ==
    /\ feed.pc = "off" /\ CanSubscribe
    /\ sub' = Subscription
    /\ feed' = [feed EXCEPT !.pc = "attach", !.start = visible]
    /\ UNCHANGED <<feedSource, held, chan, hand, sent>>

\* The attach marker pins the subscribe boundary.
FeedAttach ==
    /\ feed.pc = "attach"
    /\ IF Registrable(feed.start)
       THEN /\ feed' = [feed EXCEPT !.pc = "recv", !.hold = {feed.start}]
            /\ chan' = <<[seq |-> feed.start, commit |-> feed.start]>>
            /\ UNCHANGED <<sub, hand, sent>>
       ELSE Ended(TRUE)
    /\ held' = Holding(feed', chan', hand')
    /\ UNCHANGED feedSource

FeedReceive ==
    feed.pc = "recv" /\ (Drain \/ Resolve) /\ UNCHANGED feedVars

\* Deletes are no events on a feed.
Filtered(s) == feed.puts /\ ops[s].val = Absent

\* One entry of the batch: the first of its commit pins the commit.
FeedItem ==
    /\ feed.pc \in {"recv", "items"} /\ sub.batch # <<>>
    /\ LET s == Head(sub.batch)
           c == ops[s].commit
           next == [feed EXCEPT !.pc = "items", !.tail = ops[Last(sub.batch)].commit]
       IN  IF Filtered(s)
           THEN /\ feed' = next /\ sub' = [sub EXCEPT !.batch = Tail(@)]
                /\ UNCHANGED <<chan, hand, sent>>
           ELSE /\ Len(chan) < ChannelItems
                /\ IF c \in feed.commit \/ Registrable(c)
                   THEN /\ feed' = [next EXCEPT !.commit = {c}]
                        /\ chan' = Append(chan, [seq |-> s, commit |-> c])
                        /\ sent' = Append(sent, s)
                        /\ sub' = [sub EXCEPT !.batch = Tail(@)]
                        /\ UNCHANGED hand
                   ELSE Ended(TRUE)
    /\ held' = Holding(feed', chan', hand')
    /\ UNCHANGED feedSource

\* The hold dropped between batches.
RolledOff(tail) == Nothing

\* The new hold is registered before the old one goes.
Rolled(tail) == {tail}

FeedRoll ==
    /\ feed.pc = "items" /\ sub.batch = <<>>
    /\ IF feed.tail \in feed.commit \/ Registrable(feed.tail)
       THEN /\ feed' = [feed EXCEPT !.pc = "recv", !.hold = Rolled(feed.tail),
                                    !.commit = Nothing]
            /\ UNCHANGED <<sub, chan, hand, sent>>
       ELSE Ended(TRUE)
    /\ held' = Holding(feed', chan', hand')
    /\ UNCHANGED feedSource

\* Lagged is the stream's last item.
FeedEnds ==
    /\ feed.pc = "recv" /\ Lagged
    /\ Ended(FALSE)
    /\ held' = Holding(feed', chan', hand')
    /\ UNCHANGED feedSource

\* The client leaves: its items go, and the pump ends once it notices.
FeedLeave ==
    /\ feed.pc \in {"recv", "items"}
    /\ feed' = [feed EXCEPT !.pc = "ended", !.hold = Nothing, !.commit = Nothing]
    /\ sub' = NoSub /\ chan' = <<>> /\ hand' = <<>> /\ held' = {}
    /\ UNCHANGED <<feedSource, sent>>

\* The client takes the next item ...
FeedTake ==
    /\ chan # <<>> /\ hand = <<>>
    /\ hand' = <<Head(chan)>> /\ chan' = Tail(chan)
    /\ held' = Holding(feed, chan', hand')
    /\ UNCHANGED <<feedSource, sub, feed, sent>>

\* ... and lets go of it once its selection is resolved.
FeedDone ==
    /\ hand # <<>>
    /\ hand' = <<>>
    /\ held' = Holding(feed, chan, hand')
    /\ UNCHANGED <<feedSource, sub, feed, chan, sent>>

FeedNext == FeedSubscribe \/ FeedAttach \/ FeedReceive \/ FeedItem \/ FeedRoll \/ FeedEnds
            \/ FeedLeave \/ FeedTake \/ FeedDone

-----------------------------------------------------------------------------
(* Properties                                                              *)

\* The pump never loses the race with GC: the snapshot of every commit it
\* delivers can be registered, and while an item waits in the channel or is
\* in the client's hand every value its snapshot shows can still be read.
FeedSnapshotsHold ==
    /\ ~feed.lost
    /\ \A i \in Range(chan) \cup Range(hand), k \in Keys :
         LET W == {s \in 1..i.commit : ops[s].key = k}
         IN  W # {} /\ ops[Max(W)].val # Absent => Max(W) \notin dead

\* What a feed shows of a sequence of entries: the events among them, in order.
Shown(s) ==
    LET at == Ascending({i \in DOMAIN s : ~Filtered(s[i])})
    IN  [n \in DOMAIN at |-> s[at[n]]]

\* The items after the attach marker are every event of the range above the
\* subscribe boundary, in order, no gap and no overlap, up to what the live
\* stream still holds.
FeedIsGapFree ==
    feed.pc \in {"recv", "items"} /\ ~sub.dropped =>
        sent \o Shown(sub.batch \o sub.taken \o sub.queue)
          = Ascending({s \in (feed.start + 1)..published : InScope(s) /\ ~Filtered(s)})
=============================================================================

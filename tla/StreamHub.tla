----------------------------- MODULE StreamHub -----------------------------
(***************************************************************************)
(* The fan-out of event streams (internal/streamhub) and the connections   *)
(* that read it (internal/httpapi/handlers/stream.go), for one topic name. *)
(*                                                                         *)
(* Topics of different names share nothing but the hub's map, so one name  *)
(* is enough; what matters is that the name can stand for several topic    *)
(* objects one after the other: Drop and a restart of the process both     *)
(* begin a new one whose ids start at 1 again.  An event is its id.        *)
(*                                                                         *)
(* A lock of a topic is held by at most one publisher while it delivers;   *)
(* everything else that takes the lock is one step.  A reader of a channel *)
(* takes no lock, so it can come between any two selects of push.          *)
(***************************************************************************)
EXTENDS Naturals, Sequences, SequencesExt

CONSTANTS
    Publishers,   \* goroutines that call Publish
    Clients,      \* browser tabs, each with one connection at a time
    RingSize,     \* events a topic remembers
    SubBuf,       \* how far a subscriber may fall behind its replay
    MaxEvents,    \* events published to one topic object
    MaxTopics,    \* topic objects the name stands for, one after the other
    MaxConns      \* connections a client makes

ASSUME SizesAssumption ==
    /\ RingSize \in Nat \ {0} /\ SubBuf \in Nat \ {0}
    /\ MaxEvents \in Nat /\ MaxTopics \in Nat /\ MaxConns \in Nat

Topics == 1 .. MaxTopics
None == 0
Slots == 0 .. RingSize - 1
Cap == SubBuf + RingSize

VARIABLES
    current,    \* the topic object in the hub's map, None when there is none
    made,       \* topic objects made so far
    topic,      \* [Topics -> ring buffer, newest id and subscriptions]
    hubClosed,  \* Hub.closed
    closing,    \* topics Drop or Close took out of the map and has yet to close
    pub,        \* [Publishers -> the local state of one Publish call]
    sub,        \* [Clients -> the client's connection and its subscription]
    client      \* [Clients -> what the tab knows across connections]

vars == <<current, made, topic, hubClosed, closing, pub, sub, client>>

EmptyTopic == [ring |-> [i \in Slots |-> 0], next |-> 0, count |-> 0, last |-> 0,
               subs |-> {}]
IdlePub == [pc |-> "idle", topic |-> None, todo |-> {}, to |-> None, items |-> <<>>,
            full |-> FALSE]
NoSub == [pc |-> "idle", topic |-> None, ch |-> <<>>, lastSent |-> 0, dropped |-> 0,
          through |-> 0, closed |-> FALSE]
\* cursor is the Last-Event-ID, from the topic object it was read from; got and
\* told count the events and the missed events of this connection, since base;
\* same says that the connection goes on with the topic object of the cursor.
NewClient == [cursor |-> 0, from |-> None, conns |-> 0, base |-> 0, got |-> 0,
              told |-> 0, same |-> TRUE]

Init ==
    /\ current = None
    /\ made = 0
    /\ topic = [t \in Topics |-> EmptyTopic]
    /\ hubClosed = FALSE
    /\ closing = {}
    /\ pub = [p \in Publishers |-> IdlePub]
    /\ sub = [c \in Clients |-> NoSub]
    /\ client = [c \in Clients |-> NewClient]

Event(id) == [id |-> id, missed |-> 0, through |-> 0]
Gap(missed, through) == [id |-> 0, missed |-> missed, through |-> through]
IsEvent(item) == item.id > 0
\* How many events an item stands for.
Weight(item) == IF IsEvent(item) THEN 1 ELSE item.missed

Larger(a, b) == IF a > b THEN a ELSE b

\* The topic lock.
Locked(t) == \E p \in Publishers : pub[p].pc = "deliver" /\ pub[p].topic = t
----------------------------------------------------------------------------
(***************************************************************************)
(* The ring buffer.                                                        *)
(***************************************************************************)

Appended(t) ==
    [t EXCEPT !.ring[t.next] = t.last + 1,
              !.next = (t.next + 1) % RingSize,
              !.count = IF t.count < RingSize THEN t.count + 1 ELSE t.count,
              !.last = t.last + 1]

Buffered(t) ==
    [i \in 1 .. t.count |-> t.ring[(t.next + i - 1 + RingSize * 2 - t.count) % RingSize]]

Since(t, id) ==
    LET kept[n \in 0 .. t.count] ==
            IF n = 0 THEN <<>>
            ELSE IF Buffered(t)[n] > id THEN Append(kept[n - 1], Buffered(t)[n]) ELSE kept[n - 1]
    IN  kept[t.count]

OldestID(t) == IF t.count = 0 THEN t.last + 1 ELSE Buffered(t)[1]

MissedBefore(id, backlog) ==
    IF backlog = <<>> \/ backlog[1] <= id + 1 THEN 0 ELSE backlog[1] - id - 1

\* topicLocked: the object the name stands for, made when there is none.
Found(t) ==
    /\ ~hubClosed
    /\ t = IF current = None THEN made + 1 ELSE current
    /\ t \in Topics
    /\ current' = t
    /\ made' = IF current = None THEN t ELSE made
----------------------------------------------------------------------------
(***************************************************************************)
(* Publish: find the topic under the hub's lock, then append and deliver   *)
(* under the topic's.                                                      *)
(***************************************************************************)
PublishFind(p, t) ==
    /\ pub[p].pc = "idle"
    /\ Found(t)
    /\ topic[t].last < MaxEvents
    /\ pub' = [pub EXCEPT ![p] = [IdlePub EXCEPT !.pc = "found", !.topic = t]]
    /\ UNCHANGED <<topic, hubClosed, closing, sub, client>>

PublishAppend(p) ==
    LET t == pub[p].topic IN
    /\ pub[p].pc = "found"
    /\ ~Locked(t)
    /\ topic[t].last < MaxEvents
    /\ topic' = [topic EXCEPT ![t] = Appended(@)]
    /\ pub' = [pub EXCEPT ![p].pc = "deliver", ![p].todo = topic[t].subs]
    /\ UNCHANGED <<current, made, hubClosed, closing, sub, client>>

\* deliver: what goes into the channel of one subscriber.
Deliver(p, c) ==
    LET s == sub[c]
        event == Event(topic[pub[p].topic].last)
    IN
    /\ pub[p].pc = "deliver"
    /\ pub[p].items = <<>>
    /\ c \in pub[p].todo
    /\ pub' = [pub EXCEPT ![p].todo = @ \ {c}, ![p].to = c,
                          ![p].items = IF s.dropped > 0
                                         THEN <<Gap(s.dropped, s.through), event>>
                                         ELSE <<event>>]
    /\ sub' = [sub EXCEPT ![c].dropped = 0, ![c].through = 0]
    /\ UNCHANGED <<current, made, topic, hubClosed, closing, client>>

\* push, first select: there is room, or the channel is full.
PushSend(p) ==
    LET c == pub[p].to IN
    /\ pub[p].items # <<>>
    /\ ~pub[p].full
    /\ Len(sub[c].ch) < Cap
    /\ sub' = [sub EXCEPT ![c].ch = Append(@, Head(pub[p].items)),
                          ![c].lastSent = IF IsEvent(Head(pub[p].items))
                                            THEN Head(pub[p].items).id ELSE @]
    /\ pub' = [pub EXCEPT ![p].items = Tail(@)]
    /\ UNCHANGED <<current, made, topic, hubClosed, closing, client>>

PushFull(p) ==
    /\ pub[p].items # <<>>
    /\ ~pub[p].full
    /\ Len(sub[pub[p].to].ch) = Cap
    /\ pub' = [pub EXCEPT ![p].full = TRUE]
    /\ UNCHANGED <<current, made, topic, hubClosed, closing, sub, client>>

\* Mutant: an evicted gap disappears.
AccountEventsOnly(s, old) ==
    IF IsEvent(old)
      THEN [s EXCEPT !.dropped = @ + 1, !.through = Larger(@, old.id)]
      ELSE s

Account(s, old) ==
    [s EXCEPT !.dropped = @ + Weight(old),
              !.through = Larger(@, IF IsEvent(old) THEN old.id ELSE old.through)]

\* Mutant: push waits for the reader.
PushEvictWaits(p) ==
    /\ pub[p].full
    /\ Len(sub[pub[p].to].ch) < Cap
    /\ pub' = [pub EXCEPT ![p].full = FALSE]
    /\ UNCHANGED <<current, made, topic, hubClosed, closing, sub, client>>

\* push, second select: evict the oldest, unless the reader emptied the channel.
PushEvict(p) ==
    LET c == pub[p].to IN
    /\ pub[p].full
    /\ pub' = [pub EXCEPT ![p].full = FALSE]
    /\ sub' = IF sub[c].ch = <<>> THEN sub
              ELSE [sub EXCEPT ![c] =
                      [Account(sub[c], Head(sub[c].ch)) EXCEPT !.ch = Tail(sub[c].ch)]]
    /\ UNCHANGED <<current, made, topic, hubClosed, closing, client>>

PublishReturn(p) ==
    /\ pub[p].pc = "deliver"
    /\ pub[p].todo = {}
    /\ pub[p].items = <<>>
    /\ pub' = [pub EXCEPT ![p] = IdlePub]
    /\ UNCHANGED <<current, made, topic, hubClosed, closing, sub, client>>
----------------------------------------------------------------------------
(***************************************************************************)
(* A connection: Subscribe from the cursor the browser sends back, read,   *)
(* and cancel on the way out.                                              *)
(***************************************************************************)
SubscribeFind(c, t) ==
    /\ sub[c].pc = "idle"
    /\ client[c].conns < MaxConns
    /\ Found(t)
    /\ sub' = [sub EXCEPT ![c] = [NoSub EXCEPT !.pc = "found", !.topic = t]]
    /\ UNCHANGED <<topic, hubClosed, closing, pub, client>>

\* The replay: a gap for what the ring no longer holds, then the backlog.
Replay(t, id) ==
    LET backlog == Since(t, id)
        missed == MissedBefore(id, backlog)
    IN  (IF missed > 0 THEN <<Gap(missed, OldestID(t) - 1)>> ELSE <<>>)
        \o [i \in DOMAIN backlog |-> Event(backlog[i])]

SubscribeRegister(c) ==
    LET t == sub[c].topic
        id == client[c].cursor
        backlog == Since(topic[t], id)
    IN
    /\ sub[c].pc = "found"
    /\ ~Locked(t)
    /\ sub' = [sub EXCEPT ![c].pc = "open", ![c].ch = Replay(topic[t], id),
                          ![c].lastSent = IF backlog = <<>> THEN id ELSE Last(backlog)]
    /\ topic' = [topic EXCEPT ![t].subs = @ \cup {c}]
    /\ client' = [client EXCEPT ![c].conns = @ + 1, ![c].got = 0, ![c].told = 0,
                                ![c].same = client[c].from \in {None, t},
                                ![c].base = IF client[c].from = t THEN id ELSE 0]
    /\ UNCHANGED <<current, made, hubClosed, closing, pub>>

\* forwardFeed and the handler's loop: one item reaches the browser.
Receive(c) ==
    LET item == Head(sub[c].ch)
        k == client[c]
    IN
    /\ sub[c].pc = "open"
    /\ sub[c].ch # <<>>
    /\ sub' = [sub EXCEPT ![c].ch = Tail(@)]
    /\ client' = [client EXCEPT ![c] =
         IF IsEvent(item)
           THEN [k EXCEPT !.cursor = item.id, !.from = sub[c].topic, !.got = @ + 1]
           ELSE [k EXCEPT !.cursor = Larger(@, item.through), !.told = @ + item.missed,
                          !.from = IF item.through > k.cursor THEN sub[c].topic ELSE @]]
    /\ UNCHANGED <<current, made, topic, hubClosed, closing, pub>>

Cancel(c) ==
    /\ sub[c].pc = "open"
    /\ ~Locked(sub[c].topic)
    /\ sub' = [sub EXCEPT ![c].pc = "idle", ![c].closed = TRUE, ![c].ch = <<>>]
    /\ topic' = [topic EXCEPT ![sub[c].topic].subs = @ \ {c}]
    /\ UNCHANGED <<current, made, hubClosed, closing, pub, client>>
----------------------------------------------------------------------------
(***************************************************************************)
(* Drop, Close, and a restart.                                             *)
(***************************************************************************)
Drop ==
    /\ current # None
    /\ current' = None
    /\ closing' = closing \cup {current}
    /\ UNCHANGED <<made, topic, hubClosed, pub, sub, client>>

Close ==
    /\ ~hubClosed
    /\ hubClosed' = TRUE
    /\ current' = None
    /\ closing' = IF current = None THEN closing ELSE closing \cup {current}
    /\ UNCHANGED <<made, topic, pub, sub, client>>

CloseAll(t) ==
    /\ t \in closing
    /\ ~Locked(t)
    /\ closing' = closing \ {t}
    /\ sub' = [c \in Clients |-> IF c \in topic[t].subs
                                   THEN [sub[c] EXCEPT !.closed = TRUE] ELSE sub[c]]
    /\ topic' = [topic EXCEPT ![t].subs = {}]
    /\ UNCHANGED <<current, made, hubClosed, pub, client>>

\* The process ends and a new one begins; the browsers keep their cursors.
Restart ==
    /\ made < MaxTopics
    /\ current' = None
    /\ hubClosed' = FALSE
    /\ closing' = {}
    /\ pub' = [p \in Publishers |-> IdlePub]
    /\ sub' = [c \in Clients |-> NoSub]
    /\ UNCHANGED <<made, topic, client>>
----------------------------------------------------------------------------
PublishSteps(p) ==
    \/ PublishAppend(p) \/ PushSend(p) \/ PushFull(p) \/ PushEvict(p) \/ PublishReturn(p)
    \/ \E c \in Clients : Deliver(p, c)

Next ==
    \/ \E p \in Publishers : PublishSteps(p) \/ \E t \in Topics : PublishFind(p, t)
    \/ \E c \in Clients : \/ SubscribeRegister(c) \/ Receive(c) \/ Cancel(c)
                          \/ \E t \in Topics : SubscribeFind(c, t)
    \/ \E t \in Topics : CloseAll(t)
    \/ Drop \/ Close \/ Restart

Spec == Init /\ [][Next]_vars

\* The scheduler runs a publisher that can go on.  Nothing makes a browser read.
FairSpec == Spec /\ \A p \in Publishers : WF_vars(PublishSteps(p))
----------------------------------------------------------------------------
ItemType == [id : 0 .. MaxEvents, missed : 0 .. MaxEvents, through : 0 .. MaxEvents]

\* Every variable keeps its type, and no channel holds more than its capacity.
TypeOK ==
    /\ current \in {None} \cup Topics /\ made \in 0 .. MaxTopics
    /\ hubClosed \in BOOLEAN /\ closing \subseteq Topics
    /\ \A t \in Topics : /\ topic[t].ring \in [Slots -> 0 .. MaxEvents]
                         /\ topic[t].next \in Slots /\ topic[t].count \in 0 .. RingSize
                         /\ topic[t].last \in 0 .. MaxEvents
                         /\ topic[t].subs \subseteq Clients
    /\ \A p \in Publishers : /\ pub[p].pc \in {"idle", "found", "deliver"}
                             /\ pub[p].topic \in {None} \cup Topics
                             /\ pub[p].todo \subseteq Clients
                             /\ \A i \in DOMAIN pub[p].items : pub[p].items[i] \in ItemType
    /\ \A c \in Clients : /\ sub[c].pc \in {"idle", "found", "open"}
                          /\ Len(sub[c].ch) <= Cap
                          /\ \A i \in DOMAIN sub[c].ch : sub[c].ch[i] \in ItemType

Subscribed(c) == sub[c].pc = "open" /\ ~sub[c].closed
SameTopic(c) == client[c].same

Total(items) ==
    LET sum[n \in 0 .. Len(items)] == IF n = 0 THEN 0 ELSE sum[n - 1] + Weight(items[n])
    IN  sum[Len(items)]

\* What a publisher has in hand for a subscriber and has not yet pushed.
InHand(c) ==
    LET on == {p \in Publishers : pub[p].pc = "deliver" /\ pub[p].topic = sub[c].topic}
    IN  IF on = {} THEN 0
        ELSE LET p == CHOOSE q \in on : TRUE
             IN  IF c \in pub[p].todo THEN 1
                 ELSE IF pub[p].to = c THEN Total(pub[p].items) ELSE 0

\* Nothing is lost without a count: every event since the cursor has been read,
\* is queued, is in a reported or queued gap, or is in the count carried for the
\* next one, through every eviction and every race with the reader.
Conservation ==
    \A c \in Clients : (Subscribed(c) /\ SameTopic(c)) =>
        client[c].got + client[c].told + Total(sub[c].ch) + sub[c].dropped + InHand(c)
            = topic[sub[c].topic].last - client[c].base

\* No publisher sends on a channel that cancel or closeAll has closed, which
\* would end the process.
NoSendOnClosed ==
    \A p \in Publishers : pub[p].items # <<>> => ~sub[pub[p].to].closed

\* A publisher reads from a node: it gets through its subscribers even when
\* none of them ever reads again.
PublishNeverBlocks ==
    \A p \in Publishers : (pub[p].pc = "deliver") ~> (pub[p].pc = "idle")

============================================================================

-------------------------------- MODULE Hub --------------------------------
(***************************************************************************)
(* The broadcast hub of realtime/hub.go.                                   *)
(*                                                                         *)
(* Every method of a Hub is one critical section of h.mu, so one step.     *)
(* What runs in between are the handlers of Serve, one per subscriber: they *)
(* drain their channel, notice that it was closed, or leave because the    *)
(* client has gone, and unsubscribe at a later time, when the topic may be *)
(* another one of the same name.                                           *)
(*                                                                         *)
(* An event is its place n in the history of its topic's name, which       *)
(* nobody but the properties can see, and its ID: a number given by        *)
(* Publish, or Custom for one that is not a number.  seen is what a client *)
(* received last; it sends the ID of that when it connects again.          *)
(***************************************************************************)
EXTENDS Naturals, Sequences, FiniteSets, Positions

CONSTANTS Topic, Subscriber,
          Buffer,       \* minSubscriberBufferSize
          ReplaySizes,  \* values of WithReplayBufferSize
          TopicCaps,    \* values of WithMaxTopics; 0 is no limit
          MaxPublish,   \* bound: events published under each name
          Custom, None

ASSUME HubAssumption ==
  /\ Buffer \in Nat \ {0}
  /\ ReplaySizes \subseteq Nat /\ TopicCaps \subseteq Nat
  /\ MaxPublish \in [Topic -> Nat]
  /\ Custom \notin Nat
  /\ None \notin [n : Nat, id : Nat \cup {Custom}]

VARIABLES
  replay, maxTopics,  \* the options of this hub
  topics,             \* h.topics: a map whose keys come and go
  recent,             \* the names in the order of lastUse
  closed,             \* h.closed
  ch,                 \* the buffered channel of a subscriber
  shut,               \* subscribers whose channel is closed
  home,               \* the topic a subscriber asked for
  pc,                 \* where its handler is
  \* history:
  published,          \* events published under a name
  seen,               \* the last event the client of a subscriber received
  replays, upTo,      \* how much of ch is replay; the last live event taken
  evicted             \* names whose topic was evicted

hvars == <<replay, maxTopics, topics, recent, closed>>
svars == <<ch, shut, home, pc>>
vars == <<hvars, svars, published, seen, replays, upTo, evicted>>

Event == [n : Nat, id : Nat \cup {Custom}]

(* hubTopic: the ring buf begins at start, counted from 0 as in the code.  *)
TopicRec == [next : Nat, buf : Seq(Event), start : Nat, subs : SUBSET Subscriber]
Fresh == [next |-> 0, buf |-> <<>>, start |-> 0, subs |-> {}]

Room == IF replay < Buffer THEN Buffer ELSE replay

TypeOK ==
  /\ replay \in ReplaySizes /\ maxTopics \in TopicCaps
  /\ DOMAIN topics \subseteq Topic
  /\ \A t \in DOMAIN topics :
       topics[t] \in TopicRec /\ Len(topics[t].buf) <= replay
  /\ recent \in Seq(Topic)
  /\ closed \in BOOLEAN
  /\ ch \in [Subscriber -> Seq(Event)]
  /\ \A s \in Subscriber : Len(ch[s]) <= Room
  /\ shut \subseteq Subscriber
  /\ home \in [Subscriber -> Topic \cup {None}]
  /\ pc \in [Subscriber -> {"new", "reading", "leaving", "gone"}]
  /\ published \in [Topic -> Nat]
  /\ seen \in [Subscriber -> Event \cup {None}]
  /\ replays \in [Subscriber -> Nat] /\ upTo \in [Subscriber -> Nat]
  /\ evicted \subseteq Topic

Init ==
  /\ replay \in ReplaySizes /\ maxTopics \in TopicCaps
  /\ topics = <<>> /\ recent = <<>> /\ closed = FALSE
  /\ ch = [s \in Subscriber |-> <<>>]
  /\ shut = {}
  /\ home = [s \in Subscriber |-> None]
  /\ pc = [s \in Subscriber |-> "new"]
  /\ published = [t \in Topic |-> 0]
  /\ seen = [s \in Subscriber |-> None]
  /\ replays = [s \in Subscriber |-> 0]
  /\ upTo = [s \in Subscriber |-> 0]
  /\ evicted = {}

-----------------------------------------------------------------------------
(* The topics.                                                             *)

(* (Slip: topics with subscribers are evicted, too.)                       *)
EvictableAny(m) == DOMAIN m
Evictable(m) == {t \in DOMAIN m : m[t].subs = {}}

(* At the cap, the topic to be deleted when another is created.            *)
Place(t) == CHOOSE i \in DOMAIN recent : recent[i] = t
Victim ==
  {t \in Evictable(topics) :
     /\ maxTopics # 0 /\ Cardinality(DOMAIN topics) >= maxTopics
     /\ \A u \in Evictable(topics) : Place(t) <= Place(u)}

Evicts(t) == IF t \in DOMAIN topics THEN {} ELSE Victim

(* topicLocked: the topics with t among them, and t the last one used.     *)
TopicLocked(t) ==
  [u \in (DOMAIN topics \ Evicts(t)) \cup {t} |->
     IF u \in DOMAIN topics THEN topics[u] ELSE Fresh]
Others(t) ==
  IF \E i \in DOMAIN recent : recent[i] = t
    THEN SubSeq(recent, 1, Place(t) - 1) \o SubSeq(recent, Place(t) + 1, Len(recent))
    ELSE recent
Touched(t) == Append(Others(t), t)

(* detachLocked for the subscribers in gone, which are no longer served.   *)
Detached(m, t, gone) ==
  LET left == m[t].subs \ gone
      keep == left # {} \/ (replay # 0 /\ m[t].buf # <<>>)
  IN  [u \in IF keep THEN DOMAIN m ELSE DOMAIN m \ {t} |->
         IF u = t THEN [m[t] EXCEPT !.subs = left] ELSE m[u]]

(* Writing to the ring.  (Slips: one entry too many; a ring whose start     *)
(* does not advance.)                                                      *)
FillsPast(buf) == Len(buf) <= replay
Fills(buf) == Len(buf) < replay
AfterSlotStays(i, len) == i
AfterSlot(i, len) == (i + 1) % len

Recorded(q, e) ==
  IF replay = 0 THEN q
  ELSE IF Fills(q.buf) THEN [q EXCEPT !.buf = Append(@, e)]
  ELSE [q EXCEPT !.buf[q.start + 1] = e, !.start = AfterSlot(@, Len(q.buf))]

(* The ring from its oldest event on.                                      *)
Retained(q) ==
  [i \in 1..Len(q.buf) |-> q.buf[((q.start + i - 1) % Len(q.buf)) + 1]]

-----------------------------------------------------------------------------
(* Publish.                                                                *)

Full(q) == {s \in q.subs : Len(ch[s]) = Room}

(* (Slip: a full subscriber misses the event and stays.)                   *)
DroppedNone(q) == {}
Dropped(q) == Full(q)

(* A hub that keeps nothing for replay does not create a topic to publish. *)
Publish(t, custom) ==
  /\ ~closed
  /\ published[t] < MaxPublish[t]
  /\ replay > 0 \/ t \in DOMAIN topics
  /\ LET m == IF replay = 0 THEN topics ELSE TopicLocked(t)
         next == m[t].next + 1
         e == [n |-> published[t] + 1, id |-> IF custom THEN Custom ELSE next]
         q == Recorded([m[t] EXCEPT !.next = next], e)
         after == [m EXCEPT ![t] = q]
     IN  /\ topics' = IF Dropped(q) = {} THEN after ELSE Detached(after, t, Dropped(q))
         /\ ch' = [s \in Subscriber |->
                     IF s \in q.subs \ Full(q) THEN Append(ch[s], e) ELSE ch[s]]
         /\ shut' = shut \cup Dropped(q)
  /\ IF replay = 0 THEN UNCHANGED <<recent, evicted>>
     ELSE recent' = Touched(t) /\ evicted' = evicted \cup Evicts(t)
  /\ published' = [published EXCEPT ![t] = @ + 1]
  /\ UNCHANGED <<replay, maxTopics, closed, home, pc, seen, replays, upTo>>

-----------------------------------------------------------------------------
(* Subscribe.                                                              *)

(* (Slip: the event seen last is replayed once more.)                      *)
AfterLastIDOrSame(id, last) == last = Custom \/ id = Custom \/ id >= last
AfterLastID(id, last) == last = Custom \/ id = Custom \/ id > last

(* The Last-Event-ID a client may send: none, "0", or that of the event it *)
(* received last over an earlier connection.                               *)
Zero == [n |-> 0, id |-> 0]
LastSeen(t) == {None, Zero} \cup {seen[p] : p \in {p \in Subscriber : home[p] = t}}

(* The retained events to replay, in order.                                *)
Replayed(q, last) ==
  Picked(Retained(q), {i \in 1..Len(q.buf) :
                         last # None /\ AfterLastID(Retained(q)[i].id, last.id)})

Subscribe(s, t, last) ==
  /\ pc[s] = "new"
  /\ ~closed
  /\ LET m == TopicLocked(t)
         queue == Replayed(m[t], last)
     IN  /\ topics' = [m EXCEPT ![t].subs = @ \cup {s}]
         /\ ch' = [ch EXCEPT ![s] = queue]
         /\ replays' = [replays EXCEPT ![s] = Len(queue)]
  /\ recent' = Touched(t)
  /\ evicted' = evicted \cup Evicts(t)
  /\ home' = [home EXCEPT ![s] = t]
  /\ pc' = [pc EXCEPT ![s] = "reading"]
  /\ seen' = [seen EXCEPT ![s] = last]
  /\ upTo' = [upTo EXCEPT ![s] = published[t]]
  /\ UNCHANGED <<replay, maxTopics, closed, shut, published>>

(* On a closed hub the channel is closed from the start.                   *)
SubscribeClosed(s) ==
  /\ pc[s] = "new"
  /\ closed
  /\ shut' = shut \cup {s}
  /\ pc' = [pc EXCEPT ![s] = "reading"]
  /\ UNCHANGED <<hvars, ch, home, published, seen, replays, upTo, evicted>>

-----------------------------------------------------------------------------
(* The handler: the loop of Serve, then the deferred unsubscribe.          *)

Take(s) ==
  /\ pc[s] = "reading" /\ ch[s] # <<>>
  /\ ch' = [ch EXCEPT ![s] = Tail(@)]
  /\ replays' = [replays EXCEPT ![s] = IF @ = 0 THEN 0 ELSE @ - 1]
  /\ upTo' = [upTo EXCEPT ![s] = IF replays[s] = 0 THEN Head(ch[s]).n ELSE @]
  /\ UNCHANGED <<hvars, shut, home, published, evicted>>

Deliver(s) ==
  /\ Take(s)
  /\ seen' = [seen EXCEPT ![s] = Head(ch[s])]
  /\ UNCHANGED pc

(* The event cannot be encoded, or the write fails; whether the client got *)
(* it is not known.                                                        *)
DeliverFails(s) ==
  /\ Take(s)
  /\ seen' \in {seen, [seen EXCEPT ![s] = Head(ch[s])]}
  /\ pc' = [pc EXCEPT ![s] = "leaving"]

Leave(s) ==
  /\ pc[s] = "reading"
  /\ pc' = [pc EXCEPT ![s] = "leaving"]
  /\ UNCHANGED <<hvars, ch, shut, home, published, seen, replays, upTo, evicted>>

Disconnect(s) == Leave(s)
SeeClosed(s) == s \in shut /\ ch[s] = <<>> /\ Leave(s)

(* removeSub finds its topic by name.  After Close there is none.  What is  *)
(* left in the channel is garbage, as Serve has returned.                  *)
Unsubscribe(s) ==
  /\ pc[s] = "leaving"
  /\ pc' = [pc EXCEPT ![s] = "gone"]
  /\ shut' = shut \cup {s}
  /\ topics' = IF home[s] \in DOMAIN topics THEN Detached(topics, home[s], {s})
                                            ELSE topics
  /\ ch' = [ch EXCEPT ![s] = <<>>]
  /\ replays' = [replays EXCEPT ![s] = 0]
  /\ upTo' = [upTo EXCEPT ![s] = 0]
  /\ UNCHANGED <<replay, maxTopics, recent, closed, home, published, seen, evicted>>

(* (Slip: the channels are left open.)                                     *)
CloseQuietly ==
  /\ ~closed
  /\ closed' = TRUE
  /\ topics' = <<>>
  /\ UNCHANGED <<replay, maxTopics, recent, svars, published, seen, replays, upTo, evicted>>

Close ==
  /\ ~closed
  /\ closed' = TRUE
  /\ shut' = shut \cup UNION {topics[t].subs : t \in DOMAIN topics}
  /\ topics' = <<>>
  /\ UNCHANGED <<replay, maxTopics, recent, ch, home, pc, published, seen,
                 replays, upTo, evicted>>

Serve(s) == Deliver(s) \/ SeeClosed(s) \/ Unsubscribe(s)

Next ==
  \/ \E t \in Topic, custom \in BOOLEAN : Publish(t, custom)
  \/ \E s \in Subscriber :
       \/ \E t \in Topic : \E last \in LastSeen(t) : Subscribe(s, t, last)
       \/ SubscribeClosed(s)
       \/ Serve(s) \/ DeliverFails(s) \/ Disconnect(s)
  \/ Close

Spec == Init /\ [][Next]_vars

(* The handlers run, and a write to a client ends, with or without success. *)
FairSpec == Spec /\ \A s \in Subscriber : WF_vars(Serve(s))

-----------------------------------------------------------------------------
Attached(s) == \E t \in DOMAIN topics : s \in topics[t].subs

(* A subscriber is in the topic it asked for as long as its channel is     *)
(* open, and no longer: Publish never sends on a closed channel, which     *)
(* would panic under h.mu, and no open channel is forgotten when its topic *)
(* is evicted or replaced by another of that name (evictLocked, removeSub, *)
(* detachLocked).                                                          *)
AttachedWhileOpen ==
  /\ \A t \in DOMAIN topics : \A s \in topics[t].subs : home[s] = t
  /\ \A s \in Subscriber :
       Attached(s) <=> pc[s] \in {"reading", "leaving"} /\ s \notin shut

(* The live events in a channel are those published next after what its    *)
(* reader has taken, in order and without a gap, and while the subscriber  *)
(* is attached up to the last one: a slow subscriber is "disconnected      *)
(* instead of silently missing events" (Hub, Publish).                     *)
NoGaps ==
  \A s \in Subscriber :
    /\ \A i \in DOMAIN ch[s] :
         i > replays[s] => ch[s][i].n = upTo[s] + (i - replays[s])
    /\ Attached(s) =>
         published[home[s]] + replays[s] = upTo[s] + Len(ch[s])

(* The ring holds the latest events of its topic, oldest first (Publish).  *)
RingKeepsLatest ==
  \A t \in DOMAIN topics :
    LET q == topics[t]
        len == Len(q.buf)
    IN  /\ len = IF q.next < replay THEN q.next ELSE replay
        /\ \A i \in 1..len : Retained(q)[i].n + len = published[t] + i

Subscribed(s) == pc[s] = "new" /\ pc'[s] = "reading" /\ ~closed

(* What a client that connects again gets first: every retained event it   *)
(* has not received, and none it has, if IDs are numbers and its topic was *)
(* never evicted (Subscribe, afterLastID).                                 *)
Complete(s) ==
  Subscribed(s) /\ seen'[s] # None /\ home'[s] \in DOMAIN topics =>
    \A i \in DOMAIN Retained(topics[home'[s]]) :
      LET e == Retained(topics[home'[s]])[i]
      IN  e.n > seen'[s].n => \E k \in DOMAIN ch'[s] : ch'[s][k] = e

NoRepeat(s) ==
  Subscribed(s) /\ seen'[s] # None /\ seen'[s].id # Custom =>
    \A k \in DOMAIN ch'[s] : ch'[s][k].id # Custom => ch'[s][k].n > seen'[s].n

ReplayExact ==
  [][\A s \in Subscriber :
       home'[s] \notin evicted => Complete(s) /\ NoRepeat(s)]_vars

(* The same without an exception for evicted topics: "first receives       *)
(* buffered events published after lastID" (Subscribe).                    *)
ReplayComplete == [][\A s \in Subscriber : Complete(s)]_vars

(* The handler of a subscriber that was dropped, or whose hub was closed,  *)
(* returns ("unblocks every subscriber": Close; Publish, Serve).           *)
ServeEnds ==
  \A s \in Subscriber : (pc[s] = "reading" /\ ~Attached(s)) ~> (pc[s] = "gone")

=============================================================================

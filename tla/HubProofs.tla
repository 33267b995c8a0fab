----------------------------- MODULE HubProofs -----------------------------
(***************************************************************************)
(* What holds of the hub for every set of topics and subscribers, every    *)
(* replay and channel size, every topic cap and any number of events.      *)
(***************************************************************************)
EXTENDS Hub, ListsProofs

(* Who is attached where: the shape of the topics, as far as subscribers   *)
(* are concerned.                                                          *)
Shape ==
  /\ \A t \in DOMAIN topics : "subs" \in DOMAIN topics[t]
                              /\ topics[t].subs \subseteq Subscriber
  /\ pc \in [Subscriber -> {"new", "reading", "leaving", "gone"}]
  /\ home \in [Subscriber -> Topic \cup {None}]
  /\ shut \subseteq Subscriber
  /\ \A s \in Subscriber : pc[s] = "new" => s \notin shut

AttachInv == Shape /\ AttachedWhileOpen

LEMMA AttachInit == Init => AttachInv
BY DEF Init, AttachInv, Shape, AttachedWhileOpen, Attached

(* Creating a topic, with the eviction of another, changes nobody's place. *)
LEMMA TopicLockedKeeps ==
  ASSUME AttachInv, NEW t \in Topic
  PROVE  /\ t \in DOMAIN TopicLocked(t)
         /\ DOMAIN TopicLocked(t) \subseteq DOMAIN topics \cup {t}
         /\ \A u \in DOMAIN TopicLocked(t) :
              /\ "subs" \in DOMAIN TopicLocked(t)[u]
              /\ TopicLocked(t)[u].subs \subseteq Subscriber
              /\ \A s \in TopicLocked(t)[u].subs : home[s] = u
         /\ \A s \in Subscriber :
              Attached(s) <=> \E u \in DOMAIN TopicLocked(t) : s \in TopicLocked(t)[u].subs
<1>1. \A u \in Evicts(t) : u \in DOMAIN topics /\ u # t /\ topics[u].subs = {}
  BY DEF Evicts, Victim, Evictable
<1>2. "subs" \in DOMAIN Fresh /\ Fresh.subs = {}
  BY DEF Fresh
<1> QED BY <1>1, <1>2 DEF TopicLocked, AttachInv, Shape, AttachedWhileOpen, Attached

(* Detaching takes exactly those who go out of the topic.                  *)
LEMMA DetachedRemoves ==
  ASSUME NEW m, NEW t \in DOMAIN m, NEW gone,
         \A u \in DOMAIN m : "subs" \in DOMAIN m[u]
  PROVE  /\ \A u \in DOMAIN Detached(m, t, gone) :
              /\ u \in DOMAIN m
              /\ "subs" \in DOMAIN Detached(m, t, gone)[u]
              /\ Detached(m, t, gone)[u].subs
                   = IF u = t THEN m[t].subs \ gone ELSE m[u].subs
         /\ \A u \in DOMAIN m :
              u \notin DOMAIN Detached(m, t, gone) => u = t /\ m[t].subs \subseteq gone
<1> DEFINE left == m[t].subs \ gone
           keep == left # {} \/ (replay # 0 /\ m[t].buf # <<>>)
           D == IF keep THEN DOMAIN m ELSE DOMAIN m \ {t}
<1>1. Detached(m, t, gone) = [u \in D |-> IF u = t THEN [m[t] EXCEPT !.subs = left] ELSE m[u]]
  BY DEF Detached
<1>2. "subs" \in DOMAIN [m[t] EXCEPT !.subs = left] /\ [m[t] EXCEPT !.subs = left].subs = left
  OBVIOUS
<1>3. D \subseteq DOMAIN m /\ \A u \in DOMAIN m : u \notin D => u = t /\ left = {}
  OBVIOUS
<1> HIDE DEF left, keep, D
<1>4. DOMAIN Detached(m, t, gone) = D
  BY <1>1
<1>5. \A u \in D : Detached(m, t, gone)[u] = IF u = t THEN [m[t] EXCEPT !.subs = left] ELSE m[u]
  BY <1>1
<1> QED BY <1>2, <1>3, <1>4, <1>5 DEF left

(* Writing to the ring changes no subscribers.                             *)
LEMMA RecordedKeeps ==
  ASSUME NEW q, NEW e, "subs" \in DOMAIN q
  PROVE  "subs" \in DOMAIN Recorded(q, e) /\ Recorded(q, e).subs = q.subs
BY DEF Recorded

(* What Publish leaves in the topics: everybody but those it drops.        *)
LEMMA PublishAttach ==
  ASSUME AttachInv, NEW t \in Topic, NEW custom \in BOOLEAN, Publish(t, custom)
  PROVE  /\ AttachInv' /\ DOMAIN topics' \subseteq DOMAIN topics \cup {t}
         /\ \A s \in Subscriber :
              Attached(s)' => Attached(s) /\ (home[s] = t => Len(ch[s]) # Room)
         /\ \E e : /\ e.n = published[t] + 1
                   /\ \A s \in Subscriber :
                        ch'[s] = IF Attached(s) /\ home[s] = t /\ Len(ch[s]) # Room
                                 THEN Append(ch[s], e) ELSE ch[s]
<1> DEFINE m == IF replay = 0 THEN topics ELSE TopicLocked(t)
           next == m[t].next + 1
           e == [n |-> published[t] + 1, id |-> IF custom THEN Custom ELSE next]
           q0 == [m[t] EXCEPT !.next = next]
           q == Recorded(q0, e)
           after == [m EXCEPT ![t] = q]
           D == Dropped(q)
<1>1. /\ topics' = IF D = {} THEN after ELSE Detached(after, t, D)
      /\ shut' = shut \cup D
      /\ UNCHANGED <<pc, home>>
      /\ replay > 0 \/ t \in DOMAIN topics
      /\ ch' = [s \in Subscriber |->
                  IF s \in q.subs \ Full(q) THEN Append(ch[s], e) ELSE ch[s]]
  BY DEF Publish
<1>2. /\ t \in DOMAIN m /\ DOMAIN m \subseteq DOMAIN topics \cup {t}
      /\ \A u \in DOMAIN m : /\ "subs" \in DOMAIN m[u]
                             /\ m[u].subs \subseteq Subscriber
                             /\ \A s \in m[u].subs : home[s] = u
      /\ \A s \in Subscriber : Attached(s) <=> \E u \in DOMAIN m : s \in m[u].subs
  <2>1. CASE replay = 0
    BY <1>1, <2>1 DEF AttachInv, Shape, AttachedWhileOpen, Attached
  <2>2. CASE replay # 0
    BY <2>2, TopicLockedKeeps
  <2> QED BY <2>1, <2>2
<1> HIDE DEF m
<1>3. "subs" \in DOMAIN q0 /\ q0.subs = m[t].subs
  BY <1>2
<1>number. e.n = published[t] + 1
  OBVIOUS
<1> HIDE DEF q0, e, next
<1>4. "subs" \in DOMAIN q /\ q.subs = m[t].subs
  BY <1>3, RecordedKeeps
<1>5. D = Full(q) /\ D = {s \in m[t].subs : Len(ch[s]) = Room}
  BY <1>4 DEF Dropped, Full
<1> HIDE DEF q, D
<1>6. /\ DOMAIN after = DOMAIN m
      /\ \A u \in DOMAIN m : "subs" \in DOMAIN after[u] /\ after[u].subs = m[u].subs
  BY <1>2, <1>4
<1> HIDE DEF after
<1>7. /\ \A u \in DOMAIN topics' :
           /\ u \in DOMAIN m /\ "subs" \in DOMAIN topics'[u]
           /\ topics'[u].subs = IF u = t THEN m[t].subs \ D ELSE m[u].subs
      /\ \A u \in DOMAIN m : u \notin DOMAIN topics' => u = t /\ m[t].subs \subseteq D
  <2>1. CASE D = {}
    BY <1>1, <1>6, <2>1
  <2>2. CASE D # {}
    <3>1. /\ \A u \in DOMAIN Detached(after, t, D) :
               /\ u \in DOMAIN after
               /\ "subs" \in DOMAIN Detached(after, t, D)[u]
               /\ Detached(after, t, D)[u].subs
                    = IF u = t THEN after[t].subs \ D ELSE after[u].subs
          /\ \A u \in DOMAIN after :
               u \notin DOMAIN Detached(after, t, D) => u = t /\ after[t].subs \subseteq D
      BY <1>2, <1>6, DetachedRemoves
    <3> QED BY <1>1, <1>2, <1>6, <2>2, <3>1
  <2> QED BY <2>1, <2>2
<1>8. \A s \in Subscriber : Attached(s)' <=> Attached(s) /\ s \notin D
  <2> SUFFICES ASSUME NEW s \in Subscriber PROVE Attached(s)' <=> Attached(s) /\ s \notin D
    OBVIOUS
  <2>1. Attached(s)' <=> \E u \in DOMAIN topics' : s \in topics'[u].subs
    BY DEF Attached
  <2>2. ASSUME Attached(s)' PROVE Attached(s) /\ s \notin D
    <3>1. PICK u \in DOMAIN topics' : s \in topics'[u].subs
      BY <2>1, <2>2
    <3>2. u \in DOMAIN m /\ s \in m[u].subs /\ home[s] = u
      BY <1>2, <1>7, <3>1
    <3>3. u = t => s \notin D
      BY <1>7, <3>1
    <3>4. u # t => s \notin D
      BY <1>2, <1>5, <3>2
    <3> QED BY <1>2, <3>2, <3>3, <3>4
  <2>3. ASSUME Attached(s), s \notin D PROVE Attached(s)'
    BY <1>2, <1>7, <2>1, <2>3
  <2> QED BY <2>2, <2>3
<1>9. Shape'
  <2>1. \A s \in D : s \in Subscriber /\ Attached(s)
    BY <1>2, <1>5
  <2> QED BY <1>1, <1>2, <1>7, <2>1 DEF AttachInv, Shape, AttachedWhileOpen
<1>10. AttachedWhileOpen'
  <2>1. \A u \in DOMAIN topics' : \A s \in topics'[u].subs : home'[s] = u
    BY <1>1, <1>2, <1>7
  <2>2. \A s \in Subscriber :
          Attached(s)' <=> pc'[s] \in {"reading", "leaving"} /\ s \notin shut'
    BY <1>1, <1>8 DEF AttachInv, AttachedWhileOpen
  <2> QED BY <2>1, <2>2 DEF AttachedWhileOpen
<1>11. \A s \in Subscriber : s \in m[t].subs <=> Attached(s) /\ home[s] = t
  BY <1>2
<1>12. \A s \in Subscriber : Attached(s)' => Attached(s) /\ (home[s] = t => Len(ch[s]) # Room)
  BY <1>5, <1>8, <1>11
<1>13. \A s \in Subscriber :
         ch'[s] = IF Attached(s) /\ home[s] = t /\ Len(ch[s]) # Room
                  THEN Append(ch[s], e) ELSE ch[s]
  BY <1>1, <1>4, <1>5, <1>11
<1>14. DOMAIN topics' \subseteq DOMAIN topics \cup {t}
  <2>1. DOMAIN m \subseteq DOMAIN topics \cup {t}
    BY <1>2
  <2> QED BY <1>7, <2>1
<1> QED BY <1>9, <1>10, <1>12, <1>13, <1>14, <1>number DEF AttachInv

LEMMA SubscribeAttach ==
  ASSUME AttachInv, NEW s \in Subscriber, NEW t \in Topic, NEW last, Subscribe(s, t, last)
  PROVE  /\ AttachInv' /\ DOMAIN topics' \subseteq DOMAIN topics \cup {t}
         /\ \A x \in Subscriber : Attached(x)' <=> Attached(x) \/ x = s
<1> DEFINE m == TopicLocked(t)
<1>1. /\ pc[s] = "new"
      /\ topics' = [m EXCEPT ![t].subs = @ \cup {s}]
      /\ home' = [home EXCEPT ![s] = t]
      /\ pc' = [pc EXCEPT ![s] = "reading"]
      /\ UNCHANGED shut
  BY DEF Subscribe
<1>2. /\ t \in DOMAIN m /\ DOMAIN m \subseteq DOMAIN topics \cup {t}
      /\ \A u \in DOMAIN m : /\ "subs" \in DOMAIN m[u]
                             /\ m[u].subs \subseteq Subscriber
                             /\ \A x \in m[u].subs : home[x] = u
      /\ \A x \in Subscriber : Attached(x) <=> \E u \in DOMAIN m : x \in m[u].subs
  BY TopicLockedKeeps
<1> HIDE DEF m
<1>3. /\ DOMAIN topics' = DOMAIN m
      /\ \A u \in DOMAIN m :
           /\ "subs" \in DOMAIN topics'[u]
           /\ topics'[u].subs = IF u = t THEN m[t].subs \cup {s} ELSE m[u].subs
  BY <1>1, <1>2
<1>4. ~Attached(s) /\ s \notin shut
  BY <1>1 DEF AttachInv, AttachedWhileOpen, Shape
<1>5. \A u \in DOMAIN m : s \notin m[u].subs
  BY <1>2, <1>4
<1>6. \A x \in Subscriber : Attached(x)' <=> Attached(x) \/ x = s
  BY <1>2, <1>3 DEF Attached
<1>7. Shape'
  BY <1>1, <1>2, <1>3 DEF AttachInv, Shape
<1>8. AttachedWhileOpen'
  <2>1. \A u \in DOMAIN topics' : \A x \in topics'[u].subs : home'[x] = u
    BY <1>1, <1>2, <1>3, <1>5 DEF AttachInv, Shape
  <2>2. \A x \in Subscriber :
          Attached(x)' <=> pc'[x] \in {"reading", "leaving"} /\ x \notin shut'
    BY <1>1, <1>4, <1>6 DEF AttachInv, AttachedWhileOpen, Shape
  <2> QED BY <2>1, <2>2 DEF AttachedWhileOpen
<1> QED BY <1>2, <1>3, <1>6, <1>7, <1>8 DEF AttachInv

LEMMA UnsubscribeAttach ==
  ASSUME AttachInv, NEW s \in Subscriber, Unsubscribe(s)
  PROVE  /\ AttachInv' /\ DOMAIN topics' \subseteq DOMAIN topics
         /\ \A x \in Subscriber : Attached(x)' <=> Attached(x) /\ x # s
<1>1. /\ pc' = [pc EXCEPT ![s] = "gone"]
      /\ shut' = shut \cup {s}
      /\ topics' = IF home[s] \in DOMAIN topics THEN Detached(topics, home[s], {s})
                                                ELSE topics
      /\ UNCHANGED home
  BY DEF Unsubscribe
<1>2. /\ \A u \in DOMAIN topics : "subs" \in DOMAIN topics[u]
                                  /\ topics[u].subs \subseteq Subscriber
      /\ \A u \in DOMAIN topics : \A x \in topics[u].subs : home[x] = u
  BY DEF AttachInv, Shape, AttachedWhileOpen
<1>3. /\ \A u \in DOMAIN topics' :
           /\ u \in DOMAIN topics /\ "subs" \in DOMAIN topics'[u]
           /\ topics'[u].subs = topics[u].subs \ {s}
      /\ \A u \in DOMAIN topics : u \notin DOMAIN topics' => topics[u].subs \subseteq {s}
  <2>1. CASE home[s] \in DOMAIN topics
    <3>1. PICK t \in DOMAIN topics : t = home[s]
      BY <2>1
    <3>2. PICK gone : gone = {s}
      OBVIOUS
    <3> DEFINE D == Detached(topics, t, gone)
    <3>3. \A u \in DOMAIN topics : topics[u].subs \ gone = IF u = t THEN topics[t].subs \ gone
                                                                    ELSE topics[u].subs
      BY <1>2, <3>1, <3>2
    <3>4. topics' = D
      BY <1>1, <3>1, <3>2
    <3>5. \A u \in DOMAIN topics : "subs" \in DOMAIN topics[u]
      BY <1>2
    <3>6. /\ \A u \in DOMAIN D :
               /\ u \in DOMAIN topics
               /\ "subs" \in DOMAIN D[u]
               /\ D[u].subs = IF u = t THEN topics[t].subs \ gone ELSE topics[u].subs
          /\ \A u \in DOMAIN topics :
               u \notin DOMAIN D => u = t /\ topics[t].subs \subseteq gone
      BY <3>5, DetachedRemoves
    <3> HIDE DEF D
    <3>7. /\ \A u \in DOMAIN D :
               /\ u \in DOMAIN topics /\ "subs" \in DOMAIN D[u]
               /\ D[u].subs = topics[u].subs \ gone
          /\ \A u \in DOMAIN topics : u \notin DOMAIN D => topics[u].subs \subseteq gone
      BY <3>3, <3>6
    <3> QED BY <3>2, <3>4, <3>7
  <2>2. CASE home[s] \notin DOMAIN topics
    BY <1>1, <1>2, <2>2
  <2> QED BY <2>1, <2>2
<1>4. \A x \in Subscriber : Attached(x)' <=> Attached(x) /\ x # s
  BY <1>3 DEF Attached
<1>5. Shape'
  BY <1>1, <1>2, <1>3 DEF AttachInv, Shape
<1>6. AttachedWhileOpen'
  <2>1. \A u \in DOMAIN topics' : \A x \in topics'[u].subs : home'[x] = u
    BY <1>1, <1>2, <1>3
  <2>2. \A x \in Subscriber :
          Attached(x)' <=> pc'[x] \in {"reading", "leaving"} /\ x \notin shut'
    BY <1>1, <1>4 DEF AttachInv, AttachedWhileOpen, Shape
  <2> QED BY <2>1, <2>2 DEF AttachedWhileOpen
<1> QED BY <1>3, <1>4, <1>5, <1>6 DEF AttachInv

(* Subscribers that never joined a topic, or leave the loop of Serve.      *)
LEMMA HandlerAttach ==
  ASSUME AttachInv, NEW s \in Subscriber,
         \/ SubscribeClosed(s)
         \/ Deliver(s) \/ DeliverFails(s) \/ Disconnect(s) \/ SeeClosed(s)
  PROVE  AttachInv'
<1> USE DEF AttachInv, Shape, AttachedWhileOpen, Attached, hvars
<1>1. CASE SubscribeClosed(s)
  BY <1>1 DEF SubscribeClosed
<1>2. CASE Deliver(s)
  BY <1>2 DEF Deliver, Take
<1>3. CASE DeliverFails(s)
  BY <1>3 DEF DeliverFails, Take
<1>4. CASE Disconnect(s) \/ SeeClosed(s)
  BY <1>4 DEF Disconnect, SeeClosed, Leave
<1> QED BY <1>1, <1>2, <1>3, <1>4

LEMMA CloseAttach ==
  ASSUME AttachInv, Close
  PROVE  AttachInv'
<1>1. /\ shut' = shut \cup UNION {topics[t].subs : t \in DOMAIN topics}
      /\ topics' = <<>>
      /\ UNCHANGED <<pc, home>>
  BY DEF Close, svars
<1>2. \A s \in Subscriber : s \in shut' <=> s \in shut \/ Attached(s)
  BY <1>1 DEF Attached
<1> QED BY <1>1, <1>2 DEF AttachInv, Shape, AttachedWhileOpen, Attached

LEMMA AttachStep == AttachInv /\ [Next]_vars => AttachInv'
<1> SUFFICES ASSUME AttachInv, [Next]_vars PROVE AttachInv'
  OBVIOUS
<1>1. ASSUME NEW t \in Topic, NEW custom \in BOOLEAN, Publish(t, custom) PROVE AttachInv'
  BY <1>1, PublishAttach
<1>2. ASSUME NEW s \in Subscriber, NEW t \in Topic, NEW last, Subscribe(s, t, last)
      PROVE  AttachInv'
  BY <1>2, SubscribeAttach
<1>3. ASSUME NEW s \in Subscriber,
             \/ SubscribeClosed(s)
             \/ Deliver(s) \/ DeliverFails(s) \/ Disconnect(s) \/ SeeClosed(s)
      PROVE  AttachInv'
  BY <1>3, HandlerAttach
<1>4. ASSUME NEW s \in Subscriber, Unsubscribe(s) PROVE AttachInv'
  BY <1>4, UnsubscribeAttach
<1>5. CASE Close
  BY <1>5, CloseAttach
<1>6. CASE UNCHANGED vars
  BY <1>6 DEF vars, hvars, svars, AttachInv, Shape, AttachedWhileOpen, Attached
<1> QED BY <1>1, <1>2, <1>3, <1>4, <1>5, <1>6 DEF Next, Serve

(* Sends and closes of a channel exclude each other: a subscriber's        *)
(* channel is open exactly as long as the subscriber is in the topic it    *)
(* asked for, whatever was evicted, dropped or closed (Publish sends to    *)
(* t.subs without a look at sub.closed).                                   *)
THEOREM NeverSendsOnClosed == Spec => []AttachedWhileOpen
<1>1. AttachInv => AttachedWhileOpen
  BY DEF AttachInv
<1> QED BY <1>1, AttachInit, AttachStep, PTL DEF Spec

-----------------------------------------------------------------------------
(* What is in the channels.  Of the events nothing is said but the numbers *)
(* of the live ones, so the elements of a ring or a channel may be any.    *)
Queue(q) == \E S : q \in Seq(S)

RingsFit ==
  \A t \in DOMAIN topics : /\ {"next", "buf", "start"} \subseteq DOMAIN topics[t]
                           /\ Queue(topics[t].buf) /\ Len(topics[t].buf) <= replay

ChannelsFit ==
  \A s \in Subscriber : Len(ch[s]) <= Room

StreamShape ==
  /\ replay \in Nat /\ DOMAIN topics \subseteq Topic /\ RingsFit
  /\ DOMAIN ch = Subscriber /\ \A s \in Subscriber : Queue(ch[s])
  /\ published \in [Topic -> Nat]
  /\ replays \in [Subscriber -> Nat] /\ upTo \in [Subscriber -> Nat]
  /\ \A s \in Subscriber : replays[s] <= Len(ch[s])

StreamInv == AttachInv /\ StreamShape /\ ChannelsFit /\ NoGaps

LEMMA QueueLen == \A q : Queue(q) => Len(q) \in Nat /\ DOMAIN q = 1..Len(q)
BY DEF Queue

LEMMA QueueAppend ==
  ASSUME NEW q, Queue(q), NEW e
  PROVE  /\ Queue(Append(q, e)) /\ Len(Append(q, e)) = Len(q) + 1
         /\ \A i \in 1..Len(q) : Append(q, e)[i] = q[i]
         /\ Append(q, e)[Len(q) + 1] = e
<1>1. PICK S : q \in Seq(S)
  BY DEF Queue
<1>2. q \in Seq(S \cup {e}) /\ e \in S \cup {e}
  BY <1>1
<1>3. Append(q, e) \in Seq(S \cup {e})
  BY <1>2
<1> QED BY <1>2, <1>3 DEF Queue

LEMMA QueueTail ==
  ASSUME NEW q, Queue(q), q # <<>>
  PROVE  /\ Queue(Tail(q)) /\ Len(q) > 0 /\ Len(Tail(q)) = Len(q) - 1
         /\ Head(q) = q[1]
         /\ \A i \in 1..Len(Tail(q)) : Tail(q)[i] = q[i + 1]
<1>1. PICK S : q \in Seq(S)
  BY DEF Queue
<1>2. Tail(q) \in Seq(S) /\ Len(q) > 0
  BY <1>1
<1> QED BY <1>1, <1>2 DEF Queue

LEMMA QueueSet ==
  ASSUME NEW q, Queue(q), NEW i, NEW e
  PROVE  Queue([q EXCEPT ![i] = e]) /\ Len([q EXCEPT ![i] = e]) = Len(q)
<1>1. PICK S : q \in Seq(S)
  BY DEF Queue
<1>2. q \in Seq(S \cup {e}) /\ e \in S \cup {e}
  BY <1>1
<1>3. q \in [1..Len(q) -> S \cup {e}] /\ Len(q) \in Nat
  BY <1>2
<1>4. [q EXCEPT ![i] = e] = [j \in 1..Len(q) |-> IF j = i THEN e ELSE q[j]]
  BY <1>3
<1> DEFINE f == [j \in 1..Len(q) |-> IF j = i THEN e ELSE q[j]]
<1>5. \A j \in 1..Len(q) : (IF j = i THEN e ELSE q[j]) \in S \cup {e}
  BY <1>3
<1>6. f \in Seq(S \cup {e}) /\ Len(f) = Len(q)
  BY <1>3, <1>5
<1> QED BY <1>4, <1>6 DEF Queue

(* The ring never holds more than the replay size.                         *)
LEMMA RecordedFits ==
  ASSUME replay \in Nat, NEW q, NEW e,
         {"next", "buf", "start"} \subseteq DOMAIN q, Queue(q.buf), Len(q.buf) <= replay
  PROVE  /\ {"next", "buf", "start"} \subseteq DOMAIN Recorded(q, e)
         /\ Queue(Recorded(q, e).buf) /\ Len(Recorded(q, e).buf) <= replay
<1>1. Len(q.buf) \in Nat
  BY QueueLen
<1>2. CASE replay = 0
  BY <1>2 DEF Recorded
<1>3. CASE replay # 0 /\ Fills(q.buf)
  <2>1. Recorded(q, e) = [q EXCEPT !.buf = Append(q.buf, e)]
    BY <1>3 DEF Recorded
  <2>2. Recorded(q, e).buf = Append(q.buf, e)
    BY <2>1
  <2>3. DOMAIN Recorded(q, e) = DOMAIN q
    BY <2>1
  <2> QED BY <1>1, <1>3, <2>2, <2>3, QueueAppend DEF Fills
<1>4. CASE replay # 0 /\ ~Fills(q.buf)
  <2> DEFINE buf == [q.buf EXCEPT ![q.start + 1] = e]
  <2>1. Recorded(q, e) =
          [q EXCEPT !.buf = buf, !.start = AfterSlot(q.start, Len(q.buf))]
    BY <1>4 DEF Recorded
  <2>2. Queue(buf) /\ Len(buf) = Len(q.buf)
    <3>1. PICK i : i = q.start + 1
      OBVIOUS
    <3>2. Queue([q.buf EXCEPT ![i] = e]) /\ Len([q.buf EXCEPT ![i] = e]) = Len(q.buf)
      BY QueueSet
    <3> QED BY <3>1, <3>2
  <2> HIDE DEF buf
  <2>3. Recorded(q, e).buf = buf
    BY <2>1
  <2>4. DOMAIN Recorded(q, e) = DOMAIN q
    BY <2>1
  <2> QED BY <2>2, <2>3, <2>4
<1> QED BY <1>2, <1>3, <1>4

(* A replay is no longer than the ring it is taken from.                   *)
LEMMA ReplayedFits ==
  ASSUME NEW q, Queue(q.buf), NEW last
  PROVE  Queue(Replayed(q, last)) /\ Len(Replayed(q, last)) <= Len(q.buf)
<1> DEFINE keep == {i \in 1..Len(q.buf) :
                      last # None /\ AfterLastID(Retained(q)[i].id, last.id)}
           S == {Retained(q)[Nth(keep, k)] : k \in 1..Cardinality(keep)}
<1>1. Len(q.buf) \in Nat
  BY QueueLen
<1>2. IsFiniteSet(1..Len(q.buf)) /\ Cardinality(1..Len(q.buf)) = Len(q.buf)
  <2>1. ASSUME NEW n \in Nat
        PROVE  IsFiniteSet(1..n) /\ Cardinality(1..n) = n
    <3>1. Cardinality(1..n) = IF 1 > n THEN 0 ELSE n - 1 + 1
      BY FS_Interval
    <3>2. IsFiniteSet(1..n)
      BY FS_Interval
    <3> QED BY <3>1, <3>2
  <2> QED BY <1>1, <2>1
<1>3. Cardinality(keep) \in Nat /\ Cardinality(keep) <= Len(q.buf)
  BY <1>2, FS_Subset, FS_CardinalityType
<1>4. Replayed(q, last) = [k \in 1..Cardinality(keep) |-> Retained(q)[Nth(keep, k)]]
  BY DEF Replayed, Picked
<1> HIDE DEF keep
<1>5. \A k \in 1..Cardinality(keep) : Retained(q)[Nth(keep, k)] \in S
  OBVIOUS
<1> HIDE DEF S
<1>6. Replayed(q, last) \in Seq(S) /\ Len(Replayed(q, last)) = Cardinality(keep)
  BY <1>3, <1>4, <1>5
<1> QED BY <1>3, <1>6 DEF Queue

LEMMA RoomBounds ==
  ASSUME replay \in Nat
  PROVE  Room \in Nat /\ replay <= Room
BY HubAssumption DEF Room

(* Rings move with their topics.                                           *)
Fit(q) == {"next", "buf", "start"} \subseteq DOMAIN q /\ Queue(q.buf) /\ Len(q.buf) <= replay

LEMMA TopicLockedRings ==
  ASSUME replay \in Nat, RingsFit, NEW t \in Topic
  PROVE  \A u \in DOMAIN TopicLocked(t) : Fit(TopicLocked(t)[u])
<1>1. Fit(Fresh)
  <2>1. <<>> \in Seq({}) /\ Len(<<>>) = 0
    OBVIOUS
  <2>2. Fresh.buf = <<>> /\ {"next", "buf", "start"} \subseteq DOMAIN Fresh
    BY DEF Fresh
  <2>3. Queue(Fresh.buf)
    BY <2>1, <2>2 DEF Queue
  <2> QED BY <2>1, <2>2, <2>3 DEF Fit
<1>2. \A u \in DOMAIN topics : Fit(topics[u])
  BY DEF RingsFit, Fit
<1> QED BY <1>1, <1>2 DEF TopicLocked, Evicts, Victim, Evictable

LEMMA DetachedRings ==
  ASSUME NEW m, NEW t \in DOMAIN m, NEW gone, \A u \in DOMAIN m : Fit(m[u])
  PROVE  \A u \in DOMAIN Detached(m, t, gone) : Fit(Detached(m, t, gone)[u])
<1> DEFINE left == m[t].subs \ gone
           keep == left # {} \/ (replay # 0 /\ m[t].buf # <<>>)
           D == IF keep THEN DOMAIN m ELSE DOMAIN m \ {t}
           q == [m[t] EXCEPT !.subs = left]
<1>1. Detached(m, t, gone) = [u \in D |-> IF u = t THEN q ELSE m[u]]
  BY DEF Detached
<1> HIDE DEF left
<1>2. DOMAIN q = DOMAIN m[t] /\ q.buf = m[t].buf
  BY DEF Fit
<1>3. D \subseteq DOMAIN m
  OBVIOUS
<1> HIDE DEF keep, D, q
<1>4. Fit(q)
  BY <1>2 DEF Fit
<1> QED BY <1>1, <1>3, <1>4

(* Nobody is attached to a topic that is not one.                          *)
LEMMA AttachedHome ==
  ASSUME AttachInv, NEW s \in Subscriber, Attached(s), DOMAIN topics \subseteq Topic
  PROVE  home[s] \in Topic
BY DEF AttachInv, Shape, AttachedWhileOpen, Attached

LEMMA PublishStream ==
  ASSUME StreamInv, NEW t \in Topic, NEW custom \in BOOLEAN, Publish(t, custom)
  PROVE  StreamInv'
<1>1. /\ AttachInv'
      /\ \A s \in Subscriber :
           Attached(s)' => Attached(s) /\ (home[s] = t => Len(ch[s]) # Room)
  BY PublishAttach DEF StreamInv
<1>2. PICK e : /\ e.n = published[t] + 1
               /\ \A s \in Subscriber :
                    ch'[s] = IF Attached(s) /\ home[s] = t /\ Len(ch[s]) # Room
                             THEN Append(ch[s], e) ELSE ch[s]
  BY PublishAttach DEF StreamInv
<1>3. /\ UNCHANGED <<replay, home, replays, upTo>>
      /\ published' = [published EXCEPT ![t] = @ + 1]
      /\ DOMAIN ch' = Subscriber
      /\ Room' = Room
  BY DEF Publish, Room
<1>4. RingsFit'
  <2> DEFINE m == IF replay = 0 THEN topics ELSE TopicLocked(t)
             next == m[t].next + 1
             x == [n |-> published[t] + 1, id |-> IF custom THEN Custom ELSE next]
             q0 == [m[t] EXCEPT !.next = next]
             q == Recorded(q0, x)
             after == [m EXCEPT ![t] = q]
             D == Dropped(q)
  <2>1. /\ topics' = IF D = {} THEN after ELSE Detached(after, t, D)
        /\ replay > 0 \/ t \in DOMAIN topics
    BY DEF Publish
  <2>2. replay \in Nat /\ RingsFit /\ AttachInv
    BY DEF StreamInv, StreamShape
  <2>3. t \in DOMAIN m
    BY <2>1, <2>2, TopicLockedKeeps
  <2>4. \A u \in DOMAIN m : Fit(m[u])
    <3>1. CASE replay = 0
      BY <2>2, <3>1 DEF RingsFit, Fit
    <3>2. CASE replay # 0
      BY <2>2, <3>2, TopicLockedRings
    <3> QED BY <3>1, <3>2
  <2> HIDE DEF m, next, x, D
  <2>5. {"next", "buf", "start"} \subseteq DOMAIN q0 /\ q0.buf = m[t].buf
    BY <2>3, <2>4 DEF Fit
  <2> HIDE DEF q0
  <2>6. Fit(q)
    BY <2>2, <2>3, <2>4, <2>5, RecordedFits DEF Fit
  <2> HIDE DEF q
  <2>7. \A u \in DOMAIN after : Fit(after[u])
    BY <2>4, <2>6
  <2>8. t \in DOMAIN after
    BY <2>3
  <2> HIDE DEF after
  <2>9. \A u \in DOMAIN Detached(after, t, D) : Fit(Detached(after, t, D)[u])
    BY <2>7, <2>8, DetachedRings
  <2>10. \A u \in DOMAIN topics' : Fit(topics'[u])
    BY <2>1, <2>7, <2>9
  <2> QED BY <1>3, <2>10 DEF RingsFit, Fit
<1>5. ASSUME NEW s \in Subscriber
      PROVE  /\ Queue(ch'[s]) /\ Len(ch'[s]) <= Room /\ replays[s] <= Len(ch'[s])
             /\ \A i \in DOMAIN ch'[s] :
                  i > replays[s] => ch'[s][i].n = upTo[s] + (i - replays[s])
             /\ Attached(s)' =>
                  published'[home[s]] + replays[s] = upTo[s] + Len(ch'[s])
  <2> DEFINE sent == Attached(s) /\ home[s] = t /\ Len(ch[s]) # Room
  <2>1. /\ Queue(ch[s]) /\ Len(ch[s]) <= Room /\ replays[s] <= Len(ch[s])
        /\ replays[s] \in Nat /\ upTo[s] \in Nat /\ Room \in Nat
        /\ published \in [Topic -> Nat] /\ home[s] \in Topic \cup {None}
        /\ \A i \in DOMAIN ch[s] :
             i > replays[s] => ch[s][i].n = upTo[s] + (i - replays[s])
        /\ Attached(s) => published[home[s]] + replays[s] = upTo[s] + Len(ch[s])
    BY RoomBounds DEF StreamInv, StreamShape, ChannelsFit, NoGaps, AttachInv, Shape
  <2>2. Len(ch[s]) \in Nat /\ DOMAIN ch[s] = 1..Len(ch[s])
    BY <2>1, QueueLen
  <2>3. CASE sent
    <3>1. ch'[s] = Append(ch[s], e)
      BY <1>2, <2>3
    <3>2. /\ Queue(ch'[s]) /\ Len(ch'[s]) = Len(ch[s]) + 1
          /\ \A i \in 1..Len(ch[s]) : ch'[s][i] = ch[s][i]
          /\ ch'[s][Len(ch[s]) + 1] = e
      BY <2>1, <3>1, QueueAppend
    <3>3. DOMAIN ch'[s] = 1..(Len(ch[s]) + 1)
      BY <3>2, QueueLen
    <3>4. published'[home[s]] = published[home[s]] + 1
      BY <1>3, <2>1, <2>3
    <3>5. e.n = upTo[s] + (Len(ch[s]) + 1 - replays[s])
      <4>1. published[t] \in Nat /\ published[t] + replays[s] = upTo[s] + Len(ch[s])
        BY <2>1, <2>3
      <4>2. e.n = published[t] + 1
        BY <1>2
      <4>3. replays[s] \in Nat /\ upTo[s] \in Nat /\ Len(ch[s]) \in Nat
        BY <2>1, <2>2
      <4> QED BY <4>1, <4>2, <4>3
    <3>6. \A i \in DOMAIN ch'[s] :
            i > replays[s] => ch'[s][i].n = upTo[s] + (i - replays[s])
      <4> SUFFICES ASSUME NEW i \in DOMAIN ch'[s], i > replays[s]
                   PROVE  ch'[s][i].n = upTo[s] + (i - replays[s])
        OBVIOUS
      <4>1. CASE i \in 1..Len(ch[s])
        <5>1. ch'[s][i] = ch[s][i] /\ i \in DOMAIN ch[s]
          BY <2>2, <3>2, <4>1
        <5>2. ch[s][i].n = upTo[s] + (i - replays[s])
          BY <2>1, <5>1
        <5> QED BY <5>1, <5>2
      <4>2. CASE i = Len(ch[s]) + 1
        <5>1. ch'[s][i] = e
          BY <3>2, <4>2
        <5>2. e.n = upTo[s] + (i - replays[s])
          <6>1. replays[s] \in Nat /\ upTo[s] \in Nat /\ Len(ch[s]) \in Nat
            BY <2>1, <2>2
          <6> QED BY <3>5, <4>2, <6>1
        <5> QED BY <5>1, <5>2
      <4> QED BY <2>2, <3>3, <4>1, <4>2
    <3>7. published[home[s]] \in Nat /\ published[home[s]] + replays[s] = upTo[s] + Len(ch[s])
      BY <2>1, <2>3
    <3>8. Len(ch'[s]) <= Room /\ replays[s] <= Len(ch'[s])
      BY <2>1, <2>2, <2>3, <3>2
    <3>9. published'[home[s]] + replays[s] = upTo[s] + Len(ch'[s])
      <4>1. /\ Len(ch'[s]) = Len(ch[s]) + 1 /\ replays[s] \in Nat /\ upTo[s] \in Nat
            /\ Len(ch[s]) \in Nat
        BY <2>1, <2>2, <3>2
      <4>2. (published[home[s]] + 1) + replays[s] = upTo[s] + (Len(ch[s]) + 1)
        <5>1. PICK p \in Nat, r \in Nat, u \in Nat, l \in Nat :
                p = published[home[s]] /\ r = replays[s] /\ u = upTo[s] /\ l = Len(ch[s])
          BY <3>7, <4>1
        <5>2. p + r = u + l
          BY <3>7, <5>1
        <5>3. (p + 1) + r = u + (l + 1)
          BY <5>2
        <5> QED BY <5>1, <5>3
      <4> QED BY <3>4, <4>1, <4>2
    <3> QED BY <3>2, <3>6, <3>8, <3>9
  <2>4. CASE ~sent
    <3>1. ch'[s] = ch[s]
      BY <1>2, <2>4
    <3>2. Attached(s)' => Attached(s) /\ home[s] # t
      BY <1>1, <2>4
    <3>3. home[s] # t => published'[home[s]] = published[home[s]]
      BY <1>3, <2>1
    <3> QED BY <2>1, <3>1, <3>2, <3>3
  <2> QED BY <2>3, <2>4
<1>6. published' \in [Topic -> Nat]
  BY <1>3 DEF StreamInv, StreamShape
<1>7. DOMAIN topics' \subseteq Topic
  BY PublishAttach DEF StreamInv, StreamShape
<1> QED BY <1>1, <1>3, <1>4, <1>5, <1>6, <1>7
        DEF StreamInv, StreamShape, ChannelsFit, NoGaps

LEMMA SubscribeStream ==
  ASSUME StreamInv, NEW s \in Subscriber, NEW t \in Topic, NEW last, Subscribe(s, t, last)
  PROVE  StreamInv'
<1> DEFINE m == TopicLocked(t)
           queue == Replayed(m[t], last)
<1>1. /\ topics' = [m EXCEPT ![t].subs = @ \cup {s}]
      /\ ch' = [ch EXCEPT ![s] = queue]
      /\ replays' = [replays EXCEPT ![s] = Len(queue)]
      /\ home' = [home EXCEPT ![s] = t]
      /\ upTo' = [upTo EXCEPT ![s] = published[t]]
      /\ UNCHANGED <<replay, published>>
      /\ Room' = Room
  BY DEF Subscribe, Room
<1>2. /\ AttachInv' /\ DOMAIN topics' \subseteq Topic
      /\ \A x \in Subscriber : Attached(x)' <=> Attached(x) \/ x = s
  BY SubscribeAttach DEF StreamInv, StreamShape
<1>3. \A u \in DOMAIN m : Fit(m[u])
  BY TopicLockedRings DEF StreamInv, StreamShape
<1>4. t \in DOMAIN m /\ \A u \in DOMAIN m : "subs" \in DOMAIN m[u]
  BY TopicLockedKeeps DEF StreamInv
<1>5. replay \in Nat /\ Room \in Nat /\ replay <= Room
  BY RoomBounds DEF StreamInv, StreamShape
<1> HIDE DEF m
<1>6. Queue(queue) /\ Len(queue) \in Nat /\ DOMAIN queue = 1..Len(queue) /\ Len(queue) <= Room
  <2>1. Queue(m[t].buf) /\ Len(m[t].buf) <= replay
    BY <1>3, <1>4 DEF Fit
  <2>2. Queue(queue) /\ Len(queue) <= Len(m[t].buf)
    BY <2>1, ReplayedFits
  <2>3. Len(queue) \in Nat /\ DOMAIN queue = 1..Len(queue) /\ Len(m[t].buf) \in Nat
    BY <2>1, <2>2, QueueLen
  <2> QED BY <1>5, <2>1, <2>2, <2>3
<1> HIDE DEF queue
<1>7. RingsFit'
  <2>1. /\ DOMAIN topics' = DOMAIN m
        /\ \A u \in DOMAIN m : /\ DOMAIN topics'[u] = DOMAIN m[u]
                               /\ topics'[u].buf = m[u].buf
    BY <1>1, <1>3, <1>4 DEF Fit
  <2> QED BY <1>1, <1>3, <2>1 DEF RingsFit, Fit
<1>8. ASSUME NEW x \in Subscriber
      PROVE  /\ Queue(ch'[x]) /\ Len(ch'[x]) <= Room /\ replays'[x] <= Len(ch'[x])
             /\ replays'[x] \in Nat /\ upTo'[x] \in Nat
             /\ \A i \in DOMAIN ch'[x] :
                  i > replays'[x] => ch'[x][i].n = upTo'[x] + (i - replays'[x])
             /\ Attached(x)' =>
                  published[home'[x]] + replays'[x] = upTo'[x] + Len(ch'[x])
  <2>1. CASE x = s
    <3>1. /\ ch'[x] = queue /\ replays'[x] = Len(queue) /\ upTo'[x] = published[t]
          /\ home'[x] = t
      BY <1>1, <2>1 DEF StreamInv, StreamShape, AttachInv, Shape
    <3>2. published[t] \in Nat
      BY DEF StreamInv, StreamShape
    <3>3. \A i \in DOMAIN queue : ~(i > Len(queue))
      BY <1>6
    <3> QED BY <1>6, <3>1, <3>2, <3>3
  <2>2. CASE x # s
    <3>1. /\ ch'[x] = ch[x] /\ replays'[x] = replays[x] /\ upTo'[x] = upTo[x]
          /\ home'[x] = home[x] /\ (Attached(x)' <=> Attached(x))
      BY <1>1, <1>2, <2>2 DEF StreamInv, StreamShape, AttachInv, Shape
    <3> QED BY <3>1 DEF StreamInv, StreamShape, ChannelsFit, NoGaps
  <2> QED BY <2>1, <2>2
<1>9. DOMAIN ch' = Subscriber /\ replays' \in [Subscriber -> Nat] /\ upTo' \in [Subscriber -> Nat]
  BY <1>1, <1>8 DEF StreamInv, StreamShape
<1> QED BY <1>1, <1>2, <1>7, <1>8, <1>9
        DEF StreamInv, StreamShape, ChannelsFit, NoGaps

(* The reader takes the next event, a replayed or a live one.              *)
LEMMA TakeStream ==
  ASSUME StreamInv, AttachInv', NEW s \in Subscriber, Take(s)
  PROVE  StreamInv'
<1>1. /\ ch[s] # <<>>
      /\ ch' = [ch EXCEPT ![s] = Tail(@)]
      /\ replays' = [replays EXCEPT ![s] = IF @ = 0 THEN 0 ELSE @ - 1]
      /\ upTo' = [upTo EXCEPT ![s] = IF replays[s] = 0 THEN Head(ch[s]).n ELSE @]
      /\ UNCHANGED <<replay, topics, home, published>>
      /\ Room' = Room
  BY DEF Take, hvars, Room
<1>2. \A x \in Subscriber : Attached(x)' <=> Attached(x)
  BY <1>1 DEF Attached
<1>3. Room \in Nat
  BY RoomBounds DEF StreamInv, StreamShape
<1>4. ASSUME NEW x \in Subscriber
      PROVE  /\ Queue(ch'[x]) /\ Len(ch'[x]) <= Room /\ replays'[x] <= Len(ch'[x])
             /\ replays'[x] \in Nat /\ upTo'[x] \in Nat
             /\ \A i \in DOMAIN ch'[x] :
                  i > replays'[x] => ch'[x][i].n = upTo'[x] + (i - replays'[x])
             /\ Attached(x)' =>
                  published[home[x]] + replays'[x] = upTo'[x] + Len(ch'[x])
  <2>1. /\ Queue(ch[x]) /\ Len(ch[x]) <= Room /\ replays[x] <= Len(ch[x])
        /\ replays[x] \in Nat /\ upTo[x] \in Nat
        /\ \A i \in DOMAIN ch[x] :
             i > replays[x] => ch[x][i].n = upTo[x] + (i - replays[x])
        /\ Attached(x) => published[home[x]] + replays[x] = upTo[x] + Len(ch[x])
    BY DEF StreamInv, StreamShape, ChannelsFit, NoGaps
  <2>2. Len(ch[x]) \in Nat /\ DOMAIN ch[x] = 1..Len(ch[x])
    BY <2>1, QueueLen
  <2>3. CASE x # s
    BY <1>1, <1>2, <2>1, <2>3 DEF StreamInv, StreamShape
  <2>4. CASE x = s
    <3>1. ch'[x] = Tail(ch[x])
      BY <1>1, <2>4 DEF StreamInv, StreamShape
    <3>2. /\ Queue(ch'[x]) /\ Len(ch[x]) > 0 /\ Len(ch'[x]) = Len(ch[x]) - 1
          /\ Head(ch[x]) = ch[x][1]
          /\ \A i \in 1..Len(ch'[x]) : ch'[x][i] = ch[x][i + 1]
      <4>1. ch[x] # <<>> /\ Queue(ch[x])
        BY <1>1, <2>1, <2>4
      <4> QED BY <3>1, <4>1, QueueTail
    <3>3. DOMAIN ch'[x] = 1..Len(ch'[x]) /\ Len(ch'[x]) \in Nat
      BY <3>2, QueueLen
    <3>4. CASE replays[x] = 0
      <4>1. replays'[x] = 0 /\ upTo'[x] = ch[x][1].n
        BY <1>1, <2>4, <3>2, <3>4 DEF StreamInv, StreamShape
      <4>2. ch[x][1].n = upTo[x] + 1
        BY <2>1, <2>2, <3>2, <3>4
      <4>3. upTo'[x] = upTo[x] + 1
        BY <4>1, <4>2
      <4>4. ASSUME NEW i \in DOMAIN ch'[x]
            PROVE  ch'[x][i].n = upTo'[x] + (i - replays'[x])
        <5>1. ch'[x][i] = ch[x][i + 1] /\ i + 1 \in DOMAIN ch[x] /\ i \in Nat /\ i + 1 > 0
          BY <2>2, <3>2, <3>3
        <5>2. ch[x][i + 1].n = upTo[x] + (i + 1)
          BY <2>1, <3>4, <5>1
        <5>3. upTo[x] \in Nat /\ replays'[x] = 0
          BY <2>1, <4>1
        <5>4. upTo[x] + (i + 1) = (upTo[x] + 1) + (i - 0)
          BY <5>1, <5>3
        <5> QED BY <4>3, <5>1, <5>2, <5>3, <5>4
      <4>5. Attached(x)' => published[home[x]] = upTo[x] + Len(ch[x])
        <5>1. Attached(x) => home[x] \in Topic /\ published[home[x]] \in Nat
          BY AttachedHome DEF StreamInv, StreamShape
        <5> QED BY <1>2, <2>1, <3>4, <5>1
      <4>6. Attached(x)' => published[home[x]] + replays'[x] = upTo'[x] + Len(ch'[x])
        <5>1. Attached(x) => home[x] \in Topic /\ published[home[x]] \in Nat
          BY AttachedHome DEF StreamInv, StreamShape
        <5>2. /\ Len(ch[x]) \in Nat /\ Len(ch'[x]) = Len(ch[x]) - 1 /\ upTo[x] \in Nat
          BY <2>1, <2>2, <3>2
        <5> QED BY <1>2, <4>1, <4>3, <4>5, <5>1, <5>2
      <4> QED BY <1>3, <2>1, <2>2, <3>2, <3>3, <4>1, <4>3, <4>4, <4>6
    <3>5. CASE replays[x] # 0
      <4>1. replays'[x] = replays[x] - 1 /\ upTo'[x] = upTo[x]
        BY <1>1, <2>4, <3>5 DEF StreamInv, StreamShape
      <4>2. ASSUME NEW i \in DOMAIN ch'[x], i > replays'[x]
            PROVE  ch'[x][i].n = upTo'[x] + (i - replays'[x])
        <5>1. /\ ch'[x][i] = ch[x][i + 1] /\ i + 1 \in DOMAIN ch[x] /\ i \in Nat
              /\ i + 1 > replays[x]
          BY <2>1, <2>2, <3>2, <3>3, <4>1, <4>2
        <5>2. ch[x][i + 1].n = upTo[x] + ((i + 1) - replays[x])
          BY <2>1, <5>1
        <5>3. (i + 1) - replays[x] = i - replays'[x]
          BY <2>1, <4>1, <5>1
        <5> QED BY <4>1, <5>1, <5>2, <5>3
      <4>3. Attached(x)' => published[home[x]] + replays'[x] = upTo'[x] + Len(ch'[x])
        <5>1. Attached(x) => home[x] \in Topic /\ published[home[x]] \in Nat
          BY AttachedHome DEF StreamInv, StreamShape
        <5>2. /\ Len(ch[x]) \in Nat /\ Len(ch'[x]) = Len(ch[x]) - 1
              /\ upTo[x] \in Nat /\ replays[x] \in Nat
              /\ Attached(x) => published[home[x]] + replays[x] = upTo[x] + Len(ch[x])
          BY <2>1, <2>2, <3>2
        <5>3. Attached(x) => published[home[x]] + (replays[x] - 1) = upTo[x] + (Len(ch[x]) - 1)
          <6> SUFFICES ASSUME Attached(x)
                       PROVE  published[home[x]] + (replays[x] - 1) = upTo[x] + (Len(ch[x]) - 1)
            OBVIOUS
          <6>1. PICK p \in Nat, r \in Nat, u \in Nat, l \in Nat :
                  p = published[home[x]] /\ r = replays[x] /\ u = upTo[x] /\ l = Len(ch[x])
            BY <5>1, <5>2
          <6>2. p + r = u + l
            BY <5>2, <6>1
          <6>3. p + (r - 1) = u + (l - 1)
            BY <6>2
          <6> QED BY <6>1, <6>3
        <5> QED BY <1>2, <4>1, <5>2, <5>3
      <4> QED BY <1>3, <2>1, <2>2, <3>2, <3>3, <3>5, <4>1, <4>2, <4>3
    <3> QED BY <3>4, <3>5
  <2> QED BY <2>3, <2>4
<1>5. DOMAIN ch' = Subscriber /\ replays' \in [Subscriber -> Nat] /\ upTo' \in [Subscriber -> Nat]
  BY <1>1, <1>4 DEF StreamInv, StreamShape
<1>6. RingsFit'
  BY <1>1 DEF StreamInv, StreamShape, RingsFit
<1> QED BY <1>1, <1>4, <1>5, <1>6 DEF StreamInv, StreamShape, ChannelsFit, NoGaps

(* Nothing new in the channels, and nobody new attached.                   *)
LEMMA FewerStream ==
  ASSUME StreamInv, AttachInv', UNCHANGED <<replay, published, home>>,
         DOMAIN topics' \subseteq Topic, RingsFit',
         NEW out \in SUBSET Subscriber,
         ch' = [s \in Subscriber |-> IF s \in out THEN <<>> ELSE ch[s]],
         replays' = [s \in Subscriber |-> IF s \in out THEN 0 ELSE replays[s]],
         upTo' = [s \in Subscriber |-> IF s \in out THEN 0 ELSE upTo[s]],
         \A s \in Subscriber : Attached(s)' => Attached(s) /\ s \notin out
  PROVE  StreamInv'
<1>1. Room' = Room /\ Room \in Nat
  BY RoomBounds DEF Room, StreamInv, StreamShape
<1>2. Queue(<<>>) /\ Len(<<>>) = 0 /\ DOMAIN <<>> = {}
  <2>1. <<>> \in Seq({}) /\ Len(<<>>) = 0 /\ DOMAIN <<>> = {}
    OBVIOUS
  <2> QED BY <2>1 DEF Queue
<1>3. ASSUME NEW s \in Subscriber
      PROVE  /\ Queue(ch'[s]) /\ Len(ch'[s]) <= Room /\ replays'[s] <= Len(ch'[s])
             /\ replays'[s] \in Nat /\ upTo'[s] \in Nat
             /\ \A i \in DOMAIN ch'[s] :
                  i > replays'[s] => ch'[s][i].n = upTo'[s] + (i - replays'[s])
             /\ Attached(s)' =>
                  published[home[s]] + replays'[s] = upTo'[s] + Len(ch'[s])
  <2>1. CASE s \in out
    <3>1. ch'[s] = <<>> /\ replays'[s] = 0 /\ upTo'[s] = 0 /\ ~Attached(s)'
      BY <2>1
    <3> QED BY <1>1, <1>2, <3>1
  <2>2. CASE s \notin out
    <3>1. ch'[s] = ch[s] /\ replays'[s] = replays[s] /\ upTo'[s] = upTo[s]
      BY <2>2
    <3> QED BY <3>1 DEF StreamInv, StreamShape, ChannelsFit, NoGaps
  <2> QED BY <2>1, <2>2
<1>4. DOMAIN ch' = Subscriber /\ replays' \in [Subscriber -> Nat] /\ upTo' \in [Subscriber -> Nat]
  BY <1>3
<1> QED BY <1>1, <1>3, <1>4 DEF StreamInv, StreamShape, ChannelsFit, NoGaps

LEMMA UnsubscribeStream ==
  ASSUME StreamInv, NEW s \in Subscriber, Unsubscribe(s)
  PROVE  StreamInv'
<1>1. /\ AttachInv' /\ DOMAIN topics' \subseteq Topic
      /\ \A x \in Subscriber : Attached(x)' <=> Attached(x) /\ x # s
  BY UnsubscribeAttach DEF StreamInv, StreamShape
<1>2. RingsFit'
  <2>1. \A u \in DOMAIN topics : Fit(topics[u])
    BY DEF StreamInv, StreamShape, RingsFit, Fit
  <2>2. UNCHANGED replay
    BY DEF Unsubscribe
  <2>3. CASE home[s] \in DOMAIN topics
    <3>1. topics' = Detached(topics, home[s], {s})
      BY <2>3 DEF Unsubscribe
    <3>2. \A u \in DOMAIN topics' : Fit(topics'[u])
      BY <2>1, <2>3, <3>1, DetachedRings
    <3> QED BY <2>2, <3>2 DEF RingsFit, Fit
  <2>4. CASE home[s] \notin DOMAIN topics
    <3>1. topics' = topics
      BY <2>4 DEF Unsubscribe
    <3> QED BY <2>1, <2>2, <3>1 DEF RingsFit, Fit
  <2> QED BY <2>3, <2>4
<1>3. /\ UNCHANGED <<replay, published, home>>
      /\ ch' = [x \in Subscriber |-> IF x \in {s} THEN <<>> ELSE ch[x]]
      /\ replays' = [x \in Subscriber |-> IF x \in {s} THEN 0 ELSE replays[x]]
      /\ upTo' = [x \in Subscriber |-> IF x \in {s} THEN 0 ELSE upTo[x]]
  BY DEF Unsubscribe, StreamInv, StreamShape
<1>4. \A x \in Subscriber : Attached(x)' => Attached(x) /\ x \notin {s}
  BY <1>1
<1> QED BY <1>1, <1>2, <1>3, <1>4, FewerStream

LEMMA QuietStream ==
  ASSUME StreamInv, AttachInv',
         \/ \E s \in Subscriber : SubscribeClosed(s) \/ Leave(s)
         \/ Close
         \/ UNCHANGED vars
  PROVE  StreamInv'
<1>1. /\ UNCHANGED <<replay, published, ch, replays, upTo, home>>
      /\ topics' \in {topics, <<>>}
  BY DEF SubscribeClosed, Leave, Close, vars, hvars, svars
<1>2. DOMAIN topics' \subseteq DOMAIN topics /\ \A u \in DOMAIN topics' : topics'[u] = topics[u]
  BY <1>1
<1>3. \A s \in Subscriber : Attached(s)' => Attached(s)
  BY <1>2 DEF Attached
<1>4. Room' = Room
  BY <1>1 DEF Room
<1>5. RingsFit'
  BY <1>1, <1>2 DEF StreamInv, StreamShape, RingsFit
<1>6. StreamShape'
  BY <1>1, <1>2, <1>5 DEF StreamInv, StreamShape
<1>7. NoGaps'
  BY <1>1, <1>3 DEF StreamInv, NoGaps
<1>8. ChannelsFit'
  BY <1>1, <1>4 DEF StreamInv, ChannelsFit
<1> QED BY <1>6, <1>7, <1>8 DEF StreamInv

LEMMA StreamInit == Init => StreamInv
<1> SUFFICES ASSUME Init PROVE StreamInv
  OBVIOUS
<1>1. AttachInv
  BY AttachInit
<1>2. replay \in Nat /\ Room \in Nat
  BY HubAssumption, RoomBounds DEF Init
<1>3. Queue(<<>>) /\ Len(<<>>) = 0 /\ DOMAIN <<>> = {}
  <2>1. <<>> \in Seq({}) /\ Len(<<>>) = 0 /\ DOMAIN <<>> = {}
    OBVIOUS
  <2> QED BY <2>1 DEF Queue
<1>4. \A s \in Subscriber : ch[s] = <<>> /\ replays[s] = 0 /\ upTo[s] = 0
  BY DEF Init
<1>5. topics = <<>> /\ DOMAIN topics = {}
  BY DEF Init
<1>6. StreamShape
  BY <1>2, <1>3, <1>4, <1>5 DEF Init, StreamShape, RingsFit
<1>7. NoGaps
  BY <1>3, <1>4, <1>5 DEF NoGaps, Attached
<1>8. ChannelsFit
  BY <1>2, <1>3, <1>4 DEF ChannelsFit
<1> QED BY <1>1, <1>6, <1>7, <1>8 DEF StreamInv

LEMMA StreamStep == StreamInv /\ [Next]_vars => StreamInv'
<1> SUFFICES ASSUME StreamInv, [Next]_vars PROVE StreamInv'
  OBVIOUS
<1>1. AttachInv /\ AttachInv'
  BY AttachStep DEF StreamInv
<1>2. ASSUME NEW t \in Topic, NEW custom \in BOOLEAN, Publish(t, custom) PROVE StreamInv'
  BY <1>2, PublishStream
<1>3. ASSUME NEW s \in Subscriber, NEW t \in Topic, NEW last, Subscribe(s, t, last)
      PROVE  StreamInv'
  BY <1>3, SubscribeStream
<1>4. ASSUME NEW s \in Subscriber, Deliver(s) \/ DeliverFails(s) PROVE StreamInv'
  BY <1>1, <1>4, TakeStream DEF Deliver, DeliverFails
<1>5. ASSUME NEW s \in Subscriber, Unsubscribe(s) PROVE StreamInv'
  BY <1>5, UnsubscribeStream
<1>6. CASE \/ \E s \in Subscriber : SubscribeClosed(s) \/ Disconnect(s) \/ SeeClosed(s)
           \/ Close
           \/ UNCHANGED vars
  BY <1>1, <1>6, QuietStream DEF Disconnect, SeeClosed
<1> QED BY <1>2, <1>3, <1>4, <1>5, <1>6 DEF Next, Serve

(* A slow subscriber is disconnected instead of silently missing events:   *)
(* what a channel holds of the live events follows without a gap on what   *)
(* its reader has taken, up to the last published while it is attached     *)
(* (Publish).                                                              *)
THEOREM LiveWithoutGaps == Spec => []NoGaps
<1>1. StreamInv => NoGaps
  BY DEF StreamInv
<1> QED BY <1>1, StreamInit, StreamStep, PTL DEF Spec

(* Subscribe sends the replay while it holds h.mu, on a channel nobody     *)
(* reads yet: it would block the hub for ever if a replay did not fit      *)
(* ("Replay fits: at most len(t.buf) <= replay <= cap(sub.ch)").           *)
THEOREM ReplayFits == Spec => []ChannelsFit
<1>1. StreamInv => ChannelsFit
  BY DEF StreamInv
<1> QED BY <1>1, StreamInit, StreamStep, PTL DEF Spec

-----------------------------------------------------------------------------
(* What the hub keeps for those who come back: the rings hold the latest   *)
(* events, the IDs in them grow with the events, and a client that         *)
(* connects again is sent exactly what it has missed.                      *)

-----------------------------------------------------------------------------
(* The ring.                                                               *)

LEMMA Wraps ==
  ASSUME NEW l \in Nat \ {0}, NEW x \in Nat, x < 2 * l
  PROVE  x % l = IF x < l THEN x ELSE x - l
OBVIOUS

LEMMA Slots ==
  ASSUME NEW l \in Nat \ {0}, NEW s \in Nat, s < l, NEW i \in 1..l
  PROVE  ((s + i - 1) % l) + 1 = IF s + i <= l THEN s + i ELSE s + i - l
<1>1. PICK x \in Nat : x = s + i - 1 /\ x < 2 * l
  OBVIOUS
<1>2. x % l = IF x < l THEN x ELSE x - l
  BY <1>1, Wraps
<1> QED BY <1>1, <1>2

(* The i-th oldest event.                                                  *)
At(q, i) == IF q.start + i <= Len(q.buf) THEN q.start + i ELSE q.start + i - Len(q.buf)

LEMMA RetainedAt ==
  ASSUME NEW q, Queue(q.buf), q.start \in Nat, q.start # 0 => q.start < Len(q.buf)
  PROVE  /\ DOMAIN Retained(q) = 1..Len(q.buf)
         /\ \A i \in 1..Len(q.buf) : /\ At(q, i) \in 1..Len(q.buf)
                                     /\ Retained(q)[i] = q.buf[At(q, i)]
<1>1. Len(q.buf) \in Nat
  BY QueueLen
<1>2. DOMAIN Retained(q) = 1..Len(q.buf)
  BY DEF Retained
<1>3. ASSUME NEW i \in 1..Len(q.buf)
      PROVE  At(q, i) \in 1..Len(q.buf) /\ Retained(q)[i] = q.buf[At(q, i)]
  <2>1. PICK l \in Nat \ {0}, s \in Nat : l = Len(q.buf) /\ s = q.start /\ s < l
    BY <1>1
  <2>4. ((s + i - 1) % l) + 1 = IF s + i <= l THEN s + i ELSE s + i - l
    BY <2>1, Slots
  <2>5. Retained(q)[i] = q.buf[((s + i - 1) % l) + 1]
    BY <2>1 DEF Retained
  <2>6. At(q, i) = IF s + i <= l THEN s + i ELSE s + i - l
    BY <2>1 DEF At
  <2>7. At(q, i) \in 1..Len(q.buf)
    BY <2>1, <2>6
  <2>8. ((s + i - 1) % l) + 1 = At(q, i)
    BY <2>4, <2>6
  <2> QED BY <2>5, <2>7, <2>8
<1> QED BY <1>2, <1>3

-----------------------------------------------------------------------------
(* The invariant.                                                          *)

HubTyped ==
  /\ replay \in ReplaySizes /\ maxTopics \in TopicCaps
  /\ \A t \in DOMAIN topics : topics[t] \in TopicRec
  /\ recent \in Seq(Topic)
  /\ closed \in BOOLEAN
  /\ ch \in [Subscriber -> Seq(Event)]
  /\ seen \in [Subscriber -> Event \cup {None}]
  /\ evicted \subseteq Topic

(* The ring q of a topic under whose name p events were published.         *)
Ring(q, p) ==
  /\ Len(q.buf) = IF q.next < replay THEN q.next ELSE replay
  /\ q.start # 0 => q.start < Len(q.buf) /\ Len(q.buf) = replay
  /\ \A i \in 1..Len(q.buf) : Retained(q)[i].n + Len(q.buf) = p + i

RingInv == \A t \in DOMAIN topics : Ring(topics[t], published[t])

(* As long as a topic was not evicted, its events are numbered as they     *)
(* were published, in the ring, in the channels and for the clients.       *)
Numbered(e) == e.id = Custom \/ e.id = e.n

NumberInv ==
  replay # 0 =>
    \A t \in Topic \ evicted :
      /\ ~closed => published[t] = IF t \in DOMAIN topics THEN topics[t].next ELSE 0
      /\ t \in DOMAIN topics => \A i \in DOMAIN topics[t].buf : Numbered(topics[t].buf[i])
      /\ \A s \in Subscriber :
           home[s] = t => /\ seen[s] # None => Numbered(seen[s])
                          /\ \A i \in DOMAIN ch[s] : Numbered(ch[s][i])

ReplayInv == HubTyped /\ RingInv /\ NumberInv

-----------------------------------------------------------------------------
(* Records of topics.                                                      *)

LEMMA RecFields ==
  ASSUME NEW q \in TopicRec
  PROVE  /\ q.next \in Nat /\ q.buf \in Seq(Event) /\ q.start \in Nat
         /\ q.subs \in SUBSET Subscriber
         /\ Queue(q.buf) /\ Len(q.buf) \in Nat /\ DOMAIN q.buf = 1..Len(q.buf)
         /\ \A i \in 1..Len(q.buf) : q.buf[i] \in Event
<1>1. /\ q.next \in Nat /\ q.buf \in Seq(Event) /\ q.start \in Nat
      /\ q.subs \in SUBSET Subscriber
  BY DEF TopicRec
<1> QED BY <1>1 DEF Queue

LEMMA RecSubs ==
  ASSUME NEW q \in TopicRec, NEW S \in SUBSET Subscriber
  PROVE  /\ [q EXCEPT !.subs = S] \in TopicRec
         /\ [q EXCEPT !.subs = S].next = q.next /\ [q EXCEPT !.subs = S].buf = q.buf
         /\ [q EXCEPT !.subs = S].start = q.start
BY DEF TopicRec

LEMMA RecNext ==
  ASSUME NEW q \in TopicRec
  PROVE  /\ [q EXCEPT !.next = q.next + 1] \in TopicRec
         /\ [q EXCEPT !.next = q.next + 1].next = q.next + 1
         /\ [q EXCEPT !.next = q.next + 1].buf = q.buf
         /\ [q EXCEPT !.next = q.next + 1].start = q.start
BY DEF TopicRec

LEMMA FreshRing ==
  /\ Fresh \in TopicRec /\ Fresh.buf = <<>> /\ Fresh.next = 0
  /\ \A p : replay \in Nat => Ring(Fresh, p)
<1>1. Fresh \in TopicRec /\ Fresh.buf = <<>> /\ Fresh.next = 0 /\ Fresh.start = 0
  BY DEF Fresh, TopicRec
<1>2. Len(<<>>) = 0
  OBVIOUS
<1> QED BY <1>1, <1>2 DEF Ring

(* A ring is what is in its three fields.                                  *)
LEMMA SameRing ==
  ASSUME NEW q, NEW r, NEW p, Ring(q, p),
         r.next = q.next, r.buf = q.buf, r.start = q.start
  PROVE  Ring(r, p)
BY DEF Ring, Retained

LEMMA SetSlot ==
  ASSUME NEW S, NEW b \in Seq(S), NEW k \in 1..Len(b), NEW e \in S
  PROVE  /\ [b EXCEPT ![k] = e] \in Seq(S) /\ Len([b EXCEPT ![k] = e]) = Len(b)
         /\ \A j \in 1..Len(b) : [b EXCEPT ![k] = e][j] = IF j = k THEN e ELSE b[j]
<1>1. b \in [1..Len(b) -> S] /\ Len(b) \in Nat
  OBVIOUS
<1>2. [b EXCEPT ![k] = e] = [j \in 1..Len(b) |-> IF j = k THEN e ELSE b[j]]
  BY <1>1
<1> DEFINE f == [j \in 1..Len(b) |-> IF j = k THEN e ELSE b[j]]
<1>3. \A j \in 1..Len(b) : (IF j = k THEN e ELSE b[j]) \in S
  BY <1>1
<1>4. f \in Seq(S) /\ Len(f) = Len(b)
  BY <1>1, <1>3
<1>5. \A j \in 1..Len(b) : f[j] = IF j = k THEN e ELSE b[j]
  OBVIOUS
<1> QED BY <1>2, <1>4, <1>5

(* The ways an event is written into a ring.                               *)
LEMMA RecordedCases ==
  ASSUME replay \in Nat \ {0}, NEW q \in TopicRec, NEW e \in Event
  PROVE  LET r == Recorded(q, e)
         IN  /\ r.next = q.next /\ r.subs = q.subs
             /\ Len(q.buf) < replay => r.buf = Append(q.buf, e) /\ r.start = q.start
             /\ ~(Len(q.buf) < replay) =>
                  /\ r.buf = [q.buf EXCEPT ![q.start + 1] = e]
                  /\ r.start = (q.start + 1) % Len(q.buf)
             /\ r = [next |-> q.next, buf |-> r.buf, start |-> r.start, subs |-> q.subs]
<1>1. /\ q = [next |-> q.next, buf |-> q.buf, start |-> q.start, subs |-> q.subs]
      /\ replay # 0
  BY DEF TopicRec
<1>2. CASE Len(q.buf) < replay
  <2>1. Recorded(q, e) = [q EXCEPT !.buf = Append(q.buf, e)]
    BY <1>1, <1>2 DEF Recorded, Fills
  <2>2. Recorded(q, e) =
          [next |-> q.next, buf |-> Append(q.buf, e), start |-> q.start, subs |-> q.subs]
    BY <1>1, <2>1
  <2> QED BY <1>2, <2>2
<1>3. CASE ~(Len(q.buf) < replay)
  <2> DEFINE b == [q.buf EXCEPT ![q.start + 1] = e]
             i == (q.start + 1) % Len(q.buf)
  <2>1. Recorded(q, e) = [q EXCEPT !.buf = b, !.start = i]
    BY <1>1, <1>3 DEF Recorded, Fills, AfterSlot
  <2> HIDE DEF b, i
  <2>2. Recorded(q, e) = [next |-> q.next, buf |-> b, start |-> i, subs |-> q.subs]
    BY <1>1, <2>1
  <2>3. /\ Recorded(q, e).next = q.next /\ Recorded(q, e).buf = b
        /\ Recorded(q, e).start = i /\ Recorded(q, e).subs = q.subs
    BY <2>2
  <2> QED BY <1>3, <2>2, <2>3 DEF b, i
<1> QED BY <1>2, <1>3

(* Writing the next event to a ring that holds the latest ones leaves it   *)
(* with the latest ones.                                                   *)
LEMMA RecordedRing ==
  ASSUME replay \in Nat \ {0}, NEW q0 \in TopicRec, NEW p \in Nat, Ring(q0, p),
         NEW e \in Event, e.n = p + 1
  PROVE  LET r == Recorded([q0 EXCEPT !.next = q0.next + 1], e)
         IN  /\ r \in TopicRec /\ r.next = q0.next + 1 /\ r.subs = q0.subs
             /\ r.buf # <<>> /\ Ring(r, p + 1)
             /\ \A i \in DOMAIN r.buf : r.buf[i] = e \/ \E k \in DOMAIN q0.buf : r.buf[i] = q0.buf[k]
<1> DEFINE q == [q0 EXCEPT !.next = q0.next + 1]
           r == Recorded(q, e)
<1>1. /\ q \in TopicRec /\ q.next = q0.next + 1 /\ q.buf = q0.buf /\ q.start = q0.start
      /\ q.subs = q0.subs
  BY RecNext DEF TopicRec
<1> HIDE DEF q
<1>2. /\ r.next = q0.next + 1 /\ r.subs = q0.subs
      /\ Len(q0.buf) < replay => r.buf = Append(q0.buf, e) /\ r.start = q0.start
      /\ ~(Len(q0.buf) < replay) =>
           /\ r.buf = [q0.buf EXCEPT ![q0.start + 1] = e]
           /\ r.start = (q0.start + 1) % Len(q0.buf)
      /\ r = [next |-> q0.next + 1, buf |-> r.buf, start |-> r.start, subs |-> q0.subs]
  BY <1>1, RecordedCases
<1> HIDE DEF r
<1>3. /\ q0.next \in Nat /\ q0.buf \in Seq(Event) /\ q0.start \in Nat
      /\ q0.subs \in SUBSET Subscriber /\ Queue(q0.buf)
  BY RecFields
<1>4. PICK l \in Nat, s \in Nat, n \in Nat, R \in Nat \ {0} :
        l = Len(q0.buf) /\ s = q0.start /\ n = q0.next /\ R = replay
  BY <1>3
<1>5. /\ l = IF n < R THEN n ELSE R
      /\ s # 0 => s < l /\ l = R
  BY <1>4 DEF Ring
<1>6. DOMAIN q0.buf = 1..l /\ \A i \in 1..l : q0.buf[i] \in Event /\ q0.buf[i].n \in Nat
  <2>1. DOMAIN q0.buf = 1..l /\ \A i \in 1..l : q0.buf[i] \in Event
    BY <1>4, RecFields
  <2> QED BY <2>1 DEF Event
<1>7. \A i \in 1..l : /\ At(q0, i) = IF s + i <= l THEN s + i ELSE s + i - l
                      /\ q0.buf[At(q0, i)].n + l = p + i
  <2>1. \A i \in 1..l : Retained(q0)[i] = q0.buf[At(q0, i)]
    BY <1>3, <1>4, <1>5, RetainedAt
  <2> QED BY <1>4, <2>1 DEF Ring, At
<1>8. CASE l < R
  <2>1. s = 0 /\ l = n
    BY <1>5, <1>8
  <2>2. r.buf = Append(q0.buf, e) /\ r.start = 0
    BY <1>2, <1>4, <1>8, <2>1
  <2>3. /\ r.buf \in Seq(Event) /\ Len(r.buf) = l + 1 /\ DOMAIN r.buf = 1..(l + 1)
        /\ \A i \in 1..l : r.buf[i] = q0.buf[i]
        /\ r.buf[l + 1] = e
    BY <1>3, <1>4, <2>2
  <2>4. r \in TopicRec
    <3>1. r.start \in Nat /\ r.buf \in Seq(Event) /\ q0.next + 1 \in Nat
      BY <1>3, <2>2, <2>3
    <3> QED BY <1>2, <1>3, <3>1 DEF TopicRec
  <2>5. \A i \in 1..(l + 1) : Retained(r)[i] = r.buf[i]
    <3>1. Queue(r.buf) /\ r.start \in Nat /\ (r.start # 0 => r.start < Len(r.buf))
      BY <2>2, <2>3 DEF Queue
    <3>2. \A i \in 1..Len(r.buf) : Retained(r)[i] = r.buf[At(r, i)]
      BY <3>1, RetainedAt
    <3>3. \A i \in 1..(l + 1) : At(r, i) = i
      BY <2>2, <2>3 DEF At
    <3> QED BY <2>3, <3>2, <3>3
  <2>6. \A i \in 1..(l + 1) : r.buf[i].n + (l + 1) = (p + 1) + i
    <3> SUFFICES ASSUME NEW i \in 1..(l + 1) PROVE r.buf[i].n + (l + 1) = (p + 1) + i
      OBVIOUS
    <3>1. CASE i = l + 1
      BY <2>3, <3>1
    <3>2. CASE i \in 1..l
      <4>1. At(q0, i) = i
        BY <1>7, <2>1, <3>2
      <4>2. PICK x \in Nat : x = q0.buf[i].n
        BY <1>6, <3>2
      <4>3. x + l = p + i
        BY <1>7, <3>2, <4>1, <4>2
      <4>4. x + (l + 1) = (p + 1) + i
        BY <4>3
      <4> QED BY <2>3, <3>2, <4>2, <4>4
    <3> QED BY <3>1, <3>2
  <2>7. Len(r.buf) = IF r.next < replay THEN r.next ELSE replay
    BY <1>2, <1>4, <1>8, <2>1, <2>3
  <2>8. Ring(r, p + 1)
    <3>1. \A i \in 1..Len(r.buf) : Retained(r)[i].n + Len(r.buf) = (p + 1) + i
      BY <2>3, <2>5, <2>6
    <3> QED BY <2>2, <2>7, <3>1 DEF Ring
  <2>9. r.buf # <<>>
    BY <2>3
  <2>10. \A i \in DOMAIN r.buf : r.buf[i] = e \/ \E k \in DOMAIN q0.buf : r.buf[i] = q0.buf[k]
    BY <1>6, <2>3
  <2> QED BY <1>1, <1>2, <2>4, <2>8, <2>9, <2>10 DEF r, q
<1>9. CASE ~(l < R)
  <2>1. l = R /\ ~(n < R) /\ s < l
    BY <1>5, <1>9
  <2>2. /\ r.buf = [q0.buf EXCEPT ![s + 1] = e] /\ r.start = (s + 1) % l
    BY <1>2, <1>4, <1>9
  <2>3. s + 1 \in 1..l
    BY <2>1
  <2>4. /\ r.buf \in Seq(Event) /\ Len(r.buf) = l
        /\ \A i \in 1..l : r.buf[i] = IF i = s + 1 THEN e ELSE q0.buf[i]
    BY <1>3, <1>4, <2>2, <2>3, SetSlot
  <2>5. DOMAIN r.buf = 1..l /\ Queue(r.buf)
    BY <2>4 DEF Queue
  <2>6. r.start = IF s + 1 < l THEN s + 1 ELSE 0
    <3>1. PICK x \in Nat : x = s + 1 /\ x < 2 * l
      BY <2>1
    <3>2. x % l = IF x < l THEN x ELSE x - l
      BY <2>1, <3>1, Wraps
    <3> QED BY <2>1, <2>2, <3>1, <3>2
  <2>7. r \in TopicRec
    BY <1>2, <1>3, <2>4, <2>6 DEF TopicRec
  <2>8. \A i \in 1..l : Retained(r)[i] = r.buf[At(r, i)] /\ At(r, i) \in 1..l
    <3>1. r.start \in Nat /\ r.start < Len(r.buf)
      BY <2>1, <2>4, <2>6
    <3> QED BY <2>4, <2>5, <3>1, RetainedAt
  <2>9. \A i \in 1..l : At(r, i) = IF r.start + i <= l THEN r.start + i ELSE r.start + i - l
    BY <2>4 DEF At
  <2>10. \A i \in 1..l : Retained(r)[i].n + l = (p + 1) + i
    <3> SUFFICES ASSUME NEW i \in 1..l PROVE Retained(r)[i].n + l = (p + 1) + i
      OBVIOUS
    <3>1. CASE i = l
      <4>1. At(r, i) = s + 1
        BY <2>1, <2>6, <2>9, <3>1
      <4>2. Retained(r)[i] = e
        BY <2>3, <2>4, <2>8, <4>1
      <4> QED BY <3>1, <4>2
    <3>2. CASE i < l
      <4>1. i + 1 \in 1..l
        BY <3>2
      <4>2. At(r, i) = At(q0, i + 1) /\ At(r, i) # s + 1
        BY <1>7, <2>1, <2>6, <2>9, <3>2, <4>1
      <4>3. Retained(r)[i] = q0.buf[At(q0, i + 1)]
        BY <2>4, <2>8, <4>2
      <4>4. PICK x \in Nat : x = Retained(r)[i].n
        BY <1>6, <2>8, <4>2, <4>3
      <4>5. x + l = p + (i + 1)
        BY <1>7, <4>1, <4>3, <4>4
      <4>6. x + l = (p + 1) + i
        BY <4>5
      <4> QED BY <4>4, <4>6
    <3> QED BY <2>1, <3>1, <3>2
  <2>11. Len(r.buf) = IF r.next < replay THEN r.next ELSE replay
    BY <1>2, <1>4, <2>1, <2>4
  <2>12. Ring(r, p + 1)
    BY <1>4, <2>1, <2>4, <2>6, <2>10, <2>11 DEF Ring
  <2>13. r.buf # <<>>
    BY <2>1, <2>4
  <2>14. \A i \in DOMAIN r.buf : r.buf[i] = e \/ \E k \in DOMAIN q0.buf : r.buf[i] = q0.buf[k]
    BY <1>6, <2>4, <2>5
  <2> QED BY <1>1, <1>2, <2>7, <2>12, <2>13, <2>14 DEF r, q
<1> QED BY <1>8, <1>9

-----------------------------------------------------------------------------
(* A replay.                                                               *)

Missed(q, last) ==
  {i \in 1..Len(q.buf) : last # None /\ AfterLastID(Retained(q)[i].id, last.id)}

(* What Subscribe sends is what the ring retains of the events after the   *)
(* last one: all of it, and nothing else.                                  *)
LEMMA ReplayedIs ==
  ASSUME NEW q \in TopicRec, q.start # 0 => q.start < Len(q.buf), NEW last
  PROVE  /\ Replayed(q, last) \in Seq(Event)
         /\ \A k \in DOMAIN Replayed(q, last) :
              \E i \in Missed(q, last) : Replayed(q, last)[k] = Retained(q)[i]
         /\ \A i \in Missed(q, last) :
              \E k \in DOMAIN Replayed(q, last) : Replayed(q, last)[k] = Retained(q)[i]
<1> DEFINE K == Missed(q, last)
           R == Retained(q)
<1>1. Queue(q.buf) /\ q.start \in Nat /\ Len(q.buf) \in Nat
      /\ \A i \in 1..Len(q.buf) : q.buf[i] \in Event
  BY RecFields
<1>2. \A i \in 1..Len(q.buf) : R[i] \in Event
  BY <1>1, RetainedAt
<1>3. Replayed(q, last) = [k \in 1..Cardinality(K) |-> R[Nth(K, k)]]
  BY DEF Replayed, Picked, Missed
<1>4. K \in SUBSET (1..Len(q.buf))
  BY DEF Missed
<1> HIDE DEF K, R
<1>5. /\ Cardinality(K) \in Nat
      /\ \A k \in 1..Cardinality(K) : Nth(K, k) \in K
      /\ \A i \in K : OrderIn(K, i) \in 1..Cardinality(K) /\ Nth(K, OrderIn(K, i)) = i
  BY <1>1, <1>4, NthExists
<1>6. \A k \in 1..Cardinality(K) : R[Nth(K, k)] \in Event
  BY <1>2, <1>4, <1>5
<1>7. Replayed(q, last) \in Seq(Event) /\ DOMAIN Replayed(q, last) = 1..Cardinality(K)
  BY <1>3, <1>5, <1>6
<1>8. \A k \in 1..Cardinality(K) : Replayed(q, last)[k] = R[Nth(K, k)]
  BY <1>3
<1>9. \A i \in K : Replayed(q, last)[OrderIn(K, i)] = R[i]
  BY <1>5, <1>8
<1>10. \A k \in DOMAIN Replayed(q, last) : \E i \in K : Replayed(q, last)[k] = R[i]
  BY <1>5, <1>7, <1>8
<1>11. \A i \in K : \E k \in DOMAIN Replayed(q, last) : Replayed(q, last)[k] = R[i]
  BY <1>5, <1>7, <1>9
<1> QED BY <1>7, <1>10, <1>11 DEF K, R

-----------------------------------------------------------------------------
(* Topics that come and go.                                                *)

SameBuffer(q, r) == q.next = r.next /\ q.buf = r.buf /\ q.start = r.start

LEMMA DetachedRecs ==
  ASSUME NEW m, NEW t \in DOMAIN m, NEW gone, \A u \in DOMAIN m : m[u] \in TopicRec
  PROVE  /\ \A u \in DOMAIN Detached(m, t, gone) :
              /\ u \in DOMAIN m /\ Detached(m, t, gone)[u] \in TopicRec
              /\ SameBuffer(Detached(m, t, gone)[u], m[u])
         /\ \A u \in DOMAIN m : u \notin DOMAIN Detached(m, t, gone) =>
              u = t /\ (replay = 0 \/ m[t].buf = <<>>)
<1> DEFINE left == m[t].subs \ gone
           keep == left # {} \/ (replay # 0 /\ m[t].buf # <<>>)
           D == IF keep THEN DOMAIN m ELSE DOMAIN m \ {t}
           q == [m[t] EXCEPT !.subs = left]
<1>1. Detached(m, t, gone) = [u \in D |-> IF u = t THEN q ELSE m[u]]
  BY DEF Detached
<1>2. left \in SUBSET Subscriber
  BY RecFields
<1>3. D \subseteq DOMAIN m
      /\ \A u \in DOMAIN m : u \notin D => u = t /\ (replay = 0 \/ m[t].buf = <<>>)
  OBVIOUS
<1> HIDE DEF left
<1>4. q \in TopicRec /\ SameBuffer(q, m[t])
  BY <1>2, RecSubs DEF SameBuffer
<1> HIDE DEF keep, D, q
<1>5. \A u \in D : Detached(m, t, gone)[u] = IF u = t THEN q ELSE m[u]
  BY <1>1
<1>6. DOMAIN Detached(m, t, gone) = D
  BY <1>1
<1> QED BY <1>3, <1>4, <1>5, <1>6 DEF SameBuffer

LEMMA LockedRecs ==
  ASSUME HubTyped, NEW t \in Topic
  PROVE  /\ Evicts(t) \subseteq DOMAIN topics
         /\ t \in DOMAIN TopicLocked(t)
         /\ \A u \in DOMAIN TopicLocked(t) :
              /\ TopicLocked(t)[u] \in TopicRec
              /\ TopicLocked(t)[u] = IF u \in DOMAIN topics THEN topics[u] ELSE Fresh
              /\ u # t => u \in DOMAIN topics
         /\ \A u \in DOMAIN topics : u \in DOMAIN TopicLocked(t) \/ u \in Evicts(t)
BY FreshRing DEF TopicLocked, Evicts, Victim, Evictable, HubTyped

Numbers(t) == IF t \in DOMAIN topics THEN topics[t].next ELSE 0

(* What Publish does to the topics and the channels, as far as the events  *)
(* are concerned.                                                          *)
LEMMA PublishEvents ==
  ASSUME StreamInv, HubTyped, RingInv,
         NEW t \in Topic, NEW custom \in BOOLEAN, Publish(t, custom)
  PROVE  \E e \in Event :
           /\ e.n = published[t] + 1 /\ (e.id = Custom \/ e.id = Numbers(t) + 1)
           /\ \A u \in DOMAIN topics' :
                /\ topics'[u] \in TopicRec
                /\ u # t => u \in DOMAIN topics /\ SameBuffer(topics'[u], topics[u])
                /\ u = t => /\ topics'[u].next = Numbers(t) + 1
                            /\ Ring(topics'[u], published[t] + 1)
                            /\ \A i \in DOMAIN topics'[u].buf :
                                 \/ topics'[u].buf[i] = e
                                 \/ /\ u \in DOMAIN topics
                                    /\ \E k \in DOMAIN topics[u].buf :
                                         topics'[u].buf[i] = topics[u].buf[k]
           /\ replay # 0 => /\ t \in DOMAIN topics'
                            /\ \A u \in DOMAIN topics : u \in DOMAIN topics' \/ u \in Evicts(t)
           /\ \A s \in Subscriber :
                ch'[s] = ch[s] \/ (home[s] = t /\ ch'[s] = Append(ch[s], e))
<1> DEFINE m == IF replay = 0 THEN topics ELSE TopicLocked(t)
           next == m[t].next + 1
           e == [n |-> published[t] + 1, id |-> IF custom THEN Custom ELSE next]
           q0 == m[t]
           q == Recorded([m[t] EXCEPT !.next = next], e)
           after == [m EXCEPT ![t] = q]
           D == Dropped(q)
<1>1. /\ topics' = IF D = {} THEN after ELSE Detached(after, t, D)
      /\ replay > 0 \/ t \in DOMAIN topics
      /\ ch' = [s \in Subscriber |->
                  IF s \in q.subs \ Full(q) THEN Append(ch[s], e) ELSE ch[s]]
  BY DEF Publish
<1>2. replay \in Nat /\ published[t] \in Nat /\ AttachInv
  BY DEF StreamInv, StreamShape
<1>3. /\ t \in DOMAIN m
      /\ \A u \in DOMAIN m : /\ m[u] \in TopicRec /\ (u # t => u \in DOMAIN topics)
                             /\ m[u] = IF u \in DOMAIN topics THEN topics[u] ELSE Fresh
      /\ \A u \in DOMAIN topics : replay # 0 => u \in DOMAIN m \/ u \in Evicts(t)
  <2>1. CASE replay = 0
    BY <1>1, <2>1 DEF HubTyped
  <2>2. CASE replay # 0
    BY <2>2, LockedRecs
  <2> QED BY <2>1, <2>2
<1>4. \A s \in m[t].subs : home[s] = t
  <2>1. CASE replay = 0
    BY <1>1, <1>2, <2>1 DEF AttachInv, AttachedWhileOpen
  <2>2. CASE replay # 0
    BY <1>2, <1>3, <2>2, TopicLockedKeeps
  <2> QED BY <2>1, <2>2
<1> HIDE DEF m
<1>5. q0 \in TopicRec /\ q0.next = Numbers(t) /\ Numbers(t) \in Nat /\ Ring(q0, published[t])
  <2>1. CASE t \in DOMAIN topics
    BY <1>3, <2>1, RecFields DEF Numbers, RingInv
  <2>2. CASE t \notin DOMAIN topics
    BY <1>2, <1>3, <2>2, FreshRing DEF Numbers
  <2> QED BY <2>1, <2>2
<1>6. e \in Event /\ e.n = published[t] + 1 /\ (e.id = Custom \/ e.id = Numbers(t) + 1)
  BY <1>2, <1>5 DEF Event
<1>7. q = Recorded([q0 EXCEPT !.next = q0.next + 1], e)
  OBVIOUS
<1>8. t \notin DOMAIN topics => DOMAIN q0.buf = {}
  BY <1>3, FreshRing
<1> HIDE DEF e, next, q0
<1>9. /\ q \in TopicRec /\ q.next = q0.next + 1 /\ q.subs = q0.subs
      /\ (replay # 0 => q.buf # <<>>) /\ Ring(q, published[t] + 1)
      /\ \A i \in DOMAIN q.buf : q.buf[i] = e \/ \E k \in DOMAIN q0.buf : q.buf[i] = q0.buf[k]
  <2> HIDE DEF q
  <2>1. CASE replay = 0
    <3>1. q = [q0 EXCEPT !.next = q0.next + 1]
      BY <1>7, <2>1 DEF Recorded
    <3>2. q \in TopicRec /\ q.next = q0.next + 1 /\ q.buf = q0.buf /\ q.start = q0.start
          /\ q.subs = q0.subs
      BY <1>5, <3>1, RecNext DEF TopicRec
    <3>3. Len(q0.buf) = 0 /\ q0.start = 0
      <4>1. q0.next \in Nat /\ q0.start \in Nat
        BY <1>5, RecFields
      <4>2. Len(q0.buf) = 0
        BY <1>5, <2>1, <4>1 DEF Ring
      <4> QED BY <1>5, <4>1, <4>2 DEF Ring
    <3>4. Ring(q, published[t] + 1)
      <4>1. q.next \in Nat /\ Len(q.buf) = 0
        BY <3>2, <3>3, RecFields
      <4> QED BY <2>1, <3>2, <3>3, <4>1 DEF Ring
    <3> QED BY <2>1, <3>2, <3>4
  <2>2. CASE replay # 0
    BY <1>2, <1>5, <1>6, <1>7, <2>2, RecordedRing
  <2> QED BY <2>1, <2>2
<1> HIDE DEF q, D
<1>10. /\ DOMAIN after = DOMAIN m /\ after[t] = q
       /\ \A u \in DOMAIN m : u # t => after[u] = m[u]
  BY <1>3
<1> HIDE DEF after
<1>11. /\ \A u \in DOMAIN topics' :
            /\ u \in DOMAIN m /\ topics'[u] \in TopicRec /\ SameBuffer(topics'[u], after[u])
       /\ \A u \in DOMAIN m : replay # 0 => u \in DOMAIN topics'
  <2>1. \A u \in DOMAIN after : after[u] \in TopicRec
    BY <1>3, <1>9, <1>10
  <2>2. CASE D = {}
    BY <1>1, <1>10, <2>1, <2>2 DEF SameBuffer
  <2>3. CASE D # {}
    <3>1. topics' = Detached(after, t, D)
      BY <1>1, <2>3
    <3>2. t \in DOMAIN after
      BY <1>3, <1>10
    <3>3. /\ \A u \in DOMAIN Detached(after, t, D) :
               /\ u \in DOMAIN after /\ Detached(after, t, D)[u] \in TopicRec
               /\ SameBuffer(Detached(after, t, D)[u], after[u])
          /\ \A u \in DOMAIN after : u \notin DOMAIN Detached(after, t, D) =>
               u = t /\ (replay = 0 \/ after[t].buf = <<>>)
      BY <2>1, <3>2, DetachedRecs
    <3> QED BY <1>9, <1>10, <3>1, <3>3
  <2> QED BY <2>2, <2>3
<1>12. ASSUME NEW u \in DOMAIN topics', u # t
       PROVE  u \in DOMAIN topics /\ SameBuffer(topics'[u], topics[u])
  BY <1>3, <1>10, <1>11, <1>12
<1>13. ASSUME t \in DOMAIN topics'
       PROVE  /\ topics'[t].next = Numbers(t) + 1 /\ Ring(topics'[t], published[t] + 1)
              /\ \A i \in DOMAIN topics'[t].buf :
                   \/ topics'[t].buf[i] = e
                   \/ /\ t \in DOMAIN topics
                      /\ \E k \in DOMAIN topics[t].buf : topics'[t].buf[i] = topics[t].buf[k]
  <2>1. SameBuffer(topics'[t], q)
    BY <1>10, <1>11, <1>13
  <2>2. Ring(topics'[t], published[t] + 1)
    BY <1>9, <2>1, SameRing DEF SameBuffer
  <2>3. t \in DOMAIN topics => q0 = topics[t]
    BY <1>3 DEF q0
  <2>4. \A i \in DOMAIN topics'[t].buf :
          \/ topics'[t].buf[i] = e
          \/ /\ t \in DOMAIN topics
             /\ \E k \in DOMAIN topics[t].buf : topics'[t].buf[i] = topics[t].buf[k]
    BY <1>8, <1>9, <2>1, <2>3 DEF SameBuffer
  <2> QED BY <1>5, <1>9, <2>1, <2>2, <2>4 DEF SameBuffer
<1>14. \A s \in Subscriber : ch'[s] = ch[s] \/ (home[s] = t /\ ch'[s] = Append(ch[s], e))
  <2>1. \A s \in q.subs : home[s] = t
    BY <1>4, <1>9 DEF q0
  <2> QED BY <1>1, <2>1
<1>15. replay # 0 => /\ t \in DOMAIN topics'
                     /\ \A u \in DOMAIN topics : u \in DOMAIN topics' \/ u \in Evicts(t)
  BY <1>3, <1>11
<1>16. ASSUME NEW u \in DOMAIN topics'
       PROVE  /\ topics'[u] \in TopicRec
              /\ u # t => u \in DOMAIN topics /\ SameBuffer(topics'[u], topics[u])
              /\ u = t => /\ topics'[u].next = Numbers(t) + 1 /\ Ring(topics'[u], published[t] + 1)
                         /\ \A i \in DOMAIN topics'[u].buf :
                              \/ topics'[u].buf[i] = e
                              \/ /\ u \in DOMAIN topics
                                 /\ \E k \in DOMAIN topics[u].buf : topics'[u].buf[i] = topics[u].buf[k]
  <2>1. topics'[u] \in TopicRec
    BY <1>11
  <2>2. CASE u # t
    BY <1>12, <2>1, <2>2
  <2>3. CASE u = t
    BY <1>13, <2>1, <2>3
  <2> QED BY <2>2, <2>3
<1> QED BY <1>6, <1>14, <1>15, <1>16

-----------------------------------------------------------------------------
(* The steps.                                                              *)

LEMMA TouchedTyped ==
  ASSUME recent \in Seq(Topic), NEW t \in Topic
  PROVE  Touched(t) \in Seq(Topic)
<1>1. Others(t) \in Seq(Topic)
  <2>1. CASE \E i \in DOMAIN recent : recent[i] = t
    <3>1. Place(t) \in DOMAIN recent
      BY <2>1 DEF Place
    <3>2. PICK i \in 1..Len(recent) : i = Place(t)
      BY <3>1
    <3>3. /\ SubSeq(recent, 1, i - 1) \in Seq(Topic)
          /\ SubSeq(recent, i + 1, Len(recent)) \in Seq(Topic)
      OBVIOUS
    <3> QED BY <2>1, <3>2, <3>3 DEF Others
  <2>2. CASE ~ \E i \in DOMAIN recent : recent[i] = t
    BY <2>2 DEF Others
  <2> QED BY <2>1, <2>2
<1> QED BY <1>1 DEF Touched

LEMMA RingNext ==
  ASSUME UNCHANGED replay, \A u \in DOMAIN topics' : Ring(topics'[u], published'[u])
  PROVE  RingInv'
BY DEF RingInv, Ring, Retained

LEMMA PublishReplay ==
  ASSUME StreamInv, ReplayInv, NEW t \in Topic, NEW custom \in BOOLEAN, Publish(t, custom)
  PROVE  ReplayInv'
<1> USE DEF ReplayInv
<1>1. /\ ~closed /\ UNCHANGED <<replay, maxTopics, closed, home, seen>>
      /\ published' = [published EXCEPT ![t] = @ + 1]
      /\ DOMAIN ch' = Subscriber
      /\ IF replay = 0 THEN UNCHANGED <<recent, evicted>>
         ELSE recent' = Touched(t) /\ evicted' = evicted \cup Evicts(t)
  BY DEF Publish
<1>2. PICK e \in Event :
        /\ e.n = published[t] + 1 /\ (e.id = Custom \/ e.id = Numbers(t) + 1)
        /\ \A u \in DOMAIN topics' :
             /\ topics'[u] \in TopicRec
             /\ u # t => u \in DOMAIN topics /\ SameBuffer(topics'[u], topics[u])
             /\ u = t => /\ topics'[u].next = Numbers(t) + 1
                         /\ Ring(topics'[u], published[t] + 1)
                         /\ \A i \in DOMAIN topics'[u].buf :
                              \/ topics'[u].buf[i] = e
                              \/ /\ u \in DOMAIN topics
                                 /\ \E k \in DOMAIN topics[u].buf :
                                      topics'[u].buf[i] = topics[u].buf[k]
        /\ replay # 0 => /\ t \in DOMAIN topics'
                         /\ \A u \in DOMAIN topics : u \in DOMAIN topics' \/ u \in Evicts(t)
        /\ \A s \in Subscriber :
             ch'[s] = ch[s] \/ (home[s] = t /\ ch'[s] = Append(ch[s], e))
  BY PublishEvents
<1>3. /\ ch \in [Subscriber -> Seq(Event)] /\ published \in [Topic -> Nat]
      /\ DOMAIN topics \subseteq Topic /\ evicted \subseteq Topic
  BY DEF HubTyped, StreamInv, StreamShape
<1>4. HubTyped'
  <2>1. ASSUME NEW s \in Subscriber PROVE ch'[s] \in Seq(Event)
    <3>1. ch[s] \in Seq(Event) /\ Append(ch[s], e) \in Seq(Event)
      BY <1>3
    <3> QED BY <1>2, <3>1
  <2>2. ch' \in [Subscriber -> Seq(Event)]
    <3>1. ch' = [s \in Subscriber |-> ch'[s]]
      BY DEF Publish
    <3> QED BY <2>1, <3>1
  <2>3. recent' \in Seq(Topic) /\ evicted' \subseteq Topic
    BY <1>1, <1>3, TouchedTyped, LockedRecs DEF HubTyped
  <2>4. \A u \in DOMAIN topics' : topics'[u] \in TopicRec
    BY <1>2
  <2> QED BY <1>1, <2>2, <2>3, <2>4 DEF HubTyped
<1>5. RingInv'
  <2> SUFFICES ASSUME NEW u \in DOMAIN topics' PROVE Ring(topics'[u], published'[u])
    BY <1>1, RingNext
  <2>1. Ring(topics'[u], published'[u])
    <3>1. CASE u = t
      BY <1>1, <1>2, <1>3, <3>1
    <3>2. CASE u # t
      <4>1. u \in DOMAIN topics /\ SameBuffer(topics'[u], topics[u])
        BY <1>2, <3>2
      <4>2. Ring(topics[u], published[u]) /\ published'[u] = published[u]
        BY <1>1, <1>3, <3>2, <4>1 DEF RingInv
      <4> QED BY <4>1, <4>2, SameRing DEF SameBuffer
    <3> QED BY <3>1, <3>2
  <2> QED BY <2>1
<1>6. NumberInv'
  <2> SUFFICES ASSUME replay # 0, NEW u \in Topic, u \notin evicted'
               PROVE  /\ published'[u] = IF u \in DOMAIN topics' THEN topics'[u].next ELSE 0
                      /\ u \in DOMAIN topics' =>
                           \A i \in DOMAIN topics'[u].buf : Numbered(topics'[u].buf[i])
                      /\ \A s \in Subscriber : home[s] = u =>
                           /\ seen[s] # None => Numbered(seen[s])
                           /\ \A i \in DOMAIN ch'[s] : Numbered(ch'[s][i])
    BY <1>1 DEF NumberInv, Numbered
  <2>1. /\ u \notin evicted /\ u \notin Evicts(t)
    BY <1>1
  <2>2. /\ published[u] = Numbers(u)
        /\ u \in DOMAIN topics => \A i \in DOMAIN topics[u].buf : Numbered(topics[u].buf[i])
        /\ \A s \in Subscriber : home[s] = u =>
             /\ seen[s] # None => Numbered(seen[s])
             /\ \A i \in DOMAIN ch[s] : Numbered(ch[s][i])
    BY <1>1, <2>1 DEF NumberInv, Numbers
  <2>3. u = t => Numbered(e)
    BY <1>2, <2>2 DEF Numbered
  <2>4. published'[u] = IF u \in DOMAIN topics' THEN topics'[u].next ELSE 0
    <3>1. CASE u = t
      BY <1>1, <1>2, <1>3, <2>2, <3>1
    <3>2. CASE u # t
      <4>1. u \in DOMAIN topics <=> u \in DOMAIN topics'
        BY <1>2, <2>1, <3>2
      <4> QED BY <1>1, <1>2, <1>3, <2>2, <3>2, <4>1 DEF Numbers, SameBuffer
    <3> QED BY <3>1, <3>2
  <2>5. u \in DOMAIN topics' => \A i \in DOMAIN topics'[u].buf : Numbered(topics'[u].buf[i])
    <3>1. CASE u = t
      BY <1>2, <2>2, <2>3, <3>1
    <3>2. CASE u # t
      BY <1>2, <2>2, <3>2 DEF SameBuffer
    <3> QED BY <3>1, <3>2
  <2>6. ASSUME NEW s \in Subscriber, home[s] = u
        PROVE  \A i \in DOMAIN ch'[s] : Numbered(ch'[s][i])
    <3>1. CASE ch'[s] = ch[s]
      BY <2>2, <2>6, <3>1
    <3>2. CASE u = t /\ ch'[s] = Append(ch[s], e)
      <4>1. \A i \in DOMAIN ch'[s] : ch'[s][i] = e \/ (i \in DOMAIN ch[s] /\ ch'[s][i] = ch[s][i])
        BY <1>3, <3>2
      <4> QED BY <2>2, <2>3, <2>6, <3>2, <4>1
    <3> QED BY <1>2, <2>6, <3>1, <3>2
  <2> QED BY <2>2, <2>4, <2>5, <2>6
<1> QED BY <1>4, <1>5, <1>6

(* The topic a subscriber finds, and what is replayed to it.               *)
LEMMA SubscribeFinds ==
  ASSUME StreamInv, ReplayInv, NEW t \in Topic
  PROVE  LET q == TopicLocked(t)[t]
         IN  /\ q \in TopicRec /\ Ring(q, published[t])
             /\ q.start # 0 => q.start < Len(q.buf)
             /\ q.next = Numbers(t)
             /\ t \in DOMAIN topics => q = topics[t]
             /\ replay # 0 /\ t \notin evicted =>
                  \A i \in DOMAIN Retained(q) : Numbered(Retained(q)[i])
             /\ replay = 0 => DOMAIN Retained(q) = {}
<1> DEFINE q == TopicLocked(t)[t]
<1>1. q \in TopicRec /\ q = IF t \in DOMAIN topics THEN topics[t] ELSE Fresh
  BY LockedRecs DEF ReplayInv
<1>2. Ring(q, published[t]) /\ q.next = Numbers(t)
      /\ (t \notin DOMAIN topics => q.buf = <<>>)
  BY <1>1, FreshRing DEF ReplayInv, RingInv, Numbers, StreamInv, StreamShape
<1> HIDE DEF q
<1>3. q.start # 0 => q.start < Len(q.buf)
  BY <1>2 DEF Ring
<1>4. /\ DOMAIN Retained(q) = 1..Len(q.buf) /\ DOMAIN q.buf = 1..Len(q.buf)
      /\ \A i \in 1..Len(q.buf) : At(q, i) \in 1..Len(q.buf) /\ Retained(q)[i] = q.buf[At(q, i)]
  <2>1. Queue(q.buf) /\ q.start \in Nat /\ DOMAIN q.buf = 1..Len(q.buf)
    BY <1>1, RecFields
  <2> QED BY <1>3, <2>1, RetainedAt
<1>5. ASSUME replay # 0, t \notin evicted, t \in DOMAIN topics
      PROVE  \A i \in DOMAIN q.buf : Numbered(q.buf[i])
  BY <1>1, <1>5 DEF ReplayInv, NumberInv
<1>6. t \notin DOMAIN topics => Len(q.buf) = 0
  BY <1>2
<1>7. replay = 0 => Len(q.buf) = 0
  <2>1. q.next \in Nat
    BY <1>1, RecFields
  <2> QED BY <1>2, <2>1 DEF Ring
<1>8. ASSUME replay # 0, t \notin evicted
      PROVE  \A i \in DOMAIN Retained(q) : Numbered(Retained(q)[i])
  BY <1>4, <1>5, <1>6, <1>8
<1> QED BY <1>1, <1>2, <1>3, <1>4, <1>7, <1>8 DEF q

LEMMA LastNumbered ==
  ASSUME ReplayInv, NEW t \in Topic, NEW last \in LastSeen(t)
  PROVE  /\ last \in Event \cup {None}
         /\ replay # 0 /\ t \notin evicted /\ last # None => Numbered(last)
<1>1. Zero \in Event /\ Numbered(Zero)
  BY DEF Zero, Event, Numbered
<1> QED BY <1>1 DEF LastSeen, ReplayInv, HubTyped, NumberInv

LEMMA SubscribeReplay ==
  ASSUME StreamInv, ReplayInv, NEW s \in Subscriber, NEW t \in Topic,
         NEW last \in LastSeen(t), Subscribe(s, t, last)
  PROVE  ReplayInv'
<1> DEFINE m == TopicLocked(t)
           queue == Replayed(m[t], last)
<1>1. /\ ~closed /\ UNCHANGED <<replay, maxTopics, closed, published>>
      /\ topics' = [m EXCEPT ![t].subs = @ \cup {s}]
      /\ ch' = [ch EXCEPT ![s] = queue]
      /\ recent' = Touched(t)
      /\ evicted' = evicted \cup Evicts(t)
      /\ home' = [home EXCEPT ![s] = t]
      /\ seen' = [seen EXCEPT ![s] = last]
  BY DEF Subscribe
<1>2. /\ HubTyped /\ RingInv /\ NumberInv /\ published \in [Topic -> Nat]
      /\ DOMAIN topics \subseteq Topic
      /\ home \in [Subscriber -> Topic \cup {None}]
  BY DEF ReplayInv, StreamInv, StreamShape, AttachInv, Shape
<1>3. /\ t \in DOMAIN m /\ Evicts(t) \subseteq DOMAIN topics
      /\ \A u \in DOMAIN m : /\ m[u] \in TopicRec /\ (u # t => u \in DOMAIN topics)
                             /\ m[u] = IF u \in DOMAIN topics THEN topics[u] ELSE Fresh
      /\ \A u \in DOMAIN topics : u \in DOMAIN m \/ u \in Evicts(t)
  BY <1>2, LockedRecs
<1>4. /\ m[t] \in TopicRec /\ Ring(m[t], published[t]) /\ m[t].next = Numbers(t)
      /\ (m[t].start # 0 => m[t].start < Len(m[t].buf))
      /\ replay # 0 /\ t \notin evicted =>
           \A i \in DOMAIN Retained(m[t]) : Numbered(Retained(m[t])[i])
  BY SubscribeFinds
<1> HIDE DEF m
<1>5. /\ queue \in Seq(Event)
      /\ \A k \in DOMAIN queue : \E i \in Missed(m[t], last) : queue[k] = Retained(m[t])[i]
  BY <1>4, ReplayedIs
<1>6. replay # 0 /\ t \notin evicted => \A k \in DOMAIN queue : Numbered(queue[k])
  BY <1>4, <1>5 DEF Missed, Retained
<1>7. /\ last \in Event \cup {None}
      /\ replay # 0 /\ t \notin evicted /\ last # None => Numbered(last)
  BY LastNumbered
<1> HIDE DEF queue
<1>8. /\ DOMAIN topics' = DOMAIN m
      /\ \A u \in DOMAIN m : topics'[u] \in TopicRec /\ SameBuffer(topics'[u], m[u])
  <2> DEFINE subs == m[t].subs \cup {s}
             q == [m[t] EXCEPT !.subs = subs]
  <2>1. topics' = [m EXCEPT ![t] = q]
    BY <1>1, <1>3
  <2>2. subs \in SUBSET Subscriber
    BY <1>4, RecFields
  <2> HIDE DEF subs
  <2>3. q \in TopicRec /\ SameBuffer(q, m[t])
    BY <1>4, <2>2, RecSubs DEF SameBuffer
  <2> HIDE DEF q
  <2> QED BY <1>3, <2>1, <2>3 DEF SameBuffer
<1>9. HubTyped'
  <2>1. ch' \in [Subscriber -> Seq(Event)] /\ seen' \in [Subscriber -> Event \cup {None}]
    BY <1>1, <1>2, <1>5, <1>7 DEF HubTyped
  <2>2. recent' \in Seq(Topic) /\ evicted' \subseteq Topic
    BY <1>1, <1>2, <1>3, TouchedTyped DEF HubTyped
  <2> QED BY <1>1, <1>2, <1>8, <2>1, <2>2 DEF HubTyped
<1>10. RingInv'
  <2> SUFFICES ASSUME NEW u \in DOMAIN topics' PROVE Ring(topics'[u], published'[u])
    BY <1>1, RingNext
  <2>1. Ring(m[u], published[u])
    BY <1>2, <1>3, <1>4, <1>8 DEF RingInv
  <2>2. Ring(topics'[u], published[u])
    BY <1>8, <2>1, SameRing DEF SameBuffer
  <2> QED BY <1>1, <2>2
<1>11. NumberInv'
  <2> SUFFICES ASSUME replay # 0, NEW u \in Topic, u \notin evicted'
               PROVE  /\ published[u] = IF u \in DOMAIN topics' THEN topics'[u].next ELSE 0
                      /\ u \in DOMAIN topics' =>
                           \A i \in DOMAIN topics'[u].buf : Numbered(topics'[u].buf[i])
                      /\ \A x \in Subscriber : home'[x] = u =>
                           /\ seen'[x] # None => Numbered(seen'[x])
                           /\ \A i \in DOMAIN ch'[x] : Numbered(ch'[x][i])
    BY <1>1 DEF NumberInv, Numbered
  <2>1. u \notin evicted /\ u \notin Evicts(t)
    BY <1>1
  <2>2. /\ published[u] = Numbers(u)
        /\ u \in DOMAIN topics => \A i \in DOMAIN topics[u].buf : Numbered(topics[u].buf[i])
        /\ \A x \in Subscriber : home[x] = u =>
             /\ seen[x] # None => Numbered(seen[x])
             /\ \A i \in DOMAIN ch[x] : Numbered(ch[x][i])
    BY <1>1, <1>2, <2>1 DEF NumberInv, Numbers
  <2>3. published[u] = IF u \in DOMAIN topics' THEN topics'[u].next ELSE 0
    BY <1>3, <1>4, <1>8, <2>1, <2>2 DEF Numbers, SameBuffer
  <2>4. ASSUME u \in DOMAIN topics', NEW i \in DOMAIN topics'[u].buf
        PROVE  Numbered(topics'[u].buf[i])
    <3>1. topics'[u].buf = m[u].buf
      BY <1>8, <2>4 DEF SameBuffer
    <3>2. u \notin DOMAIN topics => DOMAIN m[u].buf = {}
      BY <1>3, <1>8, <2>4, FreshRing
    <3> QED BY <1>3, <1>8, <2>2, <2>4, <3>1, <3>2
  <2>5. ASSUME NEW x \in Subscriber, home'[x] = u
        PROVE  /\ seen'[x] # None => Numbered(seen'[x])
               /\ \A i \in DOMAIN ch'[x] : Numbered(ch'[x][i])
    <3>1. CASE x = s
      <4>1. u = t /\ ch'[x] = queue /\ seen'[x] = last
        BY <1>1, <1>2, <2>5, <3>1 DEF HubTyped
      <4> QED BY <1>6, <1>7, <2>1, <4>1
    <3>2. CASE x # s
      <4>1. home[x] = u /\ ch'[x] = ch[x] /\ seen'[x] = seen[x]
        BY <1>1, <1>2, <2>5, <3>2 DEF HubTyped
      <4> QED BY <2>2, <4>1
    <3> QED BY <3>1, <3>2
  <2> QED BY <2>3, <2>4, <2>5
<1> QED BY <1>9, <1>10, <1>11 DEF ReplayInv

(* The reader takes an event, and its client may have received it.         *)
LEMMA TakeReplay ==
  ASSUME StreamInv, ReplayInv, NEW s \in Subscriber, Take(s),
         seen' \in {seen, [seen EXCEPT ![s] = Head(ch[s])]}
  PROVE  ReplayInv'
<1>1. /\ ch[s] # <<>> /\ ch' = [ch EXCEPT ![s] = Tail(@)]
      /\ UNCHANGED <<replay, maxTopics, topics, recent, closed, home, published, evicted>>
  BY DEF Take, hvars
<1>2. /\ HubTyped /\ RingInv /\ NumberInv
      /\ ch \in [Subscriber -> Seq(Event)] /\ seen \in [Subscriber -> Event \cup {None}]
  BY DEF ReplayInv, HubTyped
<1>3. /\ Tail(ch[s]) \in Seq(Event) /\ Head(ch[s]) = ch[s][1] /\ 1 \in DOMAIN ch[s]
      /\ ch[s][1] \in Event
      /\ \A i \in DOMAIN Tail(ch[s]) : i + 1 \in DOMAIN ch[s] /\ Tail(ch[s])[i] = ch[s][i + 1]
  <2>1. PICK q \in Seq(Event) : q = ch[s] /\ q # <<>>
    BY <1>1, <1>2
  <2> QED BY <2>1
<1>4. HubTyped'
  <2>1. ch' \in [Subscriber -> Seq(Event)] /\ seen' \in [Subscriber -> Event \cup {None}]
    BY <1>1, <1>2, <1>3
  <2> QED BY <1>1, <1>2, <2>1 DEF HubTyped
<1>5. RingInv'
  BY <1>1, <1>2, RingNext DEF RingInv
<1>6. NumberInv'
  <2> SUFFICES ASSUME replay # 0, NEW u \in Topic, u \notin evicted,
                      NEW x \in Subscriber, home[x] = u
               PROVE  /\ seen'[x] # None => Numbered(seen'[x])
                      /\ \A i \in DOMAIN ch'[x] : Numbered(ch'[x][i])
    BY <1>1, <1>2 DEF NumberInv, Numbered
  <2>1. /\ seen[x] # None => Numbered(seen[x])
        /\ \A i \in DOMAIN ch[x] : Numbered(ch[x][i])
    BY <1>2 DEF NumberInv
  <2>2. CASE x = s
    <3>1. ch'[x] = Tail(ch[s]) /\ (seen'[x] = seen[x] \/ seen'[x] = ch[s][1])
      BY <1>1, <1>2, <1>3, <2>2
    <3> QED BY <1>3, <2>1, <2>2, <3>1
  <2>3. CASE x # s
    <3>1. ch'[x] = ch[x] /\ seen'[x] = seen[x]
      BY <1>1, <1>2, <2>3
    <3> QED BY <2>1, <3>1
  <2> QED BY <2>2, <2>3
<1> QED BY <1>4, <1>5, <1>6 DEF ReplayInv

(* A topic disappears with its last subscriber only if it is as good as    *)
(* new.                                                                    *)
LEMMA UnsubscribeReplay ==
  ASSUME StreamInv, ReplayInv, NEW s \in Subscriber, Unsubscribe(s)
  PROVE  ReplayInv'
<1>1. /\ ch' = [ch EXCEPT ![s] = <<>>]
      /\ topics' = IF home[s] \in DOMAIN topics THEN Detached(topics, home[s], {s})
                                                ELSE topics
      /\ UNCHANGED <<replay, maxTopics, recent, closed, home, published, seen, evicted>>
  BY DEF Unsubscribe
<1>2. /\ HubTyped /\ RingInv /\ NumberInv
      /\ ch \in [Subscriber -> Seq(Event)] /\ replay \in Nat
      /\ \A t \in DOMAIN topics : topics[t] \in TopicRec
  BY DEF ReplayInv, HubTyped, StreamInv, StreamShape
<1>3. /\ \A u \in DOMAIN topics' :
           /\ u \in DOMAIN topics /\ topics'[u] \in TopicRec
           /\ SameBuffer(topics'[u], topics[u])
      /\ \A u \in DOMAIN topics : u \notin DOMAIN topics' =>
           replay = 0 \/ topics[u].buf = <<>>
  <2>1. CASE home[s] \in DOMAIN topics
    <3>1. PICK t \in DOMAIN topics, gone \in {{s}} : t = home[s] /\ gone = {s}
      BY <2>1
    <3>2. topics' = Detached(topics, t, gone)
      BY <1>1, <3>1
    <3> QED BY <1>2, <3>2, DetachedRecs
  <2>2. CASE home[s] \notin DOMAIN topics
    BY <1>1, <1>2, <2>2 DEF SameBuffer
  <2> QED BY <2>1, <2>2
<1>4. HubTyped'
  <2>1. <<>> \in Seq(Event)
    OBVIOUS
  <2>2. ch' \in [Subscriber -> Seq(Event)]
    BY <1>1, <1>2, <2>1
  <2> QED BY <1>1, <1>2, <1>3, <2>2 DEF HubTyped
<1>5. RingInv'
  <2> SUFFICES ASSUME NEW u \in DOMAIN topics' PROVE Ring(topics'[u], published'[u])
    BY <1>1, RingNext
  <2>1. Ring(topics[u], published[u])
    BY <1>2, <1>3 DEF RingInv
  <2> QED BY <1>1, <1>3, <2>1, SameRing DEF SameBuffer
<1>6. ASSUME replay # 0, NEW u \in DOMAIN topics, u \notin DOMAIN topics'
      PROVE  topics[u].next = 0
  <2>1. topics[u].buf = <<>> /\ Ring(topics[u], published[u]) /\ topics[u].next \in Nat
    BY <1>2, <1>3, <1>6, RecFields DEF RingInv
  <2>2. Len(topics[u].buf) = 0
    BY <2>1
  <2> QED BY <1>2, <1>6, <2>1, <2>2 DEF Ring
<1>7. NumberInv'
  <2>0. UNCHANGED <<replay, closed, home, published, seen, evicted>>
    BY <1>1
  <2> SUFFICES ASSUME replay # 0, NEW u \in Topic, u \notin evicted
               PROVE  /\ ~closed => published[u] = IF u \in DOMAIN topics' THEN topics'[u].next ELSE 0
                      /\ u \in DOMAIN topics' =>
                           \A i \in DOMAIN topics'[u].buf : Numbered(topics'[u].buf[i])
                      /\ \A x \in Subscriber : home[x] = u =>
                           /\ seen[x] # None => Numbered(seen[x])
                           /\ \A i \in DOMAIN ch'[x] : Numbered(ch'[x][i])
    BY <2>0, Zenon DEF NumberInv, Numbered
  <2>1. /\ ~closed => published[u] = IF u \in DOMAIN topics THEN topics[u].next ELSE 0
        /\ u \in DOMAIN topics => \A i \in DOMAIN topics[u].buf : Numbered(topics[u].buf[i])
        /\ \A x \in Subscriber : home[x] = u =>
             /\ seen[x] # None => Numbered(seen[x])
             /\ \A i \in DOMAIN ch[x] : Numbered(ch[x][i])
    BY <1>2 DEF NumberInv
  <2>2. \A x \in Subscriber : ch'[x] = ch[x] \/ DOMAIN ch'[x] = {}
    BY <1>1, <1>2
  <2>3. u \in DOMAIN topics' => \A i \in DOMAIN topics'[u].buf : Numbered(topics'[u].buf[i])
    BY <1>3, <2>1 DEF SameBuffer
  <2>4. ~closed => published[u] = IF u \in DOMAIN topics' THEN topics'[u].next ELSE 0
    BY <1>3, <1>6, <2>1 DEF SameBuffer
  <2>5. ASSUME NEW x \in Subscriber, home[x] = u
        PROVE  \A i \in DOMAIN ch'[x] : Numbered(ch'[x][i])
    BY <2>1, <2>2, <2>5
  <2> QED BY <2>1, <2>3, <2>4, <2>5
<1> QED BY <1>4, <1>5, <1>7 DEF ReplayInv

LEMMA QuietReplay ==
  ASSUME ReplayInv,
         \/ \E s \in Subscriber : SubscribeClosed(s) \/ Leave(s)
         \/ Close
         \/ UNCHANGED vars
  PROVE  ReplayInv'
<1>1. /\ UNCHANGED <<replay, maxTopics, recent, ch, home, published, seen, evicted>>
      /\ (UNCHANGED <<topics, closed>> \/ (topics' = <<>> /\ closed' = TRUE))
  BY DEF SubscribeClosed, Leave, Close, vars, hvars, svars
<1>2. DOMAIN <<>> = {}
  OBVIOUS
<1>3. HubTyped'
  BY <1>1, <1>2 DEF ReplayInv, HubTyped
<1>4. RingInv'
  BY <1>1, <1>2, RingNext DEF ReplayInv, RingInv
<1>5. NumberInv'
  BY <1>1, <1>2 DEF ReplayInv, NumberInv, Numbered
<1> QED BY <1>3, <1>4, <1>5 DEF ReplayInv

LEMMA ReplayInit == Init => ReplayInv
<1> SUFFICES ASSUME Init PROVE ReplayInv
  OBVIOUS
<1>1. DOMAIN topics = {} /\ topics = <<>> /\ recent = <<>>
  BY DEF Init
<1>2. <<>> \in Seq(Topic) /\ <<>> \in Seq(Event) /\ DOMAIN <<>> = {}
  OBVIOUS
<1>3. HubTyped
  BY <1>1, <1>2 DEF Init, HubTyped
<1>4. NumberInv
  BY <1>1, <1>2 DEF Init, NumberInv
<1> QED BY <1>1, <1>3, <1>4 DEF ReplayInv, RingInv

LEMMA ReplayStep == StreamInv /\ ReplayInv /\ [Next]_vars => ReplayInv'
<1> SUFFICES ASSUME StreamInv, ReplayInv, [Next]_vars PROVE ReplayInv'
  OBVIOUS
<1>1. ASSUME NEW t \in Topic, NEW custom \in BOOLEAN, Publish(t, custom) PROVE ReplayInv'
  BY <1>1, PublishReplay
<1>2. ASSUME NEW s \in Subscriber, NEW t \in Topic, NEW last \in LastSeen(t),
             Subscribe(s, t, last)
      PROVE  ReplayInv'
  BY <1>2, SubscribeReplay
<1>3. ASSUME NEW s \in Subscriber, Deliver(s) \/ DeliverFails(s) PROVE ReplayInv'
  <2>1. Take(s) /\ seen' \in {seen, [seen EXCEPT ![s] = Head(ch[s])]}
    BY <1>3 DEF Deliver, DeliverFails
  <2> QED BY <2>1, TakeReplay
<1>4. ASSUME NEW s \in Subscriber, Unsubscribe(s) PROVE ReplayInv'
  BY <1>4, UnsubscribeReplay
<1>5. CASE \/ \E s \in Subscriber : SubscribeClosed(s) \/ Disconnect(s) \/ SeeClosed(s)
           \/ Close
           \/ UNCHANGED vars
  BY <1>5, QuietReplay DEF Disconnect, SeeClosed
<1> QED BY <1>1, <1>2, <1>3, <1>4, <1>5 DEF Next, Serve

LEMMA ReplayInvariance == Spec => [](StreamInv /\ ReplayInv)
BY StreamInit, StreamStep, ReplayInit, ReplayStep, PTL DEF Spec

-----------------------------------------------------------------------------
(* Every reachable state of the hub is well typed: no ring outgrows the    *)
(* replay size and no send goes past the room of a channel (Publish,       *)
(* Subscribe).                                                             *)
THEOREM HubTypeCorrect == Spec => []TypeOK
<1>1. StreamInv /\ ReplayInv => TypeOK
  <2> SUFFICES ASSUME StreamInv, ReplayInv PROVE TypeOK
    OBVIOUS
  <2>1. /\ pc \in [Subscriber -> {"new", "reading", "leaving", "gone"}]
        /\ home \in [Subscriber -> Topic \cup {None}] /\ shut \subseteq Subscriber
    BY DEF StreamInv, AttachInv, Shape
  <2>2. \A t \in DOMAIN topics : topics[t] \in TopicRec /\ Len(topics[t].buf) <= replay
    BY DEF ReplayInv, HubTyped, StreamInv, StreamShape, RingsFit
  <2>3. \A s \in Subscriber : Len(ch[s]) <= Room
    BY DEF StreamInv, ChannelsFit
  <2>4. /\ DOMAIN topics \subseteq Topic /\ published \in [Topic -> Nat]
        /\ replays \in [Subscriber -> Nat] /\ upTo \in [Subscriber -> Nat]
    BY DEF StreamInv, StreamShape
  <2>5. HubTyped
    BY DEF ReplayInv
  <2> QED BY <2>1, <2>2, <2>3, <2>4, <2>5 DEF HubTyped, TypeOK
<1> QED BY <1>1, ReplayInvariance, PTL

(* The ring of a topic always holds the latest events published under its  *)
(* name, oldest first, wherever the ring starts and however often the      *)
(* topic was evicted and created again (Publish).                          *)
THEOREM RingIsLatest == Spec => []RingKeepsLatest
<1>1. ReplayInv => RingKeepsLatest
  BY DEF ReplayInv, RingInv, Ring, RingKeepsLatest
<1> QED BY <1>1, ReplayInvariance, PTL

(* A connection that succeeds is a Subscribe step.                         *)
LEMMA SubscribedBy ==
  ASSUME StreamInv, [Next]_vars, NEW s \in Subscriber, Subscribed(s)
  PROVE  \E t \in Topic : \E last \in LastSeen(t) : Subscribe(s, t, last)
<1>1. pc[s] = "new" /\ pc'[s] = "reading" /\ ~closed
  BY DEF Subscribed
<1>2. DOMAIN pc = Subscriber
  BY DEF StreamInv, AttachInv, Shape
<1>3. ASSUME NEW x \in Subscriber,
             \/ SubscribeClosed(x) \/ Serve(x) \/ DeliverFails(x) \/ Disconnect(x)
      PROVE  FALSE
  BY <1>1, <1>2, <1>3 DEF SubscribeClosed, Serve, Deliver, DeliverFails, Take, Disconnect,
     SeeClosed, Leave, Unsubscribe
<1>4. ASSUME NEW x \in Subscriber, NEW t \in Topic, NEW last \in LastSeen(t),
             Subscribe(x, t, last)
      PROVE  x = s
  BY <1>1, <1>2, <1>4 DEF Subscribe
<1>5. ASSUME NEW t \in Topic, NEW custom \in BOOLEAN, Publish(t, custom) PROVE FALSE
  BY <1>1, <1>5 DEF Publish
<1>6. ~Close /\ ~UNCHANGED vars
  BY <1>1 DEF Close, vars, svars
<1> QED BY <1>3, <1>4, <1>5, <1>6 DEF Next

LEMMA ExactStep ==
  ASSUME StreamInv, ReplayInv, NEW s \in Subscriber, NEW t \in Topic,
         NEW last \in LastSeen(t), Subscribe(s, t, last), t \notin evicted
  PROVE  Complete(s) /\ NoRepeat(s)
<1> DEFINE q == TopicLocked(t)[t]
           queue == Replayed(q, last)
<1>1. ch'[s] = queue /\ home'[s] = t /\ seen'[s] = last
  BY DEF Subscribe, StreamInv, StreamShape, AttachInv, Shape, ReplayInv, HubTyped
<1>2. /\ q \in TopicRec /\ (q.start # 0 => q.start < Len(q.buf))
      /\ t \in DOMAIN topics => q = topics[t]
      /\ replay # 0 => \A i \in DOMAIN Retained(q) : Numbered(Retained(q)[i])
      /\ replay = 0 => DOMAIN Retained(q) = {}
  BY SubscribeFinds
<1>3. last \in Event \cup {None} /\ (replay # 0 /\ last # None => Numbered(last))
  BY LastNumbered
<1> HIDE DEF q
<1>4. /\ \A k \in DOMAIN queue : \E i \in Missed(q, last) : queue[k] = Retained(q)[i]
      /\ \A i \in Missed(q, last) : \E k \in DOMAIN queue : queue[k] = Retained(q)[i]
  BY <1>2, ReplayedIs
<1> HIDE DEF queue
<1>5. DOMAIN Retained(q) = 1..Len(q.buf) /\ \A i \in DOMAIN Retained(q) : Retained(q)[i] \in Event
  <2>1. /\ Queue(q.buf) /\ q.start \in Nat
        /\ \A i \in 1..Len(q.buf) : q.buf[i] \in Event
    BY <1>2, RecFields
  <2> QED BY <1>2, <2>1, RetainedAt
<1>6. \A e \in Event : e.n \in Nat /\ e.id \in Nat \cup {Custom}
  BY DEF Event
<1>7. ASSUME last # None, NEW i \in DOMAIN Retained(q), Retained(q)[i].n > last.n
      PROVE  \E k \in DOMAIN queue : queue[k] = Retained(q)[i]
  <2>1. Numbered(Retained(q)[i]) /\ Numbered(last)
    BY <1>2, <1>3, <1>7
  <2>2. AfterLastID(Retained(q)[i].id, last.id)
    BY <1>7, <2>1 DEF Numbered, AfterLastID
  <2>3. i \in Missed(q, last)
    BY <1>5, <1>7, <2>2 DEF Missed
  <2> QED BY <1>4, <2>3
<1>8. ASSUME last # None, last.id # Custom, NEW k \in DOMAIN queue, queue[k].id # Custom
      PROVE  queue[k].n > last.n
  <2>1. PICK i \in Missed(q, last) : queue[k] = Retained(q)[i]
    BY <1>4
  <2>2. i \in DOMAIN Retained(q) /\ AfterLastID(Retained(q)[i].id, last.id)
    BY <1>5 DEF Missed
  <2>3. Numbered(Retained(q)[i]) /\ Numbered(last)
    BY <1>2, <1>3, <1>8, <2>2
  <2> QED BY <1>8, <2>1, <2>2, <2>3 DEF Numbered, AfterLastID
<1>9. Complete(s)
  BY <1>1, <1>2, <1>7 DEF Complete
<1>10. NoRepeat(s)
  BY <1>1, <1>8 DEF NoRepeat
<1> QED BY <1>9, <1>10

(* A client that connects again with the ID of the event it received last  *)
(* is sent every retained event it has not received and, unless IDs are    *)
(* not numbers, none it has, for every topic that was never evicted        *)
(* (Subscribe, afterLastID).                                               *)
THEOREM ReplayIsExact == Spec => ReplayExact
<1>1. ASSUME StreamInv, ReplayInv, [Next]_vars, NEW s \in Subscriber, home'[s] \notin evicted
      PROVE  Complete(s) /\ NoRepeat(s)
  <2>1. CASE Subscribed(s)
    <3>1. PICK t \in Topic : \E last \in LastSeen(t) : Subscribe(s, t, last)
      BY <1>1, <2>1, SubscribedBy
    <3>2. PICK last \in LastSeen(t) : Subscribe(s, t, last)
      BY <3>1
    <3>3. home'[s] = t
      BY <1>1, <3>2 DEF Subscribe, StreamInv, AttachInv, Shape
    <3> QED BY <1>1, <3>2, <3>3, ExactStep
  <2>2. CASE ~Subscribed(s)
    BY <2>2 DEF Complete, NoRepeat
  <2> QED BY <2>1, <2>2
<1>2. StreamInv /\ ReplayInv /\ [Next]_vars =>
        [\A s \in Subscriber : home'[s] \notin evicted => Complete(s) /\ NoRepeat(s)]_vars
  BY <1>1
<1> QED BY <1>2, ReplayInvariance, PTL DEF Spec, ReplayExact

=============================================================================

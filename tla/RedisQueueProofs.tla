-------------------------- MODULE RedisQueueProofs --------------------------
(***************************************************************************)
(* The Redis queue, for every number of jobs, workers, faults and          *)
(* requeueings: an accepted job is in a list until it was handled, each    *)
(* attempt is handled once per dispatch and requeueing, and only a fault   *)
(* leaves a job in the processing list without a worker.                   *)
(***************************************************************************)
EXTENDS RedisQueue, FiniteSetTheorems, TLAPS, WellFoundedInduction

Idle == {"down", "promote", "move"}

-----------------------------------------------------------------------------
(* Payloads.                                                               *)

LEMMA PayloadFields ==
  ASSUME NEW p \in Payload
  PROVE  /\ p.id \in Job /\ p.attempt \in 1..Limit[p.id]
         /\ p = [id |-> p.id, attempt |-> p.attempt]
         /\ Limit[p.id] \in Nat
BY RedisAssumption DEF Payload

LEMMA PayloadOf ==
  ASSUME NEW j \in Job, NEW a \in 1..Limit[j]
  PROVE  [id |-> j, attempt |-> a] \in Payload
BY DEF Payload

LEMMA NextAttempt ==
  ASSUME NEW p \in Payload, p.attempt < Limit[p.id]
  PROVE  /\ [p EXCEPT !.attempt = @ + 1] \in Payload
         /\ [p EXCEPT !.attempt = @ + 1].id = p.id
<1> DEFINE q == [p EXCEPT !.attempt = @ + 1]
<1>1. q = [id |-> p.id, attempt |-> p.attempt + 1]
  BY PayloadFields
<1>2. p.id \in Job /\ p.attempt + 1 \in 1..Limit[p.id]
  BY PayloadFields
<1>3. [id |-> p.id, attempt |-> p.attempt + 1] \in Payload
  BY <1>2, PayloadOf
<1> QED BY <1>1, <1>3

-----------------------------------------------------------------------------
(* LREM: all but one occurrence of its argument stays.                     *)

NatLess == {ss \in Nat \X Nat : ss[1] < ss[2]}

LEMMA NatLessWellFounded == IsWellFoundedOn(NatLess, Nat)
BY NatLessThanWellFounded DEF OpToRel, NatLess

LEMMA LastOccurrence ==
  ASSUME NEW s \in Seq(Payload), NEW p, NEW k \in DOMAIN s, s[k] = p
  PROVE  \E i \in DOMAIN s : s[i] = p /\ \A m \in DOMAIN s : m > i => s[m] # p
<1> DEFINE T == {n \in Nat : n < Len(s) /\ s[Len(s) - n] = p}
<1>1. Len(s) \in Nat /\ DOMAIN s = 1..Len(s) /\ k \in 1..Len(s)
  OBVIOUS
<1>2. Len(s) - k \in T
  BY <1>1
<1>3. PICK n \in T : \A m \in T : <<m, n>> \notin NatLess
  <2>1. T \subseteq Nat /\ T # {}
    BY <1>2
  <2> QED BY <2>1, NatLessWellFounded, WFMin
<1>4. \A m \in T : ~(m < n)
  BY <1>3 DEF NatLess
<1> QED
  <2>1. Len(s) - n \in DOMAIN s /\ s[Len(s) - n] = p
    BY <1>1
  <2>2. ASSUME NEW m \in DOMAIN s, m > Len(s) - n, s[m] = p PROVE FALSE
    <3>1. Len(s) - m \in T /\ Len(s) - m < n
      BY <1>1, <2>2
    <3> QED BY <3>1, <1>4
  <2> QED BY <2>1, <2>2

LEMMA LRemTyped ==
  ASSUME NEW s \in Seq(Payload), NEW p
  PROVE  LRem(s, p) \in Seq(Payload)
<1>1. CASE \A k \in DOMAIN s : s[k] # p
  BY <1>1 DEF LRem
<1>2. CASE \E k \in DOMAIN s : s[k] = p
  <2>1. PICK i \in DOMAIN s :
          LRem(s, p) = [k \in 1..(Len(s) - 1) |-> s[IF k < i THEN k ELSE k + 1]]
    BY <1>2, LastOccurrence DEF LRem
  <2>2. Len(s) - 1 \in Nat /\ i \in Nat
    BY <2>1
  <2>3. \A k \in 1..(Len(s) - 1) : s[IF k < i THEN k ELSE k + 1] \in Payload
    BY <2>2
  <2> QED BY <2>1, <2>2, <2>3
<1> QED BY <1>1, <1>2

LEMMA LRemKeeps ==
  ASSUME NEW s \in Seq(Payload), NEW p, NEW k \in DOMAIN s, s[k] # p
  PROVE  \E m \in DOMAIN LRem(s, p) : LRem(s, p)[m] = s[k]
<1>1. CASE \A i \in DOMAIN s : s[i] # p
  BY <1>1 DEF LRem
<1>2. CASE \E i \in DOMAIN s : s[i] = p
  <2>1. PICK i \in DOMAIN s :
          /\ s[i] = p
          /\ LRem(s, p) = [m \in 1..(Len(s) - 1) |-> s[IF m < i THEN m ELSE m + 1]]
    BY <1>2, LastOccurrence DEF LRem
  <2>2. i \in 1..Len(s) /\ k \in 1..Len(s) /\ k # i /\ Len(s) \in Nat
    BY <2>1
  <2>3. CASE k < i
    BY <2>1, <2>2, <2>3
  <2>4. CASE k > i
    <3>1. k - 1 \in 1..(Len(s) - 1) /\ ~(k - 1 < i) /\ k - 1 + 1 = k
      BY <2>2, <2>4
    <3> QED BY <2>1, <3>1
  <2> QED BY <2>2, <2>3, <2>4
<1> QED BY <1>1, <1>2

-----------------------------------------------------------------------------
(* Types.                                                                  *)

(* What a worker holds fits what it is about to do with it: a job it will  *)
(* acknowledge was handled, one it will retry has an attempt left, and one *)
(* it buries could not be decoded.                                         *)
HeldFits ==
  \A w \in Worker :
    /\ pc[w] = "ack" => held[w].id \in done
    /\ pc[w] = "retry" => MayRetry(held[w])
    /\ pc[w] = "unfit" => held[w].id \in garbled

(* The calls are counted per job.                                          *)
Counted == handled = [j \in Job |-> handled[j]]

TypeInv == TypeOK /\ HeldFits /\ Counted

ListsTyped ==
  /\ ready \in Seq(Payload) /\ processing \in Seq(Payload)
  /\ delayed \subseteq Payload /\ due \subseteq delayed /\ dead \subseteq Payload

WorkersTyped ==
  /\ pc \in [Worker -> WorkerState]
  /\ held \in [Worker -> Payload \cup {None}]
  /\ \A w \in Worker : held[w] = None <=> pc[w] \in Idle

HistoryTyped ==
  /\ \A j \in Job : handled[j] \in [1..Limit[j] -> Nat]
  /\ done \subseteq Job /\ requeued \in [Job -> Nat]

RestTyped ==
  /\ garbled \subseteq Foreign
  /\ call \in [Job -> {"new", "accepted", "failed"}]
  /\ faults \in 0..MaxFaults /\ requeues \in 0..MaxRequeues

LEMMA TypeParts ==
  /\ TypeOK <=> ListsTyped /\ WorkersTyped /\ HistoryTyped /\ RestTyped
  /\ TypeOK' <=> ListsTyped' /\ WorkersTyped' /\ HistoryTyped' /\ RestTyped'
BY DEF TypeOK, ListsTyped, WorkersTyped, HistoryTyped, RestTyped, Idle

LEMMA TypeInit == Init => TypeInv
<1> SUFFICES ASSUME Init PROVE TypeInv
  OBVIOUS
<1>1. ListsTyped
  BY DEF Init, ListsTyped
<1>2. WorkersTyped
  BY DEF Init, WorkersTyped, WorkerState, Idle
<1>3. HistoryTyped
  BY DEF Init, HistoryTyped
<1>4. RestTyped
  BY RedisAssumption DEF Init, RestTyped
<1>5. HeldFits
  BY DEF Init, HeldFits
<1>6. Counted
  BY DEF Init, Counted
<1> QED BY <1>1, <1>2, <1>3, <1>4, <1>5, <1>6, TypeParts DEF TypeInv

(* A worker that holds something holds a payload.                          *)
LEMMA HeldPayload ==
  ASSUME TypeOK, NEW w \in Worker, pc[w] \notin Idle
  PROVE  held[w] \in Payload
BY DEF TypeOK, Idle

LEMMA FaultTyped ==
  ASSUME TypeOK, NEW o, Fault(o)
  PROVE  faults' \in 0..MaxFaults
BY RedisAssumption DEF TypeOK, Fault

(* A worker moves to a state with what goes with that state.               *)
LEMMA WorkerMoves ==
  ASSUME TypeInv, NEW w \in Worker, NEW state \in WorkerState,
         NEW h \in Payload \cup {None}, h = None <=> state \in Idle,
         pc' = [pc EXCEPT ![w] = state], held' = [held EXCEPT ![w] = h],
         done \subseteq done', garbled' = garbled,
         state = "ack" => h.id \in done',
         state = "retry" => MayRetry(h),
         state = "unfit" => h.id \in garbled
  PROVE  WorkersTyped' /\ HeldFits'
<1>1. WorkersTyped'
  BY DEF TypeInv, TypeOK, WorkersTyped, Idle
<1>2. ASSUME NEW v \in Worker, v # w
      PROVE  pc'[v] = pc[v] /\ held'[v] = held[v]
  BY <1>2 DEF TypeInv, TypeOK
<1>3. pc'[w] = state /\ held'[w] = h
  BY DEF TypeInv, TypeOK
<1>4. HeldFits'
  <2> SUFFICES ASSUME NEW v \in Worker
               PROVE  /\ pc'[v] = "ack" => held'[v].id \in done'
                      /\ pc'[v] = "retry" => MayRetry(held'[v])
                      /\ pc'[v] = "unfit" => held'[v].id \in garbled'
    BY DEF HeldFits, MayRetry
  <2>1. CASE v = w
    BY <2>1, <1>3
  <2>2. CASE v # w
    BY <2>2, <1>2 DEF TypeInv, HeldFits, MayRetry
  <2> QED BY <2>1, <2>2
<1> QED BY <1>1, <1>4

(* A worker that only changes its state keeps what it holds.               *)
LEMMA HeldSame ==
  ASSUME TypeOK, NEW w \in Worker, UNCHANGED held
  PROVE  held' = [held EXCEPT ![w] = held[w]]
BY DEF TypeOK

(* Nothing a worker holds is disturbed by a step that leaves it alone.     *)
LEMMA WorkersStay ==
  ASSUME TypeInv, UNCHANGED <<pc, held, done, garbled>>
  PROVE  WorkersTyped' /\ HeldFits'
BY DEF TypeInv, TypeOK, WorkersTyped, HeldFits, MayRetry, Idle

-----------------------------------------------------------------------------
(* Which jobs are in a list.                                               *)

HasId(s, j) == \E k \in DOMAIN s : s[k].id = j

LEMMA ListedParts ==
  ASSUME NEW j
  PROVE  /\ Listed(j) <=> HasId(ready, j) \/ HasId(processing, j)
                             \/ \E p \in delayed \cup dead : p.id = j
         /\ Listed(j)' <=> HasId(ready', j) \/ HasId(processing', j)
                             \/ \E p \in delayed' \cup dead' : p.id = j
BY DEF Listed, HasId

LEMMA AppendHas ==
  ASSUME NEW s \in Seq(Payload), NEW p \in Payload
  PROVE  /\ Append(s, p) \in Seq(Payload)
         /\ HasId(Append(s, p), p.id)
         /\ \A j : HasId(s, j) => HasId(Append(s, p), j)
<1> DEFINE t == Append(s, p)
<1>1. /\ t \in Seq(Payload)
      /\ DOMAIN s = 1..Len(s) /\ DOMAIN t = 1..(Len(s) + 1) /\ Len(s) \in Nat
      /\ \A k \in 1..Len(s) : t[k] = s[k]
      /\ t[Len(s) + 1] = p
  OBVIOUS
<1> HIDE DEF t
<1>2. HasId(t, p.id)
  BY <1>1 DEF HasId
<1>3. \A j : HasId(s, j) => HasId(t, j)
  BY <1>1 DEF HasId
<1> QED BY <1>1, <1>2, <1>3 DEF t

LEMMA ConcatHas ==
  ASSUME NEW s \in Seq(Payload), NEW q \in Seq(Payload)
  PROVE  /\ s \o q \in Seq(Payload)
         /\ \A j : HasId(s, j) => HasId(s \o q, j)
         /\ \A k \in DOMAIN q : HasId(s \o q, q[k].id)
<1> DEFINE t == s \o q
<1>1. /\ t \in Seq(Payload)
      /\ DOMAIN s = 1..Len(s) /\ DOMAIN q = 1..Len(q) /\ DOMAIN t = 1..(Len(s) + Len(q))
      /\ Len(s) \in Nat /\ Len(q) \in Nat
      /\ \A k \in 1..Len(s) : t[k] = s[k]
      /\ \A k \in 1..Len(q) : t[Len(s) + k] = q[k]
  OBVIOUS
<1> HIDE DEF t
<1>2. \A j : HasId(s, j) => HasId(t, j)
  BY <1>1 DEF HasId
<1>3. ASSUME NEW k \in DOMAIN q PROVE HasId(t, q[k].id)
  <2>1. Len(s) + k \in DOMAIN t /\ t[Len(s) + k] = q[k]
    BY <1>1
  <2> QED BY <2>1 DEF HasId
<1> QED BY <1>1, <1>2, <1>3 DEF t

LEMMA TailHas ==
  ASSUME NEW s \in Seq(Payload), s # <<>>
  PROVE  /\ Tail(s) \in Seq(Payload) /\ Head(s) \in Payload
         /\ \A j : HasId(s, j) => Head(s).id = j \/ HasId(Tail(s), j)
<1> DEFINE t == Tail(s)
<1>1. /\ t \in Seq(Payload) /\ Head(s) \in Payload
      /\ DOMAIN s = 1..Len(s) /\ DOMAIN t = 1..(Len(s) - 1) /\ Len(s) \in Nat
      /\ \A k \in 1..(Len(s) - 1) : t[k] = s[k + 1]
      /\ Head(s) = s[1]
  OBVIOUS
<1> HIDE DEF t
<1>2. ASSUME NEW j, NEW k \in DOMAIN s, s[k].id = j, k # 1 PROVE HasId(t, j)
  <2>1. k - 1 \in DOMAIN t /\ t[k - 1] = s[k]
    BY <1>1, <1>2
  <2> QED BY <2>1, <1>2 DEF HasId
<1>3. \A j : HasId(s, j) => Head(s).id = j \/ HasId(t, j)
  BY <1>1, <1>2 DEF HasId
<1> QED BY <1>1, <1>3 DEF t

LEMMA LRemHas ==
  ASSUME NEW s \in Seq(Payload), NEW p, NEW j, HasId(s, j), j # p.id
  PROVE  HasId(LRem(s, p), j)
BY LRemKeeps DEF HasId

LEMMA BatchTyped ==
  ASSUME TypeOK, NEW q \in Batch
  PROVE  /\ q \in Seq(Payload)
         /\ \A a \in DOMAIN q : q[a] \in due
<1>1. PICK n \in Nat : q \in [1..n -> due]
  BY RedisAssumption DEF Batch
<1>2. due \subseteq Payload
  BY DEF TypeOK
<1> QED BY <1>1, <1>2

-----------------------------------------------------------------------------
(* Each step keeps the types and loses nothing.                            *)

QueueInv == TypeInv /\ NothingLost

(* A step that keeps every listed job listed or handled, and accepts only  *)
(* listed ones, keeps NothingLost.                                         *)
LEMMA KeepsListed ==
  ASSUME NothingLost, done \subseteq done',
         \A j \in Job : LostInReceive(j) => Listed(j)' \/ LostInReceive(j)',
         \A j \in Job :
           call'[j] = "accepted" =>
             \/ Listed(j)'
             \/ call[j] = "accepted"
                /\ (Listed(j) => Listed(j)' \/ j \in done' \/ LostInReceive(j)')
  PROVE  NothingLost'
BY DEF NothingLost

(* Faults are counted, and a failed command is one.                        *)
LEMMA FaultCounts ==
  ASSUME TypeOK, NEW o \in Outcome, Fault(o)
  PROVE  /\ faults > 0 => faults' > 0
         /\ o # "ok" => faults' > 0
BY DEF TypeOK, Fault

(* What is lost in Receive stays lost, unless its worker buries it.        *)
LEMMA StaysLost ==
  ASSUME garbled' = garbled, faults > 0 => faults' > 0,
         NEW w, pc[w] = "bury" => faults' > 0,
         \A v \in Worker : v # w => pc'[v] = pc[v] /\ held'[v] = held[v]
  PROVE  \A j \in Job : LostInReceive(j) => LostInReceive(j)'
BY DEF LostInReceive

(* The same for a step of one worker, which leaves the others alone.       *)
LEMMA WorkerStaysLost ==
  ASSUME TypeOK, garbled' = garbled, faults > 0 => faults' > 0,
         NEW w \in Worker, pc[w] = "bury" => faults' > 0,
         NEW state, pc' = [pc EXCEPT ![w] = state],
         NEW h, held' = [held EXCEPT ![w] = h]
  PROVE  \A j \in Job : LostInReceive(j) => LostInReceive(j)'
<1>1. \A v \in Worker : v # w => pc'[v] = pc[v] /\ held'[v] = held[v]
  BY DEF TypeOK
<1> QED BY <1>1, StaysLost

LEMMA SameLists ==
  ASSUME NothingLost, UNCHANGED <<ready, processing, delayed, dead, call>>,
         done \subseteq done',
         \A j \in Job : LostInReceive(j) => LostInReceive(j)'
  PROVE  NothingLost'
<1>1. \A j : Listed(j) <=> Listed(j)'
  BY ListedParts
<1> QED BY <1>1, KeepsListed

LEMMA DispatchKeeps ==
  ASSUME QueueInv, NEW j \in Job, NEW later \in BOOLEAN, NEW o \in Outcome, Dispatch(j, later, o)
  PROVE  QueueInv'
<1> DEFINE p == [id |-> j, attempt |-> 1]
<1> USE DEF QueueInv
<1>1. p \in Payload
  BY PayloadOf, RedisAssumption
<1>2. TypeOK /\ NothingLost
  BY DEF TypeInv
<1>3. ready' \in Seq(Payload) /\ \A i : HasId(ready, i) => HasId(ready', i)
  BY <1>1, <1>2, AppendHas DEF Dispatch, TypeOK
<1>4. ListsTyped'
  BY <1>1, <1>2, <1>3 DEF Dispatch, TypeOK, ListsTyped
<1>5. WorkersTyped' /\ HeldFits'
  BY WorkersStay DEF Dispatch, lists, hist
<1>6. HistoryTyped' /\ Counted'
  BY <1>2 DEF Dispatch, TypeInv, TypeOK, HistoryTyped, Counted, hist
<1>7. RestTyped'
  BY <1>2, FaultTyped DEF Dispatch, TypeOK, RestTyped
<1>8. NothingLost'
  <2>1. \A i : Listed(i) => Listed(i)'
    BY <1>3, ListedParts DEF Dispatch
  <2>2. o = "ok" => Listed(j)'
    <3>1. o = "ok" /\ ~later => HasId(ready', j)
      BY <1>1, <1>2, AppendHas DEF Dispatch, TypeOK, Ran
    <3>2. o = "ok" /\ later => p \in delayed' /\ p.id = j
      BY DEF Dispatch, Ran
    <3> QED BY <3>1, <3>2, ListedParts
  <2>3. \A i \in Job : i # j => call'[i] = call[i]
    BY <1>2 DEF Dispatch, TypeOK
  <2>4. call'[j] = "accepted" => o = "ok"
    BY <1>2 DEF Dispatch, TypeOK
  <2>5. \A i \in Job : LostInReceive(i) => LostInReceive(i)'
    BY <1>2, FaultCounts DEF Dispatch, LostInReceive
  <2> QED BY <1>2, <2>1, <2>2, <2>3, <2>4, <2>5, KeepsListed DEF Dispatch, hist
<1> QED BY <1>4, <1>5, <1>6, <1>7, <1>8, TypeParts DEF TypeInv

(* Promotion moves due jobs from the sorted set to the ready list.         *)
LEMMA PromoteKeeps ==
  ASSUME QueueInv, NEW w \in Worker, NEW o \in Outcome, Promote(w, o)
  PROVE  QueueInv'
<1> USE DEF QueueInv
<1>1. TypeOK /\ NothingLost
  BY DEF TypeInv
<1>2. /\ ListsTyped'
      /\ \A j : Listed(j) => Listed(j)'
  <2>1. CASE ~Ran(o)
    BY <1>1, <2>1, ListedParts DEF Promote, TypeOK, ListsTyped
  <2>2. CASE Ran(o)
    <3>1. PICK q \in Batch :
            /\ ready' = ready \o q
            /\ delayed' = delayed \ {q[a] : a \in DOMAIN q}
            /\ due' = due \ {q[a] : a \in DOMAIN q}
      BY <2>2 DEF Promote
    <3>2. /\ ready' \in Seq(Payload)
          /\ \A j : HasId(ready, j) => HasId(ready', j)
          /\ \A a \in DOMAIN q : HasId(ready', q[a].id)
      BY <1>1, <3>1, BatchTyped, ConcatHas DEF TypeOK
    <3>3. ListsTyped'
      BY <1>1, <3>1, <3>2 DEF Promote, TypeOK, ListsTyped
    <3>4. ASSUME NEW j, Listed(j) PROVE Listed(j)'
      <4>1. CASE \E p \in delayed : p.id = j
        <5>1. PICK p \in delayed : p.id = j
          BY <4>1
        <5>2. p \in delayed' \/ \E a \in DOMAIN q : q[a] = p
          BY <3>1, <5>1
        <5>3. p \in delayed' \/ HasId(ready', j)
          BY <3>2, <5>1, <5>2
        <5> QED BY <5>1, <5>3, ListedParts
      <4>2. CASE ~\E p \in delayed : p.id = j
        BY <3>2, <3>4, <4>2, ListedParts DEF Promote
      <4> QED BY <4>1, <4>2
    <3> QED BY <3>3, <3>4
  <2> QED BY <2>1, <2>2
<1>3. WorkersTyped' /\ HeldFits'
  <2>1. pc[w] \in Idle /\ held[w] \in Payload \cup {None}
    BY <1>1 DEF Promote, Idle, TypeOK
  <2>2. held[w] = None
    BY <1>1, <2>1 DEF TypeOK, Idle
  <2>3. PICK state \in {"move", "promote"} : pc' = [pc EXCEPT ![w] = state]
    BY DEF Promote, Goto
  <2>4. held' = [held EXCEPT ![w] = held[w]] /\ done' = done /\ garbled' = garbled
    BY <1>1, HeldSame DEF Promote, hist
  <2> QED BY <2>1, <2>2, <2>3, <2>4, WorkerMoves DEF Idle, WorkerState
<1>4. HistoryTyped' /\ Counted'
  BY <1>1 DEF Promote, TypeInv, TypeOK, HistoryTyped, Counted, hist
<1>5. RestTyped'
  BY <1>1, FaultTyped DEF Promote, TypeOK, RestTyped
<1>6. NothingLost'
  <2>1. pc[w] # "bury" /\ Fault(o) /\ \E state : pc' = [pc EXCEPT ![w] = state]
    BY DEF Promote, Goto
  <2>2. held' = [held EXCEPT ![w] = held[w]] /\ UNCHANGED <<garbled, call, done>>
    BY <1>1, HeldSame DEF Promote, hist
  <2>3. \A j \in Job : LostInReceive(j) => LostInReceive(j)'
    BY <1>1, <2>1, <2>2, FaultCounts, WorkerStaysLost
  <2> QED BY <1>1, <1>2, <2>2, <2>3, KeepsListed
<1> QED BY <1>2, <1>3, <1>4, <1>5, <1>6, TypeParts DEF TypeInv

LEMMA CountUp ==
  ASSUME NEW D, NEW f \in [D -> Nat], NEW a \in D
  PROVE  [f EXCEPT ![a] = @ + 1] \in [D -> Nat]
OBVIOUS

(* BLMOVE moves a job to the processing list, whether or not its answer    *)
(* arrives.                                                                *)
LEMMA MoveKeeps ==
  ASSUME QueueInv, NEW w \in Worker, NEW o \in Outcome, Move(w, o)
  PROVE  QueueInv'
<1> DEFINE p == Head(ready)
<1> USE DEF QueueInv
<1>1. TypeOK /\ NothingLost /\ ready # <<>>
  BY DEF TypeInv, Move
<1>2. p \in Payload /\ p.id \in Job /\ p.attempt \in 1..Limit[p.id]
  BY <1>1, TailHas, PayloadFields DEF TypeOK
<1>3. /\ ListsTyped'
      /\ \A j : Listed(j) => Listed(j)'
  <2>1. CASE ~Ran(o)
    BY <1>1, <2>1, ListedParts DEF Move, TypeOK, ListsTyped
  <2>2. CASE Ran(o)
    <3>1. ready' = Tail(ready) /\ processing' = Append(processing, p)
      BY <2>2 DEF Move, MoveTo
    <3>2. /\ ready' \in Seq(Payload) /\ processing' \in Seq(Payload)
          /\ \A j : HasId(ready, j) => p.id = j \/ HasId(ready', j)
          /\ \A j : HasId(processing, j) => HasId(processing', j)
          /\ HasId(processing', p.id)
      BY <1>1, <1>2, <3>1, TailHas, AppendHas DEF TypeOK
    <3> HIDE DEF p
    <3>3. ListsTyped'
      BY <1>1, <3>2 DEF Move, TypeOK, ListsTyped
    <3>4. \A j : Listed(j) => Listed(j)'
      BY <3>2, ListedParts DEF Move
    <3> QED BY <3>3, <3>4
  <2> QED BY <2>1, <2>2
<1>4. WorkersTyped' /\ HeldFits'
  <2>1. pc[w] \in Idle /\ held[w] = None
    BY <1>1 DEF Move, Idle, TypeOK
  <2>2. done' = done /\ garbled' = garbled
    BY DEF Move
  <2>3. CASE o # "ok"
    <3>1. pc' = [pc EXCEPT ![w] = "promote"] /\ held' = [held EXCEPT ![w] = held[w]]
      BY <1>1, <2>3, HeldSame DEF Move, Goto
    <3> QED BY <2>1, <2>2, <3>1, WorkerMoves DEF Idle, WorkerState
  <2>4. CASE o = "ok"
    <3>1. PICK state \in {"unfit", "handle"} :
            /\ pc' = [pc EXCEPT ![w] = state]
            /\ state = "unfit" => p.id \in garbled
      BY <2>4 DEF Move, Goto
    <3>2. held' = [held EXCEPT ![w] = p]
      BY <2>4 DEF Move
    <3>3. p # None
      BY <1>2, RedisAssumption
    <3> HIDE DEF p
    <3> QED BY <1>2, <2>2, <3>1, <3>2, <3>3, WorkerMoves DEF Idle, WorkerState
  <2> QED BY <2>3, <2>4
<1>5. HistoryTyped' /\ Counted'
  <2>1. handled' = handled \/ handled' = Handled(p)
    BY DEF Move
  <2>2. CASE handled' = handled
    BY <1>1, <2>2 DEF Move, TypeInv, TypeOK, HistoryTyped, Counted
  <2>3. CASE handled' = Handled(p)
    <3> HIDE DEF p
    <3>1. /\ \A j \in Job : handled[j] \in [1..Limit[j] -> Nat]
          /\ handled = [j \in Job |-> handled[j]]
      BY <1>1 DEF TypeInv, TypeOK, Counted
    <3>2. handled' = [j \in Job |-> IF j = p.id THEN [handled[j] EXCEPT ![p.attempt] = @ + 1]
                                    ELSE handled[j]]
      BY <2>3, <3>1 DEF Handled
    <3>3. [handled[p.id] EXCEPT ![p.attempt] = @ + 1] \in [1..Limit[p.id] -> Nat]
      <4>1. handled[p.id] \in [1..Limit[p.id] -> Nat] /\ p.attempt \in 1..Limit[p.id]
        BY <1>2, <3>1
      <4> QED BY <4>1, CountUp
    <3>4. \A j \in Job : handled'[j] \in [1..Limit[j] -> Nat]
      BY <3>1, <3>2, <3>3
    <3>5. Counted'
      BY <3>2 DEF Counted
    <3> QED BY <1>1, <3>4, <3>5 DEF Move, TypeOK, HistoryTyped
  <2> QED BY <2>1, <2>2, <2>3
<1>6. RestTyped'
  BY <1>1, FaultTyped DEF Move, TypeOK, RestTyped
<1>7. NothingLost'
  <2>1. pc[w] # "bury" /\ Fault(o) /\ UNCHANGED <<garbled, call, done>>
    BY DEF Move
  <2>2. \E state, h : pc' = [pc EXCEPT ![w] = state] /\ held' = [held EXCEPT ![w] = h]
    BY <1>1, HeldSame DEF Move, Goto
  <2>3. \A j \in Job : LostInReceive(j) => LostInReceive(j)'
    BY <1>1, <2>1, <2>2, FaultCounts, WorkerStaysLost
  <2> QED BY <1>1, <1>3, <2>1, <2>3, KeepsListed
<1> QED BY <1>3, <1>4, <1>5, <1>6, <1>7, TypeParts DEF TypeInv

(* The two commands that bury a payload nobody can decode: only such jobs  *)
(* leave the processing list here.                                         *)
LEMMA UnfitKeeps ==
  ASSUME QueueInv, NEW w \in Worker, NEW o \in Outcome, Unfit(w, o)
  PROVE  QueueInv'
<1> USE DEF QueueInv
<1>1. TypeOK /\ NothingLost /\ held[w] \in Payload /\ held[w].id \in garbled
  BY HeldPayload DEF TypeInv, Unfit, HeldFits, Idle
<1>2. ListsTyped'
  BY <1>1, LRemTyped DEF Unfit, TypeOK, ListsTyped
<1>3. WorkersTyped' /\ HeldFits'
  <2>1. held[w] # None /\ held' = [held EXCEPT ![w] = held[w]]
    BY <1>1, HeldSame, RedisAssumption DEF Unfit
  <2> QED BY <1>1, <2>1, WorkerMoves DEF Unfit, Goto, Idle, WorkerState, hist
<1>4. HistoryTyped' /\ Counted'
  BY <1>1 DEF Unfit, TypeInv, TypeOK, HistoryTyped, Counted, hist
<1>5. RestTyped'
  BY <1>1, FaultTyped DEF Unfit, TypeOK, RestTyped
<1>6. NothingLost'
  <2>1. /\ pc[w] = "unfit" /\ Fault(o) /\ UNCHANGED <<garbled, call, done>>
        /\ pc' = [pc EXCEPT ![w] = "bury"] /\ held' = [held EXCEPT ![w] = held[w]]
    BY <1>1, HeldSame DEF Unfit, Goto, hist
  <2>2. \A j \in Job : LostInReceive(j) => LostInReceive(j)'
    BY <1>1, <2>1, FaultCounts, WorkerStaysLost
  <2>3. ASSUME NEW j, j = held[w].id PROVE LostInReceive(j)'
    <3>1. pc'[w] = "bury" /\ held'[w] = held[w]
      BY <1>1, <2>1 DEF TypeOK
    <3> QED BY <1>1, <2>1, <2>3, <3>1 DEF LostInReceive
  <2>4. ASSUME NEW j \in Job, Listed(j) PROVE Listed(j)' \/ LostInReceive(j)'
    <3>1. CASE j = held[w].id
      BY <2>3, <3>1
    <3>2. CASE j # held[w].id
      <4>1. HasId(processing, j) => HasId(processing', j)
        BY <1>1, <3>2, LRemHas DEF Unfit, TypeOK
      <4> QED BY <2>4, <4>1, ListedParts DEF Unfit
    <3> QED BY <3>1, <3>2
  <2> QED BY <1>1, <2>1, <2>2, <2>4, KeepsListed
<1> QED BY <1>2, <1>3, <1>4, <1>5, <1>6, TypeParts DEF TypeInv

LEMMA BuryKeeps ==
  ASSUME QueueInv, NEW w \in Worker, NEW o \in Outcome, Bury(w, o)
  PROVE  QueueInv'
<1> USE DEF QueueInv
<1>1. TypeOK /\ NothingLost /\ held[w] \in Payload
  BY HeldPayload DEF TypeInv, Bury, Idle
<1>2. ListsTyped'
  BY <1>1 DEF Bury, TypeOK, ListsTyped
<1>3. WorkersTyped' /\ HeldFits'
  BY WorkerMoves DEF Bury, Goto, Idle, WorkerState, hist
<1>4. HistoryTyped' /\ Counted'
  BY <1>1 DEF Bury, TypeInv, TypeOK, HistoryTyped, Counted, hist
<1>5. RestTyped'
  BY <1>1, FaultTyped DEF Bury, TypeOK, RestTyped
<1>6. NothingLost'
  <2>1. \A j : Listed(j) => Listed(j)'
    BY ListedParts DEF Bury
  <2>2. Fault(o) /\ UNCHANGED <<garbled, call, done>>
    BY DEF Bury, hist
  <2>3. ASSUME NEW j \in Job, LostInReceive(j) PROVE Listed(j)' \/ LostInReceive(j)'
    <3>1. CASE o = "ok" /\ held[w].id = j
      <4>1. held[w] \in dead'
        BY <3>1 DEF Bury, Ran
      <4> QED BY <3>1, <4>1, ListedParts
    <3>2. CASE o = "ok" /\ held[w].id # j
      <4>1. \A v \in Worker : v # w => pc'[v] = pc[v] /\ held'[v] = held[v]
        BY <1>1 DEF Bury, Goto, TypeOK
      <4> QED BY <1>1, <2>2, <2>3, <3>2, <4>1, FaultCounts DEF LostInReceive
    <3>3. CASE o # "ok"
      BY <1>1, <2>2, <2>3, <3>3, FaultCounts DEF LostInReceive
    <3> QED BY <3>1, <3>2, <3>3
  <2> QED BY <1>1, <2>1, <2>2, <2>3, KeepsListed
<1> QED BY <1>2, <1>3, <1>4, <1>5, <1>6, TypeParts DEF TypeInv

(* Settling takes a job from the processing list only when it was handled, *)
(* or puts it into another list in the same transaction.                   *)
LEMMA SettleKeeps ==
  ASSUME QueueInv, NEW w \in Worker, NEW o \in Outcome, Settle(w, o)
  PROVE  QueueInv'
<1> DEFINE p == held[w]
           next == [p EXCEPT !.attempt = @ + 1]
<1> USE DEF QueueInv
<1>1. TypeOK /\ NothingLost /\ p \in Payload
  BY HeldPayload DEF TypeInv, Settle, Idle
<1>2. /\ pc[w] = "ack" => p.id \in done
      /\ pc[w] = "retry" => next \in Payload /\ next.id = p.id
  BY <1>1, NextAttempt DEF TypeInv, HeldFits, MayRetry
<1>3. /\ pc[w] \in {"ack", "retry", "reject"}
      /\ Ran(o) => /\ processing' = LRem(processing, p)
                   /\ delayed' = IF pc[w] = "retry" THEN delayed \cup {next} ELSE delayed
                   /\ dead' = IF pc[w] = "reject" THEN dead \cup {p} ELSE dead
      /\ ~Ran(o) => UNCHANGED <<processing, delayed, dead>>
      /\ UNCHANGED <<garbled, ready, due, call, done>>
  BY DEF Settle, hist
<1>4. WorkersTyped' /\ HeldFits'
  BY WorkerMoves DEF Settle, Goto, Idle, WorkerState, hist
<1>5. HistoryTyped' /\ Counted'
  BY <1>1 DEF Settle, TypeInv, TypeOK, HistoryTyped, Counted, hist
<1>6. RestTyped'
  BY <1>1, FaultTyped DEF Settle, TypeOK, RestTyped
<1> HIDE DEF p, next
<1>7. ListsTyped'
  <2>1. processing' \in Seq(Payload)
    BY <1>1, <1>3, LRemTyped DEF TypeOK
  <2> QED BY <1>1, <1>2, <1>3, <2>1 DEF TypeOK, ListsTyped
<1>8. NothingLost'
  <2>1. ASSUME NEW j, Listed(j) PROVE Listed(j)' \/ j \in done'
    <3>1. CASE ~Ran(o) \/ j # p.id
      <4>1. HasId(processing, j) => HasId(processing', j)
        BY <1>1, <1>3, <3>1, LRemHas DEF TypeOK
      <4> QED BY <1>3, <2>1, <4>1, ListedParts
    <3>2. CASE Ran(o) /\ j = p.id
      <4>1. CASE pc[w] = "ack"
        BY <1>2, <1>3, <3>2, <4>1
      <4>2. CASE pc[w] = "retry"
        BY <1>2, <1>3, <3>2, <4>2, ListedParts
      <4>3. CASE pc[w] = "reject"
        BY <1>3, <3>2, <4>3, ListedParts
      <4> QED BY <1>3, <4>1, <4>2, <4>3
    <3> QED BY <3>1, <3>2
  <2>2. \A j \in Job : LostInReceive(j) => LostInReceive(j)'
    <3>1. pc[w] # "bury" /\ Fault(o)
      BY DEF Settle
    <3>2. pc' = [pc EXCEPT ![w] = "promote"] /\ held' = [held EXCEPT ![w] = None]
      BY DEF Settle, Goto
    <3> QED BY <1>1, <1>3, <3>1, <3>2, FaultCounts, WorkerStaysLost
  <2> QED BY <1>1, <1>3, <2>1, <2>2, KeepsListed
<1> QED BY <1>4, <1>5, <1>6, <1>7, <1>8, TypeParts DEF TypeInv

(* Steps of a worker that leave the lists alone: a poll that found         *)
(* nothing, the end of the handler, a crash and a restart.                 *)
LEMMA WorkerOnly ==
  ASSUME QueueInv, NEW w \in Worker,
         \/ MoveTimeout(w)
         \/ HandlerSucceeds(w) \/ HandlerFails(w) \/ HandlerFailsPermanently(w)
         \/ Crash(w) \/ Restart(w)
  PROVE  QueueInv'
<1> USE DEF QueueInv
<1>1. TypeOK /\ NothingLost
  BY DEF TypeInv
<1>2. pc[w] = "handle" => held[w] \in Payload /\ held[w].id \in Job /\ held[w] # None
  BY <1>1, HeldPayload, PayloadFields, RedisAssumption DEF Idle
<1>3. UNCHANGED <<lists, call, requeues, handled, requeued>>
  BY DEF MoveTimeout, HandlerSucceeds, HandlerFails, HandlerFailsPermanently, Crash, Restart, hist
<1>4. done \subseteq done' /\ done' \subseteq Job
  BY <1>1, <1>2 DEF TypeOK, MoveTimeout, HandlerSucceeds, HandlerFails,
                    HandlerFailsPermanently, Crash, Restart, hist
<1>5. faults' \in 0..MaxFaults
  BY <1>1, RedisAssumption DEF TypeOK, MoveTimeout, HandlerSucceeds, HandlerFails,
                               HandlerFailsPermanently, Crash, Restart
<1>6. WorkersTyped' /\ HeldFits'
  <2>1. pc[w] \in Idle => held[w] = None
    BY <1>1 DEF TypeOK, Idle
  <2>2. UNCHANGED held => held' = [held EXCEPT ![w] = held[w]]
    BY <1>1, HeldSame
  <2>3. garbled' = garbled
    BY <1>3 DEF lists
  <2>4. CASE MoveTimeout(w) \/ Restart(w)
    <3>1. /\ held[w] = None /\ held' = [held EXCEPT ![w] = held[w]]
          /\ pc' = [pc EXCEPT ![w] = "promote"]
      BY <2>1, <2>2, <2>4 DEF MoveTimeout, Restart, Goto, Idle
    <3> QED BY <1>4, <2>3, <3>1, WorkerMoves DEF Idle, WorkerState
  <2>5. CASE Crash(w)
    BY <1>4, <2>3, <2>5, WorkerMoves DEF Crash, Goto, Idle, WorkerState
  <2>6. CASE HandlerSucceeds(w) \/ HandlerFails(w) \/ HandlerFailsPermanently(w)
    <3>1. PICK state \in {"ack", "retry", "reject"} :
            /\ pc' = [pc EXCEPT ![w] = state]
            /\ state = "ack" => held[w].id \in done'
            /\ state = "retry" => MayRetry(held[w])
      BY <2>6 DEF HandlerSucceeds, HandlerFails, HandlerFailsPermanently, Goto
    <3>2. /\ held' = [held EXCEPT ![w] = held[w]]
          /\ held[w] \in Payload /\ held[w] # None
      BY <1>2, <2>2, <2>6 DEF HandlerSucceeds, HandlerFails, HandlerFailsPermanently
    <3> QED BY <1>4, <2>3, <3>1, <3>2, WorkerMoves DEF Idle, WorkerState
  <2> QED BY <2>4, <2>5, <2>6
<1>7. ListsTyped' /\ HistoryTyped' /\ Counted' /\ RestTyped'
  BY <1>1, <1>3, <1>4, <1>5
     DEF lists, TypeInv, TypeOK, ListsTyped, HistoryTyped, Counted, RestTyped
<1>8. NothingLost'
  <2>1. UNCHANGED <<garbled, ready, processing, delayed, dead, call>>
    BY <1>3 DEF lists
  <2>2. \E state, h : pc' = [pc EXCEPT ![w] = state] /\ held' = [held EXCEPT ![w] = h]
    BY <1>1, HeldSame DEF MoveTimeout, HandlerSucceeds, HandlerFails, HandlerFailsPermanently,
                          Crash, Restart, Goto, hist
  <2>3. (faults > 0 => faults' > 0) /\ (pc[w] = "bury" => faults' > 0)
    BY <1>1 DEF MoveTimeout, HandlerSucceeds, HandlerFails, HandlerFailsPermanently,
                Crash, Restart, hist, TypeOK
  <2>4. \A j \in Job : LostInReceive(j) => LostInReceive(j)'
    BY <1>1, <2>1, <2>2, <2>3, WorkerStaysLost
  <2> QED BY <1>1, <1>4, <2>1, <2>4, SameLists
<1> QED BY <1>6, <1>7, <1>8, TypeParts DEF TypeInv

(* Requeueing moves a job to the ready list; time makes jobs due.          *)
LEMMA RequeueKeeps == ASSUME QueueInv, Requeue PROVE QueueInv'
<1> DEFINE p == Head(processing)
<1> USE DEF QueueInv
<1>1. TypeOK /\ NothingLost /\ processing # <<>>
  BY DEF TypeInv, Requeue
<1>2. /\ p \in Payload
      /\ processing' \in Seq(Payload) /\ ready' \in Seq(Payload)
      /\ \A j : HasId(processing, j) => p.id = j \/ HasId(processing', j)
      /\ \A j : HasId(ready, j) => HasId(ready', j)
      /\ HasId(ready', p.id)
  BY <1>1, TailHas, AppendHas DEF Requeue, TypeOK
<1>3. ListsTyped'
  BY <1>1, <1>2 DEF Requeue, TypeOK, ListsTyped
<1>4. WorkersTyped' /\ HeldFits'
  BY WorkersStay DEF Requeue
<1>5. HistoryTyped' /\ Counted'
  <2>1. requeued' = [requeued EXCEPT ![p.id] = @ + 1]
    BY DEF Requeue
  <2>2. requeued \in [Job -> Nat] /\ p.id \in Job
    BY <1>1, <1>2, PayloadFields DEF TypeOK
  <2> HIDE DEF p
  <2>3. requeued' \in [Job -> Nat]
    BY <2>1, <2>2, CountUp
  <2> QED BY <1>1, <2>3 DEF Requeue, TypeInv, TypeOK, HistoryTyped, Counted
<1>6. RestTyped'
  BY <1>1, RedisAssumption DEF Requeue, TypeOK, RestTyped
<1> HIDE DEF p
<1>7. \A j : Listed(j) => Listed(j)'
  BY <1>2, ListedParts DEF Requeue
<1>8. NothingLost'
  <2>1. \A j \in Job : LostInReceive(j) => LostInReceive(j)'
    BY DEF Requeue, LostInReceive
  <2> QED BY <1>1, <1>7, <2>1, KeepsListed DEF Requeue
<1> QED BY <1>3, <1>4, <1>5, <1>6, <1>8, TypeParts DEF TypeInv

LEMMA DueKeeps == ASSUME QueueInv, NEW p \in delayed, BecomeDue(p) PROVE QueueInv'
<1> USE DEF QueueInv
<1>1. TypeOK /\ NothingLost
  BY DEF TypeInv
<1>2. ListsTyped'
  BY <1>1 DEF BecomeDue, TypeOK, ListsTyped
<1>3. WorkersTyped' /\ HeldFits'
  BY WorkersStay DEF BecomeDue, hist
<1>4. HistoryTyped' /\ Counted' /\ RestTyped'
  BY <1>1 DEF BecomeDue, TypeInv, TypeOK, HistoryTyped, Counted, RestTyped, hist
<1>5. NothingLost'
  <2>1. \A j \in Job : LostInReceive(j) => LostInReceive(j)'
    BY DEF BecomeDue, LostInReceive
  <2> QED BY <1>1, <2>1, SameLists DEF BecomeDue, hist
<1> QED BY <1>2, <1>3, <1>4, <1>5, TypeParts DEF TypeInv

LEMMA StutterKeeps == ASSUME QueueInv, UNCHANGED vars PROVE QueueInv'
<1> USE DEF QueueInv
<1>1. TypeOK /\ NothingLost
  BY DEF TypeInv
<1>2. UNCHANGED <<lists, call, pc, held, faults, requeues, hist>>
  BY DEF vars
<1>3. ListsTyped' /\ HistoryTyped' /\ Counted' /\ RestTyped'
  BY <1>1, <1>2 DEF lists, hist, TypeInv, TypeOK, ListsTyped, HistoryTyped, Counted, RestTyped
<1>4. WorkersTyped' /\ HeldFits'
  BY <1>2, WorkersStay DEF lists, hist
<1>5. NothingLost'
  <2>1. \A j \in Job : LostInReceive(j) => LostInReceive(j)'
    BY <1>2 DEF lists, LostInReceive
  <2> QED BY <1>1, <1>2, <2>1, SameLists DEF lists, hist
<1> QED BY <1>3, <1>4, <1>5, TypeParts DEF TypeInv

-----------------------------------------------------------------------------
LEMMA QueueInit == Init => QueueInv
<1> SUFFICES ASSUME Init PROVE QueueInv
  OBVIOUS
<1>1. NothingLost
  BY DEF Init, NothingLost
<1> QED BY <1>1, TypeInit DEF QueueInv

LEMMA QueueNext == QueueInv /\ [Next]_vars => QueueInv'
<1> SUFFICES ASSUME QueueInv, [Next]_vars PROVE QueueInv'
  OBVIOUS
<1>1. ASSUME NEW p \in delayed, BecomeDue(p) PROVE QueueInv'
  BY <1>1, DueKeeps
<1>2. ASSUME NEW o \in Outcome, NEW j \in Job, NEW later \in BOOLEAN, Dispatch(j, later, o)
      PROVE  QueueInv'
  BY <1>2, DispatchKeeps
<1>3. ASSUME NEW o \in Outcome, NEW w \in Worker, Work(w, o) PROVE QueueInv'
  BY <1>3, PromoteKeeps, MoveKeeps, UnfitKeeps, BuryKeeps, SettleKeeps DEF Work
<1>4. ASSUME NEW w \in Worker,
             \/ MoveTimeout(w)
             \/ HandlerSucceeds(w) \/ HandlerFails(w) \/ HandlerFailsPermanently(w)
             \/ Crash(w) \/ Restart(w)
      PROVE  QueueInv'
  BY <1>4, WorkerOnly
<1>5. CASE Requeue
  BY <1>5, RequeueKeeps
<1>6. CASE UNCHANGED vars
  BY <1>6, StutterKeeps
<1> QED BY <1>1, <1>2, <1>3, <1>4, <1>5, <1>6 DEF Next

LEMMA QueueInvariance == Spec => []QueueInv
<1>1. Init => QueueInv
  BY QueueInit
<1>2. QueueInv /\ [Next]_vars => QueueInv'
  BY QueueNext
<1> QED BY <1>1, <1>2, PTL DEF Spec

(* Every reachable state of the Redis queue is well typed: in particular a *)
(* worker between Receive and the settling holds a payload, and no attempt *)
(* beyond the limit is ever enqueued (Receive, Retry).                     *)
THEOREM RedisTypeCorrect == Spec => []TypeOK
<1>1. QueueInv => TypeOK
  BY DEF QueueInv, TypeInv
<1> QED BY <1>1, QueueInvariance, PTL

(* Whatever crashes, fails or loses its answer, and whenever jobs are      *)
(* requeued, an accepted job is in a list until it was handled; one that   *)
(* cannot be decoded is missing only while a worker buries it, or after a  *)
(* fault (Enqueue, Receive, Ack, Retry, Reject, RequeueProcessing).        *)
THEOREM RedisLosesNothing == Spec => []NothingLost
<1>1. QueueInv => NothingLost
  BY DEF QueueInv
<1> QED BY <1>1, QueueInvariance, PTL

-----------------------------------------------------------------------------
(* Counting: the places of a list that hold a payload of a given set.      *)

Bit(P) == IF P THEN 1 ELSE 0

Within(s, A) == {k \in DOMAIN s : s[k] \in A}
Count(s, A) == Cardinality(Within(s, A))

LEMMA CountIs ==
  ASSUME NEW s \in Seq(Payload), NEW A
  PROVE  IsFiniteSet(Within(s, A)) /\ Count(s, A) \in Nat
<1>1. IsFiniteSet(1..Len(s))
  BY FS_Interval
<1>2. Within(s, A) \in SUBSET (1..Len(s))
  BY DEF Within
<1>3. IsFiniteSet(Within(s, A))
  BY <1>1, <1>2, FS_Subset
<1> QED BY <1>3, FS_CardinalityType DEF Count

LEMMA NoneCounted ==
  ASSUME NEW s \in Seq(Payload), NEW A
  PROVE  Count(s, A) = 0 <=> \A k \in DOMAIN s : s[k] \notin A
<1>1. Count(s, A) = 0 <=> Within(s, A) = {}
  BY CountIs, FS_EmptySet DEF Count
<1> QED BY <1>1 DEF Within

LEMMA EmptyCount == ASSUME NEW s, s = <<>>, NEW A PROVE Count(s, A) = 0
<1>1. Within(s, A) = {}
  BY DEF Within
<1> QED BY <1>1, FS_EmptySet DEF Count

(* Sets that differ in at most one element.                                *)
LEMMA SwapOne ==
  ASSUME NEW S, IsFiniteSet(S), NEW T, NEW x, T \ {x} = S \ {x}
  PROVE  /\ IsFiniteSet(T)
         /\ Cardinality(S) \in Nat /\ Cardinality(T) \in Nat
         /\ Cardinality(T) + Bit(x \in S) = Cardinality(S) + Bit(x \in T)
<1>1. IsFiniteSet(S \ {x}) /\ Cardinality(S \ {x}) = Cardinality(S) - Bit(x \in S)
  BY FS_RemoveElement, FS_CardinalityType DEF Bit
<1>2. IsFiniteSet((T \ {x}) \cup {x})
  BY <1>1, FS_AddElement
<1>3. T \in SUBSET ((T \ {x}) \cup {x})
  OBVIOUS
<1>4. IsFiniteSet(T)
  BY <1>2, <1>3, FS_Subset
<1>5. Cardinality(T \ {x}) = Cardinality(T) - Bit(x \in T)
  BY <1>4, FS_RemoveElement, FS_CardinalityType DEF Bit
<1>6. Cardinality(S) \in Nat /\ Cardinality(T) \in Nat
  BY <1>4, FS_CardinalityType
<1>7. Bit(x \in S) \in {0, 1} /\ Bit(x \in T) \in {0, 1}
  BY DEF Bit
<1>8. Cardinality(S) - Bit(x \in S) = Cardinality(T) - Bit(x \in T)
  BY <1>1, <1>5
<1> HIDE DEF Bit
<1> QED BY <1>4, <1>6, <1>7, <1>8

LEMMA AppendCount ==
  ASSUME NEW s \in Seq(Payload), NEW p \in Payload, NEW A
  PROVE  Count(Append(s, p), A) = Count(s, A) + Bit(p \in A)
<1> DEFINE t == Append(s, p)
           n == Len(s) + 1
<1>1. /\ DOMAIN s = 1..Len(s) /\ DOMAIN t = 1..n /\ Len(s) \in Nat
      /\ \A k \in 1..Len(s) : t[k] = s[k]
      /\ t[n] = p
  OBVIOUS
<1> HIDE DEF t
<1>2. Within(t, A) \ {n} = Within(s, A) \ {n}
  BY <1>1 DEF Within
<1>3. n \notin Within(s, A) /\ (n \in Within(t, A) <=> p \in A)
  BY <1>1 DEF Within
<1>4. Cardinality(Within(t, A)) + 0 = Cardinality(Within(s, A)) + Bit(p \in A)
  <2>1. IsFiniteSet(Within(s, A))
    BY CountIs
  <2>2. /\ Cardinality(Within(t, A)) + Bit(n \in Within(s, A))
             = Cardinality(Within(s, A)) + Bit(n \in Within(t, A))
    BY <1>2, <2>1, SwapOne
  <2>3. Bit(n \in Within(s, A)) = 0 /\ Bit(n \in Within(t, A)) = Bit(p \in A)
    BY <1>3 DEF Bit
  <2> QED BY <2>2, <2>3
<1>5. t \in Seq(Payload)
  BY DEF t
<1>6. Cardinality(Within(t, A)) \in Nat
  BY <1>5, CountIs DEF Count
<1> QED BY <1>4, <1>6 DEF Count, t

(* A list without its place i.                                             *)
LEMMA DropCount ==
  ASSUME NEW s \in Seq(Payload), NEW t \in Seq(Payload), NEW i \in DOMAIN s,
         Len(t) = Len(s) - 1,
         \A k \in 1..(Len(s) - 1) : t[k] = s[IF k < i THEN k ELSE k + 1],
         NEW A
  PROVE  Count(t, A) + Bit(s[i] \in A) = Count(s, A)
<1> DEFINE W == Within(s, A) \ {i}
           f == [k \in Within(t, A) |-> IF k < i THEN k ELSE k + 1]
<1>1. DOMAIN s = 1..Len(s) /\ DOMAIN t = 1..(Len(s) - 1) /\ Len(s) \in Nat /\ i \in 1..Len(s)
  OBVIOUS
<1>2. f \in [Within(t, A) -> W]
  <2> SUFFICES ASSUME NEW k \in Within(t, A) PROVE (IF k < i THEN k ELSE k + 1) \in W
    OBVIOUS
  <2>1. k \in 1..(Len(s) - 1) /\ t[k] \in A
    BY <1>1 DEF Within
  <2>2. PICK m \in 1..Len(s) : m = (IF k < i THEN k ELSE k + 1) /\ m # i
    BY <1>1, <2>1
  <2>3. s[m] \in A
    BY <2>1, <2>2
  <2> QED BY <1>1, <2>2, <2>3 DEF Within
<1>3. f \in Injection(Within(t, A), W)
  <2>1. ASSUME NEW k \in Within(t, A), NEW m \in Within(t, A), f[k] = f[m]
        PROVE  k = m
    <3>1. k \in Nat /\ m \in Nat
      BY <1>1 DEF Within
    <3>2. (IF k < i THEN k ELSE k + 1) = (IF m < i THEN m ELSE m + 1)
      BY <2>1
    <3> QED BY <1>1, <3>1, <3>2
  <2> HIDE DEF f
  <2> QED BY <1>2, <2>1 DEF Injection, IsInjective
<1>4. f \in Surjection(Within(t, A), W)
  <2>1. ASSUME NEW m \in W PROVE \E k \in Within(t, A) : f[k] = m
    <3>1. m \in 1..Len(s) /\ m # i /\ s[m] \in A
      BY <1>1 DEF Within
    <3>2. PICK k \in 1..(Len(s) - 1) : (IF k < i THEN k ELSE k + 1) = m
      <4>1. CASE m < i
        BY <1>1, <3>1, <4>1
      <4>2. CASE m > i
        <5>1. m - 1 \in 1..(Len(s) - 1) /\ ~(m - 1 < i) /\ m - 1 + 1 = m
          BY <1>1, <3>1, <4>2
        <5> QED BY <5>1
      <4> QED BY <1>1, <3>1, <4>1, <4>2
    <3>3. t[k] = s[m]
      BY <3>2
    <3>4. k \in Within(t, A)
      BY <1>1, <3>1, <3>2, <3>3 DEF Within
    <3> QED BY <3>2, <3>4
  <2> HIDE DEF f
  <2> QED BY <1>2, <2>1 DEF Surjection
<1>5. Cardinality(W) = Count(t, A)
  <2> HIDE DEF f, W
  <2>1. ExistsBijection(Within(t, A), W)
    BY <1>3, <1>4 DEF ExistsBijection, Bijection
  <2> QED BY <2>1, CountIs, FS_Bijection DEF Count
<1>6. Cardinality(W) + Bit(i \in Within(s, A)) = Count(s, A)
  <2>1. IsFiniteSet(Within(s, A)) /\ Cardinality(Within(s, A)) \in Nat
    BY CountIs DEF Count
  <2>2. Cardinality(Within(s, A) \ {i})
          = IF i \in Within(s, A) THEN Cardinality(Within(s, A)) - 1 ELSE Cardinality(Within(s, A))
    BY <2>1, FS_RemoveElement
  <2> QED BY <2>1, <2>2 DEF Bit, Count
<1>7. i \in Within(s, A) <=> s[i] \in A
  BY <1>1 DEF Within
<1> QED BY <1>5, <1>6, <1>7

LEMMA TailCount ==
  ASSUME NEW s \in Seq(Payload), s # <<>>, NEW A
  PROVE  Count(Tail(s), A) + Bit(Head(s) \in A) = Count(s, A)
<1> DEFINE t == Tail(s)
<1>1. /\ t \in Seq(Payload) /\ 1 \in DOMAIN s
      /\ Len(s) \in Nat /\ Len(t) = Len(s) - 1
      /\ Head(s) = s[1]
  OBVIOUS
<1>2. \A k \in 1..(Len(s) - 1) : t[k] = s[IF k < 1 THEN k ELSE k + 1]
  OBVIOUS
<1> HIDE DEF t
<1>3. Count(t, A) + Bit(s[1] \in A) = Count(s, A)
  BY <1>1, <1>2, DropCount
<1> QED BY <1>1, <1>3 DEF t

(* LREM takes one occurrence of its argument, if there is one.             *)
LEMMA LRemCount ==
  ASSUME NEW s \in Seq(Payload), NEW p, NEW A
  PROVE  /\ Count(LRem(s, p), A) <= Count(s, A)
         /\ p \in A /\ Count(s, {p}) > 0 => Count(LRem(s, p), A) + 1 = Count(s, A)
         /\ p \notin A => Count(LRem(s, p), A) = Count(s, A)
<1>1. Count(s, A) \in Nat /\ Count(s, {p}) \in Nat /\ Count(LRem(s, p), A) \in Nat
  BY CountIs, LRemTyped
<1>2. CASE \A k \in DOMAIN s : s[k] # p
  <2>1. LRem(s, p) = s /\ Count(s, {p}) = 0
    BY <1>2, NoneCounted DEF LRem
  <2> QED BY <1>1, <2>1
<1>3. CASE \E k \in DOMAIN s : s[k] = p
  <2> DEFINE t == LRem(s, p)
  <2>1. PICK i \in DOMAIN s :
          /\ s[i] = p
          /\ t = [m \in 1..(Len(s) - 1) |-> s[IF m < i THEN m ELSE m + 1]]
    BY <1>3, LastOccurrence DEF LRem
  <2>2. t \in Seq(Payload) /\ Len(s) \in Nat /\ Len(s) - 1 \in Nat
    BY <2>1, LRemTyped
  <2> HIDE DEF t
  <2>3. Len(t) = Len(s) - 1
    BY <2>1, <2>2
  <2>4. \A k \in 1..(Len(s) - 1) : t[k] = s[IF k < i THEN k ELSE k + 1]
    BY <2>1
  <2>5. Count(t, A) + Bit(p \in A) = Count(s, A)
    BY <2>1, <2>2, <2>3, <2>4, DropCount
  <2>6. Count(t, A) \in Nat
    BY <1>1 DEF t
  <2> QED BY <1>1, <2>5, <2>6 DEF Bit, t
<1> QED BY <1>2, <1>3


(* Of the places added by a list without repetitions, as many count as the *)
(* list has members of the set.                                            *)
LEMMA ConcatCount ==
  ASSUME NEW s \in Seq(Payload), NEW q \in Seq(Payload),
         \A a, b \in DOMAIN q : q[a] = q[b] => a = b,
         NEW A, NEW M,
         \A a \in DOMAIN q : q[a] \in A => q[a] \in M,
         \A p \in M : p \in A /\ \E a \in DOMAIN q : q[a] = p
  PROVE  /\ IsFiniteSet(M)
         /\ Count(s \o q, A) = Count(s, A) + Cardinality(M)
<1> DEFINE t == s \o q
           V == Within(s, A)
           W == Within(t, A) \ V
           f == [k \in W |-> t[k]]
<1>1. /\ DOMAIN s = 1..Len(s) /\ DOMAIN q = 1..Len(q) /\ DOMAIN t = 1..(Len(s) + Len(q))
      /\ Len(s) \in Nat /\ Len(q) \in Nat
      /\ \A k \in 1..Len(s) : t[k] = s[k]
      /\ \A k \in 1..Len(q) : t[Len(s) + k] = q[k]
      /\ t \in Seq(Payload)
  OBVIOUS
<1> HIDE DEF t
<1>2. IsFiniteSet(V) /\ IsFiniteSet(Within(t, A))
  BY <1>1, CountIs
<1>3. V \in SUBSET Within(t, A)
  BY <1>1 DEF Within
<1>4. ASSUME NEW k \in W
      PROVE  \E a \in DOMAIN q : k = Len(s) + a /\ t[k] = q[a] /\ q[a] \in A
  <2>1. k \in 1..(Len(s) + Len(q)) /\ t[k] \in A /\ k \notin 1..Len(s)
    BY <1>1 DEF Within
  <2> DEFINE a == k - Len(s)
  <2>2. a \in 1..Len(q) /\ k = Len(s) + a
    BY <1>1, <2>1
  <2> HIDE DEF a
  <2>3. a \in DOMAIN q /\ t[k] = q[a]
    BY <1>1, <2>2
  <2> QED BY <2>1, <2>2, <2>3
<1>5. ASSUME NEW a \in DOMAIN q, q[a] \in A
      PROVE  Len(s) + a \in W /\ t[Len(s) + a] = q[a]
  BY <1>1, <1>5 DEF Within
<1> HIDE DEF V, W
<1>6. f \in Surjection(W, M)
  <2>1. f \in [W -> M]
    BY <1>4
  <2>2. ASSUME NEW p \in M PROVE \E k \in W : f[k] = p
    <3>1. PICK a \in DOMAIN q : q[a] = p
      OBVIOUS
    <3> QED BY <1>5, <3>1
  <2> HIDE DEF f
  <2> QED BY <2>1, <2>2 DEF Surjection
<1>7. f \in Injection(W, M)
  <2>1. ASSUME NEW k \in W, NEW m \in W, f[k] = f[m] PROVE k = m
    <3>1. PICK a \in DOMAIN q : k = Len(s) + a /\ t[k] = q[a]
      BY <1>4
    <3>2. PICK b \in DOMAIN q : m = Len(s) + b /\ t[m] = q[b]
      BY <1>4
    <3> QED BY <2>1, <3>1, <3>2
  <2> HIDE DEF f
  <2> QED BY <1>6, <2>1 DEF Injection, IsInjective, Surjection
<1>8. IsFiniteSet(W) /\ Cardinality(W) = Cardinality(Within(t, A)) - Cardinality(V)
  <2>1. Within(t, A) \cap V = V
    BY <1>3
  <2> QED BY <1>2, <2>1, FS_Difference DEF W
<1>9. IsFiniteSet(M) /\ Cardinality(M) = Cardinality(W)
  <2>1. ExistsBijection(W, M)
    BY <1>6, <1>7 DEF ExistsBijection, Bijection
  <2> QED BY <1>8, <2>1, FS_Bijection
<1>10. Cardinality(Within(t, A)) \in Nat /\ Cardinality(V) \in Nat
  BY <1>2, FS_CardinalityType
<1> QED BY <1>8, <1>9, <1>10 DEF Count, V, t

(* The attempts of a job up to the a-th.                                   *)
UpTo(j, a) == [id : {j}, attempt : 1..a]

LEMMA UpToIs ==
  ASSUME NEW j, NEW a \in Nat
  PROVE  /\ IsFiniteSet(UpTo(j, a))
         /\ \A p \in Payload : p \in UpTo(j, a) <=> p.id = j /\ p.attempt <= a
<1> DEFINE f == [i \in 1..a |-> [id |-> j, attempt |-> i]]
<1>1. f \in Surjection(1..a, UpTo(j, a))
  BY DEF Surjection, UpTo
<1>2. IsFiniteSet(1..a)
  BY FS_Interval
<1>3. IsFiniteSet(UpTo(j, a))
  BY <1>1, <1>2, FS_Surjection
<1>4. ASSUME NEW p \in Payload PROVE p \in UpTo(j, a) <=> p.id = j /\ p.attempt <= a
  <2>1. /\ p = [id |-> p.id, attempt |-> p.attempt]
        /\ p.attempt \in 1..Limit[p.id] /\ Limit[p.id] \in Nat
    BY PayloadFields
  <2>2. p \in UpTo(j, a) => p.id = j /\ p.attempt <= a
    BY DEF UpTo
  <2>3. p.id = j /\ p.attempt <= a => p \in UpTo(j, a)
    BY <2>1 DEF UpTo
  <2> QED BY <2>2, <2>3
<1> QED BY <1>3, <1>4

LEMMA UpToPayload ==
  ASSUME NEW j \in Job, NEW a \in 0..Limit[j]
  PROVE  UpTo(j, a) \subseteq Payload
<1>1. Limit[j] \in Nat
  BY RedisAssumption
<1> QED BY <1>1 DEF UpTo, Payload

-----------------------------------------------------------------------------
(* What is owed to an attempt, and who carries a payload.                  *)

(* Delayed payloads of the attempts up to the a-th of job j.               *)
Pending(d, j, a) == Cardinality(d \cap UpTo(j, a))

Busy(hs) == {w \in Worker : hs[w] # None}

(* Workers that may yet enqueue an attempt up to the a-th of job j.        *)
Retriers(pcs, hs, j, a) ==
  {w \in Worker : pcs[w] \in {"handle", "retry"} /\ hs[w] \in UpTo(j, a - 1)}

(* Workers that have yet to take a payload from the processing list.       *)
Carriers(pcs, hs, p) == {w \in Worker : hs[w] = p /\ pcs[w] # "bury"}

(* The calls of an attempt, and all that may still become one, are paid by *)
(* the dispatch of the job and by its requeueings.                         *)
OwedAt(hd, r, d, pcs, hs, calls, req, j, a) ==
  hd[j][a] + Count(r, UpTo(j, a)) + Pending(d, j, a)
    + Cardinality(Retriers(pcs, hs, j, a)) <= Bit(calls[j] # "new") + req[j]

Owed ==
  \A j \in Job : \A a \in 1..Limit[j] :
    OwedAt(handled, ready, delayed, pc, held, call, requeued, j, a)

(* Until something fails, each copy in the processing list has its worker. *)
Carried ==
  faults = 0 /\ requeues = 0 =>
    \A p \in Payload : Count(processing, {p}) <= Cardinality(Carriers(pc, held, p))

DeliveryInv == IsFiniteSet(Busy(held)) /\ Owed /\ Carried

LEMMA AttemptIs ==
  ASSUME NEW j \in Job, NEW a \in 1..Limit[j]
  PROVE  a \in Nat /\ a - 1 \in Nat /\ a - 1 \in 0..Limit[j] /\ a \in 0..Limit[j]
BY RedisAssumption

LEMMA RetriersIs ==
  ASSUME NEW pcs, NEW hs, IsFiniteSet(Busy(hs)), NEW j \in Job, NEW a \in 1..Limit[j]
  PROVE  /\ IsFiniteSet(Retriers(pcs, hs, j, a))
         /\ Cardinality(Retriers(pcs, hs, j, a)) \in Nat
<1>1. UpTo(j, a - 1) \subseteq Payload
  BY AttemptIs, UpToPayload
<1>2. Retriers(pcs, hs, j, a) \in SUBSET Busy(hs)
  BY <1>1, RedisAssumption DEF Retriers, Busy
<1>3. IsFiniteSet(Retriers(pcs, hs, j, a))
  BY <1>2, FS_Subset
<1> QED BY <1>3, FS_CardinalityType

LEMMA CarriersIs ==
  ASSUME NEW pcs, NEW hs, IsFiniteSet(Busy(hs)), NEW p \in Payload
  PROVE  /\ IsFiniteSet(Carriers(pcs, hs, p))
         /\ Cardinality(Carriers(pcs, hs, p)) \in Nat
<1>1. Carriers(pcs, hs, p) \in SUBSET Busy(hs)
  BY RedisAssumption DEF Carriers, Busy
<1>2. IsFiniteSet(Carriers(pcs, hs, p))
  BY <1>1, FS_Subset
<1> QED BY <1>2, FS_CardinalityType

LEMMA PendingIs ==
  ASSUME NEW d, NEW j \in Job, NEW a \in 1..Limit[j]
  PROVE  IsFiniteSet(d \cap UpTo(j, a)) /\ Pending(d, j, a) \in Nat
<1>1. IsFiniteSet(UpTo(j, a))
  BY AttemptIs, UpToIs
<1>2. d \cap UpTo(j, a) \in SUBSET UpTo(j, a)
  OBVIOUS
<1>3. IsFiniteSet(d \cap UpTo(j, a))
  BY <1>1, <1>2, FS_Subset
<1> QED BY <1>3, FS_CardinalityType DEF Pending

LEMMA PendingMore ==
  ASSUME NEW d, NEW p, NEW e, e = d \cup {p}, NEW j \in Job, NEW a \in 1..Limit[j]
  PROVE  Pending(e, j, a) <= Pending(d, j, a) + Bit(p \in UpTo(j, a))
<1>1. PICK S, T : S = d \cap UpTo(j, a) /\ T = e \cap UpTo(j, a)
  OBVIOUS
<1>2. IsFiniteSet(S) /\ Cardinality(S) \in Nat /\ Cardinality(T) \in Nat
  BY <1>1, PendingIs DEF Pending
<1>3. T \ {p} = S \ {p} /\ (p \in T <=> p \in UpTo(j, a))
  BY <1>1
<1>4. Cardinality(T) + Bit(p \in S) = Cardinality(S) + Bit(p \in T)
  BY <1>2, <1>3, SwapOne
<1>5. Bit(p \in T) = Bit(p \in UpTo(j, a)) /\ Bit(p \in S) \in {0, 1}
  BY <1>3 DEF Bit
<1>6. Cardinality(T) <= Cardinality(S) + Bit(p \in T)
  BY <1>2, <1>4, <1>5 DEF Bit
<1> QED BY <1>1, <1>5, <1>6 DEF Pending

LEMMA PendingFewer ==
  ASSUME NEW d, NEW M, M \subseteq d, NEW e, e = d \ M, NEW j \in Job, NEW a \in 1..Limit[j]
  PROVE  Pending(e, j, a) + Pending(M, j, a) = Pending(d, j, a)
<1>1. PICK S, R, T :
        S = d \cap UpTo(j, a) /\ R = M \cap UpTo(j, a) /\ T = e \cap UpTo(j, a)
  OBVIOUS
<1>2. IsFiniteSet(S) /\ Cardinality(S) \in Nat /\ Cardinality(R) \in Nat
  BY <1>1, PendingIs DEF Pending
<1>3. T = S \ R /\ S \cap R = R
  BY <1>1
<1>4. Cardinality(S \ R) = Cardinality(S) - Cardinality(S \cap R)
  BY <1>2, FS_Difference
<1>5. Cardinality(T) = Cardinality(S) - Cardinality(R)
  BY <1>3, <1>4
<1>6. Cardinality(T) + Cardinality(R) = Cardinality(S)
  BY <1>2, <1>5
<1> QED BY <1>1, <1>6 DEF Pending

(* A step changes the place and the delivery of one worker at most.        *)
Alone(w) == \A v \in Worker \ {w} : pc'[v] = pc[v] /\ held'[v] = held[v]

LEMMA AloneIs ==
  ASSUME TypeOK, NEW w \in Worker, NEW state, pc' = [pc EXCEPT ![w] = state],
         held' = held \/ \E h : held' = [held EXCEPT ![w] = h]
  PROVE  Alone(w) /\ pc'[w] = state
BY DEF TypeOK, Alone

LEMMA BusyStep ==
  ASSUME IsFiniteSet(Busy(held)), NEW w \in Worker, Alone(w)
  PROVE  IsFiniteSet(Busy(held'))
<1>1. Busy(held') \ {w} = Busy(held) \ {w}
  BY DEF Busy, Alone
<1> QED BY <1>1, SwapOne

LEMMA RetriersStep ==
  ASSUME IsFiniteSet(Busy(held)), NEW w \in Worker, Alone(w),
         NEW j \in Job, NEW a \in 1..Limit[j]
  PROVE  Cardinality(Retriers(pc', held', j, a)) + Bit(w \in Retriers(pc, held, j, a))
           = Cardinality(Retriers(pc, held, j, a)) + Bit(w \in Retriers(pc', held', j, a))
<1>1. Retriers(pc', held', j, a) \ {w} = Retriers(pc, held, j, a) \ {w}
  BY DEF Retriers, Alone
<1>2. IsFiniteSet(Retriers(pc, held, j, a))
  BY RetriersIs
<1> QED BY <1>1, <1>2, SwapOne

LEMMA CarriersStep ==
  ASSUME IsFiniteSet(Busy(held)), NEW w \in Worker, Alone(w), NEW p \in Payload
  PROVE  Cardinality(Carriers(pc', held', p)) + Bit(w \in Carriers(pc, held, p))
           = Cardinality(Carriers(pc, held, p)) + Bit(w \in Carriers(pc', held', p))
<1>1. Carriers(pc', held', p) \ {w} = Carriers(pc, held, p) \ {w}
  BY DEF Carriers, Alone
<1>2. IsFiniteSet(Carriers(pc, held, p))
  BY CarriersIs
<1> QED BY <1>1, <1>2, SwapOne

(* What is owed stays paid if each part grows by no more than the payment. *)
LEMMA OwedKept ==
  ASSUME QueueInv, QueueInv', DeliveryInv, IsFiniteSet(Busy(held')),
         NEW j \in Job, NEW a \in 1..Limit[j],
         NEW h \in Int, NEW r \in Int, NEW d \in Int, NEW w \in Int, NEW b \in Int,
         handled'[j][a] <= handled[j][a] + h,
         Count(ready', UpTo(j, a)) <= Count(ready, UpTo(j, a)) + r,
         Pending(delayed', j, a) <= Pending(delayed, j, a) + d,
         Cardinality(Retriers(pc', held', j, a)) <= Cardinality(Retriers(pc, held, j, a)) + w,
         Bit(call[j] # "new") + requeued[j] + b <= Bit(call'[j] # "new") + requeued'[j],
         h + r + d + w <= b
  PROVE  OwedAt(handled', ready', delayed', pc', held', call', requeued', j, a)
<1>1. /\ handled[j][a] \in Nat /\ handled'[j][a] \in Nat
      /\ ready \in Seq(Payload) /\ ready' \in Seq(Payload)
      /\ requeued[j] \in Nat /\ requeued'[j] \in Nat
  BY DEF QueueInv, TypeInv, TypeOK
<1>2. Count(ready, UpTo(j, a)) \in Nat /\ Count(ready', UpTo(j, a)) \in Nat
  BY <1>1, CountIs
<1>3. /\ Pending(delayed, j, a) \in Nat
      /\ Pending(delayed', j, a) \in Nat
  BY PendingIs
<1>4. /\ Cardinality(Retriers(pc, held, j, a)) \in Nat
      /\ Cardinality(Retriers(pc', held', j, a)) \in Nat
  BY RetriersIs DEF DeliveryInv
<1>5. Bit(call[j] # "new") \in Nat /\ Bit(call'[j] # "new") \in Nat
  BY DEF Bit
<1>6. OwedAt(handled, ready, delayed, pc, held, call, requeued, j, a)
  BY DEF DeliveryInv, Owed
<1>7. PICK n1 \in Nat, n2 \in Nat, n3 \in Nat, n4 \in Nat, n5 \in Nat, n6 \in Nat :
        /\ n1 = handled[j][a] /\ n2 = Count(ready, UpTo(j, a))
        /\ n3 = Pending(delayed, j, a)
        /\ n4 = Cardinality(Retriers(pc, held, j, a))
        /\ n5 = Bit(call[j] # "new") /\ n6 = requeued[j]
  BY <1>1, <1>2, <1>3, <1>4, <1>5
<1>8. PICK m1 \in Nat, m2 \in Nat, m3 \in Nat, m4 \in Nat, m5 \in Nat, m6 \in Nat :
        /\ m1 = handled'[j][a] /\ m2 = Count(ready', UpTo(j, a))
        /\ m3 = Pending(delayed', j, a)
        /\ m4 = Cardinality(Retriers(pc', held', j, a))
        /\ m5 = Bit(call'[j] # "new") /\ m6 = requeued'[j]
  BY <1>1, <1>2, <1>3, <1>4, <1>5
<1>9. n1 + n2 + n3 + n4 <= n5 + n6
  BY <1>6, <1>7 DEF OwedAt
<1>10. /\ m1 <= n1 + h /\ m2 <= n2 + r /\ m3 <= n3 + d /\ m4 <= n4 + w
       /\ n5 + n6 + b <= m5 + m6
  BY <1>7, <1>8
<1>11. m1 + m2 + m3 + m4 <= m5 + m6
  BY <1>9, <1>10
<1> QED BY <1>8, <1>11 DEF OwedAt

(* A worker that does not take up a payload adds no retry.                 *)
Fewer(w) ==
  \/ pc'[w] \notin {"handle", "retry"}
  \/ pc[w] \in {"handle", "retry"} /\ held'[w] = held[w]

LEMMA RetriersFewer ==
  ASSUME IsFiniteSet(Busy(held)), NEW w \in Worker, Alone(w), Fewer(w),
         NEW j \in Job, NEW a \in 1..Limit[j]
  PROVE  Cardinality(Retriers(pc', held', j, a)) <= Cardinality(Retriers(pc, held, j, a))
<1>1. IsFiniteSet(Busy(held'))
  BY BusyStep
<1>2. PICK n \in Nat, m \in Nat :
        /\ n = Cardinality(Retriers(pc, held, j, a))
        /\ m = Cardinality(Retriers(pc', held', j, a))
  BY <1>1, RetriersIs
<1>3. m + Bit(w \in Retriers(pc, held, j, a)) = n + Bit(w \in Retriers(pc', held', j, a))
  BY <1>2, RetriersStep
<1>4. w \in Retriers(pc', held', j, a) => w \in Retriers(pc, held, j, a)
  BY DEF Retriers, Fewer
<1> QED BY <1>2, <1>3, <1>4 DEF Bit

LEMMA QuietOwed ==
  ASSUME QueueInv, QueueInv', DeliveryInv, IsFiniteSet(Busy(held')),
         UNCHANGED <<handled, ready, delayed, call, requeued>>,
         \A j \in Job : \A a \in 1..Limit[j] :
           Cardinality(Retriers(pc', held', j, a)) <= Cardinality(Retriers(pc, held, j, a))
  PROVE  Owed'
<1> SUFFICES ASSUME NEW j \in Job, NEW a \in 1..Limit[j]
             PROVE  OwedAt(handled', ready', delayed', pc', held', call', requeued', j, a)
  BY DEF Owed
<1>1. /\ handled[j][a] \in Nat /\ ready \in Seq(Payload) /\ requeued[j] \in Nat
  BY DEF QueueInv, TypeInv, TypeOK
<1>2. Count(ready, UpTo(j, a)) \in Nat
  BY <1>1, CountIs
<1>3. Pending(delayed, j, a) \in Nat
  BY PendingIs
<1>4. /\ Cardinality(Retriers(pc, held, j, a)) \in Nat
      /\ Cardinality(Retriers(pc', held', j, a)) \in Nat
  BY RetriersIs DEF DeliveryInv
<1>5. Bit(call[j] # "new") \in Nat
  BY DEF Bit
<1>6. handled'[j][a] <= handled[j][a] + 0
  BY <1>1
<1>7. Count(ready', UpTo(j, a)) <= Count(ready, UpTo(j, a)) + 0
  BY <1>2
<1>8. Pending(delayed', j, a) <= Pending(delayed, j, a) + 0
  BY <1>3
<1>9. Cardinality(Retriers(pc', held', j, a)) <= Cardinality(Retriers(pc, held, j, a)) + 0
  BY <1>4
<1>10. Bit(call[j] # "new") + requeued[j] + 0 <= Bit(call'[j] # "new") + requeued'[j]
  BY <1>1, <1>5
<1>11. 0 + 0 + 0 + 0 <= 0
  OBVIOUS
<1>12. 0 \in Int
  OBVIOUS
<1> QED BY <1>6, <1>7, <1>8, <1>9, <1>10, <1>11, <1>12, OwedKept

LEMMA NoFault ==
  ASSUME TypeOK, NEW o, Fault(o), faults' = 0
  PROVE  faults = 0 /\ o = "ok"
BY RedisAssumption DEF TypeOK, Fault

(* No copy of a payload appears without its worker, or a worker leaves     *)
(* with the last copy.                                                     *)
LEMMA CarriedKept ==
  ASSUME QueueInv, QueueInv', DeliveryInv, NEW w \in Worker, Alone(w),
         faults' = 0 /\ requeues' = 0 =>
           /\ faults = 0 /\ requeues = 0
           /\ \A p \in Payload :
                \/ Count(processing', {p}) = 0
                \/ Count(processing', {p}) + Bit(w \in Carriers(pc, held, p))
                     <= Count(processing, {p}) + Bit(w \in Carriers(pc', held', p))
  PROVE  IsFiniteSet(Busy(held')) /\ Carried'
<1>1. IsFiniteSet(Busy(held')) /\ IsFiniteSet(Busy(held))
  BY BusyStep DEF DeliveryInv
<1>2. ASSUME faults' = 0, requeues' = 0, NEW p \in Payload
      PROVE  Count(processing', {p}) <= Cardinality(Carriers(pc', held', p))
  <2>1. processing \in Seq(Payload) /\ processing' \in Seq(Payload)
    BY DEF QueueInv, TypeInv, TypeOK
  <2>2. PICK n \in Nat, m \in Nat, c \in Nat, d \in Nat :
          /\ n = Count(processing, {p}) /\ m = Count(processing', {p})
          /\ c = Cardinality(Carriers(pc, held, p))
          /\ d = Cardinality(Carriers(pc', held', p))
    BY <1>1, <2>1, CountIs, CarriersIs
  <2>3. PICK i \in {0, 1}, k \in {0, 1} :
          /\ i = Bit(w \in Carriers(pc, held, p))
          /\ k = Bit(w \in Carriers(pc', held', p))
    BY DEF Bit
  <2>4. d + i = c + k
    BY <1>1, <2>2, <2>3, CarriersStep
  <2>5. n <= c
    BY <1>2, <2>2 DEF DeliveryInv, Carried
  <2>6. m = 0 \/ m + i <= n + k
    BY <1>2, <2>2, <2>3
  <2>7. m <= d
    BY <2>4, <2>5, <2>6
  <2> QED BY <2>2, <2>7
<1> QED BY <1>1, <1>2 DEF Carried

(* The processing list stays, and so does what the worker carries.         *)
LEMMA CarriedSame ==
  ASSUME QueueInv, QueueInv', DeliveryInv, NEW w \in Worker, Alone(w),
         UNCHANGED <<processing, requeues>>,
         faults' = 0 => faults = 0 /\ \A p \in Payload :
           w \in Carriers(pc, held, p) => w \in Carriers(pc', held', p)
  PROVE  IsFiniteSet(Busy(held')) /\ Carried'
<1>1. ASSUME faults' = 0, NEW p \in Payload
      PROVE  Count(processing', {p}) + Bit(w \in Carriers(pc, held, p))
               <= Count(processing, {p}) + Bit(w \in Carriers(pc', held', p))
  <2>1. Count(processing, {p}) \in Nat
    BY CountIs DEF QueueInv, TypeInv, TypeOK
  <2>2. w \in Carriers(pc, held, p) => w \in Carriers(pc', held', p)
    BY <1>1
  <2>3. Bit(w \in Carriers(pc, held, p)) <= Bit(w \in Carriers(pc', held', p))
    BY <2>2 DEF Bit
  <2>4. PICK i \in {0, 1}, k \in {0, 1} :
          /\ i = Bit(w \in Carriers(pc, held, p))
          /\ k = Bit(w \in Carriers(pc', held', p))
    BY DEF Bit
  <2> QED BY <2>1, <2>3, <2>4
<1> QED BY <1>1, CarriedKept

(* A worker takes one copy of what it carries from the processing list.    *)
LEMMA CarriedTaken ==
  ASSUME QueueInv, QueueInv', DeliveryInv, NEW w \in Worker, Alone(w),
         held[w] \in Payload, pc[w] # "bury", pc'[w] = "bury" \/ held'[w] = None,
         UNCHANGED requeues,
         faults' = 0 => faults = 0 /\ processing' = LRem(processing, held[w])
  PROVE  IsFiniteSet(Busy(held')) /\ Carried'
<1>1. ASSUME faults' = 0, NEW p \in Payload
      PROVE  \/ Count(processing', {p}) = 0
             \/ Count(processing', {p}) + Bit(w \in Carriers(pc, held, p))
                  <= Count(processing, {p}) + Bit(w \in Carriers(pc', held', p))
  <2>1. /\ processing \in Seq(Payload) /\ processing' \in Seq(Payload)
        /\ processing' = LRem(processing, held[w])
    BY <1>1 DEF QueueInv, TypeInv, TypeOK
  <2>2. Count(processing, {p}) \in Nat /\ Count(processing', {p}) \in Nat
    BY <2>1, CountIs
  <2>3. w \in Carriers(pc, held, p) <=> held[w] = p
    BY DEF Carriers
  <2>4. w \notin Carriers(pc', held', p)
    BY RedisAssumption DEF Carriers
  <2>5. CASE held[w] = p
    <3>1. Bit(w \in Carriers(pc, held, p)) = 1 /\ Bit(w \in Carriers(pc', held', p)) = 0
      BY <2>3, <2>4, <2>5 DEF Bit
    <3>2. /\ Count(processing', {p}) <= Count(processing, {p})
          /\ Count(processing, {p}) > 0 => Count(processing', {p}) + 1 = Count(processing, {p})
      BY <2>1, <2>5, LRemCount
    <3> QED BY <2>2, <3>1, <3>2
  <2>6. CASE held[w] # p
    <3>1. Bit(w \in Carriers(pc, held, p)) = 0 /\ Bit(w \in Carriers(pc', held', p)) = 0
      BY <2>3, <2>4, <2>6 DEF Bit
    <3>2. Count(processing', {p}) = Count(processing, {p})
      BY <2>1, <2>6, LRemCount
    <3> QED BY <2>2, <3>1, <3>2
  <2> QED BY <2>5, <2>6
<1> QED BY <1>1, CarriedKept

-----------------------------------------------------------------------------
(* Each step keeps what is owed paid and each copy carried.                *)

LEMMA DispatchOwes ==
  ASSUME QueueInv, QueueInv', DeliveryInv,
         NEW i \in Job, NEW later \in BOOLEAN, NEW o \in Outcome, Dispatch(i, later, o)
  PROVE  DeliveryInv'
<1> DEFINE p == [id |-> i, attempt |-> 1]
<1>1. TypeOK
  BY DEF QueueInv, TypeInv
<1>2. p \in Payload
  BY PayloadOf, RedisAssumption
<1>3. UNCHANGED <<processing, pc, held, requeues, handled, requeued>>
  BY DEF Dispatch, hist
<1>4. IsFiniteSet(Busy(held'))
  BY <1>3 DEF DeliveryInv
<1>5. Carried'
  BY <1>1, <1>3, NoFault DEF DeliveryInv, Carried, Dispatch
<1>6. ASSUME NEW j \in Job, NEW a \in 1..Limit[j]
      PROVE  OwedAt(handled', ready', delayed', pc', held', call', requeued', j, a)
  <2> DEFINE U == UpTo(j, a)
             r == Bit(Ran(o) /\ ~later /\ p \in U)
             d == Bit(Ran(o) /\ later /\ p \in U)
             b == Bit(i = j)
  <2>1. p \in U => i = j
    BY <1>2, AttemptIs, UpToIs
  <2>2. /\ ready' = IF Ran(o) /\ ~later THEN Append(ready, p) ELSE ready
        /\ delayed' = IF Ran(o) /\ later THEN delayed \cup {p} ELSE delayed
    BY DEF Dispatch
  <2>3. /\ handled[j][a] \in Nat /\ requeued[j] \in Nat
        /\ ready \in Seq(Payload)
    BY <1>1 DEF TypeOK
  <2>4. Count(ready, U) \in Nat /\ Pending(delayed, j, a) \in Nat
    BY <2>3, CountIs, PendingIs
  <2>5. Cardinality(Retriers(pc, held, j, a)) \in Nat
    BY RetriersIs DEF DeliveryInv
  <2> HIDE DEF p
  <2>6. Count(ready', U) <= Count(ready, U) + r
    <3>1. Ran(o) /\ ~later => Count(ready', U) = Count(ready, U) + Bit(p \in U)
      BY <1>2, <2>2, <2>3, AppendCount
    <3>2. ~(Ran(o) /\ ~later) => ready' = ready
      BY <2>2
    <3> QED BY <2>4, <3>1, <3>2 DEF Bit
  <2>7. Pending(delayed', j, a) <= Pending(delayed, j, a) + d
    <3>1. Ran(o) /\ later => Pending(delayed', j, a) <= Pending(delayed, j, a) + Bit(p \in U)
      BY <2>2, PendingMore
    <3>2. ~(Ran(o) /\ later) => delayed' = delayed
      BY <2>2
    <3> QED BY <2>4, <3>1, <3>2 DEF Bit
  <2>8. r \in Int /\ d \in Int /\ b \in Int /\ 0 \in Int /\ 0 + r + d + 0 <= b
    BY <2>1 DEF Bit
  <2>9. Bit(call[j] # "new") + requeued[j] + b <= Bit(call'[j] # "new") + requeued'[j]
    <3>1. i = j => call[j] = "new" /\ call'[j] # "new"
      BY <1>1 DEF Dispatch, TypeOK
    <3>2. i # j => call'[j] = call[j]
      BY <1>1 DEF Dispatch, TypeOK
    <3> QED BY <1>3, <2>3, <3>1, <3>2 DEF Bit
  <2>10. handled'[j][a] <= handled[j][a] + 0
    BY <1>3, <2>3
  <2>11. Cardinality(Retriers(pc', held', j, a)) <= Cardinality(Retriers(pc, held, j, a)) + 0
    BY <1>3, <2>5
  <2> HIDE DEF r, d, b
  <2> QED BY <1>4, <2>6, <2>7, <2>8, <2>9, <2>10, <2>11, OwedKept
<1> QED BY <1>4, <1>5, <1>6 DEF DeliveryInv, Owed

LEMMA PromoteOwes ==
  ASSUME QueueInv, QueueInv', DeliveryInv, NEW w \in Worker, NEW o \in Outcome, Promote(w, o)
  PROVE  DeliveryInv'
<1>1. TypeOK
  BY DEF QueueInv, TypeInv
<1>2. UNCHANGED <<processing, held, requeues, call, handled, requeued>>
  BY DEF Promote, hist
<1>3. PICK state \in {"move", "promote"} : pc' = [pc EXCEPT ![w] = state]
  BY DEF Promote, Goto
<1>4. Alone(w) /\ pc'[w] = state
  BY <1>1, <1>2, <1>3, AloneIs
<1>5. \A p \in Payload : w \notin Carriers(pc, held, p)
  BY <1>1, RedisAssumption DEF Promote, TypeOK, Carriers
<1>6. IsFiniteSet(Busy(held')) /\ Carried'
  <2>1. Fault(o)
    BY DEF Promote
  <2> QED BY <1>1, <1>2, <1>4, <1>5, <2>1, NoFault, CarriedSame
<1>7. \A j \in Job : \A a \in 1..Limit[j] :
        Cardinality(Retriers(pc', held', j, a)) <= Cardinality(Retriers(pc, held, j, a))
  <2>1. Fewer(w)
    BY <1>4 DEF Fewer
  <2> QED BY <1>4, <2>1, RetriersFewer DEF DeliveryInv
<1>8. Owed'
  <2>1. CASE ~Ran(o)
    <3>1. UNCHANGED <<ready, delayed>>
      BY <2>1 DEF Promote
    <3> QED BY <1>2, <1>6, <1>7, <3>1, QuietOwed
  <2>2. CASE Ran(o)
    <3>1. PICK q \in Batch :
            /\ ready' = ready \o q
            /\ delayed' = delayed \ {q[a] : a \in DOMAIN q}
      BY <2>2 DEF Promote
    <3>2. PICK M : M = {q[a] : a \in DOMAIN q}
      OBVIOUS
    <3>3. /\ q \in Seq(Payload) /\ M \subseteq delayed
          /\ \A a, b \in DOMAIN q : q[a] = q[b] => a = b
      <4>1. due \subseteq delayed
        BY <1>1 DEF TypeOK
      <4>2. q \in Seq(Payload) /\ \A a \in DOMAIN q : q[a] \in due
        BY <1>1, BatchTyped
      <4>3. \A a, b \in DOMAIN q : q[a] = q[b] => a = b
        BY DEF Batch
      <4> QED BY <3>2, <4>1, <4>2, <4>3
    <3> SUFFICES ASSUME NEW j \in Job, NEW a \in 1..Limit[j]
                 PROVE  OwedAt(handled', ready', delayed', pc', held', call', requeued', j, a)
      BY DEF Owed
    <3> DEFINE U == UpTo(j, a)
    <3>4. PICK n \in Nat : n = Pending(M, j, a)
      BY PendingIs
    <3>5. /\ handled[j][a] \in Nat /\ requeued[j] \in Nat /\ ready \in Seq(Payload)
      BY <1>1 DEF TypeOK
    <3>6. Count(ready, U) \in Nat /\ Pending(delayed, j, a) \in Nat
      BY <3>5, CountIs, PendingIs
    <3>7. Count(ready', U) = Count(ready, U) + n
      <4>1. PICK N : N = M \cap U
        OBVIOUS
      <4> HIDE DEF U
      <4>2. /\ \A b \in DOMAIN q : q[b] \in U => q[b] \in N
            /\ \A p \in N : p \in U /\ \E b \in DOMAIN q : q[b] = p
        BY <3>2, <4>1
      <4>3. Count(ready \o q, U) = Count(ready, U) + Cardinality(N)
        BY <3>3, <3>5, <4>2, ConcatCount
      <4>4. n = Cardinality(N)
        BY <3>4, <4>1 DEF Pending, U
      <4> QED BY <3>1, <4>3, <4>4
    <3>8. Pending(delayed', j, a) + n = Pending(delayed, j, a)
      <4>1. delayed' = delayed \ M
        BY <3>1, <3>2
      <4>2. Pending(delayed', j, a) + Pending(M, j, a) = Pending(delayed, j, a)
        BY <3>3, <4>1, PendingFewer
      <4> QED BY <3>4, <4>2
    <3>9. Pending(delayed', j, a) \in Nat
      BY PendingIs
    <3>10. /\ Count(ready', U) <= Count(ready, U) + n
           /\ Pending(delayed', j, a) <= Pending(delayed, j, a) + (-n)
      BY <3>6, <3>7, <3>8, <3>9
    <3>11. Cardinality(Retriers(pc', held', j, a)) <= Cardinality(Retriers(pc, held, j, a)) + 0
      <4>1. Cardinality(Retriers(pc, held, j, a)) \in Nat
        BY RetriersIs DEF DeliveryInv
      <4> QED BY <1>7, <4>1
    <3>12. /\ handled'[j][a] <= handled[j][a] + 0
           /\ Bit(call[j] # "new") + requeued[j] + 0 <= Bit(call'[j] # "new") + requeued'[j]
      BY <1>2, <3>5 DEF Bit
    <3>13. n \in Int /\ -n \in Int /\ 0 \in Int /\ 0 + n + (-n) + 0 <= 0
      OBVIOUS
    <3> QED BY <1>6, <3>10, <3>11, <3>12, <3>13, OwedKept
  <2> QED BY <2>1, <2>2
<1> QED BY <1>6, <1>8 DEF DeliveryInv

(* BLMOVE turns a waiting call into a call, or, for an earlier attempt,    *)
(* into one that may yet come; without its answer the call is gone.        *)
LEMMA MoveOwes ==
  ASSUME QueueInv, QueueInv', DeliveryInv, NEW w \in Worker, NEW o \in Outcome, Move(w, o)
  PROVE  DeliveryInv'
<1> DEFINE p == Head(ready)
<1>1. TypeOK /\ ready # <<>> /\ Fault(o) /\ pc[w] = "move"
  BY DEF QueueInv, TypeInv, Move
<1>2. p \in Payload /\ ready \in Seq(Payload) /\ processing \in Seq(Payload)
  BY <1>1, TailHas DEF TypeOK
<1>3. UNCHANGED <<delayed, call, requeues, requeued>>
  BY DEF Move
<1>4. /\ Ran(o) => ready' = Tail(ready) /\ processing' = Append(processing, p)
      /\ ~Ran(o) => UNCHANGED <<ready, processing>>
      /\ o # "ok" => UNCHANGED <<held, handled>>
      /\ o = "ok" => held' = [held EXCEPT ![w] = p]
  BY DEF Move, MoveTo
<1>5. PICK state \in {"promote", "unfit", "handle"} :
        /\ pc' = [pc EXCEPT ![w] = state]
        /\ o # "ok" => state = "promote"
        /\ o = "ok" => state # "promote"
        /\ state # "handle" => UNCHANGED handled
        /\ state = "handle" => handled' = Handled(p)
  BY DEF Move, Goto
<1> HIDE DEF p
<1>6. Alone(w) /\ pc'[w] = state
  BY <1>1, <1>4, <1>5, AloneIs
<1>7. held[w] = None /\ (o = "ok" => held'[w] = p)
  BY <1>1, <1>4 DEF TypeOK
<1>8. IsFiniteSet(Busy(held')) /\ Carried'
  <2>1. ASSUME faults' = 0, NEW x \in Payload
        PROVE  Count(processing', {x}) + Bit(w \in Carriers(pc, held, x))
                 <= Count(processing, {x}) + Bit(w \in Carriers(pc', held', x))
    <3>1. o = "ok" /\ Ran(o)
      BY <1>1, <2>1, NoFault DEF Ran
    <3>2. Count(processing, {x}) \in Nat
      BY <1>2, CountIs
    <3>3. Count(processing', {x}) = Count(processing, {x}) + Bit(p \in {x})
      <4>1. PICK X : X = {x}
        OBVIOUS
      <4>2. processing' = Append(processing, p)
        BY <1>4, <3>1
      <4>3. Count(Append(processing, p), X) = Count(processing, X) + Bit(p \in X)
        BY ONLY <1>2, AppendCount
      <4> QED BY <4>1, <4>2, <4>3
    <3>4. w \notin Carriers(pc, held, x) /\ (w \in Carriers(pc', held', x) <=> p = x)
      BY <1>5, <1>6, <1>7, <3>1, RedisAssumption DEF Carriers
    <3> QED BY <3>2, <3>3, <3>4 DEF Bit
  <2>2. faults' = 0 /\ requeues' = 0 => faults = 0 /\ requeues = 0
    BY <1>1, <1>3, NoFault
  <2> QED BY <1>6, <2>1, <2>2, CarriedKept
<1>9. Owed'
  <2>1. CASE ~Ran(o)
    <3>1. o # "ok" /\ UNCHANGED <<ready, handled, delayed, call, requeued>>
      BY <1>3, <1>4, <2>1 DEF Ran
    <3>2. Fewer(w)
      BY <1>5, <1>6, <3>1 DEF Fewer
    <3>3. \A j \in Job : \A a \in 1..Limit[j] :
            Cardinality(Retriers(pc', held', j, a)) <= Cardinality(Retriers(pc, held, j, a))
      BY <1>6, <3>2, RetriersFewer DEF DeliveryInv
    <3> QED BY <1>8, <3>1, <3>3, QuietOwed
  <2>2. CASE Ran(o)
    <3> SUFFICES ASSUME NEW j \in Job, NEW a \in 1..Limit[j]
                 PROVE  OwedAt(handled', ready', delayed', pc', held', call', requeued', j, a)
      BY DEF Owed
    <3> DEFINE U == UpTo(j, a)
               h == Bit(state = "handle" /\ p.id = j /\ p.attempt = a)
               v == Bit(state = "handle" /\ p \in UpTo(j, a - 1))
               r == -Bit(p \in U)
    <3>1. /\ p \in U <=> p.id = j /\ p.attempt <= a
          /\ p \in UpTo(j, a - 1) <=> p.id = j /\ p.attempt <= a - 1
          /\ p.attempt \in Nat /\ a \in Nat
      BY <1>2, AttemptIs, UpToIs, PayloadFields
    <3>2. /\ handled[j][a] \in Nat /\ requeued[j] \in Nat
          /\ Count(ready, U) \in Nat /\ Count(ready', U) \in Nat
          /\ Pending(delayed, j, a) \in Nat
      <4>1. handled[j] \in [1..Limit[j] -> Nat] /\ requeued[j] \in Nat
        BY <1>1 DEF TypeOK
      <4>2. ready' \in Seq(Payload)
        BY DEF QueueInv, TypeInv, TypeOK
      <4> QED BY <1>2, <4>1, <4>2, CountIs, PendingIs
    <3>3. Cardinality(Retriers(pc, held, j, a)) \in Nat
      BY RetriersIs DEF DeliveryInv
    <3>4. Count(ready', U) <= Count(ready, U) + r
      <4>1. Count(ready', U) + Bit(p \in U) = Count(ready, U)
        BY <1>1, <1>2, <1>4, <2>2, TailCount DEF p
      <4> QED BY <3>2, <4>1 DEF Bit
    <3>5. handled'[j][a] <= handled[j][a] + h
      <4>1. CASE state # "handle"
        BY <1>5, <3>2, <4>1 DEF Bit
      <4>2. CASE state = "handle"
        <5>1. /\ handled[p.id] \in [1..Limit[p.id] -> Nat] /\ p.attempt \in 1..Limit[p.id]
              /\ p.id \in Job /\ handled[j] \in [1..Limit[j] -> Nat]
              /\ handled = [i \in Job |-> handled[i]]
          BY <1>1, <1>2, PayloadFields DEF TypeOK, QueueInv, TypeInv, Counted
        <5>2. handled'[j] = IF j = p.id THEN [handled[j] EXCEPT ![p.attempt] = @ + 1] ELSE handled[j]
          BY <1>5, <4>2, <5>1 DEF Handled
        <5>3. handled'[j][a] = IF j = p.id /\ a = p.attempt THEN handled[j][a] + 1 ELSE handled[j][a]
          BY <5>1, <5>2
        <5> QED BY <3>2, <4>2, <5>3 DEF Bit
      <4> QED BY <4>1, <4>2
    <3>6. Cardinality(Retriers(pc', held', j, a)) <= Cardinality(Retriers(pc, held, j, a)) + v
      <4>1. w \notin Retriers(pc, held, j, a)
        BY <1>1 DEF Retriers
      <4>2. w \in Retriers(pc', held', j, a) => state = "handle" /\ p \in UpTo(j, a - 1)
        BY <1>5, <1>6, <1>7 DEF Retriers
      <4>3. PICK n \in Nat, m \in Nat :
              /\ n = Cardinality(Retriers(pc, held, j, a))
              /\ m = Cardinality(Retriers(pc', held', j, a))
        BY <1>8, <3>3, RetriersIs
      <4>4. m + Bit(w \in Retriers(pc, held, j, a)) = n + Bit(w \in Retriers(pc', held', j, a))
        BY <1>6, <4>3, RetriersStep DEF DeliveryInv
      <4>5. m <= n + v
        BY <4>1, <4>2, <4>4 DEF Bit
      <4> QED BY <4>3, <4>5
    <3>7. /\ Pending(delayed', j, a) <= Pending(delayed, j, a) + 0
          /\ Bit(call[j] # "new") + requeued[j] + 0 <= Bit(call'[j] # "new") + requeued'[j]
      BY <1>3, <3>2 DEF Bit
    <3>8. h \in Int /\ r \in Int /\ v \in Int /\ 0 \in Int /\ h + r + 0 + v <= 0
      BY <3>1 DEF Bit
    <3> HIDE DEF h, r, v
    <3> QED BY <1>8, <3>4, <3>5, <3>6, <3>7, <3>8, OwedKept
  <2> QED BY <2>1, <2>2
<1> QED BY <1>8, <1>9 DEF DeliveryInv

LEMMA UnfitOwes ==
  ASSUME QueueInv, QueueInv', DeliveryInv, NEW w \in Worker, NEW o \in Outcome, Unfit(w, o)
  PROVE  DeliveryInv'
<1>1. TypeOK /\ Fault(o) /\ pc[w] = "unfit"
  BY DEF QueueInv, TypeInv, Unfit
<1>2. /\ pc' = [pc EXCEPT ![w] = "bury"]
      /\ UNCHANGED <<ready, delayed, call, held, requeues, handled, requeued>>
      /\ Ran(o) => processing' = LRem(processing, held[w])
  BY DEF Unfit, Goto, hist
<1>3. Alone(w) /\ pc'[w] = "bury" /\ Fewer(w)
  BY <1>1, <1>2, AloneIs DEF Fewer
<1>4. held[w] \in Payload
  BY <1>1, HeldPayload DEF Idle
<1>5. faults' = 0 => faults = 0 /\ processing' = LRem(processing, held[w])
  BY <1>1, <1>2, NoFault DEF Ran
<1>6. IsFiniteSet(Busy(held')) /\ Carried'
  BY <1>1, <1>2, <1>3, <1>4, <1>5, CarriedTaken
<1>7. \A j \in Job : \A a \in 1..Limit[j] :
        Cardinality(Retriers(pc', held', j, a)) <= Cardinality(Retriers(pc, held, j, a))
  BY <1>3, RetriersFewer DEF DeliveryInv
<1>8. Owed'
  BY <1>2, <1>6, <1>7, QuietOwed
<1> QED BY <1>6, <1>8 DEF DeliveryInv

LEMMA BuryOwes ==
  ASSUME QueueInv, QueueInv', DeliveryInv, NEW w \in Worker, NEW o \in Outcome, Bury(w, o)
  PROVE  DeliveryInv'
<1>1. TypeOK /\ Fault(o) /\ pc[w] = "bury"
  BY DEF QueueInv, TypeInv, Bury
<1>2. /\ pc' = [pc EXCEPT ![w] = "promote"] /\ held' = [held EXCEPT ![w] = None]
      /\ UNCHANGED <<ready, processing, delayed, call, requeues, handled, requeued>>
  BY DEF Bury, Goto, hist
<1>3. Alone(w) /\ Fewer(w)
  BY <1>1, <1>2, AloneIs DEF Fewer
<1>4. \A p \in Payload : w \notin Carriers(pc, held, p)
  BY <1>1 DEF Carriers
<1>5. IsFiniteSet(Busy(held')) /\ Carried'
  BY <1>1, <1>2, <1>3, <1>4, NoFault, CarriedSame
<1>6. \A j \in Job : \A a \in 1..Limit[j] :
        Cardinality(Retriers(pc', held', j, a)) <= Cardinality(Retriers(pc, held, j, a))
  BY <1>3, RetriersFewer DEF DeliveryInv
<1>7. Owed'
  BY <1>2, <1>5, <1>6, QuietOwed
<1> QED BY <1>5, <1>7 DEF DeliveryInv

(* The retry of an attempt is enqueued by the worker that owed it.         *)
LEMMA SettleOwes ==
  ASSUME QueueInv, QueueInv', DeliveryInv, NEW w \in Worker, NEW o \in Outcome, Settle(w, o)
  PROVE  DeliveryInv'
<1> DEFINE p == held[w]
           next == [p EXCEPT !.attempt = @ + 1]
<1>1. TypeOK /\ Fault(o) /\ pc[w] \in {"ack", "retry", "reject"}
  BY DEF QueueInv, TypeInv, Settle
<1>2. /\ pc' = [pc EXCEPT ![w] = "promote"] /\ held' = [held EXCEPT ![w] = None]
      /\ UNCHANGED <<ready, call, requeues, handled, requeued>>
      /\ Ran(o) => processing' = LRem(processing, p)
      /\ Ran(o) /\ pc[w] = "retry" => delayed' = delayed \cup {next}
      /\ ~(Ran(o) /\ pc[w] = "retry") => UNCHANGED delayed
  BY DEF Settle, Goto, hist
<1>3. Alone(w) /\ pc'[w] = "promote" /\ Fewer(w) /\ held'[w] = None
  <2>1. Alone(w) /\ pc'[w] = "promote"
    BY <1>1, <1>2, AloneIs
  <2> QED BY <1>1, <1>2, <2>1 DEF Fewer, TypeOK
<1>4. p \in Payload
  BY <1>1, HeldPayload DEF Idle
<1>5. IsFiniteSet(Busy(held')) /\ Carried'
  <2>1. faults' = 0 => faults = 0 /\ processing' = LRem(processing, held[w])
    BY <1>1, <1>2, NoFault DEF Ran
  <2> QED BY <1>1, <1>2, <1>3, <1>4, <2>1, CarriedTaken
<1>6. \A j \in Job : \A a \in 1..Limit[j] :
        Cardinality(Retriers(pc', held', j, a)) <= Cardinality(Retriers(pc, held, j, a))
  BY <1>3, RetriersFewer DEF DeliveryInv
<1>7. Owed'
  <2>1. CASE ~(Ran(o) /\ pc[w] = "retry")
    BY <1>2, <1>5, <1>6, <2>1, QuietOwed
  <2>2. CASE Ran(o) /\ pc[w] = "retry"
    <3> SUFFICES ASSUME NEW j \in Job, NEW a \in 1..Limit[j]
                 PROVE  OwedAt(handled', ready', delayed', pc', held', call', requeued', j, a)
      BY DEF Owed
    <3> DEFINE b == Bit(p \in UpTo(j, a - 1))
    <3>1. /\ next \in Payload /\ next.id = p.id /\ next.attempt = p.attempt + 1
          /\ p.attempt \in Nat
      <4>1. p.attempt < Limit[p.id]
        BY <2>2 DEF QueueInv, TypeInv, HeldFits, MayRetry
      <4>2. p.attempt \in Nat /\ p = [id |-> p.id, attempt |-> p.attempt]
        BY <1>4, PayloadFields
      <4>3. next = [id |-> p.id, attempt |-> p.attempt + 1]
        BY <4>2
      <4> QED BY <1>4, <4>1, <4>2, <4>3, NextAttempt
    <3> HIDE DEF next
    <3>2. next \in UpTo(j, a) <=> p \in UpTo(j, a - 1)
      BY <1>4, <3>1, AttemptIs, UpToIs
    <3>3. /\ handled[j][a] \in Nat /\ requeued[j] \in Nat
          /\ Count(ready, UpTo(j, a)) \in Nat
      <4>1. handled[j] \in [1..Limit[j] -> Nat] /\ requeued[j] \in Nat /\ ready \in Seq(Payload)
        BY <1>1 DEF TypeOK
      <4> QED BY <4>1, CountIs
    <3>4. Pending(delayed', j, a) <= Pending(delayed, j, a) + b
      <4>1. Pending(delayed', j, a) <= Pending(delayed, j, a) + Bit(next \in UpTo(j, a))
        BY <1>2, <2>2, PendingMore
      <4> QED BY <3>2, <4>1 DEF Bit
    <3>5. Cardinality(Retriers(pc', held', j, a)) <= Cardinality(Retriers(pc, held, j, a)) + (-b)
      <4>1. w \in Retriers(pc, held, j, a) <=> p \in UpTo(j, a - 1)
        BY <2>2 DEF Retriers
      <4>2. w \notin Retriers(pc', held', j, a)
        BY <1>3 DEF Retriers
      <4>3. PICK n \in Nat, m \in Nat :
              /\ n = Cardinality(Retriers(pc, held, j, a))
              /\ m = Cardinality(Retriers(pc', held', j, a))
        BY <1>5, RetriersIs DEF DeliveryInv
      <4>4. m + Bit(w \in Retriers(pc, held, j, a)) = n + Bit(w \in Retriers(pc', held', j, a))
        BY <1>3, <4>3, RetriersStep DEF DeliveryInv
      <4>5. m <= n + (-b)
        BY <4>1, <4>2, <4>4 DEF Bit
      <4> QED BY <4>3, <4>5
    <3>6. /\ handled'[j][a] <= handled[j][a] + 0
          /\ Count(ready', UpTo(j, a)) <= Count(ready, UpTo(j, a)) + 0
          /\ Bit(call[j] # "new") + requeued[j] + 0 <= Bit(call'[j] # "new") + requeued'[j]
      BY <1>2, <3>3 DEF Bit
    <3>7. b \in Int /\ -b \in Int /\ 0 \in Int /\ 0 + 0 + b + (-b) <= 0
      BY DEF Bit
    <3> HIDE DEF b
    <3> QED BY <1>5, <3>4, <3>5, <3>6, <3>7, OwedKept
  <2> QED BY <2>1, <2>2
<1> QED BY <1>5, <1>7 DEF DeliveryInv

LEMMA WorkerOwes ==
  ASSUME QueueInv, QueueInv', DeliveryInv, NEW w \in Worker,
         \/ MoveTimeout(w)
         \/ HandlerSucceeds(w) \/ HandlerFails(w) \/ HandlerFailsPermanently(w)
         \/ Crash(w) \/ Restart(w)
  PROVE  DeliveryInv'
<1>1. TypeOK
  BY DEF QueueInv, TypeInv
<1>2. UNCHANGED <<ready, processing, delayed, call, requeues, handled, requeued>>
  BY DEF MoveTimeout, HandlerSucceeds, HandlerFails, HandlerFailsPermanently, Crash, Restart,
         lists, hist
<1>3. /\ Alone(w) /\ Fewer(w)
      /\ faults' = 0 => faults = 0 /\ \A p \in Payload :
           w \in Carriers(pc, held, p) => w \in Carriers(pc', held', p)
  <2>1. CASE Crash(w)
    <3>1. pc' = [pc EXCEPT ![w] = "down"] /\ held' = [held EXCEPT ![w] = None]
      BY <2>1 DEF Crash, Goto
    <3>2. faults' # 0
      BY <1>1, <2>1, RedisAssumption DEF Crash, TypeOK
    <3> QED BY <1>1, <3>1, <3>2, AloneIs DEF Fewer
  <2>2. CASE MoveTimeout(w) \/ Restart(w)
    <3>1. pc' = [pc EXCEPT ![w] = "promote"] /\ UNCHANGED <<held, faults>> /\ held[w] = None
      BY <1>1, <2>2 DEF MoveTimeout, Restart, Goto, TypeOK
    <3>2. \A p \in Payload : w \notin Carriers(pc, held, p)
      BY <3>1, RedisAssumption DEF Carriers
    <3> QED BY <1>1, <3>1, <3>2, AloneIs DEF Fewer
  <2>3. CASE HandlerSucceeds(w) \/ HandlerFails(w) \/ HandlerFailsPermanently(w)
    <3>1. PICK state \in {"ack", "retry", "reject"} : pc' = [pc EXCEPT ![w] = state]
      BY <2>3 DEF HandlerSucceeds, HandlerFails, HandlerFailsPermanently, Goto
    <3>2. UNCHANGED <<held, faults>> /\ pc[w] = "handle"
      BY <2>3 DEF HandlerSucceeds, HandlerFails, HandlerFailsPermanently, hist
    <3>3. Alone(w) /\ pc'[w] = state
      BY <1>1, <3>1, <3>2, AloneIs
    <3> QED BY <3>1, <3>2, <3>3 DEF Fewer, Carriers
  <2> QED BY <2>1, <2>2, <2>3
<1>4. IsFiniteSet(Busy(held')) /\ Carried'
  BY <1>2, <1>3, CarriedSame
<1>5. \A j \in Job : \A a \in 1..Limit[j] :
        Cardinality(Retriers(pc', held', j, a)) <= Cardinality(Retriers(pc, held, j, a))
  BY <1>3, RetriersFewer DEF DeliveryInv
<1>6. Owed'
  BY <1>2, <1>4, <1>5, QuietOwed
<1> QED BY <1>4, <1>6 DEF DeliveryInv

(* RequeueProcessing pays for the call it enables.                         *)
LEMMA RequeueOwes ==
  ASSUME QueueInv, QueueInv', DeliveryInv, Requeue
  PROVE  DeliveryInv'
<1> DEFINE p == Head(processing)
<1>1. TypeOK /\ processing # <<>>
  BY DEF QueueInv, TypeInv, Requeue
<1>2. p \in Payload /\ ready \in Seq(Payload) /\ p.id \in Job
  BY <1>1, TailHas, PayloadFields DEF TypeOK
<1>3. /\ UNCHANGED <<delayed, call, pc, held, faults, handled>>
      /\ ready' = Append(ready, p)
      /\ requeued' = [requeued EXCEPT ![p.id] = @ + 1]
      /\ requeues' = requeues + 1
  BY DEF Requeue
<1> HIDE DEF p
<1>4. IsFiniteSet(Busy(held'))
  BY <1>3 DEF DeliveryInv
<1>5. Carried'
  BY <1>1, <1>3 DEF Carried, TypeOK
<1>6. ASSUME NEW j \in Job, NEW a \in 1..Limit[j]
      PROVE  OwedAt(handled', ready', delayed', pc', held', call', requeued', j, a)
  <2> DEFINE r == Bit(p \in UpTo(j, a))
             b == Bit(p.id = j)
  <2>1. p \in UpTo(j, a) => p.id = j
    BY <1>2, AttemptIs, UpToIs
  <2>2. handled[j][a] \in Nat /\ requeued[j] \in Nat /\ Pending(delayed, j, a) \in Nat
    <3>1. handled[j] \in [1..Limit[j] -> Nat] /\ requeued[j] \in Nat
      BY <1>1 DEF TypeOK
    <3> QED BY <3>1, PendingIs
  <2>3. Cardinality(Retriers(pc, held, j, a)) \in Nat
    BY RetriersIs DEF DeliveryInv
  <2>4. Count(ready, UpTo(j, a)) \in Nat
    BY <1>2, CountIs
  <2>5. Count(ready', UpTo(j, a)) <= Count(ready, UpTo(j, a)) + r
    <3>1. Count(ready', UpTo(j, a)) = Count(ready, UpTo(j, a)) + r
      BY <1>2, <1>3, AppendCount
    <3>2. r \in {0, 1}
      BY DEF Bit
    <3> HIDE DEF r
    <3> QED BY <2>4, <3>1, <3>2
  <2>6. Bit(call[j] # "new") + requeued[j] + b <= Bit(call'[j] # "new") + requeued'[j]
    <3>1. requeued'[j] = requeued[j] + b
      BY <1>1, <1>2, <1>3 DEF TypeOK, Bit
    <3>2. call'[j] = call[j] /\ b \in {0, 1} /\ Bit(call[j] # "new") \in {0, 1}
      BY <1>3 DEF Bit
    <3> HIDE DEF b
    <3> QED BY <2>2, <3>1, <3>2
  <2>7. r \in Int /\ b \in Int /\ 0 \in Int /\ 0 + r + 0 + 0 <= b
    BY <2>1 DEF Bit
  <2>8. /\ handled'[j][a] <= handled[j][a] + 0
        /\ Pending(delayed', j, a) <= Pending(delayed, j, a) + 0
        /\ Cardinality(Retriers(pc', held', j, a)) <= Cardinality(Retriers(pc, held, j, a)) + 0
    BY <1>3, <2>2, <2>3
  <2> HIDE DEF r, b
  <2> QED BY <1>4, <2>5, <2>6, <2>7, <2>8, OwedKept
<1> QED BY <1>4, <1>5, <1>6 DEF DeliveryInv, Owed

LEMMA RestOwes ==
  ASSUME QueueInv, QueueInv', DeliveryInv, UNCHANGED vars \/ \E p \in delayed : BecomeDue(p)
  PROVE  DeliveryInv'
<1>1. UNCHANGED <<ready, processing, delayed, call, pc, held, faults, requeues, handled, requeued>>
  BY DEF BecomeDue, vars, lists, hist
<1>2. IsFiniteSet(Busy(held')) /\ Carried'
  BY <1>1 DEF DeliveryInv, Carried
<1>3. Owed'
  BY <1>1 DEF DeliveryInv, Owed
<1> QED BY <1>2, <1>3 DEF DeliveryInv

LEMMA DeliveryInit == Init => DeliveryInv
<1> SUFFICES ASSUME Init PROVE DeliveryInv
  OBVIOUS
<1>1. Busy(held) = {}
  BY DEF Init, Busy
<1>2. IsFiniteSet(Busy(held))
  BY <1>1, FS_EmptySet
<1>3. ready \in Seq(Payload) /\ processing \in Seq(Payload)
  BY DEF Init
<1>4. Carried
  <2>1. ASSUME NEW p \in Payload
        PROVE  Count(processing, {p}) <= Cardinality(Carriers(pc, held, p))
    <3>1. Count(processing, {p}) = 0
      BY EmptyCount DEF Init
    <3>2. Cardinality(Carriers(pc, held, p)) \in Nat
      BY <1>2, CarriersIs
    <3> QED BY <3>1, <3>2
  <2> QED BY <2>1 DEF Carried
<1>5. Owed
  <2> SUFFICES ASSUME NEW j \in Job, NEW a \in 1..Limit[j]
               PROVE  OwedAt(handled, ready, delayed, pc, held, call, requeued, j, a)
    BY DEF Owed
  <2>1. Count(ready, UpTo(j, a)) = 0
    BY EmptyCount DEF Init
  <2>2. Pending(delayed, j, a) = 0
    <3>1. delayed \cap UpTo(j, a) = {}
      BY DEF Init
    <3> QED BY <3>1, FS_EmptySet DEF Pending
  <2>3. Cardinality(Retriers(pc, held, j, a)) = 0
    <3>1. Retriers(pc, held, j, a) = {}
      BY DEF Init, Retriers
    <3> QED BY <3>1, FS_EmptySet
  <2>4. handled[j][a] = 0 /\ requeued[j] = 0 /\ Bit(call[j] # "new") = 0
    BY DEF Init, Bit
  <2> QED BY <2>1, <2>2, <2>3, <2>4 DEF OwedAt
<1> QED BY <1>2, <1>4, <1>5 DEF DeliveryInv

LEMMA DeliveryNext == QueueInv /\ QueueInv' /\ DeliveryInv /\ [Next]_vars => DeliveryInv'
<1> SUFFICES ASSUME QueueInv, QueueInv', DeliveryInv, [Next]_vars PROVE DeliveryInv'
  OBVIOUS
<1>1. ASSUME NEW o \in Outcome, NEW j \in Job, NEW later \in BOOLEAN, Dispatch(j, later, o)
      PROVE  DeliveryInv'
  BY <1>1, DispatchOwes
<1>2. ASSUME NEW o \in Outcome, NEW w \in Worker, Work(w, o) PROVE DeliveryInv'
  BY <1>2, PromoteOwes, MoveOwes, UnfitOwes, BuryOwes, SettleOwes DEF Work
<1>3. ASSUME NEW w \in Worker,
             \/ MoveTimeout(w)
             \/ HandlerSucceeds(w) \/ HandlerFails(w) \/ HandlerFailsPermanently(w)
             \/ Crash(w) \/ Restart(w)
      PROVE  DeliveryInv'
  BY <1>3, WorkerOwes
<1>4. CASE Requeue
  BY <1>4, RequeueOwes
<1>5. CASE UNCHANGED vars \/ \E p \in delayed : BecomeDue(p)
  BY <1>5, RestOwes
<1> QED BY <1>1, <1>2, <1>3, <1>4, <1>5 DEF Next

LEMMA DeliveryInvariance == Spec => []DeliveryInv
<1>1. Init => DeliveryInv
  BY DeliveryInit
<1>2. QueueInv /\ QueueInv' /\ DeliveryInv /\ [Next]_vars => DeliveryInv'
  BY DeliveryNext
<1> QED BY <1>1, <1>2, QueueInvariance, PTL DEF Spec

(* However many workers promote, crash or lose an answer, an attempt of a  *)
(* job is handled once, and once more for each time RequeueProcessing      *)
(* moved the job (Enqueue, Receive, promoteScript, Retry).                 *)
THEOREM RedisDeliversOnce == Spec => []DeliveredOncePerAttempt
<1>1. QueueInv /\ DeliveryInv => DeliveredOncePerAttempt
  <2> SUFFICES ASSUME QueueInv, DeliveryInv, NEW j \in Job, NEW a \in 1..Limit[j]
               PROVE  handled[j][a] <= 1 + requeued[j]
    BY DEF DeliveredOncePerAttempt
  <2>1. /\ handled[j] \in [1..Limit[j] -> Nat] /\ requeued[j] \in Nat /\ ready \in Seq(Payload)
    BY DEF QueueInv, TypeInv, TypeOK
  <2>2. PICK h \in Nat, r \in Nat, d \in Nat, w \in Nat, n \in Nat, b \in {0, 1} :
          /\ h = handled[j][a] /\ r = Count(ready, UpTo(j, a)) /\ d = Pending(delayed, j, a)
          /\ w = Cardinality(Retriers(pc, held, j, a)) /\ n = requeued[j]
          /\ b = Bit(call[j] # "new")
    BY <2>1, CountIs, PendingIs, RetriersIs DEF DeliveryInv, Bit
  <2>3. h + r + d + w <= b + n
    BY <2>2 DEF DeliveryInv, Owed, OwedAt
  <2>4. h <= 1 + n
    BY <2>3
  <2> QED BY <2>2, <2>4
<1> QED BY <1>1, QueueInvariance, DeliveryInvariance, PTL

(* A job stays in the processing list without a worker only after a fault  *)
(* or a requeueing (Receive, Ack, Retry, Reject).                          *)
THEOREM RedisStrandsByFault == Spec => []StrandedByFault
<1>1. QueueInv /\ DeliveryInv => StrandedByFault
  <2> SUFFICES ASSUME QueueInv, DeliveryInv, NEW j \in Job, Stranded(j),
                      ~(faults > 0 \/ requeues > 0)
               PROVE  FALSE
    BY DEF StrandedByFault
  <2>1. PICK k \in DOMAIN processing : Copies(processing[k]) > Holders(processing[k])
    BY DEF Stranded
  <2>2. PICK p \in Payload : p = processing[k]
    BY DEF QueueInv, TypeInv, TypeOK
  <2>3. faults = 0 /\ requeues = 0
    BY RedisAssumption DEF QueueInv, TypeInv, TypeOK
  <2>4. Count(processing, {p}) <= Cardinality(Carriers(pc, held, p))
    BY <2>3 DEF DeliveryInv, Carried
  <2>5. Copies(p) = Count(processing, {p})
    <3>1. Within(processing, {p}) = {i \in DOMAIN processing : processing[i] = p}
      BY DEF Within
    <3> QED BY <3>1 DEF Copies, Count
  <2>6. Cardinality(Carriers(pc, held, p)) <= Holders(p) /\ Holders(p) \in Nat
    <3>1. PICK H : H = {v \in Worker : held[v] = p}
      OBVIOUS
    <3>2. H \in SUBSET Busy(held) /\ Carriers(pc, held, p) \in SUBSET H
      BY <3>1, RedisAssumption DEF Busy, Carriers
    <3>3. IsFiniteSet(H)
      BY <3>2, FS_Subset DEF DeliveryInv
    <3>4. Cardinality(Carriers(pc, held, p)) <= Cardinality(H) /\ Cardinality(H) \in Nat
      BY <3>2, <3>3, FS_Subset, FS_CardinalityType
    <3> QED BY <3>1, <3>4 DEF Holders
  <2>7. Cardinality(Carriers(pc, held, p)) \in Nat /\ Count(processing, {p}) \in Nat
    BY CarriersIs, CountIs DEF DeliveryInv, QueueInv, TypeInv, TypeOK
  <2>8. Copies(p) > Holders(p)
    BY <2>1, <2>2
  <2> QED BY <2>4, <2>5, <2>6, <2>7, <2>8
<1> QED BY <1>1, QueueInvariance, DeliveryInvariance, PTL
=============================================================================

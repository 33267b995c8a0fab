----------------------------- MODULE RedisQueue -----------------------------
(***************************************************************************)
(* The job queue of contrib/redis/queue.go: lists in Redis, shared by the  *)
(* workers of several processes.                                           *)
(*                                                                         *)
(* Every Redis command, script or transaction is one step, and each may    *)
(* fail in two ways: it did not run ("refused"), or it ran and its answer  *)
(* was lost ("lost").  A process may crash between any two of its steps.   *)
(* RequeueProcessing may be called at any time, also while workers run,    *)
(* which its comment advises against.                                      *)
(*                                                                         *)
(* A payload is the job and its attempt.  The head of a list is its RIGHT. *)
(***************************************************************************)
EXTENDS Naturals, Sequences, FiniteSets

CONSTANTS Job, Worker,
          Limit,        \* attempts each job may use
          Foreign,      \* jobs whose payload the workers may not be able to decode
          PromoteLimit, \* delayed jobs one script call moves
          MaxFaults,    \* bound: failed commands and crashes
          MaxRequeues,  \* bound: jobs moved by RequeueProcessing
          None

Payload == UNION {[id : {j}, attempt : 1..Limit[j]] : j \in Job}

ASSUME RedisAssumption ==
  /\ Limit \in [Job -> Nat \ {0}]
  /\ Foreign \subseteq Job
  /\ PromoteLimit \in Nat \ {0}
  /\ MaxFaults \in Nat /\ MaxRequeues \in Nat
  /\ None \notin Payload

VARIABLES ready, processing, \* lists
          garbled,           \* jobs whose payload cannot be decoded
          delayed, due,      \* sorted set, and its members whose time has come
          dead,              \* list, as a set
          call,              \* Dispatch(j): new, accepted or failed
          pc, held,          \* a worker's place and delivery
          faults, requeues,
          \* history: handler calls per attempt, handled with success,
          \* moves of the job by RequeueProcessing
          handled, done, requeued

lists == <<garbled, ready, processing, delayed, due, dead>>
hist == <<handled, done, requeued>>
vars == <<lists, call, pc, held, faults, requeues, hist>>

WorkerState == {"down", "promote", "move", "unfit", "bury", "handle",
                "ack", "retry", "reject"}

TypeOK ==
  /\ garbled \subseteq Foreign
  /\ ready \in Seq(Payload) /\ processing \in Seq(Payload)
  /\ delayed \subseteq Payload /\ due \subseteq delayed /\ dead \subseteq Payload
  /\ call \in [Job -> {"new", "accepted", "failed"}]
  /\ pc \in [Worker -> WorkerState]
  /\ held \in [Worker -> Payload \cup {None}]
  /\ \A w \in Worker : held[w] = None <=> pc[w] \in {"down", "promote", "move"}
  /\ faults \in 0..MaxFaults /\ requeues \in 0..MaxRequeues
  /\ \A j \in Job : handled[j] \in [1..Limit[j] -> Nat]
  /\ done \subseteq Job
  /\ requeued \in [Job -> Nat]

Init ==
  /\ garbled \in SUBSET Foreign
  /\ ready = <<>> /\ processing = <<>>
  /\ delayed = {} /\ due = {} /\ dead = {}
  /\ call = [j \in Job |-> "new"]
  /\ pc = [w \in Worker |-> "promote"]
  /\ held = [w \in Worker |-> None]
  /\ faults = 0 /\ requeues = 0
  /\ handled = [j \in Job |-> [a \in 1..Limit[j] |-> 0]]
  /\ done = {}
  /\ requeued = [j \in Job |-> 0]

-----------------------------------------------------------------------------
(* Redis.                                                                  *)

(* How a command ends for its caller.                                      *)
Outcome == {"ok", "lost", "refused"}
Ran(o) == o # "refused"
Fault(o) ==
  IF o = "ok" THEN UNCHANGED faults
  ELSE faults < MaxFaults /\ faults' = faults + 1

(* (Slip: the value is encoded anew and matches nothing in the list.)      *)
LRemOther(s, p) == s

(* LREM key 1 p: the occurrence nearest to the LEFT goes.                  *)
LRem(s, p) ==
  IF \A k \in DOMAIN s : s[k] # p THEN s
  ELSE LET i == CHOOSE i \in DOMAIN s : s[i] = p /\ \A k \in DOMAIN s : k > i => s[k] # p
       IN  [k \in 1..(Len(s) - 1) |-> s[IF k < i THEN k ELSE k + 1]]

(* The time of a delayed job comes.                                        *)
BecomeDue(p) ==
  /\ p \in delayed \ due
  /\ due' = due \cup {p}
  /\ UNCHANGED <<garbled, ready, processing, delayed, dead, call, pc, held, faults, requeues, hist>>

(* The due members a script call moves, by score.                          *)
Batch ==
  {q \in UNION {[1..n -> due] : n \in 0..PromoteLimit} :
     /\ \A a, b \in DOMAIN q : q[a] = q[b] => a = b
     /\ Len(q) = PromoteLimit \/ \A p \in due : \E a \in DOMAIN q : q[a] = p}

-----------------------------------------------------------------------------
(* Enqueue.                                                                *)

Dispatch(j, later, o) ==
  LET p == [id |-> j, attempt |-> 1]
  IN  /\ call[j] = "new"
      /\ Fault(o)
      /\ call' = [call EXCEPT ![j] = IF o = "ok" THEN "accepted" ELSE "failed"]
      /\ ready' = IF Ran(o) /\ ~later THEN Append(ready, p) ELSE ready
      /\ delayed' = IF Ran(o) /\ later THEN delayed \cup {p} ELSE delayed
      /\ UNCHANGED <<garbled, processing, due, dead, pc, held, requeues, hist>>

-----------------------------------------------------------------------------
(* A worker: Receive, the handler, and the settling of the delivery.       *)

Goto(w, state) == pc' = [pc EXCEPT ![w] = state]

(* (Slip: the script leaves what it moved in the sorted set.)              *)
PromoteKeeping(w, o) ==
  /\ pc[w] = "promote"
  /\ Fault(o)
  /\ IF Ran(o) THEN \E q \in Batch : ready' = ready \o q ELSE UNCHANGED ready
  /\ Goto(w, IF o = "ok" THEN "move" ELSE "promote")
  /\ UNCHANGED <<garbled, processing, delayed, due, dead, call, held, requeues, hist>>

(* (Slip: Receive does not promote.)                                       *)
PromoteNothing(w, o) ==
  /\ pc[w] = "promote"
  /\ Fault(o)
  /\ Goto(w, IF o = "ok" THEN "move" ELSE "promote")
  /\ UNCHANGED <<lists, call, held, requeues, hist>>

(* An error makes Receive return, and the worker call it again.            *)
Promote(w, o) ==
  /\ pc[w] = "promote"
  /\ Fault(o)
  /\ IF Ran(o)
       THEN \E q \in Batch :
              LET moved == {q[a] : a \in DOMAIN q}
              IN  ready' = ready \o q /\ delayed' = delayed \ moved /\ due' = due \ moved
       ELSE UNCHANGED <<ready, delayed, due>>
  /\ Goto(w, IF o = "ok" THEN "move" ELSE "promote")
  /\ UNCHANGED <<garbled, processing, dead, call, held, requeues, hist>>

Handled(p) == [handled EXCEPT ![p.id][p.attempt] = @ + 1]

(* (Slip: the job is popped and kept only by its worker.)                  *)
Pop(p) == ready' = Tail(ready) /\ UNCHANGED processing

(* BLMOVE ready processing RIGHT LEFT.                                     *)
MoveTo(p) == ready' = Tail(ready) /\ processing' = Append(processing, p)

Move(w, o) ==
  /\ pc[w] = "move"
  /\ ready # <<>>
  /\ Fault(o)
  /\ LET p == Head(ready)
     IN  /\ IF Ran(o) THEN MoveTo(p) ELSE UNCHANGED <<ready, processing>>
         /\ IF o # "ok" THEN Goto(w, "promote") /\ UNCHANGED <<held, handled>>
            ELSE /\ held' = [held EXCEPT ![w] = p]
                 /\ IF p.id \in garbled
                      THEN Goto(w, "unfit") /\ UNCHANGED handled
                      ELSE Goto(w, "handle") /\ handled' = Handled(p)
  /\ UNCHANGED <<garbled, delayed, due, dead, call, requeues, done, requeued>>

(* The poll interval passes.                                               *)
MoveTimeout(w) ==
  /\ pc[w] = "move"
  /\ ready = <<>>
  /\ Goto(w, "promote")
  /\ UNCHANGED <<lists, call, held, faults, requeues, hist>>

(* A payload that cannot be decoded: two commands whose errors are ignored. *)
Unfit(w, o) ==
  /\ pc[w] = "unfit"
  /\ Fault(o)
  /\ processing' = IF Ran(o) THEN LRem(processing, held[w]) ELSE processing
  /\ Goto(w, "bury")
  /\ UNCHANGED <<garbled, ready, delayed, due, dead, call, held, requeues, hist>>

Bury(w, o) ==
  /\ pc[w] = "bury"
  /\ Fault(o)
  /\ dead' = IF Ran(o) THEN dead \cup {held[w]} ELSE dead
  /\ Goto(w, "promote")
  /\ held' = [held EXCEPT ![w] = None]
  /\ UNCHANGED <<garbled, ready, processing, delayed, due, call, requeues, hist>>

HandlerSucceeds(w) ==
  /\ pc[w] = "handle"
  /\ done' = done \cup {held[w].id}
  /\ Goto(w, "ack")
  /\ UNCHANGED <<lists, call, held, faults, requeues, handled, requeued>>

(* (Slip: the limit counts retries.)                                       *)
MayRetryOneMore(p) == p.attempt <= Limit[p.id]
MayRetry(p) == p.attempt < Limit[p.id]

HandlerFails(w) ==
  /\ pc[w] = "handle"
  /\ Goto(w, IF MayRetry(held[w]) THEN "retry" ELSE "reject")
  /\ UNCHANGED <<lists, call, held, faults, requeues, hist>>

HandlerFailsPermanently(w) ==
  /\ pc[w] = "handle"
  /\ Goto(w, "reject")
  /\ UNCHANGED <<lists, call, held, faults, requeues, hist>>

(* Ack is one command, Retry and Reject are transactions.  An error is     *)
(* logged, and the worker goes on.                                         *)
Settle(w, o) ==
  LET p == held[w]
  IN  /\ pc[w] \in {"ack", "retry", "reject"}
      /\ Fault(o)
      /\ IF Ran(o)
           THEN /\ processing' = LRem(processing, p)
                /\ delayed' = IF pc[w] = "retry"
                                THEN delayed \cup {[p EXCEPT !.attempt = @ + 1]} ELSE delayed
                /\ dead' = IF pc[w] = "reject" THEN dead \cup {p} ELSE dead
           ELSE UNCHANGED <<processing, delayed, dead>>
      /\ Goto(w, "promote")
      /\ held' = [held EXCEPT ![w] = None]
      /\ UNCHANGED <<garbled, ready, due, call, requeues, hist>>

Crash(w) ==
  /\ pc[w] # "down"
  /\ faults < MaxFaults /\ faults' = faults + 1
  /\ Goto(w, "down")
  /\ held' = [held EXCEPT ![w] = None]
  /\ UNCHANGED <<lists, call, requeues, hist>>

Restart(w) ==
  /\ pc[w] = "down"
  /\ Goto(w, "promote")
  /\ UNCHANGED <<lists, call, held, faults, requeues, hist>>

(* One LMOVE of the loop of RequeueProcessing.                             *)
Requeue ==
  /\ processing # <<>>
  /\ requeues < MaxRequeues
  /\ requeues' = requeues + 1
  /\ requeued' = [requeued EXCEPT ![Head(processing).id] = @ + 1]
  /\ ready' = Append(ready, Head(processing))
  /\ processing' = Tail(processing)
  /\ UNCHANGED <<garbled, delayed, due, dead, call, pc, held, faults, handled, done>>

-----------------------------------------------------------------------------
Work(w, o) == Promote(w, o) \/ Move(w, o) \/ Unfit(w, o) \/ Bury(w, o) \/ Settle(w, o)

Next ==
  \/ \E p \in delayed : BecomeDue(p)
  \/ \E o \in Outcome :
       \/ \E j \in Job, later \in BOOLEAN : Dispatch(j, later, o)
       \/ \E w \in Worker : Work(w, o)
  \/ \E w \in Worker :
       \/ MoveTimeout(w)
       \/ HandlerSucceeds(w) \/ HandlerFails(w) \/ HandlerFailsPermanently(w)
       \/ Crash(w) \/ Restart(w)
  \/ Requeue

Spec == Init /\ [][Next]_vars

(* A worker that is up goes on, handlers return, and time passes.          *)
Step(w) ==
  \/ Work(w, "ok") \/ MoveTimeout(w)
  \/ HandlerSucceeds(w) \/ HandlerFails(w) \/ HandlerFailsPermanently(w)

FairSpec ==
  /\ Spec
  /\ \A w \in Worker : WF_vars(Step(w))
  /\ WF_vars(\E p \in delayed : BecomeDue(p))

-----------------------------------------------------------------------------
Listed(j) ==
  \/ \E k \in DOMAIN ready : ready[k].id = j
  \/ \E k \in DOMAIN processing : processing[k].id = j
  \/ \E p \in delayed \cup dead : p.id = j

(* A payload that cannot be decoded is out of every list between the two   *)
(* commands of Receive that bury it, and for good when the second one      *)
(* fails, whose error is ignored, or the worker crashes before it.         *)
LostInReceive(j) ==
  /\ j \in garbled
  /\ faults > 0 \/ \E w \in Worker : pc[w] = "bury" /\ held[w].id = j

(* "Delivery is at-least-once" (Queue): whatever crashes, whichever        *)
(* answers are lost and whenever jobs are requeued, an accepted job is in  *)
(* a list until its handler has succeeded; only a fault loses one that     *)
(* cannot be decoded.                                                      *)
NothingLost ==
  \A j \in Job : call[j] = "accepted" => Listed(j) \/ j \in done \/ LostInReceive(j)

(* A job is handled once per attempt, and once more for each time          *)
(* RequeueProcessing moved it: neither lost answers nor crashes nor the    *)
(* promotion by several workers deliver it again (Receive, Retry).         *)
DeliveredOncePerAttempt ==
  \A j \in Job : \A a \in 1..Limit[j] : handled[j][a] <= 1 + requeued[j]

Copies(p) == Cardinality({k \in DOMAIN processing : processing[k] = p})
Holders(p) == Cardinality({w \in Worker : held[w] = p})
Stranded(j) ==
  \E k \in DOMAIN processing :
    processing[k].id = j /\ Copies(processing[k]) > Holders(processing[k])

(* Only a fault can leave a job in the processing list without a worker,   *)
(* where nothing but RequeueProcessing finds it (Ack, Retry, Reject).      *)
StrandedByFault ==
  (\E j \in Job : Stranded(j)) => faults > 0 \/ requeues > 0

(* While a worker is up, every accepted job is settled, or waits stranded  *)
(* for RequeueProcessing (Receive, promoteScript).                         *)
EventuallySettled ==
  \A j \in Job :
    j \notin garbled /\ call[j] = "accepted" ~>
      \/ j \in done \/ (\E p \in dead : p.id = j)
      \/ Stranded(j)
      \/ \A w \in Worker : pc[w] = "down"

=============================================================================

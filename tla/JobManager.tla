----------------------------- MODULE JobManager -----------------------------
(***************************************************************************)
(* The background job manager of jobs/jobs.go over a MemoryQueue.          *)
(*                                                                         *)
(* Concurrent activities: one Dispatch call per job; the worker goroutines *)
(* of every Start (a generation); Stop calls; the queue's timer callbacks. *)
(* Every lock section and every blocking select is one step.               *)
(*                                                                         *)
(* attempts, acked and reported are history: how often the handler of a    *)
(* job was entered, which deliveries were acknowledged (Ack changes        *)
(* nothing in a MemoryQueue) and which jobs OnFailure was called with.     *)
(***************************************************************************)
EXTENDS MemoryQueue, FiniteSets

CONSTANTS Name,           \* job names
          JobName,        \* the name each job is dispatched under
          RegMax,         \* the attempt limit its registration would have
          Worker,         \* Options.Workers goroutines per Start
          MaxStarts,      \* bound: calls of Start
          Stopper,        \* calls of Stop
          RetryDelays,    \* what Options.Backoff may return: 0, or 1 for > 0
          DispatchDelays, \* what Delay(d) may ask for, likewise
          NoJob           \* a worker that holds no delivery

Gen == 1..MaxStarts
Goroutine == Gen \X Worker

ASSUME ManagerAssumption ==
  /\ JobName \in [Job -> Name]
  /\ RegMax \in [Name -> Nat]
  /\ MaxStarts \in Nat \ {0}
  /\ RetryDelays \subseteq {0, 1}
  /\ DispatchDelays \subseteq {0, 1}
  /\ NoJob \notin JobRec

VARIABLES handlers,     \* the registered names
          running,      \* m.running
          gen,          \* how many times the workers were started
          recvCanceled, \* generations whose recvCtx is canceled
          jobCanceled,  \* generations whose jobCtx is canceled
          call,         \* Dispatch(j): where the call for job j is
          callMax,      \* the MaxAttempts it put into the job
          pc,           \* where a worker is
          held,         \* the delivery a worker has, as it will next pass it on
          stop,         \* Stop(s): where the call is
          stopGen,      \* the generation whose cancel functions it read
          drained,      \* calls of Stop whose wg.Wait has returned
          expired,      \* generations some Stop gave up waiting for
          attempts, acked, reported

mvars == <<handlers, running, gen, recvCanceled, jobCanceled>>
dvars == <<call, callMax>>
wvars == <<pc, held>>
svars == <<stop, stopGen, drained, expired>>
hvars == <<attempts, acked, reported>>
vars == <<qvars, mvars, dvars, wvars, svars, hvars>>

CallState == {"idle", "admitted", "sending", "accepted", "refused"}
WorkerState == {"unborn", "receive", "lookup", "handle", "retry", "send",
                "discard", "reject", "report", "exited"}
StopState == {"idle", "cancel", "wait", "force", "stopped", "gaveUp", "noop"}

TypeOK ==
  /\ QueueTypeOK
  /\ handlers \subseteq Name
  /\ running \in BOOLEAN
  /\ gen \in 0..MaxStarts
  /\ recvCanceled \subseteq Gen /\ jobCanceled \subseteq Gen
  /\ call \in [Job -> CallState]
  /\ callMax \in [Job -> Nat]
  /\ pc \in [Goroutine -> WorkerState]
  /\ held \in [Goroutine -> JobRec \cup {NoJob}]
  /\ stop \in [Stopper -> StopState]
  /\ stopGen \in [Stopper -> 0..MaxStarts]
  /\ drained \subseteq Stopper
  /\ expired \subseteq Gen
  /\ attempts \in [Job -> Nat]
  /\ acked \subseteq Job /\ reported \subseteq Job

Init ==
  /\ QueueInit
  /\ handlers = {} /\ running = FALSE /\ gen = 0
  /\ recvCanceled = {} /\ jobCanceled = {}
  /\ call = [j \in Job |-> "idle"]
  /\ callMax = [j \in Job |-> 0]
  /\ pc = [g \in Goroutine |-> "unborn"]
  /\ held = [g \in Goroutine |-> NoJob]
  /\ stop = [s \in Stopper |-> "idle"]
  /\ stopGen = [s \in Stopper |-> 0]
  /\ drained = {} /\ expired = {}
  /\ attempts = [j \in Job |-> 0]
  /\ acked = {} /\ reported = {}

-----------------------------------------------------------------------------
(* Register and Dispatch.                                                  *)

Register(n) ==
  /\ ~running
  /\ n \notin handlers
  /\ handlers' = handlers \cup {n}
  /\ UNCHANGED <<qvars, running, gen, recvCanceled, jobCanceled,
                 dvars, wvars, svars, hvars>>

DispatchLookup(j) ==
  /\ call[j] = "idle"
  /\ LET known == JobName[j] \in handlers
         strict == handlers # {}
     IN  /\ call' = [call EXCEPT ![j] = IF strict /\ ~known THEN "refused"
                                                            ELSE "admitted"]
         /\ callMax' = [callMax EXCEPT ![j] = IF known THEN RegMax[JobName[j]]
                                                       ELSE 0]
  /\ UNCHANGED <<qvars, mvars, wvars, svars, hvars>>

Dispatched(j) == [id |-> j, attempt |-> 1, max |-> callMax[j]]

DispatchEnqueue(j) ==
  /\ call[j] = "admitted"
  /\ \/ /\ EnqueueRefused
        /\ call' = [call EXCEPT ![j] = "refused"]
     \/ /\ 1 \in DispatchDelays
        /\ EnqueueDelayed(Dispatched(j))
        /\ call' = [call EXCEPT ![j] = "accepted"]
     \/ /\ 0 \in DispatchDelays
        /\ EnqueueAdmitted
        /\ call' = [call EXCEPT ![j] = "sending"]
  /\ UNCHANGED <<mvars, callMax, wvars, svars, hvars>>

DispatchSend(j) ==
  /\ call[j] = "sending"
  /\ SelectSend(Dispatched(j))
  /\ call' = [call EXCEPT ![j] = "accepted"]
  /\ UNCHANGED <<mvars, callMax, wvars, svars, hvars>>

(* The payload cannot be encoded; or the context of the caller ends, or    *)
(* the queue is closed, while it waits for room.                           *)
DispatchAbandon(j) ==
  /\ call[j] \in {"admitted", "sending"}
  /\ call' = [call EXCEPT ![j] = "refused"]
  /\ UNCHANGED <<qvars, mvars, callMax, wvars, svars, hvars>>

-----------------------------------------------------------------------------
(* A worker: work, process and safeHandle.                                 *)

Goto(g, state) == pc' = [pc EXCEPT ![g] = state]
Release(g) == Goto(g, "receive") /\ held' = [held EXCEPT ![g] = NoJob]

(* The select of Receive may pick a ready job although recvCtx is canceled. *)
WorkerReceive(g) ==
  /\ pc[g] = "receive"
  /\ Receive
  /\ held' = [held EXCEPT ![g] = Head(ch)]
  /\ Goto(g, "lookup")
  /\ UNCHANGED <<mvars, dvars, svars, hvars>>

WorkerExit(g) ==
  /\ pc[g] = "receive"
  /\ g[1] \in recvCanceled
  /\ Goto(g, "exited")
  /\ UNCHANGED <<qvars, mvars, dvars, held, svars, hvars>>

WorkerLookup(g) ==
  /\ pc[g] = "lookup"
  /\ IF JobName[held[g].id] \in handlers
       THEN /\ Goto(g, "handle")
            /\ attempts' = [attempts EXCEPT ![held[g].id] = @ + 1]
       ELSE /\ Goto(g, "discard")
            /\ UNCHANGED attempts
  /\ UNCHANGED <<qvars, mvars, dvars, held, svars, acked, reported>>

HandlerSucceeds(g) ==
  /\ pc[g] = "handle"
  /\ Release(g)
  /\ acked' = acked \cup {held[g].id}
  /\ UNCHANGED <<qvars, mvars, dvars, svars, attempts, reported>>

Limit(job) == IF job.max = 0 THEN RegMax[JobName[job.id]] ELSE job.max

(* (Slip: the limit counts retries instead of attempts.)                   *)
MayRetryOneMore(job) == job.attempt <= Limit(job)
MayRetry(job) == job.attempt < Limit(job)

(* An error, a recovered panic or a timeout.                               *)
HandlerFails(g) ==
  /\ pc[g] = "handle"
  /\ Goto(g, IF MayRetry(held[g]) THEN "retry" ELSE "reject")
  /\ UNCHANGED <<qvars, mvars, dvars, held, svars, hvars>>

HandlerFailsPermanently(g) ==
  /\ pc[g] = "handle"
  /\ Goto(g, "reject")
  /\ UNCHANGED <<qvars, mvars, dvars, held, svars, hvars>>

(* Retry enqueues the copy with a context that nothing cancels; an error   *)
(* is logged and the delivery is over all the same.                        *)
WorkerRetry(g) ==
  /\ pc[g] = "retry"
  /\ \/ /\ EnqueueRefused
        /\ Release(g)
     \/ /\ 1 \in RetryDelays
        /\ EnqueueDelayed(RetryCopy(held[g]))
        /\ Release(g)
     \/ /\ 0 \in RetryDelays
        /\ EnqueueAdmitted
        /\ Goto(g, "send")
        /\ held' = [held EXCEPT ![g] = RetryCopy(held[g])]
  /\ UNCHANGED <<mvars, dvars, svars, hvars>>

(* (Slip: Retry gives up when the context of the running jobs is canceled.) *)
WorkerSendCancelable(g) ==
  /\ pc[g] = "send"
  /\ SelectSend(held[g]) \/ SelectDone \/ (g[1] \in jobCanceled /\ UNCHANGED qvars)
  /\ Release(g)
  /\ UNCHANGED <<mvars, dvars, svars, hvars>>

WorkerSend(g) ==
  /\ pc[g] = "send"
  /\ SelectSend(held[g]) \/ SelectDone
  /\ Release(g)
  /\ UNCHANGED <<mvars, dvars, svars, hvars>>

(* (Slip: a job without a handler is dropped.)                             *)
WorkerDiscardSilently(g) ==
  /\ pc[g] = "discard"
  /\ Release(g)
  /\ UNCHANGED <<qvars, mvars, dvars, svars, hvars>>

(* A job without a handler is rejected; OnFailure is not called for it.    *)
WorkerDiscard(g) ==
  /\ pc[g] = "discard"
  /\ Reject(held[g])
  /\ Release(g)
  /\ UNCHANGED <<mvars, dvars, svars, hvars>>

WorkerReject(g) ==
  /\ pc[g] = "reject"
  /\ Reject(held[g])
  /\ Goto(g, "report")
  /\ UNCHANGED <<mvars, dvars, held, svars, hvars>>

WorkerReport(g) ==
  /\ pc[g] = "report"
  /\ reported' = reported \cup {held[g].id}
  /\ Release(g)
  /\ UNCHANGED <<qvars, mvars, dvars, svars, attempts, acked>>

-----------------------------------------------------------------------------
(* Start and Stop.                                                         *)

Start ==
  /\ ~running
  /\ gen < MaxStarts
  /\ running' = TRUE
  /\ gen' = gen + 1
  /\ pc' = [g \in Goroutine |-> IF g[1] = gen + 1 THEN "receive" ELSE pc[g]]
  /\ UNCHANGED <<qvars, handlers, recvCanceled, jobCanceled,
                 dvars, held, svars, hvars>>

StopBegin(s) ==
  /\ stop[s] = "idle"
  /\ IF running
       THEN /\ running' = FALSE
            /\ stop' = [stop EXCEPT ![s] = "cancel"]
            /\ stopGen' = [stopGen EXCEPT ![s] = gen]
       ELSE /\ stop' = [stop EXCEPT ![s] = "noop"]
            /\ UNCHANGED <<running, stopGen>>
  /\ UNCHANGED <<qvars, handlers, gen, recvCanceled, jobCanceled,
                 dvars, wvars, drained, expired, hvars>>

(* (Slip: both contexts are canceled at once.)                             *)
StopCancelAll(s) ==
  /\ stop[s] = "cancel"
  /\ recvCanceled' = recvCanceled \cup {stopGen[s]}
  /\ jobCanceled' = jobCanceled \cup {stopGen[s]}
  /\ stop' = [stop EXCEPT ![s] = "wait"]
  /\ UNCHANGED <<qvars, handlers, running, gen,
                 dvars, wvars, stopGen, drained, expired, hvars>>

(* (Slip: the receive context is never canceled.)                          *)
StopCancelNothing(s) ==
  /\ stop[s] = "cancel"
  /\ stop' = [stop EXCEPT ![s] = "wait"]
  /\ UNCHANGED <<qvars, mvars, dvars, wvars, stopGen, drained, expired, hvars>>

StopCancel(s) ==
  /\ stop[s] = "cancel"
  /\ recvCanceled' = recvCanceled \cup {stopGen[s]}
  /\ stop' = [stop EXCEPT ![s] = "wait"]
  /\ UNCHANGED <<qvars, handlers, running, gen, jobCanceled,
                 dvars, wvars, stopGen, drained, expired, hvars>>

(* m.wg counts the workers of every generation.  (Slip: only those that    *)
(* are not idle in Receive are waited for.)                                *)
AllIdle == \A g \in Goroutine : pc[g] \in {"unborn", "receive", "exited"}
AllExited == \A g \in Goroutine : pc[g] \in {"unborn", "exited"}

(* The goroutine that closes the channel done when wg.Wait returns: by the *)
(* time Stop sees it closed, a later Start may have begun.                 *)
StopDrained(s) ==
  /\ stop[s] \in {"wait", "force"}
  /\ s \notin drained
  /\ AllExited
  /\ drained' = drained \cup {s}
  /\ UNCHANGED <<qvars, mvars, dvars, wvars, stop, stopGen, expired, hvars>>

StopReturn(s) ==
  /\ stop[s] \in {"wait", "force"}
  /\ s \in drained
  /\ stop' = [stop EXCEPT ![s] = IF @ = "wait" THEN "stopped" ELSE "gaveUp"]
  /\ jobCanceled' = jobCanceled \cup {stopGen[s]}
  /\ UNCHANGED <<qvars, handlers, running, gen, recvCanceled,
                 dvars, wvars, stopGen, drained, expired, hvars>>

(* ctx expires: the running jobs are canceled, and Stop goes on waiting.   *)
StopExpire(s) ==
  /\ stop[s] = "wait"
  /\ stop' = [stop EXCEPT ![s] = "force"]
  /\ jobCanceled' = jobCanceled \cup {stopGen[s]}
  /\ expired' = expired \cup {stopGen[s]}
  /\ UNCHANGED <<qvars, handlers, running, gen, recvCanceled,
                 dvars, wvars, stopGen, drained, hvars>>

-----------------------------------------------------------------------------
others == <<mvars, dvars, wvars, svars, hvars>>

QueueClose == Close /\ UNCHANGED others
Timer(job) ==
  /\ TimerFire(job) \/ CallbackSend(job) \/ CallbackDrop(job)
  /\ UNCHANGED others
Timers == \E job \in timers \cup firing : Timer(job)

Handler(g) ==
  HandlerSucceeds(g) \/ HandlerFails(g) \/ HandlerFailsPermanently(g)

Work(g) ==
  \/ WorkerReceive(g) \/ WorkerExit(g) \/ WorkerLookup(g) \/ Handler(g)
  \/ WorkerRetry(g) \/ WorkerSend(g)
  \/ WorkerDiscard(g) \/ WorkerReject(g) \/ WorkerReport(g)

Stop(s) ==
  \/ StopBegin(s) \/ StopCancel(s) \/ StopDrained(s) \/ StopReturn(s)
  \/ StopExpire(s)

Dispatch(j) ==
  DispatchLookup(j) \/ DispatchEnqueue(j) \/ DispatchSend(j) \/ DispatchAbandon(j)

Next ==
  \/ \E n \in Name : Register(n)
  \/ \E j \in Job : Dispatch(j)
  \/ \E g \in Goroutine : Work(g)
  \/ Start
  \/ \E s \in Stopper : Stop(s)
  \/ Timers
  \/ QueueClose

Spec == Init /\ [][Next]_vars

(* What the runtime and the contracts of the callbacks guarantee: runnable  *)
(* goroutines run, timers fire, and a handler returns (it has a timeout and *)
(* "must honor ctx cancellation").  Nothing forces a caller to call.        *)
Fairness ==
  /\ \A g \in Goroutine : WF_vars(Work(g))
  /\ WF_vars(Timers)
  /\ \A s \in Stopper :
       WF_vars(StopCancel(s)) /\ WF_vars(StopDrained(s)) /\ WF_vars(StopReturn(s))

FairSpec == Spec /\ Fairness

-----------------------------------------------------------------------------
(* Where a job can be.                                                     *)

In(queue, j) == \E i \in DOMAIN queue : queue[i].id = j
InSet(set, j) == \E job \in set : job.id = j
Distinct(queue) == \A i, k \in DOMAIN queue : queue[i].id = queue[k].id => i = k
DistinctSet(set) == \A a, b \in set : a.id = b.id => a = b

(* From Receive until the delivery is acknowledged, retried or rejected.   *)
Holding == {"lookup", "handle", "retry", "send", "discard", "reject"}
Holds(g, j) == pc[g] \in Holding /\ held[g].id = j
Held(j) == \E g \in Goroutine : Holds(g, j)

Waiting(j) == In(ch, j) \/ InSet(timers, j) \/ InSet(firing, j)
Settled(j) == j \in acked \/ In(failed, j)

(* No interleaving of workers, timers and callers ever puts a job in two   *)
(* places: it is not delivered twice, not both retried and dead-lettered,  *)
(* and a job whose Dispatch reported an error is nowhere at all            *)
(* (Enqueue, memoryDelivery.Retry, process).                               *)
NoDuplicates ==
  /\ Distinct(ch) /\ Distinct(failed)
  /\ DistinctSet(timers) /\ DistinctSet(firing)
  /\ \A j \in Job : \A g, h \in Goroutine : Holds(g, j) /\ Holds(h, j) => g = h
  /\ \A j \in Job :
       /\ In(ch, j) => ~InSet(timers, j) /\ ~InSet(firing, j)
       /\ ~(InSet(timers, j) /\ InSet(firing, j))
       /\ Waiting(j) => ~Held(j)
       /\ Settled(j) => ~Waiting(j) /\ ~Held(j)
       /\ ~(j \in acked /\ In(failed, j))
       /\ call[j] # "accepted" => ~Waiting(j) /\ ~Held(j) /\ ~Settled(j)

(* While the queue is open, a job whose Dispatch succeeded is not lost:    *)
(* some worker, timer or buffer slot has it, or it was settled ("graceful  *)
(* shutdown", jobs.go package comment; process, Retry).                    *)
NothingLost ==
  \A j \in Job :
    call[j] = "accepted" /\ ~closed => Waiting(j) \/ Held(j) \/ Settled(j)

(* A handler runs at most MaxAttempts times for a job, retries across a    *)
(* restart of the manager included (process, memoryDelivery.Retry).        *)
AttemptLimit(j) == IF RegMax[JobName[j]] = 0 THEN 1 ELSE RegMax[JobName[j]]
AttemptsWithinLimit == \A j \in Job : attempts[j] <= AttemptLimit(j)

(* When Stop has returned, every worker it was to stop is gone: no handler *)
(* it waited for is running, and none will be started (Stop).              *)
StopWaits ==
  \A s \in Stopper : stop[s] \in {"stopped", "gaveUp"} =>
    \A w \in Worker : pc[<<stopGen[s], w>>] = "exited"

(* The context of the running jobs is canceled only after a Stop ran out   *)
(* of time, or when no job of that generation is running (Stop).           *)
CanceledOnlyLate ==
  \A n \in jobCanceled : n \in expired \/ \A w \in Worker : pc[<<n, w>>] = "exited"

(* Every accepted job is settled in the end, unless the manager is stopped *)
(* or the queue closed (work, process).                                    *)
EventuallySettled ==
  \A j \in Job :
    (running /\ call[j] = "accepted") ~> (Settled(j) \/ ~running \/ closed)

(* Stop returns once the running handlers have returned (Stop: "returns    *)
(* ctx.Err() after they return").                                          *)
StopReturns ==
  \A s \in Stopper : (stop[s] = "wait") ~> (stop[s] \in {"stopped", "gaveUp"})

-----------------------------------------------------------------------------
(* What the manager promises its callers, as a ledger of jobs.             *)

(* The handler of j runs, or has failed and nothing was done about it yet. *)
OnTrial(j) ==
  \E g \in Goroutine : Holds(g, j) /\ pc[g] \in {"handle", "retry", "reject"}

LedgerStatus(j) ==
  CASE call[j] \in {"idle", "admitted", "sending"} -> "new"
    [] call[j] = "refused" -> "refused"
    [] j \in acked -> "done"
    [] In(failed, j) -> "dead"
    [] OnTrial(j) -> "running"
    [] (Waiting(j) \/ Held(j)) /\ ~OnTrial(j) -> "queued"
    [] OTHER -> "lost"

Ledger == INSTANCE JobLedger WITH
  status   <- [j \in Job |-> LedgerStatus(j)],
  tries    <- attempts,
  open     <- ~closed,
  MaxTries <- [j \in Job |-> AttemptLimit(j)]

(* The manager implements the ledger: from dispatch to settlement a job    *)
(* goes through the promised states only.                                  *)
ImplementsLedger == Ledger!Spec

=============================================================================

-------------------------- MODULE JobManagerProofs --------------------------
(***************************************************************************)
(* What holds of the job manager for every number of jobs, workers, starts *)
(* and stops, every buffer size and every choice of attempt limits.        *)
(***************************************************************************)
EXTENDS JobManager, TLAPS

(* Handing a job to the buffer, in any of the three ways the code does it, *)
(* keeps the buffer a bounded sequence of jobs.                            *)
LEMMA AppendTyped ==
  ASSUME NEW job \in JobRec, ch \in Seq(JobRec), Len(ch) < Capacity,
         ch' = Append(ch, job)
  PROVE  ch' \in Seq(JobRec) /\ Len(ch') <= Capacity
<1>1. Len(ch') = Len(ch) + 1 /\ ch' \in Seq(JobRec)
  OBVIOUS
<1>2. Len(ch) \in Nat
  OBVIOUS
<1> QED BY <1>1, <1>2, CapacityAssumption

(* The job a Dispatch call hands over, and the copy a retry hands over, are *)
(* jobs again.                                                             *)
LEMMA DispatchedTyped ==
  ASSUME TypeOK, NEW j \in Job
  PROVE  Dispatched(j) \in JobRec
BY DEF TypeOK, Dispatched, JobRec

LEMMA RetryCopyTyped ==
  ASSUME NEW job \in JobRec
  PROVE  RetryCopy(job) \in JobRec
BY DEF RetryCopy, JobRec

(* A worker that is past Receive holds a job, not NoJob.                   *)
HoldsJob == \A g \in Goroutine :
              pc[g] \in Holding \cup {"report"} => held[g] \in JobRec

(* A Stop that found the manager running has read a generation.            *)
StopReads ==
  /\ running => gen \in Gen
  /\ \A s \in Stopper : stop[s] \notin {"idle", "noop"} => stopGen[s] \in Gen

TypeInv == TypeOK /\ HoldsJob /\ StopReads

(* Every reachable state is well typed, and the buffer never exceeds its   *)
(* capacity: no send goes around the select (Enqueue, the timer callback). *)
LEMMA TypeInit == Init => TypeInv
<1> SUFFICES ASSUME Init PROVE TypeInv
  OBVIOUS
<1>1. QueueTypeOK
  <2>1. ch = <<>> /\ failed = <<>> /\ timers = {} /\ firing = {} /\ closed = FALSE
    BY DEF Init, QueueInit
  <2>2. ch \in Seq(JobRec) /\ failed \in Seq(JobRec) /\ Len(ch) = 0
    BY <2>1
  <2>3. Len(ch) <= Capacity
    BY <2>2, CapacityAssumption
  <2> QED BY <2>1, <2>2, <2>3 DEF QueueTypeOK
<1>2. 0 \in 0..MaxStarts
  BY ManagerAssumption
<1>3. /\ call \in [Job -> CallState] /\ pc \in [Goroutine -> WorkerState]
      /\ stop \in [Stopper -> StopState]
  BY DEF Init, CallState, WorkerState, StopState
<1>4. TypeOK
  BY <1>1, <1>2, <1>3 DEF Init, TypeOK
<1>5. HoldsJob /\ StopReads
  BY DEF Init, HoldsJob, Holding, StopReads
<1> QED BY <1>4, <1>5 DEF TypeInv

LEMMA TypeDispatch ==
  ASSUME TypeInv, NEW j \in Job, Dispatch(j)
  PROVE  TypeInv'
<1> USE DEF TypeInv, TypeOK, QueueTypeOK, HoldsJob, StopReads, CallState,
            qvars, mvars, dvars, wvars, svars, hvars
<1>0. Dispatched(j) \in JobRec
  BY DispatchedTyped
<1>1. CASE DispatchLookup(j)
  BY <1>1, ManagerAssumption DEF DispatchLookup
<1>2. CASE DispatchEnqueue(j)
  BY <1>0, <1>2 DEF DispatchEnqueue, EnqueueRefused, EnqueueDelayed, EnqueueAdmitted
<1>3. CASE DispatchSend(j)
  <2>1. ch' \in Seq(JobRec) /\ Len(ch') <= Capacity
    BY <1>0, <1>3, AppendTyped DEF DispatchSend, SelectSend
  <2> QED BY <2>1, <1>3 DEF DispatchSend, SelectSend
<1>4. CASE DispatchAbandon(j)
  BY <1>4 DEF DispatchAbandon
<1> QED BY <1>1, <1>2, <1>3, <1>4 DEF Dispatch

LEMMA TypeWork ==
  ASSUME TypeInv, NEW g \in Goroutine, Work(g)
  PROVE  TypeInv'
<1> USE DEF TypeInv, TypeOK, QueueTypeOK, HoldsJob, StopReads, Holding, WorkerState,
            Goto, Release, qvars, mvars, dvars, wvars, svars, hvars
<1>1. CASE WorkerReceive(g)
  <2>1. Head(ch) \in JobRec /\ Tail(ch) \in Seq(JobRec) /\ Len(Tail(ch)) <= Capacity
    BY <1>1, CapacityAssumption DEF WorkerReceive, Receive
  <2> QED BY <2>1, <1>1 DEF WorkerReceive, Receive
<1>2. CASE WorkerExit(g)
  BY <1>2 DEF WorkerExit
<1>3. CASE WorkerLookup(g)
  <2>1. held[g].id \in Job
    BY <1>3 DEF WorkerLookup, JobRec
  <2>2. CASE JobName[held[g].id] \in handlers
    <3>1. pc' = [pc EXCEPT ![g] = "handle"] /\ pc[g] = "lookup"
          /\ attempts' = [attempts EXCEPT ![held[g].id] = @ + 1]
          /\ UNCHANGED <<qvars, mvars, dvars, held, svars, acked, reported>>
      BY <2>2, <1>3 DEF WorkerLookup
    <3>2. attempts' \in [Job -> Nat]
      BY <2>1, <3>1
    <3> QED BY <3>1, <3>2
  <2>3. CASE JobName[held[g].id] \notin handlers
    <3>1. pc' = [pc EXCEPT ![g] = "discard"] /\ pc[g] = "lookup"
          /\ UNCHANGED <<qvars, mvars, dvars, held, svars, hvars>>
      BY <2>3, <1>3 DEF WorkerLookup
    <3> QED BY <3>1
  <2> QED BY <2>2, <2>3
<1>4. CASE Handler(g)
  <2>1. held[g].id \in Job
    BY <1>4 DEF Handler, HandlerSucceeds, HandlerFails, HandlerFailsPermanently, JobRec
  <2>2. CASE HandlerSucceeds(g)
    BY <2>1, <2>2 DEF HandlerSucceeds
  <2>3. CASE HandlerFails(g)
    BY <2>3 DEF HandlerFails
  <2>4. CASE HandlerFailsPermanently(g)
    BY <2>4 DEF HandlerFailsPermanently
  <2> QED BY <2>2, <2>3, <2>4, <1>4 DEF Handler
<1>5. CASE WorkerRetry(g)
  <2>1. held[g] \in JobRec /\ RetryCopy(held[g]) \in JobRec
    BY <1>5, RetryCopyTyped DEF WorkerRetry
  <2> QED BY <2>1, <1>5 DEF WorkerRetry, EnqueueRefused, EnqueueDelayed, EnqueueAdmitted
<1>6. CASE WorkerSend(g)
  <2>1. held[g] \in JobRec
    BY <1>6 DEF WorkerSend
  <2>2. ch' \in Seq(JobRec) /\ Len(ch') <= Capacity
    BY <2>1, <1>6, AppendTyped DEF WorkerSend, SelectSend, SelectDone
  <2> QED BY <2>2, <1>6 DEF WorkerSend, SelectSend, SelectDone
<1>7. CASE WorkerDiscard(g)
  <2>1. held[g] \in JobRec
    BY <1>7 DEF WorkerDiscard
  <2> QED BY <2>1, <1>7 DEF WorkerDiscard, Reject
<1>8. CASE WorkerReject(g)
  <2>1. held[g] \in JobRec
    BY <1>8 DEF WorkerReject
  <2> QED BY <2>1, <1>8 DEF WorkerReject, Reject
<1>9. CASE WorkerReport(g)
  BY <1>9 DEF WorkerReport, JobRec
<1> QED BY <1>1, <1>2, <1>3, <1>4, <1>5, <1>6, <1>7, <1>8, <1>9 DEF Work

LEMMA TypeTimer ==
  ASSUME TypeInv, NEW job \in timers \cup firing, Timer(job)
  PROVE  TypeInv'
<1> USE DEF TypeInv, TypeOK, QueueTypeOK, HoldsJob, StopReads, others,
            mvars, dvars, wvars, svars, hvars
<1>0. job \in JobRec
  OBVIOUS
<1>1. CASE TimerFire(job)
  BY <1>0, <1>1 DEF Timer, TimerFire
<1>2. CASE CallbackSend(job)
  <2>1. ch' \in Seq(JobRec) /\ Len(ch') <= Capacity
    BY <1>0, <1>2, AppendTyped DEF CallbackSend
  <2> QED BY <2>1, <1>2 DEF Timer, CallbackSend
<1>3. CASE CallbackDrop(job)
  BY <1>3 DEF Timer, CallbackDrop
<1> QED BY <1>1, <1>2, <1>3 DEF Timer

LEMMA TypeStop ==
  ASSUME TypeInv, NEW s \in Stopper, Stop(s)
  PROVE  TypeInv'
<1> USE DEF TypeInv, TypeOK, QueueTypeOK, HoldsJob, StopReads, StopState,
            qvars, mvars, dvars, wvars, svars, hvars
<1>1. CASE StopBegin(s)
  BY <1>1 DEF StopBegin
<1>2. CASE StopCancel(s)
  BY <1>2 DEF StopCancel
<1>3. CASE StopDrained(s)
  BY <1>3 DEF StopDrained
<1>4. CASE StopReturn(s)
  BY <1>4 DEF StopReturn
<1>5. CASE StopExpire(s)
  BY <1>5 DEF StopExpire
<1> QED BY <1>1, <1>2, <1>3, <1>4, <1>5 DEF Stop

LEMMA TypeRest ==
  ASSUME TypeInv, Start \/ QueueClose \/ \E n \in Name : Register(n)
  PROVE  TypeInv'
<1> USE DEF TypeInv, TypeOK, QueueTypeOK, HoldsJob, StopReads, Holding,
            qvars, mvars, dvars, wvars, svars, hvars
<1>1. CASE Start
  BY <1>1, ManagerAssumption DEF Start, Gen, WorkerState
<1>2. CASE QueueClose
  BY <1>2 DEF QueueClose, Close, others
<1>3. CASE \E n \in Name : Register(n)
  BY <1>3 DEF Register
<1> QED BY <1>1, <1>2, <1>3

LEMMA TypeNext == TypeInv /\ [Next]_vars => TypeInv'
<1> SUFFICES ASSUME TypeInv, [Next]_vars PROVE TypeInv'
  OBVIOUS
<1>1. CASE UNCHANGED vars
  BY <1>1 DEF TypeInv, TypeOK, QueueTypeOK, HoldsJob, StopReads,
              vars, qvars, mvars, dvars, wvars, svars, hvars
<1> QED BY <1>1, TypeDispatch, TypeWork, TypeTimer, TypeStop, TypeRest
        DEF Next, Timers

LEMMA TypeInvariance == Spec => []TypeInv
BY TypeInit, TypeNext, PTL DEF Spec

(* The queue's bookkeeping, the workers' jobs and the contexts of starts   *)
(* keep their types through every interleaving (memory.go, jobs.go).       *)
THEOREM TypeCorrect == Spec => []TypeOK
<1>1. TypeInv => TypeOK
  BY DEF TypeInv
<1> QED BY <1>1, TypeInvariance, PTL

-----------------------------------------------------------------------------
(* Stop.  The workers of a generation are born together at its Start and,  *)
(* once gone, never come back; Stop can only have read a generation that   *)
(* was started.                                                            *)
Gone(n) == \A w \in Worker : pc[<<n, w>>] = "exited"

StopInv ==
  /\ \A g \in Goroutine : pc[g] = "unborn" <=> g[1] > gen
  /\ \A s \in Stopper : stopGen[s] <= gen
  /\ \A n \in jobCanceled : n <= gen
  /\ \A s \in drained : stop[s] \notin {"idle", "noop"} /\ Gone(stopGen[s])
  /\ StopWaits
  /\ CanceledOnlyLate

LEMMA GoneStays ==
  ASSUME TypeInv, StopInv, [Next]_vars, NEW n \in Gen, n <= gen, Gone(n)
  PROVE  Gone(n)'
<1> SUFFICES ASSUME NEW w \in Worker PROVE pc'[<<n, w>>] = "exited"
  BY DEF Gone
<1> DEFINE h == <<n, w>>
<1>0. h \in Goroutine /\ h[1] = n /\ pc[h] = "exited"
  BY DEF Goroutine, Gone
<1> USE DEF TypeInv, TypeOK
<1>1. ASSUME NEW g \in Goroutine, Work(g) PROVE pc'[h] = pc[h]
  BY <1>0, <1>1 DEF Work, Handler, WorkerReceive, WorkerExit, WorkerLookup,
     HandlerSucceeds, HandlerFails, HandlerFailsPermanently, WorkerRetry,
     WorkerSend, WorkerDiscard, WorkerReject, WorkerReport, Goto, Release
<1>2. CASE Start
  BY <1>0, <1>2 DEF Start
<1>3. CASE UNCHANGED pc
  BY <1>0, <1>3
<1>4. Next => Start \/ (\E g \in Goroutine : Work(g)) \/ UNCHANGED pc
  BY DEF Next, Register, Dispatch, DispatchLookup, DispatchEnqueue, DispatchSend,
     DispatchAbandon, Stop, StopBegin, StopCancel, StopDrained, StopReturn, StopExpire,
     Timers, Timer, QueueClose, others, wvars
<1> QED BY <1>0, <1>1, <1>2, <1>3, <1>4 DEF vars, wvars

LEMMA StopInit == Init => StopInv
BY ManagerAssumption DEF Init, StopInv, StopWaits, CanceledOnlyLate, Goroutine, Gen

(* No worker changes generation, and only Start brings a generation to life. *)
LEMMA BornStays ==
  ASSUME TypeInv, StopInv, [Next]_vars
  PROVE  /\ gen <= gen' /\ gen' \in Nat
         /\ \A g \in Goroutine : pc'[g] = "unborn" <=> g[1] > gen'
<1> USE DEF TypeInv, TypeOK, StopInv
<1>1. CASE Start
  <2>1. gen' = gen + 1 /\ gen \in Nat
    BY <1>1 DEF Start
  <2>2. ASSUME NEW g \in Goroutine PROVE g[1] \in Nat
    BY DEF Goroutine, Gen
  <2> QED BY <1>1, <2>1, <2>2 DEF Start
<1>2. ASSUME NEW g \in Goroutine, Work(g)
      PROVE  gen' = gen /\ \A h \in Goroutine : pc'[h] = "unborn" <=> pc[h] = "unborn"
  BY <1>2 DEF Work, Handler, WorkerReceive, WorkerExit, WorkerLookup,
     HandlerSucceeds, HandlerFails, HandlerFailsPermanently, WorkerRetry,
     WorkerSend, WorkerDiscard, WorkerReject, WorkerReport, Goto, Release, mvars
<1>3. Next => Start \/ (\E g \in Goroutine : Work(g)) \/ UNCHANGED <<gen, pc>>
  BY DEF Next, Register, Dispatch, DispatchLookup, DispatchEnqueue, DispatchSend,
     DispatchAbandon, Stop, StopBegin, StopCancel, StopDrained, StopReturn, StopExpire,
     Timers, Timer, QueueClose, others, mvars, wvars
<1>4. CASE UNCHANGED <<gen, pc>>
  BY <1>4
<1> QED BY <1>1, <1>2, <1>3, <1>4 DEF vars, mvars, wvars

LEMMA StopNext == TypeInv /\ StopInv /\ [Next]_vars => StopInv'
<1> SUFFICES ASSUME TypeInv, StopInv, [Next]_vars PROVE StopInv'
  OBVIOUS
<1> USE DEF TypeInv, TypeOK, StopReads
<1>1. /\ gen <= gen' /\ gen' \in Nat /\ gen \in Nat
      /\ \A g \in Goroutine : pc'[g] = "unborn" <=> g[1] > gen'
  BY BornStays
<1>2. \A n \in Gen : n <= gen /\ Gone(n) => Gone(n)'
  BY GoneStays
<1>3. \A s \in Stopper : stop[s] \in {"stopped", "gaveUp"} => Gone(stopGen[s])
  BY DEF StopInv, StopWaits, Gone
<1>4. \A n \in jobCanceled : n \in expired \/ Gone(n)
  BY DEF StopInv, CanceledOnlyLate, Gone
<1>5. /\ \A s \in Stopper : stopGen[s] \in Nat /\ stopGen[s] <= gen
      /\ \A n \in jobCanceled : n \in Gen /\ n \in Nat /\ n <= gen
      /\ \A s \in drained : /\ s \in Stopper /\ stop[s] \notin {"idle", "noop"}
                            /\ Gone(stopGen[s])
  BY DEF StopInv, Gen
<1>6. ASSUME NEW s \in Stopper, Stop(s)
      PROVE  StopInv'
  <2>0. gen' = gen /\ pc' = pc
    BY <1>6 DEF Stop, StopBegin, StopCancel, StopDrained, StopReturn, StopExpire,
       mvars, wvars
  <2> SUFFICES /\ \A t \in Stopper : stopGen'[t] <= gen
               /\ \A n \in jobCanceled' : n <= gen
               /\ \A t \in drained' : stop'[t] \notin {"idle", "noop"} /\ Gone(stopGen'[t])
               /\ \A t \in Stopper : stop'[t] \in {"stopped", "gaveUp"} => Gone(stopGen'[t])
               /\ \A n \in jobCanceled' : n \in expired' \/ Gone(n)
    BY <1>1, <2>0 DEF StopInv, StopWaits, CanceledOnlyLate, Gone
  <2>1. CASE StopBegin(s)
    BY <1>1, <1>3, <1>4, <1>5, <2>1 DEF StopBegin
  <2>2. CASE StopCancel(s)
    BY <1>1, <1>3, <1>4, <1>5, <2>2 DEF StopCancel
  <2>3. CASE StopDrained(s)
    <3>1. stopGen[s] \in Gen
      BY <2>3 DEF StopDrained
    <3>2. Gone(stopGen[s])
      <4> SUFFICES ASSUME NEW w \in Worker PROVE pc[<<stopGen[s], w>>] = "exited"
        BY DEF Gone
      <4>1. <<stopGen[s], w>> \in Goroutine
        BY <3>1 DEF Goroutine
      <4>2. pc[<<stopGen[s], w>>] # "unborn"
        BY <1>1, <1>5, <4>1 DEF StopInv
      <4> QED BY <2>3, <4>1, <4>2 DEF StopDrained, AllExited
    <3> QED BY <1>1, <1>3, <1>4, <1>5, <2>3, <3>2 DEF StopDrained, mvars
  <2>4. CASE StopReturn(s)
    BY <1>1, <1>3, <1>4, <1>5, <2>4 DEF StopReturn
  <2>5. CASE StopExpire(s)
    BY <1>1, <1>3, <1>4, <1>5, <2>5 DEF StopExpire
  <2> QED BY <1>6, <2>1, <2>2, <2>3, <2>4, <2>5 DEF Stop
<1>7. CASE UNCHANGED <<stop, stopGen, drained, jobCanceled, expired>>
  <2>1. \A s \in Stopper : stop[s] \notin {"idle", "noop"} => stopGen[s] \in Gen
    OBVIOUS
  <2>2. StopWaits'
    <3> SUFFICES ASSUME NEW s \in Stopper, stop[s] \in {"stopped", "gaveUp"}
                 PROVE  Gone(stopGen[s])'
      BY <1>7 DEF StopWaits, Gone
    <3> QED BY <1>2, <1>3, <1>5, <1>7, <2>1 DEF Gone
  <2>3. CanceledOnlyLate'
    BY <1>2, <1>4, <1>5, <1>7 DEF CanceledOnlyLate, Gone
  <2>4. /\ \A s \in Stopper : stopGen'[s] <= gen'
        /\ \A n \in jobCanceled' : n <= gen'
    BY <1>1, <1>5, <1>7
  <2>5. \A s \in drained' : stop'[s] \notin {"idle", "noop"} /\ Gone(stopGen[s])'
    BY <1>2, <1>5, <1>7, <2>1 DEF Gone
  <2> QED BY <1>1, <1>7, <2>2, <2>3, <2>4, <2>5 DEF StopInv, Gone
<1>8. Next => (\E s \in Stopper : Stop(s))
              \/ UNCHANGED <<stop, stopGen, drained, jobCanceled, expired>>
  BY DEF Next, Register, Dispatch, DispatchLookup, DispatchEnqueue, DispatchSend,
     DispatchAbandon, Work, Handler, WorkerReceive, WorkerExit, WorkerLookup,
     HandlerSucceeds, HandlerFails, HandlerFailsPermanently, WorkerRetry,
     WorkerSend, WorkerDiscard, WorkerReject, WorkerReport, Start,
     Timers, Timer, QueueClose, others, mvars, svars
<1> QED BY <1>6, <1>7, <1>8 DEF vars, mvars, svars

LEMMA StopInvariance == Spec => []StopInv
BY TypeInvariance, StopInit, StopNext, PTL DEF Spec

(* Stop keeps its promise for any number of workers and generations: when  *)
(* it returns, every worker of the generation it stopped is gone.          *)
THEOREM StopWaitsForWorkers == Spec => []StopWaits
<1>1. StopInv => StopWaits
  BY DEF StopInv
<1> QED BY <1>1, StopInvariance, PTL

(* And it never cancels the context of running jobs before its own runs    *)
(* out.                                                                    *)
THEOREM StopIsGraceful == Spec => []CanceledOnlyLate
<1>1. StopInv => CanceledOnlyLate
  BY DEF StopInv
<1> QED BY <1>1, StopInvariance, PTL

-----------------------------------------------------------------------------
(* Deliveries: a job is in one place at a time, and while the queue is     *)
(* open it is somewhere.                                                   *)
(*                                                                         *)
(* The places of a job are the buffer, the timers, the callbacks about to  *)
(* send, the workers, the dead letters and the acknowledged jobs.  For     *)
(* each action a step says how it moves jobs between places; that the move *)
(* keeps both invariants is then a matter of predicate logic.              *)

(* Sequences of jobs without repetition.                                   *)

LEMMA InAppend ==
  ASSUME NEW s \in Seq(JobRec), NEW job \in JobRec, NEW j
  PROVE  In(Append(s, job), j) <=> In(s, j) \/ job.id = j
<1> DEFINE t == Append(s, job)
<1>1. /\ DOMAIN s = 1..Len(s) /\ DOMAIN t = 1..(Len(s) + 1) /\ Len(s) \in Nat
      /\ \A i \in 1..Len(s) : t[i] = s[i]
      /\ t[Len(s) + 1] = job
  OBVIOUS
<1> HIDE DEF t
<1>2. In(t, j) <=> In(s, j) \/ job.id = j
  BY <1>1 DEF In
<1> QED BY <1>2 DEF t

LEMMA DistinctAppend ==
  ASSUME NEW s \in Seq(JobRec), NEW job \in JobRec, Distinct(s), ~In(s, job.id)
  PROVE  Distinct(Append(s, job))
<1> DEFINE t == Append(s, job)
<1>1. /\ DOMAIN s = 1..Len(s) /\ DOMAIN t = 1..(Len(s) + 1) /\ Len(s) \in Nat
      /\ \A i \in 1..Len(s) : t[i] = s[i]
      /\ t[Len(s) + 1] = job
  OBVIOUS
<1> HIDE DEF t
<1>2. Distinct(t)
  BY <1>1 DEF In, Distinct
<1> QED BY <1>2 DEF t

LEMMA InTail ==
  ASSUME NEW s \in Seq(JobRec), s # <<>>, NEW j
  PROVE  In(s, j) <=> Head(s).id = j \/ In(Tail(s), j)
<1> DEFINE t == Tail(s)
<1>1. /\ DOMAIN s = 1..Len(s) /\ DOMAIN t = 1..(Len(s) - 1) /\ Len(s) \in Nat
      /\ Len(s) >= 1
      /\ \A i \in 1..(Len(s) - 1) : t[i] = s[i + 1]
      /\ Head(s) = s[1]
  OBVIOUS
<1> HIDE DEF t
<1>2. ASSUME NEW i \in DOMAIN s, i # 1 PROVE i - 1 \in DOMAIN t /\ t[i - 1] = s[i]
  BY <1>1, <1>2
<1>3. In(s, j) => Head(s).id = j \/ In(t, j)
  BY <1>1, <1>2 DEF In
<1>4. Head(s).id = j \/ In(t, j) => In(s, j)
  <2>1. \A i \in DOMAIN t : i + 1 \in DOMAIN s /\ t[i] = s[i + 1]
    BY <1>1
  <2>2. 1 \in DOMAIN s
    BY <1>1
  <2> QED BY <1>1, <2>1, <2>2 DEF In
<1> QED BY <1>3, <1>4 DEF t

LEMMA DistinctTail ==
  ASSUME NEW s \in Seq(JobRec), s # <<>>, Distinct(s)
  PROVE  Distinct(Tail(s)) /\ ~In(Tail(s), Head(s).id)
<1> DEFINE t == Tail(s)
<1>1. /\ DOMAIN s = 1..Len(s) /\ DOMAIN t = 1..(Len(s) - 1) /\ Len(s) \in Nat
      /\ Len(s) >= 1
      /\ \A i \in 1..(Len(s) - 1) : t[i] = s[i + 1]
      /\ Head(s) = s[1]
  OBVIOUS
<1> HIDE DEF t
<1>2. \A i \in DOMAIN t : i + 1 \in DOMAIN s /\ t[i] = s[i + 1] /\ i \in Nat /\ i + 1 # 1
  BY <1>1
<1>3. Distinct(t)
  BY <1>2 DEF Distinct
<1>4. ~In(t, Head(s).id)
  BY <1>1, <1>2 DEF In, Distinct
<1> QED BY <1>3, <1>4 DEF t

(* How a step of worker g changes which jobs the workers hold.             *)

LEMMA HoldsTake ==
  ASSUME TypeInv, NEW g \in Goroutine, NEW state \in Holding, NEW job \in JobRec,
         pc' = [pc EXCEPT ![g] = state], held' = [held EXCEPT ![g] = job]
  PROVE  \A h \in Goroutine, j \in Job :
           Holds(h, j)' <=> IF h = g THEN job.id = j ELSE Holds(h, j)
BY DEF TypeInv, TypeOK, Holds

LEMMA HoldsKeep ==
  ASSUME TypeInv, NEW g \in Goroutine, pc[g] \in Holding, NEW state \in Holding,
         pc' = [pc EXCEPT ![g] = state], UNCHANGED held
  PROVE  \A h \in Goroutine, j \in Job : Holds(h, j)' <=> Holds(h, j)
BY DEF TypeInv, TypeOK, Holds

LEMMA HoldsDrop ==
  ASSUME TypeInv, NEW g \in Goroutine, NEW state \in WorkerState \ Holding,
         pc' = [pc EXCEPT ![g] = state],
         \A h \in Goroutine : h # g => held'[h] = held[h]
  PROVE  \A h \in Goroutine, j \in Job : Holds(h, j)' <=> h # g /\ Holds(h, j)
BY DEF TypeInv, TypeOK, Holds

(* The same for the sets of delayed jobs.                                  *)

LEMMA InSetAdd ==
  ASSUME NEW S, NEW job, NEW j
  PROVE  InSet(S \cup {job}, j) <=> InSet(S, j) \/ job.id = j
BY DEF InSet

LEMMA DistinctSetAdd ==
  ASSUME NEW S, NEW job, DistinctSet(S), ~InSet(S, job.id)
  PROVE  DistinctSet(S \cup {job})
BY DEF InSet, DistinctSet

LEMMA InSetRemove ==
  ASSUME NEW S, NEW job \in S, DistinctSet(S), NEW j
  PROVE  InSet(S \ {job}, j) <=> InSet(S, j) /\ job.id # j
BY DEF InSet, DistinctSet

LEMMA DistinctSetRemove ==
  ASSUME NEW S, NEW job, DistinctSet(S)
  PROVE  DistinctSet(S \ {job})
BY DEF DistinctSet

-----------------------------------------------------------------------------
(* The invariant that the moves preserve.                                  *)
PlaceInv == NoDuplicates /\ NothingLost

LEMMA PlaceInit == Init => PlaceInv
<1> SUFFICES ASSUME Init PROVE PlaceInv
  OBVIOUS
<1>1. /\ \A j : ~In(ch, j) /\ ~In(failed, j)
      /\ Distinct(ch) /\ Distinct(failed)
  BY DEF Init, QueueInit, In, Distinct
<1>2. /\ \A j : ~InSet(timers, j) /\ ~InSet(firing, j)
      /\ DistinctSet(timers) /\ DistinctSet(firing)
  BY DEF Init, QueueInit, InSet, DistinctSet
<1>3. \A g \in Goroutine, j \in Job : ~Holds(g, j)
  BY DEF Init, Holds, Holding
<1>4. acked = {} /\ \A j \in Job : call[j] = "idle"
  BY DEF Init
<1> QED BY <1>1, <1>2, <1>3, <1>4
        DEF PlaceInv, NoDuplicates, NothingLost, Waiting, Held, Settled

(* Where jobs are after a step depends on these variables alone.           *)
LEMMA PlaceStutter ==
  ASSUME PlaceInv, UNCHANGED <<ch, timers, firing, closed, failed, call, pc, held, acked>>
  PROVE  PlaceInv'
BY DEF PlaceInv, NoDuplicates, NothingLost, Waiting, Held, Holds, Settled,
       In, InSet, Distinct, DistinctSet

LEMMA PlaceDispatch ==
  ASSUME TypeInv, PlaceInv, NEW j \in Job, Dispatch(j)
  PROVE  PlaceInv'
<1> USE DEF TypeInv, TypeOK, QueueTypeOK, qvars, mvars, dvars, wvars, svars, hvars
<1>0. Dispatched(j) \in JobRec /\ Dispatched(j).id = j
  BY DispatchedTyped DEF Dispatched
<1>1. UNCHANGED <<pc, held, acked, failed, firing, closed>>
  BY DEF Dispatch, DispatchLookup, DispatchEnqueue, DispatchSend, DispatchAbandon,
         EnqueueRefused, EnqueueDelayed, EnqueueAdmitted, SelectSend
<1>2. call[j] # "accepted"
  BY DEF Dispatch, DispatchLookup, DispatchEnqueue, DispatchSend, DispatchAbandon
<1>3. ~Waiting(j) /\ ~Held(j) /\ ~Settled(j)
  BY <1>2 DEF PlaceInv, NoDuplicates
<1>4. \A i \in Job : Held(i)' <=> Held(i)
  BY <1>1 DEF Held, Holds
<1>5. CASE \E c \in CallState \ {"accepted"} :
             call' = [call EXCEPT ![j] = c] /\ UNCHANGED <<ch, timers>>
  <2>1. \A i \in Job : call'[i] = "accepted" <=> call[i] = "accepted"
    BY <1>2, <1>5
  <2> QED BY <1>1, <1>5, <2>1
          DEF PlaceInv, NoDuplicates, NothingLost, Waiting, Held, Holds, Settled,
              In, InSet, Distinct, DistinctSet
<1>6. CASE call' = [call EXCEPT ![j] = "accepted"]
           /\ timers' = timers \cup {Dispatched(j)} /\ UNCHANGED ch
  <2>1. \A i : InSet(timers', i) <=> InSet(timers, i) \/ i = j
    BY <1>0, <1>6, InSetAdd
  <2>2. DistinctSet(timers')
    BY <1>0, <1>3, <1>6, DistinctSetAdd DEF PlaceInv, NoDuplicates, Waiting
  <2>3. \A i \in Job : call'[i] = "accepted" <=> call[i] = "accepted" \/ i = j
    BY <1>6
  <2> QED BY <1>1, <1>3, <1>4, <1>6, <2>1, <2>2, <2>3
          DEF PlaceInv, NoDuplicates, NothingLost, Waiting, Settled, Holds
<1>7. CASE call' = [call EXCEPT ![j] = "accepted"]
           /\ ch' = Append(ch, Dispatched(j)) /\ UNCHANGED timers
  <2>1. \A i : In(ch', i) <=> In(ch, i) \/ i = j
    BY <1>0, <1>7, InAppend
  <2>2. Distinct(ch')
    BY <1>0, <1>3, <1>7, DistinctAppend DEF PlaceInv, NoDuplicates, Waiting
  <2>3. \A i \in Job : call'[i] = "accepted" <=> call[i] = "accepted" \/ i = j
    BY <1>7
  <2> QED BY <1>1, <1>3, <1>4, <1>7, <2>1, <2>2, <2>3
          DEF PlaceInv, NoDuplicates, NothingLost, Waiting, Settled, Holds
<1>8. DispatchLookup(j) \/ DispatchAbandon(j) =>
        \E c \in CallState \ {"accepted"} :
          call' = [call EXCEPT ![j] = c] /\ UNCHANGED <<ch, timers>>
  BY DEF DispatchLookup, DispatchAbandon, CallState
<1>9. DispatchEnqueue(j) =>
        \/ \E c \in CallState \ {"accepted"} :
             call' = [call EXCEPT ![j] = c] /\ UNCHANGED <<ch, timers>>
        \/ /\ call' = [call EXCEPT ![j] = "accepted"]
           /\ timers' = timers \cup {Dispatched(j)} /\ UNCHANGED ch
  BY DEF DispatchEnqueue, EnqueueRefused, EnqueueDelayed, EnqueueAdmitted, CallState
<1>10. DispatchSend(j) =>
         /\ call' = [call EXCEPT ![j] = "accepted"]
         /\ ch' = Append(ch, Dispatched(j)) /\ UNCHANGED timers
  BY DEF DispatchSend, SelectSend
<1> QED BY <1>5, <1>6, <1>7, <1>8, <1>9, <1>10 DEF Dispatch

(* A worker that lets go of its job: the job must be in the dead letters,  *)
(* acknowledged, delayed or buffered now, or the queue must be closed.     *)
LEMMA PlaceRelease ==
  ASSUME TypeInv, PlaceInv, NEW g \in Goroutine, pc[g] \in Holding,
         NEW state \in WorkerState \ Holding, pc' = [pc EXCEPT ![g] = state],
         \A h \in Goroutine : h # g => held'[h] = held[h],
         UNCHANGED <<call, firing, closed>>,
         \/ closed /\ UNCHANGED <<ch, timers, failed, acked>>
         \/ acked' = acked \cup {held[g].id} /\ UNCHANGED <<ch, timers, failed>>
         \/ failed' = Append(failed, held[g]) /\ UNCHANGED <<ch, timers, acked>>
         \/ /\ \E job \in JobRec : job.id = held[g].id /\ ch' = Append(ch, job)
            /\ UNCHANGED <<timers, failed, acked>>
         \/ /\ \E job \in JobRec : job.id = held[g].id /\ timers' = timers \cup {job}
            /\ UNCHANGED <<ch, failed, acked>>
  PROVE  PlaceInv'
<1> DEFINE k == held[g].id
<1> USE DEF TypeInv, TypeOK, QueueTypeOK, HoldsJob
<1>1. held[g] \in JobRec /\ k \in Job
  BY DEF JobRec
<1>2. \A h \in Goroutine, j \in Job : Holds(h, j)' <=> h # g /\ Holds(h, j)
  BY HoldsDrop
<1>3. Held(k) /\ Holds(g, k) /\ \A j \in Job : Holds(g, j) <=> j = k
  BY <1>1 DEF Held, Holds
<1>4. ~Waiting(k) /\ ~Settled(k) /\ call[k] = "accepted"
  BY <1>1, <1>3 DEF PlaceInv, NoDuplicates
<1>5. \A j \in Job : Held(j)' <=> Held(j) /\ j # k
  BY <1>1, <1>2, <1>3 DEF PlaceInv, NoDuplicates, Held
<1>6. failed \in Seq(JobRec) /\ ch \in Seq(JobRec)
  OBVIOUS
<1> HIDE DEF k, TypeInv, TypeOK, QueueTypeOK, HoldsJob
<1>7. CASE closed /\ UNCHANGED <<ch, timers, failed, acked>>
  BY <1>1, <1>2, <1>4, <1>5, <1>7
     DEF PlaceInv, NoDuplicates, NothingLost, Waiting, Settled
<1>8. CASE acked' = acked \cup {held[g].id} /\ UNCHANGED <<ch, timers, failed>>
  <2>1. \A j : j \in acked' <=> j \in acked \/ j = k
    BY <1>8 DEF k
  <2> QED BY <1>1, <1>2, <1>4, <1>5, <1>8, <2>1
          DEF PlaceInv, NoDuplicates, NothingLost, Waiting, Settled
<1>9. CASE failed' = Append(failed, held[g]) /\ UNCHANGED <<ch, timers, acked>>
  <2>1. \A j : In(failed', j) <=> In(failed, j) \/ j = k
    BY <1>1, <1>6, <1>9, InAppend DEF k
  <2>2. Distinct(failed')
    BY <1>1, <1>4, <1>6, <1>9, DistinctAppend DEF PlaceInv, NoDuplicates, Settled, k
  <2> QED BY <1>1, <1>2, <1>4, <1>5, <1>9, <2>1, <2>2
          DEF PlaceInv, NoDuplicates, NothingLost, Waiting, Settled
<1>10. CASE /\ \E job \in JobRec : job.id = held[g].id /\ ch' = Append(ch, job)
           /\ UNCHANGED <<timers, failed, acked>>
  <2>1. PICK job \in JobRec : job.id = k /\ ch' = Append(ch, job)
    BY <1>10 DEF k
  <2>2. \A j : In(ch', j) <=> In(ch, j) \/ j = k
    BY <1>6, <2>1, InAppend
  <2>3. Distinct(ch')
    BY <1>4, <1>6, <2>1, DistinctAppend DEF PlaceInv, NoDuplicates, Waiting
  <2> QED BY <1>1, <1>2, <1>4, <1>5, <1>10, <2>2, <2>3
          DEF PlaceInv, NoDuplicates, NothingLost, Waiting, Settled
<1>11. CASE /\ \E job \in JobRec : job.id = held[g].id /\ timers' = timers \cup {job}
            /\ UNCHANGED <<ch, failed, acked>>
  <2>1. PICK job \in JobRec : job.id = k /\ timers' = timers \cup {job}
    BY <1>11 DEF k
  <2>2. \A j : InSet(timers', j) <=> InSet(timers, j) \/ j = k
    BY <2>1, InSetAdd
  <2>3. DistinctSet(timers')
    BY <1>4, <2>1, DistinctSetAdd DEF PlaceInv, NoDuplicates, Waiting
  <2> QED BY <1>1, <1>2, <1>4, <1>5, <1>11, <2>2, <2>3
          DEF PlaceInv, NoDuplicates, NothingLost, Waiting, Settled
<1> QED BY <1>7, <1>8, <1>9, <1>10, <1>11

(* A worker that goes on with the job it has, or has none before and after. *)
LEMMA PlaceKeep ==
  ASSUME TypeInv, PlaceInv,
         \A h \in Goroutine, j \in Job : Holds(h, j)' <=> Holds(h, j),
         UNCHANGED <<ch, timers, firing, closed, failed, call, acked>>
  PROVE  PlaceInv'
BY DEF PlaceInv, NoDuplicates, NothingLost, Waiting, Held, Settled,
       In, InSet, Distinct, DistinctSet

(* A worker that takes the first job of the buffer.                        *)
LEMMA PlaceTake ==
  ASSUME TypeInv, PlaceInv, NEW g \in Goroutine, WorkerReceive(g)
  PROVE  PlaceInv'
<1> DEFINE k == Head(ch).id
<1> USE DEF TypeInv, TypeOK, QueueTypeOK
<1>0. /\ ch # <<>> /\ ch' = Tail(ch) /\ pc[g] = "receive"
      /\ pc' = [pc EXCEPT ![g] = "lookup"] /\ held' = [held EXCEPT ![g] = Head(ch)]
      /\ UNCHANGED <<timers, firing, closed, failed, call, acked>>
  BY DEF WorkerReceive, Receive, Goto, dvars, hvars
<1>1. Head(ch) \in JobRec /\ k \in Job
  <2>1. Head(ch) \in JobRec
    BY <1>0
  <2> QED BY <2>1 DEF JobRec
<1>2. \A h \in Goroutine, j \in Job :
        Holds(h, j)' <=> IF h = g THEN j = k ELSE Holds(h, j)
  <2>1. "lookup" \in Holding
    BY DEF Holding
  <2> QED BY <1>0, <1>1, <2>1, HoldsTake
<1>3. \A j : In(ch, j) <=> j = k \/ In(ch', j)
  BY <1>0, InTail
<1>4. Distinct(ch') /\ ~In(ch', k)
  BY <1>0, DistinctTail DEF PlaceInv, NoDuplicates
<1>5. ~Held(k) /\ ~Settled(k) /\ call[k] = "accepted"
      /\ ~InSet(timers, k) /\ ~InSet(firing, k)
  BY <1>1, <1>3 DEF PlaceInv, NoDuplicates, Waiting
<1>6. \A j \in Job : ~Holds(g, j)
  BY <1>0 DEF Holds, Holding
<1>7. \A j \in Job : Held(j)' <=> Held(j) \/ j = k
  BY <1>1, <1>2, <1>6 DEF Held
<1>8. \A h \in Goroutine : ~Holds(h, k)
  BY <1>5 DEF Held
<1> HIDE DEF k, TypeInv, TypeOK, QueueTypeOK
<1> QED BY <1>0, <1>1, <1>2, <1>3, <1>4, <1>5, <1>7, <1>8
        DEF PlaceInv, NoDuplicates, NothingLost, Waiting, Settled

LEMMA PlaceWork ==
  ASSUME TypeInv, PlaceInv, NEW g \in Goroutine, Work(g)
  PROVE  PlaceInv'
<1> USE DEF qvars, mvars, dvars, wvars, svars, hvars
<1>0. held \in [Goroutine -> JobRec \cup {NoJob}] /\ pc \in [Goroutine -> WorkerState]
      /\ (pc[g] \in Holding => held[g] \in JobRec)
      /\ RetryCopy(held[g]).id = held[g].id
  BY DEF TypeInv, TypeOK, HoldsJob, RetryCopy
<1>1. {"receive", "report", "exited"} \subseteq WorkerState \ Holding
      /\ {"lookup", "handle", "retry", "send", "discard", "reject"} \subseteq Holding
  BY DEF WorkerState, Holding
<1>2. CASE WorkerReceive(g)
  BY <1>2, PlaceTake
<1>3. CASE WorkerExit(g) \/ WorkerReport(g)
  <2>1. /\ pc[g] \in {"receive", "report"} /\ \E state \in {"receive", "exited"} :
                                                pc' = [pc EXCEPT ![g] = state]
        /\ \A h \in Goroutine : h # g => held'[h] = held[h]
        /\ UNCHANGED <<ch, timers, firing, closed, failed, call, acked>>
    BY <1>0, <1>3 DEF WorkerExit, WorkerReport, Goto, Release
  <2>2. \A h \in Goroutine, j \in Job : Holds(h, j)' <=> h # g /\ Holds(h, j)
    BY <1>1, <2>1, HoldsDrop
  <2>3. \A j \in Job : ~Holds(g, j)
    BY <1>1, <2>1 DEF Holds
  <2> QED BY <2>1, <2>2, <2>3, PlaceKeep
<1>4. CASE WorkerLookup(g) \/ HandlerFails(g) \/ HandlerFailsPermanently(g)
  <2>1. /\ pc[g] \in Holding /\ \E state \in Holding : pc' = [pc EXCEPT ![g] = state]
        /\ UNCHANGED <<held, ch, timers, firing, closed, failed, call, acked>>
    BY <1>1, <1>4 DEF WorkerLookup, HandlerFails, HandlerFailsPermanently, Goto
  <2> QED BY <2>1, HoldsKeep, PlaceKeep
<1>5. CASE HandlerSucceeds(g)
  BY <1>0, <1>1, <1>5, PlaceRelease DEF HandlerSucceeds, Goto, Release
<1>6. CASE WorkerRetry(g)
  <2>1. RetryCopy(held[g]) \in JobRec /\ pc[g] \in Holding
    BY <1>0, <1>1, <1>6, RetryCopyTyped DEF WorkerRetry
  <2>2. CASE EnqueueRefused /\ Release(g)
    BY <1>0, <1>1, <1>6, <2>1, <2>2, PlaceRelease
       DEF WorkerRetry, EnqueueRefused, Goto, Release
  <2>3. CASE EnqueueDelayed(RetryCopy(held[g])) /\ Release(g)
    BY <1>0, <1>1, <1>6, <2>1, <2>3, PlaceRelease
       DEF WorkerRetry, EnqueueDelayed, Goto, Release
  <2>4. CASE EnqueueAdmitted /\ Goto(g, "send")
             /\ held' = [held EXCEPT ![g] = RetryCopy(held[g])]
    <3>1. \A h \in Goroutine, j \in Job : Holds(h, j)' <=> Holds(h, j)
      <4>1. \A h \in Goroutine, j \in Job :
              Holds(h, j)' <=> IF h = g THEN RetryCopy(held[g]).id = j ELSE Holds(h, j)
        BY <1>1, <2>1, <2>4, HoldsTake DEF Goto
      <4> QED BY <1>0, <2>1, <4>1 DEF Holds
    <3> QED BY <1>6, <2>4, <3>1, PlaceKeep DEF WorkerRetry, EnqueueAdmitted
  <2> QED BY <1>6, <2>2, <2>3, <2>4 DEF WorkerRetry
<1>7. CASE WorkerSend(g)
  BY <1>0, <1>1, <1>7, PlaceRelease DEF WorkerSend, SelectSend, SelectDone, Goto, Release
<1>8. CASE WorkerDiscard(g) \/ WorkerReject(g)
  BY <1>0, <1>1, <1>8, PlaceRelease DEF WorkerDiscard, WorkerReject, Reject, Goto, Release
<1> QED BY <1>2, <1>3, <1>4, <1>5, <1>6, <1>7, <1>8 DEF Work, Handler

LEMMA PlaceTimer ==
  ASSUME TypeInv, PlaceInv, NEW job \in timers \cup firing, Timer(job)
  PROVE  PlaceInv'
<1> DEFINE k == job.id
<1> USE DEF TypeInv, TypeOK, QueueTypeOK
<1>0. UNCHANGED <<failed, call, acked>> /\ \A j \in Job : Held(j)' <=> Held(j)
  BY DEF Timer, others, dvars, wvars, hvars, TimerFire, CallbackSend, CallbackDrop,
         Held, Holds
<1>1. job \in JobRec /\ k \in Job
  BY DEF JobRec
<1>2. \A h \in Goroutine, j \in Job : Holds(h, j)' <=> Holds(h, j)
  BY DEF Timer, others, wvars, Holds
<1>3. DistinctSet(timers) /\ DistinctSet(firing) /\ Distinct(ch)
  BY DEF PlaceInv, NoDuplicates
<1>4. ch \in Seq(JobRec)
  OBVIOUS
<1> HIDE DEF k, TypeInv, TypeOK, QueueTypeOK
<1>5. CASE TimerFire(job)
  <2>1. job \in timers /\ timers' = timers \ {job} /\ UNCHANGED <<ch, closed>>
        /\ firing' = IF closed THEN firing ELSE firing \cup {job}
    BY <1>5 DEF TimerFire
  <2>2. \A j : InSet(timers', j) <=> InSet(timers, j) /\ j # k
    BY <1>3, <2>1, InSetRemove DEF k
  <2>3. DistinctSet(timers')
    BY <1>3, <2>1, DistinctSetRemove
  <2>4. InSet(timers, k)
    BY <2>1 DEF InSet, k
  <2>5. CASE closed
    BY <1>0, <1>1, <1>2, <2>1, <2>2, <2>3, <2>4, <2>5
       DEF PlaceInv, NoDuplicates, NothingLost, Waiting, Settled
  <2>6. CASE ~closed
    <3>1. \A j : InSet(firing', j) <=> InSet(firing, j) \/ j = k
      BY <2>1, <2>6, InSetAdd DEF k
    <3>2. DistinctSet(firing')
      BY <1>1, <1>3, <2>1, <2>4, <2>6, DistinctSetAdd DEF PlaceInv, NoDuplicates, k
    <3> QED BY <1>0, <1>1, <1>2, <2>1, <2>2, <2>3, <2>4, <2>6, <3>1, <3>2
            DEF PlaceInv, NoDuplicates, NothingLost, Waiting, Settled
  <2> QED BY <2>5, <2>6
<1>6. CASE CallbackSend(job)
  <2>1. job \in firing /\ firing' = firing \ {job} /\ ch' = Append(ch, job)
        /\ UNCHANGED <<timers, closed>>
    BY <1>6 DEF CallbackSend
  <2>2. \A j : InSet(firing', j) <=> InSet(firing, j) /\ j # k
    BY <1>3, <2>1, InSetRemove DEF k
  <2>3. DistinctSet(firing')
    BY <1>3, <2>1, DistinctSetRemove
  <2>4. InSet(firing, k)
    BY <2>1 DEF InSet, k
  <2>5. \A j : In(ch', j) <=> In(ch, j) \/ j = k
    BY <1>1, <1>4, <2>1, InAppend DEF k
  <2>6. Distinct(ch')
    BY <1>1, <1>3, <1>4, <2>1, <2>4, DistinctAppend DEF PlaceInv, NoDuplicates, k
  <2> QED BY <1>0, <1>1, <1>2, <2>1, <2>2, <2>3, <2>4, <2>5, <2>6
          DEF PlaceInv, NoDuplicates, NothingLost, Waiting, Settled
<1>7. CASE CallbackDrop(job)
  <2>1. job \in firing /\ firing' = firing \ {job} /\ closed
        /\ UNCHANGED <<ch, timers, closed>>
    BY <1>7 DEF CallbackDrop
  <2>2. \A j : InSet(firing', j) <=> InSet(firing, j) /\ j # k
    BY <1>3, <2>1, InSetRemove DEF k
  <2>3. DistinctSet(firing')
    BY <1>3, <2>1, DistinctSetRemove
  <2> QED BY <1>0, <1>1, <1>2, <2>1, <2>2, <2>3
          DEF PlaceInv, NoDuplicates, NothingLost, Waiting, Settled
<1> QED BY <1>5, <1>6, <1>7 DEF Timer

(* A start brings workers to life that hold nothing; closing the queue     *)
(* empties the timers.                                                     *)
LEMMA PlaceRest ==
  ASSUME TypeInv, StopInv, PlaceInv,
         \/ Start \/ QueueClose
         \/ \E s \in Stopper : Stop(s)
         \/ \E n \in Name : Register(n)
  PROVE  PlaceInv'
<1>1. CASE Start
  <2>1. \A h \in Goroutine : pc'[h] \in Holding <=> pc[h] \in Holding
    <3> SUFFICES ASSUME NEW h \in Goroutine
                 PROVE  pc'[h] \in Holding <=> pc[h] \in Holding
      OBVIOUS
    <3>1. pc'[h] = IF h[1] = gen + 1 THEN "receive" ELSE pc[h]
      BY <1>1 DEF Start
    <3>2. h[1] = gen + 1 => pc[h] = "unborn"
      <4>1. gen \in Nat
        BY DEF TypeInv, TypeOK
      <4> QED BY <4>1 DEF StopInv
    <3> QED BY <3>1, <3>2 DEF Holding
  <2>2. \A h \in Goroutine, j \in Job : Holds(h, j)' <=> Holds(h, j)
    BY <1>1, <2>1 DEF Start, Holds
  <2> QED BY <1>1, <2>2, PlaceKeep DEF Start, qvars, dvars, hvars
<1>2. CASE QueueClose
  <2>1. closed' /\ timers' = {} /\ UNCHANGED <<ch, firing, failed, call, pc, held, acked>>
    BY <1>2 DEF QueueClose, Close, others, dvars, wvars, hvars
  <2>2. \A j : ~InSet(timers', j)
    BY <2>1 DEF InSet
  <2>3. DistinctSet(timers')
    BY <2>1 DEF DistinctSet
  <2>4. \A h \in Goroutine, j \in Job : Holds(h, j)' <=> Holds(h, j)
    BY <2>1 DEF Holds
  <2>5. \A j \in Job : Held(j)' <=> Held(j)
    BY <2>1 DEF Held, Holds
  <2> QED BY <2>1, <2>2, <2>3, <2>4, <2>5
          DEF PlaceInv, NoDuplicates, NothingLost, Waiting, Settled
<1>3. CASE (\E s \in Stopper : Stop(s)) \/ \E n \in Name : Register(n)
  BY <1>3, PlaceStutter DEF Stop, StopBegin, StopCancel, StopDrained, StopReturn, StopExpire,
     Register, qvars, dvars, wvars, hvars
<1> QED BY <1>1, <1>2, <1>3

LEMMA PlaceNext == TypeInv /\ StopInv /\ PlaceInv /\ [Next]_vars => PlaceInv'
<1> SUFFICES ASSUME TypeInv, StopInv, PlaceInv, [Next]_vars PROVE PlaceInv'
  OBVIOUS
<1>1. CASE UNCHANGED vars
  BY <1>1, PlaceStutter DEF vars, qvars, dvars, wvars, hvars
<1> QED BY <1>1, PlaceDispatch, PlaceWork, PlaceTimer, PlaceRest DEF Next, Timers

LEMMA PlaceInvariance == Spec => []PlaceInv
BY TypeInvariance, StopInvariance, PlaceInit, PlaceNext, PTL DEF Spec

(* Whatever the interleaving of callers, workers, timers, starts and stops, *)
(* a job is never in two places: not delivered to two workers, not retried *)
(* and dead-lettered, not queued after Dispatch reported an error.         *)
THEOREM DeliveredOnce == Spec => []NoDuplicates
<1>1. PlaceInv => NoDuplicates
  BY DEF PlaceInv
<1> QED BY <1>1, PlaceInvariance, PTL

(* While the queue is open a job whose Dispatch succeeded is never lost.   *)
THEOREM AcceptedIsKept == Spec => []NothingLost
<1>1. PlaceInv => NothingLost
  BY DEF PlaceInv
<1> QED BY <1>1, PlaceInvariance, PTL

-----------------------------------------------------------------------------
(* Attempts.  A job that waits for a delivery carries the number of the    *)
(* attempt that is next; one whose handler was entered, of the last.       *)
Counts(job) ==
  /\ job.attempt <= AttemptLimit(job.id)
  /\ job.max \in {0, RegMax[JobName[job.id]]}
Fresh(job) == Counts(job) /\ job.attempt = attempts[job.id] + 1
Tried(job) == Counts(job) /\ job.attempt = attempts[job.id]

AttemptInv ==
  /\ \A i \in DOMAIN ch : Fresh(ch[i])
  /\ \A job \in timers \cup firing : Fresh(job)
  /\ \A g \in Goroutine :
       /\ pc[g] \in {"lookup", "send"} => Fresh(held[g])
       /\ pc[g] \in {"handle", "retry"} => Tried(held[g])
       /\ pc[g] = "retry" => MayRetry(held[g])
  /\ \A j \in Job :
       /\ call[j] # "accepted" => attempts[j] = 0
       /\ callMax[j] \in {0, RegMax[JobName[j]]}
  /\ AttemptsWithinLimit

LEMMA LimitPositive ==
  ASSUME NEW j \in Job
  PROVE  AttemptLimit(j) \in Nat \ {0} /\ RegMax[JobName[j]] \in Nat
BY ManagerAssumption DEF AttemptLimit

LEMMA AttemptInit == Init => AttemptInv
<1> SUFFICES ASSUME Init PROVE AttemptInv
  OBVIOUS
<1>1. DOMAIN ch = {} /\ timers \cup firing = {}
  BY DEF Init, QueueInit
<1>2. AttemptsWithinLimit
  <2> SUFFICES ASSUME NEW j \in Job PROVE attempts[j] <= AttemptLimit(j)
    BY DEF AttemptsWithinLimit
  <2>1. attempts[j] = 0
    BY DEF Init
  <2>2. AttemptLimit(j) \in Nat
    BY LimitPositive
  <2> QED BY <2>1, <2>2
<1> QED BY <1>1, <1>2 DEF Init, AttemptInv

(* A retry is enqueued only for an attempt the registration allows.        *)
LEMMA RetryIsFresh ==
  ASSUME TypeInv, NEW job \in JobRec, Tried(job), MayRetry(job)
  PROVE  Fresh(RetryCopy(job))
<1>1. job.id \in Job /\ job.attempt \in Nat /\ attempts[job.id] \in Nat
  BY DEF JobRec, TypeInv, TypeOK
<1>2. RetryCopy(job).id = job.id /\ RetryCopy(job).max = job.max
      /\ RetryCopy(job).attempt = job.attempt + 1
  BY DEF RetryCopy, JobRec
<1>3. RegMax[JobName[job.id]] \in Nat
  BY <1>1, LimitPositive
<1>4. job.attempt < RegMax[JobName[job.id]]
  BY DEF Tried, Counts, MayRetry, Limit
<1>5. job.attempt + 1 <= AttemptLimit(job.id)
  BY <1>1, <1>3, <1>4 DEF AttemptLimit
<1> QED BY <1>1, <1>2, <1>5 DEF Fresh, Tried, Counts

(* Most steps enter no handler: then only the records that a step puts     *)
(* somewhere new have to be looked at.                                     *)
LEMMA AttemptMoves ==
  ASSUME TypeInv, AttemptInv, UNCHANGED attempts,
         \A i \in DOMAIN ch' : Fresh(ch'[i]),
         \A job \in timers' \cup firing' : Fresh(job),
         \A g \in Goroutine :
           /\ pc'[g] \in {"lookup", "send"} => Fresh(held'[g])
           /\ pc'[g] \in {"handle", "retry"} => Tried(held'[g])
           /\ pc'[g] = "retry" => MayRetry(held'[g]),
         \A j \in Job :
           /\ call'[j] # "accepted" => call[j] # "accepted"
           /\ callMax'[j] \in {0, RegMax[JobName[j]]}
  PROVE  AttemptInv'
<1>1. \A job : (Fresh(job)' <=> Fresh(job)) /\ (Tried(job)' <=> Tried(job))
  BY DEF Fresh, Tried, Counts, AttemptLimit
<1>2. AttemptsWithinLimit'
  BY DEF AttemptInv, AttemptsWithinLimit, AttemptLimit
<1> QED BY <1>1, <1>2 DEF AttemptInv, Fresh, Tried, Counts, MayRetry, Limit, AttemptLimit

LEMMA AppendFresh ==
  ASSUME ch \in Seq(JobRec), \A i \in DOMAIN ch : Fresh(ch[i]),
         NEW job \in JobRec, Fresh(job), ch' = Append(ch, job)
  PROVE  \A i \in DOMAIN ch' : Fresh(ch'[i])
<1>1. /\ DOMAIN ch = 1..Len(ch) /\ DOMAIN ch' = 1..(Len(ch) + 1) /\ Len(ch) \in Nat
      /\ \A i \in 1..Len(ch) : ch'[i] = ch[i]
      /\ ch'[Len(ch) + 1] = job
  OBVIOUS
<1> QED BY <1>1

LEMMA AttemptDispatch ==
  ASSUME TypeInv, AttemptInv, NEW j \in Job, Dispatch(j)
  PROVE  AttemptInv'
<1> USE DEF TypeInv, TypeOK, QueueTypeOK, qvars, mvars, dvars, wvars, svars, hvars
<1>0. Dispatched(j) \in JobRec
  BY DispatchedTyped
<1>1. UNCHANGED <<attempts, firing, pc, held>>
      /\ \A i \in Job : call'[i] # "accepted" => call[i] # "accepted"
  BY DEF Dispatch, DispatchLookup, DispatchEnqueue, DispatchSend, DispatchAbandon,
         EnqueueRefused, EnqueueDelayed, EnqueueAdmitted, SelectSend
<1>2. \A i \in Job : callMax'[i] \in {0, RegMax[JobName[i]]}
  BY DEF AttemptInv, Dispatch, DispatchLookup, DispatchEnqueue, DispatchSend,
         DispatchAbandon
<1>3. call[j] # "accepted" => Fresh(Dispatched(j))
  BY LimitPositive DEF AttemptInv, Fresh, Counts, Dispatched
<1>4. \/ UNCHANGED <<ch, timers>>
      \/ call[j] # "accepted" /\ ch' = Append(ch, Dispatched(j)) /\ UNCHANGED timers
      \/ call[j] # "accepted" /\ timers' = timers \cup {Dispatched(j)} /\ UNCHANGED ch
  BY DEF Dispatch, DispatchLookup, DispatchEnqueue, DispatchSend, DispatchAbandon,
         EnqueueRefused, EnqueueDelayed, EnqueueAdmitted, SelectSend
<1>5. \A i \in DOMAIN ch' : Fresh(ch'[i])
  BY <1>0, <1>3, <1>4, AppendFresh DEF AttemptInv
<1>6. \A job \in timers' \cup firing' : Fresh(job)
  BY <1>1, <1>3, <1>4 DEF AttemptInv
<1>7. \A g \in Goroutine :
        /\ pc'[g] \in {"lookup", "send"} => Fresh(held'[g])
        /\ pc'[g] \in {"handle", "retry"} => Tried(held'[g])
        /\ pc'[g] = "retry" => MayRetry(held'[g])
  BY <1>1 DEF AttemptInv
<1> QED BY <1>1, <1>2, <1>5, <1>6, <1>7, AttemptMoves

(* Entering the handler is the step that counts.  No other record of the   *)
(* job is about (DeliveredOnce), so none is left behind with an old count. *)
LEMMA AttemptEnter ==
  ASSUME TypeInv, PlaceInv, AttemptInv, NEW g \in Goroutine, WorkerLookup(g),
         JobName[held[g].id] \in handlers
  PROVE  AttemptInv'
<1> DEFINE k == held[g].id
           F(job) == Counts(job) /\ job.attempt = attempts'[job.id] + 1
           T(job) == Counts(job) /\ job.attempt = attempts'[job.id]
<1> USE DEF TypeInv, TypeOK, QueueTypeOK
<1>0. /\ pc[g] = "lookup" /\ pc' = [pc EXCEPT ![g] = "handle"]
      /\ attempts' = [attempts EXCEPT ![k] = @ + 1]
      /\ UNCHANGED <<ch, timers, firing, call, callMax, held>>
  BY DEF WorkerLookup, Goto, qvars, dvars
<1>1. held[g] \in JobRec
  BY <1>0 DEF HoldsJob, Holding
<1>2. k \in Job /\ attempts[k] \in Nat /\ Fresh(held[g])
  BY <1>0, <1>1 DEF JobRec, AttemptInv
<1>3. Holds(g, k)
  BY <1>0 DEF Holds, Holding
<1>4. ~Waiting(k) /\ call[k] = "accepted"
      /\ \A h \in Goroutine : Holds(h, k) => h = g
  BY <1>2, <1>3 DEF PlaceInv, NoDuplicates, Held
<1>5. ASSUME NEW job, job.id \in Job, job.id # k
      PROVE  (Fresh(job) => F(job)) /\ (Tried(job) => T(job))
  BY <1>0, <1>5 DEF Fresh, Tried
<1>6. T(held[g])
  BY <1>0, <1>2 DEF Fresh, Tried
<1>7. \A i \in DOMAIN ch : ch[i].id # k
  BY <1>4 DEF Waiting, In
<1>8. \A job \in timers \cup firing : job.id # k
  BY <1>4 DEF Waiting, InSet
<1>9. \A h \in Goroutine : h # g /\ pc[h] \in Holding => held[h].id # k
  BY <1>4 DEF Holds
<1>10. \A j \in Job : j # k => attempts'[j] = attempts[j]
  BY <1>0
<1>11. attempts'[k] <= AttemptLimit(k)
  BY <1>0, <1>2 DEF Fresh, Counts
<1> HIDE DEF k
<1> HIDE DEF F, T
<1>12. \A i \in DOMAIN ch : F(ch[i])
  <2>1. \A i \in DOMAIN ch : ch[i] \in JobRec
    OBVIOUS
  <2>2. \A i \in DOMAIN ch : ch[i].id \in Job
    BY <2>1 DEF JobRec
  <2> QED BY <1>5, <1>7, <2>2 DEF AttemptInv
<1>13. \A job \in timers \cup firing : F(job)
  BY <1>5, <1>8 DEF AttemptInv, JobRec
<1>14. \A h \in Goroutine :
         /\ pc'[h] \in {"lookup", "send"} => F(held[h])
         /\ pc'[h] \in {"handle", "retry"} => T(held[h])
         /\ pc'[h] = "retry" => MayRetry(held[h])
  <2>1. \A h \in Goroutine : pc[h] \in Holding => held[h].id \in Job
    BY DEF HoldsJob, JobRec
  <2> QED BY <1>0, <1>5, <1>6, <1>9, <2>1 DEF AttemptInv, Holding
<1>15. \A j \in Job : /\ call'[j] # "accepted" => attempts'[j] = 0
                      /\ callMax'[j] \in {0, RegMax[JobName[j]]}
  BY <1>0, <1>4, <1>10 DEF AttemptInv
<1>16. AttemptsWithinLimit'
  BY <1>10, <1>11 DEF AttemptInv, AttemptsWithinLimit, AttemptLimit
<1>17. \A job : (Fresh(job)' <=> F(job)) /\ (Tried(job)' <=> T(job))
  BY DEF F, T, Fresh, Tried, Counts, AttemptLimit
<1>18. \A job : MayRetry(job)' <=> MayRetry(job)
  BY DEF MayRetry, Limit
<1> QED BY <1>0, <1>12, <1>13, <1>14, <1>15, <1>16, <1>17, <1>18 DEF AttemptInv

LEMMA AttemptWork ==
  ASSUME TypeInv, PlaceInv, AttemptInv, NEW g \in Goroutine, Work(g)
  PROVE  AttemptInv'
<1> DEFINE Sound(state, job) ==
             /\ state \in {"lookup", "send"} => Fresh(job)
             /\ state \in {"handle", "retry"} => Tried(job)
             /\ state = "retry" => MayRetry(job)
<1> USE DEF qvars, mvars, dvars, wvars, svars, hvars
<1>0. /\ ch \in Seq(JobRec) /\ pc \in [Goroutine -> WorkerState]
      /\ held \in [Goroutine -> JobRec \cup {NoJob}]
      /\ pc[g] \in Holding => held[g] \in JobRec
  BY DEF TypeInv, TypeOK, QueueTypeOK, HoldsJob
<1>1. /\ \A i \in DOMAIN ch : Fresh(ch[i])
      /\ \A job \in timers \cup firing : Fresh(job)
      /\ \A h \in Goroutine : Sound(pc[h], held[h])
      /\ \A j \in Job : callMax[j] \in {0, RegMax[JobName[j]]}
  BY DEF AttemptInv
<1>2. UNCHANGED <<call, callMax, firing>>
      /\ \A h \in Goroutine : h # g => pc'[h] = pc[h] /\ held'[h] = held[h]
  BY <1>0 DEF Work, Handler, WorkerReceive, WorkerExit, WorkerLookup,
     HandlerSucceeds, HandlerFails, HandlerFailsPermanently, WorkerRetry,
     WorkerSend, WorkerDiscard, WorkerReject, WorkerReport, Goto, Release,
     Receive, EnqueueRefused, EnqueueDelayed, EnqueueAdmitted, SelectSend,
     SelectDone, Reject
(* What remains when no handler is entered.                                *)
<1>3. ASSUME UNCHANGED attempts,
             \A i \in DOMAIN ch' : Fresh(ch'[i]),
             \A job \in timers' : Fresh(job),
             Sound(pc'[g], held'[g])
      PROVE  AttemptInv'
  BY <1>1, <1>2, <1>3, AttemptMoves
<1>4. CASE WorkerReceive(g)
  <2>1. ch # <<>> /\ ch' = Tail(ch) /\ pc'[g] = "lookup" /\ held'[g] = Head(ch)
        /\ UNCHANGED <<attempts, timers>>
    BY <1>0, <1>4 DEF WorkerReceive, Receive, Goto
  <2>2. /\ \A i \in DOMAIN ch' : i + 1 \in DOMAIN ch /\ ch'[i] = ch[i + 1]
        /\ 1 \in DOMAIN ch /\ Head(ch) = ch[1]
    BY <1>0, <2>1
  <2>3. (\A i \in DOMAIN ch' : Fresh(ch'[i])) /\ Fresh(Head(ch))
    BY <1>1, <2>2
  <2> QED BY <1>1, <1>3, <2>1, <2>3
<1>5. CASE WorkerLookup(g) /\ JobName[held[g].id] \in handlers
  BY <1>5, AttemptEnter
<1>6. CASE \/ WorkerLookup(g) /\ JobName[held[g].id] \notin handlers
           \/ WorkerExit(g) \/ HandlerSucceeds(g) \/ HandlerFailsPermanently(g)
           \/ WorkerDiscard(g) \/ WorkerReject(g) \/ WorkerReport(g)
  <2>1. pc'[g] \in {"discard", "exited", "receive", "reject", "report"}
        /\ UNCHANGED <<attempts, ch, timers>>
    BY <1>0, <1>6 DEF WorkerLookup, WorkerExit, HandlerSucceeds,
       HandlerFailsPermanently, WorkerDiscard, WorkerReject, WorkerReport,
       Reject, Goto, Release
  <2> QED BY <1>1, <1>3, <2>1
<1>7. CASE HandlerFails(g)
  <2>1. pc[g] = "handle" /\ UNCHANGED <<attempts, ch, timers, held>>
        /\ pc'[g] = IF MayRetry(held[g]) THEN "retry" ELSE "reject"
    BY <1>0, <1>7 DEF HandlerFails, Goto
  <2> QED BY <1>1, <1>3, <2>1
<1>8. CASE WorkerRetry(g)
  <2>1. pc[g] = "retry" /\ held[g] \in JobRec /\ UNCHANGED <<attempts, ch>>
    BY <1>0, <1>8 DEF WorkerRetry, Holding, EnqueueRefused, EnqueueDelayed,
       EnqueueAdmitted
  <2>2. Fresh(RetryCopy(held[g]))
    BY <1>1, <2>1, RetryIsFresh
  <2>3. \/ pc'[g] = "receive" /\ timers' \subseteq timers \cup {RetryCopy(held[g])}
        \/ pc'[g] = "send" /\ held'[g] = RetryCopy(held[g]) /\ UNCHANGED timers
    BY <1>0, <1>8 DEF WorkerRetry, Goto, Release, EnqueueRefused, EnqueueDelayed,
       EnqueueAdmitted
  <2> QED BY <1>1, <1>3, <2>1, <2>2, <2>3
<1>9. CASE WorkerSend(g)
  <2>1. pc[g] = "send" /\ held[g] \in JobRec /\ pc'[g] = "receive"
        /\ UNCHANGED <<attempts, timers>>
        /\ (ch' = Append(ch, held[g]) \/ UNCHANGED ch)
    BY <1>0, <1>9 DEF WorkerSend, Holding, SelectSend, SelectDone, Goto, Release
  <2>2. \A i \in DOMAIN ch' : Fresh(ch'[i])
    BY <1>0, <1>1, <2>1, AppendFresh
  <2> QED BY <1>1, <1>3, <2>1, <2>2
<1> QED BY <1>4, <1>5, <1>6, <1>7, <1>8, <1>9 DEF Work, Handler

LEMMA AttemptRest ==
  ASSUME TypeInv, StopInv, AttemptInv,
         \/ Start \/ QueueClose \/ Timers
         \/ \E s \in Stopper : Stop(s)
         \/ \E n \in Name : Register(n)
  PROVE  AttemptInv'
<1> USE DEF qvars, mvars, dvars, wvars, svars, hvars, others
<1>0. ch \in Seq(JobRec) /\ timers \cup firing \subseteq JobRec
  BY DEF TypeInv, TypeOK, QueueTypeOK
<1>1. UNCHANGED <<attempts, call, callMax, held>>
  BY DEF Start, QueueClose, Timers, Timer, Stop, StopBegin, StopCancel, StopDrained,
     StopReturn, StopExpire, Register
<1>2. \A g \in Goroutine : pc'[g] = pc[g] \/ pc'[g] = "receive"
  BY DEF Start, QueueClose, Timers, Timer, Stop, StopBegin, StopCancel, StopDrained,
     StopReturn, StopExpire, Register
<1>3. timers' \cup firing' \subseteq timers \cup firing
  BY DEF Start, QueueClose, Close, Timers, Timer, TimerFire, CallbackSend,
     CallbackDrop, Stop, StopBegin, StopCancel, StopDrained, StopReturn, StopExpire, Register
<1>4. ch' = ch \/ \E job \in timers \cup firing : ch' = Append(ch, job)
  BY DEF Start, QueueClose, Close, Timers, Timer, TimerFire, CallbackSend,
     CallbackDrop, Stop, StopBegin, StopCancel, StopDrained, StopReturn, StopExpire, Register
<1>5. \A i \in DOMAIN ch' : Fresh(ch'[i])
  BY <1>0, <1>4, AppendFresh DEF AttemptInv
<1>6. \A job \in timers' \cup firing' : Fresh(job)
  BY <1>3 DEF AttemptInv
<1>7. \A g \in Goroutine :
        /\ pc'[g] \in {"lookup", "send"} => Fresh(held'[g])
        /\ pc'[g] \in {"handle", "retry"} => Tried(held'[g])
        /\ pc'[g] = "retry" => MayRetry(held'[g])
  BY <1>1, <1>2 DEF AttemptInv
<1>8. \A j \in Job : /\ call'[j] # "accepted" => call[j] # "accepted"
                     /\ callMax'[j] \in {0, RegMax[JobName[j]]}
  BY <1>1 DEF AttemptInv
<1> QED BY <1>1, <1>5, <1>6, <1>7, <1>8, AttemptMoves

LEMMA AttemptStutter == AttemptInv /\ UNCHANGED vars => AttemptInv'
BY DEF vars, qvars, dvars, wvars, hvars, AttemptInv, Fresh, Tried, Counts,
       AttemptLimit, MayRetry, Limit, AttemptsWithinLimit

LEMMA AttemptInvariance == Spec => []AttemptInv
<1>1. TypeInv /\ StopInv /\ PlaceInv /\ AttemptInv /\ [Next]_vars => AttemptInv'
  BY AttemptDispatch, AttemptWork, AttemptRest, AttemptStutter DEF Next
<1> QED BY <1>1, TypeInvariance, StopInvariance, PlaceInvariance, AttemptInit, PTL
        DEF Spec

(* The handler of a job runs at most MaxAttempts times (once if that is 0), *)
(* retries and restarts of the manager included.                           *)
THEOREM AttemptsAreBounded == Spec => []AttemptsWithinLimit
<1>1. AttemptInv => AttemptsWithinLimit
  BY DEF AttemptInv
<1> QED BY <1>1, AttemptInvariance, PTL

-----------------------------------------------------------------------------
(***************************************************************************)
(* The job manager implements the ledger of JobLedger: each step moves at  *)
(* most one job, by one of the moves the ledger allows, except that        *)
(* closing the queue loses the delayed jobs together.  What the invariants *)
(* above say of a job before and after a step decides which move it is.    *)
(***************************************************************************)

(* What LedgerStatus depends on.                                           *)
StatusOf(c, done, dead, trial, queued) ==
  IF c \in {"idle", "admitted", "sending"} THEN "new"
  ELSE IF c = "refused" THEN "refused"
  ELSE IF done THEN "done"
  ELSE IF dead THEN "dead"
  ELSE IF trial THEN "running"
  ELSE IF queued THEN "queued"
  ELSE "lost"

Queued(j) == Waiting(j) \/ Held(j)
StatusNow(j) == StatusOf(call[j], j \in acked, In(failed, j), OnTrial(j), Queued(j))

(* A job is in one place at a time, so the cases of LedgerStatus exclude   *)
(* each other.                                                             *)
LEMMA StatusCases ==
  ASSUME TypeInv, PlaceInv, NEW j \in Job
  PROVE  LedgerStatus(j) = StatusNow(j)
<1>1. call[j] \in CallState
  BY DEF TypeInv, TypeOK
<1>2. OnTrial(j) => Held(j)
  BY DEF OnTrial, Held
<1>3. /\ Settled(j) => ~Queued(j)
      /\ ~(j \in acked /\ In(failed, j))
      /\ call[j] # "accepted" => ~Queued(j) /\ ~Settled(j)
  BY DEF PlaceInv, NoDuplicates, Queued
<1> QED BY <1>1, <1>2, <1>3
        DEF LedgerStatus, StatusNow, StatusOf, Settled, Queued, CallState

LEMMA StatusCasesNext ==
  ASSUME TypeInv', PlaceInv', NEW j \in Job
  PROVE  LedgerStatus(j)' = StatusNow(j)'
<1>1. call'[j] \in CallState
  BY DEF TypeInv, TypeOK
<1>2. OnTrial(j)' => Held(j)'
  BY DEF OnTrial, Held
<1>3. /\ Settled(j)' => ~Queued(j)'
      /\ ~(j \in acked' /\ In(failed', j))
      /\ call'[j] # "accepted" => ~Queued(j)' /\ ~Settled(j)'
  BY DEF PlaceInv, NoDuplicates, Queued
<1> QED BY <1>1, <1>2, <1>3
        DEF LedgerStatus, StatusNow, StatusOf, Settled, Queued, CallState

-----------------------------------------------------------------------------
(* Steps seen from the ledger.                                             *)

(* The step leaves job j where it is, as far as the ledger can tell.       *)
Stays(j) ==
  /\ call'[j] = call[j]
  /\ j \in acked' <=> j \in acked
  /\ In(failed, j)' <=> In(failed, j)
  /\ OnTrial(j)' <=> OnTrial(j)
  /\ Queued(j)' <=> Queued(j)

(* The two invariants in the states a step joins.                          *)
Sound == TypeInv /\ PlaceInv /\ TypeInv' /\ PlaceInv'

LEMMA StatusStays ==
  ASSUME Sound, NEW j \in Job, Stays(j)
  PROVE  LedgerStatus(j)' = LedgerStatus(j)
<1>1. /\ LedgerStatus(j) = StatusNow(j)
      /\ LedgerStatus(j)' = StatusNow(j)'
  BY StatusCases, StatusCasesNext DEF Sound
<1> QED BY <1>1 DEF Stays, StatusNow, StatusOf

(* A step that moves no job is a stuttering step of the ledger.            *)
LEMMA LedgerStutters ==
  ASSUME \A j \in Job : LedgerStatus(j)' = LedgerStatus(j),
         UNCHANGED <<attempts, closed>>
  PROVE  UNCHANGED Ledger!vars
<1>1. [j \in Job |-> LedgerStatus(j)]' = [j \in Job |-> LedgerStatus(j)]
  OBVIOUS
<1> QED BY <1>1 DEF Ledger!vars

(* One that moves a single job makes that move.                            *)
LEMMA LedgerMoves ==
  ASSUME NEW k \in Job, NEW from, NEW to,
         LedgerStatus(k) = from, LedgerStatus(k)' = to,
         \A j \in Job : j # k => LedgerStatus(j)' = LedgerStatus(j)
  PROVE  Ledger!Move(k, from, to)
<1> DEFINE st == [j \in Job |-> LedgerStatus(j)]
<1>1. st[k] = from
  OBVIOUS
<1>2. [j \in Job |-> LedgerStatus(j)]' = [st EXCEPT ![k] = to]
  OBVIOUS
<1> QED BY <1>1, <1>2 DEF Ledger!Move

-----------------------------------------------------------------------------
(* Dispatch.                                                               *)

LEMMA LedgerDispatch ==
  ASSUME Sound, NEW j \in Job, Dispatch(j)
  PROVE  [Ledger!Next]_(Ledger!vars)
<1>0. /\ call \in [Job -> CallState] /\ ch \in Seq(JobRec)
      /\ Dispatched(j) \in JobRec /\ Dispatched(j).id = j
  BY DispatchedTyped DEF Sound, TypeInv, TypeOK, QueueTypeOK, Dispatched
<1>1. /\ UNCHANGED <<acked, failed, attempts, closed>>
      /\ \A k \in Job : (OnTrial(k)' <=> OnTrial(k)) /\ (Held(k)' <=> Held(k))
  BY DEF Dispatch, DispatchLookup, DispatchEnqueue, DispatchSend, DispatchAbandon,
         EnqueueRefused, EnqueueDelayed, EnqueueAdmitted, SelectSend, OnTrial, Held,
         Holds, qvars, wvars, hvars
<1>2. \A k \in Job : (In(failed, k)' <=> In(failed, k))
  BY <1>1
<1>3. /\ call[j] \in {"idle", "admitted", "sending"}
      /\ \A k \in Job : k # j => call'[k] = call[k]
      /\ call'[j] \in {"admitted", "refused", "sending", "accepted"}
  BY <1>0 DEF Dispatch, DispatchLookup, DispatchEnqueue, DispatchSend, DispatchAbandon
<1>4. /\ \A k \in Job : k # j => (Queued(k)' <=> Queued(k))
      /\ call'[j] = "accepted" => Queued(j)'
  <2>1. CASE UNCHANGED <<ch, timers, firing>> /\ call'[j] # "accepted"
    BY <1>1, <2>1 DEF Queued, Waiting
  <2>2. CASE UNCHANGED <<ch, firing>> /\ timers' = timers \cup {Dispatched(j)}
    <3>1. \A k : InSet(timers', k) <=> InSet(timers, k) \/ j = k
      BY <1>0, <2>2, InSetAdd
    <3> QED BY <1>1, <2>2, <3>1 DEF Queued, Waiting
  <2>3. CASE UNCHANGED <<timers, firing>> /\ ch' = Append(ch, Dispatched(j))
    <3>1. \A k : In(ch', k) <=> In(ch, k) \/ j = k
      BY <1>0, <2>3, InAppend
    <3> QED BY <1>1, <2>3, <3>1 DEF Queued, Waiting
  <2>4. \/ UNCHANGED <<ch, timers, firing>> /\ call'[j] # "accepted"
        \/ UNCHANGED <<ch, firing>> /\ timers' = timers \cup {Dispatched(j)}
        \/ UNCHANGED <<timers, firing>> /\ ch' = Append(ch, Dispatched(j))
    BY <1>0 DEF Dispatch, DispatchLookup, DispatchEnqueue, DispatchSend, DispatchAbandon,
       EnqueueRefused, EnqueueDelayed, EnqueueAdmitted, SelectSend, qvars
  <2> QED BY <2>1, <2>2, <2>3, <2>4
<1>5. \A k \in Job : k # j => LedgerStatus(k)' = LedgerStatus(k)
  BY <1>1, <1>2, <1>3, <1>4, StatusStays DEF Stays
<1>6. LedgerStatus(j) = "new"
  BY <1>3, StatusCases DEF Sound, StatusNow, StatusOf
<1>7. /\ LedgerStatus(j)' = StatusNow(j)'
      /\ StatusNow(j)' \in {"new", "refused", "queued"}
  <2>1. LedgerStatus(j)' = StatusNow(j)'
    BY StatusCasesNext DEF Sound
  <2>2. call'[j] = "accepted" => ~Settled(j)' /\ ~OnTrial(j)'
    <3>1. ~Settled(j) /\ ~Held(j)
      BY <1>3 DEF Sound, PlaceInv, NoDuplicates
    <3> QED BY <1>1, <1>2, <3>1 DEF Settled, OnTrial, Held
  <2> QED BY <1>3, <1>4, <2>1, <2>2 DEF StatusNow, StatusOf, Settled
<1>8. CASE StatusNow(j)' = "new"
  BY <1>1, <1>5, <1>6, <1>7, <1>8, LedgerStutters
<1>9. CASE StatusNow(j)' = "refused"
  <2>1. Ledger!Move(j, "new", "refused")
    BY <1>5, <1>6, <1>7, <1>9, LedgerMoves
  <2>2. Ledger!Refuse(j)
    BY <1>1, <2>1 DEF Ledger!Refuse
  <2> QED BY <2>2 DEF Ledger!Next
<1>10. CASE StatusNow(j)' = "queued"
  <2>1. Ledger!Move(j, "new", "queued")
    BY <1>5, <1>6, <1>7, <1>10, LedgerMoves
  <2>2. Ledger!Accept(j)
    BY <1>1, <2>1 DEF Ledger!Accept
  <2> QED BY <2>2 DEF Ledger!Next
<1> QED BY <1>7, <1>8, <1>9, <1>10

-----------------------------------------------------------------------------
(* The workers.                                                            *)

Trial == {"handle", "retry", "reject"}

(* A worker that has a job is the only place the job is in, and its step   *)
(* changes nothing for the others.                                         *)
LEMMA WorkerHas ==
  ASSUME TypeInv, PlaceInv, NEW g \in Goroutine, pc[g] \in Holding,
         NEW k, held[g].id = k
  PROVE  /\ k \in Job /\ held[g] \in JobRec
         /\ call[k] = "accepted" /\ ~Waiting(k) /\ ~Settled(k) /\ Held(k)
         /\ OnTrial(k) <=> pc[g] \in Trial
         /\ \A h \in Goroutine : Holds(h, k) => h = g
<1>1. held[g] \in JobRec /\ k \in Job
  BY DEF TypeInv, HoldsJob, JobRec
<1>2. Holds(g, k)
  BY DEF Holds
<1>3. Held(k)
  BY <1>2 DEF Held
<1>4. \A h \in Goroutine : Holds(h, k) => h = g
  BY <1>1, <1>2 DEF PlaceInv, NoDuplicates
<1>5. call[k] = "accepted" /\ ~Waiting(k) /\ ~Settled(k)
  BY <1>1, <1>3 DEF PlaceInv, NoDuplicates
<1>6. OnTrial(k) <=> pc[g] \in Trial
  BY <1>2, <1>4 DEF OnTrial, Trial
<1> QED BY <1>1, <1>3, <1>4, <1>5, <1>6

(* What is held and on trial after a step of worker g.                     *)
LEMMA WorkerTurns ==
  ASSUME TypeInv, PlaceInv, NEW g \in Goroutine, pc[g] \in Holding,
         NEW k, held[g].id = k, NEW to \in WorkerState, pc' = [pc EXCEPT ![g] = to],
         \A h \in Goroutine : h # g => held'[h] = held[h],
         to \in Holding => held'[g].id = k
  PROVE  /\ Held(k)' <=> to \in Holding
         /\ OnTrial(k)' <=> to \in Trial
         /\ \A j \in Job : j # k => (Held(j)' <=> Held(j))
                                             /\ (OnTrial(j)' <=> OnTrial(j))
<1>1. \A h \in Goroutine : Holds(h, k) => h = g
  BY WorkerHas
<1>2. \A h \in Goroutine : pc'[h] = IF h = g THEN to ELSE pc[h]
  BY DEF TypeInv, TypeOK
<1>3. \A h \in Goroutine, j \in Job :
        Holds(h, j)' <=> IF h = g THEN to \in Holding /\ j = k ELSE Holds(h, j)
  BY <1>2 DEF Holds
<1>4. k \in Job /\ \A j \in Job : Holds(g, j) <=> j = k
  BY WorkerHas DEF Holds
<1>5. Trial \subseteq Holding
  BY DEF Trial, Holding
<1>6. Held(k)' <=> to \in Holding
  BY <1>1, <1>3, <1>4 DEF Held
<1>7. OnTrial(k)' <=> to \in Trial
  BY <1>1, <1>2, <1>3, <1>4, <1>5 DEF OnTrial, Trial
<1>8. \A j \in Job : j # k => (Held(j)' <=> Held(j)) /\ (OnTrial(j)' <=> OnTrial(j))
  BY <1>2, <1>3, <1>4 DEF Held, OnTrial
<1> QED BY <1>6, <1>7, <1>8

(* A worker that keeps its job, or passes it on unseen by the ledger.      *)
LEMMA WorkerStutters ==
  ASSUME Sound, NEW g \in Goroutine, pc[g] \in Holding,
         NEW k, held[g].id = k, NEW to \in WorkerState, pc' = [pc EXCEPT ![g] = to],
         \A h \in Goroutine : h # g => held'[h] = held[h],
         to \in Holding /\ held'[g].id = k,
         UNCHANGED <<call, acked, failed, ch, timers, firing, closed>>
  PROVE  /\ \A j \in Job : j # k => LedgerStatus(j)' = LedgerStatus(j)
         /\ LedgerStatus(k) = IF pc[g] \in Trial THEN "running" ELSE "queued"
         /\ LedgerStatus(k)' = IF to \in Trial THEN "running" ELSE "queued"
<1>1. TypeInv /\ PlaceInv
  BY DEF Sound
<1>2. /\ k \in Job /\ call[k] = "accepted" /\ ~Waiting(k) /\ ~Settled(k) /\ Held(k)
      /\ OnTrial(k) <=> pc[g] \in Trial
  BY <1>1, WorkerHas
<1>3. /\ Held(k)' /\ (OnTrial(k)' <=> to \in Trial)
      /\ \A j \in Job : j # k => (Held(j)' <=> Held(j)) /\ (OnTrial(j)' <=> OnTrial(j))
  BY <1>1, WorkerTurns
<1>4. \A j \in Job : (Waiting(j)' <=> Waiting(j)) /\ (Settled(j)' <=> Settled(j))
                     /\ (In(failed, j)' <=> In(failed, j))
  BY DEF Waiting, Settled, In, InSet
<1>5. \A j \in Job : j # k => Stays(j)
  BY <1>3, <1>4 DEF Stays, Queued
<1>6. LedgerStatus(k) = StatusNow(k) /\ LedgerStatus(k)' = StatusNow(k)'
  BY <1>2, StatusCases, StatusCasesNext DEF Sound
<1>7. LedgerStatus(k) = IF pc[g] \in Trial THEN "running" ELSE "queued"
  BY <1>2, <1>6 DEF StatusNow, StatusOf, Queued, Settled
<1>8. LedgerStatus(k)' = IF to \in Trial THEN "running" ELSE "queued"
  BY <1>2, <1>3, <1>4, <1>6 DEF StatusNow, StatusOf, Queued, Settled
<1> QED BY <1>5, <1>7, <1>8, StatusStays

(* A worker that lets go of its job, to one place or to none.              *)
LEMMA WorkerReleases ==
  ASSUME Sound, NEW g \in Goroutine, pc[g] \in Holding,
         NEW k, held[g].id = k, NEW to \in WorkerState \ Holding, pc' = [pc EXCEPT ![g] = to],
         \A h \in Goroutine : h # g => held'[h] = held[h],
         UNCHANGED <<call, firing>>,
         \A j \in Job : j # k =>
           /\ j \in acked' <=> j \in acked
           /\ In(failed, j)' <=> In(failed, j)
           /\ In(ch, j)' <=> In(ch, j)
           /\ InSet(timers, j)' <=> InSet(timers, j)
  PROVE  /\ k \in Job
         /\ \A j \in Job : j # k => LedgerStatus(j)' = LedgerStatus(j)
         /\ LedgerStatus(k) = IF pc[g] \in Trial THEN "running" ELSE "queued"
         /\ LedgerStatus(k)' =
              IF k \in acked' THEN "done"
              ELSE IF In(failed, k)' THEN "dead"
              ELSE IF Waiting(k)' THEN "queued"
              ELSE "lost"
<1>1. TypeInv /\ PlaceInv
  BY DEF Sound
<1>2. /\ k \in Job /\ call[k] = "accepted" /\ ~Waiting(k) /\ ~Settled(k) /\ Held(k)
      /\ OnTrial(k) <=> pc[g] \in Trial
  BY <1>1, WorkerHas
<1>3. Trial \subseteq Holding
  BY DEF Trial, Holding
<1>4. /\ ~Held(k)' /\ ~OnTrial(k)'
      /\ \A j \in Job : j # k => (Held(j)' <=> Held(j)) /\ (OnTrial(j)' <=> OnTrial(j))
  BY <1>1, <1>3, WorkerTurns
<1>5. \A j \in Job : j # k => (Waiting(j)' <=> Waiting(j))
  BY DEF Waiting
<1>6. \A j \in Job : j # k => Stays(j)
  BY <1>4, <1>5 DEF Stays, Queued
<1>7. LedgerStatus(k) = StatusNow(k) /\ LedgerStatus(k)' = StatusNow(k)'
  BY <1>2, StatusCases, StatusCasesNext DEF Sound
<1>8. LedgerStatus(k) = IF pc[g] \in Trial THEN "running" ELSE "queued"
  BY <1>2, <1>7 DEF StatusNow, StatusOf, Queued, Settled
<1>9. LedgerStatus(k)' = IF k \in acked' THEN "done" ELSE IF In(failed, k)' THEN "dead"
                         ELSE IF Waiting(k)' THEN "queued" ELSE "lost"
  BY <1>2, <1>4, <1>7 DEF StatusNow, StatusOf, Queued, Settled
<1> QED BY <1>2, <1>6, <1>8, <1>9, StatusStays

(* A step of the ledger in one of its actions.                             *)
LEMMA LedgerSteps ==
  ASSUME NEW j \in Job,
         \/ Ledger!Try(j) \/ Ledger!Complete(j) \/ Ledger!Requeue(j)
         \/ Ledger!Bury(j) \/ Ledger!Lose(j)
  PROVE  [Ledger!Next]_(Ledger!vars)
BY DEF Ledger!Next

LEMMA LedgerTake ==
  ASSUME Sound, NEW g \in Goroutine, WorkerReceive(g)
  PROVE  [Ledger!Next]_(Ledger!vars)
<1>0. /\ TypeInv /\ PlaceInv /\ TypeInv' /\ PlaceInv'
      /\ ch \in Seq(JobRec) /\ pc \in [Goroutine -> WorkerState]
      /\ held \in [Goroutine -> JobRec \cup {NoJob}]
  BY DEF Sound, TypeInv, TypeOK, QueueTypeOK
<1>1. /\ ch # <<>> /\ ch' = Tail(ch) /\ pc[g] = "receive"
      /\ pc' = [pc EXCEPT ![g] = "lookup"] /\ held' = [held EXCEPT ![g] = Head(ch)]
      /\ UNCHANGED <<timers, firing, closed, failed, call, acked, attempts>>
  BY DEF WorkerReceive, Receive, Goto, dvars, hvars
<1>2. PICK k : k = Head(ch).id
  OBVIOUS
<1>3. k \in Job
  <2>1. Head(ch) \in JobRec
    BY <1>0, <1>1
  <2> QED BY <1>2, <2>1 DEF JobRec
<1>4. /\ \A h \in Goroutine : pc'[h] = IF h = g THEN "lookup" ELSE pc[h]
      /\ \A h \in Goroutine : held'[h] = IF h = g THEN Head(ch) ELSE held[h]
  BY <1>0, <1>1
<1>5. "lookup" \in Holding /\ "receive" \notin Holding
  BY DEF Holding
<1>6. \A h \in Goroutine, j \in Job :
        Holds(h, j)' <=> IF h = g THEN j = k ELSE Holds(h, j)
  BY <1>2, <1>4, <1>5 DEF Holds
<1>7. \A j \in Job : ~Holds(g, j)
  BY <1>1, <1>5 DEF Holds
<1>8. \A j \in Job : Held(j)' <=> Held(j) \/ j = k
  BY <1>3, <1>6, <1>7 DEF Held
<1>9. \A j \in Job : OnTrial(j)' <=> OnTrial(j)
  BY <1>1, <1>4, <1>6, <1>7 DEF OnTrial
<1>10. \A j : In(ch, j) <=> j = k \/ In(ch', j)
  BY <1>0, <1>1, <1>2, InTail
<1>11. \A j \in Job : Queued(j)' <=> Queued(j)
  BY <1>1, <1>8, <1>10 DEF Queued, Waiting
<1>12. \A j \in Job : Stays(j)
  BY <1>1, <1>9, <1>11 DEF Stays
<1> QED BY <1>1, <1>12, StatusStays, LedgerStutters

(* The two steps of a worker that has no job.                              *)
LEMMA LedgerIdle ==
  ASSUME Sound, NEW g \in Goroutine, WorkerExit(g) \/ WorkerReport(g)
  PROVE  [Ledger!Next]_(Ledger!vars)
<1>0. pc \in [Goroutine -> WorkerState] /\ held \in [Goroutine -> JobRec \cup {NoJob}]
  BY DEF Sound, TypeInv, TypeOK
<1>1. /\ pc[g] \in {"receive", "report"}
      /\ \E state \in {"receive", "exited"} : pc' = [pc EXCEPT ![g] = state]
      /\ \A h \in Goroutine : h # g => held'[h] = held[h]
      /\ UNCHANGED <<ch, timers, firing, closed, failed, call, acked, attempts>>
  BY <1>0 DEF WorkerExit, WorkerReport, Goto, Release, qvars, dvars, hvars
<1>2. pc[g] \notin Holding /\ pc'[g] \notin Holding
  BY <1>0, <1>1 DEF Holding
<1>3. \A h \in Goroutine : h # g => pc'[h] = pc[h]
  BY <1>0, <1>1
<1>4. \A h \in Goroutine, j \in Job : Holds(h, j)' <=> Holds(h, j)
  BY <1>1, <1>2, <1>3 DEF Holds
<1>5. \A j \in Job : (Held(j)' <=> Held(j)) /\ (OnTrial(j)' <=> OnTrial(j))
  BY <1>1, <1>2, <1>3, <1>4 DEF Held, OnTrial, Holds
<1>6. \A j \in Job : Stays(j)
  BY <1>1, <1>5 DEF Stays, Queued, Waiting
<1> QED BY <1>1, <1>6, StatusStays, LedgerStutters

(* A handler is entered: one more try.                                     *)
LEMMA LedgerLookup ==
  ASSUME Sound, AttemptInv, NEW g \in Goroutine, WorkerLookup(g)
  PROVE  [Ledger!Next]_(Ledger!vars)
<1>1. /\ pc[g] = "lookup" /\ pc[g] \in Holding /\ pc[g] \notin Trial
      /\ UNCHANGED <<call, acked, failed, ch, timers, firing, closed, held>>
  BY DEF WorkerLookup, Holding, Trial, qvars, dvars, hvars
<1>2. PICK k : k = held[g].id
  OBVIOUS
<1>3. k \in Job /\ held[g] \in JobRec
  BY <1>1, <1>2, WorkerHas DEF Sound
<1>4. CASE JobName[k] \in handlers
  <2>1. /\ pc' = [pc EXCEPT ![g] = "handle"]
        /\ attempts' = [attempts EXCEPT ![k] = @ + 1]
    BY <1>2, <1>4 DEF WorkerLookup, Goto
  <2>2. "handle" \in WorkerState /\ "handle" \in Holding /\ "handle" \in Trial
    BY DEF WorkerState, Holding, Trial
  <2>3. /\ \A j \in Job : j # k => LedgerStatus(j)' = LedgerStatus(j)
        /\ LedgerStatus(k) = "queued" /\ LedgerStatus(k)' = "running"
    BY <1>1, <1>2, <2>1, <2>2, WorkerStutters
  <2>4. Ledger!Move(k, "queued", "running")
    BY <1>3, <2>3, LedgerMoves
  <2>5. attempts[k] < AttemptLimit(k)
    <3>1. Fresh(held[g])
      BY <1>1 DEF AttemptInv
    <3>2. attempts[k] \in Nat /\ AttemptLimit(k) \in Nat
      BY <1>3, LimitPositive DEF Sound, TypeInv, TypeOK
    <3> QED BY <1>2, <3>1, <3>2 DEF Fresh, Counts
  <2>6. [j \in Job |-> AttemptLimit(j)][k] = AttemptLimit(k)
    BY <1>3
  <2>7. Ledger!Try(k)
    BY <1>1, <2>1, <2>4, <2>5, <2>6 DEF Ledger!Try
  <2> QED BY <1>3, <2>7, LedgerSteps
<1>5. CASE JobName[k] \notin handlers
  <2>1. pc' = [pc EXCEPT ![g] = "discard"] /\ UNCHANGED attempts
    BY <1>2, <1>5 DEF WorkerLookup, Goto
  <2>2. "discard" \in WorkerState /\ "discard" \in Holding /\ "discard" \notin Trial
    BY DEF WorkerState, Holding, Trial
  <2>3. \A j \in Job : LedgerStatus(j)' = LedgerStatus(j)
    BY <1>1, <1>2, <1>3, <2>1, <2>2, WorkerStutters
  <2> QED BY <1>1, <2>1, <2>3, LedgerStutters
<1> QED BY <1>4, <1>5

LEMMA LedgerHandler ==
  ASSUME Sound, NEW g \in Goroutine, Handler(g)
  PROVE  [Ledger!Next]_(Ledger!vars)
<1>0. held \in [Goroutine -> JobRec \cup {NoJob}]
  BY DEF Sound, TypeInv, TypeOK
<1>1. /\ pc[g] = "handle" /\ pc[g] \in Holding /\ pc[g] \in Trial
      /\ UNCHANGED <<call, failed, ch, timers, firing, closed, attempts>>
  BY DEF Handler, HandlerSucceeds, HandlerFails, HandlerFailsPermanently,
     Holding, Trial, qvars, dvars, hvars
<1>2. PICK k : k = held[g].id
  OBVIOUS
<1>3. k \in Job
  BY <1>1, <1>2, WorkerHas DEF Sound
<1>4. CASE HandlerSucceeds(g)
  <2>1. /\ pc' = [pc EXCEPT ![g] = "receive"] /\ acked' = acked \cup {k}
        /\ \A h \in Goroutine : h # g => held'[h] = held[h]
    BY <1>0, <1>2, <1>4 DEF HandlerSucceeds, Release, Goto
  <2>2. "receive" \in WorkerState \ Holding
    BY DEF WorkerState, Holding
  <2>3. \A j \in Job : j # k => /\ (j \in acked' <=> j \in acked)
                                /\ (In(failed, j)' <=> In(failed, j))
                                /\ (In(ch, j)' <=> In(ch, j))
                                /\ (InSet(timers, j)' <=> InSet(timers, j))
    BY <1>1, <2>1
  <2>4. /\ \A j \in Job : j # k => LedgerStatus(j)' = LedgerStatus(j)
        /\ LedgerStatus(k) = "running" /\ LedgerStatus(k)' = "done"
    BY <1>1, <1>2, <2>1, <2>2, <2>3, WorkerReleases
  <2>5. Ledger!Move(k, "running", "done")
    BY <1>3, <2>4, LedgerMoves
  <2>6. Ledger!Complete(k)
    BY <1>1, <2>5 DEF Ledger!Complete
  <2> QED BY <1>3, <2>6, LedgerSteps
<1>5. CASE HandlerFails(g) \/ HandlerFailsPermanently(g)
  <2>1. /\ \E to \in {"retry", "reject"} : pc' = [pc EXCEPT ![g] = to]
        /\ UNCHANGED <<held, acked>>
    BY <1>5 DEF HandlerFails, HandlerFailsPermanently, Goto, hvars
  <2>2. PICK to \in {"retry", "reject"} : pc' = [pc EXCEPT ![g] = to]
    BY <2>1
  <2>3. to \in WorkerState /\ to \in Holding /\ to \in Trial
    BY DEF WorkerState, Holding, Trial
  <2>4. \A j \in Job : LedgerStatus(j)' = LedgerStatus(j)
    BY <1>1, <1>2, <1>3, <2>1, <2>2, <2>3, WorkerStutters
  <2> QED BY <1>1, <2>4, LedgerStutters
<1> QED BY <1>4, <1>5 DEF Handler

(* A retry: handed back, at once or later, or refused by a closed queue.   *)
LEMMA LedgerRetry ==
  ASSUME Sound, AttemptInv, NEW g \in Goroutine, WorkerRetry(g)
  PROVE  [Ledger!Next]_(Ledger!vars)
<1>0. held \in [Goroutine -> JobRec \cup {NoJob}]
  BY DEF Sound, TypeInv, TypeOK
<1>1. /\ pc[g] = "retry" /\ pc[g] \in Holding /\ pc[g] \in Trial
      /\ UNCHANGED <<call, acked, failed, ch, firing, closed, attempts>>
  BY DEF WorkerRetry, EnqueueRefused, EnqueueDelayed, EnqueueAdmitted,
     Holding, Trial, qvars, dvars, hvars
<1>2. PICK k : k = held[g].id
  OBVIOUS
<1>3. k \in Job /\ held[g] \in JobRec /\ ~Waiting(k) /\ ~Settled(k)
  BY <1>1, <1>2, WorkerHas DEF Sound
<1>4. RetryCopy(held[g]).id = k
  BY <1>2, <1>3 DEF RetryCopy
<1>5. attempts[k] < [j \in Job |-> AttemptLimit(j)][k]
  <2>1. Tried(held[g]) /\ MayRetry(held[g])
    BY <1>1 DEF AttemptInv
  <2>2. Fresh(RetryCopy(held[g]))
    BY <1>3, <2>1, RetryIsFresh DEF Sound
  <2>3. attempts[k] \in Nat /\ AttemptLimit(k) \in Nat
    BY <1>3, LimitPositive DEF Sound, TypeInv, TypeOK
  <2> QED BY <1>3, <1>4, <2>2, <2>3 DEF Fresh, Counts
<1>6. "receive" \in WorkerState \ Holding
  BY DEF WorkerState, Holding
<1>7. Release(g) => /\ pc' = [pc EXCEPT ![g] = "receive"]
                    /\ \A h \in Goroutine : h # g => held'[h] = held[h]
  BY <1>0 DEF Release, Goto
<1>8. CASE EnqueueRefused /\ Release(g)
  <2>1. closed /\ UNCHANGED timers
    BY <1>8 DEF EnqueueRefused, qvars
  <2>2. \A j \in Job : /\ (j \in acked' <=> j \in acked)
                       /\ (In(failed, j)' <=> In(failed, j))
                       /\ (In(ch, j)' <=> In(ch, j))
                       /\ (InSet(timers, j)' <=> InSet(timers, j))
    BY <1>1, <2>1
  <2>3. k \notin acked' /\ ~In(failed, k)' /\ ~Waiting(k)'
    BY <1>1, <1>3, <2>1 DEF Settled, Waiting
  <2>4. /\ \A j \in Job : j # k => LedgerStatus(j)' = LedgerStatus(j)
        /\ LedgerStatus(k) = "running" /\ LedgerStatus(k)' = "lost"
    BY <1>1, <1>2, <1>6, <1>7, <1>8, <2>2, <2>3, WorkerReleases
  <2>5. Ledger!Move(k, "running", "lost")
    BY <1>3, <2>4, LedgerMoves
  <2>6. Ledger!Lose(k)
    BY <1>1, <2>1, <2>5 DEF Ledger!Lose
  <2> QED BY <1>3, <2>6, LedgerSteps
<1>9. CASE EnqueueDelayed(RetryCopy(held[g])) /\ Release(g)
  <2>1. timers' = timers \cup {RetryCopy(held[g])}
    BY <1>9 DEF EnqueueDelayed
  <2>2. \A j : InSet(timers', j) <=> InSet(timers, j) \/ j = k
    BY <1>4, <2>1, InSetAdd
  <2>3. \A j \in Job : j # k => /\ (j \in acked' <=> j \in acked)
                                /\ (In(failed, j)' <=> In(failed, j))
                                /\ (In(ch, j)' <=> In(ch, j))
                                /\ (InSet(timers, j)' <=> InSet(timers, j))
    BY <1>1, <2>2
  <2>4. k \notin acked' /\ ~In(failed, k)' /\ Waiting(k)'
    BY <1>1, <1>3, <2>2 DEF Settled, Waiting
  <2>5. /\ \A j \in Job : j # k => LedgerStatus(j)' = LedgerStatus(j)
        /\ LedgerStatus(k) = "running" /\ LedgerStatus(k)' = "queued"
    BY <1>1, <1>2, <1>6, <1>7, <1>9, <2>3, <2>4, WorkerReleases
  <2>6. Ledger!Move(k, "running", "queued")
    BY <1>3, <2>5, LedgerMoves
  <2>7. Ledger!Requeue(k)
    BY <1>1, <1>5, <2>6 DEF Ledger!Requeue
  <2> QED BY <1>3, <2>7, LedgerSteps
<1>10. CASE EnqueueAdmitted /\ Goto(g, "send")
            /\ held' = [held EXCEPT ![g] = RetryCopy(held[g])]
  <2>1. /\ pc' = [pc EXCEPT ![g] = "send"] /\ UNCHANGED timers
        /\ \A h \in Goroutine : h # g => held'[h] = held[h]
        /\ held'[g].id = k
    BY <1>0, <1>4, <1>10 DEF Goto, EnqueueAdmitted, qvars
  <2>2. "send" \in WorkerState /\ "send" \in Holding /\ "send" \notin Trial
    BY DEF WorkerState, Holding, Trial
  <2>3. /\ \A j \in Job : j # k => LedgerStatus(j)' = LedgerStatus(j)
        /\ LedgerStatus(k) = "running" /\ LedgerStatus(k)' = "queued"
    BY <1>1, <1>2, <2>1, <2>2, WorkerStutters
  <2>4. Ledger!Move(k, "running", "queued")
    BY <1>3, <2>3, LedgerMoves
  <2>5. Ledger!Requeue(k)
    BY <1>1, <1>5, <2>4 DEF Ledger!Requeue
  <2> QED BY <1>3, <2>5, LedgerSteps
<1> QED BY <1>8, <1>9, <1>10 DEF WorkerRetry

LEMMA LedgerSend ==
  ASSUME Sound, NEW g \in Goroutine, WorkerSend(g)
  PROVE  [Ledger!Next]_(Ledger!vars)
<1>0. held \in [Goroutine -> JobRec \cup {NoJob}] /\ ch \in Seq(JobRec)
  BY DEF Sound, TypeInv, TypeOK, QueueTypeOK
<1>1. /\ pc[g] = "send" /\ pc[g] \in Holding /\ pc[g] \notin Trial
      /\ UNCHANGED <<call, acked, failed, timers, firing, closed, attempts>>
      /\ pc' = [pc EXCEPT ![g] = "receive"]
      /\ \A h \in Goroutine : h # g => held'[h] = held[h]
  BY <1>0 DEF WorkerSend, SelectSend, SelectDone, Release, Goto,
     Holding, Trial, qvars, dvars, hvars
<1>2. PICK k : k = held[g].id
  OBVIOUS
<1>3. k \in Job /\ held[g] \in JobRec /\ ~Waiting(k) /\ ~Settled(k)
  BY <1>1, <1>2, WorkerHas DEF Sound
<1>4. "receive" \in WorkerState \ Holding
  BY DEF WorkerState, Holding
<1>5. k \notin acked' /\ ~In(failed, k)'
  BY <1>1, <1>3 DEF Settled
<1>6. CASE SelectSend(held[g])
  <2>1. \A j : In(ch', j) <=> In(ch, j) \/ j = k
    BY <1>0, <1>2, <1>3, <1>6, InAppend DEF SelectSend
  <2>2. \A j \in Job : j # k => /\ (j \in acked' <=> j \in acked)
                                /\ (In(failed, j)' <=> In(failed, j))
                                /\ (In(ch, j)' <=> In(ch, j))
                                /\ (InSet(timers, j)' <=> InSet(timers, j))
    BY <1>1, <2>1
  <2>3. Waiting(k)'
    BY <2>1 DEF Waiting
  <2>4. \A j \in Job : LedgerStatus(j)' = LedgerStatus(j)
    BY <1>1, <1>2, <1>3, <1>4, <1>5, <2>2, <2>3, WorkerReleases
  <2> QED BY <1>1, <2>4, LedgerStutters
<1>7. CASE SelectDone
  <2>1. closed /\ UNCHANGED ch
    BY <1>7 DEF SelectDone, qvars
  <2>2. \A j \in Job : /\ (j \in acked' <=> j \in acked)
                       /\ (In(failed, j)' <=> In(failed, j))
                       /\ (In(ch, j)' <=> In(ch, j))
                       /\ (InSet(timers, j)' <=> InSet(timers, j))
    BY <1>1, <2>1
  <2>3. ~Waiting(k)'
    BY <1>1, <1>3, <2>1 DEF Waiting
  <2>4. /\ \A j \in Job : j # k => LedgerStatus(j)' = LedgerStatus(j)
        /\ LedgerStatus(k) = "queued" /\ LedgerStatus(k)' = "lost"
    BY <1>1, <1>2, <1>4, <1>5, <2>2, <2>3, WorkerReleases
  <2>5. Ledger!Move(k, "queued", "lost")
    BY <1>3, <2>4, LedgerMoves
  <2>6. Ledger!Lose(k)
    BY <1>1, <2>1, <2>5 DEF Ledger!Lose
  <2> QED BY <1>3, <2>6, LedgerSteps
<1> QED BY <1>6, <1>7 DEF WorkerSend

(* A job goes to the dead-letter list, tried or, with no handler, untried. *)
LEMMA LedgerBury ==
  ASSUME Sound, NEW g \in Goroutine, WorkerDiscard(g) \/ WorkerReject(g)
  PROVE  [Ledger!Next]_(Ledger!vars)
<1>0. held \in [Goroutine -> JobRec \cup {NoJob}] /\ failed \in Seq(JobRec)
  BY DEF Sound, TypeInv, TypeOK, QueueTypeOK
<1>1. /\ pc[g] \in {"discard", "reject"} /\ pc[g] \in Holding
      /\ UNCHANGED <<call, acked, ch, timers, firing, closed, attempts>>
      /\ failed' = Append(failed, held[g])
      /\ \E to \in {"receive", "report"} : pc' = [pc EXCEPT ![g] = to]
      /\ \A h \in Goroutine : h # g => held'[h] = held[h]
  BY <1>0 DEF WorkerDiscard, WorkerReject, Reject, Release, Goto,
     Holding, qvars, dvars, hvars
<1>2. PICK k : k = held[g].id
  OBVIOUS
<1>3. k \in Job /\ held[g] \in JobRec /\ ~Waiting(k) /\ ~Settled(k)
  BY <1>1, <1>2, WorkerHas DEF Sound
<1>4. PICK to \in {"receive", "report"} : pc' = [pc EXCEPT ![g] = to]
  BY <1>1
<1>5. to \in WorkerState \ Holding
  BY DEF WorkerState, Holding
<1>6. \A j : In(failed', j) <=> In(failed, j) \/ j = k
  BY <1>0, <1>1, <1>2, <1>3, InAppend
<1>7. \A j \in Job : j # k => /\ (j \in acked' <=> j \in acked)
                              /\ (In(failed, j)' <=> In(failed, j))
                              /\ (In(ch, j)' <=> In(ch, j))
                              /\ (InSet(timers, j)' <=> InSet(timers, j))
  BY <1>1, <1>6
<1>8. k \notin acked' /\ In(failed, k)'
  BY <1>1, <1>3, <1>6 DEF Settled
<1>9. /\ \A j \in Job : j # k => LedgerStatus(j)' = LedgerStatus(j)
      /\ LedgerStatus(k) \in {"running", "queued"} /\ LedgerStatus(k)' = "dead"
  BY <1>1, <1>2, <1>4, <1>5, <1>7, <1>8, WorkerReleases
<1>10. Ledger!Move(k, "running", "dead") \/ Ledger!Move(k, "queued", "dead")
  BY <1>3, <1>9, LedgerMoves
<1>11. Ledger!Bury(k)
  BY <1>1, <1>10 DEF Ledger!Bury
<1> QED BY <1>3, <1>11, LedgerSteps

LEMMA LedgerWork ==
  ASSUME Sound, AttemptInv, NEW g \in Goroutine, Work(g)
  PROVE  [Ledger!Next]_(Ledger!vars)
BY LedgerTake, LedgerIdle, LedgerLookup, LedgerHandler, LedgerRetry, LedgerSend,
   LedgerBury DEF Work

-----------------------------------------------------------------------------
(* The timers.                                                             *)

LEMMA LedgerTimer ==
  ASSUME Sound, NEW job \in timers \cup firing, Timer(job)
  PROVE  [Ledger!Next]_(Ledger!vars)
<1>0. /\ ch \in Seq(JobRec) /\ job \in JobRec /\ DistinctSet(timers) /\ DistinctSet(firing)
      /\ PlaceInv
  BY DEF Sound, TypeInv, TypeOK, QueueTypeOK, PlaceInv, NoDuplicates
<1>1. /\ UNCHANGED <<failed, call, acked, attempts, closed>>
      /\ \A j \in Job : (Held(j)' <=> Held(j)) /\ (OnTrial(j)' <=> OnTrial(j))
  BY DEF Timer, others, dvars, wvars, hvars, TimerFire, CallbackSend, CallbackDrop,
         Held, OnTrial, Holds
<1>2. PICK k \in Job : k = job.id
  BY <1>0 DEF JobRec
<1>3. Waiting(k)
  BY <1>2 DEF Waiting, InSet
<1>4. call[k] = "accepted" /\ ~Settled(k) /\ ~Held(k) /\ ~OnTrial(k)
  BY <1>0, <1>3 DEF PlaceInv, NoDuplicates, OnTrial, Held
<1>5. \A j : In(failed, j)' <=> In(failed, j)
  BY <1>1
(* A step that keeps every job waiting that waits is none of the ledger's. *)
<1>6. ASSUME \A j \in Job : Waiting(j)' <=> Waiting(j)
      PROVE  [Ledger!Next]_(Ledger!vars)
  <2>1. \A j \in Job : Stays(j)
    BY <1>1, <1>5, <1>6 DEF Stays, Queued
  <2> QED BY <1>1, <2>1, StatusStays, LedgerStutters
(* One that drops a job happens to a closed queue.                         *)
<1>7. ASSUME closed, ~Waiting(k)', \A j \in Job : j # k => (Waiting(j)' <=> Waiting(j))
      PROVE  [Ledger!Next]_(Ledger!vars)
  <2>1. \A j \in Job : j # k => Stays(j)
    BY <1>1, <1>5, <1>7 DEF Stays, Queued
  <2>2. \A j \in Job : j # k => LedgerStatus(j)' = LedgerStatus(j)
    BY <2>1, StatusStays
  <2>3. LedgerStatus(k) = StatusNow(k) /\ LedgerStatus(k)' = StatusNow(k)'
    BY StatusCases, StatusCasesNext DEF Sound
  <2>4. LedgerStatus(k) = "queued"
    BY <1>3, <1>4, <2>3 DEF StatusNow, StatusOf, Queued, Settled
  <2>5. LedgerStatus(k)' = "lost"
    BY <1>1, <1>4, <1>5, <1>7, <2>3 DEF StatusNow, StatusOf, Queued, Settled
  <2>6. Ledger!Move(k, "queued", "lost")
    BY <2>2, <2>4, <2>5, LedgerMoves
  <2>7. Ledger!Lose(k)
    BY <1>1, <1>7, <2>6 DEF Ledger!Lose
  <2> QED BY <2>7, LedgerSteps
<1>8. CASE TimerFire(job)
  <2>1. job \in timers /\ timers' = timers \ {job} /\ UNCHANGED ch
        /\ firing' = IF closed THEN firing ELSE firing \cup {job}
    BY <1>8 DEF TimerFire
  <2>2. \A j : InSet(timers', j) <=> InSet(timers, j) /\ j # k
    BY <1>0, <1>2, <2>1, InSetRemove
  <2>3. InSet(timers, k)
    BY <1>2, <2>1 DEF InSet
  <2>4. ~In(ch, k) /\ ~InSet(firing, k)
    BY <1>0, <2>3 DEF PlaceInv, NoDuplicates
  <2>5. CASE closed
    <3>1. ~Waiting(k)' /\ \A j \in Job : j # k => (Waiting(j)' <=> Waiting(j))
      BY <2>1, <2>2, <2>4, <2>5 DEF Waiting
    <3> QED BY <1>7, <2>5, <3>1
  <2>6. CASE ~closed
    <3>1. \A j : InSet(firing', j) <=> InSet(firing, j) \/ j = k
      BY <1>2, <2>1, <2>6, InSetAdd
    <3>2. \A j \in Job : Waiting(j)' <=> Waiting(j)
      BY <2>1, <2>2, <2>3, <3>1 DEF Waiting
    <3> QED BY <1>6, <3>2
  <2> QED BY <2>5, <2>6
<1>9. CASE CallbackSend(job) \/ CallbackDrop(job)
  <2>1. job \in firing /\ firing' = firing \ {job} /\ UNCHANGED timers
    BY <1>9 DEF CallbackSend, CallbackDrop
  <2>2. \A j : InSet(firing', j) <=> InSet(firing, j) /\ j # k
    BY <1>0, <1>2, <2>1, InSetRemove
  <2>3. InSet(firing, k)
    BY <1>2, <2>1 DEF InSet
  <2>4. ~In(ch, k) /\ ~InSet(timers, k)
    BY <1>0, <2>3 DEF PlaceInv, NoDuplicates
  <2>5. CASE CallbackSend(job)
    <3>1. \A j : In(ch', j) <=> In(ch, j) \/ j = k
      BY <1>0, <1>2, <2>5, InAppend DEF CallbackSend
    <3>2. \A j \in Job : Waiting(j)' <=> Waiting(j)
      BY <2>1, <2>2, <2>3, <3>1 DEF Waiting
    <3> QED BY <1>6, <3>2
  <2>6. CASE CallbackDrop(job)
    <3>1. closed /\ UNCHANGED ch
      BY <2>6 DEF CallbackDrop
    <3>2. ~Waiting(k)' /\ \A j \in Job : j # k => (Waiting(j)' <=> Waiting(j))
      BY <2>1, <2>2, <2>4, <3>1 DEF Waiting
    <3> QED BY <1>7, <3>1, <3>2
  <2> QED BY <1>9, <2>5, <2>6
<1> QED BY <1>8, <1>9 DEF Timer

-----------------------------------------------------------------------------
(* Closing, and the steps that touch no job.                               *)

LEMMA LedgerClose ==
  ASSUME Sound, QueueClose
  PROVE  [Ledger!Next]_(Ledger!vars)
<1> DEFINE gone == {j \in Job : InSet(timers, j)}
<1>1. /\ ~closed /\ closed' = TRUE /\ timers' = {}
      /\ UNCHANGED <<ch, firing, failed, call, pc, held, acked, attempts>>
  BY DEF QueueClose, Close, others, dvars, wvars, hvars
<1>2. \A j \in Job : (Held(j)' <=> Held(j)) /\ (OnTrial(j)' <=> OnTrial(j))
  BY <1>1 DEF Held, OnTrial, Holds
<1>3. /\ \A j : ~InSet(timers', j) /\ (In(failed, j)' <=> In(failed, j))
      /\ \A j : (In(ch', j) <=> In(ch, j)) /\ (InSet(firing', j) <=> InSet(firing, j))
  BY <1>1 DEF InSet
<1>4. \A j \in Job \ gone : LedgerStatus(j)' = LedgerStatus(j)
  <2>1. \A j \in Job \ gone : Waiting(j)' <=> Waiting(j)
    BY <1>3 DEF Waiting
  <2>2. \A j \in Job \ gone : Stays(j)
    BY <1>1, <1>2, <1>3, <2>1 DEF Stays, Queued
  <2> QED BY <2>2, StatusStays
<1>5. \A j \in gone : LedgerStatus(j) = "queued" /\ LedgerStatus(j)' = "lost"
  <2> SUFFICES ASSUME NEW j \in Job, InSet(timers, j)
               PROVE  LedgerStatus(j) = "queued" /\ LedgerStatus(j)' = "lost"
    OBVIOUS
  <2>1. /\ ~In(ch, j) /\ ~InSet(firing, j) /\ Waiting(j)
        /\ call[j] = "accepted" /\ ~Settled(j) /\ ~Held(j) /\ ~OnTrial(j)
    BY DEF Sound, PlaceInv, NoDuplicates, OnTrial, Held, Waiting
  <2>2. ~Waiting(j)'
    BY <1>3, <2>1 DEF Waiting
  <2>3. LedgerStatus(j) = StatusNow(j) /\ LedgerStatus(j)' = StatusNow(j)'
    BY StatusCases, StatusCasesNext DEF Sound
  <2>4. LedgerStatus(j) = "queued"
    BY <2>1, <2>3 DEF StatusNow, StatusOf, Queued, Settled
  <2>5. LedgerStatus(j)' = "lost"
    BY <1>1, <1>2, <1>3, <2>1, <2>2, <2>3 DEF StatusNow, StatusOf, Queued, Settled
  <2> QED BY <2>4, <2>5
<1> DEFINE st == [j \in Job |-> LedgerStatus(j)]
<1>6. \A j \in gone : st[j] = "queued"
  BY <1>5
<1>7. [j \in Job |-> LedgerStatus(j)]' =
        [j \in Job |-> IF j \in gone THEN "lost" ELSE st[j]]
  BY <1>4, <1>5
<1>8. Ledger!CloseQueue(gone)
  BY <1>1, <1>6, <1>7 DEF Ledger!CloseQueue
<1>9. gone \in SUBSET Job
  OBVIOUS
<1> QED BY <1>8, <1>9 DEF Ledger!Next

LEMMA LedgerRest ==
  ASSUME Sound, StopInv,
         \/ Start \/ UNCHANGED vars
         \/ \E s \in Stopper : Stop(s)
         \/ \E n \in Name : Register(n)
  PROVE  [Ledger!Next]_(Ledger!vars)
<1>1. UNCHANGED <<ch, timers, firing, closed, failed, call, acked, attempts, held>>
  BY DEF Start, Stop, StopBegin, StopCancel, StopDrained, StopReturn, StopExpire,
     Register, vars, qvars, dvars, wvars, hvars
<1>2. \A h \in Goroutine : pc'[h] = pc[h] \/ (pc[h] = "unborn" /\ pc'[h] = "receive")
  <2>1. CASE Start
    <3> SUFFICES ASSUME NEW h \in Goroutine, pc'[h] # pc[h]
                 PROVE  pc[h] = "unborn" /\ pc'[h] = "receive"
      OBVIOUS
    <3>1. h[1] = gen + 1 /\ pc'[h] = "receive"
      BY <2>1 DEF Start
    <3>2. gen \in Nat
      BY DEF Sound, TypeInv, TypeOK
    <3> QED BY <3>1, <3>2 DEF StopInv
  <2>2. CASE ~Start
    BY <2>2 DEF Stop, StopBegin, StopCancel, StopDrained, StopReturn, StopExpire,
       Register, vars, wvars
  <2> QED BY <2>1, <2>2
<1>3. "unborn" \notin Holding /\ "receive" \notin Holding
  BY DEF Holding
<1>4. \A h \in Goroutine, j \in Job : Holds(h, j)' <=> Holds(h, j)
  BY <1>1, <1>2, <1>3 DEF Holds
<1>5. \A j \in Job : (Held(j)' <=> Held(j)) /\ (OnTrial(j)' <=> OnTrial(j))
  BY <1>2, <1>3, <1>4 DEF Held, OnTrial, Holds
<1>6. \A j \in Job : Stays(j)
  BY <1>1, <1>5 DEF Stays, Queued, Waiting
<1> QED BY <1>1, <1>6, StatusStays, LedgerStutters

-----------------------------------------------------------------------------
LEMMA LedgerInit == Init => Ledger!Init
<1> SUFFICES ASSUME Init PROVE Ledger!Init
  OBVIOUS
<1>1. \A j \in Job : LedgerStatus(j) = "new"
  BY TypeInit, PlaceInit, StatusCases DEF Init, StatusNow, StatusOf
<1>2. attempts = [j \in Job |-> 0] /\ ~closed
  BY DEF Init, QueueInit
<1> QED BY <1>1, <1>2 DEF Ledger!Init

LEMMA LedgerNext ==
  ASSUME Sound, StopInv, AttemptInv, [Next]_vars
  PROVE  [Ledger!Next]_(Ledger!vars)
<1>1. CASE UNCHANGED vars
  BY <1>1, LedgerRest
<1> QED BY <1>1, LedgerDispatch, LedgerWork, LedgerTimer, LedgerClose, LedgerRest
        DEF Next, Timers

(* The manager implements the ledger: whatever the interleaving, a job is  *)
(* accepted or refused once, tried one call at a time and at most          *)
(* MaxAttempts times, and ends done, dead or, under a closed queue, lost.  *)
THEOREM ManagerImplementsLedger == Spec => ImplementsLedger
<1>1. TypeInv /\ TypeInv' /\ PlaceInv /\ PlaceInv' /\ StopInv /\ AttemptInv /\ [Next]_vars
        => [Ledger!Next]_(Ledger!vars)
  BY LedgerNext DEF Sound
<1> QED BY <1>1, LedgerInit, TypeInvariance, PlaceInvariance, StopInvariance,
           AttemptInvariance, PTL DEF Spec, ImplementsLedger, Ledger!Spec

=============================================================================

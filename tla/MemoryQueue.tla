---------------------------- MODULE MemoryQueue ----------------------------
(***************************************************************************)
(* The in-process job queue of jobs/memory.go.                             *)
(*                                                                         *)
(* A MemoryQueue is a buffered channel (ch), one timer per delayed job,    *)
(* and a dead-letter list (failed), with a closed flag under q.mu that is  *)
(* set together with the closing of the channel q.done.  Enqueue and the   *)
(* timer callbacks read the flag under q.mu, release it, and only then     *)
(* enter a select over ch and done: what they saw may be out of date by    *)
(* the time they send.  The two halves are separate steps here.            *)
(*                                                                         *)
(* The module gives the steps of the queue as operators on its variables;  *)
(* the callers (Dispatch and the workers, in JobManager) conjoin them with *)
(* their own program counters.  Only the timer callbacks run by themselves.*)
(***************************************************************************)
EXTENDS Naturals, Sequences

CONSTANTS Job,        \* the identities of the jobs (Job.ID)
          Capacity    \* the buffer of the channel

ASSUME CapacityAssumption == Capacity \in Nat \ {0}

VARIABLES ch,         \* the buffered channel: jobs ready for delivery
          timers,     \* delayed jobs whose timer callback has not taken q.mu
          firing,     \* callbacks that found the queue open, now in select
          closed,     \* q.closed, and q.done is closed
          failed      \* the dead-letter list

qvars == <<ch, timers, firing, closed, failed>>

(* A job as it travels: MaxAttempts is 0 when Dispatch knew no handler.    *)
JobRec == [id : Job, attempt : Nat, max : Nat]

QueueTypeOK ==
  /\ ch \in Seq(JobRec) /\ Len(ch) <= Capacity
  /\ timers \subseteq JobRec
  /\ firing \subseteq JobRec
  /\ closed \in BOOLEAN
  /\ failed \in Seq(JobRec)

QueueInit ==
  /\ ch = <<>>
  /\ timers = {}
  /\ firing = {}
  /\ closed = FALSE
  /\ failed = <<>>

-----------------------------------------------------------------------------
(* Enqueue, first half, under q.mu.                                        *)

EnqueueRefused ==
  /\ closed
  /\ UNCHANGED qvars

EnqueueDelayed(job) ==
  /\ ~closed
  /\ timers' = timers \cup {job}
  /\ UNCHANGED <<ch, firing, closed, failed>>

EnqueueAdmitted ==
  /\ ~closed
  /\ UNCHANGED qvars

(* Enqueue, second half: the select.  A closed queue whose buffer has room *)
(* makes both cases ready, and Go picks either.                            *)

(* (Slip: a send that does not wait for room.)                             *)
SelectSendUnbounded(job) ==
  /\ ch' = Append(ch, job)
  /\ UNCHANGED <<timers, firing, closed, failed>>

SelectSend(job) ==
  /\ Len(ch) < Capacity
  /\ ch' = Append(ch, job)
  /\ UNCHANGED <<timers, firing, closed, failed>>

SelectDone ==
  /\ closed
  /\ UNCHANGED qvars

Receive ==
  /\ ch # <<>>
  /\ ch' = Tail(ch)
  /\ UNCHANGED <<timers, firing, closed, failed>>

Reject(job) ==
  /\ failed' = Append(failed, job)
  /\ UNCHANGED <<ch, timers, firing, closed>>

(* The copy that memoryDelivery.Retry hands back to Enqueue.  (Slip: the    *)
(* attempt of the copy is not incremented.)                                *)
RetryCopyStale(job) == job
RetryCopy(job) == [job EXCEPT !.attempt = @ + 1]

-----------------------------------------------------------------------------
(* The timer callbacks of delayed jobs: under q.mu first, then a select.   *)

TimerFire(job) ==
  /\ job \in timers
  /\ timers' = timers \ {job}
  /\ firing' = IF closed THEN firing ELSE firing \cup {job}
  /\ UNCHANGED <<ch, closed, failed>>

(* (Slip: the callback stays registered after it has sent.)                *)
CallbackSendKeeps(job) ==
  /\ job \in firing
  /\ Len(ch) < Capacity
  /\ ch' = Append(ch, job)
  /\ UNCHANGED <<timers, firing, closed, failed>>

CallbackSend(job) ==
  /\ job \in firing
  /\ Len(ch) < Capacity
  /\ ch' = Append(ch, job)
  /\ firing' = firing \ {job}
  /\ UNCHANGED <<timers, closed, failed>>

CallbackDrop(job) ==
  /\ job \in firing
  /\ closed
  /\ firing' = firing \ {job}
  /\ UNCHANGED <<ch, timers, closed, failed>>

(* Close stops the timers.  One that has fired but not taken q.mu will find *)
(* the queue closed and drop its job: it leaves `timers' here like the rest.*)
Close ==
  /\ ~closed
  /\ closed' = TRUE
  /\ timers' = {}
  /\ UNCHANGED <<ch, firing, failed>>

=============================================================================

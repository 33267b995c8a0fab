------------------------------ MODULE JobLedger ------------------------------
(***************************************************************************)
(* What a job manager promises about each job, whatever runs underneath:   *)
(* the life of a job as a ledger entry.  A dispatched job is queued, tried *)
(* one handler call at a time and at most MaxTries times, and ends done,   *)
(* dead (dead-lettered) or, only if the queue was closed under it, lost.   *)
(***************************************************************************)
EXTENDS Naturals

CONSTANTS Job,       \* the jobs
          MaxTries   \* attempts a job may use

VARIABLES status, tries, open

vars == <<status, tries, open>>

Status == {"new", "refused", "queued", "running", "done", "dead", "lost"}

TypeOK ==
  /\ status \in [Job -> Status]
  /\ tries \in [Job -> Nat]
  /\ open \in BOOLEAN

Init ==
  /\ status = [j \in Job |-> "new"]
  /\ tries = [j \in Job |-> 0]
  /\ open = TRUE

Move(j, from, to) ==
  /\ status[j] = from
  /\ status' = [status EXCEPT ![j] = to]

Accept(j) == Move(j, "new", "queued") /\ UNCHANGED <<tries, open>>
Refuse(j) == Move(j, "new", "refused") /\ UNCHANGED <<tries, open>>

Try(j) ==
  /\ tries[j] < MaxTries[j]
  /\ Move(j, "queued", "running")
  /\ tries' = [tries EXCEPT ![j] = @ + 1]
  /\ UNCHANGED open

Complete(j) == Move(j, "running", "done") /\ UNCHANGED <<tries, open>>

(* A failed attempt goes back to the queue only if one more may be made.   *)
Requeue(j) ==
  /\ tries[j] < MaxTries[j]
  /\ Move(j, "running", "queued")
  /\ UNCHANGED <<tries, open>>

(* Out of attempts, failed permanently, or no handler for it.              *)
Bury(j) ==
  /\ Move(j, "running", "dead") \/ Move(j, "queued", "dead")
  /\ UNCHANGED <<tries, open>>

(* Closing the queue may lose waiting jobs, at once or later.              *)
CloseQueue(gone) ==
  /\ open
  /\ open' = FALSE
  /\ \A j \in gone : status[j] = "queued"
  /\ status' = [j \in Job |-> IF j \in gone THEN "lost" ELSE status[j]]
  /\ UNCHANGED tries

Lose(j) ==
  /\ ~open
  /\ Move(j, "running", "lost") \/ Move(j, "queued", "lost")
  /\ UNCHANGED <<tries, open>>

Next ==
  \/ \E j \in Job :
       \/ Accept(j) \/ Refuse(j) \/ Try(j) \/ Complete(j)
       \/ Requeue(j) \/ Bury(j) \/ Lose(j)
  \/ \E gone \in SUBSET Job : CloseQueue(gone)

Spec == Init /\ [][Next]_vars

=============================================================================

----------------------------- MODULE Idempotency -----------------------------
(***************************************************************************)
(* Calls of an HTTP client that retries (httpclient/httpclient.go) to a    *)
(* route behind the idempotency middleware (idempotency/idempotency.go),   *)
(* whose records are in a cache.Store.                                     *)
(*                                                                         *)
(* A call sends attempts one after the other; attempt n of call c is the   *)
(* request <<c, n>> on the server, which may go on after its client gave   *)
(* up on it.  Every operation on the store is a step of its own.  A result *)
(* of the handler is the request that ran it.                              *)
(***************************************************************************)
EXTENDS CacheStore

CONSTANTS Call,        \* POST calls of the client
          Clients,     \* the sets of calls a behaviour may have
          Fingerprint,       \* Fingerprint[c]: the fingerprint of the call's request
          KeyOf,       \* KeyOf[c]: its Idempotency-Key, or None
          Attempts,    \* Attempts[c]: MaxAttempts of its client's RetryPolicy
          LockTTL, TTL \* idempotency.Config

Request == UNION {{c} \X (1..Attempts[c]) : c \in Call}
Answer(status, by) == [status |-> status, by |-> by]
NoAnswer == Answer("none", None)

ASSUME IdempotencyAssumption ==
  /\ Clients \subseteq SUBSET Call
  /\ KeyOf \in [Call -> Key \cup {None}]
  /\ Attempts \in [Call -> Nat \ {0}]
  /\ LockTTL \in Nat \ {0} /\ TTL \in Nat \ {0}

VARIABLES calls,   \* the calls of this behaviour
          serving, \* a request's place in the middleware
          saw,     \* how often Reserve found the key taken and then gone
          answer,  \* the response of a request
          attempt, \* of a call: 0 before it starts
          got,     \* what a call returned
          ran,     \* history: requests whose handler succeeded
          spoilt   \* history: per key, results that could not be stored

idemVars == <<calls, serving, saw, answer, attempt, got, ran, spoilt>>

IdemInit ==
  /\ calls \in Clients
  /\ serving = [r \in Request |-> "none"]
  /\ saw = [r \in Request |-> 0]
  /\ answer = [r \in Request |-> NoAnswer]
  /\ attempt = [c \in Call |-> 0]
  /\ got = [c \in Call |-> NoAnswer]
  /\ ran = {}
  /\ spoilt = [k \in Key |-> 0]

At(r, place) == serving[r] = place
GoTo(r, place) == serving' = [serving EXCEPT ![r] = place]
Respond(r, status, by) ==
  /\ GoTo(r, "over")
  /\ answer' = [answer EXCEPT ![r] = Answer(status, by)]

-----------------------------------------------------------------------------
(* The middleware.                                                         *)

KeyFor(r) == KeyOf[r[1]]
Pending(r) == [print |-> Fingerprint[r[1]], done |-> FALSE, by |-> None]
Complete(r) == [print |-> Fingerprint[r[1]], done |-> TRUE, by |-> r]

(* Without a key the handler runs unprotected.                             *)
Entry(r) == IF KeyFor(r) = None THEN "run" ELSE "reserve"

(* Store.Reserve, its Add: an error answers 503, and if the Add did run    *)
(* the key stays taken until LockTTL has passed.                           *)
Reserve(r, o) ==
  /\ At(r, "reserve")
  /\ AddStep(KeyFor(r), Pending(r), LockTTL, o)
  /\ CASE o # "ok" -> Respond(r, "unavailable", None)
       [] o = "ok" /\ Live(KeyFor(r)) -> GoTo(r, "look") /\ UNCHANGED answer
       [] OTHER -> GoTo(r, "run") /\ UNCHANGED answer
  /\ UNCHANGED <<saw, attempt, got, ran, spoilt>>

(* What the middleware does about the record another request left.         *)
About(r, rec) ==
  IF rec.print # Fingerprint[r[1]] THEN Answer("reused", None)
  ELSE IF ~rec.done THEN Answer("in progress", None)
  ELSE Answer("ok", rec.by)

(* Store.Reserve, its Get: a key gone by now is added again, once.         *)
Look(r, o) ==
  /\ At(r, "look")
  /\ GetStep(KeyFor(r), o)
  /\ \/ /\ o # "ok"
        /\ Respond(r, "unavailable", None)
        /\ UNCHANGED saw
     \/ /\ o = "ok" /\ Live(KeyFor(r))
        /\ LET a == About(r, Value(KeyFor(r))) IN Respond(r, a.status, a.by)
        /\ UNCHANGED saw
     \/ /\ o = "ok" /\ ~Live(KeyFor(r)) /\ saw[r] = 0
        /\ GoTo(r, "reserve")
        /\ saw' = [saw EXCEPT ![r] = 1]
        /\ UNCHANGED answer
     \/ /\ o = "ok" /\ ~Live(KeyFor(r)) /\ saw[r] = 1
        /\ Respond(r, "unavailable", None)
        /\ UNCHANGED saw
  /\ UNCHANGED <<attempt, got, ran, spoilt>>

(* The handler: it succeeds with a response that can be stored or with one *)
(* that cannot (too large, with a cookie, or none written), fails, is      *)
(* unavailable, or panics.  A panic passes the middleware, and the record  *)
(* stays.                                                                  *)
Ending == {"good", "unstorable", "failed", "unavailable", "panicked"}
Succeeds(how) == how \in {"good", "unstorable"}

Run(r, how) ==
  /\ At(r, "run")
  /\ ran' = IF Succeeds(how) THEN ran \cup {r} ELSE ran
  /\ answer' = [answer EXCEPT ![r] =
       IF Succeeds(how) THEN Answer("ok", r) ELSE Answer(how, None)]
  /\ GoTo(r, IF KeyFor(r) = None \/ how = "panicked" THEN "over"
             ELSE IF how = "good" THEN "complete" ELSE "release")
  /\ UNCHANGED <<storeVars, saw, attempt, got, spoilt>>

(* Store.Complete and Store.Release: neither looks at whose record the     *)
(* store has by now, and a failure is only logged.                         *)
Finish(r, o) ==
  /\ At(r, "complete")
  /\ SetStep(KeyFor(r), Complete(r), TTL, o)
  /\ GoTo(r, "over")
  /\ UNCHANGED <<saw, answer, attempt, got, ran, spoilt>>

Release(r, o) ==
  /\ At(r, "release")
  /\ DeleteStep(KeyFor(r), o)
  /\ GoTo(r, "over")
  /\ spoilt' = IF r \in ran /\ Ran(o) /\ Live(KeyFor(r))
                 THEN [spoilt EXCEPT ![KeyFor(r)] = @ + 1] ELSE spoilt
  /\ UNCHANGED <<saw, answer, attempt, got, ran>>

-----------------------------------------------------------------------------
(* The client.                                                             *)

(* (Slip: a POST is retried without a key too.)                            *)
CanRetryAnything(c) == Attempts[c] > 1

(* retryTransport.canRetry of a POST whose body can be replayed.           *)
CanRetry(c) == Attempts[c] > 1 /\ KeyOf[c] # None

(* retryTransport.shouldRetry, and Retry-After: a network error and the    *)
(* statuses 429, 502, 503 and 504 are retried; a 503 that asks for a wait  *)
(* longer than MaxBackoff is returned, as any other "failed" one.          *)
ShouldRetry(status) == status \in {"no answer", "unavailable"}

Send(c, n) == attempt' = [attempt EXCEPT ![c] = n] /\ GoTo(<<c, n>>, Entry(<<c, n>>))

Start(c) ==
  /\ attempt[c] = 0
  /\ Send(c, 1)
  /\ UNCHANGED <<storeVars, saw, answer, got, ran, spoilt>>

Waiting(c) == attempt[c] > 0 /\ got[c] = NoAnswer
Current(c) == <<c, attempt[c]>>

(* RoundTrip goes on with the answer a of an attempt.                      *)
Took(c, a) ==
  IF CanRetry(c) /\ attempt[c] < Attempts[c] /\ ShouldRetry(a.status)
    THEN Send(c, attempt[c] + 1) /\ UNCHANGED got
    ELSE got' = [got EXCEPT ![c] = a] /\ UNCHANGED <<serving, attempt>>

Receive(c) ==
  /\ Waiting(c) /\ At(Current(c), "over")
  /\ Took(c, answer[Current(c)])
  /\ UNCHANGED <<storeVars, saw, answer, ran, spoilt>>

(* The connection fails: the request may still be served.                  *)
LoseAnswer(c) ==
  /\ Waiting(c) /\ faults < MaxFaults
  /\ Took(c, Answer("no answer", None))
  /\ faults' = faults + 1
  /\ UNCHANGED <<now, entries, lapses, saw, answer, ran, spoilt>>

(* The caller's context ends.                                              *)
GiveUp(c) ==
  /\ Waiting(c) /\ faults < MaxFaults
  /\ got' = [got EXCEPT ![c] = Answer("gave up", None)]
  /\ faults' = faults + 1
  /\ UNCHANGED <<now, entries, lapses, serving, saw, answer, attempt, ran, spoilt>>

ServeNext ==
  \E r \in {q \in Request : q[1] \in calls} :
    \/ \E how \in Ending : Run(r, how)
    \/ \E o \in Outcome : Reserve(r, o) \/ Look(r, o) \/ Finish(r, o) \/ Release(r, o)

CallNext == \E c \in calls : Start(c) \/ Receive(c) \/ LoseAnswer(c) \/ GiveUp(c)

IdemDone ==
  /\ \A c \in calls : got[c] # NoAnswer
  /\ \A r \in Request : serving[r] \in {"none", "over"}

-----------------------------------------------------------------------------
(* A key lets its request succeed once, and once more for each time its    *)
(* record was lost: it expired (also while the handler ran), was evicted,  *)
(* or the response could not be stored.  A call without a key is never     *)
(* sent twice.  Every success a client is told is one that happened, for   *)
(* the request it sent.                                                    *)
Effects(k) == {r \in ran : KeyFor(r) = k}

EffectOnce ==
  /\ \A k \in Key : Cardinality(Effects(k)) <= 1 + lapses[k] + spoilt[k]
  /\ \A c \in Call : KeyOf[c] = None => Cardinality({r \in ran : r[1] = c}) <= 1
  /\ \A c \in Call : got[c].status = "ok" =>
       got[c].by \in ran /\ KeyFor(got[c].by) = KeyOf[c] /\ Fingerprint[got[c].by[1]] = Fingerprint[c]
=============================================================================

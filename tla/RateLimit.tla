------------------------------ MODULE RateLimit ------------------------------
(***************************************************************************)
(* Rate limiting: GCRA, the in-memory limiter and the middleware           *)
(* (ratelimit/ratelimit.go), and the limiter in Redis                      *)
(* (contrib/redis/limiter.go), which runs the same law in one script with  *)
(* the clock of the server.                                                *)
(*                                                                         *)
(* Memory.Allow reads the clock before it takes the lock of the shard, so  *)
(* a request may decide with a reading that is behind.                     *)
(***************************************************************************)
EXTENDS CacheStore, FiniteSetsExt

CONSTANTS Hit,      \* requests
          HitKey,   \* HitKey[h]: the key of the request; all keys share a shard
          Interval, \* Rate.Interval
          Capacity, \* Rate.Capacity
          Second    \* the clock's ticks per second

Nil == 0 \* no theoretical arrival time: long past

\* An interval of 0, which the code computes for rates above one per
\* nanosecond (per microsecond in the script), is left out.
ASSUME RateAssumption ==
  /\ HitKey \in [Hit -> Key]
  /\ Interval \in Nat \ {0} /\ Capacity \in Nat \ {0} /\ Second \in Nat \ {0}

VARIABLES limiter,    \* "memory" or "redis"
          failClosed, \* ratelimit.Config.FailClosed
          hitting,    \* a request's place
          read,       \* the clock it read
          verdict,    \* its answer
          tats,       \* theoretical arrival time per key
          \* history:
          admitted,   \* [by, at, timely] of the requests let through
          forgotten   \* the last reading a key's arrival time was dropped at

limitVars ==
  <<limiter, failClosed, hitting, read, verdict, tats, admitted, forgotten>>

LimitInit ==
  /\ limiter \in {"memory", "redis"} /\ failClosed \in BOOLEAN
  /\ hitting = [h \in Hit |-> "new"]
  /\ read = [h \in Hit |-> 0]
  /\ verdict = [h \in Hit |-> "none"]
  /\ tats = [k \in Key |-> Nil]
  /\ admitted = {} /\ forgotten = [k \in Key |-> 0]

Larger(a, b) == IF a > b THEN a ELSE b

(* GCRA: a request is allowed unless its new arrival time is more than a   *)
(* burst ahead of t.                                                       *)
NewTat(t, tat) == Larger(t, tat) + Interval
(* (Slip: the burst is compared with the old arrival time.)                *)
AllowedOneMore(t, tat) == t + Interval * Capacity >= Larger(t, tat)

Allowed(t, tat) == t + Interval * Capacity >= NewTat(t, tat)
RetryAfter(t, tat) == NewTat(t, tat) - Interval * Capacity - t

CeilSeconds(d) == ((d + Second - 1) \div Second) * Second
Wait(t, tat) == Larger(CeilSeconds(RetryAfter(t, tat)), Second)

(* The sweep of a shard, every 1024 calls, after the decision.             *)
SweepTats(t, ts) == [k \in Key |-> IF ts[k] < t THEN Nil ELSE ts[k]]

Decide(h, t, ts) ==
  /\ verdict' = [verdict EXCEPT ![h] = IF Allowed(t, ts[HitKey[h]]) THEN "allowed" ELSE "limited"]
  /\ admitted' = IF Allowed(t, ts[HitKey[h]])
       THEN admitted \cup {[by |-> h, at |-> t, timely |-> t >= forgotten[HitKey[h]]]}
       ELSE admitted

AfterHit(h, t, ts) ==
  IF Allowed(t, ts[HitKey[h]]) THEN [ts EXCEPT ![HitKey[h]] = NewTat(t, @)] ELSE ts

Forget(t) ==
  forgotten' = [k \in Key |-> IF tats'[k] < tats[k] THEN Larger(forgotten[k], t)
                                                   ELSE forgotten[k]]

ReadClock(h) ==
  /\ limiter = "memory" /\ hitting[h] = "new"
  /\ read' = [read EXCEPT ![h] = now]
  /\ hitting' = [hitting EXCEPT ![h] = "allow"]
  /\ UNCHANGED <<storeVars, limiter, failClosed, verdict, tats, admitted, forgotten>>

AllowMemory(h, sweep) ==
  /\ hitting[h] = "allow"
  /\ Decide(h, read[h], tats)
  /\ tats' = IF sweep THEN SweepTats(read[h], AfterHit(h, read[h], tats))
                      ELSE AfterHit(h, read[h], tats)
  /\ Forget(read[h])
  /\ hitting' = [hitting EXCEPT ![h] = "over"]
  /\ UNCHANGED <<storeVars, limiter, failClosed, read>>

(* The script; its key expires when its time has passed.                   *)
AllowRedis(h) ==
  /\ limiter = "redis" /\ hitting[h] = "new"
  /\ LET fresh == [k \in Key |-> IF now >= tats[k] THEN Nil ELSE tats[k]]
     IN Decide(h, now, fresh) /\ tats' = AfterHit(h, now, fresh)
  /\ Forget(now)
  /\ hitting' = [hitting EXCEPT ![h] = "over"]
  /\ UNCHANGED <<storeVars, limiter, failClosed, read>>

(* The script fails, or its answer is lost: the middleware lets the        *)
(* request through or answers 503.                                         *)
LimiterFails(h, o) ==
  /\ limiter = "redis" /\ hitting[h] = "new" /\ o # "ok"
  /\ Ends(o)
  /\ tats' = IF Ran(o) THEN AfterHit(h, now, tats) ELSE tats
  /\ verdict' = [verdict EXCEPT ![h] = IF failClosed THEN "unavailable" ELSE "allowed"]
  /\ hitting' = [hitting EXCEPT ![h] = "over"]
  /\ UNCHANGED <<now, entries, lapses, limiter, failClosed, read, admitted, forgotten>>

LimitNext ==
  \E h \in Hit :
    \/ ReadClock(h) \/ AllowRedis(h)
    \/ \E sweep \in BOOLEAN : AllowMemory(h, sweep)
    \/ \E o \in Outcome : LimiterFails(h, o)

LimitDone == \A h \in Hit : hitting[h] = "over"

-----------------------------------------------------------------------------
(* In every span of the clock, a key is let through at most its capacity   *)
(* and once more per interval passed (GCRA, Memory.Allow), each request at *)
(* the reading it decided with, however late it decides.  Not counted are  *)
(* those whose key was swept or expired at a later reading than theirs,    *)
(* and those the middleware lets through because the limiter failed.  And  *)
(* Retry-After is honest: a key denied now is let through after that wait  *)
(* if it sends nothing meanwhile.                                          *)
Between(k, a, b) == {e \in admitted : HitKey[e.by] = k /\ e.timely /\ e.at \in a..b}

RateBounded ==
  /\ \A k \in Key : \A a \in 0..MaxTime : \A b \in a..MaxTime :
       Cardinality(Between(k, a, b)) <= Capacity + (b - a) \div Interval
  /\ \A k \in Key :
       ~Allowed(now, tats[k]) => Allowed(now + Wait(now, tats[k]), tats[k])
=============================================================================

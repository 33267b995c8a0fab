---------------------------- MODULE MCRedisQueue ----------------------------
(* A small instance of RedisQueue for TLC.                                 *)
EXTENDS RedisQueue

CONSTANTS j1, j2, w1, w2

Limits == [j \in Job |-> IF j = j1 THEN 2 ELSE 1]

=============================================================================

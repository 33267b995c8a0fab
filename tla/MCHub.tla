------------------------------- MODULE MCHub -------------------------------
(* Small instances of Hub for TLC.                                         *)
EXTENDS Hub

CONSTANTS a, b, u1, u2

(* Enough on a for its ring to wrap; one event on b evicts a.              *)
Bounds == [t \in Topic |-> IF t = a THEN 3 ELSE 1]

=============================================================================

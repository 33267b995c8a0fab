---------------------------- MODULE MCJobManager ----------------------------
(* Small instances of JobManager for TLC.                                  *)
EXTENDS JobManager

CONSTANTS j1, j2, n1, n2

(* Two jobs with a handler; or the second under a name that gets one late  *)
(* or never.                                                               *)
SameName == [j \in Job |-> n1]
TwoNames == [j \in Job |-> IF j = j1 THEN n1 ELSE n2]

(* n1 may be attempted twice, n2 once (MaxAttempts(0) means one attempt).  *)
Limits == [n \in Name |-> IF n = n1 THEN 2 ELSE 0]

=============================================================================

\* Every interleaving of two jobs, two generations of one worker, two Stop
\* calls, zero and positive delays and Close, over a buffer of one.
CONSTANTS
  j1 = j1
  j2 = j2
  n1 = n1
  n2 = n2
  Job = {j1, j2}
  Name = {n1, n2}
  JobName <- TwoNames
  RegMax <- Limits
  Capacity = 1
  Worker = {w1}
  MaxStarts = 2
  Stopper = {s1, s2}
  RetryDelays = {0, 1}
  DispatchDelays = {0, 1}
  NoJob = NoJob
SPECIFICATION Spec
INVARIANTS
  TypeOK
  NoDuplicates
  NothingLost
  AttemptsWithinLimit
  StopWaits
  CanceledOnlyLate
PROPERTY
  ImplementsLedger
\* Calls are made a bounded number of times; then nothing is left to do.
CHECK_DEADLOCK FALSE

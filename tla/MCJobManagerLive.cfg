\* Liveness: two jobs, two workers, one Start and one Stop, positive retry
\* delays (what ExponentialBackoff returns for a positive base).
CONSTANTS
  j1 = j1
  j2 = j2
  n1 = n1
  n2 = n2
  Job = {j1, j2}
  Name = {n1}
  JobName <- SameName
  RegMax <- Limits
  Capacity = 1
  Worker = {w1, w2}
  MaxStarts = 1
  Stopper = {s1}
  RetryDelays = {1}
  DispatchDelays = {0, 1}
  NoJob = NoJob
SPECIFICATION FairSpec
PROPERTIES
  EventuallySettled
  StopReturns
\* Calls are made a bounded number of times; then nothing is left to do.
CHECK_DEADLOCK FALSE

\* The same with one worker and a Backoff that may return 0.
CONSTANTS
  j1 = j1
  j2 = j2
  n1 = n1
  n2 = n2
  Job = {j1, j2}
  Name = {n1}
  JobName <- SameName
  RegMax <- Limits
  Capacity = 1
  Worker = {w1}
  MaxStarts = 1
  Stopper = {s1}
  RetryDelays = {0, 1}
  DispatchDelays = {0}
  NoJob = NoJob
SPECIFICATION FairSpec
PROPERTY
  StopReturns
CHECK_DEADLOCK FALSE

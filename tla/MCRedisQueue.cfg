\* A job with a retry and one without, which may also be undecodable, two
\* workers, two faults, one move by RequeueProcessing.
CONSTANTS
  j1 = j1
  j2 = j2
  w1 = w1
  w2 = w2
  Job = {j1, j2}
  Worker = {w1, w2}
  Limit <- Limits
  Foreign = {j2}
  PromoteLimit = 1
  MaxFaults = 2
  MaxRequeues = 1
  None = None
SPECIFICATION FairSpec
INVARIANTS
  TypeOK
  NothingLost
  DeliveredOncePerAttempt
  StrandedByFault
PROPERTY
  EventuallySettled

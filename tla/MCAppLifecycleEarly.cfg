\* One Serve call and a Shutdown that may come while Start runs its hooks.
CONSTANTS
  s1 = s1
  s2 = s2
  c1 = c1
  r1 = r1
  NumHooks = 2
  StopOnly = {1}
  ServeCall = {s1}
  Closer = {c1}
  Request = {r1}
  Stream = {r1}
  Program = Program
  None = None
SPECIFICATION Spec
INVARIANT
  DoneMeansStopped
CHECK_DEADLOCK FALSE

\* Two Serve calls (two listeners) and the Start of the program, one Shutdown
\* call beside those of Serve, three hooks of which the first cannot fail, a stream.
CONSTANTS
  s1 = s1
  s2 = s2
  c1 = c1
  r1 = r1
  NumHooks = 3
  StopOnly = {1}
  ServeCall = {s1, s2}
  Closer = {c1}
  Request = {r1}
  Stream = {r1}
  Program = Program
  None = None
SPECIFICATION FairSpec
INVARIANTS
  TypeOK
  DependenciesUp
  StoppedOnce
  DoneLeavesNothing
  HooksOutliveRequests
  ServeReturnsClean
PROPERTIES
  StateForward
  ShutdownReturns
  ServeReturns
\* An application runs and stops once; then nothing is left to do.
CHECK_DEADLOCK FALSE

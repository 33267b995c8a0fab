\* Two topics under a cap of one or none, two connections, a buffer of one,
\* a replay of none or two of three events.
CONSTANTS
  a = a
  b = b
  u1 = u1
  u2 = u2
  Topic = {a, b}
  Subscriber = {u1, u2}
  Buffer = 1
  ReplaySizes = {0, 2}
  TopicCaps = {0, 1}
  MaxPublish <- Bounds
  Custom = Custom
  None = None
SPECIFICATION FairSpec
INVARIANTS
  TypeOK
  AttachedWhileOpen
  NoGaps
  RingKeepsLatest
PROPERTIES
  ReplayExact
  ServeEnds
\* Events and connections are bounded; then nothing is left to do.
CHECK_DEADLOCK FALSE

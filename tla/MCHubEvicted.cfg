\* One connection after another to a topic that is evicted in between.
CONSTANTS
  a = a
  b = b
  u1 = u1
  u2 = u2
  Topic = {a, b}
  Subscriber = {u1, u2}
  Buffer = 1
  ReplaySizes = {2}
  TopicCaps = {1}
  MaxPublish <- Bounds
  Custom = Custom
  None = None
SPECIFICATION Spec
PROPERTY
  ReplayComplete
CHECK_DEADLOCK FALSE

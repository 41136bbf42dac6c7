CONSTANTS
  c1 = c1  c2 = c2  q1 = q1  topic = topic
  Conns = {c1, c2}
  Queues = {q1}
  Topics = {topic}
  Repliers = {c1}
  MaxFrames = 2
  MaxClients = 2
  Parts = 2
SPECIFICATION FairSpec
INVARIANTS
  TypeOK
  OneHolder
  CountedWasDelivered
  AnotherOnlyAfterClose
  InOrder
  WholeUnlessShared
PROPERTIES
  Served
  ThreadEnds
CHECK_DEADLOCK FALSE

CONSTANTS
  c1 = c1  c2 = c2  q1 = q1  topic = topic
  Conns = {c1, c2}
  Queues = {}
  Topics = {topic}
  Repliers = {}
  MaxFrames = 1
  MaxClients = 2
  Parts = 2
SPECIFICATION FairSpec
PROPERTIES
  TopicServed
CHECK_DEADLOCK FALSE

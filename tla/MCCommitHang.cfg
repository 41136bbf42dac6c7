CONSTANTS
  c1 = c1  c2 = c2  q = q  topic = topic  Absent = Absent
  Conns = {c1, c2}
  MaxFrames = 3
  Commands <- CommitCommands
  Dests <- MCDests
  Topics <- MCTopics
  Tids <- MCTids
  StoredTids <- MCTids
SPECIFICATION FairSpec
PROPERTIES
  EveryFrameHandled
CHECK_DEADLOCK FALSE

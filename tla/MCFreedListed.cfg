CONSTANTS
  s1 = s1  s2 = s2
  DestNames = {"topic"}
  Kinds = {"body"}
  Senders = {s1}
  MaxFrames = 1
  MaxStarts = 1
SPECIFICATION Spec
INVARIANTS
  ListedNotFreed
CHECK_DEADLOCK FALSE

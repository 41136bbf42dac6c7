CONSTANTS
  s1 = s1  s2 = s2
  DestNames = {"flat", "topic"}
  Kinds = {"empty", "reply", "quoting"}
  Senders = {s1, s2}
  MaxFrames = 2
  MaxStarts = 2
SPECIFICATION Spec
INVARIANTS
  TypeOK
  FileInOrder
  StoredOrSent
  RepeatedOnlyByDrift
  RestoredWhole
  IndexesAgree
SYMMETRY Alike
CHECK_DEADLOCK FALSE

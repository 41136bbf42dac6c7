CONSTANTS
  Frames = {1, 2, 3, 4}
  Tids <- MCTids
  StoredTids <- MCStoredTids
  Callback <- MCCallback
SPECIFICATION FairSpec
INVARIANTS
  TypeOK
  NoOlderMatch
  RunsAtMostOnce
PROPERTIES
  CommitReturns
CHECK_DEADLOCK FALSE

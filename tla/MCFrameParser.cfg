CONSTANTS
  LD_MAX = 3
  MaxChunk = 24
  Tokens <- MCTokens
  Commands <- MCCommands
  Numerals <- MCNumerals
  Scripts <- MCScripts
  Raw <- MCRaw
SPECIFICATION FairSpec
INVARIANTS
  TypeOK
  RoundTrip
  TruncatedOnlyLast
PROPERTIES
  EventuallyClosed
CHECK_DEADLOCK FALSE

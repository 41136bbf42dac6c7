CONSTANTS
  LD_MAX = 3
  MaxChunk = 24
  Tokens <- MCTokens
  Commands <- MCCommands
  Numerals <- MCNumerals
  Scripts <- MCScripts
  Raw <- MCRaw
SPECIFICATION Spec
INVARIANT CancelledNotDelivered
CHECK_DEADLOCK FALSE

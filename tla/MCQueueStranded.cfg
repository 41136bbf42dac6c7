CONSTANTS
  p1 = p1
  c1 = c1
  c2 = c2
  a = a
  b = b
  Producers = {p1}
  Consumers = {c1, c2}
  MaxFrames = 1
  QNames = {a, b}
  QB_SIZE = 2
  MaxOOM = 0
  Hash <- MCHash
  Dest <- MCDest
SPECIFICATION Spec
INVARIANT NoneLost

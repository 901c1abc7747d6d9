CONSTANTS
  Projects = {p1}
  Keys = {k1, k2}
  Flushes = {w1, w2}
  MaxWrites = 3
SPECIFICATION FairSpec
INVARIANTS NothingForgotten NothingWaitsUntold
PROPERTIES FlushIsDurable FlushesReturn DurableOrTold

SPECIFICATION FairSpec
CONSTANTS
  Turn = 16
  Grain = 2
  Margin = 1
  Between = 1
  MaxCells = 6
  NoPlan = NoPlan
  NoGaps = NoGaps
  NoCell = NoCell
  Lens = 4
  Cell = {0, 5, 10}
  Cone = 1
  Overlap = 0
  Headings = {1, 5, 10}
  Lapses = {1, 3}
  Periods = {1, 3}
  DwellFull = 3
  Credit = 1
  FrameCount = 2
  Interval = 1
  Settle = 1
INVARIANTS DwellEarned OwnExposures DoneMeansCovered
PROPERTIES BurstEnds HeldIsOffered
CHECK_DEADLOCK FALSE

SPECIFICATION EitherSpec
CONSTANTS
  Turn = 16
  Grain = 2
  Margin = 1
  Between = 1
  MaxCells = 6
  NoPlan = NoPlan
  NoGaps = NoGaps
  Lenses <- MCLenses
  Cones = {1, 2}
  Overlaps <- MCOverlaps
  MaxLength = 2
  SizeRange = 1024
  Claims <- MCClaims
  FullTurn = 2
  Screens = {0, 1}
  LongestPrediction = 1
  MaxTime = 3
  MotionBuffer = 2
  DrainBatch = 2
INVARIANT SeesEverything DeliveredAsWritten RoomIsBacked HonestAim
CHECK_DEADLOCK FALSE

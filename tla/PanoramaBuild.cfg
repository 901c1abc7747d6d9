SPECIFICATION Spec
CONSTANTS
  Cell = {c1, c2}
  MaxCaptures = 2
  MaxPins = 2
  Situations <- Told
  NoBuild = NoBuild
  NoCell = NoCell
SYMMETRY Interchangeable
INVARIANT Recoverable InPlaceWhileRunning FinishedStands HoldersKeepTheirPins
CHECK_DEADLOCK FALSE

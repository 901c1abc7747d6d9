SPECIFICATION Spec
CONSTANTS
  Cell = {c1, c2}
  MaxCaptures = 2
  MaxPins = 2
  Situations <- NotTold
  NoBuild = NoBuild
  NoCell = NoCell
SYMMETRY Interchangeable
INVARIANT HoldersKeepTheirPins
CHECK_DEADLOCK FALSE

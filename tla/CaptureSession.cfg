CONSTANTS
  Projects = {p1, p2}
  Nodes = {n1, n2}
  FrameCount = 2
  MaxPerCell = 1
  MaxShots = 3
  MaxGeneration = 3
  MaxCrashes = 2
  MaxOffered = 1
  MaxHeld = 1
  NoProject = NoProject
  NoNode = NoNode
  NoDocument = NoDocument
  NoPixels = NoPixels
SYMMETRY Interchangeable
SPECIFICATION Spec
INVARIANTS OwnPixels IdentitiesUnique PickNeverMoves DocumentInStep NothingLeaks
CHECK_DEADLOCK FALSE

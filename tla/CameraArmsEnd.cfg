CONSTANTS
  FrameCount = 2
  UnreachedLimit = 3
  MaxArms = 2
  MaxOpens = 1
  MaxFaults = 1
SPECIFICATION Spec
PROPERTY ArmsEnd
CHECK_DEADLOCK FALSE

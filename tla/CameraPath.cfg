CONSTANTS
  FrameCount = 2
  UnreachedLimit = 3
  MaxArms = 3
  MaxOpens = 2
  MaxFaults = 3
SPECIFICATION Spec
INVARIANT LockedThroughout
INVARIANT NoCameraComesBack
PROPERTY LocksComeBack
PROPERTY CallsAnswered
CHECK_DEADLOCK FALSE

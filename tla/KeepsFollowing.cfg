CONSTANTS
  Version = {1, 2, 3}
  First = 1
  MaxMessages = 2
  Passing <- Texts
  MaxStarts = 2
  MaxExecs = 2
  MaxFaults = 2
SPECIFICATION Spec
PROPERTY KeepsFollowing
CHECK_DEADLOCK FALSE

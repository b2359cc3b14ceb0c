CONSTANTS
  Protocols = {"kitty"}
  Keys <- MCKeys
  MaxHeld = 1
  MaxStrokes = 1
  MaxQueue = 1
SPECIFICATION Spec
INVARIANT LocksReported
CHECK_DEADLOCK FALSE

CONSTANTS
  Protocols = {"legacy", "kitty", "win32", "far2l"}
  Keys <- MCKeys
  MaxHeld = 2
  MaxStrokes = 3
  MaxQueue = 2
SPECIFICATION Spec
INVARIANT TypeOK StuckNeedsLostRelease ShownWhileHeld LocksPredicted ProtocolsAgree
PROPERTY Fades
CHECK_DEADLOCK FALSE

SPECIFICATION Spec
CONSTANTS
  None = None
  MaxFrames = 3
INVARIANTS
  ReadsOwnWrites
PROPERTIES
  TogglesTurn
  WaitsEnd
CHECK_DEADLOCK FALSE

SPECIFICATION Spec
CONSTANTS
  None = None
  MaxReports = 3
  Inc <- MCInc
  Stamped <- MCStamped
  Epoch = 4
  MaxSeq = 4
  Orderly = FALSE
INVARIANTS
  AddsOnce

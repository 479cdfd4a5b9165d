SPECIFICATION Spec
CONSTANTS
  None = None
  Unpublished = Unpublished
  Mode = "inferred"
  InvertReport = FALSE
  Settle = 2
  Command = "control"
  Target = None
  Position = "percent_state"
  Places <- MCPlaces
  Other = "battery"
INVARIANTS
  SettlesInTime

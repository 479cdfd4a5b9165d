SPECIFICATION Spec
CONSTANTS
  None = None
  Devices <- MCDevices
  Quirks <- MCQuirks
  DpMaps <- MCDpMaps
  Blocks <- MCBlocks
  Remaps <- MCRemaps
  Removals <- MCRemovals
  CoverSettings <- MCCoverSettings
INVARIANTS
  PatchesHold
  RemovedIsGone
  WritesReadBack
  InversionComposes
  TargetSelected
CHECK_DEADLOCK FALSE

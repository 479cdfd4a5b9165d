SPECIFICATION Spec
CONSTANTS
  None = None
  Devices <- MCDevices
  Quirks <- MCQuirks
  DpMaps <- MCDpMaps
  Blocks <- MCBlocks
  Remaps <- MCRemaps
  Removals <- MCRemovals
  CoverSettings <- MCCoverSettings
INVARIANT
  RenamedKeepsType
CHECK_DEADLOCK FALSE

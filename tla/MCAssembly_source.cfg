SPECIFICATION Spec
CONSTANTS
  none = none
  None = none
  Plans <- MCPlans
  Dps <- MCDps
  Writable <- MCWritable
  Deltas <- MCDeltas
  Numbers <- MCNumbers
  Blocks <- MCBlocks
CHECK_DEADLOCK FALSE
INVARIANTS
  SourceKeepsNames

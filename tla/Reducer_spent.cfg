CONSTANTS
  Blocks <- ManyBlocks
  Overread = {0}
SPECIFICATION Spec
CHECK_DEADLOCK FALSE
INVARIANT SpentOutputsNamed

CONSTANTS
  Blocks <- ManyBlocks
  Overread = {0, 33}
SPECIFICATION Spec
CHECK_DEADLOCK FALSE
INVARIANTS TypeOK SplitExact MerkleRootExact InputsExact OutputsExact ReadToTheEnd

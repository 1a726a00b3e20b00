CONSTANTS
  recursion_levels = 2
  x = 2
  Z = 1
  STASH_SIZE = 2
  real_max_blocks_level <- ThreeBlocks
  D_level <- Depth
  N_level <- LeafCount
  gN = 4
  v1 = v1
  v2 = v2
  none = none
  Values <- TwoValues
  InitValue <- Constant
  ClientIds <- OneBlock
  Unset = none
  isLSinit = TRUE
  InitDiscard <- Zeroed
  MaxRequests = 5
SPECIFICATION Spec
CHECK_DEADLOCK FALSE
INVARIANT ReadsConsistent

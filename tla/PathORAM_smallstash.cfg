CONSTANTS
  recursion_levels = 2
  x = 2
  Z = 1
  STASH_SIZE = 1
  real_max_blocks_level <- ThreeBlocks
  D_level <- DeepDepth
  N_level <- DeepLeaves
  gN = 4
  v1 = v1
  v2 = v2
  none = none
  Values <- TwoValues
  InitValue <- Alternating
  ClientIds <- Sharing
  Unset = none
  isLSinit = TRUE
  InitDiscard <- Zeroed
SPECIFICATION Spec
INVARIANTS OneCopy LabelsMatch RequestedBlockInStash FlagsCleared StashOccupancyRestored
PROPERTY NeverAnswersWrong

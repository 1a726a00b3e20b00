CONSTANTS
  recursion_levels = 2
  x = 2
  Z = 2
  STASH_SIZE = 3
  real_max_blocks_level <- ThreeBlocks
  D_level <- ShallowDepth
  N_level <- ShallowLeaves
  gN = 4
  v1 = v1
  v2 = v2
  none = none
  Values <- TwoValues
  InitValue <- Alternating
  ClientIds <- NotSharing
  Unset = none
  isLSinit = TRUE
  InitDiscard <- Zeroed
SPECIFICATION Spec
INVARIANTS TypeOK OnPath NothingDropped
PROPERTIES ReadOnly ImplementsBlockStore

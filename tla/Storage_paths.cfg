CONSTANTS
  Configs <- SomeConfigs
  LABEL_SIZE = 1
  ADDITIONAL_METADATA_SIZE = 1
  W = 7
  MaxAccesses = 2
  junk = junk
SPECIFICATION Spec
CHECK_DEADLOCK FALSE
INVARIANTS TypeOK NoOverrun MemoryFaithful HashTreeConsistent VerifyAgrees

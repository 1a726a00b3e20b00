CONSTANTS
  max_blocks = 2
  UTXOsPerORAMblock = 3
  a1 = a1
  a2 = a2
  a3 = a3
  b1 = b1
  c1 = c1
  coin = coin
  c2 = c2
  zeros = zeros
  junk0 = junk0
  junk1 = junk1
  noblock = noblock
  Outputs <- ZerosBlockOutputs
  Coinbase <- NoCoinbase
  Zeros = zeros
  Junk <- SomeJunk
  pkh <- KeyOf
  getIdFromPkh <- BlockOfKey
  InitialContents <- Fresh
  NoBlock = noblock
  MaxItems = 1
SPECIFICATION Spec
PROPERTIES ZerosUsed

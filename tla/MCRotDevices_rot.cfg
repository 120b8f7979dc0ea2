SPECIFICATION Spec
CONSTANTS
  RfPages = 2
  RfRows = 2
  SeedPages = {0}
  RfAddrs = {0, 1, 3, 4, 6}
  RfContents <- MCContents
  Settle_Steps = 2
  BlockWords = 2
  ImageBlocks = 2
  KeyWords = 2
  MaxIrqs = 3
INVARIANTS RfReadBack BootedImageVerified IdentityIsBound

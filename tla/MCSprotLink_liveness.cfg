SPECIFICATION FairSpec
CONSTANTS
  FifoBytes = 2
  StallBudget = 2
  MaxXfers = 2
  MaxClocks = 2
  PintLines = {}
  SpIdles = TRUE
PROPERTIES SpUnblocks SsdServed

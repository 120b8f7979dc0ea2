SPECIFICATION Spec
CONSTANTS
  FifoBytes = 2
  StallBudget = 1
  MaxXfers = 2
  MaxClocks = 2
  PintLines = {}
  SpIdles = TRUE
INVARIANTS ParkedSpIsWoken

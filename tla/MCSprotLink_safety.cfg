SPECIFICATION Spec
CONSTANTS
  FifoBytes = 2
  StallBudget = 2
  MaxXfers = 3
  MaxClocks = 4
  PintLines = {"sp_reset", "jtag"}
  SpIdles = FALSE
INVARIANTS FifoBound NoLostWakeup
PROPERTIES InOrderDelivery ReplyNoUnderrun

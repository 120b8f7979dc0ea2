SPECIFICATION Spec
CONSTANTS
  W = 4
  Accs = {0, 1, 7, 15}
  NTasks = 2
  FpTasks = {2}
  Vals = {0, 1}
  ItLen = 1
  Irqs = {1, 2}
  Polled = {1}
  Level = {2}
  Prio <- MCPrio
  Rvr = 5
  Masks = {0, 2}
  Debugged = TRUE
INVARIANTS
  ConditionsMeanComparison ArithmeticIsExact ShiftsAndFieldsMoveBits ItBlockFollowsMask AddressesAgree
  MainStackLevel EventKept SwitchLatency
PROPERTIES TasksUndisturbed

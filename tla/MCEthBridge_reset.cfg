SPECIFICATION EthResetSpec
CHECK_DEADLOCK FALSE
CONSTANTS
  Flows = {1}
  View <- MCView
  Vids = {1}
  RingLen = 2
  BacklogCap = 2
  Quota <- MCQuota
  MaxPings = 1
  MaxSpResets = 1
INVARIANTS RingInStep

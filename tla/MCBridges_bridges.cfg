SPECIFICATION Spec
CHECK_DEADLOCK FALSE
CONSTANTS
  Flows = {1, 2}
  View <- MCView
  Vids = {1, 2}
  RingLen = 2
  BacklogCap = 2
  Quota <- MCQuota
  MaxPings = 2
  MaxSpResets = 0
  SpClients = {"a", "b"}
  Requests = {2, 3}
  ReqLen = 2
  FifoCap = 1
  LowMark = 0
  MaxQuiet = 2
  MaxIter = 7
  MaxCalls = 2
  MaxBreaks = 1
INVARIANTS AnswerReachesAsker RequestsInOrder EvictionIsFair RingInStep OwnReplyOrNone
PROPERTIES RequestAnswered ExchangeReturns

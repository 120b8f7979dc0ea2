SPECIFICATION FairSpec
CONSTANTS
  Reload = 2
  Divisor = 2
  CreditCap = 1
  Burst = 1
  Debugs = TRUE
INVARIANTS SpNeverAhead RotNeverAhead
PROPERTIES FrozenClockMoves

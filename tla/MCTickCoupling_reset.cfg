SPECIFICATION Spec
CONSTANTS
  Reload = 2
  Divisor = 2
  CreditCap = 2
  Burst = 2
  Debugs = FALSE
PROPERTIES WfiDrainsCredit

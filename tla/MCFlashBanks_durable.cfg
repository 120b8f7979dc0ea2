SPECIFICATION Spec
CONSTANTS
  Words = {0}
  Vector = 0
  Bits = {0}
  PlausibleSp = {{}}
  Overrides = TRUE
  Faults = TRUE
PROPERTY ImplementsDurableFlash

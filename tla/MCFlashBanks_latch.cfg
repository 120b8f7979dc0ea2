SPECIFICATION Spec
CONSTANTS
  Words = {0, 1}
  Vector = 0
  Bits = {0}
  PlausibleSp = {{}}
  Overrides = FALSE
  Faults = FALSE
INVARIANT LatchedAtEveryReset

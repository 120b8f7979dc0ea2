SPECIFICATION Spec
CONSTANTS
  HaltIters = 2
  MaxReqs = 2
  MaxResets = 1
  MaxProbes = 0
PROPERTIES ArmedBeforePinReset

SPECIFICATION Spec
CONSTANTS
  Buses = {1, 2}
  Block = 2
  Overridden = {"eep1", "tmp"}
  ImageLen = 3
  ReadLen = 2
  MaxTimeouts = 1
INVARIANTS I2cReadsDevice

SPECIFICATION Spec
CONSTANTS
  Controllers = {"spi4", "spi2", "vsc", "spi5"}
  Lead = 2
  MaxQueue = 2
  NorSize = 4
  NorSector = 2
  NorLen = 2
  Faults = {}
  Buses = {1, 2}
  Block = 2
  Overridden = {"eep1", "tmp"}
  ImageLen = 3
  ReadLen = 2
  MaxTimeouts = 1
INVARIANTS SpiFraming NorAckedPersist I2cReadsDevice
PROPERTIES NorWholeWrites

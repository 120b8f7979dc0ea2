SPECIFICATION FairSpec
CONSTANTS
  HaltIters = 2
  MaxReqs = 2
  MaxResets = 2
  MaxProbes = 1
INVARIANTS BkptReportIsCurrent FrozenAtVector NoPhantomReset RdbuffReturnsLastRead
PROPERTIES FreezeEnds ReadAnswered

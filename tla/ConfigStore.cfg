\* Setters called by the LampApp task, as in the firmware: every interleaving
\* with power losses.
CONSTANTS
  Configs = {c0, c1, c2}
  FactoryConfig = c0
  Corrupt = Corrupt
  NoConfig = NoConfig
  SettersPreempt = FALSE
SPECIFICATION FairSpec
INVARIANTS TypeOK OneValidCopy PhaseInv
PROPERTIES SaveIsAtomic ChangesReachFlash

\* Two blocks and items of two sizes: full blocks, no collection left to make.
CONSTANTS
  NumBlocks = 2
  Slots = 3
  Keys = {k1, k2}
  Values = {v1, v2}
  Big = {v2}
  CounterSize = 4
  NoValue = NoValue
  LossBeforeDone = FALSE
  LossStaleDone = FALSE
SPECIFICATION FairSpec
INVARIANTS GetReturnsStore TableMatchesFlash
PROPERTIES CallsAreAtomic FailsOnlyWithoutSpare CallsReturn
CHECK_DEADLOCK FALSE

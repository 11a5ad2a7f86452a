\* Every power loss outside the two windows of the findings.
CONSTANTS
  NumBlocks = 3
  Slots = 2
  Keys = {k1, k2}
  Values = {v1, v2}
  Big = {}
  CounterSize = 4
  NoValue = NoValue
  LossBeforeDone = FALSE
  LossStaleDone = FALSE
SPECIFICATION Spec
SYMMETRY Symmetry
INVARIANTS TypeOK GetReturnsStore TableMatchesFlash GcRepaired InitSucceeds
PROPERTIES CallsAreAtomic FailsOnlyWithoutSpare
CHECK_DEADLOCK FALSE

\* Power lost while the destination still bears the gc_done tag of an earlier collection.
CONSTANTS
  NumBlocks = 3
  Slots = 2
  Keys = {k1, k2}
  Values = {v1, v2}
  Big = {}
  CounterSize = 4
  NoValue = NoValue
  LossBeforeDone = FALSE
  LossStaleDone = TRUE
SPECIFICATION Spec
INVARIANT InitSucceeds
CHECK_DEADLOCK FALSE

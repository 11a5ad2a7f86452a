\* Power lost between the erase of a collected block and the gc_done tag.
CONSTANTS
  NumBlocks = 3
  Slots = 2
  Keys = {k1, k2}
  Values = {v1, v2}
  Big = {}
  CounterSize = 4
  NoValue = NoValue
  LossBeforeDone = TRUE
  LossStaleDone = FALSE
SPECIFICATION Spec
INVARIANT GcRepaired
CHECK_DEADLOCK FALSE

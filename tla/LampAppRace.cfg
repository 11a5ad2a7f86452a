\* Key and lamp task interleave inside a call.  Violated: a fade is lost.
CONSTANTS
  MaxBri = 2
  Classes = {0, 1, 2}
  ResetHold = 1
  Blinks = 2
  FlashPeriod = 2
  FadeSteps = 2
  ReportDelay = 1
  Between = Between
  Inputs = {"switch"}
  Preempt = TRUE
SPECIFICATION Spec
INVARIANT OutputSettles

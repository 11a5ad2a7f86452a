\* The factory reset, with the tasks interleaved inside their calls as in the
\* firmware.
CONSTANTS
  MaxBri = 2
  Classes = {0, 1, 2}
  ResetHold = 1
  Blinks = 2
  FlashPeriod = 2
  FadeSteps = 2
  ReportDelay = 1
  Between = Between
  Inputs = {"hold", "delete"}
  Preempt = TRUE
SPECIFICATION FairSpec
INVARIANT BlinksToTheEnd
PROPERTY ResetReboots

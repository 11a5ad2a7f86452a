\* The users of a lamp that is connected, lost and connected again, each
\* callback and each round of the lamp task run to its end.
CONSTANTS
  MaxBri = 2
  Classes = {0, 1, 2}
  ResetHold = 1
  Blinks = 2
  FlashPeriod = 2
  FadeSteps = 2
  ReportDelay = 2
  Between = Between
  Inputs = {"switch", "onoff", "bri", "mode", "link"}
  Preempt = FALSE
SPECIFICATION FairSpec
INVARIANTS TypeOK OutputSettles CopiesAgree
PROPERTY ChangesReported

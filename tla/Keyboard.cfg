\* The parameters of usr_app.c (filter 3, long press 1000 ms, repeated every
\* 200 ms, double press 100 ms) in periods of 10 ms; a round comes in time, one
\* period late, or later than the double-press window.
CONSTANTS
  FilterCount = 3
  LongKeep = 100
  LongLoop = 20
  DoubleTime = 10
  Intervals = {1, 2, 11}
  LongMax = 27
SPECIFICATION FairSpec
INVARIANT TypeOK
PROPERTIES Debounced CallsInOrder PressAnswered

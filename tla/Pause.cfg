\* Two signals, at a constant and at a variable frame rate, with a device and
\* without one; time for a gap that is filled, with half frames to round.
CONSTANTS
  Setups <- MCSetups
  VideoTicks = 3
  AudioTicks = 2
  SleepTicks = 2
  MaxTime = 11
  MaxSignals = 2
SPECIFICATION FairSpec
INVARIANT TypeOK
PROPERTIES VideoTimeNeverGoesBack VideoFillsRecordedTime GapsAreFilledOnce RequestsToggleOnce
CHECK_DEADLOCK FALSE

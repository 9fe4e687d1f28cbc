\* The audio thread reads the offset before, and paused after, the pause ends.
CONSTANTS
  Setups <- MCNoDevice
  VideoTicks = 1
  AudioTicks = 1
  SleepTicks = 1
  MaxTime = 6
  MaxSignals = 2
SPECIFICATION Spec
PROPERTY SilenceIsRecordedTime
CHECK_DEADLOCK FALSE

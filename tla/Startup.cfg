\* One performance level beside the offset of all of them.
SPECIFICATION FairSpec
CONSTANTS
  Options <- MCOptions
  Levels = {"perf0"}
INVARIANTS
  TypeOK
  RecordingFits
  EncoderIsFound
  EndRestoresGpu
PROPERTIES
  ScriptRunsAside
CHECK_DEADLOCK FALSE

SPECIFICATION FairSpec
CONSTANTS
  ExecModes = {"pkexec"}
  Versions = {TRUE}
  ServerMayDie = TRUE
  ClientMayExit = FALSE
  Interrupts = {"kill"}
  MaxFrames = 2
PROPERTIES
  ServerDeathIsNoticed
CHECK_DEADLOCK FALSE

\* Both ways to start the server, agreeing and different versions, either
\* process ending at any time, SIGINT from a terminal or not.
SPECIFICATION FairSpec
CONSTANTS
  ExecModes = {"direct", "pkexec"}
  Versions = {TRUE, FALSE}
  ServerMayDie = TRUE
  ClientMayExit = TRUE
  Interrupts = {"kill", "terminal"}
  MaxFrames = 3
INVARIANTS
  TypeOK
  RequestsAlternate
  HandOverIsOrdered
  DeinitLeavesNothing
PROPERTIES
  WaitsEnd
  ProgramsEnd
CHECK_DEADLOCK FALSE

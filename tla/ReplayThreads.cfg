\* An audio thread pushes while main encodes, saves, serves a second request and
\* stops; the disk may fail.
CONSTANTS
  Video = video
  Direct = {mic}
  Mixed = {}
  ReplaySecs = 1
  DiskCanFail = TRUE
  MaxTime = 1
  MaxPackets = 3
  MaxSignals = 2
SPECIFICATION FairSpec
INVARIANTS QueueIsRecentWindow SavedFileIsWindow ExitIsQuiet
PROPERTIES BufferStopsGrowing SavesAreWhole ImplementsWindow SavesAreServed
           StopEndsTheProgram

\* frames_erased is read before the lock and an audio thread drops a packet.
CONSTANTS
  Video = video
  Direct = {mic}
  Mixed = {}
  ReplaySecs = 1
  DiskCanFail = FALSE
  MaxTime = 1
  MaxPackets = 4
  MaxSignals = 1
SPECIFICATION Spec
INVARIANT FileStartsAtKeyframe

\* A mixed audio track: main produces every packet, the save thread reads.
CONSTANTS
  Video = video
  Direct = {}
  Mixed = {mic}
  ReplaySecs = 1
  DiskCanFail = FALSE
  MaxTime = 2
  MaxPackets = 5
  MaxSignals = 1
SPECIFICATION Spec
INVARIANTS TypeOK FileStartsAtKeyframe FilePtsAreValid

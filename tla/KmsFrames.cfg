\* Two monitors, responses of at most two of four planes, a table of three
\* descriptors the other threads may fill, one modeset, unreadable planes.
SPECIFICATION FairSpec
CONSTANTS
  Connectors = {"DP-1", "DP-2"}
  Crtcs = {"crtc1", "crtc2"}
  None = "none"
  Target = "DP-1"
  Planes <- MCPlanes
  MaxPlanes = 2
  Limit = 3
  FirstServerFd = 2
  PlanesMayFail = TRUE
  MaxModesets = 1
  MaxFrames = 2
INVARIANTS
  TypeOK
  NothingLeaks
  PictureIsTheTargets
PROPERTIES
  OthersKeepTheirs
  FrameEnds

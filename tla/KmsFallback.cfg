\* As KmsFrames, every plane is readable and all fit into the response.
SPECIFICATION Spec
CONSTANTS
  Connectors = {"DP-1", "DP-2"}
  Crtcs = {"crtc1", "crtc2"}
  None = "none"
  Target = "DP-1"
  Planes <- MCPlanes
  MaxPlanes = 4
  Limit = 5
  FirstServerFd = 2
  PlanesMayFail = FALSE
  MaxModesets = 1
  MaxFrames = 1
INVARIANT FallbackMeansDisconnected

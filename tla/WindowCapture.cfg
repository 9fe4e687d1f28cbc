\* Two windows of two sizes, equal at the beginning; any three changes.
CONSTANTS
  Windows = {"w1", "w2"}
  None = "none"
  Target = "w1"
  Sizes = {1, 2}
  FirstSizes = {1}
  Names = {1, 2, 3}
  Variants = {"vaapi", "cuda"}
  FollowModes = {TRUE, FALSE}
  MaxChanges = 3
SPECIFICATION FairSpec
INVARIANTS TypeOK EncoderKeepsItsTextures EndsForAReason
PROPERTIES CatchesUp DeathStops
CHECK_DEADLOCK FALSE

CONSTANTS
  Posts = {p1}
  Images = {i1, i2}
  Remotes = {r1}
  Modes = {"schedule", "now"}
  MaxRuns = 2
  MixUps = TRUE
  TornDelete = FALSE
  NoPost = NoPost
  NoRemote = NoRemote
  NoImage = NoImage
SPECIFICATION FairSpec
PROPERTY RunEnds
CHECK_DEADLOCK FALSE

CONSTANTS
  Posts = {p1}
  Images = {i1}
  Remotes = {r1}
  Modes = {"schedule"}
  MaxRuns = 1
  MixUps = FALSE
  TornDelete = FALSE
  NoPost = NoPost
  NoRemote = NoRemote
  NoImage = NoImage
SPECIFICATION Spec
INVARIANT PushingIsOwned
CHECK_DEADLOCK FALSE

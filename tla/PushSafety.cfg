CONSTANTS
  Posts = {p1}
  Images = {i1}
  Remotes = {r1, r2}
  Modes = {"schedule"}
  MaxRuns = 3
  MixUps = FALSE
  TornDelete = TRUE
  NoPost = NoPost
  NoRemote = NoRemote
  NoImage = NoImage
SYMMETRY Symmetric
VIEW Carried
SPECIFICATION Spec
INVARIANTS TypeOK IInv AtMostOneRemotePost Traceable MarkerNeverPublic
PROPERTY LiveBindingKept
CHECK_DEADLOCK FALSE

CONSTANTS
  WatchPosts = {p1, p2}
  Orphans = {o1}
  WatchBatch = 1
  Delays <- MCDelays
  RefreshEvery = 2
  MaxResets = 1
SPECIFICATION WatchSpec
PROPERTIES RatingsGoRound
CHECK_DEADLOCK FALSE

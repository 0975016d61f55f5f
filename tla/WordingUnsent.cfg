CONSTANTS
  Texts = {t1, t2}
  TagNames = {n1}
  Marker = Marker
  NoSite = NoSite
  Clerks = {c1}
  MaxWords = 1
  MaxPosts = 2
  MaxForeign = 0
SPECIFICATION WordingSpec
INVARIANT UnsentIsShown
CHECK_DEADLOCK FALSE

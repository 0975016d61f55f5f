CONSTANTS
  Threads = {c1}
  Grants = {g1, g2}
  MaxTurns = 1
  Overload = FALSE
  NoThread = NoThread
  NoGrant = NoGrant
SPECIFICATION Spec
SYMMETRY AlikeGrants
PROPERTY ConnectionIsTheUsers

CONSTANTS
  Threads = {c1, c2}
  Grants = {g1, g2}
  MaxTurns = 2
  Overload = TRUE
  NoThread = NoThread
  NoGrant = NoGrant
SPECIFICATION FairSpec
INVARIANTS TypeOK IInv SpendsCurrent StoredIsCurrent
PROPERTY LockReleased

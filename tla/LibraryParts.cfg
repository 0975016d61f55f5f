CONSTANTS
  LibraryParts = {"jobs", "library", "groups", "matching", "history", "tiles"}
\* Jobs
  JobKinds = {"scan", "archive", "restore"}
  WildKinds = {"restore"}
  ReservedKinds = {"restore"}
  FileKinds = {"archive"}
  WatchedKinds = {"scan"}
  MaxRetained = 1
  MaxJobs = 3
\* Library
  Pics = {a, b}
  Due = {a}
  Src = {src1}
  Bin = {bin1}
  Vault = {vault1}
  Nothing = Nothing
  MaxId = 2
  MaxScans = 2
  MaxBatches = 2
\* Groups
  Looks <- MCLooks
  HashBands <- MCHashBands
  Thresholds = {1, 2}
  MaxRows = 4
  MaxReported = 3
  MaxDismissals = 2
\* Matching
  s1 = s1
  s2 = s2
  f1 = f1
  f2 = f2
  g1 = g1
  g2 = g2
  Slots = {s1, s2}
  Files = {f1, f2, g1, g2}
  FetchedAs <- MCFetchedAs
  PictureOf <- MCPictureOf
  LookOf <- MCLookOf
  NoFile = NoFile
  MaxRounds = 2
  MaxChanges = 1
\* History
  Bits = {1, 2, 3}
  Bands = {1, 2}
  BandOf <- MCBandOf
  Bytes = {d1, d2}
  PixelHashes = {x1}
  Unknown = Unknown
  MaxUses = 2
\* Tiles
  Images = {a, b}
  Strangers = {x}
  TileSyncs = {sync}
  MaxTiles = 3
  MaxEdits = 2
  MaxSyncs = 1
  NoPic = NoPic
SPECIFICATION MCSpec
INVARIANTS
  LibraryPartsTypeOK
  NoConflictingJobs
  PollMissesNone
  ScanAgrees
  OneTileEach
  NoneLeftOut
  ExactOnly
  PageAgrees
PROPERTIES
  NoFileJobCutOff
  
  KeysKept
CHECK_DEADLOCK FALSE

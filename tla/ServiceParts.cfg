CONSTANTS
  ServiceParts = {"datamove", "backups", "resources", "schedule", "wording", "setup"}
\* DataMove
  Requests = {r1, r2}
  OldPlace = OldPlace
  NewPlace = NewPlace
  NoPlace = NoPlace
  MaxWrites = 3
  MaxCrashes = 1
\* Backups
  SchemaVersion = 2
  KeepAutomatic = 2
  MaxBackups = 4
  MaxWritten = 1
  MaxEnds = 2
\* Resources
  full1 = full1
  full2 = full2
  short = short
  key1 = key1
  key2 = key2
  model1 = model1
  Hashes = {full1, full2}
  FullHashes = {full1, full2}
  PrefixOf <- MCPrefixOf
  Versions = {v1}
  Keys = {key1, key2}
  ImageOf <- MCImageOf
  HashInFile <- MCHashInFile
  NewName <- MCNewName
  ModelFiles = {model1}
  Sha <- MCSha
  Names <- MCNames
  NoHash = NoHash
  Nothing = Nothing
  Unknown = Unknown
  MaxAsked = 1
  MaxEdits = 2
\* Schedule
  Planned = {p1}
  Clocks <- MCClocks
  Offsets = {0, 12}
  Intervals = {1}
  Lead = 10
  Headroom = 1
  MaxAhead = 1200000000
  Transit = 60000000
  NoTime = NoTime
  NoCall = NoCall
\* Wording
  Texts = {t1, t2}
  TagNames = {n1}
  Marker = Marker
  NoSite = NoSite
  Clerks = {c1}
  MaxWords = 2
  MaxPosts = 2
  MaxForeign = 1
\* Setup
  Homes = {h1, h2}
  NoHome = NoHome
  MaxStarts = 3
SPECIFICATION MCSpec
INVARIANTS
  ServicePartsTypeOK
  WholeSomewhere
  VersionTells
  RelativeIsSent
  MarkerStays
  PointedIsPrepared
PROPERTIES
  
  DecisionStands
  
  NeverAtOnce
CHECK_DEADLOCK FALSE

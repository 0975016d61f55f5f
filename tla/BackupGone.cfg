CONSTANTS
  SchemaVersion = 2
  KeepAutomatic = 2
  MaxBackups = 4
  MaxWritten = 1
  MaxEnds = 2
SPECIFICATION BackupsSpec
INVARIANT RestoreFindsItsBackup
CHECK_DEADLOCK FALSE

\* two processes, which die at any step
CONSTANTS
  Conn = {c1, c2}
  Page = {p1, p2}
  NSlot = 1
  MaxTxn = 2
  MaxFault = 1
  Modes = {"PASSIVE", "TRUNCATE"}
  Syncs = {FALSE}
  PowerFailures = FALSE
  StaleCheckpoints = FALSE
  RestartCrash = FALSE
  TruncateCrash = FALSE
  None = None
SYMMETRY Interchangeable
SPECIFICATION Spec
INVARIANTS TypeOK NBackfillInLog SnapshotsProtected CacheIsFresh
PROPERTIES ImplementsSnapshotDb OnlyCopiedLogsRestart

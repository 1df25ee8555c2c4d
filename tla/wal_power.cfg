\* one process at a time, and the power fails
CONSTANTS
  Conn = {c1}
  Page = {p1, p2}
  NSlot = 1
  MaxTxn = 2
  MaxFault = 2
  Modes = {"PASSIVE", "TRUNCATE"}
  Syncs = {TRUE, FALSE}
  PowerFailures = TRUE
  StaleCheckpoints = FALSE
  RestartCrash = FALSE
  TruncateCrash = TRUE
  None = None
SYMMETRY Interchangeable
SPECIFICATION Spec
PROPERTIES ImplementsSnapshotDb OnlyCopiedLogsRestart

\* a checkpoint that is overtaken by a complete one and a restart of the log
CONSTANTS
  Conn = {c1, c2}
  Page = {p1, p2}
  NSlot = 1
  MaxTxn = 2
  MaxFault = 0
  Modes = {"PASSIVE"}
  Syncs = {FALSE}
  PowerFailures = FALSE
  StaleCheckpoints = TRUE
  RestartCrash = FALSE
  TruncateCrash = FALSE
  None = None
SYMMETRY Interchangeable
SPECIFICATION Spec
INVARIANTS NBackfillInLog

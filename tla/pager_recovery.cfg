\* one process that reads again after every failure
CONSTANTS
  Conn = {c1}
  MaxPage = 2
  MaxTxn = 2
  InitialSize = 0
  Settings <- Defaults
  IoErrors = TRUE
  PowerFailures = TRUE
  None = None
  Absent = Absent
  Torn = Torn
SPECIFICATION FairSpec
PROPERTIES HotJournalIsRolledBack

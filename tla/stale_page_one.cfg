\* the first transaction of a new database fails
CONSTANTS
  Conn = {c1, c2}
  MaxPage = 1
  MaxTxn = 2
  InitialSize = 0
  Settings <- Defaults
  IoErrors = TRUE
  PowerFailures = FALSE
  None = None
  Absent = Absent
  Torn = Torn
SPECIFICATION Spec
INVARIANTS CacheIsFresh

\* two processes, the journal settings of AllSettings, errors and power failures
CONSTANTS
  Conn = {c1, c2}
  MaxPage = 2
  MaxTxn = 2
  InitialSize = 1
  Settings <- AllSettings
  IoErrors = TRUE
  PowerFailures = TRUE
  None = None
  Absent = Absent
  Torn = Torn
SYMMETRY ConnSymmetry
SPECIFICATION Spec
INVARIANTS TypeOK OriginalsAreSafe CacheIsFresh
PROPERTIES FileStandsStill ImplementsAtomicDb

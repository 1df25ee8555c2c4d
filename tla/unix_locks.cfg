\* two processes with two threads each
CONSTANTS
  p1 = p1
  p2 = p2
  f1 = f1
  f2 = f2
  f3 = f3
  f4 = f4
  Process = {p1, p2}
  File = {f1, f2, f3, f4}
  ProcessOf <- TwoByTwo
  SerialClose = TRUE
SPECIFICATION FairSpec
INVARIANTS TypeOK Compatible LocksBacked NothingLeftBehind ReservedIsExact
PROPERTIES ImplementsFileLock WriterNotStarved

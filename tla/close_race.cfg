\* a thread takes a lock while another one closes its handle
CONSTANTS
  p1 = p1
  p2 = p2
  f1 = f1
  f2 = f2
  f3 = f3
  f4 = f4
  Process = {p1, p2}
  File = {f1, f2, f3}
  ProcessOf <- TwoThreads
  SerialClose = FALSE
SPECIFICATION Spec
INVARIANTS LocksBacked

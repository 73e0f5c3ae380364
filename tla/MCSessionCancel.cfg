\* One turn, one cancel, no operator and no timer.
CONSTANTS
  Sessions = {s1}
  Creators = {c1}
  Turns = {t1}
  Closers = {}
  Resumers = {}
  Cancellers = {k1}
  MaxEntries = 1
  MaxIterations = 2
  PreservedMessages = 1
  Backends = {"other"}
  Faulty = {}
SPECIFICATION NoTimerSpec
PROPERTIES
  CancelAbortsTheWait
CHECK_DEADLOCK FALSE

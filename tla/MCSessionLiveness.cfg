\* Two turns and a close; the operator may never answer, the 30 minutes pass.
\* The writes do not fail: a turn fails by its model call.
CONSTANTS
  Sessions = {s1}
  Creators = {c1}
  Turns = {t1, t2}
  Closers = {x1}
  Resumers = {}
  Cancellers = {}
  MaxEntries = 1
  MaxIterations = 2
  PreservedMessages = 1
  Backends = {"other"}
  Faulty = {}
SPECIFICATION FairSpec
CHECK_DEADLOCK FALSE
PROPERTIES
  SessionsMakeProgress

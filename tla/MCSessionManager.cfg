\* Two turns, a close and a resume of one session over the backend that drops
\* checkpoints, all writes may fail: an old and a new entry can be alive together.
CONSTANTS
  Sessions = {s1}
  Creators = {c1}
  Turns = {t1, t2}
  Closers = {x1}
  Resumers = {r1}
  Cancellers = {}
  MaxEntries = 2
  MaxIterations = 2
  PreservedMessages = 1
  Backends = {"sqlite"}
  Faulty = {"file", "record", "checkpoint"}
SYMMETRY TurnSymmetry
SPECIFICATION Spec
CHECK_DEADLOCK FALSE
INVARIANTS
  SessionManagerSound

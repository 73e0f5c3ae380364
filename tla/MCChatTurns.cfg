\* One stream, so that a turn can only be answered there; one output channel
\* item less than the outputs of a turn, so that senders wait.
SPECIFICATION FairSpec
CONSTANTS
  Streams = {s1}
  Turns = {t1, t2}
  MaxPairs = 1
  MaxCalls = 1
  MayClose = TRUE
  MaxDeltas = 1
  OutCap = 2
  InstrCap = 1
  EventCap = 1
CHECK_DEADLOCK FALSE
INVARIANTS
  OneEndAfterAllDeltas
PROPERTIES
  EveryMessageAnswered

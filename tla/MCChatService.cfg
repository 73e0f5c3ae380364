SPECIFICATION Spec
CONSTANTS
  Streams = {s1, s2}
  Turns = {t1, t2}
  MaxPairs = 2
  MaxCalls = 2
  MayClose = FALSE
  MaxDeltas = 0
  OutCap = 1
  InstrCap = 1
  EventCap = 1
SYMMETRY Symmetry
CHECK_DEADLOCK FALSE
INVARIANTS
  ChatCardsSound

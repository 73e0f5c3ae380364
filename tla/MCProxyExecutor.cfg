\* Two calls, three submissions: a card can be answered twice and a late answer
\* can meet the next call.
CONSTANTS
  Deliveries = {d1, d2, d3}
  Payloads = {p1, p2}
  NoPayload = NoPayload
  MaxSeq = 2
  InstrCap = 1
  TimeoutCap = 1
SYMMETRY ProxySymmetry
SPECIFICATION Spec
CHECK_DEADLOCK FALSE
INVARIANTS
  ProxyCallSound
PROPERTIES
  KeepsTheContract

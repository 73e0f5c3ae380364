\* One submission is enough: progress must not depend on it.
CONSTANTS
  Deliveries = {d1}
  Payloads = {p1}
  NoPayload = NoPayload
  MaxSeq = 2
  InstrCap = 1
  TimeoutCap = 1
SPECIFICATION FairSpec
CHECK_DEADLOCK FALSE
PROPERTIES
  ProxyCallsEnd

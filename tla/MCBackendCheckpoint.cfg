SPECIFICATION Spec
CONSTANTS
  Sids = {a}
  Users = {u}
  NoUser = NoUser
  Steps = {0, 1}
  MaxOps = 4
CHECK_DEADLOCK FALSE
INVARIANTS
  CheckpointsAreKept

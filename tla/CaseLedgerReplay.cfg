SPECIFICATION Spec
CONSTANTS
  Case = {c1}
  Worker = {w1}
  Assigned = {c1}
  MaxTs = 7
  MaxShared = 7
  Absent = Absent
  None = None
INVARIANTS ReplayRebuildsLifecycle
CHECK_DEADLOCK FALSE

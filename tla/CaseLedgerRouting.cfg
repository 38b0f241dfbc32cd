SPECIFICATION Spec
CONSTANTS
  Case = {c1}
  Worker = {w1, w2}
  Assigned = {c1}
  MaxTs = 4
  MaxShared = 4
  Absent = Absent
  None = None
INVARIANTS RoutedOnce
CHECK_DEADLOCK FALSE

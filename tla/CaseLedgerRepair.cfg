SPECIFICATION ReconcilingSpec
CONSTANTS
  Case = {c1}
  Worker = {w1}
  Assigned = {c1}
  MaxTs = 4
  MaxShared = 4
  Absent = Absent
  None = None
PROPERTIES DriftIsRepaired
CHECK_DEADLOCK FALSE

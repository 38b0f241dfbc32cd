SPECIFICATION FairSpec
CONSTANTS
  Case = {c1}
  Worker = {w1, w2}
  Assigned = {c1}
  MaxTs = 7
  MaxShared = 5
  Absent = Absent
  None = None
INVARIANTS TypeOK LedgerIsThePath ExecutingHasExecution CreationIsFirst
  ReplayRebuildsKnownStates ReplayIsByLastEffect
PROPERTIES LifecycleLaw ImplementsJournal EveryCallEnds
CHECK_DEADLOCK FALSE

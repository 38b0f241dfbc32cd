SPECIFICATION FairSpec
CONSTANTS
  Milestone = {m1, m2}
  Worker = {w1, w2}
  None = None
INVARIANT AllDoneCompletes

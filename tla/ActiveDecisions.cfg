SPECIFICATION AuthoritySpec
CONSTANTS
  Approver = {o1, o2}
  Approval = {l1, l2}
  MaxDecisions = 2
INVARIANT OneActiveDecision

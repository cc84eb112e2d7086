SPECIFICATION Spec
CHECK_DEADLOCK FALSE
CONSTANTS
  c1 = c1
  c2 = c2
  Action = {1, 2, 3}
  Approval = {"p"}
  NoApproval = "none"
  ApprovalOf <- TwoNeedApproval
  Caller = {c1, c2}
  NetworkLimit = 2
  Batch = 2
SYMMETRY Callers
INVARIANTS
  AtMostOneDraft
  EffectIsTracked
  AcknowledgedIsDone
  DecisionIsFollowed

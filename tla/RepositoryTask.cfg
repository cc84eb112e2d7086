SPECIFICATION FairSpec
CONSTANTS
  t1 = t1
  t2 = t2
  Task = {t1, t2}
  Requests <- MCFew
  FirstTree <- MCSmallTree
  Trusted <- MCTrusted
  Capabilities = {"read", "propose", "verify"}
  HeaderBytes = 0
  Scratch <- MCScratch
  MaxRevisions = 2
  MaxEdits = 0
  MaxCrashes = 1
CHECK_DEADLOCK FALSE
INVARIANTS
  PatchIsReviewed
  EvidenceIsComplete
PROPERTIES
  EveryTaskIsAnswered

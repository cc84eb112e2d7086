SPECIFICATION Spec
CONSTANTS
  t1 = t1
  t2 = t2
  Task = {t1}
  Requests <- MCMany
  FirstTree <- MCTree
  Trusted <- MCTrusted
  Capabilities = {"read", "propose", "verify"}
  HeaderBytes = 1
  Scratch <- MCScratch
  MaxRevisions = 1
  MaxEdits = 1
  MaxCrashes = 0
CHECK_DEADLOCK FALSE
INVARIANTS
  RefusedForAReason
  RecipeIsStable

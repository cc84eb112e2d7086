SPECIFICATION AdmissionSpec
CHECK_DEADLOCK FALSE
CONSTANTS
  r1 = r1
  r2 = r2
  r3 = r3
  r4 = r4
  b1 = b1
  b2 = b2
  b3 = b3
  b4 = b4
  b5 = b5
  Region <- Regions
  RootRegion = "root"
  Resource <- Both
  Request = {r1, r2, r3, r4}
  ScopeOf <- MixedScopes
  Documents <- MixedDocuments
  Budget = {b1, b2, b3, b4, b5}
  NoBudget = none
  MaxApplies = 3
SYMMETRY RowIds
INVARIANTS
  UnitsConserved
  BudgetTree

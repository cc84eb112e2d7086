SPECIFICATION Spec
CONSTANTS
  c1 = c1
  c2 = c2
  r1 = r1
  r2 = r2
  n1 = n1
  n2 = n2
  A = A
  B = B
  C = C
  D = D
  q = q
  Root = Root
  Nil = Nil
  Call = {c1, c2}
  Requests <- MCRequests
  Databases <- MCDatabases
  Seeds <- MCSeeds
  Invalid = {D}
  MaxLost = 1
CHECK_DEADLOCK FALSE
INVARIANTS
  PublishedWhole
  AnsweredForItself
PROPERTIES
  PublishedStays
  EveryCallIsAnswered

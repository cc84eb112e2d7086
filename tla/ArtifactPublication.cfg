SPECIFICATION Spec
CHECK_DEADLOCK FALSE
CONSTANTS
  a1 = a1
  q2 = q2
  d1 = d1
  q1 = q1
  u1 = u1
  Attempt = {a1}
  Digest = {d1}
  Submitter = {q1}
  Uploader = {u1}
  Results <- OnePlace
  Refused <- SomeRefused
  Store = {"filesystem", "s3"}
  Lease = 2
  Grace = 1
  Limit = 1
  MaxRef = 1
  MaxTime = 2
  MaxCrash = 2
  MaxFault = 1
INVARIANTS
  CommittedBytesKept
  RegisteredBytesKept
PROPERTIES
  StartRepairs

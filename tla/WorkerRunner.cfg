SPECIFICATION Spec
CONSTANTS
  a1 = a1
  Attempt = {a1}
  Sdks = {"ts", "py"}
  Concurrency = 1
  Lease = 4
  Interval = 1
  Timeout = 1
  Retries = 1
  Grace = 1
  Fenced = FALSE
  Slack = 1
  MaxFault = 2
CHECK_DEADLOCK FALSE
INVARIANTS
  OneResultPerAttempt
  OrphansAreFaults
PROPERTIES
  SubmissionFencedTs
  StopEnds

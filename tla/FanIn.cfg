SPECIFICATION Spec
CHECK_DEADLOCK FALSE
CONSTANTS
  Delivery = {1, 2, 3}
  Component <- Components
  Port <- Ports
  Run <- Runs
  Required <- InRequired
  Optional <- HintOptional
  Expected <- JoinExpected
  Ingress <- JoinHintIngress
  Routes <- Nowhere
  Results = {"completed", "cancelled"}
  MaxAttempts = 2
  RetryBackoff <- OneBackoff
  LeaseTicks = 1
  RecheckTicks = 1
  ConcurrencyLimit = 2
  ResultBatch = 10
  MaxCommands = 3
  MaxCrashes = 1
INVARIANTS
  RunningIsResumable
  ProcessedOnce
  PollFailsOnLateInput
PROPERTIES
  ImplementsLedger

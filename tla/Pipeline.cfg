SPECIFICATION FairSpec
CHECK_DEADLOCK FALSE
CONSTANTS
  Delivery = {1, 2}
  Component <- Components
  Port <- Ports
  Run <- Runs
  Required <- InRequired
  Optional <- NoOptional
  Expected <- One
  Ingress <- PipelineIngress
  Routes <- PipelineRoutes
  Results <- SettledResults
  MaxAttempts = 2
  RetryBackoff <- OneBackoff
  LeaseTicks = 2
  RecheckTicks = 1
  ConcurrencyLimit = 1
  ResultBatch = 10
  MaxCommands = 1
  MaxCrashes = 2
INVARIANTS
  LeaseCoherence
  AttemptChain
PROPERTIES
  HandedOffResultIsDecided
  HandedOffResultSettles
  ReadyWorkIsTaken

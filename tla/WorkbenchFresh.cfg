SPECIFICATION Spec
CONSTANTS
  Sessions <- MCSessions
  ExternalSessions <- MCExternal
  MaxTasks = 2
  MaxRuns = 3
  NewContracts <- MCBothContracts
  Calls <- MCCalls
  DenialLimit = 1
  GraceDenials = 1
  StaleClicks = FALSE
INVARIANTS
  TypeOK
  Inductive
  OneOpenTask
  NoOrphanRun
  NobodyStranded

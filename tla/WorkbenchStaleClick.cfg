SPECIFICATION Spec
CONSTANTS
  Sessions <- MCOneSession
  ExternalSessions <- MCNone
  MaxTasks = 2
  MaxRuns = 3
  NewContracts <- MCChat
  Calls <- MCCalls
  DenialLimit = 1
  GraceDenials = 1
  StaleClicks = TRUE
PROPERTIES
  FailureIsContained

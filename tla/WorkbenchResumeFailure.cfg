SPECIFICATION Spec
CONSTANTS
  Sessions <- MCOneSession
  ExternalSessions <- MCNone
  MaxTasks = 1
  MaxRuns = 3
  NewContracts <- MCChat
  Calls <- MCCalls
  DenialLimit = 1
  GraceDenials = 1
  StaleClicks = FALSE
PROPERTIES
  ResumeFailurePauses

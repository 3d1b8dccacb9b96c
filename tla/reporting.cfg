SPECIFICATION FairReportingSpec
CONSTANTS
  p1 = p1
  p2 = p2
  i1 = i1
  v1 = v1
  c1 = c1
  c2 = c2
  r1 = r1
  a = a
  b = b
  None = None
  Planners <- MCPlanners
  Implementers <- MCImplementers
  Reviewers <- MCReviewers
  Conversations <- MCConversations
  Runs <- MCRuns
  Coordinators <- MCOneRunner
  ToolOf <- MCToolOf
  Faults <- MCFaults
  MaxFaults = 3
  ModelRetryLimit = 1
  PresentationRetryLimit = 2
  MaxAgentRetries = 1
  MaxRevision = 9
  StartingTasks <- MCReviewed
CHECK_DEADLOCK FALSE
INVARIANTS OneLiveTurn AttemptsWithinLimit TurnsCarryTheKey PhaseHasReceipt CompletedIsDone
PROPERTIES ImplementsRelayTask WakeGetsSettled

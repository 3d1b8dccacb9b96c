SPECIFICATION SupSpec
CONSTANTS
  p1 = p1
  i1 = i1
  i2 = i2
  v1 = v1
  c1 = c1
  r1 = r1
  r2 = r2
  r3 = r3
  None = None
  Planners <- MCPlanners
  Implementers <- MCImplementers
  Reviewers <- MCReviewers
  Conversations <- MCConversations
  Runs <- MCRuns
  MaxAgentRetries = 1
  MaxRevision = 8
  StartingTasks <- MCPlanned
  Faults = {"crash"}
  MaxFaults = 1
SYMMETRY RunSymmetry
INVARIANTS OneTurnAtATime
CHECK_DEADLOCK FALSE

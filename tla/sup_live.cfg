SPECIFICATION FairSupSpec
CONSTANTS
  p1 = p1
  i1 = i1
  i2 = i2
  v1 = v1
  c1 = c1
  r1 = r1
  r2 = r2
  r3 = r3
  None = None
  Planners <- MCPlanners
  Implementers <- MCImplementers
  Reviewers <- MCReviewers
  Conversations <- MCConversations
  Runs <- MCTwoRuns
  MaxAgentRetries = 1
  MaxRevision = 8
  StartingTasks <- MCPlanned
  Faults = {"build", "slow", "kill"}
  MaxFaults = 2
INVARIANTS LeaseIsRecoverable
PROPERTIES LeaseIsReleased AgentIsTimedOut
CHECK_DEADLOCK FALSE

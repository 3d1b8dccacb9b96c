SPECIFICATION StoreSpec
CONSTANTS
  p1 = p1
  p2 = p2
  i1 = i1
  v1 = v1
  c1 = c1
  r1 = r1
  w = w
  a = a
  None = None
  Free = Free
  Stale = Stale
  Planners <- MCPlanners
  Implementers <- MCImplementers
  Reviewers <- MCReviewers
  Conversations <- MCConversations
  Runs <- MCOneRun
  Runners <- MCRunners
  Clients <- MCOneClient
  MaxAgentRetries = 1
  MaxRevision = 7
  MaxCrashes = 1
  Layout = "worktree"
  StartingTasks <- MCReviewed
CHECK_DEADLOCK FALSE
INVARIANT NoLostUpdate

SPECIFICATION Spec
CONSTANTS
  p1 = p1
  p2 = p2
  i1 = i1
  i2 = i2
  i3 = i3
  v1 = v1
  c1 = c1
  r1 = r1
  t1 = t1
  t2 = t2
  None = None
  Planners <- MCPlanners
  Implementers <- MCImplementers
  Reviewers <- MCReviewers
  Conversations <- MCConversations
  Runs <- MCRuns
  MaxAgentRetries = 1
  Tasks <- MCTasks
  Start <- MCStart
  Profiled <- MCProfiled
  Retired <- MCRetired
  Wakeable <- MCWakeable
  MaxRevision = 6
  MaxCalls = 2
INVARIANTS RefsResolve RowIsNotAhead StandbyIsUnreferenced
PROPERTIES RecordsAreKept
CHECK_DEADLOCK FALSE

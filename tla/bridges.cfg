SPECIFICATION Spec
CONSTANTS
  None = None
  c1 = c1
  c2 = c2
  k1 = k1
  Conversations <- MCConversations
  Registered <- MCRegistered
  Served <- MCServed
  Keys <- MCKeys
  Faults = {"missing", "refuse", "other", "exit", "note", "lag", "stuck", "crash"}
  MaxFaults = 1
  MaxCalls = 3
PROPERTIES KeepsThePromise TimedCallsReturn
CHECK_DEADLOCK FALSE

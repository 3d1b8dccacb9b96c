SPECIFICATION Spec
CONSTANTS
  Nothing = Nothing
  Numbers <- MCNumbers
  Phrases <- MCPhrases
  Bracketed <- MCBracketed
  Tasks <- MCTasks
  Templates <- MCTemplates
  RelayOperations <- MCRelayOperations
  HelperOperations <- MCHelperOperations
  Rest <- MCRest
  WakeKeys <- MCWakeKeys
  Plain <- MCPlain
  Sections <- MCSections
  Deliveries <- MCDeliveries
  Runs <- MCRuns
INVARIANTS DeliveryIsCurrent
CHECK_DEADLOCK FALSE

SPECIFICATION Spec
CONSTANTS
  None = None
  Names <- MCNames
  Projects <- MCProjects
  ApplyAnswers <- MCAnswers
  FirstAnswers <- MCFirst
  LimitEdits <- MCLimitEdits
  Versions <- MCVersions
  Substitutes <- MCSubstitutes
  Faults = {"unreadable", "crash", "hang", "refused", "cut"}
  MaxChanges = 4
INVARIANTS ToldOnce
PROPERTIES LaunchWasConfigured EveryStartedIsServed
CHECK_DEADLOCK FALSE

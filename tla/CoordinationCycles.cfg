\* The same tasks: the search overlooks a member of two overlapping cycles.
CONSTANTS
  Keys <- MCKeys
  Definitions <- MCDefinitions
  Events <- MCEvents
  Goals <- MCGoals
  MaxTasks = 3
  MaxGoals = 1
  StaleAfter = 15
  RetryLoopAttempts = 3
  MaxAssignments = 2
  MaxAssignmentsPerAgent = 2
  MaxInterventions = 1
  MaxHolds = 1
  Word = 900
SPECIFICATION Spec
INVARIANT CyclesAreNotDispatched

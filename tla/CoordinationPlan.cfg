\* Three tasks with any dependencies among them, beside another agent's two.
CONSTANTS
  Keys <- MCKeys
  Definitions <- MCDefinitions
  Events <- MCEvents
  Goals <- MCGoals
  MaxTasks = 3
  MaxGoals = 1
  StaleAfter = 15
  RetryLoopAttempts = 3
  MaxAssignments = 2
  MaxAssignmentsPerAgent = 2
  MaxInterventions = 1
  MaxHolds = 1
  Word = 900
SPECIFICATION Spec
INVARIANTS CyclesAreHit DepthIsLongestChain DispatchIsSafe EveryTaskAccountedFor SelectionIsFair AnalysisAddsUp

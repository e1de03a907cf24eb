\* Two agents with two tasks each over an agent cache of one and a task cache
\* of two, and two instants: every order in which lifecycle events can reach
\* the reducer, between evictions, replays and rejections.
CONSTANTS
  Agents = {a1, a2}
  TaskIds = {t1, t2}
  GoalIds = {}
  LessonIds = {}
  EventIds = {e1, e2}
  Transports = {tcp}
  Times = {0, 1}
  Statuses = {}
  Levels = {50}
  Attempts = {1}
  Outcomes = {"succeeded", "failed"}
  None = None
  AgentCap = 1
  GoalCap = 1
  TaskCap = 2
  LessonCap = 1
  EventCap = 1
  IdempotencyCap = 1
  MaxDeliveries = 4
SPECIFICATION Spec
SYMMETRY Symmetry
INVARIANTS TypeOK CompletionConsistent TaskClocksOrdered CountersMatchTasks
PROPERTIES TasksNeverGoBack EnrichmentKeepsExecution
CHECK_DEADLOCK FALSE

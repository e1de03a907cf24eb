\* Four events over a timeline of three, a snapshot of three and an
\* idempotency window of two: replays, evictions and a restart
\* between the pages of a walk.
CONSTANTS
  a1 = a1
  l1 = l1
  l2 = l2
  Agents = {a1}
  TaskIds = {}
  GoalIds = {g1}
  LessonIds = {l1, l2}
  EventIds = {1, 2, 3, 4}
  Transports = {tcp}
  Times = {0, 1, 2}
  Statuses = {"running"}
  Levels = {}
  Attempts = {}
  Outcomes = {}
  None = None
  AgentCap = 1
  GoalCap = 1
  TaskCap = 1
  LessonCap = 2
  EventCap = 3
  IdempotencyCap = 2
  MaxDeliveries = 5
  Envelope <- MCEnvelope
  Sessions = {1, 2}
  SnapshotLimit = 3
  Limits = {1, 2}
  TicksPerSecond = 2
  EpochSecond = 1
  HalfWord = 4
  MaxRestarts = 1
  LessonRank <- MCLessonRank
  TimelineLimit = 2
  SessionLimit = 1
  LessonLimit = 1
SPECIFICATION TimelineSpec
INVARIANTS EventsNewestFirst EvictionAccounting PageCountsAddUp SessionsAreExact LessonsKeepNewest
PROPERTIES WalkIsExact
CHECK_DEADLOCK FALSE

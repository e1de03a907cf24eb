SPECIFICATION DeliverySpec
CONSTANTS
  Agents = {"a1"}
  TaskIds = {}
  GoalIds = {}
  LessonIds = {}
  EventIds = {"e1", "e2", "e3", "e4"}
  Transports = {"http", "websocket", "tcp", "udp"}
  Times = {1}
  Statuses = {"running"}
  Levels = {}
  Attempts = {}
  Outcomes = {}
  None = None
  AgentCap = 1
  GoalCap = 1
  TaskCap = 1
  LessonCap = 1
  EventCap = 1
  IdempotencyCap = 1
  MaxDeliveries = 9
  Envelope <- MCEnvelope
  MaxCalls = 2
  Offers <- MCOffers
  Lines <- MCLines
  SidecarTransport = "http"
  WriteCap = 1
  MaxTcpConnections = 1
  MaxFaults = 1
  MaxRestarts = 1
INVARIANTS
  DeliveryTypeOK
  RepliesMatchFrames
  SidecarInOrder
PROPERTIES
  Implements
  ShutdownCompletes
CHECK_DEADLOCK FALSE

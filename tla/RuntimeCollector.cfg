\* The collector against a host whose processes run, start and exit, with
\* two agents, either of which may claim a pid, and collection switched on and off.
CONSTANTS
  a1 = a1
  a2 = a2
  p1 = p1
  p2 = p2
  Agents = {a1, a2}
  HookIds = {h1, h2}
  Times = {0}
  Kinds = {"heartbeat"}
  Tools = {}
  FieldSets = {{"rss"}}
  Pids = {p1}
  RowId <- MCRowId
  None = None
  HookCap = 1
  CommandCap = 1
  MaxHooks = 2
  MaxCommands = 0
  MaxTicks = 3
  MaxSamples = 2
  MaxToggles = 1
SPECIFICATION Spec
SYMMETRY Symmetry
INVARIANTS AtMostOneLateSample CpuShareSane ProcessTakesPrecedence
CHECK_DEADLOCK FALSE

\* Hooks in any order and replayed, commands issued and acknowledged
\* meanwhile, over windows of two; no process is collected.
CONSTANTS
  a1 = a1
  a2 = a2
  p1 = p1
  p2 = p2
  Agents = {a1, a2}
  HookIds = {h1, h2, h3}
  Times = {0, 1}
  Kinds = {"heartbeat", "tool_started", "error_observed", "session_finished"}
  Tools = {grep}
  FieldSets = {{}}
  Pids = {}
  RowId <- MCRowId
  None = None
  HookCap = 2
  CommandCap = 1
  MaxHooks = 4
  MaxCommands = 2
  MaxTicks = 0
  MaxSamples = 0
  MaxToggles = 0
SPECIFICATION Spec
SYMMETRY Symmetry
INVARIANTS TypeOK ControlOnlyCapable LatestHookWins TokensCountedOnce
CHECK_DEADLOCK FALSE

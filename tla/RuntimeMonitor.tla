--------------------------- MODULE RuntimeMonitor ---------------------------
(***************************************************************************)
(* The runtime monitor, src/src/runtime: what agents report about          *)
(* themselves through hooks, what the collector reads about their          *)
(* processes in /proc, the cooperative control commands, and the snapshot  *)
(* that merges them.                                                       *)
(*                                                                         *)
(* One action is one critical section under the monitor's write lock, or   *)
(* one of the steps between which the collector gives up its thread.       *)
(* Summaries, sessions, names and amounts are payload; of a resource or a  *)
(* confidence only whether it is reported matters, and of input and output *)
(* tokens one counter stands for both, one token per hook.                 *)
(***************************************************************************)
EXTENDS Integers, Sequences, FiniteSets, FiniteSetsExt

CONSTANTS
  Agents,              \* agent ids
  HookIds,             \* event ids of hooks
  Times,               \* occurred_at values
  Kinds, Tools,        \* the kinds and tool names agents report
  FieldSets,           \* which optional fields a hook may carry
  Pids,                \* process ids on the host
  RowId,               \* process:{provider}:{pid}, the row of a process without agent
  None,                \* Option::None
  HookCap, CommandCap, \* hook_capacity, command_capacity
  MaxHooks, MaxCommands, MaxTicks, MaxSamples, MaxToggles  \* bounds

HookKinds == {"session_started", "heartbeat", "activity", "tool_started",
              "tool_finished", "model_response", "confidence_reported",
              "error_observed", "session_finished"}
Fields == {"cpu", "rss", "memory", "confidence"}

ASSUME RuntimeAssumption ==
  /\ HookCap \in Nat \ {0} /\ CommandCap \in Nat \ {0}
  /\ Times \subseteq Nat /\ Kinds \subseteq HookKinds
  /\ FieldSets \subseteq SUBSET Fields
  /\ None \notin Tools /\ None \notin Pids
  /\ DOMAIN RowId = Pids /\ \A p, q \in Pids : RowId[p] = RowId[q] => p = q
  /\ \A n \in {MaxHooks, MaxCommands, MaxTicks, MaxSamples, MaxToggles} : n \in Nat

VARIABLES
  hooks,        \* retained hooks and their ids, newest first
  hook_agents,  \* what each agent that ever sent a hook last reported
  commands,     \* control commands, newest first
  processes,    \* the last applied sample
  previous,     \* tick counters of the last applied sample
  last_error,   \* whether the last collection failed
  enabled,      \* collection_enabled
  collector,    \* the collector's position and what it has read so far
  host,         \* the host: total ticks, and the ticks of each live process
  accepted, issued, samples, toggles,  \* how often things happened
  late          \* samples applied since collection was switched off

hookVars    == <<hooks, hook_agents, accepted>>
commandVars == <<commands, issued>>
sampleVars  == <<processes, previous, last_error, collector, samples, late>>
controlVars == <<enabled, toggles>>
vars == <<hookVars, commandVars, sampleVars, controlVars, host>>

Statuses == {"observed", "running", "failed", "idle"}
HookAgent ==
  [pid : Pids \cup {None}, status : Statuses, tool : Tools \cup {None},
   reported : SUBSET Fields, control_capable : BOOLEAN, tokens : Nat,
   last_hook_at : Times]

(* A hook that RuntimeHookEnvelope::validate lets through.                 *)
Hook ==
  {h \in [agent : Agents, at : Times, kind : Kinds, control_capable : BOOLEAN,
          pid : Pids \cup {None}, tool : Tools \cup {None}, fields : FieldSets] :
     h.kind = "confidence_reported" => "confidence" \in h.fields}

Init ==
  /\ hooks = <<>> /\ hook_agents = [a \in {} |-> None] /\ commands = <<>>
  /\ processes = [p \in {} |-> None]
  /\ previous = [total |-> None, ticks |-> [p \in {} |-> 0]]
  /\ last_error = FALSE
  /\ enabled \in BOOLEAN
  /\ collector = [at |-> "idle"]
  /\ host = [total |-> 0, ticks |-> [p \in {} |-> 0]]
  /\ accepted = 0 /\ issued = 0 /\ samples = 0 /\ toggles = 0 /\ late = 0

-----------------------------------------------------------------------------
(* Hooks.                                                                  *)

(* Mutant of Pushed: the window is never trimmed.                          *)
PushedUntrimmed(s, x, cap) == <<x>> \o s

(* push_front, then pop_back down to the capacity.                         *)
Pushed(s, x, cap) == SubSeq(<<x>> \o s, 1, IF Len(s) < cap THEN Len(s) + 1 ELSE cap)

NewHookAgent(h) ==
  [pid |-> h.pid, status |-> "observed", tool |-> None,
   reported |-> h.fields \ {"confidence"}, control_capable |-> h.control_capable,
   tokens |-> 0, last_hook_at |-> h.at]

(* The status a kind of hook sets; heartbeats and confidence reports keep  *)
(* the agent's.                                                            *)
SetsStatus(kind) == kind \notin {"heartbeat", "confidence_reported"}
StatusOf(kind) ==
  CASE kind = "error_observed"   -> "failed"
    [] kind = "session_finished" -> "idle"
    [] OTHER                     -> "running"
ToolAfter(agent, h) ==
  CASE h.kind = "tool_started"                           -> h.tool
    [] h.kind \in {"tool_finished", "session_finished"} -> None
    [] OTHER                                            -> agent.tool

(* What a hook that is not older than the last one changes.                *)
Current(agent, h) ==
  [agent EXCEPT
     !.pid = IF h.pid = None THEN @ ELSE h.pid,
     !.last_hook_at = h.at,
     !.reported = @ \cup h.fields,
     !.status = IF SetsStatus(h.kind) THEN StatusOf(h.kind) ELSE @,
     !.tool = ToolAfter(agent, h)]

(* What every accepted hook changes, however old.                          *)
Credited(agent, h) ==
  [agent EXCEPT !.tokens = @ + 1,
                !.control_capable = @ \/ h.control_capable]

(* Mutants of Observed: a delayed hook replaces newer state; the last hook *)
(* decides whether the agent can be controlled.                            *)
ObservedLate(agent, h) == Current(Credited(agent, h), h)
ObservedCapability(agent, h) ==
  [IF h.at >= agent.last_hook_at THEN Current(Credited(agent, h), h)
   ELSE Credited(agent, h) EXCEPT !.control_capable = h.control_capable]

Observed(agent, h) ==
  IF h.at >= agent.last_hook_at THEN Current(Credited(agent, h), h)
  ELSE Credited(agent, h)

(* Mutant of IngestHook: replays are not recognised.                       *)
IngestHookTwice(id, h) ==
  LET agent == IF h.agent \in DOMAIN hook_agents THEN hook_agents[h.agent]
               ELSE NewHookAgent(h)
  IN  /\ accepted < MaxHooks
      /\ accepted' = accepted + 1
      /\ hook_agents' = [a \in DOMAIN hook_agents \cup {h.agent} |->
                           IF a = h.agent THEN Observed(agent, h) ELSE hook_agents[a]]
      /\ hooks' = Pushed(hooks, [id |-> id, agent |-> h.agent, at |-> h.at,
                                 kind |-> h.kind], HookCap)
      /\ UNCHANGED <<commandVars, sampleVars, controlVars, host>>

IngestHook(id, h) ==
  LET agent == IF h.agent \in DOMAIN hook_agents THEN hook_agents[h.agent]
               ELSE NewHookAgent(h)
  IN  /\ accepted < MaxHooks
      /\ \A i \in 1..Len(hooks) : hooks[i].id # id
      /\ accepted' = accepted + 1
      /\ hook_agents' = [a \in DOMAIN hook_agents \cup {h.agent} |->
                           IF a = h.agent THEN Observed(agent, h) ELSE hook_agents[a]]
      /\ hooks' = Pushed(hooks, [id |-> id, agent |-> h.agent, at |-> h.at,
                                 kind |-> h.kind], HookCap)
      /\ UNCHANGED <<commandVars, sampleVars, controlVars, host>>

-----------------------------------------------------------------------------
(* Control commands.  A command is named by the order it was issued in.    *)

Capable(a) == a \in DOMAIN hook_agents /\ hook_agents[a].control_capable

EnqueueCommand(a) ==
  /\ issued < MaxCommands
  /\ Capable(a)
  /\ issued' = issued + 1
  /\ commands' = Pushed(commands, [id |-> issued + 1, agent |-> a, status |-> "pending"],
                        CommandCap)
  /\ UNCHANGED <<hookVars, sampleVars, controlVars, host>>

(* pending_commands: what a poll of agent a answers, newest first.         *)
PendingCommands(a) ==
  SelectSeq(commands, LAMBDA c : c.agent = a /\ c.status = "pending")

(* An acknowledgement is accepted whatever the command's status is, but    *)
(* only from the command's own agent.                                      *)
AcknowledgeCommand(id, a, ok) ==
  \E i \in 1..Len(commands) :
    /\ commands[i].id = id
    /\ commands[i].agent = a
    /\ commands' = [commands EXCEPT
                      ![i].status = IF ok THEN "acknowledged" ELSE "rejected"]
    /\ UNCHANGED <<hookVars, issued, sampleVars, controlVars, host>>

-----------------------------------------------------------------------------
(* The host, and the collector that samples it.                            *)

(* A process of the host runs, starts (perhaps under a pid used before) or *)
(* exits; the total, a sum of counters of /proc/stat, may also go back.    *)
HostRuns ==
  /\ host.total < MaxTicks
  /\ \/ \E p \in DOMAIN host.ticks :
          /\ host.ticks[p] < MaxTicks
          /\ host' = [host EXCEPT !.total = @ + 1, !.ticks[p] = @ + 1]
     \/ host' = [host EXCEPT !.total = @ + 1]
     \/ \E t \in 0..(host.total - 1) : host' = [host EXCEPT !.total = t]
     \/ \E p \in Pids \ DOMAIN host.ticks :
          host' = [total |-> host.total + 1,
                   ticks |-> [q \in DOMAIN host.ticks \cup {p} |->
                                IF q = p THEN 0 ELSE host.ticks[q]]]
     \/ \E p \in DOMAIN host.ticks :
          host' = [total |-> host.total + 1,
                   ticks |-> [q \in DOMAIN host.ticks \ {p} |-> host.ticks[q]]]
  /\ UNCHANGED <<hookVars, commandVars, sampleVars, controlVars>>

SetCollection(on) ==
  /\ toggles < MaxToggles
  /\ toggles' = toggles + 1
  /\ enabled' = on
  /\ late' = IF on THEN 0 ELSE late
  /\ UNCHANGED <<hookVars, commandVars, processes, previous, last_error,
                 collector, samples, host>>

(* Mutant of Tick: the loop samples whatever the switch says.              *)
TickAlways ==
  /\ samples < MaxSamples
  /\ collector.at = "idle"
  /\ collector' = [at |-> "walking", total |-> host.total]
  /\ samples' = samples + 1
  /\ UNCHANGED <<hookVars, commandVars, processes, previous, last_error, late,
                 controlVars, host>>

(* An interval tick of `run`, up to read_total_cpu on the blocking thread. *)
Tick ==
  /\ samples < MaxSamples
  /\ collector.at = "idle"
  /\ enabled
  /\ collector' = [at |-> "walking", total |-> host.total]
  /\ samples' = samples + 1
  /\ UNCHANGED <<hookVars, commandVars, processes, previous, last_error, late,
                 controlVars, host>>

(* The walk over /proc.  A process whose files cannot be read is skipped.  *)
WalkProc ==
  /\ collector.at = "walking"
  /\ \E seen \in SUBSET DOMAIN host.ticks :
       collector' = [at |-> "read", total |-> collector.total,
                     ticks |-> [p \in seen |-> host.ticks[p]]]
  /\ UNCHANGED <<hookVars, commandVars, processes, previous, last_error,
                 samples, late, controlVars, host>>

(* The total or the directory could not be read, or the task panicked: the *)
(* sample is dropped and the previous one stays.                           *)
RecordCollectionError ==
  /\ collector.at = "walking"
  /\ last_error' = TRUE
  /\ collector' = [at |-> "idle"]
  /\ UNCHANGED <<hookVars, commandVars, processes, previous, samples, late,
                 controlVars, host>>

(* checked_sub.                                                            *)
Difference(x, y) == IF x >= y THEN x - y ELSE None

(* Mutant of CpuPercent: plain subtraction.                                *)
CpuPercentUnchecked(total, ticks, p) ==
  IF previous.total = None \/ p \notin DOMAIN previous.ticks \/ total = previous.total
    THEN None
    ELSE <<ticks[p] - previous.ticks[p], total - previous.total>>

(* The share of the host's ticks since the last applied sample that went   *)
(* to process p, as numerator and denominator; None without one.           *)
CpuPercent(total, ticks, p) ==
  LET total_delta == IF previous.total = None THEN None
                     ELSE Difference(total, previous.total)
      process_delta == IF p \in DOMAIN previous.ticks
                       THEN Difference(ticks[p], previous.ticks[p]) ELSE None
  IN  IF total_delta \in {None, 0} \/ process_delta = None THEN None
      ELSE <<process_delta, total_delta>>

ApplyProcSnapshot ==
  /\ collector.at = "read"
  /\ processes' = [p \in DOMAIN collector.ticks |->
                     CpuPercent(collector.total, collector.ticks, p)]
  /\ previous' = [total |-> collector.total, ticks |-> collector.ticks]
  /\ last_error' = FALSE
  /\ late' = IF enabled THEN 0 ELSE late + 1
  /\ collector' = [at |-> "idle"]
  /\ UNCHANGED <<hookVars, commandVars, samples, controlVars, host>>

Next ==
  \/ \E id \in HookIds, h \in Hook : IngestHook(id, h)
  \/ \E a \in Agents : EnqueueCommand(a)
  \/ \E id \in 1..issued, a \in Agents, ok \in BOOLEAN : AcknowledgeCommand(id, a, ok)
  \/ HostRuns
  \/ \E on \in BOOLEAN : SetCollection(on)
  \/ Tick
  \/ WalkProc
  \/ RecordCollectionError
  \/ ApplyProcSnapshot

Spec == Init /\ [][Next]_vars

-----------------------------------------------------------------------------
(* The merged view.                                                        *)

(* The owners the map from pid to agent may name: when several agents      *)
(* report one pid, the order of a HashMap decides.                         *)
OwnerMaps ==
  LET claimed == {hook_agents[a].pid : a \in DOMAIN hook_agents} \ {None}
  IN  {f \in [claimed -> DOMAIN hook_agents] :
         \A p \in claimed : hook_agents[f[p]].pid = p}

(* The id under which the row of a sampled process is inserted: its        *)
(* owner's, or one made of its pid.  Nothing keeps an agent from bearing   *)
(* the same id as the row of a process it has nothing to do with.          *)
KeyOf(p, owner) == IF p \in DOMAIN owner THEN owner[p] ELSE RowId[p]

(* Of several processes inserted under one id the last one stays, and the  *)
(* order of a HashMap decides which that is.                               *)
Inserted(owner) ==
  LET keys == {KeyOf(p, owner) : p \in DOMAIN processes}
  IN  {f \in [keys -> DOMAIN processes] : \A k \in keys : KeyOf(f[k], owner) = k}

(* The row of a process.  A figure is named by where it comes from: the    *)
(* process it was sampled from, a hook, or nowhere.                        *)
ProcessRow(p) ==
  [pid |-> p, process_backed |-> TRUE, control_capable |-> FALSE,
   cpu |-> IF processes[p] = None THEN "unreported" ELSE p, rss |-> p]

(* and_modify: the row of a process becomes the agent's of the same id and *)
(* keeps its figures.                                                      *)
Adopted(row, agent) ==
  [row EXCEPT !.pid = IF agent.pid = None THEN @ ELSE agent.pid,
              !.control_capable = agent.control_capable]

(* Mutant of HookRow: the agent's own figures come first.                  *)
HookRowFirst(agent) ==
  LET backed == agent.pid \in DOMAIN processes
      own(f, p) == IF f \in agent.reported THEN "hook" ELSE IF backed THEN p ELSE "unreported"
  IN  [pid |-> agent.pid, process_backed |-> backed,
       control_capable |-> agent.control_capable,
       cpu |-> own("cpu", agent.pid), rss |-> own("rss", agent.pid)]

(* or_insert_with: an agent without such a row falls back to its own       *)
(* figures where its process, which another agent then owns, has none.     *)
HookRow(agent) ==
  LET backed == agent.pid \in DOMAIN processes
      known  == backed /\ processes[agent.pid] # None
      own(f) == IF f \in agent.reported THEN "hook" ELSE "unreported"
  IN  [pid |-> agent.pid, process_backed |-> backed,
       control_capable |-> agent.control_capable,
       cpu |-> IF known THEN agent.pid ELSE own("cpu"),
       rss |-> IF backed THEN agent.pid ELSE own("rss")]

(* snapshot: one map from ids to rows, first of the processes and then of  *)
(* the agents.                                                             *)
Snapshot(owner, shown) ==
  [k \in DOMAIN hook_agents \cup DOMAIN shown |->
     IF k \notin DOMAIN shown THEN HookRow(hook_agents[k])
     ELSE IF k \notin DOMAIN hook_agents THEN ProcessRow(shown[k])
     ELSE Adopted(ProcessRow(shown[k]), hook_agents[k])]

-----------------------------------------------------------------------------
(* Properties.                                                             *)

(* Types, and both windows within their capacities.                        *)
TypeOK ==
  /\ hooks \in Seq([id : HookIds, agent : Agents, at : Times, kind : HookKinds])
  /\ Len(hooks) <= HookCap
  /\ DOMAIN hook_agents \subseteq Agents
  /\ \A a \in DOMAIN hook_agents : hook_agents[a] \in HookAgent
  /\ commands \in Seq([id : Nat, agent : Agents,
                       status : {"pending", "acknowledged", "rejected"}])
  /\ Len(commands) <= CommandCap
  /\ DOMAIN processes = DOMAIN previous.ticks
  /\ {enabled, last_error} \subseteq BOOLEAN
  /\ collector.at \in {"idle", "walking", "read"}

(* Every command that is queued, or was acknowledged, belongs to an agent  *)
(* that has reported itself controllable and still counts as such, however *)
(* its hooks are ordered and replayed (enqueue_command, ingest_hook).      *)
ControlOnlyCapable ==
  \A i \in 1..Len(commands) : Capable(commands[i].agent)

(* The state shown for an agent is the one its latest retained hook by     *)
(* occurred_at reported: of the hooks that carry the agent's latest time,  *)
(* the last to arrive that sets a status has set it, whatever arrived      *)
(* since with an older time; and an agent whose session has ended is never *)
(* shown using a tool (ingest_hook).                                       *)
LatestHookWins ==
  \A a \in DOMAIN hook_agents :
    LET latest == {i \in 1..Len(hooks) :
                     /\ hooks[i].agent = a
                     /\ hooks[i].at = hook_agents[a].last_hook_at
                     /\ SetsStatus(hooks[i].kind)}
    IN  /\ \A i \in 1..Len(hooks) :
             hooks[i].agent = a => hooks[i].at <= hook_agents[a].last_hook_at
        /\ latest # {} => hook_agents[a].status = StatusOf(hooks[Min(latest)].kind)
        /\ hook_agents[a].status = "idle" => hook_agents[a].tool = None

(* Token totals grow exactly once per accepted hook, and no hook is in the *)
(* window twice: a replay inside the window adds nothing (ingest_hook).    *)
TokensCountedOnce ==
  /\ \A i, j \in 1..Len(hooks) : hooks[i].id = hooks[j].id => i = j
  /\ MapThenSumSet(LAMBDA a : hook_agents[a].tokens, DOMAIN hook_agents) = accepted

(* Switching collection off stops it: at most the one sample that was      *)
(* being taken is still applied.                                           *)
AtMostOneLateSample == ~enabled => late <= 1

(* A CPU share is never negative and never has a zero denominator, across  *)
(* pid reuse, skipped processes and failed samples (apply_proc_snapshot).  *)
CpuShareSane ==
  \A p \in DOMAIN processes :
    processes[p] # None => processes[p][1] >= 0 /\ processes[p][2] > 0

(* The ids that an agent shares with the row of a process that no agent    *)
(* claims.                                                                 *)
Shared(owner) ==
  {RowId[p] : p \in DOMAIN processes \ DOMAIN owner} \cap DOMAIN hook_agents

(* The figures of a row are those of its own pid as soon as that process   *)
(* has been sampled.                                                       *)
FiguresOfPid(row) ==
  row.pid \in DOMAIN processes =>
    row.rss = row.pid /\ (processes[row.pid] # None => row.cpu = row.pid)

(* The merge of snapshot, whichever of several claimants of a pid the map  *)
(* names: except under an id that an agent shares with the row of an       *)
(* unclaimed process, the sampled figures of a row's pid take precedence,  *)
(* and every sampled process is shown; under a shared id the figures are   *)
(* still those of one process and never an agent's; and only an agent that *)
(* can be controlled is shown as controllable.                             *)
ProcessTakesPrecedence ==
  \A owner \in OwnerMaps : \A shown \in Inserted(owner) :
    LET rows == Snapshot(owner, shown)
    IN  /\ \A k \in DOMAIN rows \ Shared(owner) : FiguresOfPid(rows[k])
        /\ \A p \in DOMAIN processes :
             KeyOf(p, owner) \notin Shared(owner) =>
               \E k \in DOMAIN rows : rows[k].pid = p /\ rows[k].rss = p
        /\ \A k \in Shared(owner) :
             /\ rows[k].rss \in DOMAIN processes
             /\ rows[k].cpu \in {rows[k].rss, "unreported"}
        /\ \A k \in DOMAIN rows : rows[k].control_capable => Capable(k)
=============================================================================

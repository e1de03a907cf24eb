---------------------------- MODULE Coordination ----------------------------
(***************************************************************************)
(* The coordination plan, src/src/coordination.rs, over a store that       *)
(* moves.  The plan is a function of the snapshot (Plan); the actions are  *)
(* what ingested events do to the part of the store the plan reads.        *)
(***************************************************************************)
EXTENDS Metacognition

CONSTANTS
  Keys,               \* <<agent, task id>>
  Definitions,        \* for each key, the depends_on lists and goals it may get,
                      \* with the age of the events that say so
  Events,             \* for each key, the execution events about it
  Goals,              \* <<agent, goal id>>
  MaxTasks, MaxGoals, \* capacities of the caches
  MaxAssignments, MaxAssignmentsPerAgent, MaxInterventions, MaxHolds,
  Word                \* how many values a u32 has

(* StoreConfig::validate and PlanningPolicy::validate.                     *)
ASSUME PlanningPolicyAssumption ==
  {MaxTasks, MaxGoals, MaxAssignments, MaxAssignmentsPerAgent, MaxInterventions, MaxHolds}
    \subseteq Nat \ {0}
ASSUME WordAssumption == Word \in Nat \ {0}

(* What the events may carry; the goal 0 stands for none.                  *)
ASSUME EventAssumption ==
  /\ Keys \subseteq Nat \X Nat
  /\ Goals \subseteq Nat \X (Nat \ {0})
  /\ \A k \in Keys :
       /\ \A d \in Definitions[k] : d \in [depends_on : Seq(Nat), goal : Nat, age : Nat]
       /\ \A event \in Events[k] :
            \/ event \in [kind : {"task_started"}, age : Nat, attempt : Nat]
            \/ event \in [kind : {"progress_updated"}, age : Nat, progress : Nat,
                          blocker : BOOLEAN, next_action : BOOLEAN]
            \/ event \in [kind : {"reflection_recorded"}, age : Nat,
                          confidence : Confidences, evidence : BOOLEAN, next_action : BOOLEAN]
            \/ event \in [kind : {"error_observed"}, age : Nat, next_action : BOOLEAN]
            \/ event \in [kind : {"task_completed"}, age : Nat,
                          outcome : TerminalStatuses, artifacts : BOOLEAN]

(* The definitions of a task are of one time, so that each is              *)
(* authoritative when it arrives.                                          *)
ASSUME DefinitionAssumption ==
  \A k \in Keys : \A d, e \in Definitions[k] : d.age = e.age

VARIABLES
  tasks,    \* retained task states
  goals,    \* retained goals
  offline   \* retained agents whose status is offline

vars == <<tasks, goals, offline>>

Agents == {k[1] : k \in Keys}

TypeOK ==
  /\ DOMAIN tasks \subseteq Keys /\ tasks \in [DOMAIN tasks -> TaskStates]
  /\ IsFiniteSet(DOMAIN tasks) /\ Cardinality(DOMAIN tasks) <= MaxTasks
  /\ goals \subseteq Goals /\ IsFiniteSet(goals) /\ Cardinality(goals) <= MaxGoals
  /\ offline \subseteq Agents

-----------------------------------------------------------------------------
(* What becomes of a task.                                                 *)

(* What the planner knows of a snapshot: the result of the analysis, given *)
(* the members of cycles and then the remaining depths.                    *)
AnalysisFrom(members, depths) ==
  [critical |-> CriticalTasks(tasks, members, depths),
   found    |-> [k \in DOMAIN tasks |-> Diagnostics(tasks, goals, members, k)]]
AnalysisOf(members) == AnalysisFrom(members, RemainingDepths(tasks, members))
Analysis == AnalysisOf(CycleMembers(tasks))

Rules(found) == {d.rule : d \in found}

(* intervention_for: what is wrong with the task's data, if anything.      *)
InterventionFor(rules) ==
  IF "completion_mismatch" \in rules THEN "reconcile_completion"
  ELSE IF rules \cap {"dependency_cycle", "orphan_dependency"} # {}
    THEN "repair_dependency_graph"
  ELSE IF "orphan_goal" \in rules THEN "declare_missing_goal"
  ELSE "none"

(* assignment_action: what its agent should do next, if anything.          *)
AssignmentAction(status, rules) ==
  IF "retry_loop" \in rules THEN "change_strategy"
  ELSE IF "stalled_task" \in rules THEN "request_checkpoint"
  ELSE IF status = "blocked" THEN "resolve_blocker"
  ELSE IF rules \cap {"low_confidence", "missing_evidence"} # {} THEN "gather_evidence"
  ELSE IF "missing_next_action" \in rules THEN "define_next_action"
  ELSE IF status = "pending" THEN "start_task"
  ELSE IF status = "running" THEN "continue_task"
  ELSE "none"

(* Mutant of Waiting: only dependencies that are not retained count.       *)
WaitingMissing(k) == Missing(tasks, k) # {}

Waiting(k) == Missing(tasks, k) # {} \/ Unresolved(tasks, k) # {}

(* The branches of plan_from_analysis, in its order.                       *)
Disposition(rules, k) ==
  IF InterventionFor(rules) # "none"
    THEN [kind |-> "intervention", what |-> InterventionFor(rules)]
  ELSE IF k[1] \in offline THEN [kind |-> "hold", what |-> "agent_offline"]
  ELSE IF Waiting(k) THEN [kind |-> "hold", what |-> "waiting_on_dependencies"]
  ELSE IF AssignmentAction(tasks[k].status, rules) # "none"
    THEN [kind |-> "candidate", what |-> AssignmentAction(tasks[k].status, rules)]
  ELSE [kind |-> "hold", what |-> "terminal"]

-----------------------------------------------------------------------------
(* Priorities and selection.                                               *)

BasePriority ==
  [change_strategy |-> 900, request_checkpoint |-> 850, resolve_blocker |-> 800,
   gather_evidence |-> 700, define_next_action |-> 650, start_task |-> 600,
   continue_task |-> 500, reconcile_completion |-> 1200,
   repair_dependency_graph |-> 1100, declare_missing_goal |-> 1000]

SeverityBonus(found) ==
  Max({0} \cup {CASE d.severity = "critical" -> 80
                  [] d.severity = "warning" -> 40
                  [] OTHER -> 10 : d \in found})

(* The common part of the priorities, and what an assignment adds to it.   *)
Urgency(analysis, k, what) ==
  BasePriority[what] + (IF k \in analysis.critical THEN 100 ELSE 0)
                     + SeverityBonus(analysis.found[k])
(* stale_for_seconds as u32 / 60.                                         *)
Minutes(age) == ((60 * age) % Word) \div 60
Persistence(task) == 5 * Min({task.attempt, 10}) + Min({Minutes(task.age), 100})

(* A disposition with its priority; held tasks have none.                  *)
Prioritised(analysis, k, decided) ==
  [kind |-> decided.kind, what |-> decided.what,
   priority |-> CASE decided.kind = "hold" -> 0
                  [] decided.kind = "intervention" -> Urgency(analysis, k, decided.what)
                  [] OTHER -> Urgency(analysis, k, decided.what) + Persistence(tasks[k])]

Decide(analysis, k) == Prioritised(analysis, k, Disposition(Rules(analysis.found[k]), k))
OfKind(decision, kind) == {k \in DOMAIN decision : decision[k].kind = kind}

(* assignment_order and intervention_order.                                *)
RankedBefore(decision, k, l) ==
  \/ decision[k].priority > decision[l].priority
  \/ decision[k].priority = decision[l].priority /\ KeyBefore(k, l)
Ranked(decision, S) == Listed([k \in S |-> {l \in S : RankedBefore(decision, l, k)}])

(* The candidates of each agent, and the agents that have any in the order *)
(* of their best one.                                                      *)
Queues(decision) ==
  [a \in Agents |-> Ranked(decision, {k \in OfKind(decision, "candidate") : k[1] = a})]
AgentBefore(decision, queue, a, b) ==
  LET best(x) == decision[queue[x][1]].priority
  IN  best(a) > best(b) \/ (best(a) = best(b) /\ a < b)
AgentOrder(decision, queue) ==
  LET A == {a \in Agents : queue[a] # <<>>}
  IN  Listed([a \in A |-> {b \in A : AgentBefore(decision, queue, b, a)}])

(* The loop of select_assignments: `given` counts what each agent has got, *)
(* which is what has been popped from its queue, and `turn` is the place   *)
(* in the order of the agents that comes next in this round.               *)
Selections ==
  [selected : Seq(Keys), given : [Agents -> Nat], turn : Nat \ {0}, made_progress : BOOLEAN]
FirstRound ==
  [selected |-> <<>>, given |-> [a \in Agents |-> 0], turn |-> 1, made_progress |-> FALSE]
NextRound(s) ==
  [selected |-> s.selected, given |-> s.given, turn |-> 1, made_progress |-> FALSE]

Full(s) == Len(s.selected) >= MaxAssignments

(* Mutant of Turn: an agent that took one goes on.                         *)
TurnGreedy(s, queue, a) ==
  IF Full(s) \/ s.given[a] >= MaxAssignmentsPerAgent \/ s.given[a] >= Len(queue[a])
  THEN [s EXCEPT !.turn = @ + 1]
  ELSE [selected |-> Append(s.selected, queue[a][s.given[a] + 1]),
        given |-> [s.given EXCEPT ![a] = @ + 1], turn |-> s.turn, made_progress |-> TRUE]

(* One agent's turn; once the limit is reached, the others get none.       *)
Turn(s, queue, a) ==
  IF Full(s) \/ s.given[a] >= MaxAssignmentsPerAgent \/ s.given[a] >= Len(queue[a])
  THEN [s EXCEPT !.turn = @ + 1]
  ELSE [selected |-> Append(s.selected, queue[a][s.given[a] + 1]),
        given |-> [s.given EXCEPT ![a] = @ + 1], turn |-> s.turn + 1, made_progress |-> TRUE]

RoundOver(s, order) == s.turn > Len(order)
SelectFrom(queue, order) ==
  LET rounds[s \in Selections] ==
        IF RoundOver(s, order)
        THEN IF Full(s) \/ ~s.made_progress THEN s ELSE rounds[NextRound(s)]
        ELSE rounds[Turn(s, queue, order[s.turn])]
  IN  rounds[FirstRound].selected
SelectInOrder(decision, queue) == SelectFrom(queue, AgentOrder(decision, queue))
SelectAssignments(decision) == SelectInOrder(decision, Queues(decision))

(* Mutant of Holds: candidates beyond the limits are forgotten.            *)
HoldsForgotten(decision, selected) == OfKind(decision, "hold")

(* The held tasks: those decided so, and the candidates beyond the limits. *)
Holds(decision, selected) ==
  OfKind(decision, "hold") \cup (OfKind(decision, "candidate") \ Range(selected))

Truncated(seq, limit) == SubSeq(seq, 1, Min({limit, Len(seq)}))
Omitted(seq, limit) == Len(seq) - Len(Truncated(seq, limit))

(* plan_from_analysis: decide, sort and select, truncate and publish.      *)
Publish(decision, selected, wrong, held) ==
  [assignments   |-> selected,
   interventions |-> Truncated(wrong, MaxInterventions),
   held          |-> Truncated(held, MaxHolds),
   omitted       |-> Omitted(wrong, MaxInterventions) + Omitted(held, MaxHolds),
   decision      |-> decision]
PlanOf(decision, selected) ==
  Publish(decision, selected, Ranked(decision, OfKind(decision, "intervention")),
          InOrder(Holds(decision, selected)))
PlanSelecting(decision) == PlanOf(decision, SelectAssignments(decision))
PlanFrom(analysis) == PlanSelecting([k \in DOMAIN tasks |-> Decide(analysis, k)])
Plan == PlanFrom(Analysis)

-----------------------------------------------------------------------------
(* The store moves: what the handlers of store.rs do to the part of it     *)
(* that the plan reads.  Store.tla has all of what they do.                *)

Init == tasks = <<>> /\ goals = {} /\ offline = {}

(* TaskState::from_spec.                                                   *)
Fresh(definition) ==
  [depends_on |-> definition.depends_on, goal |-> definition.goal, age |-> definition.age,
   status |-> "pending", outcome |-> "none", progress |-> 0, attempt |-> 0,
   artifacts |-> FALSE, evidence |-> FALSE, confidence |-> "none", next_action |-> FALSE]

(* The spec that ensure_task infers.                                       *)
Inferred(event) == Fresh([depends_on |-> <<>>, goal |-> 0, age |-> event.age])

(* insert_task, or an update in place.  A full cache drops its oldest      *)
(* entry; which one that is, is left open.                                 *)
Kept(k) ==
  IF k \in DOMAIN tasks \/ Cardinality(DOMAIN tasks) < MaxTasks THEN {DOMAIN tasks}
  ELSE {DOMAIN tasks \ {oldest} : oldest \in DOMAIN tasks}
Stored(k, task) ==
  {[l \in kept \cup {k} |-> IF l = k THEN task ELSE tasks[l]] : kept \in Kept(k)}

(* The task an execution event finds, which ensure_task may just have made *)
(* and the event only applies to if it is not older than the last one.     *)
Found(k, event) == IF k \in DOMAIN tasks THEN tasks[k] ELSE Inferred(event)
Applies(k, event) == event.age <= Found(k, event).age
Aged(task, event) == [task EXCEPT !.age = event.age]

(* task_created: a new task, or a new definition of a retained one.        *)
TaskCreated(k, definition) ==
  /\ tasks' \in Stored(k, IF k \in DOMAIN tasks
                            THEN [tasks[k] EXCEPT !.depends_on = definition.depends_on,
                                                  !.goal = definition.goal,
                                                  !.age = Min({@, definition.age})]
                            ELSE Fresh(definition))
  /\ UNCHANGED <<goals, offline>>

(* task_started; the agent runs, and is no longer offline.                 *)
TaskStarted(k, event) ==
  /\ Applies(k, event)
  /\ tasks' \in Stored(k, [Aged(Found(k, event), event) EXCEPT
                             !.status = "running", !.outcome = "none",
                             !.attempt = event.attempt, !.artifacts = FALSE])
  /\ offline' = offline \ {k[1]}
  /\ UNCHANGED goals

(* progress_updated.                                                       *)
ProgressUpdated(k, event) ==
  /\ Applies(k, event)
  /\ tasks' \in Stored(k, [Aged(Found(k, event), event) EXCEPT
                             !.status = IF event.blocker THEN "blocked" ELSE "running",
                             !.outcome = "none", !.progress = event.progress,
                             !.next_action = event.next_action, !.artifacts = FALSE])
  /\ offline' = offline \ {k[1]}
  /\ UNCHANGED goals

(* reflection_recorded: the agent keeps its status.                        *)
ReflectionRecorded(k, event) ==
  /\ Applies(k, event)
  /\ tasks' \in Stored(k, [Aged(Found(k, event), event) EXCEPT
                             !.confidence = event.confidence, !.evidence = event.evidence,
                             !.next_action = event.next_action])
  /\ UNCHANGED <<goals, offline>>

(* error_observed: the agent is blocked whether or not the task takes it,  *)
(* and the task keeps its outcome.                                         *)
ErrorObserved(k, event) ==
  /\ IF Applies(k, event)
       THEN tasks' \in Stored(k, [Aged(Found(k, event), event) EXCEPT
                                    !.status = "blocked", !.next_action = event.next_action])
       ELSE UNCHANGED tasks
  /\ offline' = offline \ {k[1]}
  /\ UNCHANGED goals

(* task_completed.                                                         *)
TaskCompleted(k, event) ==
  /\ Applies(k, event)
  /\ tasks' \in Stored(k, [Aged(Found(k, event), event) EXCEPT
                             !.status = event.outcome, !.outcome = event.outcome,
                             !.progress = IF event.outcome = "succeeded" THEN 100 ELSE @,
                             !.artifacts = event.artifacts])
  /\ offline' = offline \ {k[1]}
  /\ UNCHANGED goals

(* goal_declared, into a cache that drops its oldest goal when full.       *)
GoalDeclared(g) ==
  /\ goals' \in IF g \in goals \/ Cardinality(goals) < MaxGoals THEN {goals \cup {g}}
                ELSE {(goals \ {oldest}) \cup {g} : oldest \in goals}
  /\ UNCHANGED <<tasks, offline>>

(* A registration, heartbeat or agent_status_changed says offline; any     *)
(* other status, or the eviction of the agent, undoes it.                  *)
AgentOffline(a) == offline' = offline \cup {a} /\ UNCHANGED <<tasks, goals>>
AgentBack(a) == offline' = offline \ {a} /\ UNCHANGED <<tasks, goals>>

(* The events of a kind that may be received about task k.                 *)
Reported(k, kind) == {event \in Events[k] : event.kind = kind}

Next ==
  \/ \E k \in Keys :
       \/ \E event \in Definitions[k] : TaskCreated(k, event)
       \/ \E event \in Reported(k, "task_started") : TaskStarted(k, event)
       \/ \E event \in Reported(k, "progress_updated") : ProgressUpdated(k, event)
       \/ \E event \in Reported(k, "reflection_recorded") : ReflectionRecorded(k, event)
       \/ \E event \in Reported(k, "error_observed") : ErrorObserved(k, event)
       \/ \E event \in Reported(k, "task_completed") : TaskCompleted(k, event)
  \/ \E g \in Goals : GoalDeclared(g)
  \/ \E a \in Agents : AgentOffline(a) \/ AgentBack(a)

Spec == Init /\ [][Next]_vars

-----------------------------------------------------------------------------
(* Properties.                                                             *)

(* The dependency relation among the tasks of S, as chains without a       *)
(* repetition; it is what the searches are compared with.                  *)
Chains(S) ==
  LET next == [k \in S |-> Depends(tasks, k)]
  IN  {c \in UNION {[1 .. n -> S] : n \in 1 .. Cardinality(S)} :
         /\ \A i \in 1 .. (Len(c) - 1) : c[i + 1] \in next[c[i]]
         /\ IsInjective(c)}
Cyclic(S) == {c[1] : c \in {c \in Chains(S) : c[1] \in Depends(tasks, Last(c))}}
TasksOf(a) == {k \in DOMAIN tasks : k[1] = a}

(* Cycles are neither invented nor overlooked: a task the search names is  *)
(* on a cycle, and without the named tasks no cycle is left, so that every *)
(* cycle gets at least one intervention.                                   *)
CyclesAreHit ==
  LET members == CycleMembers(tasks)
  IN  \A a \in Agents :
        /\ TasksOf(a) \cap members \subseteq Cyclic(TasksOf(a))
        /\ Cyclic(TasksOf(a) \ members) = {}

(* Where an agent's graph has no cycle, the remaining depth of a task is   *)
(* the length of the longest chain of tasks that have not succeeded below  *)
(* it, in whatever order and from whatever task the memo was filled.       *)
DepthIsLongestChain ==
  LET members == CycleMembers(tasks)
      depths == RemainingDepths(tasks, members)
  IN  \A a \in Agents : Cyclic(TasksOf(a)) = {} =>
        LET open == Chains({k \in TasksOf(a) : tasks[k].status # "succeeded"})
        IN  \A k \in TasksOf(a) :
              depths[k] = Max({0} \cup {Len(c) : c \in {c \in open : c[1] = k}})

(* What the goals of the projection show adds up with what the tasks and   *)
(* the summary show: a task counts for exactly one retained goal, or has   *)
(* none, or is reported as orphaned, whichever evictions came between;     *)
(* stalled tasks, which a goal counts by age and the summary by            *)
(* diagnostics, are the same ones; a path of length 0 is that of a goal    *)
(* whose tasks have all succeeded, any other available one has a critical  *)
(* task, and none is available exactly where a task is on a reported cycle.*)
AddsUp(members, depths, found) ==
  LET goal    == [g \in goals |-> GoalAnalysis(tasks, members, depths, found, g)]
      whole   == Summary(tasks, goals, found)
      outside == {k \in DOMAIN tasks : tasks[k].goal = 0 \/ "orphan_goal" \in Rules(found[k])}
      stalled == {k \in outside : "stalled_task" \in Rules(found[k])}
  IN  /\ whole.total = Cardinality(outside) + SumFunction([g \in goals |-> goal[g].total])
      /\ whole.stalled = Cardinality(stalled) + SumFunction([g \in goals |-> goal[g].stalled])
      /\ whole.evidence_backed <= whole.self_reported
      /\ \A g \in goals :
           LET a == goal[g]
           IN  /\ a.active + a.completed = a.total /\ a.blocked <= a.active
               /\ a.critical_path_remaining = 0 =>
                    \A k \in GoalTasks(tasks, g) : tasks[k].status = "succeeded"
               /\ a.critical_path_remaining > 0 <=> a.critical_path_tasks # {}
               /\ "cycle" \in a.warnings <=>
                    \E pair \in a.diagnostics : pair[2] = "dependency_cycle"
AnalysisAddsUp ==
  LET members == CycleMembers(tasks)
      depths  == RemainingDepths(tasks, members)
      found   == [k \in DOMAIN tasks |-> Diagnostics(tasks, goals, members, k)]
  IN  AddsUp(members, depths, found)

(* Nothing is dispatched before all it depends on is retained and has      *)
(* succeeded, nor to an agent known to be offline.                         *)
DispatchIsSafe ==
  \A k \in Range(Plan.assignments) :
    /\ k[1] \notin offline
    /\ \A d \in Range(tasks[k].depends_on) :
         Key(k, d) \in DOMAIN tasks /\ tasks[Key(k, d)].status = "succeeded"

AccountsForAll(plan) ==
  /\ Cardinality(DOMAIN tasks) = Len(plan.assignments) + Len(plan.interventions)
                                   + Len(plan.held) + plan.omitted
  /\ Cardinality(Range(plan.assignments)) = Len(plan.assignments)
  /\ Range(plan.assignments) \cap Range(plan.held) = {}

(* Every retained task is accounted for once: assigned, an intervention,   *)
(* held, or counted as omitted; and no assignment is held as well.         *)
EveryTaskAccountedFor == AccountsForAll(Plan)

AssignedTo(plan, a) == {k \in Range(plan.assignments) : k[1] = a}
Assigned(plan, a) == Cardinality(AssignedTo(plan, a))
PassedOver(plan) == OfKind(plan.decision, "candidate") \ Range(plan.assignments)
Fair(plan) ==
  /\ Len(plan.assignments) <= MaxAssignments
  /\ \A a \in Agents : Assigned(plan, a) <= MaxAssignmentsPerAgent
  /\ \A k \in PassedOver(plan) :
       /\ \/ Len(plan.assignments) = MaxAssignments
          \/ Assigned(plan, k[1]) = MaxAssignmentsPerAgent
       /\ \A a \in Agents : Assigned(plan, a) <= Assigned(plan, k[1]) + 1
       /\ \A l \in AssignedTo(plan, k[1]) :
            plan.decision[l].priority >= plan.decision[k].priority

(* The limits hold, an agent is passed over only at a limit, no agent gets *)
(* two turns more than one that still waits, and an agent's own candidates *)
(* go by priority.                                                         *)
SelectionIsFair == Fair(Plan)

(* src/docs/coordination-planner.md:75: "Dependency cycles, unknown        *)
(* dependencies, unknown goals, and contradictory completion state become  *)
(* explicit interventions rather than assignments."                        *)
CyclesAreNotDispatched ==
  \A k \in Range(Plan.assignments) : k \notin Cyclic(TasksOf(k[1]))
=============================================================================

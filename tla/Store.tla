------------------------------- MODULE Store -------------------------------
(***************************************************************************)
(* The in-memory projection of the control plane, src/src/store.rs: six    *)
(* bounded LRU caches behind one write lock, and the reducer `apply_event` *)
(* that folds every accepted event into them.                              *)
(*                                                                         *)
(* One action is one critical section of `Store::ingest` (from acquiring   *)
(* the write lock to `drop(inner)`) or of `record_rejection`.  What        *)
(* follows the unlock, the send on the update channel, touches none of     *)
(* this state.  Events arrive in any order and with any `occurred_at`,     *)
(* because four transports, retries and client clocks decide both.         *)
(*                                                                         *)
(* Payload that the reducer only copies (names, texts, metadata, evidence, *)
(* session and agent references) is left out.  A task key <<a, t>> is the  *)
(* ScopedId of task t of agent a; the state's own agent_id always equals   *)
(* a.  Times are `occurred_at` values.                                     *)
(***************************************************************************)
EXTENDS Lru

CONSTANTS
  Agents, TaskIds, GoalIds, LessonIds,  \* identifiers agents report
  EventIds,                             \* event_id values
  Transports,                           \* the transports in use
  Times,                                \* occurred_at values
  Statuses,                             \* agent statuses agents report
  Levels,                               \* progress percentages they report
  Attempts,                             \* attempt numbers they report
  Outcomes,                             \* completion outcomes they report
  None,                                 \* Option::None
  AgentCap, GoalCap, TaskCap, LessonCap, EventCap, IdempotencyCap,
  MaxDeliveries                         \* bound of the exploration

AgentStatus == {"idle", "planning", "running", "waiting",
                "blocked", "completed", "failed", "offline"}
EventKinds  == {"agent_registered", "heartbeat", "goal_declared", "task_created",
                "task_started", "progress_updated", "reflection_recorded",
                "lesson_learned", "error_observed", "task_completed",
                "agent_status_changed"}
TaskOutcome == {"succeeded", "failed", "canceled", "partial"}
TaskStatus  == {"pending", "running", "blocked"} \cup TaskOutcome

(* Config::validate refuses a zero capacity; EventEnvelope::validate keeps *)
(* progress in the unit interval and attempts positive.                    *)
ASSUME CapacityAssumption ==
  /\ {AgentCap, GoalCap, TaskCap, LessonCap} \subseteq Nat \ {0}
  /\ {EventCap, IdempotencyCap} \subseteq Nat \ {0}
ASSUME InputAssumption ==
  /\ Times \subseteq Nat
  /\ Statuses \subseteq AgentStatus
  /\ Levels \subseteq 0..100
  /\ Attempts \subseteq Nat \ {0}
  /\ Outcomes \subseteq TaskOutcome
  /\ None \notin TaskIds /\ None \notin GoalIds /\ None \notin Times
  /\ None \notin TaskOutcome /\ None \notin AgentStatus
ASSUME BoundAssumption == MaxDeliveries \in Nat

VARIABLES
  agents, goals, tasks, lessons,  \* the projections
  events,      \* recent event records; a record is named by the revision that accepted it
  seen,        \* the idempotency window: event id -> revision
  revision,    \* advanced once per accepted event
  counters     \* ingestion counters

vars == <<agents, goals, tasks, lessons, events, seen, revision, counters>>

TaskKeys == Agents \X TaskIds

AgentState ==
  [status : AgentStatus, current_goal : GoalIds \cup {None},
   active_task : TaskIds \cup {None}, registered_at : Times,
   last_seen_at : Times, completed_tasks : Nat, failed_tasks : Nat]
TaskState ==
  [status : TaskStatus, progress : 0..100, attempt : Nat, blocked : BOOLEAN,
   outcome : TaskOutcome \cup {None}, inferred : BOOLEAN,
   definition_updated_at : Times, created_at : Times,
   started_at : Times \cup {None}, completed_at : Times \cup {None},
   updated_at : Times]
LessonState == [learned_at : Times, observations : Nat]
Counters ==
  [accepted : Nat, duplicate : Nat, rejected : Nat,
   accepted_by : [Transports -> Nat], rejected_by : [Transports -> Nat]]

NoCounts ==
  [accepted |-> 0, duplicate |-> 0, rejected |-> 0,
   accepted_by |-> [tr \in Transports |-> 0], rejected_by |-> [tr \in Transports |-> 0]]

Init ==
  /\ agents = EmptyCache /\ goals = EmptyCache /\ tasks = EmptyCache
  /\ lessons = EmptyCache /\ events = EmptyCache /\ seen = EmptyCache
  /\ revision = 0
  /\ counters = NoCounts

-----------------------------------------------------------------------------
(* Completion counters.                                                    *)

Later(x, y)   == IF x < y THEN y ELSE x
Earlier(x, y) == IF x < y THEN x ELSE y

(* completion_bucket of an optional outcome.                               *)
Bucket(outcome) ==
  CASE outcome \in {"succeeded", "partial"} -> "completed"
    [] outcome \in {"failed", "canceled"}   -> "failed"
    [] OTHER                                -> "none"

(* The retained tasks of agent a whose outcome falls in bucket b.          *)
CountedTasks(tk, a, b) ==
  {k \in Keys(tk) : k[1] = a /\ Bucket(tk.entry[k].outcome) = b}

(* saturating_sub(1).                                                      *)
Decremented(n) == IF n = 0 THEN 0 ELSE n - 1

(* remove_completion_counter.                                              *)
Uncount(agent, outcome) ==
  [agent EXCEPT
     !.completed_tasks = IF Bucket(outcome) = "completed" THEN Decremented(@) ELSE @,
     !.failed_tasks    = IF Bucket(outcome) = "failed" THEN Decremented(@) ELSE @]

(* reconcile_completion_counters: the previous outcome's bucket gives way  *)
(* to the current one's, and the agent takes the bucket's status.          *)
Reconcile(agent, previous, outcome) ==
  LET bucket == Bucket(outcome)
      rest   == Uncount(agent, previous)
      moved  == IF Bucket(previous) = bucket THEN agent
                ELSE [rest EXCEPT
                        !.completed_tasks = IF bucket = "completed" THEN @ + 1 ELSE @,
                        !.failed_tasks    = IF bucket = "failed" THEN @ + 1 ELSE @]
  IN  [moved EXCEPT !.status = bucket]

-----------------------------------------------------------------------------
(* Creating projections on first sight.                                    *)

(* The AgentState of ensure_agent: its counters start from what the task   *)
(* cache still holds for the agent (task_counts).                          *)
NewAgent(tk, a, at) ==
  [status |-> "idle", current_goal |-> None, active_task |-> None,
   registered_at |-> at, last_seen_at |-> at,
   completed_tasks |-> Cardinality(CountedTasks(tk, a, "completed")),
   failed_tasks    |-> Cardinality(CountedTasks(tk, a, "failed"))]

(* TaskState::from_spec.                                                   *)
NewTask(at, inferred) ==
  [status |-> "pending", progress |-> 0, attempt |-> 0, blocked |-> FALSE,
   outcome |-> None, inferred |-> inferred, definition_updated_at |-> at,
   created_at |-> at, started_at |-> None, completed_at |-> None,
   updated_at |-> at]

EnsureAgent(ag, tk, a, at) ==
  IF a \in Keys(ag) THEN ag ELSE Push(ag, a, NewAgent(tk, a, at), AgentCap)

(* What apply_event does before it looks at the kind of event.             *)
Observe(ag, tk, a, at) ==
  LET known == EnsureAgent(ag, tk, a, at)
  IN  Update(known, a, [known.entry[a] EXCEPT !.last_seen_at = Later(@, at)])

(* Mutant of UncountEvicted: an evicted completion stays counted.          *)
KeepEvictedCount(ag, tk, k) == ag

(* The agents after insert_task(k, ..) into tk: the owner of an evicted    *)
(* task, if still retained, gives back that task's completion and becomes  *)
(* the most recently used agent.                                           *)
UncountEvicted(ag, tk, k) ==
  LET out == {o \in Displaced(tk, k, TaskCap) : o[1] \in Keys(ag)}
  IN  IF out = {} THEN ag
      ELSE LET o == CHOOSE o \in out : TRUE
           IN  Update(ag, o[1], Uncount(ag.entry[o[1]], tk.entry[o].outcome))

(* The agents and the tasks after ensure_task.                             *)
AgentsWithTask(ag, tk, k) ==
  IF k \in Keys(tk) THEN ag ELSE UncountEvicted(ag, tk, k)
TasksWithTask(tk, k, at) ==
  IF k \in Keys(tk) THEN tk ELSE Push(tk, k, NewTask(at, TRUE), TaskCap)

(* Mutant of Applies: the last event to arrive wins.                       *)
AppliesAlways(tk, k, at) == TRUE

(* The event-time guard of every execution field: an event may write them  *)
(* unless the task already reflects a later one.                           *)
Applies(tk, k, at) == at >= tk.entry[k].updated_at

(* get_mut of a retained task, and the writes of the guarded block.        *)
Advance(tk, k, at, state) ==
  IF Applies(tk, k, at) THEN Update(tk, k, state) ELSE Touch(tk, k)

(* get_mut of the agent, only when the task's block was executed.          *)
AdvanceOwner(ag, tk, k, at, state) ==
  IF Applies(tk, k, at) THEN Update(ag, k[1], state) ELSE ag

-----------------------------------------------------------------------------
(* The reducer, one action per kind of event (apply_event).  Each action   *)
(* says what the event of agent a that occurred at time `at` does to the   *)
(* four projections.                                                       *)

AgentRegistered(a, at, status) ==
  LET ag == Observe(agents, tasks, a, at)
      r  == ag.entry[a]
  IN  /\ agents' = Update(ag, a,
                     [r EXCEPT !.status = IF r.status = "idle" THEN status ELSE r.status,
                               !.registered_at = Earlier(r.registered_at, at)])
      /\ UNCHANGED <<goals, tasks, lessons>>

(* Both fields of a heartbeat are optional.                                *)
Heartbeat(a, at, status, active) ==
  LET ag == Observe(agents, tasks, a, at)
      r  == ag.entry[a]
  IN  /\ agents' = Update(ag, a,
                     [r EXCEPT !.status = IF status = None THEN r.status ELSE status,
                               !.active_task = IF active = None THEN r.active_task ELSE active])
      /\ UNCHANGED <<goals, tasks, lessons>>

GoalDeclared(a, at, g) ==
  LET ag == Observe(agents, tasks, a, at)
      r  == ag.entry[a]
  IN  /\ goals' = Push(goals, <<a, g>>, at, GoalCap)
      /\ agents' = Update(ag, a,
                     [r EXCEPT !.current_goal = g,
                               !.status = IF r.status = "idle" THEN "planning" ELSE r.status])
      /\ UNCHANGED <<tasks, lessons>>

(* A definition replaces an inferred one, or one that is not later.        *)
Authoritative(task, at) == task.inferred \/ at >= task.definition_updated_at

(* Mutants of Redefined: the definition's own time becomes the task's      *)
(* clock; a definition starts the task afresh.                             *)
RedefinedClock(task, at) ==
  [task EXCEPT !.inferred = FALSE, !.definition_updated_at = at,
               !.created_at = Earlier(task.created_at, at), !.updated_at = at]
RedefinedAfresh(task, at) ==
  [NewTask(at, FALSE) EXCEPT !.created_at = Earlier(task.created_at, at),
                             !.updated_at = Later(task.updated_at, at)]

Redefined(task, at) ==
  [task EXCEPT !.inferred = FALSE, !.definition_updated_at = at,
               !.created_at = Earlier(task.created_at, at),
               !.updated_at = Later(task.updated_at, at)]

TaskCreated(a, at, t) ==
  LET k  == <<a, t>>
      ag == Observe(agents, tasks, a, at)
  IN  /\ \/ /\ k \in Keys(tasks)
            /\ Authoritative(tasks.entry[k], at)
            /\ tasks' = Update(tasks, k, Redefined(tasks.entry[k], at))
            /\ agents' = ag
         \/ /\ k \in Keys(tasks)
            /\ ~Authoritative(tasks.entry[k], at)
            /\ tasks' = Touch(tasks, k)
            /\ agents' = ag
         \/ /\ k \notin Keys(tasks)
            /\ tasks' = Push(tasks, k, NewTask(at, FALSE), TaskCap)
            /\ agents' = UncountEvicted(ag, tasks, k)
      /\ UNCHANGED <<goals, lessons>>

(* Mutant of Started: the restarted task keeps its completion time.        *)
StartedStillCompleted(task, at, attempt) ==
  [task EXCEPT !.outcome = None, !.status = "running", !.attempt = attempt,
               !.blocked = FALSE, !.started_at = at, !.updated_at = at]

Started(task, at, attempt) ==
  [task EXCEPT !.outcome = None, !.status = "running", !.attempt = attempt,
               !.blocked = FALSE, !.completed_at = None, !.started_at = at,
               !.updated_at = at]

TaskStarted(a, at, t, attempt) ==
  LET k  == <<a, t>>
      tk == TasksWithTask(tasks, k, at)
      ag == AgentsWithTask(Observe(agents, tasks, a, at), tasks, k)
      r  == Uncount(ag.entry[a], tk.entry[k].outcome)
  IN  /\ tasks' = Advance(tk, k, at, Started(tk.entry[k], at, attempt))
      /\ agents' = AdvanceOwner(ag, tk, k, at,
                     [r EXCEPT !.status = "running", !.active_task = t])
      /\ UNCHANGED <<goals, lessons>>

(* A progress event reopens a completed task; with a blocker it is Blocked *)
(* rather than Running.                                                    *)
Progressed(task, at, level, blocked) ==
  [task EXCEPT !.outcome = None, !.progress = level, !.blocked = blocked,
               !.status = IF blocked THEN "blocked" ELSE "running",
               !.completed_at = None, !.updated_at = at]

ProgressUpdated(a, at, t, level, blocked) ==
  LET k  == <<a, t>>
      tk == TasksWithTask(tasks, k, at)
      ag == AgentsWithTask(Observe(agents, tasks, a, at), tasks, k)
      r  == Uncount(ag.entry[a], tk.entry[k].outcome)
  IN  /\ tasks' = Advance(tk, k, at, Progressed(tk.entry[k], at, level, blocked))
      /\ agents' = AdvanceOwner(ag, tk, k, at,
                     [r EXCEPT !.status = IF blocked THEN "blocked" ELSE "running",
                               !.active_task = t])
      /\ UNCHANGED <<goals, lessons>>

(* The reflection itself is payload; what it changes is the task's clock.  *)
ReflectionRecorded(a, at, t) ==
  LET k  == <<a, t>>
      tk == TasksWithTask(tasks, k, at)
      ag == Observe(agents, tasks, a, at)
  IN  /\ \/ /\ t = None
            /\ tasks' = tasks
            /\ agents' = ag
         \/ /\ t # None
            /\ tasks' = Advance(tk, k, at, [tk.entry[k] EXCEPT !.updated_at = at])
            /\ agents' = Touch(AgentsWithTask(ag, tasks, k), a)
      /\ UNCHANGED <<goals, lessons>>

LessonLearned(a, at, l) ==
  LET k == <<a, l>>
      n == IF k \in Keys(lessons) THEN lessons.entry[k].observations + 1 ELSE 1
  IN  /\ lessons' = Push(lessons, k, [learned_at |-> at, observations |-> n], LessonCap)
      /\ agents' = Observe(agents, tasks, a, at)
      /\ UNCHANGED <<goals, tasks>>

(* An error blocks the task and, whatever its age, the agent.  Unlike a    *)
(* start or a progress event it leaves the outcome and completed_at alone. *)
Errored(task, at) ==
  [task EXCEPT !.blocked = TRUE, !.status = "blocked", !.updated_at = at]

ErrorObserved(a, at, t) ==
  LET k  == <<a, t>>
      tk == TasksWithTask(tasks, k, at)
      ag == IF t = None THEN Observe(agents, tasks, a, at)
            ELSE AgentsWithTask(Observe(agents, tasks, a, at), tasks, k)
  IN  /\ tasks' = IF t = None THEN tasks
                  ELSE Advance(tk, k, at, Errored(tk.entry[k], at))
      /\ agents' = Update(ag, a, [ag.entry[a] EXCEPT !.status = "blocked"])
      /\ UNCHANGED <<goals, lessons>>

Completed(task, at, outcome) ==
  [task EXCEPT !.status = outcome, !.outcome = outcome, !.blocked = FALSE,
               !.progress = IF outcome = "succeeded" THEN 100 ELSE task.progress,
               !.completed_at = at, !.updated_at = at]

TaskCompleted(a, at, t, outcome) ==
  LET k  == <<a, t>>
      tk == TasksWithTask(tasks, k, at)
      ag == AgentsWithTask(Observe(agents, tasks, a, at), tasks, k)
      r  == Reconcile(ag.entry[a], tk.entry[k].outcome, outcome)
  IN  /\ tasks' = Advance(tk, k, at, Completed(tk.entry[k], at, outcome))
      /\ agents' = AdvanceOwner(ag, tk, k, at, [r EXCEPT !.active_task = None])
      /\ UNCHANGED <<goals, lessons>>

AgentStatusChanged(a, at, status) ==
  LET ag == Observe(agents, tasks, a, at)
  IN  /\ agents' = Update(ag, a, [ag.entry[a] EXCEPT !.status = status])
      /\ UNCHANGED <<goals, tasks, lessons>>

(* What an event of the given kind may do; its payload is any.             *)
ApplyKind(kind, a, at) ==
  \/ kind = "agent_registered" /\ \E st \in Statuses : AgentRegistered(a, at, st)
  \/ /\ kind = "heartbeat"
     /\ \E st \in Statuses \cup {None}, t \in TaskIds \cup {None} : Heartbeat(a, at, st, t)
  \/ kind = "goal_declared" /\ \E g \in GoalIds : GoalDeclared(a, at, g)
  \/ kind = "task_created" /\ \E t \in TaskIds : TaskCreated(a, at, t)
  \/ /\ kind = "task_started"
     /\ \E t \in TaskIds, n \in Attempts : TaskStarted(a, at, t, n)
  \/ /\ kind = "progress_updated"
     /\ \E t \in TaskIds, p \in Levels, b \in BOOLEAN : ProgressUpdated(a, at, t, p, b)
  \/ /\ kind = "reflection_recorded"
     /\ \E t \in TaskIds \cup {None} : ReflectionRecorded(a, at, t)
  \/ kind = "lesson_learned" /\ \E l \in LessonIds : LessonLearned(a, at, l)
  \/ kind = "error_observed" /\ \E t \in TaskIds \cup {None} : ErrorObserved(a, at, t)
  \/ /\ kind = "task_completed"
     /\ \E t \in TaskIds, o \in Outcomes : TaskCompleted(a, at, t, o)
  \/ kind = "agent_status_changed" /\ \E st \in Statuses : AgentStatusChanged(a, at, st)

-----------------------------------------------------------------------------
(* Ingestion.                                                              *)

(* Bookkeeping of an accepted event, after the reducer and under the same  *)
(* lock.                                                                   *)
Accept(id, tr) ==
  /\ revision' = revision + 1
  /\ counters' = [counters EXCEPT !.accepted = @ + 1, !.accepted_by[tr] = @ + 1]
  /\ seen' = Push(seen, id, revision + 1, IdempotencyCap)
  /\ events' = Push(events, id, revision + 1, EventCap)

(* What has reached the store, for better or worse; MaxDeliveries bounds   *)
(* it.                                                                     *)
Deliveries == counters.accepted + counters.duplicate + counters.rejected

(* An event whose id is not in the window.                                 *)
IngestNew(id, kind, a, at, tr) ==
  /\ id \notin Keys(seen)
  /\ ApplyKind(kind, a, at)
  /\ Accept(id, tr)

Ingest(id, tr) ==
  /\ Deliveries < MaxDeliveries
  /\ \E kind \in EventKinds, a \in Agents, at \in Times : IngestNew(id, kind, a, at, tr)

(* Mutant of IngestDuplicate: the replay also reads the event's record     *)
(* with `get`, which promotes it in the timeline.                          *)
IngestDuplicateReads(id) ==
  /\ Deliveries < MaxDeliveries
  /\ id \in Keys(seen)
  /\ seen' = Touch(seen, id)
  /\ events' = IF id \in Keys(events) THEN Touch(events, id) ELSE events
  /\ counters' = [counters EXCEPT !.duplicate = @ + 1]
  /\ UNCHANGED <<agents, goals, tasks, lessons, revision>>

(* An id still in the window: `get` refreshes its place there, the         *)
(* duplicate is counted, nothing is applied.                               *)
IngestDuplicate(id) ==
  /\ Deliveries < MaxDeliveries
  /\ id \in Keys(seen)
  /\ seen' = Touch(seen, id)
  /\ counters' = [counters EXCEPT !.duplicate = @ + 1]
  /\ UNCHANGED <<agents, goals, tasks, lessons, events, revision>>

(* A frame refused by a transport, or an envelope refused by validate.     *)
RecordRejection(tr) ==
  /\ Deliveries < MaxDeliveries
  /\ counters' = [counters EXCEPT !.rejected = @ + 1, !.rejected_by[tr] = @ + 1]
  /\ UNCHANGED <<agents, goals, tasks, lessons, events, seen, revision>>

(* A new process starts from an empty store: nothing of it is persisted.   *)
Reset ==
  /\ agents' = EmptyCache /\ goals' = EmptyCache /\ tasks' = EmptyCache
  /\ lessons' = EmptyCache /\ events' = EmptyCache /\ seen' = EmptyCache
  /\ revision' = 0
  /\ counters' = NoCounts

Next ==
  \/ \E id \in EventIds, tr \in Transports : Ingest(id, tr)
  \/ \E id \in EventIds : IngestDuplicate(id)
  \/ \E tr \in Transports : RecordRejection(tr)

Spec == Init /\ [][Next]_vars

-----------------------------------------------------------------------------
(* Properties.                                                             *)

(* Every projection is a well-formed bounded cache of values of its type.  *)
TypeOK ==
  /\ CacheOK(agents, Agents, AgentState, AgentCap)
  /\ CacheOK(goals, Agents \X GoalIds, Times, GoalCap)
  /\ CacheOK(tasks, TaskKeys, TaskState, TaskCap)
  /\ CacheOK(lessons, Agents \X LessonIds, LessonState, LessonCap)
  /\ CacheOK(events, EventIds, Nat, EventCap)
  /\ CacheOK(seen, EventIds, Nat, IdempotencyCap)
  /\ revision \in Nat
  /\ counters \in Counters

(* The counters of a retained agent are exactly the completed and the      *)
(* failed tasks the task cache still holds for it: no replay, correction,  *)
(* reopening, task eviction, agent eviction or re-creation drifts them     *)
(* (ensure_agent, insert_task, remove_completion_counter and               *)
(* reconcile_completion_counters together).                                *)
CountersMatchTasks ==
  \A a \in Keys(agents) :
    /\ agents.entry[a].completed_tasks = Cardinality(CountedTasks(tasks, a, "completed"))
    /\ agents.entry[a].failed_tasks = Cardinality(CountedTasks(tasks, a, "failed"))

(* A terminal status always carries its own outcome, a completion time and *)
(* (when succeeded) full progress; an outcome without its terminal status  *)
(* can only sit under a Blocked task, and a task without an outcome has no *)
(* completion time.  This is what the completion_mismatch diagnostic       *)
(* relies on the reducer for.                                              *)
Consistent(task) ==
  /\ (task.outcome = None) <=> (task.completed_at = None)
  /\ task.status \in TaskOutcome => task.outcome = task.status
  /\ task.outcome # None => task.status \in {task.outcome, "blocked"}
  /\ task.status = "succeeded" => task.progress = 100
  /\ task.blocked => task.status = "blocked"
CompletionConsistent == \A k \in Keys(tasks) : Consistent(tasks.entry[k])

(* Whatever order events arrive in, a task's timestamps stay in causal     *)
(* order: created, defined and started no later than its last update, and  *)
(* an attempt never started after the completion recorded for it.          *)
ClocksOrdered(task) ==
  /\ task.created_at <= task.definition_updated_at
  /\ task.definition_updated_at <= task.updated_at
  /\ task.started_at # None =>
       task.created_at <= task.started_at /\ task.started_at <= task.updated_at
  /\ task.completed_at # None => task.completed_at <= task.updated_at
  /\ task.started_at # None /\ task.completed_at # None =>
       task.started_at <= task.completed_at
TaskClocksOrdered == \A k \in Keys(tasks) : ClocksOrdered(tasks.entry[k])

(* The event timeline is in acceptance order, newest first, even when ids  *)
(* are replayed inside or outside the idempotency window: the recent       *)
(* events of a snapshot really are the most recently accepted ones.        *)
EventsNewestFirst ==
  \A i, j \in 1..Len(events.order) :
    i < j => events.entry[events.order[i]] > events.entry[events.order[j]]

(* Nothing is lost without being counted: the window holds or has evicted  *)
(* exactly one id per accepted event, the timeline never claims more than  *)
(* was accepted, and accepted events are what advances the revision.       *)
EvictionAccounting ==
  /\ counters.accepted = revision
  /\ Cardinality(Keys(seen)) + seen.evictions = revision
  /\ Cardinality(Keys(events)) + events.evictions <= revision
  /\ EventCap <= IdempotencyCap /\ counters.duplicate = 0 =>
       Keys(events) \subseteq Keys(seen)

(* For task execution fields, older events do not overwrite newer state:   *)
(* a retained task's clock never goes back, and an authoritative           *)
(* definition is never replaced by an earlier one nor becomes inferred     *)
(* again.                                                                  *)
TasksNeverGoBack ==
  [][\A k \in Keys(tasks) \cap Keys(tasks') :
       LET old == tasks.entry[k]
           new == tasks'.entry[k]
       IN  /\ new.updated_at >= old.updated_at
           /\ new.created_at <= old.created_at
           /\ ~old.inferred =>
                ~new.inferred /\ new.definition_updated_at >= old.definition_updated_at]_vars

(* A definition that reaches a task inferred from an out-of-order event    *)
(* enriches it without losing progress, attempt, blocker or outcome.       *)
EnrichmentKeepsExecution ==
  [][\A k \in Keys(tasks) \cap Keys(tasks') :
       LET old == tasks.entry[k]
           new == tasks'.entry[k]
       IN  old.inferred /\ ~new.inferred =>
             \A f \in {"status", "progress", "attempt", "blocked", "outcome",
                       "started_at", "completed_at"} : new[f] = old[f]]_vars
=============================================================================

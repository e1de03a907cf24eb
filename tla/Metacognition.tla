--------------------------- MODULE Metacognition ---------------------------
(***************************************************************************)
(* The analysis of a snapshot, src/src/metacognition: which tasks stand on *)
(* a dependency cycle, how long a chain each one still waits for, which    *)
(* are critical for their goal, which diagnostics each one gets, and what  *)
(* that makes of every goal and of the whole.                              *)
(*                                                                         *)
(* `tasks` is a function from the retained keys <<agent, task id>> to task *)
(* states; ids are numbers, for the order of the maps the code iterates.   *)
(* A state keeps what the analysis reads: depends_on, goal (0 for none),   *)
(* status, outcome, progress in percent, attempt, age (minutes from        *)
(* updated_at to the snapshot), artifacts, the confidence of the latest    *)
(* reflection and whether it has evidence, and whether there is a next     *)
(* action.                                                                 *)
(***************************************************************************)
EXTENDS Integers, Sequences, FiniteSets, SequencesExt

CONSTANTS
  StaleAfter,         \* stale_after_seconds, in minutes
  RetryLoopAttempts   \* retry_loop_attempts

ASSUME AnalysisPolicyAssumption == StaleAfter >= 1 /\ RetryLoopAttempts >= 2

ActiveStatuses == {"pending", "running", "blocked"}
TerminalStatuses == {"succeeded", "failed", "canceled", "partial"}
TaskStatuses == ActiveStatuses \cup TerminalStatuses
Confidences == {"none", "low", "sufficient"}

TaskStates ==
  [depends_on : Seq(Nat), goal : Nat, age : Nat, status : TaskStatuses,
   outcome : TerminalStatuses \cup {"none"}, progress : Nat, attempt : Nat,
   artifacts : BOOLEAN, evidence : BOOLEAN, confidence : Confidences, next_action : BOOLEAN]

(* The elements of a finite set in an order: before[x] is what goes before *)
(* x, so that x goes to the place behind all of it.                        *)
Listed(before) ==
  [i \in 1 .. Cardinality(DOMAIN before) |->
     CHOOSE x \in DOMAIN before : Cardinality(before[x]) = i - 1]

(* The order of a BTreeMap over task keys.                                 *)
KeyBefore(k, l) == k[1] < l[1] \/ (k[1] = l[1] /\ k[2] < l[2])
InOrder(keys) == Listed([k \in keys |-> {l \in keys : KeyBefore(l, k)}])

Key(k, dependency) == <<k[1], dependency>>

(* The keys that k depends on, in the order it lists them, and the         *)
(* retained ones among them.                                               *)
Dependencies(tasks, k) ==
  [i \in DOMAIN tasks[k].depends_on |-> Key(k, tasks[k].depends_on[i])]
Depends(tasks, k) == Range(Dependencies(tasks, k)) \cap DOMAIN tasks

(* dependency_state.                                                       *)
Missing(tasks, k) == {d \in Range(tasks[k].depends_on) : Key(k, d) \notin DOMAIN tasks}
Unresolved(tasks, k) ==
  {d \in Range(tasks[k].depends_on) \ Missing(tasks, k) :
     tasks[Key(k, d)].status # "succeeded"}

-----------------------------------------------------------------------------
(* The two recursive searches, with their calls made explicit: `stack`     *)
(* holds the tasks whose calls have not returned, todo[1] what the loop    *)
(* over all keys has still to look at, and todo[i + 1] what the call for   *)
(* stack[i] has.                                                           *)

Searches(tasks) ==
  {s \in [stack : Seq(DOMAIN tasks), todo : Seq(Seq(Nat \X Nat))] :
     Len(s.todo) = Len(s.stack) + 1}
Start(tasks) == [stack |-> <<>>, todo |-> <<InOrder(DOMAIN tasks)>>]

Over(s) == s.stack = <<>> /\ s.todo[1] = <<>>
Finished(s) == Last(s.todo) = <<>>
NextKey(s) == Head(Last(s.todo))

(* Nothing is to be done for the next key; it is called; a call returns.   *)
Passed(s) == [s EXCEPT !.todo = Append(Front(@), Tail(Last(@)))]
Called(tasks, s) ==
  [stack |-> Append(s.stack, NextKey(s)),
   todo  |-> Append(Passed(s).todo, Dependencies(tasks, NextKey(s)))]
Returned(s) == [stack |-> Front(s.stack), todo |-> Front(s.todo)]

-----------------------------------------------------------------------------
(* Dependency cycles.                                                      *)

(* Mutant of CycleOnStack: a loop of one task is not a cycle.              *)
CycleOnStack2(stack, k) ==
  IF Last(stack) = k THEN {}
  ELSE {stack[i] : i \in {i \in DOMAIN stack : \E h \in 1 .. i : stack[h] = k}}

(* The part of the stack from k on: the cycle that the search has closed.  *)
CycleOnStack(stack, k) ==
  {stack[i] : i \in {i \in DOMAIN stack : \E h \in 1 .. i : stack[h] = k}}

CycleSearches(tasks) ==
  [calls : Searches(tasks), done : SUBSET DOMAIN tasks, members : SUBSET DOMAIN tasks]

(* visit_cycle, by one call or return.                                     *)
VisitCycle(tasks, s) ==
  IF Finished(s.calls)
  THEN [s EXCEPT !.calls = Returned(@), !.done = @ \cup {Last(s.calls.stack)}]
  ELSE LET k == NextKey(s.calls)
       IN  IF k \in s.done \/ k \notin DOMAIN tasks
           THEN [s EXCEPT !.calls = Passed(@)]
           ELSE IF k \in Range(s.calls.stack)
           THEN [s EXCEPT !.calls = Passed(@), !.members = @ \cup CycleOnStack(s.calls.stack, k)]
           ELSE [s EXCEPT !.calls = Called(tasks, @)]

(* dependency_cycle_members; agents do not share tasks, so that one search *)
(* over all keys in order is one search per agent.                         *)
CycleMembers(tasks) ==
  LET search[s \in CycleSearches(tasks)] ==
        IF Over(s.calls) THEN s ELSE search[VisitCycle(tasks, s)]
  IN  search[[calls |-> Start(tasks), done |-> {}, members |-> {}]].members

-----------------------------------------------------------------------------
(* Remaining depth and critical paths.                                     *)

Unavailable == -1

(* Mutant of DepthAbove: a task adds nothing to its longest dependency.    *)
DepthAboveFlat(deepest) == IF deepest = 0 THEN 1 ELSE deepest

DepthAbove(deepest) == deepest + 1

(* memo has Unavailable where the code's map has no entry.                 *)
DepthSearches(tasks) ==
  [calls : Searches(tasks), memo : [DOMAIN tasks -> Nat \cup {Unavailable}]]

(* The longest dependency of k.  Its entry is what the call for it         *)
(* returned: a provisional one stays so until the call for k has ended.    *)
Deepest(tasks, memo, k) == Max({0} \cup {memo[d] : d \in Depends(tasks, k)})

(* remaining_depth, by one call or return.  The entry of k is 1 while its  *)
(* dependencies are being looked at.                                       *)
RemainingDepth(tasks, members, s) ==
  IF Finished(s.calls)
  THEN LET k == Last(s.calls.stack)
       IN  [calls |-> Returned(s.calls),
            memo  |-> [s.memo EXCEPT ![k] = DepthAbove(Deepest(tasks, s.memo, k))]]
  ELSE LET k == NextKey(s.calls)
       IN  IF k \notin DOMAIN tasks \/ s.memo[k] # Unavailable
           THEN [s EXCEPT !.calls = Passed(@)]
           ELSE IF tasks[k].status = "succeeded"
           THEN [calls |-> Passed(s.calls), memo |-> [s.memo EXCEPT ![k] = 0]]
           ELSE [calls |-> IF k \in members THEN Passed(s.calls) ELSE Called(tasks, s.calls),
                 memo  |-> [s.memo EXCEPT ![k] = 1]]

(* remaining_depths.                                                       *)
RemainingDepths(tasks, members) ==
  LET search[s \in DepthSearches(tasks)] ==
        IF Over(s.calls) THEN s ELSE search[RemainingDepth(tasks, members, s)]
  IN  search[[calls |-> Start(tasks), memo |-> [k \in DOMAIN tasks |-> Unavailable]]].memo

(* Mutant of GoalTasks: goal ids are not scoped by their agent.            *)
GoalTasksUnscoped(tasks, g) == {k \in DOMAIN tasks : tasks[k].goal = g[2]}

GoalTasks(tasks, g) == {k \in DOMAIN tasks : k[1] = g[1] /\ tasks[k].goal = g[2]}
GoalOf(tasks, k) == <<k[1], tasks[k].goal>>

(* critical_paths: a goal with a cycle member has no depth; otherwise it   *)
(* has that of its deepest tasks, which are critical while it is positive. *)
GoalDepth(tasks, members, depths, g) ==
  IF GoalTasks(tasks, g) \cap members # {} THEN Unavailable
  ELSE Max({depths[k] : k \in GoalTasks(tasks, g)})

CriticalTasks(tasks, members, depths) ==
  {k \in DOMAIN tasks :
     /\ tasks[k].goal # 0
     /\ GoalTasks(tasks, GoalOf(tasks, k)) \cap members = {}
     /\ depths[k] > 0
     /\ depths[k] = GoalDepth(tasks, members, depths, GoalOf(tasks, k))}

-----------------------------------------------------------------------------
(* Diagnostics.                                                            *)

(* Status, outcome and progress that do not form a consistent completion.  *)
CompletionMismatch(task) ==
  IF task.status \in TerminalStatuses
  THEN task.outcome # task.status \/ (task.status = "succeeded" /\ task.progress < 100)
  ELSE task.outcome # "none"

(* evidence_count > 0.                                                     *)
Evidenced(task) == task.evidence \/ task.artifacts

Rule(name, severity) == [rule |-> name, severity |-> severity]
When(condition, name, severity) == IF condition THEN {Rule(name, severity)} ELSE {}

(* The diagnostics analyze_with_policy adds for the task of k.             *)
Diagnostics(tasks, goals, members, k) ==
  LET task   == tasks[k]
      active == task.status \in ActiveStatuses
      over   == task.status \in TerminalStatuses
  IN  UNION {
        When(active /\ task.age >= StaleAfter, "stalled_task",
             IF task.status = "blocked" /\ task.age >= 2 * StaleAfter
               THEN "critical" ELSE "warning"),
        When(task.attempt >= RetryLoopAttempts /\ task.status \notin {"succeeded", "canceled"},
             "retry_loop", "warning"),
        When(task.status = "running" /\ Unresolved(tasks, k) # {},
             "blocked_dependency", "warning"),
        When(Missing(tasks, k) # {}, "orphan_dependency", "critical"),
        When(k \in members, "dependency_cycle", "critical"),
        When(task.goal # 0 /\ GoalOf(tasks, k) \notin goals, "orphan_goal", "warning"),
        When((task.progress > 0 \/ over) /\ ~Evidenced(task), "missing_evidence",
             IF over THEN "warning" ELSE "info"),
        When(task.confidence = "low", "low_confidence", "warning"),
        When(active /\ ~task.next_action, "missing_next_action",
             IF task.status = "blocked" THEN "warning" ELSE "info"),
        When(CompletionMismatch(task), "completion_mismatch", "critical")}

-----------------------------------------------------------------------------
(* Goals and the whole.  A mean is kept as its sum, a ratio as its         *)
(* numerator.                                                              *)

CountOf(tasks, T, statuses) == Cardinality({k \in T : tasks[k].status \in statuses})
SelfReported(tasks, T) == SumFunction([k \in T |-> tasks[k].progress])
WithEvidence(tasks, T) == {k \in T : Evidenced(tasks[k])}
EvidenceBacked(tasks, T) == SelfReported(tasks, WithEvidence(tasks, T))

(* The GoalAnalysis of a retained goal.  A goal without a task has no      *)
(* critical path either.                                                   *)
GoalAnalysis(tasks, members, depths, found, g) ==
  LET T         == GoalTasks(tasks, g)
      remaining == IF T = {} THEN Unavailable ELSE GoalDepth(tasks, members, depths, g)
  IN  [total     |-> Cardinality(T),
       active    |-> CountOf(tasks, T, ActiveStatuses),
       blocked   |-> CountOf(tasks, T, {"blocked"}),
       completed |-> CountOf(tasks, T, TerminalStatuses),
       stalled   |-> Cardinality({k \in T : tasks[k].status \in ActiveStatuses
                                            /\ tasks[k].age >= StaleAfter}),
       self_reported   |-> SelfReported(tasks, T),
       evidence_backed |-> EvidenceBacked(tasks, T),
       with_evidence   |-> Cardinality(WithEvidence(tasks, T)),
       critical_path_remaining |-> remaining,
       critical_path_tasks |-> T \cap CriticalTasks(tasks, members, depths),
       diagnostics |-> UNION {{<<k, d.rule>> : d \in found[k]} : k \in T},
       warnings |->
         {w \in {"no_tasks", "cycle", "missing_dependency"} :
            CASE w = "no_tasks" -> T = {}
              [] w = "cycle" -> remaining = Unavailable /\ T # {}
              [] w = "missing_dependency" -> \E k \in T : Missing(tasks, k) # {}}]

(* The MetacognitionSummary; it counts diagnostics where a goal counts     *)
(* tasks.                                                                  *)
Summary(tasks, goals, found) ==
  LET OfRule(r) == SumFunction([k \in DOMAIN tasks |-> Cardinality({d \in found[k] : d.rule = r})])
      OfSeverity(s) ==
        SumFunction([k \in DOMAIN tasks |-> Cardinality({d \in found[k] : d.severity = s})])
  IN  [goals    |-> Cardinality(goals),
       total    |-> Cardinality(DOMAIN tasks),
       active   |-> CountOf(tasks, DOMAIN tasks, ActiveStatuses),
       blocked  |-> CountOf(tasks, DOMAIN tasks, {"blocked"}),
       stalled  |-> OfRule("stalled_task"),
       retry_loops |-> OfRule("retry_loop"),
       severities  |-> [s \in {"critical", "warning", "info"} |-> OfSeverity(s)],
       self_reported   |-> SelfReported(tasks, DOMAIN tasks),
       evidence_backed |-> EvidenceBacked(tasks, DOMAIN tasks),
       with_evidence   |-> Cardinality(WithEvidence(tasks, DOMAIN tasks))]
=============================================================================

------------------------- MODULE CoordinationProofs -------------------------
(***************************************************************************)
(* Theorems about Coordination and the analysis it plans from, for every   *)
(* set of tasks, dependencies, goals and events and for all capacities and *)
(* limits.                                                                 *)
(*                                                                         *)
(* The plan is a function of the snapshot, so that the only inductive      *)
(* invariant of the specification is TypeOK.  The work is in the loops     *)
(* that compute the plan: each of the three (the search for cycles, that   *)
(* for depths, the rounds of the selection) has an invariant of its own,   *)
(* and LoopEnds carries it to the loop's result.                           *)
(***************************************************************************)
EXTENDS Coordination, Foundations

(* What is known of a snapshot's tasks.                                    *)
TasksOK(t) ==
  /\ DOMAIN t \subseteq Nat \X Nat /\ IsFiniteSet(DOMAIN t)
  /\ t \in [DOMAIN t -> TaskStates]

-----------------------------------------------------------------------------
(* Types.                                                                  *)

(* The limits are positive numbers.                                        *)
LEMMA Limits ==
  /\ MaxTasks \in Nat \ {0} /\ MaxGoals \in Nat \ {0}
  /\ MaxAssignments \in Nat \ {0} /\ MaxAssignmentsPerAgent \in Nat \ {0}
  /\ MaxInterventions \in Nat \ {0} /\ MaxHolds \in Nat \ {0}
BY PlanningPolicyAssumption

(* A definition that arrives makes a well-formed task.                     *)
LEMMA FreshOK ==
  ASSUME NEW d \in [depends_on : Seq(Nat), goal : Nat, age : Nat]
  PROVE  Fresh(d) \in TaskStates
BY DEF Fresh, TaskStates, TaskStatuses, ActiveStatuses, TerminalStatuses, Confidences

(* So is what an execution event finds.                                    *)
LEMMA FoundOK ==
  ASSUME TypeOK, NEW k \in Keys, NEW event, event.age \in Nat
  PROVE  Found(k, event) \in TaskStates
<1>1. CASE k \in DOMAIN tasks
  BY <1>1 DEF Found, TypeOK
<1>2. CASE k \notin DOMAIN tasks
  <2>1. [depends_on |-> <<>>, goal |-> 0, age |-> event.age]
          \in [depends_on : Seq(Nat), goal : Nat, age : Nat]
    OBVIOUS
  <2> QED
    BY <1>2, <2>1, FreshOK DEF Found, Inferred
<1> QED
  BY <1>1, <1>2

(* Storing a well-formed task keeps the cache within its capacity.         *)
LEMMA StoredOK ==
  ASSUME TypeOK, NEW k \in Keys, NEW task \in TaskStates, NEW t \in Stored(k, task)
  PROVE  /\ DOMAIN t \subseteq Keys /\ t \in [DOMAIN t -> TaskStates]
         /\ IsFiniteSet(DOMAIN t) /\ Cardinality(DOMAIN t) <= MaxTasks
<1>1. PICK kept \in Kept(k) : t = [l \in kept \cup {k} |-> IF l = k THEN task ELSE tasks[l]]
  BY DEF Stored
<1>2. kept \in SUBSET DOMAIN tasks
  BY DEF Kept
<1>3. DOMAIN t = kept \cup {k} /\ \A l \in DOMAIN t : t[l] \in TaskStates
  BY <1>1, <1>2 DEF TypeOK
<1>4. t \in [DOMAIN t -> TaskStates] /\ DOMAIN t \subseteq Keys
  <2>1. t = [l \in DOMAIN t |-> t[l]]
    BY <1>1
  <2> QED
    BY <1>2, <1>3, <2>1 DEF TypeOK
<1>5. IsFiniteSet(DOMAIN tasks) /\ Cardinality(DOMAIN tasks) \in Nat
      /\ Cardinality(DOMAIN tasks) <= MaxTasks
  BY FS_CardinalityType DEF TypeOK
<1>6. IsFiniteSet(kept) /\ Cardinality(kept) \in Nat
  BY <1>2, <1>5, FS_Subset, FS_CardinalityType
<1>7. /\ IsFiniteSet(kept \cup {k})
      /\ Cardinality(kept \cup {k}) = IF k \in kept THEN Cardinality(kept) ELSE Cardinality(kept) + 1
  BY <1>6, FS_AddElement
<1>8. Cardinality(kept \cup {k}) <= MaxTasks
  <2>1. CASE k \in DOMAIN tasks \/ Cardinality(DOMAIN tasks) < MaxTasks
    <3>1. kept = DOMAIN tasks
      BY <2>1 DEF Kept
    <3> QED
      BY <1>5, <1>7, <2>1, <3>1, Limits
  <2>2. CASE ~(k \in DOMAIN tasks \/ Cardinality(DOMAIN tasks) < MaxTasks)
    <3>1. PICK oldest \in DOMAIN tasks : kept = DOMAIN tasks \ {oldest}
      BY <2>2 DEF Kept
    <3>2. Cardinality(kept) = Cardinality(DOMAIN tasks) - 1
      BY <1>5, <3>1, FS_RemoveElement
    <3> QED
      BY <1>5, <1>6, <1>7, <3>2, Limits
  <2> QED
    BY <2>1, <2>2
<1> QED
  BY <1>3, <1>4, <1>7, <1>8

(* The part of TypeOK about the tasks, after a task was stored.            *)
LEMMA TasksStay ==
  ASSUME TypeOK, NEW k \in Keys, NEW task \in TaskStates, tasks' \in Stored(k, task),
         goals' = goals, offline' \in {offline, offline \ {k[1]}}
  PROVE  TypeOK'
BY StoredOK DEF TypeOK

LEMMA TypeInit == Init => TypeOK
<1> SUFFICES ASSUME Init PROVE TypeOK
  OBVIOUS
<1>1. DOMAIN tasks = {} /\ tasks = [k \in {} |-> tasks[k]] /\ goals = {} /\ offline = {}
  BY DEF Init
<1>2. IsFiniteSet({}) /\ Cardinality({}) = 0
  BY FS_EmptySet
<1> QED
  BY <1>1, <1>2, Limits DEF TypeOK

LEMMA TypeNext == TypeOK /\ [Next]_vars => TypeOK'
<1> SUFFICES ASSUME TypeOK, [Next]_vars PROVE TypeOK'
  OBVIOUS
<1>1. ASSUME NEW k \in Keys, NEW d \in Definitions[k], TaskCreated(k, d) PROVE TypeOK'
  <2>1. d \in [depends_on : Seq(Nat), goal : Nat, age : Nat]
    BY EventAssumption
  <2> DEFINE task == IF k \in DOMAIN tasks
                       THEN [tasks[k] EXCEPT !.depends_on = d.depends_on, !.goal = d.goal,
                                             !.age = Min({@, d.age})]
                       ELSE Fresh(d)
  <2>2. task \in TaskStates
    <3>1. CASE k \in DOMAIN tasks
      <4>1. tasks[k] \in TaskStates
        BY <3>1 DEF TypeOK
      <4>2. Min({tasks[k].age, d.age}) \in Nat
        <5>1. tasks[k].age \in Nat /\ d.age \in Nat
          BY <2>1, <4>1 DEF TaskStates
        <5>2. \E x \in {tasks[k].age, d.age} : \A y \in {tasks[k].age, d.age} : x =< y
          BY <5>1
        <5> QED
          BY <5>1, <5>2 DEF Min
      <4> QED
        BY <2>1, <3>1, <4>1, <4>2 DEF TaskStates
    <3>2. CASE k \notin DOMAIN tasks
      BY <2>1, <3>2, FreshOK
    <3> QED
      BY <3>1, <3>2
  <2>3. tasks' \in Stored(k, task) /\ goals' = goals /\ offline' = offline
    BY <1>1 DEF TaskCreated
  <2> HIDE DEF task
  <2> QED
    BY <2>2, <2>3, TasksStay
<1>2. ASSUME NEW k \in Keys, NEW e \in Reported(k, "task_started"), TaskStarted(k, e)
      PROVE  TypeOK'
  <2>1. e.age \in Nat /\ e.attempt \in Nat
    BY EventAssumption DEF Reported
  <2> DEFINE task == [Aged(Found(k, e), e) EXCEPT
                        !.status = "running", !.outcome = "none",
                        !.attempt = e.attempt, !.artifacts = FALSE]
  <2>2. task \in TaskStates
    <3>1. Found(k, e) \in TaskStates
      BY <2>1, FoundOK
    <3> QED
      BY <2>1, <3>1 DEF Aged, TaskStates, TaskStatuses, ActiveStatuses, TerminalStatuses
  <2>3. tasks' \in Stored(k, task) /\ goals' = goals /\ offline' = offline \ {k[1]}
    BY <1>2 DEF TaskStarted
  <2> HIDE DEF task
  <2> QED
    BY <2>2, <2>3, TasksStay
<1>3. ASSUME NEW k \in Keys, NEW e \in Reported(k, "progress_updated"), ProgressUpdated(k, e)
      PROVE  TypeOK'
  <2>1. e.age \in Nat /\ e.progress \in Nat /\ e.blocker \in BOOLEAN /\ e.next_action \in BOOLEAN
    BY EventAssumption DEF Reported
  <2> DEFINE task == [Aged(Found(k, e), e) EXCEPT
                        !.status = IF e.blocker THEN "blocked" ELSE "running",
                        !.outcome = "none", !.progress = e.progress,
                        !.next_action = e.next_action, !.artifacts = FALSE]
  <2>2. task \in TaskStates
    <3>1. Found(k, e) \in TaskStates
      BY <2>1, FoundOK
    <3> QED
      BY <2>1, <3>1 DEF Aged, TaskStates, TaskStatuses, ActiveStatuses, TerminalStatuses
  <2>3. tasks' \in Stored(k, task) /\ goals' = goals /\ offline' = offline \ {k[1]}
    BY <1>3 DEF ProgressUpdated
  <2> HIDE DEF task
  <2> QED
    BY <2>2, <2>3, TasksStay
<1>4. ASSUME NEW k \in Keys, NEW e \in Reported(k, "reflection_recorded"),
             ReflectionRecorded(k, e)
      PROVE  TypeOK'
  <2>1. /\ e.age \in Nat /\ e.confidence \in Confidences /\ e.evidence \in BOOLEAN
        /\ e.next_action \in BOOLEAN
    BY EventAssumption DEF Reported
  <2> DEFINE task == [Aged(Found(k, e), e) EXCEPT
                        !.confidence = e.confidence, !.evidence = e.evidence,
                        !.next_action = e.next_action]
  <2>2. task \in TaskStates
    <3>1. Found(k, e) \in TaskStates
      BY <2>1, FoundOK
    <3> QED
      BY <2>1, <3>1 DEF Aged, TaskStates, TaskStatuses, ActiveStatuses, TerminalStatuses
  <2>3. tasks' \in Stored(k, task) /\ goals' = goals /\ offline' = offline
    BY <1>4 DEF ReflectionRecorded
  <2> HIDE DEF task
  <2> QED
    BY <2>2, <2>3, TasksStay
<1>5. ASSUME NEW k \in Keys, NEW e \in Reported(k, "error_observed"), ErrorObserved(k, e)
      PROVE  TypeOK'
  <2>1. e.age \in Nat /\ e.next_action \in BOOLEAN
    BY EventAssumption DEF Reported
  <2> DEFINE task == [Aged(Found(k, e), e) EXCEPT
                        !.status = "blocked", !.next_action = e.next_action]
  <2>2. task \in TaskStates
    <3>1. Found(k, e) \in TaskStates
      BY <2>1, FoundOK
    <3> QED
      BY <2>1, <3>1 DEF Aged, TaskStates, TaskStatuses, ActiveStatuses, TerminalStatuses
  <2>3. goals' = goals /\ offline' = offline \ {k[1]} /\ (tasks' \in Stored(k, task) \/ tasks' = tasks)
    BY <1>5 DEF ErrorObserved
  <2> HIDE DEF task
  <2>4. CASE tasks' \in Stored(k, task)
    BY <2>2, <2>3, <2>4, TasksStay
  <2>5. CASE tasks' = tasks
    BY <2>3, <2>5 DEF TypeOK
  <2> QED
    BY <2>3, <2>4, <2>5
<1>6. ASSUME NEW k \in Keys, NEW e \in Reported(k, "task_completed"), TaskCompleted(k, e)
      PROVE  TypeOK'
  <2>1. e.age \in Nat /\ e.outcome \in TerminalStatuses /\ e.artifacts \in BOOLEAN
    BY EventAssumption DEF Reported
  <2> DEFINE task == [Aged(Found(k, e), e) EXCEPT
                        !.status = e.outcome, !.outcome = e.outcome,
                        !.progress = IF e.outcome = "succeeded" THEN 100 ELSE @,
                        !.artifacts = e.artifacts]
  <2>2. task \in TaskStates
    <3>1. Found(k, e) \in TaskStates
      BY <2>1, FoundOK
    <3> QED
      BY <2>1, <3>1, ZenonT(60) DEF Aged, TaskStates, TaskStatuses, ActiveStatuses, TerminalStatuses
  <2>3. tasks' \in Stored(k, task) /\ goals' = goals /\ offline' = offline \ {k[1]}
    BY <1>6 DEF TaskCompleted
  <2> HIDE DEF task
  <2> QED
    BY <2>2, <2>3, TasksStay
<1>7. ASSUME NEW g \in Goals, GoalDeclared(g) PROVE TypeOK'
  <2>1. IsFiniteSet(goals) /\ Cardinality(goals) \in Nat /\ Cardinality(goals) <= MaxGoals
    BY FS_CardinalityType DEF TypeOK
  <2>2. CASE g \in goals
    <3>1. goals' = goals
      BY <1>7, <2>2 DEF GoalDeclared
    <3> QED
      BY <1>7, <3>1 DEF TypeOK, GoalDeclared
  <2>3. CASE g \notin goals /\ Cardinality(goals) < MaxGoals
    <3>1. goals' = goals \cup {g}
      BY <1>7, <2>3 DEF GoalDeclared
    <3>2. IsFiniteSet(goals') /\ Cardinality(goals') = Cardinality(goals) + 1
      BY <2>1, <2>3, <3>1, FS_AddElement
    <3> QED
      BY <1>7, <2>1, <2>3, <3>1, <3>2, Limits DEF TypeOK, GoalDeclared
  <2>4. CASE g \notin goals /\ ~(Cardinality(goals) < MaxGoals)
    <3>1. PICK oldest \in goals : goals' = (goals \ {oldest}) \cup {g}
      BY <1>7, <2>4 DEF GoalDeclared
    <3>2. IsFiniteSet(goals \ {oldest}) /\ Cardinality(goals \ {oldest}) = Cardinality(goals) - 1
      BY <2>1, FS_RemoveElement
    <3>3. IsFiniteSet(goals') /\ Cardinality(goals') = Cardinality(goals \ {oldest}) + 1
      BY <2>4, <3>1, <3>2, FS_AddElement
    <3> QED
      BY <1>7, <2>1, <3>1, <3>2, <3>3, Limits DEF TypeOK, GoalDeclared
  <2> QED
    BY <2>2, <2>3, <2>4
<1>8. ASSUME NEW a \in Agents, AgentOffline(a) \/ AgentBack(a) PROVE TypeOK'
  BY <1>8 DEF AgentOffline, AgentBack, TypeOK
<1>9. CASE UNCHANGED vars
  BY <1>9 DEF vars, TypeOK
<1> QED
  BY <1>1, <1>2, <1>3, <1>4, <1>5, <1>6, <1>7, <1>8, <1>9 DEF Next

(* The retained tasks, goals and agents are well formed and within the     *)
(* capacities of their caches, whatever events arrive in whatever order.   *)
THEOREM Types == Spec => []TypeOK
BY TypeInit, TypeNext, PTL DEF Spec

LEMMA SnapshotOK == TypeOK => TasksOK(tasks)
BY EventAssumption DEF TypeOK, TasksOK

-----------------------------------------------------------------------------
(* Sorted lists.                                                           *)

(* s lists the elements of S, each once.                                   *)
IsListing(s, S) ==
  /\ s \in Seq(S) /\ Len(s) = Cardinality(S)
  /\ \A x \in S : \E i \in 1..Len(s) : s[i] = x
  /\ \A i, j \in 1..Len(s) : s[i] = s[j] => i = j

LEMMA ListedOK ==
  ASSUME NEW S, IsFiniteSet(S), NEW B \in [S -> SUBSET S],
         \A x \in S : x \notin B[x],
         \A x, y \in S : x \in B[y] => B[x] \subseteq B[y],
         \A x, y \in S : x # y => x \in B[y] \/ y \in B[x]
  PROVE  /\ IsListing(Listed(B), S)
         /\ \A i, j \in 1..Len(Listed(B)) : i < j <=> Listed(B)[i] \in B[Listed(B)[j]]
<1> DEFINE n == Cardinality(S)
           e(i) == CHOOSE x \in S : Cardinality(B[x]) = i - 1
           s == Listed(B)
<1>1. n \in Nat /\ DOMAIN B = S
  BY FS_CardinalityType
<1>2. \A i \in 1..n : \E x \in S : Cardinality(B[x]) = i - 1
  BY Ranks
<1>3. \A i \in 1..n : e(i) \in S /\ Cardinality(B[e(i)]) = i - 1
  BY <1>2
<1>4. s = [i \in 1..n |-> e(i)]
  BY <1>1 DEF Listed
<1> HIDE DEF e, s
<1>5. \A i \in 1..n : s[i] \in S /\ Cardinality(B[s[i]]) = i - 1
  BY <1>3, <1>4
<1>6. s \in [1..n -> S]
  BY <1>4, <1>5
<1>7. s \in Seq(S) /\ Len(s) = n
  BY <1>1, <1>6, FunctionIsSeq
<1>8. /\ \A x \in S : \E i \in 1..n : s[i] = x
      /\ \A i, j \in 1..n : i < j <=> s[i] \in B[s[j]]
  BY <1>5, RankedList
<1>9. \A i, j \in 1..n : s[i] = s[j] => i = j
  BY <1>1, <1>5, <1>8
<1> QED
  BY <1>7, <1>8, <1>9 DEF IsListing, s

(* A listing without its set: its range is the set.                        *)
LEMMA ListingRange ==
  ASSUME NEW S, NEW s, IsListing(s, S)
  PROVE  /\ s \in Seq(S) /\ Len(s) \in Nat /\ s \in [1..Len(s) -> S] /\ DOMAIN s = 1..Len(s)
         /\ Range(s) = S /\ IsFiniteSet(S) /\ Cardinality(S) = Len(s)
<1>1. s \in Seq(S) /\ \A i, j \in 1..Len(s) : s[i] = s[j] => i = j
  BY DEF IsListing
<1>2. /\ Range(s) = {s[i] : i \in 1..Len(s)} /\ IsFiniteSet(Range(s))
      /\ Cardinality(Range(s)) = Len(s)
  BY <1>1, ListSize
<1>3. Range(s) = S
  BY <1>1, <1>2 DEF IsListing
<1>4. Len(s) \in Nat /\ s \in [1..Len(s) -> S] /\ DOMAIN s = 1..Len(s)
  <2>1. s \in Seq(S)
    BY ZenonT(60) DEF IsListing
  <2> QED
    BY <2>1
<1>5. IsFiniteSet(S) /\ Cardinality(S) = Len(s)
  BY <1>2, <1>3
<1> QED
  BY <1>1, <1>3, <1>4, <1>5

LEMMA InOrderOK ==
  ASSUME NEW S \in SUBSET (Nat \X Nat), IsFiniteSet(S)
  PROVE  IsListing(InOrder(S), S)
<1> DEFINE B == [k \in S |-> {l \in S : KeyBefore(l, k)}]
<1>1. \A k \in S : k[1] \in Nat /\ k[2] \in Nat /\ k = <<k[1], k[2]>>
  OBVIOUS
<1>2. /\ \A x \in S : ~KeyBefore(x, x)
      /\ \A x, y, z \in S : KeyBefore(x, y) /\ KeyBefore(y, z) => KeyBefore(x, z)
  BY <1>1 DEF KeyBefore
<1>3. \A x, y \in S : x # y => KeyBefore(x, y) \/ KeyBefore(y, x)
  <2> SUFFICES ASSUME NEW x \in S, NEW y \in S, x # y PROVE KeyBefore(x, y) \/ KeyBefore(y, x)
    OBVIOUS
  <2>1. x[1] # y[1] \/ x[2] # y[2]
    BY <1>1
  <2> QED
    BY <1>1, <2>1 DEF KeyBefore
<1>4. B \in [S -> SUBSET S] /\ \A x, y \in S : x \in B[y] <=> KeyBefore(x, y)
  OBVIOUS
<1>5. InOrder(S) = Listed(B)
  BY DEF InOrder
<1> HIDE DEF B
<1>6. /\ \A x \in S : x \notin B[x]
      /\ \A x, y \in S : x \in B[y] => B[x] \subseteq B[y]
      /\ \A x, y \in S : x # y => x \in B[y] \/ y \in B[x]
  BY <1>2, <1>3, <1>4
<1> QED
  BY <1>4, <1>5, <1>6, ListedOK

(* A decision that every retained task has got, with its priority.         *)
DecisionOK(d) ==
  /\ DOMAIN d \subseteq Keys /\ IsFiniteSet(DOMAIN d)
  /\ \A k \in DOMAIN d : /\ d[k].priority \in Nat
                         /\ d[k].kind \in {"intervention", "hold", "candidate"}

LEMMA RankedOK ==
  ASSUME NEW d, DecisionOK(d), NEW S \in SUBSET DOMAIN d
  PROVE  /\ IsListing(Ranked(d, S), S)
         /\ \A i, j \in 1..Len(Ranked(d, S)) :
              i < j => d[Ranked(d, S)[i]].priority >= d[Ranked(d, S)[j]].priority
<1> DEFINE B == [k \in S |-> {l \in S : RankedBefore(d, l, k)}]
           P(k, l) == RankedBefore(d, k, l)
<1>1. IsFiniteSet(S)
  BY FS_Subset DEF DecisionOK
<1>2. \A k \in S : k[1] \in Nat /\ k[2] \in Nat /\ k = <<k[1], k[2]>> /\ d[k].priority \in Nat
  <2>1. \A k \in S : k \in Nat \X Nat /\ d[k].priority \in Nat
    BY EventAssumption DEF DecisionOK
  <2> QED
    BY <2>1
<1>3. /\ \A x \in S : ~P(x, x)
      /\ \A x, y, z \in S : P(x, y) /\ P(y, z) => P(x, z)
  BY <1>2 DEF RankedBefore, KeyBefore
<1>4. \A x, y \in S : x # y => P(x, y) \/ P(y, x)
  <2> SUFFICES ASSUME NEW x \in S, NEW y \in S, x # y PROVE P(x, y) \/ P(y, x)
    OBVIOUS
  <2>1. x[1] # y[1] \/ x[2] # y[2]
    BY <1>2
  <2> QED
    BY <1>2, <2>1 DEF RankedBefore, KeyBefore
<1>5. B \in [S -> SUBSET S] /\ \A x, y \in S : x \in B[y] <=> P(x, y)
  OBVIOUS
<1>6. Ranked(d, S) = Listed(B)
  BY DEF Ranked
<1> HIDE DEF B, P
<1>7. /\ \A x \in S : x \notin B[x]
      /\ \A x, y \in S : x \in B[y] => B[x] \subseteq B[y]
      /\ \A x, y \in S : x # y => x \in B[y] \/ y \in B[x]
  BY <1>3, <1>4, <1>5
<1>8. /\ IsListing(Ranked(d, S), S)
      /\ \A i, j \in 1..Len(Ranked(d, S)) : i < j <=> Ranked(d, S)[i] \in B[Ranked(d, S)[j]]
  BY <1>1, <1>5, <1>6, <1>7, ListedOK
<1>9. ASSUME NEW i \in 1..Len(Ranked(d, S)), NEW j \in 1..Len(Ranked(d, S)), i < j
      PROVE  d[Ranked(d, S)[i]].priority >= d[Ranked(d, S)[j]].priority
  <2> DEFINE x == Ranked(d, S)[i]
             y == Ranked(d, S)[j]
  <2>1. x \in S /\ y \in S
    BY <1>8, ListingRange
  <2>2. P(x, y)
    BY <1>5, <1>8, <1>9, <2>1
  <2> QED
    BY <1>2, <2>1, <2>2 DEF P, RankedBefore
<1> QED
  BY <1>8, <1>9

-----------------------------------------------------------------------------
(* The selection.                                                          *)

Candidates(d, a) == {k \in OfKind(d, "candidate") : k[1] = a}

(* The queues hold distinct tasks of their agents, and the order lists     *)
(* agents, each once.                                                      *)
QueuesOK(q, o) ==
  /\ q \in [Agents -> Seq(Keys)]
  /\ \A a \in Agents : \A i, j \in 1..Len(q[a]) : q[a][i] = q[a][j] => i = j
  /\ \A a \in Agents : \A i \in 1..Len(q[a]) : q[a][i][1] = a
  /\ o \in Seq(Agents)
  /\ \A i, j \in 1..Len(o) : o[i] = o[j] => i = j

(* The agent has all it may get.                                           *)
Served(s, q, a) == s.given[a] = MaxAssignmentsPerAgent \/ s.given[a] = Len(q[a])

(* How many turns the agent at place p has had, after r rounds.            *)
TurnsHad(s, r, p) == IF p < s.turn THEN r + 1 ELSE r

(* After r rounds every agent has got one assignment per turn, unless it   *)
(* has all it may get or the plan is full.                                 *)
InRound(s, q, o, r) ==
  \A p \in 1..Len(o) :
    /\ s.given[o[p]] <= TurnsHad(s, r, p)
    /\ \/ s.given[o[p]] = TurnsHad(s, r, p)
       \/ Served(s, q, o[p])
       \/ Full(s) /\ s.given[o[p]] >= r

(* What has been selected are the first given[a] tasks of each queue.      *)
Popped(s, q) ==
  /\ \A i, j \in 1..Len(s.selected) : s.selected[i] = s.selected[j] => i = j
  /\ \A i \in 1..Len(s.selected) :
       \E a \in Agents : \E j \in 1..s.given[a] : s.selected[i] = q[a][j]
  /\ \A a \in Agents : \A j \in 1..s.given[a] :
       \E i \in 1..Len(s.selected) : s.selected[i] = q[a][j]

SelectionInv(s, q, o) ==
  /\ s \in Selections
  /\ s.turn <= Len(o) + 1 /\ Len(s.selected) <= MaxAssignments
  /\ \A a \in Agents : s.given[a] <= Len(q[a]) /\ s.given[a] <= MaxAssignmentsPerAgent
  /\ Popped(s, q)
  /\ \E r \in Nat : InRound(s, q, o, r)
  /\ ~s.made_progress /\ ~Full(s) =>
       \A p \in 1..Len(o) : p < s.turn => Served(s, q, o[p])

SelectionEnds(s, o) == RoundOver(s, o) /\ (Full(s) \/ ~s.made_progress)
SelectionStep(s, q, o) == IF RoundOver(s, o) THEN NextRound(s) ELSE Turn(s, q, o[s.turn])

LEMMA FirstRoundOK ==
  ASSUME NEW q, NEW o, QueuesOK(q, o)
  PROVE  SelectionInv(FirstRound, q, o)
<1> DEFINE s == FirstRound
<1>1. s \in Selections /\ s.turn = 1 /\ s.selected = <<>> /\ \A a \in Agents : s.given[a] = 0
  BY DEF FirstRound, Selections
<1> HIDE DEF s
<1>2. Len(s.selected) = 0 /\ Len(o) \in Nat /\ \A p \in 1..Len(o) : o[p] \in Agents
  BY <1>1 DEF QueuesOK
<1>3. \A a \in Agents : Len(q[a]) \in Nat
  BY DEF QueuesOK
<1>4. Popped(s, q)
  BY <1>1, <1>2 DEF Popped
<1>5. InRound(s, q, o, 0)
  BY <1>1, <1>2 DEF InRound, TurnsHad
<1>6. \A p \in 1..Len(o) : ~(p < s.turn)
  BY <1>1
<1>7. s.turn <= Len(o) + 1 /\ Len(s.selected) <= MaxAssignments
  BY <1>1, <1>2, Limits
<1>8. \A a \in Agents : s.given[a] <= Len(q[a]) /\ s.given[a] <= MaxAssignmentsPerAgent
  BY <1>1, <1>3, Limits
<1> QED
  BY <1>1, <1>4, <1>5, <1>6, <1>7, <1>8 DEF SelectionInv, s

(* What a turn without an assignment changes.                              *)
LEMMA RoundFields ==
  ASSUME NEW s \in Selections
  PROVE  [s EXCEPT !.turn = @ + 1] = [selected |-> s.selected, given |-> s.given,
                                      turn |-> s.turn + 1, made_progress |-> s.made_progress]
BY DEF Selections

(* The loop's body stays among the states of the loop.                     *)
LEMMA SelectionTyped ==
  ASSUME NEW q, NEW o, QueuesOK(q, o), NEW s \in Selections
  PROVE  SelectionStep(s, q, o) \in Selections
<1>1. CASE RoundOver(s, o)
  BY <1>1 DEF SelectionStep, NextRound, Selections
<1>2. CASE ~RoundOver(s, o)
  <2> DEFINE a == o[s.turn]
  <2>1. a \in Agents
    <3>1. s.turn \in 1..Len(o)
      BY <1>2 DEF RoundOver, Selections, QueuesOK
    <3> QED
      BY <3>1 DEF QueuesOK
  <2>2. CASE Full(s) \/ s.given[a] >= MaxAssignmentsPerAgent \/ s.given[a] >= Len(q[a])
    <3>1. SelectionStep(s, q, o) = [s EXCEPT !.turn = @ + 1]
      BY <1>2, <2>2 DEF SelectionStep, Turn
    <3> QED
      BY <3>1, RoundFields DEF Selections
  <2>3. CASE ~(Full(s) \/ s.given[a] >= MaxAssignmentsPerAgent \/ s.given[a] >= Len(q[a]))
    <3> DEFINE k == q[a][s.given[a] + 1]
    <3>1. k \in Keys
      <4>1. s.given[a] \in Nat /\ q[a] \in Seq(Keys) /\ Len(q[a]) \in Nat
        BY <2>1 DEF Selections, QueuesOK
      <4>2. s.given[a] + 1 \in 1..Len(q[a])
        BY <2>3, <4>1
      <4> QED
        BY <4>1, <4>2
    <3>2. SelectionStep(s, q, o) =
            [selected |-> Append(s.selected, k), given |-> [s.given EXCEPT ![a] = @ + 1],
             turn |-> s.turn + 1, made_progress |-> TRUE]
      BY <1>2, <2>3 DEF SelectionStep, Turn
    <3> HIDE DEF k
    <3>3. /\ Append(s.selected, k) \in Seq(Keys) /\ s.turn + 1 \in Nat \ {0}
          /\ [s.given EXCEPT ![a] = @ + 1] \in [Agents -> Nat]
      BY <2>1, <3>1 DEF Selections
    <3> QED
      BY <3>2, <3>3 DEF Selections
  <2> QED
    BY <2>2, <2>3
<1> QED
  BY <1>1, <1>2

(* A new round begins only when every agent has had its turn.              *)
LEMMA NextRoundOK ==
  ASSUME NEW q, NEW o, QueuesOK(q, o), NEW s, SelectionInv(s, q, o),
         RoundOver(s, o), ~SelectionEnds(s, o)
  PROVE  SelectionInv(NextRound(s), q, o)
<1> DEFINE t == NextRound(s)
<1>1. /\ s \in Selections /\ t \in Selections /\ t.turn = 1
      /\ t.selected = s.selected /\ t.given = s.given
  BY DEF SelectionInv, NextRound, Selections
<1> HIDE DEF t
<1>2. s.turn > Len(o) /\ ~Full(s) /\ Len(o) \in Nat /\ s.turn \in Nat
      /\ \A p \in 1..Len(o) : o[p] \in Agents /\ s.given[o[p]] \in Nat
  BY <1>1 DEF RoundOver, SelectionEnds, QueuesOK, Selections
<1>3. PICK r \in Nat : InRound(s, q, o, r)
  BY DEF SelectionInv
<1>4. InRound(t, q, o, r + 1)
  <2> SUFFICES ASSUME NEW p \in 1..Len(o)
               PROVE  /\ t.given[o[p]] <= r + 1
                      /\ t.given[o[p]] = r + 1 \/ Served(t, q, o[p])
    BY <1>1, <1>2 DEF InRound, TurnsHad
  <2>1. TurnsHad(s, r, p) = r + 1
    BY <1>2 DEF TurnsHad
  <2>2. /\ s.given[o[p]] <= r + 1
        /\ s.given[o[p]] = r + 1 \/ Served(s, q, o[p])
    BY <1>2, <1>3, <2>1 DEF InRound
  <2> QED
    BY <1>1, <2>2 DEF Served
<1>5. Popped(t, q)
  <2>1. Popped(s, q)
    BY DEF SelectionInv
  <2> QED
    BY <1>1, <2>1 DEF Popped
<1>6. t.turn <= Len(o) + 1 /\ \A p \in 1..Len(o) : ~(p < t.turn)
  BY <1>1, <1>2
<1>7. /\ Len(t.selected) <= MaxAssignments
      /\ \A a \in Agents : t.given[a] <= Len(q[a]) /\ t.given[a] <= MaxAssignmentsPerAgent
  BY <1>1 DEF SelectionInv
<1> QED
  BY <1>1, <1>3, <1>4, <1>5, <1>6, <1>7 DEF SelectionInv, t

(* A turn without an assignment.                                           *)
LEMMA SkipOK ==
  ASSUME NEW q, NEW o, QueuesOK(q, o), NEW s, SelectionInv(s, q, o), ~RoundOver(s, o),
         \/ Full(s) \/ s.given[o[s.turn]] >= MaxAssignmentsPerAgent
         \/ s.given[o[s.turn]] >= Len(q[o[s.turn]])
  PROVE  LET t == Turn(s, q, o[s.turn])
         IN  SelectionInv(t, q, o) /\ t.selected = s.selected /\ t.turn = s.turn + 1
             /\ t.made_progress = s.made_progress
<1> DEFINE t == Turn(s, q, o[s.turn])
           a == o[s.turn]
<1>1. /\ s \in Selections /\ t \in Selections /\ t.turn = s.turn + 1
      /\ t.made_progress = s.made_progress /\ t.selected = s.selected /\ t.given = s.given
  <2>1. s \in Selections
    BY DEF SelectionInv
  <2>2. t = [s EXCEPT !.turn = @ + 1]
    BY DEF Turn
  <2> QED
    BY <2>1, <2>2, RoundFields DEF Selections
<1> HIDE DEF t
<1>2. /\ Len(o) \in Nat /\ s.turn \in 1..Len(o) /\ \A p \in 1..Len(o) : o[p] \in Agents
      /\ \A b \in Agents : s.given[b] \in Nat /\ Len(q[b]) \in Nat
  BY <1>1 DEF RoundOver, QueuesOK, Selections
<1>3. PICK r \in Nat : InRound(s, q, o, r)
  BY DEF SelectionInv
<1>4. \A b \in Agents : Served(t, q, b) <=> Served(s, q, b)
  BY <1>1 DEF Served
<1>5. Full(t) <=> Full(s)
  BY <1>1 DEF Full
<1>6. Full(s) \/ Served(s, q, a)
  BY <1>2, Limits DEF SelectionInv, Served
<1>7. InRound(t, q, o, r)
  <2> SUFFICES ASSUME NEW p \in 1..Len(o)
               PROVE  /\ t.given[o[p]] <= TurnsHad(t, r, p)
                      /\ \/ t.given[o[p]] = TurnsHad(t, r, p)
                         \/ Served(t, q, o[p])
                         \/ Full(t) /\ t.given[o[p]] >= r
    BY DEF InRound
  <2>1. /\ s.given[o[p]] <= TurnsHad(s, r, p)
        /\ \/ s.given[o[p]] = TurnsHad(s, r, p)
           \/ Served(s, q, o[p])
           \/ Full(s) /\ s.given[o[p]] >= r
    BY <1>3 DEF InRound
  <2>2. CASE p # s.turn
    <3>1. TurnsHad(t, r, p) = TurnsHad(s, r, p)
      BY <1>1, <1>2, <2>2 DEF TurnsHad
    <3> QED
      BY <1>1, <1>2, <1>4, <1>5, <2>1, <3>1
  <2>3. CASE p = s.turn
    <3>1. TurnsHad(t, r, p) = r + 1 /\ TurnsHad(s, r, p) = r
      BY <1>1, <1>2, <2>3 DEF TurnsHad
    <3>2. s.given[o[p]] \in Nat /\ o[p] \in Agents
      BY <1>2
    <3>3. CASE Served(s, q, o[p])
      BY <1>1, <1>4, <2>1, <3>1, <3>2, <3>3
    <3>4. CASE ~Served(s, q, o[p])
      BY <1>1, <1>4, <1>5, <1>6, <2>1, <2>3, <3>1, <3>2, <3>4
    <3> QED
      BY <3>3, <3>4
  <2> QED
    BY <2>2, <2>3
<1>8. Popped(t, q)
  <2>1. Popped(s, q)
    BY DEF SelectionInv
  <2> QED
    BY <1>1, <2>1 DEF Popped
<1>9. ASSUME ~t.made_progress, ~Full(t), NEW p \in 1..Len(o), p < t.turn
      PROVE  Served(t, q, o[p])
  <2>1. CASE p = s.turn
    BY <1>2, <1>4, <1>5, <1>6, <1>9, <2>1
  <2>2. CASE p < s.turn
    <3>1. Served(s, q, o[p])
      BY <1>1, <1>5, <1>9, <2>2 DEF SelectionInv
    <3> QED
      BY <1>2, <1>4, <3>1
  <2> QED
    BY <1>1, <1>2, <1>9, <2>1, <2>2
<1>10. t.turn <= Len(o) + 1
  BY <1>1, <1>2
<1>11. /\ Len(t.selected) <= MaxAssignments
       /\ \A b \in Agents : t.given[b] <= Len(q[b]) /\ t.given[b] <= MaxAssignmentsPerAgent
  BY <1>1 DEF SelectionInv
<1>12. SelectionInv(t, q, o)
  BY <1>1, <1>3, <1>7, <1>8, <1>9, <1>10, <1>11 DEF SelectionInv
<1> QED
  BY <1>1, <1>12 DEF t

(* A turn with one.                                                        *)
LEMMA TakeOK ==
  ASSUME NEW q, NEW o, QueuesOK(q, o), NEW s, SelectionInv(s, q, o), ~RoundOver(s, o),
         ~(\/ Full(s) \/ s.given[o[s.turn]] >= MaxAssignmentsPerAgent
           \/ s.given[o[s.turn]] >= Len(q[o[s.turn]]))
  PROVE  LET t == Turn(s, q, o[s.turn])
         IN  SelectionInv(t, q, o) /\ Len(t.selected) = Len(s.selected) + 1
<1> DEFINE t == Turn(s, q, o[s.turn])
           a == o[s.turn]
           g == s.given[a]
           k == q[a][g + 1]
           n == Len(s.selected)
<1>0. s \in Selections /\ s.turn \in 1..Len(o) /\ Len(o) \in Nat /\ o \in Seq(Agents)
  BY SMTT(30) DEF SelectionInv, RoundOver, QueuesOK, Selections
<1>1. /\ t.turn = s.turn + 1 /\ t.made_progress = TRUE /\ t.selected = Append(s.selected, k)
      /\ t.given = [s.given EXCEPT ![a] = @ + 1]
  BY DEF Turn
<1>2. t \in Selections
  BY <1>0, SelectionTyped DEF SelectionStep
<1> HIDE DEF t
<1>3. /\ a \in Agents /\ \A p \in 1..Len(o) : o[p] \in Agents
      /\ \A b \in Agents : s.given[b] \in Nat /\ Len(q[b]) \in Nat /\ q[b] \in Seq(Keys)
      /\ s.given \in [Agents -> Nat] /\ s.selected \in Seq(Keys) /\ n \in Nat
  BY <1>0, SMTT(30) DEF QueuesOK, Selections
<1>4. /\ t.given[a] = g + 1 /\ \A b \in Agents : b # a => t.given[b] = s.given[b]
      /\ g \in Nat /\ g < MaxAssignmentsPerAgent /\ g < Len(q[a]) /\ g + 1 \in 1..Len(q[a])
  BY <1>1, <1>3, Limits
<1>5. /\ Len(t.selected) = n + 1 /\ t.selected[n + 1] = k
      /\ \A i \in 1..n : t.selected[i] = s.selected[i]
  BY <1>1, <1>3
<1> HIDE DEF k, a, g
<1>6. Popped(s, q)
  BY DEF SelectionInv
<1>7. ASSUME NEW i \in 1..n PROVE s.selected[i] # k
  <2>0. PICK b \in Agents : \E j \in 1..s.given[b] : s.selected[i] = q[b][j]
    BY <1>6 DEF Popped
  <2>1. PICK j \in 1..s.given[b] : s.selected[i] = q[b][j]
    BY <2>0
  <2>2. j \in 1..Len(q[b])
    BY <1>3 DEF SelectionInv
  <2>3. q[b][j][1] = b /\ k[1] = a
    BY <1>3, <1>4, <2>2 DEF QueuesOK, k
  <2>4. CASE b = a
    <3>1. j # g + 1
      BY <1>4, <2>4 DEF g
    <3> QED
      BY <1>3, <1>4, <2>1, <2>2, <2>4, <3>1 DEF QueuesOK, k
  <2> QED
    BY <2>1, <2>3, <2>4
<1>8. Popped(t, q)
  <2>1. ASSUME NEW i \in 1..Len(t.selected), NEW j \in 1..Len(t.selected),
               t.selected[i] = t.selected[j]
        PROVE  i = j
    <3>1. \A x \in 1..(n + 1) : x = n + 1 \/ x \in 1..n
      BY <1>3
    <3> QED
      BY <1>3, <1>5, <1>6, <1>7, <2>1, <3>1, ZenonT(60) DEF Popped
  <2>2. ASSUME NEW i \in 1..Len(t.selected)
        PROVE  \E b \in Agents : \E j \in 1..t.given[b] : t.selected[i] = q[b][j]
    <3>1. CASE i = n + 1
      <4>1. g + 1 \in 1..t.given[a]
        BY <1>4
      <4> QED
        BY <1>3, <1>5, <3>1, <4>1 DEF k
    <3>2. CASE i # n + 1
      <4>1. i \in 1..n
        BY <1>3, <1>5, <3>2
      <4>0. PICK b \in Agents : \E j \in 1..s.given[b] : s.selected[i] = q[b][j]
        BY <1>6, <4>1 DEF Popped
      <4>2. PICK j \in 1..s.given[b] : s.selected[i] = q[b][j]
        BY <4>0
      <4>3. j \in 1..t.given[b]
        BY <1>3, <1>4 DEF g
      <4> QED
        BY <1>5, <4>1, <4>2, <4>3
    <3> QED
      BY <3>1, <3>2
  <2>3. ASSUME NEW b \in Agents, NEW j \in 1..t.given[b]
        PROVE  \E i \in 1..Len(t.selected) : t.selected[i] = q[b][j]
    <3>1. CASE b = a /\ j = g + 1
      <4>1. n + 1 \in 1..Len(t.selected)
        BY <1>3, <1>5
      <4> QED
        BY <1>5, <3>1, <4>1 DEF k
    <3>2. CASE ~(b = a /\ j = g + 1)
      <4>1. j \in 1..s.given[b]
        BY <1>3, <1>4, <3>2 DEF g
      <4>2. PICK i \in 1..n : s.selected[i] = q[b][j]
        BY <1>6, <4>1 DEF Popped
      <4>3. i \in 1..Len(t.selected)
        BY <1>3, <1>5
      <4> QED
        BY <1>5, <4>2, <4>3
    <3> QED
      BY <3>1, <3>2
  <2> QED
    BY <2>1, <2>2, <2>3 DEF Popped
<1>9. PICK r \in Nat : InRound(s, q, o, r)
  BY DEF SelectionInv
<1>10. ~Full(s) /\ ~Served(s, q, a)
  BY <1>3, <1>4, Limits DEF Served, a, g
<1>11. InRound(t, q, o, r)
  <2> SUFFICES ASSUME NEW p \in 1..Len(o)
               PROVE  /\ t.given[o[p]] <= TurnsHad(t, r, p)
                      /\ \/ t.given[o[p]] = TurnsHad(t, r, p)
                         \/ Served(t, q, o[p])
    BY DEF InRound
  <2>1. /\ s.given[o[p]] <= TurnsHad(s, r, p)
        /\ \/ s.given[o[p]] = TurnsHad(s, r, p)
           \/ Served(s, q, o[p])
    BY <1>9, <1>10 DEF InRound
  <2>2. CASE p # s.turn
    <3>1. TurnsHad(t, r, p) = TurnsHad(s, r, p)
      BY <1>0, <1>1, <2>2 DEF TurnsHad
    <3>2. o[p] # a /\ o[p] \in Agents
      BY <1>0, <1>3, <2>2 DEF QueuesOK, a
    <3>3. t.given[o[p]] = s.given[o[p]]
      BY <1>4, <3>2
    <3> QED
      BY <2>1, <3>1, <3>3 DEF Served
  <2>3. CASE p = s.turn
    <3>1. TurnsHad(t, r, p) = r + 1 /\ TurnsHad(s, r, p) = r
      BY <1>0, <1>1, <2>3 DEF TurnsHad
    <3>2. o[p] = a /\ s.given[o[p]] = g
      BY <2>3 DEF a, g
    <3>3. g = r
      BY <1>10, <2>1, <3>1, <3>2
    <3> QED
      BY <1>4, <3>1, <3>2, <3>3
  <2> QED
    BY <2>2, <2>3
<1>12. t.turn <= Len(o) + 1
  BY <1>0, <1>1
<1>13. Len(t.selected) <= MaxAssignments
  BY <1>3, <1>5, <1>10, Limits DEF Full
<1>14. ASSUME NEW b \in Agents
       PROVE  t.given[b] <= Len(q[b]) /\ t.given[b] <= MaxAssignmentsPerAgent
  <2>1. CASE b = a
    BY <1>3, <1>4, <2>1, Limits
  <2>2. CASE b # a
    BY <1>4, <2>2 DEF SelectionInv
  <2> QED
    BY <2>1, <2>2
<1>15. SelectionInv(t, q, o)
  BY <1>1, <1>2, <1>8, <1>9, <1>11, <1>12, <1>13, <1>14 DEF SelectionInv
<1> QED
  BY <1>5, <1>15 DEF t

(* The rounds end, in a state of the loop's invariant.                     *)
LEMMA SelectionResult ==
  ASSUME NEW q, NEW o, QueuesOK(q, o)
  PROVE  \E s : SelectionInv(s, q, o) /\ SelectionEnds(s, o) /\ SelectFrom(q, o) = s.selected
<1> DEFINE S == Selections
           E == {s \in S : SelectionEnds(s, o)}
           F == [s \in S |-> IF s \in E THEN s ELSE SelectionStep(s, q, o)]
           Body(R) == [s \in S |-> IF RoundOver(s, o)
                                   THEN IF Full(s) \/ ~s.made_progress THEN s ELSE R[NextRound(s)]
                                   ELSE R[Turn(s, q, o[s.turn])]]
           R == CHOOSE R : R = Body(R)
           I == {s \in S : SelectionInv(s, q, o)}
<1>1. SelectFrom(q, o) = R[FirstRound].selected
  BY DEF SelectFrom
<1>2. F \in [S -> S] /\ E \in SUBSET S
  <2>1. \A s \in S : SelectionStep(s, q, o) \in S
    BY SelectionTyped
  <2> QED
    BY <2>1
<1>3. \A f : IsLoop(f, S, F, E) <=> f = Body(f)
  <2>1. \A f : Body(f) = [s \in S |-> IF s \in E THEN s ELSE f[F[s]]]
    BY DEF SelectionEnds, SelectionStep
  <2> QED
    BY <2>1 DEF IsLoop
<1> HIDE DEF E, F, S, Body
<1>4. \E f : f = Body(f)
  BY <1>2, <1>3, LoopExists
<1>5. R = Body(R)
  BY <1>4
<1> HIDE DEF R
<1>6. IsLoop(R, S, F, E)
  BY <1>3, <1>5
<1> DEFINE a == [s \in I |-> MaxAssignments - Len(s.selected)]
           b == [s \in I |-> IF s.made_progress THEN 1 ELSE 0]
           c == [s \in I |-> Len(o) + 1 - s.turn]
<1>7. Len(o) \in Nat /\ \A s \in I : /\ s \in Selections /\ SelectionInv(s, q, o)
                                     /\ Len(s.selected) \in Nat /\ Len(s.selected) <= MaxAssignments
                                     /\ s.turn \in Nat /\ s.turn <= Len(o) + 1
  BY DEF S, SelectionInv, Selections, QueuesOK
<1>8. I \in SUBSET S /\ a \in [I -> Nat] /\ b \in [I -> Nat] /\ c \in [I -> Nat]
  BY <1>7, Limits
<1>9. ASSUME NEW s \in I \ E
      PROVE  /\ F[s] \in I
             /\ \/ a[F[s]] < a[s]
                \/ a[F[s]] = a[s] /\ b[F[s]] < b[s]
                \/ a[F[s]] = a[s] /\ b[F[s]] = b[s] /\ c[F[s]] < c[s]
  <2>1. s \in S /\ SelectionInv(s, q, o) /\ ~SelectionEnds(s, o) /\ F[s] = SelectionStep(s, q, o)
    BY <1>7 DEF E, F
  <2> DEFINE t == F[s]
  <2>2. CASE RoundOver(s, o)
    <3>1. t = NextRound(s) /\ SelectionInv(t, q, o)
      BY <2>1, <2>2, NextRoundOK DEF SelectionStep
    <3>2. t \in I
      BY <3>1 DEF SelectionInv, S
    <3>3. t.selected = s.selected /\ s.made_progress /\ ~t.made_progress
      BY <2>1, <2>2, <3>1 DEF NextRound, SelectionEnds
    <3>4. a[t] = a[s] /\ b[t] = 0 /\ b[s] = 1
      BY <3>2, <3>3
    <3> QED
      BY <3>2, <3>4
  <2>3. CASE ~RoundOver(s, o) /\ (\/ Full(s) \/ s.given[o[s.turn]] >= MaxAssignmentsPerAgent
                                  \/ s.given[o[s.turn]] >= Len(q[o[s.turn]]))
    <3>1. /\ t = Turn(s, q, o[s.turn]) /\ SelectionInv(t, q, o) /\ t.selected = s.selected
          /\ t.turn = s.turn + 1 /\ t.made_progress = s.made_progress
      BY <2>1, <2>3, SkipOK DEF SelectionStep
    <3>2. t \in I
      BY <3>1 DEF SelectionInv, S
    <3>3. a[t] = a[s] /\ b[t] = b[s] /\ c[t] < c[s]
      BY <1>7, <3>1, <3>2
    <3> QED
      BY <3>2, <3>3
  <2>4. CASE ~RoundOver(s, o) /\ ~(\/ Full(s) \/ s.given[o[s.turn]] >= MaxAssignmentsPerAgent
                                   \/ s.given[o[s.turn]] >= Len(q[o[s.turn]]))
    <3>1. /\ t = Turn(s, q, o[s.turn]) /\ SelectionInv(t, q, o)
          /\ Len(t.selected) = Len(s.selected) + 1
      BY <2>1, <2>4, TakeOK DEF SelectionStep
    <3>2. t \in I
      BY <3>1 DEF SelectionInv, S
    <3>3. a[t] < a[s]
      BY <1>7, <3>1, <3>2, Limits
    <3> QED
      BY <3>2, <3>3
  <2> QED
    BY <2>2, <2>3, <2>4
<1>10. FirstRound \in I
  BY FirstRoundOK DEF SelectionInv, S
<1>11. Descends(I, F, E, a, b, c)
  BY <1>9 DEF Descends
<1> HIDE DEF a, b, c, I
<1>12. R[FirstRound] \in I /\ R[FirstRound] \in E
  BY <1>2, <1>6, <1>8, <1>10, <1>11, LoopEnds
<1> QED
  BY <1>1, <1>12 DEF I, E

-----------------------------------------------------------------------------
(* The plan of a decision.                                                 *)

(* The queues and the order of the agents are what the loop expects.       *)
LEMMA QueuesAreOK ==
  ASSUME NEW d, DecisionOK(d)
  PROVE  LET q == Queues(d)
             o == AgentOrder(d, q)
         IN  /\ QueuesOK(q, o)
             /\ \A a \in Agents : IsListing(q[a], Candidates(d, a))
             /\ \A a \in Agents : \A i, j \in 1..Len(q[a]) :
                  i < j => d[q[a][i]].priority >= d[q[a][j]].priority
             /\ \A a \in Agents : q[a] # <<>> => \E p \in 1..Len(o) : o[p] = a
<1> DEFINE q == Queues(d)
           o == AgentOrder(d, q)
           A == {a \in Agents : q[a] # <<>>}
           C == OfKind(d, "candidate")
           best == [a \in A |-> d[q[a][1]].priority]
<1>1. DOMAIN d \subseteq Keys /\ IsFiniteSet(DOMAIN d) /\ C \in SUBSET DOMAIN d
      /\ \A k \in DOMAIN d : d[k].priority \in Nat
  BY DEF DecisionOK, OfKind
<1>2. /\ DOMAIN q = Agents
      /\ \A a \in Agents : /\ IsListing(q[a], Candidates(d, a))
                           /\ \A i, j \in 1..Len(q[a]) :
                                i < j => d[q[a][i]].priority >= d[q[a][j]].priority
  <2>1. \A a \in Agents : Candidates(d, a) \in SUBSET DOMAIN d
    BY DEF Candidates, OfKind
  <2>2. q = [a \in Agents |-> Ranked(d, Candidates(d, a))]
    BY DEF Queues, Candidates
  <2>3. \A a \in Agents : q[a] = Ranked(d, Candidates(d, a))
    BY <2>2
  <2> HIDE DEF q
  <2> QED
    BY <2>1, <2>2, <2>3, RankedOK
<1>3. \A a \in Agents : /\ q[a] \in Seq(Candidates(d, a)) /\ q[a] \in Seq(Keys)
                        /\ \A i \in 1..Len(q[a]) : q[a][i] \in Candidates(d, a)
                        /\ \A i, j \in 1..Len(q[a]) : q[a][i] = q[a][j] => i = j
  <2> SUFFICES ASSUME NEW a \in Agents
               PROVE  /\ q[a] \in Seq(Candidates(d, a)) /\ q[a] \in Seq(Keys)
                      /\ \A i \in 1..Len(q[a]) : q[a][i] \in Candidates(d, a)
                      /\ \A i, j \in 1..Len(q[a]) : q[a][i] = q[a][j] => i = j
    OBVIOUS
  <2> HIDE DEF q
  <2>1. Candidates(d, a) \subseteq Keys
    BY <1>1 DEF Candidates
  <2>2. q[a] \in Seq(Candidates(d, a)) /\ \A i, j \in 1..Len(q[a]) : q[a][i] = q[a][j] => i = j
    BY <1>2 DEF IsListing
  <2> QED
    BY <2>1, <2>2
<1>4. q \in [Agents -> Seq(Keys)]
  BY <1>3 DEF Queues
<1>5. o = Listed([a \in A |-> {b \in A : AgentBefore(d, q, b, a)}])
  BY DEF AgentOrder
<1> HIDE DEF q, o
<1>6. Agents \subseteq Nat
  BY EventAssumption DEF Agents
<1>7. IsFiniteSet(A) /\ \A a \in A : best[a] \in Nat
  <2>1. \A a \in A : q[a][1] \in Candidates(d, a)
    <3> SUFFICES ASSUME NEW a \in A PROVE q[a][1] \in Candidates(d, a)
      OBVIOUS
    <3>1. q[a] \in Seq(Candidates(d, a)) /\ q[a] # <<>>
      BY <1>3
    <3>2. 1 \in 1..Len(q[a])
      BY <3>1
    <3> QED
      BY <1>3, <3>2
  <2>2. \A a \in A : q[a][1] \in C /\ q[a][1][1] = a
    BY <2>1 DEF Candidates
  <2> DEFINE f == [a \in A |-> q[a][1]]
  <2>3. f \in Injection(A, C)
    BY <2>2 DEF Injection, IsInjective
  <2>4. IsFiniteSet(C)
    BY <1>1, FS_Subset
  <2>5. IsFiniteSet(A)
    BY <2>3, <2>4, FS_Injection
  <2> QED
    BY <1>1, <2>2, <2>5
<1> DEFINE P(a, b) == best[a] > best[b] \/ (best[a] = best[b] /\ a < b)
           B == [a \in A |-> {b \in A : P(b, a)}]
<1>8. o = Listed(B)
  BY <1>5 DEF AgentBefore
<1>9. A \subseteq Nat
  BY <1>6
<1>10. B \in [A -> SUBSET A] /\ \A a, b \in A : a \in B[b] <=> P(a, b)
  OBVIOUS
<1> HIDE DEF best, B, A
<1>11. /\ \A a \in A : ~P(a, a)
       /\ \A a, b, c \in A : P(a, b) /\ P(b, c) => P(a, c)
       /\ \A a, b \in A : a # b => P(a, b) \/ P(b, a)
  BY <1>7, <1>9
<1> HIDE DEF P
<1>12. /\ \A x \in A : x \notin B[x]
       /\ \A x, y \in A : x \in B[y] => B[x] \subseteq B[y]
       /\ \A x, y \in A : x # y => x \in B[y] \/ y \in B[x]
  BY <1>10, <1>11
<1>13. IsListing(o, A)
  BY <1>7, <1>8, <1>10, <1>12, ListedOK
<1>14. o \in Seq(Agents)
  <2>1. A \subseteq Agents
    BY DEF A
  <2> QED
    BY <1>13, <2>1 DEF IsListing
<1>15. QueuesOK(q, o)
  BY <1>3, <1>4, <1>13, <1>14 DEF QueuesOK, IsListing, Candidates
<1>16. \A a \in Agents : q[a] # <<>> => \E p \in 1..Len(o) : o[p] = a
  BY <1>13 DEF IsListing, A
<1> QED
  BY <1>2, <1>15, <1>16 DEF q, o

(* What is selected, with the loop's final state.                          *)
LEMMA SelectedOK ==
  ASSUME NEW d, DecisionOK(d)
  PROVE  LET q == Queues(d)
             o == AgentOrder(d, q)
             sel == SelectAssignments(d)
         IN  /\ \E s : SelectionInv(s, q, o) /\ SelectionEnds(s, o) /\ sel = s.selected
             /\ sel \in Seq(OfKind(d, "candidate"))
             /\ \A i, j \in 1..Len(sel) : sel[i] = sel[j] => i = j
<1> DEFINE q == Queues(d)
           o == AgentOrder(d, q)
           sel == SelectAssignments(d)
<1>1. QueuesOK(q, o) /\ \A a \in Agents : IsListing(q[a], Candidates(d, a))
  BY QueuesAreOK
<1>2. sel = SelectFrom(q, o)
  BY DEF SelectAssignments, SelectInOrder
<1> HIDE DEF q, o, sel
<1>3. PICK s : SelectionInv(s, q, o) /\ SelectionEnds(s, o) /\ sel = s.selected
  BY <1>1, <1>2, SelectionResult
<1>4. \A i, j \in 1..Len(sel) : sel[i] = sel[j] => i = j
  BY <1>3 DEF SelectionInv, Popped
<1>5. sel \in Seq(Keys)
  BY <1>3 DEF SelectionInv, Selections
<1>6. ASSUME NEW i \in 1..Len(sel) PROVE sel[i] \in OfKind(d, "candidate")
  <2>1. PICK a \in Agents : \E j \in 1..s.given[a] : sel[i] = q[a][j]
    BY <1>3 DEF SelectionInv, Popped
  <2>2. PICK j \in 1..s.given[a] : sel[i] = q[a][j]
    BY <2>1
  <2>3. q[a] \in Seq(Candidates(d, a)) /\ s.given[a] \in Nat /\ s.given[a] <= Len(q[a])
    BY <1>1, <1>3 DEF IsListing, SelectionInv, Selections
  <2>4. j \in 1..Len(q[a])
    BY <2>3
  <2>5. sel[i] \in Candidates(d, a)
    BY <2>2, <2>3, <2>4
  <2> QED
    BY <2>5 DEF Candidates
<1>7. sel \in Seq(OfKind(d, "candidate"))
  BY <1>5, <1>6
<1> QED
  BY <1>3, <1>4, <1>7 DEF q, o, sel

(* Cutting a list keeps its beginning and counts the rest.                 *)
LEMMA TruncatedOK ==
  ASSUME NEW S, NEW s \in Seq(S), NEW limit \in Nat
  PROVE  /\ Len(Truncated(s, limit)) \in Nat /\ Omitted(s, limit) \in Nat
         /\ Len(Truncated(s, limit)) + Omitted(s, limit) = Len(s)
         /\ Range(Truncated(s, limit)) \subseteq Range(s)
<1> DEFINE m == Min({limit, Len(s)})
<1>1. m \in Nat /\ m <= Len(s) /\ Len(s) \in Nat
  <2>1. \E x \in {limit, Len(s)} : \A y \in {limit, Len(s)} : x =< y
    OBVIOUS
  <2> QED
    BY <2>1 DEF Min
<1>2. Truncated(s, limit) = SubSeq(s, 1, m)
  BY DEF Truncated
<1> HIDE DEF m
<1>3. Len(SubSeq(s, 1, m)) = m /\ \A i \in 1..m : SubSeq(s, 1, m)[i] = s[i]
  <2>1. 1 \in Int /\ m \in Int /\ \A i \in 1..m : s[i] \in S
    BY <1>1
  <2>2. /\ Len(SubSeq(s, 1, m)) = IF 1 <= m THEN m - 1 + 1 ELSE 0
        /\ \A i \in 1..(m - 1 + 1) : SubSeq(s, 1, m)[i] = s[1 + i - 1]
    BY <2>1, SubSeqProperties
  <2> QED
    BY <1>1, <2>2
<1>4. DOMAIN SubSeq(s, 1, m) = 1..m /\ 1..m \subseteq DOMAIN s
  <2>1. SubSeq(s, 1, m) \in Seq(S)
    BY <1>1
  <2> QED
    BY <1>1, <1>3, <2>1
<1>5. Range(SubSeq(s, 1, m)) \subseteq Range(s)
  BY <1>3, <1>4 DEF Range
<1> QED
  BY <1>1, <1>2, <1>3, <1>5 DEF Omitted

LEMMA PlanFields ==
  ASSUME NEW d
  PROVE  LET plan == PlanSelecting(d)
             sel == SelectAssignments(d)
             wrong == Ranked(d, OfKind(d, "intervention"))
             held == InOrder(Holds(d, sel))
         IN  /\ plan.assignments = sel /\ plan.decision = d
             /\ plan.interventions = Truncated(wrong, MaxInterventions)
             /\ plan.held = Truncated(held, MaxHolds)
             /\ plan.omitted = Omitted(wrong, MaxInterventions) + Omitted(held, MaxHolds)
BY DEF PlanSelecting, PlanOf, Publish

(* The plan of a decision about all the retained tasks accounts for them.  *)
LEMMA AccountsOK ==
  ASSUME NEW d, DecisionOK(d), DOMAIN d = DOMAIN tasks
  PROVE  AccountsForAll(PlanSelecting(d))
<1> DEFINE D == DOMAIN d
           C == OfKind(d, "candidate")
           W == OfKind(d, "intervention")
           H == OfKind(d, "hold")
           sel == SelectAssignments(d)
           R == Range(sel)
           wrong == Ranked(d, W)
           held == InOrder(Holds(d, sel))
           plan == PlanSelecting(d)
<1>1. /\ IsFiniteSet(D) /\ D \subseteq Nat \X Nat /\ D = C \cup W \cup H
      /\ C \cap W = {} /\ (C \cup W) \cap H = {} /\ C \in SUBSET D /\ W \in SUBSET D /\ H \in SUBSET D
  BY EventAssumption DEF DecisionOK, OfKind
<1>2. sel \in Seq(C) /\ \A i, j \in 1..Len(sel) : sel[i] = sel[j] => i = j
  BY SelectedOK
<1>3. wrong \in Seq(W) /\ Len(wrong) = Cardinality(W)
  BY <1>1, RankedOK DEF IsListing
<1>4. Holds(d, sel) = H \cup (C \ R)
  BY DEF Holds
<1>5. /\ plan.assignments = sel
      /\ plan.interventions = Truncated(wrong, MaxInterventions)
      /\ plan.held = Truncated(held, MaxHolds)
      /\ plan.omitted = Omitted(wrong, MaxInterventions) + Omitted(held, MaxHolds)
  BY PlanFields
<1> HIDE DEF sel, wrong, plan, C, W, H, D
<1>6. R \subseteq C /\ IsFiniteSet(R) /\ Cardinality(R) = Len(sel) /\ Len(sel) \in Nat
  BY <1>2, ListSize
<1> DEFINE X == H \cup (C \ R)
<1>7. X \in SUBSET (Nat \X Nat) /\ IsFiniteSet(X)
  <2>1. X \in SUBSET D
    BY <1>1
  <2> QED
    BY <1>1, <2>1, FS_Subset
<1> HIDE DEF R, X
<1>8. IsListing(held, X)
  BY <1>4, <1>7, InOrderOK DEF X
<1> HIDE DEF held
<1>9. held \in Seq(X) /\ Len(held) = Cardinality(X) /\ Range(held) = X /\ Len(held) \in Nat
  BY <1>8, ListingRange
<1>10. /\ Len(plan.interventions) \in Nat /\ Omitted(wrong, MaxInterventions) \in Nat
       /\ Len(plan.interventions) + Omitted(wrong, MaxInterventions) = Cardinality(W)
  BY <1>3, <1>5, Limits, TruncatedOK
<1>11. /\ Len(plan.held) \in Nat /\ Omitted(held, MaxHolds) \in Nat
       /\ Len(plan.held) + Omitted(held, MaxHolds) = Cardinality(X)
       /\ Range(plan.held) \subseteq X
  BY <1>5, <1>9, Limits, TruncatedOK
<1>12. Cardinality(D) = Cardinality(R) + Cardinality(W) + Cardinality(X)
  <2>1. IsFiniteSet(W) /\ Cardinality(W) \in Nat /\ Cardinality(X) \in Nat /\ Cardinality(R) \in Nat
    BY <1>1, <1>6, <1>7, FS_Subset, FS_CardinalityType
  <2>2. R \cap W = {} /\ (R \cup W) \cap X = {} /\ D = (R \cup W) \cup X
    BY <1>1, <1>6 DEF X
  <2>3. /\ IsFiniteSet(R \cup W)
        /\ Cardinality(R \cup W) = Cardinality(R) + Cardinality(W) - Cardinality(R \cap W)
    BY <1>6, <2>1, FS_Union
  <2>4. Cardinality((R \cup W) \cup X)
          = Cardinality(R \cup W) + Cardinality(X) - Cardinality((R \cup W) \cap X)
    BY <1>7, <2>3, FS_Union
  <2>5. Cardinality(R \cap W) = 0 /\ Cardinality((R \cup W) \cap X) = 0
    BY <2>2, FS_EmptySet
  <2>6. Cardinality(R \cup W) = Cardinality(R) + Cardinality(W)
    BY <2>1, <2>3, <2>5
  <2>7. Cardinality(D) = Cardinality((R \cup W) \cup X)
    BY <2>2
  <2> HIDE DEF X
  <2> QED
    BY <2>1, <2>4, <2>5, <2>6, <2>7
<1>13. R \cap X = {}
  BY <1>1, <1>6 DEF X
<1>14. Cardinality(DOMAIN tasks) = Len(plan.assignments) + Len(plan.interventions)
                                     + Len(plan.held) + plan.omitted
  BY <1>5, <1>6, <1>9, <1>10, <1>11, <1>12 DEF D
<1>15. Cardinality(Range(plan.assignments)) = Len(plan.assignments)
  BY <1>5, <1>6 DEF R
<1>16. Range(plan.assignments) \cap Range(plan.held) = {}
  BY <1>5, <1>11, <1>13 DEF R
<1> QED
  BY <1>14, <1>15, <1>16 DEF AccountsForAll, plan

(* The plan of a decision is fair.                                         *)
LEMMA FairOK ==
  ASSUME NEW d, DecisionOK(d)
  PROVE  Fair(PlanSelecting(d))
<1> DEFINE q == Queues(d)
           o == AgentOrder(d, q)
           sel == SelectAssignments(d)
           plan == PlanSelecting(d)
<1>1. /\ QueuesOK(q, o)
      /\ \A a \in Agents : IsListing(q[a], Candidates(d, a))
      /\ \A a \in Agents : \A i, j \in 1..Len(q[a]) :
           i < j => d[q[a][i]].priority >= d[q[a][j]].priority
      /\ \A a \in Agents : q[a] # <<>> => \E p \in 1..Len(o) : o[p] = a
  BY QueuesAreOK
<1>2. PICK s : SelectionInv(s, q, o) /\ SelectionEnds(s, o) /\ sel = s.selected
  BY SelectedOK
<1>3. plan.assignments = sel /\ plan.decision = d
  BY PlanFields
<1> HIDE DEF q, o, sel, plan
<1>4. /\ sel \in Seq(Keys) /\ Range(sel) = {sel[i] : i \in 1..Len(sel)}
      /\ s.given \in [Agents -> Nat] /\ Len(sel) \in Nat /\ Len(sel) <= MaxAssignments
      /\ s.turn \in Nat /\ s \in Selections /\ s.turn <= Len(o) + 1
  <2>1. sel \in Seq(Keys)
    BY <1>2 DEF SelectionInv, Selections
  <2>2. Range(sel) = {sel[i] : i \in 1..Len(sel)}
    BY <2>1 DEF Range
  <2> QED
    BY <1>2, <2>1, <2>2 DEF SelectionInv, Selections
<1>5. ASSUME NEW a \in Agents
      PROVE  /\ Len(q[a]) \in Nat /\ s.given[a] \in Nat /\ s.given[a] <= Len(q[a])
             /\ s.given[a] <= MaxAssignmentsPerAgent
             /\ \A i \in 1..Len(q[a]) : q[a][i][1] = a /\ q[a][i] \in Keys
             /\ \A i, j \in 1..Len(q[a]) : q[a][i] = q[a][j] => i = j
  BY <1>1, <1>2, <1>4, SMTT(30) DEF QueuesOK, SelectionInv
<1>6. ASSUME NEW a \in Agents
      PROVE  AssignedTo(plan, a) = {q[a][j] : j \in 1..s.given[a]}
  <2>1. ASSUME NEW k \in AssignedTo(plan, a) PROVE k \in {q[a][j] : j \in 1..s.given[a]}
    <3>1. k[1] = a /\ \E i \in 1..Len(sel) : sel[i] = k
      BY <1>3, <1>4 DEF AssignedTo
    <3>2. PICK b \in Agents : \E j \in 1..s.given[b] : k = q[b][j]
      BY <1>2, <3>1 DEF SelectionInv, Popped
    <3>3. PICK j \in 1..s.given[b] : k = q[b][j]
      BY <3>2
    <3>4. j \in 1..Len(q[b])
      BY <1>5
    <3>5. b = a
      BY <1>5, <3>1, <3>3, <3>4
    <3> QED
      BY <3>3, <3>5
  <2>2. ASSUME NEW j \in 1..s.given[a] PROVE q[a][j] \in AssignedTo(plan, a)
    <3>1. \E i \in 1..Len(sel) : sel[i] = q[a][j]
      BY <1>2 DEF SelectionInv, Popped
    <3>2. j \in 1..Len(q[a])
      BY <1>5
    <3>3. q[a][j][1] = a
      BY <1>5, <3>2
    <3> QED
      BY <1>3, <1>4, <3>1, <3>3 DEF AssignedTo
  <2> QED
    BY <2>1, <2>2
<1>7. ASSUME NEW a \in Agents PROVE Assigned(plan, a) = s.given[a]
  <2> DEFINE n == s.given[a]
             f == [j \in 1..n |-> q[a][j]]
  <2>1. n \in Nat /\ \A j \in 1..n : j \in 1..Len(q[a])
    BY <1>5
  <2>2. f \in [1..n -> Keys] /\ \A i, j \in 1..n : f[i] = f[j] => i = j
    BY <1>5, <2>1
  <2>3. AssignedTo(plan, a) = {f[j] : j \in 1..n}
    BY <1>6
  <2> HIDE DEF f, n
  <2>4. f \in Seq(Keys) /\ Len(f) = n
    BY <2>1, <2>2, FunctionIsSeq
  <2>5. Range(f) = {f[j] : j \in 1..n} /\ Cardinality(Range(f)) = n
    BY <2>2, <2>4, ListSize
  <2> QED
    BY <2>3, <2>5 DEF Assigned, n
<1>8. ASSUME NEW k \in PassedOver(plan)
      PROVE  /\ k[1] \in Agents /\ s.given[k[1]] < Len(q[k[1]])
             /\ \E j \in 1..Len(q[k[1]]) : j > s.given[k[1]] /\ q[k[1]][j] = k
  <2>1. k \in OfKind(d, "candidate") /\ k \notin Range(sel)
    BY <1>3 DEF PassedOver
  <2>2. k \in Keys
    BY <2>1 DEF OfKind, DecisionOK
  <2>3. k[1] \in Agents
    BY <2>2 DEF Agents
  <2>4. k \in Candidates(d, k[1])
    BY <2>1 DEF Candidates
  <2>5. PICK j \in 1..Len(q[k[1]]) : q[k[1]][j] = k
    BY <1>1, <2>3, <2>4, SMTT(30) DEF IsListing
  <2>6. ~(j <= s.given[k[1]])
    <3> SUFFICES ASSUME j <= s.given[k[1]] PROVE FALSE
      OBVIOUS
    <3>1. j \in 1..s.given[k[1]]
      BY <1>5, <2>3
    <3>2. \E i \in 1..Len(sel) : sel[i] = k
      BY <1>2, <2>3, <2>5, <3>1, SMTT(30) DEF SelectionInv, Popped
    <3> QED
      BY <1>4, <2>1, <3>2
  <2>7. s.given[k[1]] \in Nat /\ Len(q[k[1]]) \in Nat
    BY <1>5, <2>3
  <2> QED
    BY <2>3, <2>5, <2>6, <2>7
<1>9. PICK r \in Nat : InRound(s, q, o, r)
  BY <1>2 DEF SelectionInv
<1>10. Len(o) \in Nat /\ s.turn > Len(o) /\ \A p \in 1..Len(o) : o[p] \in Agents
  BY <1>1, <1>2 DEF SelectionEnds, RoundOver, QueuesOK
<1>11. ASSUME NEW a \in Agents PROVE s.given[a] <= r + 1
  <2>1. CASE q[a] = <<>>
    <3>1. Len(q[a]) = 0
      BY <2>1
    <3> QED
      BY <1>5, <3>1
  <2>2. CASE q[a] # <<>>
    <3>1. PICK p \in 1..Len(o) : o[p] = a
      BY <1>1, <2>2
    <3>2. TurnsHad(s, r, p) = r + 1
      BY <1>4, <1>10 DEF TurnsHad
    <3> QED
      BY <1>9, <3>1, <3>2 DEF InRound
  <2> QED
    BY <2>1, <2>2
<1>12. ASSUME NEW k \in PassedOver(plan)
       PROVE  /\ Len(sel) = MaxAssignments \/ s.given[k[1]] = MaxAssignmentsPerAgent
              /\ \A a \in Agents : s.given[a] <= s.given[k[1]] + 1
              /\ \A l \in AssignedTo(plan, k[1]) : d[l].priority >= d[k].priority
  <2> DEFINE b == k[1]
  <2>1. b \in Agents /\ s.given[b] < Len(q[b]) /\ s.given[b] \in Nat /\ Len(q[b]) \in Nat
    BY <1>5, <1>8
  <2>2. PICK j \in 1..Len(q[b]) : j > s.given[b] /\ q[b][j] = k
    BY <1>8
  <2> HIDE DEF b
  <2>3. PICK p \in 1..Len(o) : o[p] = b
    <3>1. q[b] # <<>>
      BY <2>1
    <3> QED
      BY <1>1, <2>1, <3>1
  <2>4. Served(s, q, b) => s.given[b] = MaxAssignmentsPerAgent
    BY <2>1 DEF Served
  <2>5. TurnsHad(s, r, p) = r + 1
    BY <1>4, <1>10 DEF TurnsHad
  <2>6. s.given[b] = r + 1 \/ Served(s, q, b) \/ (Full(s) /\ s.given[b] >= r)
    BY <1>9, <2>3, <2>5 DEF InRound
  <2>7. Full(s) => Len(sel) = MaxAssignments
    BY <1>2, <1>4, Limits DEF Full
  <2>8. Full(s) \/ Served(s, q, b)
    <3>1. Full(s) \/ ~s.made_progress
      BY <1>2 DEF SelectionEnds
    <3>2. p < s.turn
      BY <1>4, <1>10
    <3> QED
      BY <1>2, <2>3, <3>1, <3>2 DEF SelectionInv
  <2>9. Len(sel) = MaxAssignments \/ s.given[b] = MaxAssignmentsPerAgent
    BY <2>4, <2>7, <2>8
  <2>10. ASSUME NEW a \in Agents PROVE s.given[a] <= s.given[b] + 1
    <3>1. s.given[a] \in Nat /\ s.given[a] <= r + 1 /\ s.given[a] <= MaxAssignmentsPerAgent
      BY <1>5, <1>11
    <3> QED
      BY <2>1, <2>4, <2>6, <3>1, Limits
  <2>11. ASSUME NEW l \in AssignedTo(plan, b) PROVE d[l].priority >= d[k].priority
    <3>1. PICK i \in 1..s.given[b] : l = q[b][i]
      BY <1>6, <2>1
    <3>2. i \in 1..Len(q[b]) /\ i < j
      BY <2>1, <2>2
    <3> QED
      BY <1>1, <2>1, <2>2, <3>1, <3>2
  <2> QED
    BY <2>9, <2>10, <2>11 DEF b
<1>13. ASSUME NEW a \in Agents PROVE Assigned(plan, a) <= MaxAssignmentsPerAgent
  BY <1>5, <1>7
<1>14. Len(plan.assignments) <= MaxAssignments
  BY <1>3, <1>4
<1>15. ASSUME NEW k \in PassedOver(plan)
       PROVE  /\ \/ Len(plan.assignments) = MaxAssignments
                 \/ Assigned(plan, k[1]) = MaxAssignmentsPerAgent
              /\ \A a \in Agents : Assigned(plan, a) <= Assigned(plan, k[1]) + 1
              /\ \A l \in AssignedTo(plan, k[1]) :
                   plan.decision[l].priority >= plan.decision[k].priority
  <2>1. k[1] \in Agents
    BY <1>8
  <2>2. Assigned(plan, k[1]) = s.given[k[1]] /\ \A a \in Agents : Assigned(plan, a) = s.given[a]
    BY <1>7, <2>1
  <2> QED
    BY <1>3, <1>12, <2>2
<1> QED
  BY <1>13, <1>14, <1>15 DEF Fair, plan

-----------------------------------------------------------------------------
(* What is planned from a snapshot.                                        *)

(* A priority grows with the severity of the worst diagnostic.             *)
LEMMA BonusOK ==
  ASSUME NEW found
  PROVE  SeverityBonus(found) \in Nat
<1> DEFINE bonus(d) == CASE d.severity = "critical" -> 80
                         [] d.severity = "warning" -> 40
                         [] OTHER -> 10
           B == {0} \cup {bonus(d) : d \in found}
<1>1. \A d \in found : bonus(d) \in {10, 40, 80}
  OBVIOUS
<1>2. B \in SUBSET {0, 10, 40, 80}
  BY <1>1
<1>3. \E x \in B : \A y \in B : x >= y
  <2> HIDE DEF bonus, B
  <2>1. 0 \in B
    BY DEF B
  <2> QED
    BY <1>2, <2>1
<1>4. Max(B) \in B
  <2> HIDE DEF B
  <2> QED
    BY <1>3 DEF Max
<1> HIDE DEF B
<1>5. Max(B) \in Nat
  <2>1. B \subseteq Nat
    BY <1>2
  <2> QED
    BY <1>4, <2>1
<1> QED
  BY <1>5 DEF SeverityBonus, B, bonus

LEMMA MinOK ==
  ASSUME NEW x \in Nat, NEW y \in Nat
  PROVE  Min({x, y}) \in Nat
<1>1. \E v \in {x, y} : \A w \in {x, y} : v =< w
  OBVIOUS
<1> QED
  BY <1>1 DEF Min

(* Every retained task gets a decision, whatever the analysis says.        *)
LEMMA DecideOK ==
  ASSUME TypeOK, NEW analysis, NEW k \in DOMAIN tasks
  PROVE  /\ Decide(analysis, k).kind \in {"intervention", "hold", "candidate"}
         /\ Decide(analysis, k).priority \in Nat
         /\ Decide(analysis, k).kind = "candidate" => k[1] \notin offline /\ ~Waiting(k)
<1> DEFINE rules == Rules(analysis.found[k])
           d == Disposition(rules, k)
           Wrong == {"reconcile_completion", "repair_dependency_graph", "declare_missing_goal"}
           Actions == {"change_strategy", "request_checkpoint", "resolve_blocker",
                       "gather_evidence", "define_next_action", "start_task", "continue_task"}
<1>1. InterventionFor(rules) \in Wrong \cup {"none"}
  BY DEF InterventionFor
<1>2. AssignmentAction(tasks[k].status, rules) \in Actions \cup {"none"}
  BY DEF AssignmentAction
<1>3. \/ d.kind = "intervention" /\ d.what \in Wrong
      \/ d.kind = "hold"
      \/ d.kind = "candidate" /\ d.what \in Actions /\ k[1] \notin offline /\ ~Waiting(k)
  BY <1>1, <1>2 DEF Disposition
<1>4. d.what \in Wrong \cup Actions => BasePriority[d.what] \in Nat
  BY DEF BasePriority
<1>5. SeverityBonus(analysis.found[k]) \in Nat
  BY BonusOK
<1>6. Persistence(tasks[k]) \in Nat
  <2>1. tasks[k].attempt \in Nat /\ tasks[k].age \in Nat
    BY DEF TypeOK, TaskStates
  <2>2. Minutes(tasks[k].age) \in Nat
    <3> DEFINE seconds == 60 * tasks[k].age
    <3>1. seconds \in Nat
      BY <2>1
    <3>2. seconds % Word \in Nat
      BY <3>1, WordAssumption
    <3> HIDE DEF seconds
    <3>3. (seconds % Word) \div 60 \in Nat
      BY <3>2
    <3> QED
      BY <3>3 DEF Minutes, seconds
  <2>3. Min({tasks[k].attempt, 10}) \in Nat /\ Min({Minutes(tasks[k].age), 100}) \in Nat
    BY <2>1, <2>2, MinOK
  <2> QED
    BY <2>3 DEF Persistence
<1> HIDE DEF d
<1>7. d.what \in Wrong \cup Actions => Urgency(analysis, k, d.what) \in Nat
  BY <1>4, <1>5 DEF Urgency
<1>8. Decide(analysis, k) = Prioritised(analysis, k, d)
  BY DEF Decide, d
<1>9. Decide(analysis, k).kind = d.kind
  BY <1>8 DEF Prioritised
<1>10. Decide(analysis, k).priority \in Nat
  BY <1>3, <1>6, <1>7, <1>8 DEF Prioritised
<1> QED
  BY <1>3, <1>9, <1>10

LEMMA DecisionsOK ==
  ASSUME TypeOK, NEW analysis
  PROVE  /\ DecisionOK([k \in DOMAIN tasks |-> Decide(analysis, k)])
         /\ DOMAIN [k \in DOMAIN tasks |-> Decide(analysis, k)] = DOMAIN tasks
BY DecideOK DEF DecisionOK, TypeOK

(* Nothing is dispatched before all it depends on is retained and has      *)
(* succeeded, nor to an agent known to be offline.                         *)
LEMMA SafeNow == TypeOK => DispatchIsSafe
<1> SUFFICES ASSUME TypeOK PROVE DispatchIsSafe
  OBVIOUS
<1> DEFINE d == [k \in DOMAIN tasks |-> Decide(Analysis, k)]
<1>1. DecisionOK(d)
  BY DecisionsOK
<1>2. Plan = PlanSelecting(d)
  BY DEF Plan, PlanFrom
<1>3. \A k \in OfKind(d, "candidate") : k \in DOMAIN tasks /\ k[1] \notin offline /\ ~Waiting(k)
  BY DecideOK DEF OfKind
<1> HIDE DEF d
<1>4. Plan.assignments = SelectAssignments(d)
  BY <1>2, PlanFields
<1>5. SelectAssignments(d) \in Seq(OfKind(d, "candidate"))
  BY <1>1, SelectedOK
<1>6. Range(Plan.assignments) \subseteq OfKind(d, "candidate")
  BY <1>4, <1>5 DEF Range
<1>7. ASSUME NEW k \in Range(Plan.assignments), NEW x \in Range(tasks[k].depends_on)
      PROVE  Key(k, x) \in DOMAIN tasks /\ tasks[Key(k, x)].status = "succeeded"
  <2>1. Missing(tasks, k) = {} /\ Unresolved(tasks, k) = {}
    BY <1>3, <1>6 DEF Waiting
  <2>2. x \notin Missing(tasks, k) /\ x \notin Unresolved(tasks, k)
    BY <2>1
  <2> QED
    BY <2>2 DEF Missing, Unresolved
<1> QED
  BY <1>3, <1>6, <1>7 DEF DispatchIsSafe

LEMMA AccountedNow == TypeOK => EveryTaskAccountedFor
<1> SUFFICES ASSUME TypeOK PROVE EveryTaskAccountedFor
  OBVIOUS
<1> DEFINE d == [k \in DOMAIN tasks |-> Decide(Analysis, k)]
<1>1. DecisionOK(d) /\ DOMAIN d = DOMAIN tasks
  BY DecisionsOK
<1>2. Plan = PlanSelecting(d)
  BY DEF Plan, PlanFrom
<1> HIDE DEF d
<1> QED
  BY <1>1, <1>2, AccountsOK DEF EveryTaskAccountedFor

LEMMA FairNow == TypeOK => SelectionIsFair
<1> SUFFICES ASSUME TypeOK PROVE SelectionIsFair
  OBVIOUS
<1> DEFINE d == [k \in DOMAIN tasks |-> Decide(Analysis, k)]
<1>1. DecisionOK(d)
  BY DecisionsOK
<1>2. Plan = PlanSelecting(d)
  BY DEF Plan, PlanFrom
<1> HIDE DEF d
<1> QED
  BY <1>1, <1>2, FairOK DEF SelectionIsFair

(* In every state, nothing that the plan dispatches waits for a task that  *)
(* is not retained or has not succeeded, or is for an offline agent.       *)
THEOREM DispatchSafety == Spec => []DispatchIsSafe
BY Types, SafeNow, PTL

(* In every state, the plan accounts for every retained task exactly once. *)
THEOREM Accounting == Spec => []EveryTaskAccountedFor
BY Types, AccountedNow, PTL

(* In every state, the selection keeps the limits, passes an agent over    *)
(* only at a limit, gives nobody two turns more than one that waits, and   *)
(* takes each agent's candidates by priority.                              *)
THEOREM Fairness == Spec => []SelectionIsFair
BY Types, FairNow, PTL

-----------------------------------------------------------------------------
(* The calls of a search.  `Depends` of a task, as the searches go through *)
(* it.                                                                     *)

LEMMA CallsTyped ==
  ASSUME NEW t, NEW c \in Searches(t)
  PROVE  LET n == Len(c.stack)
         IN  /\ c = [stack |-> c.stack, todo |-> c.todo]
             /\ n \in Nat /\ c.stack \in Seq(DOMAIN t) /\ c.todo \in Seq(Seq(Nat \X Nat))
             /\ Len(c.todo) = n + 1 /\ n + 1 \in 1..Len(c.todo)
             /\ \A i \in 1..n : c.stack[i] \in DOMAIN t
             /\ \A i \in 1..(n + 1) : c.todo[i] \in Seq(Nat \X Nat)
             /\ Last(c.stack) = c.stack[n] /\ Last(c.todo) = c.todo[n + 1]
             /\ Finished(c) <=> c.todo[n + 1] = <<>>
             /\ NextKey(c) = Head(c.todo[n + 1])
             /\ Over(c) <=> n = 0 /\ c.todo[n + 1] = <<>>
             /\ c.stack = <<>> <=> n = 0
<1>1. /\ c = [stack |-> c.stack, todo |-> c.todo]
      /\ c.stack \in Seq(DOMAIN t) /\ c.todo \in Seq(Seq(Nat \X Nat))
      /\ Len(c.todo) = Len(c.stack) + 1
  BY DEF Searches
<1> DEFINE n == Len(c.stack)
<1>2. n \in Nat /\ n + 1 \in 1..Len(c.todo)
  BY <1>1
<1>3. /\ \A i \in 1..n : c.stack[i] \in DOMAIN t
      /\ \A i \in 1..(n + 1) : c.todo[i] \in Seq(Nat \X Nat)
  BY <1>1
<1>4. c.stack = <<>> <=> n = 0
  BY <1>1
<1>5. Last(c.stack) = c.stack[n] /\ Last(c.todo) = c.todo[n + 1]
  BY <1>1 DEF Last
<1>6. n = 0 => c.todo[1] = c.todo[n + 1]
  OBVIOUS
<1> QED
  BY <1>1, <1>2, <1>3, <1>4, <1>5, <1>6 DEF Finished, NextKey, Over

(* All but the last element of a list.                                     *)
LEMMA FrontOK ==
  ASSUME NEW S, NEW s \in Seq(S), Len(s) > 0
  PROVE  /\ Front(s) \in Seq(S) /\ Len(Front(s)) = Len(s) - 1
         /\ \A i \in 1..(Len(s) - 1) : Front(s)[i] = s[i]
<1> DEFINE n == Len(s)
           m == n - 1
           u == SubSeq(s, 1, m)
<1>1. n \in Nat \ {0} /\ m \in Nat /\ 1 \in Int /\ m \in Int /\ Front(s) = u
  BY DEF Front
<1>2. \A i \in 1..m : s[i] \in S
  OBVIOUS
<1> HIDE DEF m, u
<1>3. /\ u \in Seq(S) /\ Len(u) = IF 1 <= m THEN m - 1 + 1 ELSE 0
      /\ \A i \in 1..(m - 1 + 1) : u[i] = s[1 + i - 1]
  BY <1>1, <1>2, SubSeqProperties DEF u
<1>4. m - 1 + 1 = m /\ \A i \in 1..m : 1 + i - 1 = i
  BY <1>1
<1>5. u \in Seq(S) /\ Len(u) = m /\ \A i \in 1..m : u[i] = s[i]
  BY <1>1, <1>3, <1>4
<1> QED
  BY <1>1, <1>5 DEF m

(* What a call does for the next key without calling it.                   *)
LEMMA PassedOK ==
  ASSUME NEW t, NEW c \in Searches(t), ~Finished(c)
  PROVE  LET n == Len(c.stack)
             k == NextKey(c)
             p == Passed(c)
         IN  /\ p \in Searches(t) /\ p.stack = c.stack /\ Len(p.todo) = n + 1
             /\ k \in Nat \X Nat /\ k \in Range(c.todo[n + 1])
             /\ \A i \in 1..n : p.todo[i] = c.todo[i]
             /\ Len(p.todo[n + 1]) = Len(c.todo[n + 1]) - 1
             /\ Range(p.todo[n + 1]) \subseteq Range(c.todo[n + 1])
             /\ Range(c.todo[n + 1]) \subseteq Range(p.todo[n + 1]) \cup {k}
<1> DEFINE n == Len(c.stack)
           x == c.todo[n + 1]
           k == Head(x)
           f == Front(c.todo)
           p == Passed(c)
<1>1. /\ n \in Nat /\ c.todo \in Seq(Seq(Nat \X Nat)) /\ Len(c.todo) = n + 1
      /\ x \in Seq(Nat \X Nat) /\ x # <<>> /\ Last(c.todo) = x /\ NextKey(c) = k
      /\ c = [stack |-> c.stack, todo |-> c.todo]
      /\ c.stack \in Seq(DOMAIN t)
  BY CallsTyped
<1>2. f \in Seq(Seq(Nat \X Nat)) /\ Len(f) = n /\ \A i \in 1..n : f[i] = c.todo[i]
  <2> DEFINE S == Seq(Nat \X Nat)
  <2>1. c.todo \in Seq(S) /\ Len(c.todo) > 0 /\ Len(c.todo) - 1 = n
    BY <1>1
  <2> HIDE DEF S, n
  <2>2. f \in Seq(S) /\ Len(f) = n /\ \A i \in 1..n : f[i] = c.todo[i]
    BY <2>1, FrontOK
  <2> QED
    BY <2>2 DEF S
<1>3. /\ k \in Nat \X Nat /\ Tail(x) \in Seq(Nat \X Nat) /\ Len(Tail(x)) = Len(x) - 1
      /\ \A i \in 1..Len(Tail(x)) : Tail(x)[i] = x[i + 1]
      /\ k = x[1] /\ Len(x) \in Nat \ {0}
  BY <1>1, HeadTailProperties
<1>4. p = [stack |-> c.stack, todo |-> Append(f, Tail(x))]
  <2> DEFINE y == Append(f, Tail(x))
  <2>1. p = [c EXCEPT !.todo = y]
    BY <1>1 DEF Passed
  <2> HIDE DEF y, p
  <2>2. p = [stack |-> c.stack, todo |-> y]
    BY <1>1, <2>1
  <2> QED
    BY <2>2 DEF y
<1>5. /\ p.stack = c.stack /\ p.todo = Append(f, Tail(x))
  BY <1>4
<1> HIDE DEF f, p
<1>6. /\ p.todo \in Seq(Seq(Nat \X Nat)) /\ Len(p.todo) = n + 1
      /\ \A i \in 1..n : p.todo[i] = c.todo[i]
      /\ p.todo[n + 1] = Tail(x)
  BY <1>1, <1>2, <1>3, <1>5
<1>7. p \in Searches(t)
  BY <1>1, <1>4, <1>5, <1>6 DEF Searches
<1>8. /\ Range(x) = {x[i] : i \in 1..Len(x)}
      /\ Range(Tail(x)) = {Tail(x)[i] : i \in 1..Len(Tail(x))}
  <2> HIDE DEF x
  <2>1. DOMAIN x = 1..Len(x) /\ DOMAIN Tail(x) = 1..Len(Tail(x))
    BY <1>1, <1>3
  <2> QED
    BY <2>1 DEF Range
<1>9. k \in Range(x)
  BY <1>3, <1>8, SMTT(30)
<1>10. Range(Tail(x)) \subseteq Range(x)
  <2>1. \A i \in 1..Len(Tail(x)) : i + 1 \in 1..Len(x)
    BY <1>3
  <2> QED
    BY <1>3, <1>8, <2>1
<1>11. Range(x) \subseteq Range(Tail(x)) \cup {k}
  <2>1. ASSUME NEW i \in 1..Len(x) PROVE x[i] \in Range(Tail(x)) \cup {k}
    <3>1. CASE i = 1
      BY <1>3, <3>1
    <3>2. CASE i # 1
      <4>1. i - 1 \in 1..Len(Tail(x)) /\ Tail(x)[i - 1] = x[i]
        BY <1>3, <3>2
      <4> QED
        BY <1>8, <4>1
    <3> QED
      BY <3>1, <3>2
  <2> QED
    BY <1>8, <2>1
<1> HIDE DEF x
<1> QED
  BY <1>1, <1>3, <1>5, <1>6, <1>7, <1>9, <1>10, <1>11 DEF p, x

(* What Depends has in it, and the list it comes from.                     *)
LEMMA DependsOK ==
  ASSUME NEW t, TasksOK(t), NEW k \in DOMAIN t
  PROVE  /\ Dependencies(t, k) \in Seq(Nat \X Nat)
         /\ Depends(t, k) = Range(Dependencies(t, k)) \cap DOMAIN t
         /\ \A d \in Range(Dependencies(t, k)) : d[1] = k[1]
         /\ Depends(t, k) \in SUBSET DOMAIN t /\ IsFiniteSet(Depends(t, k))
<1> DEFINE w == t[k].depends_on
           f == Dependencies(t, k)
<1>1. w \in Seq(Nat) /\ k[1] \in Nat
  BY DEF TasksOK, TaskStates
<1>2. Len(w) \in Nat /\ DOMAIN w = 1..Len(w) /\ \A i \in 1..Len(w) : w[i] \in Nat
  BY <1>1
<1>3. f = [i \in 1..Len(w) |-> <<k[1], w[i]>>]
  BY <1>2 DEF Dependencies, Key
<1> HIDE DEF w, f
<1>4. f \in [1..Len(w) -> Nat \X Nat]
  BY <1>1, <1>2, <1>3
<1>5. f \in Seq(Nat \X Nat)
  BY <1>2, <1>4, FunctionIsSeq
<1>6. \A d \in Range(f) : d[1] = k[1]
  BY <1>3 DEF Range
<1>7. Depends(t, k) = Range(f) \cap DOMAIN t
  BY DEF Depends, f
<1>8. Depends(t, k) \in SUBSET DOMAIN t
  BY <1>7
<1>9. IsFiniteSet(Depends(t, k))
  BY <1>8, FS_Subset DEF TasksOK
<1> QED
  BY <1>5, <1>6, <1>7, <1>8, <1>9 DEF f

(* The next key is called.                                                 *)
LEMMA CalledOK ==
  ASSUME NEW t, TasksOK(t), NEW c \in Searches(t), ~Finished(c), NextKey(c) \in DOMAIN t
  PROVE  LET n == Len(c.stack)
             k == NextKey(c)
             p == Called(t, c)
         IN  /\ p \in Searches(t) /\ Len(p.stack) = n + 1 /\ Len(p.todo) = n + 2
             /\ \A i \in 1..n : p.stack[i] = c.stack[i] /\ p.todo[i] = c.todo[i]
             /\ p.stack[n + 1] = k /\ p.todo[n + 2] = Dependencies(t, k)
             /\ Range(p.todo[n + 1]) \subseteq Range(c.todo[n + 1])
             /\ Range(c.todo[n + 1]) \subseteq Range(p.todo[n + 1]) \cup {k}
<1> DEFINE n == Len(c.stack)
           k == NextKey(c)
           q == Passed(c)
           p == Called(t, c)
<1>1. n \in Nat /\ c.stack \in Seq(DOMAIN t)
  BY CallsTyped
<1>2. /\ q \in Searches(t) /\ Len(q.todo) = n + 1 /\ \A i \in 1..n : q.todo[i] = c.todo[i]
      /\ Range(q.todo[n + 1]) \subseteq Range(c.todo[n + 1])
      /\ Range(c.todo[n + 1]) \subseteq Range(q.todo[n + 1]) \cup {k}
  BY PassedOK
<1>3. Dependencies(t, k) \in Seq(Nat \X Nat)
  BY DependsOK
<1>4. q.todo \in Seq(Seq(Nat \X Nat))
  BY <1>2 DEF Searches
<1>5. p = [stack |-> Append(c.stack, k), todo |-> Append(q.todo, Dependencies(t, k))]
  BY DEF Called
<1> HIDE DEF q, p, k
<1>6. p.stack = Append(c.stack, k) /\ p.todo = Append(q.todo, Dependencies(t, k))
  BY <1>5
<1>7. k \in DOMAIN t
  BY DEF k
<1>8. /\ p.stack \in Seq(DOMAIN t) /\ Len(p.stack) = n + 1 /\ p.stack[n + 1] = k
      /\ \A i \in 1..n : p.stack[i] = c.stack[i]
  BY <1>1, <1>6, <1>7
<1>9. /\ p.todo \in Seq(Seq(Nat \X Nat)) /\ Len(p.todo) = n + 2
      /\ p.todo[n + 2] = Dependencies(t, k)
      /\ \A i \in 1..(n + 1) : p.todo[i] = q.todo[i]
  <2> DEFINE D == Dependencies(t, k)
             S == Seq(Nat \X Nat)
  <2>1. q.todo \in Seq(S) /\ D \in S
    BY <1>3, <1>4
  <2> HIDE DEF D, S
  <2>2. /\ Append(q.todo, D) \in Seq(S) /\ Len(Append(q.todo, D)) = Len(q.todo) + 1
        /\ \A i \in 1..Len(q.todo) : Append(q.todo, D)[i] = q.todo[i]
        /\ Append(q.todo, D)[Len(q.todo) + 1] = D
    BY <2>1, AppendProperties
  <2> QED
    BY <1>1, <1>2, <1>6, <2>2 DEF D, S
<1>10. p \in Searches(t)
  BY <1>1, <1>5, <1>6, <1>8, <1>9 DEF Searches
<1>11. n + 1 \in 1..(n + 1) /\ \A i \in 1..n : i \in 1..(n + 1)
  BY <1>1
<1>12. p.todo[n + 1] = q.todo[n + 1] /\ \A i \in 1..n : p.todo[i] = c.todo[i]
  BY <1>2, <1>9, <1>11
<1> HIDE DEF n
<1> QED
  BY <1>2, <1>8, <1>9, <1>10, <1>12 DEF k, p, n

(* A call returns.                                                         *)
LEMMA ReturnedOK ==
  ASSUME NEW t, NEW c \in Searches(t), Finished(c), ~Over(c)
  PROVE  LET n == Len(c.stack)
             p == Returned(c)
         IN  /\ n >= 1 /\ p \in Searches(t) /\ Len(p.stack) = n - 1
             /\ \A i \in 1..(n - 1) : p.stack[i] = c.stack[i]
             /\ \A i \in 1..n : p.todo[i] = c.todo[i]
             /\ c.todo[n + 1] = <<>> /\ Last(c.stack) = c.stack[n]
             /\ c.stack[n] \in DOMAIN t
<1> DEFINE n == Len(c.stack)
           p == Returned(c)
<1>1. /\ n \in Nat /\ c.stack \in Seq(DOMAIN t) /\ c.todo \in Seq(Seq(Nat \X Nat))
      /\ Len(c.todo) = n + 1 /\ n >= 1 /\ c.todo[n + 1] = <<>> /\ Last(c.stack) = c.stack[n]
  BY CallsTyped
<1>2. /\ Front(c.stack) \in Seq(DOMAIN t) /\ Len(Front(c.stack)) = n - 1
      /\ \A i \in 1..(n - 1) : Front(c.stack)[i] = c.stack[i]
  BY <1>1, FrontOK, SMTT(30)
<1>3. /\ Front(c.todo) \in Seq(Seq(Nat \X Nat)) /\ Len(Front(c.todo)) = n
      /\ \A i \in 1..n : Front(c.todo)[i] = c.todo[i]
  <2> DEFINE S == Seq(Nat \X Nat)
  <2>1. c.todo \in Seq(S) /\ Len(c.todo) > 0 /\ Len(c.todo) - 1 = n
    BY <1>1
  <2> HIDE DEF S, n
  <2>2. /\ Front(c.todo) \in Seq(S) /\ Len(Front(c.todo)) = n
        /\ \A i \in 1..n : Front(c.todo)[i] = c.todo[i]
    BY <2>1, FrontOK
  <2> QED
    BY <2>2 DEF S
<1>4. p = [stack |-> Front(c.stack), todo |-> Front(c.todo)]
  BY DEF Returned
<1>5. p.stack = Front(c.stack) /\ p.todo = Front(c.todo)
  BY <1>4
<1> HIDE DEF p
<1>6. p \in Searches(t)
  BY <1>1, <1>2, <1>3, <1>4, <1>5 DEF Searches
<1>7. c.stack[n] \in DOMAIN t
  BY <1>1
<1> QED
  BY <1>1, <1>2, <1>3, <1>5, <1>6, <1>7 DEF p

LEMMA StartOK ==
  ASSUME NEW t, TasksOK(t)
  PROVE  /\ Start(t) \in Searches(t) /\ Len(Start(t).stack) = 0 /\ Len(Start(t).todo) = 1
         /\ Range(Start(t).todo[1]) = DOMAIN t
<1> DEFINE o == InOrder(DOMAIN t)
           c == Start(t)
<1>1. DOMAIN t \in SUBSET (Nat \X Nat) /\ IsFiniteSet(DOMAIN t)
  BY DEF TasksOK
<1>2. IsListing(o, DOMAIN t)
  BY <1>1, InOrderOK
<1>3. c = [stack |-> <<>>, todo |-> <<o>>]
  BY DEF Start
<1> HIDE DEF o, c
<1>4. o \in Seq(DOMAIN t) /\ Range(o) = DOMAIN t
  BY <1>2, ListingRange
<1>5. o \in Seq(Nat \X Nat)
  BY <1>1, <1>4
<1>6. <<o>> \in Seq(Seq(Nat \X Nat)) /\ Len(<<o>>) = 1 /\ <<o>>[1] = o
  BY <1>5
<1>7. c.stack = <<>> /\ c.todo = <<o>>
  BY <1>3
<1>8. <<>> \in Seq(DOMAIN t) /\ Len(<<>>) = 0
  OBVIOUS
<1> DEFINE w == <<o>>
<1> HIDE DEF w
<1>9. w \in Seq(Seq(Nat \X Nat)) /\ Len(w) = 1 /\ w[1] = o /\ c = [stack |-> <<>>, todo |-> w]
  BY <1>3, <1>6 DEF w
<1>10. c \in Searches(t)
  <2>1. c.stack = <<>> /\ c.todo = w /\ Len(c.stack) = 0 /\ Len(c.todo) = Len(c.stack) + 1
    BY <1>8, <1>9
  <2>2. c \in [stack : Seq(DOMAIN t), todo : Seq(Seq(Nat \X Nat))]
    BY <1>8, <1>9
  <2> QED
    BY <2>1, <2>2 DEF Searches
<1> QED
  BY <1>4, <1>8, <1>9, <1>10 DEF c

-----------------------------------------------------------------------------
(* The search for cycles.                                                  *)

(* The calls that have not returned are a path of dependencies, and what   *)
(* each has still to look at are dependencies of its task.                 *)
IsPath(t, stack) ==
  /\ \A i, j \in 1..Len(stack) : stack[i] = stack[j] => i = j
  /\ \A i \in 1..(Len(stack) - 1) : stack[i + 1] \in Depends(t, stack[i])
Ahead(t, c) ==
  \A i \in 1..Len(c.stack) : Range(c.todo[i + 1]) \subseteq Range(Dependencies(t, c.stack[i]))

(* f is a cycle of n tasks, each once.                                     *)
IsCycle(t, n, f) ==
  /\ f \in [1..n -> DOMAIN t] /\ \A i, j \in 1..n : f[i] = f[j] => i = j
  /\ \A i \in 1..(n - 1) : f[i + 1] \in Depends(t, f[i])
  /\ f[1] \in Depends(t, f[n])
OnCycle(t) == {k \in DOMAIN t : \E n \in Nat \ {0} : \E f : IsCycle(t, n, f) /\ f[1] = k}

(* Every part of X has a task that depends on nothing in the part.         *)
Acyclic(t, X) == \A Y \in SUBSET X : Y # {} => \E y \in Y : Depends(t, y) \cap Y = {}

(* What the search for cycles keeps.  A task whose call has returned is a  *)
(* member or depends only on such tasks, and those that are no members are *)
(* acyclic; a dependency of a task whose call has not returned has been    *)
(* looked at, is still to be, is the one the call is at, or has made the   *)
(* task a member.                                                          *)
CycleInv(t, s) ==
  /\ s \in CycleSearches(t) /\ IsPath(t, s.calls.stack) /\ Ahead(t, s.calls)
  /\ \A i \in 1..Len(s.calls.stack) : s.calls.stack[i] \notin s.done
  /\ s.members \subseteq OnCycle(t)
  /\ Acyclic(t, s.done \ s.members)
  /\ \A k \in s.done \ s.members : Depends(t, k) \subseteq s.done
  /\ \A i \in 1..Len(s.calls.stack) : s.calls.stack[i] \notin s.members =>
       \A d \in Depends(t, s.calls.stack[i]) :
         \/ d \in s.done
         \/ d \in Range(s.calls.todo[i + 1])
         \/ i < Len(s.calls.stack) /\ d = s.calls.stack[i + 1]
  /\ \A k \in DOMAIN t :
       \/ k \in s.done
       \/ \E i \in 1..Len(s.calls.stack) : s.calls.stack[i] = k
       \/ k \in Range(s.calls.todo[1])

(* The keys that have not been called.                                     *)
Uncalled(t, s) ==
  {k \in DOMAIN t : k \notin s.done /\ \A i \in 1..Len(s.calls.stack) : s.calls.stack[i] # k}

(* A rotation of the part of the stack that closes a cycle.                *)
LEMMA Rotated ==
  ASSUME NEW t, NEW stack \in Seq(DOMAIN t), IsPath(t, stack),
         NEW h \in 1..Len(stack), stack[h] \in Depends(t, stack[Len(stack)]),
         NEW i \in h..Len(stack)
  PROVE  stack[i] \in OnCycle(t)
<1> DEFINE n == Len(stack)
           m == n - h + 1
           at(j) == IF i + j - 1 <= n THEN i + j - 1 ELSE i + j - 1 - m
           f == [j \in 1..m |-> stack[at(j)]]
<1>1. n \in Nat /\ m \in Nat \ {0} /\ h \in 1..n /\ i \in h..n /\ m = n - h + 1
  OBVIOUS
<1>2. \A j \in 1..m : at(j) \in h..n
  BY <1>1
<1>3. \A j, l \in 1..m : at(j) = at(l) => j = l
  BY <1>1
<1>4. \A j \in 1..n : stack[j] \in DOMAIN t
  OBVIOUS
<1>5. /\ \A j \in 1..(m - 1) : at(j + 1) = at(j) + 1 \/ (at(j) = n /\ at(j + 1) = h)
      /\ at(1) = i /\ (at(m) = i - 1 \/ (at(m) = n /\ i = h))
  BY <1>1
<1>6. f \in [1..m -> DOMAIN t]
  BY <1>1, <1>2, <1>4
<1> HIDE DEF at, m, n
<1>7. \A j, l \in 1..m : f[j] = f[l] => j = l
  <2> SUFFICES ASSUME NEW j \in 1..m, NEW l \in 1..m, f[j] = f[l] PROVE j = l
    OBVIOUS
  <2>1. at(j) \in 1..n /\ at(l) \in 1..n /\ stack[at(j)] = stack[at(l)]
    BY <1>1, <1>2
  <2>2. at(j) = at(l)
    BY <2>1 DEF IsPath, n
  <2> QED
    BY <1>3, <2>2
<1>8. ASSUME NEW x \in 1..n, NEW y \in 1..n, y = x + 1 \/ (x = n /\ y = h)
      PROVE  stack[y] \in Depends(t, stack[x])
  <2>1. CASE y = x + 1
    <3>1. x \in 1..(n - 1)
      BY <1>1, <2>1
    <3> QED
      BY <2>1, <3>1 DEF IsPath, n
  <2>2. CASE x = n /\ y = h
    BY <2>2 DEF n
  <2> QED
    BY <1>8, <2>1, <2>2
<1>9. ASSUME NEW j \in 1..(m - 1) PROVE f[j + 1] \in Depends(t, f[j])
  <2>1. j \in 1..m /\ j + 1 \in 1..m
    BY <1>1
  <2>2. at(j) \in 1..n /\ at(j + 1) \in 1..n
    BY <1>1, <1>2, <2>1
  <2>3. stack[at(j + 1)] \in Depends(t, stack[at(j)])
    BY <1>5, <1>8, <2>2
  <2> QED
    BY <2>1, <2>3
<1>10. f[1] \in Depends(t, f[m]) /\ f[1] = stack[i]
  <2>1. 1 \in 1..m /\ m \in 1..m
    BY <1>1
  <2>2. at(1) \in 1..n /\ at(m) \in 1..n
    BY <1>1, <1>2, <2>1
  <2>3. at(1) = at(m) + 1 \/ (at(m) = n /\ at(1) = h)
    BY <1>1, <1>5, <2>2
  <2>4. stack[at(1)] \in Depends(t, stack[at(m)])
    BY <1>8, <2>2, <2>3
  <2> QED
    BY <1>5, <2>1, <2>4
<1> HIDE DEF f
<1>11. IsCycle(t, m, f)
  BY <1>6, <1>7, <1>9, <1>10 DEF IsCycle
<1>12. stack[i] \in DOMAIN t
  BY <1>1, <1>4
<1> QED
  BY <1>1, <1>10, <1>11, <1>12 DEF OnCycle

LEMMA CycleFields ==
  ASSUME NEW t, NEW s \in CycleSearches(t)
  PROVE  /\ s = [calls |-> s.calls, done |-> s.done, members |-> s.members]
         /\ s.calls \in Searches(t) /\ s.done \in SUBSET DOMAIN t /\ s.members \in SUBSET DOMAIN t
BY DEF CycleSearches

(* The four steps of the search.                                           *)
LEMMA VisitReturns ==
  ASSUME NEW t, NEW s \in CycleSearches(t), Finished(s.calls)
  PROVE  VisitCycle(t, s) = [calls |-> Returned(s.calls),
                             done |-> s.done \cup {Last(s.calls.stack)}, members |-> s.members]
<1>1. s = [calls |-> s.calls, done |-> s.done, members |-> s.members]
  BY CycleFields
<1>2. VisitCycle(t, s) = [s EXCEPT !.calls = Returned(s.calls),
                                   !.done = s.done \cup {Last(s.calls.stack)}]
  BY DEF VisitCycle
<1> DEFINE x == Returned(s.calls)
           y == s.done \cup {Last(s.calls.stack)}
<1> HIDE DEF x, y
<1>3. VisitCycle(t, s) = [s EXCEPT !.calls = x, !.done = y]
  BY <1>2 DEF x, y
<1>4. VisitCycle(t, s) = [calls |-> x, done |-> y, members |-> s.members]
  BY <1>1, <1>3
<1> QED
  BY <1>4 DEF x, y

LEMMA VisitPasses ==
  ASSUME NEW t, NEW s \in CycleSearches(t), ~Finished(s.calls),
         NextKey(s.calls) \in s.done \/ NextKey(s.calls) \notin DOMAIN t
  PROVE  VisitCycle(t, s) = [calls |-> Passed(s.calls), done |-> s.done, members |-> s.members]
<1>1. s = [calls |-> s.calls, done |-> s.done, members |-> s.members]
  BY CycleFields
<1> DEFINE x == Passed(s.calls)
<1>2. VisitCycle(t, s) = [s EXCEPT !.calls = x]
  BY DEF VisitCycle
<1> HIDE DEF x
<1>3. VisitCycle(t, s) = [calls |-> x, done |-> s.done, members |-> s.members]
  BY <1>1, <1>2
<1> QED
  BY <1>3 DEF x

LEMMA VisitCloses ==
  ASSUME NEW t, NEW s \in CycleSearches(t), ~Finished(s.calls),
         NextKey(s.calls) \notin s.done, NextKey(s.calls) \in DOMAIN t,
         NextKey(s.calls) \in Range(s.calls.stack)
  PROVE  VisitCycle(t, s) =
           [calls |-> Passed(s.calls), done |-> s.done,
            members |-> s.members \cup CycleOnStack(s.calls.stack, NextKey(s.calls))]
<1>1. s = [calls |-> s.calls, done |-> s.done, members |-> s.members]
  BY CycleFields
<1> DEFINE x == Passed(s.calls)
           y == s.members \cup CycleOnStack(s.calls.stack, NextKey(s.calls))
<1>2. VisitCycle(t, s) = [s EXCEPT !.calls = x, !.members = y]
  BY DEF VisitCycle
<1> HIDE DEF x, y
<1>3. VisitCycle(t, s) = [calls |-> x, done |-> s.done, members |-> y]
  BY <1>1, <1>2
<1> QED
  BY <1>3 DEF x, y

LEMMA VisitCalls ==
  ASSUME NEW t, NEW s \in CycleSearches(t), ~Finished(s.calls),
         NextKey(s.calls) \notin s.done, NextKey(s.calls) \in DOMAIN t,
         NextKey(s.calls) \notin Range(s.calls.stack)
  PROVE  VisitCycle(t, s) = [calls |-> Called(t, s.calls), done |-> s.done, members |-> s.members]
<1>1. s = [calls |-> s.calls, done |-> s.done, members |-> s.members]
  BY CycleFields
<1> DEFINE x == Called(t, s.calls)
<1>2. VisitCycle(t, s) = [s EXCEPT !.calls = x]
  BY DEF VisitCycle
<1> HIDE DEF x
<1>3. VisitCycle(t, s) = [calls |-> x, done |-> s.done, members |-> s.members]
  BY <1>1, <1>2
<1> QED
  BY <1>3 DEF x

(* A call returns: its task is a member, or depends only on tasks whose    *)
(* calls have returned before, and closes no cycle among those.            *)
LEMMA CycleReturn ==
  ASSUME NEW t, TasksOK(t), NEW s, CycleInv(t, s), Finished(s.calls), ~Over(s.calls)
  PROVE  LET r == VisitCycle(t, s)
         IN  /\ CycleInv(t, r) /\ Uncalled(t, r) = Uncalled(t, s)
             /\ Len(r.calls.stack) < Len(s.calls.stack)
<1> DEFINE c == s.calls
           n == Len(c.stack)
           p == Returned(c)
           k == c.stack[n]
           r == VisitCycle(t, s)
<1>1. s \in CycleSearches(t) /\ c \in Searches(t) /\ s.done \in SUBSET DOMAIN t
      /\ s.members \in SUBSET DOMAIN t
  BY CycleFields DEF CycleInv
<1>2. /\ n >= 1 /\ p \in Searches(t) /\ Len(p.stack) = n - 1
      /\ \A i \in 1..(n - 1) : p.stack[i] = c.stack[i]
      /\ \A i \in 1..n : p.todo[i] = c.todo[i]
      /\ c.todo[n + 1] = <<>> /\ Last(c.stack) = k /\ k \in DOMAIN t
  BY <1>1, ReturnedOK
<1>3. n \in Nat
  BY <1>1, CallsTyped
<1>4. r = [calls |-> p, done |-> s.done \cup {k}, members |-> s.members]
  BY <1>1, <1>2, VisitReturns
<1> HIDE DEF r, p, c, k
<1>5. r.calls = p /\ r.done = s.done \cup {k} /\ r.members = s.members
  BY <1>4
<1>6. r \in CycleSearches(t)
  BY <1>1, <1>2, <1>4 DEF CycleSearches
<1>7. n \in 1..n /\ \A i \in 1..(n - 1) : i \in 1..n /\ i + 1 \in 1..n /\ i # n
  BY <1>2, <1>3
<1>8. IsPath(t, p.stack)
  <2>1. IsPath(t, c.stack)
    BY DEF CycleInv, c
  <2>2. \A i \in 1..(n - 2) : i \in 1..(n - 1) /\ i + 1 \in 1..(n - 1)
    BY <1>3
  <2>3. (n - 1) - 1 = n - 2
    BY <1>3
  <2>4. \A i, j \in 1..(n - 1) : p.stack[i] = p.stack[j] => i = j
    BY <1>2, <1>7, <2>1 DEF IsPath
  <2>5. \A i \in 1..(n - 2) : p.stack[i + 1] \in Depends(t, p.stack[i])
    BY <1>2, <2>1, <2>2 DEF IsPath
  <2> QED
    BY <1>2, <2>3, <2>4, <2>5 DEF IsPath
<1>9. Ahead(t, p)
  BY <1>2, <1>7 DEF Ahead, CycleInv, c
<1>10. k \notin s.done /\ \A i \in 1..(n - 1) : p.stack[i] \notin s.done \cup {k}
  <2>1. \A i \in 1..n : c.stack[i] \notin s.done
    BY DEF CycleInv, c
  <2>2. \A i \in 1..(n - 1) : c.stack[i] # k
    BY <1>7 DEF CycleInv, IsPath, c, k
  <2> QED
    BY <1>2, <1>7, <2>1, <2>2 DEF k
<1>11. k \notin s.members => Depends(t, k) \subseteq s.done
  <2> SUFFICES ASSUME k \notin s.members, NEW d \in Depends(t, k) PROVE d \in s.done
    OBVIOUS
  <2>1. d \in s.done \/ d \in Range(c.todo[n + 1]) \/ n < n
    BY <1>7 DEF CycleInv, c, k
  <2>2. Range(c.todo[n + 1]) = {}
    BY <1>2 DEF Range
  <2> QED
    BY <1>3, <2>1, <2>2
<1>12. \A j \in s.done \ s.members : Depends(t, j) \subseteq s.done
  BY DEF CycleInv
<1>13. Acyclic(t, (s.done \cup {k}) \ s.members)
  <2> SUFFICES ASSUME NEW Y \in SUBSET ((s.done \cup {k}) \ s.members), Y # {}
               PROVE  \E y \in Y : Depends(t, y) \cap Y = {}
    BY DEF Acyclic
  <2>0. Acyclic(t, s.done \ s.members)
    BY DEF CycleInv
  <2>1. CASE Y \ {k} = {}
    <3>1. Y = {k} /\ k \notin s.members
      BY <2>1
    <3> QED
      BY <1>10, <1>11, <3>1
  <2>2. CASE Y \ {k} # {}
    <3>1. Y \ {k} \in SUBSET (s.done \ s.members)
      OBVIOUS
    <3>2. PICK y \in Y \ {k} : Depends(t, y) \cap (Y \ {k}) = {}
      BY <2>0, <2>2, <3>1 DEF Acyclic
    <3>3. k \notin Depends(t, y)
      BY <1>10, <1>12
    <3> QED
      BY <3>2, <3>3
  <2> QED
    BY <2>1, <2>2
<1>14. ASSUME NEW i \in 1..(n - 1), p.stack[i] \notin s.members, NEW d \in Depends(t, p.stack[i])
       PROVE  \/ d \in s.done \cup {k}
              \/ d \in Range(p.todo[i + 1])
              \/ i < n - 1 /\ d = p.stack[i + 1]
  <2>1. d \in s.done \/ d \in Range(c.todo[i + 1]) \/ d = c.stack[i + 1]
    BY <1>2, <1>7, <1>14, SMTT(30) DEF CycleInv, c
  <2>2. CASE i = n - 1
    <3>1. i + 1 = n
      BY <1>3, <2>2
    <3> QED
      BY <1>2, <1>7, <2>1, <3>1 DEF k
  <2>3. CASE i # n - 1
    <3>1. i < n - 1 /\ i + 1 \in 1..(n - 1)
      BY <1>3, <2>3
    <3> QED
      BY <1>2, <1>7, <2>1, <3>1
  <2> QED
    BY <2>2, <2>3
<1>15. ASSUME NEW l \in DOMAIN t
       PROVE  \/ l \in s.done \cup {k}
              \/ \E i \in 1..(n - 1) : p.stack[i] = l
              \/ l \in Range(p.todo[1])
  <2>1. l \in s.done \/ (\E i \in 1..n : c.stack[i] = l) \/ l \in Range(c.todo[1])
    BY DEF CycleInv, c
  <2>2. p.todo[1] = c.todo[1]
    BY <1>2, <1>3
  <2>3. \A i \in 1..n : i = n \/ i \in 1..(n - 1)
    BY <1>3
  <2> QED
    BY <1>2, <2>1, <2>2, <2>3 DEF k
<1>16. s.members \subseteq OnCycle(t)
  BY DEF CycleInv
<1>17. ASSUME NEW j \in (s.done \cup {k}) \ s.members PROVE Depends(t, j) \subseteq s.done \cup {k}
  BY <1>11, <1>12
<1>18. CycleInv(t, r)
  BY <1>2, <1>5, <1>6, <1>8, <1>9, <1>10, <1>13, <1>14, <1>15, <1>16, <1>17 DEF CycleInv
<1>19. Uncalled(t, r) = Uncalled(t, s)
  <2>1. \A l \in DOMAIN t : (\A i \in 1..n : c.stack[i] # l)
                              <=> l # k /\ \A i \in 1..(n - 1) : p.stack[i] # l
    <3>1. \A i \in 1..n : i = n \/ i \in 1..(n - 1)
      BY <1>3
    <3> QED
      BY <1>2, <1>7, <3>1 DEF k
  <2>2. Uncalled(t, s) = {l \in DOMAIN t : l \notin s.done /\ \A i \in 1..n : c.stack[i] # l}
    BY DEF Uncalled, c, n
  <2>3. Uncalled(t, r) = {l \in DOMAIN t : l \notin r.done /\ \A i \in 1..(n - 1) : p.stack[i] # l}
    BY <1>2, <1>5 DEF Uncalled
  <2> QED
    BY <1>2, <1>5, <2>1, <2>2, <2>3
<1>20. Len(r.calls.stack) < Len(s.calls.stack)
  BY <1>2, <1>3, <1>5 DEF c
<1> QED
  BY <1>18, <1>19, <1>20 DEF r

(* What passing over the next key leaves as it was.                        *)
LEMMA PassedKeeps ==
  ASSUME NEW t, NEW c \in Searches(t), ~Finished(c), IsPath(t, c.stack), Ahead(t, c)
  PROVE  LET p == Passed(c)
         IN  /\ IsPath(t, p.stack) /\ Ahead(t, p)
             /\ Len(Last(p.todo)) < Len(Last(c.todo))
             /\ Len(Last(c.todo)) \in Nat /\ Len(Last(p.todo)) \in Nat
             /\ \A i \in 1..(Len(c.stack) + 1) : \A d \in Range(c.todo[i]) :
                  d \in Range(p.todo[i]) \/ (i = Len(c.stack) + 1 /\ d = NextKey(c))
<1> DEFINE n == Len(c.stack)
           p == Passed(c)
<1>1. /\ p \in Searches(t) /\ p.stack = c.stack
      /\ \A i \in 1..n : p.todo[i] = c.todo[i]
      /\ Len(p.todo[n + 1]) = Len(c.todo[n + 1]) - 1
      /\ Range(p.todo[n + 1]) \subseteq Range(c.todo[n + 1])
      /\ Range(c.todo[n + 1]) \subseteq Range(p.todo[n + 1]) \cup {NextKey(c)}
  BY PassedOK
<1> HIDE DEF p
<1>2. n \in Nat /\ Last(c.todo) = c.todo[n + 1] /\ c.todo[n + 1] \in Seq(Nat \X Nat)
  BY CallsTyped
<1>3. Last(p.todo) = p.todo[n + 1] /\ p.todo[n + 1] \in Seq(Nat \X Nat)
  <2>1. n + 1 \in 1..(n + 1)
    BY <1>2
  <2> QED
    BY <1>1, <2>1, CallsTyped
<1>4. Len(c.todo[n + 1]) \in Nat /\ Len(p.todo[n + 1]) \in Nat
  BY <1>2, <1>3
<1>5. Len(Last(p.todo)) < Len(Last(c.todo))
  BY <1>1, <1>2, <1>3, <1>4
<1>6. ASSUME NEW i \in 1..(n + 1)
      PROVE  /\ Range(p.todo[i]) \subseteq Range(c.todo[i])
             /\ \A d \in Range(c.todo[i]) : d \in Range(p.todo[i]) \/ (i = n + 1 /\ d = NextKey(c))
  <2>1. CASE i = n + 1
    BY <1>1, <2>1
  <2>2. CASE i # n + 1
    <3>1. i \in 1..n
      BY <1>2, <2>2
    <3> QED
      BY <1>1, <3>1
  <2> QED
    BY <2>1, <2>2
<1>7. Ahead(t, p)
  <2>1. \A i \in 1..n : i + 1 \in 1..(n + 1)
    BY <1>2
  <2> QED
    BY <1>1, <1>6, <2>1 DEF Ahead
<1> QED
  BY <1>1, <1>2, <1>3, <1>4, <1>5, <1>6, <1>7 DEF p

(* The next key needs no call: it has had one, or is not retained.         *)
LEMMA CyclePass ==
  ASSUME NEW t, TasksOK(t), NEW s, CycleInv(t, s), ~Finished(s.calls),
         NextKey(s.calls) \in s.done \/ NextKey(s.calls) \notin DOMAIN t
  PROVE  LET r == VisitCycle(t, s)
         IN  /\ CycleInv(t, r) /\ Uncalled(t, r) = Uncalled(t, s)
             /\ r.calls.stack = s.calls.stack
             /\ Len(Last(r.calls.todo)) < Len(Last(s.calls.todo))
<1> DEFINE c == s.calls
           n == Len(c.stack)
           p == Passed(c)
           k == NextKey(c)
           r == VisitCycle(t, s)
<1>1. s \in CycleSearches(t) /\ c \in Searches(t) /\ s.done \in SUBSET DOMAIN t
      /\ s.members \in SUBSET DOMAIN t
  BY CycleFields DEF CycleInv
<1>2. p \in Searches(t) /\ p.stack = c.stack
  BY <1>1, PassedOK
<1>3. /\ IsPath(t, p.stack) /\ Ahead(t, p) /\ Len(Last(p.todo)) < Len(Last(c.todo))
      /\ \A i \in 1..(n + 1) : \A d \in Range(c.todo[i]) :
           d \in Range(p.todo[i]) \/ (i = n + 1 /\ d = k)
  BY <1>1, PassedKeeps DEF CycleInv
<1>4. r = [calls |-> p, done |-> s.done, members |-> s.members]
  BY <1>1, VisitPasses
<1>5. n \in Nat
  BY <1>1, CallsTyped
<1> HIDE DEF r, p, c
<1>6. r.calls = p /\ r.done = s.done /\ r.members = s.members
  BY <1>4
<1>7. r \in CycleSearches(t)
  BY <1>1, <1>2, <1>4 DEF CycleSearches
<1>8. k \in s.done \/ k \notin DOMAIN t
  BY DEF c
<1>9. ASSUME NEW i \in 1..n, c.stack[i] \notin s.members, NEW d \in Depends(t, c.stack[i])
      PROVE  d \in s.done \/ d \in Range(p.todo[i + 1]) \/ (i < n /\ d = c.stack[i + 1])
  <2>1. d \in s.done \/ d \in Range(c.todo[i + 1]) \/ (i < n /\ d = c.stack[i + 1])
    BY <1>9 DEF CycleInv, c
  <2>2. i + 1 \in 1..(n + 1) /\ d \in DOMAIN t
    BY <1>5 DEF Depends
  <2> QED
    BY <1>3, <1>8, <2>1, <2>2
<1>10. ASSUME NEW l \in DOMAIN t
       PROVE  l \in s.done \/ (\E i \in 1..n : c.stack[i] = l) \/ l \in Range(p.todo[1])
  <2>1. l \in s.done \/ (\E i \in 1..n : c.stack[i] = l) \/ l \in Range(c.todo[1])
    BY DEF CycleInv, c
  <2>2. 1 \in 1..(n + 1)
    BY <1>5
  <2> QED
    BY <1>3, <1>8, <2>1, <2>2
<1>11. CycleInv(t, r)
  <2>1. /\ \A i \in 1..n : c.stack[i] \notin s.done
        /\ s.members \subseteq OnCycle(t) /\ Acyclic(t, s.done \ s.members)
        /\ \A j \in s.done \ s.members : Depends(t, j) \subseteq s.done
    BY DEF CycleInv, c
  <2> QED
    BY <1>2, <1>3, <1>6, <1>7, <1>9, <1>10, <2>1 DEF CycleInv
<1>12. Uncalled(t, r) = Uncalled(t, s)
  BY <1>2, <1>6 DEF Uncalled, c
<1> QED
  BY <1>2, <1>3, <1>6, <1>11, <1>12 DEF r, c

(* The next key is on the stack: from there on the stack is a cycle.       *)
LEMMA CycleClose ==
  ASSUME NEW t, TasksOK(t), NEW s, CycleInv(t, s), ~Finished(s.calls),
         NextKey(s.calls) \notin s.done, NextKey(s.calls) \in DOMAIN t,
         NextKey(s.calls) \in Range(s.calls.stack)
  PROVE  LET r == VisitCycle(t, s)
         IN  /\ CycleInv(t, r) /\ Uncalled(t, r) = Uncalled(t, s)
             /\ r.calls.stack = s.calls.stack
             /\ Len(Last(r.calls.todo)) < Len(Last(s.calls.todo))
<1> DEFINE c == s.calls
           n == Len(c.stack)
           p == Passed(c)
           k == NextKey(c)
           M == CycleOnStack(c.stack, k)
           r == VisitCycle(t, s)
<1>1. s \in CycleSearches(t) /\ c \in Searches(t) /\ s.done \in SUBSET DOMAIN t
      /\ s.members \in SUBSET DOMAIN t
  BY CycleFields DEF CycleInv
<1>2. p \in Searches(t) /\ p.stack = c.stack /\ k \in Range(c.todo[n + 1])
  BY <1>1, PassedOK
<1>3. /\ IsPath(t, p.stack) /\ Ahead(t, p) /\ Len(Last(p.todo)) < Len(Last(c.todo))
      /\ \A i \in 1..(n + 1) : \A d \in Range(c.todo[i]) :
           d \in Range(p.todo[i]) \/ (i = n + 1 /\ d = k)
  BY <1>1, PassedKeeps DEF CycleInv
<1>4. r = [calls |-> p, done |-> s.done, members |-> s.members \cup M]
  BY <1>1, VisitCloses
<1>5. n \in Nat /\ c.stack \in Seq(DOMAIN t) /\ DOMAIN c.stack = 1..n
      /\ \A i \in 1..n : c.stack[i] \in DOMAIN t
  BY <1>1, CallsTyped
<1>6. k \in DOMAIN t /\ k \notin s.done /\ k \in Range(c.stack)
  OBVIOUS
<1>7. /\ \A i \in 1..n : c.stack[i] \notin s.done
      /\ s.members \subseteq OnCycle(t) /\ Acyclic(t, s.done \ s.members)
      /\ \A j \in s.done \ s.members : Depends(t, j) \subseteq s.done
      /\ IsPath(t, c.stack) /\ Ahead(t, c)
  BY DEF CycleInv
<1>8. PICK h \in 1..n : c.stack[h] = k
  BY <1>5, <1>6 DEF Range
<1>9. n \in 1..n /\ n >= 1
  BY <1>5, <1>8
<1>10. k \in Depends(t, c.stack[n])
  <2>1. k \in Range(Dependencies(t, c.stack[n]))
    BY <1>2, <1>7, <1>9 DEF Ahead
  <2> QED
    BY <1>6, <2>1 DEF Depends
<1>11. M \subseteq OnCycle(t) /\ c.stack[n] \in M
  <2>1. M = {c.stack[i] : i \in {i \in 1..n : \E g \in 1..i : c.stack[g] = k}}
    BY <1>5 DEF CycleOnStack
  <2>2. ASSUME NEW i \in 1..n, NEW g \in 1..i, c.stack[g] = k PROVE c.stack[i] \in OnCycle(t)
    <3>1. g \in 1..n /\ g = h
      BY <1>5, <1>7, <1>8, <2>2 DEF IsPath
    <3>2. i \in h..n
      BY <1>5, <3>1
    <3>3. c.stack[h] \in Depends(t, c.stack[n])
      BY <1>8, <1>10
    <3> QED
      BY <1>5, <1>7, <3>2, <3>3, Rotated
  <2>3. h \in 1..n
    OBVIOUS
  <2> QED
    BY <1>8, <1>9, <2>1, <2>2, <2>3
<1> HIDE DEF r, p, c, M
<1>12. r.calls = p /\ r.done = s.done /\ r.members = s.members \cup M
  BY <1>4
<1>13. r \in CycleSearches(t)
  <2>1. M \subseteq DOMAIN t
    BY <1>11 DEF OnCycle
  <2> QED
    BY <1>1, <1>2, <1>4, <2>1 DEF CycleSearches
<1>14. ASSUME NEW i \in 1..n, c.stack[i] \notin s.members \cup M, NEW d \in Depends(t, c.stack[i])
       PROVE  d \in s.done \/ d \in Range(p.todo[i + 1]) \/ (i < n /\ d = c.stack[i + 1])
  <2>1. d \in s.done \/ d \in Range(c.todo[i + 1]) \/ (i < n /\ d = c.stack[i + 1])
    BY <1>14 DEF CycleInv, c
  <2>2. i # n /\ i + 1 \in 1..(n + 1) /\ i + 1 # n + 1
    BY <1>5, <1>11, <1>14
  <2> QED
    BY <1>3, <2>1, <2>2
<1>15. ASSUME NEW l \in DOMAIN t
       PROVE  l \in s.done \/ (\E i \in 1..n : c.stack[i] = l) \/ l \in Range(p.todo[1])
  <2>1. l \in s.done \/ (\E i \in 1..n : c.stack[i] = l) \/ l \in Range(c.todo[1])
    BY DEF CycleInv, c
  <2>2. 1 \in 1..(n + 1)
    BY <1>5
  <2> QED
    BY <1>3, <1>8, <2>1, <2>2
<1>16. Acyclic(t, s.done \ (s.members \cup M))
  <2>1. \A Y \in SUBSET (s.done \ (s.members \cup M)) : Y \in SUBSET (s.done \ s.members)
    OBVIOUS
  <2> QED
    BY <1>7, <2>1 DEF Acyclic
<1>17. CycleInv(t, r)
  BY <1>2, <1>3, <1>7, <1>11, <1>12, <1>13, <1>14, <1>15, <1>16, SMTT(30) DEF CycleInv
<1>18. Uncalled(t, r) = Uncalled(t, s)
  BY <1>2, <1>12 DEF Uncalled, c
<1> QED
  BY <1>2, <1>3, <1>12, <1>17, <1>18 DEF r, c

(* The stack after a call.                                                 *)
LEMMA CalledKeeps ==
  ASSUME NEW t, TasksOK(t), NEW c \in Searches(t), ~Finished(c), NextKey(c) \in DOMAIN t,
         \A i \in 1..Len(c.stack) : c.stack[i] # NextKey(c), IsPath(t, c.stack), Ahead(t, c)
  PROVE  LET p == Called(t, c)
         IN  /\ IsPath(t, p.stack) /\ Ahead(t, p)
             /\ \A i \in 1..(Len(c.stack) + 1) : \A d \in Range(c.todo[i]) :
                  d \in Range(p.todo[i]) \/ (i = Len(c.stack) + 1 /\ d = NextKey(c))
<1> DEFINE n == Len(c.stack)
           p == Called(t, c)
           k == NextKey(c)
<1>1. /\ p \in Searches(t) /\ Len(p.stack) = n + 1
      /\ \A i \in 1..n : p.stack[i] = c.stack[i] /\ p.todo[i] = c.todo[i]
      /\ p.stack[n + 1] = k /\ p.todo[n + 2] = Dependencies(t, k)
      /\ Range(p.todo[n + 1]) \subseteq Range(c.todo[n + 1])
      /\ Range(c.todo[n + 1]) \subseteq Range(p.todo[n + 1]) \cup {k}
  BY CalledOK
<1>2. n \in Nat /\ k \in Range(c.todo[n + 1])
  BY CallsTyped, PassedOK
<1>3. \A i \in 1..(n + 1) : i = n + 1 \/ i \in 1..n
  BY <1>2
<1> HIDE DEF p
<1>4. \A i, j \in 1..(n + 1) : p.stack[i] = p.stack[j] => i = j
  <2> SUFFICES ASSUME NEW i \in 1..(n + 1), NEW j \in 1..(n + 1), p.stack[i] = p.stack[j]
               PROVE  i = j
    OBVIOUS
  <2>1. CASE i \in 1..n /\ j \in 1..n
    BY <1>1, <2>1 DEF IsPath
  <2>2. CASE i \in 1..n /\ j = n + 1
    BY <1>1, <2>2
  <2>3. CASE i = n + 1 /\ j \in 1..n
    BY <1>1, <2>3
  <2> QED
    BY <1>3, <2>1, <2>2, <2>3
<1>5. ASSUME NEW i \in 1..n PROVE p.stack[i + 1] \in Depends(t, p.stack[i])
  <2>1. CASE i = n
    <3>1. k \in Range(Dependencies(t, c.stack[n]))
      BY <1>2, <2>1 DEF Ahead
    <3>2. k \in Depends(t, c.stack[n])
      BY <3>1 DEF Depends
    <3> QED
      BY <1>1, <2>1, <3>2
  <2>2. CASE i # n
    <3>1. i \in 1..(n - 1) /\ i + 1 \in 1..n
      BY <1>2, <2>2
    <3> QED
      BY <1>1, <3>1 DEF IsPath
  <2> QED
    BY <2>1, <2>2
<1>6. IsPath(t, p.stack)
  <2>1. (n + 1) - 1 = n
    BY <1>2
  <2> QED
    BY <1>1, <1>4, <1>5, <2>1 DEF IsPath
<1>7. ASSUME NEW i \in 1..(n + 1)
      PROVE  Range(p.todo[i + 1]) \subseteq Range(Dependencies(t, p.stack[i]))
  <2>1. CASE i = n + 1
    <3>1. i + 1 = n + 2
      BY <1>2, <2>1
    <3> QED
      BY <1>1, <2>1, <3>1
  <2>2. CASE i = n /\ n >= 1
    <3>1. i \in 1..n /\ p.stack[i] = c.stack[i]
      BY <1>1, <1>2, <2>2
    <3>2. Range(c.todo[i + 1]) \subseteq Range(Dependencies(t, c.stack[i]))
      BY <3>1 DEF Ahead
    <3> QED
      BY <1>1, <2>2, <3>1, <3>2
  <2>3. CASE i < n
    <3>1. i \in 1..n /\ i + 1 \in 1..n
      BY <1>2, <2>3
    <3> QED
      BY <1>1, <3>1 DEF Ahead
  <2>4. i = n + 1 \/ (i = n /\ n >= 1) \/ i < n
    BY <1>2
  <2> QED
    BY <2>1, <2>2, <2>3, <2>4
<1>8. Ahead(t, p)
  BY <1>1, <1>7 DEF Ahead
<1> QED
  BY <1>1, <1>3, <1>6, <1>8 DEF p

(* The next key is called.                                                 *)
LEMMA CycleCall ==
  ASSUME NEW t, TasksOK(t), NEW s, CycleInv(t, s), ~Finished(s.calls),
         NextKey(s.calls) \notin s.done, NextKey(s.calls) \in DOMAIN t,
         NextKey(s.calls) \notin Range(s.calls.stack)
  PROVE  LET r == VisitCycle(t, s)
         IN  /\ CycleInv(t, r) /\ NextKey(s.calls) \in Uncalled(t, s)
             /\ Uncalled(t, r) = Uncalled(t, s) \ {NextKey(s.calls)}
<1> DEFINE c == s.calls
           n == Len(c.stack)
           p == Called(t, c)
           k == NextKey(c)
           r == VisitCycle(t, s)
<1>1. s \in CycleSearches(t) /\ c \in Searches(t) /\ s.done \in SUBSET DOMAIN t
      /\ s.members \in SUBSET DOMAIN t
  BY CycleFields DEF CycleInv
<1>2. n \in Nat /\ DOMAIN c.stack = 1..n
  BY <1>1, CallsTyped
<1>3. k \in DOMAIN t /\ k \notin s.done /\ \A i \in 1..n : c.stack[i] # k
  BY <1>2 DEF Range
<1>4. /\ \A i \in 1..n : c.stack[i] \notin s.done
      /\ s.members \subseteq OnCycle(t) /\ Acyclic(t, s.done \ s.members)
      /\ \A j \in s.done \ s.members : Depends(t, j) \subseteq s.done
      /\ IsPath(t, c.stack) /\ Ahead(t, c)
  BY DEF CycleInv
<1>5. /\ p \in Searches(t) /\ Len(p.stack) = n + 1
      /\ \A i \in 1..n : p.stack[i] = c.stack[i] /\ p.todo[i] = c.todo[i]
      /\ p.stack[n + 1] = k /\ p.todo[n + 2] = Dependencies(t, k)
  BY <1>1, CalledOK, SMTT(30)
<1>6. /\ IsPath(t, p.stack) /\ Ahead(t, p)
      /\ \A i \in 1..(n + 1) : \A d \in Range(c.todo[i]) :
           d \in Range(p.todo[i]) \/ (i = n + 1 /\ d = k)
  BY <1>1, <1>3, <1>4, CalledKeeps
<1>7. r = [calls |-> p, done |-> s.done, members |-> s.members]
  BY <1>1, VisitCalls
<1> HIDE DEF r, p, c, k
<1>8. r.calls = p /\ r.done = s.done /\ r.members = s.members
  BY <1>7
<1>9. r \in CycleSearches(t)
  BY <1>1, <1>5, <1>7 DEF CycleSearches
<1>10. \A i \in 1..(n + 1) : i = n + 1 \/ i \in 1..n
  BY <1>2
<1>11. \A i \in 1..(n + 1) : p.stack[i] \notin s.done
  BY <1>3, <1>4, <1>5, <1>10
<1>12. ASSUME NEW i \in 1..(n + 1), p.stack[i] \notin s.members, NEW d \in Depends(t, p.stack[i])
       PROVE  d \in s.done \/ d \in Range(p.todo[i + 1]) \/ (i < n + 1 /\ d = p.stack[i + 1])
  <2>1. CASE i = n + 1
    <3>1. i + 1 = n + 2
      BY <1>2, <2>1
    <3> QED
      BY <1>5, <2>1, <3>1 DEF Depends
  <2>2. CASE i \in 1..n
    <3>1. d \in s.done \/ d \in Range(c.todo[i + 1]) \/ (i < n /\ d = c.stack[i + 1])
      BY <1>5, <1>12, <2>2 DEF CycleInv, c
    <3>2. i + 1 \in 1..(n + 1) /\ i < n + 1 /\ (i < n => i + 1 \in 1..n)
      BY <1>2, <2>2
    <3> QED
      BY <1>5, <1>6, <3>1, <3>2
  <2> QED
    BY <1>10, <2>1, <2>2
<1>13. ASSUME NEW l \in DOMAIN t
       PROVE  l \in s.done \/ (\E i \in 1..(n + 1) : p.stack[i] = l) \/ l \in Range(p.todo[1])
  <2>1. l \in s.done \/ (\E i \in 1..n : c.stack[i] = l) \/ l \in Range(c.todo[1])
    BY DEF CycleInv, c
  <2>2. 1 \in 1..(n + 1) /\ n + 1 \in 1..(n + 1) /\ \A i \in 1..n : i \in 1..(n + 1)
    BY <1>2
  <2> QED
    BY <1>5, <1>6, <2>1, <2>2
<1>14. CycleInv(t, r)
  BY <1>4, <1>5, <1>6, <1>8, <1>9, <1>11, <1>12, <1>13 DEF CycleInv
<1>15. k \in Uncalled(t, s)
  BY <1>3 DEF Uncalled, c
<1>16. Uncalled(t, r) = Uncalled(t, s) \ {k}
  <2>1. \A l : (\A i \in 1..(n + 1) : p.stack[i] # l) <=> l # k /\ \A i \in 1..n : c.stack[i] # l
    <3>1. n + 1 \in 1..(n + 1) /\ \A i \in 1..n : i \in 1..(n + 1)
      BY <1>2
    <3> QED
      BY <1>5, <1>10, <3>1
  <2>2. Uncalled(t, s) = {l \in DOMAIN t : l \notin s.done /\ \A i \in 1..n : c.stack[i] # l}
    BY DEF Uncalled, c, n
  <2>3. Uncalled(t, r) = {l \in DOMAIN t : l \notin s.done /\ \A i \in 1..(n + 1) : p.stack[i] # l}
    BY <1>5, <1>8 DEF Uncalled
  <2> QED
    BY <2>1, <2>2, <2>3
<1> QED
  BY <1>14, <1>15, <1>16 DEF r, k, c

(* A step of the search from any state of it leads to one.                 *)
LEMMA CycleTyped ==
  ASSUME NEW t, TasksOK(t), NEW s \in CycleSearches(t), ~Over(s.calls)
  PROVE  VisitCycle(t, s) \in CycleSearches(t)
<1> DEFINE c == s.calls
           k == NextKey(c)
<1>1. c \in Searches(t) /\ s.done \in SUBSET DOMAIN t /\ s.members \in SUBSET DOMAIN t
  BY CycleFields
<1>2. CASE Finished(c)
  <2>1. Returned(c) \in Searches(t) /\ Last(c.stack) \in DOMAIN t
    BY <1>1, <1>2, ReturnedOK
  <2>2. VisitCycle(t, s) = [calls |-> Returned(c), done |-> s.done \cup {Last(c.stack)},
                            members |-> s.members]
    BY <1>2, VisitReturns
  <2> QED
    BY <1>1, <2>1, <2>2 DEF CycleSearches
<1>3. CASE ~Finished(c) /\ (k \in s.done \/ k \notin DOMAIN t)
  <2>1. Passed(c) \in Searches(t)
    BY <1>1, <1>3, PassedOK
  <2>2. VisitCycle(t, s) = [calls |-> Passed(c), done |-> s.done, members |-> s.members]
    BY <1>3, VisitPasses
  <2> QED
    BY <1>1, <2>1, <2>2 DEF CycleSearches
<1>4. CASE ~Finished(c) /\ ~(k \in s.done \/ k \notin DOMAIN t) /\ k \in Range(c.stack)
  <2>1. Passed(c) \in Searches(t)
    BY <1>1, <1>4, PassedOK
  <2>2. CycleOnStack(c.stack, k) \subseteq DOMAIN t
    <3>1. DOMAIN c.stack = 1..Len(c.stack) /\ \A i \in 1..Len(c.stack) : c.stack[i] \in DOMAIN t
      BY <1>1, CallsTyped
    <3> QED
      BY <3>1 DEF CycleOnStack
  <2>3. VisitCycle(t, s) = [calls |-> Passed(c), done |-> s.done,
                            members |-> s.members \cup CycleOnStack(c.stack, k)]
    BY <1>4, VisitCloses
  <2> QED
    BY <1>1, <2>1, <2>2, <2>3 DEF CycleSearches
<1>5. CASE ~Finished(c) /\ ~(k \in s.done \/ k \notin DOMAIN t) /\ k \notin Range(c.stack)
  <2>1. Called(t, c) \in Searches(t)
    BY <1>1, <1>5, CalledOK
  <2>2. VisitCycle(t, s) = [calls |-> Called(t, c), done |-> s.done, members |-> s.members]
    BY <1>5, VisitCalls
  <2> QED
    BY <1>1, <2>1, <2>2 DEF CycleSearches
<1> QED
  BY <1>2, <1>3, <1>4, <1>5

LEMMA CycleStart ==
  ASSUME NEW t, TasksOK(t)
  PROVE  CycleInv(t, [calls |-> Start(t), done |-> {}, members |-> {}])
<1> DEFINE c == Start(t)
           s == [calls |-> c, done |-> {}, members |-> {}]
<1>1. c \in Searches(t) /\ Len(c.stack) = 0 /\ Range(c.todo[1]) = DOMAIN t
  BY StartOK
<1> HIDE DEF c
<1>2. s \in CycleSearches(t) /\ s.calls = c /\ s.done = {} /\ s.members = {}
  BY <1>1 DEF CycleSearches
<1> HIDE DEF s
<1>3. 1..Len(c.stack) = {} /\ 1..(Len(c.stack) - 1) = {}
  BY <1>1
<1>4. IsPath(t, c.stack) /\ Ahead(t, c)
  BY <1>3 DEF IsPath, Ahead
<1>5. Acyclic(t, s.done \ s.members)
  BY <1>2 DEF Acyclic
<1>6. CycleInv(t, s)
  BY <1>1, <1>2, <1>3, <1>4, <1>5 DEF CycleInv
<1> QED
  BY <1>6 DEF s, c

(* The search ends, in a state of its invariant.                           *)
LEMMA CycleResult ==
  ASSUME NEW t, TasksOK(t)
  PROVE  \E s : CycleInv(t, s) /\ Over(s.calls) /\ CycleMembers(t) = s.members
<1> DEFINE S == CycleSearches(t)
           E == {s \in S : Over(s.calls)}
           F == [s \in S |-> IF s \in E THEN s ELSE VisitCycle(t, s)]
           Body(R) == [s \in S |-> IF Over(s.calls) THEN s ELSE R[VisitCycle(t, s)]]
           R == CHOOSE R : R = Body(R)
           I == {s \in S : CycleInv(t, s)}
           start == [calls |-> Start(t), done |-> {}, members |-> {}]
<1>1. CycleMembers(t) = R[start].members
  BY DEF CycleMembers
<1>2. F \in [S -> S] /\ E \in SUBSET S
  BY CycleTyped
<1>3. \A f : IsLoop(f, S, F, E) <=> f = Body(f)
  <2>1. \A f : Body(f) = [s \in S |-> IF s \in E THEN s ELSE f[F[s]]]
    OBVIOUS
  <2> QED
    BY <2>1 DEF IsLoop
<1> HIDE DEF E, F, S, Body
<1>4. \E f : f = Body(f)
  BY <1>2, <1>3, LoopExists
<1>5. R = Body(R)
  BY <1>4
<1> HIDE DEF R
<1>6. IsLoop(R, S, F, E)
  BY <1>3, <1>5
<1> DEFINE a == [s \in I |-> Cardinality(Uncalled(t, s))]
           b == [s \in I |-> Len(s.calls.stack)]
           c == [s \in I |-> Len(Last(s.calls.todo))]
<1>7. ASSUME NEW s \in I
      PROVE  /\ s \in CycleSearches(t) /\ CycleInv(t, s) /\ s.calls \in Searches(t)
             /\ IsFiniteSet(Uncalled(t, s)) /\ Cardinality(Uncalled(t, s)) \in Nat
             /\ Len(s.calls.stack) \in Nat /\ Len(Last(s.calls.todo)) \in Nat
  <2>1. s \in CycleSearches(t) /\ CycleInv(t, s)
    BY DEF S
  <2>2. s.calls \in Searches(t)
    BY <2>1, CycleFields
  <2>3. Uncalled(t, s) \in SUBSET DOMAIN t
    BY DEF Uncalled
  <2>4. IsFiniteSet(Uncalled(t, s)) /\ Cardinality(Uncalled(t, s)) \in Nat
    BY <2>3, FS_Subset, FS_CardinalityType DEF TasksOK
  <2>5. Len(s.calls.stack) \in Nat /\ Last(s.calls.todo) \in Seq(Nat \X Nat)
    <3> DEFINE n == Len(s.calls.stack)
    <3>1. n \in Nat /\ Last(s.calls.todo) = s.calls.todo[n + 1]
          /\ \A i \in 1..(n + 1) : s.calls.todo[i] \in Seq(Nat \X Nat)
      BY <2>2, CallsTyped
    <3>2. n + 1 \in 1..(n + 1)
      BY <3>1
    <3> QED
      BY <3>1, <3>2
  <2>6. Len(Last(s.calls.todo)) \in Nat
    BY <2>5
  <2> QED
    BY <2>1, <2>2, <2>4, <2>5, <2>6
<1>8. I \in SUBSET S /\ a \in [I -> Nat] /\ b \in [I -> Nat] /\ c \in [I -> Nat]
  BY <1>7
<1>9. ASSUME NEW s \in I \ E
      PROVE  /\ F[s] \in I
             /\ \/ a[F[s]] < a[s]
                \/ a[F[s]] = a[s] /\ b[F[s]] < b[s]
                \/ a[F[s]] = a[s] /\ b[F[s]] = b[s] /\ c[F[s]] < c[s]
  <2> DEFINE r == VisitCycle(t, s)
             k == NextKey(s.calls)
  <2>1. CycleInv(t, s) /\ ~Over(s.calls) /\ F[s] = r
    BY <1>7 DEF E, F, S
  <2>2. CASE Finished(s.calls)
    <3>1. CycleInv(t, r) /\ Uncalled(t, r) = Uncalled(t, s)
          /\ Len(r.calls.stack) < Len(s.calls.stack)
      BY <2>1, <2>2, CycleReturn
    <3> HIDE DEF r
    <3>2. r \in I
      BY <3>1 DEF CycleInv, S
    <3>3. a[r] = a[s] /\ b[r] < b[s]
      BY <3>1, <3>2
    <3> QED
      BY <2>1, <3>2, <3>3
  <2>3. CASE ~Finished(s.calls) /\ (k \in s.done \/ k \notin DOMAIN t)
    <3>1. /\ CycleInv(t, r) /\ Uncalled(t, r) = Uncalled(t, s) /\ r.calls.stack = s.calls.stack
          /\ Len(Last(r.calls.todo)) < Len(Last(s.calls.todo))
      BY <2>1, <2>3, CyclePass
    <3> HIDE DEF r
    <3>2. r \in I
      BY <3>1 DEF CycleInv, S
    <3>3. a[r] = a[s] /\ b[r] = b[s] /\ c[r] < c[s]
      BY <3>1, <3>2
    <3> QED
      BY <2>1, <3>2, <3>3
  <2>4. CASE /\ ~Finished(s.calls) /\ ~(k \in s.done \/ k \notin DOMAIN t)
             /\ k \in Range(s.calls.stack)
    <3>1. /\ CycleInv(t, r) /\ Uncalled(t, r) = Uncalled(t, s) /\ r.calls.stack = s.calls.stack
          /\ Len(Last(r.calls.todo)) < Len(Last(s.calls.todo))
      BY <2>1, <2>4, CycleClose
    <3> HIDE DEF r
    <3>2. r \in I
      BY <3>1 DEF CycleInv, S
    <3>3. a[r] = a[s] /\ b[r] = b[s] /\ c[r] < c[s]
      BY <3>1, <3>2
    <3> QED
      BY <2>1, <3>2, <3>3
  <2>5. CASE /\ ~Finished(s.calls) /\ ~(k \in s.done \/ k \notin DOMAIN t)
             /\ k \notin Range(s.calls.stack)
    <3>1. CycleInv(t, r) /\ k \in Uncalled(t, s) /\ Uncalled(t, r) = Uncalled(t, s) \ {k}
      BY <2>1, <2>5, CycleCall
    <3> HIDE DEF r, k
    <3>2. r \in I
      BY <3>1 DEF CycleInv, S
    <3>3. IsFiniteSet(Uncalled(t, s)) /\ Cardinality(Uncalled(t, s)) \in Nat
      BY <1>7
    <3>4. Cardinality(Uncalled(t, r)) = Cardinality(Uncalled(t, s)) - 1
      BY <3>1, <3>3, FS_RemoveElement
    <3>5. a[r] < a[s]
      BY <3>2, <3>3, <3>4
    <3> QED
      BY <2>1, <3>2, <3>5
  <2> QED
    BY <2>2, <2>3, <2>4, <2>5
<1>10. start \in I
  BY CycleStart DEF CycleInv, S
<1>11. Descends(I, F, E, a, b, c)
  BY <1>9 DEF Descends
<1> HIDE DEF a, b, c, I, start
<1>12. R[start] \in I /\ R[start] \in E
  BY <1>2, <1>6, <1>8, <1>10, <1>11, LoopEnds
<1> QED
  BY <1>1, <1>12 DEF I, E

(* The members are on cycles, and without them there is none.              *)
LEMMA MembersOK ==
  ASSUME NEW t, TasksOK(t)
  PROVE  /\ CycleMembers(t) \in SUBSET DOMAIN t /\ CycleMembers(t) \subseteq OnCycle(t)
         /\ Acyclic(t, DOMAIN t \ CycleMembers(t))
<1>1. PICK s : CycleInv(t, s) /\ Over(s.calls) /\ CycleMembers(t) = s.members
  BY CycleResult
<1>2. s \in CycleSearches(t) /\ s.calls \in Searches(t) /\ s.done \in SUBSET DOMAIN t
      /\ s.members \in SUBSET DOMAIN t
  BY <1>1, CycleFields DEF CycleInv
<1>3. Len(s.calls.stack) = 0 /\ s.calls.todo[1] = <<>>
  BY <1>1, <1>2, CallsTyped
<1>4. 1..Len(s.calls.stack) = {} /\ Range(s.calls.todo[1]) = {}
  BY <1>3 DEF Range
<1>5. DOMAIN t = s.done
  BY <1>1, <1>2, <1>4 DEF CycleInv
<1> QED
  BY <1>1, <1>2, <1>5 DEF CycleInv

-----------------------------------------------------------------------------
(* Chains of tasks.                                                        *)

LEMMA AgentTasks ==
  ASSUME TypeOK, NEW a
  PROVE  /\ TasksOf(a) \in SUBSET DOMAIN tasks /\ IsFiniteSet(TasksOf(a))
         /\ \A k \in TasksOf(a) : k \in DOMAIN tasks /\ Depends(tasks, k) \in SUBSET TasksOf(a)
<1>1. TasksOf(a) \in SUBSET DOMAIN tasks
  BY DEF TasksOf
<1>2. IsFiniteSet(TasksOf(a))
  BY <1>1, FS_Subset DEF TypeOK
<1>3. ASSUME NEW k \in TasksOf(a) PROVE Depends(tasks, k) \in SUBSET TasksOf(a)
  <2>1. k \in DOMAIN tasks /\ k[1] = a
    BY DEF TasksOf
  <2>2. /\ Depends(tasks, k) = Range(Dependencies(tasks, k)) \cap DOMAIN tasks
        /\ \A d \in Range(Dependencies(tasks, k)) : d[1] = k[1]
    BY <2>1, SnapshotOK, DependsOK
  <2> QED
    BY <2>1, <2>2 DEF TasksOf
<1> QED
  BY <1>1, <1>2, <1>3

(* What the chains in a finite set are; their lengths are bounded because  *)
(* no task is repeated.                                                    *)
LEMMA ChainsOK ==
  ASSUME NEW S, IsFiniteSet(S)
  PROVE  /\ \A c \in Chains(S) : \E n \in 1..Cardinality(S) :
              /\ c \in [1..n -> S] /\ Len(c) = n /\ \A i, j \in 1..n : c[i] = c[j] => i = j
              /\ \A i \in 1..(n - 1) : c[i + 1] \in Depends(tasks, c[i])
         /\ \A n \in Nat \ {0} : \A c \in [1..n -> S] :
              /\ \A i, j \in 1..n : c[i] = c[j] => i = j
              /\ \A i \in 1..(n - 1) : c[i + 1] \in Depends(tasks, c[i])
              => c \in Chains(S) /\ Len(c) = n /\ Last(c) = c[n] /\ n <= Cardinality(S)
<1> DEFINE next == [k \in S |-> Depends(tasks, k)]
           All == UNION {[1..n -> S] : n \in 1..Cardinality(S)}
<1>1. Chains(S) = {c \in All : /\ \A i \in 1..(Len(c) - 1) : c[i + 1] \in next[c[i]]
                               /\ IsInjective(c)}
  BY DEF Chains
<1>2. Cardinality(S) \in Nat
  BY FS_CardinalityType
<1>3. ASSUME NEW n \in Nat, NEW c \in [1..n -> S]
      PROVE  /\ Len(c) = n /\ DOMAIN c = 1..n
             /\ \A i \in 1..(n - 1) : c[i] \in S /\ next[c[i]] = Depends(tasks, c[i])
  <2>1. Len(c) = n /\ DOMAIN c = 1..n
    BY FunctionIsSeq
  <2>2. \A i \in 1..(n - 1) : i \in 1..n
    OBVIOUS
  <2> QED
    BY <2>1, <2>2
<1> HIDE DEF next
<1>4. ASSUME NEW c \in Chains(S)
      PROVE  \E n \in 1..Cardinality(S) :
               /\ c \in [1..n -> S] /\ Len(c) = n /\ \A i, j \in 1..n : c[i] = c[j] => i = j
               /\ \A i \in 1..(n - 1) : c[i + 1] \in Depends(tasks, c[i])
  <2>1. PICK n \in 1..Cardinality(S) : c \in [1..n -> S]
    BY <1>1
  <2>2. n \in Nat
    BY <1>2
  <2>3. /\ Len(c) = n /\ DOMAIN c = 1..n
        /\ \A i \in 1..(n - 1) : next[c[i]] = Depends(tasks, c[i])
    BY <1>3, <2>1, <2>2
  <2>4. /\ \A i \in 1..(n - 1) : c[i + 1] \in next[c[i]]
        /\ \A i, j \in 1..n : c[i] = c[j] => i = j
    BY <1>1, <2>3 DEF IsInjective
  <2> QED
    BY <2>1, <2>3, <2>4
<1>5. ASSUME NEW n \in Nat \ {0}, NEW c \in [1..n -> S],
             \A i, j \in 1..n : c[i] = c[j] => i = j,
             \A i \in 1..(n - 1) : c[i + 1] \in Depends(tasks, c[i])
      PROVE  c \in Chains(S) /\ Len(c) = n /\ Last(c) = c[n] /\ n <= Cardinality(S)
  <2>1. /\ Len(c) = n /\ DOMAIN c = 1..n
        /\ \A i \in 1..(n - 1) : next[c[i]] = Depends(tasks, c[i])
    BY <1>3
  <2>2. c \in Injection(1..n, S)
    BY <1>5 DEF Injection, IsInjective
  <2>3. Cardinality(1..n) = n
    <3>1. 1 \in Int /\ n \in Int
      OBVIOUS
    <3>2. Cardinality(1..n) = IF 1 > n THEN 0 ELSE n - 1 + 1
      BY <3>1, FS_Interval
    <3> QED
      BY <3>2
  <2>4. Cardinality(1..n) <= Cardinality(S)
    BY <2>2, FS_Injection
  <2>5. n \in 1..Cardinality(S)
    BY <1>2, <2>3, <2>4
  <2>6. c \in All
    BY <2>5
  <2>7. \A i \in 1..(Len(c) - 1) : c[i + 1] \in next[c[i]]
    BY <1>5, <2>1
  <2>8. IsInjective(c)
    BY <1>5, <2>1 DEF IsInjective
  <2> HIDE DEF All
  <2>9. c \in Chains(S)
    BY <1>1, <2>6, <2>7, <2>8
  <2> QED
    BY <2>1, <2>3, <2>4, <2>9 DEF Last
<1> QED
  BY <1>4, <1>5

(* Among acyclic tasks no chain closes.                                    *)
LEMMA NoCycle ==
  ASSUME NEW S, IsFiniteSet(S), Acyclic(tasks, S)
  PROVE  Cyclic(S) = {}
<1> SUFFICES ASSUME NEW c \in Chains(S), c[1] \in Depends(tasks, Last(c)) PROVE FALSE
  BY DEF Cyclic
<1>1. PICK n \in 1..Cardinality(S) :
        /\ c \in [1..n -> S] /\ Len(c) = n
        /\ \A i \in 1..(n - 1) : c[i + 1] \in Depends(tasks, c[i])
  BY ChainsOK
<1>2. n \in Nat \ {0} /\ Last(c) = c[n]
  BY <1>1, FS_CardinalityType DEF Last
<1> DEFINE Y == {c[i] : i \in 1..n}
<1>3. Y \in SUBSET S /\ Y # {}
  BY <1>1, <1>2
<1>4. PICK y \in Y : Depends(tasks, y) \cap Y = {}
  BY <1>3 DEF Acyclic
<1>5. PICK i \in 1..n : y = c[i]
  OBVIOUS
<1>6. CASE i = n
  BY <1>2, <1>4, <1>5, <1>6
<1>7. CASE i # n
  <2>1. i \in 1..(n - 1) /\ i + 1 \in 1..n
    BY <1>2, <1>7
  <2>2. c[i + 1] \in Depends(tasks, y) /\ c[i + 1] \in Y
    BY <1>1, <1>5, <2>1
  <2> QED
    BY <1>4, <2>2
<1> QED
  BY <1>6, <1>7

(* A task on a cycle is on one of its own agent's tasks.                   *)
LEMMA CycleOfAgent ==
  ASSUME TypeOK, NEW a, NEW k \in TasksOf(a), k \in OnCycle(tasks)
  PROVE  k \in Cyclic(TasksOf(a))
<1> DEFINE S == TasksOf(a)
<1>1. PICK n \in Nat \ {0} : \E f : IsCycle(tasks, n, f) /\ f[1] = k
  BY DEF OnCycle
<1>2. PICK f : IsCycle(tasks, n, f) /\ f[1] = k
  BY <1>1
<1>3. /\ f \in [1..n -> DOMAIN tasks] /\ \A i, j \in 1..n : f[i] = f[j] => i = j
      /\ \A i \in 1..(n - 1) : f[i + 1] \in Depends(tasks, f[i])
      /\ f[1] \in Depends(tasks, f[n])
  BY <1>2 DEF IsCycle
<1>4. IsFiniteSet(S) /\ \A l \in S : Depends(tasks, l) \in SUBSET S
  BY AgentTasks
<1> HIDE DEF S
<1> DEFINE Bad == {i \in 1..n : f[i] \notin S}
<1>5. Bad = {}
  <2> SUFFICES ASSUME Bad # {} PROVE FALSE
    OBVIOUS
  <2>1. Bad \in SUBSET Nat
    OBVIOUS
  <2>2. PICK i \in Bad : \A j \in Bad : i <= j
    <3> HIDE DEF Bad
    <3> QED
      BY <2>1, Smallest
  <2>3. i # 1
    BY <1>2 DEF S
  <2>4. i - 1 \in 1..(n - 1) /\ i - 1 \in 1..n /\ (i - 1) + 1 = i /\ ~(i <= i - 1)
    BY <2>3
  <2>5. f[i - 1] \in S
    BY <2>2, <2>4
  <2>6. f[i] \in Depends(tasks, f[i - 1])
    BY <1>3, <2>4
  <2> QED
    BY <1>4, <2>5, <2>6
<1>6. f \in [1..n -> S]
  BY <1>3, <1>5
<1>7. f \in Chains(S) /\ Last(f) = f[n]
  BY <1>3, <1>4, <1>6, ChainsOK
<1> QED
  BY <1>2, <1>3, <1>7 DEF Cyclic, S

(* The search for cycles is right about every snapshot.                    *)
LEMMA HitNow == TypeOK => CyclesAreHit
<1> SUFFICES ASSUME TypeOK PROVE CyclesAreHit
  OBVIOUS
<1> DEFINE M == CycleMembers(tasks)
<1>1. M \in SUBSET DOMAIN tasks /\ M \subseteq OnCycle(tasks) /\ Acyclic(tasks, DOMAIN tasks \ M)
  BY SnapshotOK, MembersOK
<1> HIDE DEF M
<1>2. ASSUME NEW a \in Agents
      PROVE  TasksOf(a) \cap M \subseteq Cyclic(TasksOf(a)) /\ Cyclic(TasksOf(a) \ M) = {}
  <2>1. TasksOf(a) \cap M \subseteq Cyclic(TasksOf(a))
    BY <1>1, CycleOfAgent
  <2> DEFINE S == TasksOf(a) \ M
  <2>2. IsFiniteSet(S) /\ S \in SUBSET (DOMAIN tasks \ M)
    <3>1. TasksOf(a) \in SUBSET DOMAIN tasks /\ IsFiniteSet(TasksOf(a))
      BY AgentTasks
    <3>2. S \in SUBSET TasksOf(a)
      OBVIOUS
    <3> QED
      BY <3>1, <3>2, FS_Subset
  <2>3. Acyclic(tasks, S)
    <3>1. \A Y \in SUBSET S : Y \in SUBSET (DOMAIN tasks \ M)
      BY <2>2
    <3> QED
      BY <1>1, <3>1 DEF Acyclic
  <2>4. Cyclic(S) = {}
    BY <2>2, <2>3, NoCycle
  <2> QED
    BY <2>1, <2>4
<1> QED
  BY <1>2 DEF CyclesAreHit, M

(* In every state the search for cycles names only tasks that are on a     *)
(* cycle, and at least one of every cycle.                                 *)
THEOREM CyclesFound == Spec => []CyclesAreHit
BY Types, HitNow, PTL

-----------------------------------------------------------------------------
(* The search for depths.                                                  *)

Memos(t) == [DOMAIN t -> Nat \cup {Unavailable}]

(* The largest entry among the dependencies.                               *)
LEMMA DeepestOK ==
  ASSUME NEW t, TasksOK(t), NEW memo \in Memos(t), NEW k \in DOMAIN t
  PROVE  /\ Deepest(t, memo, k) \in Nat
         /\ \A d \in Depends(t, k) : memo[d] <= Deepest(t, memo, k)
         /\ \/ Deepest(t, memo, k) = 0
            \/ \E d \in Depends(t, k) : memo[d] = Deepest(t, memo, k)
         /\ DepthAbove(Deepest(t, memo, k)) = Deepest(t, memo, k) + 1
<1> DEFINE D == Depends(t, k)
           V == {memo[d] : d \in D}
           A == {0} \cup V
           m == Max(A)
<1>1. D \in SUBSET DOMAIN t /\ IsFiniteSet(D)
  BY DependsOK
<1>2. IsFiniteSet(V)
  BY <1>1, ImageFinite
<1>3. V \in SUBSET Int
  BY <1>1 DEF Memos, Unavailable
<1> HIDE DEF V
<1>4. IsFiniteSet(V \cup {0})
  BY <1>2, FS_AddElement
<1>5. A = V \cup {0} /\ A \in SUBSET Int /\ A # {} /\ 0 \in A
  BY <1>3
<1> HIDE DEF A
<1>6. IsFiniteSet(A)
  BY <1>4, <1>5
<1>7. m \in A /\ \A y \in A : y <= m
  BY <1>5, <1>6, MaxOK
<1>8. Deepest(t, memo, k) = m
  BY DEF Deepest, m, A, V
<1> HIDE DEF m
<1>9. m \in Nat
  BY <1>5, <1>7
<1>10. \A d \in D : memo[d] \in A
  BY DEF A, V
<1>11. m = 0 \/ \E d \in D : memo[d] = m
  BY <1>7 DEF A, V
<1> QED
  BY <1>7, <1>8, <1>9, <1>10, <1>11 DEF DepthAbove

(* Only the entries of the dependencies count.                             *)
LEMMA DeepestSame ==
  ASSUME NEW t, NEW k, NEW f, NEW g, \A d \in Depends(t, k) : f[d] = g[d]
  PROVE  Deepest(t, f, k) = Deepest(t, g, k)
<1>1. {f[d] : d \in Depends(t, k)} = {g[d] : d \in Depends(t, k)}
  OBVIOUS
<1> QED
  BY <1>1 DEF Deepest

(* U is a part of the graph without a cycle and without a member.          *)
IsAcyclicPart(t, M, U) ==
  /\ U \in SUBSET DOMAIN t /\ U \cap M = {} /\ Acyclic(t, U)
  /\ \A k \in U : Depends(t, k) \subseteq U

Succeeded(t, k) == t[k].status = "succeeded"
OnStack(c, k) == \E i \in 1..Len(c.stack) : c.stack[i] = k

(* The entry of k is final: it is one more than the largest of its         *)
(* dependencies, which are final themselves.                               *)
Settled(t, s, k) ==
  /\ s.memo[k] = DepthAbove(Deepest(t, s.memo, k))
  /\ \A d \in Depends(t, k) : s.memo[d] # Unavailable /\ ~OnStack(s.calls, d)

DepthInv(t, U, s) ==
  /\ s \in DepthSearches(t) /\ IsPath(t, s.calls.stack) /\ Ahead(t, s.calls)
  /\ \A i \in 1..Len(s.calls.stack) :
       /\ s.memo[s.calls.stack[i]] # Unavailable /\ ~Succeeded(t, s.calls.stack[i])
       /\ \A d \in Depends(t, s.calls.stack[i]) :
            s.memo[d] # Unavailable \/ d \in Range(s.calls.todo[i + 1])
  /\ \A k \in DOMAIN t : s.memo[k] # Unavailable => (s.memo[k] = 0 <=> Succeeded(t, k))
  /\ \A k \in DOMAIN t : s.memo[k] # Unavailable \/ k \in Range(s.calls.todo[1])
  /\ \A k \in U : s.memo[k] # Unavailable /\ ~OnStack(s.calls, k) /\ ~Succeeded(t, k)
                    => Settled(t, s, k)

Unset(t, s) == {k \in DOMAIN t : s.memo[k] = Unavailable}

LEMMA DepthFields ==
  ASSUME NEW t, NEW s \in DepthSearches(t)
  PROVE  /\ s = [calls |-> s.calls, memo |-> s.memo]
         /\ s.calls \in Searches(t) /\ s.memo \in Memos(t)
         /\ \A k \in DOMAIN t : s.memo[k] \in Nat \/ s.memo[k] = Unavailable
BY DEF DepthSearches, Memos

(* The steps of the search.                                                *)
LEMMA DepthReturns ==
  ASSUME NEW t, NEW M, NEW s \in DepthSearches(t), Finished(s.calls)
  PROVE  LET k == Last(s.calls.stack)
         IN  RemainingDepth(t, M, s) =
               [calls |-> Returned(s.calls),
                memo |-> [s.memo EXCEPT ![k] = DepthAbove(Deepest(t, s.memo, k))]]
BY DEF RemainingDepth

LEMMA DepthPasses ==
  ASSUME NEW t, NEW M, NEW s \in DepthSearches(t), ~Finished(s.calls),
         NextKey(s.calls) \notin DOMAIN t \/ s.memo[NextKey(s.calls)] # Unavailable
  PROVE  RemainingDepth(t, M, s) = [calls |-> Passed(s.calls), memo |-> s.memo]
<1>1. s = [calls |-> s.calls, memo |-> s.memo]
  BY DepthFields
<1> DEFINE x == Passed(s.calls)
<1>2. RemainingDepth(t, M, s) = [s EXCEPT !.calls = x]
  BY DEF RemainingDepth
<1> HIDE DEF x
<1>3. RemainingDepth(t, M, s) = [calls |-> x, memo |-> s.memo]
  BY <1>1, <1>2
<1> QED
  BY <1>3 DEF x

(* A succeeded task has depth 0, a member of a cycle 1.                    *)
DepthMark(t, k) == IF Succeeded(t, k) THEN 0 ELSE 1

LEMMA DepthMarks ==
  ASSUME NEW t, NEW M, NEW s \in DepthSearches(t), ~Finished(s.calls),
         NextKey(s.calls) \in DOMAIN t, s.memo[NextKey(s.calls)] = Unavailable,
         Succeeded(t, NextKey(s.calls)) \/ NextKey(s.calls) \in M
  PROVE  LET k == NextKey(s.calls)
         IN  RemainingDepth(t, M, s) = [calls |-> Passed(s.calls),
                                        memo |-> [s.memo EXCEPT ![k] = DepthMark(t, k)]]
BY DEF RemainingDepth, DepthMark, Succeeded

LEMMA DepthCalls ==
  ASSUME NEW t, NEW M, NEW s \in DepthSearches(t), ~Finished(s.calls),
         NextKey(s.calls) \in DOMAIN t, s.memo[NextKey(s.calls)] = Unavailable,
         ~(Succeeded(t, NextKey(s.calls)) \/ NextKey(s.calls) \in M)
  PROVE  LET k == NextKey(s.calls)
         IN  RemainingDepth(t, M, s) = [calls |-> Called(t, s.calls),
                                        memo |-> [s.memo EXCEPT ![k] = 1]]
BY DEF RemainingDepth, Succeeded

(* A task of the acyclic part does not depend on one that is on the stack  *)
(* below it.                                                               *)
LEMMA NotBelow ==
  ASSUME NEW t, NEW M, NEW U, IsAcyclicPart(t, M, U), NEW c \in Searches(t),
         IsPath(t, c.stack), Len(c.stack) >= 1, c.stack[Len(c.stack)] \in U,
         NEW d \in Depends(t, c.stack[Len(c.stack)])
  PROVE  ~OnStack(c, d)
<1> DEFINE n == Len(c.stack)
<1> SUFFICES ASSUME NEW h \in 1..n, c.stack[h] = d PROVE FALSE
  BY DEF OnStack
<1>1. n \in Nat \ {0}
  BY CallsTyped
<1> DEFINE Y == {c.stack[i] : i \in h..n} \cap U
<1>2. d \in U
  BY DEF IsAcyclicPart
<1>3. Y \in SUBSET U /\ d \in Y
  <2>1. h \in h..n
    BY <1>1
  <2> QED
    BY <1>2, <2>1
<1>4. PICK y \in Y : Depends(t, y) \cap Y = {}
  <2> HIDE DEF Y
  <2> QED
    BY <1>3 DEF IsAcyclicPart, Acyclic
<1>5. PICK i \in h..n : y = c.stack[i]
  OBVIOUS
<1>6. y \in U
  OBVIOUS
<1>7. CASE i = n
  BY <1>3, <1>4, <1>5, <1>7
<1>8. CASE i # n
  <2>1. i \in 1..(n - 1) /\ i + 1 \in h..n
    BY <1>1, <1>8
  <2>2. c.stack[i + 1] \in Depends(t, y)
    BY <1>5, <2>1 DEF IsPath
  <2>3. c.stack[i + 1] \in U
    BY <1>6, <2>2 DEF IsAcyclicPart
  <2>4. c.stack[i + 1] \in Y
    BY <2>1, <2>3
  <2> QED
    BY <1>4, <2>2, <2>4
<1> QED
  BY <1>7, <1>8

(* A call returns: the entry of its task is final.                         *)
LEMMA DepthReturn ==
  ASSUME NEW t, TasksOK(t), NEW M, NEW U, IsAcyclicPart(t, M, U),
         NEW s, DepthInv(t, U, s), Finished(s.calls), ~Over(s.calls)
  PROVE  LET r == RemainingDepth(t, M, s)
         IN  /\ DepthInv(t, U, r) /\ Unset(t, r) = Unset(t, s)
             /\ Len(r.calls.stack) < Len(s.calls.stack)
<1> DEFINE c == s.calls
           n == Len(c.stack)
           p == Returned(c)
           k == c.stack[n]
           v == DepthAbove(Deepest(t, s.memo, k))
           memo == [s.memo EXCEPT ![k] = v]
           r == RemainingDepth(t, M, s)
<1>1. s \in DepthSearches(t) /\ c \in Searches(t) /\ s.memo \in Memos(t)
  BY DepthFields DEF DepthInv
<1>2. /\ n >= 1 /\ p \in Searches(t) /\ Len(p.stack) = n - 1
      /\ \A i \in 1..(n - 1) : p.stack[i] = c.stack[i]
      /\ \A i \in 1..n : p.todo[i] = c.todo[i]
      /\ c.todo[n + 1] = <<>> /\ Last(c.stack) = k /\ k \in DOMAIN t
  BY <1>1, ReturnedOK
<1>3. n \in Nat
  BY <1>1, CallsTyped
<1>4. r = [calls |-> p, memo |-> memo]
  BY <1>1, <1>2, DepthReturns
<1>5. v \in Nat /\ v >= 1
  BY <1>1, <1>2, DeepestOK
<1> HIDE DEF r, p, c, k, v
<1>6. /\ memo \in Memos(t) /\ memo[k] = v
      /\ \A l \in DOMAIN t : l # k => memo[l] = s.memo[l]
  BY <1>1, <1>2, <1>5 DEF Memos
<1> HIDE DEF memo
<1>7. r.calls = p /\ r.memo = memo
  BY <1>4
<1>8. r \in DepthSearches(t)
  BY <1>2, <1>4, <1>6 DEF DepthSearches, Memos
<1>9. n \in 1..n /\ \A i \in 1..(n - 1) : i \in 1..n /\ i + 1 \in 1..n /\ i # n
  BY <1>2, <1>3
<1>10. IsPath(t, c.stack) /\ Ahead(t, c)
  BY DEF DepthInv, c
<1>11. IsPath(t, p.stack)
  <2>2. \A i \in 1..(n - 2) : i \in 1..(n - 1) /\ i + 1 \in 1..(n - 1)
    BY <1>3
  <2>3. (n - 1) - 1 = n - 2
    BY <1>3
  <2>4. \A i, j \in 1..(n - 1) : p.stack[i] = p.stack[j] => i = j
    BY <1>2, <1>9, <1>10 DEF IsPath
  <2>5. \A i \in 1..(n - 2) : p.stack[i + 1] \in Depends(t, p.stack[i])
    BY <1>2, <1>10, <2>2 DEF IsPath
  <2> QED
    BY <1>2, <2>3, <2>4, <2>5 DEF IsPath
<1>12. Ahead(t, p)
  BY <1>2, <1>9, <1>10 DEF Ahead
<1>13. /\ s.memo[k] # Unavailable /\ ~Succeeded(t, k)
       /\ \A d \in Depends(t, k) : s.memo[d] # Unavailable
  <2>1. Range(c.todo[n + 1]) = {}
    BY <1>2 DEF Range
  <2> QED
    BY <1>9, <2>1 DEF DepthInv, c, k
<1>14. v # Unavailable /\ v # 0
  BY <1>5 DEF Unavailable
<1>15. \A l \in DOMAIN t : memo[l] = Unavailable <=> s.memo[l] = Unavailable
  BY <1>6, <1>13, <1>14
<1>16. ASSUME NEW i \in 1..(n - 1)
       PROVE  /\ memo[p.stack[i]] # Unavailable /\ ~Succeeded(t, p.stack[i])
              /\ \A d \in Depends(t, p.stack[i]) :
                   memo[d] # Unavailable \/ d \in Range(p.todo[i + 1])
  <2>1. i \in 1..n /\ p.stack[i] = c.stack[i] /\ p.todo[i + 1] = c.todo[i + 1]
    BY <1>2, <1>9
  <2>2. c.stack[i] \in DOMAIN t
    BY <1>1, <2>1, CallsTyped
  <2>3. \A d \in Depends(t, c.stack[i]) : d \in DOMAIN t
    BY DEF Depends
  <2> QED
    BY <1>15, <2>1, <2>2, <2>3 DEF DepthInv, c
<1>17. \A l \in DOMAIN t : memo[l] # Unavailable => (memo[l] = 0 <=> Succeeded(t, l))
  BY <1>6, <1>13, <1>14, <1>15 DEF DepthInv
<1>18. \A l \in DOMAIN t : memo[l] # Unavailable \/ l \in Range(p.todo[1])
  <2>1. p.todo[1] = c.todo[1]
    BY <1>2, <1>3
  <2> QED
    BY <1>15, <2>1 DEF DepthInv, c
<1>19. \A l : OnStack(c, l) <=> OnStack(p, l) \/ l = k
  <2>1. \A i \in 1..n : i = n \/ i \in 1..(n - 1)
    BY <1>3
  <2> QED
    BY <1>2, <1>9, <2>1 DEF OnStack, k
<1>20. ASSUME NEW l \in U, memo[l] # Unavailable, ~OnStack(p, l), ~Succeeded(t, l)
       PROVE  Settled(t, r, l)
  <2>0. l \in DOMAIN t /\ \A d \in Depends(t, l) : d \in DOMAIN t
    BY DEF IsAcyclicPart, Depends
  <2>1. /\ \A d \in Depends(t, l) : s.memo[d] # Unavailable /\ ~OnStack(c, d)
        /\ memo[l] = DepthAbove(Deepest(t, s.memo, l))
    <3>1. CASE l = k
      <4>1. \A d \in Depends(t, k) : ~OnStack(c, d)
        BY <1>1, <1>2, <1>10, <3>1, NotBelow DEF k
      <4> QED
        BY <1>6, <1>13, <3>1, <4>1 DEF v
    <3>2. CASE l # k
      <4>1. s.memo[l] # Unavailable /\ ~OnStack(c, l)
        BY <1>15, <1>19, <1>20, <2>0, <3>2
      <4>2. Settled(t, s, l)
        BY <1>20, <4>1 DEF DepthInv, c
      <4> QED
        BY <1>6, <2>0, <3>2, <4>2 DEF Settled, c
    <3> QED
      BY <3>1, <3>2
  <2>2. \A d \in Depends(t, l) : d # k /\ memo[d] = s.memo[d]
    BY <1>6, <1>19, <2>0, <2>1
  <2>3. Deepest(t, memo, l) = Deepest(t, s.memo, l)
    BY <2>2, DeepestSame
  <2> QED
    BY <1>7, <1>19, <2>1, <2>2, <2>3 DEF Settled
<1>21. DepthInv(t, U, r)
  BY <1>2, <1>7, <1>8, <1>11, <1>12, <1>16, <1>17, <1>18, <1>20 DEF DepthInv
<1>22. Unset(t, r) = Unset(t, s)
  BY <1>7, <1>15 DEF Unset
<1>23. Len(r.calls.stack) < Len(s.calls.stack)
  BY <1>2, <1>3, <1>7 DEF c
<1> QED
  BY <1>21, <1>22, <1>23 DEF r

(* The next key has an entry, or is not retained.                          *)
LEMMA DepthPass ==
  ASSUME NEW t, TasksOK(t), NEW M, NEW U, IsAcyclicPart(t, M, U),
         NEW s, DepthInv(t, U, s), ~Finished(s.calls),
         NextKey(s.calls) \notin DOMAIN t \/ s.memo[NextKey(s.calls)] # Unavailable
  PROVE  LET r == RemainingDepth(t, M, s)
         IN  /\ DepthInv(t, U, r) /\ Unset(t, r) = Unset(t, s)
             /\ r.calls.stack = s.calls.stack
             /\ Len(Last(r.calls.todo)) < Len(Last(s.calls.todo))
<1> DEFINE c == s.calls
           n == Len(c.stack)
           p == Passed(c)
           k == NextKey(c)
           r == RemainingDepth(t, M, s)
<1>1. s \in DepthSearches(t) /\ c \in Searches(t) /\ s.memo \in Memos(t)
  BY DepthFields DEF DepthInv
<1>2. p \in Searches(t) /\ p.stack = c.stack
  BY <1>1, PassedOK
<1>3. /\ IsPath(t, p.stack) /\ Ahead(t, p) /\ Len(Last(p.todo)) < Len(Last(c.todo))
      /\ \A i \in 1..(n + 1) : \A d \in Range(c.todo[i]) :
           d \in Range(p.todo[i]) \/ (i = n + 1 /\ d = k)
  BY <1>1, PassedKeeps DEF DepthInv
<1>4. r = [calls |-> p, memo |-> s.memo]
  BY <1>1, DepthPasses
<1>5. n \in Nat /\ (k \notin DOMAIN t \/ s.memo[k] # Unavailable)
  BY <1>1, CallsTyped
<1> HIDE DEF r, p, c, k
<1>6. r.calls = p /\ r.memo = s.memo
  BY <1>4
<1>7. r \in DepthSearches(t)
  BY <1>1, <1>2, <1>4 DEF DepthSearches, Memos
<1>8. ASSUME NEW i \in 1..n
      PROVE  /\ s.memo[c.stack[i]] # Unavailable /\ ~Succeeded(t, c.stack[i])
             /\ \A d \in Depends(t, c.stack[i]) :
                  s.memo[d] # Unavailable \/ d \in Range(p.todo[i + 1])
  <2>1. i + 1 \in 1..(n + 1) /\ \A d \in Depends(t, c.stack[i]) : d \in DOMAIN t
    BY <1>5 DEF Depends
  <2>2. /\ s.memo[c.stack[i]] # Unavailable /\ ~Succeeded(t, c.stack[i])
        /\ \A d \in Depends(t, c.stack[i]) :
             s.memo[d] # Unavailable \/ d \in Range(c.todo[i + 1])
    BY DEF DepthInv, c
  <2> QED
    BY <1>3, <1>5, <2>1, <2>2
<1>9. \A l \in DOMAIN t : s.memo[l] # Unavailable \/ l \in Range(p.todo[1])
  <2>1. 1 \in 1..(n + 1) /\ \A l \in DOMAIN t : s.memo[l] # Unavailable \/ l \in Range(c.todo[1])
    BY <1>5 DEF DepthInv, c
  <2> QED
    BY <1>3, <1>5, <2>1
<1>10. \A l \in DOMAIN t : s.memo[l] # Unavailable => (s.memo[l] = 0 <=> Succeeded(t, l))
  BY DEF DepthInv
<1>11. ASSUME NEW l \in U, s.memo[l] # Unavailable, ~OnStack(p, l), ~Succeeded(t, l)
       PROVE  Settled(t, r, l)
  <2>1. \A d : OnStack(p, d) <=> OnStack(c, d)
    BY <1>2 DEF OnStack
  <2>2. Settled(t, s, l)
    BY <1>11, <2>1 DEF DepthInv, c
  <2> QED
    BY <1>6, <2>1, <2>2 DEF Settled, c
<1>12. DepthInv(t, U, r)
  BY <1>2, <1>3, <1>6, <1>7, <1>8, <1>9, <1>10, <1>11 DEF DepthInv
<1>13. Unset(t, r) = Unset(t, s)
  BY <1>6 DEF Unset
<1> QED
  BY <1>2, <1>3, <1>6, <1>12, <1>13 DEF r, c

(* What a first entry v for the next key k leaves as it was.               *)
Entered(t, U, s, k, v, memo) ==
  /\ memo \in Memos(t) /\ memo[k] = v /\ memo[k] # Unavailable
  /\ \A l \in DOMAIN t : l # k => memo[l] = s.memo[l]
  /\ \A l \in DOMAIN t : memo[l] = Unavailable <=> l # k /\ s.memo[l] = Unavailable
  /\ \A l \in U : Settled(t, s, l) /\ l # k =>
       /\ memo[l] = DepthAbove(Deepest(t, memo, l))
       /\ \A d \in Depends(t, l) : d # k /\ memo[d] # Unavailable

LEMMA DepthEntered ==
  ASSUME NEW t, TasksOK(t), NEW U \in SUBSET DOMAIN t, NEW s, DepthInv(t, U, s),
         NEW k \in DOMAIN t, s.memo[k] = Unavailable, NEW v \in Nat,
         NEW memo, memo = [s.memo EXCEPT ![k] = v]
  PROVE  Entered(t, U, s, k, v, memo)
<1>1. s.memo \in Memos(t) /\ v # Unavailable
  BY DepthFields DEF DepthInv, Unavailable
<1>2. memo \in Memos(t) /\ memo[k] = v /\ \A l \in DOMAIN t : l # k => memo[l] = s.memo[l]
  BY <1>1 DEF Memos
<1>3. \A l \in DOMAIN t : memo[l] = Unavailable <=> l # k /\ s.memo[l] = Unavailable
  BY <1>1, <1>2
<1>4. ASSUME NEW l \in U, Settled(t, s, l), l # k
      PROVE  /\ memo[l] = DepthAbove(Deepest(t, memo, l))
             /\ \A d \in Depends(t, l) : d # k /\ memo[d] # Unavailable
  <2>1. \A d \in Depends(t, l) : d \in DOMAIN t /\ s.memo[d] # Unavailable
    BY <1>4 DEF Settled, Depends
  <2>2. \A d \in Depends(t, l) : d # k /\ memo[d] = s.memo[d]
    BY <1>2, <2>1
  <2>3. Deepest(t, memo, l) = Deepest(t, s.memo, l)
    BY <2>2, DeepestSame
  <2> QED
    BY <1>2, <1>4, <2>1, <2>2, <2>3 DEF Settled
<1> QED
  BY <1>1, <1>2, <1>3, <1>4 DEF Entered

(* The next key gets its entry without a call.                             *)
LEMMA DepthMarked ==
  ASSUME NEW t, TasksOK(t), NEW M, NEW U, IsAcyclicPart(t, M, U),
         NEW s, DepthInv(t, U, s), ~Finished(s.calls),
         NextKey(s.calls) \in DOMAIN t, s.memo[NextKey(s.calls)] = Unavailable,
         Succeeded(t, NextKey(s.calls)) \/ NextKey(s.calls) \in M
  PROVE  LET r == RemainingDepth(t, M, s)
         IN  /\ DepthInv(t, U, r) /\ NextKey(s.calls) \in Unset(t, s)
             /\ Unset(t, r) = Unset(t, s) \ {NextKey(s.calls)}
<1> DEFINE c == s.calls
           n == Len(c.stack)
           p == Passed(c)
           k == NextKey(c)
           v == DepthMark(t, k)
           memo == [s.memo EXCEPT ![k] = v]
           r == RemainingDepth(t, M, s)
<1>0. U \in SUBSET DOMAIN t /\ U \cap M = {}
  BY DEF IsAcyclicPart
<1>1. s \in DepthSearches(t) /\ c \in Searches(t) /\ s.memo \in Memos(t)
  BY DepthFields DEF DepthInv
<1>2. p \in Searches(t) /\ p.stack = c.stack
  BY <1>1, PassedOK
<1>3. /\ IsPath(t, p.stack) /\ Ahead(t, p)
      /\ \A i \in 1..(n + 1) : \A d \in Range(c.todo[i]) :
           d \in Range(p.todo[i]) \/ (i = n + 1 /\ d = k)
  BY <1>1, PassedKeeps DEF DepthInv
<1>4. r = [calls |-> p, memo |-> memo]
  BY <1>1, DepthMarks
<1>5. n \in Nat /\ k \in DOMAIN t /\ s.memo[k] = Unavailable /\ (Succeeded(t, k) \/ k \in M)
  BY <1>1, CallsTyped
<1>6. v \in Nat /\ (v = 0 <=> Succeeded(t, k))
  BY DEF DepthMark
<1> HIDE DEF r, p, c, k, v
<1>7. /\ memo \in Memos(t) /\ memo[k] = v /\ memo[k] # Unavailable
      /\ \A l \in DOMAIN t : l # k => memo[l] = s.memo[l]
      /\ \A l \in DOMAIN t : memo[l] = Unavailable <=> l # k /\ s.memo[l] = Unavailable
      /\ \A l \in U : Settled(t, s, l) /\ l # k =>
           /\ memo[l] = DepthAbove(Deepest(t, memo, l))
           /\ \A d \in Depends(t, l) : d # k /\ memo[d] # Unavailable
  <2>1. memo = [s.memo EXCEPT ![k] = v]
    OBVIOUS
  <2> HIDE DEF memo
  <2>2. Entered(t, U, s, k, v, memo)
    BY <1>0, <1>5, <1>6, <2>1, DepthEntered
  <2> QED
    BY <2>2 DEF Entered
<1> HIDE DEF memo
<1>8. r.calls = p /\ r.memo = memo
  BY <1>4
<1>9. r \in DepthSearches(t)
  BY <1>2, <1>4, <1>7 DEF DepthSearches, Memos
<1>10. ASSUME NEW i \in 1..n
       PROVE  /\ memo[c.stack[i]] # Unavailable /\ ~Succeeded(t, c.stack[i])
              /\ \A d \in Depends(t, c.stack[i]) :
                   memo[d] # Unavailable \/ d \in Range(p.todo[i + 1])
  <2>1. /\ i + 1 \in 1..(n + 1) /\ c.stack[i] \in DOMAIN t
        /\ \A d \in Depends(t, c.stack[i]) : d \in DOMAIN t
    BY <1>1, <1>5, CallsTyped DEF Depends
  <2>2. /\ s.memo[c.stack[i]] # Unavailable /\ ~Succeeded(t, c.stack[i])
        /\ \A d \in Depends(t, c.stack[i]) :
             s.memo[d] # Unavailable \/ d \in Range(c.todo[i + 1])
    BY DEF DepthInv, c
  <2> QED
    BY <1>3, <1>7, <2>1, <2>2
<1>11. \A l \in DOMAIN t : memo[l] # Unavailable \/ l \in Range(p.todo[1])
  <2>1. 1 \in 1..(n + 1) /\ \A l \in DOMAIN t : s.memo[l] # Unavailable \/ l \in Range(c.todo[1])
    BY <1>5 DEF DepthInv, c
  <2> QED
    BY <1>3, <1>7, <2>1
<1>12. \A l \in DOMAIN t : memo[l] # Unavailable => (memo[l] = 0 <=> Succeeded(t, l))
  BY <1>6, <1>7 DEF DepthInv
<1>13. ASSUME NEW l \in U, memo[l] # Unavailable, ~OnStack(p, l), ~Succeeded(t, l)
       PROVE  Settled(t, r, l)
  <2>0. l \in DOMAIN t /\ l # k
    BY <1>0, <1>5, <1>13
  <2>1. \A d : OnStack(p, d) <=> OnStack(c, d)
    BY <1>2 DEF OnStack
  <2>2. Settled(t, s, l)
    BY <1>7, <1>13, <2>0, <2>1 DEF DepthInv, c
  <2>3. \A d \in Depends(t, l) : ~OnStack(c, d)
    BY <2>2 DEF Settled, c
  <2> QED
    BY <1>7, <1>8, <2>0, <2>1, <2>2, <2>3 DEF Settled
<1>14. DepthInv(t, U, r)
  BY <1>2, <1>3, <1>8, <1>9, <1>10, <1>11, <1>12, <1>13 DEF DepthInv
<1>15. k \in Unset(t, s) /\ Unset(t, r) = Unset(t, s) \ {k}
  BY <1>5, <1>7, <1>8 DEF Unset
<1> QED
  BY <1>14, <1>15 DEF r, k, c

(* The next key is called.                                                 *)
LEMMA DepthCall ==
  ASSUME NEW t, TasksOK(t), NEW M, NEW U, IsAcyclicPart(t, M, U),
         NEW s, DepthInv(t, U, s), ~Finished(s.calls),
         NextKey(s.calls) \in DOMAIN t, s.memo[NextKey(s.calls)] = Unavailable,
         ~(Succeeded(t, NextKey(s.calls)) \/ NextKey(s.calls) \in M)
  PROVE  LET r == RemainingDepth(t, M, s)
         IN  /\ DepthInv(t, U, r) /\ NextKey(s.calls) \in Unset(t, s)
             /\ Unset(t, r) = Unset(t, s) \ {NextKey(s.calls)}
<1> DEFINE c == s.calls
           n == Len(c.stack)
           p == Called(t, c)
           k == NextKey(c)
           memo == [s.memo EXCEPT ![k] = 1]
           r == RemainingDepth(t, M, s)
<1>0. U \in SUBSET DOMAIN t /\ 1 \in Nat
  BY DEF IsAcyclicPart
<1>1. s \in DepthSearches(t) /\ c \in Searches(t) /\ s.memo \in Memos(t)
  BY DepthFields DEF DepthInv
<1>2. n \in Nat /\ k \in DOMAIN t /\ s.memo[k] = Unavailable /\ ~Succeeded(t, k)
  BY <1>1, CallsTyped
<1>3. \A i \in 1..n : c.stack[i] # k
  BY <1>2 DEF DepthInv
<1>4. /\ p \in Searches(t) /\ Len(p.stack) = n + 1
      /\ \A i \in 1..n : p.stack[i] = c.stack[i] /\ p.todo[i] = c.todo[i]
      /\ p.stack[n + 1] = k /\ p.todo[n + 2] = Dependencies(t, k)
  BY <1>1, CalledOK
<1>5. /\ IsPath(t, p.stack) /\ Ahead(t, p)
      /\ \A i \in 1..(n + 1) : \A d \in Range(c.todo[i]) :
           d \in Range(p.todo[i]) \/ (i = n + 1 /\ d = k)
  <2>1. IsPath(t, c.stack) /\ Ahead(t, c) /\ ~Finished(c)
    BY DEF DepthInv
  <2> HIDE DEF c
  <2> QED
    BY <1>1, <1>2, <1>3, <2>1, CalledKeeps
<1>6. r = [calls |-> p, memo |-> memo]
  BY <1>1, DepthCalls
<1> HIDE DEF r, p, c, k
<1>7. /\ memo \in Memos(t) /\ memo[k] = 1 /\ memo[k] # Unavailable
      /\ \A l \in DOMAIN t : l # k => memo[l] = s.memo[l]
      /\ \A l \in DOMAIN t : memo[l] = Unavailable <=> l # k /\ s.memo[l] = Unavailable
      /\ \A l \in U : Settled(t, s, l) /\ l # k =>
           /\ memo[l] = DepthAbove(Deepest(t, memo, l))
           /\ \A d \in Depends(t, l) : d # k /\ memo[d] # Unavailable
  <2>1. memo = [s.memo EXCEPT ![k] = 1]
    OBVIOUS
  <2> HIDE DEF memo
  <2>2. Entered(t, U, s, k, 1, memo)
    BY <1>0, <1>2, <2>1, DepthEntered
  <2> QED
    BY <2>2 DEF Entered
<1> HIDE DEF memo
<1>8. r.calls = p /\ r.memo = memo
  BY <1>6
<1>9. r \in DepthSearches(t)
  BY <1>4, <1>6, <1>7 DEF DepthSearches, Memos
<1>10. \A i \in 1..(n + 1) : i = n + 1 \/ i \in 1..n
  BY <1>2
<1>11. ASSUME NEW i \in 1..(n + 1)
       PROVE  /\ memo[p.stack[i]] # Unavailable /\ ~Succeeded(t, p.stack[i])
              /\ \A d \in Depends(t, p.stack[i]) :
                   memo[d] # Unavailable \/ d \in Range(p.todo[i + 1])
  <2>1. CASE i = n + 1
    <3>1. i + 1 = n + 2
      BY <1>2, <2>1
    <3> QED
      BY <1>2, <1>4, <1>7, <2>1, <3>1 DEF Depends
  <2>2. CASE i \in 1..n
    <3>1. /\ i + 1 \in 1..(n + 1) /\ c.stack[i] \in DOMAIN t
          /\ \A d \in Depends(t, c.stack[i]) : d \in DOMAIN t
      BY <1>1, <1>2, <2>2, CallsTyped DEF Depends
    <3>2. /\ s.memo[c.stack[i]] # Unavailable /\ ~Succeeded(t, c.stack[i])
          /\ \A d \in Depends(t, c.stack[i]) :
               s.memo[d] # Unavailable \/ d \in Range(c.todo[i + 1])
      BY <2>2 DEF DepthInv, c
    <3>3. p.stack[i] = c.stack[i]
      BY <1>4, <2>2
    <3> QED
      BY <1>5, <1>7, <3>1, <3>2, <3>3
  <2> QED
    BY <1>10, <2>1, <2>2
<1>12. \A l \in DOMAIN t : memo[l] # Unavailable \/ l \in Range(p.todo[1])
  <2>1. 1 \in 1..(n + 1) /\ \A l \in DOMAIN t : s.memo[l] # Unavailable \/ l \in Range(c.todo[1])
    BY <1>2 DEF DepthInv, c
  <2> QED
    BY <1>5, <1>7, <2>1
<1>13. \A l \in DOMAIN t : memo[l] # Unavailable => (memo[l] = 0 <=> Succeeded(t, l))
  BY <1>2, <1>7 DEF DepthInv
<1>14. \A l : OnStack(p, l) <=> OnStack(c, l) \/ l = k
  <2>1. n + 1 \in 1..(n + 1) /\ \A i \in 1..n : i \in 1..(n + 1)
    BY <1>2
  <2> QED
    BY <1>4, <1>10, <2>1 DEF OnStack
<1>15. ASSUME NEW l \in U, memo[l] # Unavailable, ~OnStack(p, l), ~Succeeded(t, l)
       PROVE  Settled(t, r, l)
  <2>0. l \in DOMAIN t /\ l # k /\ ~OnStack(c, l)
    BY <1>0, <1>14, <1>15
  <2>1. Settled(t, s, l)
    BY <1>7, <1>15, <2>0 DEF DepthInv, c
  <2>2. \A d \in Depends(t, l) : ~OnStack(c, d)
    BY <2>1 DEF Settled, c
  <2> QED
    BY <1>7, <1>8, <1>14, <2>0, <2>1, <2>2 DEF Settled
<1>16. DepthInv(t, U, r)
  BY <1>4, <1>5, <1>8, <1>9, <1>11, <1>12, <1>13, <1>15 DEF DepthInv
<1>17. k \in Unset(t, s) /\ Unset(t, r) = Unset(t, s) \ {k}
  BY <1>2, <1>7, <1>8 DEF Unset
<1> QED
  BY <1>16, <1>17 DEF r, k, c

(* A step of the search from any state of it leads to one.                 *)
LEMMA DepthTyped ==
  ASSUME NEW t, TasksOK(t), NEW M, NEW s \in DepthSearches(t), ~Over(s.calls)
  PROVE  RemainingDepth(t, M, s) \in DepthSearches(t)
<1> DEFINE c == s.calls
           k == NextKey(c)
           l == Last(c.stack)
<1>1. c \in Searches(t) /\ s.memo \in Memos(t)
  BY DepthFields
<1>2. \A x \in DOMAIN t : \A v \in Nat : [s.memo EXCEPT ![x] = v] \in Memos(t)
  BY <1>1 DEF Memos
<1>3. CASE Finished(c)
  <2>1. Returned(c) \in Searches(t) /\ l \in DOMAIN t
    BY <1>1, <1>3, ReturnedOK
  <2> DEFINE v == DepthAbove(Deepest(t, s.memo, l))
  <2>2. v \in Nat
    BY <1>1, <2>1, DeepestOK
  <2>3. RemainingDepth(t, M, s) = [calls |-> Returned(c), memo |-> [s.memo EXCEPT ![l] = v]]
    BY <1>3, DepthReturns
  <2> HIDE DEF v, l
  <2>4. [s.memo EXCEPT ![l] = v] \in Memos(t)
    BY <1>2, <2>1, <2>2
  <2> QED
    BY <2>1, <2>3, <2>4 DEF DepthSearches, Memos
<1>4. CASE ~Finished(c) /\ (k \notin DOMAIN t \/ s.memo[k] # Unavailable)
  <2>1. Passed(c) \in Searches(t)
    BY <1>1, <1>4, PassedOK
  <2>2. RemainingDepth(t, M, s) = [calls |-> Passed(c), memo |-> s.memo]
    BY <1>4, DepthPasses
  <2> QED
    BY <1>1, <2>1, <2>2 DEF DepthSearches, Memos
<1>5. CASE /\ ~Finished(c) /\ ~(k \notin DOMAIN t \/ s.memo[k] # Unavailable)
           /\ Succeeded(t, k) \/ k \in M
  <2>1. Passed(c) \in Searches(t)
    BY <1>1, <1>5, PassedOK
  <2>2. RemainingDepth(t, M, s) = [calls |-> Passed(c),
                                   memo |-> [s.memo EXCEPT ![k] = DepthMark(t, k)]]
    BY <1>5, DepthMarks
  <2>3. DepthMark(t, k) \in Nat
    BY DEF DepthMark
  <2>4. [s.memo EXCEPT ![k] = DepthMark(t, k)] \in Memos(t)
    BY <1>2, <1>5, <2>3
  <2> QED
    BY <2>1, <2>2, <2>4 DEF DepthSearches, Memos
<1>6. CASE /\ ~Finished(c) /\ ~(k \notin DOMAIN t \/ s.memo[k] # Unavailable)
           /\ ~(Succeeded(t, k) \/ k \in M)
  <2>1. Called(t, c) \in Searches(t)
    BY <1>1, <1>6, CalledOK
  <2>2. RemainingDepth(t, M, s) = [calls |-> Called(t, c), memo |-> [s.memo EXCEPT ![k] = 1]]
    BY <1>6, DepthCalls
  <2>3. [s.memo EXCEPT ![k] = 1] \in Memos(t)
    BY <1>2, <1>6
  <2> QED
    BY <2>1, <2>2, <2>3 DEF DepthSearches, Memos
<1> QED
  BY <1>3, <1>4, <1>5, <1>6

LEMMA DepthStart ==
  ASSUME NEW t, TasksOK(t), NEW U \in SUBSET DOMAIN t
  PROVE  DepthInv(t, U, [calls |-> Start(t), memo |-> [k \in DOMAIN t |-> Unavailable]])
<1> DEFINE c == Start(t)
           memo == [k \in DOMAIN t |-> Unavailable]
           s == [calls |-> c, memo |-> memo]
<1>1. c \in Searches(t) /\ Len(c.stack) = 0 /\ Range(c.todo[1]) = DOMAIN t
  BY StartOK
<1>2. memo \in Memos(t) /\ \A k \in DOMAIN t : memo[k] = Unavailable
  BY DEF Memos
<1> HIDE DEF c, memo
<1>3. s \in DepthSearches(t) /\ s.calls = c /\ s.memo = memo
  BY <1>1, <1>2 DEF DepthSearches, Memos
<1> HIDE DEF s
<1>4. 1..Len(c.stack) = {} /\ 1..(Len(c.stack) - 1) = {}
  BY <1>1
<1>5. IsPath(t, c.stack) /\ Ahead(t, c)
  BY <1>4 DEF IsPath, Ahead
<1>6. \A i \in 1..Len(c.stack) :
        /\ memo[c.stack[i]] # Unavailable /\ ~Succeeded(t, c.stack[i])
        /\ \A d \in Depends(t, c.stack[i]) : memo[d] # Unavailable \/ d \in Range(c.todo[i + 1])
  BY <1>4
<1>7. DepthInv(t, U, s)
  BY <1>1, <1>2, <1>3, <1>5, <1>6 DEF DepthInv
<1> QED
  BY <1>7 DEF s, c, memo

(* The search ends, in a state of its invariant.                           *)
LEMMA DepthResult ==
  ASSUME NEW t, TasksOK(t), NEW M, NEW U, IsAcyclicPart(t, M, U)
  PROVE  \E s : DepthInv(t, U, s) /\ Over(s.calls) /\ RemainingDepths(t, M) = s.memo
<1> DEFINE S == DepthSearches(t)
           E == {s \in S : Over(s.calls)}
           F == [s \in S |-> IF s \in E THEN s ELSE RemainingDepth(t, M, s)]
           Body(R) == [s \in S |-> IF Over(s.calls) THEN s ELSE R[RemainingDepth(t, M, s)]]
           R == CHOOSE R : R = Body(R)
           I == {s \in S : DepthInv(t, U, s)}
           start == [calls |-> Start(t), memo |-> [k \in DOMAIN t |-> Unavailable]]
<1>1. RemainingDepths(t, M) = R[start].memo
  BY DEF RemainingDepths
<1>2. F \in [S -> S] /\ E \in SUBSET S
  BY DepthTyped
<1>3. \A f : IsLoop(f, S, F, E) <=> f = Body(f)
  <2>1. \A f : Body(f) = [s \in S |-> IF s \in E THEN s ELSE f[F[s]]]
    OBVIOUS
  <2> QED
    BY <2>1 DEF IsLoop
<1> HIDE DEF E, F, S, Body
<1>4. \E f : f = Body(f)
  BY <1>2, <1>3, LoopExists
<1>5. R = Body(R)
  BY <1>4
<1> HIDE DEF R
<1>6. IsLoop(R, S, F, E)
  BY <1>3, <1>5
<1> DEFINE a == [s \in I |-> Cardinality(Unset(t, s))]
           b == [s \in I |-> Len(s.calls.stack)]
           c == [s \in I |-> Len(Last(s.calls.todo))]
<1>7. ASSUME NEW s \in I
      PROVE  /\ s \in DepthSearches(t) /\ DepthInv(t, U, s) /\ s.calls \in Searches(t)
             /\ IsFiniteSet(Unset(t, s)) /\ Cardinality(Unset(t, s)) \in Nat
             /\ Len(s.calls.stack) \in Nat /\ Len(Last(s.calls.todo)) \in Nat
  <2>1. s \in DepthSearches(t) /\ DepthInv(t, U, s)
    BY DEF S
  <2>2. s.calls \in Searches(t)
    BY <2>1, DepthFields
  <2>3. Unset(t, s) \in SUBSET DOMAIN t
    BY DEF Unset
  <2>4. IsFiniteSet(Unset(t, s)) /\ Cardinality(Unset(t, s)) \in Nat
    BY <2>3, FS_Subset, FS_CardinalityType DEF TasksOK
  <2>5. Len(s.calls.stack) \in Nat /\ Last(s.calls.todo) \in Seq(Nat \X Nat)
    <3> DEFINE n == Len(s.calls.stack)
    <3>1. n \in Nat /\ Last(s.calls.todo) = s.calls.todo[n + 1]
          /\ \A i \in 1..(n + 1) : s.calls.todo[i] \in Seq(Nat \X Nat)
      BY <2>2, CallsTyped
    <3>2. n + 1 \in 1..(n + 1)
      BY <3>1
    <3> QED
      BY <3>1, <3>2
  <2>6. Len(Last(s.calls.todo)) \in Nat
    BY <2>5
  <2> QED
    BY <2>1, <2>2, <2>4, <2>5, <2>6
<1>8. I \in SUBSET S /\ a \in [I -> Nat] /\ b \in [I -> Nat] /\ c \in [I -> Nat]
  BY <1>7
<1>9. ASSUME NEW s \in I \ E
      PROVE  /\ F[s] \in I
             /\ \/ a[F[s]] < a[s]
                \/ a[F[s]] = a[s] /\ b[F[s]] < b[s]
                \/ a[F[s]] = a[s] /\ b[F[s]] = b[s] /\ c[F[s]] < c[s]
  <2> DEFINE r == RemainingDepth(t, M, s)
             k == NextKey(s.calls)
  <2>1. DepthInv(t, U, s) /\ ~Over(s.calls) /\ F[s] = r
    BY <1>7 DEF E, F, S
  <2>2. CASE Finished(s.calls)
    <3>1. DepthInv(t, U, r) /\ Unset(t, r) = Unset(t, s)
          /\ Len(r.calls.stack) < Len(s.calls.stack)
      BY <2>1, <2>2, DepthReturn
    <3> HIDE DEF r
    <3>2. r \in I
      BY <3>1 DEF DepthInv, S
    <3>3. a[r] = a[s] /\ b[r] < b[s]
      BY <3>1, <3>2
    <3> QED
      BY <2>1, <3>2, <3>3
  <2>3. CASE ~Finished(s.calls) /\ (k \notin DOMAIN t \/ s.memo[k] # Unavailable)
    <3>1. /\ DepthInv(t, U, r) /\ Unset(t, r) = Unset(t, s) /\ r.calls.stack = s.calls.stack
          /\ Len(Last(r.calls.todo)) < Len(Last(s.calls.todo))
      BY <2>1, <2>3, DepthPass
    <3> HIDE DEF r
    <3>2. r \in I
      BY <3>1 DEF DepthInv, S
    <3>3. a[r] = a[s] /\ b[r] = b[s] /\ c[r] < c[s]
      BY <3>1, <3>2
    <3> QED
      BY <2>1, <3>2, <3>3
  <2>4. CASE ~Finished(s.calls) /\ ~(k \notin DOMAIN t \/ s.memo[k] # Unavailable)
    <3>1. DepthInv(t, U, r) /\ k \in Unset(t, s) /\ Unset(t, r) = Unset(t, s) \ {k}
      <4>1. CASE Succeeded(t, k) \/ k \in M
        BY <2>1, <2>4, <4>1, DepthMarked
      <4>2. CASE ~(Succeeded(t, k) \/ k \in M)
        BY <2>1, <2>4, <4>2, DepthCall
      <4> QED
        BY <4>1, <4>2
    <3> HIDE DEF r, k
    <3>2. r \in I
      BY <3>1 DEF DepthInv, S
    <3>3. IsFiniteSet(Unset(t, s)) /\ Cardinality(Unset(t, s)) \in Nat
      BY <1>7
    <3>4. Cardinality(Unset(t, r)) = Cardinality(Unset(t, s)) - 1
      BY <3>1, <3>3, FS_RemoveElement
    <3>5. a[r] < a[s]
      BY <3>2, <3>3, <3>4
    <3> QED
      BY <2>1, <3>2, <3>5
  <2> QED
    BY <2>2, <2>3, <2>4
<1>10. start \in I
  <2>1. U \in SUBSET DOMAIN t
    BY DEF IsAcyclicPart
  <2>2. DepthInv(t, U, start)
    BY <2>1, DepthStart
  <2> QED
    BY <2>2 DEF DepthInv, S
<1>11. Descends(I, F, E, a, b, c)
  BY <1>9 DEF Descends
<1> HIDE DEF a, b, c, I, start
<1>12. R[start] \in I /\ R[start] \in E
  BY <1>2, <1>6, <1>8, <1>10, <1>11, LoopEnds
<1> QED
  BY <1>1, <1>12 DEF I, E

(* Every task has a depth, 0 exactly when it has succeeded; in a part      *)
(* without a cycle it is one more than the largest of its dependencies.    *)
LEMMA DepthsOK ==
  ASSUME NEW t, TasksOK(t), NEW M, NEW U, IsAcyclicPart(t, M, U)
  PROVE  LET depths == RemainingDepths(t, M)
         IN  /\ depths \in [DOMAIN t -> Nat]
             /\ \A k \in DOMAIN t : depths[k] = 0 <=> t[k].status = "succeeded"
             /\ \A k \in U : ~Succeeded(t, k) => depths[k] = DepthAbove(Deepest(t, depths, k))
<1> DEFINE depths == RemainingDepths(t, M)
<1>1. PICK s : DepthInv(t, U, s) /\ Over(s.calls) /\ depths = s.memo
  BY DepthResult
<1> HIDE DEF depths
<1>2. s \in DepthSearches(t) /\ s.calls \in Searches(t) /\ s.memo \in Memos(t)
  BY <1>1, DepthFields DEF DepthInv
<1>3. Len(s.calls.stack) = 0 /\ s.calls.todo[1] = <<>>
  BY <1>1, <1>2, CallsTyped
<1>4. 1..Len(s.calls.stack) = {} /\ Range(s.calls.todo[1]) = {}
  BY <1>3 DEF Range
<1>5. \A k \in DOMAIN t : depths[k] # Unavailable
  BY <1>1, <1>4 DEF DepthInv
<1>6. depths \in [DOMAIN t -> Nat]
  BY <1>1, <1>2, <1>5 DEF Memos
<1>7. \A k \in DOMAIN t : depths[k] = 0 <=> t[k].status = "succeeded"
  BY <1>1, <1>5 DEF DepthInv, Succeeded
<1>8. ASSUME NEW k \in U, ~Succeeded(t, k) PROVE depths[k] = DepthAbove(Deepest(t, depths, k))
  <2>1. k \in DOMAIN t /\ ~OnStack(s.calls, k)
    BY <1>4 DEF IsAcyclicPart, OnStack
  <2>2. Settled(t, s, k)
    BY <1>1, <1>5, <1>8, <2>1 DEF DepthInv
  <2> QED
    BY <1>1, <2>2 DEF Settled
<1> QED
  BY <1>6, <1>7, <1>8 DEF depths

-----------------------------------------------------------------------------
(* Depths are the lengths of chains.                                       *)

LEMMA MaxIs ==
  ASSUME NEW A \in SUBSET Int, NEW m \in A, \A y \in A : y <= m
  PROVE  Max(A) = m
<1>1. \E x \in A : \A y \in A : x >= y
  OBVIOUS
<1>2. Max(A) \in A /\ \A y \in A : Max(A) >= y
  BY <1>1 DEF Max
<1>3. Max(A) \in Int /\ m \in Int /\ Max(A) >= m /\ Max(A) <= m
  BY <1>2
<1> QED
  BY <1>3

Open(U) == {k \in U : tasks[k].status # "succeeded"}
ChainsFrom(U, k) == {c \in Chains(Open(U)) : c[1] = k}

(* n is the length of a longest chain of U from k, or 0 if there is none.  *)
IsLongest(U, k, n) ==
  /\ n = 0 \/ \E c \in ChainsFrom(U, k) : Len(c) = n
  /\ \A c \in ChainsFrom(U, k) : Len(c) <= n

(* A chain without its first task.                                         *)
LEMMA ChainTail ==
  ASSUME NEW U, IsFiniteSet(U), NEW k, NEW c \in ChainsFrom(U, k)
  PROVE  /\ Len(c) \in Nat \ {0} /\ k \in Open(U)
         /\ Len(c) > 1 => \E d \in Depends(tasks, k) : \E b \in ChainsFrom(U, d) : Len(b) = Len(c) - 1
<1> DEFINE S == Open(U)
<1>1. S \in SUBSET U
  BY DEF Open
<1>2. IsFiniteSet(S) /\ Cardinality(S) \in Nat
  BY <1>1, FS_Subset, FS_CardinalityType
<1>3. c \in Chains(S) /\ c[1] = k
  BY DEF ChainsFrom
<1>4. PICK n \in 1..Cardinality(S) :
        /\ c \in [1..n -> S] /\ Len(c) = n /\ \A i, j \in 1..n : c[i] = c[j] => i = j
        /\ \A i \in 1..(n - 1) : c[i + 1] \in Depends(tasks, c[i])
  BY <1>2, <1>3, ChainsOK
<1>5. n \in Nat \ {0} /\ 1 \in 1..n
  BY <1>2
<1>6. k \in S
  BY <1>3, <1>4, <1>5
<1>7. ASSUME n > 1
      PROVE  \E d \in Depends(tasks, k) : \E b \in ChainsFrom(U, d) : Len(b) = n - 1
  <2> DEFINE m == n - 1
             b == [i \in 1..m |-> c[i + 1]]
  <2>1. m \in Nat \ {0} /\ 1 \in 1..m /\ 1 \in 1..(n - 1) /\ n = m + 1
    BY <1>5, <1>7
  <2>2. \A i \in 1..m : i + 1 \in 1..n
    BY <2>1
  <2>3. b \in [1..m -> S] /\ \A i \in 1..m : b[i] = c[i + 1]
    BY <1>4, <2>2
  <2> HIDE DEF b, m, S
  <2>4. \A i, j \in 1..m : b[i] = b[j] => i = j
    <3> SUFFICES ASSUME NEW i \in 1..m, NEW j \in 1..m, b[i] = b[j] PROVE i = j
      OBVIOUS
    <3>1. i + 1 = j + 1
      BY <1>4, <2>2, <2>3
    <3> QED
      BY <2>1, <3>1
  <2>5. \A i \in 1..(m - 1) : b[i + 1] \in Depends(tasks, b[i])
    <3> SUFFICES ASSUME NEW i \in 1..(m - 1) PROVE b[i + 1] \in Depends(tasks, b[i])
      OBVIOUS
    <3>1. i \in 1..m /\ i + 1 \in 1..m /\ i + 1 \in 1..(n - 1)
      BY <2>1
    <3> QED
      BY <1>4, <2>3, <3>1
  <2>6. b \in Chains(S) /\ Len(b) = m
    BY <1>2, <2>1, <2>3, <2>4, <2>5, ChainsOK, SMTT(30)
  <2>7. b[1] \in Depends(tasks, k)
    BY <1>3, <1>4, <2>1, <2>3
  <2> QED
    BY <2>6, <2>7 DEF ChainsFrom, m, S
<1> QED
  BY <1>4, <1>5, <1>6, <1>7

(* A chain with one more task before it, which is not on it already where  *)
(* there is no cycle.                                                      *)
LEMMA ChainGrows ==
  ASSUME NEW U, IsFiniteSet(U), Acyclic(tasks, U), NEW k \in Open(U),
         NEW d \in Depends(tasks, k), NEW b \in ChainsFrom(U, d)
  PROVE  \E c \in ChainsFrom(U, k) : Len(c) = Len(b) + 1
<1> DEFINE S == Open(U)
<1>1. S \in SUBSET U
  BY DEF Open
<1>2. IsFiniteSet(S) /\ Cardinality(S) \in Nat
  BY <1>1, FS_Subset, FS_CardinalityType
<1>3. b \in Chains(S) /\ b[1] = d
  BY DEF ChainsFrom
<1>4. PICK m \in 1..Cardinality(S) :
        /\ b \in [1..m -> S] /\ Len(b) = m /\ \A i, j \in 1..m : b[i] = b[j] => i = j
        /\ \A i \in 1..(m - 1) : b[i + 1] \in Depends(tasks, b[i])
  BY <1>2, <1>3, ChainsOK
<1>5. m \in Nat \ {0} /\ 1 \in 1..m /\ k \in S
  BY <1>2
<1> HIDE DEF S
<1>6. ASSUME NEW h \in 1..m, b[h] = k PROVE FALSE
  <2> DEFINE Y == {b[i] : i \in 1..h}
  <2>1. Y \in SUBSET U /\ Y # {}
    <3>1. \A i \in 1..h : i \in 1..m
      BY <1>5
    <3> QED
      BY <1>1, <1>4, <3>1
  <2>2. PICK y \in Y : Depends(tasks, y) \cap Y = {}
    BY <2>1 DEF Acyclic
  <2>3. PICK i \in 1..h : y = b[i]
    OBVIOUS
  <2>4. CASE i = h
    <3>1. 1 \in 1..h
      BY <1>5
    <3>2. d \in Y
      BY <1>3, <3>1
    <3> QED
      BY <1>6, <2>2, <2>3, <2>4, <3>2
  <2>5. CASE i # h
    <3>1. i + 1 \in 1..h /\ i \in 1..(m - 1)
      BY <1>5, <2>5
    <3>2. b[i + 1] \in Y /\ b[i + 1] \in Depends(tasks, y)
      BY <1>4, <2>3, <3>1
    <3> QED
      BY <2>2, <3>2
  <2> QED
    BY <2>4, <2>5
<1> DEFINE n == m + 1
           c == [i \in 1..n |-> IF i = 1 THEN k ELSE b[i - 1]]
<1>7. n \in Nat \ {0} /\ 1 \in 1..n /\ \A i \in 1..n : i = 1 \/ i - 1 \in 1..m
  BY <1>5
<1>8. /\ c \in [1..n -> S] /\ c[1] = k
      /\ \A i \in 1..n : i # 1 => c[i] = b[i - 1]
  BY <1>4, <1>5, <1>7
<1> HIDE DEF c
<1>9. \A i, j \in 1..n : c[i] = c[j] => i = j
  <2> SUFFICES ASSUME NEW i \in 1..n, NEW j \in 1..n, c[i] = c[j] PROVE i = j
    OBVIOUS
  <2>1. CASE i = 1 /\ j # 1
    BY <1>6, <1>7, <1>8, <2>1
  <2>2. CASE i # 1 /\ j = 1
    BY <1>6, <1>7, <1>8, <2>2
  <2>3. CASE i # 1 /\ j # 1
    <3>1. i - 1 \in 1..m /\ j - 1 \in 1..m /\ b[i - 1] = b[j - 1]
      BY <1>7, <1>8, <2>3
    <3>2. i - 1 = j - 1
      BY <1>4, <3>1
    <3> QED
      BY <3>2
  <2> QED
    BY <2>1, <2>2, <2>3
<1>10. \A i \in 1..(n - 1) : c[i + 1] \in Depends(tasks, c[i])
  <2> SUFFICES ASSUME NEW i \in 1..(n - 1) PROVE c[i + 1] \in Depends(tasks, c[i])
    OBVIOUS
  <2>1. i \in 1..n /\ i + 1 \in 1..n /\ i + 1 # 1 /\ (i + 1) - 1 = i
    BY <1>5
  <2>2. c[i + 1] = b[i]
    BY <1>8, <2>1
  <2>3. CASE i = 1
    BY <1>3, <1>8, <2>2, <2>3
  <2>4. CASE i # 1
    <3>1. i - 1 \in 1..(m - 1) /\ (i - 1) + 1 = i /\ c[i] = b[i - 1]
      BY <1>5, <1>8, <2>1, <2>4
    <3> QED
      BY <1>4, <2>2, <3>1
  <2> QED
    BY <2>3, <2>4
<1>11. c \in Chains(S) /\ Len(c) = n
  BY <1>2, <1>7, <1>8, <1>9, <1>10, ChainsOK
<1> QED
  BY <1>4, <1>8, <1>11 DEF ChainsFrom, S

(* A chain of one task.                                                    *)
LEMMA ChainOfOne ==
  ASSUME NEW U, IsFiniteSet(U), NEW k \in Open(U)
  PROVE  \E c \in ChainsFrom(U, k) : Len(c) = 1
<1> DEFINE S == Open(U)
           c == [i \in 1..1 |-> k]
<1>1. S \in SUBSET U
  BY DEF Open
<1>2. IsFiniteSet(S)
  BY <1>1, FS_Subset
<1>3. c \in [1..1 -> S] /\ c[1] = k
  OBVIOUS
<1>4. /\ \A i, j \in 1..1 : c[i] = c[j] => i = j
      /\ \A i \in 1..(1 - 1) : c[i + 1] \in Depends(tasks, c[i])
  <2>1. (\A i \in 1..1 : i = 1) /\ 1..(1 - 1) = {}
    OBVIOUS
  <2> QED
    BY <2>1
<1> HIDE DEF c, S
<1>5. 1 \in Nat \ {0}
  OBVIOUS
<1>6. c \in Chains(S) /\ Len(c) = 1
  BY <1>2, <1>3, <1>4, <1>5, ChainsOK
<1> QED
  BY <1>3, <1>6 DEF ChainsFrom, S

(* Depths that follow the dependencies are lengths of longest chains.      *)
LEMMA LongestOK ==
  ASSUME TypeOK, NEW M, NEW U, IsFiniteSet(U), IsAcyclicPart(tasks, M, U),
         NEW depths \in [DOMAIN tasks -> Nat],
         \A k \in DOMAIN tasks : depths[k] = 0 <=> tasks[k].status = "succeeded",
         \A k \in U : ~Succeeded(tasks, k) => depths[k] = DepthAbove(Deepest(tasks, depths, k))
  PROVE  \A k \in U : IsLongest(U, k, depths[k])
<1> DEFINE Bad == {k \in U : ~IsLongest(U, k, depths[k])}
<1> SUFFICES ASSUME Bad # {} PROVE FALSE
  OBVIOUS
<1>1. U \in SUBSET DOMAIN tasks /\ Acyclic(tasks, U)
      /\ \A k \in U : Depends(tasks, k) \subseteq U
  BY DEF IsAcyclicPart
<1>2. PICK k \in Bad : Depends(tasks, k) \cap Bad = {}
  <2>1. Bad \in SUBSET U
    OBVIOUS
  <2> HIDE DEF Bad
  <2> QED
    BY <1>1, <2>1 DEF Acyclic
<1>3. k \in U /\ k \in DOMAIN tasks /\ ~IsLongest(U, k, depths[k])
      /\ \A d \in Depends(tasks, k) : d \in U /\ d \in DOMAIN tasks /\ IsLongest(U, d, depths[d])
  BY <1>1, <1>2
<1> HIDE DEF Bad
<1>4. CASE Succeeded(tasks, k)
  <2>1. depths[k] = 0
    BY <1>3, <1>4 DEF Succeeded
  <2>2. k \notin Open(U)
    BY <1>4 DEF Open, Succeeded
  <2>3. ChainsFrom(U, k) = {}
    BY <2>2, ChainTail
  <2> QED
    BY <1>3, <2>1, <2>3 DEF IsLongest
<1>5. CASE ~Succeeded(tasks, k)
  <2> DEFINE m == Deepest(tasks, depths, k)
  <2>1. depths \in Memos(tasks) /\ TasksOK(tasks)
    BY SnapshotOK DEF Memos
  <2>2. /\ m \in Nat /\ DepthAbove(m) = m + 1
        /\ \A d \in Depends(tasks, k) : depths[d] <= m
        /\ m = 0 \/ \E d \in Depends(tasks, k) : depths[d] = m
    BY <1>3, <2>1, DeepestOK
  <2>3. depths[k] = m + 1
    BY <1>3, <1>5, <2>2
  <2> HIDE DEF m
  <2>4. k \in Open(U)
    BY <1>3, <1>5 DEF Open, Succeeded
  <2>5. \E c \in ChainsFrom(U, k) : Len(c) = m + 1
    <3>1. CASE m = 0
      BY <2>4, <3>1, ChainOfOne
    <3>2. CASE m # 0
      <4>1. PICK d \in Depends(tasks, k) : depths[d] = m
        BY <2>2, <3>2
      <4>2. PICK b \in ChainsFrom(U, d) : Len(b) = m
        BY <1>3, <3>2, <4>1 DEF IsLongest
      <4>3. \E c \in ChainsFrom(U, k) : Len(c) = Len(b) + 1
        BY <1>1, <2>4, ChainGrows
      <4> QED
        BY <4>2, <4>3
    <3> QED
      BY <3>1, <3>2
  <2>6. ASSUME NEW c \in ChainsFrom(U, k) PROVE Len(c) <= m + 1
    <3>1. /\ Len(c) \in Nat \ {0}
          /\ Len(c) > 1 => \E d \in Depends(tasks, k) :
                             \E b \in ChainsFrom(U, d) : Len(b) = Len(c) - 1
      BY ChainTail
    <3>2. CASE Len(c) > 1
      <4>1. PICK d \in Depends(tasks, k) : \E b \in ChainsFrom(U, d) : Len(b) = Len(c) - 1
        BY <3>1, <3>2
      <4>2. PICK b \in ChainsFrom(U, d) : Len(b) = Len(c) - 1
        BY <4>1
      <4>3. Len(b) <= depths[d] /\ depths[d] <= m /\ depths[d] \in Nat
        BY <1>3, <2>2 DEF IsLongest
      <4> QED
        BY <2>2, <3>1, <4>2, <4>3
    <3>3. CASE ~(Len(c) > 1)
      BY <2>2, <3>1, <3>3
    <3> QED
      BY <3>2, <3>3
  <2> QED
    BY <1>3, <2>3, <2>5, <2>6 DEF IsLongest
<1> QED
  BY <1>4, <1>5

LEMMA LongestNow == TypeOK => DepthIsLongestChain
<1> SUFFICES ASSUME TypeOK PROVE DepthIsLongestChain
  OBVIOUS
<1> DEFINE M == CycleMembers(tasks)
           depths == RemainingDepths(tasks, M)
<1>1. TasksOK(tasks)
  BY SnapshotOK
<1>2. M \subseteq OnCycle(tasks) /\ Acyclic(tasks, DOMAIN tasks \ M)
  BY <1>1, MembersOK
<1> HIDE DEF M
<1>3. ASSUME NEW a \in Agents, Cyclic(TasksOf(a)) = {}, NEW k \in TasksOf(a)
      PROVE  depths[k] = Max({0} \cup {Len(c) : c \in ChainsFrom(TasksOf(a), k)})
  <2> DEFINE U == TasksOf(a)
             L == {Len(c) : c \in ChainsFrom(U, k)}
             A == {0} \cup L
  <2>1. /\ U \in SUBSET DOMAIN tasks /\ IsFiniteSet(U)
        /\ \A l \in U : Depends(tasks, l) \in SUBSET U
    BY AgentTasks
  <2>2. U \cap M = {}
    BY <1>2, <1>3, CycleOfAgent
  <2>3. Acyclic(tasks, U)
    <3>1. \A Y \in SUBSET U : Y \in SUBSET (DOMAIN tasks \ M)
      BY <2>1, <2>2
    <3> QED
      BY <1>2, <3>1 DEF Acyclic
  <2>4. k \in U
    BY <1>3
  <2> HIDE DEF U
  <2>5. IsAcyclicPart(tasks, M, U)
    BY <2>1, <2>2, <2>3 DEF IsAcyclicPart
  <2>6. /\ depths \in [DOMAIN tasks -> Nat]
        /\ \A l \in DOMAIN tasks : depths[l] = 0 <=> tasks[l].status = "succeeded"
        /\ \A l \in U : ~Succeeded(tasks, l) => depths[l] = DepthAbove(Deepest(tasks, depths, l))
    BY <1>1, <2>5, DepthsOK
  <2> HIDE DEF depths
  <2>7. IsLongest(U, k, depths[k])
    BY <2>1, <2>4, <2>5, <2>6, LongestOK
  <2>8. depths[k] \in Nat
    BY <2>1, <2>4, <2>6
  <2>9. \A c \in ChainsFrom(U, k) : Len(c) \in Nat \ {0}
    BY <2>1, ChainTail
  <2>10. A \in SUBSET Int /\ depths[k] \in A /\ \A y \in A : y <= depths[k]
    BY <2>7, <2>8, <2>9 DEF IsLongest
  <2> HIDE DEF A
  <2>11. Max(A) = depths[k]
    BY <2>10, MaxIs
  <2> QED
    BY <2>11 DEF A, L, U
<1> QED
  BY <1>3 DEF DepthIsLongestChain, M, depths, ChainsFrom, Open

(* In every state, the remaining depth of a task of an agent without a     *)
(* dependency cycle is the length of the longest chain of tasks that have  *)
(* not succeeded from it on.                                               *)
THEOREM LongestChains == Spec => []DepthIsLongestChain
BY Types, LongestNow, PTL

-----------------------------------------------------------------------------
(* The sums of the analysis.                                               *)

(* The task of k counts as stalled; it names a goal that is not retained.  *)
IsStalled(k) == tasks[k].status \in ActiveStatuses /\ tasks[k].age >= StaleAfter
IsOrphan(k) == tasks[k].goal # 0 /\ GoalOf(tasks, k) \notin goals

(* What the diagnostics of a task say of it, and that being stalled is     *)
(* diagnosed once.                                                         *)
LEMMA FoundRules ==
  ASSUME NEW M, NEW k
  PROVE  LET F == Diagnostics(tasks, goals, M, k)
         IN  /\ "orphan_goal" \in Rules(F) <=> IsOrphan(k)
             /\ "stalled_task" \in Rules(F) <=> IsStalled(k)
             /\ "dependency_cycle" \in Rules(F) <=> k \in M
             /\ \E d : {e \in F : e.rule = "stalled_task"} = IF IsStalled(k) THEN {d} ELSE {}
<1> DEFINE F == Diagnostics(tasks, goals, M, k)
           severity == IF tasks[k].status = "blocked" /\ tasks[k].age >= 2 * StaleAfter
                       THEN "critical" ELSE "warning"
           d1 == Rule("stalled_task", severity)
           d2 == Rule("orphan_goal", "warning")
           d3 == Rule("dependency_cycle", "critical")
<1>1. ASSUME NEW e \in F
      PROVE  /\ e.rule = "stalled_task" => e = d1 /\ IsStalled(k)
             /\ e.rule = "orphan_goal" => IsOrphan(k)
             /\ e.rule = "dependency_cycle" => k \in M
  BY <1>1 DEF Diagnostics, When, Rule, IsStalled, IsOrphan
<1>2. /\ IsStalled(k) => d1 \in F
      /\ IsOrphan(k) => d2 \in F
      /\ k \in M => d3 \in F
  BY DEF Diagnostics, When, Rule, IsStalled, IsOrphan
<1>3. d1.rule = "stalled_task" /\ d2.rule = "orphan_goal" /\ d3.rule = "dependency_cycle"
  BY DEF Rule
<1> HIDE DEF F, d1, d2, d3
<1>4. /\ "orphan_goal" \in Rules(F) <=> IsOrphan(k)
      /\ "stalled_task" \in Rules(F) <=> IsStalled(k)
      /\ "dependency_cycle" \in Rules(F) <=> k \in M
  BY <1>1, <1>2, <1>3 DEF Rules
<1>5. {e \in F : e.rule = "stalled_task"} = IF IsStalled(k) THEN {d1} ELSE {}
  BY <1>1, <1>2, <1>3
<1> QED
  BY <1>4, <1>5 DEF F

(* A part of the tasks is divided into those without a retained goal and   *)
(* those of each retained goal.                                            *)
LEMMA Divided ==
  ASSUME TypeOK, NEW S \in SUBSET DOMAIN tasks, NEW f \in [goals -> Nat],
         \A g \in goals : f[g] = Cardinality(S \cap GoalTasks(tasks, g))
  PROVE  LET O == {k \in S : tasks[k].goal = 0 \/ IsOrphan(k)}
         IN  Cardinality(S) = Cardinality(O) + SumFunction(f)
<1> DEFINE O == {k \in S : tasks[k].goal = 0 \/ IsOrphan(k)}
           P == [g \in goals |-> S \cap GoalTasks(tasks, g)]
           A == {u \in S : \E g \in goals : u \in P[g]}
<1>1. IsFiniteSet(DOMAIN tasks) /\ IsFiniteSet(goals) /\ DOMAIN tasks \subseteq Nat \X Nat
  BY EventAssumption DEF TypeOK
<1>2. \A g \in goals : g = <<g[1], g[2]>> /\ g[1] \in Nat /\ g[2] \in Nat /\ g[2] # 0
  BY EventAssumption DEF TypeOK
<1>3. IsFiniteSet(S)
  BY <1>1, FS_Subset
<1>4. P \in [goals -> SUBSET S]
  OBVIOUS
<1>5. \A g \in goals : IsFiniteSet(P[g]) /\ Cardinality(P[g]) = f[g]
  BY <1>3, FS_Subset DEF O
<1>6. \A g, h \in goals : g # h => P[g] \cap P[h] = {}
  BY <1>2 DEF GoalTasks
<1>7. O \cup A = S /\ O \cap A = {}
  <2>1. ASSUME NEW k \in S PROVE k \in O <=> k \notin A
    <3>1. \A g \in goals : k \in P[g] <=> k[1] = g[1] /\ tasks[k].goal = g[2]
      BY DEF GoalTasks
    <3>2. CASE tasks[k].goal = 0
      BY <1>2, <3>1, <3>2
    <3>3. CASE tasks[k].goal # 0
      <4>1. k \in O <=> GoalOf(tasks, k) \notin goals
        BY <3>3 DEF IsOrphan
      <4>2. ASSUME GoalOf(tasks, k) \in goals PROVE k \in A
        BY <3>1, <4>2 DEF GoalOf
      <4>3. ASSUME k \in A PROVE GoalOf(tasks, k) \in goals
        BY <1>2, <3>1, <4>3 DEF GoalOf
      <4> QED
        BY <4>1, <4>2, <4>3
    <3> QED
      BY <3>2, <3>3
  <2> QED
    BY <2>1
<1>8. P \in [goals -> SUBSET A] /\ \A u \in A : \E g \in goals : u \in P[g]
  BY <1>4
<1> HIDE DEF P, A, O
<1>9. IsFiniteSet(A) /\ SumFunction(f) = Cardinality(A)
  <2>1. Divides(P, goals, f, A)
    BY <1>1, <1>5, <1>6, <1>8 DEF Divides
  <2> QED
    BY <2>1, SumOfSizes
<1>10. IsFiniteSet(O)
  BY <1>3, FS_Subset DEF O
<1>11. Cardinality(S) = Cardinality(O) + Cardinality(A) - Cardinality(O \cap A)
  BY <1>7, <1>9, <1>10, FS_Union
<1>12. Cardinality(O \cap A) = 0 /\ Cardinality(O) \in Nat /\ Cardinality(A) \in Nat
  BY <1>7, <1>9, <1>10, FS_EmptySet, FS_CardinalityType
<1> QED
  BY <1>9, <1>11, <1>12 DEF O

(* The summary counts each stalled task once.                              *)
LEMMA StalledCount ==
  ASSUME TypeOK, NEW M,
         NEW found, found = [k \in DOMAIN tasks |-> Diagnostics(tasks, goals, M, k)]
  PROVE  Summary(tasks, goals, found).stalled = Cardinality({k \in DOMAIN tasks : IsStalled(k)})
<1> DEFINE D == DOMAIN tasks
           S == {k \in D : IsStalled(k)}
           f == [k \in D |-> Cardinality({d \in found[k] : d.rule = "stalled_task"})]
           P == [k \in D |-> IF IsStalled(k) THEN {k} ELSE {}]
<1>1. Summary(tasks, goals, found).stalled = SumFunction(f)
  BY DEF Summary
<1>2. IsFiniteSet(D)
  BY DEF TypeOK
<1>3. ASSUME NEW k \in D
      PROVE  f[k] \in Nat /\ IsFiniteSet(P[k]) /\ Cardinality(P[k]) = f[k]
  <2>1. PICK d : {e \in found[k] : e.rule = "stalled_task"} = IF IsStalled(k) THEN {d} ELSE {}
    BY FoundRules, ZenonT(60)
  <2>2. f[k] = IF IsStalled(k) THEN 1 ELSE 0
    BY <2>1, FS_Singleton, FS_EmptySet
  <2>3. IsFiniteSet(P[k]) /\ Cardinality(P[k]) = IF IsStalled(k) THEN 1 ELSE 0
    BY FS_Singleton, FS_EmptySet
  <2> QED
    BY <2>2, <2>3
<1>4. f \in [D -> Nat] /\ P \in [D -> SUBSET S]
  BY <1>3
<1>5. \A k, l \in D : k # l => P[k] \cap P[l] = {}
  OBVIOUS
<1>6. \A u \in S : \E k \in D : u \in P[k]
  OBVIOUS
<1> HIDE DEF P, f, S
<1>7. SumFunction(f) = Cardinality(S)
  <2>1. Divides(P, D, f, S)
    BY <1>2, <1>3, <1>4, <1>5, <1>6 DEF Divides
  <2> QED
    BY <2>1, SumOfSizes
<1> QED
  BY <1>1, <1>7 DEF S

(* Only tasks with evidence count for the sum that evidence backs.         *)
LEMMA BackedPart ==
  ASSUME TypeOK
  PROVE  EvidenceBacked(tasks, DOMAIN tasks) <= SelfReported(tasks, DOMAIN tasks)
<1> DEFINE D == DOMAIN tasks
           E == WithEvidence(tasks, D)
           f == [k \in D |-> tasks[k].progress]
           g == [k \in E |-> tasks[k].progress]
<1>1. IsFiniteSet(D) /\ \A k \in D : tasks[k].progress \in Nat
  BY DEF TypeOK, TaskStates
<1>2. E \in SUBSET D
  BY DEF WithEvidence
<1> HIDE DEF E
<1>3. f \in [D -> Nat] /\ g \in [E -> Nat] /\ \A k \in E : g[k] = f[k]
  BY <1>1, <1>2
<1>4. SumFunction(g) <= SumFunction(f)
  <2> HIDE DEF f, g
  <2> QED
    BY <1>1, <1>2, <1>3, SumOfPart
<1> QED
  BY <1>4 DEF EvidenceBacked, SelfReported, E

(* A count is split by disjoint statuses.                                  *)
LEMMA CountSplit ==
  ASSUME TypeOK, NEW T \in SUBSET DOMAIN tasks
  PROVE  /\ CountOf(tasks, T, ActiveStatuses) + CountOf(tasks, T, TerminalStatuses)
              = Cardinality(T)
         /\ CountOf(tasks, T, {"blocked"}) <= CountOf(tasks, T, ActiveStatuses)
<1> DEFINE A == {k \in T : tasks[k].status \in ActiveStatuses}
           B == {k \in T : tasks[k].status \in {"blocked"}}
           C == {k \in T : tasks[k].status \in TerminalStatuses}
<1>1. IsFiniteSet(T) /\ \A k \in T : tasks[k].status \in TaskStatuses
  BY FS_Subset DEF TypeOK, TaskStates
<1>2. A \cup C = T /\ A \cap C = {} /\ B \subseteq A
  BY <1>1 DEF TaskStatuses, ActiveStatuses, TerminalStatuses
<1>3. IsFiniteSet(A) /\ IsFiniteSet(C)
  BY <1>1, FS_Subset
<1> HIDE DEF A, B, C
<1>4. Cardinality(T) = Cardinality(A) + Cardinality(C) - Cardinality(A \cap C)
  BY <1>2, <1>3, FS_Union
<1>5. Cardinality(A \cap C) = 0 /\ Cardinality(A) \in Nat /\ Cardinality(C) \in Nat
  BY <1>2, <1>3, FS_EmptySet, FS_CardinalityType
<1>6. Cardinality(B) <= Cardinality(A)
  BY <1>2, <1>3, FS_Subset
<1> QED
  BY <1>4, <1>5, <1>6 DEF A, B, C, CountOf

(* What the remaining path of a goal says of its tasks.                    *)
LEMMA GoalPath ==
  ASSUME TypeOK, NEW M, NEW depths \in [DOMAIN tasks -> Nat], NEW g \in goals,
         \A k \in DOMAIN tasks : depths[k] = 0 <=> tasks[k].status = "succeeded",
         NEW T, T = GoalTasks(tasks, g),
         NEW r, r = IF T = {} THEN Unavailable ELSE GoalDepth(tasks, M, depths, g)
  PROVE  /\ r = 0 => \A k \in T : tasks[k].status = "succeeded"
         /\ r > 0 <=> T \cap CriticalTasks(tasks, M, depths) # {}
         /\ r = Unavailable /\ T # {} <=> T \cap M # {}
<1> DEFINE V == {depths[k] : k \in T}
           m == Max(V)
<1>1. T \in SUBSET DOMAIN tasks /\ IsFiniteSet(T)
  BY FS_Subset DEF TypeOK, GoalTasks
<1>2. \A k \in T : GoalOf(tasks, k) = g /\ tasks[k].goal # 0
  <2>1. g = <<g[1], g[2]>> /\ g[2] # 0
    BY EventAssumption DEF TypeOK
  <2> QED
    BY <2>1 DEF GoalTasks, GoalOf
<1>3. \A k \in T : k \in CriticalTasks(tasks, M, depths)
                     <=> T \cap M = {} /\ depths[k] > 0 /\ depths[k] = m
  BY <1>1, <1>2 DEF CriticalTasks, GoalDepth
<1>4. CASE T = {}
  BY <1>4 DEF Unavailable
<1>5. CASE T # {} /\ T \cap M # {}
  <2>1. r = Unavailable
    BY <1>5 DEF GoalDepth
  <2>2. ~(r > 0) /\ r # 0
    BY <2>1 DEF Unavailable
  <2>3. T \cap CriticalTasks(tasks, M, depths) = {}
    BY <1>3, <1>5
  <2> QED
    BY <1>5, <2>1, <2>2, <2>3
<1>6. CASE T # {} /\ T \cap M = {}
  <2>1. r = m
    BY <1>6 DEF GoalDepth
  <2>2. V \in SUBSET Int /\ V # {} /\ \A x \in V : x \in Nat
    BY <1>1, <1>6
  <2>3. IsFiniteSet(V)
    BY <1>1, ImageFinite
  <2>4. m \in V /\ \A y \in V : y <= m
    <3> HIDE DEF V
    <3> QED
      BY <2>2, <2>3, MaxOK
  <2> HIDE DEF m
  <2>5. PICK k \in T : depths[k] = m
    BY <2>4
  <2>6. m \in Nat /\ \A l \in T : depths[l] <= m /\ depths[l] \in Nat
    BY <2>2, <2>4
  <2> HIDE DEF V
  <2>7. m = 0 => \A l \in T : tasks[l].status = "succeeded"
    BY <1>1, <2>6
  <2>8. m > 0 <=> T \cap CriticalTasks(tasks, M, depths) # {}
    BY <1>3, <1>6, <2>5
  <2> QED
    BY <1>6, <2>1, <2>6, <2>7, <2>8 DEF Unavailable
<1> QED
  BY <1>4, <1>5, <1>6

LEMMA AddsUpNow == TypeOK => AnalysisAddsUp
<1> SUFFICES ASSUME TypeOK PROVE AnalysisAddsUp
  OBVIOUS
<1> DEFINE D       == DOMAIN tasks
           M       == CycleMembers(tasks)
           depths  == RemainingDepths(tasks, M)
           found   == [k \in D |-> Diagnostics(tasks, goals, M, k)]
           goal    == [g \in goals |-> GoalAnalysis(tasks, M, depths, found, g)]
           whole   == Summary(tasks, goals, found)
           outside == {k \in D : tasks[k].goal = 0 \/ "orphan_goal" \in Rules(found[k])}
           stalled == {k \in outside : "stalled_task" \in Rules(found[k])}
           S       == {k \in D : IsStalled(k)}
           total   == [g \in goals |-> goal[g].total]
           stuck   == [g \in goals |-> goal[g].stalled]
<1>1. TasksOK(tasks)
  BY SnapshotOK
<1>2. M \in SUBSET D
  BY <1>1, MembersOK
<1> HIDE DEF M
<1>3. IsAcyclicPart(tasks, M, {})
  BY <1>2 DEF IsAcyclicPart, Acyclic
<1>4. /\ depths \in [D -> Nat]
      /\ \A k \in D : depths[k] = 0 <=> tasks[k].status = "succeeded"
  BY <1>1, <1>3, DepthsOK
<1> HIDE DEF depths
<1>5. \A k \in D : /\ "orphan_goal" \in Rules(found[k]) <=> IsOrphan(k)
                   /\ "stalled_task" \in Rules(found[k]) <=> IsStalled(k)
                   /\ "dependency_cycle" \in Rules(found[k]) <=> k \in M
  BY FoundRules
<1>6. whole.stalled = Cardinality(S)
  BY StalledCount
<1>7. whole.total = Cardinality(D) /\ whole.evidence_backed <= whole.self_reported
  BY BackedPart DEF Summary
<1> HIDE DEF found, whole
<1>8. outside = {k \in D : tasks[k].goal = 0 \/ IsOrphan(k)}
  BY <1>5
<1>9. stalled = {k \in S : tasks[k].goal = 0 \/ IsOrphan(k)}
  BY <1>5, <1>8
<1> HIDE DEF outside, stalled
<1>10. IsFiniteSet(D)
  BY DEF TypeOK
<1>11. whole.total = Cardinality(outside) + SumFunction(total)
  <2>1. \A g \in goals : /\ GoalTasks(tasks, g) \in SUBSET D
                         /\ D \cap GoalTasks(tasks, g) = GoalTasks(tasks, g)
                         /\ total[g] = Cardinality(GoalTasks(tasks, g))
    BY DEF GoalTasks, GoalAnalysis
  <2>2. total \in [goals -> Nat] /\ \A g \in goals : total[g] = Cardinality(D \cap GoalTasks(tasks, g))
    BY <1>10, <2>1, FS_Subset, FS_CardinalityType
  <2>3. D \in SUBSET DOMAIN tasks
    OBVIOUS
  <2> HIDE DEF total, D
  <2> QED
    BY <1>7, <1>8, <2>2, <2>3, Divided
<1>12. whole.stalled = Cardinality(stalled) + SumFunction(stuck)
  <2>1. \A g \in goals : /\ S \cap GoalTasks(tasks, g) \in SUBSET D
                         /\ stuck[g] = Cardinality(S \cap GoalTasks(tasks, g))
    <3> SUFFICES ASSUME NEW g \in goals
                 PROVE  /\ S \cap GoalTasks(tasks, g) \in SUBSET D
                        /\ stuck[g] = Cardinality(S \cap GoalTasks(tasks, g))
      OBVIOUS
    <3>1. stuck[g] = Cardinality({k \in GoalTasks(tasks, g) :
                                    tasks[k].status \in ActiveStatuses /\ tasks[k].age >= StaleAfter})
      BY DEF GoalAnalysis
    <3>2. {k \in GoalTasks(tasks, g) :
             tasks[k].status \in ActiveStatuses /\ tasks[k].age >= StaleAfter}
            = S \cap GoalTasks(tasks, g)
      BY DEF GoalTasks, IsStalled
    <3> QED
      BY <3>1, <3>2
  <2>2. stuck \in [goals -> Nat] /\ \A g \in goals : stuck[g] = Cardinality(S \cap GoalTasks(tasks, g))
    <3>1. \A g \in goals : Cardinality(S \cap GoalTasks(tasks, g)) \in Nat
      <4> HIDE DEF stuck, S, D
      <4> QED
        BY <1>10, <2>1, FS_Subset, FS_CardinalityType
    <3>2. stuck = [g \in goals |-> stuck[g]]
      OBVIOUS
    <3> HIDE DEF stuck, S
    <3> QED
      BY <2>1, <3>1, <3>2
  <2>3. S \in SUBSET DOMAIN tasks
    OBVIOUS
  <2> HIDE DEF stuck, S
  <2> QED
    BY <1>6, <1>9, <2>2, <2>3, Divided
<1>13. ASSUME NEW g \in goals
       PROVE  LET a == goal[g]
              IN  /\ a.active + a.completed = a.total /\ a.blocked <= a.active
                  /\ a.critical_path_remaining = 0 =>
                       \A k \in GoalTasks(tasks, g) : tasks[k].status = "succeeded"
                  /\ a.critical_path_remaining > 0 <=> a.critical_path_tasks # {}
                  /\ "cycle" \in a.warnings <=>
                       \E pair \in a.diagnostics : pair[2] = "dependency_cycle"
  <2> DEFINE T == GoalTasks(tasks, g)
             r == IF T = {} THEN Unavailable ELSE GoalDepth(tasks, M, depths, g)
             a == goal[g]
  <2>1. T \in SUBSET D
    BY DEF GoalTasks
  <2>2. /\ a.total = Cardinality(T) /\ a.active = CountOf(tasks, T, ActiveStatuses)
        /\ a.blocked = CountOf(tasks, T, {"blocked"})
        /\ a.completed = CountOf(tasks, T, TerminalStatuses)
        /\ a.critical_path_remaining = r
        /\ a.critical_path_tasks = T \cap CriticalTasks(tasks, M, depths)
        /\ a.diagnostics = UNION {{<<k, d.rule>> : d \in found[k]} : k \in T}
    BY DEF GoalAnalysis
  <2>3. "cycle" \in a.warnings <=> (r = Unavailable /\ T # {})
    BY DEF GoalAnalysis
  <2> HIDE DEF T, a
  <2>4. a.active + a.completed = a.total /\ a.blocked <= a.active
    BY <2>1, <2>2, CountSplit
  <2>5. /\ r = 0 => \A k \in T : tasks[k].status = "succeeded"
        /\ r > 0 <=> T \cap CriticalTasks(tasks, M, depths) # {}
        /\ r = Unavailable /\ T # {} <=> T \cap M # {}
    <3>1. T = GoalTasks(tasks, g) /\ r = IF T = {} THEN Unavailable ELSE GoalDepth(tasks, M, depths, g)
      BY DEF T
    <3>2. /\ depths \in [DOMAIN tasks -> Nat]
          /\ \A k \in DOMAIN tasks : depths[k] = 0 <=> tasks[k].status = "succeeded"
      BY <1>4
    <3> HIDE DEF r, D
    <3> QED
      BY <3>1, <3>2, GoalPath
  <2>6. (\E pair \in a.diagnostics : pair[2] = "dependency_cycle") <=> T \cap M # {}
    <3>1. ASSUME NEW pair \in a.diagnostics, pair[2] = "dependency_cycle"
          PROVE  T \cap M # {}
      <4>1. PICK k \in T : \E d \in found[k] : pair = <<k, d.rule>>
        BY <2>2, <3>1
      <4>2. "dependency_cycle" \in Rules(found[k])
        BY <3>1, <4>1 DEF Rules
      <4> QED
        BY <1>5, <2>1, <4>2
    <3>2. ASSUME NEW k \in T \cap M
          PROVE  \E pair \in a.diagnostics : pair[2] = "dependency_cycle"
      <4>1. "dependency_cycle" \in Rules(found[k])
        BY <1>5, <2>1
      <4>2. PICK d \in found[k] : d.rule = "dependency_cycle"
        BY <4>1 DEF Rules
      <4>3. <<k, d.rule>> \in a.diagnostics
        BY <2>2, <4>2
      <4> QED
        BY <4>2, <4>3
    <3> QED
      BY <3>1, <3>2
  <2> QED
    BY <2>2, <2>3, <2>4, <2>5, <2>6 DEF T, a
<1>14. AddsUp(M, depths, found)
  <2> HIDE DEF goal
  <2>1. goal = [g \in goals |-> GoalAnalysis(tasks, M, depths, found, g)]
    BY DEF goal
  <2> QED
    BY <1>7, <1>11, <1>12, <1>13, <2>1 DEF AddsUp, outside, stalled, whole
<1> QED
  BY <1>14 DEF AnalysisAddsUp, M, depths, found

(* In every state, what the goals of the analysis count adds up with what  *)
(* its summary counts, whichever tasks and goals were evicted before, and  *)
(* the path a goal reports agrees with its tasks and their diagnostics.    *)
THEOREM AnalysisTotals == Spec => []AnalysisAddsUp
BY Types, AddsUpNow, PTL
=============================================================================

---------------------------- MODULE StoreProofs ----------------------------
(***************************************************************************)
(* Theorems about Store, for every set of identifiers and times, every     *)
(* capacity and every bound on the exploration, and the lemmas about Lru   *)
(* that they rest on.                                                      *)
(*                                                                         *)
(* The inductive invariant StoreInv says that every projection is a        *)
(* well-formed cache whose tasks are all GoodTasks (type, completion and   *)
(* clocks at once) and that the agents' counters match the task cache.     *)
(* Putting the per-task invariants into the value set of the cache lets    *)
(* the lemmas about Lru carry them through every cache operation.  The     *)
(* order of the event timeline and the bookkeeping of the idempotency      *)
(* window need an inductive invariant of their own, HistoryInv; what an    *)
(* event may never do to a retained task follows, step by step, from       *)
(* StoreInv and from what each event writes into a task.                   *)
(***************************************************************************)
EXTENDS Store, Foundations

-----------------------------------------------------------------------------
(* What the operations of Lru preserve, for every key set, value set and   *)
(* capacity.                                                               *)

(* The place of a retained key in the recency order, which `get` and       *)
(* `get_mut` move to the front, exists and is the key's only place.        *)
LEMMA PositionOK ==
  ASSUME NEW K, NEW V, NEW cap, NEW c, CacheOK(c, K, V, cap), NEW k \in Keys(c)
  PROVE  /\ PositionOf(c.order, k) \in 1..Len(c.order)
         /\ c.order[PositionOf(c.order, k)] = k
<1>1. \E i \in 1..Len(c.order) : c.order[i] = k
  BY DEF CacheOK
<1> QED
  BY <1>1 DEF PositionOf

(* `get` of a retained key keeps the cache well formed and its values.     *)
LEMMA TouchOK ==
  ASSUME NEW K, NEW V, NEW cap, NEW c, CacheOK(c, K, V, cap), NEW k \in Keys(c)
  PROVE  /\ CacheOK(Touch(c, k), K, V, cap)
         /\ Touch(c, k).entry = c.entry
         /\ Touch(c, k).evictions = c.evictions
         /\ Len(Touch(c, k).order) = Len(c.order)
<1> DEFINE s == c.order
           n == Len(s)
           p == PositionOf(s, k)
           d == Touch(c, k)
<1>1. p \in 1..n /\ s[p] = k
  BY PositionOK
<1>2. /\ c \in [order : Seq(K), entry : [Keys(c) -> V], evictions : Nat]
      /\ Keys(c) = {s[i] : i \in 1..n}
      /\ \A i, j \in 1..n : s[i] = s[j] => i = j
      /\ n <= cap /\ n \in Nat
      /\ s \in Seq(K)
  BY DEF CacheOK
<1>3. \A i \in 1..n : s[i] \in K
  BY <1>2
<1>4. k \in K
  BY <1>1, <1>3
<1>5. /\ d.order = [j \in 1..n |-> IF j = 1 THEN k ELSE IF j <= p THEN s[j - 1] ELSE s[j]]
      /\ d.entry = c.entry
      /\ d.evictions = c.evictions
      /\ d = [order |-> d.order, entry |-> c.entry, evictions |-> c.evictions]
  BY <1>2 DEF Touch, ToFront
<1> HIDE DEF d
<1>6. d.order \in Seq(K) /\ Len(d.order) = n
  <2>1. \A j \in 1..n : d.order[j] \in K
    BY <1>1, <1>2, <1>3, <1>4, <1>5
  <2>2. d.order \in [1..n -> K]
    BY <2>1, <1>5
  <2> QED
    BY <2>2, <1>2, FunctionIsSeq
<1>7. \A i \in 1..n : d.order[i] = s[IF i = 1 THEN p ELSE IF i <= p THEN i - 1 ELSE i]
  BY <1>1, <1>2, <1>5
<1>8. Keys(d) = {d.order[i] : i \in 1..n}
  <2>1. \A x \in Keys(c) : \E i \in 1..n : d.order[i] = x
    <3> TAKE x \in Keys(c)
    <3>1. PICK i \in 1..n : s[i] = x
      BY <1>2
    <3>2. CASE i = p
      BY <3>1, <3>2, <1>1, <1>5
    <3>3. CASE i < p
      <4>1. i + 1 \in 1..n /\ i + 1 # 1 /\ i + 1 <= p /\ (i + 1) - 1 = i
        BY <3>3, <1>1, <1>2
      <4> QED
        BY <4>1, <3>1, <1>5
    <3>4. CASE i > p
      BY <3>1, <3>4, <1>1, <1>2, <1>5
    <3> QED
      BY <3>2, <3>3, <3>4, <1>1, <1>2
  <2>2. \A i \in 1..n : d.order[i] \in Keys(c)
    <3> TAKE i \in 1..n
    <3>1. (IF i = 1 THEN p ELSE IF i <= p THEN i - 1 ELSE i) \in 1..n
      BY <1>1, <1>2
    <3> QED
      BY <3>1, <1>7, <1>2
  <2> QED
    BY <2>1, <2>2, <1>5 DEF Keys
<1>9. \A i, j \in 1..n : d.order[i] = d.order[j] => i = j
  <2> SUFFICES ASSUME NEW i \in 1..n, NEW j \in 1..n, d.order[i] = d.order[j]
               PROVE  i = j
    OBVIOUS
  <2> DEFINE f(x) == IF x = 1 THEN p ELSE IF x <= p THEN x - 1 ELSE x
  <2>1. f(i) \in 1..n /\ f(j) \in 1..n
    BY <1>1, <1>2
  <2>2. s[f(i)] = s[f(j)]
    BY <1>7
  <2>3. f(i) = f(j)
    BY <2>1, <2>2, <1>2
  <2> QED
    BY <2>3, <1>1, <1>2
<1>10. CacheOK(d, K, V, cap)
  BY <1>2, <1>5, <1>6, <1>8, <1>9 DEF CacheOK, Keys
<1> QED
  BY <1>5, <1>6, <1>10 DEF d

(* `get_mut` of a retained key changes that key's value and no other.      *)
LEMMA UpdateOK ==
  ASSUME NEW K, NEW V, NEW cap, NEW c, CacheOK(c, K, V, cap),
         NEW k \in Keys(c), NEW v \in V
  PROVE  /\ CacheOK(Update(c, k, v), K, V, cap)
         /\ Update(c, k, v).entry = [c.entry EXCEPT ![k] = v]
         /\ Keys(Update(c, k, v)) = Keys(c)
         /\ Update(c, k, v).evictions = c.evictions
<1> DEFINE t == Touch(c, k)
           d == Update(c, k, v)
<1>1. /\ CacheOK(t, K, V, cap)
      /\ t.entry = c.entry
      /\ t.evictions = c.evictions
  BY TouchOK
<1>2. /\ d = [order |-> t.order, entry |-> [c.entry EXCEPT ![k] = v],
              evictions |-> c.evictions]
      /\ d.order = t.order
      /\ d.entry = [c.entry EXCEPT ![k] = v]
      /\ d.evictions = c.evictions
  BY DEF Update
<1> HIDE DEF t, d
<1>3. c.entry \in [Keys(c) -> V] /\ c.evictions \in Nat
  BY DEF CacheOK
<1>4. d.entry \in [Keys(c) -> V] /\ Keys(d) = Keys(c) /\ Keys(t) = Keys(c)
  BY <1>1, <1>2, <1>3 DEF Keys
<1>5. /\ t.order \in Seq(K)
      /\ Keys(t) = {t.order[i] : i \in 1..Len(t.order)}
      /\ \A i, j \in 1..Len(t.order) : t.order[i] = t.order[j] => i = j
      /\ Len(t.order) <= cap
  BY <1>1 DEF CacheOK
<1>6. d \in [order : Seq(K), entry : [Keys(d) -> V], evictions : Nat]
  BY <1>2, <1>3, <1>4, <1>5
<1>7. /\ Keys(d) = {d.order[i] : i \in 1..Len(d.order)}
      /\ \A i, j \in 1..Len(d.order) : d.order[i] = d.order[j] => i = j
      /\ Len(d.order) <= cap
  <2>1. d.order = t.order /\ Keys(d) = Keys(t)
    BY <1>2, <1>4
  <2> QED
    BY <2>1, <1>5, Zenon
<1>8. CacheOK(d, K, V, cap)
  BY <1>6, <1>7 DEF CacheOK
<1> QED
  BY <1>2, <1>4, <1>8 DEF d

(* A push drops at most one key, a retained one other than the pushed key. *)
LEMMA DisplacedOK ==
  ASSUME NEW K, NEW V, NEW cap \in Nat \ {0}, NEW c, CacheOK(c, K, V, cap), NEW k
  PROVE  /\ Displaced(c, k, cap) \subseteq Keys(c)
         /\ k \notin Displaced(c, k, cap)
         /\ \A x, y \in Displaced(c, k, cap) : x = y
<1>1. CASE k \in Keys(c) \/ Len(c.order) < cap
  BY <1>1 DEF Displaced
<1>2. CASE ~(k \in Keys(c) \/ Len(c.order) < cap)
  <2>1. Len(c.order) \in 1..Len(c.order)
    BY <1>2 DEF CacheOK
  <2>2. c.order[Len(c.order)] \in Keys(c)
    BY <2>1 DEF CacheOK
  <2> QED
    BY <1>2, <2>2 DEF Displaced
<1> QED
  BY <1>1, <1>2

(* What a push of a key that is not retained leaves in the cache.          *)
LEMMA PushNewEntries ==
  ASSUME NEW c, NEW k, NEW v, NEW cap, k \notin Keys(c)
  PROVE  /\ Keys(Push(c, k, v, cap)) = (Keys(c) \ Displaced(c, k, cap)) \cup {k}
         /\ Push(c, k, v, cap).entry[k] = v
         /\ \A x \in Keys(c) \ Displaced(c, k, cap) :
              Push(c, k, v, cap).entry[x] = c.entry[x]
<1>1. Push(c, k, v, cap).entry =
        [x \in (Keys(c) \ Displaced(c, k, cap)) \cup {k} |-> IF x = k THEN v ELSE c.entry[x]]
  BY DEF Push
<1> QED
  BY <1>1 DEF Keys

(* Pushing a key that is not retained keeps the cache well formed and      *)
(* within capacity.                                                        *)
LEMMA PushNewOK ==
  ASSUME NEW K, NEW V, NEW cap \in Nat \ {0}, NEW c, CacheOK(c, K, V, cap),
         NEW k \in K, NEW v \in V, k \notin Keys(c)
  PROVE  CacheOK(Push(c, k, v, cap), K, V, cap)
<1> DEFINE s == c.order
           m == Len(s)
           n == IF m < cap THEN m + 1 ELSE cap
           out == Displaced(c, k, cap)
           d == Push(c, k, v, cap)
<1>1. /\ c.entry \in [Keys(c) -> V] /\ c.evictions \in Nat
      /\ s \in Seq(K) /\ m \in Nat /\ m <= cap
      /\ Keys(c) = {s[i] : i \in 1..m}
      /\ \A i, j \in 1..m : s[i] = s[j] => i = j
  BY DEF CacheOK
<1>2. \A i \in 1..m : s[i] \in K
  BY <1>1
<1>3. /\ d.order = [j \in 1..n |-> IF j = 1 THEN k ELSE IF j <= m + 1 THEN s[j - 1] ELSE s[j]]
      /\ d.entry = [x \in (Keys(c) \ out) \cup {k} |-> IF x = k THEN v ELSE c.entry[x]]
      /\ d.evictions = IF out = {} THEN c.evictions ELSE c.evictions + 1
      /\ d = [order |-> d.order, entry |-> d.entry, evictions |-> d.evictions]
  BY DEF Push, ToFront
<1>4. n \in Nat /\ n >= 1 /\ n <= m + 1 /\ n <= cap
  BY <1>1
<1>5. out = IF m < cap THEN {} ELSE {s[m]}
  BY DEF Displaced
<1> HIDE DEF d, out
<1>6. \A j \in 1..n : d.order[j] = IF j = 1 THEN k ELSE s[j - 1]
  BY <1>3, <1>4
<1>7. \A j \in 1..n : j # 1 => j - 1 \in 1..m
  BY <1>1, <1>4
<1>8. d.order \in Seq(K) /\ Len(d.order) = n
  <2>1. \A j \in 1..n : d.order[j] \in K
    BY <1>2, <1>6, <1>7
  <2>2. d.order \in [1..n -> K]
    BY <2>1, <1>3
  <2> QED
    BY <2>2, <1>4, FunctionIsSeq
<1>9. Keys(d) = (Keys(c) \ out) \cup {k}
  BY <1>3 DEF Keys
<1>10. out \subseteq Keys(c)
  BY DisplacedOK DEF out
<1>11. d.entry \in [Keys(d) -> V]
  BY <1>1, <1>3, <1>9
<1>12. \A i, j \in 1..n : d.order[i] = d.order[j] => i = j
  <2> SUFFICES ASSUME NEW i \in 1..n, NEW j \in 1..n, d.order[i] = d.order[j]
               PROVE  i = j
    OBVIOUS
  <2>1. \A x \in 1..n : x # 1 => s[x - 1] \in Keys(c)
    BY <1>1, <1>7
  <2>2. CASE i = 1 \/ j = 1
    BY <2>1, <2>2, <1>6
  <2>3. CASE i # 1 /\ j # 1
    <3>1. i - 1 \in 1..m /\ j - 1 \in 1..m /\ s[i - 1] = s[j - 1]
      BY <2>3, <1>6, <1>7
    <3>2. i - 1 = j - 1
      BY <3>1, <1>1
    <3> QED
      BY <3>2
  <2> QED
    BY <2>2, <2>3
<1>13. Keys(d) = {d.order[i] : i \in 1..n}
  <2>1. \A x \in Keys(d) : \E i \in 1..n : d.order[i] = x
    <3> TAKE x \in Keys(d)
    <3>1. CASE x = k
      BY <3>1, <1>4, <1>6
    <3>2. CASE x # k
      <4>1. x \in Keys(c) /\ x \notin out
        BY <3>2, <1>9
      <4>2. PICK i \in 1..m : s[i] = x
        BY <4>1, <1>1
      <4>3. i + 1 \in 1..n
        BY <4>1, <4>2, <1>1, <1>5
      <4>4. d.order[i + 1] = s[(i + 1) - 1]
        BY <4>3, <4>2, <1>6
      <4> QED
        BY <4>2, <4>3, <4>4
    <3> QED
      BY <3>1, <3>2
  <2>2. \A i \in 1..n : d.order[i] \in Keys(d)
    <3> TAKE i \in 1..n
    <3>1. CASE i = 1
      BY <3>1, <1>6, <1>9
    <3>2. CASE i # 1
      <4>1. i - 1 \in 1..m /\ d.order[i] = s[i - 1]
        BY <3>2, <1>6, <1>7
      <4>2. s[i - 1] \notin out
        <5>1. CASE m < cap
          BY <5>1, <1>5
        <5>2. CASE ~(m < cap)
          <6>1. m \in 1..m /\ i - 1 # m
            BY <5>2, <1>1, <1>4, <4>1
          <6> QED
            BY <5>2, <6>1, <4>1, <1>1, <1>5
        <5> QED
          BY <5>1, <5>2
      <4> QED
        BY <4>1, <4>2, <1>1, <1>9
    <3> QED
      BY <3>1, <3>2
  <2> QED
    BY <2>1, <2>2
<1>14. d.evictions \in Nat
  BY <1>1, <1>3
<1>15. CacheOK(d, K, V, cap)
  BY <1>3, <1>4, <1>8, <1>11, <1>12, <1>13, <1>14 DEF CacheOK
<1> QED
  BY <1>15 DEF d, out

(* push_with_eviction keeps any cache well formed and within capacity.     *)
LEMMA PushOK ==
  ASSUME NEW K, NEW V, NEW cap \in Nat \ {0}, NEW c, CacheOK(c, K, V, cap),
         NEW k \in K, NEW v \in V
  PROVE  CacheOK(Push(c, k, v, cap), K, V, cap)
<1>1. CASE k \in Keys(c)
  BY <1>1, UpdateOK DEF Push
<1>2. CASE k \notin Keys(c)
  BY <1>2, PushNewOK
<1> QED
  BY <1>1, <1>2

(* A new cache is well formed.                                             *)
LEMMA EmptyOK ==
  ASSUME NEW K, NEW V, NEW cap \in Nat
  PROVE  CacheOK(EmptyCache, K, V, cap)
BY DEF CacheOK, EmptyCache, Keys

(* A cache holds finitely many keys.                                       *)
LEMMA KeysFinite ==
  ASSUME NEW K, NEW V, NEW cap, NEW c, CacheOK(c, K, V, cap)
  PROVE  IsFiniteSet(Keys(c))
<1> DEFINE n == Len(c.order)
           f == [i \in 1..n |-> c.order[i]]
<1>1. n \in Nat /\ Keys(c) = {c.order[i] : i \in 1..n}
  BY DEF CacheOK
<1>2. IsFiniteSet(1..n)
  BY <1>1, FS_Interval
<1>3. f \in Surjection(1..n, Keys(c))
  BY <1>1 DEF Surjection
<1> QED
  BY <1>2, <1>3, FS_Surjection

(* The recency order lists each retained key once: a cache holds as many   *)
(* keys as its order is long.                                              *)
LEMMA KeysCounted ==
  ASSUME NEW K, NEW V, NEW cap, NEW c, CacheOK(c, K, V, cap)
  PROVE  Cardinality(Keys(c)) = Len(c.order)
<1> DEFINE n == Len(c.order)
           f == [i \in 1..n |-> c.order[i]]
<1>1. n \in Nat /\ Keys(c) = {c.order[i] : i \in 1..n}
  BY DEF CacheOK
<1>2. \A i, j \in 1..n : c.order[i] = c.order[j] => i = j
  BY DEF CacheOK
<1>3. f \in Surjection(1..n, Keys(c))
  BY <1>1 DEF Surjection
<1>4. f \in Injection(1..n, Keys(c))
  BY <1>1, <1>2 DEF Injection, IsInjective
<1>5. ExistsBijection(1..n, Keys(c))
  BY <1>3, <1>4 DEF ExistsBijection, Bijection
<1> QED
  BY <1>1, <1>5, FS_CountingElements

-----------------------------------------------------------------------------
(* The invariant of the store.                                             *)

GoodTask == {s \in TaskState : Consistent(s) /\ ClocksOrdered(s)}

AgentsOK(ag) == CacheOK(ag, Agents, AgentState, AgentCap)
TasksOK(tk)  == CacheOK(tk, TaskKeys, GoodTask, TaskCap)

(* CountersMatchTasks, of any agent cache and any task cache.              *)
Counted(ag, tk) ==
  \A a \in Keys(ag) :
    /\ ag.entry[a].completed_tasks = Cardinality(CountedTasks(tk, a, "completed"))
    /\ ag.entry[a].failed_tasks = Cardinality(CountedTasks(tk, a, "failed"))

Projections ==
  /\ AgentsOK(agents)
  /\ CacheOK(goals, Agents \X GoalIds, Times, GoalCap)
  /\ TasksOK(tasks)
  /\ CacheOK(lessons, Agents \X LessonIds, LessonState, LessonCap)
  /\ Counted(agents, tasks)

StoreInv ==
  /\ Projections
  /\ CacheOK(events, EventIds, Nat, EventCap)
  /\ CacheOK(seen, EventIds, Nat, IdempotencyCap)
  /\ revision \in Nat
  /\ counters \in Counters

-----------------------------------------------------------------------------
(* What the reducer writes into a task.                                    *)

(* The times of a task are numbers or absent.                              *)
LEMMA TaskTimes ==
  ASSUME NEW s \in TaskState
  PROVE  /\ s.created_at \in Nat /\ s.definition_updated_at \in Nat
         /\ s.updated_at \in Nat
         /\ s.started_at # None => s.started_at \in Nat
         /\ s.completed_at # None => s.completed_at \in Nat
BY InputAssumption DEF TaskState

(* TaskState::from_spec builds a good task.                                *)
LEMMA NewTaskOK ==
  ASSUME NEW at \in Times, NEW inferred \in BOOLEAN
  PROVE  NewTask(at, inferred) \in GoodTask /\ NewTask(at, inferred).outcome = None
<1> DEFINE s == NewTask(at, inferred)
<1>1. s \in TaskState
  BY InputAssumption DEF NewTask, TaskState, TaskStatus, TaskOutcome
<1>2. Consistent(s)
  BY InputAssumption DEF NewTask, Consistent, TaskOutcome
<1>3. ClocksOrdered(s)
  BY InputAssumption DEF NewTask, ClocksOrdered
<1> QED
  BY <1>1, <1>2, <1>3 DEF GoodTask, NewTask

(* A definition keeps a task good, and its outcome.                        *)
LEMMA RedefinedOK ==
  ASSUME NEW s \in GoodTask, NEW at \in Times, Authoritative(s, at)
  PROVE  Redefined(s, at) \in GoodTask /\ Redefined(s, at).outcome = s.outcome
<1> DEFINE d == Redefined(s, at)
<1>1. s \in TaskState /\ Consistent(s) /\ ClocksOrdered(s)
  BY DEF GoodTask
<1>2. d \in TaskState
  <2>1. Earlier(s.created_at, at) \in Times /\ Later(s.updated_at, at) \in Times
    BY <1>1 DEF TaskState, Earlier, Later
  <2> QED
    BY <1>1, <2>1 DEF Redefined, TaskState
<1>3. /\ d.status = s.status /\ d.outcome = s.outcome /\ d.progress = s.progress
      /\ d.blocked = s.blocked /\ d.started_at = s.started_at
      /\ d.completed_at = s.completed_at
      /\ d.definition_updated_at = at
      /\ d.created_at = Earlier(s.created_at, at)
      /\ d.updated_at = Later(s.updated_at, at)
  BY <1>1 DEF Redefined, TaskState
<1>4. at \in Nat /\ at # None
  BY InputAssumption
<1> HIDE DEF d
<1>5. Consistent(d)
  BY <1>1, <1>3 DEF Consistent
<1>6. ClocksOrdered(d)
  BY <1>1, <1>3, <1>4, TaskTimes DEF ClocksOrdered, Earlier, Later
<1> QED
  BY <1>2, <1>3, <1>5, <1>6 DEF GoodTask, d

(* A start that the event-time guard admits keeps a task good.             *)
LEMMA StartedOK ==
  ASSUME NEW s \in GoodTask, NEW at \in Times, NEW n \in Attempts, at >= s.updated_at
  PROVE  Started(s, at, n) \in GoodTask /\ Started(s, at, n).outcome = None
<1> DEFINE d == Started(s, at, n)
<1>1. s \in TaskState /\ Consistent(s) /\ ClocksOrdered(s)
  BY DEF GoodTask
<1>2. d \in TaskState
  BY <1>1, InputAssumption DEF Started, TaskState, TaskStatus
<1>3. /\ d.status = "running" /\ d.outcome = None /\ d.blocked = FALSE
      /\ d.completed_at = None /\ d.started_at = at /\ d.updated_at = at
      /\ d.created_at = s.created_at
      /\ d.definition_updated_at = s.definition_updated_at
  BY <1>1 DEF Started, TaskState
<1>4. at \in Nat /\ at # None
  BY InputAssumption
<1> HIDE DEF d
<1>5. Consistent(d)
  BY <1>3 DEF Consistent, TaskOutcome
<1>6. ClocksOrdered(d)
  BY <1>1, <1>3, <1>4, TaskTimes DEF ClocksOrdered
<1> QED
  BY <1>2, <1>3, <1>5, <1>6 DEF GoodTask, d

(* So does a progress event, which leaves no outcome behind.               *)
LEMMA ProgressedOK ==
  ASSUME NEW s \in GoodTask, NEW at \in Times, NEW p \in Levels,
         NEW b \in BOOLEAN, at >= s.updated_at
  PROVE  Progressed(s, at, p, b) \in GoodTask /\ Progressed(s, at, p, b).outcome = None
<1> DEFINE d == Progressed(s, at, p, b)
<1>1. s \in TaskState /\ Consistent(s) /\ ClocksOrdered(s)
  BY DEF GoodTask
<1>2. d \in TaskState
  <2>1. (IF b THEN "blocked" ELSE "running") \in TaskStatus
    BY DEF TaskStatus
  <2>2. p \in 0..100
    BY InputAssumption
  <2> QED
    BY <1>1, <2>1, <2>2 DEF Progressed, TaskState
<1>3. /\ d.status = (IF b THEN "blocked" ELSE "running") /\ d.outcome = None
      /\ d.blocked = b /\ d.completed_at = None /\ d.updated_at = at
      /\ d.started_at = s.started_at /\ d.created_at = s.created_at
      /\ d.definition_updated_at = s.definition_updated_at
  BY <1>1 DEF Progressed, TaskState
<1>4. at \in Nat /\ at # None
  BY InputAssumption
<1> HIDE DEF d
<1>5. Consistent(d)
  BY <1>3 DEF Consistent, TaskOutcome
<1>6. ClocksOrdered(d)
  BY <1>1, <1>3, <1>4, TaskTimes DEF ClocksOrdered
<1> QED
  BY <1>2, <1>3, <1>5, <1>6 DEF GoodTask, d

(* A reflection only moves the task's clock forward.                       *)
LEMMA ReflectedOK ==
  ASSUME NEW s \in GoodTask, NEW at \in Times, at >= s.updated_at
  PROVE  /\ [s EXCEPT !.updated_at = at] \in GoodTask
         /\ [s EXCEPT !.updated_at = at].outcome = s.outcome
<1> DEFINE d == [s EXCEPT !.updated_at = at]
<1>1. s \in TaskState /\ Consistent(s) /\ ClocksOrdered(s)
  BY DEF GoodTask
<1>2. d \in TaskState
  BY <1>1 DEF TaskState
<1>3. /\ d.status = s.status /\ d.outcome = s.outcome /\ d.progress = s.progress
      /\ d.blocked = s.blocked /\ d.started_at = s.started_at
      /\ d.completed_at = s.completed_at /\ d.created_at = s.created_at
      /\ d.definition_updated_at = s.definition_updated_at /\ d.updated_at = at
  BY <1>1 DEF TaskState
<1>4. at \in Nat /\ at # None
  BY InputAssumption
<1> HIDE DEF d
<1>5. Consistent(d)
  BY <1>1, <1>3 DEF Consistent
<1>6. ClocksOrdered(d)
  BY <1>1, <1>3, <1>4, TaskTimes DEF ClocksOrdered
<1> QED
  BY <1>2, <1>3, <1>5, <1>6 DEF GoodTask, d

(* An error blocks the task and keeps its outcome.                         *)
LEMMA ErroredOK ==
  ASSUME NEW s \in GoodTask, NEW at \in Times, at >= s.updated_at
  PROVE  Errored(s, at) \in GoodTask /\ Errored(s, at).outcome = s.outcome
<1> DEFINE d == Errored(s, at)
<1>1. s \in TaskState /\ Consistent(s) /\ ClocksOrdered(s)
  BY DEF GoodTask
<1>2. d \in TaskState
  BY <1>1 DEF Errored, TaskState, TaskStatus
<1>3. /\ d.status = "blocked" /\ d.blocked = TRUE /\ d.outcome = s.outcome
      /\ d.started_at = s.started_at /\ d.completed_at = s.completed_at
      /\ d.created_at = s.created_at /\ d.updated_at = at
      /\ d.definition_updated_at = s.definition_updated_at
  BY <1>1 DEF Errored, TaskState
<1>4. at \in Nat /\ at # None
  BY InputAssumption
<1> HIDE DEF d
<1>5. Consistent(d)
  BY <1>1, <1>3 DEF Consistent, TaskOutcome
<1>6. ClocksOrdered(d)
  BY <1>1, <1>3, <1>4, TaskTimes DEF ClocksOrdered
<1> QED
  BY <1>2, <1>3, <1>5, <1>6 DEF GoodTask, d

(* A completion records its outcome and keeps the task good.               *)
LEMMA CompletedOK ==
  ASSUME NEW s \in GoodTask, NEW at \in Times, NEW o \in Outcomes, at >= s.updated_at
  PROVE  Completed(s, at, o) \in GoodTask /\ Completed(s, at, o).outcome = o
<1> DEFINE d == Completed(s, at, o)
<1>1. s \in TaskState /\ Consistent(s) /\ ClocksOrdered(s)
  BY DEF GoodTask
<1>2. d \in TaskState
  <2>1. (IF o = "succeeded" THEN 100 ELSE s.progress) \in 0..100
    BY <1>1 DEF TaskState
  <2>2. o \in TaskOutcome /\ o \in TaskStatus
    BY InputAssumption DEF TaskStatus
  <2> QED
    BY <1>1, <2>1, <2>2, ZenonT(60) DEF Completed, TaskState
<1>3. /\ d.status = o /\ d.outcome = o /\ d.blocked = FALSE
      /\ d.progress = (IF o = "succeeded" THEN 100 ELSE s.progress)
      /\ d.started_at = s.started_at /\ d.completed_at = at
      /\ d.created_at = s.created_at /\ d.updated_at = at
      /\ d.definition_updated_at = s.definition_updated_at
  BY <1>1 DEF Completed, TaskState
<1>4. at \in Nat /\ at # None
  BY InputAssumption
<1> HIDE DEF d
<1>5. Consistent(d)
  BY <1>3, InputAssumption DEF Consistent
<1>6. ClocksOrdered(d)
  BY <1>1, <1>3, <1>4, TaskTimes DEF ClocksOrdered
<1> QED
  BY <1>2, <1>3, <1>5, <1>6 DEF GoodTask, d

-----------------------------------------------------------------------------
(* What the counters count.                                                *)

(* completion_bucket has two buckets, and no outcome falls in neither.     *)
LEMMA BucketValues ==
  ASSUME NEW o \in TaskOutcome \cup {None}
  PROVE  /\ Bucket(o) \in {"completed", "failed", "none"}
         /\ Bucket(None) = "none"
         /\ o \in TaskOutcome => Bucket(o) \in {"completed", "failed"}
<1>1. None \notin {"succeeded", "partial", "failed", "canceled"}
  BY InputAssumption DEF TaskOutcome
<1>2. Bucket(None) = "none"
  BY <1>1 DEF Bucket
<1>3. o \in TaskOutcome => Bucket(o) \in {"completed", "failed"}
  BY DEF Bucket, TaskOutcome
<1> QED
  BY <1>2, <1>3

(* A cache of good tasks is one of tasks.                                  *)
LEMMA TaskEntries ==
  ASSUME NEW tk, TasksOK(tk), NEW k \in Keys(tk)
  PROVE  /\ tk.entry[k] \in GoodTask
         /\ tk.entry[k] \in TaskState
         /\ tk.entry[k].outcome \in TaskOutcome \cup {None}
         /\ k \in TaskKeys /\ k[1] \in Agents
<1>1. tk.entry \in [Keys(tk) -> GoodTask]
  BY DEF TasksOK, CacheOK
<1>2. tk.entry[k] \in GoodTask
  BY <1>1
<1>3. tk.entry[k] \in TaskState
  BY <1>2 DEF GoodTask
<1>4. \E i \in 1..Len(tk.order) : k = tk.order[i]
  BY DEF TasksOK, CacheOK
<1>5. tk.order \in Seq(TaskKeys)
  BY DEF TasksOK, CacheOK
<1>6. k \in TaskKeys
  BY <1>4, <1>5
<1> QED
  BY <1>2, <1>3, <1>6 DEF TaskState, TaskKeys

(* A retained agent has an AgentState.                                     *)
LEMMA AgentEntries ==
  ASSUME NEW ag, AgentsOK(ag), NEW a \in Keys(ag)
  PROVE  ag.entry[a] \in AgentState
<1>1. ag.entry \in [Keys(ag) -> AgentState]
  BY DEF AgentsOK, CacheOK
<1> QED
  BY <1>1

(* The counted tasks of an agent are finitely many.                        *)
LEMMA CountedFinite ==
  ASSUME NEW tk, TasksOK(tk), NEW a, NEW b
  PROVE  /\ IsFiniteSet(CountedTasks(tk, a, b))
         /\ Cardinality(CountedTasks(tk, a, b)) \in Nat
<1>1. IsFiniteSet(Keys(tk))
  BY KeysFinite DEF TasksOK
<1>2. CountedTasks(tk, a, b) \subseteq Keys(tk)
  BY DEF CountedTasks
<1> QED
  BY <1>1, <1>2, FS_Subset, FS_CardinalityType

(* ensure_agent's AgentState.                                              *)
LEMMA NewAgentOK ==
  ASSUME NEW tk, TasksOK(tk), NEW a, NEW at \in Times
  PROVE  /\ NewAgent(tk, a, at) \in AgentState
         /\ NewAgent(tk, a, at).completed_tasks = Cardinality(CountedTasks(tk, a, "completed"))
         /\ NewAgent(tk, a, at).failed_tasks = Cardinality(CountedTasks(tk, a, "failed"))
<1>1. /\ Cardinality(CountedTasks(tk, a, "completed")) \in Nat
      /\ Cardinality(CountedTasks(tk, a, "failed")) \in Nat
  BY CountedFinite
<1> QED
  BY <1>1 DEF NewAgent, AgentState, AgentStatus

(* Overwriting an agent's entry without touching its two counters keeps    *)
(* the cache well formed and the counters right.                           *)
LEMMA AgentUpdate ==
  ASSUME NEW ag, AgentsOK(ag), NEW tk, NEW a \in Keys(ag), NEW r \in AgentState
  PROVE  /\ AgentsOK(Update(ag, a, r))
         /\ Keys(Update(ag, a, r)) = Keys(ag)
         /\ Update(ag, a, r).entry[a] = r
         /\ \A x \in Keys(ag) : x # a => Update(ag, a, r).entry[x] = ag.entry[x]
         /\ Counted(ag, tk) /\ r.completed_tasks = ag.entry[a].completed_tasks
              /\ r.failed_tasks = ag.entry[a].failed_tasks
            => Counted(Update(ag, a, r), tk)
<1> DEFINE d == Update(ag, a, r)
<1>1. AgentsOK(d) /\ d.entry = [ag.entry EXCEPT ![a] = r] /\ Keys(d) = Keys(ag)
  BY UpdateOK DEF AgentsOK
<1> HIDE DEF d
<1>2. d.entry[a] = r /\ \A x \in Keys(ag) : x # a => d.entry[x] = ag.entry[x]
  BY <1>1 DEF Keys
<1>3. Counted(ag, tk) /\ r.completed_tasks = ag.entry[a].completed_tasks
        /\ r.failed_tasks = ag.entry[a].failed_tasks => Counted(d, tk)
  BY <1>1, <1>2 DEF Counted
<1> QED
  BY <1>1, <1>2, <1>3 DEF d

(* ensure_agent retains the agent with the right counters.                 *)
LEMMA EnsureAgentOK ==
  ASSUME NEW ag, AgentsOK(ag), NEW tk, TasksOK(tk), NEW a \in Agents,
         NEW at \in Times, Counted(ag, tk)
  PROVE  /\ AgentsOK(EnsureAgent(ag, tk, a, at))
         /\ a \in Keys(EnsureAgent(ag, tk, a, at))
         /\ Counted(EnsureAgent(ag, tk, a, at), tk)
<1> DEFINE r == NewAgent(tk, a, at)
           d == Push(ag, a, r, AgentCap)
<1>1. CASE a \in Keys(ag)
  BY <1>1 DEF EnsureAgent
<1>2. CASE a \notin Keys(ag)
  <2>1. EnsureAgent(ag, tk, a, at) = d
    BY <1>2 DEF EnsureAgent
  <2>2. /\ r \in AgentState
        /\ r.completed_tasks = Cardinality(CountedTasks(tk, a, "completed"))
        /\ r.failed_tasks = Cardinality(CountedTasks(tk, a, "failed"))
    BY NewAgentOK
  <2>3. AgentCap \in Nat \ {0} /\ CacheOK(ag, Agents, AgentState, AgentCap)
    BY CapacityAssumption DEF AgentsOK
  <2> HIDE DEF r
  <2>4. /\ CacheOK(d, Agents, AgentState, AgentCap)
        /\ Keys(d) = (Keys(ag) \ Displaced(ag, a, AgentCap)) \cup {a}
        /\ d.entry[a] = r
        /\ \A x \in Keys(ag) \ Displaced(ag, a, AgentCap) : d.entry[x] = ag.entry[x]
    <3>1. CacheOK(d, Agents, AgentState, AgentCap)
      BY <1>2, <2>2, <2>3, PushNewOK
    <3>2. /\ Keys(d) = (Keys(ag) \ Displaced(ag, a, AgentCap)) \cup {a}
          /\ d.entry[a] = r
          /\ \A x \in Keys(ag) \ Displaced(ag, a, AgentCap) : d.entry[x] = ag.entry[x]
      BY <1>2, PushNewEntries
    <3> QED
      BY <3>1, <3>2
  <2> HIDE DEF d
  <2>5. Counted(d, tk)
    BY <2>2, <2>4 DEF Counted
  <2> QED
    BY <2>1, <2>4, <2>5 DEF AgentsOK
<1> QED
  BY <1>1, <1>2

(* The prologue of apply_event retains the agent, with the right counters. *)
LEMMA ObserveOK ==
  ASSUME NEW ag, AgentsOK(ag), NEW tk, TasksOK(tk), NEW a \in Agents,
         NEW at \in Times, Counted(ag, tk)
  PROVE  /\ AgentsOK(Observe(ag, tk, a, at))
         /\ a \in Keys(Observe(ag, tk, a, at))
         /\ Counted(Observe(ag, tk, a, at), tk)
<1> DEFINE e == EnsureAgent(ag, tk, a, at)
           q == e.entry[a]
           r == [q EXCEPT !.last_seen_at = Later(q.last_seen_at, at)]
<1>1. AgentsOK(e) /\ a \in Keys(e) /\ Counted(e, tk)
  BY EnsureAgentOK
<1>2. Observe(ag, tk, a, at) = Update(e, a, r)
  BY DEF Observe
<1> HIDE DEF e
<1>3. q \in AgentState
  BY <1>1, AgentEntries
<1>4. Later(q.last_seen_at, at) \in Times
  BY <1>3 DEF Later, AgentState
<1>5. /\ r \in AgentState
      /\ r.completed_tasks = q.completed_tasks
      /\ r.failed_tasks = q.failed_tasks
  BY <1>3, <1>4 DEF AgentState
<1> HIDE DEF r
<1> QED
  BY <1>1, <1>2, <1>5, AgentUpdate

(* Uncount takes one off the counter of the outcome's bucket, if any.      *)
LEMMA UncountOK ==
  ASSUME NEW r \in AgentState, NEW o \in TaskOutcome \cup {None}
  PROVE  /\ Uncount(r, o) \in AgentState
         /\ Uncount(r, o).completed_tasks =
              IF Bucket(o) = "completed" THEN Decremented(r.completed_tasks) ELSE r.completed_tasks
         /\ Uncount(r, o).failed_tasks =
              IF Bucket(o) = "failed" THEN Decremented(r.failed_tasks) ELSE r.failed_tasks
<1> DEFINE c == IF Bucket(o) = "completed" THEN Decremented(r.completed_tasks) ELSE r.completed_tasks
           f == IF Bucket(o) = "failed" THEN Decremented(r.failed_tasks) ELSE r.failed_tasks
<1>1. Uncount(r, o) = [r EXCEPT !.completed_tasks = c, !.failed_tasks = f]
  BY DEF Uncount
<1>2. c \in Nat /\ f \in Nat
  BY DEF Decremented, AgentState
<1> HIDE DEF c, f
<1>3. /\ [r EXCEPT !.completed_tasks = c, !.failed_tasks = f] \in AgentState
      /\ [r EXCEPT !.completed_tasks = c, !.failed_tasks = f].completed_tasks = c
      /\ [r EXCEPT !.completed_tasks = c, !.failed_tasks = f].failed_tasks = f
  BY <1>2 DEF AgentState
<1> QED
  BY <1>1, <1>3 DEF c, f

(* Taking the outcome of a retained task off its owner's counters is exact *)
(* when the counters are: saturating_sub never saturates.                  *)
LEMMA UncountExact ==
  ASSUME NEW ag, AgentsOK(ag), NEW tk, TasksOK(tk), Counted(ag, tk),
         NEW k \in Keys(tk), k[1] \in Keys(ag)
  PROVE  LET r == Uncount(ag.entry[k[1]], tk.entry[k].outcome)
         IN  /\ r \in AgentState
             /\ r.completed_tasks = Cardinality(CountedTasks(tk, k[1], "completed") \ {k})
             /\ r.failed_tasks = Cardinality(CountedTasks(tk, k[1], "failed") \ {k})
<1> DEFINE a == k[1]
           o == tk.entry[k].outcome
           C == CountedTasks(tk, a, "completed")
           F == CountedTasks(tk, a, "failed")
           q == ag.entry[a]
           r == Uncount(q, o)
<1>1. q \in AgentState /\ o \in TaskOutcome \cup {None}
  BY AgentEntries, TaskEntries
<1>2. q.completed_tasks = Cardinality(C) /\ q.failed_tasks = Cardinality(F)
  BY DEF Counted
<1>3. (k \in C <=> Bucket(o) = "completed") /\ (k \in F <=> Bucket(o) = "failed")
  BY DEF CountedTasks
<1>4. IsFiniteSet(C) /\ IsFiniteSet(F) /\ Cardinality(C) \in Nat /\ Cardinality(F) \in Nat
  BY CountedFinite
<1> HIDE DEF C, F, o, q
<1>5. /\ r \in AgentState
      /\ r.completed_tasks =
           (IF Bucket(o) = "completed" THEN Decremented(q.completed_tasks) ELSE q.completed_tasks)
      /\ r.failed_tasks =
           (IF Bucket(o) = "failed" THEN Decremented(q.failed_tasks) ELSE q.failed_tasks)
  BY <1>1, UncountOK
<1> HIDE DEF r
<1>6. /\ Cardinality(C \ {k}) = (IF k \in C THEN Cardinality(C) - 1 ELSE Cardinality(C))
      /\ Cardinality(F \ {k}) = (IF k \in F THEN Cardinality(F) - 1 ELSE Cardinality(F))
  BY <1>4, FS_RemoveElement
<1>7. (k \in C => Cardinality(C) # 0) /\ (k \in F => Cardinality(F) # 0)
  BY <1>4, FS_EmptySet
<1>8. /\ r.completed_tasks = Cardinality(C \ {k})
      /\ r.failed_tasks = Cardinality(F \ {k})
  BY <1>2, <1>3, <1>4, <1>5, <1>6, <1>7 DEF Decremented
<1> QED
  BY <1>5, <1>8 DEF r, C, F, o, q

(* Inserting an unfinished task: the owner of the task it evicts gives     *)
(* that task's completion back, so every agent's counters stay exact.      *)
LEMMA InsertTaskOK ==
  ASSUME NEW ag, AgentsOK(ag), NEW tk, TasksOK(tk), Counted(ag, tk),
         NEW k \in TaskKeys, k \notin Keys(tk), NEW s \in GoodTask, s.outcome = None
  PROVE  /\ TasksOK(Push(tk, k, s, TaskCap))
         /\ k \in Keys(Push(tk, k, s, TaskCap))
         /\ Push(tk, k, s, TaskCap).entry[k] = s
         /\ AgentsOK(UncountEvicted(ag, tk, k))
         /\ Keys(UncountEvicted(ag, tk, k)) = Keys(ag)
         /\ Counted(UncountEvicted(ag, tk, k), Push(tk, k, s, TaskCap))
<1> DEFINE d == Push(tk, k, s, TaskCap)
           D == Displaced(tk, k, TaskCap)
           e == UncountEvicted(ag, tk, k)
           out == {o \in D : o[1] \in Keys(ag)}
<1>1. TaskCap \in Nat \ {0} /\ CacheOK(tk, TaskKeys, GoodTask, TaskCap)
  BY CapacityAssumption DEF TasksOK
<1>2. /\ CacheOK(d, TaskKeys, GoodTask, TaskCap)
      /\ Keys(d) = (Keys(tk) \ D) \cup {k}
      /\ d.entry[k] = s
      /\ \A x \in Keys(tk) \ D : d.entry[x] = tk.entry[x]
  <2>1. CacheOK(d, TaskKeys, GoodTask, TaskCap)
    BY <1>1, PushNewOK
  <2>2. /\ Keys(d) = (Keys(tk) \ D) \cup {k}
        /\ d.entry[k] = s
        /\ \A x \in Keys(tk) \ D : d.entry[x] = tk.entry[x]
    BY PushNewEntries
  <2> QED
    BY <2>1, <2>2
<1>3. D \subseteq Keys(tk) /\ \A x, y \in D : x = y
  BY <1>1, DisplacedOK
<1>4. Bucket(s.outcome) = "none"
  BY BucketValues
<1>5. e = IF out = {} THEN ag
          ELSE LET o == CHOOSE o \in out : TRUE
               IN  Update(ag, o[1], Uncount(ag.entry[o[1]], tk.entry[o].outcome))
  BY DEF UncountEvicted
<1> HIDE DEF d, D, e
<1>6. \A a : \A b \in {"completed", "failed"} :
        CountedTasks(d, a, b) = CountedTasks(tk, a, b) \ D
  BY <1>2, <1>3, <1>4 DEF CountedTasks
<1>7. TasksOK(d) /\ k \in Keys(d)
  BY <1>2 DEF TasksOK
<1>8. CASE out = {}
  <2>1. e = ag
    BY <1>5, <1>8
  <2>2. \A a \in Keys(ag) : \A b \in {"completed", "failed"} :
          CountedTasks(d, a, b) = CountedTasks(tk, a, b)
    BY <1>6, <1>8 DEF CountedTasks
  <2>3. Counted(e, d)
    BY <2>1, <2>2 DEF Counted
  <2> QED
    BY <1>2, <1>7, <2>1, <2>3 DEF d, e
<1>9. CASE out # {}
  <2> DEFINE o == CHOOSE o \in out : TRUE
             r == Uncount(ag.entry[o[1]], tk.entry[o].outcome)
  <2>1. o \in D /\ o[1] \in Keys(ag) /\ o \in Keys(tk)
    BY <1>3, <1>9
  <2>2. e = Update(ag, o[1], r)
    BY <1>5, <1>9
  <2> HIDE DEF o
  <2>3. D = {o}
    BY <1>3, <2>1
  <2>4. /\ r \in AgentState
        /\ r.completed_tasks = Cardinality(CountedTasks(tk, o[1], "completed") \ {o})
        /\ r.failed_tasks = Cardinality(CountedTasks(tk, o[1], "failed") \ {o})
    BY <2>1, UncountExact
  <2> HIDE DEF r
  <2>5. /\ AgentsOK(e) /\ Keys(e) = Keys(ag) /\ e.entry[o[1]] = r
        /\ \A x \in Keys(ag) : x # o[1] => e.entry[x] = ag.entry[x]
    BY <2>1, <2>2, <2>4, AgentUpdate
  <2>6. \A a \in Keys(ag) : a # o[1] => \A b \in {"completed", "failed"} :
          CountedTasks(d, a, b) = CountedTasks(tk, a, b)
    BY <1>6, <2>3 DEF CountedTasks
  <2>7. ASSUME NEW a \in Keys(e)
        PROVE  /\ e.entry[a].completed_tasks = Cardinality(CountedTasks(d, a, "completed"))
               /\ e.entry[a].failed_tasks = Cardinality(CountedTasks(d, a, "failed"))
    <3>1. CASE a = o[1]
      BY <3>1, <1>6, <2>3, <2>4, <2>5
    <3>2. CASE a # o[1]
      BY <3>2, <2>5, <2>6, <2>7 DEF Counted
    <3> QED
      BY <3>1, <3>2
  <2>8. Counted(e, d)
    BY <2>7 DEF Counted
  <2> QED
    BY <1>2, <1>7, <2>5, <2>8 DEF d, e
<1> QED
  BY <1>8, <1>9

(* ensure_task retains the task and keeps the counters exact.              *)
LEMMA EnsureTaskOK ==
  ASSUME NEW ag, AgentsOK(ag), NEW tk, TasksOK(tk), Counted(ag, tk),
         NEW k \in TaskKeys, NEW at \in Times
  PROVE  /\ TasksOK(TasksWithTask(tk, k, at))
         /\ k \in Keys(TasksWithTask(tk, k, at))
         /\ AgentsOK(AgentsWithTask(ag, tk, k))
         /\ Keys(AgentsWithTask(ag, tk, k)) = Keys(ag)
         /\ Counted(AgentsWithTask(ag, tk, k), TasksWithTask(tk, k, at))
<1>1. CASE k \in Keys(tk)
  BY <1>1 DEF TasksWithTask, AgentsWithTask
<1>2. CASE k \notin Keys(tk)
  <2>1. NewTask(at, TRUE) \in GoodTask /\ NewTask(at, TRUE).outcome = None
    BY NewTaskOK
  <2> QED
    BY <1>2, <2>1, InsertTaskOK DEF TasksWithTask, AgentsWithTask
<1> QED
  BY <1>1, <1>2

(* Reading a task moves it to the front of its cache and nothing else.     *)
LEMMA TaskTouchOK ==
  ASSUME NEW tk, TasksOK(tk), NEW k \in Keys(tk), NEW ag, Counted(ag, tk)
  PROVE  TasksOK(Touch(tk, k)) /\ Counted(ag, Touch(tk, k))
<1>1. TasksOK(Touch(tk, k)) /\ Touch(tk, k).entry = tk.entry
  BY TouchOK DEF TasksOK
<1>2. \A a, b : CountedTasks(Touch(tk, k), a, b) = CountedTasks(tk, a, b)
  BY <1>1 DEF CountedTasks, Keys
<1> QED
  BY <1>1, <1>2 DEF Counted

(* Reading an agent moves it to the front of its cache and nothing else.   *)
LEMMA AgentTouchOK ==
  ASSUME NEW ag, AgentsOK(ag), NEW a \in Keys(ag), NEW tk, Counted(ag, tk)
  PROVE  AgentsOK(Touch(ag, a)) /\ Counted(Touch(ag, a), tk)
<1>1. AgentsOK(Touch(ag, a)) /\ Touch(ag, a).entry = ag.entry
  BY TouchOK DEF AgentsOK
<1> QED
  BY <1>1 DEF Counted, Keys

(* Writing a task moves it into the bucket of its new outcome.             *)
LEMMA TaskUpdate ==
  ASSUME NEW tk, TasksOK(tk), NEW k \in Keys(tk), NEW s \in GoodTask
  PROVE  /\ TasksOK(Update(tk, k, s))
         /\ \A a, b : CountedTasks(Update(tk, k, s), a, b) =
              IF a = k[1] /\ Bucket(s.outcome) = b
                THEN (CountedTasks(tk, a, b) \ {k}) \cup {k}
                ELSE CountedTasks(tk, a, b) \ {k}
<1> DEFINE d == Update(tk, k, s)
<1>1. TasksOK(d) /\ Keys(d) = Keys(tk) /\ d.entry = [tk.entry EXCEPT ![k] = s]
  BY UpdateOK DEF TasksOK
<1> HIDE DEF d
<1>2. d.entry[k] = s /\ \A x \in Keys(tk) : x # k => d.entry[x] = tk.entry[x]
  BY <1>1 DEF Keys
<1>3. \A a, b : CountedTasks(d, a, b) =
        IF a = k[1] /\ Bucket(s.outcome) = b
          THEN (CountedTasks(tk, a, b) \ {k}) \cup {k}
          ELSE CountedTasks(tk, a, b) \ {k}
  BY <1>1, <1>2 DEF CountedTasks
<1> QED
  BY <1>1, <1>3 DEF d

(* Writing a task without changing its outcome needs no counter.           *)
LEMMA TaskUpdateSame ==
  ASSUME NEW tk, TasksOK(tk), NEW k \in Keys(tk), NEW s \in GoodTask,
         s.outcome = tk.entry[k].outcome, NEW ag, Counted(ag, tk)
  PROVE  TasksOK(Update(tk, k, s)) /\ Counted(ag, Update(tk, k, s))
<1> DEFINE d == Update(tk, k, s)
<1>1. TasksOK(d) /\ Keys(d) = Keys(tk) /\ d.entry = [tk.entry EXCEPT ![k] = s]
  BY UpdateOK DEF TasksOK
<1> HIDE DEF d
<1>2. d.entry[k] = s /\ \A x \in Keys(tk) : x # k => d.entry[x] = tk.entry[x]
  BY <1>1 DEF Keys
<1>3. \A a, b : CountedTasks(d, a, b) = CountedTasks(tk, a, b)
  BY <1>1, <1>2 DEF CountedTasks
<1>4. Counted(ag, d)
  BY <1>3 DEF Counted
<1> QED
  BY <1>1, <1>4 DEF d

(* Writing a task's outcome together with its owner: if the owner's new    *)
(* counters are those of its other tasks plus the new outcome, every       *)
(* agent's counters stay exact.                                            *)
LEMMA OutcomeOK ==
  ASSUME NEW ag, AgentsOK(ag), NEW tk, TasksOK(tk), Counted(ag, tk),
         NEW k \in Keys(tk), k[1] \in Keys(ag),
         NEW s \in GoodTask, NEW r \in AgentState,
         r.completed_tasks = Cardinality(CountedTasks(tk, k[1], "completed") \ {k})
           + (IF Bucket(s.outcome) = "completed" THEN 1 ELSE 0),
         r.failed_tasks = Cardinality(CountedTasks(tk, k[1], "failed") \ {k})
           + (IF Bucket(s.outcome) = "failed" THEN 1 ELSE 0)
  PROVE  /\ AgentsOK(Update(ag, k[1], r))
         /\ TasksOK(Update(tk, k, s))
         /\ Counted(Update(ag, k[1], r), Update(tk, k, s))
<1> DEFINE d == Update(tk, k, s)
           e == Update(ag, k[1], r)
<1>1. TasksOK(d)
  BY TaskUpdate
<1>2. \A a, b : CountedTasks(d, a, b) =
        IF a = k[1] /\ Bucket(s.outcome) = b
          THEN (CountedTasks(tk, a, b) \ {k}) \cup {k}
          ELSE CountedTasks(tk, a, b) \ {k}
  BY TaskUpdate
<1>3. /\ AgentsOK(e) /\ Keys(e) = Keys(ag) /\ e.entry[k[1]] = r
      /\ \A x \in Keys(ag) : x # k[1] => e.entry[x] = ag.entry[x]
  BY AgentUpdate
<1> HIDE DEF d, e
<1>4. ASSUME NEW b \in {"completed", "failed"}
      PROVE  Cardinality(CountedTasks(d, k[1], b)) =
               Cardinality(CountedTasks(tk, k[1], b) \ {k})
                 + (IF Bucket(s.outcome) = b THEN 1 ELSE 0)
  <2> DEFINE C == CountedTasks(tk, k[1], b)
  <2>1. IsFiniteSet(C)
    BY CountedFinite
  <2> HIDE DEF C
  <2>2. IsFiniteSet(C \ {k}) /\ k \notin C \ {k}
    BY <2>1, FS_RemoveElement
  <2>3. Cardinality(C \ {k}) \in Nat
    BY <2>2, FS_CardinalityType
  <2>4. Cardinality((C \ {k}) \cup {k}) = Cardinality(C \ {k}) + 1
    BY <2>2, FS_AddElement
  <2>5. CountedTasks(d, k[1], b) =
          IF Bucket(s.outcome) = b THEN (C \ {k}) \cup {k} ELSE C \ {k}
    BY <1>2 DEF C
  <2> QED
    BY <2>3, <2>4, <2>5 DEF C
<1>5. \A a, b : a # k[1] => CountedTasks(d, a, b) = CountedTasks(tk, a, b)
  BY <1>2 DEF CountedTasks
<1>6. ASSUME NEW a \in Keys(e)
      PROVE  /\ e.entry[a].completed_tasks = Cardinality(CountedTasks(d, a, "completed"))
             /\ e.entry[a].failed_tasks = Cardinality(CountedTasks(d, a, "failed"))
  <2>1. CASE a = k[1]
    BY <2>1, <1>3, <1>4
  <2>2. CASE a # k[1]
    BY <2>2, <1>3, <1>5, <1>6 DEF Counted
  <2> QED
    BY <2>1, <2>2
<1>7. Counted(e, d)
  BY <1>6 DEF Counted
<1> QED
  BY <1>1, <1>3, <1>7 DEF d, e

-----------------------------------------------------------------------------
(* The reducer preserves the projections: one lemma per kind of event.     *)

(* An event that only rewrites the sender's own entry.                     *)
LEMMA OwnEntry ==
  ASSUME Projections, NEW a \in Agents, NEW at \in Times, NEW r \in AgentState,
         r.completed_tasks = Observe(agents, tasks, a, at).entry[a].completed_tasks,
         r.failed_tasks = Observe(agents, tasks, a, at).entry[a].failed_tasks
  PROVE  /\ AgentsOK(Update(Observe(agents, tasks, a, at), a, r))
         /\ Counted(Update(Observe(agents, tasks, a, at), a, r), tasks)
<1>1. AgentsOK(agents) /\ TasksOK(tasks) /\ Counted(agents, tasks)
  BY DEF Projections
<1> DEFINE e == Observe(agents, tasks, a, at)
<1>2. AgentsOK(e) /\ a \in Keys(e) /\ Counted(e, tasks)
  BY <1>1, ObserveOK
<1> HIDE DEF e
<1>3. r.completed_tasks = e.entry[a].completed_tasks /\ r.failed_tasks = e.entry[a].failed_tasks
  BY DEF e
<1>4. AgentsOK(Update(e, a, r)) /\ Counted(Update(e, a, r), tasks)
  BY <1>2, <1>3, AgentUpdate
<1> QED
  BY <1>4 DEF e

(* The sender's entry after the prologue.                                  *)
LEMMA SenderEntry ==
  ASSUME Projections, NEW a \in Agents, NEW at \in Times
  PROVE  /\ Observe(agents, tasks, a, at).entry[a] \in AgentState
         /\ AgentsOK(Observe(agents, tasks, a, at))
         /\ Counted(Observe(agents, tasks, a, at), tasks)
         /\ a \in Keys(Observe(agents, tasks, a, at))
<1>1. AgentsOK(agents) /\ TasksOK(tasks) /\ Counted(agents, tasks)
  BY DEF Projections
<1> QED
  BY <1>1, ObserveOK, AgentEntries

(* AgentRegistered.                                                        *)
LEMMA AgentRegisteredOK ==
  ASSUME Projections, NEW a \in Agents, NEW at \in Times, NEW st \in Statuses,
         AgentRegistered(a, at, st)
  PROVE  Projections'
<1> DEFINE q == Observe(agents, tasks, a, at).entry[a]
           r == [q EXCEPT !.status = IF q.status = "idle" THEN st ELSE q.status,
                          !.registered_at = Earlier(q.registered_at, at)]
<1>1. q \in AgentState
  BY SenderEntry
<1>2. agents' = Update(Observe(agents, tasks, a, at), a, r)
  BY DEF AgentRegistered
<1> HIDE DEF q
<1>3. /\ (IF q.status = "idle" THEN st ELSE q.status) \in AgentStatus
      /\ Earlier(q.registered_at, at) \in Times
  BY <1>1, InputAssumption DEF AgentState, Earlier
<1>4. /\ r \in AgentState /\ r.completed_tasks = q.completed_tasks
      /\ r.failed_tasks = q.failed_tasks
  BY <1>1, <1>3 DEF AgentState
<1> HIDE DEF r
<1>5. AgentsOK(agents') /\ Counted(agents', tasks)
  BY <1>2, <1>4, OwnEntry DEF q
<1> QED
  BY <1>5 DEF AgentRegistered, Projections

(* Heartbeat.                                                              *)
LEMMA HeartbeatOK ==
  ASSUME Projections, NEW a \in Agents, NEW at \in Times,
         NEW st \in Statuses \cup {None}, NEW t \in TaskIds \cup {None},
         Heartbeat(a, at, st, t)
  PROVE  Projections'
<1> DEFINE q == Observe(agents, tasks, a, at).entry[a]
           r == [q EXCEPT !.status = IF st = None THEN q.status ELSE st,
                          !.active_task = IF t = None THEN q.active_task ELSE t]
<1>1. q \in AgentState
  BY SenderEntry
<1>2. agents' = Update(Observe(agents, tasks, a, at), a, r)
  BY DEF Heartbeat
<1> HIDE DEF q
<1>3. /\ (IF st = None THEN q.status ELSE st) \in AgentStatus
      /\ (IF t = None THEN q.active_task ELSE t) \in TaskIds \cup {None}
  BY <1>1, InputAssumption DEF AgentState
<1>4. /\ r \in AgentState /\ r.completed_tasks = q.completed_tasks
      /\ r.failed_tasks = q.failed_tasks
  BY <1>1, <1>3 DEF AgentState
<1> HIDE DEF r
<1>5. AgentsOK(agents') /\ Counted(agents', tasks)
  BY <1>2, <1>4, OwnEntry DEF q
<1> QED
  BY <1>5 DEF Heartbeat, Projections

(* GoalDeclared.                                                           *)
LEMMA GoalDeclaredOK ==
  ASSUME Projections, NEW a \in Agents, NEW at \in Times, NEW g \in GoalIds,
         GoalDeclared(a, at, g)
  PROVE  Projections'
<1> DEFINE q == Observe(agents, tasks, a, at).entry[a]
           r == [q EXCEPT !.current_goal = g,
                          !.status = IF q.status = "idle" THEN "planning" ELSE q.status]
<1>1. q \in AgentState
  BY SenderEntry
<1>2. /\ agents' = Update(Observe(agents, tasks, a, at), a, r)
      /\ goals' = Push(goals, <<a, g>>, at, GoalCap)
  BY DEF GoalDeclared
<1> HIDE DEF q
<1>3. (IF q.status = "idle" THEN "planning" ELSE q.status) \in AgentStatus
  BY <1>1 DEF AgentState, AgentStatus
<1>4. /\ r \in AgentState /\ r.completed_tasks = q.completed_tasks
      /\ r.failed_tasks = q.failed_tasks
  BY <1>1, <1>3 DEF AgentState
<1> HIDE DEF r
<1>5. AgentsOK(agents') /\ Counted(agents', tasks)
  BY <1>2, <1>4, OwnEntry DEF q
<1>6. CacheOK(goals', Agents \X GoalIds, Times, GoalCap)
  <2>1. /\ GoalCap \in Nat \ {0} /\ <<a, g>> \in Agents \X GoalIds
        /\ CacheOK(goals, Agents \X GoalIds, Times, GoalCap)
    BY CapacityAssumption DEF Projections
  <2> QED
    BY <1>2, <2>1, PushOK
<1> QED
  BY <1>5, <1>6 DEF GoalDeclared, Projections

(* LessonLearned.                                                          *)
LEMMA LessonLearnedOK ==
  ASSUME Projections, NEW a \in Agents, NEW at \in Times, NEW l \in LessonIds,
         LessonLearned(a, at, l)
  PROVE  Projections'
<1> DEFINE k == <<a, l>>
           n == IF k \in Keys(lessons) THEN lessons.entry[k].observations + 1 ELSE 1
           v == [learned_at |-> at, observations |-> n]
<1>1. /\ agents' = Observe(agents, tasks, a, at)
      /\ lessons' = Push(lessons, k, v, LessonCap)
  BY DEF LessonLearned
<1>2. /\ LessonCap \in Nat \ {0} /\ k \in Agents \X LessonIds
      /\ CacheOK(lessons, Agents \X LessonIds, LessonState, LessonCap)
  BY CapacityAssumption DEF Projections
<1> HIDE DEF k
<1>3. n \in Nat
  <2>1. lessons.entry \in [Keys(lessons) -> LessonState]
    BY <1>2 DEF CacheOK
  <2> QED
    BY <2>1 DEF LessonState
<1>4. v \in LessonState
  BY <1>3 DEF LessonState
<1> HIDE DEF v
<1>5. CacheOK(lessons', Agents \X LessonIds, LessonState, LessonCap)
  BY <1>1, <1>2, <1>4, PushOK
<1>6. AgentsOK(agents') /\ Counted(agents', tasks)
  BY <1>1, SenderEntry
<1> QED
  BY <1>5, <1>6 DEF LessonLearned, Projections

(* AgentStatusChanged.                                                     *)
LEMMA AgentStatusChangedOK ==
  ASSUME Projections, NEW a \in Agents, NEW at \in Times, NEW st \in Statuses,
         AgentStatusChanged(a, at, st)
  PROVE  Projections'
<1> DEFINE q == Observe(agents, tasks, a, at).entry[a]
           r == [q EXCEPT !.status = st]
<1>1. q \in AgentState
  BY SenderEntry
<1>2. agents' = Update(Observe(agents, tasks, a, at), a, r)
  BY DEF AgentStatusChanged
<1> HIDE DEF q
<1>3. st \in AgentStatus
  BY InputAssumption
<1>4. /\ r \in AgentState /\ r.completed_tasks = q.completed_tasks
      /\ r.failed_tasks = q.failed_tasks
  BY <1>1, <1>3 DEF AgentState
<1> HIDE DEF r
<1>5. AgentsOK(agents') /\ Counted(agents', tasks)
  BY <1>2, <1>4, OwnEntry DEF q
<1> QED
  BY <1>5 DEF AgentStatusChanged, Projections

(* Every event about a task starts by retaining the sender and the task.   *)
LEMMA TaskRetained ==
  ASSUME Projections, NEW a \in Agents, NEW at \in Times, NEW t \in TaskIds
  PROVE  LET k  == <<a, t>>
             tk == TasksWithTask(tasks, k, at)
             ag == AgentsWithTask(Observe(agents, tasks, a, at), tasks, k)
         IN  /\ TasksOK(tk) /\ k \in Keys(tk) /\ AgentsOK(ag) /\ a \in Keys(ag)
             /\ Counted(ag, tk) /\ tk.entry[k] \in GoodTask
<1> DEFINE k == <<a, t>>
           tk == TasksWithTask(tasks, k, at)
           e == Observe(agents, tasks, a, at)
           ag == AgentsWithTask(e, tasks, k)
<1>1. k \in TaskKeys
  BY DEF TaskKeys
<1>2. TasksOK(tasks)
  BY DEF Projections
<1>3. AgentsOK(e) /\ Counted(e, tasks) /\ a \in Keys(e)
  BY SenderEntry
<1> HIDE DEF k, e
<1>4. /\ TasksOK(tk) /\ k \in Keys(tk) /\ AgentsOK(ag)
      /\ Keys(ag) = Keys(e) /\ Counted(ag, tk)
  BY <1>1, <1>2, <1>3, EnsureTaskOK
<1> HIDE DEF tk, ag
<1>5. tk.entry[k] \in GoodTask
  BY <1>4, TaskEntries
<1> QED
  BY <1>3, <1>4, <1>5 DEF tk, ag, k, e

(* TaskStarted: the reopened task's completion is taken back exactly.      *)
LEMMA TaskStartedOK ==
  ASSUME Projections, NEW a \in Agents, NEW at \in Times, NEW t \in TaskIds,
         NEW n \in Attempts,
         TaskStarted(a, at, t, n)
  PROVE  Projections'
<1> DEFINE k == <<a, t>>
           tk == TasksWithTask(tasks, k, at)
           ag == AgentsWithTask(Observe(agents, tasks, a, at), tasks, k)
           u == Uncount(ag.entry[a], tk.entry[k].outcome)
           r == [u EXCEPT !.status = "running", !.active_task = t]
           s == Started(tk.entry[k], at, n)
<1>1. /\ TasksOK(tk) /\ k \in Keys(tk) /\ AgentsOK(ag) /\ a \in Keys(ag)
      /\ Counted(ag, tk) /\ tk.entry[k] \in GoodTask
  BY TaskRetained
<1>2. /\ tasks' = Advance(tk, k, at, s)
      /\ agents' = AdvanceOwner(ag, tk, k, at, r)
  BY DEF TaskStarted
<1>3. k[1] = a
  OBVIOUS
<1> HIDE DEF tk, ag, k
<1>4. CASE Applies(tk, k, at)
  <2>1. tasks' = Update(tk, k, s) /\ agents' = Update(ag, k[1], r)
    BY <1>2, <1>4 DEF Advance, AdvanceOwner
  <2>2. s \in GoodTask /\ s.outcome = None
    BY <1>1, <1>4, StartedOK DEF Applies
  <2>3. /\ u \in AgentState
        /\ u.completed_tasks = Cardinality(CountedTasks(tk, k[1], "completed") \ {k})
        /\ u.failed_tasks = Cardinality(CountedTasks(tk, k[1], "failed") \ {k})
    <3>1. k[1] \in Keys(ag) /\ u = Uncount(ag.entry[k[1]], tk.entry[k].outcome)
      BY <1>1, <1>3
    <3> HIDE DEF u
    <3> QED
      BY <1>1, <3>1, UncountExact
  <2>4. Bucket(s.outcome) = "none"
    BY <2>2, BucketValues
  <2> HIDE DEF u, s
  <2>5. /\ r \in AgentState /\ r.completed_tasks = u.completed_tasks
        /\ r.failed_tasks = u.failed_tasks
    BY <2>3 DEF AgentState, AgentStatus
  <2> HIDE DEF r
  <2>6. /\ Cardinality(CountedTasks(tk, k[1], "completed") \ {k}) \in Nat
        /\ Cardinality(CountedTasks(tk, k[1], "failed") \ {k}) \in Nat
    BY <2>3 DEF AgentState
  <2>7. /\ r.completed_tasks = Cardinality(CountedTasks(tk, k[1], "completed") \ {k})
             + (IF Bucket(s.outcome) = "completed" THEN 1 ELSE 0)
        /\ r.failed_tasks = Cardinality(CountedTasks(tk, k[1], "failed") \ {k})
             + (IF Bucket(s.outcome) = "failed" THEN 1 ELSE 0)
    BY <2>3, <2>4, <2>5, <2>6
  <2>8. AgentsOK(agents') /\ TasksOK(tasks') /\ Counted(agents', tasks')
    BY <1>1, <1>3, <2>1, <2>2, <2>5, <2>7, OutcomeOK
  <2> QED
    BY <2>8 DEF TaskStarted, Projections
<1>5. CASE ~Applies(tk, k, at)
  <2>1. tasks' = Touch(tk, k) /\ agents' = ag
    BY <1>2, <1>5 DEF Advance, AdvanceOwner
  <2>2. AgentsOK(agents') /\ TasksOK(tasks') /\ Counted(agents', tasks')
    BY <1>1, <2>1, TaskTouchOK
  <2> QED
    BY <2>2 DEF TaskStarted, Projections
<1> QED
  BY <1>4, <1>5

(* ProgressUpdated: likewise.                                              *)
LEMMA ProgressUpdatedOK ==
  ASSUME Projections, NEW a \in Agents, NEW at \in Times, NEW t \in TaskIds,
         NEW p \in Levels, NEW b \in BOOLEAN,
         ProgressUpdated(a, at, t, p, b)
  PROVE  Projections'
<1> DEFINE k == <<a, t>>
           tk == TasksWithTask(tasks, k, at)
           ag == AgentsWithTask(Observe(agents, tasks, a, at), tasks, k)
           u == Uncount(ag.entry[a], tk.entry[k].outcome)
           r == [u EXCEPT !.status = IF b THEN "blocked" ELSE "running",
                          !.active_task = t]
           s == Progressed(tk.entry[k], at, p, b)
<1>1. /\ TasksOK(tk) /\ k \in Keys(tk) /\ AgentsOK(ag) /\ a \in Keys(ag)
      /\ Counted(ag, tk) /\ tk.entry[k] \in GoodTask
  BY TaskRetained
<1>2. /\ tasks' = Advance(tk, k, at, s)
      /\ agents' = AdvanceOwner(ag, tk, k, at, r)
  BY DEF ProgressUpdated
<1>3. k[1] = a
  OBVIOUS
<1> HIDE DEF tk, ag, k
<1>4. CASE Applies(tk, k, at)
  <2>1. tasks' = Update(tk, k, s) /\ agents' = Update(ag, k[1], r)
    BY <1>2, <1>4 DEF Advance, AdvanceOwner
  <2>2. s \in GoodTask /\ s.outcome = None
    BY <1>1, <1>4, ProgressedOK DEF Applies
  <2>3. /\ u \in AgentState
        /\ u.completed_tasks = Cardinality(CountedTasks(tk, k[1], "completed") \ {k})
        /\ u.failed_tasks = Cardinality(CountedTasks(tk, k[1], "failed") \ {k})
    <3>1. k[1] \in Keys(ag) /\ u = Uncount(ag.entry[k[1]], tk.entry[k].outcome)
      BY <1>1, <1>3
    <3> HIDE DEF u
    <3> QED
      BY <1>1, <3>1, UncountExact
  <2>4. Bucket(s.outcome) = "none"
    BY <2>2, BucketValues
  <2> HIDE DEF u, s
  <2>5. /\ r \in AgentState /\ r.completed_tasks = u.completed_tasks
        /\ r.failed_tasks = u.failed_tasks
    <3>1. (IF b THEN "blocked" ELSE "running") \in AgentStatus
      BY DEF AgentStatus
    <3> QED
      BY <2>3, <3>1 DEF AgentState
  <2> HIDE DEF r
  <2>6. /\ Cardinality(CountedTasks(tk, k[1], "completed") \ {k}) \in Nat
        /\ Cardinality(CountedTasks(tk, k[1], "failed") \ {k}) \in Nat
    BY <2>3 DEF AgentState
  <2>7. /\ r.completed_tasks = Cardinality(CountedTasks(tk, k[1], "completed") \ {k})
             + (IF Bucket(s.outcome) = "completed" THEN 1 ELSE 0)
        /\ r.failed_tasks = Cardinality(CountedTasks(tk, k[1], "failed") \ {k})
             + (IF Bucket(s.outcome) = "failed" THEN 1 ELSE 0)
    BY <2>3, <2>4, <2>5, <2>6
  <2>8. AgentsOK(agents') /\ TasksOK(tasks') /\ Counted(agents', tasks')
    BY <1>1, <1>3, <2>1, <2>2, <2>5, <2>7, OutcomeOK
  <2> QED
    BY <2>8 DEF ProgressUpdated, Projections
<1>5. CASE ~Applies(tk, k, at)
  <2>1. tasks' = Touch(tk, k) /\ agents' = ag
    BY <1>2, <1>5 DEF Advance, AdvanceOwner
  <2>2. AgentsOK(agents') /\ TasksOK(tasks') /\ Counted(agents', tasks')
    BY <1>1, <2>1, TaskTouchOK
  <2> QED
    BY <2>2 DEF ProgressUpdated, Projections
<1> QED
  BY <1>4, <1>5

(* TaskCreated, into a retained or a new task.                             *)
LEMMA TaskCreatedOK ==
  ASSUME Projections, NEW a \in Agents, NEW at \in Times, NEW t \in TaskIds,
         TaskCreated(a, at, t)
  PROVE  Projections'
<1> DEFINE k == <<a, t>>
           ag == Observe(agents, tasks, a, at)
<1>1. /\ k \in TaskKeys /\ TasksOK(tasks) /\ AgentsOK(ag) /\ Counted(ag, tasks)
  BY SenderEntry DEF TaskKeys, Projections
<1>2. \/ /\ k \in Keys(tasks) /\ Authoritative(tasks.entry[k], at)
         /\ tasks' = Update(tasks, k, Redefined(tasks.entry[k], at)) /\ agents' = ag
      \/ k \in Keys(tasks) /\ tasks' = Touch(tasks, k) /\ agents' = ag
      \/ /\ k \notin Keys(tasks) /\ tasks' = Push(tasks, k, NewTask(at, FALSE), TaskCap)
         /\ agents' = UncountEvicted(ag, tasks, k)
  BY DEF TaskCreated
<1> HIDE DEF k, ag
<1>3. AgentsOK(agents') /\ TasksOK(tasks') /\ Counted(agents', tasks')
  <2>1. CASE /\ k \in Keys(tasks) /\ Authoritative(tasks.entry[k], at)
             /\ tasks' = Update(tasks, k, Redefined(tasks.entry[k], at)) /\ agents' = ag
    <3>1. tasks.entry[k] \in GoodTask
      BY <1>1, <2>1, TaskEntries
    <3> DEFINE s == Redefined(tasks.entry[k], at)
    <3>2. s \in GoodTask /\ s.outcome = tasks.entry[k].outcome
      BY <2>1, <3>1, RedefinedOK
    <3> HIDE DEF s
    <3> QED
      BY <1>1, <2>1, <3>2, TaskUpdateSame DEF s
  <2>2. CASE k \in Keys(tasks) /\ tasks' = Touch(tasks, k) /\ agents' = ag
    BY <1>1, <2>2, TaskTouchOK
  <2>3. CASE /\ k \notin Keys(tasks) /\ tasks' = Push(tasks, k, NewTask(at, FALSE), TaskCap)
             /\ agents' = UncountEvicted(ag, tasks, k)
    <3>1. NewTask(at, FALSE) \in GoodTask /\ NewTask(at, FALSE).outcome = None
      BY NewTaskOK
    <3> QED
      BY <1>1, <2>3, <3>1, InsertTaskOK
  <2> QED
    BY <1>2, <2>1, <2>2, <2>3
<1> QED
  BY <1>3 DEF TaskCreated, Projections

(* Writing a task whose outcome stays the same, under the event-time       *)
(* guard.                                                                  *)
LEMMA AdvanceSame ==
  ASSUME NEW tk, TasksOK(tk), NEW k \in Keys(tk), NEW at, NEW s,
         Applies(tk, k, at) => s \in GoodTask /\ s.outcome = tk.entry[k].outcome,
         NEW ag, Counted(ag, tk)
  PROVE  TasksOK(Advance(tk, k, at, s)) /\ Counted(ag, Advance(tk, k, at, s))
<1>1. CASE Applies(tk, k, at)
  BY <1>1, TaskUpdateSame DEF Advance
<1>2. CASE ~Applies(tk, k, at)
  BY <1>2, TaskTouchOK DEF Advance
<1> QED
  BY <1>1, <1>2

(* ReflectionRecorded, with and without a task.                            *)
LEMMA ReflectionRecordedOK ==
  ASSUME Projections, NEW a \in Agents, NEW at \in Times, NEW t \in TaskIds \cup {None},
         ReflectionRecorded(a, at, t)
  PROVE  Projections'
<1>1. CASE t = None
  <2>1. AgentsOK(agents') /\ TasksOK(tasks') /\ Counted(agents', tasks')
    BY <1>1, SenderEntry DEF ReflectionRecorded, Projections
  <2> QED
    BY <2>1 DEF ReflectionRecorded, Projections
<1>2. CASE t # None
  <2> DEFINE k == <<a, t>>
             tk == TasksWithTask(tasks, k, at)
             ag == AgentsWithTask(Observe(agents, tasks, a, at), tasks, k)
             s == [tk.entry[k] EXCEPT !.updated_at = at]
  <2>1. /\ TasksOK(tk) /\ k \in Keys(tk) /\ AgentsOK(ag) /\ a \in Keys(ag)
        /\ Counted(ag, tk) /\ tk.entry[k] \in GoodTask
    BY <1>2, TaskRetained
  <2>2. tasks' = Advance(tk, k, at, s) /\ agents' = Touch(ag, a)
    BY <1>2 DEF ReflectionRecorded
  <2> HIDE DEF tk, ag, k
  <2>3. Applies(tk, k, at) => s \in GoodTask /\ s.outcome = tk.entry[k].outcome
    BY <2>1, ReflectedOK DEF Applies
  <2> HIDE DEF s
  <2>4. AgentsOK(agents') /\ Counted(agents', tk)
    BY <2>1, <2>2, AgentTouchOK
  <2>5. TasksOK(tasks') /\ Counted(agents', tasks')
    BY <2>1, <2>2, <2>3, <2>4, AdvanceSame
  <2> QED
    BY <2>4, <2>5 DEF ReflectionRecorded, Projections
<1> QED
  BY <1>1, <1>2

(* ErrorObserved, with and without a task.                                 *)
LEMMA ErrorObservedOK ==
  ASSUME Projections, NEW a \in Agents, NEW at \in Times, NEW t \in TaskIds \cup {None},
         ErrorObserved(a, at, t)
  PROVE  Projections'
<1> DEFINE k == <<a, t>>
           tk == TasksWithTask(tasks, k, at)
           ag == IF t = None THEN Observe(agents, tasks, a, at)
                 ELSE AgentsWithTask(Observe(agents, tasks, a, at), tasks, k)
           r == [ag.entry[a] EXCEPT !.status = "blocked"]
           s == Errored(tk.entry[k], at)
<1>1. /\ tasks' = IF t = None THEN tasks ELSE Advance(tk, k, at, s)
      /\ agents' = Update(ag, a, r)
  BY DEF ErrorObserved
<1>2. AgentsOK(ag) /\ a \in Keys(ag) /\ Counted(ag, tasks')
  <2>1. CASE t = None
    BY <2>1, <1>1, SenderEntry
  <2>2. CASE t # None
    <3> DEFINE g == AgentsWithTask(Observe(agents, tasks, a, at), tasks, k)
    <3>1. /\ TasksOK(tk) /\ k \in Keys(tk) /\ AgentsOK(g) /\ a \in Keys(g)
          /\ Counted(g, tk) /\ tk.entry[k] \in GoodTask
      BY <2>2, TaskRetained
    <3>2. ag = g
      BY <2>2
    <3> HIDE DEF tk, k, g, ag
    <3>3. Applies(tk, k, at) => s \in GoodTask /\ s.outcome = tk.entry[k].outcome
      BY <3>1, ErroredOK DEF Applies
    <3> HIDE DEF s
    <3>4. tasks' = Advance(tk, k, at, s)
      BY <2>2, <1>1
    <3> QED
      BY <3>1, <3>2, <3>3, <3>4, AdvanceSame
  <2> QED
    BY <2>1, <2>2
<1>3. TasksOK(tasks')
  <2>1. CASE t = None
    BY <2>1, <1>1 DEF Projections
  <2>2. CASE t # None
    <3>1. TasksOK(tk) /\ k \in Keys(tk) /\ tk.entry[k] \in GoodTask
      BY <2>2, TaskRetained
    <3>2. PICK g : Counted(g, tk)
      BY <2>2, TaskRetained
    <3> HIDE DEF tk, k, ag
    <3>3. Applies(tk, k, at) => s \in GoodTask /\ s.outcome = tk.entry[k].outcome
      BY <3>1, ErroredOK DEF Applies
    <3> HIDE DEF s
    <3>4. tasks' = Advance(tk, k, at, s)
      BY <2>2, <1>1
    <3> QED
      BY <3>1, <3>2, <3>3, <3>4, AdvanceSame
  <2> QED
    BY <2>1, <2>2
<1> HIDE DEF ag, tk, k
<1>4. ag.entry[a] \in AgentState
  BY <1>2, AgentEntries
<1>5. /\ r \in AgentState /\ r.completed_tasks = ag.entry[a].completed_tasks
      /\ r.failed_tasks = ag.entry[a].failed_tasks
  BY <1>4 DEF AgentState, AgentStatus
<1> HIDE DEF r
<1>6. AgentsOK(agents') /\ Counted(agents', tasks')
  BY <1>1, <1>2, <1>5, AgentUpdate
<1> QED
  BY <1>3, <1>6 DEF ErrorObserved, Projections

(* reconcile_completion_counters is exact: the owner ends with its other   *)
(* tasks' counts plus the new outcome, whatever the task's outcome was.    *)
LEMMA ReconcileExact ==
  ASSUME NEW ag, AgentsOK(ag), NEW tk, TasksOK(tk), Counted(ag, tk),
         NEW k \in Keys(tk), k[1] \in Keys(ag), NEW o \in Outcomes
  PROVE  LET r == Reconcile(ag.entry[k[1]], tk.entry[k].outcome, o)
         IN  /\ r \in AgentState
             /\ r.completed_tasks = Cardinality(CountedTasks(tk, k[1], "completed") \ {k})
                  + (IF Bucket(o) = "completed" THEN 1 ELSE 0)
             /\ r.failed_tasks = Cardinality(CountedTasks(tk, k[1], "failed") \ {k})
                  + (IF Bucket(o) = "failed" THEN 1 ELSE 0)
<1> DEFINE a == k[1]
           p == tk.entry[k].outcome
           C == CountedTasks(tk, a, "completed")
           F == CountedTasks(tk, a, "failed")
           q == ag.entry[a]
           u == Uncount(q, p)
           m == IF Bucket(p) = Bucket(o) THEN q
                ELSE [u EXCEPT
                        !.completed_tasks = IF Bucket(o) = "completed" THEN u.completed_tasks + 1
                                            ELSE u.completed_tasks,
                        !.failed_tasks    = IF Bucket(o) = "failed" THEN u.failed_tasks + 1
                                            ELSE u.failed_tasks]
           r == [m EXCEPT !.status = Bucket(o)]
<1>1. q \in AgentState /\ p \in TaskOutcome \cup {None} /\ o \in TaskOutcome
  BY AgentEntries, TaskEntries, InputAssumption
<1>2. q.completed_tasks = Cardinality(C) /\ q.failed_tasks = Cardinality(F)
  BY DEF Counted
<1>3. (k \in C <=> Bucket(p) = "completed") /\ (k \in F <=> Bucket(p) = "failed")
  BY DEF CountedTasks
<1>4. IsFiniteSet(C) /\ IsFiniteSet(F) /\ Cardinality(C) \in Nat /\ Cardinality(F) \in Nat
  BY CountedFinite
<1>5. /\ u \in AgentState
      /\ u.completed_tasks = Cardinality(C \ {k})
      /\ u.failed_tasks = Cardinality(F \ {k})
  BY UncountExact
<1>6. Reconcile(q, p, o) = r
  BY DEF Reconcile
<1> HIDE DEF C, F, p, q, u
<1>7. Bucket(o) \in {"completed", "failed"}
  BY <1>1, BucketValues
<1>8. /\ m \in AgentState
      /\ m.completed_tasks = Cardinality(C \ {k}) + (IF Bucket(o) = "completed" THEN 1 ELSE 0)
      /\ m.failed_tasks = Cardinality(F \ {k}) + (IF Bucket(o) = "failed" THEN 1 ELSE 0)
  <2>1. CASE Bucket(p) = Bucket(o)
    <3>1. m = q
      BY <2>1
    <3>2. /\ Cardinality(C \ {k}) = (IF k \in C THEN Cardinality(C) - 1 ELSE Cardinality(C))
          /\ Cardinality(F \ {k}) = (IF k \in F THEN Cardinality(F) - 1 ELSE Cardinality(F))
      BY <1>4, FS_RemoveElement
    <3> HIDE DEF m
    <3> QED
      BY <1>1, <1>2, <1>3, <1>4, <1>7, <2>1, <3>1, <3>2
  <2>2. CASE Bucket(p) # Bucket(o)
    <3> DEFINE c == IF Bucket(o) = "completed" THEN u.completed_tasks + 1 ELSE u.completed_tasks
               f == IF Bucket(o) = "failed" THEN u.failed_tasks + 1 ELSE u.failed_tasks
    <3>1. m = [u EXCEPT !.completed_tasks = c, !.failed_tasks = f]
      BY <2>2
    <3>2. c \in Nat /\ f \in Nat
      BY <1>5 DEF AgentState
    <3>3. /\ c = Cardinality(C \ {k}) + (IF Bucket(o) = "completed" THEN 1 ELSE 0)
          /\ f = Cardinality(F \ {k}) + (IF Bucket(o) = "failed" THEN 1 ELSE 0)
      BY <1>5 DEF AgentState
    <3> HIDE DEF c, f, m
    <3>4. m \in AgentState /\ m.completed_tasks = c /\ m.failed_tasks = f
      BY <1>5, <3>1, <3>2 DEF AgentState
    <3> QED
      BY <3>3, <3>4
  <2> QED
    BY <2>1, <2>2
<1> HIDE DEF m
<1>9. r \in AgentState /\ r.completed_tasks = m.completed_tasks /\ r.failed_tasks = m.failed_tasks
  <2>1. Bucket(o) \in AgentStatus
    BY <1>7 DEF AgentStatus
  <2> QED
    BY <1>8, <2>1 DEF AgentState
<1> QED
  BY <1>6, <1>8, <1>9 DEF C, F, p, q

(* TaskCompleted: the agent ends with exactly one count for the task, in   *)
(* the bucket of its latest outcome.                                       *)
LEMMA TaskCompletedOK ==
  ASSUME Projections, NEW a \in Agents, NEW at \in Times, NEW t \in TaskIds,
         NEW o \in Outcomes, TaskCompleted(a, at, t, o)
  PROVE  Projections'
<1> DEFINE k == <<a, t>>
           tk == TasksWithTask(tasks, k, at)
           ag == AgentsWithTask(Observe(agents, tasks, a, at), tasks, k)
           u == Reconcile(ag.entry[a], tk.entry[k].outcome, o)
           r == [u EXCEPT !.active_task = None]
           s == Completed(tk.entry[k], at, o)
<1>1. /\ TasksOK(tk) /\ k \in Keys(tk) /\ AgentsOK(ag) /\ a \in Keys(ag)
      /\ Counted(ag, tk) /\ tk.entry[k] \in GoodTask
  BY TaskRetained
<1>2. /\ tasks' = Advance(tk, k, at, s)
      /\ agents' = AdvanceOwner(ag, tk, k, at, r)
  BY DEF TaskCompleted
<1>3. k[1] = a
  OBVIOUS
<1> HIDE DEF tk, ag, k
<1>4. CASE Applies(tk, k, at)
  <2>1. tasks' = Update(tk, k, s) /\ agents' = Update(ag, k[1], r)
    BY <1>2, <1>4 DEF Advance, AdvanceOwner
  <2>2. s \in GoodTask /\ s.outcome = o
    BY <1>1, <1>4, CompletedOK DEF Applies
  <2>3. /\ u \in AgentState
        /\ u.completed_tasks = Cardinality(CountedTasks(tk, k[1], "completed") \ {k})
             + (IF Bucket(o) = "completed" THEN 1 ELSE 0)
        /\ u.failed_tasks = Cardinality(CountedTasks(tk, k[1], "failed") \ {k})
             + (IF Bucket(o) = "failed" THEN 1 ELSE 0)
    <3>1. k[1] \in Keys(ag) /\ u = Reconcile(ag.entry[k[1]], tk.entry[k].outcome, o)
      BY <1>1, <1>3
    <3> HIDE DEF u
    <3> QED
      BY <1>1, <3>1, ReconcileExact, SMTT(30)
  <2> HIDE DEF u, s
  <2>4. /\ r \in AgentState /\ r.completed_tasks = u.completed_tasks
        /\ r.failed_tasks = u.failed_tasks
    BY <2>3 DEF AgentState
  <2> HIDE DEF r
  <2>5. AgentsOK(agents') /\ TasksOK(tasks') /\ Counted(agents', tasks')
    BY <1>1, <1>3, <2>1, <2>2, <2>3, <2>4, OutcomeOK
  <2> QED
    BY <2>5 DEF TaskCompleted, Projections
<1>5. CASE ~Applies(tk, k, at)
  <2>1. tasks' = Touch(tk, k) /\ agents' = ag
    BY <1>2, <1>5 DEF Advance, AdvanceOwner
  <2>2. AgentsOK(agents') /\ TasksOK(tasks') /\ Counted(agents', tasks')
    BY <1>1, <2>1, TaskTouchOK
  <2> QED
    BY <2>2 DEF TaskCompleted, Projections
<1> QED
  BY <1>4, <1>5

-----------------------------------------------------------------------------
(* The theorems.                                                           *)

(* Every accepted event preserves the projections.                         *)
LEMMA ApplyKindOK ==
  ASSUME Projections, NEW a \in Agents, NEW at \in Times, NEW kind,
         ApplyKind(kind, a, at)
  PROVE  Projections'
BY AgentRegisteredOK, HeartbeatOK, GoalDeclaredOK, TaskCreatedOK, TaskStartedOK,
   ProgressUpdatedOK, ReflectionRecordedOK, LessonLearnedOK, ErrorObservedOK,
   TaskCompletedOK, AgentStatusChangedOK DEF ApplyKind

(* A new store satisfies the invariant.                                    *)
LEMMA InitOK == Init => StoreInv
<1> SUFFICES ASSUME Init PROVE StoreInv
  OBVIOUS
<1>1. /\ AgentCap \in Nat /\ GoalCap \in Nat /\ TaskCap \in Nat /\ LessonCap \in Nat
      /\ EventCap \in Nat /\ IdempotencyCap \in Nat
  BY CapacityAssumption
<1>2. Counted(EmptyCache, tasks)
  BY DEF Counted, EmptyCache, Keys
<1>3. Projections
  BY <1>1, <1>2, EmptyOK DEF Init, Projections, AgentsOK, TasksOK
<1>4. counters \in Counters
  BY DEF Init, NoCounts, Counters
<1> QED
  BY <1>1, <1>3, <1>4, EmptyOK DEF Init, StoreInv

(* Every critical section of the store preserves the invariant.            *)
LEMMA NextOK == StoreInv /\ [Next]_vars => StoreInv'
<1> SUFFICES ASSUME StoreInv, [Next]_vars PROVE StoreInv'
  OBVIOUS
<1>1. ASSUME NEW id \in EventIds, NEW tr \in Transports, Ingest(id, tr)
      PROVE  StoreInv'
  <2>1. Projections'
    BY <1>1, ApplyKindOK DEF Ingest, IngestNew, StoreInv
  <2>2. /\ EventCap \in Nat \ {0} /\ IdempotencyCap \in Nat \ {0}
        /\ CacheOK(events, EventIds, Nat, EventCap)
        /\ CacheOK(seen, EventIds, Nat, IdempotencyCap)
        /\ revision \in Nat /\ revision + 1 \in Nat /\ counters \in Counters
    BY CapacityAssumption DEF StoreInv
  <2>3. /\ revision' = revision + 1
        /\ counters' = [counters EXCEPT !.accepted = @ + 1, !.accepted_by[tr] = @ + 1]
        /\ seen' = Push(seen, id, revision + 1, IdempotencyCap)
        /\ events' = Push(events, id, revision + 1, EventCap)
    BY <1>1 DEF Ingest, IngestNew, Accept
  <2>4. CacheOK(events', EventIds, Nat, EventCap)
    BY <2>2, <2>3, PushOK
  <2>5. CacheOK(seen', EventIds, Nat, IdempotencyCap)
    BY <2>2, <2>3, PushOK
  <2>6. counters' \in Counters
    <3> DEFINE by == [counters.accepted_by EXCEPT ![tr] = counters.accepted_by[tr] + 1]
    <3>1. by \in [Transports -> Nat] /\ counters.accepted + 1 \in Nat
      BY <2>2 DEF Counters
    <3>2. counters' = [counters EXCEPT !.accepted = counters.accepted + 1, !.accepted_by = by]
      BY <2>2, <2>3 DEF Counters
    <3> HIDE DEF by
    <3> QED
      BY <2>2, <3>1, <3>2 DEF Counters
  <2> QED
    BY <2>1, <2>2, <2>3, <2>4, <2>5, <2>6 DEF StoreInv
<1>2. ASSUME NEW id \in EventIds, IngestDuplicate(id)
      PROVE  StoreInv'
  <2>1. CacheOK(seen', EventIds, Nat, IdempotencyCap)
    BY <1>2, TouchOK DEF IngestDuplicate, StoreInv
  <2>2. counters' \in Counters
    BY <1>2 DEF IngestDuplicate, StoreInv, Counters
  <2> QED
    BY <1>2, <2>1, <2>2 DEF IngestDuplicate, StoreInv, Projections
<1>3. ASSUME NEW tr \in Transports, RecordRejection(tr)
      PROVE  StoreInv'
  <2>1. counters' \in Counters
    <3> DEFINE by == [counters.rejected_by EXCEPT ![tr] = counters.rejected_by[tr] + 1]
    <3>1. /\ by \in [Transports -> Nat] /\ counters.rejected + 1 \in Nat
          /\ counters \in Counters
      BY DEF StoreInv, Counters
    <3>2. counters' = [counters EXCEPT !.rejected = counters.rejected + 1, !.rejected_by = by]
      BY <1>3 DEF RecordRejection, StoreInv, Counters
    <3> HIDE DEF by
    <3> QED
      BY <3>1, <3>2 DEF Counters
  <2> QED
    BY <1>3, <2>1 DEF RecordRejection, StoreInv, Projections
<1>4. CASE UNCHANGED vars
  BY <1>4 DEF vars, StoreInv, Projections
<1> QED
  BY <1>1, <1>2, <1>3, <1>4 DEF Next

(* The invariant holds of every run of the store.                          *)
THEOREM Invariance == Spec => []StoreInv
BY InitOK, NextOK, PTL DEF Spec

(* For every capacity and every set of inputs, the six projections of the  *)
(* store stay well-formed bounded caches of well-typed values, whatever    *)
(* ingest and record_rejection are given.                                  *)
THEOREM TypeCorrect == Spec => []TypeOK
<1>1. StoreInv => TypeOK
  <2> SUFFICES ASSUME StoreInv PROVE TypeOK
    OBVIOUS
  <2>1. CacheOK(tasks, TaskKeys, GoodTask, TaskCap)
    BY DEF StoreInv, Projections, TasksOK
  <2>2. CacheOK(tasks, TaskKeys, TaskState, TaskCap)
    BY <2>1 DEF CacheOK, GoodTask
  <2> QED
    BY <2>2 DEF StoreInv, Projections, AgentsOK, TypeOK
<1> QED
  BY <1>1, Invariance, PTL

(* However many agents and tasks there are and however small the caches,   *)
(* the completion counters of a retained agent equal the completed and     *)
(* failed tasks retained for it (ensure_agent, insert_task,                *)
(* remove_completion_counter, reconcile_completion_counters).              *)
THEOREM CountersCorrect == Spec => []CountersMatchTasks
<1>1. StoreInv => CountersMatchTasks
  BY DEF StoreInv, Projections, Counted, CountersMatchTasks
<1> QED
  BY <1>1, Invariance, PTL

(* Under every arrival order of task events, a retained task's status,     *)
(* outcome, completion time and progress agree (apply_event).              *)
THEOREM CompletionCorrect == Spec => []CompletionConsistent
<1>1. StoreInv => CompletionConsistent
  BY TaskEntries DEF StoreInv, Projections, GoodTask, CompletionConsistent
<1> QED
  BY <1>1, Invariance, PTL

(* Under every arrival order of task events, a retained task's timestamps  *)
(* stay in causal order (apply_event).                                     *)
THEOREM ClocksCorrect == Spec => []TaskClocksOrdered
<1>1. StoreInv => TaskClocksOrdered
  BY TaskEntries DEF StoreInv, Projections, GoodTask, TaskClocksOrdered
<1> QED
  BY <1>1, Invariance, PTL

-----------------------------------------------------------------------------
(* What relates a state of the store to earlier ones.                      *)

(* As long as no duplicate has refreshed an id, the window and the         *)
(* timeline list the accepted events in the same order.                    *)
SameOrder ==
  /\ Len(events.order) <= Len(seen.order)
  /\ \A i \in 1..Len(events.order) : events.order[i] = seen.order[i]

HistoryInv ==
  /\ EventsNewestFirst
  /\ \A id \in Keys(events) : events.entry[id] <= revision
  /\ counters.accepted = revision
  /\ Len(seen.order) + seen.evictions = revision
  /\ Len(events.order) + events.evictions <= revision
  /\ EventCap <= IdempotencyCap /\ counters.duplicate = 0 => SameOrder

FullInv == StoreInv /\ HistoryInv

-----------------------------------------------------------------------------
(* The recency order after a push.                                         *)

(* A pushed key that was not retained comes first, the others keep their   *)
(* places behind it, and what no longer fits is counted.                   *)
Prepends(c, d, k, cap) ==
  /\ Len(c.order) \in Nat /\ Len(d.order) \in Nat /\ Len(c.order) <= cap
  /\ Len(d.order) = IF Len(c.order) < cap THEN Len(c.order) + 1 ELSE cap
  /\ 1 \in 1..Len(d.order) /\ d.order[1] = k
  /\ \A j \in 1..Len(d.order) : j # 1 =>
       j - 1 \in 1..Len(c.order) /\ d.order[j] = c.order[j - 1]
  /\ d.evictions = IF Len(c.order) < cap THEN c.evictions ELSE c.evictions + 1

LEMMA PushNewOrder ==
  ASSUME NEW K, NEW V, NEW cap \in Nat \ {0}, NEW c, CacheOK(c, K, V, cap),
         NEW k, NEW v, k \notin Keys(c)
  PROVE  Prepends(c, Push(c, k, v, cap), k, cap)
<1> DEFINE s == c.order
           m == Len(s)
           n == IF m < cap THEN m + 1 ELSE cap
           d == Push(c, k, v, cap)
<1>1. m \in Nat /\ m <= cap /\ s \in Seq(K)
  BY DEF CacheOK
<1>2. /\ d.order = [j \in 1..n |-> IF j = 1 THEN k ELSE IF j <= m + 1 THEN s[j - 1] ELSE s[j]]
      /\ d.evictions = IF Displaced(c, k, cap) = {} THEN c.evictions ELSE c.evictions + 1
  BY DEF Push, ToFront
<1>3. d.evictions = IF m < cap THEN c.evictions ELSE c.evictions + 1
  BY <1>2 DEF Displaced
<1>4. n \in Nat /\ n >= 1 /\ n <= m + 1 /\ n <= cap
  BY <1>1
<1> HIDE DEF d
<1>5. Len(d.order) = n
  <2>1. d.order \in [1..n -> {d.order[j] : j \in 1..n}]
    BY <1>2
  <2> QED
    BY <1>4, <2>1, FunctionIsSeq
<1>6. \A j \in 1..n : d.order[j] = IF j = 1 THEN k ELSE s[j - 1]
  BY <1>1, <1>2, <1>4
<1>7. \A j \in 1..n : j # 1 => j - 1 \in 1..m
  BY <1>1, <1>4
<1>8. 1 \in 1..n
  BY <1>4
<1> HIDE DEF n
<1> QED
  BY <1>1, <1>3, <1>4, <1>5, <1>6, <1>7, <1>8 DEF d, n, Prepends

(* Behind its first key, the order of a cache after a push lists keys that *)
(* were retained before, in the order they had.                            *)
KeepsOrder(c, d, k, v) ==
  /\ k \in Keys(d) /\ d.entry[k] = v /\ 1 \in 1..Len(d.order) /\ d.order[1] = k
  /\ \A i, j \in 1..Len(d.order) : i < j =>
       /\ d.order[j] \in Keys(c) /\ d.order[j] # k
       /\ d.entry[d.order[j]] = c.entry[d.order[j]]
       /\ i # 1 => \E x, y \in 1..Len(c.order) :
            x < y /\ c.order[x] = d.order[i] /\ c.order[y] = d.order[j]

LEMMA PushKeepsOrder ==
  ASSUME NEW K, NEW V, NEW cap \in Nat \ {0}, NEW c, CacheOK(c, K, V, cap),
         NEW k \in K, NEW v \in V
  PROVE  KeepsOrder(c, Push(c, k, v, cap), k, v)
<1> DEFINE d == Push(c, k, v, cap)
           s == c.order
           m == Len(s)
<1>1. /\ m \in Nat /\ s \in Seq(K) /\ Keys(c) = {s[x] : x \in 1..m}
      /\ \A x, y \in 1..m : s[x] = s[y] => x = y
      /\ c.entry \in [Keys(c) -> V]
  BY DEF CacheOK
<1>2. CacheOK(d, K, V, cap)
  BY PushOK
<1>3. /\ Len(d.order) \in Nat /\ \A x, y \in 1..Len(d.order) : d.order[x] = d.order[y] => x = y
      /\ Keys(d) = {d.order[x] : x \in 1..Len(d.order)}
  BY <1>2 DEF CacheOK
<1>4. CASE k \in Keys(c)
  <2> DEFINE p == PositionOf(s, k)
  <2>1. p \in 1..m /\ s[p] = k
    BY <1>4, PositionOK
  <2>2. /\ d.order = [x \in 1..m |-> IF x = 1 THEN k ELSE IF x <= p THEN s[x - 1] ELSE s[x]]
        /\ d.entry = [c.entry EXCEPT ![k] = v]
    BY <1>4 DEF Push, Update, Touch, ToFront
  <2>3. Len(d.order) = m
    BY <1>4, UpdateOK, TouchOK DEF Push, Update
  <2> HIDE DEF d, p
  <2> DEFINE f(x) == IF x <= p THEN x - 1 ELSE x
  <2>4. ASSUME NEW x \in 1..m, x # 1
        PROVE  f(x) \in 1..m /\ f(x) # p /\ d.order[x] = s[f(x)] /\ d.order[x] # k
    <3>1. f(x) \in 1..m /\ f(x) # p
      BY <1>1, <2>1, <2>4
    <3>2. d.order[x] = s[f(x)]
      BY <2>2, <2>4
    <3> QED
      BY <1>1, <2>1, <3>1, <3>2
  <2>5. /\ 1 \in 1..Len(d.order) /\ d.order[1] = k /\ d.entry[k] = v /\ k \in Keys(d)
    BY <1>1, <1>4, <2>1, <2>2, <2>3 DEF Keys
  <2>6. ASSUME NEW i \in 1..Len(d.order), NEW j \in 1..Len(d.order), i < j
        PROVE  /\ d.order[j] \in Keys(c) /\ d.order[j] # k
               /\ d.entry[d.order[j]] = c.entry[d.order[j]]
               /\ i # 1 => \E x, y \in 1..m :
                    x < y /\ s[x] = d.order[i] /\ s[y] = d.order[j]
    <3>1. j \in 1..m /\ j # 1 /\ i \in 1..m
      BY <1>1, <2>3, <2>6
    <3>2. f(j) \in 1..m /\ d.order[j] = s[f(j)] /\ d.order[j] # k
      BY <2>4, <3>1
    <3>3. d.order[j] \in Keys(c)
      BY <1>1, <3>2
    <3>4. d.entry[d.order[j]] = c.entry[d.order[j]]
      BY <1>1, <2>2, <3>2, <3>3
    <3>5. ASSUME i # 1
          PROVE  \E x, y \in 1..m : x < y /\ s[x] = d.order[i] /\ s[y] = d.order[j]
      <4>1. f(i) \in 1..m /\ s[f(i)] = d.order[i] /\ f(i) # p
        BY <2>4, <3>1, <3>5
      <4>2. f(i) < f(j)
        BY <1>1, <2>1, <2>6, <3>1, <4>1
      <4> QED
        BY <3>2, <4>1, <4>2
    <3> QED
      BY <3>2, <3>3, <3>4, <3>5
  <2> QED
    BY <2>5, <2>6 DEF d, KeepsOrder
<1>5. CASE k \notin Keys(c)
  <2>1. Prepends(c, d, k, cap)
    BY <1>5, PushNewOrder
  <2>2. /\ d.entry[k] = v /\ Keys(d) = (Keys(c) \ Displaced(c, k, cap)) \cup {k}
        /\ \A x \in Keys(c) \ Displaced(c, k, cap) : d.entry[x] = c.entry[x]
    BY <1>5, PushNewEntries
  <2> HIDE DEF d
  <2>3. /\ 1 \in 1..Len(d.order) /\ d.order[1] = k
        /\ \A x \in 1..Len(d.order) : x # 1 => x - 1 \in 1..m /\ d.order[x] = s[x - 1]
    BY <2>1 DEF Prepends
  <2>4. ASSUME NEW i \in 1..Len(d.order), NEW j \in 1..Len(d.order), i < j
        PROVE  /\ d.order[j] \in Keys(c) /\ d.order[j] # k
               /\ d.entry[d.order[j]] = c.entry[d.order[j]]
               /\ i # 1 => \E x, y \in 1..m :
                    x < y /\ s[x] = d.order[i] /\ s[y] = d.order[j]
    <3>1. j # 1 /\ j - 1 \in 1..m /\ d.order[j] = s[j - 1]
      BY <1>3, <2>3, <2>4
    <3>2. d.order[j] \in Keys(c) /\ d.order[j] # k
      BY <1>1, <1>5, <3>1
    <3>3. d.entry[d.order[j]] = c.entry[d.order[j]]
      BY <1>3, <2>2, <3>2
    <3>4. ASSUME i # 1
          PROVE  \E x, y \in 1..m : x < y /\ s[x] = d.order[i] /\ s[y] = d.order[j]
      <4>1. i - 1 \in 1..m /\ s[i - 1] = d.order[i]
        BY <2>3, <3>4
      <4>2. i - 1 < j - 1
        BY <1>3, <2>4
      <4> QED
        BY <3>1, <4>1, <4>2
    <3> QED
      BY <3>2, <3>3, <3>4
  <2> QED
    BY <2>2, <2>3, <2>4 DEF d, KeepsOrder
<1> QED
  BY <1>4, <1>5

-----------------------------------------------------------------------------
(* The timeline and the window.                                            *)

(* The revision of an event that is accepted again, after its id has left  *)
(* the window, is the newest one too.                                      *)
LEMMA TimelineOK ==
  ASSUME FullInv, NEW id \in EventIds,
         events' = Push(events, id, revision + 1, EventCap), revision' = revision + 1
  PROVE  /\ EventsNewestFirst'
         /\ \A x \in Keys(events') : events'.entry[x] <= revision'
<1>1. /\ CacheOK(events, EventIds, Nat, EventCap) /\ EventCap \in Nat \ {0}
      /\ revision \in Nat /\ revision + 1 \in Nat
  BY CapacityAssumption DEF FullInv, StoreInv
<1>2. CacheOK(events', EventIds, Nat, EventCap)
  BY <1>1, PushOK
<1>3. /\ Len(events'.order) \in Nat
      /\ Keys(events') = {events'.order[i] : i \in 1..Len(events'.order)}
  BY <1>2 DEF CacheOK
<1>4. \A x \in Keys(events) : events.entry[x] <= revision /\ events.entry[x] \in Nat
  BY <1>1 DEF FullInv, HistoryInv, CacheOK
<1>k. KeepsOrder(events, events', id, revision + 1)
  BY <1>1, PushKeepsOrder
<1>5. ASSUME NEW i \in 1..Len(events'.order), NEW j \in 1..Len(events'.order), i < j
      PROVE  /\ events'.entry[events'.order[i]] > events'.entry[events'.order[j]]
             /\ events'.entry[events'.order[j]] <= revision'
             /\ events'.order[1] = id /\ events'.entry[id] = revision + 1
  <2>1. /\ events'.order[j] \in Keys(events) /\ events'.order[j] # id
        /\ events'.entry[events'.order[j]] = events.entry[events'.order[j]]
        /\ events'.order[1] = id /\ events'.entry[id] = revision + 1
        /\ i # 1 => \E x, y \in 1..Len(events.order) :
             x < y /\ events.order[x] = events'.order[i] /\ events.order[y] = events'.order[j]
    BY <1>5, <1>k DEF KeepsOrder
  <2>2. events'.entry[events'.order[j]] <= revision /\ events'.entry[events'.order[j]] \in Nat
    BY <1>4, <2>1
  <2>3. CASE i = 1
    BY <1>1, <2>1, <2>2, <2>3
  <2>4. CASE i # 1
    <3>1. PICK x \in 1..Len(events.order), y \in 1..Len(events.order) :
            x < y /\ events.order[x] = events'.order[i] /\ events.order[y] = events'.order[j]
      BY <2>1, <2>4
    <3>2. events.entry[events.order[x]] > events.entry[events.order[y]]
      BY <3>1 DEF FullInv, HistoryInv, EventsNewestFirst
    <3>3. 1 \in 1..Len(events'.order) /\ 1 < i
      BY <1>3, <2>4
    <3>4. events'.entry[events'.order[i]] = events.entry[events'.order[i]]
      BY <3>3, <1>k DEF KeepsOrder
    <3> QED
      BY <1>1, <2>1, <2>2, <3>1, <3>2, <3>4
  <2> QED
    BY <2>3, <2>4
<1>6. EventsNewestFirst'
  BY <1>5 DEF EventsNewestFirst
<1>7. ASSUME NEW x \in Keys(events')
      PROVE  events'.entry[x] <= revision'
  <2>1. CASE x = id
    <3>1. events'.entry[id] = revision + 1
      BY <1>k DEF KeepsOrder
    <3> QED
      BY <1>1, <2>1, <3>1
  <2>2. CASE x # id
    <3>1. PICK j \in 1..Len(events'.order) : events'.order[j] = x
      BY <1>3
    <3>2. j # 1
      BY <2>2, <3>1, <1>k DEF KeepsOrder
    <3>3. 1 \in 1..Len(events'.order) /\ 1 < j
      BY <1>3, <3>2
    <3> QED
      BY <1>5, <3>1, <3>3
  <2> QED
    BY <2>1, <2>2
<1> QED
  BY <1>6, <1>7

(* An accepted event takes one place in the window or evicts one.          *)
LEMMA WindowCounts ==
  ASSUME NEW K, NEW V, NEW cap \in Nat \ {0}, NEW c, CacheOK(c, K, V, cap),
         NEW k \in K, NEW v \in V
  PROVE  /\ Len(Push(c, k, v, cap).order) + Push(c, k, v, cap).evictions
              <= Len(c.order) + c.evictions + 1
         /\ k \notin Keys(c) =>
              Len(Push(c, k, v, cap).order) + Push(c, k, v, cap).evictions
                = Len(c.order) + c.evictions + 1
<1>1. Len(c.order) \in Nat /\ c.evictions \in Nat /\ Len(c.order) <= cap
  BY DEF CacheOK
<1>2. CASE k \in Keys(c)
  <2>1. Push(c, k, v, cap) = Update(c, k, v)
    BY <1>2 DEF Push
  <2>2. Push(c, k, v, cap).evictions = c.evictions
    BY <2>1 DEF Update
  <2>3. Push(c, k, v, cap).order = Touch(c, k).order
    BY <2>1 DEF Update
  <2>4. Len(Touch(c, k).order) = Len(c.order)
    BY <1>2, TouchOK
  <2> QED
    BY <1>1, <1>2, <2>2, <2>3, <2>4
<1>3. CASE k \notin Keys(c)
  <2>1. Prepends(c, Push(c, k, v, cap), k, cap)
    BY <1>3, PushNewOrder
  <2>2. CASE Len(c.order) < cap
    <3>1. /\ Len(Push(c, k, v, cap).order) = Len(c.order) + 1
          /\ Push(c, k, v, cap).evictions = c.evictions
      BY <2>1, <2>2 DEF Prepends
    <3> QED
      BY <1>1, <3>1
  <2>3. CASE ~(Len(c.order) < cap)
    <3>1. /\ Len(Push(c, k, v, cap).order) = cap
          /\ Push(c, k, v, cap).evictions = c.evictions + 1
      BY <2>1, <2>3 DEF Prepends
    <3>2. Len(c.order) = cap
      BY <1>1, <2>3
    <3> QED
      BY <1>1, <3>1, <3>2
  <2> QED
    BY <2>2, <2>3
<1> QED
  BY <1>2, <1>3

(* Until a duplicate refreshes an id, the window and the timeline receive  *)
(* the same ids in the same order.                                         *)
LEMMA SameOrderOK ==
  ASSUME FullInv, SameOrder, EventCap <= IdempotencyCap,
         NEW id \in EventIds, id \notin Keys(seen),
         seen' = Push(seen, id, revision + 1, IdempotencyCap),
         events' = Push(events, id, revision + 1, EventCap)
  PROVE  SameOrder'
<1>1. /\ CacheOK(events, EventIds, Nat, EventCap) /\ CacheOK(seen, EventIds, Nat, IdempotencyCap)
      /\ EventCap \in Nat \ {0} /\ IdempotencyCap \in Nat \ {0}
  BY CapacityAssumption DEF FullInv, StoreInv
<1>2. Len(events.order) \in Nat /\ Len(seen.order) \in Nat /\ Len(events.order) <= Len(seen.order)
  BY <1>1 DEF CacheOK, SameOrder
<1>3. id \notin Keys(events)
  <2> SUFFICES ASSUME id \in Keys(events) PROVE FALSE
    OBVIOUS
  <2>1. PICK i \in 1..Len(events.order) : events.order[i] = id
    BY <1>1 DEF CacheOK
  <2>2. i \in 1..Len(seen.order) /\ seen.order[i] = id
    BY <1>2, <2>1 DEF SameOrder
  <2> QED
    BY <1>1, <2>2 DEF CacheOK
<1>4. Prepends(events, events', id, EventCap)
  BY <1>1, <1>3, PushNewOrder
<1>5. Prepends(seen, seen', id, IdempotencyCap)
  BY <1>1, PushNewOrder
<1>6. \A j \in 1..Len(events'.order) : j # 1 =>
        j - 1 \in 1..Len(events.order) /\ events'.order[j] = events.order[j - 1]
  BY <1>4 DEF Prepends
<1>7. \A j \in 1..Len(seen'.order) : j # 1 =>
        j - 1 \in 1..Len(seen.order) /\ seen'.order[j] = seen.order[j - 1]
  BY <1>5 DEF Prepends
<1>8. Len(events'.order) <= Len(seen'.order)
  BY <1>1, <1>2, <1>4, <1>5 DEF Prepends
<1>9. Len(events'.order) \in Nat /\ Len(seen'.order) \in Nat
  BY <1>1, <1>2, <1>4, <1>5 DEF Prepends
<1>10. ASSUME NEW j \in 1..Len(events'.order)
       PROVE  events'.order[j] = seen'.order[j]
  <2>1. j \in 1..Len(seen'.order)
    BY <1>8, <1>9
  <2>2. CASE j = 1
    BY <1>4, <1>5, <2>2 DEF Prepends
  <2>3. CASE j # 1
    BY <1>6, <1>7, <2>1, <2>3 DEF SameOrder
  <2> QED
    BY <2>2, <2>3
<1> QED
  BY <1>8, <1>10 DEF SameOrder

LEMMA HistoryInit == Init => HistoryInv
<1> SUFFICES ASSUME Init PROVE HistoryInv
  OBVIOUS
<1>1. /\ Len(events.order) = 0 /\ Len(seen.order) = 0 /\ Keys(events) = {}
      /\ events.evictions = 0 /\ seen.evictions = 0
  BY DEF Init, EmptyCache, Keys
<1>2. revision = 0 /\ counters.accepted = 0
  BY DEF Init, NoCounts
<1>3. EventsNewestFirst /\ SameOrder
  BY <1>1 DEF EventsNewestFirst, SameOrder
<1> QED
  BY <1>1, <1>2, <1>3 DEF HistoryInv

LEMMA HistoryNext == FullInv /\ [Next]_vars => HistoryInv'
<1> SUFFICES ASSUME FullInv, [Next]_vars PROVE HistoryInv'
  OBVIOUS
<1>1. /\ StoreInv /\ HistoryInv /\ counters \in Counters /\ revision \in Nat
      /\ CacheOK(events, EventIds, Nat, EventCap)
      /\ CacheOK(seen, EventIds, Nat, IdempotencyCap)
      /\ EventCap \in Nat \ {0} /\ IdempotencyCap \in Nat \ {0}
  BY CapacityAssumption DEF FullInv, StoreInv
<1>2. ASSUME NEW id \in EventIds, NEW tr \in Transports, Ingest(id, tr)
      PROVE  HistoryInv'
  <2>1. /\ revision' = revision + 1 /\ revision + 1 \in Nat /\ id \notin Keys(seen)
        /\ counters' = [counters EXCEPT !.accepted = @ + 1, !.accepted_by[tr] = @ + 1]
        /\ seen' = Push(seen, id, revision + 1, IdempotencyCap)
        /\ events' = Push(events, id, revision + 1, EventCap)
    BY <1>1, <1>2 DEF Ingest, IngestNew, Accept
  <2>2. counters'.accepted = counters.accepted + 1 /\ counters'.duplicate = counters.duplicate
    BY <1>1, <2>1 DEF Counters
  <2>3. EventsNewestFirst' /\ \A x \in Keys(events') : events'.entry[x] <= revision'
    BY <2>1, TimelineOK
  <2>4. Len(seen'.order) + seen'.evictions = Len(seen.order) + seen.evictions + 1
    BY <1>1, <2>1, WindowCounts
  <2>5. Len(events'.order) + events'.evictions <= Len(events.order) + events.evictions + 1
    BY <1>1, <2>1, WindowCounts
  <2>6. EventCap <= IdempotencyCap /\ counters'.duplicate = 0 => SameOrder'
    BY <2>1, <2>2, SameOrderOK DEF FullInv, HistoryInv
  <2>7. Len(seen'.order) + seen'.evictions = revision' /\ counters'.accepted = revision'
    BY <1>1, <2>1, <2>2, <2>4 DEF HistoryInv
  <2>8. Len(events'.order) + events'.evictions <= revision'
    <3>1. Len(events.order) + events.evictions <= revision
      BY <1>1 DEF HistoryInv
    <3>2. /\ Len(events.order) \in Nat /\ events.evictions \in Nat
      BY <1>1 DEF CacheOK
    <3>3. CacheOK(events', EventIds, Nat, EventCap)
      BY <1>1, <2>1, PushOK
    <3>4. Len(events'.order) \in Nat /\ events'.evictions \in Nat
      BY <3>3 DEF CacheOK
    <3> QED
      BY <1>1, <2>1, <2>5, <3>1, <3>2, <3>4, SMTT(30)
  <2> QED
    BY <2>3, <2>6, <2>7, <2>8 DEF HistoryInv
<1>3. ASSUME NEW id \in EventIds, IngestDuplicate(id)
      PROVE  HistoryInv'
  <2>1. /\ seen' = Touch(seen, id) /\ id \in Keys(seen)
        /\ counters' = [counters EXCEPT !.duplicate = @ + 1]
        /\ UNCHANGED <<events, revision>>
    BY <1>3 DEF IngestDuplicate
  <2>2. seen'.evictions = seen.evictions /\ Len(seen'.order) = Len(seen.order)
    BY <1>1, <2>1, TouchOK
  <2>3. counters'.accepted = counters.accepted /\ counters'.duplicate # 0
    BY <1>1, <2>1 DEF Counters
  <2> QED
    BY <1>1, <2>1, <2>2, <2>3 DEF HistoryInv, EventsNewestFirst
<1>4. ASSUME NEW tr \in Transports, RecordRejection(tr)
      PROVE  HistoryInv'
  <2>1. /\ counters' = [counters EXCEPT !.rejected = @ + 1, !.rejected_by[tr] = @ + 1]
        /\ UNCHANGED <<events, seen, revision>>
    BY <1>4 DEF RecordRejection
  <2>2. counters'.accepted = counters.accepted /\ counters'.duplicate = counters.duplicate
    BY <1>1, <2>1 DEF Counters
  <2> QED
    BY <1>1, <2>1, <2>2 DEF HistoryInv, EventsNewestFirst, SameOrder
<1>5. CASE UNCHANGED vars
  BY <1>1, <1>5 DEF vars, HistoryInv, EventsNewestFirst, SameOrder
<1> QED
  BY <1>2, <1>3, <1>4, <1>5 DEF Next

(* The invariants hold together of every run of the store.                 *)
THEOREM HistoryInvariance == Spec => []FullInv
<1>1. Init => FullInv
  BY InitOK, HistoryInit DEF FullInv
<1>2. FullInv /\ [Next]_vars => FullInv'
  BY NextOK, HistoryNext DEF FullInv
<1> QED
  BY <1>1, <1>2, PTL DEF Spec

(* For every capacity of the window and of the timeline, and for ids       *)
(* replayed inside or outside the window, the timeline is in the order the *)
(* events were accepted in, newest first (ingest).                         *)
THEOREM TimelineInOrder == Spec => []EventsNewestFirst
<1>1. FullInv => EventsNewestFirst
  BY DEF FullInv, HistoryInv
<1> QED
  BY <1>1, HistoryInvariance, PTL

(* Every accepted event is in the window or counted as evicted from it,    *)
(* the timeline never claims more events than were accepted, and without   *)
(* duplicates a timeline no longer than the window is covered by it        *)
(* (ingest, push_with_eviction).                                           *)
THEOREM NothingLostUncounted == Spec => []EvictionAccounting
<1>1. FullInv => EvictionAccounting
  <2> SUFFICES ASSUME FullInv PROVE EvictionAccounting
    OBVIOUS
  <2>1. /\ CacheOK(events, EventIds, Nat, EventCap)
        /\ CacheOK(seen, EventIds, Nat, IdempotencyCap) /\ HistoryInv
    BY DEF FullInv, StoreInv
  <2>2. /\ Cardinality(Keys(events)) = Len(events.order)
        /\ Cardinality(Keys(seen)) = Len(seen.order)
    BY <2>1, KeysCounted
  <2>3. ASSUME SameOrder
        PROVE  Keys(events) \subseteq Keys(seen)
    <3>1. Len(events.order) \in Nat /\ Len(seen.order) \in Nat
      BY <2>1 DEF CacheOK
    <3>2. ASSUME NEW x \in Keys(events)
          PROVE  x \in Keys(seen)
      <4>1. PICK i \in 1..Len(events.order) : events.order[i] = x
        BY <2>1 DEF CacheOK
      <4>2. i \in 1..Len(seen.order) /\ seen.order[i] = x
        BY <2>3, <3>1, <4>1 DEF SameOrder
      <4> QED
        BY <2>1, <4>2 DEF CacheOK
    <3> QED
      BY <3>2
  <2> QED
    BY <2>1, <2>2, <2>3 DEF HistoryInv, EvictionAccounting
<1> QED
  BY <1>1, HistoryInvariance, PTL

-----------------------------------------------------------------------------
(* What an event may never do to a retained task.                          *)

(* The clock does not go back, nor does a definition; and a definition     *)
(* that reaches an inferred task leaves its execution alone.               *)
Onward(old, new) ==
  /\ new.updated_at >= old.updated_at
  /\ new.created_at <= old.created_at
  /\ ~old.inferred =>
       ~new.inferred /\ new.definition_updated_at >= old.definition_updated_at
Undisturbed(old, new) ==
  old.inferred /\ ~new.inferred =>
    /\ new.status = old.status /\ new.progress = old.progress
    /\ new.attempt = old.attempt /\ new.blocked = old.blocked
    /\ new.outcome = old.outcome /\ new.started_at = old.started_at
    /\ new.completed_at = old.completed_at
Evolves(old, new) == Onward(old, new) /\ Undisturbed(old, new)

(* Of the tasks both caches hold.                                          *)
TasksEvolve(tk, after) ==
  \A k \in Keys(tk) \cap Keys(after) : Evolves(tk.entry[k], after.entry[k])

LEMMA EvolvesSame ==
  ASSUME NEW s \in TaskState
  PROVE  Evolves(s, s)
BY TaskTimes DEF Evolves, Onward, Undisturbed

(* Writing execution fields at a time that is not older keeps the          *)
(* definition as it is.                                                    *)
LEMMA EvolvesWritten ==
  ASSUME NEW s \in TaskState, NEW d, d.updated_at >= s.updated_at,
         d.created_at = s.created_at, d.inferred = s.inferred,
         d.definition_updated_at = s.definition_updated_at
  PROVE  Evolves(s, d)
<1>1. Onward(s, d)
  <2>1. s.created_at \in Nat /\ s.definition_updated_at \in Nat
    BY TaskTimes
  <2>2. d.created_at <= s.created_at /\ d.definition_updated_at >= s.definition_updated_at
    BY <2>1
  <2>3. ~s.inferred => ~d.inferred
    OBVIOUS
  <2> QED
    BY <2>2, <2>3 DEF Onward
<1>2. Undisturbed(s, d)
  BY DEF Undisturbed
<1> QED
  BY <1>1, <1>2 DEF Evolves

LEMMA EvolvesRedefined ==
  ASSUME NEW s \in TaskState, NEW at \in Times, Authoritative(s, at)
  PROVE  Evolves(s, Redefined(s, at))
<1> DEFINE d == Redefined(s, at)
<1>1. /\ d.inferred = FALSE /\ d.definition_updated_at = at
      /\ d.created_at = Earlier(s.created_at, at)
      /\ d.updated_at = Later(s.updated_at, at)
      /\ d.status = s.status /\ d.progress = s.progress /\ d.attempt = s.attempt
      /\ d.blocked = s.blocked /\ d.outcome = s.outcome
      /\ d.started_at = s.started_at /\ d.completed_at = s.completed_at
  BY DEF Redefined, TaskState
<1> HIDE DEF d
<1>2. at \in Nat /\ s.created_at \in Nat /\ s.updated_at \in Nat
  BY TaskTimes, InputAssumption
<1>3. d.created_at <= s.created_at /\ d.updated_at >= s.updated_at
  BY <1>1, <1>2 DEF Earlier, Later
<1>4. ~s.inferred => at >= s.definition_updated_at
  BY DEF Authoritative
<1>5. Onward(s, d)
  BY <1>1, <1>3, <1>4 DEF Onward
<1>6. Undisturbed(s, d)
  BY <1>1 DEF Undisturbed
<1> QED
  BY <1>5, <1>6 DEF Evolves, d

LEMMA TouchEvolves ==
  ASSUME NEW tk, TasksOK(tk), NEW k
  PROVE  TasksEvolve(tk, Touch(tk, k))
<1>1. Touch(tk, k).entry = tk.entry
  BY DEF Touch
<1> QED
  BY <1>1, TaskEntries, EvolvesSame DEF TasksEvolve, Keys

LEMMA UpdateEvolves ==
  ASSUME NEW tk, TasksOK(tk), NEW k \in Keys(tk), NEW s, Evolves(tk.entry[k], s)
  PROVE  TasksEvolve(tk, Update(tk, k, s))
<1>1. Update(tk, k, s).entry = [tk.entry EXCEPT ![k] = s]
  BY DEF Update
<1>2. \A x \in Keys(tk) : Update(tk, k, s).entry[x] = IF x = k THEN s ELSE tk.entry[x]
  BY <1>1 DEF Keys
<1> QED
  BY <1>2, TaskEntries, EvolvesSame DEF TasksEvolve

LEMMA PushEvolves ==
  ASSUME NEW tk, TasksOK(tk), NEW k, k \notin Keys(tk), NEW s
  PROVE  TasksEvolve(tk, Push(tk, k, s, TaskCap))
<1>1. /\ Keys(Push(tk, k, s, TaskCap)) = (Keys(tk) \ Displaced(tk, k, TaskCap)) \cup {k}
      /\ \A x \in Keys(tk) \ Displaced(tk, k, TaskCap) :
           Push(tk, k, s, TaskCap).entry[x] = tk.entry[x]
  BY PushNewEntries
<1> QED
  BY <1>1, TaskEntries, EvolvesSame DEF TasksEvolve

(* ensure_task, then the guarded write: the task that is written was there *)
(* before with the same state, or is new.                                  *)
LEMMA AdvanceEvolves ==
  ASSUME Projections, NEW a \in Agents, NEW at \in Times, NEW t \in TaskIds, NEW s,
         LET tk == TasksWithTask(tasks, <<a, t>>, at)
         IN  Applies(tk, <<a, t>>, at) => Evolves(tk.entry[<<a, t>>], s)
  PROVE  LET tk == TasksWithTask(tasks, <<a, t>>, at)
         IN  TasksEvolve(tasks, Advance(tk, <<a, t>>, at, s))
<1> DEFINE k == <<a, t>>
           tk == TasksWithTask(tasks, k, at)
           d == Advance(tk, k, at, s)
<1>1. TasksOK(tasks) /\ TasksOK(tk) /\ k \in Keys(tk)
  BY TaskRetained DEF Projections
<1>2. TasksEvolve(tk, d)
  <2>1. CASE Applies(tk, k, at)
    BY <1>1, <2>1, UpdateEvolves DEF Advance
  <2>2. CASE ~Applies(tk, k, at)
    BY <1>1, <2>2, TouchEvolves DEF Advance
  <2> QED
    BY <2>1, <2>2
<1>3. CASE k \in Keys(tasks)
  <2>1. tk = tasks
    BY <1>3 DEF TasksWithTask
  <2> QED
    BY <1>2, <2>1
<1>4. CASE k \notin Keys(tasks)
  <2>1. tk = Push(tasks, k, NewTask(at, TRUE), TaskCap)
    BY <1>4 DEF TasksWithTask
  <2>2. \A x \in Keys(tasks) \cap Keys(tk) : tk.entry[x] = tasks.entry[x]
    <3> HIDE DEF k, tk
    <3>1. PICK new : new = NewTask(at, TRUE)
      OBVIOUS
    <3>2. tk = Push(tasks, k, new, TaskCap) /\ k \notin Keys(tasks)
      BY <1>4, <2>1, <3>1
    <3>3. Keys(tk) = (Keys(tasks) \ Displaced(tasks, k, TaskCap)) \cup {k}
      BY <3>2, PushNewEntries
    <3>4. \A x \in Keys(tasks) \ Displaced(tasks, k, TaskCap) : tk.entry[x] = tasks.entry[x]
      BY <3>2, PushNewEntries
    <3> QED
      BY <3>2, <3>3, <3>4
  <2>3. Keys(d) = Keys(tk)
    BY DEF Advance, Update, Touch, Keys
  <2> HIDE DEF d, tk, k
  <2> QED
    BY <1>2, <2>2, <2>3 DEF TasksEvolve, d, tk, k
<1> QED
  BY <1>3, <1>4

(* Whatever its kind, an accepted event lets every retained task evolve.   *)
LEMMA ApplyKindEvolves ==
  ASSUME Projections, NEW a \in Agents, NEW at \in Times, NEW kind, ApplyKind(kind, a, at)
  PROVE  TasksEvolve(tasks, tasks')
<1>1. TasksOK(tasks)
  BY DEF Projections
<1>2. ASSUME tasks' = tasks
      PROVE  TasksEvolve(tasks, tasks')
  BY <1>1, <1>2, TaskEntries, EvolvesSame DEF TasksEvolve
<1>3. ASSUME NEW t \in TaskIds
      PROVE  /\ TasksWithTask(tasks, <<a, t>>, at).entry[<<a, t>>] \in TaskState
             /\ <<a, t>> \in Keys(TasksWithTask(tasks, <<a, t>>, at))
  BY TaskRetained DEF GoodTask
<1>4. ASSUME NEW t \in TaskIds, TaskCreated(a, at, t)
      PROVE  TasksEvolve(tasks, tasks')
  <2> DEFINE k == <<a, t>>
  <2>1. \/ /\ k \in Keys(tasks) /\ Authoritative(tasks.entry[k], at)
           /\ tasks' = Update(tasks, k, Redefined(tasks.entry[k], at))
        \/ k \in Keys(tasks) /\ tasks' = Touch(tasks, k)
        \/ k \notin Keys(tasks) /\ tasks' = Push(tasks, k, NewTask(at, FALSE), TaskCap)
    BY <1>4 DEF TaskCreated
  <2> HIDE DEF k
  <2>2. CASE /\ k \in Keys(tasks) /\ Authoritative(tasks.entry[k], at)
             /\ tasks' = Update(tasks, k, Redefined(tasks.entry[k], at))
    <3>1. tasks.entry[k] \in TaskState
      BY <1>1, <2>2, TaskEntries
    <3>2. Evolves(tasks.entry[k], Redefined(tasks.entry[k], at))
      BY <2>2, <3>1, EvolvesRedefined
    <3> QED
      BY <1>1, <2>2, <3>2, UpdateEvolves
  <2>3. CASE k \in Keys(tasks) /\ tasks' = Touch(tasks, k)
    BY <1>1, <2>3, TouchEvolves
  <2>4. CASE k \notin Keys(tasks) /\ tasks' = Push(tasks, k, NewTask(at, FALSE), TaskCap)
    BY <1>1, <2>4, PushEvolves
  <2> QED
    BY <2>1, <2>2, <2>3, <2>4
<1>5. ASSUME NEW t \in TaskIds, NEW s,
             LET old == TasksWithTask(tasks, <<a, t>>, at).entry[<<a, t>>]
             IN  /\ s.updated_at = at /\ s.created_at = old.created_at
                 /\ s.inferred = old.inferred
                 /\ s.definition_updated_at = old.definition_updated_at,
             tasks' = Advance(TasksWithTask(tasks, <<a, t>>, at), <<a, t>>, at, s)
      PROVE  TasksEvolve(tasks, tasks')
  <2> DEFINE k == <<a, t>>
             tk == TasksWithTask(tasks, k, at)
  <2>1. tk.entry[k] \in TaskState
    BY <1>3
  <2>2. ASSUME Applies(tk, k, at)
        PROVE  Evolves(tk.entry[k], s)
    <3>1. s.updated_at >= tk.entry[k].updated_at
      BY <1>5, <2>2 DEF Applies
    <3>2. /\ s.created_at = tk.entry[k].created_at /\ s.inferred = tk.entry[k].inferred
          /\ s.definition_updated_at = tk.entry[k].definition_updated_at
      BY <1>5
    <3> HIDE DEF tk, k
    <3> QED
      BY <2>1, <3>1, <3>2, EvolvesWritten
  <2> QED
    BY <1>5, <2>2, AdvanceEvolves
<1>6. ASSUME NEW t \in TaskIds, NEW n \in Attempts, TaskStarted(a, at, t, n)
      PROVE  TasksEvolve(tasks, tasks')
  <2> DEFINE tk == TasksWithTask(tasks, <<a, t>>, at)
             s == Started(tk.entry[<<a, t>>], at, n)
  <2>1. tasks' = Advance(tk, <<a, t>>, at, s)
    BY <1>6 DEF TaskStarted
  <2>2. /\ s.updated_at = at /\ s.created_at = tk.entry[<<a, t>>].created_at
        /\ s.inferred = tk.entry[<<a, t>>].inferred
        /\ s.definition_updated_at = tk.entry[<<a, t>>].definition_updated_at
    BY <1>3 DEF Started, TaskState
  <2> HIDE DEF s
  <2> QED
    BY <1>5, <2>1, <2>2
<1>7. ASSUME NEW t \in TaskIds, NEW p \in Levels, NEW b \in BOOLEAN,
             ProgressUpdated(a, at, t, p, b)
      PROVE  TasksEvolve(tasks, tasks')
  <2> DEFINE tk == TasksWithTask(tasks, <<a, t>>, at)
             s == Progressed(tk.entry[<<a, t>>], at, p, b)
  <2>1. tasks' = Advance(tk, <<a, t>>, at, s)
    BY <1>7 DEF ProgressUpdated
  <2>2. /\ s.updated_at = at /\ s.created_at = tk.entry[<<a, t>>].created_at
        /\ s.inferred = tk.entry[<<a, t>>].inferred
        /\ s.definition_updated_at = tk.entry[<<a, t>>].definition_updated_at
    BY <1>3 DEF Progressed, TaskState
  <2> HIDE DEF s
  <2> QED
    BY <1>5, <2>1, <2>2
<1>8. ASSUME NEW t \in TaskIds \cup {None}, ReflectionRecorded(a, at, t)
      PROVE  TasksEvolve(tasks, tasks')
  <2>1. CASE t = None
    BY <1>2, <1>8, <2>1 DEF ReflectionRecorded
  <2>2. CASE t # None
    <3> DEFINE tk == TasksWithTask(tasks, <<a, t>>, at)
               s == [tk.entry[<<a, t>>] EXCEPT !.updated_at = at]
    <3>1. tasks' = Advance(tk, <<a, t>>, at, s) /\ t \in TaskIds
      BY <1>8, <2>2 DEF ReflectionRecorded
    <3>2. /\ s.updated_at = at /\ s.created_at = tk.entry[<<a, t>>].created_at
          /\ s.inferred = tk.entry[<<a, t>>].inferred
          /\ s.definition_updated_at = tk.entry[<<a, t>>].definition_updated_at
      BY <1>3, <3>1 DEF TaskState
    <3> HIDE DEF s
    <3> QED
      BY <1>5, <3>1, <3>2
  <2> QED
    BY <2>1, <2>2
<1>9. ASSUME NEW t \in TaskIds \cup {None}, ErrorObserved(a, at, t)
      PROVE  TasksEvolve(tasks, tasks')
  <2>1. CASE t = None
    BY <1>2, <1>9, <2>1 DEF ErrorObserved
  <2>2. CASE t # None
    <3> DEFINE tk == TasksWithTask(tasks, <<a, t>>, at)
               s == Errored(tk.entry[<<a, t>>], at)
    <3>1. tasks' = Advance(tk, <<a, t>>, at, s) /\ t \in TaskIds
      BY <1>9, <2>2 DEF ErrorObserved
    <3>2. /\ s.updated_at = at /\ s.created_at = tk.entry[<<a, t>>].created_at
          /\ s.inferred = tk.entry[<<a, t>>].inferred
          /\ s.definition_updated_at = tk.entry[<<a, t>>].definition_updated_at
      BY <1>3, <3>1 DEF Errored, TaskState
    <3> HIDE DEF s
    <3> QED
      BY <1>5, <3>1, <3>2
  <2> QED
    BY <2>1, <2>2
<1>10. ASSUME NEW t \in TaskIds, NEW o \in Outcomes, TaskCompleted(a, at, t, o)
       PROVE  TasksEvolve(tasks, tasks')
  <2> DEFINE tk == TasksWithTask(tasks, <<a, t>>, at)
             s == Completed(tk.entry[<<a, t>>], at, o)
  <2>1. tasks' = Advance(tk, <<a, t>>, at, s)
    BY <1>10 DEF TaskCompleted
  <2>2. /\ s.updated_at = at /\ s.created_at = tk.entry[<<a, t>>].created_at
        /\ s.inferred = tk.entry[<<a, t>>].inferred
        /\ s.definition_updated_at = tk.entry[<<a, t>>].definition_updated_at
    BY <1>3 DEF Completed, TaskState
  <2> HIDE DEF s
  <2> QED
    BY <1>5, <2>1, <2>2
<1>11. ASSUME \/ \E st : AgentRegistered(a, at, st)
              \/ \E st, t : Heartbeat(a, at, st, t)
              \/ \E g : GoalDeclared(a, at, g)
              \/ \E l : LessonLearned(a, at, l)
              \/ \E st : AgentStatusChanged(a, at, st)
       PROVE  TasksEvolve(tasks, tasks')
  BY <1>2, <1>11 DEF AgentRegistered, Heartbeat, GoalDeclared, LessonLearned,
                     AgentStatusChanged
<1> QED
  BY <1>4, <1>6, <1>7, <1>8, <1>9, <1>10, <1>11 DEF ApplyKind

LEMMA StepEvolves ==
  ASSUME StoreInv, [Next]_vars
  PROVE  TasksEvolve(tasks, tasks')
<1>1. Projections /\ TasksOK(tasks)
  BY DEF StoreInv, Projections
<1>2. ASSUME tasks' = tasks
      PROVE  TasksEvolve(tasks, tasks')
  BY <1>1, <1>2, TaskEntries, EvolvesSame DEF TasksEvolve
<1>3. ASSUME NEW id \in EventIds, NEW tr \in Transports, Ingest(id, tr)
      PROVE  TasksEvolve(tasks, tasks')
  BY <1>1, <1>3, ApplyKindEvolves DEF Ingest, IngestNew
<1>4. ASSUME \/ \E id \in EventIds : IngestDuplicate(id)
             \/ \E tr \in Transports : RecordRejection(tr)
             \/ UNCHANGED vars
      PROVE  tasks' = tasks
  BY <1>4 DEF IngestDuplicate, RecordRejection, vars
<1> QED
  BY <1>2, <1>3, <1>4 DEF Next

(* Under every arrival order, an event never turns a retained task's clock *)
(* back, and never replaces an authoritative definition by an earlier or   *)
(* an inferred one (apply_event).                                          *)
THEOREM NeverGoBack == Spec => TasksNeverGoBack
<1>1. StoreInv /\ [Next]_vars =>
        [\A k \in Keys(tasks) \cap Keys(tasks') :
           LET old == tasks.entry[k]
               new == tasks'.entry[k]
           IN  /\ new.updated_at >= old.updated_at
               /\ new.created_at <= old.created_at
               /\ ~old.inferred =>
                    ~new.inferred /\ new.definition_updated_at >= old.definition_updated_at]_vars
  BY StepEvolves DEF TasksEvolve, Evolves, Onward
<1> QED
  BY <1>1, Invariance, PTL DEF Spec, TasksNeverGoBack

(* A task definition that arrives after events of its own task adds to the *)
(* inferred task and leaves its status, progress, attempt, blocker,        *)
(* outcome and times as they were (apply_event).                           *)
THEOREM EnrichmentIsHarmless == Spec => EnrichmentKeepsExecution
<1>1. StoreInv /\ [Next]_vars =>
        [\A k \in Keys(tasks) \cap Keys(tasks') :
           LET old == tasks.entry[k]
               new == tasks'.entry[k]
           IN  old.inferred /\ ~new.inferred =>
                 \A f \in {"status", "progress", "attempt", "blocked", "outcome",
                           "started_at", "completed_at"} : new[f] = old[f]]_vars
  BY StepEvolves DEF TasksEvolve, Evolves, Undisturbed
<1> QED
  BY <1>1, Invariance, PTL DEF Spec, EnrichmentKeepsExecution
=============================================================================

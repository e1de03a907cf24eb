---------------------------- MODULE FleetProofs ----------------------------
(***************************************************************************)
(* Theorems about FleetRunner, for every set of jobs, every number of      *)
(* attempts, slots, shutdowns and crashes.                                 *)
(*                                                                         *)
(* The inductive invariant says, of every job, how far its files have come *)
(* when its coroutine waits at a given place (JobInv), and that there are  *)
(* never more coroutines than slots.                                       *)
(***************************************************************************)
EXTENDS FleetRunner, FiniteSetTheorems, TLAPS

Setup == {"discover", "prepare", "bootstrap"}
WithProvider == {"prompt", "wait", "halt", "expire"}
Launched == {"spawn", "prompt", "wait", "halt", "expire", "verify"}

(* A running job has a valid queue file.  While it is on its way its state *)
(* is not terminal, and at "archive" it is; before the launch the attempt  *)
(* is one more than the recorded one, from the launch on it is recorded.   *)
(* A provider belongs to a coroutine that waits for it, or is a stray of   *)
(* an attempt before the one a coroutine is at; of the recorded attempt    *)
(* there is a stray only until the supervisor records its end.             *)
JobInv(j) ==
  /\ task[j].pc # "idle" => up /\ j \in queue /\ j \notin Malformed
  /\ task[j].pc \notin {"idle", "archive"} => state[j].status \notin TERMINAL_STATES
  /\ task[j].pc = "archive" => state[j].status \in TERMINAL_STATES
  /\ task[j].pc \in Setup =>
       task[j].attempt = state[j].attempt + 1 /\ task[j].attempt <= MaxAttempts
  /\ task[j].pc \in Launched => task[j].attempt = state[j].attempt
  /\ task[j].pc = "spawn" => launches[j] < state[j].attempt /\ state[j].status = "starting"
  /\ launches[j] <= state[j].attempt
  /\ state[j].attempt <= MaxAttempts
  /\ child[j] # "none" => task[j].pc \in WithProvider /\ state[j].status = "running"
  /\ \A n \in stray[j] :
       /\ up /\ n <= state[j].attempt
       /\ n = state[j].attempt => /\ state[j].status \in {"starting", "running", "partial"}
                                 /\ task[j].pc \notin Launched
  /\ enqueues[j] > 0 /\ j \notin queue =>
       IF j \in Malformed THEN archive[j] = "invalid"
       ELSE archive[j] \in TERMINAL_STATES /\ archive[j] = state[j].status

SlotsKept == Cardinality(Running) <= MaxConcurrency

Inv == TypeOK /\ (\A j \in Jobs : JobInv(j)) /\ SlotsKept

-----------------------------------------------------------------------------
(* Admission.                                                              *)

LEMMA RunningFinite == IsFiniteSet(Running) /\ Cardinality(Running) \in Nat
<1>1. Running \in SUBSET Jobs
  BY DEF Running
<1> QED
  BY <1>1, FS_Subset, FS_CardinalityType, JobAssumption

(* A step that starts no coroutine keeps the slots.                        *)
LEMMA NoNewTask ==
  ASSUME SlotsKept, Running' \subseteq Running
  PROVE  SlotsKept'
<1>1. Running' \in SUBSET Running
  OBVIOUS
<1>2. Cardinality(Running') <= Cardinality(Running) /\ IsFiniteSet(Running')
  BY <1>1, RunningFinite, FS_Subset
<1>3. Cardinality(Running') \in Nat
  BY <1>2, FS_CardinalityType
<1> QED
  BY <1>2, <1>3, RunningFinite, LimitAssumption DEF SlotsKept

(* `run` admits no more jobs than there are free slots: an admitted job    *)
(* stands at its own place among the ready ones, below the free slots.     *)
LEMMA AdmittedFit ==
  ASSUME TypeOK, SlotsKept
  PROVE  /\ IsFiniteSet(Admitted)
         /\ Cardinality(Running) + Cardinality(Admitted) <= MaxConcurrency
<1> DEFINE Ahead(j) == {k \in Ready : Rank[k] < Rank[j]}
<1> DEFINE room == MaxConcurrency - Cardinality(Running)
<1> DEFINE place == [j \in Admitted |-> Cardinality(Ahead(j))]
<1> USE JobAssumption, LimitAssumption
<1>1. Ready \subseteq Jobs
  BY DEF Ready, Waiting, TypeOK
<1>2. IsFiniteSet(Ready)
  BY <1>1, FS_Subset
<1>3. Admitted \subseteq Ready
  BY DEF Admitted
<1>4. room \in Nat
  BY RunningFinite DEF SlotsKept
<1>5. \A j \in Ready : IsFiniteSet(Ahead(j)) /\ Cardinality(Ahead(j)) \in Nat
  <2> TAKE j \in Ready
  <2>1. Ahead(j) \subseteq Ready
    OBVIOUS
  <2> QED
    BY <2>1, <1>2, FS_Subset, FS_CardinalityType
<1>6. \A j, k \in Ready : Rank[j] < Rank[k] => Cardinality(Ahead(j)) < Cardinality(Ahead(k))
  <2> TAKE j, k \in Ready
  <2> HAVE Rank[j] < Rank[k]
  <2>1. Ahead(j) \cup {j} \subseteq Ahead(k)
    BY <1>1
  <2>2. j \notin Ahead(j)
    BY <1>1
  <2>3. /\ IsFiniteSet(Ahead(j) \cup {j})
        /\ Cardinality(Ahead(j) \cup {j}) = Cardinality(Ahead(j)) + 1
    BY <2>2, <1>5, FS_AddElement
  <2>4. Cardinality(Ahead(j) \cup {j}) <= Cardinality(Ahead(k))
    BY <2>1, <1>5, FS_Subset
  <2> HIDE DEF Ahead
  <2> QED
    BY <2>3, <2>4, <1>5
<1>7. place \in Injection(Admitted, 0 .. (room - 1))
  <2>1. \A j \in Admitted : Cardinality(Ahead(j)) \in 0 .. (room - 1)
    <3>1. \A j \in Admitted : Cardinality(Running) + Cardinality(Ahead(j)) < MaxConcurrency
      BY DEF Admitted
    <3> HIDE DEF Ahead
    <3> QED
      BY <1>3, <1>5, <3>1, RunningFinite
  <2>2. \A j, k \in Admitted : Cardinality(Ahead(j)) = Cardinality(Ahead(k)) => j = k
    <3> HIDE DEF Ahead
    <3> QED
      BY <1>1, <1>3, <1>5, <1>6
  <2> HIDE DEF Ahead
  <2>3. place \in [Admitted -> 0 .. (room - 1)]
    BY <2>1
  <2> QED
    BY <2>2, <2>3 DEF Injection, IsInjective
<1>8. IsFiniteSet(0 .. (room - 1)) /\ Cardinality(0 .. (room - 1)) = room
  <2> HIDE DEF room
  <2> QED
    BY <1>4, FS_Interval
<1>9. IsFiniteSet(Admitted)
  BY <1>2, <1>3, FS_Subset
<1>10. Cardinality(Admitted) <= room
  <2> HIDE DEF place, room
  <2> QED
    BY <1>7, <1>8, FS_Injection
<1> QED
  BY <1>9, <1>10, FS_CardinalityType, RunningFinite

-----------------------------------------------------------------------------
(* The invariant is inductive.                                             *)

LEMMA InitInv == Init => Inv
<1> SUFFICES ASSUME Init PROVE Inv
  OBVIOUS
<1> USE DEF Init, NoTask
<1>1. TypeOK
  BY DEF TypeOK, StatusValues, Places
<1>2. \A j \in Jobs : JobInv(j)
  BY LimitAssumption DEF JobInv, Setup, WithProvider, Launched, TERMINAL_STATES
<1>3. SlotsKept
  <2>1. Running = {}
    BY DEF Running
  <2> QED
    BY <2>1, FS_EmptySet, LimitAssumption DEF SlotsKept
<1> QED
  BY <1>1, <1>2, <1>3 DEF Inv

(* What a step of one coroutine does: the record it leaves in self.running *)
(* and, when it saves the state, the file; other jobs keep theirs.         *)
TaskType == [pc : Places, attempt : Nat, resumed : BOOLEAN]
StateType == [status : StatusValues, attempt : Nat]

MovedTo(j, place) ==
  /\ task' \in [Jobs -> TaskType]
  /\ task'[j].pc = place
  /\ place # "idle" => task'[j].attempt = task[j].attempt
  /\ \A k \in Jobs \ {j} : task'[k] = task[k]

Recorded(j, status, attempt) ==
  /\ state' \in [Jobs -> StateType]
  /\ state'[j].status = status /\ state'[j].attempt = attempt
  /\ \A k \in Jobs \ {j} : state'[k] = state[k]

OthersKept(j) ==
  \A k \in Jobs \ {j} :
    /\ task'[k] = task[k] /\ state'[k] = state[k] /\ child'[k] = child[k]
    /\ stray'[k] = stray[k] /\ launches'[k] = launches[k]
    /\ enqueues'[k] = enqueues[k] /\ archive'[k] = archive[k] /\ (k \in queue' <=> k \in queue)

LEMMA GotoEffect ==
  ASSUME TypeOK, NEW j \in Jobs, NEW place \in Places \ {"idle"}, Goto(j, place)
  PROVE  MovedTo(j, place)
<1>1. task' = [task EXCEPT ![j] = [task[j] EXCEPT !.pc = place]]
  BY DEF Goto
<1>2. task[j] \in TaskType
  BY DEF TypeOK, TaskType
<1>3. /\ [task[j] EXCEPT !.pc = place] \in TaskType
      /\ [task[j] EXCEPT !.pc = place].pc = place
      /\ [task[j] EXCEPT !.pc = place].attempt = task[j].attempt
  BY <1>2 DEF TaskType
<1> QED
  BY <1>1, <1>3 DEF TypeOK, MovedTo, TaskType

LEMMA LeaveEffect ==
  ASSUME TypeOK, NEW j \in Jobs, Leave(j)
  PROVE  MovedTo(j, "idle")
BY DEF TypeOK, Leave, NoTask, Places, MovedTo, TaskType

LEMMA SaveEffect ==
  ASSUME TypeOK, NEW j \in Jobs, NEW status \in StatusValues, NEW attempt \in Nat,
         Save(j, status, attempt)
  PROVE  Recorded(j, status, attempt)
BY DEF TypeOK, Save, Recorded, StateType

(* It is enough to look at the job whose step it is.                       *)
LEMMA StepOfOne ==
  ASSUME Inv, NEW j \in Jobs, TypeOK', up' = up, OthersKept(j), JobInv(j)',
         task[j].pc = "idle" => task'[j].pc = "idle"
  PROVE  Inv'
<1>1. ASSUME NEW k \in Jobs \ {j} PROVE JobInv(k)'
  <2>1. JobInv(k)
    BY <1>1 DEF Inv
  <2> QED
    BY <1>1, <2>1 DEF OthersKept, JobInv
<1>2. Running' \subseteq Running
  BY DEF Running, OthersKept
<1> QED
  BY <1>1, <1>2, NoNewTask DEF Inv

-----------------------------------------------------------------------------
(* The two ends of run_one that save a state.                              *)

(* Neither end leaves a provider behind or touches the queue.              *)
Ends(j) ==
  /\ task[j].pc \notin {"idle", "archive"}
  /\ child' \in [Jobs -> {"none", "live"} \cup Exits]
  /\ child'[j] = "none" /\ \A k \in Jobs \ {j} : child'[k] = child[k]
  /\ blocked' \subseteq Providers
  /\ UNCHANGED <<queue, archive, worktree, up, stopping, stray, launches, enqueues, faults>>

LEMMA RetryInv ==
  ASSUME Inv, NEW j \in Jobs, NEW attempt \in Nat,
         NEW status \in StatusValues \ TERMINAL_STATES,
         Ends(j), Retry(j, status, attempt),
         launches[j] <= attempt, attempt <= MaxAttempts,
         \A n \in stray[j] : n <= attempt /\ n # attempt
  PROVE  Inv'
<1>1. MovedTo(j, "idle")
  BY LeaveEffect DEF Inv, Retry
<1>2. Recorded(j, status, attempt)
  BY SaveEffect DEF Inv, Retry
<1>3. TypeOK'
  BY <1>1, <1>2 DEF Inv, TypeOK, MovedTo, Recorded, Ends, TaskType, StateType
<1>4. JobInv(j)'
  <2>1. JobInv(j) /\ j \in queue /\ up
    BY DEF Inv, JobInv, Ends
  <2>2. \A n \in stray'[j] : n \in Nat /\ n < attempt
    BY DEF Inv, TypeOK, Ends
  <2> QED
    BY <1>1, <1>2, <2>1, <2>2 DEF JobInv, MovedTo, Recorded, Ends, Setup, WithProvider, Launched
<1>5. OthersKept(j)
  BY <1>1, <1>2 DEF OthersKept, MovedTo, Recorded, Ends
<1> QED
  BY <1>3, <1>4, <1>5, StepOfOne DEF Ends

LEMMA ConcludeInv ==
  ASSUME Inv, NEW j \in Jobs, NEW attempt \in Nat, NEW status \in TERMINAL_STATES,
         Ends(j), Conclude(j, status, attempt),
         launches[j] <= attempt, attempt <= MaxAttempts,
         \A n \in stray[j] : n <= attempt /\ (n = attempt => status = "partial")
  PROVE  Inv'
<1>1. MovedTo(j, "archive")
  BY GotoEffect DEF Inv, Conclude, Places
<1>2. Recorded(j, status, attempt)
  BY SaveEffect DEF Inv, Conclude, StatusValues
<1>3. TypeOK'
  BY <1>1, <1>2 DEF Inv, TypeOK, MovedTo, Recorded, Ends, TaskType, StateType
<1>4. JobInv(j)'
  <2>1. JobInv(j) /\ j \in queue /\ j \notin Malformed /\ up
    BY DEF Inv, JobInv, Ends
  <2> QED
    BY <1>1, <1>2, <2>1 DEF JobInv, MovedTo, Recorded, Ends, Setup, WithProvider, Launched
<1>5. OthersKept(j)
  BY <1>1, <1>2 DEF OthersKept, MovedTo, Recorded, Ends
<1> QED
  BY <1>3, <1>4, <1>5, StepOfOne DEF Ends

-----------------------------------------------------------------------------
(* One lemma per action.                                                   *)

LEMMA EnqueueInv ==
  ASSUME Inv, NEW j \in Jobs, Enqueue(j)
  PROVE  Inv'
<1> USE DEF Enqueue
<1>1. TypeOK'
  BY DEF Inv, TypeOK
<1>2. JobInv(j) => JobInv(j)'
  BY DEF Inv, TypeOK, JobInv
<1>3. OthersKept(j)
  BY DEF Inv, TypeOK, OthersKept
<1> QED
  BY <1>1, <1>2, <1>3, StepOfOne DEF Inv

LEMMA BeginInv ==
  ASSUME Inv, NEW j \in Jobs, Begin(j)
  PROVE  Inv'
<1> DEFINE attempt == state[j].attempt + 1
<1>1. JobInv(j) /\ state[j].attempt \in Nat /\ MaxAttempts \in Nat
  BY LimitAssumption DEF Inv, TypeOK
<1>2. CASE Exhausted(attempt)
  <2>1. Conclude(j, "partial", state[j].attempt)
    BY <1>2 DEF Begin
  <2>2. Ends(j)
    BY <1>1 DEF Begin, At, Ends, Inv, TypeOK, JobInv, WithProvider, history
  <2> QED
    BY <1>1, <2>1, <2>2, ConcludeInv DEF JobInv, TERMINAL_STATES
<1>3. CASE ~Exhausted(attempt)
  <2> DEFINE locals == [pc |-> "discover", attempt |-> attempt,
                        resumed |-> state[j].status = "paused" \/ attempt > 1]
  <2>1. task' = [task EXCEPT ![j] = locals] /\ UNCHANGED state
    BY <1>3 DEF Begin
  <2>2. locals \in TaskType
    BY <1>1 DEF TaskType, Places
  <2>3. locals.pc = "discover" /\ locals.attempt = attempt
    OBVIOUS
  <2> HIDE DEF locals
  <2>4. TypeOK'
    BY <2>1, <2>2 DEF Begin, Inv, TypeOK, TaskType, history
  <2>5. JobInv(j)'
    BY <1>1, <1>3, <2>1, <2>3 DEF Begin, At, Exhausted, Inv, TypeOK, JobInv, Setup,
       WithProvider, Launched, history
  <2>6. OthersKept(j)
    BY <2>1 DEF Begin, Inv, TypeOK, OthersKept, history
  <2>7. up' = up /\ task[j].pc # "idle"
    BY DEF Begin, At
  <2> QED
    BY <2>4, <2>5, <2>6, <2>7, StepOfOne
<1> QED
  BY <1>2, <1>3

LEMMA DiscoverInv ==
  ASSUME Inv, NEW j \in Jobs, Discover(j)
  PROVE  Inv'
<1> USE DEF Discover, At, durable, history
<1>1. MovedTo(j, "prepare")
  BY GotoEffect DEF Inv, Places
<1>2. TypeOK'
  BY <1>1 DEF Inv, TypeOK, MovedTo, TaskType
<1>3. JobInv(j) => JobInv(j)'
  BY <1>1 DEF Inv, TypeOK, JobInv, MovedTo, Setup, WithProvider, Launched, Exits, TERMINAL_STATES
<1>4. OthersKept(j)
  BY <1>1 DEF Inv, TypeOK, OthersKept, MovedTo
<1> QED
  BY <1>2, <1>3, <1>4, StepOfOne DEF Inv

LEMMA DiscoveryFailsInv ==
  ASSUME Inv, NEW j \in Jobs, NEW r \in BOOLEAN, DiscoveryFails(j, r)
  PROVE  Inv'
<1>1. /\ task[j].attempt \in Nat /\ task[j].attempt <= MaxAttempts
      /\ launches[j] <= task[j].attempt
      /\ \A m \in stray[j] : m <= task[j].attempt /\ m # task[j].attempt
  BY LimitAssumption DEF Inv, TypeOK, JobInv, DiscoveryFails, At, Setup
<1>2. Ends(j)
  BY DEF DiscoveryFails, At, Ends, Inv, TypeOK, JobInv, WithProvider, history
<1>3. CASE r
  BY <1>1, <1>2, <1>3, RetryInv DEF DiscoveryFails, StatusValues, TERMINAL_STATES
<1>4. CASE ~r
  BY <1>1, <1>2, <1>4, ConcludeInv DEF DiscoveryFails, TERMINAL_STATES
<1> QED
  BY <1>3, <1>4

LEMMA ConfigurationFailsInv ==
  ASSUME Inv, NEW j \in Jobs, ConfigurationFails(j)
  PROVE  Inv'
<1>1. /\ task[j].attempt \in Nat /\ task[j].attempt <= MaxAttempts
      /\ launches[j] <= task[j].attempt
      /\ \A m \in stray[j] : m <= task[j].attempt /\ m # task[j].attempt
  BY LimitAssumption DEF Inv, TypeOK, JobInv, ConfigurationFails, At, Setup
<1>2. Ends(j)
  BY DEF ConfigurationFails, At, Ends, Inv, TypeOK, JobInv, WithProvider, history
<1> QED
  BY <1>1, <1>2, RetryInv DEF ConfigurationFails, StatusValues, TERMINAL_STATES

LEMMA CloneInv ==
  ASSUME Inv, NEW j \in Jobs, Clone(j)
  PROVE  Inv'
<1> USE DEF Clone, history
<1>1. TypeOK'
  BY DEF Inv, TypeOK
<1>2. JobInv(j) => JobInv(j)'
  BY DEF JobInv
<1>3. OthersKept(j)
  BY DEF OthersKept
<1> QED
  BY <1>1, <1>2, <1>3, StepOfOne DEF Inv

LEMMA CheckoutInv ==
  ASSUME Inv, NEW j \in Jobs, Checkout(j)
  PROVE  Inv'
<1> USE DEF Checkout, At, durable, history
<1>1. MovedTo(j, "bootstrap")
  BY GotoEffect DEF Inv, Places
<1>2. TypeOK'
  BY <1>1 DEF Inv, TypeOK, MovedTo, TaskType
<1>3. JobInv(j) => JobInv(j)'
  BY <1>1 DEF Inv, TypeOK, JobInv, MovedTo, Setup, WithProvider, Launched, Exits, TERMINAL_STATES
<1>4. OthersKept(j)
  BY <1>1 DEF Inv, TypeOK, OthersKept, MovedTo
<1> QED
  BY <1>2, <1>3, <1>4, StepOfOne DEF Inv

LEMMA BootstrapInv ==
  ASSUME Inv, NEW j \in Jobs, Bootstrap(j)
  PROVE  Inv'
<1> USE DEF Bootstrap, At, history
<1>1. MovedTo(j, "spawn")
  BY GotoEffect DEF Inv, Places
<1>2. Recorded(j, "starting", task[j].attempt)
  BY SaveEffect DEF Inv, TypeOK, StatusValues
<1>3. TypeOK'
  BY <1>1, <1>2 DEF Inv, TypeOK, MovedTo, Recorded, TaskType, StateType
<1>4. JobInv(j) => JobInv(j)'
  BY <1>1, <1>2 DEF Inv, TypeOK, JobInv, MovedTo, Recorded, Setup, WithProvider, Launched,
     TERMINAL_STATES
<1>5. OthersKept(j)
  BY <1>1, <1>2 DEF OthersKept, MovedTo, Recorded
<1> QED
  BY <1>3, <1>4, <1>5, StepOfOne DEF Inv

LEMMA SpawnInv ==
  ASSUME Inv, NEW j \in Jobs, Spawn(j)
  PROVE  Inv'
<1> USE DEF Spawn, At
<1>1. MovedTo(j, "prompt")
  BY GotoEffect DEF Inv, Places
<1>2. Recorded(j, "running", task[j].attempt)
  BY SaveEffect DEF Inv, TypeOK, StatusValues
<1>3. TypeOK'
  <2>1. launches' \in [Jobs -> Nat] /\ child' \in [Jobs -> {"none", "live"} \cup Exits]
    BY DEF Inv, TypeOK
  <2> QED
    BY <1>1, <1>2, <2>1 DEF Inv, TypeOK, MovedTo, Recorded, TaskType, StateType
<1>4. JobInv(j) => JobInv(j)'
  BY <1>1, <1>2 DEF Inv, TypeOK, JobInv, MovedTo, Recorded, Setup, WithProvider, Launched,
     TERMINAL_STATES
<1>5. OthersKept(j)
  BY <1>1, <1>2 DEF Inv, TypeOK, OthersKept, MovedTo, Recorded
<1> QED
  BY <1>3, <1>4, <1>5, StepOfOne DEF Inv

LEMMA ProviderExitsInv ==
  ASSUME Inv, NEW j \in Jobs, NEW e \in Exits, ProviderExits(j, e)
  PROVE  Inv'
<1> USE DEF ProviderExits, durable, history
<1>1. TypeOK'
  BY DEF Inv, TypeOK
<1>2. JobInv(j) => JobInv(j)'
  BY DEF Inv, TypeOK, JobInv
<1>3. OthersKept(j)
  BY DEF Inv, TypeOK, OthersKept
<1> QED
  BY <1>1, <1>2, <1>3, StepOfOne DEF Inv

LEMMA SendPromptInv ==
  ASSUME Inv, NEW j \in Jobs, SendPrompt(j)
  PROVE  Inv'
<1> USE DEF SendPrompt, At, durable, history
<1>1. MovedTo(j, "wait")
  BY GotoEffect DEF Inv, Places
<1>2. TypeOK'
  BY <1>1 DEF Inv, TypeOK, MovedTo, TaskType
<1>3. JobInv(j) => JobInv(j)'
  BY <1>1 DEF Inv, TypeOK, JobInv, MovedTo, Setup, WithProvider, Launched, Exits, TERMINAL_STATES
<1>4. OthersKept(j)
  BY <1>1 DEF Inv, TypeOK, OthersKept, MovedTo
<1> QED
  BY <1>2, <1>3, <1>4, StepOfOne DEF Inv

LEMMA StopSeenInv ==
  ASSUME Inv, NEW j \in Jobs, StopSeen(j)
  PROVE  Inv'
<1> USE DEF StopSeen, At, durable, history
<1>1. MovedTo(j, "halt")
  BY GotoEffect DEF Inv, Places
<1>2. TypeOK'
  BY <1>1 DEF Inv, TypeOK, MovedTo, TaskType
<1>3. JobInv(j) => JobInv(j)'
  BY <1>1 DEF Inv, TypeOK, JobInv, MovedTo, Setup, WithProvider, Launched, Exits, TERMINAL_STATES
<1>4. OthersKept(j)
  BY <1>1 DEF Inv, TypeOK, OthersKept, MovedTo
<1> QED
  BY <1>2, <1>3, <1>4, StepOfOne DEF Inv

LEMMA TimesOutInv ==
  ASSUME Inv, NEW j \in Jobs, TimesOut(j)
  PROVE  Inv'
<1> USE DEF TimesOut, At, durable, history
<1>1. MovedTo(j, "expire")
  BY GotoEffect DEF Inv, Places
<1>2. TypeOK'
  BY <1>1 DEF Inv, TypeOK, MovedTo, TaskType
<1>3. JobInv(j) => JobInv(j)'
  BY <1>1 DEF Inv, TypeOK, JobInv, MovedTo, Setup, WithProvider, Launched, Exits, TERMINAL_STATES
<1>4. OthersKept(j)
  BY <1>1 DEF Inv, TypeOK, OthersKept, MovedTo
<1> QED
  BY <1>2, <1>3, <1>4, StepOfOne DEF Inv

LEMMA HaltedInv ==
  ASSUME Inv, NEW j \in Jobs, Halted(j)
  PROVE  Inv'
<1>1. /\ state[j].attempt \in Nat /\ state[j].attempt <= MaxAttempts
      /\ launches[j] <= state[j].attempt
      /\ \A m \in stray[j] : m <= state[j].attempt /\ m # state[j].attempt
  <2>1. task[j].pc \in Launched
    BY DEF Halted, At, Launched
  <2> QED
    BY <2>1 DEF Inv, TypeOK, JobInv
<1>2. Ends(j)
  BY DEF Halted, At, Ends, Inv, TypeOK, history
<1> QED
  BY <1>1, <1>2, RetryInv DEF Halted, StatusValues, TERMINAL_STATES

LEMMA ExpiredInv ==
  ASSUME Inv, NEW j \in Jobs, Expired(j)
  PROVE  Inv'
<1>1. /\ state[j].attempt \in Nat /\ state[j].attempt <= MaxAttempts
      /\ launches[j] <= state[j].attempt
      /\ \A m \in stray[j] : m <= state[j].attempt /\ m # state[j].attempt
  <2>1. task[j].pc \in Launched
    BY DEF Expired, At, Launched
  <2> QED
    BY <2>1 DEF Inv, TypeOK, JobInv
<1>2. Ends(j)
  BY DEF Expired, At, Ends, Inv, TypeOK, history
<1> QED
  BY <1>1, <1>2, RetryInv DEF Expired, StatusValues, TERMINAL_STATES

LEMMA ProviderFailedInv ==
  ASSUME Inv, NEW j \in Jobs, ProviderFailed(j)
  PROVE  Inv'
<1>1. /\ state[j].attempt \in Nat /\ state[j].attempt <= MaxAttempts
      /\ launches[j] <= state[j].attempt
      /\ \A m \in stray[j] : m <= state[j].attempt /\ m # state[j].attempt
  <2>1. task[j].pc \in Launched
    BY DEF ProviderFailed, At, Launched
  <2> QED
    BY <2>1 DEF Inv, TypeOK, JobInv
<1>2. Ends(j)
  <2>1. blocked' \subseteq Providers
    <3>1. ProviderOf[j] \in Providers /\ blocked \subseteq Providers
      BY JobAssumption DEF Inv, TypeOK
    <3>2. blocked' = blocked \/ blocked' = blocked \cup {ProviderOf[j]}
      BY DEF ProviderFailed
    <3> QED
      BY <3>1, <3>2
  <2>2. child' = [child EXCEPT ![j] = "none"]
    BY DEF ProviderFailed
  <2> QED
    BY <2>1, <2>2 DEF ProviderFailed, At, Ends, Inv, TypeOK, history
<1>3. CASE Retry(j, "paused", state[j].attempt)
  BY <1>1, <1>2, <1>3, RetryInv DEF StatusValues, TERMINAL_STATES
<1>4. CASE Retry(j, "queued", state[j].attempt)
  BY <1>1, <1>2, <1>4, RetryInv DEF StatusValues, TERMINAL_STATES
<1>5. CASE Conclude(j, "failed", state[j].attempt)
  BY <1>1, <1>2, <1>5, ConcludeInv DEF TERMINAL_STATES
<1> QED
  BY <1>3, <1>4, <1>5 DEF ProviderFailed

LEMMA ProviderDoneInv ==
  ASSUME Inv, NEW j \in Jobs, ProviderDone(j)
  PROVE  Inv'
<1> USE DEF ProviderDone, At, durable, history
<1>1. MovedTo(j, "verify")
  BY GotoEffect DEF Inv, Places
<1>2. TypeOK'
  BY <1>1 DEF Inv, TypeOK, MovedTo, TaskType
<1>3. JobInv(j) => JobInv(j)'
  BY <1>1 DEF Inv, TypeOK, JobInv, MovedTo, Setup, WithProvider, Launched, Exits, TERMINAL_STATES
<1>4. OthersKept(j)
  BY <1>1 DEF Inv, TypeOK, OthersKept, MovedTo
<1> QED
  BY <1>2, <1>3, <1>4, StepOfOne DEF Inv

LEMMA VerifiedInv ==
  ASSUME Inv, NEW j \in Jobs, Verified(j)
  PROVE  Inv'
<1>1. /\ state[j].attempt \in Nat /\ state[j].attempt <= MaxAttempts
      /\ launches[j] <= state[j].attempt
      /\ \A m \in stray[j] : m <= state[j].attempt /\ m # state[j].attempt
  <2>1. task[j].pc \in Launched
    BY DEF Verified, At, Launched
  <2> QED
    BY <2>1 DEF Inv, TypeOK, JobInv
<1>2. Ends(j)
  BY DEF Verified, At, Ends, Inv, TypeOK, JobInv, WithProvider, history
<1> QED
  BY <1>1, <1>2, ConcludeInv DEF Verified, TERMINAL_STATES

LEMMA IncompleteInv ==
  ASSUME Inv, NEW j \in Jobs, Incomplete(j)
  PROVE  Inv'
<1>1. /\ state[j].attempt \in Nat /\ state[j].attempt <= MaxAttempts
      /\ launches[j] <= state[j].attempt
      /\ \A m \in stray[j] : m <= state[j].attempt /\ m # state[j].attempt
  <2>1. task[j].pc \in Launched
    BY DEF Incomplete, At, Launched
  <2> QED
    BY <2>1 DEF Inv, TypeOK, JobInv
<1>2. Ends(j)
  BY DEF Incomplete, At, Ends, Inv, TypeOK, JobInv, WithProvider, history
<1>3. CASE task[j].attempt < MaxAttempts
  BY <1>1, <1>2, <1>3, RetryInv DEF Incomplete, StatusValues, TERMINAL_STATES
<1>4. CASE ~(task[j].attempt < MaxAttempts)
  BY <1>1, <1>2, <1>4, ConcludeInv DEF Incomplete, TERMINAL_STATES
<1> QED
  BY <1>3, <1>4

LEMMA ArchiveInv ==
  ASSUME Inv, NEW j \in Jobs, Archive(j)
  PROVE  Inv'
<1> USE DEF Archive, history
<1>1. MovedTo(j, "idle")
  BY LeaveEffect DEF Inv
<1>2. JobInv(j) /\ j \in queue /\ j \notin Malformed /\ state[j].status \in TERMINAL_STATES
  BY DEF Inv, JobInv
<1>3. archive' = [archive EXCEPT ![j] = state[j].status]
  BY <1>2
<1>4. TypeOK'
  BY <1>1, <1>2, <1>3 DEF Inv, TypeOK, MovedTo, TaskType
<1>5. JobInv(j)'
  BY <1>1, <1>2, <1>3 DEF Inv, TypeOK, JobInv, MovedTo, Setup, WithProvider, Launched
<1>6. OthersKept(j)
  BY <1>1, <1>3 DEF Inv, TypeOK, OthersKept, MovedTo
<1> QED
  BY <1>4, <1>5, <1>6, StepOfOne

LEMMA SpawnUnrecordedInv ==
  ASSUME Inv, NEW j \in Jobs, SpawnUnrecorded(j)
  PROVE  Inv'
<1> USE DEF SpawnUnrecorded, At, durable
<1>1. MovedTo(j, "idle")
  BY LeaveEffect DEF Inv
<1>2. JobInv(j) /\ task[j].attempt = state[j].attempt /\ state[j].attempt \in Nat /\ up
  BY DEF Inv, TypeOK, JobInv, Launched, LoopFree
<1>3. stray'[j] = stray[j] \cup {state[j].attempt}
  BY <1>2 DEF Inv, TypeOK
<1>4. TypeOK'
  <2>1. launches' \in [Jobs -> Nat] /\ stray' \in [Jobs -> SUBSET Nat]
    BY <1>2 DEF Inv, TypeOK
  <2> QED
    BY <1>1, <2>1 DEF Inv, TypeOK, MovedTo, TaskType
<1>5. JobInv(j)'
  BY <1>1, <1>2, <1>3 DEF Inv, TypeOK, JobInv, MovedTo, Setup, WithProvider, Launched
<1>6. OthersKept(j)
  BY <1>1 DEF Inv, TypeOK, OthersKept, MovedTo
<1> QED
  BY <1>4, <1>5, <1>6, StepOfOne DEF Inv

LEMMA StrayExitsInv ==
  ASSUME Inv, NEW j \in Jobs, NEW n \in Nat, StrayExits(j, n)
  PROVE  Inv'
<1> USE DEF StrayExits, durable, history
<1>1. stray' \in [Jobs -> SUBSET Nat] /\ stray'[j] \subseteq stray[j]
  BY DEF Inv, TypeOK
<1>2. TypeOK'
  BY <1>1 DEF Inv, TypeOK
<1>3. JobInv(j) => JobInv(j)'
  BY <1>1 DEF JobInv
<1>4. OthersKept(j)
  BY DEF Inv, TypeOK, OthersKept
<1> QED
  BY <1>2, <1>3, <1>4, StepOfOne DEF Inv

LEMMA RaiseUnrecordedInv ==
  ASSUME Inv, NEW j \in Jobs, RaiseUnrecorded(j)
  PROVE  Inv'
<1> USE DEF RaiseUnrecorded, At, durable
<1>1. MovedTo(j, "idle")
  BY LeaveEffect DEF Inv
<1>2. TypeOK'
  BY <1>1 DEF Inv, TypeOK, MovedTo, TaskType
<1>3. JobInv(j) => JobInv(j)'
  BY <1>1 DEF JobInv, MovedTo, Setup, WithProvider, Launched
<1>4. OthersKept(j)
  BY <1>1 DEF OthersKept, MovedTo
<1> QED
  BY <1>2, <1>3, <1>4, StepOfOne DEF Inv

(* Only a provider live at its prompt becomes a stray, and then the state  *)
(* names its attempt as the running one.                                   *)
LEMMA RaiseInv ==
  ASSUME Inv, NEW j \in Jobs, Raise(j)
  PROVE  Inv'
<1> USE DEF Raise, history
<1>1. MovedTo(j, "idle")
  BY LeaveEffect DEF Inv
<1>2. /\ JobInv(j) /\ up /\ state[j].attempt \in Nat
      /\ task[j].pc \notin {"idle", "created"} \cup Setup
  BY DEF Inv, TypeOK, MayRaise, At, LoopFree, Setup
<1>3. /\ child' \in [Jobs -> {"none", "live"} \cup Exits]
      /\ child'[j] = "none" /\ \A k \in Jobs \ {j} : child'[k] = child[k]
  BY DEF Inv, TypeOK
<1>4. blocked' \subseteq Providers
  <2>1. ProviderOf[j] \in Providers /\ blocked \subseteq Providers
    BY JobAssumption DEF Inv, TypeOK
  <2> QED
    BY <2>1 DEF CircuitsAfter
<1>5. CASE task[j].pc = "prompt" /\ child[j] = "live"
  <2>1. task[j].attempt = state[j].attempt /\ state[j].status = "running"
    BY <1>2, <1>5 DEF JobInv, Launched
  <2>2. /\ stray' \in [Jobs -> SUBSET Nat] /\ stray'[j] = stray[j] \cup {state[j].attempt}
        /\ \A k \in Jobs \ {j} : stray'[k] = stray[k]
    BY <1>2, <1>5, <2>1 DEF Inv, TypeOK
  <2>3. TypeOK'
    BY <1>1, <1>3, <1>4, <2>2 DEF Inv, TypeOK, MovedTo, TaskType
  <2>4. JobInv(j)'
    BY <1>1, <1>2, <1>3, <2>1, <2>2 DEF JobInv, MovedTo, Setup, WithProvider, Launched
  <2>5. OthersKept(j)
    BY <1>1, <1>3, <2>2 DEF OthersKept, MovedTo
  <2> QED
    BY <1>2, <2>3, <2>4, <2>5, StepOfOne DEF Inv
<1>6. CASE ~(task[j].pc = "prompt" /\ child[j] = "live")
  <2>1. stray' = stray
    BY <1>6
  <2>2. TypeOK'
    BY <1>1, <1>3, <1>4, <2>1 DEF Inv, TypeOK, MovedTo, TaskType
  <2>3. JobInv(j)'
    BY <1>1, <1>2, <1>3, <2>1 DEF JobInv, MovedTo, Setup, WithProvider, Launched
  <2>4. OthersKept(j)
    BY <1>1, <1>3, <2>1 DEF OthersKept, MovedTo
  <2> QED
    BY <1>2, <2>2, <2>3, <2>4, StepOfOne DEF Inv
<1> QED
  BY <1>5, <1>6

-----------------------------------------------------------------------------
(* The steps of the process and of its surroundings.                       *)

LEMMA PollInv ==
  ASSUME Inv, Poll
  PROVE  Inv'
<1> USE DEF Poll, history
<1> DEFINE new == [NoTask EXCEPT !.pc = "created"]
<1>1. new \in TaskType /\ new.pc = "created"
  BY DEF TaskType, NoTask, Places
<1>2. Admitted \subseteq queue /\ Settled \subseteq queue
  BY DEF Admitted, Ready, Waiting, Settled
<1>3. \A j \in Admitted : /\ j \in Jobs /\ j \notin Running /\ j \notin Malformed
                          /\ state[j].status \notin TERMINAL_STATES
  BY <1>2 DEF Admitted, Ready, Waiting, Settled, Inv, TypeOK
<1>4. \A j \in Settled : j \notin Malformed /\ state[j].status \in TERMINAL_STATES
  BY DEF Settled
<1>5. /\ \A j \in Admitted : task'[j] = new
      /\ \A j \in Jobs \ Admitted : task'[j] = task[j]
  BY <1>3
<1> HIDE DEF new
<1>6. TypeOK'
  <2>1. task' \in [Jobs -> TaskType]
    BY <1>1 DEF Inv, TypeOK, TaskType, new
  <2>2. archive' \in [Jobs -> {"none", "invalid"} \cup TERMINAL_STATES]
    BY <1>4 DEF Inv, TypeOK
  <2> QED
    BY <2>1, <2>2 DEF Inv, TypeOK, TaskType
<1>7. ASSUME NEW k \in Jobs PROVE JobInv(k)'
  <2>1. JobInv(k) /\ up /\ task[k].pc # "archive"
    BY DEF Inv, LoopFree
  <2>2. /\ task[k].pc # "idle" => k \in queue'
        /\ k \in Admitted => k \in queue'
    BY <1>2, <1>3, <2>1 DEF JobInv, Settled
  <2>3. /\ archive'[k] = IF k \in queue \cap Malformed THEN "invalid"
                         ELSE IF k \in Settled THEN state[k].status ELSE archive[k]
        /\ k \notin queue' <=> k \notin queue \/ k \in Malformed \/ k \in Settled
    OBVIOUS
  <2>4. enqueues'[k] > 0 /\ k \notin queue' =>
          IF k \in Malformed THEN archive'[k] = "invalid"
          ELSE archive'[k] \in TERMINAL_STATES /\ archive'[k] = state'[k].status
    BY <2>1, <2>3, <1>2, <1>4 DEF JobInv
  <2>5. CASE k \in Admitted
    <3>1. task'[k].pc = "created" /\ task[k].pc = "idle"
      BY <1>1, <1>3, <1>5, <2>5 DEF Running
    <3> QED
      BY <3>1, <1>3, <2>1, <2>2, <2>4, <2>5 DEF JobInv, Setup, WithProvider, Launched
  <2>6. CASE k \notin Admitted
    <3>1. task'[k] = task[k]
      BY <1>5, <2>6
    <3>2. UNCHANGED <<state, up, child, stray, launches>>
      OBVIOUS
    <3> HIDE DEF Poll
    <3> QED
      BY <3>1, <3>2, <2>1, <2>2, <2>4 DEF JobInv
  <2> QED
    BY <2>5, <2>6
<1>8. SlotsKept'
  <2>1. Running' = Running \cup Admitted /\ Running \cap Admitted = {}
    BY <1>1, <1>3, <1>5 DEF Running
  <2>2. /\ IsFiniteSet(Admitted)
        /\ Cardinality(Running) + Cardinality(Admitted) <= MaxConcurrency
    BY AdmittedFit DEF Inv
  <2>3. Cardinality(Running') =
          Cardinality(Running) + Cardinality(Admitted) - Cardinality(Running \cap Admitted)
    BY <2>1, <2>2, RunningFinite, FS_Union
  <2>4. Cardinality(Running \cap Admitted) = 0
    BY <2>1, FS_EmptySet
  <2>5. Cardinality(Admitted) \in Nat
    BY <2>2, FS_CardinalityType
  <2> QED
    BY <2>2, <2>3, <2>4, <2>5, RunningFinite DEF SlotsKept
<1> QED
  BY <1>6, <1>7, <1>8 DEF Inv

(* The other ones start nothing.                                           *)
LEMMA StepWithoutAdmission ==
  ASSUME Inv, TypeOK', \A k \in Jobs : JobInv(k)', Running' \subseteq Running
  PROVE  Inv'
BY NoNewTask DEF Inv

LEMMA QuietInv ==
  ASSUME Inv, Shutdown \/ \E p \in Providers : CircuitExpires(p)
  PROVE  Inv'
<1> USE DEF Shutdown, CircuitExpires, durable, history
<1>1. TypeOK'
  <2>1. faults' \in Nat
    BY DEF Inv, TypeOK
  <2>2. blocked' \subseteq Providers
    BY DEF Inv, TypeOK
  <2>3. stopping' \in BOOLEAN
    BY DEF Inv, TypeOK
  <2> QED
    BY <2>1, <2>2, <2>3 DEF Inv, TypeOK
<1>2. \A k \in Jobs : JobInv(k) => JobInv(k)'
  BY DEF JobInv
<1>3. Running' = Running
  BY DEF Running
<1> QED
  BY <1>1, <1>2, <1>3, StepWithoutAdmission DEF Inv

LEMMA ExitInv ==
  ASSUME Inv, Exit
  PROVE  Inv'
<1> USE DEF Exit, durable, history
<1>1. TypeOK'
  BY DEF Inv, TypeOK
<1>2. Running' = Running
  BY DEF Running
<1>3. ASSUME NEW k \in Jobs PROVE JobInv(k)'
  <2>1. JobInv(k) /\ task[k].pc = "idle"
    BY DEF Inv, Running
  <2> QED
    BY <2>1 DEF JobInv
<1> QED
  BY <1>1, <1>2, <1>3, StepWithoutAdmission

LEMMA CrashInv ==
  ASSUME Inv, Crash
  PROVE  Inv'
<1> USE DEF Crash, durable
<1>1. NoTask \in TaskType /\ NoTask.pc = "idle"
  BY DEF TaskType, NoTask, Places
<1>2. task' \in [Jobs -> TaskType] /\ \A k \in Jobs : task'[k].pc = "idle"
  BY <1>1
<1>3. TypeOK'
  <2>1. faults' \in Nat
    BY DEF Inv, TypeOK
  <2>2. child' \in [Jobs -> {"none", "live"} \cup Exits]
    OBVIOUS
  <2> QED
    BY <1>2, <2>1, <2>2 DEF Inv, TypeOK, TaskType
<1>4. Running' \subseteq Running
  BY <1>2 DEF Running
<1>5. ASSUME NEW k \in Jobs PROVE JobInv(k)'
  <2>1. JobInv(k) /\ task'[k].pc = "idle" /\ child'[k] = "none"
    BY <1>2 DEF Inv
  <2> QED
    BY <2>1 DEF JobInv, Setup, WithProvider, Launched
<1> QED
  BY <1>3, <1>4, <1>5, StepWithoutAdmission

LEMMA RestartInv ==
  ASSUME Inv, Restart
  PROVE  Inv'
<1> USE DEF Restart, history
<1> DEFINE reconciled(j) == [state[j] EXCEPT !.status = "paused"]
<1>1. \A j \in Jobs : /\ reconciled(j) \in StateType
                      /\ reconciled(j).status = "paused"
                      /\ reconciled(j).attempt = state[j].attempt
  BY DEF Inv, TypeOK, StateType, StatusValues
<1>2. \A j \in Jobs : state'[j] = IF state[j].status \in {"starting", "running"}
                                    THEN reconciled(j) ELSE state[j]
  OBVIOUS
<1>3. state' = [j \in Jobs |-> IF state[j].status \in {"starting", "running"}
                                 THEN reconciled(j) ELSE state[j]]
  OBVIOUS
<1> HIDE DEF reconciled
<1>4. TypeOK'
  <2>1. state' \in [Jobs -> StateType]
    BY <1>1, <1>3 DEF Inv, TypeOK, StateType
  <2> QED
    BY <2>1 DEF Inv, TypeOK, StateType
<1>5. Running' \subseteq Running
  BY DEF Running
<1>6. ASSUME NEW k \in Jobs PROVE JobInv(k)'
  <2>1. JobInv(k) /\ task[k].pc = "idle" /\ child[k] = "none"
    BY DEF Inv, JobInv, WithProvider
  <2>2. /\ state'[k].attempt = state[k].attempt
        /\ state[k].status \in TERMINAL_STATES => state'[k] = state[k]
    BY <1>1, <1>2 DEF TERMINAL_STATES
  <2> QED
    BY <2>1, <2>2 DEF JobInv, Setup, WithProvider, Launched
<1> QED
  BY <1>4, <1>5, <1>6, StepWithoutAdmission

-----------------------------------------------------------------------------
(* The theorems.                                                           *)

LEMMA NextInv == Inv /\ [Next]_vars => Inv'
<1> SUFFICES ASSUME Inv, [Next]_vars PROVE Inv'
  OBVIOUS
<1>1. ASSUME NEW j \in Jobs, RunOne(j) PROVE Inv'
  BY <1>1, BeginInv, DiscoverInv, DiscoveryFailsInv, ConfigurationFailsInv, CloneInv,
     CheckoutInv, BootstrapInv, SpawnInv, SpawnUnrecordedInv, SendPromptInv, RaiseUnrecordedInv,
     RaiseInv,
     StopSeenInv, TimesOutInv, HaltedInv, ExpiredInv, ProviderFailedInv,
     ProviderDoneInv, VerifiedInv, IncompleteInv, ArchiveInv
     DEF RunOne
<1>2. CASE UNCHANGED vars
  BY <1>2 DEF vars, Inv, TypeOK, JobInv, SlotsKept, Running
<1> QED
  BY <1>1, <1>2, EnqueueInv, ProviderExitsInv, StrayExitsInv, PollInv, QuietInv, ExitInv, CrashInv,
     RestartInv
     DEF Next

(* The invariant holds in every reachable state.                           *)
THEOREM Invariance == Spec => []Inv
BY InitInv, NextInv, PTL DEF Spec

(* Every variable keeps its type.                                          *)
THEOREM TypeCorrect == Spec => []TypeOK
BY Invariance, PTL DEF Inv

(* supervisor.py never launches a provider for a job more than             *)
(* max_attempts times, whatever fails, stops or crashes in between.        *)
THEOREM AttemptsAreBounded == Spec => []AttemptsBounded
<1>1. Inv => AttemptsBounded
  BY DEF Inv, JobInv, AttemptsBounded, Setup
<1> QED
  BY <1>1, Invariance, PTL

(* Once supervisor.py has saved that an attempt paused, is queued again,   *)
(* failed or succeeded, no provider of that attempt is alive, not even one *)
(* whose coroutine an exception ended; and the coroutines never exceed     *)
(* META_AGENT_MAX_CONCURRENCY.                                             *)
THEOREM EndedAttempts == Spec => []EndedAttemptsAreOver
<1>1. Inv => EndedAttemptsAreOver
  <2> SUFFICES ASSUME Inv, NEW j \in Jobs,
                      state[j].status \in {"paused", "queued", "failed", "succeeded"}
               PROVE  state[j].attempt \notin Alive(j)
    BY DEF Inv, SlotsKept, EndedAttemptsAreOver
  <2>1. JobInv(j)
    BY DEF Inv
  <2> QED
    BY <2>1 DEF JobInv, Alive
<1> QED
  BY <1>1, Invariance, PTL

(* A submitted job is always in the queue or in the archive directory of   *)
(* its recorded terminal status.                                           *)
THEOREM NoJobIsLost == Spec => []NothingLost
<1>1. Inv => NothingLost
  BY DEF Inv, JobInv, NothingLost
<1> QED
  BY <1>1, Invariance, PTL

(* A terminal status that save_state has written is never rewritten, and   *)
(* no provider is launched for its job again.                              *)
THEOREM FinalOutcomes == Spec => OutcomesAreFinal
<1> DEFINE Final(j) == state[j].status \in TERMINAL_STATES =>
                         state'[j] = state[j] /\ launches'[j] = launches[j]
<1>1. ASSUME Inv, [Next]_vars, NEW j \in Jobs PROVE Final(j)
  <2> USE <1>1
  <2>1. CASE UNCHANGED vars
    BY <2>1 DEF vars
  <2>2. CASE Restart
    BY <2>2 DEF Restart, history, TERMINAL_STATES
  <2>3. CASE \E k \in Jobs : RunOne(k)
    <3>1. PICK k \in Jobs : RunOne(k)
      BY <2>3
    <3>2. JobInv(k) /\ state \in [Jobs -> StateType] /\ launches \in [Jobs -> Nat]
      BY DEF Inv, TypeOK, StateType
    <3>3. CASE k # j
      BY <3>1, <3>2, <3>3 DEF RunOne, Begin, Discover, DiscoveryFails,
         ConfigurationFails, Clone, Checkout, Bootstrap, Spawn, SpawnUnrecorded, SendPrompt,
         RaiseUnrecorded, Raise, StopSeen, TimesOut, Halted, Expired, ProviderFailed, ProviderDone,
         Verified, Incomplete, Archive, Retry, Conclude, Save, durable, history
    <3>4. CASE k = j
      <4>1. CASE Archive(k)
        BY <4>1, <3>4 DEF Archive, history
      <4>2. CASE Raise(k)
        BY <4>2, <3>4 DEF Raise, history
      <4>3. CASE RunOne(k) /\ ~Archive(k) /\ ~Raise(k)
        <5>1. task[k].pc \notin {"idle", "archive"}
          BY <4>3 DEF RunOne, Begin, Discover, DiscoveryFails, ConfigurationFails, Clone,
             Checkout, Bootstrap, Spawn, SpawnUnrecorded, SendPrompt, RaiseUnrecorded, StopSeen,
             TimesOut, Halted, Expired, ProviderFailed, ProviderDone, Verified,
             Incomplete, At
        <5> QED
          BY <5>1, <3>2, <3>4 DEF JobInv
      <4> QED
        BY <3>1, <4>1, <4>2, <4>3
    <3> QED
      BY <3>3, <3>4
  <2>4. CASE \E k \in Jobs : Enqueue(k)
    BY <2>4 DEF Enqueue
  <2>5. CASE \E k \in Jobs, e \in Exits : ProviderExits(k, e)
    BY <2>5 DEF ProviderExits, durable, history
  <2>6. CASE \E k \in Jobs, n \in 1..MaxAttempts : StrayExits(k, n)
    BY <2>6 DEF StrayExits, durable, history
  <2>7. CASE \E p \in Providers : CircuitExpires(p)
    BY <2>7 DEF CircuitExpires, history
  <2>8. CASE Poll \/ Shutdown \/ Exit \/ Crash
    BY <2>8 DEF Poll, Shutdown, Exit, Crash, durable, history
  <2> QED
    BY <2>1, <2>2, <2>3, <2>4, <2>5, <2>6, <2>7, <2>8 DEF Next
<1>2. Inv /\ [Next]_vars => [\A j \in Jobs : Final(j)]_vars
  BY <1>1
<1> QED
  BY <1>2, Invariance, PTL DEF Spec, OutcomesAreFinal
=============================================================================

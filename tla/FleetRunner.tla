----------------------------- MODULE FleetRunner -----------------------------
(***************************************************************************)
(* The durable provider supervisor, src/scripts/fleet/supervisor.py, with  *)
(* the workspace preparation, the process-group shutdown and the provider  *)
(* circuit it calls.                                                       *)
(*                                                                         *)
(* The supervisor is one asyncio loop: every admitted job is a coroutine   *)
(* `run_one`, and one action here is what a coroutine does from one await  *)
(* to the next.  Files survive a crash, coroutines and the provider        *)
(* processes do not (the runner is the container's main process).  The one *)
(* place where a crash between two writes of the same turn matters, saving *)
(* a terminal state and then moving the queue file to the archive, is two  *)
(* steps; no other coroutine runs in between (LoopFree).                   *)
(*                                                                         *)
(* Telemetry to the control plane is left out: it is best effort, except   *)
(* for the bootstrap events, whose failure is ConfigurationFails, and for  *)
(* what its calls raise and nobody catches (Raise, RaiseUnrecorded).       *)
(***************************************************************************)
EXTENDS Integers, FiniteSets

CONSTANTS
  Jobs,            \* job ids
  Providers,       \* provider names
  ProviderOf,      \* the provider each job asks for
  Rank,            \* position of a job in the (priority, job_id) order
  Malformed,       \* jobs whose queue file does not validate
  MaxAttempts,     \* Job.max_attempts
  MaxConcurrency,  \* META_AGENT_MAX_CONCURRENCY
  ResumePaused,    \* META_AGENT_RESUME_PAUSED
  MaxEnqueues,     \* bound: how often one job is submitted
  MaxFaults        \* bound: shutdowns, crashes and exceptions before an attempt is saved

TERMINAL_STATES == {"succeeded", "failed", "canceled", "partial"}
StatusValues == {"absent", "queued", "starting", "running", "paused"} \cup TERMINAL_STATES

(* Where a coroutine waits; "idle" is a job that is not in self.running.   *)
Places == {"idle", "created", "discover", "prepare", "bootstrap", "spawn",
           "prompt", "wait", "halt", "expire", "verify", "archive"}

(* What classify_provider_error makes of an exit: "done" is code zero.     *)
Exits == {"done", "limited", "unauthorized", "crashed"}

ASSUME JobAssumption ==
  /\ IsFiniteSet(Jobs)
  /\ ProviderOf \in [Jobs -> Providers]
  /\ Rank \in [Jobs -> Nat]
  /\ \A j, k \in Jobs : Rank[j] = Rank[k] => j = k
  /\ Malformed \subseteq Jobs
ASSUME LimitAssumption ==
  /\ MaxAttempts \in Nat \ {0}
  /\ MaxConcurrency \in Nat \ {0}
  /\ ResumePaused \in BOOLEAN
  /\ MaxEnqueues \in Nat
  /\ MaxFaults \in Nat

VARIABLES
  \* on the state volume
  queue,      \* jobs with a queue file
  state,      \* runs/<job>/state.json
  archive,    \* the archive directory a job's file was moved to
  worktree,   \* workspaces/<job>: absent, cloned, or on the assigned branch
  blocked,    \* providers whose circuit is open (providers.json)
  \* in the process
  up,         \* the supervisor process exists
  stopping,   \* stop_event
  task,       \* the coroutine of each job: where it waits, its locals
  child,      \* the provider process of each job: none, live, or its exit
  stray,      \* the attempts whose provider lives on without its coroutine
  \* history
  launches,   \* providers started for a job
  enqueues,   \* submissions of a job
  faults      \* shutdowns, crashes, exceptions before an attempt is saved

durable  == <<queue, state, archive, worktree, blocked>>
history  == <<launches, enqueues, faults>>
vars == <<queue, state, archive, worktree, blocked, up, stopping, task, child,
          stray, launches, enqueues, faults>>

NoTask == [pc |-> "idle", attempt |-> 0, resumed |-> FALSE]

Init ==
  /\ queue = {}
  /\ state = [j \in Jobs |-> [status |-> "absent", attempt |-> 0]]
  /\ archive = [j \in Jobs |-> "none"]
  /\ worktree = [j \in Jobs |-> "absent"]
  /\ blocked = {}
  /\ up = TRUE /\ stopping = FALSE
  /\ task = [j \in Jobs |-> NoTask]
  /\ child = [j \in Jobs |-> "none"] /\ stray = [j \in Jobs |-> {}]
  /\ launches = [j \in Jobs |-> 0]
  /\ enqueues = [j \in Jobs |-> 0]
  /\ faults = 0

-----------------------------------------------------------------------------
(* Helpers.                                                                *)

(* self.running: its entries go when the coroutine returns or raises.      *)
Running == {j \in Jobs : task[j].pc # "idle"}

(* Nobody is between the two writes of a turn: the loop can run another    *)
(* coroutine, a timer or a signal handler.                                 *)
LoopFree == up /\ \A j \in Jobs : task[j].pc # "archive"

At(j, place) == task[j].pc = place /\ LoopFree

(* The coroutine of j waits at its next await; it returns or raises.       *)
Goto(j, place) == task' = [task EXCEPT ![j].pc = place]
Leave(j) == task' = [task EXCEPT ![j] = NoTask]

(* save_state.                                                             *)
Save(j, status, attempt) ==
  state' = [state EXCEPT ![j] = [status |-> status, attempt |-> attempt]]

(* Mutant of Conclude: the file goes to the archive, its state unsaved.    *)
ConcludeUnsaved(j, status, attempt) ==
  /\ Goto(j, "archive")
  /\ UNCHANGED state

(* A terminal state is saved, then (Archive) the queue file moves.         *)
Conclude(j, status, attempt) ==
  /\ Save(j, status, attempt)
  /\ Goto(j, "archive")

(* A state from which a later poll runs the job again.                     *)
Retry(j, status, attempt) ==
  /\ Save(j, status, attempt)
  /\ Leave(j)

-----------------------------------------------------------------------------
(* Submission, admission.                                                  *)

(* enqueue, or the dispatcher's queue_job: neither looks at the archive.   *)
Enqueue(j) ==
  /\ j \notin queue
  /\ enqueues[j] < MaxEnqueues
  /\ queue' = queue \cup {j}
  /\ enqueues' = [enqueues EXCEPT ![j] = @ + 1]
  /\ UNCHANGED <<state, archive, worktree, blocked, up, stopping, task, child, stray,
                 launches, faults>>

(* The queue files load_jobs moves to the archive, and those it returns.   *)
Settled == {j \in queue \ Malformed : state[j].status \in TERMINAL_STATES}
Waiting == {j \in queue \ (Malformed \cup Settled) :
              state[j].status = "paused" => ResumePaused}

(* The jobs one pass of `run` admits: in order, while there is room.       *)
Ready == {j \in Waiting \ Running : ProviderOf[j] \notin blocked}
Admitted ==
  {j \in Ready :
     Cardinality(Running) + Cardinality({k \in Ready : Rank[k] < Rank[j]}) < MaxConcurrency}

(* Mutant of Poll: a finished job submitted again is run again.            *)
PollAgain ==
  /\ LoopFree /\ ~stopping
  /\ task' = [j \in Jobs |->
                IF j \in Admitted \cup (Settled \ Running)
                  THEN [NoTask EXCEPT !.pc = "created"] ELSE task[j]]
  /\ UNCHANGED <<queue, archive, state, worktree, blocked, up, stopping, child, stray>>
  /\ UNCHANGED history

(* One pass of `run`: load_jobs, then a coroutine for every admitted job.  *)
Poll ==
  /\ LoopFree /\ ~stopping
  /\ queue' = queue \ (Malformed \cup Settled)
  /\ archive' = [j \in Jobs |-> IF j \in queue \cap Malformed THEN "invalid"
                                ELSE IF j \in Settled THEN state[j].status
                                ELSE archive[j]]
  /\ task' = [j \in Jobs |-> IF j \in Admitted THEN [NoTask EXCEPT !.pc = "created"]
                             ELSE task[j]]
  /\ UNCHANGED <<state, worktree, blocked, up, stopping, child, stray>>
  /\ UNCHANGED history

-----------------------------------------------------------------------------
(* run_one, up to the launch.                                              *)

(* Mutant of Exhausted: one attempt too many.                              *)
ExhaustedLate(attempt) == attempt > MaxAttempts + 1

Exhausted(attempt) == attempt > MaxAttempts

(* The coroutine starts: it reads the state once, and keeps the attempt    *)
(* number and `resumed` as locals from there on.                           *)
Begin(j) ==
  LET attempt == state[j].attempt + 1
      resumed == state[j].status = "paused" \/ attempt > 1
  IN  /\ At(j, "created")
      /\ \/ /\ Exhausted(attempt)
            /\ Conclude(j, "partial", state[j].attempt)
         \/ /\ ~Exhausted(attempt)
            /\ task' = [task EXCEPT ![j] = [pc |-> "discover", attempt |-> attempt,
                                            resumed |-> resumed]]
            /\ UNCHANGED state
      /\ UNCHANGED <<queue, archive, worktree, blocked, up, stopping, child, stray>>
      /\ UNCHANGED history

(* Provider and MCP discovery succeed.                                     *)
Discover(j) ==
  /\ At(j, "discover")
  /\ Goto(j, "prepare")
  /\ UNCHANGED durable /\ UNCHANGED <<up, stopping, child, stray>> /\ UNCHANGED history

(* ProviderDiscoveryError: unreachable or limited is recoverable, a        *)
(* refused credential is not.                                              *)
DiscoveryFails(j, recoverable) ==
  /\ At(j, "discover")
  /\ IF recoverable THEN Retry(j, "paused", task[j].attempt)
                    ELSE Conclude(j, "failed", task[j].attempt)
  /\ UNCHANGED <<queue, archive, worktree, blocked, up, stopping, child, stray>>
  /\ UNCHANGED history

(* Expired credentials, git, the provider command or the bootstrap events  *)
(* fail: the attempt is spent, the job pauses.                             *)
ConfigurationFails(j) ==
  /\ \E place \in {"discover", "prepare", "bootstrap"} : At(j, place)
  /\ Retry(j, "paused", task[j].attempt)
  /\ UNCHANGED <<queue, archive, worktree, blocked, up, stopping, child, stray>>
  /\ UNCHANGED history

(* prepare_workspace, on a thread: a missing workspace is cloned; then a   *)
(* resumed job keeps it as it is, another one checks out its branch.       *)
Clone(j) ==
  /\ up /\ task[j].pc = "prepare"
  /\ worktree[j] = "absent"
  /\ worktree' = [worktree EXCEPT ![j] = "cloned"]
  /\ UNCHANGED <<queue, state, archive, blocked, up, stopping, task, child, stray>>
  /\ UNCHANGED history

Checkout(j) ==
  /\ At(j, "prepare")
  /\ worktree[j] # "absent"
  /\ worktree' = IF task[j].resumed THEN worktree
                 ELSE [worktree EXCEPT ![j] = "assigned"]
  /\ Goto(j, "bootstrap")
  /\ UNCHANGED <<queue, state, archive, blocked, up, stopping, child, stray>>
  /\ UNCHANGED history

(* The bootstrap events are accepted; the attempt is recorded before the   *)
(* provider exists.                                                        *)
Bootstrap(j) ==
  /\ At(j, "bootstrap")
  /\ Save(j, "starting", task[j].attempt)
  /\ Goto(j, "spawn")
  /\ UNCHANGED <<queue, archive, worktree, blocked, up, stopping, child, stray>>
  /\ UNCHANGED history

-----------------------------------------------------------------------------
(* run_one, with a provider process.                                       *)

Spawn(j) ==
  /\ At(j, "spawn")
  /\ child' = [child EXCEPT ![j] = "live"]
  /\ launches' = [launches EXCEPT ![j] = @ + 1]
  /\ Save(j, "running", task[j].attempt)
  /\ Goto(j, "prompt")
  /\ UNCHANGED <<queue, archive, worktree, blocked, up, stopping, stray, enqueues, faults>>

(* Recording the pid fails: the exception ends the coroutine, the provider *)
(* runs on and the state stays at "starting".                              *)
SpawnUnrecorded(j) ==
  /\ At(j, "spawn")
  /\ stray' = [stray EXCEPT ![j] = @ \cup {task[j].attempt}]
  /\ launches' = [launches EXCEPT ![j] = @ + 1]
  /\ Leave(j)
  /\ UNCHANGED durable /\ UNCHANGED <<up, stopping, child, enqueues, faults>>

(* The provider ends by itself, supervised or not.                         *)
ProviderExits(j, result) ==
  /\ child[j] = "live"
  /\ child' = [child EXCEPT ![j] = result]
  /\ UNCHANGED durable /\ UNCHANGED <<up, stopping, task, stray>> /\ UNCHANGED history

StrayExits(j, attempt) ==
  /\ attempt \in stray[j]
  /\ stray' = [stray EXCEPT ![j] = @ \ {attempt}]
  /\ UNCHANGED durable /\ UNCHANGED <<up, stopping, task, child>> /\ UNCHANGED history

SendPrompt(j) ==
  /\ At(j, "prompt")
  /\ Goto(j, "wait")
  /\ UNCHANGED durable /\ UNCHANGED <<up, stopping, child, stray>> /\ UNCHANGED history

(* The wait ends: by the stop event, even when the provider has exited     *)
(* too, by the time limit, or by the exit.                                 *)
StopSeen(j) ==
  /\ At(j, "wait")
  /\ stopping
  /\ Goto(j, "halt")
  /\ UNCHANGED durable /\ UNCHANGED <<up, stopping, child, stray>> /\ UNCHANGED history

TimesOut(j) ==
  /\ At(j, "wait")
  /\ child[j] = "live" /\ ~stopping
  /\ Goto(j, "expire")
  /\ UNCHANGED durable /\ UNCHANGED <<up, stopping, child, stray>> /\ UNCHANGED history

(* terminate_process_group has returned: the provider is gone.             *)
Halted(j) ==
  /\ At(j, "halt")
  /\ child' = [child EXCEPT ![j] = "none"]
  /\ Retry(j, "paused", state[j].attempt)
  /\ UNCHANGED <<queue, archive, worktree, blocked, up, stopping, stray>>
  /\ UNCHANGED history

(* Mutant of Expired: the job is queued again, its provider not ended.     *)
ExpiredAlive(j) ==
  /\ At(j, "expire")
  /\ child' = [child EXCEPT ![j] = "none"]
  /\ stray' = [stray EXCEPT ![j] = @ \cup {task[j].attempt}]
  /\ Retry(j, "queued", state[j].attempt)
  /\ UNCHANGED <<queue, archive, worktree, blocked, up, stopping>>
  /\ UNCHANGED history

Expired(j) ==
  /\ At(j, "expire")
  /\ child' = [child EXCEPT ![j] = "none"]
  /\ Retry(j, "queued", state[j].attempt)
  /\ UNCHANGED <<queue, archive, worktree, blocked, up, stopping, stray>>
  /\ UNCHANGED history

(* The provider has exited with a failure: a limit opens the circuit and   *)
(* pauses the job, anything else spends the attempt; a refused credential  *)
(* is not retried.                                                         *)
ProviderFailed(j) ==
  /\ At(j, "wait")
  /\ child[j] \in Exits \ {"done"}
  /\ child' = [child EXCEPT ![j] = "none"]
  /\ \/ /\ child[j] = "limited"
        /\ blocked' = blocked \cup {ProviderOf[j]}
        /\ Retry(j, "paused", state[j].attempt)
     \/ /\ child[j] = "crashed" /\ task[j].attempt < MaxAttempts
        /\ Retry(j, "queued", state[j].attempt)
        /\ UNCHANGED blocked
     \/ /\ child[j] = "unauthorized" \/ (child[j] = "crashed" /\ task[j].attempt >= MaxAttempts)
        /\ Conclude(j, "failed", state[j].attempt)
        /\ UNCHANGED blocked
  /\ UNCHANGED <<queue, archive, worktree, up, stopping, stray>>
  /\ UNCHANGED history

(* Exit code zero proves nothing yet: the evidence is collected.           *)
ProviderDone(j) ==
  /\ At(j, "wait")
  /\ child[j] = "done"
  /\ child' = [child EXCEPT ![j] = "none"]
  /\ Goto(j, "verify")
  /\ UNCHANGED durable /\ UNCHANGED <<up, stopping, stray>> /\ UNCHANGED history

(* missing_delivery_requirements is empty: the circuit closes.             *)
Verified(j) ==
  /\ At(j, "verify")
  /\ blocked' = blocked \ {ProviderOf[j]}
  /\ Conclude(j, "succeeded", state[j].attempt)
  /\ UNCHANGED <<queue, archive, worktree, up, stopping, child, stray>>
  /\ UNCHANGED history

Incomplete(j) ==
  /\ At(j, "verify")
  /\ IF task[j].attempt < MaxAttempts THEN Retry(j, "queued", state[j].attempt)
                                      ELSE Conclude(j, "partial", state[j].attempt)
  /\ UNCHANGED <<queue, archive, worktree, blocked, up, stopping, child, stray>>
  /\ UNCHANGED history

(* archive_job, the second write of the turn, and the return.              *)
Archive(j) ==
  /\ up /\ task[j].pc = "archive"
  /\ queue' = queue \ {j}
  /\ archive' = IF j \in queue THEN [archive EXCEPT ![j] = state[j].status] ELSE archive
  /\ Leave(j)
  /\ UNCHANGED <<state, worktree, blocked, up, stopping, child, stray>>
  /\ UNCHANGED history

-----------------------------------------------------------------------------
(* Exceptions no handler of run_one catches: they end the coroutine, and   *)
(* only its done callback, which takes the job out of self.running, runs.  *)

(* Before the attempt is on disk (an HTTPException of discovery, a state   *)
(* file that cannot be written): a later poll starts the same attempt over.*)
RaiseUnrecorded(j) ==
  /\ \E place \in {"created", "discover", "prepare", "bootstrap"} : At(j, place)
  /\ faults < MaxFaults
  /\ faults' = faults + 1
  /\ Leave(j)
  /\ UNCHANGED durable /\ UNCHANGED <<up, stopping, child, stray, launches, enqueues>>

(* Where the coroutine no longer waits for anything that may still come:   *)
(* the launch, the prompt, and what follows an exit, a termination, the    *)
(* evidence and the save of a terminal state.                              *)
MayRaise(j) ==
  \/ \E place \in {"spawn", "prompt", "halt", "expire", "verify"} : At(j, place)
  \/ At(j, "wait") /\ child[j] \in Exits
  \/ up /\ task[j].pc = "archive"

(* The circuits a coroutine that raises may already have changed.          *)
CircuitsAfter(j) ==
  {blocked}
    \cup (IF task[j].pc = "wait" /\ child[j] = "limited"
            THEN {blocked \cup {ProviderOf[j]}} ELSE {})
    \cup (IF task[j].pc = "verify" THEN {blocked \ {ProviderOf[j]}} ELSE {})

(* Mutant of Raise: a job whose coroutine raised before its outcome was    *)
(* saved stays in self.running.                                            *)
RaiseHeld(j) ==
  /\ MayRaise(j) /\ task[j].pc # "archive"
  /\ child' = [child EXCEPT ![j] = "none"]
  /\ Goto(j, "wait")
  /\ UNCHANGED durable /\ UNCHANGED <<up, stopping, stray>> /\ UNCHANGED history

(* A provider that is still live when handing it the prompt fails runs on  *)
(* with nobody waiting for it.                                             *)
Raise(j) ==
  /\ MayRaise(j)
  /\ stray' = IF task[j].pc = "prompt" /\ child[j] = "live"
              THEN [stray EXCEPT ![j] = @ \cup {task[j].attempt}] ELSE stray
  /\ child' = [child EXCEPT ![j] = "none"]
  /\ blocked' \in CircuitsAfter(j)
  /\ Leave(j)
  /\ UNCHANGED <<queue, state, archive, worktree, up, stopping>>
  /\ UNCHANGED history

-----------------------------------------------------------------------------
(* The process and its surroundings.                                       *)

(* SIGTERM or SIGINT: no more polls; coroutines run to their end.          *)
Shutdown ==
  /\ LoopFree /\ ~stopping
  /\ faults < MaxFaults
  /\ stopping' = TRUE
  /\ faults' = faults + 1
  /\ UNCHANGED durable /\ UNCHANGED <<up, task, child, stray, launches, enqueues>>

(* `run` has gathered every coroutine and returns.                         *)
Exit ==
  /\ up /\ stopping /\ Running = {}
  /\ up' = FALSE
  /\ stray' = [j \in Jobs |-> {}]
  /\ UNCHANGED durable /\ UNCHANGED <<stopping, task, child>> /\ UNCHANGED history

(* The container dies, at any point, with everything in it.                *)
Crash ==
  /\ up
  /\ faults < MaxFaults
  /\ faults' = faults + 1
  /\ up' = FALSE /\ stopping' = FALSE
  /\ task' = [j \in Jobs |-> NoTask]
  /\ child' = [j \in Jobs |-> "none"] /\ stray' = [j \in Jobs |-> {}]
  /\ UNCHANGED durable /\ UNCHANGED <<launches, enqueues>>

(* A new FleetRunner: reconcile_interrupted_states.                        *)
Restart ==
  /\ ~up
  /\ up' = TRUE /\ stopping' = FALSE
  /\ state' = [j \in Jobs |->
                 IF state[j].status \in {"starting", "running"}
                   THEN [state[j] EXCEPT !.status = "paused"]
                   ELSE state[j]]
  /\ UNCHANGED <<queue, archive, worktree, blocked, task, child, stray>>
  /\ UNCHANGED history

(* The blocked_until time passes.                                          *)
CircuitExpires(p) ==
  /\ p \in blocked
  /\ blocked' = blocked \ {p}
  /\ UNCHANGED <<queue, state, archive, worktree, up, stopping, task, child, stray>>
  /\ UNCHANGED history

(* What the coroutine of j does by itself, its awaits all being bounded.   *)
RunOne(j) ==
  /\ task[j].pc # "idle"
  /\ \/ Begin(j) \/ Discover(j) \/ \E r \in BOOLEAN : DiscoveryFails(j, r)
     \/ ConfigurationFails(j) \/ Clone(j) \/ Checkout(j) \/ Bootstrap(j)
     \/ Spawn(j) \/ SpawnUnrecorded(j) \/ SendPrompt(j) \/ RaiseUnrecorded(j) \/ Raise(j)
     \/ StopSeen(j) \/ TimesOut(j) \/ Halted(j) \/ Expired(j)
     \/ ProviderFailed(j) \/ ProviderDone(j) \/ Verified(j) \/ Incomplete(j)
     \/ Archive(j)

Next ==
  \/ \E j \in Jobs : Enqueue(j) \/ RunOne(j)
  \/ \E j \in Jobs, r \in Exits : ProviderExits(j, r)
  \/ \E j \in Jobs, n \in 1..MaxAttempts : StrayExits(j, n)
  \/ \E p \in Providers : CircuitExpires(p)
  \/ Poll \/ Shutdown \/ Exit \/ Crash \/ Restart

(* The loop polls and every coroutine advances (git, discovery, evidence   *)
(* and the provider itself all run under a timeout, and SIGKILL ends the   *)
(* last of them); the container's restart policy starts a stopped runner;  *)
(* a circuit's time passes.  Nothing is assumed of the provider.           *)
Fairness ==
  /\ WF_vars(Poll) /\ WF_vars(Exit) /\ WF_vars(Restart)
  /\ \A j \in Jobs : WF_vars(RunOne(j))
  /\ \A p \in Providers : WF_vars(CircuitExpires(p))

Spec == Init /\ [][Next]_vars /\ Fairness

-----------------------------------------------------------------------------
(* Properties.                                                             *)

TypeOK ==
  /\ queue \subseteq Jobs /\ blocked \subseteq Providers
  /\ state \in [Jobs -> [status : StatusValues, attempt : Nat]]
  /\ archive \in [Jobs -> {"none", "invalid"} \cup TERMINAL_STATES]
  /\ worktree \in [Jobs -> {"absent", "cloned", "assigned"}]
  /\ up \in BOOLEAN /\ stopping \in BOOLEAN
  /\ task \in [Jobs -> [pc : Places, attempt : Nat, resumed : BOOLEAN]]
  /\ child \in [Jobs -> {"none", "live"} \cup Exits]
  /\ stray \in [Jobs -> SUBSET Nat]
  /\ launches \in [Jobs -> Nat] /\ enqueues \in [Jobs -> Nat] /\ faults \in Nat

(* max_attempts holds across shutdowns, crashes and failures no handler    *)
(* catches: a provider is never launched without its attempt being on disk *)
(* first, so a job gets at most MaxAttempts launches in all.               *)
AttemptsBounded ==
  \A j \in Jobs :
    /\ launches[j] <= state[j].attempt
    /\ state[j].attempt <= MaxAttempts
    /\ task[j].pc \in {"discover", "prepare", "bootstrap"} =>
         task[j].attempt = state[j].attempt + 1

(* The attempts of a job whose provider is alive, supervised or not.       *)
Alive(j) == stray[j] \cup (IF child[j] = "live" THEN {task[j].attempt} ELSE {})

(* An attempt whose end the supervisor has recorded is over: once a job is *)
(* saved as paused, queued again, failed or succeeded, the provider of the *)
(* attempt it names is gone, whatever timed out, stopped, raised or        *)
(* crashed, and whoever else still runs in the worktree; and coroutines    *)
(* stay within META_AGENT_MAX_CONCURRENCY.                                 *)
EndedAttemptsAreOver ==
  /\ \A j \in Jobs :
       state[j].status \in {"paused", "queued", "failed", "succeeded"} =>
         state[j].attempt \notin Alive(j)
  /\ Cardinality(Running) <= MaxConcurrency

(* Every submitted job is in the queue or in the archive directory of the  *)
(* terminal status its state records, wherever a crash falls between       *)
(* saving that status and moving the file.                                 *)
NothingLost ==
  \A j \in Jobs : enqueues[j] > 0 /\ j \notin queue =>
    IF j \in Malformed THEN archive[j] = "invalid"
    ELSE archive[j] \in TERMINAL_STATES /\ archive[j] = state[j].status

(* A recorded outcome is final: neither a restart, nor a late step of the  *)
(* coroutine, nor a second submission of the same job changes it or starts *)
(* another provider for it.                                                *)
OutcomesAreFinal ==
  [][\A j \in Jobs : state[j].status \in TERMINAL_STATES =>
       state'[j] = state[j] /\ launches'[j] = launches[j]]_vars

(* Every submitted job is eventually archived, through lost providers,     *)
(* open circuits, timeouts and finitely many shutdowns and crashes.        *)
JobsSettle == \A j \in Jobs : j \in queue ~> archive[j] # "none"

(* src/scripts/fleet/common.py:233 tells the provider to "Work only on the *)
(* assigned branch", and docs/scoped-task-dispatcher.md:35 promises every  *)
(* job a "real checkout and assigned branch": a provider starts in a       *)
(* worktree that is on its branch.  A first attempt that pauses before the *)
(* checkout makes the second one `resumed`, which skips the checkout.      *)
OnAssignedBranch == \A j \in Jobs : child[j] = "live" => worktree[j] = "assigned"
=============================================================================

# TLA+ specifications of the meta-agent control plane

These modules specify the parts of the control plane whose correctness depends
on the order of things: events that arrive late or twice, caches that evict
while counters are kept over them, acknowledgements that get lost, pages that
refresh from a lossy feed, cursors into a store that moves, hooks and samples
that race, and a supervisor that must survive being killed. TLC
checks every specification on small instances; TLAPS proves all of their
invariants and action properties, and the refinement, for all values of the
constants.

Line numbers and the correspondence of every definition with the source are in
`PROJECT.json` ("map"). Paths below are relative to the repository.

## The system

| Component | State it keeps | Operations | What is hard about it |
|---|---|---|---|
| Event store and reducer (`src/store.rs`, `src/model.rs`) | six LRU caches (agents, goals, tasks, lessons, events, idempotency window), revision, counters, all in memory behind one lock | `ingest` (validate, deduplicate, reduce one of 11 kinds of event, publish), `record_rejection`, `snapshot` | events from four transports in any order, with client clocks; eviction of tasks and agents under counters derived from them; replays inside and outside the window |
| Transports (`src/http.rs`, `src/tcp.rs`, `src/udp.rs`, `src/auth.rs`) | connections, permits, per-connection buffers | authenticate, read a frame, ingest, acknowledge | frame limits, back-pressure, cancellation, low-authority UDP |
| Client and sidecar (`src/client.rs`, `src/provider.rs`, `src/bin/*`) | one connection | send and validate the acknowledgement | lost acknowledgements, reconnection |
| Update feed and pages (`src/store.rs`, `src/http.rs`, `scripts/*-dashboard.js`) | broadcast ring per socket, the page's refresh flags and shown revision | publish, authenticate, subscribe, forward, refresh, poll, reconnect | updates out of order, lagging receivers, overlapping refreshes, restarts |
| Runtime monitor (`src/runtime/*`, `src/runtime_api.rs`) | hook agents, recent hooks and their ids, commands, last `/proc` sample | ingest a hook, enqueue, list and acknowledge commands, sample, snapshot | late and replayed hooks, a sample in flight while collection is switched off, pid reuse |
| Timeline and explorer (`src/timeline*.rs`, `src/explorer*.rs`) | none (read a snapshot) | page through events by cursor, filter and correlate | cursors over a store that moves |
| Metacognition and coordination (`src/metacognition/*`, `src/coordination*.rs`) | none (read a snapshot) | diagnose, find cycles and critical paths, select assignments | graph algorithms over inconsistent, partial data |
| Daemon (`src/daemon.rs`, `src/web.rs`, `src/config.rs`) | listeners, cancellation token | bind, serve, stop | one failing listener stops all |
| Fleet supervisor (`scripts/fleet/supervisor.py`, `workspace.py`, `process.py`, `provider.py`, `cli.py`) | on disk: queue files, `state.json` per job, archive, worktrees, provider circuits; in memory: one coroutine and one provider process per running job | enqueue, poll, run one job through discovery, checkout, launch, wait, verification; shutdown; restart reconciliation | crashes between two writes, exceptions outside handlers, stop/exit/timeout races, bounded attempts |
| Dispatcher (`scripts/fleet/dispatcher.py`) | version ledger | discover issues, queue each version once | crash between queueing and the ledger |
| Pages, OpenAPI, secrets, release checks, hook adapters | none | | pure formatting or one-shot I/O |

Components interact as follows. Transports and the fleet's `EventClient` call
`Store::ingest`; each accepted event is published on a broadcast channel that
`/ws/ui` handlers forward to pages, and pages answer by fetching a snapshot
over HTTP. Hook adapters and the supervisor's `HookClient` post to the runtime
monitor, which is independent of the store. Timeline, explorer, metacognition
and coordination are functions of a store snapshot. The dispatcher and the
supervisor share only the queue directory; the supervisor reports to the store
as any other client.

## Modules

| Module | Models | Runs | Proofs |
|---|---|---|---|
| `Lru` | the `lru` crate's cache as the store uses it, and `push_with_eviction` | (through Store) | `StoreProofs` |
| `Store` | `StoreInner`, `ingest`, `apply_event`, `record_rejection` | StoreLifecycle, and those of its extensions | `StoreProofs` |
| `Timeline` | the cursor, its token and the walk of a reader; extends Store | (through Explorer) | `TimelineProofs` |
| `Explorer` | the correlation of events into sessions and the cut lists; extends Timeline | Explorer, TimelineRestart | `TimelineProofs` |
| `AtMostOnce` | abstract: what the protocol promises an agent that sends events again | (through Delivery) | |
| `Delivery` | client, sidecar, four transports and the process, composed with Store; implements AtMostOnce | Delivery, DeliveryReplies | `DeliveryProofs` |
| `LiveFeed` | the update channel, the `/ws/ui` handler and a page | LiveFeed | `LiveFeedProofs` |
| `RuntimeMonitor` | hooks, commands, collector and snapshot rows | RuntimeControl, RuntimeCollector | `RuntimeProofs` |
| `FleetRunner` | the supervisor with worktrees, circuits and providers | Fleet, FleetBranch | `FleetProofs` |
| `Metacognition` | the graph searches, diagnostics, goals and summary of the analysis, as operators | (through Coordination) | `CoordinationProofs` |
| `Coordination` | the coordination plan over a store that moves; extends Metacognition | CoordinationPlan, CoordinationCycles | `CoordinationProofs` |

`Foundations` has the lemmas about loops, finite sets, sorting and sums that the
proof modules share. `MCStore`, `MCExplorer`, `MCDelivery`, `MCLiveFeed`, `MCRuntime`, `MCFleet` and
`MCCoordination` instantiate them for TLC.
Definitions marked "Mutant of X" are deliberately wrong versions of X; no
specification uses them. Each shows that a property can fail: with X replaced
by the mutant TLC finds the property violated.

### Store

One action is one critical section of the store's write lock. A task is keyed
by agent and task id, as by `ScopedId`. Payload the reducer only copies (texts,
metadata, evidence, references) is left out; everything it decides on is kept:
status, outcome, progress, blocker, attempt, the five timestamps, the inferred
flag, and the agent's counters. Caches are `Lru` records with their recency
order, because eviction picks by that order and every `get`/`get_mut` changes
it; a record in the timeline is represented by the revision that accepted it.
`saturating_add` on 64-bit counters is plain addition: the bounds keep counters
far from the limit.

### Timeline and Explorer

The daemon keeps nothing for a reader: a page is a function of the snapshot,
the limit and the token the reader brings, so the only new variable is the
reader's `walk` (what it has collected and its last page), with `epoch`, which
counts restarts and which only the properties use. Every event id stands for a
fixed event (`Envelope`). A token carries revision, instant and id; `Encode`
writes the signed second of the instant into an unsigned word and `Signed`
reads it back, so that instants before the clock's epoch are covered (a word
has `2 * HalfWord` values; `HalfWord` is 2^63 in the code and 4 in the runs). A
`StoreStep` may fall between any two pages. `Explorer` has no actions: its view
(`BuildExplorer`) is a fold over the sorted snapshot, in the order of
`build_explorer`, and its invariants are checked in every store that Timeline
reaches.

### Delivery and AtMostOnce

A call is one connection or one datagram, with the state of both its ends: what
the peer has written and was told, and on the daemon's side the frames taken,
the reply not yet written and the replies not yet read. A peer is a client
(`EventClient::send`: one frame, one reply, every operation under a timeout),
an agent that writes several frames before it reads or never reads, or the
sidecar, which makes one call per input line and stops at the first that fails.
A handler awaits between taking a frame, which changes the store, and having
written the reply, so these are two steps; `Handler` is everything one can do.
Faults are a datagram lost, late or duplicated, a timeout on the client's side
whether or not the frame arrived, a peer that goes away, the shutdown signal, a
crash (or the failure of one server, which ends the others) and a restart with
an empty store. `WriteCap` is the socket's buffer. What is wrong with a frame is
its `defect`: over the limit, not UTF-8, malformed, unauthorized, invalid, or
never finished by its sender. The first two are errors of the decoder
(`Undecodable`): after one the reader of TCP lines yields nothing more (`Spent`),
and a WebSocket handler returns without a reply. A request that has begun to
arrive over HTTP (`AwaitRequest`) is waited for, during a shutdown too; the rest
of it never comes, and `RequestBroken` is what follows when its sender leaves.

`AtMostOnce` says that an event takes effect once while its id is remembered,
that an id is forgotten only for another one when the window is full or with
the process, and that a confirmed event has taken effect. The mapping takes
`remembered` to the keys of the idempotency window; `effects` and `confirmed`
are history variables that no guard of Delivery reads.

### LiveFeed

The store is reduced to its revision (and an epoch that counts restarts, which
no program sees and only the properties use). `Publish` is separate from
`Accept` because the code sends after unlocking. The socket handler goes
through open, authenticated, subscribed; `Enqueue` is Tokio's bounded broadcast
ring; `wire` are frames in flight. The page is the state of `refresh()` and
`scheduleRefresh()`: the refreshing and dirty flags, the timer, the request in
flight. `Pages` says whether the page compares revisions (`/coordination`,
`/explorer`) or not (`/`).

### RuntimeMonitor

`IngestHook` is the whole of `ingest_hook`: replay check against the recent
ids, creation of the agent, the event-time guard, token credit outside the
guard, and the two bounded windows. The collector is split where the code
awaits: `Tick` starts a sample, `WalkProc` reads process counters (the total
having been read first), `ApplyProcSnapshot` takes the lock. `HostRuns` is the
operating system, whose total of ticks may also go back. `Snapshot` is the merge
that `snapshot` performs, over one map from ids to rows: a sampled process is
inserted under the id of the agent that claims its pid or under one made of the
pid (`KeyOf`), and an agent then takes over the row under its own id (`Adopted`)
or gets one of its own (`HookRow`). `RowId` says which id is made of a pid; it may
be that of an agent, as in the code. A figure of a row is represented by its
source: a pid, a hook, or none.

### FleetRunner

The supervisor is a single asyncio loop, so an action is what a coroutine does
between two awaits; files are durable, coroutines and providers die with the
container. Saving a terminal state and moving the queue file are two steps so
that a crash can fall between them, but no other coroutine runs in between
(`LoopFree`). Git and discovery failures, timeouts and every class of provider
exit are separate actions. So are the exceptions no handler catches, which end a
coroutine wherever a call can raise: before the attempt is on disk
(`RaiseUnrecorded`), between the launch and the save of the pid
(`SpawnUnrecorded`), and from then on (`Raise`). A provider that is alive at that
moment goes on alone; `stray` has the attempts of such providers. `SIGTERM` is
`Shutdown`: coroutines run on to their end, and a job still in setup is launched
and then paused, as in the code.

### Metacognition and Coordination

The analysis and the plan are pure functions of a snapshot, so `Plan` is an
operator and the actions are those of the store, reduced to what the plan
reads: a task's definition, status, outcome, progress, attempt, age and
evidence, the retained goals, and the agents last reported offline. `Store`
has the handlers in full, with clocks and recency; here an event and a task's
definition carry the age they have at the snapshot, which decides whether it applies, and which entry a
full cache drops is left open. The searches keep the order of the code's maps
and lists, since what they find depends on it. Their recursion is made explicit:
a state holds the stack of open calls and what each has still to look at, and
`VisitCycle` and `RemainingDepth` are one call or return of `visit_cycle` and
`remaining_depth`; the rounds of the selection are likewise a loop over `Turn`.
`AnalysisOf`, `PlanFrom` and the
operators between them pass each intermediate result on as a parameter, one per
stage of `plan_from_analysis`: decide, sort and select, truncate. The
properties compare the searches with the chains of the dependency relation
(`Chains`), enumerated without any search. Means are kept as their sums, so that
nothing is rounded; a value the analysis calls unavailable is -1. The seconds
that raise the priority of a stalled task are cut to a 32-bit word before they
become minutes (`Minutes`); `Word` is 2^32 in the code and smaller in the runs.

## Runs

Beside the properties named here, StoreLifecycle, LiveFeed, RuntimeControl,
Fleet and Delivery check the type invariant of their module. A run marked
(violation) checks a claim of a document that the code does not keep.

| Run | Instance | Shows |
|---|---|---|
| StoreLifecycle | two agents, two task ids, agent cache 1, task cache 2, two instants, four deliveries (events, a replay, a rejection) | CompletionConsistent, TaskClocksOrdered, CountersMatchTasks, TasksNeverGoBack, EnrichmentKeepsExecution for every order of lifecycle events between evictions |
| Explorer | four event ids, three of them in the last second before the clock's epoch and two at one instant; timeline 3, snapshot 3, window 2, pages of 1 and 2, five deliveries, one restart | EventsNewestFirst, EvictionAccounting, WalkIsExact, PageCountsAddUp, SessionsAreExact, LessonsKeepNewest |
| TimelineRestart (violation) | the same | a walk goes on in the store of another process |
| Delivery | two calls, four event ids, window 1, one reply of socket buffer, one TCP connection, a sidecar with two lines over HTTP, frames over the limit, not UTF-8 and unfinished, one fault, one restart | RepliesMatchFrames, SidecarInOrder, Implements (refinement of AtMostOnce), ShutdownCompletes (liveness) |
| DeliveryReplies (violation) | the same, agents that write a line behind one over the limit | the second line gets no reply |
| LiveFeed | both pages, a receiver of 1 and a wire of 2 frames, three revisions, one restart, one fault | NothingMissed, PageNeverGoesBack, PageConverges (liveness) |
| RuntimeControl | two agents, three hook ids, two instants, four kinds, windows of 2 and 1 | ControlOnlyCapable, LatestHookWins (an idle agent shows no tool, too), TokensCountedOnce |
| RuntimeCollector | one pid claimed by two agents, one of them with the id of its row, three host ticks, two samples, one switch | AtMostOneLateSample, CpuShareSane, ProcessTakesPrecedence |
| Fleet | two jobs of one provider, each submitted twice, two slots, two attempts, one fault of the runner, uncaught exceptions | AttemptsBounded, NothingLost, EndedAttemptsAreOver, OutcomesAreFinal, JobsSettle (liveness) |
| FleetBranch (violation) | one job beside a malformed one, one slot, two attempts, no fault | a provider started off its branch |
| CoordinationPlan | three tasks with lists of dependencies among them and two of another agent, one of these old and of a goal, task cache 3, goal cache 1, two assignments, one intervention, one hold | CyclesAreHit, DepthIsLongestChain, DispatchIsSafe, EveryTaskAccountedFor, SelectionIsFair, AnalysisAddsUp |
| CoordinationCycles (violation) | the same | a member of two overlapping cycles is assigned |

Bounds. The caches are one or two entries deep, so that every push beyond the
second evicts; with two tasks per agent and two agents each kind of eviction
(own task, foreign task, retained or evicted owner) occurs within four events.
Two instants give earlier, equal and later. Two attempts distinguish first,
resumed and exhausted. A fault of the runner is a shutdown, a crash or an exception
before the attempt is saved; one, at any of some dozen points, is enough for
every pair of adjacent writes. Exceptions after the attempt is saved are bounded
by the attempts. The agent that takes over a process row it shares claims no pid
in RuntimeCollector; one that claims another process is covered by RuntimeProofs.
Model values are only compared for
equality, hence the symmetry sets. Three tasks are the fewest on which two
different cycles can share a task; the plan's limits are
below what three tasks can fill, so that each of them bites. A walk over three
retained events in pages of one or two has first, middle and last pages, and
the fourth event evicts between them. Two calls are what a retry or a race
needs; with a window of one id the second event evicts the first, so that a
replay is met both inside and outside the window. The malformed queue file
occurs in FleetBranch only; the passing run leaves it out for the sake of size,
and FleetProofs covers it (`Malformed` is any set of jobs).

Fairness. `LiveFeed` assumes that Tokio polls a task that can make progress,
that the browser runs timers and callbacks, and that a request is answered or
fails; it assumes nothing of events, faults, restarts or clicks. `FleetRunner`
assumes that the loop polls, that a coroutine advances (discovery, git,
evidence collection and the provider all run under timeouts, and termination
ends in SIGKILL), that the container's restart policy starts a stopped runner
(`restart: unless-stopped`), and that a circuit's time passes; it assumes
nothing of the provider. Shutdowns, crashes and exceptions before an attempt is
recorded are finitely many: a runner that is killed for ever, or whose discovery
raises for ever, before it records an attempt makes no progress.
`Delivery` assumes that the runtime polls a handler that can go on, that a
client that waits is answered or times out, and that main returns when
`Daemon::serve` does; nothing makes an agent read or leave, a datagram arrive or
a daemon start. Store, Timeline, RuntimeMonitor and Coordination have no
liveness to state: they only react.

Deadlock checking is off where a run ends because its bounds are used up
(Store, Explorer, Delivery, RuntimeMonitor).

## Disagreements between the code and what is said of it

* A job whose first attempt fails before its checkout is resumed without one
  (`scripts/fleet/workspace.py:31`): the provider works on the default branch
  (run FleetBranch).
* The search for dependency cycles stops at tasks it has finished
  (`src/metacognition/graph.rs:145`), so that of overlapping cycles it can
  overlook a member, which the planner may then assign, although
  `docs/coordination-planner.md:75` says cycles become interventions rather
  than assignments (run CoordinationCycles). Every cycle still has a reported
  member (CyclesAreHit).
* A line or message over the limit, or not UTF-8, ends its TCP or WebSocket
  connection (`src/tcp.rs:100-112`: the handler goes on to the next line, but the
  framed reader yields nothing more after a decoder error; `src/http.rs:363`).
  Frames already sent behind it, and over WebSocket the message itself, get no
  reply, although `docs/protocol.md:70` and `:57` promise one for each (run
  DeliveryReplies). Every frame a handler takes is answered (RepliesMatchFrames).
* A timeline cursor names a revision and not the process that counted it
  (`src/timeline.rs:119`), so that a walk can go on, without an error, in the
  store of a restarted daemon that has reached the same revision, although
  `docs/timeline-pagination.md:46` says the check prevents combining two states
  (run TimelineRestart). Within one process a walk is exact (WalkIsExact).

Further observations, which the models follow and which no run singles out:

* Agent status is last-arrival-wins (`src/store.rs:669`), although
  `docs/architecture.md:41` says the reducer does not pick a winner because it
  arrived last.
* Processes and agents share one map of ids in the runtime snapshot
  (`src/runtime/monitor.rs:360`), so that an agent whose id is that of an
  unclaimed process's row takes this row over: it is shown with that process's
  resources, under its own pid if it claims one. All other rows have the figures
  of their own pid, and a shared row never shows an agent's own figures in place
  of sampled ones (ProcessTakesPrecedence).
* An exception between the launch of a provider and the wait for it ends the
  coroutine and not the provider (`scripts/fleet/supervisor.py:207-218`). A later
  poll may launch the next attempt beside it in the same worktree, and a shutdown
  leaves it running until the container stops, although `docs/agent-fleet.md:136`
  says that `SIGTERM` interrupts provider process groups. An attempt whose end is
  recorded has no provider left (EndedAttemptsAreOver).
* The sidecar gives every observation a fresh event id, so feeding it the same
  input again is not recognised as a replay.
* A peer that never reads its replies holds up the shutdown, because a reply is
  written without a timeout, and so does one that begins an HTTP request and
  never finishes it, because the graceful shutdown waits for it and no timeout
  layer exists; ShutdownCompletes says exactly this much (`HeldUp`). WebSocket
  handlers are detached at shutdown and end with the process.
* An exception before an attempt is saved (an `http.client.HTTPException` of
  discovery is not among those caught at `scripts/fleet/supervisor.py:188`) spends
  no attempt: if it recurs for ever the job is tried for ever.
* A hook replayed after it has left the recent ids is accepted again, and its
  tokens are added again (`src/runtime/monitor.rs:192`).
* `task_completed` clears the agent's active task even if it has moved on to
  another one (`src/store.rs:662`), and a full command window drops its oldest
  command even while that is pending (`src/runtime/monitor.rs:301`).

## Proofs

`StoreProofs` begins with what the cache operators do: which keys they keep, what
they change, that the recency order stays a listing of the keys without
repetition, and that `Push` counts exactly the value it drops. It then proves, for
any sets of agents, tasks, events and times and any positive capacities:

* `TypeCorrect`: Spec => []TypeOK;
* `CountersCorrect`: Spec => []CountersMatchTasks;
* `CompletionCorrect`: Spec => []CompletionConsistent;
* `ClocksCorrect`: Spec => []TaskClocksOrdered.

All four come from one inductive invariant, `StoreInv`, the conjunction of TypeOK
with the three. TypeOK is needed because the counters only stay right if a
retained agent's update really finds its own entry, and because `saturating_sub`
is a subtraction only while the counter is positive, which the counter equation
itself provides. CountersMatchTasks is inductive because each reducer step
changes the set of counted tasks by at most one task of one agent, and an
eviction by one task of its owner; the lemmas on `CountedTasks` say by how much
the cardinality changes. The assumptions are those of `Config::validate`
(positive capacities) and `EventEnvelope::validate` (ranges of the inputs).

and what relates a state to earlier ones:

* `TimelineInOrder`: Spec => []EventsNewestFirst;
* `NothingLostUncounted`: Spec => []EvictionAccounting;
* `NeverGoBack`: Spec => TasksNeverGoBack;
* `EnrichmentIsHarmless`: Spec => EnrichmentKeepsExecution.

The first two need `HistoryInv`: every retained event carries a revision the
store has reached, so that a new one is newer than all; the lengths of the two
recency orders are counted against the revision; and until a duplicate refreshes
an id, the timeline and the window list the same ids in the same order
(`SameOrder`), so that with a window at least as long as the timeline no
retained event is forgotten. The action properties follow from `StoreInv`, handler by
handler: what a reducer writes into the task's entry, and that an eviction
changes no entry it keeps.

`TimelineProofs` proves of a reader that walks through a store in use, for any
events and instants, page sizes, capacities and numbers of restarts:

* `WalksAreExact`: TimelineSpec => WalkIsExact;
* `PageCounts`: TimelineSpec => []PageCountsAddUp;
* `NewestLessonsKept`: TimelineSpec => []LessonsKeepNewest;
* `SessionsExact`: TimelineSpec => []SessionsAreExact.

Sorting is treated without induction. The place of an element is the number of
those that precede it (`Ranks`); this is an injection of a finite set into as
many places, hence a bijection, so that an ordered listing exists and is unique
(`RankedList`, `SortedIsOrdered`, `OrderedIsSorted`). The events after a cursor
are then a suffix of the sorted ones (`Following`), provided that the parsed
token names the same instant as the encoded one (`RoundTrip`, with the wrap of
the word). `WalkInv` is the strengthening: in the process that issued the cursor
and at the cursor's revision, the collected events are a prefix of the sorted
snapshot and the cursor names the last of them. It survives the events between
two pages because an accepted one advances the revision, and a replay moves ids
in the window only. The sessions are a fold of `Correlate` over the sorted events.
`Accumulated` says what any set of events amounts to, without an order; that one
more event turns it into that of the larger set is `CorrelateOK`, so that it
solves the fold's equation, and by a smallest set on which the two would differ
it is the fold (`FoldedOK`). The assumptions are ReaderAssumption (types, positive page
sizes), ClockAssumption (the second of an instant is a signed word, as chrono
guarantees), TokenAssumption (None is not a cursor) and PolicyAssumption
(positive limits, a total order on the lessons' and sessions' ids, and no session
called None), with the store's.

`LiveFeedProofs` proves of LiveFeed, for any capacities of receiver and wire and
numbers of events, restarts and faults:

* `TypeCorrect`: Spec => []TypeOK;
* `NothingIsMissed`: Spec => []NothingMissed;
* `NeverGoesBack`: Spec => PageNeverGoesBack.

NothingMissed speaks of a page at rest; the invariant says of a page at work why
it will get there (`Covered`): it shows the present state, or one of the request
in flight, the timer, the dirty flag, a frame on the wire, the receiver's queue,
its lag, or an update not yet sent will make it ask again. PageNeverGoesBack
needs the snapshots in order (`Ordered`: shown, then fetched, then the store) and
that a page has one request at a time. The assumptions are FeedAssumption
(positive capacities) and NoneAssumption (None is not a snapshot).

`RuntimeProofs` proves of RuntimeMonitor, for any agents, hooks, processes and
windows:

* `TypeCorrect`: Spec => []TypeOK;
* `OnlyCapableAgentsControlled`: Spec => []ControlOnlyCapable;
* `TheLatestHookWins`: Spec => []LatestHookWins;
* `TokensAreCountedOnce`: Spec => []TokensCountedOnce;
* `OneLateSample`: Spec => []AtMostOneLateSample;
* `CpuSharesAreSane`: Spec => []CpuShareSane;
* `ProcessesTakePrecedence`: Spec => []ProcessTakesPrecedence.

The invariant has a part for each of hooks, tokens, commands and samples.
LatestHookWins is carried by `Shown`, for which the retained hooks must belong to
known agents and none be later than the agent's own time. A late sample is
possible only while the collector still holds one: once it was applied with
collection off, the collector is idle and stays so. The sum of the tokens, a fold
over a finite set, is handled by a function in the invariant that gives the sum
of every set of agents and from which each agent can be split off (`Totals`);
that the fold agrees with it is shown by a smallest set on which it would not.
ProcessesTakePrecedence holds of every snapshot, whatever owner the pid map
names and whichever process is inserted last under an id: processes under the
same id that is not shared with an unrelated agent have the same pid
(`SamePidOfKey`), and the row under it shows that pid (`RowShowsItsPid`). The only
assumption is RuntimeAssumption (positive windows, types; no two pids make the
same row id).

`FleetProofs` proves of FleetRunner, for any jobs, attempts, slots and numbers
of submissions, shutdowns and crashes:

* `AttemptsAreBounded`: Spec => []AttemptsBounded;
* `EndedAttempts`: Spec => []EndedAttemptsAreOver;
* `NoJobIsLost`: Spec => []NothingLost;
* `FinalOutcomes`: Spec => OutcomesAreFinal;

and `TypeCorrect`. None of the properties is inductive alone. The invariant ties
the place where a job's coroutine waits to what is on disk (`JobInv`): a running
job has a valid queue file; its saved status is terminal exactly when it is about
to be archived; before the launch its attempt is one more than the saved one, and
at the launch it is saved; a provider belongs to a coroutine that waits for it, or
is the stray of an attempt that is on disk, and of an earlier one as soon as the
end of the present one is recorded.
`StepOfOne` reduces a step of a coroutine to its own job, and `RetryInv` and
`ConcludeInv` treat the two ways `run_one` ends once for all the actions that
use them. That admission respects the limit (`AdmittedFit`) is a counting
argument: the place of an admitted job among the ready ones is an injection into
the free slots, because no two jobs have the same rank. The assumptions are
JobAssumption (finitely many jobs, a strict order on them, as (priority, job_id)
is) and LimitAssumption (the configured limits are positive).

`DeliveryProofs` proves of Delivery, for any events, offers, input lines,
capacities and numbers of calls, faults and restarts:

* `DeliveryTypes`: DeliverySpec => []DeliveryTypeOK;
* `OneReplyPerFrame`: DeliverySpec => []RepliesMatchFrames;
* `DeliveryImplements`: DeliverySpec => Implements, the refinement;
* `SidecarKeepsOrder`: DeliverySpec => []SidecarInOrder.

One invariant serves the first three. A duplicate is acknowledged as accepted without
taking effect, so that the acknowledgement is true rests on `SeenOK`: every
remembered id has had its effect, and the window is a well-formed cache (its
size, which the abstract eviction speaks of, comes from `KeysCounted` of
StoreProofs). `Backed` carries this from the store to the reply being written and
the replies in the socket, which outlive the window and the process. `GoodCall`
says which replies these are: those of the frames taken and not yet answered, in
order, none of them behind a frame that could not be decoded (`MayTake` is what a
handler has to know before it takes the next one). Each action is shown to change one call in one of a few ways, and to be a
step of AtMostOnce or a stutter. SidecarInOrder needs `SidecarInv` beside it: the
sidecar's current call is that of the line before the next one, a call that ended
well is confirmed, and whatever is under way, late or in effect was sent when its
line's turn had come (`Told`). The assumptions are CallAssumption (what
callers send is well-typed; a client writes one frame, a datagram is one),
FreshAssumption (the ids of the sidecar's lines are distinct and no one else's:
`EventEnvelope::new` draws a random UUID) and NoneAssumption, with the store's.

`CoordinationProofs` proves of the analysis and the plan, for any tasks, lists of
dependencies, goals, events, capacities and limits:

* `Types`: Spec => []TypeOK;
* `CyclesFound`: Spec => []CyclesAreHit;
* `LongestChains`: Spec => []DepthIsLongestChain;
* `DispatchSafety`: Spec => []DispatchIsSafe;
* `Accounting`: Spec => []EveryTaskAccountedFor;
* `Fairness`: Spec => []SelectionIsFair;
* `AnalysisTotals`: Spec => []AnalysisAddsUp.

The plan is a function of the snapshot, so that TypeOK is the only inductive
invariant of the specification and the others hold in every state of that type.
What has to be found are invariants of the loops that compute the plan. A loop is
a recursive function on its states; such a function exists for any body
(`LoopExists` of Foundations, by the results of finite runs), and if the body
keeps an invariant and makes a triple of numbers smaller, the loop ends and its
result has the invariant (`LoopEnds`).

* `CycleInv`: the stack is a path of the graph; what it has reported is on a
  cycle; the finished tasks it has not reported are acyclic and depend on finished
  ones only; and a dependency of an open task is finished, still to be looked at,
  or the next task of the stack, unless the open task is reported. At the end all
  tasks are finished, so that without the reported ones no cycle is left. That
  every member of a cycle is reported is not provable, and false: see
  CoordinationCycles.
* `DepthInv`: in a part of the graph that is closed under dependencies and
  acyclic, an entry of a task that is not open is one more than the largest of its
  dependencies, none of which is open. The provisional 1 of an open task is read
  by none of these, because a dependency on an open task would close a cycle. The
  longest chain then satisfies the same equation.
* `SelectionInv`: after r rounds every agent has got r of its queue, or less only
  where its queue or a limit ends; in a round without progress each agent passed
  has nothing more to give. The measure is what may still be selected.

AnalysisAddsUp is counting: the tasks are divided into those of each retained goal
and those of none (`Divided`, with `SumOfSizes`), a stalled task has one diagnostic
that says so (`FoundRules`), and the deepest task of a goal is its critical one
(`GoalPath`). The assumptions are those the code's validation gives:
PlanningPolicyAssumption (positive limits) and EventAssumption (types of what
events carry).

Only model-checked:

* liveness (PageConverges, JobsSettle, ShutdownCompletes), which is outside the
  prover's reach;
* the four violations, which are counterexamples and have no proof.

## Not modelled, and the plan

Not modelled because they have no state worth checking: page rendering and the
OpenAPI document, the secret materializer and release checks, the example hook
adapters. Validation of individual fields is represented by what it guarantees.

Left for later, in this order:

1. `Dispatcher`: discovery, the version ledger and its crash window, composed
   with the queue of FleetRunner, where only its `queue_job` is modelled.
2. The requests of the fleet's observability and introspection, whose failures
   are already outcomes of FleetRunner.
3. Configuration beyond the capacities: addresses, tokens and arguments decide
   only whether a daemon starts.

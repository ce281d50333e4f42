# A TLA+ model of FlockMind

FlockMind (`src/`) is a daemon that joins hosts to a "hive": the nodes replicate
a small state with Raft, the leader asks an LLM for actions, and every node runs
the tasks that name it. This directory holds a TLA+ model of its core, the TLC
runs that check it on small instances, and theorems about it that TLAPS proves
for every instance. Source paths below are relative to `src/src/`.

* [The system](#the-system): components, state, interaction, hard behaviour
* [The modules](#the-modules): which module models what
* [The runs](#the-runs): questions, bounds, fairness, what they show
* [The proofs](#the-proofs): theorems, assumptions, inductive invariants
* [Not modelled](#not-modelled)
* [The plan](#the-plan)

## The system

| Component | Source | State | Operations |
|---|---|---|---|
| Replicated state machine | `replicator/state_machine.rs`, `types.rs` | `HiveState`: maps of nodes, tasks, attachments, goals; `SharedState` puts an `RwLock` around it | `apply(ClusterCommand)`, `snapshot`, `restore`, `to_cluster_view` |
| Sled storage | `replicator/storage.rs` | trees `raft_log` and `raft_meta` (vote, last_purged, last_applied, membership, state_snapshot), the `SharedState` | the calls of openraft's `RaftStorage` |
| Raft replicator | `replicator/raft_node.rs` | the `Raft` handle | `apply` (a client write), `snapshot` (the local view), `is_leader`, `initialize_single`, `add_peer` |
| Raft transport | `replicator/network.rs`, `raft_api.rs` | addresses | one HTTP POST per openraft message |
| Validator | `executor/validator.rs` | the policy | `validate(action, view)` |
| Executor | `executor/mod.rs` | none | `execute(action)`, `run_task(task)` |
| Task runner | `executor/runner.rs` | a time limit | `run(payload)` |
| Action tracker | `brain/tracker.rs` | open actions, a history, progress of goals, each behind its own lock | `track_action`, `mark_*`, `cleanup_stale`, `has_similar_pending`, ... |
| LLM planner | `brain/planner.rs`, `brain/llm_client.rs` | none | `plan(goals, view, attachments)`, `parse_action` |
| Daemon | `daemon.rs` | none of its own | start-up, three loops: heartbeat, task runner, planner |
| Process | `main.rs` | none | `run_daemon`: storage, HTTP server, `HiveDaemon::run`, 5 s to stop |
| HTTP API | `api.rs` | none | POST `/tasks`, POST `/goals`, reads |
| Attachment registry | `attachments.rs` | a map behind a lock | `register`, `sync_from_cluster`; the daemon calls neither |
| Enrollment | `auth/enrollment.rs` | maps of tokens and enrolled nodes, a lock each | `load_or_create`, `generate_token`, `enroll`, `register_enrolled_node`; the daemon does not call them yet |
| Certificates | `auth/certs.rs` | `ca.crt` and `ca.key` in the data directory | `save`, `load`, `generate`, `sign_node` |
| Configuration, CLI | `config.rs`, `bin/flockctl.rs` | none | |

**How they interact.** All shared state is the `HiveState` each node keeps. It
changes only by commands in the Raft log; every write is
`RaftReplicator::apply`, which returns once *this* node has applied the entry,
or an error. Reads (`snapshot`) take the local copy without asking anybody. The
writers are the loops of each daemon, at their own pace, and HTTP requests.
The life of a task:

1. POST `/tasks` or the planner of the leader writes `PutTask(.., Pending)`.
2. The task runner loop of the target node finds it at a tick, in a list it then
   works through task by task.
3. `run_task` writes `Running` and waits; runs the payload; writes `Completed`
   or `Failed` and waits.
4. Meanwhile the planner may cancel it (a status write) or move it (a `PutTask`
   that overwrites the record, Pending again, another target).

**What is hard.** No command says what it expects to find: `UpdateTaskStatus`
overwrites whatever status there is, by task id. So everything depends on the
order in which writers of stale views reach the log. On top of that: a leader
can change between a check and a write, an appended write may be lost, a process
may die between two writes, and the storage itself writes in several steps which
a kill can separate. Enrollment has the same shapes in small: a token is looked
up and removed in two critical sections, and an authority is two files. The hazards are listed at their lines in `PROJECT.json`.

**What makes a component correct.**

| Component | Properties |
|---|---|
| Task lifecycle | executed at most once per assignment; what is reported was executed; a finished task stays finished; cancelled and moved tasks behave so; every task is served |
| Validator and planner | the limit on active tasks holds in every view; a task is for a node that is registered |
| Storage | promises to openraft survive a kill, and so does every command an apply has returned for; none is applied twice; a snapshot holds no more than its label says |
| Start-up, heartbeat | the loops run only where the node is registered; no Degraded mark outlasts a heartbeat; a started daemon serves its tasks |
| Tracker | a failed action is retried a bounded number of times, and does not block others for ever |
| Enrollment | a token that was used, expired or was forgotten stays spent, an unused one is never lost |
| Certificates | every certificate belongs to the authority on the disk, wherever writing it is cut short |

## The modules

`TaskLifecycle` EXTENDS `Replicator` and `LlmPlanner`, both of which EXTEND
`Executor`, which EXTENDS `HiveState`; it instantiates `TaskBoard`, the abstract
specification it implements. `SledStorage`, `ActionTracker` and `Enrollment`
stand alone. `MCCluster`, `MCStorage`, `MCTracker` and `MCEnrollment` give the
constants values for TLC; the proofs are in `HiveStateProofs`,
`TaskLifecycleProofs`, `RegistrationProofs`, `TaskBoardProofs` and
`WorkloadProofs` (each extends the one before it), `ActionTrackerProofs`,
`EnrollmentProofs` and `SledStorageProofs`.

**HiveState.** The value of a `HiveState` and `Apply(s, c)`, the `match` of
`HiveState::apply` arm by arm. A map is a total function with the value
`Absent`. Kept of a record is what the program decides on: target, payload,
status of a task and whether it has a result; the health of a node; the node of
an attachment. Time stamps, figures, tags and texts are dropped.

**Executor.** `Validates(action, state)` is `ActionValidator::validate`;
`CommandsFor(action, state, ..)` the commands `execute` may send. A path is a
sequence of pieces, so that `starts_with` is `IsPrefix`.

**LlmPlanner.** What `plan` makes of the model's answer. The answer is any list of
elements, each with a type and any of the fields; `ParseAction` is
`parse_action`: unknown types and kinds of task are skipped, a field that is
missing is read as the empty string, `Nameless`, which is a name like any other
and which only the validator can stop. `Proposals` is what a plan may consist of.

**Replicator.** What a daemon sees of openraft: `log`, the commands appended so
far; `leader`, whose writes are accepted; `applied[n]` and `hive[n]`, how far
node n is and what it has. `ClientWrite` succeeds on the leader only (a node
that does not lead gets `ForwardToLeader`, which `apply` returns as an error).
`TakeLead` gives a new leader everything some node has applied and any prefix of
the rest; the index of a lost entry becomes `Lost` for whoever waits for it.
Raft itself is not modelled: this is the abstraction its users rely on.

**TaskLifecycle.** The daemons. An action ends where the code awaits something
that lets others run.

| Code | Action |
|---|---|
| `run_daemon`, `HiveDaemon::new` | `Boot` |
| `HiveDaemon::run`, `initialize_single`, `register_self` | `Start`, `Registered` |
| a tick of the task runner loop, its list | `RunnerTick` (`runner.queue`) |
| `run_task`, the write of Running | `RunnerStart` |
| `run_task`, `runner.run` once that write is acknowledged | `RunnerExec` |
| `run_task`, the write of the outcome, its return | `RunnerFinish`, `RunnerReturn` |
| a tick of the planner loop that has something to do | `PlannerTick` |
| `execute` up to its write, the write, its return | `PlannerExecute`, `PlannerWrite`, `PlannerReturn` |
| the end of the list of actions | `PlannerDone` |
| a tick of the heartbeat loop | `Heartbeat` |
| POST `/tasks`, POST `/goals` | `SubmitTask`, `AddGoal` |
| the process ends (kill, or Ctrl-C and 5 s) | `Crash` |
| openraft | `Elect`, `ApplyEntry` |

`runs[n][t]` is a history variable: how often node n has begun the payload of t.
The brain may answer anything that `LlmPlanner` turns into actions, in any number:
an LLM promises nothing. `ActionTypes` says which types occur in an instance. A
heartbeat is a step only where the log last calls the node Degraded, since
writing Healthy again changes nothing.
An action that is invalid or replicates nothing (NoOp, UpdateGoalProgress, an
approval request) changes no state and needs no step. A stale leader, one that
still believes in its lead, is covered by the refused write: its write ends in an
error too. The payload run is the one in the runner's own copy of the record;
records never change their payload, so the model reads it from the state.

**TaskBoard.** What the hive promises of a task that is neither cancelled nor
moved, in a page: each node has a board; a task is put on it once, taken once,
executed at most once, while the board says Running, and brought to an end after
that. `TaskLifecycle` maps to it by `OnBoard`: the board of n is the part of n's
*own* view that names n as the target, and `runs` is `runs`. The log, the
leaders, lost writes, lists and plans are hidden; a crash stutters, and so does
everything a planner does until its entry is applied.

**SledStorage.** One node's storage under openraft. A call of `RaftStorage` is
the sequence of its writes (`AppendToLog`, `PurgeLogsUpto`,
`ApplyToStateMachine`, ...), which `Step` carries out one by one. `disks` is
every content of the data base that a kill may now leave, from the last `flush`
on, since sled also writes in the background; its last element is what a
read sees. `Crash` picks one, `Open` is `SledStorage::new` plus what openraft
does at its start. Calls run one at a time (openraft's `Adaptor` holds a lock);
`build_snapshot` runs next to them, because `get_snapshot_builder` hands out a
second storage over the same trees. What openraft calls when is in the guards of
the `Call` actions: appends follow a log that agrees with what is committed,
conflicts are removed from an entry nobody has committed, entries are applied in
order once committed, a received snapshot is newer than what is applied, and is
followed by a purge. No `SledStorage` has one to send: `get_current_snapshot`
answers None always, so `snapshot` is only openraft's own record of the last one,
which decides what it purges; `CallInstall` is what the handler accepts from any
leader. `chosen` (what the cluster has committed) and `promised` (the votes and
entries openraft relies on, and the state at the last apply that has returned) are
history variables. The keys a range holds are
removed in ascending order: `Ascending` is the set of the enumerations of a set in
that order, which has one element, and a call that removes keys chooses from it.

**ActionTracker.** The tracker of one daemon and the planner loop around it, with
everything outside (the brain, the executor) reduced to its answers: any plan,
any action Ok or an error. `Tick` is a tick with `cleanup_stale`,
`get_recent_failures` and the brain's answer; `Skip` and `Execute` are the two
ways the loop goes on with the next action (`track_action` and `mark_executing`
have no await between them and no other caller); `Executed` is the return of
`execute` with `mark_completed` or `mark_failed` and `update_goal_progress`.
Nobody else uses the tracker, so the locks inside it separate nothing and a whole
method is one step. Actions are compared as `is_similar_action` compares them,
with its catch-all that finds the remaining variants similar to nothing. An
action's age is open: `Sweep` may find any subset of the executing ones too old,
in any order (they come out of a `HashMap`). `TaskLifecycle` has no tracker: its
brain need not propose what the tracker would skip.

**Enrollment.** The `EnrollmentManager` and the authority it keeps on the disk.

| Code | Action |
|---|---|
| `load_or_create`: load where both files exist, else generate | `LoadOrCreate` |
| `CaCertificate::save`, a creation or a write of a file, or its failure | `SaveStep` |
| `generate_token`, the passing of `expires_at` | `GenerateToken`, `Expire` |
| `register_enrolled_node` | `RegisterEnrolledNode` |
| `enroll`: lookup under the read lock | `Begin`, `Lookup` |
| the checks of expiry and tags, `sign_node` | `Check` |
| removal of an expired token | `DropExpired` |
| the peers under the lock of the other map | `ListPeers` |
| removal of the token, the response | `Answer` |
| the process ends | `Kill` |

Calls run concurrently and interleave between any two critical sections. What
two overlapping calls may do is in the model as it is in the code: both may be
answered for one token, because the lookup does not take it
(`enrollment.rs:102-109`, `:140`). The repository's test (`test_enroll_token_consumed`)
enrolls one node after the other, and that is what `SpentStaysSpent` generalises:
it speaks of a call that *begins* after the token was answered for; `late` is the
history it needs. Of the peers in an answer nothing is promised: a node that is
registered after `ListPeers`, or was answered and is not registered yet, is not
among them. A torn `ca.key` makes every later start fail: `load` finds
both files and cannot parse one.

`TaskLifecycle` and `SledStorage` meet at `ApplyNext`: `TaskLifecycle` takes for granted that a
restarted node comes back with the state that belongs to its last applied index.
`SledStorage` shows where the code does not guarantee that (run `restore`).

## The runs

All runs have `CHECK_DEADLOCK FALSE`: an instance stops when its bounds are used
up and all work is done, and a cluster without input is idle.

| Run | Instance | Properties | Result |
|---|---|---|---|
| `cluster` | 2 daemons, 1 task, 2 faults, 3 inputs (API, RebalanceTask), 2 starts | `TypeOK`, `AtMostOncePerAssignment`, `FinishedWasRun`, `ServesRegistered` | hold |
| `single` | 1 daemon, 3 tasks, limit 2, 2 crashes, 4 inputs (ScheduleTask), 3 starts | `ActiveWithinLimit`, `ExecutingIsRunning`, `TargetIsRegistered`, `FinishedIsFinal`, `ImplementsBoard` | hold |
| `live` | 1 daemon, 2 tasks, no fault, 4 inputs (API, ScheduleTask, MarkNodeDegraded) | `RunningHasRunner`, `PendingIsServed`, `DegradedIsTemporary` | hold |
| `cancel` | 1 daemon, 1 task, CancelTask | `CancelIsFinal` | violated |
| `rebalance` | 2 daemons, 1 task, RebalanceTask | `RunByItsTarget` | violated |
| `stuck` | 1 daemon, 1 task, no brain, 1 crash, 2 starts | `RunningEnds` | violated |
| `follower` | 2 daemons, no brain, 1 fault | `StartedNodeServes` | violated |
| `storage` | a node among others: 3 indices, 2 kinds of entry, batches of 2, 1 vote, 1 crash, 2 snapshots | `TypeOK`, `PromisesSurvive`, `PromisesAreKept`, `AppliedSurvives`, `NothingAppliedTwice`, `SnapshotNotAhead` | hold |
| `restore` | a single node: 2 indices, 1 crash | `RestoredStateIsComplete` | violated |
| `tracker` | 2 variants (compared and not), 2 subjects, plans of 3, 5 actions, history of 2 | `TypeOK`, `NoSimilarOpen`, `FailuresStayOpen`, `NothingRecentlyFailed` | hold |
| `retry` | 1 action, proposed in every plan | `FailedIsRetried` | violated |
| `enroll` | 2 concurrent calls, 2 tokens, 2 nodes, 3 starts | `TypeOK`, `SpentStaysSpent`, `UnusedTokenStays`, `AuthorityIsKept` | hold |

**What the passing runs show.**

* `cluster`: whatever crashes, elections and lost writes come in between, a node
  executes a task no more often than the log has assigned it to that node, and
  no view shows Completed or Failed for a task nobody executed. The reason is
  that `run_task` marks the task Running and waits until its own view says so
  before it executes anything. With one task, all conflicts are about that task,
  which is where the hazards are; two faults allow leader to follower and back;
  three inputs are a submission and two moves, there and back. And the loops of a
  daemon never run before its own registration has arrived: `register_self`
  waits, and an election that drops the entry ends `run` instead.
* `single`: the deployment the shipped program makes. The planner's limit holds
  in every view because `execute` waits for its write before the next action is
  validated. The view and the runner agree while a payload is executed, and a
  finished task is never touched again. No task is for a node nobody serves,
  although a target the model forgot is an empty name and the view of a plan is
  old. `ImplementsBoard` says all of it at once: whatever crashes, restarts and
  stale lists come in between, what happens on a node's board is what `TaskBoard`
  allows. The agreement, the end and the board hold *only* without CancelTask and
  RebalanceTask, as the next runs show; the API and other daemons do not disturb
  them, as the proofs show. The limit holds only for one daemon whose API gets no
  task: POST `/tasks` asks no policy, so two
  requests pass the limit by themselves, and another leader has a view of
  its own.
* `live`: without faults every task the daemon sees as its own and Pending ends,
  with the planner and the API writing in between, and a node marked Degraded is
  Healthy again after its next heartbeat: a brain cannot take a running node out
  of service by a mark.
* `storage`: a vote or an entry is durable when the call returns, and no later
  call takes it back, unless it purges an entry or replaces one that was never
  committed; replaying after a kill repeats no command, because last_applied is
  written first, at the price of the loss that `restore` shows; that loss is of
  the batch at hand only: what an apply has returned for is in every state a kill
  may bring back, at any later point of any later call (`AppliedSurvives`); a
  snapshot never contains more than its label says. Three indices allow an entry
  that is applied, one in the batch at hand and one appended behind; two kinds of
  entry a command and a membership.
* `enroll`: a call that begins after its token was answered for, expired or was
  forgotten at a restart is never answered, though the token stays in the map
  while other calls are at work; a refused call costs nothing; and no certificate is issued until
  both files of the authority are complete, so the next start finds the same
  authority. Two calls are enough for an overlap and, as calls come one after the
  other too, for a call after an answer; three starts for a save cut short, one
  that replaces what is left, and a load. Calls, tokens and nodes are symmetric.
* `tracker`: the check before `track_action` keeps similar actions apart, within
  a plan and across plans. But no action fails twice: a failed one stays in the
  tracker for good (`FailuresStayOpen` counts them against the failures of a
  goal), so the history never holds a failure and `is_recently_failed` never has
  anything to compare with (`NothingRecentlyFailed`). Plans of three are enough
  for a repetition after a failure in the same plan; five actions for a history
  that overflows. `max_retries` is 3 as in the code; 1000 and 10 become 2.

**What the violations show** (each is quoted against the documentation in
`PROJECT.json`, `findings`).

* `cancel`: the runner's list was read at its tick; run_task does not look again.
  A task cancelled while an earlier one runs goes from Cancelled to Running to
  Completed. (`daemon.rs:194-207`, `executor/mod.rs:148-154`)
* `rebalance`: the old node's outcome is written by task id and lands on the
  moved task: Completed, for a node that has never run it.
  (`executor/mod.rs:168-174`)
* `follower`: writes of a node that does not lead are refused and not forwarded,
  so its tasks stay Pending as long as another node leads.
  (`raft_node.rs:90-97`)
* `restore`: `set_last_applied` precedes the effect, `save_state_snapshot` ends
  the batch; a kill in between loses the effect. (`storage.rs:386`, `413`)
* `stuck`: killed between the writes of Running and of the outcome, a daemon that
  is back, registered and leading leaves the task Running for good: its loop looks
  for Pending tasks, the validator goes on counting it. A refused write of the
  outcome leaves a task in the same state. (`executor/mod.rs:148-174`,
  `daemon.rs:194-203`)
* `retry`: `mark_failed` makes the action Proposed again for a retry that nobody
  makes, and as long as it is there every similar proposal is skipped as a
  duplicate. The counterexample is a brain that proposes the action in every
  plan. (`daemon.rs:266`, `293`; `tracker.rs:117-119`)

The runs `cluster`, `rebalance` and `follower` have two daemons. The shipped program only
forms clusters of one (nothing calls `add_peer`; `peers` is only tested for
being empty, `daemon.rs:97`), but `RaftReplicator::raft()` is public for an
embedding program to extend the membership, and the README of the repository
announces several nodes.

**Fairness.** `Spec` has none. `FairSpec`, used by `live`, `stuck` and `follower`, has
weak fairness of `ApplyEntry(n)` (openraft's own tasks apply what is committed)
and of `RunnerStep(n)` (the ticker fires every 2 s, and every payload ends:
`runner.rs` puts a time limit of 30, 60 or 300 s on each external command), and
of `Heartbeat(n)` (its ticker fires every `heartbeat_interval_secs`).
Nothing is assumed of the planner, the API, restarts or elections: nothing in
the code obliges them to happen. In `follower` the counterexample is a loop of
the runner itself, which fairness cannot exclude; in `stuck` it ends in a state in
which no fair step is enabled: there is nothing left that anybody would do. `ActionTracker` has a
`FairSpec` of its own, for `retry`: the planner loop goes on (the ticker fires,
the brain and the executor return) and its brain goes on proposing something.

**Bounds**, all CONSTANTS: `MaxFaults` (crashes and changes of a live leader),
`MaxInputs` (commands by the API and planners in the log), `MaxStarts`
(registrations in the log); `MaxIndex`, `MaxVote`, `MaxBatch`, `MaxCrashes`,
`MaxSnapshots`; `MaxPlan` and `MaxActions` (identifiers the tracker gives out). In `Enrollment`,
`MaxStarts` bounds the starts of the process; each call is made once.
The log is otherwise unbounded, and finite because every status
write belongs to an input and every heartbeat that is a step to a mark. `single` uses symmetry of task names, which no
property or action tells apart; it checks no liveness.

Each property of a passing run comes with a mutant: a definition of the model
changed the way a plausible bug would change the code (`RunnerExecUnacknowledged`
runs the payload without waiting, `ApplyThenMark` writes last_applied after the
batch, `AppendUnflushed` forgets a flush, ...). The mutated forms stand in front
of the definitions they replace; nothing else uses them. TLC finds each property
violated under its mutant.

## The proofs

`tlapm` on `HiveStateProofs.tla`, `TaskLifecycleProofs.tla`,
`RegistrationProofs.tla`, `TaskBoardProofs.tla`, `WorkloadProofs.tla`,
`ActionTrackerProofs.tla`, `EnrollmentProofs.tla` and `SledStorageProofs.tla`
checks everything below, for every number of daemons, tasks, nodes, payloads, every policy and
every bound.

Assumptions: `AbsentIsNoValue` (the value for a missing entry is no value of its
own kind), `DaemonsAreNodes`, `SeedsAreDaemons`, `NamelessIsAName`, `EnrollmentAssumption`, all about the naming of constants,
`LimitIsNatural`, that `max_concurrent_tasks_per_node` is a natural number (a
`usize` in the code), `EntriesAssumption`, the same of the storage's bounds and that
an entry is not the mark for none, and `TrackerAssumption`, that the tracker's
limits are natural numbers, `max_history` at least 1 and `max_retries` at least 2.
TLC evaluates them in every run. Some theorems hold under a choice of constants,
which is their hypothesis: `NoMoves` (`ActionTypes` without CancelTask and
RebalanceTask), `OneDaemon`, `ApiPayload = {}` (no task by the API),
`MaxFaults = 0`. The runs `single` and `live` are such instances, and the runs `cancel`
and `rebalance` show that `NoMoves` is needed.

* **`TypeCorrect`**: `Spec => []TypeOK`. `TypeOK` is inductive. The part with
  content is `applied[n] <= Len(log)`, which depends on an election keeping what
  anyone has applied (`TakeLeadType`), and that `Apply` and `CommandsFor` stay
  within their types (`ApplyType`, `CommandsForPlanned`).
* **`FinishedWasRunCorrect`**: `Spec => []FinishedWasRun`. A view shows what the
  log says, so the invariant must speak of the whole way an outcome takes.
  `Honest` is: an entry of the log that reports Completed or Failed is about a
  task some node has run, and a PutTask in the log is Pending; a command a
  planner is about to write reports no outcome at all; a runner past its
  execution has run its task; a view shows Completed or Failed for such tasks
  only. `runs` only grows (`RunsGrow`), so an honest entry stays honest
  (`HonestGrows`), appends keep the log honest (`HonestAppend`), applying an
  entry keeps the view honest (`ApplyFinished`), and an election only removes
  entries.
* **`AtMostOnceCorrect`**: `Spec => []AtMostOncePerAssignment`, the main result.
  `runs[n][t] <= Cardinality(Grants(n, t))` is not inductive: the next execution
  must be paid for before it happens. `Once` adds that an assignment is *owed*,
  `runs[n][t] < Cardinality(Grants(n, t))`, to every task that n's view shows
  Pending, that is in the runner's list, or whose Running the runner waits for.
  The hard case is a task assigned to n again while n executes it: then, once
  the Running the runner waited for has been applied, a task that is Pending has
  been put again *after* it, and two assignments are owed. This needs `Honest`
  (no status write makes a task Pending) and that the awaited index still holds
  the runner's own entry (`BeganWith`), which elections respect by turning it
  into `Lost`. `GrantsStep` and `ApplyPending` say what applying an entry does to
  both sides; `Unaffected` and `Bystander` carry the invariant through the steps
  that touch neither.

* **`TrackerTypeCorrect`**, **`NoSimilarOpenCorrect`**,
  **`FailuresStayOpenCorrect`**, **`NothingRecentlyFailedCorrect`**: the four
  invariants of `tracker`, for any plans, any number of actions and any limits.
  None is inductive alone; they are proved together from `Inv`, whose own part is
  `Tracks`: only the action the loop is waiting for is Executing, and it has not
  failed before. So a sweep finds nothing (`SweepFindsNothing`), a failure is
  always the first one and never final, and what fails stays (`FS_AddElement`
  counts it). `RememberType` is the lemma about `add_to_history`: its result has
  the right type and length whatever it is given.

* **`ServesRegisteredCorrect`**: `Spec => []ServesRegistered`. The invariant
  `Registry` ties the views to the log: n sees m registered exactly if an entry
  n has applied registers m, there is no RemoveNode in the log or in the hands of a
  planner, and the index a `register_self` waits for holds its own registration.
  `LogSteps` reduces every step of the system to four: nothing, one command
  appended, one entry applied, a cut at an election. Once seen, a registration is
  never lost again (`RegistryGrows`).
* **`TargetIsRegisteredCorrect`**: `Spec => []TargetIsRegistered` if
  `ApiPayload = {}`, i.e. tasks come from the brains. `Targets` follows the target
  from the view it was validated against: a PutTask a planner holds is for a node
  registered in the part of the log its daemon has applied, a PutTask in the log
  for one registered before it. Hence it may be late, but never wrong.
* **`EnrollmentTypeCorrect`**, **`SpentStaysSpentCorrect`**,
  **`UnusedTokenStaysCorrect`**, **`AuthorityIsKeptCorrect`**: the four invariants of `enroll`, for any number of
  tokens, nodes, calls and starts, from one inductive invariant. Its files part
  enumerates where `save` can stand (`Saving`), says that a key on the disk comes
  with its certificate (`FilesFit`), and that a manager that is up holds what is
  on the disk (`Holds`): a start replaces the authority only where there is no key,
  hence where nothing was ever signed. Its tokens part is that an answered token
  is no longer in the map (`TokensInv`), and that a call that began late has a
  spent token and is not past its checks (`LateInv`).

* **`ExecutingIsRunningCorrect`**, **`FinishedIsFinalCorrect`**: under `NoMoves`,
  for any number of daemons and with the API. The invariant `BoardInv` speaks of
  the *history* of a task, what the first k entries of the log say of it: put,
  taken, over. `PutOnce`: a task is put once, by the log or by one planner;
  `Ordered`: each entry may follow the ones in front of it (`InOrder`), so nothing
  follows an end, and an end follows a Running and an execution by the target;
  `Shown`: every view tells exactly what the entries applied to it tell (`Tells`);
  `Working`: a runner works on tasks of its own, and what it has executed is taken
  in its view and not over in the log. Because a history is a matter of a prefix,
  an election can only shorten it, and what some node has applied is never cut.
  That a runner's end of a task is the first one is the hard step: it rests on
  `Working` and on `AtMostOnceCorrect`'s `BeganWith`.
* **`ImplementsBoardCorrect`**: `Spec => ImplementsBoard` under `NoMoves`, the
  refinement. `BoardsInit` maps the initial states; `BoardsStep` maps each step:
  applying an entry puts, takes or ends a task on one board or stutters, an
  execution is `Execute`, whose guard (Running, and not executed before) is
  `Working` with `Once`, and everything else stutters. The steps of the cluster are
  the four of `LogSteps`.
* **`RunningHasRunnerCorrect`**: `Spec => []RunningHasRunner` under `NoMoves` and
  `MaxFaults = 0`. `Stable` says of the whole log that what is taken and not over
  is in the hands of the leader's runner (`InHandOf`), and that no awaited index is
  lost; with the view at the end of the log, `Shown` turns that into the property.
* **`ActiveWithinLimitCorrect`**: `Spec => []ActiveWithinLimit` under `NoMoves`,
  `OneDaemon` and `ApiPayload = {}`. The limit is checked long before the task is
  counted, so `Limit` follows the one task on its way: at most one PutTask is in
  the log behind what is applied, and none while the planner holds another
  (`Announced`, `Careful`), and there is `Room` for it in the view. That the planner waits
  for its write is what makes it one. A restart does not disturb this: what is left
  in the log is applied before the daemon runs again, since it waits for its own
  registration.
* **`SledStorageProofs`**: the six properties of `storage` for any size of log,
  batch, number of votes, crashes and snapshots. A kill may come between any two
  writes, so the invariant speaks of every disk it may leave and of every write
  still to be made. **`TypeCorrect`** takes `AllSound`, that no write names an index
  outside the log (an apply writes `first + (k - 1) \div 2`).
  **`NothingAppliedTwiceCorrect`** and **`SnapshotNotAheadCorrect`** come from
  `ApplyInv`: a command still to be run has not been run, and last_applied will be
  there before it (`AppliesOnce`); the state is never ahead of last_applied but
  between the two writes of a received snapshot (`StateNotAhead`); what a builder copied in
  that gap is covered by the snapshot openraft then holds already, so it is thrown
  away (`BuilderNotAhead`). **`PromisesSurviveCorrect`**, **`PromisesAreKeptCorrect`**
  and **`PurgedIsAppliedCorrect`** come from `PromiseInv`: no write to come breaks a
  promise (`KeepsPromises`); a call without a flush at its end can only remove, so
  disks that agreed on what is promised still do (`Settled`); and openraft purges
  what its snapshot covers, which is applied (`SnapshotApplied`). The last one is
  why a crash within a purge is harmless. **`AppliedSurvivesCorrect`** comes from
  `SurviveInv`: a call that runs a command saves the state in front of the flush
  that ends it (`SavesAfter`), so where no save is to come the state is the saved
  one (`SavedIsState`) and where no flush is to come every disk has it
  (`SavedIsDurable`); what runs is committed (`CommandsOnly`), so a state a process
  restores or receives never has less than was promised (`StateHasPromised`).

Only model-checked: liveness, i.e. `PendingIsServed` and `DegradedIsTemporary`
(TLAPS has no rule here for fairness and ENABLED). Every other property of a
passing run is proved. The violated ones are counterexamples, which need no proof.

## Not modelled

* openraft, sled, tokio, rcgen and rustls: libraries. Their contracts are the
  external definitions of the model, and their guards name what is assumed. The
  Raft transport (`network.rs`, `raft_api.rs`) hands openraft's messages over
  HTTP, one request each, and has no state: what loss and repetition do to the
  log is inside openraft, and `Replicator` has the outcomes.
* The attachment registry: nothing in the daemon fills it, `sync_from_cluster`
  is called by tests only. RemoveNode and RemoveGoal are in `Apply` but no code
  sends them.
* `flockctl`, a client of the HTTP API without state; the TOML file; the prompt
  and the HTTP call of the LLM, whose outcome is any answer; the contents of
  certificates, `NodeCertificate`'s files and the TLS configurations, made in one
  sequential call each.
* `require_approval_for_destructive`: configured (`config.rs:99`), read by no
  code. `parse_action` (`planner.rs:197-322`) knows no CreateAttachment,
  RemoveAttachment or DockerRun, though the README of the repository lists them;
  `Executor` handles them as the code does, no brain of the model proposes them.
* A restarted seed: `Start` takes it to `failed`, because openraft refuses
  `initialize` where there is a membership (`daemon.rs:97`); the API goes on and
  no loop runs. A `node_id` generated at every start (`config.rs:144`) makes a
  restarted daemon a stranger: in the model one that has left and one outside
  `Daemon`.
* Raft ids: 8 bytes of the name (`daemon.rs:34-41`), so names that agree there
  collide; `add_peer` parses the name as a number (`raft_node.rs:117`) and adds
  voters as learners.
* What openraft makes of a log with a hole, which a kill within
  `delete_conflict_logs_since` can leave (`storage.rs:325`; the states are in
  `SledStorage`), or of a leader that has no snapshot to send to a node
  that lags behind its purged log (`storage.rs:485`).
* Text, logging, time stamps, metrics and the command line.

## The plan

In this order; done parts are marked.

1. *(done)* `HiveState`, `Executor`, `Replicator`, `TaskLifecycle` with their
   runs and the three theorems.
2. *(done)* `SledStorage` with its runs.
3. *(done)* `ActionTracker` with its runs and the four theorems.
4. *(done)* `LlmPlanner`: the brain's answers as the code reads them. The
   heartbeat, the marks it undoes and the registration it needs, with two theorems.
5. *(done)* `TaskBoard`, which `TaskLifecycle` implements where nothing is
   cancelled or moved, checked by TLC.
6. *(done)* `Enrollment` and the authority's files, with four theorems.
7. *(done)* The refinement proved, with `ExecutingIsRunning` and
   `FinishedIsFinal`, for `ActionTypes` without CancelTask and RebalanceTask.
8. *(done)* Proofs about `SledStorage`, with an invariant over all of `disks` and
   `todo`.
9. *(done)* `ActiveWithinLimit` for one daemon, `RunningHasRunner` without faults.
10. *(done)* What `SledStorage` keeps where the run `restore` shows a loss: a kill
    costs at most commands of the batch at hand, `AppliedSurvives`, checked and
    proved.

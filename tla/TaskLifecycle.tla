---------------------------- MODULE TaskLifecycle ----------------------------
(***************************************************************************)
(* The life of a task in a FlockMind cluster: it is put in the log by the  *)
(* API or by the brain of the leader, picked up by the task runner loop of *)
(* its target node, marked Running, executed, and marked Completed or      *)
(* Failed.  The module composes the replicator with the three activities   *)
(* of a daemon that touch tasks: start-up (HiveDaemon::run), the task      *)
(* runner loop and the planner loop, each interleaved at its awaits, with  *)
(* the heartbeat loop and with the HTTP API.                               *)
(*                                                                         *)
(* Left out: the tracker the planner consults, which can only make it skip *)
(* actions; the shutdown watch (a graceful stop is a Crash: main waits 5   *)
(* seconds, then drops whatever is running).                               *)
(***************************************************************************)
EXTENDS Replicator, LlmPlanner

CONSTANTS Seed,          \* the daemon, if any, that may be configured without peers
          Brained,       \* the daemons with an LLM brain; NoOpBrain does nothing
          ApiPayload,    \* payloads submitted through POST /tasks
          ApiTarget,     \* the target nodes they name
          MaxFaults,     \* bound: crashes and changes of a live leader
          MaxInputs,     \* bound: commands by the API and the planners in the log
          MaxStarts      \* bound: registrations in the log

ASSUME SeedsAreDaemons ==
  /\ Seed \subseteq Daemon
  /\ \A m, n \in Seed : m = n
  /\ Brained \subseteq Daemon
  /\ ApiPayload \subseteq Payload
  /\ ApiTarget \subseteq NodeId

VARIABLES initialized,   \* the Raft cluster has its first membership
          phase,         \* phase[n]: how far daemon n has started
          joining,       \* joining[n]: the index register_self waits for
          runner,        \* runner[n]: the task runner loop
          planner,       \* planner[n]: the planner loop
          runs,          \* runs[n][t]: history, executions of t begun by n
          faults         \* crashes and changes of a live leader so far

daemonVars == <<initialized, phase, joining>>
vars == <<replicatorVars, daemonVars, runner, planner, runs, faults>>

Phase == {"down", "booted", "registering", "running", "failed"}

\* queue: my_pending_tasks still to be run; cur: the task at hand; await: the
\* index a write waits for; ok: the runner returned Ok.
Runner ==
  [pc : {"idle"}, queue : SUBSET TaskId, cur : {Absent}, await : {Lost}, ok : {FALSE}]
  \cup
  [pc : {"starting", "finish", "finishing"}, queue : SUBSET TaskId, cur : TaskId,
   await : Nat, ok : BOOLEAN]

IdleRunner ==
  [pc |-> "idle", queue |-> {}, cur |-> Absent, await |-> Lost, ok |-> FALSE]

\* The list of a tick, or what is left of it.
WithQueue(r, tasks) == [r EXCEPT !.queue = tasks]

\* run_task is called for t and waits for its first write.
Begin(r, t, index) ==
  [r EXCEPT !.pc = "starting", !.queue = @ \ {t}, !.cur = t, !.await = index]

\* The payload has been run.
Ended(r, ok) == [r EXCEPT !.pc = "finish", !.await = Lost, !.ok = ok]

\* run_task waits for its second write.
Finishing(r, index) == [r EXCEPT !.pc = "finishing", !.await = index]

\* run_task has returned; the loop goes on with its list.
NextTask(r) == [IdleRunner EXCEPT !.queue = r.queue]

\* command: what execute is about to replicate.
Planner ==
  [pc : {"idle", "acting"}, command : {Absent}, await : {Lost}]
  \cup [pc : {"write"}, command : ClusterCommand, await : {Lost}]
  \cup [pc : {"wait"}, command : {Absent}, await : Nat]

IdlePlanner == [pc |-> "idle", command |-> Absent, await |-> Lost]

\* Between two actions, with a command to write, and waiting for the write.
Acting == [pc |-> "acting", command |-> Absent, await |-> Lost]
Prepared(command) == [pc |-> "write", command |-> command, await |-> Lost]
Written(index) == [pc |-> "wait", command |-> Absent, await |-> index]

\* What an actor waits for, when the log is cut to this length.
AfterCut(actor, length) ==
  [actor EXCEPT !.await = StillAwaited(@, length)]

\* Types of the variables.
TypeOK ==
  /\ ReplicatorTypeOK
  /\ initialized \in BOOLEAN
  /\ phase \in [Daemon -> Phase]
  /\ joining \in [Daemon -> Nat]
  /\ runner \in [Daemon -> Runner]
  /\ planner \in [Daemon -> Planner]
  /\ runs \in [Daemon -> [TaskId -> Nat]]
  /\ faults \in Nat

Init ==
  /\ ReplicatorInit
  /\ initialized = FALSE
  /\ phase = [n \in Daemon |-> "down"]
  /\ joining = [n \in Daemon |-> Lost]
  /\ runner = [n \in Daemon |-> IdleRunner]
  /\ planner = [n \in Daemon |-> IdlePlanner]
  /\ runs = [n \in Daemon |-> [t \in TaskId |-> 0]]
  /\ faults = 0

-----------------------------------------------------------------------------
(***************************************************************************)
(* Bounds of a run.                                                        *)
(***************************************************************************)
InputOps == {"PutTask", "PutGoal", "PutAttachment", "RemoveAttachment"}

\* An entry written by the API or a planner, not by a runner or a heartbeat.
IsInput(c) ==
  \/ c.op \in InputOps
  \/ c.op = "UpdateTaskStatus" /\ c.status = "Cancelled"
  \/ c.op = "UpdateNodeHealth" /\ c.health = "Degraded"

\* The commands the planners are about to write count too.
RoomForInput ==
  Cardinality({i \in DOMAIN log : IsInput(log[i])})
    + Cardinality({n \in Daemon : planner[n].command # Absent}) < MaxInputs

RoomForStart ==
  Cardinality({i \in DOMAIN log : log[i].op = "RegisterNode"}) < MaxStarts

\* A new UUID: in no entry and in no command about to be written.
FreshTask ==
  {t \in TaskId \ {Nameless} :
     /\ \A i \in DOMAIN log : log[i].op = "PutTask" => log[i].task_id # t
     /\ \A n \in Daemon : /\ planner[n].command # Absent
                          /\ planner[n].command.op = "PutTask"
                          => planner[n].command.task_id # t}

FreshAttachment ==
  {a \in AttachmentId :
     /\ \A i \in DOMAIN log : log[i].op = "PutAttachment" => log[i].attachment_id # a
     /\ \A n \in Daemon : /\ planner[n].command # Absent
                          /\ planner[n].command.op = "PutAttachment"
                          => planner[n].command.attachment_id # a}

-----------------------------------------------------------------------------
(***************************************************************************)
(* Start-up, stop and elections.                                           *)
(***************************************************************************)
\* HiveDaemon::new: the storage is opened, the state restored, the HTTP
\* server started.  The API and Raft work from here on.
Boot(n) ==
  /\ phase[n] = "down"
  /\ phase' = [phase EXCEPT ![n] = "booted"]
  /\ UNCHANGED <<replicatorVars, initialized, joining, runner, planner, runs, faults>>

\* HiveDaemon::run up to the await in register_self.  A daemon configured
\* without peers initializes the cluster, which openraft refuses with
\* NotAllowed where there is one already (and lets it lead at once where there
\* is none); then register_self writes.  Any error ends run: no loop is
\* spawned, while the HTTP server goes on.  The peers may have been edited
\* since the last start.
Start(n) ==
  /\ phase[n] = "booted"
  /\ \E alone \in IF n \in Seed THEN BOOLEAN ELSE {FALSE} :
       LET accepted == IF alone THEN ~ initialized ELSE leader = n
       IN \/ /\ accepted
             /\ RoomForStart
             /\ log' = Append(log, RegisterNode(n))
             /\ leader' = n
             /\ initialized' = TRUE
             /\ phase' = [phase EXCEPT ![n] = "registering"]
             /\ joining' = [joining EXCEPT ![n] = Len(log) + 1]
          \/ /\ ~ accepted
             /\ phase' = [phase EXCEPT ![n] = "failed"]
             /\ UNCHANGED <<log, leader, initialized, joining>>
  /\ UNCHANGED <<applied, hive, runner, planner, runs, faults>>

\* The loops started without waiting for register_self.
RegisteredUnacknowledged(n) ==
  /\ phase[n] = "registering"
  /\ phase' = [phase EXCEPT ![n] = "running"]
  /\ joining' = [joining EXCEPT ![n] = Lost]
  /\ UNCHANGED <<replicatorVars, initialized, runner, planner, runs, faults>>

\* register_self returns: the loops start, or run returns its error.
Registered(n) ==
  /\ phase[n] = "registering"
  /\ \/ /\ Acknowledged(n, joining[n])
        /\ phase' = [phase EXCEPT ![n] = "running"]
     \/ /\ joining[n] = Lost
        /\ phase' = [phase EXCEPT ![n] = "failed"]
  /\ joining' = [joining EXCEPT ![n] = Lost]
  /\ UNCHANGED <<replicatorVars, initialized, runner, planner, runs, faults>>

\* The process ends, at any point; what it was doing is forgotten.
Crash(n) ==
  /\ faults < MaxFaults
  /\ faults' = faults + 1
  /\ phase[n] # "down"
  /\ LoseLeader(n)
  /\ phase' = [phase EXCEPT ![n] = "down"]
  /\ joining' = [joining EXCEPT ![n] = Lost]
  /\ runner' = [runner EXCEPT ![n] = IdleRunner]
  /\ planner' = [planner EXCEPT ![n] = IdlePlanner]
  /\ UNCHANGED <<initialized, runs>>

Elect(n) ==
  /\ initialized
  /\ phase[n] # "down"
  /\ \/ leader = NoLeader /\ faults' = faults
     \/ leader # NoLeader /\ faults < MaxFaults /\ faults' = faults + 1
  /\ \E length \in 0..Len(log) :
       /\ TakeLead(n, length)
       /\ joining' = [m \in Daemon |-> StillAwaited(joining[m], length)]
       /\ runner' = [m \in Daemon |-> AfterCut(runner[m], length)]
       /\ planner' = [m \in Daemon |-> AfterCut(planner[m], length)]
  /\ UNCHANGED <<initialized, phase, runs>>

ApplyEntry(n) ==
  /\ phase[n] # "down"
  /\ ApplyNext(n)
  /\ UNCHANGED <<daemonVars, runner, planner, runs, faults>>

-----------------------------------------------------------------------------
(***************************************************************************)
(* The task runner loop of node n and HiveExecutor::run_task.              *)
(***************************************************************************)
\* The same without the status.
MyTasks(n) ==
  {t \in TaskId : /\ hive[n].tasks[t] # Absent
                  /\ hive[n].tasks[t].target_node = n}

MyPendingTasks(n) ==
  {t \in TaskId : /\ hive[n].tasks[t] # Absent
                  /\ hive[n].tasks[t].target_node = n
                  /\ hive[n].tasks[t].status = "Pending"}

\* A tick that finds something: the loop works through this list before it
\* looks at the state again.
RunnerTick(n) ==
  /\ phase[n] = "running"
  /\ runner[n].pc = "idle" /\ runner[n].queue = {}
  /\ MyPendingTasks(n) # {}
  /\ runner' = [runner EXCEPT ![n] = WithQueue(@, MyPendingTasks(n))]
  /\ UNCHANGED <<replicatorVars, daemonVars, planner, runs, faults>>

\* A refused write of Running reported as a failed task.
RunnerStartReportsRefusal(n) ==
  /\ runner[n].pc = "idle"
  /\ \E t \in runner[n].queue :
       \/ /\ ClientWrite(n, UpdateTaskStatus(t, "Running", FALSE))
          /\ runner' = [runner EXCEPT ![n] = Begin(@, t, Len(log) + 1)]
       \/ /\ leader # n
          /\ runner' = [runner EXCEPT ![n] = Ended(Begin(@, t, Lost), FALSE)]
          /\ UNCHANGED replicatorVars
  /\ UNCHANGED <<daemonVars, planner, runs, faults>>

\* run_task writes Running for the next task of the list; when the write is
\* refused it returns the error and the task is skipped.
RunnerStart(n) ==
  /\ runner[n].pc = "idle"
  /\ \E t \in runner[n].queue :
       \/ /\ ClientWrite(n, UpdateTaskStatus(t, "Running", FALSE))
          /\ runner' = [runner EXCEPT ![n] = Begin(@, t, Len(log) + 1)]
       \/ /\ leader # n
          /\ runner' = [runner EXCEPT ![n] = WithQueue(@, @.queue \ {t})]
          /\ UNCHANGED replicatorVars
  /\ UNCHANGED <<daemonVars, planner, runs, faults>>

\* TaskRunner::run: an echo succeeds, an arbitrary command or a custom tool
\* never does, anything else depends on the host.
Outcomes(payload) ==
  CASE payload.kind = "Echo" -> {TRUE}
    [] payload.kind \in {"RunCommand", "Custom"} -> {FALSE}
    [] OTHER -> BOOLEAN

\* The payload run without waiting for the write of Running.
RunnerExecUnacknowledged(n) ==
  /\ runner[n].pc = "starting"
  /\ runs' = [runs EXCEPT ![n][runner[n].cur] = @ + 1]
  /\ \E ok \in Outcomes(hive[n].tasks[runner[n].cur].payload) :
       runner' = [runner EXCEPT ![n] = Ended(@, ok)]
  /\ UNCHANGED <<replicatorVars, daemonVars, planner, faults>>

\* The write of Running is acknowledged: the payload is run.
RunnerExec(n) ==
  /\ runner[n].pc = "starting"
  /\ Acknowledged(n, runner[n].await)
  /\ runs' = [runs EXCEPT ![n][runner[n].cur] = @ + 1]
  /\ \E ok \in Outcomes(hive[n].tasks[runner[n].cur].payload) :
       runner' = [runner EXCEPT ![n] = Ended(@, ok)]
  /\ UNCHANGED <<replicatorVars, daemonVars, planner, faults>>

\* Only a success is written.
RunnerFinishSuccess(n) ==
  /\ runner[n].pc = "finish"
  /\ \/ /\ runner[n].ok
        /\ ClientWrite(n, UpdateTaskStatus(runner[n].cur, "Completed", TRUE))
        /\ runner' = [runner EXCEPT ![n] = Finishing(@, Len(log) + 1)]
     \/ /\ leader # n \/ ~ runner[n].ok
        /\ runner' = [runner EXCEPT ![n] = NextTask(@)]
        /\ UNCHANGED replicatorVars
  /\ UNCHANGED <<daemonVars, planner, runs, faults>>

\* The payload has ended: its outcome is written, or the write is refused and
\* the task stays as it is.
RunnerFinish(n) ==
  /\ runner[n].pc = "finish"
  /\ \/ /\ ClientWrite(n, UpdateTaskStatus(runner[n].cur,
                                           IF runner[n].ok THEN "Completed" ELSE "Failed",
                                           runner[n].ok))
        /\ runner' = [runner EXCEPT ![n] = Finishing(@, Len(log) + 1)]
     \/ /\ leader # n
        /\ runner' = [runner EXCEPT ![n] = NextTask(@)]
        /\ UNCHANGED replicatorVars
  /\ UNCHANGED <<daemonVars, planner, runs, faults>>

\* A write of run_task fails, or the last one is acknowledged: run_task returns.
RunnerReturn(n) ==
  /\ \/ runner[n].pc \in {"starting", "finishing"} /\ runner[n].await = Lost
     \/ runner[n].pc = "finishing" /\ Acknowledged(n, runner[n].await)
  /\ runner' = [runner EXCEPT ![n] = NextTask(@)]
  /\ UNCHANGED <<replicatorVars, daemonVars, planner, runs, faults>>

RunnerStep(n) ==
  \/ RunnerTick(n)
  \/ RunnerStart(n)
  \/ RunnerExec(n)
  \/ RunnerFinish(n)
  \/ RunnerReturn(n)

-----------------------------------------------------------------------------
(***************************************************************************)
(* The planner loop of node n and HiveExecutor::execute.  The language     *)
(* model may answer anything, in any number.                               *)
(***************************************************************************)
PlannerTick(n) ==
  /\ n \in Brained
  /\ phase[n] = "running"
  /\ planner[n].pc = "idle"
  /\ leader = n
  /\ hive[n].goals # {}
  /\ planner' = [planner EXCEPT ![n] = Acting]
  /\ UNCHANGED <<replicatorVars, daemonVars, runner, runs, faults>>

\* execute validates an action against what n sees and prepares the command.
\* An action that is invalid or replicates nothing changes no state.
PlannerExecute(n) ==
  /\ planner[n].pc = "acting"
  /\ RoomForInput
  /\ \E a \in Proposals :
       /\ Validates(a, hive[n])
       /\ \E c \in CommandsFor(a, hive[n], FreshTask, FreshAttachment) :
            planner' = [planner EXCEPT ![n] = Prepared(c)]
  /\ UNCHANGED <<replicatorVars, daemonVars, runner, runs, faults>>

\* The command is handed to the replicator, which may refuse it.
PlannerWrite(n) ==
  /\ planner[n].pc = "write"
  /\ \/ /\ ClientWrite(n, planner[n].command)
        /\ planner' = [planner EXCEPT ![n] = Written(Len(log) + 1)]
     \/ /\ leader # n
        /\ planner' = [planner EXCEPT ![n] = Acting]
        /\ UNCHANGED replicatorVars
  /\ UNCHANGED <<daemonVars, runner, runs, faults>>

\* execute does not wait for its write.
PlannerReturnEarly(n) ==
  /\ planner[n].pc = "wait"
  /\ planner' = [planner EXCEPT ![n] = Acting]
  /\ UNCHANGED <<replicatorVars, daemonVars, runner, runs, faults>>

\* execute returns, with Ok or with the error of the write.
PlannerReturn(n) ==
  /\ planner[n].pc = "wait"
  /\ planner[n].await = Lost \/ Acknowledged(n, planner[n].await)
  /\ planner' = [planner EXCEPT ![n] = Acting]
  /\ UNCHANGED <<replicatorVars, daemonVars, runner, runs, faults>>

\* The list of actions is done.
PlannerDone(n) ==
  /\ planner[n].pc = "acting"
  /\ planner' = [planner EXCEPT ![n] = IdlePlanner]
  /\ UNCHANGED <<replicatorVars, daemonVars, runner, runs, faults>>

PlannerStep(n) ==
  \/ PlannerTick(n)
  \/ PlannerExecute(n)
  \/ PlannerWrite(n)
  \/ PlannerReturn(n)
  \/ PlannerDone(n)

-----------------------------------------------------------------------------
(***************************************************************************)
(* The HTTP API: neither request is validated.                             *)
(***************************************************************************)
\* POST /tasks
SubmitTask(n) ==
  /\ phase[n] # "down"
  /\ RoomForInput
  /\ \E t \in FreshTask, payload \in ApiPayload, target \in ApiTarget :
       ClientWrite(n, PutTask(t, NewTask(payload, target)))
  /\ UNCHANGED <<daemonVars, runner, planner, runs, faults>>

\* POST /goals
AddGoal(n) ==
  /\ phase[n] # "down"
  /\ RoomForInput
  /\ \E g \in GoalId \ {Nameless} :
       /\ \A i \in DOMAIN log : log[i].op = "PutGoal" => log[i].goal_id # g
       /\ ClientWrite(n, [op |-> "PutGoal", goal_id |-> g])
  /\ UNCHANGED <<daemonVars, runner, planner, runs, faults>>

-----------------------------------------------------------------------------
(***************************************************************************)
(* The heartbeat loop of node n: every heartbeat_interval_secs it writes   *)
(* that the node is Healthy, whatever the cluster thinks of it.  Only the  *)
(* heartbeats that change something are steps: the log says Degraded last. *)
(***************************************************************************)
HealthReports(n) ==
  {i \in DOMAIN log : /\ log[i].op \in {"RegisterNode", "UpdateNodeHealth"}
                      /\ log[i].node_id = n}

LastSaysDegraded(n) ==
  \E i \in HealthReports(n) :
    log[i].health = "Degraded" /\ \A j \in HealthReports(n) : j <= i

\* A heartbeat that leaves a node marked Degraded alone.
HeartbeatKeepsMark(n) ==
  /\ phase[n] = "running"
  /\ LastSaysDegraded(n)
  /\ hive[n].nodes[n] # "Degraded"
  /\ ClientWrite(n, [op |-> "UpdateNodeHealth", node_id |-> n, health |-> "Healthy"])
  /\ UNCHANGED <<daemonVars, runner, planner, runs, faults>>

Heartbeat(n) ==
  /\ phase[n] = "running"
  /\ LastSaysDegraded(n)
  /\ ClientWrite(n, [op |-> "UpdateNodeHealth", node_id |-> n, health |-> "Healthy"])
  /\ UNCHANGED <<daemonVars, runner, planner, runs, faults>>

-----------------------------------------------------------------------------
Next ==
  \E n \in Daemon :
    \/ Boot(n) \/ Start(n) \/ Registered(n) \/ Crash(n) \/ Elect(n)
    \/ ApplyEntry(n)
    \/ RunnerStep(n) \/ PlannerStep(n) \/ Heartbeat(n)
    \/ SubmitTask(n) \/ AddGoal(n)

Spec == Init /\ [][Next]_vars

(***************************************************************************)
(* Fairness: Raft goes on applying what was accepted; a task runner loop   *)
(* goes on: its ticker fires every 2 seconds and every payload ends, the   *)
(* external commands by a timeout at the latest; and so does a heartbeat   *)
(* loop, whose ticker fires every heartbeat_interval_secs.                 *)
(***************************************************************************)
FairSpec ==
  /\ Spec
  /\ \A n \in Daemon : /\ WF_vars(ApplyEntry(n))
                       /\ WF_vars(RunnerStep(n))
                       /\ WF_vars(Heartbeat(n))

-----------------------------------------------------------------------------
(***************************************************************************)
(* Properties.                                                             *)
(***************************************************************************)
HasStatus(s, t, statuses) == s.tasks[t] # Absent /\ s.tasks[t].status \in statuses

\* The entries node n has applied that hand it task t.
Grants(n, t) ==
  {i \in AppliedEntries(n) : /\ log[i].op = "PutTask"
                             /\ log[i].task_id = t
                             /\ log[i].task.target_node = n}

\* A node runs a task at most once for each time the log assigns the task to
\* it, whatever crashes, elections and stale lists come in between: run_task
\* marks the task Running, and waits for that, before it runs the payload.
AtMostOncePerAssignment ==
  \A n \in Daemon, t \in TaskId : runs[n][t] <= Cardinality(Grants(n, t))

\* A task anyone sees as Completed or Failed was run by some node: no status
\* is reported for a payload that was never executed.
FinishedWasRun ==
  \A n \in Daemon, t \in TaskId :
    HasStatus(hive[n], t, {"Completed", "Failed"})
      => \E m \in Daemon : runs[m][t] > 0

\* While a payload is being run, its own node sees the task as Running and
\* targeted at itself.  Holds where the brain neither cancels nor rebalances.
ExecutingIsRunning ==
  \A n \in Daemon :
    runner[n].pc = "finish" =>
      /\ HasStatus(hive[n], runner[n].cur, {"Running"})
      /\ hive[n].tasks[runner[n].cur].target_node = n

\* A finished task stays as it is in every view.  Holds where the brain
\* neither cancels nor rebalances.
FinishedIsFinal ==
  [][\A n \in Daemon, t \in TaskId :
       HasStatus(hive[n], t, {"Completed", "Failed"})
         => hive'[n].tasks[t] = hive[n].tasks[t]]_vars

\* No node is ever seen with more active tasks than max_concurrent_tasks_per_node.
\* Holds with one daemon, crashes included, whose brain only schedules.
ActiveWithinLimit ==
  \A n \in Daemon, m \in NodeId :
    Cardinality(ActiveTasks(hive[n], m)) <= MaxTasksPerNode

\* A task that is Running when the log is fully applied is in the hands of the
\* runner of its target.  Holds where nothing crashes and leadership is stable.
RunningHasRunner ==
  \A n \in Daemon, t \in TaskId :
    (applied[n] = Len(log) /\ HasStatus(hive[n], t, {"Running"}))
      => \E m \in Daemon : /\ m = hive[n].tasks[t].target_node
                           /\ runner[m].cur = t

\* Every task a started daemon sees as its own and Pending is brought to an
\* end.  Holds where nothing crashes and the daemon leads.
PendingIsServed ==
  \A n \in Daemon, t \in TaskId :
    (phase[n] = "running" /\ t \in MyPendingTasks(n))
      ~> HasStatus(hive[n], t, {"Completed", "Failed"})

\* The loops of a daemon run only once its own registration is in the state it
\* sees, whatever an election does to the entry: before that a heartbeat, which
\* updates and never inserts, would be dropped without a word, and no action
\* that names the node would validate.
ServesRegistered ==
  \A n \in Daemon : phase[n] = "running" => hive[n].nodes[n] # Absent

\* Every task a node sees is for a node it sees registered, though its planner
\* looked at an older view and a field the model forgot names nobody.  Holds
\* where tasks come from the brains: the API checks nothing.
TargetIsRegistered ==
  \A n \in Daemon, t \in TaskId :
    hive[n].tasks[t] # Absent => hive[n].nodes[hive[n].tasks[t].target_node] # Absent

\* The board of a node: the tasks targeted at it, as its own view shows them.
OnBoard(n, t) ==
  IF hive[n].tasks[t] # Absent /\ hive[n].tasks[t].target_node = n
  THEN hive[n].tasks[t].status
  ELSE "Unassigned"

Board == INSTANCE TaskBoard WITH
           Node   <- Daemon,
           status <- [n \in Daemon |-> [t \in TaskId |-> OnBoard(n, t)]]

\* The cluster keeps what TaskBoard promises, through crashes, elections, lost
\* writes and stale lists.  Holds where the brain neither cancels nor rebalances.
ImplementsBoard == Board!BoardSpec

\* MarkNodeDegraded never lasts for a daemon that runs: its next heartbeat says
\* Healthy again.  Holds where nothing crashes and the daemon leads.
DegradedIsTemporary ==
  \A n \in Daemon :
    (phase[n] = "running" /\ hive[n].nodes[n] = "Degraded")
      ~> hive[n].nodes[n] = "Healthy"

\* CancelTask cancels a pending task: once a view shows it Cancelled it stays so.
CancelIsFinal ==
  [][\A n \in Daemon, t \in TaskId :
       HasStatus(hive[n], t, {"Cancelled"})
         => HasStatus(hive'[n], t, {"Cancelled"})]_vars

\* RebalanceTask moves a task to another node: a task that has ended was run by
\* the node it was last moved to.
RunByItsTarget ==
  \A n \in Daemon, t \in TaskId :
    HasStatus(hive[n], t, {"Completed", "Failed"})
      => \E m \in Daemon : m = hive[n].tasks[t].target_node /\ runs[m][t] > 0

\* A started daemon takes up the tasks targeted at it, whoever leads.
StartedNodeServes ==
  \A n \in Daemon, t \in TaskId :
    (phase[n] = "running" /\ t \in MyPendingTasks(n))
      ~> (phase[n] # "running" \/ t \notin MyPendingTasks(n))

\* ScheduleTask runs a task on a node: what a started daemon that leads sees as
\* Running and its own is brought to an end, though the process that began it
\* was killed, unless the daemon stops or loses the lead.
RunningEnds ==
  \A n \in Daemon, t \in TaskId :
    (/\ phase[n] = "running" /\ leader = n
     /\ t \in MyTasks(n) /\ HasStatus(hive[n], t, {"Running"}))
      ~> (phase[n] # "running" \/ leader # n \/ ~ HasStatus(hive[n], t, {"Running"}))

=============================================================================

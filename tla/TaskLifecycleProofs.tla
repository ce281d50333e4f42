------------------------- MODULE TaskLifecycleProofs -------------------------
(***************************************************************************)
(* Proofs about TaskLifecycle, for every set of daemons, tasks, payloads   *)
(* and actions, any bounds and any policy.                                 *)
(***************************************************************************)
EXTENDS TaskLifecycle, HiveStateProofs, FiniteSetTheorems

(***************************************************************************)
(* What the brain and the API may put in the log.                          *)
(***************************************************************************)
Planned(c) ==
  /\ c \in ClusterCommand
  /\ c.op = "PutTask" => c.task.status = "Pending"
  /\ c.op = "UpdateTaskStatus" => c.status = "Cancelled"

\* A new task is a task, and Pending.
LEMMA NewTaskType ==
  ASSUME NEW payload \in Payload, NEW target \in NodeId
  PROVE  /\ NewTask(payload, target) \in Task
         /\ NewTask(payload, target).status = "Pending"
  BY DEF NewTask, Task, TaskStatus

LEMMA PutTaskPlanned ==
  ASSUME NEW t \in TaskId, NEW task \in Task, task.status = "Pending"
  PROVE  Planned(PutTask(t, task))
  BY DEF Planned, PutTask, ClusterCommand, PutTaskCommand

LEMMA StatusCommandType ==
  ASSUME NEW t \in TaskId, NEW status \in TaskStatus, NEW result \in BOOLEAN
  PROVE  /\ UpdateTaskStatus(t, status, result) \in ClusterCommand
         /\ UpdateTaskStatus(t, status, result).op = "UpdateTaskStatus"
         /\ UpdateTaskStatus(t, status, result).task_id = t
         /\ UpdateTaskStatus(t, status, result).status = status
  BY DEF UpdateTaskStatus, ClusterCommand, StatusCommand

LEMMA RegisterType ==
  ASSUME NEW n \in NodeId
  PROVE  Planned(RegisterNode(n))
  BY DEF Planned, RegisterNode, ClusterCommand, NodeCommand, NodeHealth

\* What a heartbeat replicates.
LEMMA HeartbeatPlanned ==
  ASSUME NEW n \in NodeId
  PROVE  Planned([op |-> "UpdateNodeHealth", node_id |-> n, health |-> "Healthy"])
  BY DEF Planned, ClusterCommand, NodeCommand, NodeHealth

\* What LlmPlanner makes of an answer is a plan of actions.
LEMMA ProposalsType == Proposals \subseteq BrainActions
<1> SUFFICES ASSUME NEW raw \in RawActions, NEW a \in ParseAction(raw)
             PROVE  a \in BrainActions
  BY DEF Proposals
<1>1. /\ Named(raw.node) \in NodeId /\ Named(raw.task_id) \in TaskId
      /\ Named(raw.goal_id) \in GoalId
  BY NamelessIsAName DEF RawActions, Named
<1>2. CASE raw.type = "ScheduleTask"
  <2>1. PICK p \in ParseTask(raw.task) :
          a = [type |-> "ScheduleTask", task |-> p, target_node |-> Named(raw.node)]
    BY <1>2 DEF ParseAction
  <2>2. p \in Payload
    BY DEF ParseTask, RawActions
  <2> QED
    BY <1>1, <2>1, <2>2 DEF BrainActions
<1>3. CASE raw.type \in {"RebalanceTask", "CancelTask", "UpdateGoalProgress",
                         "MarkNodeDegraded", "RequestHumanApproval", "NoOp"}
  BY <1>1, <1>3 DEF ParseAction, BrainActions
<1> QED
  BY <1>2, <1>3 DEF ParseAction

\* What HiveExecutor::execute replicates.
LEMMA CommandsForPlanned ==
  ASSUME NEW a \in BrainActions, NEW s \in HiveStates,
         NEW fresh \in SUBSET TaskId, NEW freshA \in SUBSET AttachmentId,
         NEW c \in CommandsFor(a, s, fresh, freshA)
  PROVE  Planned(c)
<1>1. CASE a.type = "ScheduleTask"
  <2>1. a.task \in Payload /\ a.target_node \in NodeId
    BY <1>1 DEF BrainActions
  <2>2. PICK t \in fresh : c = PutTask(t, NewTask(a.task, a.target_node))
    BY <1>1 DEF CommandsFor
  <2> QED
    BY <2>1, <2>2, NewTaskType, PutTaskPlanned
<1>2. CASE a.type = "CancelTask"
  <2>1. a.task_id \in TaskId
    BY <1>2 DEF BrainActions
  <2>2. c = UpdateTaskStatus(a.task_id, "Cancelled", FALSE)
    BY <1>2 DEF CommandsFor
  <2> QED
    BY <2>1, <2>2, StatusCommandType DEF Planned, TaskStatus
<1>3. CASE a.type = "RebalanceTask"
  <2>1. a.task_id \in TaskId /\ a.to_node \in NodeId
    BY <1>3 DEF BrainActions
  <2>2. /\ s.tasks[a.task_id] # Absent
        /\ c = PutTask(a.task_id, [s.tasks[a.task_id] EXCEPT !.target_node = a.to_node,
                                                            !.status = "Pending"])
    BY <1>3 DEF CommandsFor
  <2>3. s.tasks[a.task_id] \in Task
    BY <2>1, <2>2 DEF HiveStates
  <2> DEFINE moved == [s.tasks[a.task_id] EXCEPT !.target_node = a.to_node,
                                                 !.status = "Pending"]
  <2>4. moved \in Task /\ moved.status = "Pending"
    BY <2>1, <2>3 DEF Task, TaskStatus
  <2> QED
    BY <2>1, <2>2, <2>4, PutTaskPlanned
<1>4. CASE a.type = "MarkNodeDegraded"
  BY <1>4 DEF CommandsFor, BrainActions, Planned, ClusterCommand, NodeCommand, NodeHealth
<1>5. CASE a.type = "CreateAttachment"
  <2>1. a.node_id \in NodeId
    BY <1>5 DEF BrainActions
  <2>2. PICK i \in freshA :
          c = [op |-> "PutAttachment", attachment_id |-> i, node_id |-> a.node_id]
    BY <1>5 DEF CommandsFor
  <2> QED
    BY <2>1, <2>2 DEF Planned, ClusterCommand, AttachmentCommand
<1>6. CASE a.type = "RemoveAttachment"
  BY <1>6 DEF CommandsFor, BrainActions, Planned, ClusterCommand, AttachmentCommand
<1>7. CASE a.type \in {"UpdateGoalProgress", "RequestHumanApproval", "NoOp"}
  BY <1>7 DEF CommandsFor
<1> QED
  BY <1>1, <1>2, <1>3, <1>4, <1>5, <1>6, <1>7 DEF BrainActions

-----------------------------------------------------------------------------
(***************************************************************************)
(* Type correctness.  The steps that only move an actor leave the          *)
(* replicator alone, and those that write append one command.              *)
(***************************************************************************)
LEMMA ClientWriteType ==
  ASSUME ReplicatorTypeOK, NEW n \in Daemon, NEW c \in ClusterCommand,
         ClientWrite(n, c)
  PROVE  /\ ReplicatorTypeOK'
         /\ Len(log') = Len(log) + 1
         /\ \A i \in 1..Len(log) : log'[i] = log[i]
         /\ log'[Len(log) + 1] = c
  BY DEF ReplicatorTypeOK, ClientWrite

LEMMA TakeLeadType ==
  ASSUME ReplicatorTypeOK, NEW n \in Daemon, NEW length \in 0..Len(log),
         TakeLead(n, length)
  PROVE  /\ ReplicatorTypeOK'
         /\ Len(log') = length
         /\ \A i \in 1..length : log'[i] = log[i]
         /\ \A m \in Daemon : applied[m] <= length
<1>1. log' \in Seq(ClusterCommand) /\ Len(log') = length
  BY DEF ReplicatorTypeOK, TakeLead
<1>2. \A i \in 1..length : log'[i] = log[i]
  BY DEF ReplicatorTypeOK, TakeLead
<1>3. \A m \in Daemon : applied[m] <= length
  BY DEF TakeLead
<1>4. applied' \in [Daemon -> 0..length]
  BY <1>3 DEF ReplicatorTypeOK, TakeLead
<1> QED
  BY <1>1, <1>2, <1>3, <1>4 DEF ReplicatorTypeOK, TakeLead

LEMMA ApplyNextType ==
  ASSUME ReplicatorTypeOK, NEW n \in Daemon, ApplyNext(n)
  PROVE  /\ ReplicatorTypeOK'
         /\ applied[n] + 1 \in 1..Len(log)
         /\ log[applied[n] + 1] \in ClusterCommand
<1>1. applied[n] + 1 \in 1..Len(log)
  BY DEF ReplicatorTypeOK, ApplyNext
<1>2. log[applied[n] + 1] \in ClusterCommand
  BY <1>1 DEF ReplicatorTypeOK
<1>3. Apply(hive[n], log[applied[n] + 1]) \in HiveStates
  BY <1>2, ApplyType DEF ReplicatorTypeOK
<1> QED
  BY <1>1, <1>2, <1>3 DEF ReplicatorTypeOK, ApplyNext

LEMMA StillAwaitedType ==
  ASSUME NEW index \in Nat, NEW length \in Nat
  PROVE  /\ StillAwaited(index, length) \in Nat
         /\ StillAwaited(index, length) # Lost
              => StillAwaited(index, length) = index /\ index <= length
  BY DEF StillAwaited, Lost

\* The values an actor takes have its type.
LEMMA RunnerTypes ==
  ASSUME NEW r \in Runner
  PROVE  /\ IdleRunner \in Runner
         /\ NextTask(r) \in Runner
         /\ r.queue \in SUBSET TaskId
         /\ \A t \in TaskId, k \in Nat : Begin(r, t, k) \in Runner
         /\ r.pc = "idle" =>
              \A q \in SUBSET TaskId : WithQueue(r, q) \in Runner
         /\ r.pc # "idle" =>
              /\ r.cur \in TaskId /\ r.ok \in BOOLEAN
              /\ \A ok \in BOOLEAN : Ended(r, ok) \in Runner
              /\ \A k \in Nat : Finishing(r, k) \in Runner
<1>1. IdleRunner \in Runner /\ NextTask(r) \in Runner /\ r.queue \in SUBSET TaskId
  BY DEF Runner, IdleRunner, NextTask, Lost
<1>2. ASSUME NEW t \in TaskId, NEW k \in Nat PROVE Begin(r, t, k) \in Runner
  BY DEF Runner, Begin
<1>3. ASSUME r.pc = "idle", NEW q \in SUBSET TaskId PROVE WithQueue(r, q) \in Runner
  BY <1>3 DEF Runner, WithQueue
<1>4. ASSUME r.pc # "idle"
      PROVE  /\ r.cur \in TaskId /\ r.ok \in BOOLEAN
             /\ \A ok \in BOOLEAN : Ended(r, ok) \in Runner
             /\ \A k \in Nat : Finishing(r, k) \in Runner
  BY <1>4 DEF Runner, Ended, Finishing, Lost
<1> QED
  BY <1>1, <1>2, <1>3, <1>4

LEMMA PlannerTypes ==
  ASSUME NEW c \in ClusterCommand, NEW k \in Nat
  PROVE  {IdlePlanner, Acting, Prepared(c), Written(k)} \subseteq Planner
  BY DEF Planner, IdlePlanner, Acting, Prepared, Written, Lost

LEMMA AfterCutTypes ==
  ASSUME NEW r \in Runner, NEW p \in Planner, NEW length \in Nat
  PROVE  AfterCut(r, length) \in Runner /\ AfterCut(p, length) \in Planner
<1>1. AfterCut(p, length) \in Planner
  BY DEF Planner, AfterCut, StillAwaited, Lost
<1>2. AfterCut(r, length) \in Runner
  BY DEF Runner, AfterCut, StillAwaited, Lost
<1> QED
  BY <1>1, <1>2

\* The initial state has the declared types.
LEMMA TypeInit == Init => TypeOK
<1> SUFFICES ASSUME Init PROVE TypeOK
  OBVIOUS
<1>1. ReplicatorTypeOK
  BY EmptyHiveType DEF Init, ReplicatorInit, ReplicatorTypeOK
<1>2. IdleRunner \in Runner /\ IdlePlanner \in Planner
  BY DEF Runner, IdleRunner, Planner, IdlePlanner, Lost
<1> QED
  BY <1>1, <1>2 DEF Init, TypeOK, Phase, Lost

\* Every step keeps them.
LEMMA TypeStep ==
  ASSUME TypeOK, [Next]_vars
  PROVE  TypeOK'
<1> USE DEF TypeOK
<1>1. CASE UNCHANGED vars
  BY <1>1 DEF vars, replicatorVars, daemonVars, ReplicatorTypeOK
<1> SUFFICES ASSUME NEW n \in Daemon,
                    \/ Boot(n) \/ Start(n) \/ Registered(n) \/ Crash(n) \/ Elect(n)
                    \/ ApplyEntry(n)
                    \/ RunnerStep(n) \/ PlannerStep(n) \/ Heartbeat(n)
                    \/ SubmitTask(n) \/ AddGoal(n)
             PROVE  TypeOK'
  BY <1>1 DEF Next
<1>n. n \in NodeId
  BY DaemonsAreNodes
<1>2. ASSUME UNCHANGED replicatorVars PROVE ReplicatorTypeOK'
  BY <1>2 DEF replicatorVars, ReplicatorTypeOK
<1>3. Len(log) + 1 \in Nat /\ Lost \in Nat
  BY DEF ReplicatorTypeOK, Lost
<1>4. CASE Boot(n)
  BY <1>2, <1>4 DEF Boot, Phase
<1>5. CASE Start(n)
  <2>1. CASE /\ phase' = [phase EXCEPT ![n] = "failed"]
             /\ UNCHANGED <<log, leader, initialized, joining>>
    BY <1>5, <2>1 DEF Start, ReplicatorTypeOK, Phase
  <2>2. CASE /\ log' = Append(log, RegisterNode(n))
             /\ leader' = n
             /\ initialized' = TRUE
             /\ phase' = [phase EXCEPT ![n] = "registering"]
             /\ joining' = [joining EXCEPT ![n] = Len(log) + 1]
    <3>1. RegisterNode(n) \in ClusterCommand
      BY <1>n, RegisterType DEF Planned
    <3>2. ReplicatorTypeOK'
      BY <1>5, <2>2, <3>1 DEF Start, ReplicatorTypeOK
    <3> QED
      BY <1>3, <1>5, <2>2, <3>2 DEF Start, Phase
  <2> QED
    BY <1>5, <2>1, <2>2 DEF Start
<1>6. CASE Registered(n)
  BY <1>2, <1>3, <1>6 DEF Registered, Phase
<1>7. CASE Crash(n)
  <2>1. ReplicatorTypeOK'
    BY <1>7 DEF Crash, LoseLeader, ReplicatorTypeOK
  <2>2. IdleRunner \in Runner /\ IdlePlanner \in Planner
    BY DEF Runner, IdleRunner, Planner, IdlePlanner, Lost
  <2> QED
    BY <1>3, <1>7, <2>1, <2>2 DEF Crash, Phase
<1>8. CASE Elect(n)
  <2>1. PICK length \in 0..Len(log) :
          /\ TakeLead(n, length)
          /\ joining' = [m \in Daemon |-> StillAwaited(joining[m], length)]
          /\ runner' = [m \in Daemon |-> AfterCut(runner[m], length)]
          /\ planner' = [m \in Daemon |-> AfterCut(planner[m], length)]
    BY <1>8 DEF Elect
  <2>2. ReplicatorTypeOK'
    BY <2>1, TakeLeadType
  <2>3. length \in Nat
    OBVIOUS
  <2>4. joining' \in [Daemon -> Nat]
    BY <2>1, <2>3, StillAwaitedType
  <2>5. runner' \in [Daemon -> Runner] /\ planner' \in [Daemon -> Planner]
    BY <2>1, <2>3, AfterCutTypes
  <2>6. faults' \in Nat
    BY <1>8 DEF Elect
  <2> QED
    BY <1>8, <2>2, <2>4, <2>5, <2>6 DEF Elect
<1>9. CASE ApplyEntry(n)
  BY <1>9, ApplyNextType DEF ApplyEntry, daemonVars
<1>10. CASE RunnerTick(n)
  <2>1. MyPendingTasks(n) \in SUBSET TaskId
    BY DEF MyPendingTasks
  <2>2. WithQueue(runner[n], MyPendingTasks(n)) \in Runner
    BY <1>10, <2>1, RunnerTypes DEF RunnerTick
  <2> QED
    BY <1>2, <1>10, <2>2 DEF RunnerTick, daemonVars
<1>11. CASE RunnerStart(n)
  <2>1. PICK t \in runner[n].queue :
          \/ /\ ClientWrite(n, UpdateTaskStatus(t, "Running", FALSE))
             /\ runner' = [runner EXCEPT ![n] = Begin(@, t, Len(log) + 1)]
          \/ /\ leader # n
             /\ runner' = [runner EXCEPT ![n] = WithQueue(@, @.queue \ {t})]
             /\ UNCHANGED replicatorVars
    BY <1>11 DEF RunnerStart
  <2>2. t \in TaskId /\ runner[n].queue \ {t} \in SUBSET TaskId
    BY RunnerTypes
  <2>3. UpdateTaskStatus(t, "Running", FALSE) \in ClusterCommand
    BY <2>2, StatusCommandType DEF TaskStatus
  <2>4. ReplicatorTypeOK'
    BY <1>2, <2>1, <2>3, ClientWriteType
  <2>5. /\ Begin(runner[n], t, Len(log) + 1) \in Runner
        /\ WithQueue(runner[n], runner[n].queue \ {t}) \in Runner
    BY <1>3, <1>11, <2>2, RunnerTypes DEF RunnerStart
  <2>6. runner' \in [Daemon -> Runner]
    BY <2>1, <2>5
  <2> QED
    BY <1>11, <2>4, <2>6 DEF RunnerStart, daemonVars
<1>12. CASE RunnerExec(n)
  <2>1. PICK ok \in Outcomes(hive[n].tasks[runner[n].cur].payload) :
          runner' = [runner EXCEPT ![n] = Ended(@, ok)]
    BY <1>12 DEF RunnerExec
  <2>2. ok \in BOOLEAN
    BY DEF Outcomes
  <2>3. runner[n].pc # "idle" /\ Ended(runner[n], ok) \in Runner
    BY <1>12, <2>2, RunnerTypes DEF RunnerExec
  <2>4. runner' \in [Daemon -> Runner]
    BY <2>1, <2>3
  <2>5. runs' \in [Daemon -> [TaskId -> Nat]]
    <3>1. runner[n].cur \in TaskId
      BY <2>3, RunnerTypes
    <3> QED
      BY <1>12, <3>1 DEF RunnerExec
  <2> QED
    BY <1>2, <1>12, <2>4, <2>5 DEF RunnerExec, daemonVars
<1>13. CASE RunnerFinish(n)
  <2>1. /\ runner[n].cur \in TaskId /\ runner[n].ok \in BOOLEAN
        /\ Finishing(runner[n], Len(log) + 1) \in Runner
        /\ NextTask(runner[n]) \in Runner
    BY <1>3, <1>13, RunnerTypes DEF RunnerFinish
  <2>2. UpdateTaskStatus(runner[n].cur, IF runner[n].ok THEN "Completed" ELSE "Failed",
                         runner[n].ok) \in ClusterCommand
    BY <2>1, StatusCommandType DEF TaskStatus
  <2>3. ReplicatorTypeOK'
    BY <1>2, <1>13, <2>2, ClientWriteType DEF RunnerFinish
  <2>4. runner' \in [Daemon -> Runner]
    BY <1>13, <2>1 DEF RunnerFinish
  <2> QED
    BY <1>13, <2>3, <2>4 DEF RunnerFinish, daemonVars
<1>14. CASE RunnerReturn(n)
  <2>1. NextTask(runner[n]) \in Runner
    BY RunnerTypes
  <2> QED
    BY <1>2, <1>14, <2>1 DEF RunnerReturn, daemonVars
<1>15. CASE PlannerTick(n) \/ PlannerDone(n) \/ PlannerReturn(n)
  <2>1. Acting \in Planner /\ IdlePlanner \in Planner
    BY DEF Planner, IdlePlanner, Acting, Lost
  <2> QED
    BY <1>2, <1>15, <2>1 DEF PlannerTick, PlannerDone, PlannerReturn, daemonVars
<1>16. CASE PlannerExecute(n)
  <2>1. PICK a \in BrainActions :
          \E c \in CommandsFor(a, hive[n], FreshTask, FreshAttachment) :
            planner' = [planner EXCEPT ![n] = Prepared(c)]
    BY <1>16, ProposalsType DEF PlannerExecute
  <2>2. PICK c \in CommandsFor(a, hive[n], FreshTask, FreshAttachment) :
          planner' = [planner EXCEPT ![n] = Prepared(c)]
    BY <2>1
  <2>3. /\ FreshTask \in SUBSET TaskId /\ FreshAttachment \in SUBSET AttachmentId
        /\ hive[n] \in HiveStates
    BY DEF FreshTask, FreshAttachment, ReplicatorTypeOK
  <2>4. c \in ClusterCommand
    BY <2>3, CommandsForPlanned DEF Planned
  <2>5. Prepared(c) \in Planner
    BY <1>3, <2>4, PlannerTypes
  <2> QED
    BY <1>2, <1>16, <2>2, <2>5 DEF PlannerExecute, daemonVars
<1>17. CASE PlannerWrite(n)
  <2>1. planner[n].command \in ClusterCommand
    BY <1>17 DEF PlannerWrite, Planner
  <2>2. ReplicatorTypeOK'
    BY <1>2, <1>17, <2>1, ClientWriteType DEF PlannerWrite
  <2>3. Acting \in Planner /\ Written(Len(log) + 1) \in Planner
    BY <1>3, <2>1, PlannerTypes
  <2>4. planner' \in [Daemon -> Planner]
    BY <1>17, <2>3 DEF PlannerWrite
  <2> QED
    BY <1>17, <2>2, <2>4 DEF PlannerWrite, daemonVars
<1>18. CASE SubmitTask(n)
  <2>1. PICK t \in FreshTask, payload \in ApiPayload, target \in ApiTarget :
          ClientWrite(n, PutTask(t, NewTask(payload, target)))
    BY <1>18 DEF SubmitTask
  <2>2. PutTask(t, NewTask(payload, target)) \in ClusterCommand
    BY SeedsAreDaemons, NewTaskType, PutTaskPlanned DEF FreshTask, Planned
  <2>3. ReplicatorTypeOK'
    BY <2>1, <2>2, ClientWriteType
  <2> QED
    BY <1>18, <2>3 DEF SubmitTask, daemonVars
<1>19. CASE AddGoal(n)
  <2>1. PICK g \in GoalId : ClientWrite(n, [op |-> "PutGoal", goal_id |-> g])
    BY <1>19 DEF AddGoal
  <2>2. [op |-> "PutGoal", goal_id |-> g] \in ClusterCommand
    BY DEF ClusterCommand, GoalCommand
  <2>3. ReplicatorTypeOK'
    BY <2>1, <2>2, ClientWriteType
  <2> QED
    BY <1>19, <2>3 DEF AddGoal, daemonVars
<1>20. CASE Heartbeat(n)
  <2>1. ReplicatorTypeOK'
    BY <1>n, <1>20, HeartbeatPlanned, ClientWriteType DEF Heartbeat, Planned
  <2> QED
    BY <1>20, <2>1 DEF Heartbeat, daemonVars
<1> QED
  BY <1>4, <1>5, <1>6, <1>7, <1>8, <1>9, <1>10, <1>11, <1>12, <1>13, <1>14,
     <1>15, <1>16, <1>17, <1>18, <1>19, <1>20 DEF RunnerStep, PlannerStep

\* In every reachable state the variables have their types.
THEOREM TypeCorrect == Spec => []TypeOK
  BY TypeInit, TypeStep, PTL DEF Spec

-----------------------------------------------------------------------------
(***************************************************************************)
(* FinishedWasRun.  By itself it is not inductive: the outcome waits in    *)
(* the hands of a runner, then in the log, before anyone sees it.          *)
(***************************************************************************)
Finished == {"Completed", "Failed"}

RanTasks == {t \in TaskId : \E m \in Daemon : runs[m][t] > 0}

\* An entry that reports an outcome is about a task of ran.
EntryHonest(c, ran) ==
  /\ c.op = "PutTask" => c.task.status = "Pending"
  /\ c.op = "UpdateTaskStatus" => /\ c.status # "Pending"
                                  /\ c.status \in Finished => c.task_id \in ran

Honest ==
  /\ \A i \in 1..Len(log) : EntryHonest(log[i], RanTasks)
  /\ \A n \in Daemon : planner[n].command # Absent
                         => EntryHonest(planner[n].command, {})
  /\ \A n \in Daemon : runner[n].pc = "finish" => runner[n].cur \in RanTasks
  /\ \A n \in Daemon, t \in TaskId :
       HasStatus(hive[n], t, Finished) => t \in RanTasks

LEMMA HonestGrows ==
  ASSUME NEW c, NEW R, NEW S, R \subseteq S, EntryHonest(c, R)
  PROVE  EntryHonest(c, S)
  BY DEF EntryHonest

LEMMA PlannedHonest ==
  ASSUME NEW c, Planned(c)
  PROVE  EntryHonest(c, {})
  BY DEF Planned, EntryHonest, Finished

\* A task that a command makes finished is one the command reports.
LEMMA ApplyFinished ==
  ASSUME NEW s \in HiveStates, NEW c \in ClusterCommand, NEW ran,
         EntryHonest(c, ran), NEW t \in TaskId,
         HasStatus(Apply(s, c), t, Finished)
  PROVE  HasStatus(s, t, Finished) \/ t \in ran
<1>1. CASE c.op = "PutTask"
  <2>1. c.task_id \in TaskId /\ c.task.status = "Pending"
    BY <1>1, CommandCases DEF EntryHonest
  <2>2. Apply(s, c).tasks = [s.tasks EXCEPT ![c.task_id] = c.task]
    BY <1>1, ApplyTasks
  <2> QED
    BY <2>1, <2>2 DEF HiveStates, HasStatus, Finished
<1>2. CASE c.op = "UpdateTaskStatus" /\ s.tasks[c.task_id] # Absent
  <2>1. c.task_id \in TaskId /\ c.status \in TaskStatus /\ c.result \in BOOLEAN
    BY <1>2, CommandCases
  <2>2. s.tasks[c.task_id] \in Task
    BY <1>2, <2>1 DEF HiveStates
  <2>3. Updated(s.tasks[c.task_id], c).status = c.status
    BY <2>1, <2>2, UpdatedType
  <2>4. Apply(s, c).tasks = [s.tasks EXCEPT ![c.task_id] = Updated(@, c)]
    BY <1>2, ApplyTasks
  <2>5. CASE t = c.task_id
    <3>1. Apply(s, c).tasks[t].status = c.status
      BY <2>1, <2>3, <2>4, <2>5 DEF HiveStates
    <3> QED
      BY <1>2, <2>5, <3>1 DEF HasStatus, EntryHonest
  <2>6. CASE t # c.task_id
    BY <2>4, <2>6 DEF HiveStates, HasStatus
  <2> QED
    BY <2>5, <2>6
<1>3. CASE c.op # "PutTask" /\ ~ (c.op = "UpdateTaskStatus" /\ s.tasks[c.task_id] # Absent)
  <2>1. Apply(s, c).tasks = s.tasks
    BY <1>3, ApplyTasks
  <2> QED
    BY <2>1 DEF HasStatus
<1> QED
  BY <1>1, <1>2, <1>3

LEMMA HonestInit == Init => Honest
  BY DEF Init, ReplicatorInit, Honest, EmptyHive, HasStatus, IdlePlanner, IdleRunner

\* Executions are never forgotten.
LEMMA RunsGrow ==
  ASSUME TypeOK, [Next]_vars
  PROVE  RanTasks \subseteq RanTasks'
<1>1. CASE UNCHANGED runs
  BY <1>1 DEF RanTasks
<1>2. CASE \E n \in Daemon : RunnerExec(n)
  <2>1. PICK n \in Daemon : RunnerExec(n)
    BY <1>2
  <2>2. runs' = [runs EXCEPT ![n][runner[n].cur] = @ + 1]
    BY <2>1 DEF RunnerExec
  <2>3. \A m \in Daemon, t \in TaskId : runs[m][t] > 0 => runs'[m][t] > 0
    BY <2>2 DEF TypeOK
  <2> QED
    BY <2>3 DEF RanTasks
<1> QED
  BY <1>1, <1>2 DEF Next, vars, Boot, Start, Registered, Crash, Elect, ApplyEntry,
     RunnerStep, RunnerTick, RunnerStart, RunnerFinish, RunnerReturn,
     PlannerStep, PlannerTick, PlannerExecute, PlannerWrite, PlannerReturn,
     PlannerDone, SubmitTask, AddGoal, Heartbeat

\* The parts of Honest a step leaves as they are.
LEMMA HonestKept ==
  ASSUME TypeOK, Honest, RanTasks \subseteq RanTasks'
  PROVE  /\ UNCHANGED log
              => \A i \in 1..Len(log') : EntryHonest(log'[i], RanTasks')
         /\ UNCHANGED hive
              => \A n \in Daemon, t \in TaskId :
                   HasStatus(hive'[n], t, Finished) => t \in RanTasks'
         /\ (\A n \in Daemon : planner'[n].command \in {planner[n].command, Absent})
              => \A n \in Daemon : planner'[n].command # Absent
                                     => EntryHonest(planner'[n].command, {})
         /\ (\A n \in Daemon : runner'[n].pc = "finish" =>
               runner[n].pc = "finish" /\ runner'[n].cur = runner[n].cur)
              => \A n \in Daemon : runner'[n].pc = "finish"
                                     => runner'[n].cur \in RanTasks'
  BY HonestGrows DEF Honest

LEMMA HonestAppend ==
  ASSUME TypeOK, Honest, RanTasks \subseteq RanTasks',
         NEW c \in ClusterCommand, log' = Append(log, c), EntryHonest(c, RanTasks)
  PROVE  \A i \in 1..Len(log') : EntryHonest(log'[i], RanTasks')
<1>1. \A i \in 1..Len(log') : EntryHonest(log'[i], RanTasks)
  BY DEF Honest, TypeOK, ReplicatorTypeOK
<1> QED
  BY <1>1, HonestGrows

LEMMA HonestStep ==
  ASSUME TypeOK, Honest, [Next]_vars
  PROVE  Honest'
<1>r. RanTasks \subseteq RanTasks'
  BY RunsGrow
<1>1. CASE UNCHANGED vars
  BY <1>1, <1>r, HonestKept DEF Honest, vars, replicatorVars
<1> SUFFICES ASSUME NEW n \in Daemon,
                    \/ Boot(n) \/ Start(n) \/ Registered(n) \/ Crash(n) \/ Elect(n)
                    \/ ApplyEntry(n)
                    \/ RunnerStep(n) \/ PlannerStep(n) \/ Heartbeat(n)
                    \/ SubmitTask(n) \/ AddGoal(n)
             PROVE  Honest'
  BY <1>1 DEF Next
<1>n. n \in NodeId
  BY DaemonsAreNodes
<1>f. runner \in [Daemon -> Runner] /\ planner \in [Daemon -> Planner]
  BY DEF TypeOK
\* What Honest' says, part by part.
<1> DEFINE LogPart == \A i \in 1..Len(log') : EntryHonest(log'[i], RanTasks')
           HivePart == \A m \in Daemon, t \in TaskId :
                         HasStatus(hive'[m], t, Finished) => t \in RanTasks'
           PlannerPart == \A m \in Daemon : planner'[m].command # Absent
                                              => EntryHonest(planner'[m].command, {})
           RunnerPart == \A m \in Daemon : runner'[m].pc = "finish"
                                             => runner'[m].cur \in RanTasks'
<1>p. LogPart /\ HivePart /\ PlannerPart /\ RunnerPart => Honest'
  BY DEF Honest
<1>lp. UNCHANGED log => LogPart
  BY <1>r, HonestKept
<1>hp. UNCHANGED hive => HivePart
  BY <1>r, HonestKept
<1>pp. (\A m \in Daemon : planner'[m].command \in {planner[m].command, Absent})
         => PlannerPart
  BY <1>r, HonestKept
<1>rp. (\A m \in Daemon : runner'[m].pc = "finish" =>
          runner[m].pc = "finish" /\ runner'[m].cur = runner[m].cur) => RunnerPart
  BY <1>r, HonestKept
<1> HIDE DEF LogPart, HivePart, PlannerPart, RunnerPart
<1>2. CASE Boot(n) \/ Registered(n)
  BY <1>2, <1>p, <1>lp, <1>hp, <1>pp, <1>rp DEF Boot, Registered, replicatorVars
<1>3. CASE Start(n)
  <2>1. LogPart
    <3>1. RegisterNode(n) \in ClusterCommand /\ EntryHonest(RegisterNode(n), RanTasks)
      BY <1>n, RegisterType, PlannedHonest, HonestGrows DEF Planned
    <3>2. CASE log' = Append(log, RegisterNode(n))
      BY <1>r, <3>1, <3>2, HonestAppend DEF LogPart
    <3> QED
      BY <1>3, <1>lp, <3>2 DEF Start
  <2> QED
    BY <1>3, <1>p, <1>hp, <1>pp, <1>rp, <2>1 DEF Start
<1>4. CASE Crash(n)
  <2>1. PlannerPart
    BY <1>4, <1>f, <1>pp DEF Crash, IdlePlanner
  <2>2. RunnerPart
    BY <1>4, <1>f, <1>rp DEF Crash, IdleRunner
  <2> QED
    BY <1>4, <1>p, <1>lp, <1>hp, <2>1, <2>2 DEF Crash, LoseLeader
<1>5. CASE Elect(n)
  <2>1. PICK length \in 0..Len(log) :
          /\ TakeLead(n, length)
          /\ runner' = [m \in Daemon |-> AfterCut(runner[m], length)]
          /\ planner' = [m \in Daemon |-> AfterCut(planner[m], length)]
    BY <1>5 DEF Elect
  <2>2. LogPart
    <3>1. ReplicatorTypeOK
      BY DEF TypeOK
    <3>2. Len(log') = length /\ \A i \in 1..length : log'[i] = log[i]
      BY <2>1, <3>1, TakeLeadType
    <3>3. \A i \in 1..Len(log') : EntryHonest(log'[i], RanTasks)
      BY <3>1, <3>2 DEF Honest, ReplicatorTypeOK
    <3> QED
      BY <1>r, <3>3, HonestGrows DEF LogPart
  <2>3. \A m \in Daemon : planner'[m].command = planner[m].command
    BY <1>f, <2>1 DEF AfterCut, Planner
  <2>4. \A m \in Daemon : runner'[m].pc = runner[m].pc /\ runner'[m].cur = runner[m].cur
    BY <1>f, <2>1 DEF AfterCut, Runner
  <2> QED
    BY <1>p, <1>hp, <1>pp, <1>rp, <2>1, <2>2, <2>3, <2>4 DEF TakeLead
<1>6. CASE ApplyEntry(n)
  <2>1. ApplyNext(n) /\ UNCHANGED <<runner, planner>>
    BY <1>6 DEF ApplyEntry
  <2>2. ReplicatorTypeOK
    BY DEF TypeOK
  <2> DEFINE c == log[applied[n] + 1]
  <2>3. c \in ClusterCommand /\ EntryHonest(c, RanTasks)
    BY <2>1, <2>2, ApplyNextType DEF Honest
  <2>4. hive' = [hive EXCEPT ![n] = Apply(@, c)] /\ UNCHANGED log
    BY <2>1 DEF ApplyNext
  <2>5. HivePart
    <3> SUFFICES ASSUME NEW m \in Daemon, NEW t \in TaskId,
                        HasStatus(hive'[m], t, Finished)
                 PROVE  t \in RanTasks'
      BY DEF HivePart
    <3>1. CASE m # n
      BY <1>r, <2>2, <2>4, <3>1 DEF Honest, ReplicatorTypeOK
    <3>2. CASE m = n
      <4>1. hive[n] \in HiveStates /\ hive'[m] = Apply(hive[n], c)
        BY <2>2, <2>4, <3>2 DEF ReplicatorTypeOK
      <4>2. HasStatus(hive[n], t, Finished) \/ t \in RanTasks
        BY <2>3, <4>1, ApplyFinished
      <4> QED
        BY <1>r, <4>2 DEF Honest
    <3> QED
      BY <3>1, <3>2
  <2> QED
    BY <1>p, <1>lp, <1>pp, <1>rp, <2>1, <2>4, <2>5
<1>7. CASE RunnerTick(n)
  <2>1. RunnerPart
    BY <1>7, <1>f, <1>rp DEF RunnerTick, WithQueue, Runner
  <2> QED
    BY <1>7, <1>p, <1>lp, <1>hp, <1>pp, <2>1 DEF RunnerTick, replicatorVars
<1>8. CASE RunnerStart(n)
  <2>1. PICK t \in runner[n].queue :
          \/ /\ ClientWrite(n, UpdateTaskStatus(t, "Running", FALSE))
             /\ runner' = [runner EXCEPT ![n] = Begin(@, t, Len(log) + 1)]
          \/ /\ runner' = [runner EXCEPT ![n] = WithQueue(@, @.queue \ {t})]
             /\ UNCHANGED replicatorVars
    BY <1>8 DEF RunnerStart
  <2>2. t \in TaskId
    BY <1>f, RunnerTypes
  <2>3. LogPart
    <3>1. /\ UpdateTaskStatus(t, "Running", FALSE) \in ClusterCommand
          /\ EntryHonest(UpdateTaskStatus(t, "Running", FALSE), RanTasks)
      <4>1. "Running" \in TaskStatus /\ FALSE \in BOOLEAN
        BY DEF TaskStatus
      <4> DEFINE c == UpdateTaskStatus(t, "Running", FALSE)
      <4>2. c \in ClusterCommand /\ c.op = "UpdateTaskStatus" /\ c.status = "Running"
        BY <2>2, <4>1, StatusCommandType
      <4> QED
        BY <4>2 DEF EntryHonest, Finished
    <3> QED
      BY <1>r, <1>lp, <2>1, <3>1, HonestAppend
         DEF LogPart, ClientWrite, replicatorVars
  <2>4. RunnerPart
    <3>1. runner'[n].pc \in {"starting", "idle"}
      <4>1. runner[n].pc = "idle" /\ runner[n] \in Runner
        BY <1>8, <1>f DEF RunnerStart
      <4>2. /\ WithQueue(runner[n], runner[n].queue \ {t}).pc = "idle"
            /\ Begin(runner[n], t, Len(log) + 1).pc = "starting"
        BY <4>1 DEF Begin, WithQueue, Runner
      <4>3. \/ runner'[n] = Begin(runner[n], t, Len(log) + 1)
            \/ runner'[n] = WithQueue(runner[n], runner[n].queue \ {t})
        BY <2>1, <1>f
      <4> QED
        BY <4>2, <4>3
    <3>2. \A m \in Daemon : m # n => runner'[m] = runner[m]
      BY <1>f, <2>1
    <3> QED
      BY <1>rp, <3>1, <3>2
  <2>5. UNCHANGED hive
    BY <2>1 DEF ClientWrite, replicatorVars
  <2> QED
    BY <1>8, <1>p, <1>hp, <1>pp, <2>3, <2>4, <2>5 DEF RunnerStart
<1>9. CASE RunnerExec(n)
  <2>1. PICK ok : runner' = [runner EXCEPT ![n] = Ended(@, ok)]
    BY <1>9 DEF RunnerExec
  <2>2. runner[n].cur \in TaskId
    BY <1>9, <1>f, RunnerTypes DEF RunnerExec
  <2>3. runner[n].cur \in RanTasks'
    <3>1. runs'[n][runner[n].cur] > 0
      BY <1>9, <2>2 DEF RunnerExec, TypeOK
    <3> QED
      BY <2>2, <3>1 DEF RanTasks
  <2>4. RunnerPart
    BY <1>f, <1>r, <2>1, <2>3 DEF Ended, Runner, RunnerPart, Honest
  <2> QED
    BY <1>9, <1>p, <1>lp, <1>hp, <1>pp, <2>4 DEF RunnerExec, replicatorVars
<1>10. CASE RunnerFinish(n)
  <2>1. /\ runner[n].cur \in TaskId /\ runner[n].ok \in BOOLEAN
        /\ runner[n].cur \in RanTasks
    BY <1>10, <1>f, RunnerTypes DEF RunnerFinish, Honest
  <2> DEFINE c == UpdateTaskStatus(runner[n].cur,
                    IF runner[n].ok THEN "Completed" ELSE "Failed", runner[n].ok)
  <2>2. c \in ClusterCommand /\ EntryHonest(c, RanTasks)
    BY <2>1, StatusCommandType DEF TaskStatus, EntryHonest
  <2>3. LogPart
    BY <1>10, <1>r, <1>lp, <2>2, HonestAppend
       DEF RunnerFinish, LogPart, ClientWrite, replicatorVars
  <2>4. RunnerPart
    BY <1>10, <1>f, <1>rp DEF RunnerFinish, Finishing, NextTask, IdleRunner, Runner
  <2>5. UNCHANGED hive
    BY <1>10 DEF RunnerFinish, ClientWrite, replicatorVars
  <2> QED
    BY <1>10, <1>p, <1>hp, <1>pp, <2>3, <2>4, <2>5 DEF RunnerFinish
<1>11. CASE RunnerReturn(n)
  <2>1. RunnerPart
    BY <1>11, <1>f, <1>rp DEF RunnerReturn, NextTask, IdleRunner, Runner
  <2> QED
    BY <1>11, <1>p, <1>lp, <1>hp, <1>pp, <2>1 DEF RunnerReturn, replicatorVars
<1>12. CASE PlannerTick(n) \/ PlannerReturn(n) \/ PlannerDone(n)
  <2>1. PlannerPart
    BY <1>12, <1>f, <1>pp
       DEF PlannerTick, PlannerReturn, PlannerDone, Acting, IdlePlanner, Planner
  <2> QED
    BY <1>12, <1>p, <1>lp, <1>hp, <1>rp, <2>1
       DEF PlannerTick, PlannerReturn, PlannerDone, replicatorVars
<1>13. CASE PlannerExecute(n)
  <2>0. PICK a \in BrainActions :
          \E c \in CommandsFor(a, hive[n], FreshTask, FreshAttachment) :
            planner' = [planner EXCEPT ![n] = Prepared(c)]
    BY <1>13, ProposalsType DEF PlannerExecute
  <2>1. PICK c \in CommandsFor(a, hive[n], FreshTask, FreshAttachment) :
          planner' = [planner EXCEPT ![n] = Prepared(c)]
    BY <2>0
  <2>2. /\ FreshTask \in SUBSET TaskId /\ FreshAttachment \in SUBSET AttachmentId
        /\ hive[n] \in HiveStates
    BY DEF FreshTask, FreshAttachment, TypeOK, ReplicatorTypeOK
  <2>3. EntryHonest(c, {})
    BY <2>2, CommandsForPlanned, PlannedHonest
  <2>4. PlannerPart
    BY <1>f, <2>1, <2>3 DEF Prepared, PlannerPart, Honest
  <2> QED
    BY <1>13, <1>p, <1>lp, <1>hp, <1>rp, <2>4 DEF PlannerExecute, replicatorVars
<1>14. CASE PlannerWrite(n)
  <2>1. /\ planner[n].command \in ClusterCommand
        /\ EntryHonest(planner[n].command, RanTasks)
    <3>1. planner[n].command \in ClusterCommand
      BY <1>14, <1>f DEF PlannerWrite, Planner
    <3>2. EntryHonest(planner[n].command, {})
      BY <3>1, AbsentIsNoValue DEF Honest
    <3> QED
      BY <3>1, <3>2, HonestGrows
  <2>2. LogPart
    BY <1>14, <1>r, <1>lp, <2>1, HonestAppend
       DEF PlannerWrite, LogPart, ClientWrite, replicatorVars
  <2>3. PlannerPart
    BY <1>14, <1>f, <1>pp DEF PlannerWrite, Acting, Written, Planner
  <2>4. UNCHANGED hive
    BY <1>14 DEF PlannerWrite, ClientWrite, replicatorVars
  <2> QED
    BY <1>14, <1>p, <1>hp, <1>rp, <2>2, <2>3, <2>4 DEF PlannerWrite
<1>15. CASE SubmitTask(n)
  <2>1. PICK t \in FreshTask, payload \in ApiPayload, target \in ApiTarget :
          ClientWrite(n, PutTask(t, NewTask(payload, target)))
    BY <1>15 DEF SubmitTask
  <2>2. /\ PutTask(t, NewTask(payload, target)) \in ClusterCommand
        /\ EntryHonest(PutTask(t, NewTask(payload, target)), RanTasks)
    BY SeedsAreDaemons, NewTaskType, PutTaskPlanned, PlannedHonest, HonestGrows
       DEF FreshTask, Planned
  <2>3. LogPart /\ UNCHANGED hive
    BY <1>r, <2>1, <2>2, HonestAppend DEF LogPart, ClientWrite
  <2> QED
    BY <1>15, <1>p, <1>hp, <1>pp, <1>rp, <2>3 DEF SubmitTask
<1>16. CASE AddGoal(n)
  <2>1. PICK g \in GoalId : ClientWrite(n, [op |-> "PutGoal", goal_id |-> g])
    BY <1>16 DEF AddGoal
  <2>2. /\ [op |-> "PutGoal", goal_id |-> g] \in ClusterCommand
        /\ EntryHonest([op |-> "PutGoal", goal_id |-> g], RanTasks)
    BY DEF ClusterCommand, GoalCommand, EntryHonest
  <2>3. LogPart /\ UNCHANGED hive
    BY <1>r, <2>1, <2>2, HonestAppend DEF LogPart, ClientWrite
  <2> QED
    BY <1>16, <1>p, <1>hp, <1>pp, <1>rp, <2>3 DEF AddGoal
<1>17. CASE Heartbeat(n)
  <2> DEFINE c == [op |-> "UpdateNodeHealth", node_id |-> n, health |-> "Healthy"]
  <2>1. ClientWrite(n, c)
    BY <1>17 DEF Heartbeat
  <2>2. c \in ClusterCommand /\ EntryHonest(c, RanTasks)
    BY <1>n, HeartbeatPlanned, PlannedHonest, HonestGrows DEF Planned
  <2>3. LogPart /\ UNCHANGED hive
    BY <1>r, <2>1, <2>2, HonestAppend DEF LogPart, ClientWrite
  <2> QED
    BY <1>17, <1>p, <1>hp, <1>pp, <1>rp, <2>3 DEF Heartbeat
<1> QED
  BY <1>2, <1>3, <1>4, <1>5, <1>6, <1>7, <1>8, <1>9, <1>10, <1>11, <1>12,
     <1>13, <1>14, <1>15, <1>16, <1>17 DEF RunnerStep, PlannerStep

LEMMA HonestCorrect == Spec => []Honest
  BY TypeInit, TypeStep, HonestInit, HonestStep, PTL DEF Spec

\* No task is seen as finished before some node has run it.
THEOREM FinishedWasRunCorrect == Spec => []FinishedWasRun
<1>1. Honest => FinishedWasRun
  BY DEF Honest, FinishedWasRun, RanTasks, Finished
<1> QED
  BY <1>1, HonestCorrect, PTL

-----------------------------------------------------------------------------
(***************************************************************************)
(* AtMostOncePerAssignment.  The invariant follows a task from the view    *)
(* that shows it Pending to the execution: as long as node n may still run *)
(* it, an assignment of it to n has not been used up.                      *)
(***************************************************************************)
Assigned(n, t) == Cardinality(Grants(n, t))

Owed(n, t) == runs[n][t] < Assigned(n, t)

\* The entry a runner that has begun waits for, or has waited for.
BeganWith(n, index) ==
  index # Lost => /\ index \in 1..Len(log)
                  /\ log[index] = UpdateTaskStatus(runner[n].cur, "Running", FALSE)

OnceAt(n) ==
  /\ \A t \in TaskId : runs[n][t] <= Assigned(n, t)
  /\ \A t \in MyPendingTasks(n) : Owed(n, t)
  /\ \A t \in runner[n].queue : Owed(n, t)
  /\ runner[n].pc = "starting" =>
       /\ runner[n].cur \notin runner[n].queue
       /\ Owed(n, runner[n].cur)
       /\ BeganWith(n, runner[n].await)
       /\ Acknowledged(n, runner[n].await) /\ runner[n].cur \in MyPendingTasks(n)
            => runs[n][runner[n].cur] + 1 < Assigned(n, runner[n].cur)

Once == \A n \in Daemon : OnceAt(n)

LEMMA GrantsFinite ==
  ASSUME TypeOK, NEW n \in Daemon, NEW t \in TaskId
  PROVE  /\ IsFiniteSet(Grants(n, t))
         /\ Assigned(n, t) \in Nat
         /\ runs[n][t] \in Nat
         /\ applied[n] \in Nat
<1>1. applied[n] \in Nat
  BY DEF TypeOK, ReplicatorTypeOK
<1>2. IsFiniteSet(1..applied[n])
  BY <1>1, FS_Interval
<1>3. Grants(n, t) \subseteq 1..applied[n]
  BY DEF Grants, AppliedEntries
<1>4. IsFiniteSet(Grants(n, t))
  BY <1>2, <1>3, FS_Subset
<1> QED
  BY <1>1, <1>4, FS_CardinalityType DEF Assigned, TypeOK

\* Entries that stay and are no longer counted twice: the assignments of a
\* node depend on what it has applied only.
LEMMA GrantsSame ==
  ASSUME NEW n \in Daemon, NEW t \in TaskId,
         applied'[n] = applied[n],
         \A i \in 1..applied[n] : log'[i] = log[i]
  PROVE  Assigned(n, t)' = Assigned(n, t)
<1>1. Grants(n, t)' = Grants(n, t)
  BY DEF Grants, AppliedEntries
<1> QED
  BY <1>1 DEF Assigned

\* Applying an entry adds an assignment exactly if it puts the task at the node.
LEMMA GrantsStep ==
  ASSUME TypeOK, NEW n \in Daemon, NEW t \in TaskId,
         log' = log, applied'[n] = applied[n] + 1
  PROVE  LET c == log[applied[n] + 1]
         IN  Assigned(n, t)' =
               IF c.op = "PutTask" /\ c.task_id = t /\ c.task.target_node = n
               THEN Assigned(n, t) + 1 ELSE Assigned(n, t)
<1> DEFINE k == applied[n] + 1
           c == log[k]
<1>1. applied[n] \in Nat /\ IsFiniteSet(Grants(n, t)) /\ k \notin Grants(n, t)
  BY GrantsFinite DEF Grants, AppliedEntries
<1>2. 1..k = (1..applied[n]) \cup {k}
  BY <1>1
<1>3. CASE c.op = "PutTask" /\ c.task_id = t /\ c.task.target_node = n
  <2>1. Grants(n, t)' = Grants(n, t) \cup {k}
    <3>1. AppliedEntries(n)' = AppliedEntries(n) \cup {k}
      BY <1>2 DEF AppliedEntries
    <3> HIDE DEF k
    <3> QED
      BY <3>1, <1>3 DEF Grants
  <2>2. Cardinality(Grants(n, t) \cup {k}) = Cardinality(Grants(n, t)) + 1
    <3> HIDE DEF k
    <3> QED
      BY <1>1, FS_AddElement
  <2>3. Assigned(n, t)' = Assigned(n, t) + 1
    BY <2>1, <2>2 DEF Assigned
  <2> QED
    BY <1>3, <2>3
<1>4. CASE ~ (c.op = "PutTask" /\ c.task_id = t /\ c.task.target_node = n)
  <2>1. Grants(n, t)' = Grants(n, t)
    BY <1>2, <1>4 DEF Grants, AppliedEntries
  <2> QED
    BY <1>4, <2>1 DEF Assigned
<1> QED
  BY <1>3, <1>4

PendingAt(s, n, t) ==
  s.tasks[t] # Absent /\ s.tasks[t].target_node = n /\ s.tasks[t].status = "Pending"

\* A task that a command makes pending at a node was put there by it.
LEMMA ApplyPending ==
  ASSUME NEW s \in HiveStates, NEW c \in ClusterCommand, NEW ran,
         EntryHonest(c, ran), NEW n, NEW t \in TaskId,
         PendingAt(Apply(s, c), n, t)
  PROVE  /\ \/ PendingAt(s, n, t)
            \/ c.op = "PutTask" /\ c.task_id = t /\ c.task.target_node = n
         /\ ~ (c.op = "UpdateTaskStatus" /\ c.task_id = t)
<1>1. CASE c.op = "PutTask"
  <2>1. c.task_id \in TaskId
    BY <1>1, CommandCases
  <2>2. Apply(s, c).tasks = [s.tasks EXCEPT ![c.task_id] = c.task]
    BY <1>1, ApplyTasks
  <2> QED
    BY <1>1, <2>1, <2>2 DEF HiveStates, PendingAt
<1>2. CASE c.op = "UpdateTaskStatus" /\ s.tasks[c.task_id] # Absent
  <2>1. c.task_id \in TaskId /\ c.status \in TaskStatus /\ c.result \in BOOLEAN
    BY <1>2, CommandCases
  <2>2. s.tasks[c.task_id] \in Task
    BY <1>2, <2>1 DEF HiveStates
  <2>3. Updated(s.tasks[c.task_id], c).status # "Pending"
    BY <1>2, <2>1, <2>2, UpdatedType DEF EntryHonest
  <2>4. Apply(s, c).tasks = [s.tasks EXCEPT ![c.task_id] = Updated(@, c)]
    BY <1>2, ApplyTasks
  <2>5. t # c.task_id
    BY <2>1, <2>3, <2>4 DEF HiveStates, PendingAt
  <2> QED
    BY <1>2, <2>4, <2>5 DEF HiveStates, PendingAt
<1>3. CASE c.op # "PutTask" /\ ~ (c.op = "UpdateTaskStatus" /\ s.tasks[c.task_id] # Absent)
  <2>1. Apply(s, c).tasks = s.tasks
    BY <1>3, ApplyTasks
  <2> QED
    BY <1>3, <2>1 DEF PendingAt
<1> QED
  BY <1>1, <1>2, <1>3

LEMMA OnceInit == Init => Once
<1> SUFFICES ASSUME Init, NEW n \in Daemon PROVE OnceAt(n)
  BY DEF Once
<1>1. \A t \in TaskId : Grants(n, t) = {}
  BY DEF Init, ReplicatorInit, Grants, AppliedEntries
<1>2. \A t \in TaskId : Assigned(n, t) = 0
  BY <1>1, FS_EmptySet DEF Assigned
<1>3. MyPendingTasks(n) = {}
  BY DEF Init, ReplicatorInit, EmptyHive, MyPendingTasks
<1> QED
  BY <1>2, <1>3 DEF Init, OnceAt, IdleRunner

\* Nothing changes for a node that neither applies an entry, nor executes,
\* nor takes up a task: what others append or a new leader cuts off lies
\* beyond what the node has applied.
LEMMA Unaffected ==
  ASSUME TypeOK, TypeOK', NEW n \in Daemon, OnceAt(n),
         UNCHANGED <<applied, hive>>, runs'[n] = runs[n],
         NEW length \in applied[n]..Len(log), Len(log') >= length,
         \A i \in 1..length : log'[i] = log[i],
         runner'[n].queue \subseteq runner[n].queue,
         runner'[n].pc = "starting" =>
           /\ runner[n].pc = "starting"
           /\ runner'[n].cur = runner[n].cur
           /\ runner'[n].await # Lost =>
                runner'[n].await = runner[n].await /\ runner'[n].await <= length
  PROVE  OnceAt(n)'
<1>1. applied[n] \in Nat /\ Len(log) \in Nat /\ Len(log') \in Nat
  BY GrantsFinite DEF TypeOK, ReplicatorTypeOK
<1>2. \A t \in TaskId : Assigned(n, t)' = Assigned(n, t)
  BY <1>1, GrantsSame
<1>3. \A t \in TaskId : Owed(n, t) => Owed(n, t)'
  BY <1>2 DEF Owed
<1>4. MyPendingTasks(n)' = MyPendingTasks(n)
  BY DEF MyPendingTasks
<1>5. \A r \in Runner : r.queue \subseteq TaskId
  BY RunnerTypes
<1>6. runner[n] \in Runner /\ runner'[n] \in Runner
  BY DEF TypeOK
<1>7. ASSUME runner'[n].pc = "starting"
      PROVE  /\ runner'[n].cur \notin runner'[n].queue
             /\ Owed(n, runner[n].cur)'
             /\ BeganWith(n, runner[n].await)'
             /\ Acknowledged(n, runner[n].await)' /\ runner'[n].cur \in MyPendingTasks(n)'
                  => runs'[n][runner'[n].cur] + 1 < Assigned(n, runner[n].cur)'
  <2>1. /\ runner[n].pc = "starting" /\ runner'[n].cur = runner[n].cur
        /\ runner[n].cur \in TaskId /\ runner'[n].await \in Nat
    BY <1>6, <1>7 DEF Runner
  <2>2. BeganWith(n, runner[n].await)'
    <3> SUFFICES ASSUME runner'[n].await # Lost
                 PROVE  /\ runner'[n].await \in 1..Len(log')
                        /\ log'[runner'[n].await]
                             = UpdateTaskStatus(runner'[n].cur, "Running", FALSE)
      BY DEF BeganWith, Lost
    <3> DEFINE a == runner[n].await
    <3>1. runner'[n].await = a /\ a <= length /\ a # Lost
      BY <1>7
    <3>2. a \in 1..Len(log) /\ log[a] = UpdateTaskStatus(runner[n].cur, "Running", FALSE)
      BY <2>1, <3>1 DEF OnceAt, BeganWith
    <3>3. a \in 1..length /\ a \in 1..Len(log')
      BY <1>1, <3>1, <3>2
    <3> QED
      BY <2>1, <3>1, <3>2, <3>3
  <2>3. Acknowledged(n, runner[n].await)' => Acknowledged(n, runner[n].await)
    BY <1>7 DEF Acknowledged
  <2>4. /\ Owed(n, runner[n].cur)' = Owed(n, runner[n].cur)
        /\ Assigned(n, runner[n].cur)' = Assigned(n, runner[n].cur)
    BY <1>2, <2>1 DEF Owed
  <2> QED
    BY <1>4, <2>1, <2>2, <2>3, <2>4 DEF OnceAt
<1>8. \A t \in TaskId : runs'[n][t] <= Assigned(n, t)'
  BY <1>2 DEF OnceAt
<1>9. \A t \in MyPendingTasks(n)' : Owed(n, t)'
  BY <1>3, <1>4 DEF OnceAt, MyPendingTasks
<1>10. \A t \in runner'[n].queue : Owed(n, t)'
  BY <1>3, <1>5, <1>6 DEF OnceAt
<1> QED
  BY <1>7, <1>8, <1>9, <1>10 DEF OnceAt

\* The same, where the log is only appended to.
LEMMA Bystander ==
  ASSUME TypeOK, TypeOK', NEW m \in Daemon, OnceAt(m),
         UNCHANGED <<applied, hive>>, runs'[m] = runs[m],
         log' = log \/ \E c \in ClusterCommand : log' = Append(log, c),
         runner'[m].queue \subseteq runner[m].queue,
         runner'[m].pc = "starting" => runner'[m] = runner[m]
  PROVE  OnceAt(m)'
<1>1. log \in Seq(ClusterCommand) /\ applied[m] \in 0..Len(log)
  BY DEF TypeOK, ReplicatorTypeOK
<1>2. Len(log) \in applied[m]..Len(log)
  BY <1>1
<1>3. Len(log') >= Len(log) /\ \A i \in 1..Len(log) : log'[i] = log[i]
  BY <1>1
<1>4. runner'[m].pc = "starting" =>
        /\ runner[m].pc = "starting"
        /\ runner'[m].cur = runner[m].cur
        /\ runner'[m].await # Lost =>
             runner'[m].await = runner[m].await /\ runner'[m].await <= Len(log)
  <2> SUFFICES ASSUME runner'[m].pc = "starting", runner'[m].await # Lost
               PROVE  runner'[m].await <= Len(log)
    OBVIOUS
  <2>1. runner[m].pc = "starting" /\ runner[m].await # Lost
    OBVIOUS
  <2>2. runner[m].await \in 1..Len(log)
    BY <2>1 DEF OnceAt, BeganWith
  <2> QED
    BY <1>1, <2>2
<1> QED
  BY <1>2, <1>3, <1>4, Unaffected

\* Applying an entry at n: what makes a task pending there is an assignment.
LEMMA OnceApply ==
  ASSUME TypeOK, TypeOK', Honest, NEW n \in Daemon, OnceAt(n),
         ApplyNext(n), UNCHANGED <<runner, runs>>
  PROVE  OnceAt(n)'
<1> DEFINE c == log[applied[n] + 1]
           puts(t) == c.op = "PutTask" /\ c.task_id = t /\ c.task.target_node = n
<1>1. /\ applied[n] + 1 \in 1..Len(log) /\ c \in ClusterCommand
      /\ EntryHonest(c, RanTasks) /\ hive[n] \in HiveStates
  BY ApplyNextType DEF Honest, TypeOK, ReplicatorTypeOK
<1>2. /\ log' = log /\ applied'[n] = applied[n] + 1
      /\ hive'[n] = Apply(hive[n], c)
  BY DEF ApplyNext, TypeOK, ReplicatorTypeOK
<1>3. /\ runner[n] \in Runner /\ runner[n].queue \in SUBSET TaskId
      /\ runner[n].pc = "starting" => runner[n].cur \in TaskId
  BY RunnerTypes DEF TypeOK
<1>4. \A t \in TaskId : /\ Assigned(n, t) \in Nat /\ runs[n][t] \in Nat
                        /\ Assigned(n, t)' = IF puts(t) THEN Assigned(n, t) + 1
                                             ELSE Assigned(n, t)
  BY <1>2, GrantsFinite, GrantsStep
<1>5. \A t \in MyPendingTasks(n)' :
        /\ t \in TaskId
        /\ t \in MyPendingTasks(n) \/ puts(t)
        /\ ~ (c.op = "UpdateTaskStatus" /\ c.task_id = t)
  <2> SUFFICES ASSUME NEW t \in MyPendingTasks(n)'
               PROVE  /\ t \in TaskId
                      /\ t \in MyPendingTasks(n) \/ puts(t)
                      /\ ~ (c.op = "UpdateTaskStatus" /\ c.task_id = t)
    OBVIOUS
  <2>1. t \in TaskId /\ PendingAt(Apply(hive[n], c), n, t)
    BY <1>2 DEF MyPendingTasks, PendingAt
  <2>2. /\ PendingAt(hive[n], n, t) \/ puts(t)
        /\ ~ (c.op = "UpdateTaskStatus" /\ c.task_id = t)
    BY <1>1, <2>1, ApplyPending
  <2> QED
    BY <2>1, <2>2 DEF MyPendingTasks, PendingAt
<1> HIDE DEF c, puts
<1>6. \A t \in TaskId : runs'[n][t] <= Assigned(n, t)'
  BY <1>4 DEF OnceAt
<1>7. \A t \in TaskId : Owed(n, t) => Owed(n, t)'
  BY <1>4 DEF Owed
<1>8. \A t \in MyPendingTasks(n)' : Owed(n, t)'
  <2> SUFFICES ASSUME NEW t \in MyPendingTasks(n)' PROVE Owed(n, t)'
    OBVIOUS
  <2>1. CASE t \in MyPendingTasks(n)
    BY <1>5, <1>7, <2>1 DEF OnceAt
  <2>2. CASE puts(t)
    BY <1>4, <1>5, <2>2 DEF OnceAt, Owed
  <2> QED
    BY <1>5, <2>1, <2>2
<1>9. \A t \in runner'[n].queue : Owed(n, t)'
  BY <1>3, <1>7 DEF OnceAt
<1>10. ASSUME runner'[n].pc = "starting"
       PROVE  /\ runner'[n].cur \notin runner'[n].queue
              /\ Owed(n, runner[n].cur)'
              /\ BeganWith(n, runner[n].await)'
              /\ Acknowledged(n, runner[n].await)' /\ runner'[n].cur \in MyPendingTasks(n)'
                   => runs'[n][runner'[n].cur] + 1 < Assigned(n, runner[n].cur)'
  <2> DEFINE t == runner[n].cur
             a == runner[n].await
  <2>1. /\ runner[n].pc = "starting" /\ t \in TaskId /\ t \notin runner[n].queue
        /\ Owed(n, t) /\ BeganWith(n, a)
    BY <1>3, <1>10 DEF OnceAt
  <2>2. BeganWith(n, a)'
    BY <1>2, <2>1 DEF BeganWith
  <2>3. /\ Owed(n, t)' = (runs[n][t] < Assigned(n, t)')
        /\ runner'[n].cur = t /\ runs'[n][t] = runs[n][t]
        /\ Acknowledged(n, a)' = (a # Lost /\ applied[n] + 1 >= a)
    BY <1>2 DEF Owed, Acknowledged
  <2>4. ASSUME a # Lost, applied[n] + 1 >= a, t \in MyPendingTasks(n)'
        PROVE  runs[n][t] + 1 < Assigned(n, t)'
    <3>1. a # applied[n] + 1
      <4>1. a = applied[n] + 1 => c = UpdateTaskStatus(t, "Running", FALSE)
        BY <2>1, <2>4 DEF BeganWith, c
      <4> QED
        BY <1>5, <2>4, <4>1 DEF UpdateTaskStatus
    <3>2. applied[n] >= a
      <4>1. a \in 1..Len(log)
        BY <2>1, <2>4 DEF BeganWith
      <4>2. applied[n] \in Nat /\ Len(log) \in Nat
        BY DEF TypeOK, ReplicatorTypeOK
      <4> QED
        BY <2>4, <3>1, <4>1, <4>2
    <3>3. Acknowledged(n, a)
      BY <2>4, <3>2 DEF Acknowledged
    <3>4. CASE t \in MyPendingTasks(n)
      <4>1. runs[n][t] + 1 < Assigned(n, t)
        BY <2>1, <3>3, <3>4 DEF OnceAt
      <4> QED
        BY <1>4, <2>1, <4>1
    <3>5. CASE puts(t)
      BY <1>4, <2>1, <3>5 DEF Owed
    <3> QED
      BY <1>5, <2>4, <3>4, <3>5
  <2>5. Owed(n, t)'
    BY <1>7, <2>1
  <2> QED
    BY <2>1, <2>2, <2>3, <2>4, <2>5
<1> QED
  BY <1>6, <1>8, <1>9, <1>10 DEF OnceAt

\* Every step keeps it.
LEMMA OnceStep ==
  ASSUME TypeOK, TypeOK', Honest, Once, [Next]_vars
  PROVE  Once'
<1>o. /\ \A m \in Daemon : OnceAt(m)
      /\ runner \in [Daemon -> Runner] /\ runner' \in [Daemon -> Runner]
      /\ \A m \in Daemon : runner[m].queue \in SUBSET TaskId
  BY RunnerTypes DEF Once, TypeOK
\* A step that at most appends, of which m's runner takes no notice.
<1>b. ASSUME NEW m \in Daemon, UNCHANGED <<applied, hive>>, runs'[m] = runs[m],
             log' = log \/ \E c \in ClusterCommand : log' = Append(log, c),
             runner'[m].queue \subseteq runner[m].queue,
             runner'[m].pc = "starting" => runner'[m] = runner[m]
      PROVE  OnceAt(m)'
  BY <1>o, <1>b, Bystander
<1>s. ASSUME UNCHANGED <<applied, hive, runner, runs>>,
             log' = log \/ \E c \in ClusterCommand : log' = Append(log, c)
      PROVE  Once'
  BY <1>b, <1>s DEF Once
<1>1. CASE UNCHANGED vars
  BY <1>1, <1>s DEF vars, replicatorVars
<1> SUFFICES ASSUME NEW n \in Daemon,
                    \/ Boot(n) \/ Start(n) \/ Registered(n) \/ Crash(n) \/ Elect(n)
                    \/ ApplyEntry(n)
                    \/ RunnerStep(n) \/ PlannerStep(n) \/ Heartbeat(n)
                    \/ SubmitTask(n) \/ AddGoal(n)
             PROVE  Once'
  BY <1>1 DEF Next
<1>n. n \in NodeId
  BY DaemonsAreNodes
<1>2. CASE Boot(n) \/ Registered(n)
  BY <1>2, <1>s DEF Boot, Registered, replicatorVars
<1>3. CASE Start(n)
  <2>1. RegisterNode(n) \in ClusterCommand
    BY <1>n, RegisterType DEF Planned
  <2> QED
    BY <1>3, <1>s, <2>1 DEF Start
<1>4. CASE Crash(n)
  <2>1. UNCHANGED <<log, applied, hive, runs>>
    BY <1>4 DEF Crash, LoseLeader
  <2>2. \A m \in Daemon : /\ runner'[m].queue \subseteq runner[m].queue
                          /\ runner'[m].pc = "starting" => runner'[m] = runner[m]
    <3>1. runner'[n].queue = {} /\ runner'[n].pc = "idle"
      BY <1>o, <1>4 DEF Crash, IdleRunner
    <3>2. \A m \in Daemon : m # n => runner'[m] = runner[m]
      BY <1>o, <1>4 DEF Crash
    <3> QED
      BY <3>1, <3>2
  <2> QED
    BY <1>b, <2>1, <2>2 DEF Once
<1>5. CASE Elect(n)
  <2> SUFFICES ASSUME NEW m \in Daemon PROVE OnceAt(m)'
    BY DEF Once
  <2>1. PICK length \in 0..Len(log) :
          TakeLead(n, length) /\ runner' = [r \in Daemon |-> AfterCut(runner[r], length)]
    BY <1>5 DEF Elect
  <2>2. /\ Len(log') = length /\ \A i \in 1..length : log'[i] = log[i]
        /\ length \in applied[m]..Len(log) /\ Len(log') >= length
    <3>t. ReplicatorTypeOK
      BY DEF TypeOK
    <3>l. applied[m] \in 0..Len(log) /\ Len(log) \in Nat
      BY <3>t DEF ReplicatorTypeOK
    <3>1. ReplicatorTypeOK /\ applied[m] \in 0..Len(log) /\ length \in Nat
      BY <3>t, <3>l
    <3>2. /\ Len(log') = length /\ \A i \in 1..length : log'[i] = log[i]
          /\ applied[m] <= length
      BY <2>1, <3>1, TakeLeadType
    <3> QED
      BY <3>1, <3>2
  <2>3. UNCHANGED <<applied, hive>> /\ runs'[m] = runs[m]
    BY <1>5, <2>1 DEF Elect, TakeLead
  <2>4. /\ runner'[m].pc = runner[m].pc /\ runner'[m].cur = runner[m].cur
        /\ runner'[m].queue = runner[m].queue
        /\ runner'[m].await = StillAwaited(runner[m].await, length)
    BY <1>o, <2>1 DEF AfterCut, Runner
  <2>5. runner'[m].await # Lost =>
          runner'[m].await = runner[m].await /\ runner'[m].await <= length
    BY <2>4 DEF StillAwaited
  <2> QED
    BY <1>o, <2>2, <2>3, <2>4, <2>5, Unaffected
<1>6. CASE ApplyEntry(n)
  <2>1. ApplyNext(n) /\ UNCHANGED <<runner, runs>>
    BY <1>6 DEF ApplyEntry
  <2>2. OnceAt(n)'
    BY <1>o, <2>1, OnceApply
  <2>3. ASSUME NEW m \in Daemon, m # n PROVE OnceAt(m)'
    <3>1. /\ log' = log /\ applied'[m] = applied[m] /\ hive'[m] = hive[m]
          /\ runner'[m] = runner[m] /\ runs'[m] = runs[m]
      BY <2>1, <2>3 DEF ApplyNext, TypeOK, ReplicatorTypeOK
    <3>2. \A t \in TaskId : Assigned(m, t)' = Assigned(m, t)
      BY <3>1, GrantsSame
    <3>3. MyPendingTasks(m)' = MyPendingTasks(m)
      BY <3>1 DEF MyPendingTasks
    <3>4. runner[m].pc = "starting" => runner[m].cur \in TaskId
      BY <1>o, RunnerTypes
    <3>5. \A t \in TaskId : Owed(m, t)' = Owed(m, t)
      BY <3>1, <3>2 DEF Owed
    <3>6. MyPendingTasks(m) \subseteq TaskId
      BY DEF MyPendingTasks
    <3> QED
      BY <1>o, <3>1, <3>2, <3>3, <3>4, <3>5, <3>6 DEF OnceAt, BeganWith, Acknowledged
  <2> QED
    BY <2>2, <2>3 DEF Once
<1>7. CASE RunnerTick(n)
  <2>1. /\ UNCHANGED <<log, applied, hive, runs>>
        /\ runner' = [runner EXCEPT ![n] = WithQueue(@, MyPendingTasks(n))]
        /\ runner[n].pc = "idle"
    BY <1>7 DEF RunnerTick, replicatorVars
  <2>2. ASSUME NEW m \in Daemon, m # n PROVE OnceAt(m)'
    BY <1>o, <1>b, <2>1, <2>2
  <2>3. OnceAt(n)'
    <3>1. runner'[n].pc = "idle" /\ runner'[n].queue = MyPendingTasks(n)
      BY <1>o, <2>1 DEF WithQueue, Runner
    <3>2. MyPendingTasks(n)' = MyPendingTasks(n)
      BY <2>1 DEF MyPendingTasks
    <3>3. \A t : Assigned(n, t)' = Assigned(n, t) /\ Owed(n, t)' = Owed(n, t)
      BY <2>1 DEF Assigned, Owed, Grants, AppliedEntries
    <3> QED
      BY <1>o, <2>1, <3>1, <3>2, <3>3 DEF OnceAt
  <2> QED
    BY <2>2, <2>3 DEF Once
<1>8. CASE RunnerStart(n)
  <2>1. PICK t \in runner[n].queue :
          \/ /\ ClientWrite(n, UpdateTaskStatus(t, "Running", FALSE))
             /\ runner' = [runner EXCEPT ![n] = Begin(@, t, Len(log) + 1)]
          \/ /\ runner' = [runner EXCEPT ![n] = WithQueue(@, @.queue \ {t})]
             /\ UNCHANGED replicatorVars
    BY <1>8 DEF RunnerStart
  <2>2. t \in TaskId /\ UpdateTaskStatus(t, "Running", FALSE) \in ClusterCommand
    BY <1>o, StatusCommandType DEF TaskStatus
  <2>3. /\ UNCHANGED <<applied, hive, runs>>
        /\ log' = log \/ \E c \in ClusterCommand : log' = Append(log, c)
    BY <1>8, <2>1, <2>2 DEF RunnerStart, ClientWrite, replicatorVars
  <2>4. ASSUME NEW m \in Daemon, m # n PROVE OnceAt(m)'
    <3>1. runner'[m] = runner[m]
      BY <1>o, <2>1, <2>4
    <3> QED
      BY <1>b, <2>3, <3>1
  <2>5. CASE runner' = [runner EXCEPT ![n] = WithQueue(@, @.queue \ {t})]
    <3>1. runner'[n].queue \subseteq runner[n].queue /\ runner'[n].pc = "idle"
      BY <1>o, <1>8, <2>5 DEF RunnerStart, WithQueue, Runner
    <3>2. OnceAt(n)'
      BY <1>b, <2>3, <3>1
    <3> QED
      BY <2>4, <3>2 DEF Once
  <2>6. CASE /\ ClientWrite(n, UpdateTaskStatus(t, "Running", FALSE))
             /\ runner' = [runner EXCEPT ![n] = Begin(@, t, Len(log) + 1)]
    <3>1. /\ runner'[n].pc = "starting" /\ runner'[n].cur = t
          /\ runner'[n].queue = runner[n].queue \ {t}
          /\ runner'[n].await = Len(log) + 1
      BY <1>o, <2>6 DEF Begin, Runner
    <3>2. /\ Len(log') = Len(log) + 1 /\ \A i \in 1..Len(log) : log'[i] = log[i]
          /\ log'[Len(log) + 1] = UpdateTaskStatus(t, "Running", FALSE)
      BY <2>2, <2>6, ClientWriteType DEF TypeOK
    <3>3. applied[n] \in 0..Len(log) /\ Len(log) \in Nat
      BY DEF TypeOK, ReplicatorTypeOK
    <3>4. \A u \in TaskId : Assigned(n, u)' = Assigned(n, u)
      BY <2>3, <3>2, <3>3, GrantsSame
    <3>5. \A u \in TaskId : Owed(n, u)' = Owed(n, u)
      BY <2>3, <3>4 DEF Owed
    <3>6. MyPendingTasks(n)' = MyPendingTasks(n) /\ MyPendingTasks(n) \subseteq TaskId
      BY <2>3 DEF MyPendingTasks
    <3>7. BeganWith(n, runner[n].await)'
      BY <3>1, <3>2, <3>3 DEF BeganWith
    <3>8. ~ Acknowledged(n, runner[n].await)'
      BY <2>3, <3>1, <3>3 DEF Acknowledged
    <3>9. Owed(n, t)
      BY <1>o DEF OnceAt
    <3>10. OnceAt(n)'
      BY <1>o, <2>2, <2>3, <3>1, <3>4, <3>5, <3>6, <3>7, <3>8, <3>9 DEF OnceAt
    <3> QED
      BY <2>4, <3>10 DEF Once
  <2> QED
    BY <2>1, <2>5, <2>6
<1>9. CASE RunnerExec(n)
  <2>1. /\ UNCHANGED <<log, applied, hive>>
        /\ runs' = [runs EXCEPT ![n][runner[n].cur] = @ + 1]
        /\ runner[n].pc = "starting" /\ Acknowledged(n, runner[n].await)
    BY <1>9 DEF RunnerExec, replicatorVars
  <2>2. PICK ok : runner' = [runner EXCEPT ![n] = Ended(@, ok)]
    BY <1>9 DEF RunnerExec
  <2>3. ASSUME NEW m \in Daemon, m # n PROVE OnceAt(m)'
    <3>1. runner'[m] = runner[m] /\ runs'[m] = runs[m]
      BY <1>o, <2>1, <2>2, <2>3 DEF TypeOK
    <3> QED
      BY <1>b, <2>1, <3>1
  <2>4. OnceAt(n)'
    <3> DEFINE t == runner[n].cur
    <3>1. t \in TaskId /\ runner'[n].pc = "finish" /\ runner'[n].queue = runner[n].queue
      BY <1>o, <2>1, <2>2 DEF Ended, Runner
    <3>2. \A u : Assigned(n, u)' = Assigned(n, u)
      BY <2>1 DEF Assigned, Grants, AppliedEntries
    <3>3. /\ runs'[n][t] = runs[n][t] + 1
          /\ \A u \in TaskId : u # t => runs'[n][u] = runs[n][u]
      BY <2>1, <3>1 DEF TypeOK
    <3>4. MyPendingTasks(n)' = MyPendingTasks(n) /\ MyPendingTasks(n) \subseteq TaskId
      BY <2>1 DEF MyPendingTasks
    <3>5. /\ t \notin runner[n].queue /\ runs[n][t] < Assigned(n, t)
          /\ t \in MyPendingTasks(n) => runs[n][t] + 1 < Assigned(n, t)
      BY <1>o, <2>1 DEF OnceAt, Owed
    <3>6. \A u \in TaskId : runs[n][u] \in Nat /\ Assigned(n, u) \in Nat
      BY GrantsFinite
    <3>7. \A u \in TaskId : runs'[n][u] <= Assigned(n, u)'
      BY <1>o, <3>1, <3>2, <3>3, <3>5, <3>6 DEF OnceAt
    <3>8. \A u \in MyPendingTasks(n) : Owed(n, u)'
      BY <1>o, <3>1, <3>2, <3>3, <3>4, <3>5 DEF OnceAt, Owed
    <3>9. \A u \in runner[n].queue : Owed(n, u)'
      BY <1>o, <3>1, <3>2, <3>3, <3>5 DEF OnceAt, Owed
    <3> QED
      BY <3>1, <3>4, <3>7, <3>8, <3>9 DEF OnceAt
  <2> QED
    BY <2>3, <2>4 DEF Once
<1>10. CASE RunnerFinish(n) \/ RunnerReturn(n)
  <2>1. /\ UNCHANGED <<applied, hive, runs>>
        /\ log' = log \/ \E c \in ClusterCommand : log' = Append(log, c)
    <3>1. runner[n].pc = "finish" =>
            UpdateTaskStatus(runner[n].cur, IF runner[n].ok THEN "Completed" ELSE "Failed",
                             runner[n].ok) \in ClusterCommand
      BY <1>o, RunnerTypes, StatusCommandType DEF TaskStatus
    <3> QED
      BY <1>10, <3>1 DEF RunnerFinish, RunnerReturn, ClientWrite, replicatorVars
  <2>2. \A m \in Daemon : /\ runner'[m].queue = runner[m].queue
                          /\ runner'[m].pc = "starting" => runner'[m] = runner[m]
    <3>1. \A r \in Runner : \A k :
            /\ NextTask(r).queue = r.queue /\ NextTask(r).pc = "idle"
            /\ Finishing(r, k).queue = r.queue
            /\ Finishing(r, k).pc = "finishing"
      BY DEF Finishing, NextTask, IdleRunner, Runner
    <3>2. \/ runner' = [runner EXCEPT ![n] = Finishing(@, Len(log) + 1)]
          \/ runner' = [runner EXCEPT ![n] = NextTask(@)]
      BY <1>10 DEF RunnerFinish, RunnerReturn
    <3> QED
      BY <1>o, <3>1, <3>2
  <2>3. \A m \in Daemon : OnceAt(m)'
    <3> SUFFICES ASSUME NEW m \in Daemon PROVE OnceAt(m)'
      OBVIOUS
    <3>1. runner'[m].queue \subseteq runner[m].queue /\ runs'[m] = runs[m]
      BY <2>1, <2>2
    <3> QED
      BY <1>b, <2>1, <2>2, <3>1
  <2> QED
    BY <2>3 DEF Once
<1>11. CASE PlannerTick(n) \/ PlannerExecute(n) \/ PlannerReturn(n) \/ PlannerDone(n)
  BY <1>11, <1>s DEF PlannerTick, PlannerExecute, PlannerReturn, PlannerDone, replicatorVars
<1>12. CASE PlannerWrite(n)
  <2>1. planner[n].command \in ClusterCommand
    BY <1>12 DEF PlannerWrite, Planner, TypeOK
  <2> QED
    BY <1>12, <1>s, <2>1 DEF PlannerWrite, ClientWrite, replicatorVars
<1>13. CASE SubmitTask(n) \/ AddGoal(n)
  <2>1. \A t \in FreshTask, payload \in ApiPayload, target \in ApiTarget :
          PutTask(t, NewTask(payload, target)) \in ClusterCommand
    BY SeedsAreDaemons, NewTaskType, PutTaskPlanned DEF FreshTask, Planned
  <2>2. \A g \in GoalId : [op |-> "PutGoal", goal_id |-> g] \in ClusterCommand
    BY DEF ClusterCommand, GoalCommand
  <2>3. CASE SubmitTask(n)
    BY <1>s, <2>1, <2>3 DEF SubmitTask, ClientWrite
  <2>4. CASE AddGoal(n)
    <3>1. PICK g \in GoalId : ClientWrite(n, [op |-> "PutGoal", goal_id |-> g])
      BY <2>4 DEF AddGoal
    <3>2. \E c \in ClusterCommand : log' = Append(log, c)
      BY <2>2, <3>1 DEF ClientWrite
    <3> QED
      BY <1>s, <2>4, <3>1, <3>2 DEF AddGoal, ClientWrite
  <2> QED
    BY <1>13, <2>3, <2>4
<1>14. CASE Heartbeat(n)
  <2>1. [op |-> "UpdateNodeHealth", node_id |-> n, health |-> "Healthy"] \in ClusterCommand
    BY <1>n, HeartbeatPlanned DEF Planned
  <2> QED
    BY <1>14, <1>s, <2>1 DEF Heartbeat, ClientWrite
<1> QED
  BY <1>2, <1>3, <1>4, <1>5, <1>6, <1>7, <1>8, <1>9, <1>10, <1>11, <1>12, <1>13,
     <1>14 DEF RunnerStep, PlannerStep

LEMMA OnceCorrect == Spec => []Once
  BY TypeCorrect, HonestCorrect, OnceInit, OnceStep, PTL DEF Spec

\* No node runs a task more often than the log has assigned it to the node.
THEOREM AtMostOnceCorrect == Spec => []AtMostOncePerAssignment
<1>1. Once => AtMostOncePerAssignment
  BY DEF Once, OnceAt, Assigned, AtMostOncePerAssignment
<1> QED
  BY <1>1, OnceCorrect, PTL

=============================================================================

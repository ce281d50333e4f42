-------------------------- MODULE RegistrationProofs ---------------------------
(***************************************************************************)
(* Proofs about the nodes a daemon of TaskLifecycle sees registered: its   *)
(* loops run only where it sees itself, and a task is only ever for a node *)
(* that is seen.                                                           *)
(***************************************************************************)
EXTENDS TaskLifecycleProofs

Registers(c, m) == c.op = "RegisterNode" /\ c.node_id = m

\* One of the first k entries registers m.
RegisteredBy(m, k) == \E j \in 1..k : Registers(log[j], m)

\* What a node sees registered is what the entries it has applied register;
\* nothing in the log takes a node away; register_self waits for its own entry.
Registry ==
  /\ \A n \in Daemon, m \in NodeId :
       hive[n].nodes[m] # Absent <=> RegisteredBy(m, applied[n])
  /\ \A i \in 1..Len(log) : log[i].op # "RemoveNode"
  /\ \A n \in Daemon : planner[n].command # Absent
                         => planner[n].command.op # "RemoveNode"
  /\ \A n \in Daemon : joining[n] # Lost =>
       joining[n] \in 1..Len(log) /\ log[joining[n]] = RegisterNode(n)

-----------------------------------------------------------------------------
(***************************************************************************)
(* What a step may do to the log and to the views.                         *)
(***************************************************************************)
\* The commands that are not a planner's.
Routine(c) ==
  \/ c.op \in {"RegisterNode", "UpdateNodeHealth", "UpdateTaskStatus", "PutGoal"}
  \/ \E t \in FreshTask, payload \in ApiPayload, target \in ApiTarget :
       c = PutTask(t, NewTask(payload, target))

Appends(c) ==
  /\ c \in ClusterCommand
  /\ log' = Append(log, c)
  /\ UNCHANGED <<applied, hive>>
  /\ \/ Routine(c)
     \/ \E n \in Daemon : planner[n].command # Absent /\ planner[n].command = c

Truncates(n, length) ==
  /\ length \in 0..Len(log)
  /\ TakeLead(n, length)
  /\ joining' = [m \in Daemon |-> StillAwaited(joining[m], length)]
  /\ phase' = phase

LEMMA LogSteps ==
  ASSUME TypeOK, [Next]_vars
  PROVE  \/ UNCHANGED <<log, applied, hive>>
         \/ \E c : Appends(c)
         \/ \E n \in Daemon : ApplyEntry(n)
         \/ \E n \in Daemon, length \in Nat : Truncates(n, length)
<1>1. CASE UNCHANGED vars
  BY <1>1 DEF vars, replicatorVars
<1> SUFFICES ASSUME NEW n \in Daemon,
                    \/ Boot(n) \/ Start(n) \/ Registered(n) \/ Crash(n) \/ Elect(n)
                    \/ ApplyEntry(n)
                    \/ RunnerStep(n) \/ PlannerStep(n) \/ Heartbeat(n)
                    \/ SubmitTask(n) \/ AddGoal(n)
             PROVE  \/ UNCHANGED <<log, applied, hive>>
                    \/ \E c : Appends(c)
                    \/ ApplyEntry(n)
                    \/ \E length \in Nat : Truncates(n, length)
  BY <1>1 DEF Next
<1>n. n \in NodeId
  BY DaemonsAreNodes
<1>2. CASE Boot(n) \/ Registered(n) \/ Crash(n)
  BY <1>2 DEF Boot, Registered, Crash, LoseLeader, replicatorVars
<1>3. CASE Start(n)
  <2>1. RegisterNode(n) \in ClusterCommand /\ RegisterNode(n).op = "RegisterNode"
    BY <1>n, RegisterType DEF Planned, RegisterNode
  <2>2. CASE log' = Append(log, RegisterNode(n))
    BY <1>3, <2>1, <2>2 DEF Start, Appends, Routine
  <2> QED
    BY <1>3, <2>2 DEF Start
<1>4. CASE Elect(n)
  BY <1>4 DEF Elect, Truncates
<1>5. CASE RunnerTick(n) \/ RunnerExec(n) \/ RunnerReturn(n)
  BY <1>5 DEF RunnerTick, RunnerExec, RunnerReturn, replicatorVars
<1>6. CASE RunnerStart(n)
  <2>1. PICK t \in runner[n].queue :
          ClientWrite(n, UpdateTaskStatus(t, "Running", FALSE)) \/ UNCHANGED replicatorVars
    BY <1>6 DEF RunnerStart
  <2>2. t \in TaskId
    BY RunnerTypes DEF TypeOK
  <2>3. /\ UpdateTaskStatus(t, "Running", FALSE) \in ClusterCommand
        /\ UpdateTaskStatus(t, "Running", FALSE).op = "UpdateTaskStatus"
    <3>1. "Running" \in TaskStatus /\ FALSE \in BOOLEAN
      BY DEF TaskStatus
    <3> QED
      BY <2>2, <3>1, StatusCommandType
  <2> QED
    BY <2>1, <2>3 DEF ClientWrite, Appends, Routine, replicatorVars
<1>7. CASE RunnerFinish(n)
  <2> DEFINE c == UpdateTaskStatus(runner[n].cur,
                                   IF runner[n].ok THEN "Completed" ELSE "Failed",
                                   runner[n].ok)
  <2>1. ClientWrite(n, c) \/ UNCHANGED replicatorVars
    BY <1>7 DEF RunnerFinish
  <2>2. runner[n].cur \in TaskId /\ runner[n].ok \in BOOLEAN
    BY <1>7, RunnerTypes DEF RunnerFinish, TypeOK
  <2>3. c \in ClusterCommand /\ c.op = "UpdateTaskStatus"
    BY <2>2, StatusCommandType DEF TaskStatus
  <2> QED
    BY <2>1, <2>3 DEF ClientWrite, Appends, Routine, replicatorVars
<1>8. CASE PlannerTick(n) \/ PlannerExecute(n) \/ PlannerReturn(n) \/ PlannerDone(n)
  BY <1>8 DEF PlannerTick, PlannerExecute, PlannerReturn, PlannerDone, replicatorVars
<1>9. CASE PlannerWrite(n)
  <2>1. planner[n].command \in ClusterCommand /\ planner[n].command # Absent
    BY <1>9, AbsentIsNoValue DEF PlannerWrite, Planner, TypeOK
  <2> QED
    BY <1>9, <2>1 DEF PlannerWrite, ClientWrite, Appends, replicatorVars
<1>10. CASE SubmitTask(n)
  <2>1. PICK t \in FreshTask, payload \in ApiPayload, target \in ApiTarget :
          ClientWrite(n, PutTask(t, NewTask(payload, target)))
    BY <1>10 DEF SubmitTask
  <2>2. PutTask(t, NewTask(payload, target)) \in ClusterCommand
    BY SeedsAreDaemons, NewTaskType, PutTaskPlanned DEF FreshTask, Planned
  <2> QED
    BY <2>1, <2>2 DEF ClientWrite, Appends, Routine
<1>11. CASE AddGoal(n)
  <2>1. PICK g \in GoalId : ClientWrite(n, [op |-> "PutGoal", goal_id |-> g])
    BY <1>11 DEF AddGoal
  <2>2. [op |-> "PutGoal", goal_id |-> g] \in ClusterCommand
    BY DEF ClusterCommand, GoalCommand
  <2> QED
    BY <2>1, <2>2 DEF ClientWrite, Appends, Routine
<1>12. CASE Heartbeat(n)
  <2>1. [op |-> "UpdateNodeHealth", node_id |-> n, health |-> "Healthy"] \in ClusterCommand
    BY <1>n, HeartbeatPlanned DEF Planned
  <2> QED
    BY <1>12, <2>1 DEF Heartbeat, ClientWrite, Appends, Routine
<1> QED
  BY <1>2, <1>3, <1>4, <1>5, <1>6, <1>7, <1>8, <1>9, <1>10, <1>11, <1>12
  DEF RunnerStep, PlannerStep

\* What was registered early in the log stays so, whatever is appended or cut
\* off behind it.
LEMMA RegisteredKept ==
  ASSUME NEW k \in Nat, \A i \in 1..k : log'[i] = log[i], NEW m
  PROVE  RegisteredBy(m, k)' <=> RegisteredBy(m, k)
  BY DEF RegisteredBy

LEMMA AppendKeeps ==
  ASSUME TypeOK, NEW c, Appends(c)
  PROVE  /\ Len(log') = Len(log) + 1 /\ log'[Len(log) + 1] = c
         /\ \A i \in 1..Len(log) : log'[i] = log[i]
  BY DEF TypeOK, ReplicatorTypeOK, Appends

\* What a command does to the nodes that are seen, where no node is removed.
LEMMA ApplyNodes ==
  ASSUME NEW s \in HiveStates, NEW c \in ClusterCommand, c.op # "RemoveNode",
         NEW m \in NodeId
  PROVE  Apply(s, c).nodes[m] # Absent <=> s.nodes[m] # Absent \/ Registers(c, m)
<1>1. CASE c.op \in {"RegisterNode", "UpdateNodeHealth"}
  <2>1. c.node_id \in NodeId /\ c.health \in NodeHealth /\ c.health # Absent
    BY <1>1, CommandCases, AbsentIsNoValue
  <2>2. CASE c.op = "RegisterNode"
    BY <2>1, <2>2 DEF Apply, HiveStates, Registers
  <2>3. CASE c.op = "UpdateNodeHealth"
    BY <2>1, <2>3 DEF Apply, HiveStates, Registers
  <2> QED
    BY <1>1, <2>2, <2>3
<1>2. CASE c.op \notin {"RegisterNode", "UpdateNodeHealth"}
  <2>1. Apply(s, c).nodes = s.nodes
    <3>1. CASE c.op \in {"PutTask", "UpdateTaskStatus"}
      BY <3>1 DEF Apply, HiveStates
    <3>2. CASE c.op \in {"PutAttachment", "RemoveAttachment"}
      BY <3>2 DEF Apply, HiveStates
    <3>3. CASE c.op \in {"PutGoal", "RemoveGoal"}
      BY <3>3 DEF Apply, HiveStates
    <3> QED
      BY <1>2, <3>1, <3>2, <3>3, CommandCases
  <2> QED
    BY <1>2, <2>1 DEF Registers
<1> QED
  BY <1>1, <1>2

-----------------------------------------------------------------------------
LEMMA RegistryInit == Init => Registry
<1> SUFFICES ASSUME Init
             PROVE  Registry
  OBVIOUS
<1>1. ASSUME NEW n \in Daemon, NEW m \in NodeId
      PROVE  hive[n].nodes[m] # Absent <=> RegisteredBy(m, applied[n])
  BY <1>1 DEF Init, ReplicatorInit, EmptyHive, RegisteredBy
<1>2. \A i \in 1..Len(log) : log[i].op # "RemoveNode"
  BY DEF Init, ReplicatorInit
<1>3. /\ \A n \in Daemon : planner[n].command = Absent
      /\ \A n \in Daemon : joining[n] = Lost
  BY DEF Init, IdlePlanner
<1> QED
  BY <1>1, <1>2, <1>3 DEF Registry

\* No action of a brain takes a node away.
LEMMA CommandsKeepNodes ==
  ASSUME NEW a, NEW s, NEW ft, NEW fa, NEW c \in CommandsFor(a, s, ft, fa)
  PROVE  c.op # "RemoveNode"
<1>1. CASE a.type \in {"ScheduleTask", "RebalanceTask"}
  <2>1. \E t, task : c = PutTask(t, task)
    BY <1>1 DEF CommandsFor
  <2> QED
    BY <2>1 DEF PutTask
<1>2. CASE a.type = "CancelTask"
  BY <1>2 DEF CommandsFor, UpdateTaskStatus
<1>3. CASE a.type = "MarkNodeDegraded"
  BY <1>3 DEF CommandsFor
<1>5. CASE a.type = "RemoveAttachment"
  BY <1>5 DEF CommandsFor
<1>4. CASE a.type = "CreateAttachment"
  <2>1. \E i : c = [op |-> "PutAttachment", attachment_id |-> i, node_id |-> a.node_id]
    BY <1>4 DEF CommandsFor
  <2> QED
    BY <2>1
<1> QED
  BY <1>1, <1>2, <1>3, <1>4, <1>5 DEF CommandsFor

\* The planners and the calls of register_self, whatever the log does.
LEMMA RegistryPlanner ==
  ASSUME TypeOK, Registry, [Next]_vars
  PROVE  \A n \in Daemon : planner'[n].command # Absent
                            => planner'[n].command.op # "RemoveNode"
<1>1. CASE UNCHANGED vars
  BY <1>1 DEF vars, Registry
<1> SUFFICES ASSUME NEW d \in Daemon,
                    \/ Boot(d) \/ Start(d) \/ Registered(d) \/ Crash(d) \/ Elect(d)
                    \/ ApplyEntry(d)
                    \/ RunnerStep(d) \/ PlannerStep(d) \/ Heartbeat(d)
                    \/ SubmitTask(d) \/ AddGoal(d),
                    NEW n \in Daemon, planner'[n].command # Absent
             PROVE  planner'[n].command.op # "RemoveNode"
  BY <1>1 DEF Next
<1>t. planner \in [Daemon -> Planner]
  BY DEF TypeOK
<1>2. CASE UNCHANGED planner
  BY <1>2 DEF Registry
<1>3. CASE Crash(d) \/ PlannerTick(d) \/ PlannerReturn(d) \/ PlannerDone(d)
  <2>1. planner'[n] = planner[n] \/ planner'[n].command = Absent
    BY <1>3, <1>t DEF Crash, PlannerTick, PlannerReturn, PlannerDone, IdlePlanner, Acting
  <2> QED
    BY <2>1 DEF Registry
<1>4. CASE Elect(d)
  <2>1. PICK length : planner' = [m \in Daemon |-> AfterCut(planner[m], length)]
    BY <1>4 DEF Elect
  <2>2. planner'[n].command = planner[n].command
    BY <2>1, <1>t DEF AfterCut, Planner
  <2> QED
    BY <2>2 DEF Registry
<1>5. CASE PlannerExecute(d)
  <2>a. PICK a : \E c \in CommandsFor(a, hive[d], FreshTask, FreshAttachment) :
                   planner' = [planner EXCEPT ![d] = Prepared(c)]
    BY <1>5 DEF PlannerExecute
  <2>1. PICK c \in CommandsFor(a, hive[d], FreshTask, FreshAttachment) :
          planner' = [planner EXCEPT ![d] = Prepared(c)]
    BY <2>a
  <2>2. planner'[n] = planner[n] \/ planner'[n].command = c
    BY <2>1, <1>t DEF Prepared
  <2> QED
    BY <2>1, <2>2, CommandsKeepNodes DEF Registry
<1>6. CASE PlannerWrite(d)
  <2>1. planner'[n] = planner[n] \/ planner'[n].command = Absent
    BY <1>6, <1>t DEF PlannerWrite, Written, Acting
  <2> QED
    BY <2>1 DEF Registry
<1> QED
  BY <1>2, <1>3, <1>4, <1>5, <1>6
  DEF Boot, Start, Registered, ApplyEntry, RunnerStep, RunnerTick, RunnerStart,
      RunnerExec, RunnerFinish, RunnerReturn, PlannerStep, Heartbeat, SubmitTask, AddGoal

\* A call of register_self goes on waiting, gives up, or has just written.
LEMMA JoiningSteps ==
  ASSUME TypeOK, [Next]_vars, NEW n \in Daemon
  PROVE  \/ joining'[n] = joining[n]
         \/ joining'[n] = Lost
         \/ log' = Append(log, RegisterNode(n)) /\ joining'[n] = Len(log) + 1
         \/ \E d \in Daemon, length \in Nat : Truncates(d, length)
<1>t. joining \in [Daemon -> Nat]
  BY DEF TypeOK
<1>1. CASE UNCHANGED joining
  BY <1>1
<1>2. ASSUME NEW d \in Daemon, Start(d) \/ Registered(d) \/ Crash(d)
      PROVE  \/ joining'[n] = joining[n]
             \/ joining'[n] = Lost
             \/ log' = Append(log, RegisterNode(n)) /\ joining'[n] = Len(log) + 1
  <2>1. CASE Start(d)
    BY <2>1, <1>t DEF Start
  <2>2. CASE Registered(d) \/ Crash(d)
    BY <2>2, <1>t DEF Registered, Crash
  <2> QED
    BY <1>2, <2>1, <2>2
<1>3. ASSUME NEW d \in Daemon, Elect(d)
      PROVE  \E length \in Nat : Truncates(d, length)
  BY <1>3 DEF Elect, Truncates
<1>4. ASSUME NEW d \in Daemon,
             \/ Boot(d) \/ ApplyEntry(d) \/ RunnerStep(d) \/ PlannerStep(d)
             \/ Heartbeat(d) \/ SubmitTask(d) \/ AddGoal(d)
      PROVE  UNCHANGED joining
  BY <1>4
  DEF Boot, ApplyEntry, RunnerStep, RunnerTick, RunnerStart, RunnerExec, RunnerFinish,
      RunnerReturn, PlannerStep, PlannerTick, PlannerExecute, PlannerWrite,
      PlannerReturn, PlannerDone, Heartbeat, SubmitTask, AddGoal, daemonVars
<1> QED
  BY <1>1, <1>2, <1>3, <1>4 DEF Next, vars, daemonVars

LEMMA RegistryStep ==
  ASSUME TypeOK, Registry, [Next]_vars
  PROVE  Registry'
<1> DEFINE Waits(n) == joining'[n] # Lost =>
                         joining'[n] \in 1..Len(log') /\ log'[joining'[n]] = RegisterNode(n)
<1>t. /\ joining \in [Daemon -> Nat] /\ log \in Seq(ClusterCommand)
      /\ applied \in [Daemon -> 0..Len(log)] /\ hive \in [Daemon -> HiveStates]
      /\ Len(log) \in Nat
  BY DEF TypeOK, ReplicatorTypeOK
<1>p. \A n \in Daemon : planner'[n].command # Absent
                          => planner'[n].command.op # "RemoveNode"
  BY RegistryPlanner
<1>1. CASE UNCHANGED <<log, applied, hive>>
  <2>1. \A n \in Daemon, m \in NodeId :
          (hive[n].nodes[m] # Absent <=> RegisteredBy(m, applied[n]))'
    BY <1>1 DEF Registry, RegisteredBy
  <2>2. ASSUME NEW n \in Daemon
        PROVE  Waits(n)
    <3>1. CASE joining'[n] \in {joining[n], Lost}
      BY <3>1, <1>1 DEF Registry
    <3>2. CASE log' = Append(log, RegisterNode(n))
      <4>1. RegisterNode(n) \in ClusterCommand
        BY RegisterType, DaemonsAreNodes DEF Planned
      <4>2. Len(log') = Len(log) + 1
        BY <3>2, <4>1, <1>t
      <4> QED
        BY <4>2, <1>1, <1>t
    <3>3. ASSUME NEW d \in Daemon, NEW length \in Nat, Truncates(d, length)
          PROVE  joining'[n] \in {joining[n], Lost}
      BY <3>3 DEF Truncates, StillAwaited
    <3> QED
      BY <3>1, <3>2, <3>3, JoiningSteps
  <2> QED
    BY <1>1, <1>p, <2>1, <2>2 DEF Registry
<1>2. ASSUME NEW c, Appends(c)
      PROVE  Registry'
  <2>1. /\ Len(log') = Len(log) + 1 /\ log'[Len(log) + 1] = c
        /\ \A i \in 1..Len(log) : log'[i] = log[i]
    BY <1>2, AppendKeeps
  <2>2. ASSUME NEW n \in Daemon, NEW m \in NodeId
        PROVE  (hive[n].nodes[m] # Absent <=> RegisteredBy(m, applied[n]))'
    <3>1. applied[n] \in Nat /\ \A i \in 1..applied[n] : log'[i] = log[i]
      <4>1. applied[n] \in 0..Len(log)
        BY <1>t
      <4>2. \A i \in 1..applied[n] : i \in 1..Len(log)
        BY <4>1, <1>t
      <4> QED
        BY <4>1, <4>2, <2>1
    <3>2. applied'[n] = applied[n]
      BY <1>2 DEF Appends
    <3>3. RegisteredBy(m, applied[n])' <=> RegisteredBy(m, applied[n])
      BY <3>1, <3>2 DEF RegisteredBy
    <3> QED
      BY <1>2, <3>3 DEF Appends, Registry
  <2>3. c.op # "RemoveNode"
    <3>1. CASE Routine(c)
      BY <3>1 DEF Routine, PutTask
    <3>2. CASE \E n \in Daemon : planner[n].command # Absent /\ planner[n].command = c
      BY <3>2 DEF Registry
    <3> QED
      BY <1>2, <3>1, <3>2 DEF Appends
  <2>4. \A i \in 1..Len(log') : log'[i].op # "RemoveNode"
    <3>1. ASSUME NEW i \in 1..Len(log'), i # Len(log) + 1
          PROVE  i \in 1..Len(log)
      BY <3>1, <1>t, <2>1
    <3> QED
      BY <3>1, <2>1, <2>3 DEF Registry
  <2>5. ASSUME NEW n \in Daemon
        PROVE  Waits(n)
    <3>1. CASE joining'[n] \in {joining[n], Lost}
      BY <3>1, <2>1, <1>t DEF Registry
    <3>2. CASE log' = Append(log, RegisterNode(n)) /\ joining'[n] = Len(log) + 1
      BY <3>2, <2>1, <1>t
    <3>3. ASSUME NEW d \in Daemon, NEW length \in Nat, Truncates(d, length)
          PROVE  joining'[n] \in {joining[n], Lost}
      BY <3>3 DEF Truncates, StillAwaited
    <3> QED
      BY <3>1, <3>2, <3>3, JoiningSteps
  <2> QED
    BY <1>p, <2>2, <2>4, <2>5 DEF Registry
<1>3. ASSUME NEW d \in Daemon, ApplyEntry(d)
      PROVE  Registry'
  <2> DEFINE k == applied[d] + 1
  <2>1. /\ k \in 1..Len(log)
        /\ applied' = [applied EXCEPT ![d] = k]
        /\ hive' = [hive EXCEPT ![d] = Apply(@, log[k])]
        /\ log' = log /\ joining' = joining
    BY <1>3, <1>t DEF ApplyEntry, ApplyNext, daemonVars
  <2>2. ASSUME NEW n \in Daemon, NEW m \in NodeId
        PROVE  (hive[n].nodes[m] # Absent <=> RegisteredBy(m, applied[n]))'
    <3>1. CASE n = d
      <4>1. Apply(hive[d], log[k]).nodes[m] # Absent
              <=> hive[d].nodes[m] # Absent \/ Registers(log[k], m)
        BY <1>t, <2>1, ApplyNodes DEF Registry
      <4>2. RegisteredBy(m, k) <=> RegisteredBy(m, applied[d]) \/ Registers(log[k], m)
        BY <1>t, <2>1 DEF RegisteredBy
      <4>3. hive'[n].nodes[m] # Absent <=> RegisteredBy(m, k)
        BY <1>t, <2>1, <3>1, <4>1, <4>2 DEF Registry
      <4> QED
        BY <1>t, <2>1, <3>1, <4>3 DEF RegisteredBy
    <3>2. CASE n # d
      BY <1>t, <2>1, <3>2 DEF Registry, RegisteredBy
    <3> QED
      BY <3>1, <3>2
  <2> QED
    BY <1>p, <2>1, <2>2 DEF Registry
<1>4. ASSUME NEW d \in Daemon, NEW length \in Nat, Truncates(d, length)
      PROVE  Registry'
  <2>1. /\ Len(log') = length
        /\ \A i \in 1..length : log'[i] = log[i]
        /\ \A m \in Daemon : applied[m] <= length
        /\ length <= Len(log)
        /\ UNCHANGED <<applied, hive>>
    BY <1>4, <1>t, TakeLeadType DEF Truncates, TypeOK, TakeLead
  <2>2. ASSUME NEW n \in Daemon, NEW m \in NodeId
        PROVE  (hive[n].nodes[m] # Absent <=> RegisteredBy(m, applied[n]))'
    <3>1. applied[n] \in Nat /\ \A i \in 1..applied[n] : log'[i] = log[i]
      BY <1>t, <2>1
    <3>2. RegisteredBy(m, applied[n])' <=> RegisteredBy(m, applied[n])
      BY <2>1, <3>1 DEF RegisteredBy
    <3> QED
      BY <2>1, <3>2 DEF Registry
  <2>3. \A i \in 1..Len(log') : log'[i].op # "RemoveNode"
    BY <1>t, <2>1 DEF Registry
  <2>4. ASSUME NEW n \in Daemon
        PROVE  Waits(n)
    <3> SUFFICES ASSUME joining'[n] # Lost
                 PROVE  joining'[n] \in 1..Len(log') /\ log'[joining'[n]] = RegisterNode(n)
      OBVIOUS
    <3>1. joining'[n] = StillAwaited(joining[n], length)
      BY <1>4 DEF Truncates
    <3>2. joining'[n] = joining[n] /\ joining[n] <= length
      BY <3>1 DEF StillAwaited
    <3>3. joining[n] \in 1..Len(log) /\ log[joining[n]] = RegisterNode(n)
      BY <3>2 DEF Registry
    <3>4. joining[n] \in 1..length
      BY <1>t, <3>2, <3>3
    <3> QED
      BY <2>1, <3>2, <3>3, <3>4
  <2> QED
    BY <1>p, <2>2, <2>3, <2>4 DEF Registry
<1> QED
  BY <1>1, <1>2, <1>3, <1>4, LogSteps

LEMMA RegistryCorrect == Spec => []Registry
  BY TypeCorrect, RegistryInit, RegistryStep, PTL DEF Spec

-----------------------------------------------------------------------------
(***************************************************************************)
(* ServesRegistered.  Only register_self lets the loops start, and it      *)
(* returns once the node has applied its own entry: no longer in flight,   *)
(* the entry can be lost no more.                                          *)
(***************************************************************************)
LEMMA ServesInit == Init => ServesRegistered
  BY DEF Init, ServesRegistered

LEMMA RegistryGrows ==
  ASSUME TypeOK, Registry, Registry', [Next]_vars, NEW n \in Daemon, NEW m \in NodeId,
         hive[n].nodes[m] # Absent
  PROVE  hive'[n].nodes[m] # Absent
<1>t. /\ log \in Seq(ClusterCommand) /\ Len(log) \in Nat
      /\ applied \in [Daemon -> 0..Len(log)] /\ hive \in [Daemon -> HiveStates]
  BY DEF TypeOK, ReplicatorTypeOK
<1>1. CASE UNCHANGED hive
  BY <1>1
<1>2. ASSUME NEW d \in Daemon, ApplyEntry(d)
      PROVE  hive'[n].nodes[m] # Absent
  <2> DEFINE k == applied[d] + 1
  <2>1. k \in 1..Len(log) /\ hive' = [hive EXCEPT ![d] = Apply(@, log[k])]
    BY <1>2, <1>t DEF ApplyEntry, ApplyNext
  <2>2. Apply(hive[d], log[k]).nodes[m] # Absent
          <=> hive[d].nodes[m] # Absent \/ Registers(log[k], m)
    BY <1>t, <2>1, ApplyNodes DEF Registry
  <2> QED
    BY <1>t, <2>1, <2>2
<1> QED
  BY <1>1, <1>2, LogSteps DEF Appends, Truncates, TakeLead

LEMMA ServesStep ==
  ASSUME TypeOK, Registry, Registry', ServesRegistered, [Next]_vars
  PROVE  ServesRegistered'
<1> SUFFICES ASSUME NEW n \in Daemon, phase'[n] = "running"
             PROVE  hive'[n].nodes[n] # Absent
  BY DEF ServesRegistered
<1>t. /\ phase \in [Daemon -> Phase] /\ joining \in [Daemon -> Nat]
      /\ log \in Seq(ClusterCommand) /\ applied \in [Daemon -> 0..Len(log)]
  BY DEF TypeOK, ReplicatorTypeOK
<1>n. n \in NodeId
  BY DaemonsAreNodes
<1>1. CASE phase[n] = "running"
  BY <1>1, <1>n, RegistryGrows DEF ServesRegistered
<1>2. CASE phase[n] # "running"
  <2>a. phase' # phase
    BY <1>2
  <2>b. PICK d \in Daemon : Boot(d) \/ Start(d) \/ Registered(d) \/ Crash(d)
    BY <2>a
    DEF Next, vars, daemonVars, Elect, ApplyEntry, RunnerStep, RunnerTick, RunnerStart,
        RunnerExec, RunnerFinish, RunnerReturn, PlannerStep, PlannerTick, PlannerExecute,
        PlannerWrite, PlannerReturn, PlannerDone, Heartbeat, SubmitTask, AddGoal
  <2>c. \/ phase' = phase
        \/ phase' = [phase EXCEPT ![d] = "booted"] \/ phase' = [phase EXCEPT ![d] = "registering"]
        \/ phase' = [phase EXCEPT ![d] = "failed"] \/ phase' = [phase EXCEPT ![d] = "down"]
        \/ Registered(d) /\ Acknowledged(d, joining[d]) /\ phase' = [phase EXCEPT ![d] = "running"]
    BY <2>b DEF Boot, Start, Registered, Crash
  <2>1. Registered(n) /\ Acknowledged(n, joining[n])
    BY <1>t, <1>2, <2>c
  <2>2. /\ joining[n] \in 1..applied[n]
        /\ log[joining[n]] = RegisterNode(n)
    BY <2>1, <1>t DEF Acknowledged, Registry
  <2>3. RegisteredBy(n, applied[n])
    BY <2>2 DEF RegisteredBy, Registers, RegisterNode
  <2>4. hive[n].nodes[n] # Absent
    BY <2>3, <1>n DEF Registry
  <2> QED
    BY <2>4, <1>n, RegistryGrows
<1> QED
  BY <1>1, <1>2

\* The loops of a daemon run only where its own registration has arrived,
\* whatever crashes and elections do to the entry (register_self).
THEOREM ServesRegisteredCorrect == Spec => []ServesRegistered
  BY TypeCorrect, RegistryCorrect, ServesInit, ServesStep, PTL DEF Spec

-----------------------------------------------------------------------------
(***************************************************************************)
(* TargetIsRegistered, where every task comes from a brain.  A planner     *)
(* looks at an old view and its command may be lost, appended late or      *)
(* applied after others; but who has been registered once stays so.        *)
(***************************************************************************)
PutsWithin(c, k) == c.op = "PutTask" => RegisteredBy(c.task.target_node, k)

Targets ==
  /\ \A i \in 1..Len(log) : PutsWithin(log[i], i)
  /\ \A n \in Daemon : planner[n].command # Absent
                         => PutsWithin(planner[n].command, applied[n])

LEMMA TargetsInit == Init => Targets /\ TargetIsRegistered
  BY DEF Init, ReplicatorInit, EmptyHive, IdlePlanner, Targets, TargetIsRegistered

\* A brain's task is for a node the validator has found in the view.
LEMMA ValidatedTarget ==
  ASSUME NEW s \in HiveStates, NEW a, Validates(a, s), NEW ft, NEW fa,
         NEW c \in CommandsFor(a, s, ft, fa), c.op = "PutTask", a \in BrainActions
  PROVE  c.task.target_node \in NodeId /\ s.nodes[c.task.target_node] # Absent
<1>1. CASE a.type = "ScheduleTask"
  <2>1. PICK t \in ft : c = PutTask(t, NewTask(a.task, a.target_node))
    BY <1>1 DEF CommandsFor
  <2>2. c.task.target_node = a.target_node
    BY <2>1 DEF PutTask, NewTask
  <2> QED
    BY <1>1, <2>2 DEF Validates, BrainActions
<1>2. CASE a.type = "RebalanceTask"
  <2>1. c = PutTask(a.task_id, [s.tasks[a.task_id] EXCEPT !.target_node = a.to_node,
                                                         !.status = "Pending"])
    BY <1>2 DEF CommandsFor
  <2>2. a.task_id \in TaskId /\ a.to_node \in NodeId
    BY <1>2 DEF BrainActions
  <2>3. s.tasks[a.task_id] \in Task /\ s.nodes[a.to_node] # Absent
    BY <1>2, <2>2 DEF Validates, HiveStates
  <2>4. c.task.target_node = a.to_node
    BY <2>1, <2>3 DEF PutTask, Task
  <2> QED
    BY <2>2, <2>3, <2>4
<1>3. CASE a.type = "CancelTask"
  BY <1>3 DEF CommandsFor, UpdateTaskStatus
<1>4. CASE a.type = "MarkNodeDegraded"
  BY <1>4 DEF CommandsFor
<1>5. CASE a.type = "CreateAttachment"
  <2>1. \E i : c = [op |-> "PutAttachment", attachment_id |-> i, node_id |-> a.node_id]
    BY <1>5 DEF CommandsFor
  <2> QED
    BY <2>1
<1>6. CASE a.type = "RemoveAttachment"
  BY <1>6 DEF CommandsFor
<1>7. CASE a.type \in {"UpdateGoalProgress", "RequestHumanApproval", "NoOp"}
  BY <1>7 DEF CommandsFor
<1> QED
  BY <1>1, <1>2, <1>3, <1>4, <1>5, <1>6, <1>7 DEF BrainActions

\* Whom the first entries register is registered by more of them.
LEMMA RegisteredLonger ==
  ASSUME NEW k \in Nat, NEW l \in Nat, k <= l, NEW m, RegisteredBy(m, k)
  PROVE  RegisteredBy(m, l)
  BY DEF RegisteredBy

LEMMA TargetsPlanner ==
  ASSUME TypeOK, Registry, Targets, [Next]_vars, NEW n \in Daemon,
         planner'[n].command # Absent
  PROVE  PutsWithin(planner'[n].command, applied[n])
<1>1. CASE UNCHANGED vars
  BY <1>1 DEF vars, Targets
<1> SUFFICES ASSUME NEW d \in Daemon,
                    \/ Boot(d) \/ Start(d) \/ Registered(d) \/ Crash(d) \/ Elect(d)
                    \/ ApplyEntry(d)
                    \/ RunnerStep(d) \/ PlannerStep(d) \/ Heartbeat(d)
                    \/ SubmitTask(d) \/ AddGoal(d)
             PROVE  PutsWithin(planner'[n].command, applied[n])
  BY <1>1 DEF Next
<1>t. planner \in [Daemon -> Planner] /\ hive \in [Daemon -> HiveStates]
  BY DEF TypeOK, ReplicatorTypeOK
<1>2. CASE UNCHANGED planner
  BY <1>2 DEF Targets
<1>3. CASE Crash(d) \/ PlannerTick(d) \/ PlannerReturn(d) \/ PlannerDone(d)
  <2>1. planner'[n] = planner[n] \/ planner'[n].command = Absent
    BY <1>3, <1>t DEF Crash, PlannerTick, PlannerReturn, PlannerDone, IdlePlanner, Acting
  <2> QED
    BY <2>1 DEF Targets
<1>4. CASE Elect(d)
  <2>1. PICK length : planner' = [m \in Daemon |-> AfterCut(planner[m], length)]
    BY <1>4 DEF Elect
  <2>2. planner'[n].command = planner[n].command
    BY <2>1, <1>t DEF AfterCut, Planner
  <2> QED
    BY <2>2 DEF Targets
<1>5. CASE PlannerExecute(d)
  <2>a. PICK a \in Proposals :
          /\ Validates(a, hive[d])
          /\ \E c \in CommandsFor(a, hive[d], FreshTask, FreshAttachment) :
               planner' = [planner EXCEPT ![d] = Prepared(c)]
    BY <1>5 DEF PlannerExecute
  <2>1. PICK c \in CommandsFor(a, hive[d], FreshTask, FreshAttachment) :
          planner' = [planner EXCEPT ![d] = Prepared(c)]
    BY <2>a
  <2>2. planner'[n] = planner[n] \/ (n = d /\ planner'[n].command = c)
    <3>1. CASE n = d
      BY <2>1, <3>1, <1>t DEF Prepared
    <3>2. CASE n # d
      BY <2>1, <3>2, <1>t
    <3> QED
      BY <3>1, <3>2
  <2>3. ASSUME c.op = "PutTask"
        PROVE  RegisteredBy(c.task.target_node, applied[d])
    <3>1. c.task.target_node \in NodeId /\ hive[d].nodes[c.task.target_node] # Absent
      BY <2>a, <2>3, <1>t, ProposalsType, ValidatedTarget
    <3> QED
      BY <3>1 DEF Registry
  <2> QED
    BY <2>2, <2>3 DEF Targets, PutsWithin
<1>6. CASE PlannerWrite(d)
  <2>1. planner'[n] = planner[n] \/ planner'[n].command = Absent
    BY <1>6, <1>t DEF PlannerWrite, Written, Acting
  <2> QED
    BY <2>1 DEF Targets
<1> QED
  BY <1>2, <1>3, <1>4, <1>5, <1>6
  DEF Boot, Start, Registered, ApplyEntry, RunnerStep, RunnerTick, RunnerStart,
      RunnerExec, RunnerFinish, RunnerReturn, PlannerStep, Heartbeat, SubmitTask, AddGoal

LEMMA TargetsStep ==
  ASSUME ApiPayload = {}, TypeOK, Registry, Targets, [Next]_vars
  PROVE  Targets'
<1>t. /\ log \in Seq(ClusterCommand) /\ Len(log) \in Nat
      /\ applied \in [Daemon -> 0..Len(log)]
  BY DEF TypeOK, ReplicatorTypeOK
<1>1. CASE UNCHANGED <<log, applied, hive>>
  <2>2. ASSUME NEW n \in Daemon, planner'[n].command # Absent
        PROVE  PutsWithin(planner[n].command, applied[n])'
    BY <1>1, <2>2, TargetsPlanner DEF PutsWithin, RegisteredBy
  <2>3. \A i \in 1..Len(log') : PutsWithin(log[i], i)'
    BY <1>1 DEF Targets, PutsWithin, RegisteredBy
  <2> QED
    BY <2>2, <2>3 DEF Targets
<1>2. ASSUME NEW c, Appends(c)
      PROVE  Targets'
  <2>1. /\ Len(log') = Len(log) + 1 /\ log'[Len(log) + 1] = c
        /\ \A i \in 1..Len(log) : log'[i] = log[i]
    BY <1>2, AppendKeeps
  <2>2. ASSUME NEW k \in 0..Len(log), NEW m, RegisteredBy(m, k)
        PROVE  RegisteredBy(m, k)'
    BY <2>1, <2>2, <1>t DEF RegisteredBy
  <2>3. ASSUME NEW n \in Daemon, planner'[n].command # Absent
        PROVE  PutsWithin(planner[n].command, applied[n])'
    <3>1. PutsWithin(planner'[n].command, applied[n])
      BY <2>3, TargetsPlanner
    <3>2. applied[n] \in 0..Len(log) /\ applied'[n] = applied[n]
      BY <1>2, <1>t DEF Appends
    <3> QED
      BY <2>2, <3>1, <3>2 DEF PutsWithin
  <2>4. ASSUME NEW i \in 1..Len(log)
        PROVE  PutsWithin(log[i], i)'
    BY <2>1, <2>2, <1>t DEF Targets, PutsWithin
  <2>5. ASSUME c.op = "PutTask"
        PROVE  \E j \in 1..(Len(log) + 1) : Registers(log'[j], c.task.target_node)
    <3>1. PICK n \in Daemon : planner[n].command # Absent /\ planner[n].command = c
      BY <1>2, <2>5 DEF Appends, Routine
    <3>2. RegisteredBy(c.task.target_node, applied[n]) /\ applied[n] \in 0..Len(log)
      BY <2>5, <3>1, <1>t DEF Targets, PutsWithin
    <3>3. PICK j \in 1..applied[n] : Registers(log[j], c.task.target_node)
      BY <3>2 DEF RegisteredBy
    <3>4. j \in 1..(Len(log) + 1) /\ log'[j] = log[j]
      BY <3>2, <3>3, <2>1, <1>t
    <3> QED
      BY <3>3, <3>4
  <2>6. \A i \in 1..Len(log') : PutsWithin(log[i], i)'
    <3> SUFFICES ASSUME NEW i \in 1..Len(log')
                 PROVE  PutsWithin(log[i], i)'
      OBVIOUS
    <3>1. CASE i \in 1..Len(log)
      BY <3>1, <2>4
    <3>2. CASE i \notin 1..Len(log)
      <4>1. i = Len(log) + 1
        BY <3>2, <1>t, <2>1
      <4> QED
        BY <4>1, <2>1, <2>5 DEF PutsWithin, RegisteredBy
    <3> QED
      BY <3>1, <3>2
  <2> QED
    BY <2>3, <2>6 DEF Targets
<1>3. ASSUME NEW d \in Daemon, ApplyEntry(d)
      PROVE  Targets'
  <2>1. /\ applied' = [applied EXCEPT ![d] = applied[d] + 1]
        /\ log' = log /\ planner' = planner
    BY <1>3 DEF ApplyEntry, ApplyNext
  <2>2. ASSUME NEW n \in Daemon, planner[n].command # Absent
        PROVE  PutsWithin(planner[n].command, applied'[n])
    <3>1. applied[n] \in Nat /\ applied'[n] \in Nat /\ applied[n] <= applied'[n]
      BY <1>t, <2>1
    <3> QED
      BY <2>2, <3>1, RegisteredLonger DEF Targets, PutsWithin
  <2>3. \A n \in Daemon : planner'[n].command # Absent
                            => PutsWithin(planner[n].command, applied[n])'
    BY <2>1, <2>2 DEF PutsWithin, RegisteredBy
  <2>4. \A i \in 1..Len(log') : PutsWithin(log[i], i)'
    BY <2>1 DEF Targets, PutsWithin, RegisteredBy
  <2> QED
    BY <2>3, <2>4 DEF Targets
<1>4. ASSUME NEW d \in Daemon, NEW length \in Nat, Truncates(d, length)
      PROVE  Targets'
  <2>1. /\ Len(log') = length
        /\ \A i \in 1..length : log'[i] = log[i]
        /\ \A m \in Daemon : applied[m] <= length
        /\ length <= Len(log)
        /\ UNCHANGED applied
    BY <1>4, <1>t, TakeLeadType DEF Truncates, TypeOK, TakeLead
  <2>2. ASSUME NEW k \in 0..length, NEW m, RegisteredBy(m, k)
        PROVE  RegisteredBy(m, k)'
    BY <2>1, <2>2 DEF RegisteredBy
  <2>3. ASSUME NEW n \in Daemon, planner'[n].command # Absent
        PROVE  PutsWithin(planner[n].command, applied[n])'
    <3>1. PutsWithin(planner'[n].command, applied[n])
      BY <2>3, TargetsPlanner
    <3>2. applied[n] \in 0..length /\ applied'[n] = applied[n]
      BY <2>1, <1>t
    <3> QED
      BY <2>2, <3>1, <3>2 DEF PutsWithin
  <2>4. \A i \in 1..Len(log') : PutsWithin(log[i], i)'
    BY <2>1, <2>2, <1>t DEF Targets, PutsWithin
  <2> QED
    BY <2>3, <2>4 DEF Targets
<1> QED
  BY <1>1, <1>2, <1>3, <1>4, LogSteps

\* What a command does to the tasks that are seen: a new target is the one of
\* the PutTask that is applied.
LEMMA ApplyTarget ==
  ASSUME NEW s \in HiveStates, NEW c \in ClusterCommand, NEW t \in TaskId,
         Apply(s, c).tasks[t] # Absent
  PROVE  \/ /\ s.tasks[t] # Absent
            /\ Apply(s, c).tasks[t].target_node = s.tasks[t].target_node
         \/ /\ c.op = "PutTask"
            /\ Apply(s, c).tasks[t].target_node = c.task.target_node
<1>1. CASE c.op = "PutTask"
  <2>1. c.task_id \in TaskId
    BY <1>1, CommandCases
  <2>2. Apply(s, c).tasks = [s.tasks EXCEPT ![c.task_id] = c.task]
    BY <1>1, ApplyTasks
  <2> QED
    BY <1>1, <2>1, <2>2 DEF HiveStates
<1>2. CASE c.op = "UpdateTaskStatus" /\ s.tasks[c.task_id] # Absent
  <2>1. c.task_id \in TaskId /\ c.status \in TaskStatus /\ c.result \in BOOLEAN
    BY <1>2, CommandCases
  <2>2. s.tasks[c.task_id] \in Task
    BY <1>2, <2>1 DEF HiveStates
  <2>3. Updated(s.tasks[c.task_id], c).target_node = s.tasks[c.task_id].target_node
    BY <2>1, <2>2, UpdatedType
  <2>4. Apply(s, c).tasks = [s.tasks EXCEPT ![c.task_id] = Updated(@, c)]
    BY <1>2, ApplyTasks
  <2> QED
    BY <1>2, <2>1, <2>3, <2>4 DEF HiveStates
<1>3. CASE c.op # "PutTask" /\ ~ (c.op = "UpdateTaskStatus" /\ s.tasks[c.task_id] # Absent)
  BY <1>3, ApplyTasks
<1> QED
  BY <1>1, <1>2, <1>3

LEMMA TargetStep ==
  ASSUME TypeOK, Registry, Registry', Targets, TargetIsRegistered, [Next]_vars
  PROVE  TargetIsRegistered'
<1>t. /\ log \in Seq(ClusterCommand) /\ Len(log) \in Nat
      /\ applied \in [Daemon -> 0..Len(log)] /\ hive \in [Daemon -> HiveStates]
  BY DEF TypeOK, ReplicatorTypeOK
<1>1. CASE UNCHANGED hive
  BY <1>1 DEF TargetIsRegistered
<1>2. ASSUME NEW d \in Daemon, ApplyEntry(d)
      PROVE  TargetIsRegistered'
  <2> DEFINE k == applied[d] + 1
  <2>1. /\ k \in 1..Len(log) /\ log[k] \in ClusterCommand /\ log' = log
        /\ applied' = [applied EXCEPT ![d] = k]
        /\ hive' = [hive EXCEPT ![d] = Apply(@, log[k])]
    BY <1>2, <1>t DEF ApplyEntry, ApplyNext
  <2> SUFFICES ASSUME NEW n \in Daemon, NEW t \in TaskId, hive'[n].tasks[t] # Absent
               PROVE  hive'[n].nodes[hive'[n].tasks[t].target_node] # Absent
    BY DEF TargetIsRegistered
  <2>2. CASE n # d
    BY <2>1, <2>2, <1>t DEF TargetIsRegistered
  <2>3. CASE n = d
    <3>1. hive'[n] = Apply(hive[d], log[k]) /\ applied'[n] = k
      BY <2>1, <2>3, <1>t
    <3>2. \/ /\ hive[n].tasks[t] # Absent
             /\ hive'[n].tasks[t].target_node = hive[n].tasks[t].target_node
          \/ /\ log[k].op = "PutTask"
             /\ hive'[n].tasks[t].target_node = log[k].task.target_node
      BY <2>1, <2>3, <3>1, <1>t, ApplyTarget
    <3>3. CASE /\ hive[n].tasks[t] # Absent
               /\ hive'[n].tasks[t].target_node = hive[n].tasks[t].target_node
      <4>1. hive[n].tasks[t].target_node \in NodeId
        BY <3>3, <1>t DEF HiveStates, Task
      <4> QED
        BY <3>3, <4>1, RegistryGrows DEF TargetIsRegistered
    <3>4. CASE /\ log[k].op = "PutTask"
               /\ hive'[n].tasks[t].target_node = log[k].task.target_node
      <4>1. PICK m \in NodeId : m = log[k].task.target_node
        BY <2>1, <3>4, CommandCases DEF Task
      <4>2. RegisteredBy(m, k)
        BY <2>1, <3>4, <4>1 DEF Targets, PutsWithin
      <4>3. RegisteredBy(m, applied[n])'
        BY <2>1, <3>1, <4>2 DEF RegisteredBy
      <4>4. hive'[n].nodes[m] # Absent
        BY <4>1, <4>3 DEF Registry
      <4> QED
        BY <3>4, <4>1, <4>4
    <3> QED
      BY <3>2, <3>3, <3>4
  <2> QED
    BY <2>2, <2>3
<1> QED
  BY <1>1, <1>2, LogSteps DEF Appends, Truncates, TakeLead

\* Where tasks come from the brains (parse_action, validate and execute), every
\* task a node sees is for a node it sees registered.
THEOREM TargetIsRegisteredCorrect ==
  ASSUME ApiPayload = {}
  PROVE  Spec => []TargetIsRegistered
<1>1. Init => Targets /\ TargetIsRegistered
  BY TargetsInit
<1>2. TypeOK /\ Registry /\ Registry' /\ Targets /\ TargetIsRegistered /\ [Next]_vars
        => Targets' /\ TargetIsRegistered'
  BY TargetsStep, TargetStep
<1> QED
  BY <1>1, <1>2, TypeCorrect, RegistryCorrect, PTL DEF Spec

=============================================================================

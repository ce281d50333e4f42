---------------------------- MODULE TaskBoardProofs ----------------------------
(***************************************************************************)
(* Proofs about the way a task takes where nobody cancels or moves it: the *)
(* views of all nodes follow one history of the task, the runner and the   *)
(* view agree while the payload is executed, a finished task stays as it   *)
(* is, and TaskLifecycle implements TaskBoard.                             *)
(***************************************************************************)
EXTENDS RegistrationProofs

\* No brain asks to cancel or to move a task.
NoMoves == ActionTypes \cap {"CancelTask", "RebalanceTask"} = {}

-----------------------------------------------------------------------------
(***************************************************************************)
(* The history of a task: what the first k entries of a log say of it.     *)
(***************************************************************************)
Puts(c, t) == c.op = "PutTask" /\ c.task_id = t

Reports(c, t, statuses) ==
  c.op = "UpdateTaskStatus" /\ c.task_id = t /\ c.status \in statuses

Put(entries, t, k)   == \E i \in 1..k : Puts(entries[i], t)
Taken(entries, t, k) == \E i \in 1..k : Reports(entries[i], t, {"Running"})
Over(entries, t, k)  == \E i \in 1..k : Reports(entries[i], t, Finished)

\* A record of t that tells what the first k entries tell.
Tells(entries, k, task, t) ==
  /\ task # Absent <=> Put(entries, t, k)
  /\ task # Absent =>
       /\ \A i \in 1..k : Puts(entries[i], t)
                            => task.target_node = entries[i].task.target_node
       /\ task.status = "Pending" <=> ~ Taken(entries, t, k)
       /\ task.status \in Finished <=> Over(entries, t, k)
       /\ task.status # "Cancelled"

\* c may follow the first k entries.
InOrder(entries, k, c, t) ==
  /\ Puts(c, t) => ~ Put(entries, t, k) /\ c.task.status = "Pending"
  /\ Reports(c, t, TaskStatus) =>
       /\ c.status \in {"Running"} \cup Finished
       /\ Put(entries, t, k)
       /\ ~ Over(entries, t, k)
       /\ c.status \in Finished => Taken(entries, t, k)

-----------------------------------------------------------------------------
(***************************************************************************)
(* The invariant.                                                          *)
(***************************************************************************)
\* A planner holds no status, and no task that anybody else has put.
HeldIsFresh(n) ==
  planner[n].command # Absent =>
    /\ planner[n].command.op # "UpdateTaskStatus"
    /\ \A t \in TaskId : Puts(planner[n].command, t) =>
         /\ ~ Put(log, t, Len(log))
         /\ \A m \in Daemon \ {n} : planner[m].command # Absent
                                      => ~ Puts(planner[m].command, t)

\* A task is put in the log once.
PutOnce ==
  /\ \A i, j \in 1..Len(log), t \in TaskId :
       Puts(log[i], t) /\ Puts(log[j], t) => i = j
  /\ \A n \in Daemon : HeldIsFresh(n)

\* Put, taken, ended: in this order, ended once, and run by its target before.
Ordered ==
  /\ \A i \in 1..Len(log), t \in TaskId : InOrder(log, i - 1, log[i], t)
  /\ \A i, j \in 1..Len(log), t \in TaskId, m \in Daemon :
       Reports(log[i], t, Finished) /\ Puts(log[j], t) /\ log[j].task.target_node = m
         => runs[m][t] > 0

\* Every view tells what the entries applied to it tell.
Shown ==
  \A n \in Daemon, t \in TaskId : Tells(log, applied[n], hive[n].tasks[t], t)

\* A runner works on tasks of its own; one that has been executed is taken in
\* the view, and its end is not in the log.
WorkingAt(n) ==
  /\ runner[n].queue \subseteq MyTasks(n)
  /\ runner[n].pc # "idle" => runner[n].cur \in MyTasks(n)
  /\ runner[n].pc = "finish" => /\ Taken(log, runner[n].cur, applied[n])
                                /\ ~ Over(log, runner[n].cur, Len(log))
                                /\ runs[n][runner[n].cur] > 0

Working == \A n \in Daemon : WorkingAt(n)

BoardInv == PutOnce /\ Ordered /\ Shown /\ Working

-----------------------------------------------------------------------------
(***************************************************************************)
(* Histories.                                                              *)
(***************************************************************************)
\* Two logs that agree on their first k entries tell the same.
LEMMA SameHistory ==
  ASSUME NEW old, NEW new, NEW k \in Int, \A i \in 1..k : new[i] = old[i], NEW t
  PROVE  /\ Put(new, t, k) <=> Put(old, t, k)
         /\ Taken(new, t, k) <=> Taken(old, t, k)
         /\ Over(new, t, k) <=> Over(old, t, k)
         /\ \A task : Tells(new, k, task, t) <=> Tells(old, k, task, t)
         /\ \A c : InOrder(new, k, c, t) <=> InOrder(old, k, c, t)
<1>1. /\ Put(new, t, k) <=> Put(old, t, k)
      /\ Taken(new, t, k) <=> Taken(old, t, k)
      /\ Over(new, t, k) <=> Over(old, t, k)
  BY DEF Put, Taken, Over
<1>2. ASSUME NEW task
      PROVE  Tells(new, k, task, t) <=> Tells(old, k, task, t)
  BY <1>1 DEF Tells
<1>3. ASSUME NEW c
      PROVE  InOrder(new, k, c, t) <=> InOrder(old, k, c, t)
  BY <1>1 DEF InOrder
<1> QED
  BY <1>1, <1>2, <1>3

\* What was told early is told later.
LEMMA LongerHistory ==
  ASSUME NEW entries, NEW k \in Int, NEW l \in Int, k <= l, NEW t
  PROVE  /\ Put(entries, t, k) => Put(entries, t, l)
         /\ Taken(entries, t, k) => Taken(entries, t, l)
         /\ Over(entries, t, k) => Over(entries, t, l)
<1>1. \A i \in 1..k : i \in 1..l
  OBVIOUS
<1> QED
  BY <1>1 DEF Put, Taken, Over

\* One more entry.
LEMMA NextEntry ==
  ASSUME NEW entries, NEW k \in Nat, NEW t
  PROVE  LET c == entries[k + 1]
         IN /\ Put(entries, t, k + 1) <=> Put(entries, t, k) \/ Puts(c, t)
            /\ Taken(entries, t, k + 1)
                 <=> Taken(entries, t, k) \/ Reports(c, t, {"Running"})
            /\ Over(entries, t, k + 1)
                 <=> Over(entries, t, k) \/ Reports(c, t, Finished)
<1>1. 1..(k + 1) = (1..k) \cup {k + 1}
  OBVIOUS
<1> QED
  BY <1>1 DEF Put, Taken, Over

\* What applying an entry that is in order does to the record of a task.
LEMMA ApplyMoves ==
  ASSUME NEW s \in HiveStates, NEW c \in ClusterCommand, NEW t \in TaskId,
         NEW entries, NEW k \in Nat, Tells(entries, k, s.tasks[t], t),
         InOrder(entries, k, c, t)
  PROVE  LET old == s.tasks[t]
             new == Apply(s, c).tasks[t]
         IN \/ ~ Puts(c, t) /\ ~ Reports(c, t, TaskStatus) /\ new = old
            \/ Puts(c, t) /\ old = Absent /\ new = c.task /\ new.status = "Pending"
            \/ /\ Reports(c, t, {"Running"})
               /\ old # Absent /\ new # Absent
               /\ old.status \in {"Pending", "Running"} /\ new.status = "Running"
               /\ new.target_node = old.target_node
            \/ /\ Reports(c, t, Finished)
               /\ old # Absent /\ new # Absent
               /\ old.status = "Running" /\ new.status \in Finished
               /\ new.target_node = old.target_node
<1> DEFINE old == s.tasks[t]
           new == Apply(s, c).tasks[t]
<1>t. s.tasks \in [TaskId -> Task \cup {Absent}]
  BY DEF HiveStates
<1>1. CASE Puts(c, t)
  <2>1. old = Absent /\ c.task.status = "Pending"
    BY <1>1 DEF Tells, InOrder
  <2>2. Apply(s, c).tasks = [s.tasks EXCEPT ![t] = c.task]
    BY <1>1, ApplyTasks DEF Puts
  <2> QED
    BY <1>1, <1>t, <2>1, <2>2
<1>2. CASE Reports(c, t, TaskStatus)
  <2>1. /\ c.op = "UpdateTaskStatus" /\ c.task_id = t
        /\ c.status \in TaskStatus /\ c.result \in BOOLEAN
    BY <1>2, CommandCases DEF Reports
  <2>2. old # Absent /\ old \in Task
    BY <1>2, <1>t DEF Tells, InOrder
  <2>3. new = Updated(old, c)
    <3>1. Apply(s, c).tasks = [s.tasks EXCEPT ![t] = Updated(@, c)]
      BY <2>1, <2>2, ApplyTasks
    <3> QED
      BY <1>t, <3>1
  <2>4. new \in Task /\ new.status = c.status /\ new.target_node = old.target_node
    BY <2>1, <2>2, <2>3, UpdatedType
  <2>5. new # Absent
    BY <2>4, AbsentIsNoValue
  <2>6. /\ c.status \in {"Running"} \cup Finished
        /\ c.status \in Finished => Taken(entries, t, k)
        /\ ~ Over(entries, t, k)
    BY <1>2 DEF InOrder
  <2>7. old.status \in {"Pending", "Running"}
        /\ (c.status \in Finished => old.status = "Running")
    BY <2>2, <2>6 DEF Tells, Task, TaskStatus, Finished
  <2> QED
    BY <2>1, <2>2, <2>4, <2>5, <2>6, <2>7 DEF Reports
<1>3. CASE ~ Puts(c, t) /\ ~ Reports(c, t, TaskStatus)
  <2>1. c.op = "UpdateTaskStatus" => c.status \in TaskStatus
    BY CommandCases
  <2>2. new = old
    BY <1>3, <1>t, <2>1, ApplyTasks, CommandCases DEF Puts, Reports
  <2> QED
    BY <1>3, <2>2
<1> QED
  BY <1>1, <1>2, <1>3

\* The view goes on telling what the log tells.
LEMMA ApplyTells ==
  ASSUME NEW s \in HiveStates, NEW entries, NEW k \in Nat,
         entries[k + 1] \in ClusterCommand, NEW t \in TaskId,
         Tells(entries, k, s.tasks[t], t),
         InOrder(entries, k, entries[k + 1], t),
         ~ Put(entries, t, k) => ~ Taken(entries, t, k) /\ ~ Over(entries, t, k)
  PROVE  Tells(entries, k + 1, Apply(s, entries[k + 1]).tasks[t], t)
<1> DEFINE c == entries[k + 1]
           old == s.tasks[t]
           new == Apply(s, c).tasks[t]
<1>n. /\ Put(entries, t, k + 1) <=> Put(entries, t, k) \/ Puts(c, t)
      /\ Taken(entries, t, k + 1) <=> Taken(entries, t, k) \/ Reports(c, t, {"Running"})
      /\ Over(entries, t, k + 1) <=> Over(entries, t, k) \/ Reports(c, t, Finished)
  BY NextEntry
<1>i. \A i \in 1..(k + 1) : i \in 1..k \/ i = k + 1
  OBVIOUS
<1>a. Absent \notin Task
  BY AbsentIsNoValue
<1>1. CASE ~ Puts(c, t) /\ ~ Reports(c, t, TaskStatus) /\ new = old
  <2>1. ~ Reports(c, t, {"Running"}) /\ ~ Reports(c, t, Finished)
    BY <1>1 DEF Reports, TaskStatus, Finished
  <2> QED
    BY <1>n, <1>i, <1>1, <2>1 DEF Tells
<1>2. CASE Puts(c, t) /\ old = Absent /\ new = c.task /\ new.status = "Pending"
  <2>1. new # Absent
    BY <1>2, <1>a, CommandCases DEF Puts
  <2>2. ~ Put(entries, t, k) /\ ~ Taken(entries, t, k) /\ ~ Over(entries, t, k)
    BY <1>2 DEF Tells
  <2>3. ~ Reports(c, t, {"Running"}) /\ ~ Reports(c, t, Finished)
    BY <1>2 DEF Puts, Reports
  <2>4. \A i \in 1..k : ~ Puts(entries[i], t)
    BY <2>2 DEF Put
  <2> QED
    BY <1>n, <1>i, <1>2, <2>1, <2>2, <2>3, <2>4 DEF Tells, Finished
<1>3. CASE /\ Reports(c, t, {"Running"})
           /\ old # Absent /\ new # Absent
           /\ old.status \in {"Pending", "Running"} /\ new.status = "Running"
           /\ new.target_node = old.target_node
  <2>1. ~ Puts(c, t) /\ ~ Reports(c, t, Finished)
    BY <1>3 DEF Puts, Reports, Finished
  <2> QED
    BY <1>n, <1>i, <1>3, <2>1 DEF Tells, Finished
<1>4. CASE /\ Reports(c, t, Finished)
           /\ old # Absent /\ new # Absent
           /\ old.status = "Running" /\ new.status \in Finished
           /\ new.target_node = old.target_node
  <2>1. ~ Puts(c, t) /\ ~ Reports(c, t, {"Running"})
    BY <1>4 DEF Puts, Reports, Finished
  <2> QED
    BY <1>n, <1>i, <1>4, <2>1 DEF Tells, Finished
<1> QED
  BY <1>1, <1>2, <1>3, <1>4, ApplyMoves

-----------------------------------------------------------------------------
(***************************************************************************)
(* A task is put once.                                                     *)
(***************************************************************************)
\* What a brain proposes that neither cancels nor moves tasks.
LEMMA UnmovedTypes ==
  ASSUME NoMoves, NEW a \in Proposals
  PROVE  a.type \in {"ScheduleTask", "UpdateGoalProgress", "MarkNodeDegraded",
                     "RequestHumanApproval", "NoOp"}
<1>1. PICK raw \in RawActions : a \in ParseAction(raw)
  BY DEF Proposals
<1>2. raw.type \in ActionTypes /\ raw.type \notin {"CancelTask", "RebalanceTask"}
  BY DEF NoMoves, RawActions
<1>3. CASE raw.type = "ScheduleTask"
  BY <1>1, <1>3 DEF ParseAction
<1>4. CASE raw.type \in {"UpdateGoalProgress", "MarkNodeDegraded",
                         "RequestHumanApproval", "NoOp"}
  BY <1>1, <1>4 DEF ParseAction
<1> QED
  BY <1>1, <1>2, <1>3, <1>4 DEF ParseAction

\* Without cancelling and moving, execute only puts new tasks.
LEMMA OnlyNewTasks ==
  ASSUME NoMoves, NEW a \in Proposals, NEW s, NEW fresh, NEW freshA,
         NEW c \in CommandsFor(a, s, fresh, freshA)
  PROVE  /\ c.op # "UpdateTaskStatus"
         /\ c.op = "PutTask" => c.task_id \in fresh
<1>1. CASE a.type = "ScheduleTask"
  <2>1. PICK t \in fresh : c = PutTask(t, NewTask(a.task, a.target_node))
    BY <1>1 DEF CommandsFor
  <2> QED
    BY <2>1 DEF PutTask
<1>2. CASE a.type = "MarkNodeDegraded"
  BY <1>2 DEF CommandsFor
<1> QED
  BY <1>1, <1>2, UnmovedTypes DEF CommandsFor

\* The command a planner holds after a step is the one it held before, or one
\* its executor has just prepared.
LEMMA HeldSteps ==
  ASSUME TypeOK, [Next]_vars, NEW n \in Daemon, planner'[n].command # Absent
  PROVE  \/ planner'[n].command = planner[n].command
         \/ /\ \E a \in Proposals :
                 planner'[n].command
                   \in CommandsFor(a, hive[n], FreshTask, FreshAttachment)
            /\ log' = log
            /\ \A m \in Daemon \ {n} : planner'[m] = planner[m]
<1>t. planner \in [Daemon -> Planner]
  BY DEF TypeOK
<1>1. CASE UNCHANGED planner
  BY <1>1
<1> SUFFICES ASSUME NEW d \in Daemon,
                    \/ Boot(d) \/ Start(d) \/ Registered(d) \/ Crash(d) \/ Elect(d)
                    \/ ApplyEntry(d)
                    \/ RunnerStep(d) \/ PlannerStep(d) \/ Heartbeat(d)
                    \/ SubmitTask(d) \/ AddGoal(d)
             PROVE  \/ planner'[n].command = planner[n].command
                    \/ /\ \E a \in Proposals :
                            planner'[n].command
                              \in CommandsFor(a, hive[n], FreshTask, FreshAttachment)
                       /\ log' = log
                       /\ \A m \in Daemon \ {n} : planner'[m] = planner[m]
  BY <1>1 DEF Next, vars
<1>2. CASE Crash(d) \/ PlannerTick(d) \/ PlannerReturn(d) \/ PlannerDone(d)
  <2>1. planner'[n] = planner[n] \/ planner'[n].command = Absent
    BY <1>2, <1>t DEF Crash, PlannerTick, PlannerReturn, PlannerDone, IdlePlanner, Acting
  <2> QED
    BY <2>1
<1>3. CASE Elect(d)
  <2>1. PICK length : planner' = [m \in Daemon |-> AfterCut(planner[m], length)]
    BY <1>3 DEF Elect
  <2> QED
    BY <2>1, <1>t DEF AfterCut, Planner
<1>4. CASE PlannerExecute(d)
  <2>a. PICK a \in Proposals :
          \E c \in CommandsFor(a, hive[d], FreshTask, FreshAttachment) :
            planner' = [planner EXCEPT ![d] = Prepared(c)]
    BY <1>4 DEF PlannerExecute
  <2>1. PICK c \in CommandsFor(a, hive[d], FreshTask, FreshAttachment) :
          planner' = [planner EXCEPT ![d] = Prepared(c)]
    BY <2>a
  <2>2. log' = log
    BY <1>4 DEF PlannerExecute, replicatorVars
  <2>3. CASE n = d
    <3>1. planner'[n].command = c
      BY <2>1, <2>3, <1>t DEF Prepared
    <3> QED
      BY <2>1, <2>2, <2>3, <3>1, <1>t
  <2>4. CASE n # d
    BY <2>1, <2>4, <1>t
  <2> QED
    BY <2>3, <2>4
<1>5. CASE PlannerWrite(d)
  <2>1. planner'[n] = planner[n] \/ planner'[n].command = Absent
    BY <1>5, <1>t DEF PlannerWrite, Written, Acting
  <2> QED
    BY <2>1
<1> QED
  BY <1>1, <1>2, <1>3, <1>4, <1>5
  DEF Boot, Start, Registered, ApplyEntry, RunnerStep, RunnerTick, RunnerStart,
      RunnerExec, RunnerFinish, RunnerReturn, PlannerStep, Heartbeat, SubmitTask, AddGoal

\* A task comes from the API, under a new identifier, or from a planner.
LEMMA PutWrites ==
  ASSUME TypeOK, [Next]_vars, NEW c, Appends(c), c.op = "PutTask"
  PROVE  \/ /\ \E t \in FreshTask, payload \in ApiPayload, target \in ApiTarget :
                 c = PutTask(t, NewTask(payload, target))
            /\ planner' = planner
         \/ \E d \in Daemon :
              /\ planner[d].command # Absent /\ planner[d].command = c
              /\ planner' = [planner EXCEPT ![d] = Written(Len(log) + 1)]
              /\ UNCHANGED daemonVars
<1>t. log \in Seq(ClusterCommand) /\ Len(log) \in Nat /\ planner \in [Daemon -> Planner]
  BY DEF TypeOK, ReplicatorTypeOK
<1>2. /\ Len(log') = Len(log) + 1 /\ log'[Len(log) + 1] = c
      /\ log' # log
  <2>1. Len(log') = Len(log) + 1 /\ log'[Len(log) + 1] = c
    BY AppendKeeps
  <2> QED
    BY <2>1, <1>t
<1>w. ASSUME NEW x, log' = Append(log, x)
      PROVE  c = x
  BY <1>w, <1>2, <1>t
<1>3. PICK d \in Daemon :
        \/ Boot(d) \/ Start(d) \/ Registered(d) \/ Crash(d) \/ Elect(d)
        \/ ApplyEntry(d)
        \/ RunnerStep(d) \/ PlannerStep(d) \/ Heartbeat(d)
        \/ SubmitTask(d) \/ AddGoal(d)
  BY <1>2 DEF Next, vars, replicatorVars
<1>4. ~ (Boot(d) \/ Registered(d) \/ Crash(d) \/ ApplyEntry(d))
  BY <1>2 DEF Boot, Registered, Crash, LoseLeader, ApplyEntry, ApplyNext, replicatorVars
<1>5. ~ Elect(d)
  <2> SUFFICES ASSUME Elect(d) PROVE FALSE
    OBVIOUS
  <2>1. PICK length \in 0..Len(log) : TakeLead(d, length)
    BY DEF Elect
  <2>2. Len(log') = length
    BY <2>1, TakeLeadType DEF TypeOK
  <2> QED
    BY <1>2, <1>t, <2>2
<1>6. ~ Start(d)
  <2>1. log' # Append(log, RegisterNode(d))
    BY <1>w DEF RegisterNode
  <2> QED
    BY <1>2, <2>1 DEF Start
<1>7. ~ RunnerStep(d)
  <2>1. ~ (RunnerTick(d) \/ RunnerExec(d) \/ RunnerReturn(d))
    BY <1>2 DEF RunnerTick, RunnerExec, RunnerReturn, replicatorVars
  <2>2. ASSUME NEW t2, NEW st, NEW ok, log' = Append(log, UpdateTaskStatus(t2, st, ok))
        PROVE  FALSE
    BY <2>2, <1>w DEF UpdateTaskStatus
  <2>3. ~ RunnerStart(d) /\ ~ RunnerFinish(d)
    <3>1. RunnerStart(d) => \E t2, st, ok : log' = Append(log, UpdateTaskStatus(t2, st, ok))
                            \/ UNCHANGED replicatorVars
      BY DEF RunnerStart, ClientWrite
    <3>2. RunnerFinish(d) => \E t2, st, ok : log' = Append(log, UpdateTaskStatus(t2, st, ok))
                             \/ UNCHANGED replicatorVars
      BY DEF RunnerFinish, ClientWrite
    <3>3. ~ UNCHANGED replicatorVars
      BY <1>2 DEF replicatorVars
    <3> QED
      BY <2>2, <3>1, <3>2, <3>3
  <2> QED
    BY <2>1, <2>3 DEF RunnerStep
<1>8. ~ Heartbeat(d) /\ ~ AddGoal(d)
  <2>1. log' # Append(log, [op |-> "UpdateNodeHealth", node_id |-> d,
                             health |-> "Healthy"])
    BY <1>w
  <2>2. \A g \in GoalId : log' # Append(log, [op |-> "PutGoal", goal_id |-> g])
    BY <1>w
  <2> QED
    BY <2>1, <2>2 DEF Heartbeat, AddGoal, ClientWrite
<1>9. CASE SubmitTask(d)
  <2>1. PICK u \in FreshTask, payload \in ApiPayload, target \in ApiTarget :
          log' = Append(log, PutTask(u, NewTask(payload, target)))
    BY <1>9 DEF SubmitTask, ClientWrite
  <2>2. c = PutTask(u, NewTask(payload, target))
    BY <2>1, <1>w
  <2> QED
    BY <1>9, <2>2 DEF SubmitTask
<1>10. CASE PlannerStep(d)
  <2>1. PlannerWrite(d)
    BY <1>10, <1>2 DEF PlannerStep, PlannerTick, PlannerExecute, PlannerReturn,
                       PlannerDone, replicatorVars
  <2>2. /\ planner[d].pc = "write" /\ log' = Append(log, planner[d].command)
        /\ planner' = [planner EXCEPT ![d] = Written(Len(log) + 1)]
        /\ UNCHANGED daemonVars
    BY <1>2, <2>1 DEF PlannerWrite, ClientWrite, replicatorVars
  <2>3. planner[d].command # Absent
    BY <1>t, <2>2, AbsentIsNoValue DEF Planner
  <2>4. planner[d].command = c
    BY <1>w, <2>2
  <2> QED
    BY <2>2, <2>3, <2>4
<1> QED
  BY <1>3, <1>4, <1>5, <1>6, <1>7, <1>8, <1>9, <1>10

\* A task that a step puts in the log is a new one of the API, or one a planner
\* held and holds no longer.
LEMMA PutSteps ==
  ASSUME TypeOK, [Next]_vars, NEW t \in TaskId, Put(log', t, Len(log'))
  PROVE  \/ Put(log, t, Len(log))
         \/ t \in FreshTask /\ planner' = planner
         \/ \E d \in Daemon : /\ planner[d].command # Absent
                              /\ Puts(planner[d].command, t)
                              /\ planner'[d].command = Absent
<1> SUFFICES ASSUME ~ Put(log, t, Len(log))
             PROVE  \/ t \in FreshTask /\ planner' = planner
                    \/ \E d \in Daemon : /\ planner[d].command # Absent
                                         /\ Puts(planner[d].command, t)
                                         /\ planner'[d].command = Absent
  OBVIOUS
<1>t. log \in Seq(ClusterCommand) /\ Len(log) \in Nat /\ planner \in [Daemon -> Planner]
  BY DEF TypeOK, ReplicatorTypeOK
<1>1. PICK c : Appends(c) /\ Puts(c, t)
  <2>1. CASE UNCHANGED log
    BY <2>1
  <2>2. ASSUME NEW n \in Daemon, NEW length \in Nat, Truncates(n, length)
        PROVE  FALSE
    <3>1. length \in 0..Len(log) /\ TakeLead(n, length) /\ ReplicatorTypeOK
      BY <2>2 DEF Truncates, TypeOK
    <3>2. Len(log') = length /\ \A i \in 1..length : log'[i] = log[i]
      BY <3>1, TakeLeadType
    <3>3. length \in Int /\ length <= Len(log)
      BY <3>1, <1>t
    <3> QED
      BY <1>t, <3>2, <3>3, SameHistory, LongerHistory
  <2>3. ASSUME NEW c, Appends(c), ~ Puts(c, t)
        PROVE  FALSE
    <3>1. /\ Len(log') = Len(log) + 1 /\ log'[Len(log) + 1] = c
          /\ \A i \in 1..Len(log) : log'[i] = log[i]
      BY <2>3, AppendKeeps
    <3>2. Put(log', t, Len(log))
      BY <1>t, <2>3, <3>1, NextEntry
    <3> QED
      BY <1>t, <3>1, <3>2, SameHistory
  <2>4. ~ \E n \in Daemon : ApplyEntry(n)
    BY <2>1 DEF ApplyEntry, ApplyNext
  <2> QED
    BY <2>1, <2>2, <2>3, <2>4, LogSteps
<1>2. CASE /\ \E u \in FreshTask, payload \in ApiPayload, target \in ApiTarget :
                c = PutTask(u, NewTask(payload, target))
           /\ planner' = planner
  BY <1>1, <1>2 DEF Puts, PutTask
<1>3. ASSUME NEW d \in Daemon,
             planner[d].command # Absent, planner[d].command = c,
             planner' = [planner EXCEPT ![d] = Written(Len(log) + 1)]
      PROVE  Puts(planner[d].command, t) /\ planner'[d].command = Absent
  BY <1>1, <1>3, <1>t DEF Written
<1> QED
  BY <1>1, <1>2, <1>3, PutWrites DEF Puts

\* A new identifier is in no entry and in no command a planner holds.
LEMMA FreshIsNew ==
  ASSUME TypeOK, NEW t \in FreshTask
  PROVE  /\ t \in TaskId
         /\ ~ Put(log, t, Len(log))
         /\ \A m \in Daemon : planner[m].command # Absent
                                => ~ Puts(planner[m].command, t)
<1>1. DOMAIN log = 1..Len(log)
  BY DEF TypeOK, ReplicatorTypeOK
<1> QED
  BY <1>1 DEF FreshTask, Put, Puts

LEMMA PutOnceStep ==
  ASSUME NoMoves, TypeOK, PutOnce, [Next]_vars
  PROVE  PutOnce'
<1>t. log \in Seq(ClusterCommand) /\ Len(log) \in Nat
  BY DEF TypeOK, ReplicatorTypeOK
<1>1. ASSUME NEW i \in 1..Len(log'), NEW j \in 1..Len(log'), NEW t \in TaskId,
             Puts(log'[i], t), Puts(log'[j], t)
      PROVE  i = j
  <2>1. CASE log' = log
    BY <1>1, <2>1 DEF PutOnce
  <2>2. ASSUME NEW n \in Daemon, NEW length \in Nat, Truncates(n, length)
        PROVE  i = j
    <3>1. length \in 0..Len(log) /\ TakeLead(n, length) /\ ReplicatorTypeOK
      BY <2>2 DEF Truncates, TypeOK
    <3>2. Len(log') = length /\ \A l \in 1..length : log'[l] = log[l]
      BY <3>1, TakeLeadType
    <3>3. i \in 1..Len(log) /\ j \in 1..Len(log) /\ log'[i] = log[i] /\ log'[j] = log[j]
      BY <1>t, <3>1, <3>2
    <3> QED
      BY <1>1, <3>3 DEF PutOnce
  <2>3. ASSUME NEW c, Appends(c)
        PROVE  i = j
    <3>1. /\ Len(log') = Len(log) + 1 /\ log'[Len(log) + 1] = c
          /\ \A l \in 1..Len(log) : log'[l] = log[l]
      BY <2>3, AppendKeeps
    <3>2. ASSUME Puts(c, t)
          PROVE  ~ Put(log, t, Len(log))
      <4>1. CASE \E n \in Daemon : planner[n].command # Absent /\ planner[n].command = c
        BY <3>2, <4>1 DEF PutOnce, HeldIsFresh
      <4>2. CASE Routine(c)
        <5>1. PICK u \in FreshTask, payload \in ApiPayload, target \in ApiTarget :
                    c = PutTask(u, NewTask(payload, target))
          BY <3>2, <4>2 DEF Routine, Puts
        <5>2. u = t
          BY <3>2, <5>1 DEF Puts, PutTask
        <5> QED
          BY <5>2, FreshIsNew
      <4> QED
        BY <2>3, <4>1, <4>2 DEF Appends
    <3>3. \A l \in 1..Len(log) : Puts(log[l], t) => ~ Puts(c, t)
      BY <3>2 DEF Put
    <3>4. i \in 1..Len(log) \/ i = Len(log) + 1
      BY <1>t, <3>1
    <3>5. j \in 1..Len(log) \/ j = Len(log) + 1
      BY <1>t, <3>1
    <3>6. CASE i \in 1..Len(log) /\ j \in 1..Len(log)
      BY <1>1, <3>1, <3>6 DEF PutOnce
    <3> QED
      BY <1>1, <3>1, <3>3, <3>4, <3>5, <3>6
  <2> QED
    BY <2>1, <2>2, <2>3, LogSteps DEF ApplyEntry, ApplyNext
<1>2. ASSUME NEW n \in Daemon, planner'[n].command # Absent
      PROVE  /\ planner'[n].command.op # "UpdateTaskStatus"
             /\ \A t \in TaskId : Puts(planner'[n].command, t) =>
                  /\ ~ Put(log', t, Len(log'))
                  /\ \A m \in Daemon \ {n} : planner'[m].command # Absent
                                               => ~ Puts(planner'[m].command, t)
  <2>1. CASE /\ \E a \in Proposals :
                  planner'[n].command
                    \in CommandsFor(a, hive[n], FreshTask, FreshAttachment)
             /\ log' = log
             /\ \A m \in Daemon \ {n} : planner'[m] = planner[m]
    <3>1. PICK a \in Proposals :
            planner'[n].command \in CommandsFor(a, hive[n], FreshTask, FreshAttachment)
      BY <2>1
    <3>2. /\ planner'[n].command.op # "UpdateTaskStatus"
          /\ \A t : Puts(planner'[n].command, t) => t \in FreshTask
      BY <3>1, OnlyNewTasks DEF Puts
    <3> QED
      BY <2>1, <3>2, FreshIsNew
  <2>2. CASE planner'[n].command = planner[n].command
    <3>1. planner'[n].command.op # "UpdateTaskStatus"
      BY <1>2, <2>2 DEF PutOnce, HeldIsFresh
    <3> SUFFICES ASSUME NEW t \in TaskId, Puts(planner'[n].command, t)
                 PROVE  /\ ~ Put(log', t, Len(log'))
                        /\ \A m \in Daemon \ {n} : planner'[m].command # Absent
                                                     => ~ Puts(planner'[m].command, t)
      BY <3>1
    <3>2. /\ planner[n].command # Absent /\ Puts(planner[n].command, t)
          /\ ~ Put(log, t, Len(log)) /\ t \notin FreshTask
          /\ \A m \in Daemon \ {n} : planner[m].command # Absent
                                       => ~ Puts(planner[m].command, t)
      BY <1>2, <2>2, FreshIsNew DEF PutOnce, HeldIsFresh
    <3>3. ~ Put(log', t, Len(log'))
      BY <1>2, <3>2, PutSteps
    <3>4. ASSUME NEW m \in Daemon \ {n}, planner'[m].command # Absent,
                 Puts(planner'[m].command, t)
          PROVE  FALSE
      <4>1. planner'[m].command # planner[m].command
        BY <3>2, <3>4
      <4>2. PICK a \in Proposals :
              planner'[m].command \in CommandsFor(a, hive[m], FreshTask, FreshAttachment)
        BY <3>4, <4>1, HeldSteps
      <4> QED
        BY <3>2, <3>4, <4>2, OnlyNewTasks DEF Puts
    <3> QED
      BY <3>3, <3>4
  <2> QED
    BY <1>2, <2>1, <2>2, HeldSteps
<1> QED
  BY <1>1, <1>2 DEF PutOnce, HeldIsFresh

-----------------------------------------------------------------------------
(***************************************************************************)
(* Who reports what, and who executes.                                     *)
(***************************************************************************)
\* Executions are not forgotten, and only RunnerExec adds one.
LEMMA RunsSteps ==
  ASSUME TypeOK, [Next]_vars
  PROVE  /\ \A n \in Daemon, t \in TaskId : runs[n][t] > 0 => runs'[n][t] > 0
         /\ runs' = runs \/ \E d \in Daemon : RunnerExec(d)
<1>t. runs \in [Daemon -> [TaskId -> Nat]]
  BY DEF TypeOK
<1>1. CASE UNCHANGED runs
  BY <1>1
<1>2. ASSUME NEW d \in Daemon, RunnerExec(d)
      PROVE  \A n \in Daemon, t \in TaskId : runs[n][t] > 0 => runs'[n][t] > 0
  <2>1. runs' = [runs EXCEPT ![d][runner[d].cur] = @ + 1]
    BY <1>2 DEF RunnerExec
  <2> QED
    BY <1>t, <2>1
<1> QED
  BY <1>1, <1>2
  DEF Next, vars, Boot, Start, Registered, Crash, Elect, ApplyEntry, RunnerStep,
      RunnerTick, RunnerStart, RunnerFinish, RunnerReturn, PlannerStep, PlannerTick,
      PlannerExecute, PlannerWrite, PlannerReturn, PlannerDone, Heartbeat,
      SubmitTask, AddGoal

\* A status comes from the runner that is about to start the task, or has just
\* executed it.
LEMMA ReportSteps ==
  ASSUME TypeOK, PutOnce, [Next]_vars, NEW c, Appends(c), c.op = "UpdateTaskStatus"
  PROVE  \E d \in Daemon :
           \/ /\ runner[d].pc = "idle" /\ leader = d
              /\ c.task_id \in runner[d].queue /\ c.status = "Running"
              /\ runner'[d].pc = "starting" /\ runner'[d].cur = c.task_id
           \/ /\ runner[d].pc = "finish" /\ leader = d
              /\ c.task_id = runner[d].cur /\ c.status \in Finished
              /\ runner'[d].pc = "finishing"
<1>t. /\ log \in Seq(ClusterCommand) /\ Len(log) \in Nat
      /\ planner \in [Daemon -> Planner] /\ runner \in [Daemon -> Runner]
  BY DEF TypeOK, ReplicatorTypeOK
<1>2. /\ Len(log') = Len(log) + 1 /\ log'[Len(log) + 1] = c
      /\ log' # log
  <2>1. Len(log') = Len(log) + 1 /\ log'[Len(log) + 1] = c
    BY AppendKeeps
  <2> QED
    BY <2>1, <1>t
<1>w. ASSUME NEW x, log' = Append(log, x)
      PROVE  c = x
  BY <1>w, <1>2, <1>t
<1>3. PICK d \in Daemon :
        \/ Boot(d) \/ Start(d) \/ Registered(d) \/ Crash(d) \/ Elect(d)
        \/ ApplyEntry(d)
        \/ RunnerStep(d) \/ PlannerStep(d) \/ Heartbeat(d)
        \/ SubmitTask(d) \/ AddGoal(d)
  BY <1>2 DEF Next, vars, replicatorVars
<1>4. ~ (Boot(d) \/ Registered(d) \/ Crash(d) \/ ApplyEntry(d))
  BY <1>2 DEF Boot, Registered, Crash, LoseLeader, ApplyEntry, ApplyNext, replicatorVars
<1>5. ~ Elect(d)
  <2> SUFFICES ASSUME Elect(d) PROVE FALSE
    OBVIOUS
  <2>1. PICK length \in 0..Len(log) : TakeLead(d, length)
    BY DEF Elect
  <2>2. Len(log') = length
    BY <2>1, TakeLeadType DEF TypeOK
  <2> QED
    BY <1>2, <1>t, <2>2
<1>6. ~ Start(d)
  <2>1. log' # Append(log, RegisterNode(d))
    BY <1>w DEF RegisterNode
  <2> QED
    BY <1>2, <2>1 DEF Start
<1>7. ~ Heartbeat(d) /\ ~ AddGoal(d) /\ ~ SubmitTask(d)
  <2>1. log' # Append(log, [op |-> "UpdateNodeHealth", node_id |-> d,
                             health |-> "Healthy"])
    BY <1>w
  <2>2. \A g \in GoalId : log' # Append(log, [op |-> "PutGoal", goal_id |-> g])
    BY <1>w
  <2>3. \A t, task : log' # Append(log, PutTask(t, task))
    BY <1>w DEF PutTask
  <2> QED
    BY <2>1, <2>2, <2>3 DEF Heartbeat, AddGoal, SubmitTask, ClientWrite
<1>8. ~ PlannerStep(d)
  <2>1. ~ (PlannerTick(d) \/ PlannerExecute(d) \/ PlannerReturn(d) \/ PlannerDone(d))
    BY <1>2 DEF PlannerTick, PlannerExecute, PlannerReturn, PlannerDone, replicatorVars
  <2>2. ~ PlannerWrite(d)
    <3> SUFFICES ASSUME PlannerWrite(d) PROVE FALSE
      OBVIOUS
    <3>1. planner[d].pc = "write" /\ log' = Append(log, planner[d].command)
      BY <1>2 DEF PlannerWrite, ClientWrite, replicatorVars
    <3>2. planner[d].command # Absent /\ planner[d].command = c
      BY <1>t, <1>w, <3>1, AbsentIsNoValue DEF Planner
    <3> QED
      BY <3>2 DEF PutOnce, HeldIsFresh
  <2> QED
    BY <2>1, <2>2 DEF PlannerStep
<1>9. CASE RunnerStart(d)
  <2>1. PICK t \in runner[d].queue :
          /\ log' = Append(log, UpdateTaskStatus(t, "Running", FALSE))
          /\ runner' = [runner EXCEPT ![d] = Begin(@, t, Len(log) + 1)]
    BY <1>2, <1>9 DEF RunnerStart, ClientWrite, replicatorVars
  <2>2. c.task_id = t /\ c.status = "Running"
    BY <1>w, <2>1 DEF UpdateTaskStatus
  <2>3. runner[d].pc = "idle" /\ leader = d
    BY <1>2, <1>9 DEF RunnerStart, ClientWrite, replicatorVars
  <2>4. runner'[d].pc = "starting" /\ runner'[d].cur = t
    BY <1>t, <2>1, <2>3 DEF Begin, Runner
  <2> QED
    BY <2>1, <2>2, <2>3, <2>4
<1>10. CASE RunnerFinish(d)
  <2> DEFINE outcome == IF runner[d].ok THEN "Completed" ELSE "Failed"
  <2>1. /\ runner[d].pc = "finish" /\ leader = d
        /\ log' = Append(log, UpdateTaskStatus(runner[d].cur, outcome, runner[d].ok))
        /\ runner' = [runner EXCEPT ![d] = Finishing(@, Len(log) + 1)]
    BY <1>2, <1>10 DEF RunnerFinish, ClientWrite, replicatorVars
  <2>2. c.task_id = runner[d].cur /\ c.status \in Finished
    BY <1>w, <2>1 DEF UpdateTaskStatus, Finished
  <2>3. runner'[d].pc = "finishing"
    BY <1>t, <2>1 DEF Finishing, Runner
  <2> QED
    BY <2>1, <2>2, <2>3
<1>11. ~ (RunnerTick(d) \/ RunnerExec(d) \/ RunnerReturn(d))
  BY <1>2 DEF RunnerTick, RunnerExec, RunnerReturn, replicatorVars
<1> QED
  BY <1>3, <1>4, <1>5, <1>6, <1>7, <1>8, <1>9, <1>10, <1>11 DEF RunnerStep

-----------------------------------------------------------------------------
(***************************************************************************)
(* The log stays in order.                                                 *)
(***************************************************************************)
\* A task a node sees as its own has been put, for that node.
LEMMA OneTarget ==
  ASSUME TypeOK, PutOnce, Shown, NEW n \in Daemon, NEW t \in MyTasks(n)
  PROVE  /\ t \in TaskId
         /\ Put(log, t, applied[n]) /\ Put(log, t, Len(log))
         /\ \A j \in 1..Len(log) : Puts(log[j], t) => log[j].task.target_node = n
<1>1. t \in TaskId /\ hive[n].tasks[t] # Absent /\ hive[n].tasks[t].target_node = n
  BY DEF MyTasks
<1>2. applied[n] \in Int /\ Len(log) \in Int /\ applied[n] <= Len(log)
  BY DEF TypeOK, ReplicatorTypeOK
<1>3. Tells(log, applied[n], hive[n].tasks[t], t)
  BY <1>1 DEF Shown
<1>4. PICK i \in 1..applied[n] : Puts(log[i], t) /\ log[i].task.target_node = n
  BY <1>1, <1>3 DEF Tells, Put
<1>5. i \in 1..Len(log)
  BY <1>2
<1>6. \A j \in 1..Len(log) : Puts(log[j], t) => j = i
  BY <1>1, <1>4, <1>5 DEF PutOnce
<1>7. Put(log, t, applied[n]) /\ Put(log, t, Len(log))
  BY <1>4, <1>5 DEF Put
<1> QED
  BY <1>1, <1>4, <1>6, <1>7

\* A task is assigned once, so what is owed has not been executed yet.
LEMMA AssignedOnce ==
  ASSUME TypeOK, PutOnce, NEW n \in Daemon, NEW t \in TaskId
  PROVE  /\ Assigned(n, t) <= 1
         /\ Owed(n, t) => runs[n][t] = 0
<1>1. Assigned(n, t) \in Nat /\ runs[n][t] \in Nat
  BY GrantsFinite
<1>2. \A i, j \in Grants(n, t) : i = j
  <2>1. applied[n] \in 0..Len(log)
    BY DEF TypeOK, ReplicatorTypeOK
  <2>2. \A i \in Grants(n, t) : i \in 1..Len(log) /\ Puts(log[i], t)
    BY <2>1 DEF Grants, AppliedEntries, Puts
  <2> QED
    BY <2>2 DEF PutOnce
<1>3. Assigned(n, t) <= 1
  <2>1. CASE Grants(n, t) = {}
    BY <2>1, FS_EmptySet DEF Assigned
  <2>2. CASE Grants(n, t) # {}
    <3>1. PICK i : i \in Grants(n, t)
      BY <2>2
    <3>2. Grants(n, t) = {i}
      BY <1>2, <3>1
    <3>3. Cardinality({i}) = 1
      BY FS_Singleton
    <3> QED
      BY <3>2, <3>3 DEF Assigned
  <2> QED
    BY <2>1, <2>2
<1> QED
  BY <1>1, <1>3 DEF Owed

\* What its target has not executed is not over.
LEMMA NotOver ==
  ASSUME TypeOK, PutOnce, Ordered, Shown, NEW n \in Daemon, NEW t \in MyTasks(n),
         runs[n][t] = 0
  PROVE  ~ Over(log, t, Len(log))
<1> SUFFICES ASSUME NEW i \in 1..Len(log), Reports(log[i], t, Finished)
             PROVE  FALSE
  BY DEF Over
<1>1. PICK j \in 1..Len(log) : Puts(log[j], t)
  BY OneTarget DEF Put
<1>2. t \in TaskId /\ log[j].task.target_node = n
  BY <1>1, OneTarget
<1> QED
  BY <1>1, <1>2 DEF Ordered

\* An entry that a step appends is in order.
LEMMA AppendInOrder ==
  ASSUME NoMoves, TypeOK, Honest', Once, BoardInv, PutOnce', [Next]_vars,
         NEW c, Appends(c), NEW t \in TaskId
  PROVE  /\ InOrder(log, Len(log), c, t)
         /\ Reports(c, t, Finished) =>
              \A j \in 1..Len(log), m \in Daemon :
                Puts(log[j], t) /\ log[j].task.target_node = m => runs[m][t] > 0
<1>t. Len(log) \in Nat /\ runner \in [Daemon -> Runner]
  BY DEF TypeOK, ReplicatorTypeOK
<1>i. PutOnce /\ Ordered /\ Shown /\ Working
  BY DEF BoardInv
<1>a. /\ Len(log') = Len(log) + 1 /\ log'[Len(log) + 1] = c
      /\ \A l \in 1..Len(log) : log'[l] = log[l]
  BY AppendKeeps
<1>1. ASSUME Puts(c, t)
      PROVE  ~ Put(log, t, Len(log)) /\ c.task.status = "Pending"
  <2>1. ASSUME NEW l \in 1..Len(log), Puts(log[l], t)
        PROVE  FALSE
    <3>1. l \in 1..Len(log') /\ Len(log) + 1 \in 1..Len(log') /\ log'[l] = log[l]
      BY <1>a, <1>t
    <3>2. l = Len(log) + 1
      BY <1>1, <1>a, <2>1, <3>1 DEF PutOnce
    <3> QED
      BY <1>t, <3>2
  <2>2. Len(log) + 1 \in 1..Len(log')
    BY <1>a, <1>t
  <2>3. EntryHonest(c, RanTasks')
    BY <1>a, <2>2 DEF Honest
  <2> QED
    BY <1>1, <2>1, <2>3 DEF EntryHonest, Puts, Put
<1>2. ASSUME Reports(c, t, TaskStatus)
      PROVE  /\ c.status \in {"Running"} \cup Finished
             /\ Put(log, t, Len(log)) /\ ~ Over(log, t, Len(log))
             /\ c.status \in Finished =>
                  /\ Taken(log, t, Len(log))
                  /\ \A j \in 1..Len(log), m \in Daemon :
                       Puts(log[j], t) /\ log[j].task.target_node = m => runs[m][t] > 0
  <2>1. c.op = "UpdateTaskStatus" /\ c.task_id = t
    BY <1>2 DEF Reports
  <2>2. PICK d \in Daemon :
          \/ runner[d].pc = "idle" /\ t \in runner[d].queue /\ c.status = "Running"
          \/ runner[d].pc = "finish" /\ t = runner[d].cur /\ c.status \in Finished
    BY <1>i, <2>1, ReportSteps
  <2>3. t \in MyTasks(d)
    BY <1>i, <2>2 DEF Working, WorkingAt
  <2>4. /\ Put(log, t, Len(log))
        /\ \A j \in 1..Len(log) : Puts(log[j], t) => log[j].task.target_node = d
    BY <1>i, <2>3, OneTarget
  <2>5. CASE t \in runner[d].queue /\ c.status = "Running"
    <3>1. runs[d][t] = 0
      BY <1>i, <2>5, AssignedOnce DEF Once, OnceAt
    <3>2. ~ Over(log, t, Len(log))
      BY <1>i, <2>3, <3>1, NotOver
    <3> QED
      BY <2>4, <2>5, <3>2 DEF Finished
  <2>6. CASE runner[d].pc = "finish" /\ t = runner[d].cur /\ c.status \in Finished
    <3>1. /\ Taken(log, t, applied[d]) /\ ~ Over(log, t, Len(log)) /\ runs[d][t] > 0
      BY <1>i, <2>6 DEF Working, WorkingAt
    <3>2. applied[d] \in Int /\ Len(log) \in Int /\ applied[d] <= Len(log)
      BY DEF TypeOK, ReplicatorTypeOK
    <3>3. Taken(log, t, Len(log))
      BY <3>1, <3>2, LongerHistory
    <3> QED
      BY <2>4, <2>6, <3>1, <3>3
  <2> QED
    BY <2>2, <2>5, <2>6
<1>3. Reports(c, t, Finished) => Reports(c, t, TaskStatus) /\ c.status \in Finished
  BY DEF Reports, Finished, TaskStatus
<1> QED
  BY <1>1, <1>2, <1>3 DEF InOrder

LEMMA OrderedStep ==
  ASSUME NoMoves, TypeOK, Honest', Once, BoardInv, PutOnce', [Next]_vars
  PROVE  Ordered'
<1>t. Len(log) \in Nat
  BY DEF TypeOK, ReplicatorTypeOK
<1>o. Ordered
  BY DEF BoardInv
<1>1. ASSUME NEW l \in Nat, l <= Len(log), Len(log') = l, \A i \in 1..l : log'[i] = log[i]
      PROVE  Ordered'
  <2>1. ASSUME NEW i \in 1..Len(log'), NEW t \in TaskId
        PROVE  InOrder(log', i - 1, log'[i], t)
    <3>1. i \in 1..Len(log) /\ log'[i] = log[i] /\ i - 1 \in Int
          /\ \A j \in 1..(i - 1) : log'[j] = log[j]
      BY <1>1, <1>t
    <3>2. InOrder(log, i - 1, log[i], t)
      BY <1>o, <3>1 DEF Ordered
    <3> QED
      BY <3>1, <3>2, SameHistory
  <2>2. ASSUME NEW i \in 1..Len(log'), NEW j \in 1..Len(log'), NEW t \in TaskId,
               NEW m \in Daemon, Reports(log'[i], t, Finished), Puts(log'[j], t),
               log'[j].task.target_node = m
        PROVE  runs'[m][t] > 0
    <3>1. i \in 1..Len(log) /\ j \in 1..Len(log) /\ log'[i] = log[i] /\ log'[j] = log[j]
      BY <1>1, <1>t
    <3>2. runs[m][t] > 0
      BY <1>o, <2>2, <3>1 DEF Ordered
    <3> QED
      BY <3>2, RunsSteps
  <2> QED
    BY <2>1, <2>2 DEF Ordered
<1>2. ASSUME NEW c, Appends(c)
      PROVE  Ordered'
  <2>a. /\ Len(log') = Len(log) + 1 /\ log'[Len(log) + 1] = c
        /\ \A l \in 1..Len(log) : log'[l] = log[l]
    BY <1>2, AppendKeeps
  <2>1. ASSUME NEW i \in 1..Len(log'), NEW t \in TaskId
        PROVE  InOrder(log', i - 1, log'[i], t)
    <3>1. \A j \in 1..(i - 1) : log'[j] = log[j]
      BY <1>t, <2>a
    <3>2. CASE i \in 1..Len(log)
      <4>1. InOrder(log, i - 1, log[i], t) /\ log'[i] = log[i]
        BY <1>o, <2>a, <3>2 DEF Ordered
      <4>2. i - 1 \in Int
        BY <3>2
      <4> QED
        BY <3>1, <4>1, <4>2, SameHistory
    <3>3. CASE i = Len(log) + 1
      <4>1. i - 1 = Len(log)
        BY <1>t, <3>3
      <4>2. InOrder(log, Len(log), c, t)
        BY <1>2, AppendInOrder
      <4>3. InOrder(log', Len(log), c, t) <=> InOrder(log, Len(log), c, t)
        <5>1. Len(log) \in Int /\ \A l \in 1..Len(log) : log'[l] = log[l]
          BY <1>t, <2>a
        <5> QED
          BY <5>1, SameHistory
      <4> QED
        BY <2>a, <3>3, <4>1, <4>2, <4>3
    <3> QED
      BY <1>t, <2>a, <3>2, <3>3
  <2>2. ASSUME NEW i \in 1..Len(log'), NEW j \in 1..Len(log'), NEW t \in TaskId,
               NEW m \in Daemon, Reports(log'[i], t, Finished), Puts(log'[j], t),
               log'[j].task.target_node = m
        PROVE  runs'[m][t] > 0
    <3>1. i # j
      BY <2>2 DEF Reports, Puts
    <3>2. CASE j = Len(log) + 1
      <4>1. i \in 1..Len(log)
        BY <1>t, <2>a, <3>1, <3>2
      <4>2. Reports(log[i], t, TaskStatus)
        BY <2>2, <2>a, <4>1 DEF Reports, Finished, TaskStatus
      <4>3. Put(log, t, i - 1)
        BY <1>o, <4>1, <4>2 DEF Ordered, InOrder
      <4>4. PICK l \in 1..(i - 1) : Puts(log[l], t)
        BY <4>3 DEF Put
      <4>5. l \in 1..Len(log') /\ l # j /\ log'[l] = log[l]
        BY <1>t, <2>a, <3>2, <4>1
      <4> QED
        BY <2>2, <4>4, <4>5 DEF PutOnce
    <3>3. CASE j # Len(log) + 1
      <4>1. j \in 1..Len(log) /\ log'[j] = log[j]
        BY <1>t, <2>a, <3>3
      <4>2. CASE i = Len(log) + 1
        <5>1. Reports(c, t, Finished)
          BY <2>2, <2>a, <4>2
        <5>2. runs[m][t] > 0
          BY <1>2, <2>2, <4>1, <5>1, AppendInOrder
        <5> QED
          BY <5>2, RunsSteps
      <4>3. CASE i # Len(log) + 1
        <5>1. i \in 1..Len(log) /\ log'[i] = log[i]
          BY <1>t, <2>a, <4>3
        <5>2. runs[m][t] > 0
          BY <1>o, <2>2, <4>1, <5>1 DEF Ordered
        <5> QED
          BY <5>2, RunsSteps
      <4> QED
        BY <4>2, <4>3
    <3> QED
      BY <3>2, <3>3
  <2> QED
    BY <2>1, <2>2 DEF Ordered
<1>3. ASSUME NEW n \in Daemon, NEW length \in Nat, Truncates(n, length)
      PROVE  Ordered'
  <2>1. length \in 0..Len(log) /\ TakeLead(n, length) /\ ReplicatorTypeOK
    BY <1>3 DEF Truncates, TypeOK
  <2>2. Len(log') = length /\ \A l \in 1..length : log'[l] = log[l]
    BY <2>1, TakeLeadType
  <2> QED
    BY <1>1, <1>t, <2>1, <2>2
<1>4. CASE log' = log
  BY <1>1, <1>4, <1>t
<1> QED
  BY <1>2, <1>3, <1>4, LogSteps DEF ApplyEntry, ApplyNext

-----------------------------------------------------------------------------
(***************************************************************************)
(* The views follow the log.                                               *)
(***************************************************************************)
\* The entry node d applies next, its effect, and why the view follows.
LEMMA NextApplied ==
  ASSUME TypeOK, BoardInv, NEW d \in Daemon, ApplyEntry(d)
  PROVE  /\ log' = log /\ runner' = runner /\ runs' = runs
         /\ applied[d] \in Nat /\ applied[d] + 1 \in 1..Len(log)
         /\ log[applied[d] + 1] \in ClusterCommand
         /\ applied' = [applied EXCEPT ![d] = @ + 1]
         /\ hive' = [hive EXCEPT ![d] = Apply(@, log[applied[d] + 1])]
         /\ hive[d] \in HiveStates
         /\ \A t \in TaskId :
              /\ Tells(log, applied[d], hive[d].tasks[t], t)
              /\ InOrder(log, applied[d], log[applied[d] + 1], t)
              /\ ~ Put(log, t, applied[d])
                   => ~ Taken(log, t, applied[d]) /\ ~ Over(log, t, applied[d])
<1>1. ReplicatorTypeOK /\ ApplyNext(d)
  BY DEF TypeOK, ApplyEntry
<1>2. /\ applied[d] \in Nat /\ applied[d] + 1 \in 1..Len(log)
      /\ log[applied[d] + 1] \in ClusterCommand
  BY <1>1, ApplyNextType DEF ReplicatorTypeOK
<1>3. /\ log' = log /\ runner' = runner /\ runs' = runs
      /\ applied' = [applied EXCEPT ![d] = @ + 1]
      /\ hive' = [hive EXCEPT ![d] = Apply(@, log[applied[d] + 1])]
      /\ hive[d] \in HiveStates
  BY <1>1 DEF ApplyEntry, ApplyNext, ReplicatorTypeOK
<1>4. ASSUME NEW t \in TaskId
      PROVE  InOrder(log, applied[d], log[applied[d] + 1], t)
  <2>1. (applied[d] + 1) - 1 = applied[d]
    BY <1>2
  <2> QED
    BY <1>2, <2>1 DEF BoardInv, Ordered
<1>5. ASSUME NEW t \in TaskId, ~ Put(log, t, applied[d]),
             NEW i \in 1..applied[d], Reports(log[i], t, TaskStatus)
      PROVE  FALSE
  <2>1. i \in 1..Len(log) /\ i - 1 \in Int /\ i - 1 <= applied[d]
    BY <1>2
  <2>2. Put(log, t, i - 1)
    BY <1>5, <2>1 DEF BoardInv, Ordered, InOrder
  <2>3. PICK k \in Int : k = applied[d]
    BY <1>2
  <2>4. Put(log, t, k)
    BY <2>1, <2>2, <2>3, LongerHistory
  <2> QED
    BY <1>5, <2>3, <2>4
<1>6. ASSUME NEW t \in TaskId, ~ Put(log, t, applied[d])
      PROVE  ~ Taken(log, t, applied[d]) /\ ~ Over(log, t, applied[d])
  BY <1>5, <1>6 DEF Taken, Over, Reports, TaskStatus, Finished
<1>7. \A t \in TaskId : Tells(log, applied[d], hive[d].tasks[t], t)
  BY DEF BoardInv, Shown
<1> QED
  BY <1>2, <1>3, <1>4, <1>6, <1>7

LEMMA ShownStep ==
  ASSUME TypeOK, BoardInv, [Next]_vars
  PROVE  Shown'
<1>t. /\ Len(log) \in Nat /\ applied \in [Daemon -> 0..Len(log)]
      /\ hive \in [Daemon -> HiveStates]
  BY DEF TypeOK, ReplicatorTypeOK
<1>s. Shown
  BY DEF BoardInv
<1>1. ASSUME NEW l \in Nat, \A n \in Daemon : applied[n] <= l,
             \A i \in 1..l : log'[i] = log[i], UNCHANGED <<applied, hive>>
      PROVE  Shown'
  <2> SUFFICES ASSUME NEW n \in Daemon, NEW t \in TaskId
               PROVE  Tells(log', applied[n], hive[n].tasks[t], t)
    BY <1>1 DEF Shown
  <2>1. PICK k \in Int : k = applied[n]
    BY <1>t
  <2>2. \A i \in 1..k : log'[i] = log[i]
    BY <1>1, <2>1
  <2>3. Tells(log, k, hive[n].tasks[t], t)
    BY <1>s, <2>1 DEF Shown
  <2>4. Tells(log', k, hive[n].tasks[t], t)
    <3>1. \A task : Tells(log', k, task, t) <=> Tells(log, k, task, t)
      BY <2>2, SameHistory
    <3> QED
      BY <2>3, <3>1
  <2> QED
    BY <2>1, <2>4
<1>2. ASSUME NEW c, Appends(c)
      PROVE  Shown'
  <2>1. \A n \in Daemon : applied[n] <= Len(log)
    BY <1>t
  <2>2. \A i \in 1..Len(log) : log'[i] = log[i]
    BY <1>2, AppendKeeps
  <2>3. UNCHANGED <<applied, hive>>
    BY <1>2 DEF Appends
  <2> QED
    BY <1>1, <1>t, <2>1, <2>2, <2>3
<1>3. ASSUME NEW n \in Daemon, NEW length \in Nat, Truncates(n, length)
      PROVE  Shown'
  <2>1. length \in 0..Len(log) /\ TakeLead(n, length) /\ ReplicatorTypeOK
    BY <1>3 DEF Truncates, TypeOK
  <2>2. /\ \A l \in 1..length : log'[l] = log[l]
        /\ \A m \in Daemon : applied[m] <= length
    BY <2>1, TakeLeadType
  <2>3. UNCHANGED <<applied, hive>>
    BY <2>1 DEF TakeLead
  <2> QED
    BY <1>1, <2>2, <2>3
<1>4. CASE UNCHANGED <<log, applied, hive>>
  BY <1>s, <1>4 DEF Shown
<1>5. ASSUME NEW d \in Daemon, ApplyEntry(d)
      PROVE  Shown'
  <2>1. /\ log' = log /\ applied[d] \in Nat /\ log[applied[d] + 1] \in ClusterCommand
        /\ applied' = [applied EXCEPT ![d] = @ + 1]
        /\ hive' = [hive EXCEPT ![d] = Apply(@, log[applied[d] + 1])]
    BY <1>5, NextApplied
  <2>2. ASSUME NEW t \in TaskId
        PROVE  Tells(log, applied[d] + 1, Apply(hive[d], log[applied[d] + 1]).tasks[t], t)
    <3>1. PICK k \in Nat : k = applied[d]
      BY <2>1
    <3>2. /\ hive[d] \in HiveStates /\ log[k + 1] \in ClusterCommand
          /\ Tells(log, k, hive[d].tasks[t], t) /\ InOrder(log, k, log[k + 1], t)
          /\ ~ Put(log, t, k) => ~ Taken(log, t, k) /\ ~ Over(log, t, k)
      BY <1>5, <3>1, NextApplied
    <3>3. Tells(log, k + 1, Apply(hive[d], log[k + 1]).tasks[t], t)
      BY <3>2, ApplyTells
    <3> QED
      BY <3>1, <3>3
  <2>3. /\ applied'[d] = applied[d] + 1
        /\ hive'[d] = Apply(hive[d], log[applied[d] + 1])
        /\ \A n \in Daemon : n # d => applied'[n] = applied[n] /\ hive'[n] = hive[n]
    BY <1>t, <2>1
  <2> SUFFICES ASSUME NEW n \in Daemon, NEW t \in TaskId
               PROVE  Tells(log', applied'[n], hive'[n].tasks[t], t)
    BY DEF Shown
  <2>4. CASE n = d
    BY <2>1, <2>2, <2>3, <2>4
  <2>5. CASE n # d
    BY <1>s, <2>1, <2>3, <2>5 DEF Shown
  <2> QED
    BY <2>4, <2>5
<1> QED
  BY <1>2, <1>3, <1>4, <1>5, LogSteps

-----------------------------------------------------------------------------
(***************************************************************************)
(* The runners work on their own tasks.                                    *)
(***************************************************************************)
\* What a step may do to the runner of a node.
LEMMA RunnerMoves ==
  ASSUME TypeOK, [Next]_vars, NEW m \in Daemon
  PROVE  \/ /\ runner'[m].pc = runner[m].pc /\ runner'[m].cur = runner[m].cur
            /\ runner'[m].queue = runner[m].queue
         \/ runner'[m].pc = "idle" /\ runner'[m].queue \subseteq runner[m].queue
         \/ runner'[m].pc = "idle" /\ runner'[m].queue = MyPendingTasks(m)
         \/ /\ runner[m].pc = "idle" /\ runner'[m].pc = "starting"
            /\ runner'[m].queue \subseteq runner[m].queue
            /\ runner'[m].cur \in runner[m].queue
         \/ /\ RunnerExec(m) /\ runner'[m].pc = "finish"
            /\ runner'[m].cur = runner[m].cur /\ runner'[m].queue = runner[m].queue
         \/ /\ runner[m].pc = "finish" /\ runner'[m].pc = "finishing"
            /\ runner'[m].cur = runner[m].cur /\ runner'[m].queue = runner[m].queue
<1>t. runner \in [Daemon -> Runner] /\ runner[m] \in Runner
  BY DEF TypeOK
<1>1. CASE UNCHANGED runner
  BY <1>1
<1>2. ASSUME NEW d \in Daemon, d # m, Crash(d) \/ RunnerStep(d)
      PROVE  runner'[m] = runner[m]
  <2>1. \/ Crash(d) \/ RunnerTick(d) \/ RunnerStart(d) \/ RunnerExec(d)
        \/ RunnerFinish(d) \/ RunnerReturn(d)
    BY <1>2 DEF RunnerStep
  <2>2. CASE Crash(d) \/ RunnerTick(d) \/ RunnerReturn(d)
    BY <1>t, <1>2, <2>2 DEF Crash, RunnerTick, RunnerReturn
  <2>3. CASE RunnerStart(d)
    BY <1>t, <1>2, <2>3 DEF RunnerStart
  <2>4. CASE RunnerExec(d) \/ RunnerFinish(d)
    BY <1>t, <1>2, <2>4 DEF RunnerExec, RunnerFinish
  <2> QED
    BY <2>1, <2>2, <2>3, <2>4
<1>3. ASSUME NEW d \in Daemon, Elect(d)
      PROVE  /\ runner'[m].pc = runner[m].pc /\ runner'[m].cur = runner[m].cur
             /\ runner'[m].queue = runner[m].queue
  <2>1. PICK length : runner' = [r \in Daemon |-> AfterCut(runner[r], length)]
    BY <1>3 DEF Elect
  <2>2. runner'[m] = AfterCut(runner[m], length)
    BY <2>1
  <2> QED
    BY <1>t, <2>2 DEF AfterCut, Runner
<1>4. CASE Crash(m)
  <2>1. runner'[m] = IdleRunner
    BY <1>t, <1>4 DEF Crash
  <2> QED
    BY <2>1 DEF IdleRunner
<1>5. CASE RunnerTick(m)
  <2>1. runner[m].pc = "idle" /\ runner'[m] = WithQueue(runner[m], MyPendingTasks(m))
    BY <1>t, <1>5 DEF RunnerTick
  <2> QED
    BY <1>t, <2>1 DEF WithQueue, Runner
<1>6. CASE RunnerStart(m)
  <2>1. runner[m].pc = "idle"
    BY <1>6 DEF RunnerStart
  <2>2. PICK t \in runner[m].queue :
          \/ runner'[m] = Begin(runner[m], t, Len(log) + 1)
          \/ runner'[m] = WithQueue(runner[m], runner[m].queue \ {t})
    BY <1>t, <1>6 DEF RunnerStart
  <2>3. CASE runner'[m] = Begin(runner[m], t, Len(log) + 1)
    BY <1>t, <2>1, <2>3 DEF Begin, Runner
  <2>4. CASE runner'[m] = WithQueue(runner[m], runner[m].queue \ {t})
    BY <1>t, <2>1, <2>4 DEF WithQueue, Runner
  <2> QED
    BY <2>2, <2>3, <2>4
<1>7. CASE RunnerExec(m)
  <2>1. PICK ok : runner'[m] = Ended(runner[m], ok)
    BY <1>t, <1>7 DEF RunnerExec
  <2> QED
    BY <1>t, <1>7, <2>1 DEF Ended, Runner
<1>8. CASE RunnerFinish(m)
  <2>1. /\ runner[m].pc = "finish"
        /\ \/ runner'[m] = Finishing(runner[m], Len(log) + 1)
           \/ runner'[m] = NextTask(runner[m])
    BY <1>t, <1>8 DEF RunnerFinish
  <2> QED
    BY <1>t, <2>1 DEF Finishing, NextTask, IdleRunner, Runner
<1>9. CASE RunnerReturn(m)
  <2>1. runner'[m] = NextTask(runner[m])
    BY <1>t, <1>9 DEF RunnerReturn
  <2> QED
    BY <1>t, <2>1 DEF NextTask, IdleRunner, Runner
<1>10. \/ UNCHANGED runner
       \/ \E d \in Daemon : Crash(d) \/ RunnerStep(d) \/ Elect(d)
  BY DEF Next, vars, Boot, Start, Registered, ApplyEntry, PlannerStep, PlannerTick,
         PlannerExecute, PlannerWrite, PlannerReturn, PlannerDone, Heartbeat,
         SubmitTask, AddGoal
<1>11. CASE RunnerStep(m)
  BY <1>5, <1>6, <1>7, <1>8, <1>9, <1>11 DEF RunnerStep
<1> QED
  BY <1>1, <1>2, <1>3, <1>4, <1>10, <1>11

\* How the log and the views change, seen from one node.
LEMMA HistoryKept ==
  ASSUME TypeOK, BoardInv, [Next]_vars, NEW n \in Daemon, NEW t \in TaskId
  PROVE  /\ t \in MyTasks(n) => t \in MyTasks(n)'
         /\ Taken(log, t, applied[n]) => Taken(log', t, applied'[n])
         /\ ~ Over(log, t, Len(log)) /\ Over(log', t, Len(log')) =>
              \E d \in Daemon : /\ runner[d].pc = "finish" /\ runner[d].cur = t
                                /\ runner'[d].pc = "finishing"
<1>t. /\ Len(log) \in Nat /\ applied \in [Daemon -> 0..Len(log)]
      /\ hive \in [Daemon -> HiveStates]
  BY DEF TypeOK, ReplicatorTypeOK
<1>1. ASSUME NEW l \in Nat, applied[n] <= l, \A i \in 1..l : log'[i] = log[i],
             UNCHANGED <<applied, hive>>
      PROVE  /\ t \in MyTasks(n) => t \in MyTasks(n)'
             /\ Taken(log, t, applied[n]) => Taken(log', t, applied'[n])
  <2>1. t \in MyTasks(n) => t \in MyTasks(n)'
    BY <1>1 DEF MyTasks
  <2>2. PICK k \in Int : k = applied[n] /\ k <= l
    BY <1>1, <1>t
  <2>3. \A i \in 1..k : log'[i] = log[i]
    BY <1>1, <2>2
  <2>4. Taken(log', t, k) <=> Taken(log, t, k)
    BY <2>3, SameHistory
  <2> QED
    BY <1>1, <2>1, <2>2, <2>4
<1>2. ASSUME NEW c, Appends(c)
      PROVE  /\ t \in MyTasks(n) => t \in MyTasks(n)'
             /\ Taken(log, t, applied[n]) => Taken(log', t, applied'[n])
             /\ ~ Over(log, t, Len(log)) /\ Over(log', t, Len(log')) =>
                  \E d \in Daemon : /\ runner[d].pc = "finish" /\ runner[d].cur = t
                                    /\ runner'[d].pc = "finishing"
  <2>1. /\ Len(log') = Len(log) + 1 /\ log'[Len(log) + 1] = c
        /\ \A i \in 1..Len(log) : log'[i] = log[i]
    BY <1>2, AppendKeeps
  <2>2. /\ t \in MyTasks(n) => t \in MyTasks(n)'
        /\ Taken(log, t, applied[n]) => Taken(log', t, applied'[n])
    <3>1. applied[n] <= Len(log) /\ UNCHANGED <<applied, hive>>
      BY <1>2, <1>t DEF Appends
    <3> QED
      BY <1>1, <1>t, <2>1, <3>1
  <2>3. ASSUME ~ Over(log, t, Len(log)), Over(log', t, Len(log'))
        PROVE  \E d \in Daemon : /\ runner[d].pc = "finish" /\ runner[d].cur = t
                                 /\ runner'[d].pc = "finishing"
    <3>1. PICK i \in 1..Len(log') : Reports(log'[i], t, Finished)
      BY <2>3 DEF Over
    <3>2. i \notin 1..Len(log)
      BY <2>1, <2>3, <3>1 DEF Over
    <3>3. i = Len(log) + 1
      BY <1>t, <2>1, <3>2
    <3>4. c.op = "UpdateTaskStatus" /\ c.task_id = t /\ c.status \in Finished
      BY <2>1, <3>1, <3>3 DEF Reports
    <3>5. PutOnce /\ c.status # "Running"
      BY <3>4 DEF BoardInv, Finished
    <3> QED
      BY <1>2, <3>4, <3>5, ReportSteps
  <2> QED
    BY <2>2, <2>3
<1>3. ASSUME NEW d \in Daemon, NEW length \in Nat, Truncates(d, length)
      PROVE  /\ t \in MyTasks(n) => t \in MyTasks(n)'
             /\ Taken(log, t, applied[n]) => Taken(log', t, applied'[n])
             /\ Over(log', t, Len(log')) => Over(log, t, Len(log))
  <2>1. length \in 0..Len(log) /\ TakeLead(d, length) /\ ReplicatorTypeOK
    BY <1>3 DEF Truncates, TypeOK
  <2>2. /\ Len(log') = length /\ \A l \in 1..length : log'[l] = log[l]
        /\ applied[n] <= length
    BY <2>1, TakeLeadType
  <2>3. /\ t \in MyTasks(n) => t \in MyTasks(n)'
        /\ Taken(log, t, applied[n]) => Taken(log', t, applied'[n])
    <3>1. UNCHANGED <<applied, hive>>
      BY <2>1 DEF TakeLead
    <3> QED
      BY <1>1, <2>2, <3>1
  <2>4. Over(log', t, Len(log')) => Over(log, t, Len(log))
    <3>1. \A i \in 1..length : i \in 1..Len(log)
      BY <1>t, <2>1
    <3> QED
      BY <2>2, <3>1 DEF Over
  <2> QED
    BY <2>3, <2>4
<1>4. CASE UNCHANGED <<log, applied, hive>>
  BY <1>4 DEF MyTasks
<1>5. ASSUME NEW d \in Daemon, ApplyEntry(d)
      PROVE  /\ t \in MyTasks(n) => t \in MyTasks(n)'
             /\ Taken(log, t, applied[n]) => Taken(log', t, applied'[n])
             /\ Over(log', t, Len(log')) => Over(log, t, Len(log))
  <2>1. /\ log' = log /\ applied[d] \in Nat
        /\ applied' = [applied EXCEPT ![d] = @ + 1]
        /\ hive' = [hive EXCEPT ![d] = Apply(@, log[applied[d] + 1])]
    BY <1>5, NextApplied
  <2>2. CASE n # d
    <3>1. applied'[n] = applied[n] /\ hive'[n] = hive[n]
      BY <1>t, <2>1, <2>2
    <3> QED
      BY <2>1, <3>1 DEF MyTasks
  <2>3. CASE n = d
    <3>1. PICK k \in Nat : k = applied[d]
      BY <2>1
    <3>2. PICK c \in ClusterCommand : c = log[k + 1]
      BY <1>5, <3>1, NextApplied
    <3>3. applied'[n] = k + 1 /\ hive'[n] = Apply(hive[d], c)
      BY <1>t, <2>1, <2>3, <3>1, <3>2
    <3>4. /\ hive[d] \in HiveStates
          /\ Tells(log, k, hive[d].tasks[t], t) /\ InOrder(log, k, c, t)
      BY <1>5, <3>1, <3>2, NextApplied
    <3>5. ASSUME hive[d].tasks[t] # Absent
          PROVE  /\ Apply(hive[d], c).tasks[t] # Absent
                 /\ Apply(hive[d], c).tasks[t].target_node = hive[d].tasks[t].target_node
      BY <3>4, <3>5, ApplyMoves
    <3>6. t \in MyTasks(n) => t \in MyTasks(n)'
      BY <2>3, <3>3, <3>5 DEF MyTasks
    <3>7. Taken(log, t, k) => Taken(log, t, k + 1)
      BY NextEntry
    <3> QED
      BY <2>1, <2>3, <3>1, <3>3, <3>6, <3>7
  <2> QED
    BY <2>1, <2>2, <2>3
<1> QED
  BY <1>2, <1>3, <1>4, <1>5, LogSteps

\* A payload is executed for the first time, after its view says Running.
LEMMA ExecSteps ==
  ASSUME TypeOK, Once, BoardInv, NEW m \in Daemon, RunnerExec(m),
         NEW t, t = runner[m].cur
  PROVE  /\ log' = log /\ applied' = applied /\ hive' = hive
         /\ t \in MyTasks(m) /\ t \in TaskId
         /\ Taken(log, t, applied[m]) /\ ~ Over(log, t, Len(log))
         /\ runs[m][t] = 0 /\ runs' = [runs EXCEPT ![m][t] = 1]
<1>1. /\ runner[m].pc = "starting" /\ Acknowledged(m, runner[m].await)
      /\ runs' = [runs EXCEPT ![m][t] = @ + 1]
      /\ log' = log /\ applied' = applied /\ hive' = hive
  BY DEF RunnerExec, replicatorVars
<1>2. PutOnce /\ Ordered /\ Shown /\ t \in MyTasks(m) /\ t \in TaskId
  BY <1>1 DEF BoardInv, Working, WorkingAt, MyTasks
<1>3. Owed(m, t) /\ BeganWith(m, runner[m].await)
  BY <1>1 DEF Once, OnceAt
<1>4. runs[m][t] = 0
  BY <1>2, <1>3, AssignedOnce
<1>5. ~ Over(log, t, Len(log))
  BY <1>2, <1>4, NotOver
<1>6. Taken(log, t, applied[m])
  <2>1. PICK i : i = runner[m].await
    OBVIOUS
  <2>2. /\ i \in 1..Len(log) /\ i <= applied[m]
        /\ log[i] = UpdateTaskStatus(t, "Running", FALSE)
    BY <1>1, <1>3, <2>1 DEF BeganWith, Acknowledged
  <2>3. i \in 1..applied[m]
    BY <2>2 DEF TypeOK, ReplicatorTypeOK
  <2>4. Reports(log[i], t, {"Running"})
    BY <2>2 DEF Reports, UpdateTaskStatus
  <2> QED
    BY <2>3, <2>4 DEF Taken
<1>7. runs' = [runs EXCEPT ![m][t] = 1]
  BY <1>1, <1>2, <1>4 DEF TypeOK
<1> QED
  BY <1>1, <1>2, <1>4, <1>5, <1>6, <1>7

LEMMA WorkingStep ==
  ASSUME NoMoves, TypeOK, Once, BoardInv, [Next]_vars
  PROVE  Working'
<1> SUFFICES ASSUME NEW m \in Daemon
             PROVE  WorkingAt(m)'
  BY DEF Working
<1>i. PutOnce /\ Ordered /\ Shown /\ WorkingAt(m)
  BY DEF BoardInv, Working
<1>m. \A t \in MyTasks(m) : t \in TaskId /\ t \in MyTasks(m)'
  <2>1. \A t \in MyTasks(m) : t \in TaskId
    BY DEF MyTasks
  <2> QED
    BY <2>1, HistoryKept
<1>1. runner'[m].queue \subseteq MyTasks(m)'
  <2>1. MyPendingTasks(m) \subseteq MyTasks(m)
    BY DEF MyPendingTasks, MyTasks
  <2>2. runner'[m].queue \subseteq MyTasks(m)
    BY <1>i, <2>1, RunnerMoves DEF WorkingAt
  <2> QED
    BY <1>m, <2>2
<1>2. ASSUME runner'[m].pc # "idle"
      PROVE  runner'[m].cur \in MyTasks(m)'
  <2>1. runner'[m].cur \in MyTasks(m)
    BY <1>i, <1>2, RunnerMoves DEF WorkingAt, RunnerExec
  <2> QED
    BY <1>m, <2>1
<1>3. ASSUME runner'[m].pc = "finish"
      PROVE  /\ Taken(log', runner'[m].cur, applied'[m])
             /\ ~ Over(log', runner'[m].cur, Len(log'))
             /\ runs'[m][runner'[m].cur] > 0
  <2>1. CASE runner[m].pc = "finish" /\ runner'[m].cur = runner[m].cur
    <3>1. PICK t : t = runner[m].cur
      OBVIOUS
    <3>2. t \in MyTasks(m) /\ t \in TaskId
      BY <1>i, <1>m, <2>1, <3>1 DEF WorkingAt
    <3>3. /\ Taken(log, t, applied[m]) /\ ~ Over(log, t, Len(log)) /\ runs[m][t] > 0
      BY <1>i, <2>1, <3>1 DEF WorkingAt
    <3>4. Taken(log', t, applied'[m]) /\ runs'[m][t] > 0
      BY <3>2, <3>3, HistoryKept, RunsSteps
    <3>5. ASSUME Over(log', t, Len(log'))
          PROVE  FALSE
      <4>1. PICK d \in Daemon : /\ runner[d].pc = "finish" /\ runner[d].cur = t
                                /\ runner'[d].pc = "finishing"
        BY <3>2, <3>3, <3>5, HistoryKept
      <4>2. t \in MyTasks(d)
        BY <4>1 DEF BoardInv, Working, WorkingAt
      <4>3. PICK j \in 1..Len(log) : Puts(log[j], t)
        BY <1>i, <3>2, OneTarget DEF Put
      <4>4. log[j].task.target_node = m /\ log[j].task.target_node = d
        BY <1>i, <3>2, <4>2, <4>3, OneTarget
      <4> QED
        BY <1>3, <4>1, <4>4
    <3> QED
      BY <2>1, <3>1, <3>4, <3>5
  <2>2. CASE RunnerExec(m) /\ runner'[m].cur = runner[m].cur
    <3>1. PICK t : t = runner[m].cur
      OBVIOUS
    <3>2. /\ log' = log /\ applied' = applied /\ t \in TaskId
          /\ Taken(log, t, applied[m]) /\ ~ Over(log, t, Len(log))
          /\ runs' = [runs EXCEPT ![m][t] = 1]
      BY <2>2, <3>1, ExecSteps
    <3>3. runs'[m][t] > 0
      BY <3>2 DEF TypeOK
    <3> QED
      BY <2>2, <3>1, <3>2, <3>3
  <2> QED
    BY <1>3, <2>1, <2>2, RunnerMoves
<1> QED
  BY <1>1, <1>2, <1>3 DEF WorkingAt

-----------------------------------------------------------------------------
(***************************************************************************)
(* The theorems.                                                           *)
(***************************************************************************)
LEMMA BoardInvInit == Init => BoardInv
<1> SUFFICES ASSUME Init
             PROVE  BoardInv
  OBVIOUS
<1>1. /\ Len(log) = 0
      /\ \A n \in Daemon : planner[n].command = Absent /\ applied[n] = 0
      /\ \A n \in Daemon, t \in TaskId : hive[n].tasks[t] = Absent
      /\ \A n \in Daemon : runner[n].queue = {} /\ runner[n].pc = "idle"
  BY DEF Init, ReplicatorInit, EmptyHive, IdlePlanner, IdleRunner
<1>2. PutOnce /\ Ordered
  BY <1>1 DEF PutOnce, HeldIsFresh, Ordered
<1>3. Shown
  BY <1>1 DEF Shown, Tells, Put
<1>4. Working
  BY <1>1 DEF Working, WorkingAt
<1> QED
  BY <1>2, <1>3, <1>4 DEF BoardInv

LEMMA BoardInvCorrect ==
  ASSUME NoMoves
  PROVE  Spec => []BoardInv
<1>1. TypeOK /\ Honest' /\ Once /\ BoardInv /\ [Next]_vars => BoardInv'
  <2> SUFFICES ASSUME TypeOK, Honest', Once, BoardInv, [Next]_vars
               PROVE  BoardInv'
    OBVIOUS
  <2>1. PutOnce'
    BY PutOnceStep DEF BoardInv
  <2>2. Ordered'
    BY <2>1, OrderedStep
  <2>3. Shown' /\ Working'
    BY ShownStep, WorkingStep
  <2> QED
    BY <2>1, <2>2, <2>3 DEF BoardInv
<1> QED
  BY <1>1, BoardInvInit, TypeCorrect, HonestCorrect, OnceCorrect, PTL DEF Spec

\* A view that has seen a task taken, and not its end, shows it Running.
LEMMA ShowsRunning ==
  ASSUME TypeOK, BoardInv, NEW n \in Daemon, NEW t \in MyTasks(n),
         Taken(log, t, applied[n]), ~ Over(log, t, Len(log))
  PROVE  hive[n].tasks[t].status = "Running"
<1>1. t \in TaskId /\ hive[n].tasks[t] # Absent
  BY DEF MyTasks
<1>2. ~ Over(log, t, applied[n])
  <2>1. PICK k \in Int : k = applied[n] /\ k <= Len(log) /\ Len(log) \in Int
    BY DEF TypeOK, ReplicatorTypeOK
  <2> QED
    BY <2>1, LongerHistory
<1>3. Tells(log, applied[n], hive[n].tasks[t], t)
  BY <1>1 DEF BoardInv, Shown
<1>4. hive[n].tasks[t].status \notin {"Pending", "Cancelled"} \cup Finished
  BY <1>1, <1>2, <1>3 DEF Tells
<1>5. hive[n].tasks[t] \in Task
  BY <1>1 DEF TypeOK, ReplicatorTypeOK, HiveStates
<1> QED
  BY <1>4, <1>5 DEF Task, TaskStatus, Finished

\* While run_task executes a payload, the view of its node shows the task
\* Running and its own, where the brain neither cancels nor moves tasks.
THEOREM ExecutingIsRunningCorrect ==
  ASSUME NoMoves
  PROVE  Spec => []ExecutingIsRunning
<1>1. TypeOK /\ BoardInv => ExecutingIsRunning
  <2> SUFFICES ASSUME TypeOK, BoardInv, NEW n \in Daemon, runner[n].pc = "finish"
               PROVE  /\ HasStatus(hive[n], runner[n].cur, {"Running"})
                      /\ hive[n].tasks[runner[n].cur].target_node = n
    BY DEF ExecutingIsRunning
  <2>1. /\ runner[n].cur \in MyTasks(n) /\ Taken(log, runner[n].cur, applied[n])
        /\ ~ Over(log, runner[n].cur, Len(log))
    BY DEF BoardInv, Working, WorkingAt
  <2>2. hive[n].tasks[runner[n].cur].status = "Running"
    BY <2>1, ShowsRunning
  <2> QED
    BY <2>1, <2>2 DEF HasStatus, MyTasks
<1> QED
  BY <1>1, TypeCorrect, BoardInvCorrect, PTL

\* A task that has ended stays as it is in every view: no late or stale write of
\* a runner reaches it, where the brain neither cancels nor moves tasks.
THEOREM FinishedIsFinalCorrect ==
  ASSUME NoMoves
  PROVE  Spec => FinishedIsFinal
<1> DEFINE Kept == \A n \in Daemon, t \in TaskId :
                     HasStatus(hive[n], t, {"Completed", "Failed"})
                       => hive'[n].tasks[t] = hive[n].tasks[t]
<1>1. TypeOK /\ BoardInv /\ [Next]_vars => Kept
  <2> SUFFICES ASSUME TypeOK, BoardInv, [Next]_vars,
                      NEW n \in Daemon, NEW t \in TaskId,
                      HasStatus(hive[n], t, {"Completed", "Failed"})
               PROVE  hive'[n].tasks[t] = hive[n].tasks[t]
    OBVIOUS
  <2>1. CASE hive' = hive
    BY <2>1
  <2>2. ASSUME NEW d \in Daemon, ApplyEntry(d)
        PROVE  hive'[n].tasks[t] = hive[n].tasks[t]
    <3>1. hive' = [hive EXCEPT ![d] = Apply(@, log[applied[d] + 1])]
      BY <2>2, NextApplied
    <3>2. PICK k \in Nat : k = applied[d]
      BY <2>2, NextApplied
    <3>3. PICK c \in ClusterCommand : c = log[k + 1]
      BY <2>2, <3>2, NextApplied
    <3>4. /\ hive[d] \in HiveStates
          /\ Tells(log, k, hive[d].tasks[t], t) /\ InOrder(log, k, c, t)
      BY <2>2, <3>2, <3>3, NextApplied
    <3>5. CASE n = d
      <4>1. hive'[d] = Apply(hive[d], c)
        BY <3>1, <3>2, <3>3 DEF TypeOK, ReplicatorTypeOK
      <4>2. /\ hive[d].tasks[t] # Absent
            /\ hive[d].tasks[t].status \notin {"Pending", "Running"}
        BY <3>5 DEF HasStatus
      <4>3. Apply(hive[d], c).tasks[t] = hive[d].tasks[t]
        BY <3>4, <4>2, ApplyMoves
      <4> QED
        BY <3>5, <4>1, <4>3
    <3>6. CASE n # d
      BY <3>1, <3>6
    <3> QED
      BY <3>5, <3>6
  <2> QED
    BY <2>1, <2>2, LogSteps DEF Appends, Truncates, TakeLead
<1>2. Spec => [][Kept]_vars
  BY <1>1, TypeCorrect, BoardInvCorrect, PTL DEF Spec
<1> QED
  BY <1>2 DEF FinishedIsFinal

-----------------------------------------------------------------------------
(***************************************************************************)
(* The refinement of TaskBoard.                                            *)
(***************************************************************************)
\* The board as TaskBoard's variable status sees it.
Boards == [n \in Daemon |-> [t \in TaskId |-> OnBoard(n, t)]]

LEMMA BoardsInit == Init => Board!BoardInit
<1> SUFFICES ASSUME Init
             PROVE  Board!BoardInit
  OBVIOUS
<1>1. /\ \A n \in Daemon, t \in TaskId : hive[n].tasks[t] = Absent
      /\ runs = [n \in Daemon |-> [t \in TaskId |-> 0]]
  BY DEF Init, ReplicatorInit, EmptyHive
<1>2. \A n \in Daemon, t \in TaskId : OnBoard(n, t) = "Unassigned"
  BY <1>1 DEF OnBoard
<1> QED
  BY <1>1, <1>2 DEF Board!BoardInit

\* The execution of a payload.
LEMMA ExecOnBoard ==
  ASSUME TypeOK, Once, BoardInv, NEW d \in Daemon, RunnerExec(d)
  PROVE  Board!BoardNext
<1>1. PICK t : t = runner[d].cur
  OBVIOUS
<1>2. /\ hive' = hive /\ t \in MyTasks(d) /\ t \in TaskId
      /\ Taken(log, t, applied[d]) /\ ~ Over(log, t, Len(log))
      /\ runs[d][t] = 0 /\ runs' = [runs EXCEPT ![d][t] = 1]
  BY <1>1, ExecSteps
<1>3. hive[d].tasks[t].status = "Running"
  BY <1>2, ShowsRunning
<1>4. OnBoard(d, t) = "Running"
  BY <1>2, <1>3 DEF OnBoard, MyTasks
<1>5. UNCHANGED Boards
  BY <1>2 DEF Boards, OnBoard
<1>6. Board!Execute(d, t)
  BY <1>2, <1>4, <1>5 DEF Board!Execute, Boards
<1> QED
  BY <1>2, <1>6 DEF Board!BoardNext

\* Only one task of one board moves when an entry is applied.
LEMMA BoardMoves ==
  ASSUME TypeOK, BoardInv, NEW d \in Daemon, ApplyEntry(d), NEW t \in TaskId,
         \A u \in TaskId : u # t => hive'[d].tasks[u] = hive[d].tasks[u],
         NEW new, OnBoard(d, t)' = new
  PROVE  Boards' = [Boards EXCEPT ![d][t] = new]
<1>1. \A n \in Daemon : n # d => hive'[n] = hive[n]
  BY NextApplied DEF TypeOK, ReplicatorTypeOK
<1>2. ASSUME NEW n \in Daemon, NEW u \in TaskId, n # d \/ u # t
      PROVE  OnBoard(n, u)' = OnBoard(n, u)
  BY <1>1, <1>2 DEF OnBoard
<1> QED
  BY <1>2 DEF Boards

\* An entry that is applied moves the task it is about as TaskBoard allows, or
\* no task at all.
LEMMA ApplyOnBoard ==
  ASSUME TypeOK, Once, BoardInv, NEW d \in Daemon, ApplyEntry(d)
  PROVE  Board!BoardNext \/ UNCHANGED Board!boardVars
<1>1. PICK k \in Nat : k = applied[d] /\ k + 1 \in 1..Len(log)
  BY NextApplied
<1>2. PICK c \in ClusterCommand : c = log[k + 1]
  BY <1>1, NextApplied
<1>3. /\ log' = log /\ runs' = runs /\ hive[d] \in HiveStates
      /\ hive' = [hive EXCEPT ![d] = Apply(@, c)]
      /\ \A t \in TaskId : Tells(log, k, hive[d].tasks[t], t) /\ InOrder(log, k, c, t)
  BY <1>1, <1>2, NextApplied
<1>4. /\ hive'[d] = Apply(hive[d], c)
      /\ \A n \in Daemon : n # d => hive'[n] = hive[n]
  BY <1>3 DEF TypeOK, ReplicatorTypeOK
<1>5. CASE \A t \in TaskId : hive'[d].tasks[t] = hive[d].tasks[t]
  <2>1. \A n \in Daemon, t \in TaskId : OnBoard(n, t)' = OnBoard(n, t)
    BY <1>4, <1>5 DEF OnBoard
  <2> QED
    BY <1>3, <2>1 DEF Board!boardVars
<1>6. ASSUME NEW t \in TaskId, hive'[d].tasks[t] # hive[d].tasks[t]
      PROVE  Board!BoardNext \/ UNCHANGED Board!boardVars
  <2> DEFINE old == hive[d].tasks[t]
             new == hive'[d].tasks[t]
  <2>1. Puts(c, t) \/ Reports(c, t, TaskStatus)
    BY <1>3, <1>4, <1>6, ApplyMoves DEF Reports, TaskStatus, Finished
  <2>2. \A u \in TaskId : u # t => hive'[d].tasks[u] = hive[d].tasks[u]
    <3>1. \A u \in TaskId : u # t => ~ Puts(c, u) /\ ~ Reports(c, u, TaskStatus)
                                     /\ ~ Reports(c, u, {"Running"})
                                     /\ ~ Reports(c, u, Finished)
      BY <2>1 DEF Puts, Reports
    <3> QED
      BY <1>3, <1>4, <3>1, ApplyMoves
  <2>3. ASSUME NEW status, OnBoard(d, t)' = status
        PROVE  Boards' = [Boards EXCEPT ![d][t] = status]
    BY <2>2, <2>3, BoardMoves
  <2>4. Boards[d][t] = OnBoard(d, t)
    BY DEF Boards
  <2>9. ASSUME OnBoard(d, t)' = OnBoard(d, t)
        PROVE  UNCHANGED Board!boardVars
    <3>1. ASSUME NEW n \in Daemon, NEW u \in TaskId, n # d \/ u # t
          PROVE  OnBoard(n, u)' = OnBoard(n, u)
      BY <1>4, <2>2, <3>1 DEF OnBoard
    <3>2. \A n \in Daemon, u \in TaskId : OnBoard(n, u)' = OnBoard(n, u)
      BY <2>9, <3>1
    <3> QED
      BY <1>3, <3>2 DEF Board!boardVars
  <2>5. CASE old = Absent /\ new = c.task /\ new.status = "Pending" /\ Puts(c, t)
    <3>1. OnBoard(d, t) = "Unassigned"
      BY <2>5 DEF OnBoard
    <3>2. OnBoard(d, t)' \in {"Unassigned", "Pending"}
      BY <2>5 DEF OnBoard
    <3>3. CASE OnBoard(d, t)' = "Unassigned"
      BY <2>9, <3>1, <3>3
    <3>4. CASE OnBoard(d, t)' = "Pending"
      <4>1. Board!Assign(d, t)
        BY <1>3, <2>3, <2>4, <3>1, <3>4 DEF Board!Assign, Board!Moves, Boards
      <4> QED
        BY <4>1 DEF Board!BoardNext
    <3> QED
      BY <3>2, <3>3, <3>4
  <2>6. CASE /\ old # Absent /\ new # Absent /\ new.target_node = old.target_node
             /\ old.target_node # d
    <3>1. OnBoard(d, t) = "Unassigned" /\ OnBoard(d, t)' = "Unassigned"
      BY <2>6 DEF OnBoard
    <3> QED
      BY <2>9, <3>1
  <2>7. CASE /\ old # Absent /\ new # Absent /\ new.target_node = old.target_node
             /\ old.target_node = d
             /\ old.status \in {"Pending", "Running"} /\ new.status = "Running"
    <3>1. OnBoard(d, t) = old.status /\ OnBoard(d, t)' = "Running"
      BY <2>7 DEF OnBoard
    <3>2. CASE old.status = "Running"
      BY <2>9, <3>1, <3>2
    <3>3. CASE old.status = "Pending"
      <4>1. Board!Take(d, t)
        BY <1>3, <2>3, <2>4, <3>1, <3>3 DEF Board!Take, Board!Moves, Boards
      <4> QED
        BY <4>1 DEF Board!BoardNext
    <3> QED
      BY <2>7, <3>2, <3>3
  <2>8. CASE /\ old # Absent /\ new # Absent /\ new.target_node = old.target_node
             /\ old.target_node = d /\ Reports(c, t, Finished)
             /\ old.status = "Running" /\ new.status \in Finished
    <3>1. OnBoard(d, t) = "Running" /\ OnBoard(d, t)' = new.status
      BY <2>8 DEF OnBoard
    <3>2. runs[d][t] = 1
      <4>1. t \in MyTasks(d)
        BY <2>8 DEF MyTasks
      <4>2. PutOnce /\ Ordered /\ Shown
        BY DEF BoardInv
      <4>3. PICK j \in 1..Len(log) : Puts(log[j], t)
        BY <4>1, <4>2, OneTarget DEF Put
      <4>4. log[j].task.target_node = d
        BY <4>1, <4>2, <4>3, OneTarget
      <4>5. runs[d][t] > 0
        BY <1>1, <1>2, <2>8, <4>2, <4>3, <4>4 DEF Ordered
      <4>6. runs[d][t] <= Assigned(d, t) /\ Assigned(d, t) <= 1
        BY <4>2, AssignedOnce DEF Once, OnceAt
      <4>7. runs[d][t] \in Nat /\ Assigned(d, t) \in Nat
        BY GrantsFinite
      <4> QED
        BY <4>5, <4>6, <4>7
    <3>3. Board!End(d, t)
      BY <1>3, <2>3, <2>4, <2>8, <3>1, <3>2 DEF Board!End, Board!Moves, Boards, Finished
    <3> QED
      BY <3>3 DEF Board!BoardNext
  <2> QED
    BY <1>3, <1>4, <1>6, <2>5, <2>6, <2>7, <2>8, ApplyMoves
<1> QED
  BY <1>5, <1>6

\* Every step of the system is a step of the boards, or changes none of them.
LEMMA BoardsStep ==
  ASSUME TypeOK, Once, BoardInv, [Next]_vars
  PROVE  [Board!BoardNext]_(Board!boardVars)
<1>1. CASE hive' = hive /\ runs' = runs
  <2>1. UNCHANGED Board!boardVars
    BY <1>1 DEF Board!boardVars, OnBoard
  <2> QED
    BY <2>1
<1>2. CASE \E d \in Daemon : RunnerExec(d)
  BY <1>2, ExecOnBoard
<1>3. CASE \E d \in Daemon : ApplyEntry(d)
  BY <1>3, ApplyOnBoard
<1>4. hive' = hive \/ \E d \in Daemon : ApplyEntry(d)
  BY LogSteps DEF Appends, Truncates, TakeLead
<1>5. runs' = runs \/ \E d \in Daemon : RunnerExec(d)
  BY RunsSteps
<1> QED
  BY <1>1, <1>2, <1>3, <1>4, <1>5

\* Where the brain neither cancels nor moves tasks, the cluster implements
\* TaskBoard, through crashes, elections, lost writes and stale lists.
THEOREM ImplementsBoardCorrect ==
  ASSUME NoMoves
  PROVE  Spec => ImplementsBoard
<1>1. TypeOK /\ Once /\ BoardInv /\ [Next]_vars => [Board!BoardNext]_(Board!boardVars)
  BY BoardsStep
<1> QED
  BY <1>1, BoardsInit, TypeCorrect, OnceCorrect, BoardInvCorrect, PTL
  DEF Spec, ImplementsBoard, Board!BoardSpec

=============================================================================

----------------------------- MODULE WorkloadProofs ----------------------------
(***************************************************************************)
(* Proofs about the tasks a node has in hand, where nobody cancels or      *)
(* moves tasks: without faults every Running task is in the hands of the   *)
(* runner of its target, and a single daemon never gives a node more than  *)
(* max_concurrent_tasks_per_node active tasks.                             *)
(***************************************************************************)
EXTENDS TaskBoardProofs

-----------------------------------------------------------------------------
(***************************************************************************)
(* Without faults.                                                         *)
(***************************************************************************)
\* Daemon m, which leads, works on t and has not reported its end.
InHandOf(m, t) ==
  leader = m /\ runner[m].cur = t /\ runner[m].pc \in {"starting", "finish"}

\* There is one leader for ever, so no write is lost, and what is taken and not
\* over is in somebody's hand.
Stable ==
  /\ initialized <=> leader # NoLeader
  /\ \A n \in Daemon : runner[n].pc \in {"starting", "finishing"}
                         => runner[n].await # Lost
  /\ \A t \in TaskId : Taken(log, t, Len(log)) /\ ~ Over(log, t, Len(log))
                         => \E m \in Daemon : InHandOf(m, t)

LEMMA StableInit == Init => Stable
<1> SUFFICES ASSUME Init
             PROVE  Stable
  OBVIOUS
<1>1. /\ Len(log) = 0 /\ initialized = FALSE /\ leader = NoLeader
      /\ \A n \in Daemon : runner[n].pc = "idle"
  BY DEF Init, ReplicatorInit, IdleRunner
<1> QED
  BY <1>1 DEF Stable, Taken

\* Nothing crashes and nobody is elected.
LEMMA NoFaultSteps ==
  ASSUME MaxFaults = 0, TypeOK, Stable, [Next]_vars
  PROVE  /\ ~ \E d \in Daemon : Crash(d) \/ Elect(d)
         /\ initialized' <=> leader' # NoLeader
         /\ leader = NoLeader \/ leader' = leader
<1>1. ~ \E d \in Daemon : Crash(d) \/ Elect(d)
  BY DEF TypeOK, Stable, Crash, Elect
<1>2. CASE UNCHANGED <<initialized, leader>>
  <2>1. initialized' = initialized /\ leader' = leader
    BY <1>2
  <2>2. initialized <=> leader # NoLeader
    BY DEF Stable
  <2>3. CASE initialized = TRUE
    BY <1>1, <2>1, <2>2, <2>3
  <2>4. CASE initialized = FALSE
    BY <1>1, <2>1, <2>2, <2>4
  <2> QED
    BY <2>3, <2>4 DEF TypeOK
<1>3. ASSUME NEW d \in Daemon, Start(d)
      PROVE  /\ initialized' <=> leader' # NoLeader
             /\ leader = NoLeader \/ leader' = leader
  <2>1. d # NoLeader
    BY DaemonsAreNodes
  <2>2. CASE leader' = d /\ initialized' = TRUE
    BY <1>3, <2>1, <2>2 DEF Start, Stable
  <2>3. CASE UNCHANGED <<leader, initialized>>
    BY <1>2, <2>3
  <2> QED
    BY <1>3, <2>2, <2>3 DEF Start
<1>4. ASSUME NEW d \in Daemon, RunnerStep(d) \/ PlannerStep(d) \/ Heartbeat(d)
                               \/ SubmitTask(d) \/ AddGoal(d)
      PROVE  UNCHANGED <<initialized, leader>>
  BY <1>4 DEF RunnerStep, RunnerTick, RunnerStart, RunnerExec, RunnerFinish, RunnerReturn,
              PlannerStep, PlannerTick, PlannerExecute, PlannerWrite, PlannerReturn,
              PlannerDone, Heartbeat, SubmitTask, AddGoal, ClientWrite, replicatorVars,
              daemonVars
<1>5. ASSUME NEW d \in Daemon, Boot(d) \/ Registered(d) \/ ApplyEntry(d)
      PROVE  UNCHANGED <<initialized, leader>>
  BY <1>5 DEF Boot, Registered, ApplyEntry, ApplyNext, replicatorVars, daemonVars
<1>6. CASE UNCHANGED vars
  BY <1>2, <1>6 DEF vars, replicatorVars, daemonVars
<1> QED
  BY <1>1, <1>2, <1>3, <1>4, <1>5, <1>6 DEF Next

\* A leading runner keeps its task until it has reported the end.
LEMMA InHandKept ==
  ASSUME MaxFaults = 0, TypeOK, Stable, [Next]_vars,
         NEW m \in Daemon, NEW t \in TaskId, InHandOf(m, t)
  PROVE  InHandOf(m, t)' \/ Over(log', t, Len(log'))
<1>t. /\ runner \in [Daemon -> Runner] /\ runner[m] \in Runner
      /\ log \in Seq(ClusterCommand) /\ Len(log) \in Nat
  BY DEF TypeOK, ReplicatorTypeOK
<1>h. leader = m /\ runner[m].cur = t /\ runner[m].pc \in {"starting", "finish"}
  BY DEF InHandOf
<1>l. leader' = m
  <2>1. m # NoLeader
    BY DaemonsAreNodes
  <2> QED
    BY <1>h, <2>1, NoFaultSteps
<1>1. CASE runner'[m] = runner[m]
  BY <1>h, <1>l, <1>1 DEF InHandOf
<1>2. CASE RunnerExec(m)
  <2>1. PICK ok : runner'[m] = Ended(runner[m], ok)
    BY <1>t, <1>2 DEF RunnerExec
  <2>2. runner'[m].pc = "finish" /\ runner'[m].cur = t
    BY <1>t, <1>h, <2>1 DEF Ended, Runner
  <2> QED
    BY <1>l, <2>2 DEF InHandOf
<1>3. CASE RunnerFinish(m)
  <2>1. PICK c : /\ c = UpdateTaskStatus(t, IF runner[m].ok THEN "Completed" ELSE "Failed",
                                        runner[m].ok)
                 /\ log' = Append(log, c)
    BY <1>h, <1>3 DEF RunnerFinish, ClientWrite
  <2>2. Reports(c, t, Finished)
    BY <2>1 DEF UpdateTaskStatus, Reports, Finished
  <2>3. Len(log') = Len(log) + 1 /\ log'[Len(log) + 1] = c
    BY <1>t, <2>1
  <2>4. Len(log) + 1 \in 1..Len(log')
    BY <1>t, <2>3
  <2> QED
    BY <2>2, <2>3, <2>4 DEF Over
<1>4. ~ (RunnerTick(m) \/ RunnerStart(m) \/ RunnerReturn(m))
  BY <1>h DEF RunnerTick, RunnerStart, RunnerReturn, Stable
<1>5. ASSUME NEW d \in Daemon, d # m, RunnerStep(d)
      PROVE  runner'[m] = runner[m]
  <2>1. CASE RunnerTick(d) \/ RunnerReturn(d)
    BY <1>t, <1>5, <2>1 DEF RunnerTick, RunnerReturn
  <2>2. CASE RunnerStart(d)
    BY <1>t, <1>5, <2>2 DEF RunnerStart
  <2>3. CASE RunnerExec(d) \/ RunnerFinish(d)
    BY <1>t, <1>5, <2>3 DEF RunnerExec, RunnerFinish
  <2> QED
    BY <1>5, <2>1, <2>2, <2>3 DEF RunnerStep
<1>6. UNCHANGED runner \/ \E d \in Daemon : RunnerStep(d)
  <2>1. ~ \E d \in Daemon : Crash(d) \/ Elect(d)
    BY NoFaultSteps
  <2> QED
    BY <2>1
    DEF Next, vars, Boot, Start, Registered, ApplyEntry, PlannerStep, PlannerTick,
        PlannerExecute, PlannerWrite, PlannerReturn, PlannerDone, Heartbeat,
        SubmitTask, AddGoal
<1> QED
  BY <1>1, <1>2, <1>3, <1>4, <1>5, <1>6 DEF RunnerStep

\* No runner ever waits for a write that is lost.
LEMMA AwaitKept ==
  ASSUME MaxFaults = 0, TypeOK, Stable, [Next]_vars, NEW m \in Daemon,
         runner'[m].pc \in {"starting", "finishing"}
  PROVE  runner'[m].await # Lost
<1>t. /\ runner \in [Daemon -> Runner] /\ runner[m] \in Runner /\ Len(log) \in Nat
  BY DEF TypeOK, ReplicatorTypeOK
<1>n. Len(log) + 1 # Lost
  BY <1>t DEF Lost
<1>1. CASE runner'[m] = runner[m]
  BY <1>1 DEF Stable
<1>2. CASE RunnerTick(m) \/ RunnerReturn(m)
  <2>1. \/ runner[m].pc = "idle" /\ runner'[m] = WithQueue(runner[m], MyPendingTasks(m))
        \/ runner'[m] = NextTask(runner[m])
    BY <1>t, <1>2 DEF RunnerTick, RunnerReturn
  <2>2. runner'[m].pc = "idle"
    BY <1>t, <2>1 DEF WithQueue, NextTask, IdleRunner, Runner
  <2> QED
    BY <2>2
<1>3. CASE RunnerStart(m)
  <2>1. runner[m].pc = "idle"
    BY <1>3 DEF RunnerStart
  <2>2. PICK t \in runner[m].queue :
          \/ runner'[m] = Begin(runner[m], t, Len(log) + 1)
          \/ runner'[m] = WithQueue(runner[m], runner[m].queue \ {t})
    BY <1>t, <1>3 DEF RunnerStart
  <2>3. CASE runner'[m] = Begin(runner[m], t, Len(log) + 1)
    BY <1>t, <1>n, <2>3 DEF Begin, Runner
  <2>4. CASE runner'[m] = WithQueue(runner[m], runner[m].queue \ {t})
    BY <1>t, <2>1, <2>4 DEF WithQueue, Runner
  <2> QED
    BY <2>2, <2>3, <2>4
<1>4. CASE RunnerExec(m)
  <2>1. PICK ok : runner'[m] = Ended(runner[m], ok)
    BY <1>t, <1>4 DEF RunnerExec
  <2> QED
    BY <1>t, <2>1 DEF Ended, Runner
<1>5. CASE RunnerFinish(m)
  <2>1. \/ runner'[m] = Finishing(runner[m], Len(log) + 1)
        \/ runner'[m] = NextTask(runner[m])
    BY <1>t, <1>5 DEF RunnerFinish
  <2>2. runner[m].pc = "finish"
    BY <1>5 DEF RunnerFinish
  <2> QED
    BY <1>t, <1>n, <2>1, <2>2 DEF Finishing, NextTask, IdleRunner, Runner
<1>6. ASSUME NEW d \in Daemon, d # m, RunnerStep(d)
      PROVE  runner'[m] = runner[m]
  <2>1. CASE RunnerTick(d) \/ RunnerReturn(d)
    BY <1>t, <1>6, <2>1 DEF RunnerTick, RunnerReturn
  <2>2. CASE RunnerStart(d)
    BY <1>t, <1>6, <2>2 DEF RunnerStart
  <2>3. CASE RunnerExec(d) \/ RunnerFinish(d)
    BY <1>t, <1>6, <2>3 DEF RunnerExec, RunnerFinish
  <2> QED
    BY <1>6, <2>1, <2>2, <2>3 DEF RunnerStep
<1>7. UNCHANGED runner \/ \E d \in Daemon : RunnerStep(d)
  <2>1. ~ \E d \in Daemon : Crash(d) \/ Elect(d)
    BY NoFaultSteps
  <2> QED
    BY <2>1
    DEF Next, vars, Boot, Start, Registered, ApplyEntry, PlannerStep, PlannerTick,
        PlannerExecute, PlannerWrite, PlannerReturn, PlannerDone, Heartbeat,
        SubmitTask, AddGoal
<1> QED
  BY <1>1, <1>2, <1>3, <1>4, <1>5, <1>6, <1>7 DEF RunnerStep

\* Nothing is cut from the log.
LEMMA LogGrows ==
  ASSUME MaxFaults = 0, TypeOK, Stable, [Next]_vars
  PROVE  log' = log \/ \E c : Appends(c)
<1>1. CASE \E d \in Daemon, length \in Nat : Truncates(d, length)
  <2>1. log' = log \/ \E c : log' = Append(log, c)
    <3>1. ~ \E d \in Daemon : Crash(d) \/ Elect(d)
      BY NoFaultSteps
    <3>2. CASE \E d \in Daemon : Start(d) \/ RunnerStep(d) \/ PlannerStep(d) \/ Heartbeat(d)
                                 \/ SubmitTask(d) \/ AddGoal(d)
      BY <3>2
      DEF Start, RunnerStep, RunnerTick, RunnerStart, RunnerExec, RunnerFinish,
          RunnerReturn, PlannerStep, PlannerTick, PlannerExecute, PlannerWrite,
          PlannerReturn, PlannerDone, Heartbeat, SubmitTask, AddGoal, ClientWrite,
          replicatorVars
    <3>3. CASE \E d \in Daemon : Boot(d) \/ Registered(d) \/ ApplyEntry(d)
      BY <3>3 DEF Boot, Registered, ApplyEntry, ApplyNext, replicatorVars
    <3> QED
      BY <3>1, <3>2, <3>3 DEF Next, vars, replicatorVars
  <2>2. log \in Seq(ClusterCommand) /\ Len(log) \in Nat
    BY DEF TypeOK, ReplicatorTypeOK
  <2>3. PICK d \in Daemon, length \in 0..Len(log) : log' = SubSeq(log, 1, length)
    BY <1>1 DEF Truncates, TakeLead
  <2>4. Len(log') <= Len(log)
    BY <2>2, <2>3
  <2>5. ASSUME NEW c, log' = Append(log, c)
        PROVE  FALSE
    BY <2>2, <2>4, <2>5
  <2> QED
    BY <2>1, <2>5
<1>2. CASE \E n \in Daemon : ApplyEntry(n)
  BY <1>2 DEF ApplyEntry, ApplyNext
<1> QED
  BY <1>1, <1>2, LogSteps

LEMMA StableStep ==
  ASSUME MaxFaults = 0, TypeOK, PutOnce, Stable, [Next]_vars
  PROVE  Stable'
<1>t. Len(log) \in Nat
  BY DEF TypeOK, ReplicatorTypeOK
<1>1. initialized' <=> leader' # NoLeader
  BY NoFaultSteps
<1>2. \A n \in Daemon : runner'[n].pc \in {"starting", "finishing"}
                          => runner'[n].await # Lost
  BY AwaitKept
<1>3. ASSUME NEW t \in TaskId, Taken(log', t, Len(log')), ~ Over(log', t, Len(log'))
      PROVE  \E m \in Daemon : InHandOf(m, t)'
  <2>1. ASSUME Taken(log, t, Len(log)), ~ Over(log, t, Len(log))
        PROVE  \E m \in Daemon : InHandOf(m, t)'
    <3>1. PICK m \in Daemon : InHandOf(m, t)
      BY <2>1 DEF Stable
    <3> QED
      BY <1>3, <3>1, InHandKept
  <2>2. CASE log' = log
    BY <1>3, <2>1, <2>2
  <2>3. ASSUME NEW c, Appends(c)
        PROVE  \E m \in Daemon : InHandOf(m, t)'
    <3>1. /\ Len(log') = Len(log) + 1 /\ log'[Len(log) + 1] = c
          /\ \A i \in 1..Len(log) : log'[i] = log[i]
      BY <2>3, AppendKeeps
    <3>2. PICK k \in Nat : k = Len(log)
      BY <1>t
    <3>3. /\ Taken(log', t, k) <=> Taken(log, t, k)
          /\ Over(log', t, k) <=> Over(log, t, k)
      BY <3>1, <3>2, SameHistory
    <3>4. /\ Taken(log', t, k + 1) <=> Taken(log', t, k) \/ Reports(c, t, {"Running"})
          /\ Over(log', t, k + 1) <=> Over(log', t, k) \/ Reports(c, t, Finished)
      BY <3>1, <3>2, NextEntry
    <3>5. ~ Over(log, t, Len(log))
      BY <1>3, <3>1, <3>2, <3>3, <3>4
    <3>6. CASE Reports(c, t, {"Running"})
      <4>1. c.op = "UpdateTaskStatus" /\ c.task_id = t /\ c.status = "Running"
        BY <3>6 DEF Reports
      <4>2. PICK d \in Daemon : /\ leader = d /\ runner'[d].pc = "starting"
                                /\ runner'[d].cur = t
        BY <2>3, <4>1, ReportSteps DEF Finished
      <4>3. leader' = d
        BY <4>2, DaemonsAreNodes, NoFaultSteps
      <4> QED
        BY <4>2, <4>3 DEF InHandOf
    <3> QED
      BY <1>3, <2>1, <3>1, <3>2, <3>3, <3>4, <3>5, <3>6
  <2> QED
    BY <2>2, <2>3, LogGrows
<1> QED
  BY <1>1, <1>2, <1>3 DEF Stable

\* Where nothing crashes and nobody is elected over a leader, a task that a view
\* shows Running, when the whole log is applied to it, is in the hands of the
\* runner of its target: no task is forgotten half-way.
THEOREM RunningHasRunnerCorrect ==
  ASSUME NoMoves, MaxFaults = 0
  PROVE  Spec => []RunningHasRunner
<1>1. Spec => []Stable
  <2>1. TypeOK /\ BoardInv /\ Stable /\ [Next]_vars => Stable'
    BY StableStep DEF BoardInv
  <2> QED
    BY <2>1, StableInit, TypeCorrect, BoardInvCorrect, PTL DEF Spec
<1>2. TypeOK /\ BoardInv /\ Stable => RunningHasRunner
  <2> SUFFICES ASSUME TypeOK, BoardInv, Stable, NEW n \in Daemon, NEW t \in TaskId,
                      applied[n] = Len(log), HasStatus(hive[n], t, {"Running"})
               PROVE  \E m \in Daemon : /\ m = hive[n].tasks[t].target_node
                                        /\ runner[m].cur = t
    BY DEF RunningHasRunner
  <2>1. /\ hive[n].tasks[t] # Absent /\ hive[n].tasks[t].status = "Running"
        /\ Tells(log, Len(log), hive[n].tasks[t], t)
    BY DEF HasStatus, BoardInv, Shown
  <2>2. Taken(log, t, Len(log)) /\ ~ Over(log, t, Len(log))
    BY <2>1 DEF Tells, Finished
  <2>3. PICK m \in Daemon : runner[m].cur = t /\ runner[m].pc \in {"starting", "finish"}
    BY <2>2 DEF Stable, InHandOf
  <2>4. t \in MyTasks(m)
    BY <2>3 DEF BoardInv, Working, WorkingAt
  <2>5. PICK j \in 1..Len(log) : Puts(log[j], t)
    BY <2>1 DEF Tells, Put
  <2>6. log[j].task.target_node = m
    BY <2>4, <2>5, OneTarget DEF BoardInv
  <2>7. log[j].task.target_node = hive[n].tasks[t].target_node
    BY <2>1, <2>5 DEF Tells
  <2> QED
    BY <2>3, <2>6, <2>7
<1> QED
  BY <1>1, <1>2, TypeCorrect, BoardInvCorrect, PTL

-----------------------------------------------------------------------------
(***************************************************************************)
(* One daemon, whose brain only puts new tasks: never more active tasks of *)
(* a node than max_concurrent_tasks_per_node.  The validator counts what   *)
(* the view shows, so the proof needs that no task is on its way when it   *)
(* counts: execute waits for its write, register_self for its own, behind  *)
(* whatever an earlier life of the daemon has left in the log, and a crash *)
(* forgets the list of actions.                                            *)
(***************************************************************************)
\* The new tasks a node that has applied k entries has not seen yet.
Waiting(entries, k) == {i \in (k + 1)..Len(entries) : entries[i].op = "PutTask"}

\* The validator would let m have one more task.
Room(s, m) == Cardinality(ActiveTasks(s, m)) < MaxTasksPerNode

Fits(s) ==
  \A m \in NodeId : /\ IsFiniteSet(ActiveTasks(s, m))
                    /\ Cardinality(ActiveTasks(s, m)) <= MaxTasksPerNode

\* At most one new task is on its way to the view, with room for it; a planner
\* that runs waits for it, and register_self for an entry behind it.
Announced(n) ==
  /\ \A i, j \in Waiting(log, applied[n]) : i = j
  /\ \A i \in Waiting(log, applied[n]) :
       /\ Room(hive[n], log[i].task.target_node)
       /\ phase[n] = "running" => planner[n].pc = "wait" /\ planner[n].await = i
       /\ phase[n] = "registering" /\ joining[n] # Lost => i < joining[n]

\* A planner works only while its daemon runs, and there is room for its task.
Careful(n) ==
  /\ planner[n].pc # "idle" => phase[n] = "running"
  /\ planner[n].command # Absent /\ planner[n].command.op = "PutTask"
       => Room(hive[n], planner[n].command.task.target_node)

Limit == \A n \in Daemon : Fits(hive[n]) /\ Announced(n) /\ Careful(n)

OneDaemon == \A m, n \in Daemon : m = n

-----------------------------------------------------------------------------
LEMMA LimitInit == Init => Limit
<1> SUFFICES ASSUME Init, NEW n \in Daemon
             PROVE  Fits(hive[n]) /\ Announced(n) /\ Careful(n)
  BY DEF Limit
<1>1. /\ log = <<>> /\ applied[n] = 0
      /\ planner[n].pc = "idle" /\ planner[n].command = Absent
      /\ \A t \in TaskId : hive[n].tasks[t] = Absent
  BY DEF Init, ReplicatorInit, EmptyHive, IdlePlanner
<1>2. \A m \in NodeId : ActiveTasks(hive[n], m) = {}
  BY <1>1 DEF ActiveTasks
<1>3. Fits(hive[n])
  <2>1. 0 <= MaxTasksPerNode
    BY LimitIsNatural
  <2>2. IsFiniteSet({}) /\ Cardinality({}) = 0
    BY FS_EmptySet
  <2> QED
    BY <1>2, <2>1, <2>2 DEF Fits
<1>4. Waiting(log, applied[n]) = {}
  BY <1>1 DEF Waiting
<1> QED
  BY <1>1, <1>3, <1>4 DEF Announced, Careful

\* What may be active after an entry.
LEMMA ActiveMoves ==
  ASSUME NEW s \in HiveStates, NEW c \in ClusterCommand, NEW entries, NEW k \in Nat,
         \A t \in TaskId : Tells(entries, k, s.tasks[t], t) /\ InOrder(entries, k, c, t),
         NEW m
  PROVE  /\ ActiveTasks(Apply(s, c), m) \subseteq ActiveTasks(s, m) \cup {c.task_id}
         /\ \/ c.op = "PutTask" /\ c.task.target_node = m
            \/ ActiveTasks(Apply(s, c), m) \subseteq ActiveTasks(s, m)
<1> SUFFICES ASSUME NEW t \in ActiveTasks(Apply(s, c), m)
             PROVE  \/ t \in ActiveTasks(s, m)
                    \/ t = c.task_id /\ c.op = "PutTask" /\ c.task.target_node = m
  OBVIOUS
<1> DEFINE old == s.tasks[t]
           new == Apply(s, c).tasks[t]
<1>1. /\ t \in TaskId /\ new # Absent /\ new.target_node = m
      /\ new.status \in {"Pending", "Running"}
  BY DEF ActiveTasks
<1>2. CASE new = old
  BY <1>1, <1>2 DEF ActiveTasks
<1>3. CASE Puts(c, t) /\ new = c.task
  BY <1>1, <1>3 DEF Puts
<1>4. CASE /\ old # Absent /\ old.status \in {"Pending", "Running"}
           /\ new.target_node = old.target_node
  BY <1>1, <1>4 DEF ActiveTasks
<1>5. ~ new.status \in Finished
  BY <1>1 DEF Finished
<1> QED
  BY <1>1, <1>2, <1>3, <1>4, <1>5, ApplyMoves

\* There is room where there was room, and one task fits where there is room.
LEMMA RoomMoves ==
  ASSUME NEW s, NEW r, NEW m \in NodeId, NEW x, Fits(s)
  PROVE  /\ ActiveTasks(r, m) \subseteq ActiveTasks(s, m) =>
              /\ IsFiniteSet(ActiveTasks(r, m))
              /\ Cardinality(ActiveTasks(r, m)) <= MaxTasksPerNode
              /\ Room(s, m) => Room(r, m)
         /\ ActiveTasks(r, m) \subseteq ActiveTasks(s, m) \cup {x} /\ Room(s, m) =>
              /\ IsFiniteSet(ActiveTasks(r, m))
              /\ Cardinality(ActiveTasks(r, m)) <= MaxTasksPerNode
<1> DEFINE A == ActiveTasks(s, m)
           B == ActiveTasks(r, m)
<1>1. /\ IsFiniteSet(A) /\ Cardinality(A) \in Nat /\ Cardinality(A) <= MaxTasksPerNode
      /\ MaxTasksPerNode \in Nat
  BY FS_CardinalityType, LimitIsNatural DEF Fits
<1>2. ASSUME B \subseteq A
      PROVE  IsFiniteSet(B) /\ Cardinality(B) \in Nat /\ Cardinality(B) <= Cardinality(A)
  BY <1>1, <1>2, FS_Subset, FS_CardinalityType
<1>3. ASSUME B \subseteq A \cup {x}
      PROVE  IsFiniteSet(B) /\ Cardinality(B) \in Nat /\ Cardinality(B) <= Cardinality(A) + 1
  <2>1. /\ IsFiniteSet(A \cup {x}) /\ Cardinality(A \cup {x}) \in Nat
        /\ Cardinality(A \cup {x}) <= Cardinality(A) + 1
    <3>1. /\ IsFiniteSet(A \cup {x})
          /\ Cardinality(A \cup {x}) = IF x \in A THEN Cardinality(A) ELSE Cardinality(A) + 1
      BY <1>1, FS_AddElement
    <3> HIDE DEF A
    <3> QED
      BY <1>1, <3>1
  <2>2. IsFiniteSet(B) /\ Cardinality(B) <= Cardinality(A \cup {x})
    BY <1>3, <2>1, FS_Subset
  <2> QED
    BY <1>1, <2>1, <2>2, FS_CardinalityType
<1> QED
  BY <1>1, <1>2, <1>3 DEF Room

\* The entry that is applied.
LEMMA LimitApply ==
  ASSUME TypeOK, BoardInv, Limit, NEW n \in Daemon, ApplyEntry(n)
  PROVE  Fits(hive'[n]) /\ Announced(n)' /\ Careful(n)'
<1>1. PICK k \in Nat : k = applied[n] /\ k + 1 \in 1..Len(log)
  BY NextApplied
<1>2. PICK c \in ClusterCommand : c = log[k + 1]
  BY <1>1, NextApplied
<1>3. /\ log' = log /\ hive[n] \in HiveStates /\ applied'[n] = k + 1
      /\ hive'[n] = Apply(hive[n], c)
      /\ \A t \in TaskId : Tells(log, k, hive[n].tasks[t], t) /\ InOrder(log, k, c, t)
  BY <1>1, <1>2, NextApplied DEF TypeOK, ReplicatorTypeOK
<1>4. planner' = planner /\ phase' = phase /\ joining' = joining
  BY DEF ApplyEntry, daemonVars
<1>5. Fits(hive[n]) /\ Announced(n) /\ Careful(n) /\ Len(log) \in Nat
  BY DEF Limit, TypeOK, ReplicatorTypeOK
<1>6. Waiting(log', applied'[n]) = Waiting(log, k) \ {k + 1}
  BY <1>1, <1>3, <1>5 DEF Waiting
<1>7. \A m : /\ ActiveTasks(hive'[n], m) \subseteq ActiveTasks(hive[n], m) \cup {c.task_id}
             /\ \/ c.op = "PutTask" /\ c.task.target_node = m
                \/ ActiveTasks(hive'[n], m) \subseteq ActiveTasks(hive[n], m)
  BY <1>3, ActiveMoves
<1>8. CASE c.op = "PutTask"
  <2>1. k + 1 \in Waiting(log, applied[n])
    BY <1>1, <1>2, <1>5, <1>8 DEF Waiting
  <2>2. Waiting(log', applied'[n]) = {}
    BY <1>1, <1>5, <1>6, <2>1 DEF Announced
  <2>3. Room(hive[n], c.task.target_node)
    BY <1>2, <1>5, <2>1 DEF Announced
  <2>4. Fits(hive'[n])
    <3>1. ASSUME NEW m \in NodeId
          PROVE  /\ IsFiniteSet(ActiveTasks(hive'[n], m))
                 /\ Cardinality(ActiveTasks(hive'[n], m)) <= MaxTasksPerNode
      <4>1. CASE ActiveTasks(hive'[n], m) \subseteq ActiveTasks(hive[n], m)
        BY <1>5, <4>1, RoomMoves
      <4>2. CASE /\ c.task.target_node = m
                 /\ ActiveTasks(hive'[n], m) \subseteq ActiveTasks(hive[n], m) \cup {c.task_id}
        <5>1. Room(hive[n], m)
          BY <2>3, <4>2
        <5> QED
          BY <1>5, <4>2, <5>1, RoomMoves
      <4> QED
        BY <1>7, <4>1, <4>2
    <3> QED
      BY <3>1 DEF Fits
  <2>5. planner[n].command = Absent
    <3>1. planner[n].pc # "idle" => planner[n].pc = "wait"
      BY <1>5, <2>1 DEF Announced, Careful
    <3>2. planner[n] \in Planner
      BY DEF TypeOK
    <3> QED
      BY <3>1, <3>2 DEF Planner
  <2> QED
    BY <1>4, <1>5, <2>2, <2>4, <2>5 DEF Announced, Careful
<1>9. CASE c.op # "PutTask"
  <2>1. ASSUME NEW m \in NodeId
        PROVE  /\ IsFiniteSet(ActiveTasks(hive'[n], m))
               /\ Cardinality(ActiveTasks(hive'[n], m)) <= MaxTasksPerNode
               /\ Room(hive[n], m) => Room(hive'[n], m)
    BY <1>5, <1>7, <1>9, RoomMoves
  <2>2. ASSUME NEW d \in ClusterCommand, d.op = "PutTask"
        PROVE  d.task.target_node \in NodeId
    BY <2>2, CommandCases DEF Task
  <2>3. Fits(hive'[n])
    BY <2>1 DEF Fits
  <2>4. Careful(n)'
    <3>1. planner[n].command # Absent => planner[n].command \in ClusterCommand
      BY DEF TypeOK, Planner
    <3> QED
      BY <1>4, <1>5, <2>1, <2>2, <3>1 DEF Careful
  <2>5. Announced(n)'
    <3>1. \A i \in Waiting(log', applied'[n]) : i \in Waiting(log, applied[n])
      BY <1>1, <1>6
    <3>2. \A i \in Waiting(log, applied[n]) : i \in 1..Len(log) /\ log[i].op = "PutTask"
      BY <1>1, <1>5 DEF Waiting
    <3>3. \A i \in 1..Len(log) : log[i] \in ClusterCommand
      BY DEF TypeOK, ReplicatorTypeOK
    <3>4. \A i \in Waiting(log', applied'[n]) : Room(hive'[n], log'[i].task.target_node)
      BY <1>3, <1>5, <2>1, <2>2, <3>1, <3>2, <3>3 DEF Announced
    <3> QED
      BY <1>3, <1>4, <1>5, <3>1, <3>4 DEF Announced
  <2> QED
    BY <2>3, <2>4, <2>5
<1> QED
  BY <1>8, <1>9

\* What is on its way when no new task is appended.
LEMMA WaitingKept ==
  ASSUME TypeOK, NEW n \in Daemon, applied' = applied,
         log' = log \/ \E c : c.op # "PutTask" /\ log' = Append(log, c)
  PROVE  /\ Waiting(log', applied'[n]) = Waiting(log, applied[n])
         /\ \A i \in Waiting(log, applied[n]) : i \in 1..Len(log) /\ log'[i] = log[i]
<1>t. log \in Seq(ClusterCommand) /\ Len(log) \in Nat /\ applied[n] \in 0..Len(log)
  BY DEF TypeOK, ReplicatorTypeOK
<1>1. \A i \in Waiting(log, applied[n]) : i \in 1..Len(log)
  BY <1>t DEF Waiting
<1>2. CASE log' = log
  BY <1>1, <1>2
<1>3. ASSUME NEW c, c.op # "PutTask", log' = Append(log, c)
      PROVE  /\ Waiting(log', applied'[n]) = Waiting(log, applied[n])
             /\ \A i \in 1..Len(log) : log'[i] = log[i]
  <2>1. /\ Len(log') = Len(log) + 1 /\ log'[Len(log) + 1] = c
        /\ \A i \in 1..Len(log) : log'[i] = log[i]
    BY <1>t, <1>3
  <2> QED
    BY <1>t, <1>3, <2>1 DEF Waiting
<1> QED
  BY <1>1, <1>2, <1>3

\* Steps of the runner, the heartbeat loop and the API.
LEMMA LimitKept ==
  ASSUME TypeOK, Limit, NEW n \in Daemon, UNCHANGED <<applied, hive, planner>>,
         phase'[n] = phase[n], joining'[n] = joining[n],
         log' = log \/ \E c : c.op # "PutTask" /\ log' = Append(log, c)
  PROVE  Fits(hive'[n]) /\ Announced(n)' /\ Careful(n)'
<1>1. /\ Waiting(log', applied'[n]) = Waiting(log, applied[n])
      /\ \A i \in Waiting(log, applied[n]) : log'[i] = log[i]
  BY WaitingKept
<1>2. Fits(hive[n]) /\ Announced(n) /\ Careful(n)
  BY DEF Limit
<1> QED
  BY <1>1, <1>2 DEF Announced, Careful

\* Steps of the planner between two looks at the log: nothing is on its way.
LEMMA LimitIdle ==
  ASSUME TypeOK, Limit, NEW n \in Daemon, UNCHANGED <<log, applied, hive, phase>>,
         Waiting(log, applied[n]) = {}, phase[n] = "running",
         planner'[n].command # Absent /\ planner'[n].command.op = "PutTask"
           => Room(hive[n], planner'[n].command.task.target_node)
  PROVE  Fits(hive'[n]) /\ Announced(n)' /\ Careful(n)'
  BY DEF Limit, Announced, Careful

\* execute prepares a task only where the validator has found room.
LEMMA PreparedHasRoom ==
  ASSUME NoMoves, NEW a \in Proposals, NEW s \in HiveStates, Validates(a, s),
         NEW ft, NEW fa, NEW c \in CommandsFor(a, s, ft, fa), c.op = "PutTask"
  PROVE  Room(s, c.task.target_node)
<1>1. CASE a.type = "ScheduleTask"
  <2>1. PICK t \in ft : c = PutTask(t, NewTask(a.task, a.target_node))
    BY <1>1 DEF CommandsFor
  <2>2. c.task.target_node = a.target_node
    BY <2>1 DEF PutTask, NewTask
  <2> QED
    BY <1>1, <2>2 DEF Validates, Room
<1>2. CASE a.type = "MarkNodeDegraded"
  BY <1>2 DEF CommandsFor
<1> QED
  BY <1>1, <1>2, UnmovedTypes DEF CommandsFor

LEMMA LimitPlanner ==
  ASSUME NoMoves, TypeOK, Limit, NEW n \in Daemon, PlannerStep(n)
  PROVE  Fits(hive'[n]) /\ Announced(n)' /\ Careful(n)'
<1>t. /\ planner \in [Daemon -> Planner] /\ planner[n] \in Planner
      /\ log \in Seq(ClusterCommand) /\ Len(log) \in Nat /\ applied[n] \in 0..Len(log)
      /\ hive[n] \in HiveStates
  BY DEF TypeOK, ReplicatorTypeOK
<1>i. Fits(hive[n]) /\ Announced(n) /\ Careful(n)
  BY DEF Limit
<1>u. /\ UNCHANGED <<applied, hive, phase, joining>>
      /\ ~ PlannerWrite(n) => log' = log
  BY DEF PlannerStep, PlannerTick, PlannerExecute, PlannerWrite, PlannerReturn,
         PlannerDone, ClientWrite, replicatorVars, daemonVars
<1>r. phase[n] = "running"
  BY <1>i DEF PlannerStep, PlannerTick, PlannerExecute, PlannerWrite, PlannerReturn,
              PlannerDone, Careful
<1>w. planner[n].pc # "wait" => Waiting(log, applied[n]) = {}
  BY <1>i, <1>r DEF Announced
<1>1. CASE PlannerTick(n) \/ PlannerDone(n)
  <2>1. planner'[n].command = Absent /\ planner[n].pc # "wait"
    BY <1>t, <1>1 DEF PlannerTick, PlannerDone, Acting, IdlePlanner
  <2>2. log' = log
    BY <1>1 DEF PlannerTick, PlannerDone, replicatorVars
  <2> QED
    BY <1>u, <1>r, <1>w, <2>1, <2>2, LimitIdle
<1>2. CASE PlannerExecute(n)
  <2>1. PICK a \in Proposals : /\ Validates(a, hive[n])
                               /\ \E c \in CommandsFor(a, hive[n], FreshTask, FreshAttachment) :
                                    planner' = [planner EXCEPT ![n] = Prepared(c)]
    BY <1>2 DEF PlannerExecute
  <2>2. PICK c \in CommandsFor(a, hive[n], FreshTask, FreshAttachment) :
          planner' = [planner EXCEPT ![n] = Prepared(c)]
    BY <2>1
  <2>3. planner'[n].command = c
    BY <1>t, <2>2 DEF Prepared
  <2>4. c.op = "PutTask" => Room(hive[n], c.task.target_node)
    BY <1>t, <2>1, PreparedHasRoom
  <2>5. log' = log /\ planner[n].pc # "wait"
    BY <1>2 DEF PlannerExecute, replicatorVars
  <2> QED
    BY <1>u, <1>r, <1>w, <2>3, <2>4, <2>5, LimitIdle
<1>3. CASE PlannerReturn(n)
  <2>1. planner'[n].command = Absent
    BY <1>t, <1>3 DEF PlannerReturn, Acting
  <2>2. ASSUME NEW i \in Waiting(log, applied[n])
        PROVE  FALSE
    <3>1. planner[n].await = i /\ i > applied[n] /\ i \in Nat /\ i # 0
      BY <1>t, <1>i, <1>r DEF Announced, Waiting
    <3> QED
      BY <1>t, <1>3, <3>1 DEF PlannerReturn, Acknowledged, Lost
  <2>3. log' = log
    BY <1>3 DEF PlannerReturn, replicatorVars
  <2> QED
    BY <1>u, <1>r, <2>1, <2>2, <2>3, LimitIdle
<1>4. CASE PlannerWrite(n)
  <2>1. planner[n].pc = "write" /\ Waiting(log, applied[n]) = {}
    BY <1>4, <1>w DEF PlannerWrite
  <2>2. PICK c \in ClusterCommand : c = planner[n].command /\ c # Absent
    BY <1>t, <2>1, AbsentIsNoValue DEF Planner
  <2>3. CASE log' = log /\ planner' = [planner EXCEPT ![n] = Acting]
    <3>1. planner'[n].command = Absent
      BY <1>t, <2>3 DEF Acting
    <3> QED
      BY <1>u, <1>r, <2>1, <2>3, <3>1, LimitIdle
  <2>4. CASE log' = Append(log, c) /\ planner' = [planner EXCEPT ![n] = Written(Len(log) + 1)]
    <3>1. /\ Len(log') = Len(log) + 1 /\ log'[Len(log) + 1] = c
          /\ \A i \in 1..Len(log) : log'[i] = log[i]
      BY <1>t, <2>4
    <3>2. /\ planner'[n].pc = "wait" /\ planner'[n].command = Absent
          /\ planner'[n].await = Len(log) + 1
      BY <1>t, <2>4 DEF Written
    <3>3. \A i \in Waiting(log', applied'[n]) : i = Len(log) + 1 /\ c.op = "PutTask"
      BY <1>t, <1>u, <2>1, <3>1 DEF Waiting
    <3>4. c.op = "PutTask" => Room(hive[n], c.task.target_node)
      BY <1>i, <2>2 DEF Careful
    <3> QED
      BY <1>i, <1>u, <1>r, <3>1, <3>2, <3>3, <3>4 DEF Announced, Careful
  <2> QED
    BY <1>4, <2>2, <2>3, <2>4 DEF PlannerWrite, ClientWrite, replicatorVars
<1> QED
  BY <1>1, <1>2, <1>3, <1>4 DEF PlannerStep

\* A crash, and a return of the daemon to the lead with less of the log.
LEMMA LimitFaults ==
  ASSUME TypeOK, Limit, NEW n \in Daemon, Crash(n) \/ Elect(n)
  PROVE  Fits(hive'[n]) /\ Announced(n)' /\ Careful(n)'
<1>t. /\ planner \in [Daemon -> Planner] /\ planner[n] \in Planner
      /\ phase \in [Daemon -> Phase] /\ joining \in [Daemon -> Nat] /\ joining[n] \in Nat
      /\ log \in Seq(ClusterCommand) /\ Len(log) \in Nat /\ applied[n] \in 0..Len(log)
  BY DEF TypeOK, ReplicatorTypeOK
<1>i. Fits(hive[n]) /\ Announced(n) /\ Careful(n)
  BY DEF Limit
<1>1. CASE Crash(n)
  <2>1. UNCHANGED <<log, applied, hive>>
    BY <1>1 DEF Crash, LoseLeader
  <2>2. /\ phase'[n] = "down" /\ planner'[n].command = Absent
        /\ planner'[n].pc = "idle"
    BY <1>t, <1>1 DEF Crash, IdlePlanner
  <2> QED
    BY <1>i, <2>1, <2>2 DEF Announced, Careful
<1>2. CASE Elect(n)
  <2>1. PICK length \in 0..Len(log) :
          /\ log' = SubSeq(log, 1, length) /\ UNCHANGED <<applied, hive>>
          /\ joining' = [m \in Daemon |-> StillAwaited(joining[m], length)]
          /\ planner' = [m \in Daemon |-> AfterCut(planner[m], length)]
    BY <1>2 DEF Elect, TakeLead
  <2>2. phase' = phase
    BY <1>2 DEF Elect
  <2>3. /\ Len(log') = length
        /\ \A i \in 1..length : log'[i] = log[i]
    BY <1>t, <2>1
  <2>4. \A i \in Waiting(log', applied'[n]) :
          i \in Waiting(log, applied[n]) /\ i \in 1..length /\ log'[i] = log[i]
    BY <1>t, <2>1, <2>3 DEF Waiting
  <2>5. /\ planner'[n].pc = planner[n].pc /\ planner'[n].command = planner[n].command
        /\ planner'[n].await = StillAwaited(planner[n].await, length)
    BY <1>t, <2>1 DEF AfterCut, Planner
  <2>6. joining'[n] # Lost => joining'[n] = joining[n] /\ joining[n] # Lost
    BY <1>t, <2>1 DEF StillAwaited, Lost
  <2>7. \A i \in 1..length : planner[n].await = i => planner'[n].await = i
    BY <2>5 DEF StillAwaited
  <2> QED
    BY <1>i, <2>1, <2>2, <2>4, <2>5, <2>6, <2>7 DEF Announced, Careful
<1> QED
  BY <1>1, <1>2

\* The daemon starts: what an earlier life has left in the log is applied before
\* the loops run.
LEMMA LimitStarts ==
  ASSUME TypeOK, Limit, NEW n \in Daemon, Boot(n) \/ Start(n) \/ Registered(n)
  PROVE  Fits(hive'[n]) /\ Announced(n)' /\ Careful(n)'
<1>t. /\ planner[n] \in Planner
      /\ phase \in [Daemon -> Phase] /\ joining \in [Daemon -> Nat] /\ joining[n] \in Nat
      /\ log \in Seq(ClusterCommand) /\ Len(log) \in Nat /\ applied[n] \in 0..Len(log)
  BY DEF TypeOK, ReplicatorTypeOK
<1>i. Fits(hive[n]) /\ Announced(n) /\ Careful(n)
  BY DEF Limit
<1>u. /\ UNCHANGED <<applied, hive, planner>>
      /\ log' = log \/ log' = Append(log, RegisterNode(n))
  BY DEF Boot, Start, Registered, replicatorVars
<1>r. RegisterNode(n).op # "PutTask"
  BY DEF RegisterNode
<1>w. /\ Waiting(log', applied'[n]) = Waiting(log, applied[n])
      /\ \A i \in Waiting(log, applied[n]) : i \in 1..Len(log) /\ log'[i] = log[i]
  BY <1>u, <1>r, WaitingKept
<1>p. planner[n].pc = "idle"
  BY <1>i DEF Boot, Start, Registered, Careful
<1>1. CASE phase'[n] \notin {"registering", "running"}
  BY <1>i, <1>u, <1>w, <1>p, <1>1 DEF Announced, Careful
<1>2. CASE Start(n) /\ phase'[n] = "registering"
  <2>1. joining'[n] = Len(log) + 1
    BY <1>t, <1>2 DEF Start
  <2>2. \A i \in Waiting(log', applied'[n]) : i < joining'[n]
    BY <1>t, <1>w, <2>1
  <2> QED
    BY <1>i, <1>u, <1>w, <1>p, <1>2, <2>2 DEF Announced, Careful
<1>3. CASE Registered(n) /\ phase'[n] = "running"
  <2>1. Acknowledged(n, joining[n]) /\ phase[n] = "registering"
    BY <1>t, <1>3 DEF Registered
  <2>2. ASSUME NEW i \in Waiting(log, applied[n])
        PROVE  FALSE
    <3>1. i < joining[n] /\ i > applied[n] /\ i \in Nat
      BY <1>t, <1>i, <2>1 DEF Announced, Acknowledged, Waiting
    <3> QED
      BY <1>t, <2>1, <3>1 DEF Acknowledged
  <2> QED
    BY <1>i, <1>u, <1>w, <1>p, <1>3, <2>2 DEF Announced, Careful
<1>4. \/ phase'[n] \notin {"registering", "running"}
      \/ Start(n) /\ phase'[n] = "registering"
      \/ Registered(n) /\ phase'[n] = "running"
  BY <1>t DEF Boot, Start, Registered
<1> QED
  BY <1>1, <1>2, <1>3, <1>4

LEMMA LimitStep ==
  ASSUME NoMoves, ApiPayload = {}, OneDaemon, TypeOK, BoardInv, Limit, [Next]_vars
  PROVE  Limit'
<1> SUFFICES ASSUME NEW n \in Daemon
             PROVE  Fits(hive'[n]) /\ Announced(n)' /\ Careful(n)'
  BY DEF Limit
<1>1. CASE UNCHANGED vars
  BY <1>1, LimitKept DEF vars, replicatorVars, daemonVars
<1>2. CASE Boot(n) \/ Start(n) \/ Registered(n)
  BY <1>2, LimitStarts
<1>3. CASE Crash(n) \/ Elect(n)
  BY <1>3, LimitFaults
<1>4. CASE ApplyEntry(n)
  BY <1>4, LimitApply
<1>5. CASE PlannerStep(n)
  BY <1>5, LimitPlanner
<1>6. CASE RunnerStep(n)
  <2>1. UNCHANGED <<applied, hive, planner, phase, joining>>
    BY <1>6 DEF RunnerStep, RunnerTick, RunnerStart, RunnerExec, RunnerFinish, RunnerReturn,
                ClientWrite, replicatorVars, daemonVars
  <2>2. log' = log \/ \E t, status, ok : log' = Append(log, UpdateTaskStatus(t, status, ok))
    BY <1>6 DEF RunnerStep, RunnerTick, RunnerStart, RunnerExec, RunnerFinish, RunnerReturn,
                ClientWrite, replicatorVars
  <2>3. \A t, status, ok : UpdateTaskStatus(t, status, ok).op # "PutTask"
    BY DEF UpdateTaskStatus
  <2> QED
    BY <2>1, <2>2, <2>3, LimitKept
<1>7. CASE Heartbeat(n)
  <2> DEFINE c == [op |-> "UpdateNodeHealth", node_id |-> n, health |-> "Healthy"]
  <2>1. UNCHANGED <<applied, hive, planner, phase, joining>> /\ log' = Append(log, c)
    BY <1>7 DEF Heartbeat, ClientWrite, daemonVars
  <2>2. c.op # "PutTask"
    OBVIOUS
  <2> QED
    BY <2>1, <2>2, LimitKept
<1>8. CASE AddGoal(n)
  <2>1. UNCHANGED <<applied, hive, planner, phase, joining>>
    BY <1>8 DEF AddGoal, ClientWrite, daemonVars
  <2>2. PICK g : log' = Append(log, [op |-> "PutGoal", goal_id |-> g])
    BY <1>8 DEF AddGoal, ClientWrite
  <2>3. [op |-> "PutGoal", goal_id |-> g].op # "PutTask"
    OBVIOUS
  <2> QED
    BY <2>1, <2>2, <2>3, LimitKept
<1>9. ~ SubmitTask(n)
  BY DEF SubmitTask
<1> QED
  BY <1>1, <1>2, <1>3, <1>4, <1>5, <1>6, <1>7, <1>8, <1>9 DEF Next, OneDaemon

\* A single daemon whose brain only schedules new tasks, and whose API is left
\* alone, never sees a node with more active tasks than the limit of its policy,
\* through crashes and restarts with anything left in the log.
THEOREM ActiveWithinLimitCorrect ==
  ASSUME NoMoves, ApiPayload = {}, OneDaemon
  PROVE  Spec => []ActiveWithinLimit
<1>1. TypeOK /\ BoardInv /\ Limit /\ [Next]_vars => Limit'
  BY LimitStep
<1>2. Limit => ActiveWithinLimit
  BY DEF Limit, Fits, ActiveWithinLimit
<1> QED
  BY <1>1, <1>2, LimitInit, TypeCorrect, BoardInvCorrect, PTL DEF Spec

=============================================================================

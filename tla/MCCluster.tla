------------------------------ MODULE MCCluster ------------------------------
(***************************************************************************)
(* Small instances of TaskLifecycle.                                       *)
(***************************************************************************)
EXTENDS TaskLifecycle

CONSTANTS n1, n2, t1, t2, t3, g1

Service == [kind |-> "CheckService", paths |-> {}]
Echo    == [kind |-> "Echo", paths |-> {}]

OneNode    == {n1}
TwoNodes   == {n1, n2}
OneName    == {n1, Nameless}
TwoNames   == {n1, n2, Nameless}
NoNode     == {}
OneTask    == {t1, Nameless}
TwoTasks   == {t1, t2, Nameless}
ThreeTasks == {t1, t2, t3, Nameless}
OneGoal    == {g1, Nameless}
Nothing    == {}
Services   == {Service}
Echoes     == {Echo}

TaskSymmetry == Permutations({t1, t2, t3})

Schedule   == {"ScheduleTask"}
ScheduleOrMark == {"ScheduleTask", "MarkNodeDegraded"}
Move       == {"RebalanceTask"}
Cancel     == {"CancelTask"}
=============================================================================

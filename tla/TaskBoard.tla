------------------------------- MODULE TaskBoard -------------------------------
(***************************************************************************)
(* What the hive promises about tasks that are neither cancelled nor moved *)
(* (TaskStatus in src/types.rs and its use): every node keeps a board of   *)
(* the tasks assigned to it.  A task is put on the board once, taken once, *)
(* executed at most once, while the board says Running, and brought to an  *)
(* end after it was executed.  A crash may stop a task where it is.        *)
(***************************************************************************)
EXTENDS Naturals

CONSTANTS Node, TaskId

VARIABLES status,     \* status[n][t]: what n's board says of t
          runs        \* runs[n][t]: how often n has executed t

boardVars == <<status, runs>>

BoardInit ==
  /\ status = [n \in Node |-> [t \in TaskId |-> "Unassigned"]]
  /\ runs = [n \in Node |-> [t \in TaskId |-> 0]]

\* The status of t goes from old to new.
Moves(n, t, old, new) ==
  /\ status[n][t] = old
  /\ status' = [status EXCEPT ![n][t] = new]
  /\ UNCHANGED runs

Assign(n, t) == Moves(n, t, "Unassigned", "Pending")

Take(n, t) == Moves(n, t, "Pending", "Running")

Execute(n, t) ==
  /\ status[n][t] = "Running"
  /\ runs[n][t] = 0
  /\ runs' = [runs EXCEPT ![n][t] = 1]
  /\ UNCHANGED status

End(n, t) ==
  /\ runs[n][t] = 1
  /\ \E outcome \in {"Completed", "Failed"} : Moves(n, t, "Running", outcome)

BoardNext ==
  \E n \in Node, t \in TaskId :
    Assign(n, t) \/ Take(n, t) \/ Execute(n, t) \/ End(n, t)

BoardSpec == BoardInit /\ [][BoardNext]_boardVars
==============================================================================

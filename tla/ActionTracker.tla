---------------------------- MODULE ActionTracker -----------------------------
(***************************************************************************)
(* ActionTracker (src/brain/tracker.rs) and the planner loop of one daemon *)
(* (spawn_planner_loop in src/daemon.rs), its only user: what becomes of   *)
(* the actions the brain proposes, plan after plan.                        *)
(*                                                                         *)
(* An action is its variant and what is_similar_action compares: the       *)
(* target and the kind of payload of a ScheduleTask, the task, node or     *)
(* goal of the others.  Executing an action ends with Ok or an error, for  *)
(* whatever reason.  Time is abstract: an action may be older than         *)
(* action_timeout whenever somebody asks.                                  *)
(***************************************************************************)
EXTENDS Naturals, FiniteSets, SequencesExt

CONSTANTS ActionType,     \* variants the brain proposes
          Subject,        \* what they are about
          MaxRetries,     \* max_retries
          MaxHistory,     \* max_history
          RecentLimit,    \* how many recent failures the loop asks for
          MaxPlan,        \* bound: actions in a plan
          MaxActions      \* bound: actions tracked

ASSUME TrackerAssumption ==
  /\ MaxRetries \in Nat \ {0, 1} /\ MaxHistory \in Nat \ {0} /\ RecentLimit \in Nat
  /\ MaxPlan \in Nat /\ MaxActions \in Nat

VARIABLES open,        \* actions, by identifier
          history,     \* action_history
          progress,    \* goal_progress, by goal
          plan,        \* the rest of what the brain proposed at this tick
          failures,    \* recent_failures of this tick
          pc,          \* where the loop is
          current,     \* the identifier of the action being executed
          tracked      \* how many identifiers have been given out

vars == <<open, history, progress, plan, failures, pc, current, tracked>>

BrainAction == [type : ActionType, subject : Subject]
Id == 1..MaxActions

TrackedAction == [action : BrainAction, status : {"Proposed", "Executing"},
                  retry_count : 0..(MaxRetries - 1)]
Closed == [action : BrainAction, status : {"Completed", "Failed"}]
GoalProgress == [proposed : Nat, completed : Nat, failed : Nat]

TypeOK ==
  /\ DOMAIN open \subseteq Id /\ open \in [DOMAIN open -> TrackedAction]
  /\ history \in Seq(Closed) /\ Len(history) <= MaxHistory
  /\ progress \in [Subject -> GoalProgress]
  /\ plan \in Seq(BrainAction)
  /\ failures \subseteq BrainAction
  /\ pc \in {"tick", "acting", "executing"}
  /\ current \in 0..MaxActions
  /\ tracked \in 0..MaxActions

Init ==
  /\ open = <<>>
  /\ history = <<>>
  /\ progress = [g \in Subject |-> [proposed |-> 0, completed |-> 0, failed |-> 0]]
  /\ plan = <<>>
  /\ failures = {}
  /\ pc = "tick"
  /\ current = 0
  /\ tracked = 0

-----------------------------------------------------------------------------
(***************************************************************************)
(* The operations of the tracker.                                          *)
(***************************************************************************)
\* is_similar_action: the other variants are not even similar to themselves.
Similar(a, b) ==
  /\ a.type \in {"ScheduleTask", "RebalanceTask", "CancelTask", "MarkNodeDegraded"}
  /\ a = b

\* Only what is being executed counts.
HasSimilarExecuting(a) ==
  \E i \in DOMAIN open : open[i].status = "Executing" /\ Similar(open[i].action, a)

HasSimilarPending(a) == \E i \in DOMAIN open : Similar(open[i].action, a)

Without(ids) == [i \in DOMAIN open \ ids |-> open[i]]

With(i, a) == [j \in DOMAIN open \cup {i} |-> IF j = i THEN a ELSE open[j]]

\* add_to_history without its limit.
RememberAll(actions, status) ==
  history \o [k \in 1..Len(actions) |-> [action |-> actions[k], status |-> status]]

\* add_to_history of several actions, one after the other.
Remember(actions, status) ==
  LET longer == history
                \o [k \in 1..Len(actions) |-> [action |-> actions[k], status |-> status]]
  IN SubSeq(longer,
            IF Len(longer) > MaxHistory THEN Len(longer) - MaxHistory + 1 ELSE 1,
            Len(longer))

\* get_recent_failures: the last ones of a history.
RecentFailures(h) ==
  LET failed == {k \in DOMAIN h : h[k].status = "Failed"}
  IN {h[k].action :
        k \in {j \in failed : Cardinality({l \in failed : l > j}) < RecentLimit}}

\* track_action and mark_executing.
TrackExecuting(i, a) ==
  open' = With(i, [action |-> a, status |-> "Executing", retry_count |-> 0])

MarkCompleted(i) ==
  /\ open' = Without({i})
  /\ history' = Remember(<<open[i].action>>, "Completed")

\* A failed action is given up.
MarkFailedAtOnce(i) ==
  /\ open' = Without({i})
  /\ history' = Remember(<<open[i].action>>, "Failed")

MarkFailed(i) ==
  LET count == open[i].retry_count + 1
  IN IF count >= MaxRetries
     THEN MarkFailedAtOnce(i)
     ELSE /\ open' = [open EXCEPT ![i].status = "Proposed", ![i].retry_count = count]
          /\ history' = history

\* Some of these actions are old: they are removed in some order.
Sweep(ids) ==
  \E old \in SUBSET ids : \E order \in SetToSeqs(old) :
    /\ open' = Without(old)
    /\ history' = Remember([k \in 1..Len(order) |-> open[order[k]].action], "Failed")

Executing == {i \in DOMAIN open : open[i].status = "Executing"}

\* A sweep that looks at every action.
CleanupOld == Sweep(DOMAIN open)

CleanupStale == Sweep(Executing)

\* update_goal_progress, called for UpdateGoalProgress only (extract_goal_id).
Counted(a, ok) ==
  IF a.type # "UpdateGoalProgress" THEN progress
  ELSE [progress EXCEPT
          ![a.subject] = [proposed  |-> @.proposed + 1,
                          completed |-> @.completed + (IF ok THEN 1 ELSE 0),
                          failed    |-> @.failed + (IF ok THEN 0 ELSE 1)]]

-----------------------------------------------------------------------------
(***************************************************************************)
(* The planner loop.                                                       *)
(***************************************************************************)
\* A tick, up to the brain's answer.  A tick without lead, goals or answer
\* has the empty plan.
Tick ==
  /\ pc = "tick"
  /\ CleanupStale
  /\ failures' = RecentFailures(history')
  /\ plan' \in UNION {[1..k -> BrainAction] : k \in 0..MaxPlan}
  /\ pc' = "acting"
  /\ UNCHANGED <<progress, current, tracked>>

IsRecentlyFailed(a) == \E f \in failures : Similar(f, a)

Unwanted(a) == HasSimilarPending(a) \/ IsRecentlyFailed(a)

\* The next action is skipped.
Skip ==
  /\ pc = "acting" /\ plan # <<>>
  /\ Unwanted(Head(plan))
  /\ plan' = Tail(plan)
  /\ UNCHANGED <<open, history, progress, failures, pc, current, tracked>>

\* The next action is tracked and handed to the executor.
Execute ==
  /\ pc = "acting" /\ plan # <<>>
  /\ ~ Unwanted(Head(plan))
  /\ tracked < MaxActions
  /\ tracked' = tracked + 1
  /\ current' = tracked + 1
  /\ TrackExecuting(tracked + 1, Head(plan))
  /\ pc' = "executing"
  /\ UNCHANGED <<history, progress, plan, failures>>

\* execute returns.
Executed ==
  /\ pc = "executing"
  /\ \E ok \in BOOLEAN :
       /\ IF ok THEN MarkCompleted(current) ELSE MarkFailed(current)
       /\ progress' = Counted(Head(plan), ok)
  /\ plan' = Tail(plan)
  /\ pc' = "acting"
  /\ UNCHANGED <<failures, current, tracked>>

EndOfPlan ==
  /\ pc = "acting" /\ plan = <<>>
  /\ pc' = "tick"
  /\ UNCHANGED <<open, history, progress, plan, failures, current, tracked>>

Next == Tick \/ Skip \/ Execute \/ Executed \/ EndOfPlan

Spec == Init /\ [][Next]_vars

(***************************************************************************)
(* Fairness: the ticker goes on, the calls of the brain and of the         *)
(* executor return, and the brain goes on proposing something.             *)
(***************************************************************************)
TickWithPlan == Tick /\ plan' # <<>>

FairSpec == Spec /\ WF_vars(Next) /\ SF_vars(TickWithPlan)

-----------------------------------------------------------------------------
(***************************************************************************)
(* Properties.                                                             *)
(***************************************************************************)
\* The tracker never holds two similar actions, whatever the brain repeats
\* within a plan or over several plans, and whatever fails in between.
NoSimilarOpen ==
  \A i, j \in DOMAIN open :
    i # j => ~ Similar(open[i].action, open[j].action)

\* The open actions about a goal that have failed.
FailedAbout(g) ==
  {i \in DOMAIN open : /\ open[i].status = "Proposed"
                       /\ open[i].action.type = "UpdateGoalProgress"
                       /\ open[i].action.subject = g}

\* Every failure about a goal has left an action in the tracker: the failures
\* counted for the goal and the actions still open for it are the same number.
FailuresStayOpen ==
  \A g \in Subject : progress[g].failed = Cardinality(FailedAbout(g))

\* The history has no failed action: no action fails max_retries times, and the
\* sweep finds none that is being executed, as it runs in the loop that waits
\* for them.  So recent_failures never holds anything to skip.
NothingRecentlyFailed ==
  \A k \in DOMAIN history : history[k].status # "Failed"

\* An action that failed and may be retried does not wait for ever: it is
\* executed again, or given up.
FailedIsRetried ==
  \A i \in Id :
    (i \in DOMAIN open /\ open[i].status = "Proposed")
      ~> ~ (i \in DOMAIN open /\ open[i].status = "Proposed")
=============================================================================

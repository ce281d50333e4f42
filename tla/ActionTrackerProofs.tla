------------------------- MODULE ActionTrackerProofs --------------------------
(***************************************************************************)
(* Proofs about ActionTracker.  The four invariants are proved together,   *)
(* from Inv: only the action the loop is waiting for is Executing, and it  *)
(* has not failed before.                                                  *)
(***************************************************************************)
EXTENDS ActionTracker, FiniteSetTheorems, TLAPS

Tracks ==
  /\ \A i \in DOMAIN open :
       /\ i <= tracked
       /\ open[i].status = "Executing"
            => pc = "executing" /\ i = current /\ open[i].retry_count = 0
  /\ pc = "executing" => /\ current \in DOMAIN open
                         /\ open[current].status = "Executing"
                         /\ plan # <<>>
                         /\ open[current].action = Head(plan)

Inv == TypeOK /\ Tracks /\ NoSimilarOpen /\ NothingRecentlyFailed /\ FailuresStayOpen

\* What add_to_history makes of the history: never too long, and nothing in it
\* that was neither there before nor added.
LEMMA RememberType ==
  ASSUME history \in Seq(Closed), NEW actions \in Seq(BrainAction),
         NEW status \in {"Completed", "Failed"}
  PROVE  /\ Remember(actions, status) \in Seq(Closed)
         /\ Len(Remember(actions, status)) <= MaxHistory
<1> DEFINE added == [k \in 1..Len(actions) |-> [action |-> actions[k], status |-> status]]
           longer == history \o added
           start == IF Len(longer) > MaxHistory THEN Len(longer) - MaxHistory + 1 ELSE 1
<1>1. added \in Seq(Closed) /\ Len(added) = Len(actions)
  BY DEF Closed
<1>2. longer \in Seq(Closed) /\ Len(longer) \in Nat
  BY <1>1
<1>3. start \in 1..(Len(longer) + 1) /\ Len(longer) - start + 1 <= MaxHistory
  BY <1>2, TrackerAssumption
<1>4. Remember(actions, status) = SubSeq(longer, start, Len(longer))
  BY DEF Remember
<1> HIDE DEF added, longer, start
<1>5. /\ SubSeq(longer, start, Len(longer)) \in Seq(Closed)
      /\ Len(SubSeq(longer, start, Len(longer))) <= MaxHistory
  BY <1>2, <1>3, TrackerAssumption
<1> QED
  BY <1>4, <1>5

LEMMA RememberCompleted ==
  ASSUME history \in Seq(Closed), NothingRecentlyFailed, NEW a \in BrainAction
  PROVE  LET h == Remember(<<a>>, "Completed")
         IN \A k \in DOMAIN h : h[k].status # "Failed"
<1> DEFINE added == [k \in 1..Len(<<a>>) |-> [action |-> (<<a>>)[k], status |-> "Completed"]]
           longer == history \o added
           start == IF Len(longer) > MaxHistory THEN Len(longer) - MaxHistory + 1 ELSE 1
<1>1. added \in Seq(Closed) /\ Len(added) = 1 /\ added[1].status = "Completed"
  BY DEF Closed
<1>2. longer \in Seq(Closed) /\ Len(longer) = Len(history) + 1
  BY <1>1
<1>3. \A k \in 1..Len(longer) : longer[k].status # "Failed"
  BY <1>1, <1>2 DEF NothingRecentlyFailed
<1>4. start \in 1..(Len(longer) + 1)
  BY <1>2, TrackerAssumption
<1>5. Remember(<<a>>, "Completed") = SubSeq(longer, start, Len(longer))
  BY DEF Remember
<1> HIDE DEF added, longer, start
<1>6. \A k \in DOMAIN SubSeq(longer, start, Len(longer)) :
        SubSeq(longer, start, Len(longer))[k].status # "Failed"
  BY <1>2, <1>3, <1>4
<1> QED
  BY <1>5, <1>6

\* The sweep at a tick finds nothing.
LEMMA SweepFindsNothing ==
  ASSUME TypeOK, Tracks, pc = "tick", CleanupStale
  PROVE  open' = open /\ history' = history
<1>1. Executing = {}
  BY DEF Executing, Tracks
<1>2. PICK order \in SetToSeqs({}) :
        /\ open' = Without({})
        /\ history' = Remember([k \in 1..Len(order) |-> open[order[k]].action], "Failed")
  BY <1>1 DEF CleanupStale, Sweep
<1>3. order = <<>>
  BY <1>2, FS_EmptySet DEF SetToSeqs
<1>4. history' = Remember(<<>>, "Failed")
  BY <1>2, <1>3
<1>5. Remember(<<>>, "Failed") = history
  BY TrackerAssumption DEF Remember, TypeOK
<1>6. Without({}) = open
  BY DEF Without, TypeOK
<1> QED
  BY <1>2, <1>4, <1>5, <1>6

\* Steps that keep the failed actions and what is counted for a goal.
LEMMA FailuresKept ==
  ASSUME Inv, progress' = progress,
         \A g \in Subject : FailedAbout(g)' = FailedAbout(g)
  PROVE  FailuresStayOpen'
BY DEF Inv, FailuresStayOpen

\* The failed actions are finitely many, and the one being executed is not
\* among them.
LEMMA FailedFinite ==
  ASSUME Inv, NEW g \in Subject
  PROVE  IsFiniteSet(FailedAbout(g))
<1>1. FailedAbout(g) \subseteq 1..MaxActions
  BY DEF Inv, TypeOK, Id, FailedAbout
<1>2. IsFiniteSet(1..MaxActions)
  BY TrackerAssumption, FS_Interval
<1> QED
  BY <1>1, <1>2, FS_Subset

LEMMA InvInit == Init => Inv
<1> SUFFICES ASSUME Init PROVE Inv
  OBVIOUS
<1>1. DOMAIN open = {} /\ open \in [DOMAIN open -> TrackedAction]
  BY DEF Init
<1>2. TypeOK
  BY <1>1, TrackerAssumption DEF Init, TypeOK, GoalProgress
<1>3. Tracks
  BY <1>1 DEF Init, Tracks
<1>4. NoSimilarOpen /\ NothingRecentlyFailed
  BY <1>1 DEF Init, NoSimilarOpen, NothingRecentlyFailed
<1>5. FailuresStayOpen
  <2>1. \A g \in Subject : FailedAbout(g) = {} /\ progress[g].failed = 0
    BY <1>1 DEF FailedAbout, Init
  <2> QED
    BY <2>1, FS_EmptySet DEF FailuresStayOpen
<1> QED
  BY <1>2, <1>3, <1>4, <1>5 DEF Inv

\* The loop looks at its next action, or has come to the end of its plan.
LEMMA InvTick ==
  ASSUME Inv, Tick
  PROVE  Inv'
<1>1. open' = open /\ history' = history
  BY SweepFindsNothing DEF Inv, Tick
<1>2. RecentFailures(history') \subseteq BrainAction
  <2>1. \A k \in DOMAIN history : history[k] \in Closed
    BY DEF Inv, TypeOK
  <2>2. \A k \in DOMAIN history : history[k].action \in BrainAction
    BY <2>1 DEF Closed
  <2> QED
    BY <1>1, <2>2 DEF RecentFailures
<1>3. plan' \in Seq(BrainAction)
  <2>1. PICK k \in 0..MaxPlan : plan' \in [1..k -> BrainAction]
    BY DEF Tick
  <2> QED
    BY <2>1, TrackerAssumption
<1>4. TypeOK'
  BY <1>1, <1>2, <1>3 DEF Inv, TypeOK, Tick
<1>5. Tracks'
  BY <1>1 DEF Inv, Tracks, Tick
<1>6. NoSimilarOpen' /\ NothingRecentlyFailed'
  BY <1>1 DEF Inv, NoSimilarOpen, NothingRecentlyFailed
<1>7. FailuresStayOpen'
  BY <1>1, FailuresKept DEF Tick, FailedAbout
<1> QED
  BY <1>4, <1>5, <1>6, <1>7 DEF Inv

LEMMA InvSkip ==
  ASSUME Inv, Skip \/ EndOfPlan
  PROVE  Inv'
<1>1. UNCHANGED <<open, history, progress, failures, current, tracked>>
  BY DEF Skip, EndOfPlan
<1>2. plan' \in Seq(BrainAction) /\ pc' \in {"tick", "acting"} /\ pc = "acting"
  <2>1. CASE Skip
    BY <2>1 DEF Skip, Inv, TypeOK
  <2>2. CASE EndOfPlan
    BY <2>2 DEF EndOfPlan, Inv, TypeOK
  <2> QED
    BY <2>1, <2>2
<1>3. TypeOK'
  BY <1>1, <1>2 DEF Inv, TypeOK
<1>4. Tracks'
  BY <1>1, <1>2 DEF Inv, Tracks
<1>5. NoSimilarOpen' /\ NothingRecentlyFailed'
  BY <1>1 DEF Inv, NoSimilarOpen, NothingRecentlyFailed
<1>6. FailuresStayOpen'
  BY <1>1, FailuresKept DEF FailedAbout
<1> QED
  BY <1>3, <1>4, <1>5, <1>6 DEF Inv

\* A new action: it is under a new identifier and similar to none.
LEMMA InvExecute ==
  ASSUME Inv, Execute
  PROVE  Inv'
<1> DEFINE new == tracked + 1
           entry == [action |-> Head(plan), status |-> "Executing", retry_count |-> 0]
<1>1. /\ new \in Id /\ new \notin DOMAIN open
      /\ tracked' = new /\ current' = new /\ pc' = "executing" /\ pc = "acting"
      /\ UNCHANGED <<history, progress, plan, failures>>
  BY TrackerAssumption DEF Inv, TypeOK, Tracks, Execute, Id
<1>2. plan # <<>> /\ Head(plan) \in BrainAction
  BY DEF Inv, TypeOK, Execute
<1>3. entry \in TrackedAction
  BY <1>2, TrackerAssumption DEF TrackedAction
<1>4. open' = [j \in DOMAIN open \cup {new} |-> IF j = new THEN entry ELSE open[j]]
  BY DEF Execute, TrackExecuting, With
<1> HIDE DEF entry
<1>5. TypeOK'
  BY <1>1, <1>3, <1>4, TrackerAssumption DEF Inv, TypeOK, Id
<1>6. Tracks'
  BY <1>1, <1>2, <1>4 DEF Inv, TypeOK, Tracks, Id, entry
<1>7. NoSimilarOpen'
  <2>1. \A i \in DOMAIN open : /\ ~ Similar(open[i].action, entry.action)
                              /\ ~ Similar(entry.action, open[i].action)
    BY DEF Execute, Unwanted, HasSimilarPending, Similar, entry
  <2> QED
    BY <1>4, <2>1 DEF Inv, NoSimilarOpen
<1>8. NothingRecentlyFailed'
  BY <1>1 DEF Inv, NothingRecentlyFailed
<1>9. FailuresStayOpen'
  <2>1. \A g \in Subject : FailedAbout(g)' = FailedAbout(g)
    BY <1>1, <1>4 DEF FailedAbout, entry
  <2> QED
    BY <1>1, <2>1, FailuresKept
<1> QED
  BY <1>5, <1>6, <1>7, <1>8, <1>9 DEF Inv

\* The action the loop waits for ends: this is its first failure, if it is one.
LEMMA InvExecuted ==
  ASSUME Inv, Executed
  PROVE  Inv'
<1>1. /\ current \in DOMAIN open /\ open[current] \in TrackedAction
      /\ open[current].action \in BrainAction /\ open[current].retry_count = 0
  BY DEF Inv, TypeOK, Tracks, Executed, TrackedAction
<1>2. /\ pc' = "acting" /\ UNCHANGED <<failures, current, tracked>>
      /\ plan' \in Seq(BrainAction)
  BY DEF Inv, TypeOK, Tracks, Executed
<1>3. progress' \in [Subject -> GoalProgress]
  <2>1. Head(plan) \in BrainAction /\ Head(plan).subject \in Subject
    BY <1>1 DEF Inv, Tracks, Executed, BrainAction
  <2>2. PICK ok \in BOOLEAN : progress' = Counted(Head(plan), ok)
    BY DEF Executed
  <2>3. progress[Head(plan).subject] \in GoalProgress
    BY <2>1 DEF Inv, TypeOK
  <2>4. progress \in [Subject -> GoalProgress]
    BY DEF Inv, TypeOK
  <2>5. progress' = [progress EXCEPT ![Head(plan).subject] = progress'[Head(plan).subject]]
    BY <2>1, <2>2, <2>4 DEF Counted
  <2>6. progress'[Head(plan).subject] \in GoalProgress
    BY <2>1, <2>2, <2>3, <2>4 DEF Counted, GoalProgress
  <2> QED
    BY <2>1, <2>4, <2>5, <2>6
<1> PICK ok \in BOOLEAN : /\ IF ok THEN MarkCompleted(current) ELSE MarkFailed(current)
                         /\ progress' = Counted(Head(plan), ok)
  BY DEF Executed
<1>4. CASE ok
  <2>1. /\ open' = [i \in DOMAIN open \ {current} |-> open[i]]
        /\ history' = Remember(<<open[current].action>>, "Completed")
    BY <1>4 DEF MarkCompleted, Without
  <2>2. history' \in Seq(Closed) /\ Len(history') <= MaxHistory
    <3>1. <<open[current].action>> \in Seq(BrainAction) /\ history \in Seq(Closed)
      BY <1>1 DEF Inv, TypeOK
    <3> HIDE DEF Inv
    <3> QED
      BY <2>1, <3>1, RememberType
  <2>3. TypeOK'
    BY <1>2, <1>3, <2>1, <2>2 DEF Inv, TypeOK
  <2>4. Tracks'
    BY <1>2, <2>1 DEF Inv, Tracks
  <2>5. NoSimilarOpen'
    BY <2>1 DEF Inv, NoSimilarOpen
  <2>6. NothingRecentlyFailed'
    BY <1>1, <2>1, RememberCompleted DEF Inv, TypeOK, NothingRecentlyFailed
  <2>7. FailuresStayOpen'
    <3>1. \A g \in Subject : progress'[g].failed = progress[g].failed
      BY <1>4 DEF Counted, Inv, TypeOK, GoalProgress
    <3>2. \A g \in Subject : FailedAbout(g)' = FailedAbout(g)
      BY <2>1 DEF FailedAbout, Inv, Tracks, Executed
    <3> QED
      BY <3>1, <3>2 DEF Inv, FailuresStayOpen
  <2> QED
    BY <2>3, <2>4, <2>5, <2>6, <2>7 DEF Inv
<1>5. CASE ~ ok
  <2>1. /\ open' = [open EXCEPT ![current].status = "Proposed", ![current].retry_count = 1]
        /\ history' = history
    BY <1>1, <1>5, TrackerAssumption DEF MarkFailed
  <2>2. /\ DOMAIN open' = DOMAIN open
        /\ \A i \in DOMAIN open : i # current => open'[i] = open[i]
        /\ open'[current] = [open[current] EXCEPT !.status = "Proposed", !.retry_count = 1]
    BY <1>1, <2>1 DEF Inv, TypeOK
  <2>3. /\ open'[current] \in TrackedAction
        /\ open'[current].action = open[current].action
        /\ open'[current].status = "Proposed"
    <3>1. 1 \in 0..(MaxRetries - 1)
      BY TrackerAssumption
    <3> DEFINE rec == open[current]
    <3>2. /\ rec.action \in BrainAction
          /\ rec = [action |-> rec.action, status |-> rec.status,
                    retry_count |-> rec.retry_count]
      BY <1>1 DEF TrackedAction
    <3>3. open'[current] = [action |-> rec.action, status |-> "Proposed", retry_count |-> 1]
      BY <2>2, <3>2
    <3> QED
      BY <3>1, <3>2, <3>3 DEF TrackedAction
  <2>4. TypeOK'
    <3>1. open' \in [DOMAIN open' -> TrackedAction]
      <4>1. open \in [DOMAIN open -> TrackedAction]
        BY DEF Inv, TypeOK
      <4>2. \A i \in DOMAIN open : open'[i] \in TrackedAction
        BY <2>2, <2>3, <4>1
      <4>3. open' = [i \in DOMAIN open |-> open'[i]]
        BY <2>1
      <4> QED
        BY <2>2, <4>2, <4>3
    <3> QED
      BY <1>2, <1>3, <2>1, <2>2, <3>1 DEF Inv, TypeOK
  <2>5. Tracks'
    BY <1>2, <2>2, <2>3 DEF Inv, Tracks
  <2>6. NoSimilarOpen'
    <3>1. \A i \in DOMAIN open : open'[i].action = open[i].action
      BY <2>2, <2>3
    <3> QED
      BY <2>2, <3>1 DEF Inv, NoSimilarOpen
  <2>7. NothingRecentlyFailed'
    BY <2>1 DEF Inv, NothingRecentlyFailed
  <2>8. FailuresStayOpen'
    <3> SUFFICES ASSUME NEW g \in Subject
                 PROVE  progress'[g].failed = Cardinality(FailedAbout(g)')
      BY DEF FailuresStayOpen
    <3>1. /\ progress[g] \in GoalProgress
          /\ progress[g].failed = Cardinality(FailedAbout(g))
          /\ IsFiniteSet(FailedAbout(g)) /\ current \notin FailedAbout(g)
          /\ open[current].action = Head(plan)
      BY FailedFinite DEF Inv, TypeOK, FailuresStayOpen, FailedAbout, Tracks, Executed
    <3>2. CASE Head(plan).type = "UpdateGoalProgress" /\ Head(plan).subject = g
      <4>1. FailedAbout(g)' = FailedAbout(g) \cup {current}
        <5>1. /\ current \in DOMAIN open' /\ DOMAIN open' = DOMAIN open
              /\ open'[current].status = "Proposed"
              /\ open'[current].action.type = "UpdateGoalProgress"
              /\ open'[current].action.subject = g
          BY <1>1, <2>2, <2>3, <3>1, <3>2
        <5>2. \A i \in DOMAIN open : i # current => open'[i] = open[i]
          BY <2>2
        <5> QED
          BY <5>1, <5>2 DEF FailedAbout
      <4>2. progress'[g].failed = progress[g].failed + 1
        BY <1>5, <3>1, <3>2 DEF Counted, Inv, TypeOK, GoalProgress
      <4> QED
        BY <3>1, <4>1, <4>2, FS_AddElement
    <3>3. CASE ~ (Head(plan).type = "UpdateGoalProgress" /\ Head(plan).subject = g)
      <4>1. FailedAbout(g)' = FailedAbout(g)
        BY <1>1, <2>2, <2>3, <3>1, <3>3 DEF FailedAbout
      <4>2. progress'[g] = progress[g]
        BY <3>1, <3>3 DEF Counted, Inv, TypeOK
      <4> QED
        BY <3>1, <4>1, <4>2
    <3> QED
      BY <3>2, <3>3
  <2> QED
    BY <2>4, <2>5, <2>6, <2>7, <2>8 DEF Inv
<1> QED
  BY <1>4, <1>5

LEMMA InvStep == Inv /\ [Next]_vars => Inv'
<1> SUFFICES ASSUME Inv, [Next]_vars PROVE Inv'
  OBVIOUS
<1>1. CASE Tick
  BY <1>1, InvTick
<1>2. CASE Skip \/ EndOfPlan
  BY <1>2, InvSkip
<1>3. CASE Execute
  BY <1>3, InvExecute
<1>4. CASE Executed
  BY <1>4, InvExecuted
<1>5. CASE UNCHANGED vars
  BY <1>5 DEF vars, Inv, TypeOK, Tracks, NoSimilarOpen, NothingRecentlyFailed,
              FailuresStayOpen, FailedAbout
<1> QED
  BY <1>1, <1>2, <1>3, <1>4, <1>5 DEF Next

LEMMA InvCorrect == Spec => []Inv
  BY InvInit, InvStep, PTL DEF Spec

\* The types of the variables; in particular no action fails more often than
\* mark_failed allows.
THEOREM TrackerTypeCorrect == Spec => []TypeOK
<1>1. Inv => TypeOK
  BY DEF Inv
<1> QED
  BY <1>1, InvCorrect, PTL

\* The check of the planner loop before track_action is enough: no two similar
\* actions are ever open, for any number of actions, plans and failures.
THEOREM NoSimilarOpenCorrect == Spec => []NoSimilarOpen
<1>1. Inv => NoSimilarOpen
  BY DEF Inv
<1> QED
  BY <1>1, InvCorrect, PTL

\* The planner loop's list of recent failures is always empty: is_recently_failed
\* never has anything to compare with.
THEOREM NothingRecentlyFailedCorrect == Spec => []NothingRecentlyFailed
<1>1. Inv => NothingRecentlyFailed
  BY DEF Inv
<1> QED
  BY <1>1, InvCorrect, PTL

\* A failed action never leaves the tracker: the failures counted for a goal
\* are the open actions about it, so their number grows with every failure.
THEOREM FailuresStayOpenCorrect == Spec => []FailuresStayOpen
<1>1. Inv => FailuresStayOpen
  BY DEF Inv
<1> QED
  BY <1>1, InvCorrect, PTL
=============================================================================

------------------------------ MODULE MCTracker -------------------------------
(***************************************************************************)
(* Small instances of ActionTracker.                                       *)
(***************************************************************************)
EXTENDS ActionTracker

CONSTANTS s1, s2

TwoSubjects == {s1, s2}
OneSubject  == {s1}
\* A variant that is compared and one that is not.
BothKinds   == {"ScheduleTask", "UpdateGoalProgress"}
Compared    == {"ScheduleTask"}

SubjectSymmetry == Permutations(TwoSubjects)
=============================================================================

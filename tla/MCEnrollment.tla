----------------------------- MODULE MCEnrollment ------------------------------
(***************************************************************************)
(* A small instance of Enrollment.                                         *)
(***************************************************************************)
EXTENDS Enrollment, TLC

CONSTANTS t1, t2, a, b, c1, c2

TwoTokens == {t1, t2}
TwoNodes  == {a, b}
TwoCalls  == {c1, c2}

Interchangeable == Permutations(TwoCalls) \cup Permutations(TwoTokens)
                     \cup Permutations(TwoNodes)
=============================================================================

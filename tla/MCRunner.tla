------------------------------- MODULE MCRunner -------------------------------
(***************************************************************************)
(* Instances of Runner for TLC.                                            *)
(***************************************************************************)
EXTENDS Runner, TLC
CONSTANTS p1, p2, t1, t2, t3

\* One pod with two subtasks, one with a single subtask.
TwoPods == p1 :> {t1, t2} @@ p2 :> {t3}
=============================================================================

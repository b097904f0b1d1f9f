------------------------------ MODULE MCTaskGroup ------------------------------
(***************************************************************************)
(* Instances of TaskGroup for TLC.                                         *)
(***************************************************************************)
EXTENDS TaskGroup, TLC

CONSTANTS p1, p2

\* p1 runs three subtasks, two at a time; p2 runs one.
UnevenPods == (p1 :> 3) @@ (p2 :> 1)

\* p1 runs two subtasks, one at a time; p2 runs one.
SmallPods == (p1 :> 2) @@ (p2 :> 1)

===============================================================================

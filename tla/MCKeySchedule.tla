----------------------------- MODULE MCKeySchedule -----------------------------
(***************************************************************************)
(* Instances of KeySchedule for TLC.                                       *)
(***************************************************************************)
EXTENDS KeySchedule

CONSTANTS MaxKeys, MaxLimit, MaxSidecars

\* Limits around the number of keys, and two that do not fit in UintSize.
Limits == 0 .. MaxLimit \cup {UintSize, UintSize + 2}
MCStrategies == [maxPodNum : Limits, maxContainersPerPod : Limits]
MCKeyNums == 0 .. MaxKeys
MCSidecars == 0 .. MaxSidecars
=============================================================================

---------------------------- MODULE DistributedStep ----------------------------
(***************************************************************************)
(* What the distributed run of a step promises, with no word on handlers,  *)
(* groups of subtasks, retries or goroutines: every pod settles once, and  *)
(* delivers a verdict for all of its subtasks, or for none, or breaks the  *)
(* whole run; when all the pods have settled the outcome is decided, by    *)
(* every verdict and no other.                                             *)
(***************************************************************************)
CONSTANTS
  Pods,  \* the pods of the step
  Work   \* Work[p]: the subtasks of pod p

VARIABLES
  settled,  \* the pods that have delivered
  verdict,  \* verdict[t]: "none" until the pod of t has delivered it
  broken,   \* a pod ended with an error that the step cannot report on
  outcome   \* "pending", then "success", "failure", "error" or "aborted"

vars == <<settled, verdict, broken, outcome>>

Tasks == UNION {Work[p] : p \in Pods}

Init ==
  /\ settled = {}
  /\ verdict = [t \in Tasks |-> "none"]
  /\ broken = FALSE
  /\ outcome = "pending"

DeliverAll(p) ==
  /\ \E f \in [Work[p] -> {"success", "failure"}] :
       verdict' = [t \in Tasks |-> IF t \in Work[p] THEN f[t] ELSE verdict[t]]
  /\ UNCHANGED broken

DeliverNone == UNCHANGED <<verdict, broken>>

Break == broken' = TRUE /\ UNCHANGED verdict

Settle(p) ==
  /\ p \notin settled
  /\ settled' = settled \cup {p}
  /\ DeliverAll(p) \/ DeliverNone \/ Break
  /\ UNCHANGED outcome

Verdict ==
  IF broken THEN "aborted"
  ELSE IF \E t \in Tasks : verdict[t] = "none" THEN "error"
  ELSE IF \E t \in Tasks : verdict[t] = "failure" THEN "failure"
  ELSE "success"

Decide ==
  /\ settled = Pods
  /\ outcome = "pending"
  /\ outcome' = Verdict
  /\ UNCHANGED <<settled, verdict, broken>>

Next == Decide \/ \E p \in Pods : Settle(p)

Spec == Init /\ [][Next]_vars
FairSpec == Spec /\ WF_vars(Next)
=============================================================================

------------------------------- MODULE TaskGroup -------------------------------
(***************************************************************************)
(* The distributed run of one step: TaskGroup.Run starts a goroutine for   *)
(* every Task, a Task runs its Kubernetes (or local, or dry-run) Job with  *)
(* retries, and the Job's handler runs the subtasks (the main containers,  *)
(* one per strategy key) in groups of at most maxConcurrentNumPerPod, each *)
(* subtask in a goroutine of its own.  When every Task has returned, the   *)
(* Runner turns the collected results into the report of the test job.     *)
(*                                                                         *)
(* The Job libraries are external: how an attempt of a Job ends is a       *)
(* nondeterministic choice among the outcomes the run mode allows.         *)
(***************************************************************************)
EXTENDS Integers, FiniteSets

CONSTANTS
  Pods,           \* the Tasks the scheduler built: each one is a pod
  SubTaskNum,     \* SubTaskNum[p]: the number of main containers of pod p
  MaxConcurrent,  \* strategy.scheduler.maxConcurrentNumPerPod
  HasStrategy,    \* FALSE: no strategy key, a single group, no OnFinishSubTask
  RunMode,        \* "kubernetes", "local" or "dryrun"
  MaxAttempts     \* attempts the backoff policy of runWithRetry allows

ASSUME PodsAssumption == IsFiniteSet(Pods)
ASSUME SubTaskNumAssumption == SubTaskNum \in [Pods -> Nat]
ASSUME MaxConcurrentAssumption == MaxConcurrent \in Int
ASSUME HasStrategyAssumption == HasStrategy \in BOOLEAN
ASSUME RunModeAssumption == RunMode \in {"kubernetes", "local", "dryrun"}
ASSUME MaxAttemptsAssumption == MaxAttempts \in Nat \ {0}

SubTasksOf(p) == {p} \X (1 .. SubTaskNum[p])
AllSubTasks == UNION {SubTasksOf(p) : p \in Pods}

VARIABLES
  group,      \* TaskGroup.Run: "created", "waiting" (eg.Wait), "returned", "failed"
  phase,      \* phase[p]: where the goroutine of Task p is
  attempt,    \* attempt[p]: calls of t.run so far
  from,       \* from[p]: keys before the current subtask group of p
  sub,        \* sub[t]: where the goroutine of subtask t is
  out,        \* out[t]: the SubTaskResult that goroutine is filling in
  taskResult, \* taskResult[p]: the local TaskResult of the current t.run
  collected,  \* the pods whose TaskResult is in rg.results
  finished,   \* finishedKeyNum, counted by the OnFinishSubTask callback
  report      \* the Result the Runner makes of the group

podVars == <<phase, attempt, from>>
subVars == <<sub, out>>
vars == <<group, phase, attempt, from, sub, out, taskResult, collected,
          finished, report>>

Phases == {"idle", "launching", "handler", "teardown", "backoff",
           "returned", "errored"}
SubPhases == {"waiting", "executing", "copying", "finishing", "finished", "added"}
Statuses == {"success", "failure"}

(***************************************************************************)
(* The outcomes of a Job attempt.  "failedjob" is *kubejob.FailedJob,      *)
(* "retryable" the errors of retryableError, "fatal" any other error.      *)
(***************************************************************************)
BeforeHandler ==
  CASE RunMode = "kubernetes" -> {"failedjob", "retryable", "fatal"}
    [] RunMode = "local"      -> {"fatal"}
    [] RunMode = "dryrun"     -> {}

AfterHandler ==
  CASE RunMode = "kubernetes" -> {"ok", "failedjob", "retryable", "fatal"}
    [] RunMode = "local"      -> {"ok", "fatal"}
    [] RunMode = "dryrun"     -> {"ok"}

\* A dry run executes and copies nothing, and neither call can fail.
MayFail == IF RunMode = "dryrun" THEN {FALSE} ELSE BOOLEAN

NoResult == [err |-> FALSE, artifactErr |-> FALSE, status |-> "success"]
Results == [err : BOOLEAN, artifactErr : BOOLEAN, status : Statuses]
Record(t) == [task |-> t, attempt |-> attempt[t[1]], err |-> out[t].err,
              artifactErr |-> out[t].artifactErr, status |-> out[t].status]
Records == [task : AllSubTasks, attempt : 1 .. MaxAttempts, err : BOOLEAN,
            artifactErr : BOOLEAN, status : Statuses]

NoReport == [status |-> "none", total |-> 0, success |-> 0, failure |-> 0,
             unknown |-> 0]

(***************************************************************************)
(* Subtask groups.  Without a strategy all the subtasks make one group.    *)
(***************************************************************************)
\* Mutant: the comparison with the number of subtasks is the wrong way round.
ConcurrentNumSwapped(p) ==
  IF HasStrategy /\ MaxConcurrent > 0 /\ MaxConcurrent >= SubTaskNum[p]
  THEN MaxConcurrent
  ELSE SubTaskNum[p]

ConcurrentNum(p) ==
  IF HasStrategy /\ MaxConcurrent > 0 /\ MaxConcurrent <= SubTaskNum[p]
  THEN MaxConcurrent
  ELSE SubTaskNum[p]

GroupFrom(p, n) == {t \in SubTasksOf(p) : n < t[2] /\ t[2] <= n + ConcurrentNum(p)}
CurrentGroup(p) == GroupFrom(p, from[p])

Spawn(s, ts) == [t \in AllSubTasks |-> IF t \in ts THEN "executing" ELSE s[t]]

-----------------------------------------------------------------------------
Init ==
  /\ group = "created"
  /\ phase = [p \in Pods |-> "idle"]
  /\ attempt = [p \in Pods |-> 0]
  /\ from = [p \in Pods |-> 0]
  /\ sub = [t \in AllSubTasks |-> "waiting"]
  /\ out = [t \in AllSubTasks |-> NoResult]
  /\ taskResult = [p \in Pods |-> {}]
  /\ collected = {}
  /\ finished = 0
  /\ report = NoReport

\* TaskGroup.Run: totalSubTaskNum is summed up before any goroutine starts.
RunGroup ==
  /\ group = "created"
  /\ group' = "waiting"
  /\ report' = [NoReport EXCEPT !.total = Cardinality(AllSubTasks)]
  /\ UNCHANGED <<podVars, subVars, taskResult, collected, finished>>

\* Mutant: every attempt starts the backoff policy anew.
LaunchAnew(p) ==
  /\ group = "waiting"
  /\ phase[p] \in {"idle", "backoff"}
  /\ phase' = [phase EXCEPT ![p] = "launching"]
  /\ attempt' = [attempt EXCEPT ![p] = 1]
  /\ from' = [from EXCEPT ![p] = 0]
  /\ taskResult' = [taskResult EXCEPT ![p] = {}]
  /\ sub' = [t \in AllSubTasks |-> IF t[1] = p THEN "waiting" ELSE sub[t]]
  /\ out' = [t \in AllSubTasks |-> IF t[1] = p THEN NoResult ELSE out[t]]
  /\ UNCHANGED <<group, collected, finished, report>>

\* backoff.Continue lets the next attempt start: t.run with a fresh TaskResult.
Launch(p) ==
  /\ group = "waiting"
  /\ phase[p] \in {"idle", "backoff"}
  /\ phase' = [phase EXCEPT ![p] = "launching"]
  /\ attempt' = [attempt EXCEPT ![p] = @ + 1]
  /\ from' = [from EXCEPT ![p] = 0]
  /\ taskResult' = [taskResult EXCEPT ![p] = {}]
  /\ sub' = [t \in AllSubTasks |-> IF t[1] = p THEN "waiting" ELSE sub[t]]
  /\ out' = [t \in AllSubTasks |-> IF t[1] = p THEN NoResult ELSE out[t]]
  /\ UNCHANGED <<group, collected, finished, report>>

\* The Job calls the execution handler, which starts the first group.
EnterHandler(p) ==
  /\ phase[p] = "launching"
  /\ phase' = [phase EXCEPT ![p] = "handler"]
  /\ sub' = Spawn(sub, GroupFrom(p, 0))
  /\ UNCHANGED <<group, attempt, from, out, taskResult, collected, finished, report>>

(***************************************************************************)
(* SubTask.Run, in the goroutine of the subtask.                           *)
(***************************************************************************)
Execute(t) ==
  /\ sub[t] = "executing"
  /\ sub' = [sub EXCEPT ![t] = "copying"]
  /\ \E failed \in MayFail :
       out' = [out EXCEPT ![t].err = failed,
                          ![t].status = IF failed THEN "failure" ELSE "success"]
  /\ UNCHANGED <<group, podVars, taskResult, collected, finished, report>>

\* Mutant: a failed copy of artifacts leaves the status alone.
CopyArtifactQuietly(t) ==
  /\ sub[t] = "copying"
  /\ sub' = [sub EXCEPT ![t] = "finishing"]
  /\ \E failed \in MayFail : out' = [out EXCEPT ![t].artifactErr = failed]
  /\ UNCHANGED <<group, podVars, taskResult, collected, finished, report>>

\* Artifacts are copied whether or not the command succeeded.
CopyArtifact(t) ==
  /\ sub[t] = "copying"
  /\ sub' = [sub EXCEPT ![t] = "finishing"]
  /\ \E failed \in MayFail :
       out' = [out EXCEPT ![t].artifactErr = failed,
                          ![t].status = IF failed THEN "failure" ELSE @]
  /\ UNCHANGED <<group, podVars, taskResult, collected, finished, report>>

\* The deferred function of SubTask.Run: OnFinish counts a finished key.
OnFinish(t) ==
  /\ sub[t] = "finishing"
  /\ sub' = [sub EXCEPT ![t] = "finished"]
  /\ finished' = IF HasStrategy THEN finished + 1 ELSE finished
  /\ UNCHANGED <<group, podVars, out, taskResult, collected, report>>

\* rg.add(task.Run(ctx)); wg.Done()
AddSubTask(t) ==
  /\ sub[t] = "finished"
  /\ sub' = [sub EXCEPT ![t] = "added"]
  /\ UNCHANGED <<group, podVars, out, taskResult, collected, finished, report>>

(***************************************************************************)
(* wg.Wait returns: the group's results join the TaskResult, and the       *)
(* handler starts the next group or returns to the Job.                    *)
(***************************************************************************)
\* Mutant: wg.Add is called in the goroutine, so wg.Wait need not wait.
GroupIsDoneEarly(p) == TRUE

GroupIsDone(p) == \A t \in CurrentGroup(p) : sub[t] = "added"

\* Mutant: a failed subtask ends the handler.
FinishGroupFailFast(p) ==
  LET next == from[p] + ConcurrentNum(p)
  IN /\ phase[p] = "handler"
     /\ GroupIsDone(p)
     /\ taskResult' = [taskResult EXCEPT ![p] = @ \cup {Record(t) : t \in CurrentGroup(p)}]
     /\ from' = [from EXCEPT ![p] = next]
     /\ IF next < SubTaskNum[p] /\ \A t \in CurrentGroup(p) : out[t].status = "success"
        THEN /\ sub' = Spawn(sub, GroupFrom(p, next))
             /\ UNCHANGED phase
        ELSE /\ phase' = [phase EXCEPT ![p] = "teardown"]
             /\ UNCHANGED sub
     /\ UNCHANGED <<group, attempt, out, collected, finished, report>>

FinishGroup(p) ==
  LET next == from[p] + ConcurrentNum(p)
  IN /\ phase[p] = "handler"
     /\ GroupIsDone(p)
     /\ taskResult' = [taskResult EXCEPT ![p] = @ \cup {Record(t) : t \in CurrentGroup(p)}]
     /\ from' = [from EXCEPT ![p] = next]
     /\ IF next < SubTaskNum[p]
        THEN /\ sub' = Spawn(sub, GroupFrom(p, next))
             /\ UNCHANGED phase
        ELSE /\ phase' = [phase EXCEPT ![p] = "teardown"]
             /\ UNCHANGED sub
     /\ UNCHANGED <<group, attempt, out, collected, finished, report>>

(***************************************************************************)
(* An attempt ends.  t.run swallows FailedJob; a retryable error makes a   *)
(* new Job, even when the backoff policy then grants no further attempt.   *)
(***************************************************************************)
Collect(p) ==
  /\ phase' = [phase EXCEPT ![p] = "returned"]
  /\ collected' = collected \cup {p}

FailTask(p) ==
  /\ phase' = [phase EXCEPT ![p] = "errored"]
  /\ UNCHANGED collected

\* Mutant: there is always another attempt.
RetryForever(p) ==
  /\ phase' = [phase EXCEPT ![p] = "backoff"]
  /\ UNCHANGED collected

Retry(p) ==
  /\ attempt[p] < MaxAttempts
  /\ phase' = [phase EXCEPT ![p] = "backoff"]
  /\ UNCHANGED collected

EndAttempt(p, result) ==
  \/ result \in {"ok", "failedjob"} /\ Collect(p)
  \/ result = "fatal" /\ FailTask(p)
  \/ result = "retryable" /\ Retry(p)
  \/ result = "retryable" /\ FailTask(p)  \* createJob fails, or no attempt is left

JobFailsEarly(p) ==
  /\ phase[p] = "launching"
  /\ \E result \in BeforeHandler : EndAttempt(p, result)
  /\ UNCHANGED <<group, attempt, from, subVars, taskResult, finished, report>>

JobEnds(p) ==
  /\ phase[p] = "teardown"
  /\ \E result \in AfterHandler : EndAttempt(p, result)
  /\ UNCHANGED <<group, attempt, from, subVars, taskResult, finished, report>>

(***************************************************************************)
(* eg.Wait returns and the Runner fills in the Result (setByTaskResult).   *)
(***************************************************************************)
Collected == UNION {taskResult[p] : p \in collected}
SuccessNum == Cardinality({r \in Collected : r.status = "success"})
FailureNum == Cardinality({r \in Collected : r.status = "failure"})
GroupStatus == IF \E r \in Collected : r.err \/ r.artifactErr
               THEN "failure" ELSE "success"

\* Mutant: the total is not compared with what was counted.
SetByTaskResultUncounted(total) ==
  [status  |-> GroupStatus,
   total   |-> total,
   success |-> SuccessNum,
   failure |-> FailureNum,
   unknown |-> total - (SuccessNum + FailureNum)]

SetByTaskResult(total) ==
  LET counted == SuccessNum + FailureNum
  IN [status  |-> IF total # counted THEN "error" ELSE GroupStatus,
      total   |-> total,
      success |-> SuccessNum,
      failure |-> FailureNum,
      unknown |-> total - counted]

AllSettled == \A p \in Pods : phase[p] \in {"returned", "errored"}

ReturnResults ==
  /\ group = "waiting"
  /\ AllSettled
  /\ \A p \in Pods : phase[p] # "errored"
  /\ group' = "returned"
  /\ report' = SetByTaskResult(report.total)
  /\ UNCHANGED <<podVars, subVars, taskResult, collected, finished>>

ReturnError ==
  /\ group = "waiting"
  /\ AllSettled
  /\ \E p \in Pods : phase[p] = "errored"
  /\ group' = "failed"
  /\ UNCHANGED <<podVars, subVars, taskResult, collected, finished, report>>

\* The run is over; stuttering keeps TLC from calling it a deadlock.
Done == group \in {"returned", "failed"} /\ UNCHANGED vars

-----------------------------------------------------------------------------
SubTaskStep(t) == Execute(t) \/ CopyArtifact(t) \/ OnFinish(t) \/ AddSubTask(t)
TaskStep(p) == Launch(p) \/ EnterHandler(p) \/ FinishGroup(p)
               \/ JobFailsEarly(p) \/ JobEnds(p)
GroupStep == RunGroup \/ ReturnResults \/ ReturnError

Next ==
  \/ GroupStep
  \/ \E p \in Pods : TaskStep(p)
  \/ \E t \in AllSubTasks : SubTaskStep(t)
  \/ Done

(***************************************************************************)
(* Fairness: goroutines are scheduled, commands and copies end, and a Job  *)
(* ends one way or another (the pending-phase timeout of 10 minutes ends a *)
(* pod that never starts).                                                 *)
(***************************************************************************)
Fairness ==
  /\ WF_vars(GroupStep)
  /\ \A p \in Pods : WF_vars(TaskStep(p))
  /\ \A t \in AllSubTasks : WF_vars(SubTaskStep(t))

Spec == Init /\ [][Next]_vars
FairSpec == Spec /\ Fairness
-----------------------------------------------------------------------------
(***************************************************************************)
(* Properties                                                              *)
(***************************************************************************)

\* Every variable keeps its type.
TypeOK ==
  /\ group \in {"created", "waiting", "returned", "failed"}
  /\ phase \in [Pods -> Phases]
  /\ attempt \in [Pods -> 0 .. MaxAttempts]
  /\ from \in [Pods -> Nat]
  /\ sub \in [AllSubTasks -> SubPhases]
  /\ out \in [AllSubTasks -> Results]
  /\ taskResult \in [Pods -> SUBSET Records]
  /\ collected \subseteq Pods
  /\ finished \in Nat
  /\ report \in [status : {"none", "success", "failure", "error"}, total : Nat,
                 success : Nat, failure : Nat, unknown : Int]

Active(t) == sub[t] \in {"executing", "copying", "finishing", "finished"}

\* No pod ever runs more subtasks at once than maxConcurrentNumPerPod allows
\* (SubTaskScheduler.Schedule cuts the groups, SubTaskGroup.Run waits for them).
ConcurrencyBound ==
  HasStrategy /\ MaxConcurrent > 0 =>
    \A p \in Pods : Cardinality({t \in SubTasksOf(p) : Active(t)}) <= MaxConcurrent

\* The errgroup has no context: when TaskGroup.Run returns, with results or
\* with the error of one Task, no subtask of any pod is still running, and a
\* pod between two attempts or past its last one runs none either.
NoStrayWork ==
  /\ group \in {"returned", "failed"} => AllSettled
  /\ \A t \in AllSubTasks : Active(t) => phase[t[1]] = "handler"

\* What TaskGroup.Run has collected of a pod is what its last attempt recorded:
\* the verdict each goroutine reached, for all subtasks of the pod or (a FailedJob
\* before the handler ran) for none, never for some.  Results of an attempt that
\* was retried are thrown away with it.
ResultsAreFinal ==
  \A p \in collected :
    /\ {r.task : r \in taskResult[p]} \in {{}, SubTasksOf(p)}
    /\ \A r \in taskResult[p] : r.attempt = attempt[p] /\ r = Record(r.task)

Passed(t) ==
  /\ t[1] \in collected
  /\ \E r \in taskResult[t[1]] : r.task = t
  /\ ~out[t].err
  /\ ~out[t].artifactErr

\* The report says "success" exactly if every subtask of every pod was executed
\* and succeeded, artifacts included.  A FailedJob that t.run swallowed leaves
\* subtasks without a result; only the count in setByTaskResult tells.
SuccessReportSound ==
  report.status # "none" =>
    (report.status = "success" <=> \A t \in AllSubTasks : Passed(t))

\* The numbers of a report agree with its status: success, failure and unknown
\* add up to the total, unknown is never negative and is what makes a report
\* an "error", and a "failure" counts at least one failed subtask.
CountsAgree ==
  report.status # "none" =>
    /\ report.success + report.failure + report.unknown = report.total
    /\ report.unknown >= 0
    /\ report.status = "error" <=> report.unknown > 0
    /\ report.status = "failure" <=> report.unknown = 0 /\ report.failure > 0

\* The progress log "%d/%d (%f%%) finished." counts finished keys out of the
\* keys of the step, so it never passes 100% (the code breaks this: a retried
\* attempt counts its keys again).
ProgressWithinTotal == finished <= Cardinality(AllSubTasks)
-----------------------------------------------------------------------------
(***************************************************************************)
(* The inductive invariant of the proofs.                                  *)
(***************************************************************************)

\* How far the attempts of a pod are, by phase.
AttemptInv ==
  \A p \in Pods :
    /\ phase[p] = "idle" <=> attempt[p] = 0
    /\ phase[p] = "backoff" => attempt[p] < MaxAttempts
    /\ group = "created" => phase[p] = "idle"

\* The subtasks of the groups before from[p], of the current group, and after.
DoneOf(p) == {t \in SubTasksOf(p) : t[2] <= from[p]}

GroupInv ==
  \A p \in Pods :
    /\ \A t \in DoneOf(p) : sub[t] = "added"
    /\ phase[p] \in {"idle", "launching"} => from[p] = 0
    /\ phase[p] = "handler" =>
         /\ from[p] = 0 \/ from[p] < SubTaskNum[p]
         /\ \A t \in CurrentGroup(p) : sub[t] # "waiting"
    /\ phase[p] = "handler" =>
         \A t \in SubTasksOf(p) : t[2] > from[p] + ConcurrentNum(p) => sub[t] = "waiting"
    /\ phase[p] # "handler" =>
         /\ from[p] = 0 \/ from[p] >= SubTaskNum[p]
         /\ \A t \in SubTasksOf(p) : t[2] > from[p] => sub[t] = "waiting"

\* What a SubTaskResult holds, by the phase of its goroutine.
OutInv ==
  \A t \in AllSubTasks :
    /\ sub[t] \in {"waiting", "executing"} => out[t] = NoResult
    /\ sub[t] = "copying" => ~out[t].artifactErr
    /\ out[t].status = "failure" <=> out[t].err \/ out[t].artifactErr

\* The TaskResult of a pod holds the results of its finished groups.
ResultInv ==
  /\ \A p \in Pods : taskResult[p] = {Record(t) : t \in DoneOf(p)}
  /\ collected = {p \in Pods : phase[p] = "returned"}

ReportInv ==
  /\ group = "created" => report = NoReport
  /\ group \in {"waiting", "failed"} =>
       report = [NoReport EXCEPT !.total = Cardinality(AllSubTasks)]
  /\ group = "returned" =>
       /\ report = SetByTaskResult(Cardinality(AllSubTasks))
       /\ collected = Pods
  /\ group \in {"returned", "failed"} => AllSettled

IInv == TypeOK /\ AttemptInv /\ GroupInv /\ OutInv /\ ResultInv /\ ReportInv

-----------------------------------------------------------------------------
(***************************************************************************)
(* Why a step ends: what is left to do gets less, of the group, of a pod   *)
(* (attempts before phases before keys) or of a subtask.                   *)
(***************************************************************************)
GroupLeft == CASE group = "created" -> 2
               [] group = "waiting" -> 1
               [] OTHER             -> 0

PhaseLeft(p) == CASE phase[p] = "idle"      -> 5
                  [] phase[p] = "launching" -> 4
                  [] phase[p] = "handler"   -> 3
                  [] phase[p] = "teardown"  -> 2
                  [] phase[p] = "backoff"   -> 1
                  [] OTHER                  -> 0

KeysLeft(p) == IF phase[p] = "handler" THEN SubTaskNum[p] - from[p] ELSE 0

PodLeft(p) == <<MaxAttempts - attempt[p], PhaseLeft(p), KeysLeft(p)>>

SubLeft(t) == CASE sub[t] = "waiting"   -> 5
                [] sub[t] = "executing" -> 4
                [] sub[t] = "copying"   -> 3
                [] sub[t] = "finishing" -> 2
                [] sub[t] = "finished"  -> 1
                [] sub[t] = "added"     -> 0

Lower(v, w) ==
  \/ v[1] < w[1]
  \/ v[1] = w[1] /\ v[2] < w[2]
  \/ v[1] = w[1] /\ v[2] = w[2] /\ v[3] < w[3]

PodAdvances(p) == Lower(PodLeft(p)', PodLeft(p))

Advances ==
  /\ GroupLeft' <= GroupLeft
  /\ \A p \in Pods : /\ PodLeft(p) \in Nat \X Nat \X Nat
                     /\ PodLeft(p)' = PodLeft(p) \/ PodAdvances(p)
  /\ \A t \in AllSubTasks : SubLeft(t)' <= SubLeft(t) \/ PodAdvances(t[1])
  /\ \/ GroupLeft' < GroupLeft
     \/ \E p \in Pods : PodAdvances(p)
     \/ \E t \in AllSubTasks : SubLeft(t)' < SubLeft(t)

\* No pod is retried for ever and no group of subtasks comes again: every step of any
\* goroutine leaves less to do, and none gives another one more to do, except that a pod
\* that goes on may start its subtasks anew.
GroupAdvances == [][Advances]_vars

-----------------------------------------------------------------------------
(***************************************************************************)
(* The refinement of DistributedStep: a pod delivers at the moment its     *)
(* TaskResult is added to the group's results.                             *)
(***************************************************************************)
VerdictOf(t) ==
  LET mine == {r \in taskResult[t[1]] : r.task = t}
  IN IF t[1] \notin collected \/ mine = {} THEN "none"
     ELSE IF \E r \in mine : r.status = "failure" THEN "failure"
     ELSE "success"

Outcome == CASE group = "returned" -> report.status
             [] group = "failed"   -> "aborted"
             [] OTHER              -> "pending"

Step == INSTANCE DistributedStep WITH
  Work    <- [p \in Pods |-> SubTasksOf(p)],
  settled <- {p \in Pods : phase[p] \in {"returned", "errored"}},
  verdict <- [t \in AllSubTasks |-> VerdictOf(t)],
  broken  <- \E p \in Pods : phase[p] = "errored",
  outcome <- Outcome

\* Groups, retries and swallowed errors are invisible from outside: the task
\* group does what DistributedStep promises.
ImplementsDistributedStep == Step!Spec

\* With fair goroutines it also gets to an outcome: every run of a TaskGroup ends,
\* whichever pods fail or are retried.
ImplementsFairDistributedStep == Step!FairSpec
=============================================================================

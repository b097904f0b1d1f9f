--------------------------------- MODULE Runner ---------------------------------
(***************************************************************************)
(* The kubetest command and Runner.Run: options and job file are loaded,   *)
(* the repositories are cloned, the presteps run one after the other, then *)
(* the main step, log and report are written for the poststeps, which run  *)
(* next, artifacts are exported, and the report decides the exit code.  A  *)
(* goroutine turns the first signal into a cancellation.                   *)
(*                                                                         *)
(* The main step is the abstract DistributedStep, which TaskGroup is shown *)
(* to implement.                                                           *)
(***************************************************************************)
EXTENDS Integers

CONSTANTS
  Pods, Work,  \* the pods of the main step and their subtasks
  PreStepNum,  \* len(testjob.Spec.PreSteps)
  PostStepNum  \* len(testjob.Spec.PostSteps)

ASSUME PreStepNumAssumption == PreStepNum \in Nat
ASSUME PostStepNumAssumption == PostStepNum \in Nat

VARIABLES
  stage,      \* what the main goroutine does
  err,        \* the error of Run: "none", "canceled" (by the context) or "other"
  preSteps,   \* presteps gone through so far
  postSteps,  \* and poststeps
  stepVerdict, \* how each pre- and poststep has ended
  settled, verdict, broken, outcome,  \* the main step
  status,     \* result.status
  reportFile, \* the fields in report.json; NoFile until it is written
  printed,    \* the report on stdout
  signal,     \* canceledBySignal and cancel(): "none", "flagged", "canceled"
  exit        \* the exit code; Running until then

stepVars == <<preSteps, postSteps, stepVerdict>>
mainVars == <<settled, verdict, broken, outcome>>
vars == <<stage, err, stepVars, mainVars, status, reportFile, printed, signal, exit>>

Main == INSTANCE DistributedStep

Running == -1
NoFile == {"no file"}
NoReport == "none"

\* Pre- and poststeps by their place in the job.
Steps == ({"pre"} \X (1 .. PreStepNum)) \cup ({"post"} \X (1 .. PostStepNum))
StepVerdicts == {"passed", "empty", "failed"}

\* The exit codes of the command.
ExitSuccess == 0
ExitWithFailureTestJob == 1
ExitWithOtherError == 2
ExitWithFatalError == 3
ExitWithSignal == 4

Init ==
  /\ stage = "options"
  /\ err = "none"
  /\ preSteps = 0
  /\ postSteps = 0
  /\ stepVerdict = [s \in Steps |-> "pending"]
  /\ Main!Init
  /\ status = "none"
  /\ reportFile = NoFile
  /\ printed = NoReport
  /\ signal = "none"
  /\ exit = Running

-----------------------------------------------------------------------------
\* An error other than a cancellation can happen any time, the other kind
\* only when the context has been canceled.
Causes == IF signal = "canceled" THEN {"canceled", "other"} ELSE {"other"}

GoTo(next) == stage' = next /\ UNCHANGED <<err, exit>>
FailTo(next) == stage' = next /\ err' \in Causes /\ UNCHANGED exit

\* parseOpt: --help ends with success, an unknown option with ExitWithOtherError.
ParseOptions ==
  /\ stage = "options"
  /\ \/ GoTo("load")
     \/ /\ stage' = "exited"
        /\ exit' \in {ExitSuccess, ExitWithOtherError}
        /\ UNCHANGED err
  /\ UNCHANGED <<stepVars, mainVars, status, reportFile, printed, signal>>

\* Before Setup has succeeded, nothing is cleaned up: the cluster's configuration
\* and the job are loaded (load), validated (validate), repositories cloned (setup).
Prepare(from, to) ==
  /\ stage = from
  /\ GoTo(to) \/ FailTo("return")
  /\ UNCHANGED <<stepVars, mainVars, status, reportFile, printed, signal>>

(***************************************************************************)
(* A pre- or poststep is built and run, and the results of its main        *)
(* containers are looked through: any error, and any failed result, ends   *)
(* Run.  A FailedJob that Task.run swallows before the results were added  *)
(* leaves none, and there is nothing to look through: the step is "empty", *)
(* its commands may not have run at all, and Run goes on.                  *)
(***************************************************************************)
StepEnds(step, v) == stepVerdict' = [stepVerdict EXCEPT ![step] = v]

\* Mutant: a failed prestep is reported and not returned.
PreStepErrorDropped ==
  /\ stage = "presteps"
  /\ preSteps < PreStepNum
  /\ \E v \in StepVerdicts : StepEnds(<<"pre", preSteps + 1>>, v)
  /\ GoTo("presteps")
  /\ preSteps' = preSteps + 1
  /\ UNCHANGED <<postSteps, mainVars, status, reportFile, printed, signal>>

PreStep ==
  /\ stage = "presteps"
  /\ preSteps < PreStepNum
  /\ \E v \in StepVerdicts :
       /\ StepEnds(<<"pre", preSteps + 1>>, v)
       /\ IF v = "failed"
          THEN FailTo("cleanup") /\ UNCHANGED preSteps
          ELSE GoTo("presteps") /\ preSteps' = preSteps + 1
  /\ UNCHANGED <<postSteps, mainVars, status, reportFile, printed, signal>>

\* Mutant: the last prestep is not waited for.
EndPreStepsEarly ==
  /\ stage = "presteps"
  /\ preSteps >= PreStepNum - 1
  /\ GoTo("schedule")
  /\ UNCHANGED <<stepVars, mainVars, status, reportFile, printed, signal>>

EndPreSteps ==
  /\ stage = "presteps"
  /\ preSteps = PreStepNum
  /\ GoTo("schedule")
  /\ UNCHANGED <<stepVars, mainVars, status, reportFile, printed, signal>>

Schedule ==
  /\ stage = "schedule"
  /\ GoTo("main") \/ FailTo("cleanup")
  /\ UNCHANGED <<stepVars, mainVars, status, reportFile, printed, signal>>

MainStep ==
  /\ stage = "main"
  /\ Main!Next
  /\ UNCHANGED <<stage, err, stepVars, status, reportFile, printed, signal, exit>>

\* taskGroup.Run returns an error, or results for setByTaskResult.
EndMain ==
  /\ stage = "main"
  /\ outcome # "pending"
  /\ IF outcome = "aborted"
     THEN FailTo("cleanup") /\ UNCHANGED status
     ELSE GoTo("log") /\ status' = outcome
  /\ UNCHANGED <<stepVars, mainVars, reportFile, printed, signal>>

WriteLog ==
  /\ stage = "log"
  /\ GoTo("report") \/ FailTo("cleanup")
  /\ UNCHANGED <<stepVars, mainVars, status, reportFile, printed, signal>>

\* json.Marshal(result): encoding/json sees exported fields, and Result has none.
ExportedFields == {}

WriteReport ==
  /\ stage = "report"
  /\ \/ reportFile' = ExportedFields /\ GoTo("poststeps")
     \/ FailTo("cleanup") /\ UNCHANGED reportFile
  /\ UNCHANGED <<stepVars, mainVars, status, printed, signal>>

\* Mutant: the loop leaves out the last poststep.
PostStepButLast ==
  /\ stage = "poststeps"
  /\ postSteps < PostStepNum
  /\ IF postSteps + 1 = PostStepNum
     THEN UNCHANGED stepVerdict
     ELSE \E v \in {"passed", "empty"} : StepEnds(<<"post", postSteps + 1>>, v)
  /\ GoTo("poststeps")
  /\ postSteps' = postSteps + 1
  /\ UNCHANGED <<preSteps, mainVars, status, reportFile, printed, signal>>

PostStep ==
  /\ stage = "poststeps"
  /\ postSteps < PostStepNum
  /\ \E v \in StepVerdicts :
       /\ StepEnds(<<"post", postSteps + 1>>, v)
       /\ IF v = "failed"
          THEN FailTo("cleanup") /\ UNCHANGED postSteps
          ELSE GoTo("poststeps") /\ postSteps' = postSteps + 1
  /\ UNCHANGED <<preSteps, mainVars, status, reportFile, printed, signal>>

EndPostSteps ==
  /\ stage = "poststeps"
  /\ postSteps = PostStepNum
  /\ GoTo("export")
  /\ UNCHANGED <<stepVars, mainVars, status, reportFile, printed, signal>>

Export ==
  /\ stage = "export"
  /\ GoTo("cleanup") \/ FailTo("cleanup")
  /\ UNCHANGED <<stepVars, mainVars, status, reportFile, printed, signal>>

\* defer resourceMgr.Cleanup(): its error is dropped.
Cleanup ==
  /\ stage = "cleanup"
  /\ GoTo("return")
  /\ UNCHANGED <<stepVars, mainVars, status, reportFile, printed, signal>>

(***************************************************************************)
(* Run has returned.  canceledBySignal is a plain variable: only an error  *)
(* that the canceled context caused is sure to see it written.  The report *)
(* is abstracted to its status.                                            *)
(***************************************************************************)
\* Mutant: the goroutine assigns a variable of its own.
CanceledBySignalShadowed == FALSE

CanceledBySignal == signal \in {"flagged", "canceled"}
FlagsRead == IF err = "canceled" THEN {CanceledBySignal} ELSE {FALSE, CanceledBySignal}

ToReport == status

ReturnError ==
  /\ stage = "return"
  /\ err # "none"
  /\ stage' = "exited"
  /\ \E flag \in FlagsRead :
       exit' = IF flag THEN ExitWithSignal ELSE ExitWithFatalError
  /\ UNCHANGED <<err, stepVars, mainVars, status, reportFile, printed, signal>>

PrintReport ==
  /\ stage = "return"
  /\ err = "none"
  /\ printed' = ToReport
  /\ GoTo("output")
  /\ UNCHANGED <<stepVars, mainVars, status, reportFile, signal>>

\* --output may fail; only then the status of the report decides.
EndCommand ==
  /\ stage = "output"
  /\ stage' = "exited"
  /\ exit' \in {ExitWithFatalError,
                IF printed # "success" THEN ExitWithFailureTestJob ELSE ExitSuccess}
  /\ UNCHANGED <<err, stepVars, mainVars, status, reportFile, printed, signal>>

(***************************************************************************)
(* The goroutine that waits for a signal, once: signal.Notify comes just   *)
(* before Run.  A later signal is queued and never read.                   *)
(***************************************************************************)
Receive ==
  /\ stage \notin {"options", "load", "exited"}
  /\ signal = "none"
  /\ signal' = "flagged"
  /\ UNCHANGED <<stage, err, stepVars, mainVars, status, reportFile, printed, exit>>

Cancel ==
  /\ stage # "exited"
  /\ signal = "flagged"
  /\ signal' = "canceled"
  /\ UNCHANGED <<stage, err, stepVars, mainVars, status, reportFile, printed, exit>>

Done == stage = "exited" /\ UNCHANGED vars

RunnerStep ==
  \/ ParseOptions
  \/ Prepare("load", "validate")
  \/ Prepare("validate", "setup")
  \/ Prepare("setup", "presteps")
  \/ PreStep
  \/ EndPreSteps
  \/ Schedule
  \/ MainStep
  \/ EndMain
  \/ WriteLog
  \/ WriteReport
  \/ PostStep
  \/ EndPostSteps
  \/ Export
  \/ Cleanup
  \/ ReturnError
  \/ PrintReport
  \/ EndCommand

Next == RunnerStep \/ Receive \/ Cancel \/ Done

Spec == Init /\ [][Next]_vars

-----------------------------------------------------------------------------
(***************************************************************************)
(* Properties                                                              *)
(***************************************************************************)

Stages == {"options", "load", "validate", "setup", "presteps", "schedule", "main", "log",
           "report", "poststeps", "export", "cleanup", "return", "output", "exited"}
Statuses == {"none", "success", "failure", "error"}

\* Every variable keeps its type.
TypeOK ==
  /\ stage \in Stages
  /\ err \in {"none", "canceled", "other"}
  /\ preSteps \in 0 .. PreStepNum
  /\ postSteps \in 0 .. PostStepNum
  /\ stepVerdict \in [Steps -> StepVerdicts \cup {"pending"}]
  /\ settled \subseteq Pods
  /\ verdict \in [Main!Tasks -> {"none", "success", "failure"}]
  /\ broken \in BOOLEAN
  /\ outcome \in {"pending", "success", "failure", "error", "aborted"}
  /\ status \in Statuses
  /\ reportFile \in {NoFile, ExportedFields}
  /\ printed \in Statuses
  /\ signal \in {"none", "flagged", "canceled"}
  /\ exit \in Running .. ExitWithSignal

AllPassed == \A t \in Main!Tasks : verdict[t] = "success"
\* What Run takes for a step that has passed: it has passed, or has left no result.
Through == {"passed", "empty"}
AllStepsDone == settled = Pods /\ \A s \in Steps : stepVerdict[s] \in Through

\* The exit code tells how the job went: 0 (but for --help) only if every subtask of
\* every pod has passed, 1 only if one has not, and either only after every pre- and
\* poststep has passed, except one whose Job ended in a FailedJob that was swallowed
\* before a result was there: such a step counts as passed, whether or not its
\* commands have run.  A step with a failed result or another error, a broken pod, a
\* signal or an unwritable file is never taken for either.
ExitCodeSound ==
  /\ exit = ExitSuccess /\ printed # NoReport => AllPassed /\ AllStepsDone /\ ~broken
  /\ exit = ExitWithFailureTestJob => ~AllPassed /\ AllStepsDone /\ ~broken

\* The report is printed last: whatever it says of the main step, presteps,
\* poststeps, log, report and export have all gone through Run's checks before.
PrintedReportFinal ==
  printed # NoReport =>
    /\ err = "none"
    /\ AllStepsDone
    /\ printed = outcome
    /\ reportFile # NoFile

\* A run that the signal's cancellation has ended says so with its exit code:
\* the flag is set before the context is canceled.
CanceledExits == err = "canceled" /\ exit # Running => exit = ExitWithSignal

-----------------------------------------------------------------------------
(***************************************************************************)
(* Why the report and the exit code are sound: an inductive invariant.     *)
(***************************************************************************)
BeforeMain == {"options", "load", "validate", "setup", "presteps", "schedule", "main"}
AfterMain == {"log", "report", "poststeps", "export"}

\* Run has got through: what a report may be printed after.
RunComplete ==
  /\ AllStepsDone
  /\ outcome \in {"success", "failure", "error"}
  /\ status = outcome
  /\ reportFile # NoFile

\* The outcome of the main step is final, and follows from the verdicts.
OutcomeInv == outcome # "pending" => settled = Pods /\ outcome = Main!Verdict

\* The loops go through the steps in order, and past none that has failed.
LoopInv ==
  /\ \A n \in 1 .. preSteps : stepVerdict[<<"pre", n>>] \in Through
  /\ \A n \in 1 .. postSteps : stepVerdict[<<"post", n>>] \in Through

\* What has been done when the main goroutine gets to a stage without an error.
StageInv ==
  /\ stage \in BeforeMain \cup AfterMain => err = "none"
  /\ stage \in {"schedule", "main"} \cup AfterMain => preSteps = PreStepNum
  /\ stage \in AfterMain => outcome \in {"success", "failure", "error"} /\ status = outcome
  /\ stage \in {"poststeps", "export"} => reportFile # NoFile
  /\ stage = "export" => postSteps = PostStepNum
  /\ stage \in {"cleanup", "return"} /\ err = "none" => RunComplete

\* A report is printed only in the end, and what it says is the outcome.
PrintInv ==
  /\ stage = "output" => printed # NoReport
  /\ printed # NoReport =>
       /\ stage \in {"output", "exited"}
       /\ err = "none"
       /\ RunComplete
       /\ printed = outcome

\* How each exit code comes about.
ExitInv ==
  /\ exit # Running <=> stage = "exited"
  /\ exit = ExitSuccess /\ printed # NoReport => printed = "success"
  /\ exit = ExitWithFailureTestJob => printed \in {"failure", "error"}

\* A cancellation has come from the signal goroutine.
CancelInv == err = "canceled" => signal = "canceled"

RInv ==
  /\ TypeOK
  /\ OutcomeInv
  /\ LoopInv
  /\ StageInv
  /\ PrintInv
  /\ ExitInv
  /\ CancelInv
  /\ CanceledExits
=============================================================================

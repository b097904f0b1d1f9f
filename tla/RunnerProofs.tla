------------------------------ MODULE RunnerProofs ------------------------------
(***************************************************************************)
(* Theorems about Runner, for every number of pre- and poststeps and every *)
(* distribution of the main step.                                          *)
(***************************************************************************)
EXTENDS Runner, TLAPS

USE PreStepNumAssumption, PostStepNumAssumption

\* The initial state satisfies the invariant.
LEMMA InitRInv == Init => RInv
<1> SUFFICES ASSUME Init PROVE RInv
  OBVIOUS
<1>1. TypeOK
  <2>1. preSteps \in 0 .. PreStepNum /\ postSteps \in 0 .. PostStepNum
    BY DEF Init
  <2>4. stepVerdict \in [Steps -> StepVerdicts \cup {"pending"}]
    BY DEF Init
  <2>2. exit \in Running .. ExitWithSignal
    BY DEF Init, Running, ExitWithSignal
  <2>3. /\ settled \subseteq Pods /\ broken \in BOOLEAN
        /\ verdict \in [Main!Tasks -> {"none", "success", "failure"}]
        /\ outcome \in {"pending", "success", "failure", "error", "aborted"}
    BY DEF Init, Main!Init
  <2> QED BY <2>1, <2>2, <2>3, <2>4 DEF Init, TypeOK, Stages, Statuses, NoReport
<1>2. OutcomeInv /\ LoopInv /\ CancelInv /\ CanceledExits
  BY DEF Init, Main!Init, OutcomeInv, LoopInv, CancelInv, CanceledExits
<1>3. StageInv
  BY DEF Init, StageInv, BeforeMain, AfterMain
<1>4. PrintInv /\ ExitInv
  BY DEF Init, PrintInv, ExitInv, NoReport, Running, ExitSuccess, ExitWithFailureTestJob
<1> QED BY <1>1, <1>2, <1>3, <1>4 DEF RInv

(***************************************************************************)
(* The main step.                                                          *)
(***************************************************************************)

\* The verdict that is computed of the main step is one of its outcomes.
LEMMA VerdictType == Main!Verdict \in {"success", "failure", "error", "aborted"}
BY DEF Main!Verdict

\* A success says that every subtask passed in a pod that did not break; any other
\* verdict of a step that was not broken, that one did not.
LEMMA VerdictMeaning ==
  ASSUME TypeOK
  PROVE  /\ Main!Verdict = "success" => AllPassed /\ ~broken
         /\ Main!Verdict \in {"failure", "error"} => ~AllPassed /\ ~broken
<1>1. \A t \in Main!Tasks : verdict[t] \in {"none", "success", "failure"}
  BY DEF TypeOK
<1> QED BY <1>1 DEF Main!Verdict, AllPassed

\* A step of the pods, or the decision when all have settled.
LEMMA MainStepKeeps ==
  ASSUME RInv, MainStep
  PROVE  RInv'
<1>1. /\ stage = "main" /\ stage' = stage /\ err' = err /\ UNCHANGED stepVars
      /\ status' = status /\ reportFile' = reportFile
      /\ printed' = printed /\ signal' = signal /\ exit' = exit
  BY DEF MainStep
<1>2. settled' \subseteq Pods
  BY DEF MainStep, Main!Next, Main!Decide, Main!Settle, RInv, TypeOK
<1>3. /\ verdict' \in [Main!Tasks -> {"none", "success", "failure"}]
      /\ broken' \in BOOLEAN
  <2>1. CASE Main!Decide
    BY <2>1 DEF Main!Decide, RInv, TypeOK
  <2>2. ASSUME NEW p \in Pods, Main!Settle(p)
        PROVE  /\ verdict' \in [Main!Tasks -> {"none", "success", "failure"}]
               /\ broken' \in BOOLEAN
    <3>1. CASE Main!DeliverAll(p)
      BY <3>1 DEF Main!DeliverAll, RInv, TypeOK
    <3>2. CASE Main!DeliverNone \/ Main!Break
      BY <3>2 DEF Main!DeliverNone, Main!Break, RInv, TypeOK
    <3> QED BY <2>2, <3>1, <3>2 DEF Main!Settle
  <2> QED BY <2>1, <2>2 DEF MainStep, Main!Next
<1>4. outcome' \in {"pending", "success", "failure", "error", "aborted"}
  BY VerdictType DEF MainStep, Main!Next, Main!Decide, Main!Settle, RInv, TypeOK
<1>5. TypeOK' /\ LoopInv'
  BY <1>1, <1>2, <1>3, <1>4 DEF RInv, TypeOK, LoopInv, stepVars
<1>6. OutcomeInv'
  <2>1. CASE Main!Decide
    BY <2>1 DEF Main!Decide, OutcomeInv, Main!Verdict
  <2>2. ASSUME NEW p \in Pods, Main!Settle(p)
        PROVE  OutcomeInv'
    BY <2>2 DEF Main!Settle, RInv, OutcomeInv
  <2> QED BY <2>1, <2>2 DEF MainStep, Main!Next
<1>7. StageInv'
  BY <1>1 DEF RInv, StageInv, BeforeMain, AfterMain, stepVars
<1>8. PrintInv'
  BY <1>1 DEF RInv, PrintInv
<1>9. ExitInv' /\ CancelInv' /\ CanceledExits'
  BY <1>1 DEF RInv, ExitInv, CancelInv, CanceledExits
<1> QED BY <1>5, <1>6, <1>7, <1>8, <1>9 DEF RInv

(***************************************************************************)
(* The main goroutine.                                                     *)
(***************************************************************************)

\* Before the command is over, no step of the main goroutine prints, exits or touches
\* the main step: what is left to show is where it goes to.
LEMMA GoesOn ==
  ASSUME RInv, TypeOK', LoopInv', StageInv',
         stage \notin {"output", "exited"}, stage' \notin {"output", "exited"},
         UNCHANGED <<mainVars, printed, signal, exit>>,
         err' = err \/ err' \in Causes
  PROVE  RInv'
<1>1. OutcomeInv'
  BY DEF RInv, OutcomeInv, mainVars, stepVars, Main!Verdict
<1>2. printed = NoReport /\ exit = Running
  BY DEF RInv, TypeOK, Stages, PrintInv, ExitInv
<1>3. PrintInv'
  BY <1>2 DEF PrintInv
<1>4. ExitInv' /\ CanceledExits'
  BY <1>2 DEF ExitInv, CanceledExits, Running, ExitSuccess, ExitWithFailureTestJob
<1>5. CancelInv'
  BY DEF RInv, CancelInv, Causes
<1> QED BY <1>1, <1>3, <1>4, <1>5 DEF RInv

\* An error of Run is a cancellation or another error.
LEMMA CausesType == Causes \subseteq {"canceled", "other"}
BY DEF Causes

\* The next step of a loop has ended; the counter moves only past one that is through.
LEMMA LoopGoesOn ==
  ASSUME TypeOK, LoopInv, NEW v \in StepVerdicts,
         \/ /\ preSteps < PreStepNum /\ StepEnds(<<"pre", preSteps + 1>>, v)
            /\ preSteps' = preSteps \/ (v # "failed" /\ preSteps' = preSteps + 1)
            /\ postSteps' = postSteps
         \/ /\ postSteps < PostStepNum /\ StepEnds(<<"post", postSteps + 1>>, v)
            /\ postSteps' = postSteps \/ (v # "failed" /\ postSteps' = postSteps + 1)
            /\ preSteps' = preSteps
  PROVE  LoopInv'
<1>1. /\ preSteps \in 0 .. PreStepNum /\ postSteps \in 0 .. PostStepNum
      /\ stepVerdict \in [Steps -> StepVerdicts \cup {"pending"}]
  BY DEF TypeOK
<1>2. /\ \A n \in 1 .. PreStepNum : <<"pre", n>> \in Steps
      /\ \A n \in 1 .. PostStepNum : <<"post", n>> \in Steps
  BY DEF Steps
<1>3. v # "failed" => v \in Through
  BY DEF StepVerdicts, Through
<1>4. CASE /\ preSteps < PreStepNum /\ StepEnds(<<"pre", preSteps + 1>>, v)
           /\ preSteps' = preSteps \/ (v # "failed" /\ preSteps' = preSteps + 1)
           /\ postSteps' = postSteps
  <2>1. <<"pre", preSteps + 1>> \in Steps /\ stepVerdict'[<<"pre", preSteps + 1>>] = v
    BY <1>1, <1>2, <1>4 DEF StepEnds
  <2>2. \A n \in 1 .. preSteps : stepVerdict'[<<"pre", n>>] \in Through
    <3> SUFFICES ASSUME NEW n \in 1 .. preSteps
                 PROVE  stepVerdict'[<<"pre", n>>] = stepVerdict[<<"pre", n>>]
      BY DEF LoopInv
    <3>1. <<"pre", n>> # <<"pre", preSteps + 1>> /\ <<"pre", n>> \in Steps
      BY <1>1, <1>2
    <3> QED BY <1>1, <1>4, <3>1 DEF StepEnds
  <2>3. \A n \in 1 .. postSteps : stepVerdict'[<<"post", n>>] \in Through
    <3> SUFFICES ASSUME NEW n \in 1 .. postSteps
                 PROVE  stepVerdict'[<<"post", n>>] = stepVerdict[<<"post", n>>]
      BY DEF LoopInv
    <3>1. <<"post", n>> # <<"pre", preSteps + 1>> /\ <<"post", n>> \in Steps
      BY <1>1, <1>2
    <3> QED BY <1>1, <1>4, <3>1 DEF StepEnds
  <2> QED BY <1>1, <1>3, <1>4, <2>1, <2>2, <2>3 DEF LoopInv
<1>5. CASE /\ postSteps < PostStepNum /\ StepEnds(<<"post", postSteps + 1>>, v)
           /\ postSteps' = postSteps \/ (v # "failed" /\ postSteps' = postSteps + 1)
           /\ preSteps' = preSteps
  <2>1. <<"post", postSteps + 1>> \in Steps /\ stepVerdict'[<<"post", postSteps + 1>>] = v
    BY <1>1, <1>2, <1>5 DEF StepEnds
  <2>2. \A n \in 1 .. postSteps : stepVerdict'[<<"post", n>>] \in Through
    <3> SUFFICES ASSUME NEW n \in 1 .. postSteps
                 PROVE  stepVerdict'[<<"post", n>>] = stepVerdict[<<"post", n>>]
      BY DEF LoopInv
    <3>1. <<"post", n>> # <<"post", postSteps + 1>> /\ <<"post", n>> \in Steps
      BY <1>1, <1>2
    <3> QED BY <1>1, <1>5, <3>1 DEF StepEnds
  <2>3. \A n \in 1 .. preSteps : stepVerdict'[<<"pre", n>>] \in Through
    <3> SUFFICES ASSUME NEW n \in 1 .. preSteps
                 PROVE  stepVerdict'[<<"pre", n>>] = stepVerdict[<<"pre", n>>]
      BY DEF LoopInv
    <3>1. <<"pre", n>> # <<"post", postSteps + 1>> /\ <<"pre", n>> \in Steps
      BY <1>1, <1>2
    <3> QED BY <1>1, <1>5, <3>1 DEF StepEnds
  <2> QED BY <1>1, <1>3, <1>5, <2>1, <2>2, <2>3 DEF LoopInv
<1> QED BY <1>4, <1>5

\* When both loops have ended, every step is through.
LEMMA LoopsDone ==
  ASSUME LoopInv, preSteps = PreStepNum, postSteps = PostStepNum
  PROVE  \A s \in Steps : stepVerdict[s] \in Through
BY DEF LoopInv, Steps

\* Before the main step: options, loading, validation, setup, presteps, scheduling.
LEMMA PrepareKeeps ==
  ASSUME RInv,
         \/ Prepare("load", "validate") \/ Prepare("validate", "setup")
         \/ Prepare("setup", "presteps") \/ PreStep \/ EndPreSteps \/ Schedule
  PROVE  RInv'
<1>1. /\ UNCHANGED <<mainVars, printed, signal, exit>>
      /\ err' = err \/ err' \in Causes
      /\ stage \in BeforeMain /\ stage \notin {"options", "main"}
      /\ UNCHANGED <<postSteps, status, reportFile>>
      /\ PreStep \/ UNCHANGED stepVars
  BY DEF Prepare, PreStep, EndPreSteps, Schedule, GoTo, FailTo, BeforeMain, stepVars
<1>2. TypeOK'
  <2>1. /\ preSteps' \in 0 .. PreStepNum
        /\ stepVerdict' \in [Steps -> StepVerdicts \cup {"pending"}]
    BY <1>1 DEF RInv, TypeOK, PreStep, StepEnds, stepVars
  <2>2. stage' \in Stages
    BY DEF Prepare, PreStep, EndPreSteps, Schedule, GoTo, FailTo, Stages
  <2> QED BY <1>1, <2>1, <2>2, CausesType DEF RInv, TypeOK, mainVars, stepVars
<1>3. StageInv'
  <2>1. CASE \/ Prepare("load", "validate") \/ Prepare("validate", "setup")
             \/ Prepare("setup", "presteps")
    BY <2>1, <1>1, CausesType DEF Prepare, RInv, TypeOK, StageInv, GoTo, FailTo, BeforeMain, AfterMain
  <2>2. CASE PreStep
    BY <2>2, <1>1, CausesType DEF PreStep, RInv, TypeOK, StageInv, GoTo, FailTo, BeforeMain, AfterMain
  <2>3. CASE EndPreSteps \/ Schedule
    BY <2>3, <1>1, CausesType DEF EndPreSteps, Schedule, RInv, TypeOK, StageInv, GoTo, FailTo, stepVars,
                            BeforeMain, AfterMain
  <2> QED BY <2>1, <2>2, <2>3
<1>4. stage' \notin {"output", "exited"} /\ stage \notin {"output", "exited"}
  BY <1>1 DEF Prepare, PreStep, EndPreSteps, Schedule, GoTo, FailTo, BeforeMain
<1>5. LoopInv'
  <2>1. CASE UNCHANGED stepVars
    BY <2>1 DEF RInv, LoopInv, stepVars
  <2>2. CASE PreStep
    <3>1. TypeOK /\ LoopInv /\ postSteps' = postSteps /\ preSteps < PreStepNum
      BY <2>2 DEF RInv, PreStep
    <3>2. PICK v \in StepVerdicts :
            /\ StepEnds(<<"pre", preSteps + 1>>, v)
            /\ preSteps' = preSteps \/ (v # "failed" /\ preSteps' = preSteps + 1)
      BY <2>2 DEF PreStep
    <3> QED BY <3>1, <3>2, LoopGoesOn
  <2> QED BY <1>1, <2>1, <2>2
<1> QED BY <1>1, <1>2, <1>3, <1>4, <1>5, GoesOn

\* From the end of the main step to the export.
LEMMA FinishKeeps ==
  ASSUME RInv, EndMain \/ WriteLog \/ WriteReport \/ PostStep \/ EndPostSteps
  PROVE  RInv'
<1>1. /\ UNCHANGED <<mainVars, printed, signal, exit>>
      /\ err' = err \/ err' \in Causes
      /\ stage \notin {"output", "exited"} /\ stage' \notin {"output", "exited"}
      /\ PostStep \/ UNCHANGED stepVars
  BY DEF EndMain, WriteLog, WriteReport, PostStep, EndPostSteps, GoTo, FailTo
<1>2. TypeOK'
  <2>1. /\ preSteps' \in 0 .. PreStepNum /\ postSteps' \in 0 .. PostStepNum
        /\ stepVerdict' \in [Steps -> StepVerdicts \cup {"pending"}]
    BY <1>1 DEF RInv, TypeOK, PostStep, StepEnds, stepVars
  <2>2. stage' \in Stages
    BY DEF EndMain, WriteLog, WriteReport, PostStep, EndPostSteps, GoTo, FailTo, Stages
  <2>3. status' \in Statuses /\ reportFile' \in {NoFile, ExportedFields}
    BY DEF RInv, TypeOK, EndMain, WriteLog, WriteReport, PostStep, EndPostSteps, Statuses
  <2> QED BY <1>1, <2>1, <2>2, <2>3, CausesType DEF RInv, TypeOK, mainVars, stepVars
<1>3. StageInv'
  <2>1. CASE EndMain
    BY <2>1, CausesType DEF EndMain, RInv, TypeOK, StageInv, GoTo, FailTo, mainVars, stepVars, BeforeMain, AfterMain
  <2>2. CASE WriteLog
    BY <2>2, CausesType DEF WriteLog, RInv, TypeOK, StageInv, GoTo, FailTo, mainVars, stepVars, BeforeMain, AfterMain
  <2>3. CASE WriteReport
    BY <2>3, CausesType DEF WriteReport, RInv, TypeOK, StageInv, GoTo, FailTo, mainVars, stepVars, BeforeMain,
                            AfterMain, NoFile, ExportedFields
  <2>4. CASE PostStep
    BY <2>4, CausesType DEF PostStep, RInv, TypeOK, StageInv, GoTo, FailTo, mainVars, stepVars, BeforeMain, AfterMain
  <2>5. CASE EndPostSteps
    BY <2>5 DEF EndPostSteps, RInv, TypeOK, StageInv, GoTo, mainVars, stepVars, BeforeMain, AfterMain
  <2> QED BY <2>1, <2>2, <2>3, <2>4, <2>5
<1>4. LoopInv'
  <2>1. CASE UNCHANGED stepVars
    BY <2>1 DEF RInv, LoopInv, stepVars
  <2>2. CASE PostStep
    <3>1. TypeOK /\ LoopInv /\ preSteps' = preSteps /\ postSteps < PostStepNum
      BY <2>2 DEF RInv, PostStep
    <3>2. PICK v \in StepVerdicts :
            /\ StepEnds(<<"post", postSteps + 1>>, v)
            /\ postSteps' = postSteps \/ (v # "failed" /\ postSteps' = postSteps + 1)
      BY <2>2 DEF PostStep
    <3> QED BY <3>1, <3>2, LoopGoesOn
  <2> QED BY <1>1, <2>1, <2>2
<1> QED BY <1>1, <1>2, <1>3, <1>4, GoesOn

\* Export and Cleanup: an export without an error is the last thing a report waits for.
LEMMA EndRunKeeps ==
  ASSUME RInv, Export \/ Cleanup
  PROVE  RInv'
<1>1. /\ UNCHANGED <<mainVars, printed, signal, exit, stepVars, status, reportFile>>
      /\ err' = err \/ err' \in Causes
      /\ stage \notin {"output", "exited"} /\ stage' \in {"cleanup", "return"}
  BY DEF Export, Cleanup, GoTo, FailTo
<1>2. TypeOK'
  BY <1>1, CausesType DEF RInv, TypeOK, mainVars, stepVars, Stages
<1>3. err' = "none" => RunComplete
  <2>1. CASE Export
    <3>1. /\ preSteps = PreStepNum /\ postSteps = PostStepNum /\ reportFile # NoFile
          /\ outcome \in {"success", "failure", "error"} /\ status = outcome
      BY <2>1 DEF Export, RInv, StageInv, AfterMain
    <3>2. settled = Pods
      BY <3>1 DEF RInv, OutcomeInv
    <3>3. \A s \in Steps : stepVerdict[s] \in Through
      BY <3>1, LoopsDone DEF RInv
    <3> QED BY <3>1, <3>2, <3>3 DEF RunComplete, AllStepsDone
  <2>2. CASE Cleanup
    BY <2>2 DEF Cleanup, GoTo, RInv, StageInv
  <2> QED BY <2>1, <2>2
<1>4. StageInv'
  BY <1>1, <1>3 DEF StageInv, RunComplete, AllStepsDone, BeforeMain, AfterMain, mainVars, stepVars
<1>5. LoopInv'
  BY <1>1 DEF RInv, LoopInv, stepVars
<1> QED BY <1>1, <1>2, <1>4, <1>5, GoesOn

(***************************************************************************)
(* The ends of the command.                                                *)
(***************************************************************************)

\* --help and unknown options.
LEMMA ParseOptionsKeeps ==
  ASSUME RInv, ParseOptions
  PROVE  RInv'
<1>1. /\ stage = "options" /\ err = "none" /\ printed = NoReport /\ exit = Running
      /\ UNCHANGED <<stepVars, mainVars, status, reportFile, printed, signal, err>>
  BY DEF ParseOptions, RInv, StageInv, BeforeMain, PrintInv, ExitInv, GoTo
<1>2. \/ stage' = "load" /\ exit' = exit
      \/ stage' = "exited" /\ exit' \in {ExitSuccess, ExitWithOtherError}
  BY DEF ParseOptions, GoTo
<1>3. TypeOK'
  BY <1>1, <1>2 DEF RInv, TypeOK, mainVars, stepVars, Stages, Running, ExitWithSignal, ExitSuccess, ExitWithOtherError
<1>4. OutcomeInv' /\ LoopInv' /\ CancelInv' /\ CanceledExits'
  BY <1>1 DEF RInv, OutcomeInv, LoopInv, CancelInv, CanceledExits, mainVars, stepVars, Main!Verdict
<1>5. StageInv'
  BY <1>1, <1>2 DEF StageInv, BeforeMain, AfterMain
<1>6. PrintInv' /\ ExitInv'
  BY <1>1, <1>2 DEF PrintInv, ExitInv, Running, ExitSuccess, ExitWithOtherError, ExitWithFailureTestJob
<1> QED BY <1>3, <1>4, <1>5, <1>6 DEF RInv

\* Run has returned an error: a cancellation is certain to see the signal's flag.
LEMMA ReturnErrorKeeps ==
  ASSUME RInv, ReturnError
  PROVE  RInv'
<1>1. /\ stage = "return" /\ stage' = "exited" /\ err # "none" /\ printed = NoReport
      /\ UNCHANGED <<err, stepVars, mainVars, status, reportFile, printed, signal>>
  BY DEF ReturnError, RInv, PrintInv
<1>2. exit' \in {ExitWithSignal, ExitWithFatalError}
  BY DEF ReturnError
<1>3. err = "canceled" => exit' = ExitWithSignal
  BY DEF ReturnError, FlagsRead, CanceledBySignal, RInv, CancelInv
<1>4. TypeOK'
  BY <1>1, <1>2 DEF RInv, TypeOK, mainVars, stepVars, Stages, Running, ExitWithSignal, ExitWithFatalError
<1>5. OutcomeInv' /\ LoopInv' /\ CancelInv' /\ CanceledExits'
  BY <1>1, <1>3 DEF RInv, OutcomeInv, LoopInv, CancelInv, CanceledExits, mainVars, stepVars, Main!Verdict
<1>6. StageInv'
  BY <1>1 DEF StageInv, BeforeMain, AfterMain
<1>7. PrintInv' /\ ExitInv'
  BY <1>1, <1>2 DEF PrintInv, ExitInv, Running, ExitSuccess, ExitWithSignal, ExitWithFatalError,
                    ExitWithFailureTestJob
<1> QED BY <1>4, <1>5, <1>6, <1>7 DEF RInv

\* Run has returned a result.
LEMMA PrintReportKeeps ==
  ASSUME RInv, PrintReport
  PROVE  RInv'
<1>1. /\ stage = "return" /\ stage' = "output" /\ err = "none"
      /\ UNCHANGED <<err, exit, stepVars, mainVars, status, reportFile, signal>>
      /\ printed' = status
  BY DEF PrintReport, GoTo, ToReport
<1>2. RunComplete /\ exit = Running
  BY <1>1 DEF RInv, StageInv, ExitInv
<1>3. RunComplete'
  BY <1>1, <1>2 DEF RunComplete, AllStepsDone, mainVars, stepVars
<1>4. printed' = outcome' /\ printed' # NoReport
  BY <1>1, <1>2 DEF RunComplete, mainVars, stepVars, NoReport
<1>5. TypeOK'
  BY <1>1 DEF RInv, TypeOK, mainVars, stepVars, Stages
<1>6. OutcomeInv' /\ LoopInv' /\ CancelInv' /\ CanceledExits'
  BY <1>1 DEF RInv, OutcomeInv, LoopInv, CancelInv, CanceledExits, mainVars, stepVars, Main!Verdict
<1>7. StageInv'
  BY <1>1 DEF StageInv, BeforeMain, AfterMain
<1>8. PrintInv' /\ ExitInv'
  BY <1>1, <1>2, <1>3, <1>4 DEF PrintInv, ExitInv, Running, ExitSuccess, ExitWithFailureTestJob
<1> QED BY <1>5, <1>6, <1>7, <1>8 DEF RInv

\* The status of the report decides.
LEMMA EndCommandKeeps ==
  ASSUME RInv, EndCommand
  PROVE  RInv'
<1>1. /\ stage = "output" /\ stage' = "exited"
      /\ UNCHANGED <<err, stepVars, mainVars, status, reportFile, printed, signal>>
  BY DEF EndCommand
<1>2. /\ printed # NoReport /\ err = "none" /\ RunComplete /\ printed = outcome
  BY <1>1 DEF RInv, PrintInv
<1>3. /\ exit' \in {ExitWithFatalError, ExitWithFailureTestJob, ExitSuccess}
      /\ exit' = ExitSuccess => printed = "success"
      /\ exit' = ExitWithFailureTestJob => printed # "success"
  BY DEF EndCommand, ExitWithFatalError, ExitWithFailureTestJob, ExitSuccess
<1>4. TypeOK'
  BY <1>1, <1>3 DEF RInv, TypeOK, mainVars, stepVars, Stages, Running, ExitWithSignal, ExitWithFatalError,
                    ExitWithFailureTestJob, ExitSuccess
<1>5. OutcomeInv' /\ LoopInv' /\ CancelInv' /\ CanceledExits'
  BY <1>1, <1>2 DEF RInv, OutcomeInv, LoopInv, CancelInv, CanceledExits, mainVars, stepVars, Main!Verdict
<1>6. StageInv'
  BY <1>1 DEF StageInv, BeforeMain, AfterMain
<1>7. PrintInv'
  BY <1>1, <1>2 DEF PrintInv, RunComplete, AllStepsDone, mainVars, stepVars
<1>8. ExitInv'
  <2>1. exit' # Running
    BY <1>3 DEF Running, ExitWithFatalError, ExitWithFailureTestJob, ExitSuccess
  <2>2. printed \in {"success", "failure", "error"}
    BY <1>2 DEF RunComplete
  <2> QED BY <1>1, <1>3, <2>1, <2>2 DEF ExitInv
<1> QED BY <1>4, <1>5, <1>6, <1>7, <1>8 DEF RInv

(***************************************************************************)
(* All steps.                                                              *)
(***************************************************************************)

\* The signal goroutine sets the flag, then cancels.
LEMMA SignalKeeps ==
  ASSUME RInv, Receive \/ Cancel
  PROVE  RInv'
<1>1. /\ UNCHANGED <<stage, err, stepVars, mainVars, status, reportFile, printed, exit>>
      /\ signal' \in {"flagged", "canceled"}
      /\ signal # "canceled"
  BY DEF Receive, Cancel
<1>2. TypeOK' /\ OutcomeInv' /\ LoopInv'
  BY <1>1 DEF RInv, TypeOK, OutcomeInv, LoopInv, mainVars, stepVars, Main!Verdict
<1>3. StageInv'
  BY <1>1 DEF RInv, StageInv, RunComplete, AllStepsDone, mainVars, stepVars
<1>4. PrintInv'
  BY <1>1 DEF RInv, PrintInv, RunComplete, AllStepsDone, mainVars, stepVars
<1>5. ExitInv' /\ CancelInv' /\ CanceledExits'
  BY <1>1 DEF RInv, ExitInv, CancelInv, CanceledExits
<1> QED BY <1>2, <1>3, <1>4, <1>5 DEF RInv

\* A stuttering step.
LEMMA StutterKeeps ==
  ASSUME RInv, UNCHANGED vars
  PROVE  RInv'
<1>1. UNCHANGED <<stage, err, preSteps, postSteps, stepVerdict, settled, verdict, broken, outcome, status,
                  reportFile, printed, signal, exit>>
  BY DEF vars, mainVars, stepVars
<1>2. TypeOK' /\ OutcomeInv' /\ LoopInv'
  BY <1>1 DEF RInv, TypeOK, OutcomeInv, LoopInv, Main!Verdict
<1>3. StageInv' /\ PrintInv'
  BY <1>1 DEF RInv, StageInv, PrintInv, RunComplete, AllStepsDone
<1>4. ExitInv' /\ CancelInv' /\ CanceledExits'
  BY <1>1 DEF RInv, ExitInv, CancelInv, CanceledExits
<1> QED BY <1>2, <1>3, <1>4 DEF RInv

\* RInv is invariant: whatever fails and whenever the signal comes.
THEOREM Invariance == Spec => []RInv
<1>1. Init => RInv
  BY InitRInv
<1>2. RInv /\ [Next]_vars => RInv'
  BY MainStepKeeps, PrepareKeeps, FinishKeeps, EndRunKeeps, ParseOptionsKeeps, ReturnErrorKeeps,
     PrintReportKeeps, EndCommandKeeps, SignalKeeps, StutterKeeps, Zenon
     DEF Next, RunnerStep, Done
<1> QED BY <1>1, <1>2, PTL DEF Spec

\* Every variable keeps its type.
THEOREM TypeCorrect == Spec => []TypeOK
BY Invariance, PTL DEF RInv

\* Exit code 0 means that every subtask passed, 1 that one did not, and both that no pre-
\* or poststep has failed: each has passed or left no result at all.
THEOREM ExitCodeIsSound == Spec => []ExitCodeSound
<1>1. RInv => ExitCodeSound
  <2> SUFFICES ASSUME RInv PROVE ExitCodeSound
    OBVIOUS
  <2>1. ASSUME printed # NoReport
        PROVE  AllStepsDone /\ Main!Verdict = printed
    BY <2>1 DEF RInv, PrintInv, RunComplete, OutcomeInv
  <2>2. CASE exit = ExitSuccess /\ printed # NoReport
    <3>1. printed = "success"
      BY <2>2 DEF RInv, ExitInv
    <3>2. AllPassed /\ AllStepsDone /\ ~broken
      BY <2>1, <2>2, <3>1, VerdictMeaning DEF RInv
    <3> QED BY <2>2, <3>2 DEF ExitCodeSound, ExitSuccess, ExitWithFailureTestJob
  <2>3. CASE exit = ExitWithFailureTestJob
    <3>1. printed \in {"failure", "error"}
      BY <2>3 DEF RInv, ExitInv
    <3>2. ~AllPassed /\ AllStepsDone /\ ~broken
      BY <2>1, <3>1, VerdictMeaning DEF RInv, NoReport
    <3> QED BY <2>3, <3>2 DEF ExitCodeSound, ExitSuccess, ExitWithFailureTestJob
  <2> QED BY <2>2, <2>3 DEF ExitCodeSound
<1> QED BY <1>1, Invariance, PTL

\* The report is printed last, and says what came out of the main step.
THEOREM ReportIsFinal == Spec => []PrintedReportFinal
<1>1. RInv => PrintedReportFinal
  BY DEF RInv, PrintInv, RunComplete, PrintedReportFinal
<1> QED BY <1>1, Invariance, PTL

\* A canceled run exits with the code of a signal.
THEOREM CanceledRunSaysSo == Spec => []CanceledExits
BY Invariance, PTL DEF RInv
=============================================================================

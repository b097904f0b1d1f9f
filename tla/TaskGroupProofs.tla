---------------------------- MODULE TaskGroupProofs ----------------------------
(***************************************************************************)
(* Theorems about TaskGroup, for every set of pods, number of subtasks,    *)
(* concurrency limit, run mode and number of attempts.                     *)
(***************************************************************************)
EXTENDS TaskGroup, FiniteSetTheorems, TLAPS

USE PodsAssumption, SubTaskNumAssumption, MaxConcurrentAssumption,
    HasStrategyAssumption, RunModeAssumption, MaxAttemptsAssumption

(***************************************************************************)
(* Facts about the constants.                                              *)
(***************************************************************************)

\* A subtask is a pair of a pod and an index within that pod.
LEMMA SubTaskFacts ==
  /\ \A t \in AllSubTasks : /\ t[1] \in Pods
                            /\ t[2] \in 1 .. SubTaskNum[t[1]]
                            /\ t[2] \in Nat
                            /\ t \in SubTasksOf(t[1])
  /\ \A p \in Pods : \A t \in SubTasksOf(p) : t \in AllSubTasks /\ t[1] = p
BY DEF AllSubTasks, SubTasksOf

\* A subtask group is never empty unless the pod has no subtask, and never
\* larger than the limit.
LEMMA ConcurrentNumFacts ==
  \A p \in Pods :
    /\ SubTaskNum[p] \in Nat
    /\ ConcurrentNum(p) \in Nat
    /\ ConcurrentNum(p) <= SubTaskNum[p]
    /\ SubTaskNum[p] > 0 => ConcurrentNum(p) > 0
    /\ HasStrategy /\ MaxConcurrent > 0 => ConcurrentNum(p) <= MaxConcurrent
BY DEF ConcurrentNum

\* There are finitely many subtasks, so they can be counted.
LEMMA AllSubTasksFinite == IsFiniteSet(AllSubTasks)
<1> DEFINE All == {SubTasksOf(p) : p \in Pods}
           f == [p \in Pods |-> SubTasksOf(p)]
<1>1. f \in Surjection(Pods, All)
  BY DEF Surjection
<1>2. IsFiniteSet(All)
  <2> HIDE DEF f, All
  <2> QED BY <1>1, FS_Surjection
<1>3. \A T \in All : IsFiniteSet(T)
  <2> SUFFICES ASSUME NEW p \in Pods PROVE IsFiniteSet({p} \X (1 .. SubTaskNum[p]))
    BY DEF SubTasksOf
  <2>1. IsFiniteSet({p})
    BY FS_Singleton
  <2>2. IsFiniteSet(1 .. SubTaskNum[p])
    BY FS_Interval
  <2> QED BY <2>1, <2>2, FS_Product
<1> QED
  <2> HIDE DEF All
  <2>1. IsFiniteSet(UNION All)
    BY <1>2, <1>3, FS_UNION
  <2> QED BY <2>1 DEF AllSubTasks, All

(***************************************************************************)
(* The report.                                                             *)
(***************************************************************************)

\* Record is injective, so results are counted one per subtask.
LEMMA CountRecords ==
  ASSUME NEW D \in SUBSET AllSubTasks
  PROVE  /\ IsFiniteSet({Record(t) : t \in D})
         /\ Cardinality({Record(t) : t \in D}) = Cardinality(D)
<1> DEFINE R == {Record(t) : t \in D}
           f == [t \in D |-> Record(t)]
<1>1. f \in Surjection(D, R)
  BY DEF Surjection
<1>2. f \in Injection(D, R)
  <2>1. \A s, t \in D : Record(s) = Record(t) => s = t
    BY DEF Record
  <2> QED BY <2>1 DEF Injection, IsInjective
<1>3. IsFiniteSet(D)
  BY AllSubTasksFinite, FS_Subset
<1> QED
  <2> HIDE DEF f, R
  <2>1. IsFiniteSet(R) /\ Cardinality(R) = Cardinality(D)
    BY <1>1, <1>2, <1>3, FS_Surjection
  <2> QED BY <2>1 DEF R

\* What setByTaskResult computes once every TaskResult holds the results of the
\* finished groups: the number of counted results is the number of subtasks
\* they belong to.
Reported == UNION {DoneOf(p) : p \in collected}

\* The results collected are finite in number, so that they can be counted.
LEMMA CollectedFacts ==
  ASSUME TypeOK, ResultInv
  PROVE  /\ Reported \in SUBSET AllSubTasks
         /\ Collected = {Record(t) : t \in Reported}
         /\ SuccessNum \in Nat
         /\ FailureNum \in Nat
         /\ SuccessNum + FailureNum = Cardinality(Reported)
         /\ Cardinality(Reported) \in Nat
         /\ Cardinality(AllSubTasks) \in Nat
         /\ Cardinality(Reported) <= Cardinality(AllSubTasks)
         /\ Cardinality(Reported) = Cardinality(AllSubTasks) => Reported = AllSubTasks
<1> DEFINE S == {r \in Collected : r.status = "success"}
           F == {r \in Collected : r.status = "failure"}
<1>1. Reported \in SUBSET AllSubTasks
  BY SubTaskFacts DEF Reported, DoneOf, TypeOK
<1>2. Collected = {Record(t) : t \in Reported}
  BY DEF Collected, Reported, ResultInv
<1>3. IsFiniteSet(Collected) /\ Cardinality(Collected) = Cardinality(Reported)
  BY <1>1, <1>2, CountRecords
<1>4. S \cup F = Collected /\ S \cap F = {}
  <2>1. \A r \in Collected : r.status \in {"success", "failure"}
    BY <1>1, <1>2 DEF Record, TypeOK, Results, Statuses
  <2> QED BY <2>1
<1>5. IsFiniteSet(S) /\ IsFiniteSet(F)
  BY <1>3, FS_Subset
<1>6. Cardinality(Collected) = Cardinality(S) + Cardinality(F)
  <2> HIDE DEF S, F
  <2>1. Cardinality(S \cup F) = Cardinality(S) + Cardinality(F) - Cardinality(S \cap F)
    BY <1>5, FS_Union
  <2>2. Cardinality(S) \in Nat /\ Cardinality(F) \in Nat
    BY <1>5, FS_CardinalityType
  <2>3. Cardinality(S \cap F) = 0
    BY <1>4, FS_EmptySet
  <2>4. Collected = S \cup F
    BY <1>4
  <2> QED BY ONLY <2>1, <2>2, <2>3, <2>4, SMT
<1>7. SuccessNum = Cardinality(S) /\ FailureNum = Cardinality(F)
  BY DEF SuccessNum, FailureNum
<1>8. SuccessNum \in Nat /\ FailureNum \in Nat
  <2> HIDE DEF S, F
  <2> QED BY <1>5, <1>7, FS_CardinalityType
<1>9. /\ Cardinality(Reported) \in Nat
      /\ Cardinality(AllSubTasks) \in Nat
      /\ Cardinality(Reported) <= Cardinality(AllSubTasks)
      /\ Cardinality(Reported) = Cardinality(AllSubTasks) => Reported = AllSubTasks
  BY <1>1, AllSubTasksFinite, FS_Subset, FS_CardinalityType
<1> QED BY <1>1, <1>2, <1>3, <1>6, <1>7, <1>8, <1>9

(***************************************************************************)
(* The inductive invariant: initial states.                                *)
(***************************************************************************)
LEMMA InitIInv == Init => IInv
<1> SUFFICES ASSUME Init PROVE IInv
  OBVIOUS
<1>1. TypeOK
  BY DEF Init, TypeOK, Phases, SubPhases, NoResult, Results, Statuses, NoReport
<1>2. AttemptInv
  BY DEF Init, AttemptInv
<1>3. GroupInv
  BY SubTaskFacts DEF Init, GroupInv, DoneOf, SubTasksOf
<1>4. OutInv
  BY DEF Init, OutInv, NoResult
<1>5. ResultInv
  <2>1. \A p \in Pods : DoneOf(p) = {}
    BY DEF Init, DoneOf, SubTasksOf
  <2> QED BY <2>1 DEF Init, ResultInv
<1>6. ReportInv
  BY DEF Init, ReportInv
<1> QED BY <1>1, <1>2, <1>3, <1>4, <1>5, <1>6 DEF IInv

(***************************************************************************)
(* The inductive invariant: steps.                                         *)
(***************************************************************************)

\* A pod that is running an attempt keeps TaskGroup.Run waiting.
LEMMA BusyPod ==
  ASSUME IInv, NEW p \in Pods, phase[p] \in {"launching", "handler", "teardown"}
  PROVE  group = "waiting"
BY DEF IInv, TypeOK, AttemptInv, ReportInv, AllSettled

\* A running subtask belongs to the current group of a pod in its handler.
LEMMA ActiveFacts ==
  ASSUME IInv, NEW t \in AllSubTasks, Active(t)
  PROVE  /\ phase[t[1]] = "handler"
         /\ t \notin DoneOf(t[1])
         /\ t \in CurrentGroup(t[1])
         /\ group = "waiting"
<1>1. t[1] \in Pods /\ t[2] \in Nat /\ t \in SubTasksOf(t[1])
  BY SubTaskFacts
<1>2. from[t[1]] \in Nat /\ ConcurrentNum(t[1]) \in Nat
  BY <1>1, ConcurrentNumFacts DEF IInv, TypeOK
<1>3. t \notin DoneOf(t[1])
  BY <1>1 DEF IInv, GroupInv, Active
<1>4. t[2] > from[t[1]]
  BY <1>1, <1>2, <1>3 DEF DoneOf
<1>5. phase[t[1]] = "handler"
  BY <1>1, <1>4 DEF IInv, GroupInv, Active
<1>6. ~(t[2] > from[t[1]] + ConcurrentNum(t[1]))
  BY <1>1, <1>5 DEF IInv, GroupInv, Active
<1>7. t \in CurrentGroup(t[1])
  BY <1>1, <1>2, <1>4, <1>6 DEF CurrentGroup, GroupFrom
<1> QED BY <1>1, <1>3, <1>5, <1>7, BusyPod

\* A step of one subtask's goroutine disturbs nothing but its own result.
LEMMA SubTaskStepFrame ==
  ASSUME IInv, NEW t \in AllSubTasks, Active(t),
         NEW x \in SubPhases \ {"waiting", "executing"},
         sub' = [sub EXCEPT ![t] = x],
         out' \in [AllSubTasks -> Results],
         \A s \in AllSubTasks : s # t => out'[s] = out[s],
         finished' \in Nat,
         UNCHANGED <<group, podVars, taskResult, collected, report>>
  PROVE  TypeOK' /\ AttemptInv' /\ GroupInv' /\ ResultInv' /\ ReportInv'
<1> USE DEF podVars
<1>1. /\ t[1] \in Pods
      /\ phase[t[1]] = "handler"
      /\ t \notin DoneOf(t[1])
      /\ t \in CurrentGroup(t[1])
      /\ group = "waiting"
      /\ t[2] \in Nat
      /\ from[t[1]] \in Nat
      /\ ConcurrentNum(t[1]) \in Nat
      /\ t[2] <= from[t[1]] + ConcurrentNum(t[1])
  BY ActiveFacts, SubTaskFacts, ConcurrentNumFacts DEF CurrentGroup, GroupFrom, IInv, TypeOK
<1>2. \A p \in Pods : DoneOf(p)' = DoneOf(p) /\ CurrentGroup(p)' = CurrentGroup(p)
  BY DEF DoneOf, CurrentGroup
<1>3. \A p \in Pods : \A s \in DoneOf(p) : s \in AllSubTasks /\ s # t /\ s[1] = p
  BY <1>1, SubTaskFacts DEF DoneOf
<1>4. TypeOK'
  BY DEF IInv, TypeOK
<1>5. AttemptInv'
  BY DEF IInv, AttemptInv
<1>6. GroupInv'
  <2> SUFFICES ASSUME NEW p \in Pods PROVE GroupInv!(p)'
    BY DEF GroupInv
  <2>1. GroupInv!(p)
    BY DEF IInv, GroupInv
  <2>2. \A s \in AllSubTasks : sub'[s] = IF s = t THEN x ELSE sub[s]
    BY DEF IInv, TypeOK
  <2>3. \A s \in SubTasksOf(p) : s \in AllSubTasks /\ s[1] = p
    BY SubTaskFacts
  <2>4. \A s \in CurrentGroup(p) : s \in AllSubTasks
    BY <2>3 DEF CurrentGroup, GroupFrom
  <2>5. x # "waiting" /\ x # "executing"
    OBVIOUS
  <2>6. \A s \in DoneOf(p)' : sub'[s] = "added"
    BY <1>2, <1>3, <2>1, <2>2
  <2>7. phase'[p] = "handler" =>
         /\ from'[p] < SubTaskNum[p] \/ SubTaskNum[p] = 0
         /\ \A s \in CurrentGroup(p)' : sub'[s] # "waiting"
    BY <1>2, <2>1, <2>2, <2>4, <2>5
  <2>8. phase'[p] = "handler" =>
         \A s \in SubTasksOf(p) : s[2] > from'[p] + ConcurrentNum(p) => sub'[s] = "waiting"
    BY <1>1, <2>1, <2>2, <2>3
  <2>9. phase'[p] # "handler" =>
         /\ from'[p] = 0 \/ from'[p] >= SubTaskNum[p]
         /\ \A s \in SubTasksOf(p) : s[2] > from'[p] => sub'[s] = "waiting"
    BY <1>1, <2>1, <2>2, <2>3
  <2> QED BY <2>1, <2>6, <2>7, <2>8, <2>9
<1>7. ResultInv'
  <2>1. \A p \in Pods : \A s \in DoneOf(p) : Record(s)' = Record(s)
    BY <1>3 DEF Record
  <2> QED BY <1>2, <2>1 DEF IInv, ResultInv
<1>8. ReportInv'
  BY <1>1 DEF IInv, ReportInv
<1> QED BY <1>4, <1>5, <1>6, <1>7, <1>8

\* SubTask.Run touches the state of its own subtask only.
LEMMA SubTaskStepIInv ==
  ASSUME IInv, NEW t \in AllSubTasks, SubTaskStep(t)
  PROVE  IInv'
<1>1. CASE Execute(t)
  <2>1. Active(t)
    BY <1>1 DEF Execute, Active
  <2>2. \/ out' = [out EXCEPT ![t].err = TRUE, ![t].status = "failure"]
        \/ out' = [out EXCEPT ![t].err = FALSE, ![t].status = "success"]
    BY <1>1 DEF Execute, MayFail
  <2>3. out \in [AllSubTasks -> Results]
    BY DEF IInv, TypeOK
  <2>4. out[t] = NoResult
    BY <1>1 DEF Execute, IInv, OutInv
  <2>5. /\ out' \in [AllSubTasks -> Results]
        /\ \A s \in AllSubTasks : s # t => out'[s] = out[s]
        /\ ~out'[t].artifactErr
        /\ out'[t].status = "failure" <=> out'[t].err \/ out'[t].artifactErr
    <3>1. CASE out' = [out EXCEPT ![t].err = TRUE, ![t].status = "failure"]
      <4>1. out'[t].err = TRUE /\ out'[t].artifactErr = FALSE /\ out'[t].status = "failure"
        BY <2>3, <2>4, <3>1 DEF NoResult, Results
      <4>2. /\ ~out'[t].artifactErr
            /\ out'[t].status = "failure" <=> out'[t].err \/ out'[t].artifactErr
        BY <4>1, Zenon
      <4>3. /\ out' \in [AllSubTasks -> Results]
            /\ \A s \in AllSubTasks : s # t => out'[s] = out[s]
        BY <2>3, <3>1 DEF Results, Statuses
      <4> QED BY <4>2, <4>3, Zenon
    <3>2. CASE out' = [out EXCEPT ![t].err = FALSE, ![t].status = "success"]
      <4>1. out'[t].err = FALSE /\ out'[t].artifactErr = FALSE /\ out'[t].status = "success"
        BY <2>3, <2>4, <3>2 DEF NoResult, Results
      <4>2. /\ ~out'[t].artifactErr
            /\ out'[t].status = "failure" <=> out'[t].err \/ out'[t].artifactErr
        BY <4>1, Zenon
      <4>3. /\ out' \in [AllSubTasks -> Results]
            /\ \A s \in AllSubTasks : s # t => out'[s] = out[s]
        BY <2>3, <3>2 DEF Results, Statuses
      <4> QED BY <4>2, <4>3, Zenon
    <3> QED BY <2>2, <3>1, <3>2
  <2>6. "copying" \in SubPhases \ {"waiting", "executing"}
    BY DEF SubPhases
  <2>7. TypeOK' /\ AttemptInv' /\ GroupInv' /\ ResultInv' /\ ReportInv'
    BY <1>1, <2>1, <2>5, <2>6, SubTaskStepFrame DEF Execute, IInv, TypeOK
  <2>8. OutInv'
    BY <1>1, <2>5 DEF Execute, IInv, TypeOK, OutInv
  <2> QED BY <2>7, <2>8 DEF IInv
<1>2. CASE CopyArtifact(t)
  <2>1. Active(t)
    BY <1>2 DEF CopyArtifact, Active
  <2>2. PICK failed \in MayFail :
          out' = [out EXCEPT ![t].artifactErr = failed,
                             ![t].status = IF failed THEN "failure" ELSE @]
    BY <1>2 DEF CopyArtifact
  <2>3. failed \in BOOLEAN
    BY DEF MayFail
  <2>4. /\ ~out[t].artifactErr
        /\ out[t].status = "failure" <=> out[t].err \/ out[t].artifactErr
        /\ out[t] \in Results
    BY <1>2 DEF CopyArtifact, IInv, OutInv, TypeOK
  <2>5. /\ out' \in [AllSubTasks -> Results]
        /\ \A s \in AllSubTasks : s # t => out'[s] = out[s]
        /\ out'[t].status = "failure" <=> out'[t].err \/ out'[t].artifactErr
    BY <2>2, <2>3, <2>4 DEF IInv, TypeOK, Results, Statuses
  <2>6. "finishing" \in SubPhases \ {"waiting", "executing"}
    BY DEF SubPhases
  <2>7. TypeOK' /\ AttemptInv' /\ GroupInv' /\ ResultInv' /\ ReportInv'
    BY <1>2, <2>1, <2>5, <2>6, SubTaskStepFrame DEF CopyArtifact, IInv, TypeOK
  <2>8. OutInv'
    BY <1>2, <2>5 DEF CopyArtifact, IInv, TypeOK, OutInv
  <2> QED BY <2>7, <2>8 DEF IInv
<1>3. CASE OnFinish(t)
  <2>1. Active(t)
    BY <1>3 DEF OnFinish, Active
  <2>2. "finished" \in SubPhases \ {"waiting", "executing"}
    BY DEF SubPhases
  <2>3. finished' \in Nat
    BY <1>3 DEF OnFinish, IInv, TypeOK
  <2>4. TypeOK' /\ AttemptInv' /\ GroupInv' /\ ResultInv' /\ ReportInv'
    BY <1>3, <2>1, <2>2, <2>3, SubTaskStepFrame DEF OnFinish, IInv, TypeOK
  <2>5. OutInv'
    BY <1>3 DEF OnFinish, IInv, TypeOK, OutInv
  <2> QED BY <2>4, <2>5 DEF IInv
<1>4. CASE AddSubTask(t)
  <2>1. Active(t)
    BY <1>4 DEF AddSubTask, Active
  <2>2. "added" \in SubPhases \ {"waiting", "executing"}
    BY DEF SubPhases
  <2>3. TypeOK' /\ AttemptInv' /\ GroupInv' /\ ResultInv' /\ ReportInv'
    BY <1>4, <2>1, <2>2, SubTaskStepFrame DEF AddSubTask, IInv, TypeOK
  <2>4. OutInv'
    BY <1>4 DEF AddSubTask, IInv, TypeOK, OutInv
  <2> QED BY <2>3, <2>4 DEF IInv
<1> QED BY <1>1, <1>2, <1>3, <1>4 DEF SubTaskStep

\* A new attempt starts from nothing.
LEMMA LaunchIInv ==
  ASSUME IInv, NEW p \in Pods, Launch(p)
  PROVE  IInv'
<1> USE DEF Launch
<1>1. attempt[p] + 1 \in 1 .. MaxAttempts
  BY DEF IInv, TypeOK, AttemptInv
<1>2. TypeOK'
  BY <1>1 DEF IInv, TypeOK, Phases, SubPhases, NoResult, Results, Statuses
<1>3. AttemptInv'
  BY <1>1 DEF IInv, TypeOK, AttemptInv
<1>4. \A q \in Pods : DoneOf(q)' = IF q = p THEN {} ELSE DoneOf(q)
  BY SubTaskFacts DEF DoneOf, IInv, TypeOK, SubTasksOf
<1>5. GroupInv'
  <2> SUFFICES ASSUME NEW q \in Pods PROVE GroupInv!(q)'
    BY DEF GroupInv
  <2>1. CASE q = p
    BY <1>4, <2>1, SubTaskFacts DEF IInv, TypeOK
  <2>2. CASE q # p
    <3>1. GroupInv!(q)
      BY DEF IInv, GroupInv
    <3>2. phase'[q] = phase[q] /\ from'[q] = from[q] /\ DoneOf(q)' = DoneOf(q)
          /\ CurrentGroup(q)' = CurrentGroup(q)
      BY <1>4, <2>2 DEF IInv, TypeOK, CurrentGroup
    <3>3. \A t \in SubTasksOf(q) : sub'[t] = sub[t]
      BY <2>2, SubTaskFacts
    <3>4. DoneOf(q) \subseteq SubTasksOf(q) /\ CurrentGroup(q) \subseteq SubTasksOf(q)
      BY DEF DoneOf, CurrentGroup, GroupFrom
    <3> QED BY <3>1, <3>2, <3>3, <3>4
  <2> QED BY <2>1, <2>2
<1>6. OutInv'
  BY DEF IInv, OutInv, NoResult
<1>7. ResultInv'
  <2>1. \A q \in Pods : q # p => \A t \in DoneOf(q) : Record(t)' = Record(t)
    BY SubTaskFacts DEF DoneOf, Record, IInv, TypeOK
  <2>2. \A q \in Pods : taskResult'[q] = {Record(t)' : t \in DoneOf(q)'}
    BY <1>4, <2>1 DEF IInv, TypeOK, ResultInv
  <2>3. collected' = {q \in Pods : phase'[q] = "returned"}
    BY DEF IInv, TypeOK, ResultInv
  <2> QED BY <2>2, <2>3 DEF ResultInv
<1>8. ReportInv'
  BY DEF IInv, ReportInv
<1> QED BY <1>2, <1>3, <1>5, <1>6, <1>7, <1>8 DEF IInv

\* The handler starts the first group.
LEMMA EnterHandlerIInv ==
  ASSUME IInv, NEW p \in Pods, EnterHandler(p)
  PROVE  IInv'
<1> USE DEF EnterHandler
<1>1. /\ from[p] = 0
      /\ group = "waiting"
      /\ SubTaskNum[p] \in Nat
      /\ ConcurrentNum(p) \in Nat
      /\ \A t \in SubTasksOf(p) : sub[t] = "waiting"
  BY BusyPod, ConcurrentNumFacts, SubTaskFacts DEF IInv, GroupInv
<1>2. TypeOK'
  BY DEF IInv, TypeOK, Spawn, Phases, SubPhases
<1>3. AttemptInv'
  BY <1>1 DEF IInv, TypeOK, AttemptInv
<1>4. \A q \in Pods : DoneOf(q)' = DoneOf(q) /\ CurrentGroup(q)' = CurrentGroup(q)
  BY DEF DoneOf, CurrentGroup
<1>5. CurrentGroup(p) = GroupFrom(p, 0) /\ DoneOf(p) = {}
  BY <1>1, SubTaskFacts DEF CurrentGroup, DoneOf
<1>6. GroupInv'
  <2> SUFFICES ASSUME NEW q \in Pods PROVE GroupInv!(q)'
    BY DEF GroupInv
  <2>1. CASE q = p
    <3>1. \A t \in GroupFrom(p, 0) : sub'[t] = "executing"
      BY SubTaskFacts DEF Spawn, GroupFrom
    <3>2. \A t \in SubTasksOf(p) : t[2] > ConcurrentNum(p) => sub'[t] = "waiting"
      BY <1>1, SubTaskFacts DEF Spawn, GroupFrom
    <3>3. phase'[p] = "handler" /\ from'[p] = 0
      BY <1>1 DEF IInv, TypeOK
    <3> QED BY <1>1, <1>4, <1>5, <2>1, <3>1, <3>2, <3>3
  <2>2. CASE q # p
    <3>1. GroupInv!(q)
      BY DEF IInv, GroupInv
    <3>2. phase'[q] = phase[q] /\ from'[q] = from[q]
      BY <2>2 DEF IInv, TypeOK
    <3>3. \A t \in SubTasksOf(q) : sub'[t] = sub[t]
      BY <2>2, SubTaskFacts DEF Spawn, GroupFrom
    <3>4. DoneOf(q) \subseteq SubTasksOf(q) /\ CurrentGroup(q) \subseteq SubTasksOf(q)
      BY DEF DoneOf, CurrentGroup, GroupFrom
    <3> QED BY <1>4, <3>1, <3>2, <3>3, <3>4
  <2> QED BY <2>1, <2>2
<1>7. OutInv'
  <2>1. \A t \in AllSubTasks : t \in GroupFrom(p, 0) => t \in SubTasksOf(p)
    BY DEF GroupFrom
  <2>2. \A t \in AllSubTasks : sub'[t] = sub[t] \/ (sub[t] = "waiting" /\ sub'[t] = "executing")
    BY <1>1, <2>1 DEF Spawn
  <2> QED BY <2>2 DEF IInv, OutInv
<1>8. ResultInv'
  <2>1. \A q \in Pods : \A t \in DoneOf(q) : Record(t)' = Record(t)
    BY DEF Record
  <2>2. collected' = {q \in Pods : phase'[q] = "returned"}
    BY DEF IInv, TypeOK, ResultInv
  <2> QED BY <1>4, <2>1, <2>2 DEF IInv, ResultInv
<1>9. ReportInv'
  BY <1>1 DEF IInv, ReportInv
<1> QED BY <1>2, <1>3, <1>6, <1>7, <1>8, <1>9 DEF IInv

\* The results of a group join the TaskResult and the next group starts.
LEMMA FinishGroupIInv ==
  ASSUME IInv, NEW p \in Pods, FinishGroup(p)
  PROVE  IInv'
<1> DEFINE next == from[p] + ConcurrentNum(p)
<1>1. /\ phase[p] = "handler"
      /\ group = "waiting"
      /\ SubTaskNum[p] \in Nat
      /\ ConcurrentNum(p) \in Nat
      /\ from[p] \in Nat
      /\ next \in Nat
      /\ \A t \in CurrentGroup(p) : sub[t] = "added"
      /\ taskResult' = [taskResult EXCEPT ![p] = @ \cup {Record(t) : t \in CurrentGroup(p)}]
      /\ from' = [from EXCEPT ![p] = next]
      /\ UNCHANGED <<group, attempt, out, collected, finished, report>>
  BY BusyPod, ConcurrentNumFacts DEF FinishGroup, GroupIsDone, IInv, TypeOK
<1>2. \/ /\ next < SubTaskNum[p]
         /\ sub' = Spawn(sub, GroupFrom(p, next))
         /\ phase' = phase
      \/ /\ next >= SubTaskNum[p]
         /\ phase' = [phase EXCEPT ![p] = "teardown"]
         /\ sub' = sub
  BY <1>1 DEF FinishGroup
<1>3. /\ DoneOf(p)' = DoneOf(p) \cup CurrentGroup(p)
      /\ \A q \in Pods : q # p => DoneOf(q)' = DoneOf(q) /\ CurrentGroup(q)' = CurrentGroup(q)
      /\ CurrentGroup(p)' = GroupFrom(p, next)
  <2>1. from'[p] = next /\ \A q \in Pods : q # p => from'[q] = from[q]
    BY <1>1 DEF IInv, TypeOK
  <2> QED BY <1>1, <2>1, SubTaskFacts DEF DoneOf, CurrentGroup, GroupFrom
<1> HIDE DEF next
<1>4. TypeOK'
  <2>1. sub' \in [AllSubTasks -> SubPhases] /\ phase' \in [Pods -> Phases]
    BY <1>2 DEF IInv, TypeOK, Spawn, SubPhases, Phases
  <2>2. attempt[p] \in 1 .. MaxAttempts
    BY <1>1 DEF IInv, TypeOK, AttemptInv
  <2>3. \A t \in CurrentGroup(p) : Record(t) \in Records
    BY <2>2, SubTaskFacts DEF CurrentGroup, GroupFrom, Record, Records, IInv, TypeOK, Results
  <2>4. taskResult' \in [Pods -> SUBSET Records]
    BY <1>1, <2>3 DEF IInv, TypeOK
  <2>5. from' \in [Pods -> Nat]
    BY <1>1 DEF IInv, TypeOK
  <2> QED BY <1>1, <2>1, <2>4, <2>5 DEF IInv, TypeOK
<1>5. AttemptInv'
  BY <1>1, <1>2 DEF IInv, TypeOK, AttemptInv
<1>6. \A t \in SubTasksOf(p) : t[2] > next => sub[t] = "waiting"
  BY <1>1 DEF IInv, GroupInv, next
<1>7. GroupInv'
  <2> SUFFICES ASSUME NEW q \in Pods PROVE GroupInv!(q)'
    BY DEF GroupInv
  <2>1. CASE q # p
    <3>1. GroupInv!(q)
      BY DEF IInv, GroupInv
    <3>2. phase'[q] = phase[q] /\ from'[q] = from[q]
      BY <1>1, <1>2, <2>1 DEF IInv, TypeOK
    <3>3. \A t \in SubTasksOf(q) : sub'[t] = sub[t]
      BY <1>2, <2>1, SubTaskFacts DEF Spawn, GroupFrom
    <3>4. DoneOf(q) \subseteq SubTasksOf(q) /\ CurrentGroup(q) \subseteq SubTasksOf(q)
      BY DEF DoneOf, CurrentGroup, GroupFrom
    <3> QED BY <1>3, <2>1, <3>1, <3>2, <3>3, <3>4
  <2>2. CASE q = p
    <3>1. \A t \in DoneOf(p) \cup CurrentGroup(p) : sub[t] = "added"
      BY <1>1 DEF IInv, GroupInv
    <3>2. \A t \in DoneOf(p) \cup CurrentGroup(p) : t \in AllSubTasks /\ ~(t[2] > next)
      BY <1>1, SubTaskFacts DEF DoneOf, CurrentGroup, GroupFrom, next
    <3>3. \A t \in GroupFrom(p, next) : t[2] > next /\ t \in AllSubTasks
      BY <1>1, SubTaskFacts DEF GroupFrom
    <3>4. from'[p] = next
      BY <1>1 DEF IInv, TypeOK
    <3>5. \A t \in DoneOf(p)' : sub'[t] = "added"
      BY <1>2, <1>3, <3>1, <3>2, <3>3 DEF Spawn
    <3>6. CASE next < SubTaskNum[p]
      <4>1. sub' = Spawn(sub, GroupFrom(p, next)) /\ phase'[p] = "handler"
        BY <1>1, <1>2, <3>6
      <4>2. \A t \in CurrentGroup(p)' : sub'[t] # "waiting"
        BY <1>3, <3>3, <4>1 DEF Spawn
      <4>3. \A t \in SubTasksOf(p) : t[2] > next + ConcurrentNum(p) => sub'[t] = "waiting"
        BY <1>1, <1>6, <4>1, SubTaskFacts DEF Spawn, GroupFrom
      <4> QED BY <2>2, <3>4, <3>5, <3>6, <4>1, <4>2, <4>3
    <3>7. CASE next >= SubTaskNum[p]
      <4>1. sub' = sub /\ phase'[p] = "teardown"
        BY <1>1, <1>2, <3>7 DEF IInv, TypeOK
      <4> QED BY <1>6, <2>2, <3>4, <3>5, <3>7, <4>1
    <3> QED BY <1>1, <3>6, <3>7
  <2> QED BY <2>1, <2>2
<1>8. OutInv'
  <2>1. \A t \in AllSubTasks : t \in GroupFrom(p, next) => t \in SubTasksOf(p) /\ t[2] > next
    BY <1>1, SubTaskFacts DEF GroupFrom
  <2>2. \A t \in AllSubTasks : sub'[t] = sub[t] \/ (sub[t] = "waiting" /\ sub'[t] = "executing")
    BY <1>2, <1>6, <2>1 DEF Spawn
  <2> QED BY <1>1, <2>2 DEF IInv, OutInv
<1>9. ResultInv'
  <2>1. \A t \in AllSubTasks : Record(t)' = Record(t)
    BY <1>1 DEF Record
  <2>2. \A q \in Pods : DoneOf(q) \subseteq AllSubTasks /\ CurrentGroup(q) \subseteq AllSubTasks
    BY SubTaskFacts DEF DoneOf, CurrentGroup, GroupFrom
  <2>3. taskResult'[p] = {Record(t)' : t \in DoneOf(p)'}
    BY <1>1, <1>3, <2>1, <2>2 DEF IInv, TypeOK, ResultInv
  <2>4. \A q \in Pods : q # p => taskResult'[q] = {Record(t)' : t \in DoneOf(q)'}
    BY <1>1, <1>3, <2>1, <2>2 DEF IInv, TypeOK, ResultInv
  <2>5. collected' = {q \in Pods : phase'[q] = "returned"}
    BY <1>1, <1>2 DEF IInv, TypeOK, ResultInv
  <2> QED BY <2>3, <2>4, <2>5 DEF ResultInv
<1>10. ReportInv'
  BY <1>1 DEF IInv, ReportInv
<1> QED BY <1>4, <1>5, <1>7, <1>8, <1>9, <1>10 DEF IInv

\* An attempt ends outside of the handler, with or without results.
LEMMA EndAttemptIInv ==
  ASSUME IInv, NEW p \in Pods, phase[p] \in {"launching", "teardown"},
         NEW result, EndAttempt(p, result),
         UNCHANGED <<group, attempt, from, subVars, taskResult, finished, report>>
  PROVE  IInv'
<1> USE DEF subVars
<1>1. group = "waiting"
  BY BusyPod
<1>2. PICK x \in {"returned", "errored", "backoff"} :
        /\ phase' = [phase EXCEPT ![p] = x]
        /\ collected' = IF x = "returned" THEN collected \cup {p} ELSE collected
        /\ x = "backoff" => attempt[p] < MaxAttempts
  BY DEF EndAttempt, Collect, FailTask, Retry
<1>3. phase' \in [Pods -> Phases] /\ phase'[p] = x
      /\ \A q \in Pods : q # p => phase'[q] = phase[q]
  BY <1>2 DEF IInv, TypeOK, Phases
<1>4. TypeOK'
  BY <1>2, <1>3 DEF IInv, TypeOK
<1>5. AttemptInv'
  BY <1>1, <1>2, <1>3 DEF IInv, TypeOK, AttemptInv
<1>6. \A q \in Pods : DoneOf(q)' = DoneOf(q) /\ CurrentGroup(q)' = CurrentGroup(q)
  BY DEF DoneOf, CurrentGroup
<1>7. GroupInv'
  <2> SUFFICES ASSUME NEW q \in Pods PROVE GroupInv!(q)'
    BY DEF GroupInv
  <2>1. GroupInv!(q)
    BY DEF IInv, GroupInv
  <2> QED BY <1>3, <1>6, <2>1
<1>8. OutInv'
  BY DEF IInv, OutInv
<1>9. ResultInv'
  <2>1. \A q \in Pods : \A t \in DoneOf(q) : Record(t)' = Record(t)
    BY DEF Record
  <2>2. collected' = {q \in Pods : phase'[q] = "returned"}
    BY <1>2, <1>3 DEF IInv, ResultInv
  <2> QED BY <1>6, <2>1, <2>2 DEF IInv, ResultInv
<1>10. ReportInv'
  BY <1>1 DEF IInv, ReportInv
<1> QED BY <1>4, <1>5, <1>7, <1>8, <1>9, <1>10 DEF IInv

\* Steps that leave the pods and the subtasks alone.
LEMMA GroupStepFrame ==
  ASSUME IInv, UNCHANGED <<podVars, subVars, taskResult, collected, finished>>
  PROVE  /\ GroupInv' /\ OutInv' /\ ResultInv'
         /\ SetByTaskResult(Cardinality(AllSubTasks))' = SetByTaskResult(Cardinality(AllSubTasks))
<1> USE DEF podVars, subVars
<1>1. \A p \in Pods : DoneOf(p)' = DoneOf(p) /\ CurrentGroup(p)' = CurrentGroup(p)
  BY DEF DoneOf, CurrentGroup
<1>2. GroupInv'
  BY <1>1 DEF IInv, GroupInv
<1>3. OutInv'
  BY DEF IInv, OutInv
<1>4. \A t \in AllSubTasks : Record(t)' = Record(t)
  BY DEF Record
<1>5. ResultInv'
  <2>1. \A p \in Pods : DoneOf(p) \subseteq AllSubTasks
    BY SubTaskFacts DEF DoneOf
  <2> QED BY <1>1, <1>4, <2>1 DEF IInv, ResultInv
<1>6. Collected' = Collected
  BY DEF Collected
<1>7. SetByTaskResult(Cardinality(AllSubTasks))' = SetByTaskResult(Cardinality(AllSubTasks))
  BY <1>6 DEF SetByTaskResult, SuccessNum, FailureNum, GroupStatus
<1> QED BY <1>2, <1>3, <1>5, <1>7

\* The steps of the group as a whole: start, results, error.
LEMMA GroupStepIInv ==
  ASSUME IInv, GroupStep
  PROVE  IInv'
<1>1. CASE RunGroup
  <2>1. GroupInv' /\ OutInv' /\ ResultInv'
    BY <1>1, GroupStepFrame DEF RunGroup
  <2>2. Cardinality(AllSubTasks) \in Nat
    BY AllSubTasksFinite, FS_CardinalityType
  <2>3. TypeOK'
    BY <1>1, <2>2 DEF RunGroup, podVars, subVars, IInv, TypeOK, NoReport
  <2>4. AttemptInv'
    BY <1>1 DEF RunGroup, podVars, IInv, AttemptInv
  <2>5. ReportInv'
    BY <1>1 DEF RunGroup, IInv, ReportInv
  <2> QED BY <2>1, <2>3, <2>4, <2>5 DEF IInv
<1>2. CASE ReturnResults
  <2> DEFINE total == Cardinality(AllSubTasks)
  <2>1. /\ GroupInv' /\ OutInv' /\ ResultInv'
        /\ SetByTaskResult(total)' = SetByTaskResult(total)
    BY <1>2, GroupStepFrame DEF ReturnResults
  <2>2. report' = SetByTaskResult(total)
    BY <1>2 DEF ReturnResults, IInv, ReportInv, NoReport
  <2>3. /\ total \in Nat
        /\ SuccessNum \in Nat
        /\ FailureNum \in Nat
    BY CollectedFacts DEF IInv
  <2>4. report' \in [status : {"none", "success", "failure", "error"}, total : Nat,
                     success : Nat, failure : Nat, unknown : Int]
    <3> HIDE DEF total
    <3>1. GroupStatus \in {"success", "failure"}
      BY DEF GroupStatus
    <3> QED BY <2>2, <2>3, <3>1 DEF SetByTaskResult
  <2>5. TypeOK'
    BY <1>2, <2>4 DEF ReturnResults, podVars, subVars, IInv, TypeOK
  <2>6. AttemptInv'
    BY <1>2 DEF ReturnResults, podVars, IInv, AttemptInv
  <2>7. collected' = Pods
    BY <1>2 DEF ReturnResults, AllSettled, IInv, ResultInv
  <2>8. ReportInv'
    BY <1>2, <2>1, <2>2, <2>7 DEF ReturnResults, podVars, ReportInv, AllSettled
  <2> QED BY <2>1, <2>5, <2>6, <2>8 DEF IInv
<1>3. CASE ReturnError
  <2>1. GroupInv' /\ OutInv' /\ ResultInv'
    BY <1>3, GroupStepFrame DEF ReturnError
  <2>2. TypeOK'
    BY <1>3 DEF ReturnError, podVars, subVars, IInv, TypeOK
  <2>3. AttemptInv'
    BY <1>3 DEF ReturnError, podVars, IInv, AttemptInv
  <2>4. ReportInv'
    BY <1>3 DEF ReturnError, podVars, IInv, ReportInv, AllSettled
  <2> QED BY <2>1, <2>2, <2>3, <2>4 DEF IInv
<1> QED BY <1>1, <1>2, <1>3 DEF GroupStep

\* A step that changes nothing.
LEMMA StutterIInv ==
  ASSUME IInv, UNCHANGED vars
  PROVE  IInv'
<1>1. /\ GroupInv' /\ OutInv' /\ ResultInv'
      /\ SetByTaskResult(Cardinality(AllSubTasks))' = SetByTaskResult(Cardinality(AllSubTasks))
  BY GroupStepFrame DEF vars, podVars, subVars
<1>2. TypeOK' /\ AttemptInv'
  BY DEF vars, podVars, subVars, IInv, TypeOK, AttemptInv
<1>3. ReportInv'
  BY <1>1 DEF vars, podVars, IInv, ReportInv, AllSettled
<1> QED BY <1>1, <1>2, <1>3 DEF IInv

\* IInv is inductive.
LEMMA NextIInv == IInv /\ [Next]_vars => IInv'
<1> SUFFICES ASSUME IInv, [Next]_vars PROVE IInv'
  OBVIOUS
<1>1. ASSUME NEW p \in Pods, TaskStep(p) PROVE IInv'
  <2>1. CASE Launch(p)
    BY <2>1, LaunchIInv
  <2>2. CASE EnterHandler(p)
    BY <2>2, EnterHandlerIInv
  <2>3. CASE FinishGroup(p)
    BY <2>3, FinishGroupIInv
  <2>4. CASE JobFailsEarly(p)
    BY <2>4, EndAttemptIInv DEF JobFailsEarly
  <2>5. CASE JobEnds(p)
    BY <2>5, EndAttemptIInv DEF JobEnds
  <2> QED BY <1>1, <2>1, <2>2, <2>3, <2>4, <2>5 DEF TaskStep
<1>2. ASSUME NEW t \in AllSubTasks, SubTaskStep(t) PROVE IInv'
  BY <1>2, SubTaskStepIInv
<1>3. CASE GroupStep
  BY <1>3, GroupStepIInv
<1>4. CASE Done \/ UNCHANGED vars
  BY <1>4, StutterIInv DEF Done
<1> QED BY <1>1, <1>2, <1>3, <1>4 DEF Next

\* The inductive invariant holds in every reachable state.
THEOREM Invariance == Spec => []IInv
<1>1. Init => IInv
  BY InitIInv
<1>2. IInv /\ [Next]_vars => IInv'
  BY NextIInv
<1> QED BY <1>1, <1>2, PTL DEF Spec

(***************************************************************************)
(* The properties.                                                         *)
(***************************************************************************)

\* TypeOK holds in every reachable state, for every value of the constants.
THEOREM TypeCorrect == Spec => []TypeOK
<1>1. IInv => TypeOK
  BY DEF IInv
<1> QED BY <1>1, Invariance, PTL

\* A report of success means that every subtask was executed and succeeded,
\* artifacts included, and only then does a report say so.
THEOREM ReportOfSuccessSound == Spec => []SuccessReportSound
<1>1. IInv => SuccessReportSound
  <2> SUFFICES ASSUME IInv, report.status # "none"
               PROVE  report.status = "success" <=> \A t \in AllSubTasks : Passed(t)
    BY DEF SuccessReportSound
  <2> DEFINE total == Cardinality(AllSubTasks)
  <2>1. group = "returned"
    BY DEF IInv, TypeOK, ReportInv, NoReport
  <2>2. report = SetByTaskResult(total) /\ collected = Pods
    BY <2>1 DEF IInv, ReportInv
  <2>3. /\ Reported \in SUBSET AllSubTasks
        /\ Collected = {Record(t) : t \in Reported}
        /\ SuccessNum + FailureNum = Cardinality(Reported)
        /\ total = Cardinality(Reported) => Reported = AllSubTasks
    BY CollectedFacts DEF IInv
  <2>4. \A t \in AllSubTasks : Passed(t) <=> t \in Reported /\ ~out[t].err /\ ~out[t].artifactErr
    <3> SUFFICES ASSUME NEW t \in AllSubTasks
                 PROVE  (\E r \in taskResult[t[1]] : r.task = t) <=> t \in Reported
      BY <2>2, SubTaskFacts DEF Passed
    <3>1. taskResult[t[1]] = {Record(u) : u \in DoneOf(t[1])}
      BY SubTaskFacts DEF IInv, ResultInv
    <3>2. \A p \in Pods : \A u \in DoneOf(p) : u[1] = p /\ Record(u).task = u
      BY SubTaskFacts DEF DoneOf, Record
    <3>3. t \in Reported <=> t \in DoneOf(t[1])
      BY <2>2, <3>2, SubTaskFacts DEF Reported
    <3> QED BY <3>1, <3>2, <3>3, SubTaskFacts
  <2>5. GroupStatus = "success" <=> \A t \in Reported : ~out[t].err /\ ~out[t].artifactErr
    <3> DEFINE Bad(r) == r.err \/ r.artifactErr
    <3>1. \A t \in Reported : Bad(Record(t)) <=> out[t].err \/ out[t].artifactErr
      BY DEF Record
    <3>2. GroupStatus = "success" <=> ~(\E r \in Collected : Bad(r))
      BY DEF GroupStatus
    <3> HIDE DEF Bad
    <3>3. (\E r \in Collected : Bad(r)) <=> \E t \in Reported : Bad(Record(t))
      BY <2>3
    <3> QED BY <3>1, <3>2, <3>3
  <2>6. report.status = "success" <=> total = Cardinality(Reported) /\ GroupStatus = "success"
    <3> HIDE DEF total
    <3> QED BY <2>2, <2>3 DEF SetByTaskResult
  <2> QED BY <2>3, <2>4, <2>5, <2>6
<1> QED BY <1>1, Invariance, PTL

\* No pod ever runs more subtasks at once than the strategy allows.
THEOREM ConcurrencyBounded == Spec => []ConcurrencyBound
<1>1. IInv => ConcurrencyBound
  <2> SUFFICES ASSUME IInv, HasStrategy, MaxConcurrent > 0, NEW p \in Pods
               PROVE  Cardinality({t \in SubTasksOf(p) : Active(t)}) <= MaxConcurrent
    BY DEF ConcurrencyBound
  <2> DEFINE A == {t \in SubTasksOf(p) : Active(t)}
             lo == from[p] + 1
             hi == from[p] + ConcurrentNum(p)
             f == [t \in A |-> t[2]]
  <2>1. /\ from[p] \in Nat
        /\ ConcurrentNum(p) \in Nat
        /\ ConcurrentNum(p) <= MaxConcurrent
        /\ lo \in Int /\ hi \in Int
    BY ConcurrentNumFacts DEF IInv, TypeOK
  <2>2. \A t \in A : t \in CurrentGroup(p) /\ t[1] = p /\ t[2] \in Nat /\ t = <<t[1], t[2]>>
    BY ActiveFacts, SubTaskFacts DEF SubTasksOf
  <2>3. \A t \in A : f[t] \in lo .. hi
    BY <2>1, <2>2 DEF CurrentGroup, GroupFrom
  <2>4. f \in Injection(A, lo .. hi)
    BY <2>2, <2>3 DEF Injection, IsInjective
  <2>5. IsFiniteSet(lo .. hi) /\ Cardinality(lo .. hi) = IF lo > hi THEN 0 ELSE hi - lo + 1
    <3> HIDE DEF lo, hi
    <3> QED BY <2>1, FS_Interval
  <2>6. IsFiniteSet(A) /\ Cardinality(A) <= Cardinality(lo .. hi)
    <3> HIDE DEF A, f, lo, hi
    <3> QED BY <2>4, <2>5, FS_Injection
  <2>7. Cardinality(A) \in Nat
    BY <2>6, FS_CardinalityType
  <2>8. Cardinality(lo .. hi) <= MaxConcurrent /\ Cardinality(lo .. hi) \in Int
    BY <2>1, <2>5
  <2> HIDE DEF A, lo, hi
  <2>9. Cardinality(A) <= MaxConcurrent
    BY <2>6, <2>7, <2>8
  <2> QED BY <2>9 DEF A
<1> QED BY <1>1, Invariance, PTL

\* When TaskGroup.Run has returned nothing of it still runs, and nothing runs
\* outside a handler.
THEOREM NoStrayWorkHolds == Spec => []NoStrayWork
<1>1. IInv => NoStrayWork
  BY ActiveFacts DEF IInv, ReportInv, NoStrayWork
<1> QED BY <1>1, Invariance, PTL

\* The results of a pod are those of its last attempt, all of them or none.
THEOREM ResultsFinal == Spec => []ResultsAreFinal
<1>1. IInv => ResultsAreFinal
  <2> SUFFICES ASSUME IInv, NEW p \in collected
               PROVE  /\ {r.task : r \in taskResult[p]} \in {{}, SubTasksOf(p)}
                      /\ \A r \in taskResult[p] : r.attempt = attempt[p] /\ r = Record(r.task)
    BY DEF ResultsAreFinal
  <2>1. p \in Pods /\ phase[p] # "handler"
    BY DEF IInv, ResultInv
  <2>2. from[p] = 0 \/ from[p] >= SubTaskNum[p]
    BY <2>1 DEF IInv, GroupInv
  <2>3. DoneOf(p) = {} \/ DoneOf(p) = SubTasksOf(p)
    BY <2>1, <2>2, SubTaskFacts DEF DoneOf, IInv, TypeOK
  <2>4. taskResult[p] = {Record(t) : t \in DoneOf(p)}
    BY <2>1 DEF IInv, ResultInv
  <2>5. \A t \in DoneOf(p) : Record(t).task = t /\ Record(t).attempt = attempt[p]
    BY <2>1, SubTaskFacts DEF Record, DoneOf
  <2>6. {r.task : r \in taskResult[p]} = DoneOf(p)
    BY <2>4, <2>5
  <2> QED BY <2>3, <2>4, <2>5, <2>6
<1> QED BY <1>1, Invariance, PTL

\* What a report counts, in terms of the subtasks.
LEMMA ReportFacts ==
  ASSUME IInv
  PROVE  /\ SetByTaskResult(Cardinality(AllSubTasks)).status = "error"
              <=> Reported # AllSubTasks
         /\ GroupStatus = "failure" <=> \E t \in Reported : out[t].status = "failure"
         /\ GroupStatus = "failure" <=> FailureNum > 0
         /\ GroupStatus \in {"success", "failure"}
<1> DEFINE total == Cardinality(AllSubTasks)
           Bad(r) == r.err \/ r.artifactErr
           F == {r \in Collected : r.status = "failure"}
<1>1. /\ Reported \in SUBSET AllSubTasks
      /\ Collected = {Record(t) : t \in Reported}
      /\ SuccessNum + FailureNum = Cardinality(Reported)
      /\ total = Cardinality(Reported) <=> Reported = AllSubTasks
  BY CollectedFacts DEF IInv
<1>2. GroupStatus \in {"success", "failure"}
  BY DEF GroupStatus
<1>3. SetByTaskResult(total).status = "error" <=> Reported # AllSubTasks
  <2> HIDE DEF total
  <2> QED BY <1>1, <1>2 DEF SetByTaskResult
<1>4. \A t \in Reported : /\ Bad(Record(t)) <=> out[t].status = "failure"
                          /\ Record(t).status = out[t].status
  BY <1>1 DEF Record, IInv, OutInv
<1>5. GroupStatus = "failure" <=> \E r \in Collected : Bad(r)
  BY DEF GroupStatus
<1>6. GroupStatus = "failure" <=> \E t \in Reported : out[t].status = "failure"
  <2> HIDE DEF Bad
  <2> QED BY <1>1, <1>4, <1>5
<1>7. F # {} <=> \E t \in Reported : out[t].status = "failure"
  BY <1>1, <1>4
<1>8. IsFiniteSet(F)
  <2>1. IsFiniteSet(Collected)
    BY <1>1, CountRecords
  <2> QED BY <2>1, FS_Subset
<1>9. FailureNum > 0 <=> F # {}
  <2>1. FailureNum = Cardinality(F)
    BY DEF FailureNum
  <2> HIDE DEF F
  <2>2. Cardinality(F) \in Nat /\ (Cardinality(F) = 0 <=> F = {})
    BY <1>8, FS_CardinalityType, FS_EmptySet
  <2> QED BY <2>1, <2>2
<1> QED BY <1>2, <1>3, <1>6, <1>7, <1>9

\* The numbers of a report add up, and agree with its status.
THEOREM CountsAgreeHolds == Spec => []CountsAgree
<1>1. IInv => CountsAgree
  <2> SUFFICES ASSUME IInv, report.status # "none" PROVE CountsAgree
    BY DEF CountsAgree
  <2> DEFINE total == Cardinality(AllSubTasks)
  <2>1. group = "returned"
    BY DEF IInv, TypeOK, ReportInv, NoReport
  <2>2. report = SetByTaskResult(total)
    BY <2>1 DEF IInv, ReportInv
  <2>3. /\ SuccessNum \in Nat /\ FailureNum \in Nat /\ total \in Nat
        /\ SuccessNum + FailureNum <= total
    BY CollectedFacts DEF IInv
  <2>4. GroupStatus \in {"success", "failure"} /\ (GroupStatus = "failure" <=> FailureNum > 0)
    BY ReportFacts
  <2> HIDE DEF total
  <2> QED BY <2>2, <2>3, <2>4 DEF SetByTaskResult, CountsAgree
<1> QED BY <1>1, Invariance, PTL

(***************************************************************************)
(* The refinement of DistributedStep.                                      *)
(***************************************************************************)
Settled == {p \in Pods : phase[p] \in {"returned", "errored"}}
Verdicts == [t \in AllSubTasks |-> VerdictOf(t)]
Broken == \E p \in Pods : phase[p] = "errored"

\* The subtasks of the abstract step are those of the group.
LEMMA StepTasks == Step!Tasks = AllSubTasks
BY DEF Step!Tasks, AllSubTasks

\* A collected pod shows the verdicts of its finished groups.
VerdictsShown ==
  \A t \in AllSubTasks :
    VerdictOf(t) = IF t[1] \in collected /\ t \in DoneOf(t[1])
                   THEN out[t].status ELSE "none"

\* What DistributedStep sees of a collected pod is the status of its subtasks.
LEMMA VerdictFacts == IInv => VerdictsShown
<1> SUFFICES ASSUME IInv, NEW t \in AllSubTasks
             PROVE  VerdictOf(t) = IF t[1] \in collected /\ t \in DoneOf(t[1])
                                   THEN out[t].status ELSE "none"
  BY DEF VerdictsShown
<1> DEFINE mine == {r \in taskResult[t[1]] : r.task = t}
<1>1. taskResult[t[1]] = {Record(u) : u \in DoneOf(t[1])}
  BY SubTaskFacts DEF IInv, ResultInv
<1>2. \A u \in DoneOf(t[1]) : Record(u).task = u
  BY DEF Record
<1>3. mine = IF t \in DoneOf(t[1]) THEN {Record(t)} ELSE {}
  BY <1>1, <1>2
<1>4. Record(t).status = out[t].status /\ out[t].status \in {"success", "failure"}
  BY DEF Record, IInv, TypeOK, Results, Statuses
<1>5. VerdictOf(t) = IF t[1] \notin collected \/ mine = {} THEN "none"
                     ELSE IF \E r \in mine : r.status = "failure" THEN "failure" ELSE "success"
  BY DEF VerdictOf
<1> QED
  <2> HIDE DEF mine
  <2> QED BY <1>3, <1>4, <1>5

\* Steps that settle no pod and decide nothing are invisible.
LEMMA InvisibleStep ==
  ASSUME IInv,
         UNCHANGED <<group, collected, report>>,
         \A p \in Pods : phase'[p] \in {"returned", "errored"} \/ phase[p] \in {"returned", "errored"}
                         => phase'[p] = phase[p],
         \A p \in collected : taskResult'[p] = taskResult[p]
  PROVE  UNCHANGED Step!vars
<1>1. Settled' = Settled /\ Broken' = Broken
  BY DEF Settled, Broken
<1>2. Verdicts' = Verdicts
  BY DEF Verdicts, VerdictOf
<1>3. Outcome' = Outcome
  BY DEF Outcome
<1> QED BY <1>1, <1>2, <1>3 DEF Step!vars, Settled, Verdicts, Broken

\* The end of an attempt settles its pod, or is a retry and invisible.
LEMMA EndAttemptRefines ==
  ASSUME IInv, NEW p \in Pods, phase[p] \in {"launching", "teardown"},
         NEW result, EndAttempt(p, result),
         UNCHANGED <<group, attempt, from, subVars, taskResult, finished, report>>
  PROVE  Step!Settle(p) \/ UNCHANGED Step!vars
<1>1. group = "waiting" /\ p \notin collected /\ p \notin Settled
  BY BusyPod DEF IInv, ResultInv, Settled
<1>2. Outcome' = Outcome
  BY <1>1 DEF Outcome
<1>3. CASE Retry(p)
  <2>1. \A q \in Pods : phase'[q] = IF q = p THEN "backoff" ELSE phase[q]
    BY <1>3 DEF Retry, IInv, TypeOK
  <2> QED BY <1>1, <1>3, <2>1, InvisibleStep DEF Retry
<1>4. CASE FailTask(p)
  <2>1. \A q \in Pods : phase'[q] = IF q = p THEN "errored" ELSE phase[q]
    BY <1>4 DEF FailTask, IInv, TypeOK
  <2>2. Settled' = Settled \cup {p} /\ Broken' = TRUE
    BY <2>1 DEF Settled, Broken
  <2>3. Verdicts' = Verdicts
    BY <1>4 DEF FailTask, Verdicts, VerdictOf
  <2> QED BY <1>1, <1>2, <2>2, <2>3 DEF Step!Settle, Step!Break, Settled, Verdicts, Broken
<1>5. CASE Collect(p)
  <2>1. \A q \in Pods : phase'[q] = IF q = p THEN "returned" ELSE phase[q]
    BY <1>5 DEF Collect, IInv, TypeOK
  <2>2. Settled' = Settled \cup {p} /\ (Broken' <=> Broken)
    BY <1>1, <2>1 DEF Settled, Broken
  <2>3. collected' = collected \cup {p}
    BY <1>5 DEF Collect
  <2>4. \A t \in AllSubTasks : t \notin SubTasksOf(p) => VerdictOf(t)' = VerdictOf(t)
    BY <2>3, SubTaskFacts DEF VerdictOf
  <2>5. \A t \in SubTasksOf(p) : t \in AllSubTasks /\ t[1] = p
    BY SubTaskFacts
  <2>6. IInv'
    BY EndAttemptIInv
  <2>7. \A t \in SubTasksOf(p) :
          VerdictOf(t)' = IF t \in DoneOf(p) THEN out[t].status ELSE "none"
    <3> SUFFICES ASSUME NEW t \in SubTasksOf(p)
                 PROVE  VerdictOf(t)' = IF t \in DoneOf(p) THEN out[t].status ELSE "none"
      OBVIOUS
    <3>1. DoneOf(p)' = DoneOf(p) /\ out' = out
      BY DEF DoneOf, subVars
    <3>2. t \in AllSubTasks /\ t[1] = p
      BY <2>5
    <3>3. VerdictsShown'
      BY <2>6, VerdictFacts, PTL
    <3> QED BY <2>3, <3>1, <3>2, <3>3 DEF VerdictsShown
  <2>8. DoneOf(p) = {} \/ DoneOf(p) = SubTasksOf(p)
    BY SubTaskFacts DEF IInv, TypeOK, GroupInv, DoneOf
  <2>9. CASE DoneOf(p) = {}
    <3>1. \A t \in SubTasksOf(p) : VerdictOf(t) = "none"
      BY <1>1, <2>5, VerdictFacts DEF VerdictsShown
    <3>2. Verdicts' = Verdicts
      BY <2>4, <2>7, <2>9, <3>1 DEF Verdicts
    <3> QED BY <1>1, <1>2, <2>2, <3>2 DEF Step!Settle, Step!DeliverNone, Settled, Verdicts, Broken
  <2>10. CASE DoneOf(p) = SubTasksOf(p)
    <3> DEFINE f == [t \in SubTasksOf(p) |-> out[t].status]
    <3>1. f \in [SubTasksOf(p) -> {"success", "failure"}]
      BY <2>5 DEF IInv, TypeOK, Results, Statuses
    <3>2. Verdicts' = [t \in AllSubTasks |-> IF t \in SubTasksOf(p) THEN f[t] ELSE Verdicts[t]]
      BY <2>4, <2>7, <2>10 DEF Verdicts
    <3> HIDE DEF f
    <3>3. Step!DeliverAll(p)
      BY <2>2, <3>1, <3>2, StepTasks DEF Step!DeliverAll, Verdicts, Broken
    <3> QED BY <1>1, <1>2, <2>2, <3>3 DEF Step!Settle, Settled
  <2> QED BY <2>8, <2>9, <2>10
<1> QED BY <1>3, <1>4, <1>5 DEF EndAttempt

\* TaskGroup.Run's return is the abstract decision.
LEMMA ReturnRefines ==
  ASSUME IInv, ReturnResults \/ ReturnError
  PROVE  Step!Decide
<1>1. Settled = Pods /\ Outcome = "pending"
  BY DEF ReturnResults, ReturnError, AllSettled, Settled, Outcome
<1>2. Settled' = Settled /\ Verdicts' = Verdicts /\ Broken' = Broken
  BY DEF ReturnResults, ReturnError, podVars, Settled, Verdicts, VerdictOf, Broken
<1>3. Outcome' = IF Broken THEN "aborted"
                 ELSE IF \E t \in AllSubTasks : Verdicts[t] = "none" THEN "error"
                 ELSE IF \E t \in AllSubTasks : Verdicts[t] = "failure" THEN "failure"
                 ELSE "success"
  <2>1. CASE ReturnError
    BY <2>1 DEF ReturnError, Outcome, Broken
  <2>2. CASE ReturnResults
    <3> DEFINE total == Cardinality(AllSubTasks)
    <3>1. ~Broken /\ collected = Pods
      BY <2>2 DEF ReturnResults, AllSettled, Broken, IInv, ResultInv
    <3>2. Outcome' = SetByTaskResult(total).status
      BY <2>2 DEF ReturnResults, Outcome, IInv, ReportInv, NoReport
    <3>3. \A t \in AllSubTasks : t \in Reported <=> t \in DoneOf(t[1])
      BY <3>1, SubTaskFacts DEF Reported, DoneOf
    <3>4. \A t \in AllSubTasks :
            Verdicts[t] = IF t \in Reported THEN out[t].status ELSE "none"
      BY <3>1, <3>3, VerdictFacts, SubTaskFacts DEF Verdicts, VerdictsShown
    <3>5. \A t \in AllSubTasks : out[t].status \in {"success", "failure"}
      BY DEF IInv, TypeOK, Results, Statuses
    <3>6. Reported \in SUBSET AllSubTasks
      BY CollectedFacts DEF IInv
    <3>7. SetByTaskResult(total).status \in {"error", GroupStatus}
      <4> HIDE DEF total
      <4> QED BY DEF SetByTaskResult
    <3> HIDE DEF total
    <3>8. (\E t \in AllSubTasks : Verdicts[t] = "none") <=> Reported # AllSubTasks
      BY <3>4, <3>5, <3>6
    <3>9. Reported = AllSubTasks =>
            ((\E t \in AllSubTasks : Verdicts[t] = "failure") <=> GroupStatus = "failure")
      BY <3>4, ReportFacts
    <3> QED BY <3>1, <3>2, <3>7, <3>8, <3>9, ReportFacts DEF total
  <2> QED BY <2>1, <2>2
<1> QED BY <1>1, <1>2, <1>3, StepTasks
    DEF Step!Decide, Step!Verdict, Settled, Verdicts, Broken

\* Every step of the group is a step of DistributedStep, or invisible to it.
LEMMA StepRefines == IInv /\ [Next]_vars => [Step!Next]_(Step!vars)
<1> SUFFICES ASSUME IInv, [Next]_vars PROVE Step!Next \/ UNCHANGED Step!vars
  OBVIOUS
<1>1. ASSUME NEW p \in Pods, TaskStep(p) PROVE Step!Next \/ UNCHANGED Step!vars
  <2>1. CASE Launch(p)
    <3>1. \A q \in Pods : phase'[q] = IF q = p THEN "launching" ELSE phase[q]
      BY <2>1 DEF Launch, IInv, TypeOK
    <3>2. p \notin collected
      BY <2>1 DEF Launch, IInv, ResultInv
    <3>3. \A q \in collected : taskResult'[q] = taskResult[q]
      BY <2>1, <3>2 DEF Launch, IInv, TypeOK
    <3> QED BY <2>1, <3>1, <3>3, InvisibleStep DEF Launch
  <2>2. CASE EnterHandler(p)
    <3>1. \A q \in Pods : phase'[q] = IF q = p THEN "handler" ELSE phase[q]
      BY <2>2 DEF EnterHandler, IInv, TypeOK
    <3> QED BY <2>2, <3>1, InvisibleStep DEF EnterHandler
  <2>3. CASE FinishGroup(p)
    <3>1. \A q \in Pods : phase'[q] = phase[q] \/ (q = p /\ phase'[q] = "teardown")
      BY <2>3 DEF FinishGroup, IInv, TypeOK
    <3>2. phase[p] = "handler" /\ p \notin collected
      BY <2>3 DEF FinishGroup, IInv, ResultInv
    <3>3. \A q \in collected : taskResult'[q] = taskResult[q]
      BY <2>3, <3>2 DEF FinishGroup, IInv, TypeOK
    <3> QED BY <2>3, <3>1, <3>2, <3>3, InvisibleStep DEF FinishGroup
  <2>4. CASE JobFailsEarly(p)
    BY <2>4, EndAttemptRefines DEF JobFailsEarly, Step!Next
  <2>5. CASE JobEnds(p)
    BY <2>5, EndAttemptRefines DEF JobEnds, Step!Next
  <2> QED BY <1>1, <2>1, <2>2, <2>3, <2>4, <2>5 DEF TaskStep
<1>2. ASSUME NEW t \in AllSubTasks, SubTaskStep(t) PROVE UNCHANGED Step!vars
  BY <1>2, InvisibleStep DEF SubTaskStep, Execute, CopyArtifact, OnFinish, AddSubTask, podVars
<1>3. CASE RunGroup
  <2>1. /\ Settled' = Settled /\ Verdicts' = Verdicts
        /\ Broken' = Broken /\ Outcome' = Outcome
    BY <1>3 DEF RunGroup, podVars, Settled, Verdicts, VerdictOf, Broken, Outcome
  <2> QED BY <2>1 DEF Step!vars, Settled, Verdicts, Broken
<1>4. CASE ReturnResults \/ ReturnError
  BY <1>4, ReturnRefines DEF Step!Next
<1>5. CASE Done \/ UNCHANGED vars
  BY <1>5, InvisibleStep DEF Done, vars
<1> QED BY <1>1, <1>2, <1>3, <1>4, <1>5 DEF Next, GroupStep

\* The task group implements DistributedStep: pods settle once, deliver all of
\* their verdicts or none, and the outcome is decided by every verdict.
THEOREM Refinement == Spec => ImplementsDistributedStep
<1>1. Init => Step!Init
  <2> SUFFICES ASSUME Init PROVE Step!Init
    OBVIOUS
  <2>1. Settled = {} /\ Broken = FALSE /\ Outcome = "pending"
    BY DEF Init, Settled, Broken, Outcome
  <2>2. Verdicts = [t \in AllSubTasks |-> "none"]
    BY DEF Init, Verdicts, VerdictOf
  <2> QED BY <2>1, <2>2, StepTasks DEF Step!Init, Settled, Verdicts, Broken
<1>2. IInv /\ [Next]_vars => [Step!Next]_(Step!vars)
  BY StepRefines
<1> QED BY <1>1, <1>2, Invariance, PTL DEF Spec, ImplementsDistributedStep, Step!Spec
-----------------------------------------------------------------------------
(***************************************************************************)
(* Why a step ends.                                                        *)
(***************************************************************************)
\* What is left of a pod is never negative: the last attempt is not left behind, nor is
\* the last key while the handler runs.
LEMMA LeftFacts ==
  ASSUME IInv
  PROVE  /\ \A p \in Pods : PodLeft(p) \in Nat \X Nat \X Nat
         /\ \A t \in AllSubTasks : SubLeft(t) \in 0 .. 5
         /\ GroupLeft \in 0 .. 2
<1>1. ASSUME NEW p \in Pods PROVE PodLeft(p) \in Nat \X Nat \X Nat
  <2>1. MaxAttempts - attempt[p] \in Nat
    BY MaxAttemptsAssumption DEF IInv, TypeOK
  <2>2. PhaseLeft(p) \in Nat
    BY DEF PhaseLeft
  <2>3. KeysLeft(p) \in Nat
    <3>1. from[p] \in Nat /\ SubTaskNum[p] \in Nat
      BY SubTaskNumAssumption DEF IInv, TypeOK
    <3>2. phase[p] = "handler" => from[p] <= SubTaskNum[p]
      BY <3>1 DEF IInv, GroupInv
    <3> QED BY <3>1, <3>2 DEF KeysLeft
  <2> QED BY <2>1, <2>2, <2>3 DEF PodLeft
<1>2. ASSUME NEW t \in AllSubTasks PROVE SubLeft(t) \in 0 .. 5
  BY DEF IInv, TypeOK, SubPhases, SubLeft
<1>3. GroupLeft \in 0 .. 2
  BY DEF GroupLeft
<1> QED BY <1>1, <1>2, <1>3

LEMMA SameSubTask ==
  ASSUME NEW t \in AllSubTasks, sub'[t] = sub[t]
  PROVE  SubLeft(t)' = SubLeft(t)
BY DEF SubLeft

\* One pod goes on; its subtasks may start anew, the rest stays as it is.
LEMMA PodStepAdvances ==
  ASSUME IInv, NEW p \in Pods, PodAdvances(p), UNCHANGED group,
         \A q \in Pods \ {p} : UNCHANGED <<phase[q], attempt[q], from[q]>>,
         \A t \in AllSubTasks : t[1] # p => sub'[t] = sub[t]
  PROVE  Advances
<1>1. \A q \in Pods : PodLeft(q)' = PodLeft(q) \/ PodAdvances(q)
  BY DEF PodLeft, PhaseLeft, KeysLeft
<1>2. \A t \in AllSubTasks : SubLeft(t)' <= SubLeft(t) \/ PodAdvances(t[1])
  BY LeftFacts, SameSubTask
<1>3. GroupLeft' <= GroupLeft
  BY LeftFacts DEF GroupLeft
<1> QED BY <1>1, <1>2, <1>3, LeftFacts DEF Advances

\* A subtask goes on, or the group does, and no pod changes.
LEMMA InnerStepAdvances ==
  ASSUME IInv, UNCHANGED podVars, GroupLeft' <= GroupLeft,
         \A t \in AllSubTasks : SubLeft(t)' <= SubLeft(t),
         \/ GroupLeft' < GroupLeft
         \/ \E t \in AllSubTasks : SubLeft(t)' < SubLeft(t)
  PROVE  Advances
<1>1. \A q \in Pods : PodLeft(q)' = PodLeft(q)
  BY DEF PodLeft, PhaseLeft, KeysLeft, podVars
<1> QED BY <1>1, LeftFacts DEF Advances

LEMMA LaunchAdvances ==
  ASSUME IInv, NEW p \in Pods, Launch(p)
  PROVE  Advances
<1>1. attempt[p] \in Nat /\ attempt'[p] = attempt[p] + 1
  BY DEF Launch, IInv, TypeOK
<1>2. PodAdvances(p)
  BY <1>1, MaxAttemptsAssumption DEF PodAdvances, PodLeft, Lower
<1> QED BY <1>2, PodStepAdvances DEF Launch, IInv, TypeOK

LEMMA EnterHandlerAdvances ==
  ASSUME IInv, NEW p \in Pods, EnterHandler(p)
  PROVE  Advances
<1>1. phase[p] = "launching" /\ phase'[p] = "handler" /\ attempt' = attempt
  BY DEF EnterHandler, IInv, TypeOK
<1>2. PodAdvances(p)
  <2>1. PhaseLeft(p) = 4 /\ PhaseLeft(p)' = 3
    BY <1>1 DEF PhaseLeft
  <2> QED BY <1>1, <2>1 DEF PodAdvances, PodLeft, Lower
<1>3. \A t \in AllSubTasks : t[1] # p => sub'[t] = sub[t]
  BY DEF EnterHandler, Spawn, GroupFrom, SubTasksOf
<1> QED BY <1>2, <1>3, PodStepAdvances DEF EnterHandler, IInv, TypeOK

\* The next group starts behind this one, which is never empty then.
LEMMA FinishGroupAdvances ==
  ASSUME IInv, NEW p \in Pods, FinishGroup(p)
  PROVE  Advances
<1> DEFINE next == from[p] + ConcurrentNum(p)
<1>1. /\ phase[p] = "handler" /\ attempt' = attempt /\ from'[p] = next
      /\ from[p] \in Nat
  BY DEF FinishGroup, IInv, TypeOK
<1>2. PodAdvances(p)
  <2>1. CASE next < SubTaskNum[p]
    <3>1. phase'[p] = "handler"
      BY <1>1, <2>1 DEF FinishGroup
    <3>2. SubTaskNum[p] \in Nat /\ ConcurrentNum(p) \in Nat \ {0}
      BY <1>1, <2>1, ConcurrentNumFacts
    <3>3. KeysLeft(p)' < KeysLeft(p)
      BY <1>1, <3>1, <3>2 DEF KeysLeft
    <3>4. PhaseLeft(p)' = PhaseLeft(p)
      BY <1>1, <3>1 DEF PhaseLeft
    <3> QED BY <1>1, <3>3, <3>4 DEF PodAdvances, PodLeft, Lower
  <2>2. CASE ~(next < SubTaskNum[p])
    <3>1. phase'[p] = "teardown"
      BY <2>2 DEF FinishGroup, IInv, TypeOK
    <3>2. PhaseLeft(p) = 3 /\ PhaseLeft(p)' = 2
      BY <1>1, <3>1 DEF PhaseLeft
    <3> QED BY <1>1, <3>2 DEF PodAdvances, PodLeft, Lower
  <2> QED BY <2>1, <2>2
<1>3. \A t \in AllSubTasks : t[1] # p => sub'[t] = sub[t]
  BY DEF FinishGroup, Spawn, GroupFrom, SubTasksOf
<1>4. \A q \in Pods \ {p} : UNCHANGED <<phase[q], attempt[q], from[q]>>
  BY DEF FinishGroup, IInv, TypeOK
<1> QED BY <1>2, <1>3, <1>4, PodStepAdvances DEF FinishGroup

LEMMA EndAttemptAdvances ==
  ASSUME IInv, NEW p \in Pods, phase[p] \in {"launching", "teardown"},
         NEW result, EndAttempt(p, result),
         UNCHANGED <<group, attempt, from, subVars, taskResult, finished, report>>
  PROVE  Advances
<1>1. /\ phase'[p] \in {"returned", "errored", "backoff"}
      /\ \A q \in Pods \ {p} : phase'[q] = phase[q]
  BY DEF EndAttempt, Collect, FailTask, Retry, IInv, TypeOK
<1>2. PhaseLeft(p) \in {2, 4} /\ PhaseLeft(p)' \in {0, 1}
  BY <1>1 DEF PhaseLeft
<1>3. PodAdvances(p)
  BY <1>2 DEF PodAdvances, PodLeft, Lower
<1> QED BY <1>1, <1>3, PodStepAdvances DEF subVars

LEMMA SubTaskStepAdvances ==
  ASSUME IInv, NEW t \in AllSubTasks, SubTaskStep(t)
  PROVE  Advances
<1>1. /\ SubLeft(t)' < SubLeft(t) /\ SubLeft(t)' <= SubLeft(t)
      /\ \A u \in AllSubTasks \ {t} : sub'[u] = sub[u]
      /\ UNCHANGED <<group, podVars>>
  BY DEF SubTaskStep, Execute, CopyArtifact, OnFinish, AddSubTask, SubLeft, IInv, TypeOK
<1>2. \A u \in AllSubTasks : SubLeft(u)' <= SubLeft(u)
  <2> SUFFICES ASSUME NEW u \in AllSubTasks PROVE SubLeft(u)' <= SubLeft(u)
    OBVIOUS
  <2>1. SubLeft(u) \in 0 .. 5
    BY LeftFacts
  <2>2. CASE u = t
    BY <1>1, <2>2
  <2>3. CASE u # t
    BY <1>1, <2>1, <2>3, SameSubTask
  <2> QED BY <2>2, <2>3
<1>3. GroupLeft' <= GroupLeft
  BY <1>1, LeftFacts DEF GroupLeft
<1> QED BY <1>1, <1>2, <1>3, InnerStepAdvances

LEMMA GroupStepAdvances ==
  ASSUME IInv, GroupStep
  PROVE  Advances
<1>1. GroupLeft' < GroupLeft /\ UNCHANGED podVars /\ sub' = sub
  BY DEF GroupStep, RunGroup, ReturnResults, ReturnError, GroupLeft, subVars
<1>2. \A t \in AllSubTasks : SubLeft(t)' <= SubLeft(t)
  BY <1>1, LeftFacts, SameSubTask
<1>3. GroupLeft' <= GroupLeft
  BY <1>1 DEF GroupLeft
<1> QED BY <1>1, <1>2, <1>3, InnerStepAdvances

\* TaskGroup.Run, runWithRetry and SubTaskScheduler.Schedule leave less to do with every
\* step, whatever Jobs and subtasks do: no retry and no group can come up again for ever.
THEOREM GroupEnds == Spec => GroupAdvances
<1>1. ASSUME IInv, [Next]_vars PROVE [Advances]_vars
  <2>1. ASSUME NEW p \in Pods, TaskStep(p) PROVE Advances
    BY <1>1, <2>1, LaunchAdvances, EnterHandlerAdvances, FinishGroupAdvances,
       EndAttemptAdvances DEF TaskStep, JobFailsEarly, JobEnds
  <2>2. ASSUME NEW t \in AllSubTasks, SubTaskStep(t) PROVE Advances
    BY <1>1, <2>2, SubTaskStepAdvances
  <2>3. CASE GroupStep
    BY <1>1, <2>3, GroupStepAdvances
  <2>4. CASE Done \/ UNCHANGED vars
    BY <2>4 DEF Done
  <2> QED BY <1>1, <2>1, <2>2, <2>3, <2>4 DEF Next
<1>2. IInv /\ [Next]_vars => [Advances]_vars
  BY <1>1
<1> QED BY <1>2, Invariance, PTL DEF Spec, GroupAdvances
=============================================================================

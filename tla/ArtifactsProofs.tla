----------------------------- MODULE ArtifactsProofs -----------------------------
(***************************************************************************)
(* Theorems about Artifacts, for every step, whatever its pods, containers *)
(* and artifacts, and every number of attempts and runs.                   *)
(***************************************************************************)
EXTENDS Artifacts, TLAPS, FiniteSetTheorems

(***************************************************************************)
(* Constants, files and directories.                                       *)
(***************************************************************************)

LEMMA ConstantFacts ==
  /\ Cardinality(Pods) \in Nat
  /\ ArtifactNum \in Nat
  /\ MainNames \subseteq Names
  /\ {Absent, Partial} \subseteq Contents
  /\ 0 .. MaxAttempts \subseteq Contents
  /\ NoDir \notin Dirs
  /\ NoFile \in [of : 0 .. ArtifactNum, by : Contents]
<1>1. Cardinality(Pods) \in Nat
  BY PodAssumption, FS_CardinalityType
<1>2. ArtifactNum \in Nat /\ MainNames \subseteq Names
  BY NameAssumption DEF ArtifactNum, MainNames, Names
<1>3. {Absent, Partial} \subseteq Contents /\ 0 .. MaxAttempts \subseteq Contents
  BY BoundAssumption DEF Absent, Partial, Contents
<1>4. NoFile \in [of : 0 .. ArtifactNum, by : Contents]
  BY <1>2, <1>3 DEF NoFile
<1> QED BY <1>1, <1>2, <1>3, <1>4 DEF NoDir, Dirs

LEMMA MainNameFacts ==
  ASSUME NEW a \in MainNames
  PROVE  a \in Names /\ a \in Int /\ a <= ArtifactNum
BY NameAssumption DEF MainNames, Names, ArtifactNum

\* There is a directory for each Task that is built.
LEMMA DirForPod ==
  ASSUME NEW S, S \subseteq Pods, NEW p \in Pods \ S
  PROVE  Cardinality(S) + 1 \in Dirs
<1>1. IsFiniteSet(S) /\ S \cup {p} \subseteq Pods
  BY PodAssumption, FS_Subset
<1>2. Cardinality(S) \in Nat /\ Cardinality(S \cup {p}) = Cardinality(S) + 1
  BY <1>1, FS_CardinalityType, FS_AddElement
<1>3. Cardinality(S \cup {p}) <= Cardinality(Pods)
  BY <1>1, PodAssumption, FS_Subset
<1> QED BY <1>2, <1>3, ConstantFacts DEF Dirs

LEMMA NoFilesFacts ==
  /\ NoFiles \in [Names -> [Dirs -> [Containers -> Contents]]]
  /\ \A a \in Names : \A d \in Dirs : \A c \in Containers : NoFiles[a][d][c] = Absent
BY ConstantFacts DEF NoFiles

\* A copy writes one file.
LEMMA CopyFacts ==
  ASSUME file \in [Names -> [Dirs -> [Containers -> Contents]]],
         NEW a \in Names, NEW d \in Dirs, NEW c \in Containers, NEW v \in Contents,
         file' = [file EXCEPT ![a][d][c] = v]
  PROVE  /\ file' \in [Names -> [Dirs -> [Containers -> Contents]]]
         /\ \A b \in Names : \A e \in Dirs : \A k \in Containers :
              file'[b][e][k] = IF b = a /\ e = d /\ k = c THEN v ELSE file[b][e][k]
<1> DEFINE F == [file[a] EXCEPT ![d] = [file[a][d] EXCEPT ![c] = v]]
<1>1. file' = [file EXCEPT ![a] = F]
  OBVIOUS
<1>2. F \in [Dirs -> [Containers -> Contents]]
  OBVIOUS
<1>3. \A e \in Dirs : \A k \in Containers :
        F[e][k] = IF e = d /\ k = c THEN v ELSE file[a][e][k]
  OBVIOUS
<1> HIDE DEF F
<1>4. file' \in [Names -> [Dirs -> [Containers -> Contents]]]
  BY <1>1, <1>2
<1>5. \A b \in Names : file'[b] = IF b = a THEN F ELSE file[b]
  BY <1>1
<1> QED BY <1>3, <1>4, <1>5

(***************************************************************************)
(* What a step of the run leaves alone.                                    *)
(***************************************************************************)

\* What is said of attempts, subtasks and copies, while none of them goes on.
LEMMA SameStep ==
  ASSUME AInv, UNCHANGED <<dirOf, file, stepVars>>
  PROVE  AttemptInv' /\ SubTaskInv' /\ CopyInv' /\ OneDirectory'
BY DEF AInv, stepVars, AttemptInv, SubTaskInv, CopyInv, OneDirectory

LEMMA SamePath ==
  ASSUME UNCHANGED <<dirOf, file>>, NEW a
  PROVE  Found(a)' = Found(a) /\ LocalPathByName(a)' = LocalPathByName(a)
BY DEF Found, LocalPathByName

\* The run goes on, or ends with an error, and nothing else changes.
LEMMA MoveKeeps ==
  ASSUME AInv, UNCHANGED <<runNum, built, dirOf, file, stepVars, path, outVars>>,
         pc' \in {"idle", "step", "consume", "export", "done"},
         pc' \in {"consume", "export", "done"} => AllReturned,
         pc' # "idle" => pc # "idle",
         pc' \in {"step", "consume"} => exporting = 0,
         pc' = "done" => exporting = ExportNum
  PROVE  AInv'
<1>1. TypeOK'
  BY DEF AInv, TypeOK, stepVars, outVars
<1>2. BuildInv' /\ MountFindsCopy'
  BY DEF BuildInv, MountFindsCopy
<1>3. ReturnedInv'
  BY DEF ReturnedInv, AllReturned, stepVars
<1>4. ExportInv'
  BY DEF AInv, ExportInv, IsExported, stepVars, outVars
<1> QED BY <1>1, <1>2, <1>3, <1>4, SameStep DEF AInv

LEMMA AbortKeeps == ASSUME AInv, Abort, UNCHANGED outVars PROVE AInv'
BY MoveKeeps DEF Abort

LEMMA InitGather == Init => AInv
<1> SUFFICES ASSUME Init PROVE AInv
  OBVIOUS
<1>1. TypeOK
  <2>1. path \in [name : 0 .. ArtifactNum, dir : {NoDir} \cup Dirs, in : SUBSET Containers]
    BY ConstantFacts DEF Init, NoPath
  <2>2. file \in [Names -> [Dirs -> [Containers -> Contents]]]
    BY NoFilesFacts DEF Init
  <2>3. exporting \in 0 .. ExportNum
    BY ExportAssumption DEF Init
  <2>4. out \in [Paths -> [Containers -> [of : 0 .. ArtifactNum, by : Contents]]]
    BY ConstantFacts DEF Init
  <2> QED BY <2>1, <2>2, <2>3, <2>4, ConstantFacts, NameAssumption, BoundAssumption DEF Init, TypeOK
<1>2. BuildInv /\ AttemptInv /\ ReturnedInv /\ MountFindsCopy
  BY BoundAssumption DEF Init, BuildInv, AttemptInv, ReturnedInv, MountFindsCopy
<1>3. SubTaskInv /\ CopyInv
  BY DEF Init, SubTaskInv, CopyInv
<1>4. OneDirectory
  BY NoFilesFacts DEF Init, OneDirectory
<1>5. ExportInv
  BY DEF Init, ExportInv
<1> QED BY <1>1, <1>2, <1>3, <1>4, <1>5 DEF AInv

(***************************************************************************)
(* The beginning of a run.                                                 *)
(***************************************************************************)

\* A new process knows no directory and no attempt; what the export path holds is old.
LEMMA StartRunKeeps == ASSUME AInv, StartRun PROVE AInv'
<1>1. TypeOK
  BY DEF AInv
<1>2. TypeOK'
  <2>1. path' \in [name : 0 .. ArtifactNum, dir : {NoDir} \cup Dirs, in : SUBSET Containers]
    BY ConstantFacts DEF StartRun, NoPath
  <2>2. file' \in [Names -> [Dirs -> [Containers -> Contents]]]
    BY NoFilesFacts DEF StartRun
  <2>3. runNum' \in 0 .. MaxRuns /\ exporting' \in 0 .. ExportNum
    BY <1>1, BoundAssumption, ExportAssumption DEF StartRun, TypeOK
  <2> QED BY <1>1, <2>1, <2>2, <2>3, NameAssumption, BoundAssumption DEF StartRun, TypeOK
<1>3. BuildInv' /\ AttemptInv' /\ ReturnedInv' /\ MountFindsCopy'
  BY BoundAssumption DEF StartRun, BuildInv, AttemptInv, ReturnedInv, MountFindsCopy
<1>4. SubTaskInv' /\ CopyInv'
  BY DEF StartRun, SubTaskInv, CopyInv
<1>5. OneDirectory'
  BY NoFilesFacts DEF StartRun, OneDirectory
<1>6. ExportInv'
  BY DEF StartRun, ExportInv
<1> QED BY <1>2, <1>3, <1>4, <1>5, <1>6 DEF AInv

\* A Task is built before anything is copied, so no file is in a directory that is
\* forgotten.
LEMMA BuildTaskKeeps == ASSUME AInv, NEW p \in Pods, BuildTask(p) PROVE AInv'
<1>1. TypeOK /\ BuildInv /\ AttemptInv /\ SubTaskInv /\ ExportInv
  BY DEF AInv
<1>2. /\ pc = "build" /\ UNCHANGED <<runNum, pc, file, path>>
      /\ UNCHANGED <<phase, attempt, next, status>> /\ UNCHANGED <<exporting, out, old>>
  BY DEF BuildTask, stepVars, outVars
<1>3. file = NoFiles /\ \A c \in Containers : next[c] = 0 /\ status[c] = "none"
  BY <1>1, <1>2 DEF BuildInv, SubTaskInv
<1>4. TypeOK'
  <2>1. built' \subseteq Pods
    BY <1>1 DEF BuildTask, TypeOK
  <2>2. PICK made \in 0 .. ArtifactNum : dirOf' = AddArtifacts(made, Cardinality(built) + 1)
    BY DEF BuildTask
  <2>3. Cardinality(built) + 1 \in Dirs
    BY <1>1, DirForPod DEF BuildTask, TypeOK
  <2>4. dirOf' \in [Names -> {NoDir} \cup Dirs]
    BY <1>1, <2>2, <2>3 DEF AddArtifacts, TypeOK
  <2> QED BY <1>1, <1>2, <2>1, <2>4 DEF TypeOK
<1>5. BuildInv' /\ AttemptInv' /\ SubTaskInv' /\ ExportInv'
  BY <1>1, <1>2 DEF BuildInv, AttemptInv, SubTaskInv, ExportInv
<1>6. CopyInv'
  BY <1>2, <1>3 DEF CopyInv
<1>7. OneDirectory'
  BY <1>2, <1>3, NoFilesFacts DEF OneDirectory
<1>8. ReturnedInv' /\ MountFindsCopy'
  BY <1>2 DEF ReturnedInv, MountFindsCopy
<1> QED BY <1>4, <1>5, <1>6, <1>7, <1>8 DEF AInv

LEMMA StartStepKeeps == ASSUME AInv, StartStep PROVE AInv'
<1>1. exporting = 0
  BY DEF AInv, ExportInv, StartStep
<1> QED BY <1>1, MoveKeeps DEF StartStep

(***************************************************************************)
(* The attempts.                                                           *)
(***************************************************************************)

\* What is said of the export paths, while the step is under way.
LEMMA StepExport ==
  ASSUME AInv, pc' = pc, UNCHANGED <<exporting, out, old>>,
         pc \in {"step", "consume", "mount"} \/ pc = "build"
  PROVE  ExportInv'
<1>1. ExportInv /\ exporting = 0
  BY DEF AInv, ExportInv
<1>2. \A e \in Exports : ~(e <= 0)
  BY ExportAssumption DEF Exports
<1> QED BY <1>1, <1>2 DEF ExportInv

\* While an attempt of a Task runs, the step has not ended.
LEMMA RunningFacts ==
  ASSUME AInv, Alive, NEW p \in Pods, phase[p] = "running"
  PROVE  pc = "step"
BY DEF AInv, TypeOK, Alive, BuildInv, ReturnedInv, AllReturned

\* A new attempt of a Task forgets what its subtasks have reported.
LEMMA LaunchKeeps == ASSUME AInv, NEW p \in Pods, Launch(p) PROVE AInv'
<1>1. TypeOK /\ AttemptInv /\ SubTaskInv /\ CopyInv /\ OneDirectory
  BY DEF AInv
<1>2. /\ pc = "step" /\ phase[p] = "waiting"
      /\ UNCHANGED <<runNum, pc, built, dirOf, file, path>>
      /\ UNCHANGED <<exporting, out, old>>
  BY DEF Launch, MayLaunch, outVars
<1>3. attempt[p] \in Nat /\ attempt[p] < MaxAttempts
  BY <1>1, <1>2, BoundAssumption DEF TypeOK, AttemptInv
<1>4. \A q \in Pods : /\ phase'[q] = IF q = p THEN "running" ELSE phase[q]
                      /\ attempt'[q] = IF q = p THEN attempt[p] + 1 ELSE attempt[q]
  BY <1>1 DEF Launch, TypeOK
<1>5. \A c \in Containers : /\ PodOf[c] \in Pods
                            /\ next'[c] = IF PodOf[c] = p THEN 0 ELSE next[c]
                            /\ status'[c] = IF PodOf[c] = p THEN "none" ELSE status[c]
  BY PodAssumption DEF Launch
<1>6. TypeOK'
  <2>1. attempt' \in [Pods -> 0 .. MaxAttempts]
    BY <1>1, <1>3, BoundAssumption DEF Launch, TypeOK
  <2>2. /\ phase' \in [Pods -> {"waiting", "running", "returned", "errored"}]
        /\ next' \in [Containers -> 0 .. (MainNum + 1)]
        /\ status' \in [Containers -> {"none", "success", "failure"}]
    BY <1>1, NameAssumption DEF Launch, TypeOK
  <2> QED BY <1>1, <1>2, <2>1, <2>2 DEF TypeOK
<1>7. BuildInv' /\ ReturnedInv' /\ MountFindsCopy'
  BY <1>2 DEF BuildInv, ReturnedInv, MountFindsCopy
<1>8. AttemptInv'
  BY <1>1, <1>3, <1>4 DEF AttemptInv
<1>9. SubTaskInv'
  BY <1>1, <1>4, <1>5 DEF SubTaskInv
<1>10. CopyInv'
  BY <1>1, <1>2, <1>4, <1>5 DEF CopyInv
<1>11. OneDirectory' /\ ExportInv'
  BY <1>1, <1>2, StepExport DEF OneDirectory
<1> QED BY <1>6, <1>7, <1>8, <1>9, <1>10, <1>11 DEF AInv

\* The command of a subtask has ended, and nothing is copied yet.
LEMMA ExecuteKeeps == ASSUME AInv, NEW c \in Containers, Execute(c) PROVE AInv'
<1>1. TypeOK /\ AttemptInv /\ SubTaskInv /\ CopyInv /\ OneDirectory
  BY DEF AInv
<1>2. /\ PodOf[c] \in Pods /\ phase[PodOf[c]] = "running" /\ next[c] = 0
      /\ UNCHANGED <<runNum, pc, built, dirOf, file, phase, attempt, path>>
      /\ UNCHANGED <<exporting, out, old>>
  BY PodAssumption DEF Execute, outVars
<1>3. pc = "step"
  BY <1>2, RunningFacts DEF Execute
<1>4. PICK s \in {"success", "failure"} : status' = [status EXCEPT ![c] = s]
  BY DEF Execute
<1>5. \A k \in Containers : /\ next'[k] = IF k = c THEN 1 ELSE next[k]
                            /\ status'[k] = IF k = c THEN s ELSE status[k]
  BY <1>1, <1>4 DEF Execute, TypeOK
<1>6. TypeOK'
  <2>1. next' \in [Containers -> 0 .. (MainNum + 1)]
    BY <1>1, NameAssumption DEF Execute, TypeOK
  <2> QED BY <1>1, <1>2, <1>4, <2>1 DEF TypeOK
<1>7. BuildInv' /\ ReturnedInv' /\ MountFindsCopy'
  BY <1>2, <1>3 DEF BuildInv, ReturnedInv, MountFindsCopy
<1>8. AttemptInv' /\ OneDirectory' /\ ExportInv'
  BY <1>1, <1>2, <1>3, StepExport DEF AttemptInv, OneDirectory
<1>9. SubTaskInv'
  BY <1>1, <1>2, <1>5 DEF SubTaskInv, AttemptInv
<1>10. CopyInv'
  <2>1. \A a \in MainNames : ~(a < 1)
    BY NameAssumption DEF MainNames
  <2> QED BY <1>1, <1>2, <1>5, <2>1 DEF CopyInv
<1> QED BY <1>6, <1>7, <1>8, <1>9, <1>10 DEF AInv

\* A copy that ends, or fails with the file as it was or a part of it, is of the next
\* artifact, in its directory.
LEMMA CopyArtifactKeeps == ASSUME AInv, NEW c \in Containers, CopyArtifact(c) PROVE AInv'
<1> DEFINE a == next[c]
           d == dirOf[a]
<1>1. TypeOK /\ AttemptInv /\ SubTaskInv /\ CopyInv /\ OneDirectory
  BY DEF AInv
<1>2. /\ PodOf[c] \in Pods /\ phase[PodOf[c]] = "running"
      /\ UNCHANGED <<runNum, pc, built, dirOf, phase, attempt, path>>
      /\ UNCHANGED <<exporting, out, old>>
  BY PodAssumption DEF CopyArtifact, outVars
<1>3. pc = "step"
  BY <1>2, RunningFacts DEF CopyArtifact
<1>4. a \in MainNames /\ a \in Names /\ d \in {NoDir} \cup Dirs
  BY <1>1, ConstantFacts DEF CopyArtifact, TypeOK
<1>5. attempt[PodOf[c]] \in Contents /\ Partial \in Contents
  BY <1>1, <1>2, ConstantFacts DEF TypeOK
<1>6. \/ /\ d # NoDir
         /\ file' = [file EXCEPT ![a][d][c] = attempt[PodOf[c]]]
         /\ next' = [next EXCEPT ![c] = a + 1]
         /\ status' = status
      \/ /\ CopyFailed(c)
         /\ \/ file' = file
            \/ d # NoDir /\ file' = [file EXCEPT ![a][d][c] = Partial]
  BY DEF CopyArtifact
<1> HIDE DEF a, d
\* Only the file at hand changes.
<1>7. /\ file' \in [Names -> [Dirs -> [Containers -> Contents]]]
      /\ \A b \in Names : \A e \in Dirs : \A k \in Containers :
           b # a \/ e # d \/ k # c => file'[b][e][k] = file[b][e][k]
  <2>1. CASE file' = file
    BY <1>1, <2>1 DEF TypeOK
  <2>2. CASE d # NoDir /\ \E v \in Contents : file' = [file EXCEPT ![a][d][c] = v]
    <3>1. d \in Dirs
      BY <1>4, <2>2
    <3> QED BY <1>1, <1>4, <2>2, <3>1, CopyFacts DEF TypeOK
  <2> QED BY <1>5, <1>6, <2>1, <2>2
<1>8. MainNum \in Nat /\ a \in 1 .. MainNum /\ a = next[c]
  BY <1>4, NameAssumption DEF MainNames, a
\* Only this subtask moves on.
<1>9. /\ next' \in [Containers -> 0 .. (MainNum + 1)]
      /\ status' \in [Containers -> {"none", "success", "failure"}]
      /\ next'[c] \in {a + 1, MainNum + 1}
      /\ status'[c] \in {status[c], "failure"}
      /\ status'[c] = "success" => status[c] = "success" /\ next'[c] = a + 1
      /\ \A k \in Containers \ {c} : next'[k] = next[k] /\ status'[k] = status[k]
  <2>1. CASE next' = [next EXCEPT ![c] = a + 1] /\ status' = status
    BY <1>1, <1>8, <2>1 DEF TypeOK
  <2>2. CASE CopyFailed(c)
    BY <1>1, <1>8, <2>2 DEF CopyFailed, TypeOK
  <2> QED BY <1>6, <2>1, <2>2
\* A copy that ends well is complete.
<1>10. status'[c] = "success" =>
         d # NoDir /\ file'[a][d][c] = attempt[PodOf[c]]
  <2> SUFFICES ASSUME status'[c] = "success"
               PROVE  d # NoDir /\ file'[a][d][c] = attempt[PodOf[c]]
    OBVIOUS
  <2>1. ~CopyFailed(c)
    BY <1>1 DEF CopyFailed, TypeOK
  <2>2. d \in Dirs /\ file' = [file EXCEPT ![a][d][c] = attempt[PodOf[c]]]
    BY <1>4, <1>6, <2>1
  <2> QED BY <1>1, <1>4, <1>5, <1>6, <2>1, <2>2, CopyFacts DEF TypeOK
<1>11. TypeOK'
  BY <1>1, <1>2, <1>7, <1>9 DEF TypeOK
<1>12. BuildInv' /\ ReturnedInv' /\ MountFindsCopy'
  BY <1>2, <1>3 DEF BuildInv, ReturnedInv, MountFindsCopy
<1>13. AttemptInv' /\ ExportInv'
  BY <1>1, <1>2, <1>3, StepExport DEF AttemptInv
<1>14. SubTaskInv'
  <2> SUFFICES ASSUME NEW k \in Containers
               PROVE  /\ status'[k] = "none" <=> next'[k] = 0
                      /\ phase[PodOf[k]] # "running" => next'[k] \in {0, MainNum + 1}
                      /\ status'[k] = "success" => attempt[PodOf[k]] > 0
    BY <1>2 DEF SubTaskInv
  <2>1. CASE k = c
    <3>1. next'[c] # 0 /\ status[c] # "none" /\ status'[c] # "none"
      BY <1>1, <1>8, <1>9 DEF SubTaskInv
    <3> QED BY <1>1, <1>2, <1>9, <2>1, <3>1 DEF SubTaskInv
  <2>2. CASE k # c
    BY <1>1, <1>9, <2>2 DEF SubTaskInv
  <2> QED BY <2>1, <2>2
<1>15. CopyInv'
  <2> SUFFICES ASSUME NEW k \in Containers, status'[k] = "success",
                      NEW b \in MainNames, b < next'[k]
               PROVE  dirOf[b] # NoDir /\ file'[b][dirOf[b]][k] = attempt[PodOf[k]]
    BY <1>2 DEF CopyInv
  <2>1. b \in Names /\ b \in Int /\ dirOf[b] \in {NoDir} \cup Dirs
    BY <1>1, MainNameFacts DEF TypeOK
  <2>2. CASE k = c /\ b = a
    BY <1>10, <2>2 DEF d
  <2>3. CASE k # c \/ b # a
    <3>1. status[k] = "success" /\ b < next[k]
      BY <1>8, <1>9, <2>1, <2>3
    <3>2. dirOf[b] # NoDir /\ file[b][dirOf[b]][k] = attempt[PodOf[k]]
      BY <1>1, <3>1 DEF CopyInv
    <3> QED BY <1>7, <2>1, <2>3, <3>2
  <2> QED BY <2>2, <2>3
<1>16. OneDirectory'
  <2> SUFFICES ASSUME NEW b \in Names, NEW e \in Dirs \ {dirOf[b]}, NEW k \in Containers
               PROVE  file'[b][e][k] = Absent
    BY <1>2 DEF OneDirectory
  <2>1. b # a \/ e # d
    BY DEF d
  <2> QED BY <1>1, <1>7, <2>1 DEF OneDirectory
<1> QED BY <1>11, <1>12, <1>13, <1>14, <1>15, <1>16 DEF AInv

\* An attempt ends when none of its subtasks was begun or all are finished; it is made
\* again as long as that is within the limit.
LEMMA EndAttemptKeeps == ASSUME AInv, NEW p \in Pods, EndAttempt(p) PROVE AInv'
<1>1. TypeOK /\ AttemptInv /\ SubTaskInv /\ CopyInv /\ OneDirectory
  BY DEF AInv
<1>2. /\ phase[p] = "running"
      /\ UNCHANGED <<runNum, pc, built, dirOf, file, attempt, next, status, path>>
      /\ UNCHANGED <<exporting, out, old>>
  BY DEF EndAttempt, outVars
<1>3. pc = "step"
  BY <1>2, RunningFacts DEF EndAttempt
<1>4. /\ phase' \in [Pods -> {"waiting", "running", "returned", "errored"}]
      /\ \A q \in Pods \ {p} : phase'[q] = phase[q]
      /\ phase'[p] = "waiting" => MayRetry(p)
  BY <1>1 DEF EndAttempt, TypeOK
<1>5. TypeOK'
  BY <1>1, <1>2, <1>4 DEF TypeOK
<1>6. BuildInv' /\ ReturnedInv' /\ MountFindsCopy'
  BY <1>2, <1>3 DEF BuildInv, ReturnedInv, MountFindsCopy
<1>7. OneDirectory' /\ CopyInv' /\ ExportInv'
  BY <1>1, <1>2, <1>3, StepExport DEF OneDirectory, CopyInv
<1>8. AttemptInv'
  <2> SUFFICES ASSUME NEW q \in Pods
               PROVE  /\ phase'[q] = "waiting" => attempt[q] < MaxAttempts
                      /\ phase'[q] # "waiting" => attempt[q] > 0
    BY <1>2 DEF AttemptInv
  <2>1. CASE q = p
    BY <1>1, <1>2, <1>4, <2>1 DEF AttemptInv, MayRetry
  <2>2. CASE q # p
    BY <1>1, <1>4, <2>2 DEF AttemptInv
  <2> QED BY <2>1, <2>2
<1>9. SubTaskInv'
  <2> SUFFICES ASSUME NEW k \in Containers, phase[PodOf[k]] = "running",
                      phase'[PodOf[k]] # "running"
               PROVE  next[k] \in {0, MainNum + 1}
    BY <1>1, <1>2 DEF SubTaskInv
  <2>1. k \in ContainersOf(p)
    BY <1>4, PodAssumption DEF ContainersOf
  <2>2. next[k] = 0 \/ next[k] > MainNum
    BY <2>1 DEF EndAttempt
  <2>3. next[k] \in 0 .. (MainNum + 1)
    BY <1>1 DEF TypeOK
  <2> QED BY <2>2, <2>3, NameAssumption
<1> QED BY <1>5, <1>6, <1>7, <1>8, <1>9 DEF AInv

(***************************************************************************)
(* After the step.                                                         *)
(***************************************************************************)

LEMMA EndStepKeeps == ASSUME AInv, EndStep PROVE AInv'
<1>1. exporting = 0
  BY DEF AInv, ExportInv, EndStep
<1> QED BY <1>1, MoveKeeps DEF EndStep

LEMMA StepFailsKeeps == ASSUME AInv, StepFails PROVE AInv'
BY AbortKeeps DEF StepFails

LEMMA KillKeeps == ASSUME AInv, Kill PROVE AInv'
BY AbortKeeps DEF Kill

LEMMA SkipConsumerKeeps == ASSUME AInv, SkipConsumer PROVE AInv'
BY MoveKeeps DEF SkipConsumer, AInv, ReturnedInv

\* The path that a later step mounts is the one that was found.
LEMMA BuildConsumerKeeps == ASSUME AInv, BuildConsumer PROVE AInv'
<1>1. SUFFICES ASSUME NEW a \in Names, path' = LocalPathByName(a), pc' = "mount",
                      UNCHANGED <<runNum, built, dirOf, file, stepVars>>,
                      UNCHANGED outVars
               PROVE  AInv'
  BY AbortKeeps DEF BuildConsumer
<1>2. pc = "consume" /\ TypeOK /\ ReturnedInv /\ ExportInv
  BY DEF BuildConsumer, AInv
<1>3. path' \in [name : 0 .. ArtifactNum, dir : {NoDir} \cup Dirs, in : SUBSET Containers]
  <2>1. a \in 0 .. ArtifactNum /\ dirOf[a] \in {NoDir} \cup Dirs
    BY <1>2, ConstantFacts DEF Names, TypeOK
  <2>2. Found(a) \subseteq Containers
    BY DEF Found
  <2> QED BY <1>1, <2>1, <2>2 DEF LocalPathByName
<1>4. TypeOK'
  BY <1>1, <1>2, <1>3 DEF TypeOK, stepVars, outVars
<1>5. MountFindsCopy'
  <2>1. path'.name = a
    BY <1>1 DEF LocalPathByName
  <2>2. LocalPathByName(a)' = LocalPathByName(a)
    BY <1>1, SamePath
  <2>3. LocalPathByName(path.name)' = LocalPathByName(a)'
    BY <2>1 DEF LocalPathByName, Found
  <2> QED BY <1>1, <2>2, <2>3 DEF MountFindsCopy
<1>6. BuildInv' /\ ReturnedInv'
  BY <1>1, <1>2 DEF BuildInv, ReturnedInv, AllReturned, stepVars
<1>7. ExportInv'
  BY <1>1, <1>2 DEF ExportInv, IsExported, stepVars, outVars
<1> QED BY <1>1, <1>4, <1>5, <1>6, <1>7, SameStep DEF AInv

LEMMA MountArtifactKeeps == ASSUME AInv, MountArtifact PROVE AInv'
<1>1. AllReturned
  BY DEF AInv, ReturnedInv, MountArtifact
<1> QED BY <1>1, AbortKeeps, MoveKeeps DEF MountArtifact

LEMMA EndRunKeeps == ASSUME AInv, EndRun PROVE AInv'
BY MoveKeeps DEF EndRun, AInv, ReturnedInv

(***************************************************************************)
(* The export.                                                             *)
(***************************************************************************)

\* Once the step has ended, a subtask that is a success has made all its copies.
LEMMA Gathered == AInv => SuccessIsGathered
<1> SUFFICES ASSUME AInv, pc \in {"consume", "mount", "export", "done"},
                    NEW c \in Containers, status[c] = "success", NEW a \in MainNames
             PROVE  dirOf[a] # NoDir /\ file[a][dirOf[a]][c] = attempt[PodOf[c]]
  BY DEF SuccessIsGathered
<1>1. phase[PodOf[c]] # "running"
  BY PodAssumption DEF AInv, ReturnedInv, AllReturned
<1>2. next[c] = MainNum + 1
  BY <1>1 DEF AInv, SubTaskInv
<1>3. a < next[c]
  BY <1>2, NameAssumption DEF MainNames
<1> QED BY <1>3 DEF AInv, CopyInv

\* The entries of exportArtifacts.
LEMMA ExportFacts ==
  ASSUME NEW e \in Exports
  PROVE  /\ e \in Nat /\ 1 <= e /\ e <= ExportNum
         /\ ExportName[e] \in Names /\ ExportPath[e] \in Paths
         /\ ExportName[e] \in Nat \ {0} /\ ExportName[e] \in 0 .. ArtifactNum
BY ExportAssumption, ConstantFacts DEF Exports, Names

\* The entries before one that is the first at its path, and are at the same path, name
\* the same artifact and are the first there too.
LEMMA FirstBefore ==
  ASSUME NEW e \in Exports, FirstAtPath(e), NEW f \in 1 .. (e - 1),
         ExportPath[f] = ExportPath[e]
  PROVE  f \in Exports /\ FirstAtPath(f) /\ ExportName[f] = ExportName[e]
<1>1. e \in Nat /\ e <= ExportNum /\ ExportNum \in Nat /\ f \in Nat /\ 1 <= f /\ f < e
  BY ExportFacts, ExportAssumption
<1>2. f \in Exports /\ ExportName[f] = ExportName[e]
  BY <1>1 DEF FirstAtPath, Exports
<1>3. \A g \in 1 .. (f - 1) : g \in 1 .. (e - 1)
  BY <1>1
<1> QED BY <1>2, <1>3 DEF FirstAtPath

\* A subtask that is a success has a file, which is found and exported.
LEMMA ExportedFile ==
  ASSUME AInv, pc = "export", NEW a \in MainNames, NEW x \in Paths, NEW c \in Containers,
         status[c] = "success", out[x][c] = NoFile
  PROVE  ExportedFrom(a, x, Found(a))[c] = [of |-> a, by |-> attempt[PodOf[c]]]
<1>1. dirOf[a] # NoDir /\ file[a][dirOf[a]][c] = attempt[PodOf[c]]
  BY Gathered DEF SuccessIsGathered
<1>2. attempt[PodOf[c]] > 0
  BY DEF AInv, SubTaskInv
<1>3. c \in Found(a)
  BY <1>1, <1>2 DEF Found, Absent
<1> QED BY <1>1, <1>3 DEF ExportedFrom, LocalCopy

\* A file that is there is left alone.
LEMMA ExportedBefore ==
  ASSUME NEW a, NEW x, NEW cs, NEW c \in Containers, out[x][c] # NoFile
  PROVE  ExportedFrom(a, x, cs)[c] = out[x][c]
BY DEF ExportedFrom, LocalCopy

LEMMA ExportedType ==
  ASSUME TypeOK, NEW a \in Names, a \in 0 .. ArtifactNum, dirOf[a] # NoDir, NEW x \in Paths, NEW cs
  PROVE  ExportedFrom(a, x, cs) \in [Containers -> [of : 0 .. ArtifactNum, by : Contents]]
<1>1. dirOf[a] \in Dirs
  BY DEF TypeOK
<1> QED BY <1>1 DEF TypeOK, ExportedFrom, LocalCopy

\* An export writes to one path, whether it ends well or not.
LEMMA ExportWrites ==
  ASSUME TypeOK, NEW e \in Exports, ExportArtifact(e)
  PROVE  \E f \in [Containers -> [of : 0 .. ArtifactNum, by : Contents]] :
           out' = [out EXCEPT ![ExportPath[e]] = f]
<1> DEFINE a == ExportName[e]
           x == ExportPath[e]
           Dir == [Containers -> [of : 0 .. ArtifactNum, by : Contents]]
<1>1. a \in Names /\ a \in 0 .. ArtifactNum /\ x \in Paths /\ dirOf[a] # NoDir
  BY ExportFacts DEF ExportArtifact
<1>2. CASE out' = [out EXCEPT ![x] = ExportedFrom(a, x, Found(a))]
  BY <1>1, <1>2, ExportedType
<1>3. CASE \E c \in Found(a) : \E cs \in SUBSET (Found(a) \ {c}) :
             /\ out[x][c] = NoFile
             /\ \E part \in {NoFile, [of |-> a, by |-> Partial]} :
                  out' = [out EXCEPT ![x] = [ExportedFrom(a, x, cs) EXCEPT ![c] = part]]
  <2>1. PICK c, cs, part :
          /\ part \in {NoFile, [of |-> a, by |-> Partial]}
          /\ out' = [out EXCEPT ![x] = [ExportedFrom(a, x, cs) EXCEPT ![c] = part]]
    BY <1>3
  <2>2. part \in [of : 0 .. ArtifactNum, by : Contents]
    BY <1>1, <2>1, ConstantFacts DEF NoFile
  <2>3. ExportedFrom(a, x, cs) \in Dir
    BY <1>1, ExportedType
  <2>4. [ExportedFrom(a, x, cs) EXCEPT ![c] = part] \in Dir
    BY <2>2, <2>3
  <2> QED BY <2>1, <2>4
<1> QED BY <1>2, <1>3 DEF ExportArtifact

\* An export that ends well adds the copies of one artifact; one that fails ends the run.
LEMMA ExportArtifactKeeps == ASSUME AInv, NEW e \in Exports, ExportArtifact(e) PROVE AInv'
<1> DEFINE a == ExportName[e]
           x == ExportPath[e]
<1>1. TypeOK /\ ReturnedInv /\ ExportInv
  BY DEF AInv
<1>2. /\ pc = "export" /\ e = exporting + 1 /\ dirOf[a] # NoDir
      /\ UNCHANGED <<runNum, built, dirOf, file, path, old>> /\ UNCHANGED stepVars
      /\ UNCHANGED <<phase, attempt, next, status>>
  BY DEF ExportArtifact, stepVars
<1>3. exporting \in Nat /\ ExportNum \in Nat /\ e \in 1 .. ExportNum /\ x \in Paths
  BY <1>1, ExportFacts, ExportAssumption DEF TypeOK, Exports
<1>4. AttemptInv' /\ SubTaskInv' /\ CopyInv' /\ OneDirectory'
  BY <1>2, SameStep
<1>5. PICK f \in [Containers -> [of : 0 .. ArtifactNum, by : Contents]] :
        out' = [out EXCEPT ![x] = f]
  BY <1>1, ExportWrites
<1>6. \/ /\ pc' = "export" /\ exporting' = e
         /\ out' = [out EXCEPT ![x] = ExportedFrom(a, x, Found(a))]
      \/ pc' = "idle" /\ exporting' = exporting
  BY <1>2 DEF ExportArtifact, EndExport
<1>7. TypeOK'
  <2>1. exporting' \in 0 .. ExportNum /\ pc' \in {"idle", "export"}
    BY <1>1, <1>3, <1>6 DEF TypeOK
  <2>2. out' \in [Paths -> [Containers -> [of : 0 .. ArtifactNum, by : Contents]]]
    BY <1>1, <1>5 DEF TypeOK
  <2> QED BY <1>1, <1>2, <2>1, <2>2 DEF TypeOK
<1>8. BuildInv' /\ ReturnedInv' /\ MountFindsCopy'
  BY <1>1, <1>2, <1>6 DEF BuildInv, ReturnedInv, AllReturned, MountFindsCopy
<1>9. ExportInv'
  <2>1. CASE pc' = "idle"
    BY <2>1 DEF ExportInv
  <2>2. CASE /\ pc' = "export" /\ exporting' = e
             /\ out' = [out EXCEPT ![x] = ExportedFrom(a, x, Found(a))]
    <3>1. \A y \in Paths \ {x} : out'[y] = out[y]
      BY <1>1, <2>2 DEF TypeOK
    <3>2. out'[x] = ExportedFrom(a, x, Found(a))
      BY <1>1, <1>3, <2>2 DEF TypeOK
    <3>3. ASSUME NEW y \in Paths, \A g \in 1 .. e : ExportPath[g] # y, NEW c \in Containers \ old[y]
          PROVE  out'[y][c] = NoFile
      <4>1. y # x /\ \A g \in 1 .. exporting : ExportPath[g] # y
        BY <1>2, <1>3, <3>3
      <4> QED BY <1>1, <1>2, <3>1, <3>3, <4>1 DEF ExportInv
    <3>4. ASSUME NEW g \in Exports, g <= e, ExportName[g] \in MainNames, FirstAtPath(g),
                 NEW c \in Containers \ old[ExportPath[g]], status[c] = "success"
          PROVE  out'[ExportPath[g]][c] = [of |-> ExportName[g], by |-> attempt[PodOf[c]]]
      <4>1. g \in Nat /\ 1 <= g /\ ExportPath[g] \in Paths /\ ExportName[g] # 0
        BY ExportFacts
      \* What was exported before is left alone.
      <4>2. ASSUME NEW h \in Exports, h <= exporting, FirstAtPath(h),
                   ExportPath[h] = ExportPath[g], ExportName[h] = ExportName[g]
            PROVE  out'[ExportPath[g]][c] = [of |-> ExportName[g], by |-> attempt[PodOf[c]]]
        <5>1. out[ExportPath[g]][c] = [of |-> ExportName[g], by |-> attempt[PodOf[c]]]
          BY <1>1, <1>2, <3>4, <4>2 DEF ExportInv, IsExported
        <5>2. out[ExportPath[g]][c] # NoFile
          BY <4>1, <5>1 DEF NoFile
        <5> QED BY <3>1, <3>2, <4>1, <5>1, <5>2, ExportedBefore
      <4>3. CASE g # e
        <5>1. g <= exporting
          BY <1>2, <1>3, <3>4, <4>1, <4>3
        <5> QED BY <3>4, <4>2, <5>1
      <4>4. CASE g = e /\ \E h \in 1 .. (e - 1) : ExportPath[h] = x
        <5>1. PICK h \in 1 .. (e - 1) : ExportPath[h] = x
          BY <4>4
        <5>2. h \in Exports /\ FirstAtPath(h) /\ ExportName[h] = a
          BY <3>4, <4>4, <5>1, FirstBefore
        <5>3. h <= exporting
          BY <1>2, <1>3, <5>1
        <5> QED BY <4>2, <4>4, <5>1, <5>2, <5>3
      <4>5. CASE g = e /\ \A h \in 1 .. (e - 1) : ExportPath[h] # x
        <5>1. \A h \in 1 .. exporting : ExportPath[h] # x
          BY <1>2, <1>3, <4>5
        <5>2. out[x][c] = NoFile
          BY <1>1, <1>2, <1>3, <3>4, <4>5, <5>1 DEF ExportInv
        <5> QED BY <1>2, <1>3, <3>2, <3>4, <4>5, <5>2, ExportedFile
      <4> QED BY <4>3, <4>4, <4>5
    <3> QED BY <1>2, <2>2, <3>3, <3>4 DEF ExportInv, IsExported
  <2> QED BY <1>6, <2>1, <2>2
<1> QED BY <1>4, <1>7, <1>8, <1>9 DEF AInv

LEMMA ExportPathMissingKeeps ==
  ASSUME AInv, NEW e \in Exports, ExportPathMissing(e) PROVE AInv'
BY AbortKeeps DEF ExportPathMissing

LEMMA StutterKeeps == ASSUME AInv, UNCHANGED vars PROVE AInv'
<1>1. UNCHANGED <<runNum, pc, built, dirOf, file, path>> /\ UNCHANGED stepVars
      /\ UNCHANGED <<phase, attempt, next, status>> /\ UNCHANGED <<exporting, out, old>>
  BY DEF vars, stepVars, outVars
<1>2. TypeOK' /\ BuildInv' /\ ReturnedInv' /\ ExportInv'
  BY <1>1 DEF AInv, TypeOK, BuildInv, ReturnedInv, AllReturned, ExportInv, IsExported
<1>3. MountFindsCopy'
  BY <1>1 DEF AInv, MountFindsCopy, LocalPathByName, Found
<1> QED BY <1>1, <1>2, <1>3, SameStep DEF AInv

(***************************************************************************)
(* The theorems.                                                           *)
(***************************************************************************)

LEMMA NextKeeps == AInv /\ [Next]_vars => AInv'
<1>1. \A p \in Pods : AInv /\ (BuildTask(p) \/ Launch(p) \/ EndAttempt(p)) => AInv'
  BY BuildTaskKeeps, LaunchKeeps, EndAttemptKeeps, Zenon
<1>2. \A c \in Containers : AInv /\ (Execute(c) \/ CopyArtifact(c)) => AInv'
  BY ExecuteKeeps, CopyArtifactKeeps, Zenon
<1>3. \A e \in Exports : AInv /\ (ExportArtifact(e) \/ ExportPathMissing(e)) => AInv'
  BY ExportArtifactKeeps, ExportPathMissingKeeps, Zenon
<1> QED BY <1>1, <1>2, <1>3, StartRunKeeps, StartStepKeeps, EndStepKeeps, StepFailsKeeps,
           BuildConsumerKeeps, SkipConsumerKeeps, MountArtifactKeeps, EndRunKeeps,
           KillKeeps, StutterKeeps, Zenon DEF Next

\* AInv is an inductive invariant.
THEOREM Invariance == Spec => []AInv
BY InitGather, NextKeeps, PTL DEF Spec

\* Every variable keeps its type.
THEOREM TypeCorrect == Spec => []TypeOK
<1>1. AInv => TypeOK
  BY DEF AInv
<1> QED BY <1>1, Invariance, PTL

\* AddArtifacts makes a directory per Task, and no copy is in one that is forgotten.
THEOREM NoCopyIsLost == Spec => []OneDirectory
<1>1. AInv => OneDirectory
  BY DEF AInv
<1> QED BY <1>1, Invariance, PTL

\* copyArtifact: a subtask that is a success has made all its copies, in the attempt that
\* is reported.
THEOREM SuccessMeansGathered == Spec => []SuccessIsGathered
BY Gathered, Invariance, PTL

\* LocalPathByName finds the same path when the step is built and when it is mounted.
THEOREM MountIsStable == Spec => []MountFindsCopy
<1>1. AInv => MountFindsCopy
  BY DEF AInv
<1> QED BY <1>1, Invariance, PTL

\* ExportArtifacts: what a run that has ended well reports as a success is exported, but
\* for the directories that an export path held before or another artifact has taken.
THEOREM ExportCompletes == Spec => []ExportIsComplete
<1>1. ASSUME AInv, pc = "done", NEW e \in Exports
      PROVE  e <= exporting
  BY <1>1, ExportFacts DEF AInv, ExportInv
<1>2. AInv => ExportIsComplete
  BY <1>1 DEF AInv, ExportInv, ExportIsComplete
<1> QED BY <1>2, Invariance, PTL

\* What the later steps and the export read is what the step has left.
THEOREM NothingIsCopiedLate == Spec => CopiesAreStable
<1>1. ASSUME AInv, [Next]_vars, pc \in {"consume", "mount", "export"}
      PROVE  UNCHANGED <<dirOf, file>>
  <2>1. \A p \in Pods : phase[p] # "running"
    BY <1>1 DEF AInv, ReturnedInv, AllReturned
  <2>2. ASSUME NEW c \in Containers, CopyArtifact(c) PROVE FALSE
    BY <2>1, <2>2, PodAssumption DEF CopyArtifact
  <2>3. ~StartRun /\ ~StartStep /\ \A p \in Pods : ~BuildTask(p)
    BY <1>1 DEF StartRun, StartStep, BuildTask
  <2>4. CASE \E p \in Pods : Launch(p) \/ EndAttempt(p)
    BY <2>4 DEF Launch, EndAttempt
  <2>5. CASE \E c \in Containers : Execute(c)
    BY <2>5 DEF Execute
  <2>6. CASE EndStep \/ StepFails \/ SkipConsumer \/ EndRun \/ Kill \/ UNCHANGED vars
    BY <2>6 DEF EndStep, StepFails, SkipConsumer, EndRun, Kill, Abort, vars
  <2>7. CASE BuildConsumer \/ MountArtifact
    BY <2>7 DEF BuildConsumer, MountArtifact, Abort
  <2>8. CASE \E e \in Exports : ExportArtifact(e) \/ ExportPathMissing(e)
    BY <2>8 DEF ExportArtifact, ExportPathMissing, Abort
  <2> QED BY <1>1, <2>2, <2>3, <2>4, <2>5, <2>6, <2>7, <2>8 DEF Next
<1>2. AInv /\ [Next]_vars =>
        (pc \in {"consume", "mount", "export"} => UNCHANGED <<dirOf, file>>)
  BY <1>1
<1> QED BY <1>2, Invariance, PTL DEF Spec, CopiesAreStable

\* localCopy: what is in an export path stays there, so a container's directory of an
\* earlier run or of an earlier export is neither replaced nor lost.
THEOREM ExportNeverReplaces == Spec => ExportedIsKept
<1>1. ASSUME AInv, [Next]_vars, NEW y \in Paths, NEW c \in Containers, out[y][c] # NoFile
      PROVE  out'[y][c] = out[y][c]
  <2>1. CASE UNCHANGED out
    BY <2>1
  <2>2. CASE \E e \in Exports : ExportArtifact(e)
    <3>1. PICK e \in Exports : ExportArtifact(e)
      BY <2>2
    <3> DEFINE a == ExportName[e]
               x == ExportPath[e]
    <3>2. \A cs : ExportedFrom(a, y, cs)[c] = out[y][c]
      BY <1>1, ExportedBefore
    <3>3. PICK f : out' = [out EXCEPT ![x] = f] /\ (x = y => f[c] = out[y][c])
      <4>1. CASE out' = [out EXCEPT ![x] = ExportedFrom(a, x, Found(a))]
        BY <3>2, <4>1
      <4>2. CASE \E k \in Found(a) : \E cs \in SUBSET (Found(a) \ {k}) :
                   /\ out[x][k] = NoFile
                   /\ \E part \in {NoFile, [of |-> a, by |-> Partial]} :
                        out' = [out EXCEPT ![x] = [ExportedFrom(a, x, cs) EXCEPT ![k] = part]]
        <5>1. PICK k, cs, part :
                /\ out[x][k] = NoFile
                /\ out' = [out EXCEPT ![x] = [ExportedFrom(a, x, cs) EXCEPT ![k] = part]]
          BY <4>2
        <5>2. x = y => k # c
          BY <1>1, <5>1
        <5>3. x = y => [ExportedFrom(a, x, cs) EXCEPT ![k] = part][c] = out[y][c]
          BY <3>2, <5>2 DEF ExportedFrom
        <5> QED BY <5>1, <5>3
      <4> QED BY <3>1, <4>1, <4>2 DEF ExportArtifact
    <3> QED BY <1>1, <3>3 DEF AInv, TypeOK
  <2>3. ASSUME NEW e \in Exports, ExportPathMissing(e) PROVE UNCHANGED out
    BY <2>3 DEF ExportPathMissing, outVars
  <2>4. ASSUME NEW p \in Pods, BuildTask(p) \/ Launch(p) \/ EndAttempt(p) PROVE UNCHANGED out
    BY <2>4 DEF BuildTask, Launch, EndAttempt, outVars
  <2>5. ASSUME NEW k \in Containers, Execute(k) \/ CopyArtifact(k) PROVE UNCHANGED out
    BY <2>5 DEF Execute, CopyArtifact, outVars
  <2>6. CASE StartRun \/ StartStep \/ EndStep \/ StepFails \/ BuildConsumer
    BY <2>6 DEF StartRun, StartStep, EndStep, StepFails, BuildConsumer, outVars
  <2>7. CASE SkipConsumer \/ MountArtifact \/ EndRun \/ Kill \/ UNCHANGED vars
    BY <2>7 DEF SkipConsumer, MountArtifact, EndRun, Kill, outVars, vars
  <2> QED BY <1>1, <2>1, <2>2, <2>3, <2>4, <2>5, <2>6, <2>7 DEF Next
<1>2. AInv /\ [Next]_vars => \A x \in Paths : \A c \in Containers :
        out[x][c] # NoFile => out'[x][c] = out[x][c]
  BY <1>1
<1> QED BY <1>2, Invariance, PTL DEF Spec, ExportedIsKept

=============================================================================

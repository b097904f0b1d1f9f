------------------------------- MODULE Artifacts -------------------------------
(***************************************************************************)
(* The artifacts of a step, from the containers of its pods to the export  *)
(* path and to a later step that mounts them.  AddArtifacts makes one      *)
(* local directory for a name whenever a Task is built, subtasks copy into *)
(* it in any order and once per attempt, ExportArtifacts copies it to a    *)
(* path that outlives the run.                                             *)
(*                                                                         *)
(* A file is abstracted to the attempt that has made it.  Containers have  *)
(* names of their own (KeySchedule shows it), so a container stands for    *)
(* its name; kubejob, pods and the file system are external.               *)
(***************************************************************************)
EXTENDS Integers, FiniteSets

CONSTANTS
  Pods,          \* pods of the step, one Task each
  Containers,    \* its main containers, one key each
  PodOf,         \* PodOf[c]: the pod of container c
  MainNum,       \* artifacts of the main container, in the order of the spec
  SidecarNum,    \* artifacts of sidecars, which come after them
  ExportNum,     \* the length of exportArtifacts
  ExportName,    \* ExportName[e]: the artifact that its entry e names
  ExportPath,    \* ExportPath[e]: the path it is exported to
  Paths,         \* the export paths; none of them lies in another
  MaxAttempts,   \* bound: attempts of a Task
  MaxRuns        \* bound: runs with the same export paths

ArtifactNum == MainNum + SidecarNum
Names == 1 .. ArtifactNum
MainNames == 1 .. MainNum
Exports == 1 .. ExportNum

ASSUME PodAssumption == IsFiniteSet(Pods) /\ PodOf \in [Containers -> Pods]
ASSUME NameAssumption == MainNum \in Nat /\ SidecarNum \in Nat
ASSUME ExportAssumption == /\ ExportNum \in Nat
                           /\ ExportName \in [Exports -> Names]
                           /\ ExportPath \in [Exports -> Paths]
ASSUME BoundAssumption == MaxAttempts \in Nat \ {0} /\ MaxRuns \in Nat

\* The content of a file: the attempt that has copied all of it, or one of these.
Absent == 0
Partial == -1
Contents == -1 .. MaxAttempts

NoDir == 0
Dirs == 1 .. Cardinality(Pods)
NoPath == [name |-> 0, dir |-> NoDir, in |-> {}]
\* In an export path, where the copies of several artifacts may meet, it matters which
\* artifact the directory of a container holds.
NoFile == [of |-> 0, by |-> Absent]

NoFiles == [a \in Names |-> [d \in Dirs |-> [c \in Containers |-> Absent]]]

VARIABLES
  runNum,     \* runs so far
  pc,         \* "idle", "build", "step", "consume", "mount", "export", "done"
  built,      \* pods whose Task is built
  dirOf,      \* nameToLocalDirs: dirOf[a] is the directory of a, or NoDir
  file,       \* file[a][d][c]: the artifact a of container c in directory d
  phase,      \* phase[p]: "waiting", "running", "returned" or "errored"
  attempt,    \* attempt[p]: the number of its attempt
  next,       \* next[c]: the artifact the subtask copies next; 0 before and
              \* while the command runs, MainNum + 1 when it is finished
  status,     \* status[c]: the status of the subtask in this attempt
  path,       \* what LocalPathByName has found for the step that mounts
  exporting,  \* the exports done so far
  out,        \* out[x][c]: what the directory of container c in export path x holds
  old         \* old[x]: the directories in export path x before this run

stepVars == <<phase, attempt, next, status>>
outVars == <<exporting, out, old>>
vars == <<runNum, pc, built, dirOf, file, phase, attempt, next, status, path,
          exporting, out, old>>

ContainersOf(p) == {c \in Containers : PodOf[c] = p}

Init ==
  /\ runNum = 0
  /\ pc = "idle"
  /\ built = {}
  /\ dirOf = [a \in Names |-> NoDir]
  /\ file = NoFiles
  /\ phase = [p \in Pods |-> "waiting"]
  /\ attempt = [p \in Pods |-> 0]
  /\ next = [c \in Containers |-> 0]
  /\ status = [c \in Containers |-> "none"]
  /\ path = NoPath
  /\ exporting = 0
  /\ out = [x \in Paths |-> [c \in Containers |-> NoFile]]
  /\ old = [x \in Paths |-> {}]

\* A new process: NewArtifactManager knows no directory; the export paths are kept.
StartRun ==
  /\ pc \in {"idle", "done"}
  /\ runNum < MaxRuns
  /\ runNum' = runNum + 1
  /\ pc' = "build"
  /\ built' = {}
  /\ dirOf' = [a \in Names |-> NoDir]
  /\ file' = NoFiles
  /\ phase' = [p \in Pods |-> "waiting"]
  /\ attempt' = [p \in Pods |-> 0]
  /\ next' = [c \in Containers |-> 0]
  /\ status' = [c \in Containers |-> "none"]
  /\ path' = NoPath
  /\ exporting' = 0
  /\ old' = [x \in Paths |-> {c \in Containers : out[x][c] # NoFile}]
  /\ UNCHANGED out

\* Goroutines run as long as their process.
Alive == pc \notin {"idle", "done"}

\* Run returns an error, or the process is killed.
Abort == pc' = "idle" /\ UNCHANGED <<runNum, built, dirOf, file, stepVars, path>>

-----------------------------------------------------------------------------
(***************************************************************************)
(* Building: a directory for every name and every pod.  The error of       *)
(* os.MkdirTemp ends AddArtifacts and is dropped.                          *)
(***************************************************************************)
AddArtifacts(made, d) == [a \in Names |-> IF a <= made THEN d ELSE dirOf[a]]

BuildTask(p) ==
  /\ pc = "build"
  /\ p \notin built
  /\ built' = built \cup {p}
  /\ \E made \in 0 .. ArtifactNum :
       dirOf' = AddArtifacts(made, Cardinality(built) + 1)
  /\ UNCHANGED <<runNum, pc, file, stepVars, path, outVars>>

StartStep ==
  /\ pc = "build"
  /\ built = Pods
  /\ pc' = "step"
  /\ UNCHANGED <<runNum, built, dirOf, file, stepVars, path, outVars>>

(***************************************************************************)
(* The attempts of a Task: TaskGroup has them in detail.                   *)
(***************************************************************************)
\* Mutant: a Task runs as soon as it is built.
MayLaunchBuilt(p) == pc \in {"build", "step"} /\ p \in built /\ phase[p] = "waiting"

MayLaunch(p) == pc = "step" /\ phase[p] = "waiting"

Launch(p) ==
  /\ MayLaunch(p)
  /\ phase' = [phase EXCEPT ![p] = "running"]
  /\ attempt' = [attempt EXCEPT ![p] = @ + 1]
  /\ next' = [c \in Containers |-> IF PodOf[c] = p THEN 0 ELSE next[c]]
  /\ status' = [c \in Containers |-> IF PodOf[c] = p THEN "none" ELSE status[c]]
  /\ UNCHANGED <<runNum, pc, built, dirOf, file, path, outVars>>

\* SubTask.Run up to the copies.
Execute(c) ==
  /\ Alive
  /\ phase[PodOf[c]] = "running"
  /\ next[c] = 0
  /\ next' = [next EXCEPT ![c] = 1]
  /\ \E s \in {"success", "failure"} : status' = [status EXCEPT ![c] = s]
  /\ UNCHANGED <<runNum, pc, built, dirOf, file, phase, attempt, path, outVars>>

\* Mutant: copyArtifact goes on, and only logs that a copy has failed.
CopyFailedLogged(c) ==
  /\ next' = [next EXCEPT ![c] = @ + 1]
  /\ UNCHANGED status

\* copyArtifact returns the first error, and the subtask has failed.
CopyFailed(c) ==
  /\ next' = [next EXCEPT ![c] = MainNum + 1]
  /\ status' = [status EXCEPT ![c] = "failure"]

\* Only main containers have a subtask, so the artifacts of a sidecar are never
\* copied.  The directory is looked up when the copy starts.  A copy that fails leaves
\* what was there, or a part.
CopyArtifact(c) ==
  /\ Alive
  /\ phase[PodOf[c]] = "running"
  /\ next[c] \in MainNames
  /\ LET a == next[c]
         d == dirOf[a]
     IN \/ /\ d # NoDir
           /\ file' = [file EXCEPT ![a][d][c] = attempt[PodOf[c]]]
           /\ next' = [next EXCEPT ![c] = a + 1]
           /\ UNCHANGED status
        \/ /\ CopyFailed(c)
           /\ file' = file
        \/ /\ d # NoDir
           /\ CopyFailed(c)
           /\ file' = [file EXCEPT ![a][d][c] = Partial]
  /\ UNCHANGED <<runNum, pc, built, dirOf, phase, attempt, path, outVars>>

\* Mutant: the retries are counted from the second one on.
MayRetryOnceMore(p) == attempt[p] <= MaxAttempts

MayRetry(p) == attempt[p] < MaxAttempts

\* The Job ends before its handler is called, or when all its subtasks are done:
\* with success or a swallowed FailedJob, with an error, or to be made again
\* (by createJob, which calls buildJob and not AddArtifacts).
EndAttempt(p) ==
  /\ Alive
  /\ phase[p] = "running"
  /\ \/ \A c \in ContainersOf(p) : next[c] = 0 /\ status[c] = "none"
     \/ \A c \in ContainersOf(p) : next[c] > MainNum
  /\ \/ phase' = [phase EXCEPT ![p] = "returned"]
     \/ phase' = [phase EXCEPT ![p] = "errored"]
     \/ MayRetry(p) /\ phase' = [phase EXCEPT ![p] = "waiting"]
  /\ UNCHANGED <<runNum, pc, built, dirOf, file, attempt, next, status, path, outVars>>

(***************************************************************************)
(* After the step.                                                         *)
(***************************************************************************)
\* Mutant: the group waits for one of its Tasks.
AllReturnedAny == \E p \in Pods : phase[p] = "returned"

AllReturned == \A p \in Pods : phase[p] = "returned"

EndStep ==
  /\ pc = "step"
  /\ AllReturned
  /\ pc' = "consume"
  /\ UNCHANGED <<runNum, built, dirOf, file, stepVars, path, outVars>>

StepFails ==
  /\ pc = "step"
  /\ \A p \in Pods : phase[p] \in {"returned", "errored"}
  /\ \E p \in Pods : phase[p] = "errored"
  /\ Abort
  /\ UNCHANGED outVars

Found(a) == IF dirOf[a] = NoDir THEN {}
            ELSE {c \in Containers : file[a][dirOf[a]][c] # Absent}

\* The directory of the artifact or, when a single container has copied it, the
\* file in the container's directory.
LocalPathByName(a) ==
  [name |-> a, dir |-> dirOf[a],
   in |-> IF Cardinality(Found(a)) = 1 THEN Found(a) ELSE {}]

\* Build of a step that mounts the artifact: what its pre-init container copies,
\* and under which name, is decided here.
BuildConsumer ==
  /\ pc = "consume"
  /\ \E a \in Names :
       IF Found(a) = {} THEN Abort
       ELSE /\ path' = LocalPathByName(a)
            /\ pc' = "mount"
            /\ UNCHANGED <<runNum, built, dirOf, file, stepVars>>
  /\ UNCHANGED outVars

\* A job whose later steps mount no artifact.
SkipConsumer ==
  /\ pc = "consume"
  /\ pc' = "export"
  /\ UNCHANGED <<runNum, built, dirOf, file, stepVars, path, outVars>>

\* mountArtifact looks for the path again, for the name to copy it by.
MountArtifact ==
  /\ pc = "mount"
  /\ \/ /\ pc' = "export"
        /\ UNCHANGED <<runNum, built, dirOf, file, stepVars, path>>
     \/ Abort
  /\ UNCHANGED outVars

(***************************************************************************)
(* ExportArtifacts: one entry after the other, one container after the     *)
(* other.  localCopy leaves a destination alone that exists, and returns   *)
(* no error: what an earlier run or, if entries share a path, an earlier   *)
(* entry has put there stays.                                              *)
(***************************************************************************)
LocalCopy(src, dst) == IF dst = NoFile THEN src ELSE dst

ExportedFrom(a, x, cs) ==
  [c \in Containers |-> IF c \in cs
                        THEN LocalCopy([of |-> a, by |-> file[a][dirOf[a]][c]], out[x][c])
                        ELSE out[x][c]]

\* Mutant: an error of localCopy is only logged.
EndExportLogged(e) == pc' = "export" /\ exporting' = e

EndExport(e) == pc' = "idle" /\ UNCHANGED exporting

ExportArtifact(e) ==
  /\ pc = "export"
  /\ e = exporting + 1
  /\ LET a == ExportName[e]
         x == ExportPath[e]
     IN /\ dirOf[a] # NoDir
        /\ \/ /\ out' = [out EXCEPT ![x] = ExportedFrom(a, x, Found(a))]
              /\ exporting' = e
              /\ UNCHANGED pc
           \/ /\ \E c \in Found(a) : \E cs \in SUBSET (Found(a) \ {c}) :
                   /\ out[x][c] = NoFile
                   /\ \E part \in {NoFile, [of |-> a, by |-> Partial]} :
                        out' = [out EXCEPT ![x] = [ExportedFrom(a, x, cs) EXCEPT ![c] = part]]
              /\ EndExport(e)
  /\ UNCHANGED <<runNum, built, dirOf, file, stepVars, path, old>>

\* An artifact without a directory is an error.
ExportPathMissing(e) ==
  /\ pc = "export"
  /\ e = exporting + 1
  /\ dirOf[ExportName[e]] = NoDir
  /\ Abort
  /\ UNCHANGED outVars

EndRun ==
  /\ pc = "export"
  /\ exporting = ExportNum
  /\ pc' = "done"
  /\ UNCHANGED <<runNum, built, dirOf, file, stepVars, path, outVars>>

Kill == pc \notin {"idle", "done"} /\ Abort /\ UNCHANGED outVars

Next ==
  \/ StartRun
  \/ \E p \in Pods : BuildTask(p) \/ Launch(p) \/ EndAttempt(p)
  \/ StartStep
  \/ \E c \in Containers : Execute(c) \/ CopyArtifact(c)
  \/ EndStep
  \/ StepFails
  \/ BuildConsumer
  \/ SkipConsumer
  \/ MountArtifact
  \/ \E e \in Exports : ExportArtifact(e) \/ ExportPathMissing(e)
  \/ EndRun
  \/ Kill

Spec == Init /\ [][Next]_vars

-----------------------------------------------------------------------------
(***************************************************************************)
(* Properties                                                              *)
(***************************************************************************)

\* Every variable keeps its type.
TypeOK ==
  /\ runNum \in 0 .. MaxRuns
  /\ pc \in {"idle", "build", "step", "consume", "mount", "export", "done"}
  /\ built \subseteq Pods
  /\ dirOf \in [Names -> {NoDir} \cup Dirs]
  /\ file \in [Names -> [Dirs -> [Containers -> Contents]]]
  /\ phase \in [Pods -> {"waiting", "running", "returned", "errored"}]
  /\ attempt \in [Pods -> 0 .. MaxAttempts]
  /\ next \in [Containers -> 0 .. (MainNum + 1)]
  /\ status \in [Containers -> {"none", "success", "failure"}]
  /\ path \in [name : 0 .. ArtifactNum, dir : {NoDir} \cup Dirs, in : SUBSET Containers]
  /\ exporting \in 0 .. ExportNum
  /\ out \in [Paths -> [Containers -> [of : 0 .. ArtifactNum, by : Contents]]]
  /\ old \in [Paths -> SUBSET Containers]

\* However many directories the Tasks of a step have made for an artifact, all its
\* copies are in the one that is exported and mounted: no copy is lost.
OneDirectory ==
  \A a \in Names : \A d \in Dirs \ {dirOf[a]} : \A c \in Containers :
    file[a][d][c] = Absent

\* When the step has ended, a subtask that is reported as a success has left every
\* artifact of the main container complete, as its last attempt made it.
SuccessIsGathered ==
  pc \in {"consume", "mount", "export", "done"} =>
    \A c \in Containers : status[c] = "success" =>
      \A a \in MainNames : dirOf[a] # NoDir /\ file[a][dirOf[a]][c] = attempt[PodOf[c]]

\* A step that mounts an artifact looks for it twice and finds it at one place, the
\* one that was copied for it.
MountFindsCopy == pc = "mount" => LocalPathByName(path.name) = path

\* No other artifact is exported to the path of this entry before it.
FirstAtPath(e) ==
  \A f \in 1 .. (e - 1) : ExportPath[f] = ExportPath[e] => ExportName[f] = ExportName[e]

\* Entry e has exported what container c has made: complete, and of the last attempt.
IsExported(e, c) ==
  out[ExportPath[e]][c] = [of |-> ExportName[e], by |-> attempt[PodOf[c]]]

\* A run that ends without an error has exported the artifacts of every subtask it
\* reports as a success, with two exceptions, both silent: the export path held the
\* container's directory before, or another artifact is exported there first.
ExportIsComplete ==
  pc = "done" =>
    \A e \in Exports : ExportName[e] \in MainNames /\ FirstAtPath(e) =>
      \A c \in Containers \ old[ExportPath[e]] : status[c] = "success" => IsExported(e, c)

\* "The artifacts created by preStep can be reused in the subsequent task processing
\* by describing the container name and path": once every subtask has passed, each
\* artifact of the spec can be found.  (Broken for the artifacts of a sidecar.)
DeclaredIsFound ==
  pc = "consume" /\ (\A c \in Containers : status[c] = "success") =>
    \A a \in Names : Found(a) # {}

\* Copies are made by the attempts of the step only: once it has ended, what the later
\* steps and the export read does not change under them.
CopiesAreStable ==
  [][(pc \in {"consume", "mount", "export"}) => UNCHANGED <<dirOf, file>>]_vars

\* localCopy never replaces what it finds in an export path, in this run or a later one.
ExportedIsKept ==
  [][\A x \in Paths : \A c \in Containers :
       out[x][c] # NoFile => out'[x][c] = out[x][c]]_vars

(***************************************************************************)
(* The inductive invariant.                                                *)
(***************************************************************************)

\* Nothing runs before every Task of the step is built.
BuildInv ==
  pc = "build" =>
    /\ file = NoFiles
    /\ \A p \in Pods : phase[p] = "waiting"
    /\ \A c \in Containers : next[c] = 0

AttemptInv ==
  \A p \in Pods :
    /\ phase[p] = "waiting" => attempt[p] < MaxAttempts
    /\ phase[p] # "waiting" => attempt[p] > 0

\* A subtask is a success as long as each of its copies has been, and is finished
\* with, or was never begun, when its Task is not running.
SubTaskInv ==
  \A c \in Containers :
    /\ status[c] = "none" <=> next[c] = 0
    /\ phase[PodOf[c]] # "running" => next[c] \in {0, MainNum + 1}
    /\ status[c] = "success" => attempt[PodOf[c]] > 0

CopyInv ==
  \A c \in Containers : status[c] = "success" =>
    \A a \in MainNames : a < next[c] =>
      dirOf[a] # NoDir /\ file[a][dirOf[a]][c] = attempt[PodOf[c]]

ReturnedInv == pc \in {"consume", "mount", "export", "done"} => AllReturned

\* An export path holds what it held before the run and the exports so far.
ExportInv ==
  /\ pc \in {"build", "step", "consume", "mount"} => exporting = 0
  /\ pc = "done" => exporting = ExportNum
  /\ pc # "idle" => \A x \in Paths : (\A e \in 1 .. exporting : ExportPath[e] # x) =>
                      \A c \in Containers \ old[x] : out[x][c] = NoFile
  /\ pc # "idle" => \A e \in Exports :
                      e <= exporting /\ ExportName[e] \in MainNames /\ FirstAtPath(e) =>
                        \A c \in Containers \ old[ExportPath[e]] :
                          status[c] = "success" => IsExported(e, c)

AInv ==
  /\ TypeOK
  /\ BuildInv
  /\ AttemptInv
  /\ SubTaskInv
  /\ CopyInv
  /\ ReturnedInv
  /\ ExportInv
  /\ OneDirectory
  /\ MountFindsCopy
=============================================================================

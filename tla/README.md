# kubetest in TLA+

kubetest runs a *TestJob*: it clones repositories, runs presteps, distributes a
main step over the pods of a Kubernetes cluster (one main container per
*strategy key*), runs poststeps, exports artifacts and prints a report whose
status becomes the exit code. It is used as a command (`cmd/kubetest`) and as a
controller (`controllers`) that runs the TestJob objects of a cluster.

The modules here model that program, TLC checks them on small instances, and
TLAPS proves the properties of eight of them for all values of their constants.
Paths below are relative to the repository, `PROJECT.json` maps every definition
to the lines it models.

    tlc -config TaskGroupKubernetes.cfg MCTaskGroup.tla    # a run
    tlapm TaskGroupProofs.tla                              # the proofs of a module

## 1. The system

### Components, their state and their operations

| Component | Code | State | Operations |
| --- | --- | --- | --- |
| kubetest command | `cmd/kubetest/main.go` | options, `canceledBySignal`, exit code | parse, load, run, wait for a signal, print the report, exit |
| Runner | `api/v1/runner.go` | `Result` (status, counts, results of steps) | `Run`: set up, presteps, schedule, main step, log, report file, poststeps, export |
| TaskScheduler | `api/v1/scheduler.go` | local: keys, loop counters, `tasks`, `finishedKeyNum` | `Schedule` by number of pods or of containers, dynamic keys |
| TaskBuilder | `api/v1/task_builder.go` | per build: spec, mount paths, what to copy where | `BuildWithKey`, `addContainersByStrategyKey`, the mounts, `preInitCallback` |
| TaskGroup, Task | `api/v1/task.go` | job, retry count, `TaskResult`, collected results | `Run`, `runWithRetry`, `run`, status and counts |
| SubTask, SubTaskGroup, SubTaskScheduler | `api/v1/subtask.go`, `scheduler.go` | one result per subtask, a mutex and a WaitGroup per group | `Run`, `add`, cutting subtasks into groups |
| Jobs: kubernetes, local, dry run | `api/v1/job.go` | root directory, callbacks | `RunWithExecutionHandler`: pre-init, mounts, handler, finalizer; executors, copies |
| ResourceManager | `api/v1/resource.go` | the three managers, log and report paths | `Setup`, `Cleanup`, `WriteLog`, `WriteReport`, lookups |
| RepositoryManager | `api/v1/repo.go` | `clonedPaths`, `archivePaths`, and the directories on disk | `CloneAll`, `Cleanup` |
| ArtifactManager | `api/v1/artifact.go`, `util.go` | directory and file of each artifact name, and the files | `AddArtifacts`, lookups, `ExportArtifacts`, `localCopy` |
| TokenManager | `api/v1/token.go` | tokens by name | `TokenByName`, which masks what it finds |
| Logger | `api/v1/logger.go` | output, a copy of it, masks, mutex | lines at four levels, groups, `LogText` |
| Validator | `api/v1/validator.go` | names seen so far | one method per part of the spec |
| TestJobReconciler | `controllers/testjob_controller.go` | the TestJob in the API server, a cache per controller, running goroutines | `Reconcile`, `runTestJob` |

### How they interact

- The command calls `Runner.Run` with a context that a goroutine cancels on the
  first signal; the controller calls it in a goroutine that outlives `Reconcile`.
- The Runner builds one Task per pre- and poststep and a TaskGroup for the main
  step. All the Tasks of a TaskGroup are *built* before any of them *runs*; building
  makes artifact directories and looks up paths.
- A TaskGroup runs every Task in a goroutine (an errgroup without context), a Task
  runs its Job up to a bounded number of times, the Job calls the Task's handler with
  its executors, the handler runs groups of subtasks one after the other and every
  subtask of a group in a goroutine.
- Before the handler, a Job copies what its containers mount into volumes of the
  pod (with a pre-init container) and unpacks it in each container. What there is
  to copy was fixed when the Task was built, from the managers of repositories,
  tokens and artifacts; that the names exist was checked once, by the validator.
- All goroutines print through one logger; the TokenManager adds masks to it
  whenever a token is looked up; `WriteLog` writes its copy to a file.
- A subtask executes its container's command, copies its artifacts into a directory
  the ArtifactManager looks up at that moment, logs, and reports to the scheduler's
  `OnFinish` callback, which counts finished keys.
- Controllers share the TestJob objects in the API server, and read them from caches.
- Runs on one machine share the file system: a `clonedPath` and an export path keep
  what an earlier run left.

### What is hard

Goroutines of many pods ending in any order (results, counts, artifacts); attempts
that fail before, in or after the handler, are retried or swallowed (`FailedJob`);
copies that fail half-way, or do not end and go on behind a timeout; names that are
looked up long after they were checked; one log printed by all goroutines; loop arithmetic in `uint32`; a signal at any time; several
controllers, with caches that lag, lost answers, crashes; directories that outlive a
run. `PROJECT.json` lists each such hazard at its line, with the properties that
would catch it.

### What makes each component correct

- *TaskGroup*: success is reported exactly if everything ran and passed; results are of
  the last attempt, all of a pod or none; the limit on concurrent subtasks is kept;
  nothing runs on after `Run`; `Run` ends.
- *Scheduler*: every key is run once, in as many pods as the limits allow and no more
  than are needed, under a name of its own.
- *Runner and command*: the exit code is that of the report only if everything was
  done; a canceled run says so.
- *Reconciler*: a TestJob is run at most once, from the spec it has; it is run and
  deleted in the end, unless a fault got it stuck.
- *Repositories*: what is tested is the revision the job asks for; nothing is left.
- *Artifacts*: no artifact of a passed subtask is lost or cut short on its way to the
  export path or to a later step.
- *Validator, TaskBuilder, jobs*: a name the validator has accepted is found later; a
  command starts only when everything its container mounts is there, whole; a run ends
  even if a copy does not.
- *Logger*: the log file has everything that was printed, whole lines in order, and no
  token.

## 2. Modules

    DistributedStep        what the main step promises (abstract)
      ^ implemented by TaskGroup           (TaskGroupProofs, MCTaskGroup)
      ^ instantiated by Runner             (RunnerProofs, MCRunner)
    KeySchedule            the Tasks there are     (KeyScheduleProofs, MCKeySchedule)
    Artifacts              what attempts leave     (ArtifactsProofs, MCArtifacts)
    Repositories           what steps clone        (RepositoriesProofs, MCRepositories)
    Validator              what a TestJob may say
      ^ extended by Mounts: what commands find     (MountsProofs, MCMounts)
    Logger                 what the log file has   (LoggerProofs, MCLogger)
    Controller             who runs a TestJob      (ControllerProofs)

An `MC` module only holds constants for TLC. A definition commented "Mutant" is a
plausible bug that the specification does not use: replacing the definition after it
by the mutant makes TLC find a property violated (`PROJECT.json`, "mutants").

**TaskGroup.** `group` is where `TaskGroup.Run` is, `phase[p]` where the goroutine of
Task `p` is, `sub[t]` where that of subtask `t` is; `from[p]` is how far the loop over
groups got. `Launch` is one turn of `backoff.Continue`, `EnterHandler` the start of the
handler and its first group, `Execute`, `CopyArtifact`, `OnFinish` and `AddSubTask` the
parts of `SubTask.Run` and the goroutine around it, `FinishGroup` the return of
`wg.Wait`, `JobFailsEarly` and `JobEnds` the end of an attempt with every kind of error
the run mode can give, `ReturnResults` and `ReturnError` the return of `eg.Wait` and
`setByTaskResult`. Output, elapsed times and log groups are left out; sidecars are
started and do not take part.

**DistributedStep.** Every pod settles once, with a verdict for each of its subtasks,
with none, or by breaking the run; when all have settled the outcome follows from the
verdicts. TaskGroup implements it by the mapping at its end (a pod settles when its
goroutine returns), and Runner uses it as its main step.

**KeySchedule.** One action per iteration of the loops in
`maxContainersBasedSchedule` and `maxPodNumBasedSchedule`, with `Uint32` for the
conversions; a Task is the interval of keys it is built for. `Init` ranges over the
validated settings, so one run checks all of them. Building may fail at any Task. The
counter `i` is a `uint32`, too, and wraps. `sidecars` is the number of the template's other containers,
which `addContainersByStrategyKey` puts into every pod (`PodContainers`); what they do is left out.

**Artifacts.** `dirOf` is `nameToLocalDirs`, `file` the temporary directories, `out`
the export paths, which are kept between runs. A file's content is the attempt that
made it, or "partial"; in an export path also the artifact, since the entries of `exportArtifacts`
(`ExportName`, `ExportPath`) may name one path twice, and the validator does not mind. The attempts are those of TaskGroup, without the groups (which
only order subtasks). `BuildConsumer` and `MountArtifact` are the two lookups of a later
step; `ExportArtifact` is one turn of `ExportArtifacts`, which may stop anywhere.
Containers stand for their names, which is sound since KeySchedule proves
`ContainerNamesUnique`. The order of containers within a glob is not modelled: an export
that fails has copied any subset of them. The mode is kubernetes: a dry run copies
nothing at all.

**Repositories.** `dir[p]` is the revision checked out in a directory, `archives` what
`CloneAll` recorded. One action per step of `CloneAll`'s loop, each of which may fail
(`Abort`), `Cleanup` with directories that cannot be removed, and users who fill a
`clonedPath` before a run. Fetching, merging and authentication are one step, `Checkout`, that
fails or ends in the wanted revision, but for a `rev` that is a name (`NamedRevs`): of this
`plumbing.NewHash` makes the zero hash without an error, and HEAD is checked out (`CheckedOut`).

**Validator.** Operators on a TestJob as a record: one per method of the validator that
checks a reference from one part of the spec to another. The names seen so far
(`artifactNameMap`) are those of the steps before. Whether fields are present is left out.

**Mounts.** A TestJob from validation to export, step by step, in each run mode; a step
is one Task, since the pods of a main step share nothing here. `pc`, `at` and `attempt` say where
the run is; `known` and `gathered` are the artifacts that have a directory, and a file in it;
`todo`, `dst`, `copying` and `stray` are the copies of `preInitCallback`: what is left, to which
path (any, where a map's order decides), the current one, and the goroutines nobody
waits for any more; `content[p]` is what is under a path of the volumes; `view[f][p]` is what was
unpacked at the mount point `p` of the file system `f` (a container's own, or the one root directory of a
local job), `started` whose commands were started; `why` is the reason of a failure.
`Build` is `buildJob` with its lookups, once per attempt; `StartCopy`, `CopyEnds`,
`CopyFails` and `CopyTimesOut` are one turn of the loop over copies, and `StrayEnds` what an abandoned copy still does;
`MountContainer` unpacks in one container, `StartHandler` and `RunFinalizer` start
commands. Mount points may be the same or lie in each other (`Under`). Unpacking goes kind by
kind, and in the order of a map within a kind (`MayFollow`, `Orders`): a repository and an artifact make room with
`rm -rf`, so that what is at or below their mount point is gone (`Removes`), a file is copied into a directory
that another mount has made in its place (`Diverts`), and nothing can be unpacked below a file (`Stops`).
`Unpacked` is what is left at each mount point in the end. The local mode drops the error of the pre-init callback, the dry run copies
nothing, and only a cluster retries.

**Logger.** The main step again, but of what it prints: `phase`, `attempt` and `sub` are
TaskGroup's without groups and results, `finishedKeyNum` and its mutex are the scheduler's
`OnFinish`, held while the line is printed. `mainLogger.log` is four steps (`Say`, `Lock`, `PrintOut`,
`PrintBuf`), interleaved with those of every other goroutine, in `out` and the copy `buf`.
A group is one line, because `groupLogger` collects it. `CreateJob` looks a token up again, and
`masks` grows; a line's `clear` are the tokens that can be read in it. `WriteLog` reads `buf`
without the mutex: the abandoned copy (`StrayCopy`) may be printing, and its line is in the file or not.

**Runner.** `stage` is where the main goroutine is, one action per step of `_main` and
`Runner.Run`, every one of which may fail; `stepVerdict` is how each pre- and poststep has ended:
"empty" is one whose Job ended in a `FailedJob` that `Task.run` swallowed before a result was there, so that
Run finds nothing to complain of, and goes on. `signal` is the signal goroutine, in its two
statements. `canceledBySignal` is read without synchronization, so an error that was
not caused by the cancellation may see it or not (`FlagsRead`).

**Controller.** `api` is the TestJob of one name, `written` everything the API server
ever stored, `cache[m]` one of these; `meddled` says that a user has deleted a TestJob while it was run. `Get` and `Update` are the two requests of
`Reconcile`, with the outcomes of an optimistic update; `EndRun` is the end of
`runTestJob`, which deletes by name. API server, informer, work queue and users are
external.

## 3. What is checked

| Run | Instance | Shows |
| --- | --- | --- |
| `TaskGroupKubernetes` | pods of 3 and 1 subtasks, 2 at once, 2 attempts | The report is sound, counts agree, results are final and all-or-nothing, nothing strays; DistributedStep is implemented, with its fairness, so the step ends. |
| `TaskGroupProgress` | the same with a smaller pod | *Violated:* the progress log passes 100%. |
| `KeySchedule` | 0-9 keys, limits 0-9 and two beyond, `UintSize` = 10, 0-1 sidecars | Every key once, within the limits, no idle pod, unique names; a bad slice or divisor in two cases only. |
| `KeySchedulePod` | the same | *Violated:* a pod has at most `maxContainersPerPod` containers. |
| `ControllerReplicas` | 2 controllers, 2 TestJobs, 1 edit, 2 faults | At most one run, fresh; what runs is marked, and a mark without a run has a fault as its reason; every TestJob settles, and is deleted by its own run, until a user deletes one that is being run. |
| `ControllerMark` | 1 controller, 1 fault | *Violated:* `running` is set and nothing runs. |
| `Runner` | 2 presteps, 2 pods with 3 subtasks, 2 poststeps | Exit codes and report are sound, whatever fails and whenever the signal comes. |
| `Repositories` | 5 repositories, 2 in one `clonedPath`, 1 in another, 2 with a name as `rev`, 2 runs | The right revision is archived and clones are removed, with the exceptions the properties name. |
| `Artifacts` | 2 pods of one key, 2 artifacts that are exported to one path and 1 of a sidecar, 2 attempts, 2 runs | All copies in one directory, complete for a passed subtask, found where they were copied from, and exported, unless something was in the export path before. |
| `Mounts` | 143 TestJobs of up to 3 steps, 3 modes, 2 volumes, 4 containers, 4 mount points, 2 attempts | Commands start only with all their mounts, whole in a cluster, but for those another mount may disturb; no validated name is missing, with the exceptions the property names; a mount fails for two reasons; the run ends though copies need not. |
| `Logger` | 2 Tasks of 1 subtask, 2 attempts, 1 abandoned copy, levels 1 and 4 | The log file has every group and progress line, once, in order, and no token. |
| `ArtifactsSidecar` | 1 artifact of the main container, 1 of a sidecar | *Violated:* an artifact of the spec can be found after the step passed. |

`TypeOK` is a conjunct of the inductive invariants `IInv` (TaskGroup and Logger), `KInv`, `CInv`,
`RInv`, `MInv`, `CloneInv` (Repositories) and `AInv` (Artifacts), which a run of each of the eight modules
checks.

**Bounds, and why they are enough.** Two pods interleave in every way two goroutines
can; three subtasks at two at once give a full and a partial group; a second attempt is
all a retry needs (`runWithRetry` allows more: the proofs hold for every number). The
keys and limits of KeySchedule put every limit below, at and above the number of keys,
with and without a remainder, and 10 stands for 2^32: every number of keys that fits, so that the
counter wraps, and limits beyond it whose low bits are zero and are not. In Controller, two TestJobs of one name and two faults give a deletion and
a creation between any two requests, and a fault that meets another fault's remains. In Repositories
and Artifacts a second run is the first that can find what an earlier one left. The jobs of
Mounts break each rule of the validator once, and those it does not have; two volumes
are the first that can name one resource twice or lie in each other (all orders of two mounts are all there is
to an exception, which is about pairs; the proof has any number), and an init container, a sidecar and a finalizer
are one container of each group; a step before and after the main step is enough for every
direction of a reference. In Logger two subtasks, a retried Task and a stray goroutine
are every kind of actor, two of one kind; the proof holds for all numbers.
`MaxAttempts` bounds the attempts a module explores, `MaxRuns` the runs,
`MaxJobs`, `MaxEdits` and `MaxFaults` what users and faults do; nothing else is bounded.
The runs that may stop say `CHECK_DEADLOCK FALSE`: users need not do anything (Controller),
the number of runs is bounded (Repositories, Artifacts), or a run is over (Mounts).

**Fairness.** In TaskGroup: every goroutine that can go on does, commands and copies
end, and a Job ends (kubejob's pending-phase timeout of ten minutes ends a pod that
never starts; a command that hangs is the user's, and hangs kubetest too). In Mounts: the main
goroutine goes on and a timer fires; nothing is assumed of copies, which is the point
(`CopyEnds`, `CopyFails`, `StrayEnds` and `SkipStep` are not in it). In Controller: informers catch up, queued requests are handled, runs end and
dead processes are restarted; faults and users owe nothing. All of it is weak fairness:
no action the code relies on is disabled again and again by another.

## 4. What is proved

| Module | Theorems |
| --- | --- |
| `TaskGroupProofs` | `IInv` is invariant; type correctness; `SuccessReportSound`, `ConcurrencyBound`, `NoStrayWork`, `ResultsAreFinal`, `CountsAgree`; TaskGroup implements DistributedStep; `GroupAdvances` |
| `KeyScheduleProofs` | `KInv` is invariant; type correctness; `EveryKeyOnce`, `WithinLimits`, `NoIdlePod`, `ContainerNamesUnique`, `SlicesInRange`; `ScheduleAdvances` |
| `ControllerProofs` | `CInv` is invariant; type correctness; `AtMostOneRun`, `MarkMatchesRuns`, `RunsAreFresh`, `DeletesItsOwn` |
| `LoggerProofs` | `IInv` is invariant; type correctness; `LogFileComplete` |
| `RunnerProofs` | `RInv` is invariant; type correctness; `ExitCodeSound`, `PrintedReportFinal`, `CanceledExits` |
| `MountsProofs` | `MInv` is invariant; type correctness; `CommandsSeeMounts`, `NamesAreKnown`, `MountFailureHasReason`; `RunAdvances` |
| `RepositoriesProofs` | `CloneInv` is invariant; type correctness; `RightRevision`, `NothingLeftBehind`; `ProvidedIsKept` |
| `ArtifactsProofs` | `AInv` is invariant; type correctness; `OneDirectory`, `SuccessIsGathered`, `MountFindsCopy`, `ExportIsComplete`; `CopiesAreStable`, `ExportedIsKept` |

*Assumptions* are the named ASSUMEs on the constants, and no others: in TaskGroup a finite set of
pods with any number of subtasks each, any limit, any run mode, at least one attempt
(so the local and dry-run modes, and steps without a strategy, are covered by the proofs
although the run has the kubernetes mode); in KeySchedule any settings, fewer keys than
2^32, any numbers of sidecars, any word size; in Controller any set of controllers and any bounds; in Logger any Tasks
with any subtasks, any levels, at least one attempt; in Runner any
number of pre- and poststeps, and any main step; in Mounts any TestJobs with at least one
step, whose containers have names of their own (`JobAssumption`; a cluster demands it) and come
in the order init, main, finalizer, whose volumes are finitely many, resources of the five kinds there
are, and any relation `Under` between mount points in which each is under itself (`PointAssumption`); in Repositories any number of repositories, with or without a `clonedPath`, alone or shared, whose `rev` is a name or is not
(`PlaceAssumption` and `RevAssumption` only keep the names of directories, revisions and states apart); in
Artifacts a finite set of pods with any containers and artifacts, any export entries, with paths of their own or
shared, at least one attempt. The number of runs is any in both.

*Arguments.* None of the properties is inductive by itself.

- TaskGroup: that a report of success is sound needs to know what a result that
  was added says of the goroutine that made it. `IInv` says, for each pod, which subtasks are
  done, current or waiting (`GroupInv`), what their results hold in each phase (`OutInv`),
  that the TaskResult is exactly the results of the done ones (`ResultInv`), and that
  the report is computed from all of them (`ReportInv`). There is one lemma per
  action; that the numbers add up then needs the cardinality of a set of records
  (`CountRecords`, `CollectedFacts`). The refinement maps `JobFailsEarly` and `JobEnds` to `Settle` or a stutter
  (`EndAttemptRefines`), `ReturnResults` and `ReturnError` to `Decide` (`ReturnRefines`), everything else to a
  stutter (`InvisibleStep`).
- KeySchedule: that every key is in one Task needs the Tasks so far to share out the keys before
  `sum` (`CoverInv`), and that the last iteration stops at `keyNum` needs the arithmetic
  of each loop (`SplitInv`, `ChunkInv`), on facts about quotients (`DivFacts`, `QuotientFacts`). The counter of the
chunk loop wraps exactly with one key per pod and 2^32 - 1 keys (`CounterWraps`), when every key is in a Task already
(`Wrapped`); the next slice is then out of range, and nothing is scheduled (`PanicInv`).
- Controller: at most one run needs that a version names one state
  (`VersionInv`), that what a controller is about to write is a state that was stored
  unmarked (`ReadInv`), and that a TestJob that was started is marked as long as it
  exists (`StartInv`): so a second update is of an older version, and is refused.
- Logger: the file is complete because the copy is when the last goroutine is done,
  and that needs to know for every goroutine what it has printed. `CopyFollows` says that
  the copy is what was printed but for the line of the mutex's holder, `SayInv` what each goroutine's
  current line says, `GroupInv` which groups are in the copy already (`Grouped`), and `ProgressInv` that
  the numbers up to `finishedKeyNum` are in it, or the last one is under way, with `finishedKeyMu`
  held (`MutexInv`). That no token is clear needs that every token of an attempt was
  masked before its pod started (`MaskInv`). There is one lemma per action; `PrintBuf` is
  the one that has to show the order.
- Runner: what an exit code says was decided many stages before. `StageInv` keeps what
  has been done at each stage, `LoopInv` that the loops have passed over no step that failed, `OutcomeInv` that the outcome of the main step still
  follows from its verdicts, `PrintInv` and `ExitInv` how report and exit code follow from it; `CancelInv` says that
  a cancellation comes from the signal goroutine, which sets its flag first.
- Mounts: that a command sees its mounts needs that the copies before it went where it looks
  (`CopyInv`, with the destinations a map's order may choose), that containers get theirs
  in order (`MountInv`), that what is found at a mount point after unpacking is the mount that belongs there unless
  one of the pairs of `Disturbed` is in the way, whichever order was taken (`LastOf`, `Decide`), that nothing starts before (`StartInv`), and that a copy that was given
  up is of an attempt that is over (`StrayInv`): in a cluster it ends the attempt, whose pod is left behind.
  That names are known follows from what the validator checked of the step (`PlaceInv`,
  `CopiedIsValid`): what is looked up is in the volumes it has seen.

- Repositories: what is archived was cloned by one of several repositories, of this run or none. `RecordedInv` says
  how far `CloneAll` is, `ThereInv` that the directories of what it has recorded exist, so that nobody
  clones there again, `FirstInv` that it writes only where no repository before has been, and `PathInv` which
  repository has filled a `clonedPath` that neither a user nor a failed run has (`ClonedFor`: the first that has this path).
  `RightRevision` and `NothingLeftBehind` follow: a repository that finds its path filled is not the first
  (`SharedBefore`), and `Cleanup` visits the path of the one that was.
- Artifacts: a copy is of use only in the directory `nameToLocalDirs` names last. That no copy is in another needs
  that no directory is made once a Task runs (`BuildInv`), that a subtask's copies so far are whole and of
  the current attempt (`CopyInv`), that no subtask is at work while its Task is between two attempts or past
  the last (`SubTaskInv`), and that attempts are counted (`AttemptInv`); the later steps read what no attempt writes any more (`ReturnedInv`). `ExportInv`
  then says what an export path holds, besides what earlier runs have left, after each turn of `ExportArtifacts`: for
  an entry that is the first at its path (`FirstAtPath`) the containers' own copies.
- The deletion by name: `OwnInv` says that, until a user meddles, a run has its TestJob as long as it goes on, so
  there is never a second run, nor another TestJob under the name.

*Action properties.* Some say what a step may never do, and are proved from the same invariants; no run lists
them, and TLC agrees on the instances of section 3. `ProvidedIsKept`: cloning leaves a directory a user has
filled as it is. `CopiesAreStable`: once a step has ended its copies stay. `ExportedIsKept`: nothing in an export path is replaced, by
this run or a later one. And three are the safety half of termination, which is as far as these provers go: in
KeySchedule, TaskGroup and Mounts every step leaves less to do in a well-founded order (`ScheduleAdvances`,
`GroupAdvances`, `RunAdvances`).

- `ScheduleAdvances`: the iterations that are left of the loop Schedule is in, at most 2^32 (`LoopBound`), and none
  after its counter has wrapped.
- `GroupAdvances`: attempts, then phases, then keys of a pod, and where each subtask is. A pod that goes on
  may start its subtasks anew; nothing else gives anybody more to do. It is why `Retry` has to count, and why a group of no
  subtask must not be followed by another.
- `RunAdvances`: steps, then attempts, then places in an attempt, then copies and mounts; the copies that go on behind
  a timeout are apart, and get fewer by themselves.

*Only model-checked:* liveness (TLAPS has no proof rules here for fairness and ENABLED):
`ImplementsFairDistributedStep`, `EveryJobSettles` and `RunEnds`. That something is always
left to do is TLC's part, that it cannot go on for ever is proved.

## 5. What the models show of the code

Four runs end in a violation of something the repository says:

- **Progress** (`TaskGroupProgress`). `README.md:453` shows "3/3 (100.000000%) finished.";
  the counter is not reset when a Job is retried, so it can pass the total.
- **Containers of a pod** (`KeySchedulePod`). `types.go:390` and `README.md:431` limit the containers of a
  pod; the scheduler cuts the keys by that limit, and the sidecars come on top (`task_builder.go:364`).
- **The mark** (`ControllerMark`). `types.go:399` says `Running` is "Whether the testjob is
  running"; nothing takes it back, so a TestJob whose controller died is never run again.
- **Artifacts of sidecars** (`ArtifactsSidecar`). `README.md:275` lets a spec name any container,
  and the validator takes it; only main containers become subtasks, so a sidecar's
  artifact is never copied, and a step that mounts it fails.

The properties that hold have exceptions that are worth knowing, each one in the text of the
property, and each one something the code does:

- `SlicesInRange`: a limit that is a multiple of 2^32 passes validation and divides by zero; with
  one key per pod and 2^32 - 1 keys the loop's counter wraps, and a slice is out of range (`scheduler.go:89`).
- `ExitCodeSound`, `PrintedReportFinal`: a pre- or poststep whose Job ended in a swallowed `FailedJob` has no results, and
  counts as passed although its commands may not have run (`task.go:127`, `runner.go:93`).
- `RightRevision`: a `rev` that is no hash, a tag or a branch say, gives HEAD without an error (`repo.go:160`); a `clonedPath` that
  a user, a failed or killed run, or another repository has filled is reused as it is, an empty one too,
  although `types.go:57` says "and the directory is not empty"; an archive whose closing fails is taken for complete.
- `NothingLeftBehind`: `Cleanup` removes a `clonedPath` the user has filled; a run whose `Setup` fails leaves its clones,
  of which the property sees those in a `clonedPath`, and not the temporary ones.
- `ExportIsComplete`: a container's directory that is already in the export path is kept: of an earlier run, of an
  export that failed, or, in one run, of another artifact with the same export path (`util.go:41`).
- `DeletesItsOwn`: a run deletes by name; once a user has deleted a TestJob that is being run, and created it again,
  the old run deletes the new one.
- `CommandsSeeMounts`: a mount point at or in another one, in a container (in the root directory of a local job in any two),
  may be wiped by the `rm -rf` of the other, or be made a directory into which a file is then copied; the local mode drops the
  error of a copy, so a command may start on a part; a finalizer's mounts are copied for, and never unpacked in it.
- `MountFailureHasReason`: containers that mount one resource through different volumes find it under
  one of them only; nothing can be mounted below a file.
- `NamesAreKnown`: the token of a repository with a `clonedPath`, and the container `template.main` names, are not looked
  up before they are needed.

Seen while reading, and without a property: a sidecar whose own environment has the strategy key's variable counts
as a main container (`task.go:181`), and gets a subtask; `types.go:243` promises the result in the report file,
and `Result` has no exported field, so the file is `{}` (`resource.go:90`); `ExtParam` never gets into a report,
since `Result.job` is never assigned (`runner.go:151`); the directories made for archives and
for tokens are never removed (`repo.go:47` removes the files, `token.go:42`); a finalizer's volumes are left out of
the pod's (`task_builder.go:675`), so a finalizer that mounts one of its own is refused; the
backoff policy is started without the context (`task.go:69`), so a canceled run may wait and
build another Job before it ends.

## 6. Assumptions about what is outside

- *kubejob*: a Job returns only after its handler has returned, calls the handler at
  most once, and ends with nil, a `FailedJob`, one of the retryable errors, or another error.
- *The pod*: the API server refuses a pod whose containers mount undeclared volumes, or two at one path.
- *Copies of an executor*: succeed, fail having written nothing or a part, or do not end.
- *Tokens*: a mask hides the text `AddMask` got; the value of a `filePath` token is masked
  as it is in the file, white space included (`token.go:130`), so output that shows
  it without is not covered.
- *The race of `WriteLog`*: it may miss the line that is being appended, and sees the rest; that its read of the
  buffer is not torn is assumed, though Go does not promise it.
- *Paths*: no export path lies in another one; no mount point lies in the paths under `/tmp` that kubetest
  mounts its volumes at.
- *Signals*: after the first one the command goes on until its steps notice; a second one changes nothing.
- *git, tar and the file system*: an operation succeeds or fails; a copy that fails leaves
  nothing, or a part.
- *The API server*: accepts an update only of the version it holds (the client sends the
  version it has read), and stores changes one after the other.
- *controller-runtime*: one `Reconcile` at a time for a name in one process, errors are
  queued again, every change gets to each cache in order, maybe late and with gaps.
- Leader election is off by default (`cmd/controller/main.go`), and turned on in
  `config/manager/manager.yaml`: two active controllers are the default the models take.

## 7. Not modelled

- **Images, agents, labels, resources and environment** of pods (`task_builder.go`, `job.go`), the sidecars' environment
  included: passed on as they are. The kubetest-agent command hands over to kubejob.
- **Requests to GitHub and the API server for a token** (`token.go`): I/O; the lookup and its mask
  are in Mounts and Logger.
- **Fields that must be present** (`validator.go`): one test each.
- **Texts**: command lines, wording of log lines, JSON, the report's elapsed times.
- **Generated code**, CRDs, manifests: nothing to check.

## 8. Plan

Done, in this order: TaskGroup with DistributedStep, KeySchedule and Controller, each with its proofs;
Runner on top of DistributedStep; Repositories and Artifacts, the two that keep state between runs;
Mounts on top of Validator; Logger; the proofs of Logger, Runner and Mounts,
then of Repositories and Artifacts; the variants of KeySchedule, TaskGroup and Mounts.

Next, in order:

1. Artifacts on top of the TestJobs of Validator, with more than one step that produces.
2. An abstract specification of a Task's attempts, for TaskGroup, Logger and Artifacts to implement: each
   of them has the attempts with the details it needs.

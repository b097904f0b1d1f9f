------------------------------ MODULE KeySchedule ------------------------------
(***************************************************************************)
(* TaskScheduler.Schedule: the strategy keys of the main step are found    *)
(* (static, or the output of a task run for the purpose) and cut into      *)
(* slices, and a Task is built for every slice before any of them runs.    *)
(* The loops of maxContainersBasedSchedule and maxPodNumBasedSchedule are  *)
(* modelled iteration by iteration, with the uint32 conversions they make. *)
(* A key is its index in the list of keys; a Task is the half-open         *)
(* interval of keys it is built for.                                       *)
(***************************************************************************)
EXTENDS Integers, Sequences, FiniteSets

CONSTANTS
  Strategies,  \* the strategy.scheduler settings considered
  KeyNums,     \* the numbers of keys considered
  Sidecars,    \* the numbers of sidecars considered for the template
  UintSize     \* 2^32: the settings are int, the loops compute in uint32

ASSUME StrategiesAssumption == Strategies \subseteq [maxPodNum : Nat, maxContainersPerPod : Nat]
ASSUME KeyNumsAssumption == KeyNums \subseteq 0 .. (UintSize - 1)
ASSUME SidecarsAssumption == Sidecars \subseteq Nat
ASSUME UintSizeAssumption == UintSize \in Nat /\ UintSize > 2

VARIABLES
  strategy,  \* step.Strategy.Scheduler, as validated; fixed by Init
  sidecars,  \* the containers of the template beside the main one; fixed by Init
  source,    \* "none" (no strategy), "static" or "dynamic"
  keyNum,    \* len(keys); -1 until the keys are known
  pc,        \* the loop the scheduler is in
  i,         \* the loop's counter
  sum,       \* the keys sliced so far
  tasks      \* the Tasks built so far, with the interval of their keys

config == <<strategy, sidecars, source>>
vars == <<strategy, sidecars, source, keyNum, pc, i, sum, tasks>>

Uint32(n) == n % UintSize
MaxPods == Uint32(strategy.maxPodNum)
MaxContainers == Uint32(strategy.maxContainersPerPod)

\* ValidateScheduler: one of the two limits is set, and only one.
ValidScheduler(s) == (s.maxPodNum = 0) # (s.maxContainersPerPod = 0)

Ended == {"done", "failed", "panic"}
Loops == {"perKey", "split", "chunk"}

Init ==
  /\ strategy \in {s \in Strategies : ValidScheduler(s)}
  /\ sidecars \in Sidecars
  /\ source \in {"none", "static", "dynamic"}
  /\ keyNum = -1
  /\ pc = "start"
  /\ i = 0
  /\ sum = 0
  /\ tasks = <<>>

Fail == pc' = "failed" /\ UNCHANGED <<config, keyNum, i, sum, tasks>>
Panic == pc' = "panic" /\ UNCHANGED <<config, keyNum, i, sum, tasks>>

(***************************************************************************)
(* getScheduleKeys.  Validation rejects an empty static list; the filtered *)
(* output of the dynamic key task may be empty, and the task may fail.     *)
(***************************************************************************)
BuildWithoutStrategy ==
  /\ pc = "start"
  /\ source = "none"
  /\ \/ Fail
     \/ /\ pc' = "done"
        /\ tasks' = <<[idx |-> 0, from |-> 0, to |-> 0]>>
        /\ UNCHANGED <<config, keyNum, i, sum>>

GetKeys ==
  /\ pc = "start"
  /\ source # "none"
  /\ \/ /\ keyNum' \in IF source = "static" THEN KeyNums \ {0} ELSE KeyNums
        /\ pc' = "keys"
        /\ UNCHANGED <<config, i, sum, tasks>>
     \/ source = "dynamic" /\ Fail

(***************************************************************************)
(* The choice of the loop.  A zero divisor is a run-time panic.            *)
(***************************************************************************)
Enter(loop) == pc' = loop /\ UNCHANGED <<config, keyNum, i, sum, tasks>>

SchedulePods ==
  /\ pc = "keys"
  /\ strategy.maxPodNum # 0
  /\ \/ keyNum < MaxPods /\ Enter("perKey")
     \/ keyNum >= MaxPods /\ MaxPods # 0 /\ Enter("split")
     \/ MaxPods = 0 /\ Panic

\* Mutant: a remainder does not count as a pod.
FitsOnePodRounded == keyNum < 2 * MaxContainers

FitsOnePod == keyNum <= MaxContainers

ScheduleContainers ==
  /\ pc = "keys"
  /\ strategy.maxPodNum = 0
  /\ \/ FitsOnePod /\ Enter("one")
     \/ ~FitsOnePod /\ MaxContainers # 0 /\ Enter("chunk")
     \/ ~FitsOnePod /\ MaxContainers = 0 /\ Panic

(***************************************************************************)
(* BuildWithKey on the keys from "from" to "to"; it may fail, and then     *)
(* Schedule returns its error.  The counter i of every loop is a uint32.   *)
(***************************************************************************)
\* Mutant: every Task has ConcurrentIdx 0.
BuildWithIdx0(from, to) ==
  \/ Fail
  \/ /\ tasks' = Append(tasks, [idx |-> 0, from |-> from, to |-> to])
     /\ sum' = to
     /\ i' = Uint32(i + 1)
     /\ UNCHANGED <<config, keyNum, pc>>

Build(from, to) ==
  \/ Fail
  \/ /\ tasks' = Append(tasks, [idx |-> i, from |-> from, to |-> to])
     /\ sum' = to
     /\ i' = Uint32(i + 1)
     /\ UNCHANGED <<config, keyNum, pc>>

\* Mutant: an empty slice is built like any other.
BuildSliceOrEmpty(to, Empty) == IF to \notin sum .. keyNum THEN Panic ELSE Build(sum, to)

\* keys[sum:to] for the loops: out of range it panics, empty it is not built.
BuildSlice(to, Empty) ==
  IF to \notin sum .. keyNum THEN Panic
  ELSE IF to = sum THEN Empty
  ELSE Build(sum, to)

\* keyNum <= maxContainers: one Task takes all the keys, even if there is none.
BuildOne ==
  /\ pc = "one"
  /\ \/ Fail
     \/ /\ tasks' = <<[idx |-> 0, from |-> 0, to |-> keyNum]>>
        /\ sum' = keyNum
        /\ pc' = "done"
        /\ UNCHANGED <<config, keyNum, i>>

\* Mutant: the loop over the keys stops one too early.
BuildPerKeyButLast ==
  /\ pc = "perKey"
  /\ IF i < keyNum - 1
     THEN Build(i, i + 1)
     ELSE pc' = "done" /\ UNCHANGED <<config, keyNum, i, sum, tasks>>

\* Fewer keys than pods: one Task per key.
BuildPerKey ==
  /\ pc = "perKey"
  /\ IF i < keyNum
     THEN Build(i, i + 1)
     ELSE pc' = "done" /\ UNCHANGED <<config, keyNum, i, sum, tasks>>

\* The last pod takes the remainder; an empty slice ends the loop.
PerPodKeyNum == keyNum \div MaxPods
\* Mutant: nobody takes the remainder.
SplitEndEven == Uint32(sum + PerPodKeyNum)

SplitEnd == IF i = MaxPods - 1 THEN keyNum ELSE Uint32(sum + PerPodKeyNum)

BuildSplit ==
  /\ pc = "split"
  /\ i < MaxPods
  /\ BuildSlice(SplitEnd, Enter("check"))

\* Chunks of maxContainers keys, the last one with what is left, if anything.  When
\* the last iteration is number 2^32 - 1, the counter wraps and the loop goes on.
Concurrent == keyNum \div MaxContainers
ChunkEnd == IF i = Concurrent THEN keyNum ELSE Uint32(sum + MaxContainers)

SkipChunk == i' = Uint32(i + 1) /\ UNCHANGED <<config, keyNum, pc, sum, tasks>>

BuildChunk ==
  /\ pc = "chunk"
  /\ i <= Concurrent
  /\ BuildSlice(ChunkEnd, SkipChunk)

EndLoop ==
  /\ \/ pc = "split" /\ i >= MaxPods
     \/ pc = "chunk" /\ i > Concurrent
  /\ Enter("check")

\* "required key num %d but scheduled key num %d"
CheckSum ==
  /\ pc = "check"
  /\ pc' = IF keyNum = sum THEN "done" ELSE "mismatch"
  /\ UNCHANGED <<config, keyNum, i, sum, tasks>>

Done == pc \in Ended \cup {"mismatch"} /\ UNCHANGED vars

Next ==
  \/ BuildWithoutStrategy
  \/ GetKeys
  \/ SchedulePods
  \/ ScheduleContainers
  \/ BuildOne
  \/ BuildPerKey
  \/ BuildSplit
  \/ BuildChunk
  \/ EndLoop
  \/ CheckSum
  \/ Done

Spec == Init /\ [][Next]_vars

(***************************************************************************)
(* addContainersByStrategyKey: the containers of the pod of a Task are the *)
(* sidecars of the template and a copy of the main container per key,      *)
(* named after ConcurrentIdx and the position of the key in the Task.      *)
(* The limit of the scheduler has cut the keys, not the containers.        *)
(***************************************************************************)
KeysOf(task) == task.from .. (task.to - 1)
MainContainers(task) == {<<task.idx, k - task.from>> : k \in KeysOf(task)}
PodContainers(task) == sidecars + Cardinality(KeysOf(task))

-----------------------------------------------------------------------------
(***************************************************************************)
(* Properties                                                              *)
(***************************************************************************)
Tasks == [idx : Nat, from : Nat, to : Nat]

\* Every variable keeps its type.
TypeOK ==
  /\ strategy \in [maxPodNum : Nat, maxContainersPerPod : Nat]
  /\ sidecars \in Nat
  /\ source \in {"none", "static", "dynamic"}
  /\ keyNum \in Nat \cup {-1}
  /\ pc \in Ended \cup Loops \cup {"start", "keys", "one", "check", "mismatch"}
  /\ i \in Nat
  /\ sum \in Nat
  /\ tasks \in Seq(Tasks)

Scheduled == pc = "done" /\ source # "none"

\* Every key is in exactly one Task: no test is skipped, none is run twice.
EveryKeyOnce ==
  Scheduled =>
    \A k \in 0 .. (keyNum - 1) :
      \E j \in DOMAIN tasks :
        /\ k \in KeysOf(tasks[j])
        /\ \A l \in DOMAIN tasks : k \in KeysOf(tasks[l]) => l = j

\* What the scheduler keeps to: at most maxPodNum pods, or at most
\* maxContainersPerPod containers in a pod beside the sidecars of the template, which
\* every pod gets on top.
WithinLimits ==
  Scheduled =>
    /\ strategy.maxPodNum # 0 => Len(tasks) <= strategy.maxPodNum
    /\ strategy.maxContainersPerPod # 0 =>
         \A j \in DOMAIN tasks :
           PodContainers(tasks[j]) <= strategy.maxContainersPerPod + sidecars

\* "MaxContainersPerPod maximum number of container per pod".  (Broken: the limit cuts
\* the keys, and sidecars are not counted.)
PodWithinLimit ==
  Scheduled /\ strategy.maxContainersPerPod # 0 =>
    \A j \in DOMAIN tasks : PodContainers(tasks[j]) <= strategy.maxContainersPerPod

\* No pod is started for nothing, unless there is no key at all: with a limit on
\* the containers there are as few pods as the keys fill, with a limit on the
\* pods none is without a key.
NoIdlePod ==
  Scheduled /\ keyNum > 0 =>
    /\ \A j \in DOMAIN tasks : KeysOf(tasks[j]) # {}
    /\ strategy.maxContainersPerPod \in 1 .. (UintSize - 1) =>
         (Len(tasks) - 1) * strategy.maxContainersPerPod < keyNum

\* Copies of the main container never share a name, in one pod or in two: the
\* artifacts of a key are copied into a directory named after its container.  (A
\* sidecar that a user gives such a name is not compared with them: it has no subtask,
\* so nothing copies artifacts for it.)
ContainerNamesUnique ==
  \A j, l \in DOMAIN tasks :
    j # l => MainContainers(tasks[j]) \cap MainContainers(tasks[l]) = {}

\* Every limit that is set is cut to zero by 32 bits.
LimitCutToZero == MaxPods = 0 /\ MaxContainers = 0

\* One key per pod and 2^32 - 1 keys: i <= concurrent holds for every uint32.
CounterWraps == MaxContainers = 1 /\ keyNum = UintSize - 1

\* The sum check at the end of the loops never fails, and a slice expression is out
\* of range or a divisor zero in two cases only: a limit that 32 bits cut to zero, and
\* a counter that wraps.  Then no schedule is returned at all.
SlicesInRange ==
  /\ pc # "mismatch"
  /\ pc = "panic" => LimitCutToZero \/ CounterWraps
  /\ Scheduled /\ keyNum > 0 => ~LimitCutToZero /\ ~CounterWraps

-----------------------------------------------------------------------------
(***************************************************************************)
(* The inductive invariant of the proofs.                                  *)
(***************************************************************************)

\* When the keys are known, and what has been built by then.
ProgressInv ==
  /\ ValidScheduler(strategy)
  /\ pc \in Loops \cup {"keys", "one", "check", "mismatch"} \/ Scheduled =>
       source # "none" /\ keyNum \in 0 .. (UintSize - 1)
  /\ pc \in {"start", "keys", "one"} => i = 0 /\ sum = 0 /\ tasks = <<>>
  /\ pc \in {"check", "done"} /\ source # "none" => sum = keyNum
  /\ pc = "one" => strategy.maxPodNum = 0 /\ keyNum <= MaxContainers
  /\ pc # "mismatch"

\* The Tasks built so far share out the keys before "sum".
CoverInv ==
  source # "none" =>
    /\ \A j \in DOMAIN tasks : /\ tasks[j].from <= tasks[j].to
                               /\ tasks[j].to <= sum
                               /\ keyNum > 0 => tasks[j].from < tasks[j].to
    /\ \A k \in 0 .. (sum - 1) : \E j \in DOMAIN tasks :
         /\ tasks[j].from <= k /\ k < tasks[j].to
         /\ \A l \in DOMAIN tasks : tasks[l].from <= k /\ k < tasks[l].to => l = j

\* The counter has wrapped: every key is in a Task, and the loop goes on.
Wrapped == pc = "chunk" /\ i = 0 /\ tasks # <<>>

\* ConcurrentIdx tells the Tasks apart.
IdxInv ==
  /\ \A j, l \in DOMAIN tasks : tasks[j].idx = tasks[l].idx => j = l
  /\ pc \in Loops /\ ~Wrapped => \A j \in DOMAIN tasks : tasks[j].idx < i

\* The arithmetic of each loop.
PerKeyInv ==
  pc = "perKey" =>
    /\ strategy.maxPodNum # 0
    /\ keyNum < MaxPods
    /\ i <= keyNum /\ sum = i /\ Len(tasks) = i

SplitInv ==
  pc = "split" =>
    /\ strategy.maxPodNum # 0
    /\ 0 < MaxPods /\ MaxPods <= keyNum
    /\ i <= MaxPods /\ Len(tasks) = i
    /\ i < MaxPods => sum + (MaxPods - i) * PerPodKeyNum <= keyNum
    /\ i = MaxPods => sum = keyNum

ChunkInv ==
  pc = "chunk" =>
    /\ strategy.maxPodNum = 0
    /\ 0 < MaxContainers /\ MaxContainers < keyNum
    /\ \/ i <= Concurrent /\ sum = i * MaxContainers /\ Len(tasks) = i
       \/ i = Concurrent + 1 /\ sum = keyNum
       \/ Wrapped /\ sum = keyNum /\ CounterWraps
    /\ i = Concurrent + 1 => ~CounterWraps

\* The limits, for what has been built.
LimitInv ==
  source # "none" =>
    /\ strategy.maxPodNum # 0 => Len(tasks) <= MaxPods
    /\ strategy.maxPodNum = 0 =>
         /\ \A j \in DOMAIN tasks : tasks[j].to - tasks[j].from <= MaxContainers
         /\ Len(tasks) > 0 /\ keyNum > 0 => (Len(tasks) - 1) * MaxContainers < keyNum

\* The two panics, and that the loops do not end without one in these cases.
PanicInv ==
  /\ pc = "panic" => LimitCutToZero \/ CounterWraps
  /\ pc = "check" \/ Scheduled => (keyNum > 0 => ~LimitCutToZero) /\ ~CounterWraps

KInv ==
  /\ TypeOK
  /\ ProgressInv
  /\ CoverInv
  /\ IdxInv
  /\ PerKeyInv
  /\ SplitInv
  /\ ChunkInv
  /\ LimitInv
  /\ PanicInv

-----------------------------------------------------------------------------
(***************************************************************************)
(* Why Schedule ends: what is left to do gets less with every step.        *)
(***************************************************************************)

\* The iterations of the loop that are left.
IterationsLeft ==
  CASE pc = "perKey" -> keyNum - i
    [] pc = "split" -> MaxPods - i
    [] pc = "chunk" -> IF Wrapped THEN 0 ELSE Concurrent + 1 - i

StepsLeft ==
  CASE pc = "start" -> UintSize + 4
    [] pc = "keys" -> UintSize + 3
    [] pc \in Loops -> IterationsLeft + 2
    [] pc \in {"one", "check"} -> 1
    [] pc \in Ended \cup {"mismatch"} -> 0

\* No setting and no number of keys keeps a loop going: each iteration, whether or not
\* it builds a Task, is one less of at most 2^32, and a counter that wraps ends in a
\* panic at once.
ScheduleAdvances == [][(StepsLeft \in Nat) /\ StepsLeft' < StepsLeft]_vars
=============================================================================

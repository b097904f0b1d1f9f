--------------------------- MODULE KeyScheduleProofs ---------------------------
(***************************************************************************)
(* Theorems about KeySchedule, for every number of keys, every setting of  *)
(* the scheduler and every width of its unsigned type.                     *)
(***************************************************************************)
EXTENDS KeySchedule, FiniteSetTheorems, TLAPS

USE StrategiesAssumption, KeyNumsAssumption, SidecarsAssumption, UintSizeAssumption

(***************************************************************************)
(* Arithmetic.                                                             *)
(***************************************************************************)
LEMMA DivFacts ==
  ASSUME NEW a \in Nat, NEW b \in Nat \ {0}
  PROVE  /\ a \div b \in Nat
         /\ a % b \in 0 .. (b - 1)
         /\ (a \div b) * b <= a
         /\ a < (a \div b) * b + b
         /\ a = (a \div b) * b + (a % b)
         /\ b <= a => a \div b > 0
<1>1. a \div b \in Int /\ a % b \in 0 .. (b - 1) /\ a = b * (a \div b) + (a % b)
  BY SMT
<1> DEFINE q == a \div b
           r == a % b
<1> HIDE DEF q, r
<1>2. q \in Int /\ r \in 0 .. (b - 1) /\ a = b * q + r
  BY <1>1 DEF q, r
<1>3. q >= 0
  <2>1. CASE q < 0
    <3>1. b * (q + 1) <= 0
      BY <1>2, <2>1
    <3>2. b * (q + 1) = b * q + b
      BY <1>2
    <3> QED BY <1>2, <3>1, <3>2
  <2> QED BY <1>2, <2>1
<1>4. b <= a => q > 0
  BY <1>2, <1>3
<1>5. b * q = q * b
  BY <1>2
<1> QED BY <1>2, <1>3, <1>4, <1>5 DEF q, r

\* A limit cut to 32 bits is no larger than the limit.
LEMMA Uint32Facts ==
  ASSUME NEW n \in Nat
  PROVE  /\ Uint32(n) \in 0 .. (UintSize - 1)
         /\ Uint32(n) <= n
         /\ n < UintSize => Uint32(n) = n
<1>1. /\ n \div UintSize \in Nat
      /\ n % UintSize \in 0 .. (UintSize - 1)
      /\ n = (n \div UintSize) * UintSize + (n % UintSize)
  <2>1. UintSize \in Nat \ {0}
    OBVIOUS
  <2> QED BY <2>1, DivFacts
<1> DEFINE q == n \div UintSize
           r == n % UintSize
<1> HIDE DEF q, r
<1>2. q \in Nat /\ r \in 0 .. (UintSize - 1) /\ n = q * UintSize + r
  BY <1>1 DEF q, r
<1>3. q * UintSize \in Nat /\ (q > 0 => q * UintSize >= UintSize)
  BY <1>2
<1> QED BY <1>2, <1>3 DEF Uint32, q, r

\* The limits are natural numbers of uint32, and one of them is zero.
LEMMA LimitFacts ==
  ASSUME TypeOK
  PROVE  /\ MaxPods \in Nat /\ MaxPods <= strategy.maxPodNum /\ MaxPods < UintSize
         /\ MaxContainers \in Nat /\ MaxContainers <= strategy.maxContainersPerPod
         /\ strategy.maxContainersPerPod < UintSize => MaxContainers = strategy.maxContainersPerPod
         /\ strategy.maxPodNum \in Nat /\ strategy.maxContainersPerPod \in Nat
BY Uint32Facts DEF TypeOK, MaxPods, MaxContainers

(***************************************************************************)
(* Building one more Task for the keys that follow.                        *)
(***************************************************************************)
LEMMA AppendTask ==
  ASSUME KInv, source # "none", NEW n \in Nat, NEW to \in Nat, sum <= to, keyNum > 0 => sum < to,
         \A j \in DOMAIN tasks : tasks[j].idx # n,
         tasks' = Append(tasks, [idx |-> n, from |-> sum, to |-> to]),
         sum' = to, UNCHANGED <<config, keyNum>>
  PROVE  /\ tasks' \in Seq(Tasks)
         /\ Len(tasks') = Len(tasks) + 1
         /\ \A j \in DOMAIN tasks : tasks'[j] = tasks[j]
         /\ tasks'[Len(tasks) + 1] = [idx |-> n, from |-> sum, to |-> to]
         /\ CoverInv'
         /\ \A j, l \in DOMAIN tasks' : tasks'[j].idx = tasks'[l].idx => j = l
<1> DEFINE N == Len(tasks)
           new == [idx |-> n, from |-> sum, to |-> to]
<1>1. tasks \in Seq(Tasks) /\ N \in Nat /\ sum \in Nat /\ new \in Tasks /\ keyNum \in Int
      /\ source' = source /\ sidecars' = sidecars /\ keyNum' = keyNum
  BY DEF KInv, TypeOK, Tasks, config
<1>2. /\ tasks' \in Seq(Tasks)
      /\ Len(tasks') = N + 1
      /\ DOMAIN tasks = 1 .. N
      /\ DOMAIN tasks' = 1 .. (N + 1)
      /\ \A j \in 1 .. N : tasks'[j] = tasks[j]
      /\ tasks'[N + 1] = new
  BY <1>1
<1>3. \A j \in 1 .. N : /\ tasks[j] \in Tasks
                        /\ tasks[j].from \in Nat /\ tasks[j].to \in Nat
                        /\ tasks[j].from <= tasks[j].to
                        /\ tasks[j].to <= sum
                        /\ keyNum > 0 => tasks[j].from < tasks[j].to
  <2>1. CoverInv
    BY DEF KInv
  <2>2. \A j \in DOMAIN tasks : /\ tasks[j].from <= tasks[j].to
                                /\ tasks[j].to <= sum
                                /\ keyNum > 0 => tasks[j].from < tasks[j].to
    BY <2>1 DEF CoverInv
  <2>3. \A j \in 1 .. N : tasks[j] \in Tasks
    BY <1>1, <1>2
  <2>4. \A t \in Tasks : t.from \in Nat /\ t.to \in Nat
    BY DEF Tasks
  <2> QED BY <1>2, <2>2, <2>3, <2>4
<1>4. \A j \in 1 .. (N + 1) : /\ tasks'[j].from <= tasks'[j].to
                              /\ tasks'[j].to <= to
                              /\ keyNum > 0 => tasks'[j].from < tasks'[j].to
  <2> SUFFICES ASSUME NEW j \in 1 .. (N + 1)
               PROVE  /\ tasks'[j].from <= tasks'[j].to
                      /\ tasks'[j].to <= to
                      /\ keyNum > 0 => tasks'[j].from < tasks'[j].to
    OBVIOUS
  <2>1. CASE j \in 1 .. N
    BY <1>1, <1>2, <1>3, <2>1
  <2>2. CASE j = N + 1
    BY <1>1, <1>2, <2>2
  <2> QED BY <1>1, <2>1, <2>2
<1>5. \A k \in 0 .. (to - 1) : \E j \in 1 .. (N + 1) :
        /\ tasks'[j].from <= k /\ k < tasks'[j].to
        /\ \A l \in 1 .. (N + 1) : tasks'[l].from <= k /\ k < tasks'[l].to => l = j
  <2> SUFFICES ASSUME NEW k \in 0 .. (to - 1)
               PROVE  \E j \in 1 .. (N + 1) :
                        /\ tasks'[j].from <= k /\ k < tasks'[j].to
                        /\ \A l \in 1 .. (N + 1) : tasks'[l].from <= k /\ k < tasks'[l].to => l = j
    OBVIOUS
  <2>1. CASE k < sum
    <3>1. PICK j \in 1 .. N :
            /\ tasks[j].from <= k /\ k < tasks[j].to
            /\ \A l \in 1 .. N : tasks[l].from <= k /\ k < tasks[l].to => l = j
      <4>1. CoverInv
        BY DEF KInv
      <4>2. \A m \in 0 .. (sum - 1) : \E j \in DOMAIN tasks :
              /\ tasks[j].from <= m /\ m < tasks[j].to
              /\ \A l \in DOMAIN tasks : tasks[l].from <= m /\ m < tasks[l].to => l = j
        BY <4>1 DEF CoverInv
      <4>3. k \in 0 .. (sum - 1)
        BY <1>1, <2>1
      <4> QED BY <1>2, <4>2, <4>3
    <3>2. \A l \in 1 .. (N + 1) : tasks'[l].from <= k /\ k < tasks'[l].to => l = j
      <4> SUFFICES ASSUME NEW l \in 1 .. (N + 1), tasks'[l].from <= k, k < tasks'[l].to
                   PROVE  l = j
        OBVIOUS
      <4>1. l # N + 1
        BY <1>1, <1>2, <2>1
      <4>2. l \in 1 .. N
        <5>1. N \in Nat
          BY <1>1
        <5> HIDE DEF N
        <5> QED BY <4>1, <5>1
      <4>3. tasks'[l] = tasks[l]
        BY <1>2, <4>2
      <4>4. tasks[l].from <= k /\ k < tasks[l].to
        BY <4>3
      <4> QED BY <3>1, <4>2, <4>4
    <3>3. j \in 1 .. (N + 1) /\ tasks'[j].from <= k /\ k < tasks'[j].to
      BY <1>1, <1>2, <3>1
    <3> QED BY <3>2, <3>3
  <2>2. CASE k >= sum
    <3>1. tasks'[N + 1].from <= k /\ k < tasks'[N + 1].to
      BY <1>1, <1>2, <2>2
    <3>2. \A l \in 1 .. (N + 1) : tasks'[l].from <= k /\ k < tasks'[l].to => l = N + 1
      <4> SUFFICES ASSUME NEW l \in 1 .. N, tasks'[l].from <= k, k < tasks'[l].to
                   PROVE  FALSE
        BY <1>1
      <4> QED BY <1>1, <1>2, <1>3, <2>2
    <3> QED BY <1>1, <3>1, <3>2
  <2> QED BY <1>1, <2>1, <2>2
<1>6. CoverInv'
  <2>1. DOMAIN tasks' = 1 .. (N + 1) /\ sum' = to /\ keyNum' = keyNum
    BY <1>1, <1>2
  <2>2. \A j \in DOMAIN tasks' : /\ tasks'[j].from <= tasks'[j].to
                                 /\ tasks'[j].to <= sum'
                                 /\ keyNum' > 0 => tasks'[j].from < tasks'[j].to
    BY <2>1, <1>4, Zenon
  <2>3. \A k \in 0 .. (sum' - 1) : \E j \in DOMAIN tasks' :
          /\ tasks'[j].from <= k /\ k < tasks'[j].to
          /\ \A l \in DOMAIN tasks' : tasks'[l].from <= k /\ k < tasks'[l].to => l = j
    BY <2>1, <1>5, Zenon
  <2> QED BY <2>2, <2>3 DEF CoverInv
<1>7. \A j, l \in DOMAIN tasks' : tasks'[j].idx = tasks'[l].idx => j = l
  <2> SUFFICES ASSUME NEW j \in 1 .. (N + 1), NEW l \in 1 .. (N + 1),
                      tasks'[j].idx = tasks'[l].idx
               PROVE  j = l
    BY <1>2
  <2>1. \A m \in 1 .. N : tasks'[m].idx # n
    BY <1>2
  <2>2. tasks'[N + 1].idx = n
    BY <1>2
  <2>3. CASE j \in 1 .. N /\ l \in 1 .. N
    BY <1>2, <2>3 DEF KInv, IdxInv
  <2> QED BY <1>1, <2>1, <2>2, <2>3
<1> QED BY <1>2, <1>6, <1>7

\* The quotients of the loops.
LEMMA QuotientFacts ==
  ASSUME KInv
  PROVE  /\ pc = "split" => /\ PerPodKeyNum \in Nat \ {0}
                            /\ keyNum \in Nat
         /\ pc = "chunk" => /\ Concurrent \in Nat
                            /\ Concurrent * MaxContainers <= keyNum
                            /\ keyNum < Concurrent * MaxContainers + MaxContainers
                            /\ keyNum \in Nat
<1>1. TypeOK /\ SplitInv /\ ChunkInv /\ keyNum \in Int
  BY DEF KInv, TypeOK
<1>2. MaxPods \in Nat /\ MaxContainers \in Nat
  BY <1>1, LimitFacts
<1>3. ASSUME pc = "split"
      PROVE  PerPodKeyNum \in Nat \ {0} /\ keyNum \in Nat
  <2>1. MaxPods \in Nat \ {0} /\ MaxPods <= keyNum /\ keyNum \in Nat
    BY <1>1, <1>2, <1>3 DEF SplitInv
  <2> QED BY <2>1, DivFacts DEF PerPodKeyNum
<1>4. ASSUME pc = "chunk"
      PROVE  /\ Concurrent \in Nat
             /\ Concurrent * MaxContainers <= keyNum
             /\ keyNum < Concurrent * MaxContainers + MaxContainers
             /\ keyNum \in Nat
  <2>1. MaxContainers \in Nat \ {0} /\ keyNum \in Nat
    BY <1>1, <1>2, <1>4 DEF ChunkInv
  <2> QED BY <2>1, DivFacts DEF Concurrent
<1> QED BY <1>3, <1>4

(***************************************************************************)
(* Steps that build nothing.                                               *)
(***************************************************************************)

\* Nothing but pc changes: what is said of the Tasks built stays true.
LEMMA FrameFacts ==
  ASSUME KInv, UNCHANGED <<config, keyNum, i, sum, tasks>>
  PROVE  /\ CoverInv' /\ LimitInv'
         /\ MaxPods' = MaxPods /\ MaxContainers' = MaxContainers
         /\ strategy' = strategy /\ source' = source /\ sidecars' = sidecars
         /\ keyNum' = keyNum /\ i' = i /\ sum' = sum /\ tasks' = tasks
         /\ ValidScheduler(strategy)'
         /\ (\A j, l \in DOMAIN tasks : tasks[j].idx = tasks[l].idx => j = l)'
         /\ TypeOK
<1>1. /\ strategy' = strategy /\ source' = source /\ sidecars' = sidecars
      /\ keyNum' = keyNum /\ i' = i /\ sum' = sum /\ tasks' = tasks
  BY DEF config
<1>2. TypeOK /\ ProgressInv /\ CoverInv /\ IdxInv /\ LimitInv
  BY DEF KInv
<1>3. MaxPods' = MaxPods /\ MaxContainers' = MaxContainers
  BY <1>1 DEF MaxPods, MaxContainers
<1>4. CoverInv'
  BY <1>1, <1>2 DEF CoverInv
<1>5. LimitInv'
  BY <1>1, <1>2, <1>3 DEF LimitInv
<1>6. ValidScheduler(strategy)'
  BY <1>1, <1>2 DEF ProgressInv, ValidScheduler
<1>7. (\A j, l \in DOMAIN tasks : tasks[j].idx = tasks[l].idx => j = l)'
  BY <1>1, <1>2 DEF IdxInv
<1> QED BY <1>1, <1>2, <1>3, <1>4, <1>5, <1>6, <1>7

\* A step to a final state that is not a success.
LEMMA StopKInv ==
  ASSUME KInv, pc' \in {"failed", "panic"}, UNCHANGED <<config, keyNum, i, sum, tasks>>,
         pc' = "panic" => LimitCutToZero \/ CounterWraps
  PROVE  KInv'
<1> USE FrameFacts
<1>1. TypeOK'
  BY DEF TypeOK, Ended
<1>2. ProgressInv'
  BY DEF ProgressInv, Scheduled, Loops
<1>3. IdxInv'
  BY DEF IdxInv, Loops
<1>4. PerKeyInv' /\ SplitInv' /\ ChunkInv' /\ PanicInv'
  BY DEF PerKeyInv, SplitInv, ChunkInv, PanicInv, Scheduled, LimitCutToZero, CounterWraps
<1> QED BY <1>1, <1>2, <1>3, <1>4 DEF KInv

\* The settings and the keys, before any Task is built.
LEMMA InitKInv == Init => KInv
<1> SUFFICES ASSUME Init PROVE KInv
  OBVIOUS
<1>1. TypeOK
  BY DEF Init, TypeOK
<1>2. ProgressInv
  BY DEF Init, ProgressInv, Scheduled, Loops
<1>3. CoverInv /\ IdxInv
  BY DEF Init, CoverInv, IdxInv
<1>4. PerKeyInv /\ SplitInv /\ ChunkInv /\ PanicInv
  BY DEF Init, PerKeyInv, SplitInv, ChunkInv, PanicInv, Scheduled
<1>5. LimitInv
  BY <1>1, LimitFacts DEF Init, LimitInv
<1> QED BY <1>1, <1>2, <1>3, <1>4, <1>5 DEF KInv

\* The single Task of a step without a strategy.
LEMMA WithoutStrategyKInv ==
  ASSUME KInv, BuildWithoutStrategy
  PROVE  KInv'
<1>1. CASE Fail
  BY <1>1, StopKInv DEF Fail
<1>2. CASE /\ pc' = "done"
           /\ tasks' = <<[idx |-> 0, from |-> 0, to |-> 0]>>
           /\ UNCHANGED <<config, keyNum, i, sum>>
  <2>1. /\ strategy' = strategy /\ source' = "none" /\ sidecars' = sidecars
        /\ keyNum' = keyNum /\ i' = i /\ sum' = sum
    BY <1>2 DEF BuildWithoutStrategy, config
  <2>2. TypeOK /\ ValidScheduler(strategy)
    BY DEF KInv, ProgressInv
  <2>3. [idx |-> 0, from |-> 0, to |-> 0] \in Tasks
    BY DEF Tasks
  <2>4. TypeOK'
    BY <1>2, <2>1, <2>2, <2>3 DEF TypeOK, Ended
  <2>5. ProgressInv'
    BY <1>2, <2>1, <2>2 DEF ProgressInv, Scheduled, Loops, ValidScheduler
  <2>6. CoverInv' /\ LimitInv' /\ PerKeyInv' /\ SplitInv' /\ ChunkInv' /\ PanicInv'
    BY <1>2, <2>1 DEF CoverInv, LimitInv, PerKeyInv, SplitInv, ChunkInv, PanicInv, Scheduled
  <2>7. IdxInv'
    <3>1. DOMAIN tasks' = {1}
      BY <1>2
    <3> QED BY <1>2, <3>1 DEF IdxInv, Loops
  <2> QED BY <2>4, <2>5, <2>6, <2>7 DEF KInv
<1> QED BY <1>1, <1>2 DEF BuildWithoutStrategy

\* getScheduleKeys returns the keys.
LEMMA GetKeysKInv ==
  ASSUME KInv, GetKeys
  PROVE  KInv'
<1>1. CASE Fail
  BY <1>1, StopKInv DEF Fail
<1>2. CASE /\ keyNum' \in IF source = "static" THEN KeyNums \ {0} ELSE KeyNums
           /\ pc' = "keys"
           /\ UNCHANGED <<config, i, sum, tasks>>
  <2>1. /\ strategy' = strategy /\ source' = source /\ sidecars' = sidecars
        /\ i' = i /\ sum' = sum /\ tasks' = tasks /\ source # "none"
    BY <1>2 DEF GetKeys, config
  <2>2. TypeOK /\ ValidScheduler(strategy) /\ i = 0 /\ sum = 0 /\ tasks = <<>>
    BY DEF KInv, ProgressInv, GetKeys
  <2>3. keyNum' \in 0 .. (UintSize - 1)
    BY <1>2
  <2>4. TypeOK'
    BY <1>2, <2>1, <2>2, <2>3 DEF TypeOK
  <2>5. ProgressInv'
    BY <1>2, <2>1, <2>2, <2>3 DEF ProgressInv, Scheduled, Loops, ValidScheduler
  <2>6. CoverInv' /\ IdxInv'
    BY <1>2, <2>1, <2>2 DEF CoverInv, IdxInv, Loops
  <2>7. PerKeyInv' /\ SplitInv' /\ ChunkInv' /\ PanicInv'
    BY <1>2 DEF PerKeyInv, SplitInv, ChunkInv, PanicInv, Scheduled
  <2>8. LimitInv'
    <3>1. MaxPods' \in Nat
      BY <2>1, <2>2, LimitFacts DEF MaxPods
    <3> QED BY <2>1, <2>2, <3>1 DEF LimitInv
  <2> QED BY <2>4, <2>5, <2>6, <2>7, <2>8 DEF KInv
<1> QED BY <1>1, <1>2 DEF GetKeys

\* The choice of the loop, with a limit on the pods.
LEMMA SchedulePodsKInv ==
  ASSUME KInv, SchedulePods
  PROVE  KInv'
<1>1. TypeOK /\ ProgressInv /\ keyNum \in Nat /\ MaxPods \in Nat
      /\ source # "none" /\ keyNum \in 0 .. (UintSize - 1)
      /\ i = 0 /\ sum = 0 /\ tasks = <<>> /\ strategy.maxPodNum # 0 /\ pc = "keys"
  BY LimitFacts DEF KInv, ProgressInv, SchedulePods
<1>2. CASE MaxPods = 0 /\ Panic
  <2>1. MaxContainers = 0
    <3>1. strategy.maxContainersPerPod = 0
      BY <1>1 DEF ProgressInv, ValidScheduler
    <3> QED BY <1>1, <3>1, LimitFacts
  <2> QED BY <1>2, <2>1, StopKInv DEF Panic, LimitCutToZero
<1>3. CASE keyNum < MaxPods /\ Enter("perKey")
  <2>1. pc' = "perKey" /\ UNCHANGED <<config, keyNum, i, sum, tasks>>
    BY <1>3 DEF Enter
  <2> USE <2>1, FrameFacts, <1>1
  <2>2. TypeOK'
    BY DEF TypeOK, Loops
  <2>3. ProgressInv'
    BY DEF ProgressInv, Scheduled, Loops
  <2>4. IdxInv'
    BY DEF IdxInv
  <2>5. PerKeyInv'
    BY <1>3 DEF PerKeyInv
  <2>6. SplitInv' /\ ChunkInv' /\ PanicInv'
    BY DEF SplitInv, ChunkInv, PanicInv, Scheduled
  <2> QED BY <2>2, <2>3, <2>4, <2>5, <2>6 DEF KInv
<1>4. CASE keyNum >= MaxPods /\ MaxPods # 0 /\ Enter("split")
  <2>1. pc' = "split" /\ UNCHANGED <<config, keyNum, i, sum, tasks>>
    BY <1>4 DEF Enter
  <2> USE <2>1, FrameFacts, <1>1
  <2>2. TypeOK'
    BY DEF TypeOK, Loops
  <2>3. ProgressInv'
    BY DEF ProgressInv, Scheduled, Loops
  <2>4. IdxInv'
    BY DEF IdxInv
  <2>5. SplitInv'
    <3>1. PerPodKeyNum \in Nat /\ PerPodKeyNum * MaxPods <= keyNum
      BY <1>4, DivFacts DEF PerPodKeyNum
    <3>2. PerPodKeyNum' = PerPodKeyNum
      BY DEF PerPodKeyNum
    <3>3. sum + (MaxPods - i) * PerPodKeyNum <= keyNum
      BY <3>1
    <3> QED BY <1>4, <3>2, <3>3 DEF SplitInv
  <2>6. PerKeyInv' /\ ChunkInv' /\ PanicInv'
    BY DEF PerKeyInv, ChunkInv, PanicInv, Scheduled
  <2> QED BY <2>2, <2>3, <2>4, <2>5, <2>6 DEF KInv
<1> QED BY <1>2, <1>3, <1>4 DEF SchedulePods

\* The choice of the loop, with a limit on the containers of a pod.
LEMMA ScheduleContainersKInv ==
  ASSUME KInv, ScheduleContainers
  PROVE  KInv'
<1>1. TypeOK /\ ProgressInv /\ keyNum \in Nat /\ MaxContainers \in Nat /\ MaxPods = 0
      /\ source # "none" /\ keyNum \in 0 .. (UintSize - 1)
      /\ i = 0 /\ sum = 0 /\ tasks = <<>> /\ strategy.maxPodNum = 0 /\ pc = "keys"
  BY LimitFacts DEF KInv, ProgressInv, ScheduleContainers
<1>2. CASE MaxContainers = 0 /\ Panic
  BY <1>1, <1>2, StopKInv DEF Panic, LimitCutToZero
<1>3. CASE keyNum <= MaxContainers /\ Enter("one")
  <2>1. pc' = "one" /\ UNCHANGED <<config, keyNum, i, sum, tasks>>
    BY <1>3 DEF Enter
  <2> USE <2>1, FrameFacts, <1>1
  <2>2. TypeOK'
    BY DEF TypeOK, Loops
  <2>3. ProgressInv'
    BY <1>3 DEF ProgressInv, Scheduled, Loops
  <2>4. IdxInv'
    BY DEF IdxInv
  <2>5. PerKeyInv' /\ SplitInv' /\ ChunkInv' /\ PanicInv'
    BY DEF PerKeyInv, SplitInv, ChunkInv, PanicInv, Scheduled
  <2> QED BY <2>2, <2>3, <2>4, <2>5 DEF KInv
<1>4. CASE keyNum > MaxContainers /\ MaxContainers # 0 /\ Enter("chunk")
  <2>1. pc' = "chunk" /\ UNCHANGED <<config, keyNum, i, sum, tasks>>
    BY <1>4 DEF Enter
  <2> USE <2>1, FrameFacts, <1>1
  <2>2. TypeOK'
    BY DEF TypeOK, Loops
  <2>3. ProgressInv'
    BY DEF ProgressInv, Scheduled, Loops
  <2>4. IdxInv'
    BY DEF IdxInv
  <2>5. ChunkInv'
    <3>1. Concurrent \in Nat /\ Concurrent' = Concurrent
      BY <1>4, DivFacts DEF Concurrent
    <3> QED BY <1>4, <3>1 DEF ChunkInv
  <2>6. PerKeyInv' /\ SplitInv' /\ PanicInv'
    BY DEF PerKeyInv, SplitInv, PanicInv, Scheduled
  <2> QED BY <2>2, <2>3, <2>4, <2>5, <2>6 DEF KInv
<1>5. FitsOnePod <=> keyNum <= MaxContainers
  BY DEF FitsOnePod
<1>6. ~(keyNum <= MaxContainers) => keyNum > MaxContainers
  BY FrameFacts, <1>1 DEF TypeOK
<1> QED BY <1>2, <1>3, <1>4, <1>5, <1>6 DEF ScheduleContainers

\* A limit on the pods is the only one.
LEMMA NoContainerLimit ==
  ASSUME TypeOK, ValidScheduler(strategy), strategy.maxPodNum # 0
  PROVE  MaxContainers = 0
<1>1. strategy.maxContainersPerPod = 0
  BY DEF ValidScheduler
<1> QED BY <1>1, LimitFacts

LEMMA PanicFact == KInv => PanicInv
BY DEF KInv

\* The ends of the loops, and the check of the sum.
LEMMA EndKInv ==
  ASSUME KInv, EndLoop \/ CheckSum
  PROVE  KInv'
<1>0. TypeOK /\ ProgressInv /\ SplitInv /\ ChunkInv /\ IdxInv
  BY DEF KInv
<1>1. CASE EndLoop
  <2>1. pc' = "check" /\ UNCHANGED <<config, keyNum, i, sum, tasks>>
    BY <1>1 DEF EndLoop, Enter
  <2>2. /\ source # "none" /\ keyNum \in 0 .. (UintSize - 1)
        /\ strategy.maxPodNum \in Nat /\ MaxPods \in Nat
    BY <1>0, <1>1, LimitFacts DEF EndLoop, ProgressInv, Loops
  <2>3. sum = keyNum /\ ~LimitCutToZero /\ ~CounterWraps
    <3>1. CASE pc = "split"
      <4>1. sum = keyNum /\ MaxPods > 0
        BY <1>0, <1>1, <2>2, <3>1 DEF EndLoop, SplitInv, TypeOK
      <4>2. MaxContainers = 0
        BY <1>0, <3>1, NoContainerLimit DEF SplitInv, ProgressInv
      <4> QED BY <4>1, <4>2 DEF LimitCutToZero, CounterWraps
    <3>2. CASE pc = "chunk"
      <4>1. i > Concurrent /\ Concurrent \in Nat /\ MaxContainers > 0
        BY <1>0, <1>1, <3>2, QuotientFacts DEF EndLoop, ChunkInv
      <4>2. i = Concurrent + 1 /\ sum = keyNum
        BY <1>0, <3>2, <4>1 DEF ChunkInv, Wrapped, TypeOK
      <4> QED BY <1>0, <2>2, <3>2, <4>1, <4>2 DEF ChunkInv, LimitCutToZero
    <3> QED BY <1>1, <3>1, <3>2 DEF EndLoop
  <2> USE <2>1, FrameFacts, <1>0
  <2>4. TypeOK'
    BY DEF TypeOK
  <2>5. ProgressInv'
    BY <2>2, <2>3 DEF ProgressInv, Scheduled, Loops
  <2>6. IdxInv'
    BY DEF IdxInv, Loops
  <2>7. PerKeyInv' /\ SplitInv' /\ ChunkInv' /\ PanicInv'
    BY <2>3 DEF PerKeyInv, SplitInv, ChunkInv, PanicInv, LimitCutToZero, CounterWraps
  <2> QED BY <2>4, <2>5, <2>6, <2>7 DEF KInv
<1>2. CASE CheckSum
  <2>1. UNCHANGED <<config, keyNum, i, sum, tasks>>
    BY <1>2 DEF CheckSum
  <2>2. source # "none" /\ keyNum \in 0 .. (UintSize - 1) /\ sum = keyNum
    BY <1>0, <1>2 DEF CheckSum, ProgressInv
  <2>3. pc' = "done"
    BY <1>2, <2>2 DEF CheckSum
  <2> USE <2>1, <2>3, FrameFacts, <1>0
  <2>4. TypeOK'
    BY DEF TypeOK, Ended
  <2>5. ProgressInv'
    BY <2>2 DEF ProgressInv, Scheduled, Loops
  <2>6. IdxInv'
    BY DEF IdxInv, Loops
  <2>7. PerKeyInv' /\ SplitInv' /\ ChunkInv' /\ PanicInv'
    BY <1>2, PanicFact DEF CheckSum, PerKeyInv, SplitInv, ChunkInv, PanicInv, LimitCutToZero, CounterWraps
  <2> QED BY <2>4, <2>5, <2>6, <2>7 DEF KInv
<1> QED BY <1>1, <1>2

(***************************************************************************)
(* Steps that build a Task.                                                *)
(***************************************************************************)

\* One Task of a loop: what does not depend on the loop.
LEMMA GrowFacts ==
  ASSUME KInv, pc \in Loops, ~Wrapped, NEW to \in Nat, sum < to,
         tasks' = Append(tasks, [idx |-> i, from |-> sum, to |-> to]),
         sum' = to, i' = i + 1, UNCHANGED <<config, keyNum, pc>>
  PROVE  /\ TypeOK' /\ ProgressInv' /\ CoverInv' /\ IdxInv' /\ PanicInv'
         /\ Len(tasks') = Len(tasks) + 1
         /\ \A j \in DOMAIN tasks : tasks'[j] = tasks[j]
         /\ tasks'[Len(tasks) + 1] = [idx |-> i, from |-> sum, to |-> to]
         /\ DOMAIN tasks' = 1 .. (Len(tasks) + 1) /\ DOMAIN tasks = 1 .. Len(tasks)
         /\ Len(tasks) \in Nat
         /\ MaxPods' = MaxPods /\ MaxContainers' = MaxContainers
         /\ strategy' = strategy /\ source' = source /\ sidecars' = sidecars
         /\ keyNum' = keyNum /\ pc' = pc /\ source # "none"
<1>1. TypeOK /\ ProgressInv /\ CoverInv /\ IdxInv
  BY DEF KInv
<1>2. /\ strategy' = strategy /\ source' = source /\ sidecars' = sidecars
      /\ keyNum' = keyNum /\ pc' = pc
  BY DEF config
<1>3. source # "none" /\ keyNum \in 0 .. (UintSize - 1) /\ i \in Nat
  BY <1>1 DEF ProgressInv, TypeOK
<1>4. \A j \in DOMAIN tasks : tasks[j].idx < i
  BY <1>1 DEF IdxInv
<1>5. \A j \in DOMAIN tasks : tasks[j].idx \in Nat
  <2>1. tasks \in Seq(Tasks)
    BY <1>1 DEF TypeOK
  <2>2. \A j \in DOMAIN tasks : tasks[j] \in Tasks
    BY <2>1
  <2>3. \A t \in Tasks : t.idx \in Nat
    BY DEF Tasks
  <2> QED BY <2>2, <2>3
<1>6. \A j \in DOMAIN tasks : tasks[j].idx # i
  BY <1>3, <1>4, <1>5
<1>7. /\ tasks' \in Seq(Tasks)
      /\ Len(tasks') = Len(tasks) + 1
      /\ \A j \in DOMAIN tasks : tasks'[j] = tasks[j]
      /\ tasks'[Len(tasks) + 1] = [idx |-> i, from |-> sum, to |-> to]
      /\ CoverInv'
      /\ \A j, l \in DOMAIN tasks' : tasks'[j].idx = tasks'[l].idx => j = l
  <2>1. UNCHANGED <<config, keyNum>> /\ sum <= to /\ sum \in Nat
    BY <1>1 DEF TypeOK
  <2> QED BY <1>3, <1>6, <2>1, AppendTask
<1>8. DOMAIN tasks = 1 .. Len(tasks) /\ Len(tasks) \in Nat
  BY <1>1 DEF TypeOK
<1>9. DOMAIN tasks' = 1 .. (Len(tasks) + 1)
  BY <1>7
<1>10. MaxPods' = MaxPods /\ MaxContainers' = MaxContainers
  BY <1>2 DEF MaxPods, MaxContainers
<1>11. TypeOK'
  BY <1>1, <1>2, <1>3, <1>7 DEF TypeOK
<1>12. ProgressInv'
  BY <1>1, <1>2, <1>3 DEF ProgressInv, Scheduled, Loops, ValidScheduler
<1>13. \A j \in DOMAIN tasks' : tasks'[j].idx < i + 1
  <2> SUFFICES ASSUME NEW j \in DOMAIN tasks' PROVE tasks'[j].idx < i + 1
    OBVIOUS
  <2>1. CASE j \in DOMAIN tasks
    BY <1>3, <1>4, <1>5, <1>7, <2>1
  <2>2. CASE j = Len(tasks) + 1
    BY <1>3, <1>7, <2>2
  <2> QED BY <1>8, <1>9, <2>1, <2>2
<1>14. IdxInv'
  BY <1>7, <1>13 DEF IdxInv
<1>15. PanicInv'
  BY <1>2 DEF PanicInv, Scheduled, Loops
<1> QED BY <1>2, <1>3, <1>7, <1>8, <1>9, <1>10, <1>11, <1>12, <1>14, <1>15

\* A Task is built in an iteration before the last of all 2^32.
LEMMA CounterFacts ==
  ASSUME KInv, pc \in Loops, ~Wrapped,
         pc = "perKey" => i < keyNum,
         pc = "split" => i < MaxPods,
         pc = "chunk" => i <= Concurrent /\ sum < keyNum
  PROVE  Uint32(i + 1) = i + 1 /\ (pc = "chunk" => i + 1 < UintSize)
<1>1. TypeOK /\ i \in Nat /\ keyNum \in 0 .. (UintSize - 1)
  BY DEF KInv, TypeOK, ProgressInv
<1>2. i + 1 < UintSize
  <2>1. CASE pc = "perKey"
    BY <1>1, <2>1
  <2>2. CASE pc = "split"
    BY <1>1, <2>2, LimitFacts
  <2>3. CASE pc = "chunk"
    <3> DEFINE M == MaxContainers
    <3>1. M \in Nat /\ 0 < M /\ i * M < keyNum
      <4>1. ChunkInv /\ Concurrent \in Nat
        BY <2>3, QuotientFacts DEF KInv
      <4> QED BY <1>1, <2>3, <4>1, LimitFacts DEF ChunkInv
    <3> HIDE DEF M
    <3>2. i * M = i + i * (M - 1) /\ i * (M - 1) >= 0
      BY <1>1, <3>1
    <3> QED BY <1>1, <3>1, <3>2
  <2> QED BY <2>1, <2>2, <2>3 DEF Loops
<1> QED BY <1>1, <1>2, Uint32Facts

\* All the keys in one Task.
LEMMA BuildOneKInv ==
  ASSUME KInv, BuildOne
  PROVE  KInv'
<1>1. CASE Fail
  BY <1>1, StopKInv DEF Fail
<1>2. CASE /\ tasks' = <<[idx |-> 0, from |-> 0, to |-> keyNum]>>
           /\ sum' = keyNum
           /\ pc' = "done"
           /\ UNCHANGED <<config, keyNum, i>>
  <2>1. /\ strategy' = strategy /\ source' = source /\ sidecars' = sidecars
        /\ keyNum' = keyNum /\ i' = i
    BY <1>2 DEF config
  <2>2. /\ TypeOK /\ ValidScheduler(strategy) /\ source # "none" /\ keyNum \in Nat
        /\ keyNum \in 0 .. (UintSize - 1)
        /\ i = 0 /\ sum = 0 /\ tasks = <<>>
        /\ strategy.maxPodNum = 0 /\ keyNum <= MaxContainers
    BY DEF KInv, ProgressInv, BuildOne
  <2>3. tasks' = Append(tasks, [idx |-> 0, from |-> sum, to |-> keyNum])
    BY <1>2, <2>2
  <2>4. /\ tasks' \in Seq(Tasks)
        /\ CoverInv'
        /\ \A j, l \in DOMAIN tasks' : tasks'[j].idx = tasks'[l].idx => j = l
    BY <1>2, <2>1, <2>2, <2>3, AppendTask
  <2>5. TypeOK'
    BY <1>2, <2>1, <2>2, <2>4 DEF TypeOK, Ended
  <2>6. ProgressInv'
    BY <1>2, <2>1, <2>2 DEF ProgressInv, Scheduled, Loops, ValidScheduler
  <2>7. IdxInv'
    BY <1>2, <2>4 DEF IdxInv, Loops
  <2>8. LimitInv'
    <3>1. MaxContainers' = MaxContainers
      BY <2>1 DEF MaxContainers
    <3>2. Len(tasks') = 1 /\ DOMAIN tasks' = {1} /\ tasks'[1].from = 0 /\ tasks'[1].to = keyNum
      BY <1>2
    <3>3. MaxContainers \in Nat
      BY <2>2, LimitFacts
    <3>4. (Len(tasks') - 1) * MaxContainers = 0
      BY <3>2, <3>3
    <3> QED BY <2>1, <2>2, <3>1, <3>2, <3>3, <3>4 DEF LimitInv
  <2>9. PanicInv'
    <3>1. MaxContainers' = MaxContainers /\ MaxPods' = MaxPods /\ MaxContainers \in Nat
      BY <2>1, <2>2, LimitFacts DEF MaxContainers, MaxPods
    <3>2. keyNum > 0 => MaxContainers > 0
      BY <2>2, <3>1
    <3>3. keyNum = UintSize - 1 => MaxContainers # 1
      BY <2>2, <3>1
    <3> QED BY <1>2, <2>1, <3>1, <3>2, <3>3 DEF PanicInv, LimitCutToZero, CounterWraps
  <2>10. PerKeyInv' /\ SplitInv' /\ ChunkInv'
    BY <1>2 DEF PerKeyInv, SplitInv, ChunkInv
  <2> QED BY <2>4, <2>5, <2>6, <2>7, <2>8, <2>9, <2>10 DEF KInv
<1> QED BY <1>1, <1>2 DEF BuildOne

\* A Task for one key.
LEMMA BuildPerKeyKInv ==
  ASSUME KInv, BuildPerKey
  PROVE  KInv'
<1>1. /\ TypeOK /\ ProgressInv /\ IdxInv /\ LimitInv /\ pc = "perKey"
      /\ source # "none" /\ keyNum \in 0 .. (UintSize - 1) /\ keyNum \in Nat
      /\ strategy.maxPodNum # 0 /\ keyNum < MaxPods /\ MaxPods \in Nat
      /\ i \in Nat /\ i <= keyNum /\ sum = i /\ Len(tasks) = i
  BY LimitFacts DEF KInv, ProgressInv, PerKeyInv, BuildPerKey, TypeOK, Loops
<1>2. CASE i < keyNum /\ Fail
  BY <1>2, StopKInv DEF Fail
<1>5. i < keyNum => Uint32(i + 1) = i + 1
  BY <1>1, CounterFacts DEF Loops, Wrapped
<1>3. CASE /\ i < keyNum
           /\ tasks' = Append(tasks, [idx |-> i, from |-> i, to |-> i + 1])
           /\ sum' = i + 1
           /\ i' = i + 1
           /\ UNCHANGED <<config, keyNum, pc>>
  <2>1. /\ TypeOK' /\ ProgressInv' /\ CoverInv' /\ IdxInv' /\ PanicInv'
        /\ Len(tasks') = Len(tasks) + 1
        /\ MaxPods' = MaxPods /\ strategy' = strategy /\ source' = source /\ sidecars' = sidecars
        /\ keyNum' = keyNum /\ pc' = pc
    BY <1>1, <1>3, GrowFacts DEF Loops, Wrapped
  <2>2. PerKeyInv'
    BY <1>1, <1>3, <2>1 DEF PerKeyInv
  <2>3. LimitInv'
    BY <1>1, <1>3, <2>1 DEF LimitInv
  <2>4. SplitInv' /\ ChunkInv'
    BY <1>1, <2>1 DEF SplitInv, ChunkInv
  <2> QED BY <2>1, <2>2, <2>3, <2>4 DEF KInv
<1>4. CASE i >= keyNum /\ pc' = "done" /\ UNCHANGED <<config, keyNum, i, sum, tasks>>
  <2> USE <1>1, <1>4, FrameFacts
  <2>1. TypeOK'
    BY DEF TypeOK, Ended
  <2>2. ProgressInv'
    BY DEF ProgressInv, Scheduled, Loops
  <2>3. IdxInv'
    BY DEF IdxInv, Loops
  <2>4. PerKeyInv' /\ SplitInv' /\ ChunkInv'
    BY DEF PerKeyInv, SplitInv, ChunkInv
  <2>5. PanicInv'
    <3>1. MaxContainers = 0
      BY NoContainerLimit DEF ProgressInv
    <3> QED BY <3>1 DEF PanicInv, LimitCutToZero, CounterWraps
  <2> QED BY <2>1, <2>2, <2>3, <2>4, <2>5 DEF KInv
<1> QED BY <1>1, <1>2, <1>3, <1>4, <1>5 DEF BuildPerKey, Build

\* A Task for the share of one pod; the last pod takes the remainder.
LEMMA BuildSplitKInv ==
  ASSUME KInv, BuildSplit
  PROVE  KInv'
<1>1. /\ TypeOK /\ LimitInv /\ SplitInv /\ pc = "split" /\ i \in Nat /\ sum \in Nat
      /\ source # "none" /\ keyNum \in Nat /\ keyNum < UintSize /\ PerPodKeyNum \in Nat \ {0}
      /\ strategy.maxPodNum # 0 /\ MaxPods \in Nat /\ i < MaxPods /\ Len(tasks) = i
      /\ sum + (MaxPods - i) * PerPodKeyNum <= keyNum
  BY LimitFacts, QuotientFacts DEF KInv, ProgressInv, SplitInv, BuildSplit, TypeOK, Loops
<1> DEFINE P == PerPodKeyNum
           to == SplitEnd
<1>2. /\ (MaxPods - i) * P = P + (MaxPods - (i + 1)) * P
      /\ (MaxPods - (i + 1)) * P \in Nat
      /\ P \in Nat /\ P > 0
  <2>1. MaxPods - (i + 1) \in Nat /\ P \in Nat /\ MaxPods - i = (MaxPods - (i + 1)) + 1 /\ P > 0
    BY <1>1
  <2> HIDE DEF P
  <2>2. (MaxPods - (i + 1)) * P \in Nat
    BY <2>1
  <2>3. ((MaxPods - (i + 1)) + 1) * P = P + (MaxPods - (i + 1)) * P
    BY <2>1
  <2> QED BY <2>1, <2>2, <2>3
<1>3. to \in Nat /\ sum < to /\ to <= keyNum
  <2>1. sum + P <= keyNum
    BY <1>1, <1>2
  <2>2. Uint32(sum + P) = sum + P
    BY <1>1, <2>1, Uint32Facts
  <2> QED BY <1>1, <1>2, <2>1, <2>2 DEF SplitEnd
<1>6. Uint32(i + 1) = i + 1 /\ (i < MaxPods - 1 => to = sum + P)
  <2>1. sum + P <= keyNum
    BY <1>1, <1>2
  <2>2. Uint32(sum + P) = sum + P
    BY <1>1, <2>1, Uint32Facts
  <2> QED BY <1>1, <2>2, CounterFacts DEF SplitEnd, Loops, Wrapped
<1>4. CASE Fail
  BY <1>4, StopKInv DEF Fail
<1>5. CASE /\ tasks' = Append(tasks, [idx |-> i, from |-> sum, to |-> to])
           /\ sum' = to
           /\ i' = i + 1
           /\ UNCHANGED <<config, keyNum, pc>>
  <2> HIDE DEF to
  <2>1. /\ TypeOK' /\ ProgressInv' /\ CoverInv' /\ IdxInv' /\ PanicInv'
        /\ Len(tasks') = Len(tasks) + 1
        /\ MaxPods' = MaxPods /\ strategy' = strategy /\ source' = source /\ sidecars' = sidecars
        /\ keyNum' = keyNum /\ pc' = pc
    BY <1>1, <1>3, <1>5, GrowFacts DEF Loops, Wrapped
  <2>2. PerPodKeyNum' = PerPodKeyNum
    BY <2>1 DEF PerPodKeyNum
  <2>3. i + 1 < MaxPods => to = sum + P
    BY <1>1, <1>6
  <2>4. i + 1 < MaxPods => to + (MaxPods - (i + 1)) * P <= keyNum
    BY <1>1, <1>2, <2>3
  <2>5. i + 1 = MaxPods => to = keyNum
    BY <1>1 DEF to, SplitEnd
  <2>6. SplitInv'
    BY <1>1, <1>5, <2>1, <2>2, <2>4, <2>5 DEF SplitInv
  <2>7. LimitInv'
    BY <1>1, <2>1 DEF LimitInv
  <2>8. PerKeyInv' /\ ChunkInv'
    BY <1>1, <2>1 DEF PerKeyInv, ChunkInv
  <2> QED BY <2>1, <2>6, <2>7, <2>8 DEF KInv
<1> QED BY <1>1, <1>3, <1>4, <1>5, <1>6 DEF BuildSplit, BuildSlice, Build

\* 2^32 is zero in 32 bits.
LEMMA WrapFact == Uint32(UintSize) = 0
<1>1. UintSize % UintSize \in 0 .. (UintSize - 1)
  BY DivFacts
<1>2. UintSize = (UintSize \div UintSize) * UintSize + (UintSize % UintSize)
  BY DivFacts
<1>3. UintSize \div UintSize > 0 /\ UintSize \div UintSize \in Nat
  BY DivFacts
<1> DEFINE q == UintSize \div UintSize
           m == UintSize % UintSize
<1> HIDE DEF q, m
<1>4. q * UintSize >= UintSize
  BY <1>3 DEF q
<1>5. m = 0
  BY <1>1, <1>2, <1>4 DEF q, m
<1> QED BY <1>5 DEF Uint32, m

\* The counter wraps after the last iteration if and only if there are 2^32 of them.
LEMMA LastIteration ==
  ASSUME TypeOK, keyNum \in 0 .. (UintSize - 1), MaxContainers \in Nat, 0 < MaxContainers
  PROVE  /\ Uint32(Concurrent + 1) \in Nat
         /\ CounterWraps => Concurrent = UintSize - 1
         /\ \/ Uint32(Concurrent + 1) = Concurrent + 1 /\ ~CounterWraps
            \/ Uint32(Concurrent + 1) = 0 /\ CounterWraps
<1> DEFINE M == MaxContainers
           C == Concurrent
<1>1. C \in Nat /\ C * M <= keyNum /\ keyNum < C * M + M /\ M \in Nat /\ 0 < M
      /\ keyNum \in Nat /\ keyNum < UintSize
  BY DivFacts DEF Concurrent
<1> HIDE DEF M, C
<1>2. C * M = C + C * (M - 1) /\ C * (M - 1) >= 0 /\ (C > 0 /\ M > 1 => C * (M - 1) >= C)
  <2>1. C * M = C + C * (M - 1) /\ C * (M - 1) >= 0
    BY <1>1
  <2>2. C > 0 /\ M > 1 => C * (M - 1) >= C
    BY <1>1
  <2> QED BY <2>1, <2>2
<1>3. CASE C + 1 < UintSize
  <2>1. Uint32(C + 1) = C + 1
    BY <1>1, <1>3, Uint32Facts
  <2>2. M = 1 => C = keyNum
    BY <1>1
  <2>3. ~CounterWraps
    BY <1>3, <2>2 DEF CounterWraps, M
  <2> QED BY <1>1, <2>1, <2>3 DEF C
<1>4. CASE C + 1 >= UintSize
  <2>1. C = UintSize - 1 /\ keyNum = UintSize - 1 /\ C > 0
    BY <1>1, <1>2, <1>4
  <2>2. M = 1
    BY <1>1, <1>2, <2>1
  <2>3. CounterWraps
    BY <2>1, <2>2 DEF CounterWraps, M
  <2>4. C + 1 = UintSize
    BY <2>1
  <2> QED BY <2>1, <2>3, <2>4, WrapFact DEF C
<1> QED BY <1>1, <1>3, <1>4

\* A Task for a chunk of maxContainers keys; nothing, if no key is left.
LEMMA BuildChunkInTurn ==
  ASSUME KInv, BuildChunk, ~Wrapped
  PROVE  KInv'
<1> DEFINE M == MaxContainers
           C == Concurrent
           to == ChunkEnd
<1>1. /\ TypeOK /\ ProgressInv /\ LimitInv /\ IdxInv /\ ChunkInv
      /\ pc = "chunk" /\ i \in Nat /\ sum \in Nat
      /\ source # "none" /\ keyNum \in Nat /\ keyNum \in 0 .. (UintSize - 1)
      /\ strategy.maxPodNum = 0 /\ M \in Nat /\ 0 < M /\ M < keyNum
      /\ C \in Nat /\ C * M <= keyNum /\ keyNum < C * M + M
      /\ i <= C /\ sum = i * M /\ Len(tasks) = i
  BY LimitFacts, QuotientFacts DEF KInv, ProgressInv, ChunkInv, BuildChunk, TypeOK, Loops
<1>2. i < C => (i + 1) * M <= C * M
  <2> HIDE DEF M, C
  <2> SUFFICES ASSUME i < C PROVE (i + 1) * M <= C * M
    OBVIOUS
  <2>1. C - (i + 1) \in Nat
    BY <1>1
  <2>2. (C - (i + 1)) * M \in Nat
    BY <1>1, <2>1
  <2>3. C * M = (i + 1) * M + (C - (i + 1)) * M
    BY <1>1, <2>1
  <2>4. (i + 1) * M \in Nat /\ C * M \in Nat
    BY <1>1
  <2> QED BY <2>2, <2>3, <2>4
<1>3. (i + 1) * M = i * M + M /\ i * M \in Nat
  BY <1>1
<1>4. /\ to \in Nat /\ sum <= to /\ to <= keyNum
      /\ i = C => to = keyNum
      /\ i < C => to = sum + M /\ to = (i + 1) * M
      /\ to - sum <= M
  <2>1. CASE i = C
    BY <1>1, <1>3, <2>1 DEF ChunkEnd
  <2>2. CASE i < C
    <3>1. sum + M = (i + 1) * M /\ sum + M <= keyNum /\ sum + M \in Nat
      <4> HIDE DEF M, C
      <4> QED BY <1>1, <1>2, <1>3, <2>2
    <3>2. Uint32(sum + M) = sum + M
      BY <1>1, <3>1, Uint32Facts
    <3> QED BY <1>1, <2>2, <3>1, <3>2 DEF ChunkEnd
  <2> QED BY <1>1, <2>1, <2>2
<1>5. CASE Fail
  BY <1>5, StopKInv DEF Fail
<1>6. CASE to = sum /\ SkipChunk
  <2>1. i = C /\ sum = keyNum
    BY <1>1, <1>4, <1>6
  <2>2. /\ strategy' = strategy /\ source' = source /\ sidecars' = sidecars
        /\ keyNum' = keyNum /\ pc' = pc /\ sum' = sum /\ tasks' = tasks /\ i' = Uint32(C + 1)
    BY <1>6, <2>1 DEF SkipChunk, config
  <2>3. MaxPods' = MaxPods /\ MaxContainers' = MaxContainers /\ Concurrent' = Concurrent
    BY <2>2 DEF MaxPods, MaxContainers, Concurrent
  <2>11. Uint32(C + 1) \in Nat /\ (CounterWraps => C = UintSize - 1)
        /\ \/ Uint32(C + 1) = C + 1 /\ ~CounterWraps
           \/ Uint32(C + 1) = 0 /\ CounterWraps
    BY <1>1, LastIteration
  <2>4. TypeOK'
    BY <1>1, <2>2, <2>11 DEF TypeOK
  <2>5. ProgressInv'
    BY <1>1, <2>2 DEF ProgressInv, Scheduled, Loops, ValidScheduler
  <2>6. CoverInv'
    BY <2>2 DEF KInv, CoverInv
  <2>7. LimitInv'
    BY <1>1, <2>2, <2>3 DEF LimitInv
  <2>8. IdxInv'
    <3>1. \A j \in DOMAIN tasks : tasks[j].idx \in Nat /\ tasks[j].idx < i
      <4>1. \A j \in DOMAIN tasks : tasks[j] \in Tasks
        BY <1>1 DEF TypeOK
      <4>2. \A t \in Tasks : t.idx \in Nat
        BY DEF Tasks
      <4> QED BY <1>1, <4>1, <4>2 DEF IdxInv, Loops
    <3>2. \A j \in DOMAIN tasks : tasks[j].idx < i + 1
      BY <1>1, <3>1
    <3>3. CASE i' = i + 1
      BY <1>1, <2>2, <3>2, <3>3 DEF IdxInv
    <3>4. CASE i' = 0
      <4>1. tasks # <<>> /\ Wrapped'
        BY <1>1, <2>1, <2>2, <3>4 DEF Wrapped
      <4> QED BY <1>1, <2>2, <4>1 DEF IdxInv
    <3> QED BY <2>1, <2>2, <2>11, <3>3, <3>4
  <2>9. ChunkInv'
    <3>1. CounterWraps' <=> CounterWraps
      BY <2>2, <2>3 DEF CounterWraps
    <3>2. CASE i' = C + 1 /\ ~CounterWraps
      BY <1>1, <2>1, <2>2, <2>3, <3>1, <3>2 DEF ChunkInv
    <3>3. CASE i' = 0 /\ CounterWraps
      <4>1. tasks # <<>> /\ Wrapped'
        BY <1>1, <2>1, <2>2, <3>3 DEF Wrapped
      <4> QED BY <1>1, <2>1, <2>2, <2>3, <3>1, <3>3, <4>1 DEF ChunkInv
    <3> QED BY <2>2, <2>11, <3>2, <3>3
  <2>10. PerKeyInv' /\ SplitInv' /\ PanicInv'
    BY <1>1, <2>2 DEF PerKeyInv, SplitInv, PanicInv, Scheduled
  <2> QED BY <2>4, <2>5, <2>6, <2>7, <2>8, <2>9, <2>10 DEF KInv
<1>7. CASE /\ to # sum
           /\ tasks' = Append(tasks, [idx |-> i, from |-> sum, to |-> to])
           /\ sum' = to
           /\ i' = i + 1
           /\ UNCHANGED <<config, keyNum, pc>>
  <2> HIDE DEF to
  <2>1. sum < to
    BY <1>1, <1>4, <1>7
  <2>2. /\ TypeOK' /\ ProgressInv' /\ CoverInv' /\ IdxInv' /\ PanicInv'
        /\ Len(tasks') = Len(tasks) + 1
        /\ \A j \in DOMAIN tasks : tasks'[j] = tasks[j]
        /\ tasks'[Len(tasks) + 1] = [idx |-> i, from |-> sum, to |-> to]
        /\ DOMAIN tasks' = 1 .. (Len(tasks) + 1) /\ DOMAIN tasks = 1 .. Len(tasks)
        /\ Len(tasks) \in Nat
        /\ MaxContainers' = MaxContainers /\ strategy' = strategy /\ source' = source /\ sidecars' = sidecars
        /\ keyNum' = keyNum /\ pc' = pc
    BY <1>1, <1>4, <1>7, <2>1, GrowFacts DEF Loops
  <2>3. Concurrent' = Concurrent
    BY <2>2 DEF Concurrent
  <2>4. ChunkInv'
    <3>1. i + 1 < UintSize
      BY <1>1, <1>4, <2>1, CounterFacts DEF Loops
    <3>2. CounterWraps' <=> CounterWraps
      BY <2>2 DEF CounterWraps
    <3>3. CounterWraps => C = UintSize - 1
      BY <1>1, LastIteration
    <3>4. i + 1 = C + 1 => ~CounterWraps
      BY <1>1, <3>1, <3>3
    <3> QED BY <1>1, <1>4, <1>7, <2>2, <2>3, <3>2, <3>4 DEF ChunkInv
  <2>5. LimitInv'
    <3>1. \A j \in DOMAIN tasks' : tasks'[j].to - tasks'[j].from <= M
      <4> SUFFICES ASSUME NEW j \in DOMAIN tasks'
                   PROVE  tasks'[j].to - tasks'[j].from <= M
        OBVIOUS
      <4>1. CASE j \in DOMAIN tasks
        BY <1>1, <2>2, <4>1 DEF LimitInv
      <4>2. CASE j = Len(tasks) + 1
        BY <1>4, <2>2, <4>2
      <4> QED BY <2>2, <4>1, <4>2
    <3>2. (Len(tasks') - 1) * M < keyNum
      <4>1. Len(tasks') - 1 = i
        BY <1>1, <2>2
      <4>2. i * M < keyNum
        BY <1>1, <1>4, <2>1
      <4> QED BY <4>1, <4>2
    <3> QED BY <1>1, <2>2, <3>1, <3>2 DEF LimitInv
  <2>6. PerKeyInv' /\ SplitInv'
    BY <1>1, <2>2 DEF PerKeyInv, SplitInv
  <2> QED BY <2>2, <2>4, <2>5, <2>6 DEF KInv
<1>8. to # sum => Uint32(i + 1) = i + 1
  BY <1>1, <1>4, CounterFacts DEF Loops
<1> QED BY <1>1, <1>4, <1>5, <1>6, <1>7, <1>8 DEF BuildChunk, BuildSlice, Build

\* The counter has wrapped: no slice is left, and the next one is out of range.
LEMMA BuildChunkWrapped ==
  ASSUME KInv, BuildChunk, Wrapped
  PROVE  Panic /\ CounterWraps
<1>1. /\ ChunkInv /\ pc = "chunk" /\ i = 0 /\ Concurrent \in Nat
      /\ sum \in Nat /\ keyNum \in 0 .. (UintSize - 1) /\ Len(tasks) # 0
  BY QuotientFacts DEF KInv, TypeOK, ProgressInv, Wrapped, BuildChunk, Loops
<1>2. sum = keyNum /\ CounterWraps
  BY <1>1 DEF ChunkInv
<1>3. MaxContainers = 1 /\ keyNum = UintSize - 1 /\ Concurrent = UintSize - 1
  <2>1. MaxContainers = 1 /\ keyNum = UintSize - 1 /\ TypeOK
    BY <1>2 DEF CounterWraps, KInv
  <2>2. Concurrent = UintSize - 1
    BY <1>1, <1>2, <2>1, LastIteration
  <2> QED BY <2>1, <2>2
<1>4. Uint32(UintSize) = 0
  BY WrapFact
<1>5. ChunkEnd = 0
  BY <1>1, <1>2, <1>3, <1>4 DEF ChunkEnd
<1>6. ChunkEnd \notin sum .. keyNum
  BY <1>2, <1>3, <1>5
<1> QED BY <1>2, <1>6 DEF BuildChunk, BuildSlice

LEMMA BuildChunkKInv ==
  ASSUME KInv, BuildChunk
  PROVE  KInv'
<1>1. CASE Wrapped
  BY <1>1, BuildChunkWrapped, StopKInv DEF Panic
<1> QED BY <1>1, BuildChunkInTurn

\* Every step keeps the invariant.
LEMMA NextKInv == KInv /\ [Next]_vars => KInv'
<1> SUFFICES ASSUME KInv, [Next]_vars PROVE KInv'
  OBVIOUS
<1>1. CASE UNCHANGED vars
  BY <1>1 DEF vars, config, KInv, TypeOK, ProgressInv, Scheduled, ValidScheduler, CoverInv, IdxInv,
              PerKeyInv, SplitInv, ChunkInv, LimitInv, PanicInv, PerPodKeyNum, Concurrent,
              Wrapped, LimitCutToZero, CounterWraps,
              MaxPods, MaxContainers, Uint32
<1>2. CASE Done
  BY <1>1, <1>2 DEF Done
<1> QED
  BY <1>1, <1>2, WithoutStrategyKInv, GetKeysKInv, SchedulePodsKInv, ScheduleContainersKInv,
     BuildOneKInv, BuildPerKeyKInv, BuildSplitKInv, BuildChunkKInv, EndKInv DEF Next

\* KInv is an inductive invariant of the scheduler.
THEOREM Invariance == Spec => []KInv
<1> QED BY InitKInv, NextKInv, PTL DEF Spec

(***************************************************************************)
(* What the invariant says of the schedule.                                *)
(***************************************************************************)

\* The Tasks are intervals of keys.
LEMMA TaskFacts ==
  ASSUME KInv, NEW j \in DOMAIN tasks
  PROVE  /\ tasks[j].idx \in Nat /\ tasks[j].from \in Nat /\ tasks[j].to \in Nat
         /\ \A k \in Int : k \in KeysOf(tasks[j]) <=> tasks[j].from <= k /\ k < tasks[j].to
         /\ source # "none" => Cardinality(KeysOf(tasks[j])) = tasks[j].to - tasks[j].from
<1>1. tasks[j] \in Tasks
  BY DEF KInv, TypeOK
<1>2. tasks[j].idx \in Nat /\ tasks[j].from \in Nat /\ tasks[j].to \in Nat
  BY <1>1 DEF Tasks
<1>3. \A k \in Int : k \in KeysOf(tasks[j]) <=> tasks[j].from <= k /\ k < tasks[j].to
  BY <1>2 DEF KeysOf
<1>4. ASSUME source # "none"
      PROVE  Cardinality(KeysOf(tasks[j])) = tasks[j].to - tasks[j].from
  <2>1. tasks[j].from <= tasks[j].to
    BY <1>4 DEF KInv, CoverInv
  <2> DEFINE a == tasks[j].from
             b == tasks[j].to - 1
  <2>2. a \in Int /\ b \in Int /\ KeysOf(tasks[j]) = a .. b
    BY <1>2 DEF KeysOf
  <2>3. Cardinality(a .. b) = IF a > b THEN 0 ELSE b - a + 1
    <3> HIDE DEF a, b
    <3> QED BY <2>2, FS_Interval
  <2> QED BY <1>2, <2>1, <2>2, <2>3
<1> QED BY <1>2, <1>3, <1>4

\* When the loops have ended, CoverInv covers all the keys.
LEMMA KeysOnce == KInv => EveryKeyOnce
<1> SUFFICES ASSUME KInv, Scheduled, NEW k \in 0 .. (keyNum - 1)
             PROVE  \E j \in DOMAIN tasks :
                      /\ k \in KeysOf(tasks[j])
                      /\ \A l \in DOMAIN tasks : k \in KeysOf(tasks[l]) => l = j
  BY DEF EveryKeyOnce
<1>1. source # "none" /\ sum = keyNum /\ k \in Int
  BY DEF KInv, ProgressInv, Scheduled
<1>2. PICK j \in DOMAIN tasks :
        /\ tasks[j].from <= k /\ k < tasks[j].to
        /\ \A l \in DOMAIN tasks : tasks[l].from <= k /\ k < tasks[l].to => l = j
  BY <1>1 DEF KInv, CoverInv
<1>3. \A l \in DOMAIN tasks : k \in KeysOf(tasks[l]) <=> tasks[l].from <= k /\ k < tasks[l].to
  BY <1>1, TaskFacts
<1> QED BY <1>2, <1>3

\* The limits as converted to uint32 are at most the limits as given.
LEMMA LimitsKept == KInv => WithinLimits
<1> SUFFICES ASSUME KInv, Scheduled
             PROVE  /\ strategy.maxPodNum # 0 => Len(tasks) <= strategy.maxPodNum
                    /\ strategy.maxContainersPerPod # 0 =>
                         \A j \in DOMAIN tasks :
                           PodContainers(tasks[j]) <= strategy.maxContainersPerPod + sidecars
  BY DEF WithinLimits
<1>1. source # "none" /\ ValidScheduler(strategy) /\ TypeOK /\ LimitInv
  BY DEF KInv, ProgressInv, Scheduled
<1>2. /\ MaxPods \in Nat /\ MaxPods <= strategy.maxPodNum
      /\ MaxContainers \in Nat /\ MaxContainers <= strategy.maxContainersPerPod
      /\ strategy.maxPodNum \in Nat /\ strategy.maxContainersPerPod \in Nat
      /\ Len(tasks) \in Nat
  BY <1>1, LimitFacts DEF TypeOK
<1>3. strategy.maxPodNum # 0 => Len(tasks) <= strategy.maxPodNum
  BY <1>1, <1>2 DEF LimitInv
<1>4. ASSUME strategy.maxContainersPerPod # 0, NEW j \in DOMAIN tasks
      PROVE  PodContainers(tasks[j]) <= strategy.maxContainersPerPod + sidecars
  <2>1. tasks[j].to - tasks[j].from <= MaxContainers
    BY <1>1, <1>4 DEF LimitInv, ValidScheduler
  <2>2. Cardinality(KeysOf(tasks[j])) = tasks[j].to - tasks[j].from
        /\ tasks[j].from \in Nat /\ tasks[j].to \in Nat /\ sidecars \in Nat
    BY <1>1, <1>4, TaskFacts DEF TypeOK
  <2>3. Cardinality(KeysOf(tasks[j])) \in Int
        /\ Cardinality(KeysOf(tasks[j])) <= strategy.maxContainersPerPod
    BY <1>2, <2>1, <2>2
  <2> QED BY <1>2, <2>2, <2>3 DEF PodContainers
<1> QED BY <1>3, <1>4

\* No slice of CoverInv is empty when there are keys.
LEMMA PodsBusy == KInv => NoIdlePod
<1> SUFFICES ASSUME KInv, Scheduled, keyNum > 0
             PROVE  /\ \A j \in DOMAIN tasks : KeysOf(tasks[j]) # {}
                    /\ strategy.maxContainersPerPod \in 1 .. (UintSize - 1) =>
                         (Len(tasks) - 1) * strategy.maxContainersPerPod < keyNum
  BY DEF NoIdlePod
<1>1. /\ source # "none" /\ ValidScheduler(strategy) /\ TypeOK /\ LimitInv /\ CoverInv
      /\ keyNum \in Nat /\ Len(tasks) \in Nat
  BY DEF KInv, ProgressInv, Scheduled, TypeOK
<1>2. ASSUME NEW j \in DOMAIN tasks
      PROVE  KeysOf(tasks[j]) # {}
  <2>1. tasks[j].from \in Nat /\ tasks[j].to \in Nat /\ tasks[j].from < tasks[j].to
    BY <1>1, TaskFacts DEF CoverInv
  <2>2. tasks[j].from \in KeysOf(tasks[j])
    BY <2>1 DEF KeysOf
  <2> QED BY <2>2
<1>3. ASSUME strategy.maxContainersPerPod \in 1 .. (UintSize - 1)
      PROVE  (Len(tasks) - 1) * strategy.maxContainersPerPod < keyNum
  <2> DEFINE m == strategy.maxContainersPerPod
  <2>1. m \in Nat \ {0} /\ MaxContainers = m /\ strategy.maxPodNum = 0
    BY <1>1, <1>3, LimitFacts DEF ValidScheduler
  <2>2. Len(tasks) > 0 => (Len(tasks) - 1) * m < keyNum
    BY <1>1, <2>1 DEF LimitInv
  <2>3. Len(tasks) = 0 => (Len(tasks) - 1) * m < 0
    BY <1>1, <2>1
  <2>4. (Len(tasks) - 1) * m \in Int
    BY <1>1, <2>1
  <2> HIDE DEF m
  <2>5. (Len(tasks) - 1) * m < keyNum
    BY <1>1, <2>2, <2>3, <2>4
  <2> QED BY <2>5 DEF m
<1> QED BY <1>2, <1>3

\* Container names differ because ConcurrentIdx does.
LEMMA NamesUnique == KInv => ContainerNamesUnique
<1> SUFFICES ASSUME KInv, NEW j \in DOMAIN tasks, NEW l \in DOMAIN tasks, j # l
             PROVE  MainContainers(tasks[j]) \cap MainContainers(tasks[l]) = {}
  BY DEF ContainerNamesUnique
<1>1. tasks[j].idx # tasks[l].idx
  BY DEF KInv, IdxInv
<1> QED BY <1>1 DEF MainContainers

(***************************************************************************)
(* The theorems.                                                           *)
(***************************************************************************)

\* Every variable keeps its type.
THEOREM TypeCorrect == Spec => []TypeOK
<1> QED BY Invariance, PTL DEF KInv

\* Whatever the limit, the loops of Schedule put every key in one Task only.
THEOREM ScheduleIsPartition == Spec => []EveryKeyOnce
<1> QED BY Invariance, KeysOnce, PTL

\* No schedule exceeds the limit it was made for.
THEOREM ScheduleWithinLimits == Spec => []WithinLimits
<1> QED BY Invariance, LimitsKept, PTL

\* No schedule has a pod too many.
THEOREM ScheduleHasNoIdlePod == Spec => []NoIdlePod
<1> QED BY Invariance, PodsBusy, PTL

\* The names of main containers are unique over the pods of a step.
THEOREM ContainerNamesAreUnique == Spec => []ContainerNamesUnique
<1> QED BY Invariance, NamesUnique, PTL

\* The sum check never fires, and only a limit cut to zero and a counter that wraps panic.
THEOREM SlicesStayInRange == Spec => []SlicesInRange
<1>1. KInv => SlicesInRange
  BY DEF KInv, ProgressInv, PanicInv, SlicesInRange, Scheduled
<1> QED BY <1>1, Invariance, PTL

(***************************************************************************)
(* Schedule ends.                                                          *)
(***************************************************************************)

\* What is left, wherever the scheduler is, before and after a step.
LEMMA StepsLeftFacts ==
  /\ pc = "start" => StepsLeft = UintSize + 4
  /\ pc = "keys" => StepsLeft = UintSize + 3
  /\ pc = "perKey" => StepsLeft = keyNum - i + 2
  /\ pc = "split" => StepsLeft = MaxPods - i + 2
  /\ pc = "chunk" /\ ~Wrapped => StepsLeft = Concurrent + 1 - i + 2
  /\ pc = "chunk" /\ Wrapped => StepsLeft = 2
  /\ pc \in {"one", "check"} => StepsLeft = 1
  /\ pc \in Ended \cup {"mismatch"} => StepsLeft = 0
BY DEF StepsLeft, IterationsLeft, Loops, Ended

LEMMA StepsLeftNext ==
  /\ pc' = "keys" => StepsLeft' = UintSize + 3
  /\ pc' = "perKey" => StepsLeft' = keyNum' - i' + 2
  /\ pc' = "split" => StepsLeft' = MaxPods' - i' + 2
  /\ pc' = "chunk" /\ ~Wrapped' => StepsLeft' = Concurrent' + 1 - i' + 2
  /\ pc' = "chunk" /\ Wrapped' => StepsLeft' = 2
  /\ pc' \in {"one", "check"} => StepsLeft' = 1
  /\ pc' \in Ended \cup {"mismatch"} => StepsLeft' = 0
BY DEF StepsLeft, IterationsLeft, Loops, Ended

\* The loops have fewer than 2^32 iterations, and no counter passes the last one.
LEMMA LoopFacts ==
  ASSUME KInv
  PROVE  /\ UintSize \in Nat \ {0} /\ i \in Nat
         /\ pc = "perKey" => keyNum \in i .. (UintSize - 1)
         /\ pc = "split" => MaxPods \in i .. (UintSize - 1)
         /\ pc = "chunk" => Concurrent \in Nat /\ Concurrent < UintSize /\ i <= Concurrent + 1
<1>1. UintSize \in Nat \ {0} /\ i \in Nat
  BY UintSizeAssumption DEF KInv, TypeOK
<1>2. pc \in Loops => keyNum \in 0 .. (UintSize - 1)
  BY DEF KInv, ProgressInv
<1>3. CASE pc = "perKey"
  BY <1>1, <1>2, <1>3 DEF KInv, PerKeyInv, Loops
<1>4. CASE pc = "split"
  <2>1. MaxPods \in Nat /\ MaxPods <= keyNum /\ i <= MaxPods
    BY <1>4, LimitFacts DEF KInv, SplitInv
  <2> QED BY <1>1, <1>2, <1>4, <2>1 DEF Loops
<1>5. CASE pc = "chunk"
  <2>1. MaxContainers \in Nat \ {0} /\ i <= Concurrent + 1 /\ keyNum \in 0 .. (UintSize - 1)
    <3>1. ChunkInv /\ TypeOK /\ Concurrent \in Nat
      BY <1>5, QuotientFacts DEF KInv
    <3>2. i <= Concurrent + 1
      BY <1>1, <1>5, <3>1 DEF ChunkInv, Wrapped
    <3> QED BY <1>2, <1>5, <3>1, <3>2, LimitFacts DEF ChunkInv, Loops
  <2>2. Concurrent \in Nat /\ Concurrent * MaxContainers <= keyNum
    BY <2>1, DivFacts DEF Concurrent
  <2> DEFINE q == Concurrent
             b == MaxContainers
  <2>3. q * b >= q
    <3> HIDE DEF q, b
    <3>1. q \in Nat /\ b \in Nat \ {0}
      BY <2>1, <2>2 DEF q, b
    <3>2. q * b = q + q * (b - 1) /\ q * (b - 1) >= 0
      BY <3>1
    <3> QED BY <3>1, <3>2
  <2> HIDE DEF q, b
  <2>4. q \in Nat /\ q * b <= keyNum /\ q * b \in Int
    BY <2>1, <2>2 DEF q, b
  <2>5. q < UintSize
    BY <1>1, <2>1, <2>3, <2>4
  <2> QED BY <1>1, <1>5, <2>1, <2>2, <2>5 DEF q
<1> QED BY <1>1, <1>3, <1>4, <1>5

\* A turn of a loop that goes on: the counter moves, or it wraps.
LEMMA TurnAdvances ==
  ASSUME KInv, pc \in Loops, ~Wrapped, pc' = pc, UNCHANGED <<config, keyNum>>,
         pc = "perKey" => i < keyNum, pc = "split" => i < MaxPods, pc = "chunk" => i <= Concurrent,
         i' = i + 1 \/ (pc = "chunk" /\ Wrapped')
  PROVE  StepsLeft \in Nat /\ StepsLeft' < StepsLeft
<1>1. MaxPods' = MaxPods /\ Concurrent' = Concurrent /\ keyNum' = keyNum
  BY DEF config, MaxPods, MaxContainers, Concurrent
<1>2. CASE i' = i + 1
  <2>1. ~Wrapped'
    BY <1>2, LoopFacts DEF Wrapped
  <2> QED BY <1>1, <1>2, <2>1, LoopFacts, StepsLeftFacts, StepsLeftNext DEF Loops
<1>3. CASE pc = "chunk" /\ Wrapped'
  BY <1>3, LoopFacts, StepsLeftFacts, StepsLeftNext
<1> QED BY <1>2, <1>3

\* A step that leaves a loop, or was in none.
LEMMA LeaveAdvances ==
  ASSUME KInv, pc \in Loops \cup {"start", "keys", "one", "check"},
         pc' \in Ended \cup {"mismatch"} \/ (pc' = "check" /\ pc \in Loops)
  PROVE  StepsLeft \in Nat /\ StepsLeft' < StepsLeft
BY LoopFacts, StepsLeftFacts, StepsLeftNext DEF Loops

\* A loop begins with no more iterations than there are numbers of 32 bits.
LEMMA LoopBound == KInv => (pc \in Loops => StepsLeft \in 0 .. (UintSize + 2))
BY LoopFacts, StepsLeftFacts DEF Loops

\* A step that enters a loop.
LEMMA EnterAdvances ==
  ASSUME KInv, KInv', pc = "keys", pc' \in Loops \cup {"one"}
  PROVE  StepsLeft \in Nat /\ StepsLeft' < StepsLeft
<1>1. UintSize \in Nat \ {0} /\ StepsLeft = UintSize + 3
  BY LoopFacts, StepsLeftFacts
<1>2. CASE pc' = "one"
  BY <1>1, <1>2, StepsLeftNext
<1>3. CASE pc' \in Loops
  <2>1. (KInv => (pc \in Loops => StepsLeft \in 0 .. (UintSize + 2)))'
    BY LoopBound, PTL
  <2>2. StepsLeft' \in 0 .. (UintSize + 2)
    BY <1>3, <2>1
  <2> QED BY <1>1, <2>2
<1> QED BY <1>2, <1>3

\* A turn of a loop: it builds a Task, or fails.
LEMMA BuildAdvances ==
  ASSUME KInv, pc \in Loops, ~Wrapped, NEW from, NEW to, Build(from, to),
         pc = "perKey" => i < keyNum, pc = "split" => i < MaxPods,
         pc = "chunk" => i <= Concurrent /\ sum < keyNum
  PROVE  StepsLeft \in Nat /\ StepsLeft' < StepsLeft
<1>1. CASE Fail
  BY <1>1, LeaveAdvances DEF Fail, Ended
<1>2. CASE pc' = pc /\ i' = Uint32(i + 1) /\ UNCHANGED <<config, keyNum>>
  BY <1>2, CounterFacts, TurnAdvances
<1> QED BY <1>1, <1>2 DEF Build

\* A turn without a Task is the last one, or the counter wraps.
LEMMA SkipAdvances ==
  ASSUME KInv, pc = "chunk", ~Wrapped, i <= Concurrent, SkipChunk
  PROVE  StepsLeft \in Nat /\ StepsLeft' < StepsLeft
<1>1. /\ TypeOK /\ ChunkInv /\ i \in Nat /\ Concurrent \in Nat /\ Concurrent < UintSize
      /\ keyNum \in 0 .. (UintSize - 1)
  BY LoopFacts DEF KInv, ProgressInv, Loops
<1>2. pc' = pc /\ i' = Uint32(i + 1) /\ tasks' = tasks /\ UNCHANGED <<config, keyNum>>
  BY DEF SkipChunk
<1>3. CASE i < Concurrent
  <2>1. Uint32(i + 1) = i + 1
    BY <1>1, <1>3, Uint32Facts
  <2> QED BY <1>2, <1>3, <2>1, TurnAdvances DEF Loops
<1>4. CASE i = Concurrent
  <2>1. MaxContainers \in Nat /\ 0 < MaxContainers /\ Len(tasks) = i
    BY <1>1, <1>4, LimitFacts DEF ChunkInv
  <2>2. \/ Uint32(i + 1) = i + 1
        \/ Uint32(i + 1) = 0 /\ i = UintSize - 1
    BY <1>1, <1>4, <2>1, LastIteration
  <2>3. CASE Uint32(i + 1) = 0 /\ i = UintSize - 1
    <3>1. Wrapped'
      BY <1>2, <2>1, <2>3 DEF Wrapped
    <3> QED BY <1>2, <3>1, <1>4, TurnAdvances DEF Loops
  <2> QED BY <1>2, <2>2, <2>3, TurnAdvances DEF Loops
<1> QED BY <1>1, <1>3, <1>4

\* No schedule goes on for ever, for any settings and any number of keys.
THEOREM ScheduleEnds == Spec => ScheduleAdvances
<1>1. ASSUME KInv, KInv', Next, vars' # vars
      PROVE  (StepsLeft \in Nat) /\ StepsLeft' < StepsLeft
  <2>1. CASE BuildWithoutStrategy
    BY <1>1, <2>1, LeaveAdvances DEF BuildWithoutStrategy, Fail, Ended
  <2>2. CASE GetKeys
    <3>1. CASE Fail
      BY <1>1, <2>2, <3>1, LeaveAdvances DEF GetKeys, Fail, Ended
    <3>2. CASE pc' = "keys"
      BY <1>1, <2>2, <3>2, LoopFacts, StepsLeftFacts, StepsLeftNext DEF GetKeys
    <3> QED BY <2>2, <3>1, <3>2 DEF GetKeys
  <2>3. CASE SchedulePods \/ ScheduleContainers
    <3>1. pc = "keys" /\ pc' \in Loops \cup {"one", "panic"}
      BY <2>3 DEF SchedulePods, ScheduleContainers, Enter, Panic, Loops
    <3> QED BY <1>1, <3>1, EnterAdvances, LeaveAdvances DEF Ended
  <2>4. CASE BuildOne
    BY <1>1, <2>4, LeaveAdvances DEF BuildOne, Fail, Ended
  <2>5. CASE BuildPerKey
    <3>1. CASE i < keyNum
      BY <1>1, <2>5, <3>1, BuildAdvances DEF BuildPerKey, Loops, Wrapped
    <3>2. CASE ~(i < keyNum)
      BY <1>1, <2>5, <3>2, LeaveAdvances DEF BuildPerKey, Loops, Ended
    <3> QED BY <3>1, <3>2
  <2>6. CASE BuildSplit
    <3>1. pc = "split" /\ i < MaxPods /\ (Panic \/ Enter("check") \/ Build(sum, SplitEnd))
      BY <2>6 DEF BuildSplit, BuildSlice
    <3>2. CASE Panic \/ Enter("check")
      BY <1>1, <3>1, <3>2, LeaveAdvances DEF Panic, Enter, Loops, Ended
    <3>3. CASE Build(sum, SplitEnd)
      BY <1>1, <3>1, <3>3, BuildAdvances DEF Loops, Wrapped
    <3> QED BY <3>1, <3>2, <3>3
  <2>7. CASE BuildChunk
    <3>1. pc = "chunk" /\ i <= Concurrent /\ sum \in Nat /\ keyNum \in Nat
      BY <1>1, <2>7, QuotientFacts DEF BuildChunk, KInv, TypeOK
    <3>2. Panic \/ SkipChunk \/ (Build(sum, ChunkEnd) /\ sum < keyNum)
      BY <2>7, <3>1 DEF BuildChunk, BuildSlice
    <3>3. CASE Panic
      BY <1>1, <3>1, <3>3, LeaveAdvances DEF Panic, Loops, Ended
    <3>4. CASE Wrapped
      BY <1>1, <2>7, <3>3, <3>4, BuildChunkWrapped
    <3>5. CASE ~Wrapped /\ SkipChunk
      BY <1>1, <3>1, <3>5, SkipAdvances
    <3>6. CASE ~Wrapped /\ Build(sum, ChunkEnd) /\ sum < keyNum
      BY <1>1, <3>1, <3>6, BuildAdvances DEF Loops
    <3> QED BY <3>2, <3>3, <3>4, <3>5, <3>6
  <2>8. CASE EndLoop
    BY <1>1, <2>8, LeaveAdvances DEF EndLoop, Enter, Loops
  <2>9. CASE CheckSum
    BY <1>1, <2>9, LeaveAdvances DEF CheckSum, Ended
  <2>10. ~Done
    BY <1>1 DEF Done
  <2> QED BY <1>1, <2>1, <2>2, <2>3, <2>4, <2>5, <2>6, <2>7, <2>8, <2>9, <2>10 DEF Next
<1>2. KInv /\ KInv' /\ [Next]_vars => [(StepsLeft \in Nat) /\ StepsLeft' < StepsLeft]_vars
  BY <1>1
<1> QED BY <1>2, Invariance, PTL DEF Spec, ScheduleAdvances
=============================================================================

------------------------------ MODULE MountsProofs ------------------------------
(***************************************************************************)
(* Theorems about Mounts, for every TestJob with steps of the given shape, *)
(* every mode and every number of attempts.                                *)
(***************************************************************************)
EXTENDS Mounts, TLAPS, FiniteSetTheorems, WellFoundedInduction

(***************************************************************************)
(* Least elements.                                                         *)
(***************************************************************************)

\* A set of numbers has a smallest one.
LEMMA SmallestNumber ==
  ASSUME NEW T, T \subseteq Nat, T # {}
  PROVE  \E x \in T : \A y \in T : x <= y
<1>1. \E x \in T : \A y \in T : ~(<<y, x>> \in OpToRel(<, Nat))
  BY NatLessThanWellFounded, WFMin
<1>2. PICK x \in T : \A y \in T : ~(<<y, x>> \in OpToRel(<, Nat))
  BY <1>1
<1>3. ASSUME NEW y \in T PROVE x <= y
  <2>1. <<y, x>> \notin OpToRel(<, Nat)
    BY <1>2
  <2>2. <<y, x>> \in Nat \X Nat
    OBVIOUS
  <2>3. ~(y < x)
    BY <2>1, <2>2 DEF OpToRel
  <2> QED BY <2>3
<1> QED BY <1>3

\* The next resource to copy, or to report as missing, is one of those in question.
LEMMA FirstIsMember ==
  ASSUME NEW S, S \subseteq Resources, S # {}
  PROVE  First(S) \in S
<1> DEFINE T == {Rank[r] : r \in S}
<1>1. T \subseteq Nat /\ T # {}
  BY RankAssumption
<1>2. PICK x \in T : \A y \in T : x <= y
  BY <1>1, SmallestNumber
<1>3. \E r \in S : \A q \in S : Rank[r] <= Rank[q]
  BY <1>2
<1> QED BY <1>3 DEF First

(***************************************************************************)
(* The mounts of a step.                                                   *)
(***************************************************************************)

\* A mount that counts is of a resource the step declares, at one of the paths.
LEMMA ServedFacts ==
  ASSUME NEW s, WellFormed(s), NEW k \in DOMAIN s.containers, NEW m \in Served(s, k)
  PROVE  /\ m \in Nat
         /\ MountSource(s, k, m) \in Resources
         /\ \E v \in DOMAIN s.volumes : s.volumes[v] = MountSource(s, k, m)
         /\ PathOf(s, k, m) \in Paths
<1> DEFINE v == s.containers[k].mounts[m]
<1>1. m \in DOMAIN s.containers[k].mounts /\ MountSource(s, k, m) # Plain
  BY DEF Served
<1>2. MountSource(s, k, m) = Source(s, v)
  BY DEF MountSource
<1>3. v \in DOMAIN s.volumes /\ Source(s, v) = s.volumes[v]
  BY <1>1, <1>2 DEF Source
<1>4. Source(s, v) \in Resources /\ v \in Volumes /\ m \in Nat
  BY <1>1, <1>2, <1>3 DEF WellFormed
<1>5. PathOf(s, k, m) = MountPath(s, v)
  BY DEF PathOf
<1>6. MountPath(s, v) \in Paths
  BY <1>4, ResourceAssumption DEF MountPath, Paths, OnePerPod
<1> QED BY <1>2, <1>3, <1>4, <1>5, <1>6

\* A resource that is used is declared.
LEMMA UsedFacts ==
  ASSUME NEW s, WellFormed(s), NEW r \in Used(s)
  PROVE  /\ r \in Resources
         /\ \E v \in DOMAIN s.volumes : s.volumes[v] = r
<1>1. PICK k \in DOMAIN s.containers : r \in UsedBy(s, k)
  BY DEF Used, UsedIn, Containers
<1>2. PICK m \in Served(s, k) : MountSource(s, k, m) = r
  BY <1>1 DEF UsedBy
<1> QED BY <1>2, ServedFacts

\* A resource is copied to where a container that uses it mounts it.
LEMMA DestinationFacts ==
  ASSUME NEW s, WellFormed(s), NEW r, NEW p \in Destinations(s, r)
  PROVE  /\ p \in Paths
         /\ \E k \in DOMAIN s.containers : \E n \in Served(s, k) :
              MountSource(s, k, n) = r /\ PathOf(s, k, n) = p
<1>1. PICK k \in DOMAIN s.containers :
        p \in {PathOf(s, k, m) : m \in {n \in Served(s, k) : MountSource(s, k, n) = r}}
  BY DEF Destinations, Containers
<1>2. PICK n \in Served(s, k) : MountSource(s, k, n) = r /\ PathOf(s, k, n) = p
  BY <1>1
<1> QED BY <1>2, ServedFacts

\* The containers that mount something are numbered from one on.
LEMMA MountingFacts ==
  ASSUME NEW s, WellFormed(s)
  PROVE  /\ Mounting(s) \subseteq Nat \ {0}
         /\ \A k \in Mounting(s) : \A m \in Nat \ {0} : m <= k => m \in Mounting(s)
         /\ Mounting(s) \subseteq DOMAIN s.containers
         /\ Containers(s, "main") \subseteq Mounting(s)
<1>1. PICK n \in 0 .. Len(s.containers) : \E i \in 0 .. n :
        Containers(s, "init") = 1 .. i /\ Containers(s, "main") = i + 1 .. n
  BY DEF WellFormed
<1>2. n \in Nat /\ Mounting(s) = 1 .. n
  BY <1>1 DEF Mounting
<1> QED BY <1>1, <1>2 DEF Mounting, Containers

\* A job starts with a container of its pod, and no main container comes before.
LEMMA FirstMountedFacts ==
  ASSUME NEW s, WellFormed(s), Containers(s, "main") # {}
  PROVE  /\ FirstMounted(s) \in Mounting(s)
         /\ FirstMounted(s) \in Nat \ {0}
         /\ \A k \in Containers(s, "main") : FirstMounted(s) <= k
         /\ mode = "kubernetes" => \A k \in Mounting(s) : FirstMounted(s) <= k
         /\ mode # "kubernetes" => \A k \in Mounting(s) :
              FirstMounted(s) <= k => s.containers[k].group = "main"
<1>1. /\ Mounting(s) \subseteq Nat \ {0} /\ Containers(s, "main") \subseteq Mounting(s)
      /\ \A k \in Mounting(s) : \A m \in Nat \ {0} : m <= k => m \in Mounting(s)
  BY MountingFacts
<1>2. CASE mode = "kubernetes"
  BY <1>1, <1>2 DEF FirstMounted
<1>3. CASE mode # "kubernetes"
  <2>1. \E k \in Containers(s, "main") : \A m \in Containers(s, "main") : k <= m
    BY <1>1, SmallestNumber
  <2>2. /\ FirstMounted(s) \in Containers(s, "main")
        /\ \A m \in Containers(s, "main") : FirstMounted(s) <= m
    BY <1>3, <2>1 DEF FirstMounted
  <2>3. ASSUME NEW k \in Mounting(s), FirstMounted(s) <= k PROVE s.containers[k].group = "main"
    <3>1. PICK n \in 0 .. Len(s.containers) : \E i \in 0 .. n :
            Containers(s, "init") = 1 .. i /\ Containers(s, "main") = i + 1 .. n
      BY DEF WellFormed
    <3>2. k \in Containers(s, "main")
      BY <2>2, <2>3, <3>1 DEF Mounting
    <3> QED BY <3>2 DEF Containers
  <2> QED BY <1>1, <1>3, <2>2, <2>3
<1> QED BY <1>2, <1>3

\* The names of containers of different groups differ.
LEMMA NamesApart ==
  ASSUME NEW s, WellFormed(s), NEW k \in DOMAIN s.containers,
         NEW group, s.containers[k].name \in ContainerNames(s, group)
  PROVE  k \in Containers(s, group)
BY DEF WellFormed, NoDuplicate, ContainerNames, Containers

\* The step that is built or run has the shape the assumption gives it.
LEMMA StepFacts ==
  ASSUME job \in Jobs, at \in DOMAIN job.steps
  PROVE  WellFormed(Step) /\ at \in Nat \ {0} /\ at <= Len(job.steps)
BY JobAssumption DEF Step

\* What a step of a validated job has been checked for.
LEMMA ValidStepFacts ==
  ASSUME ValidJob(job), at \in DOMAIN job.steps
  PROVE  /\ Containers(Step, "main") # {}
         /\ \A v \in DOMAIN Step.volumes : ValidVolumeSource(job, at, Step.volumes[v])
BY DEF ValidJob, ValidStep, Step

\* What is copied is used.
LEMMA CopiedFacts == Copied(Step) \subseteq Used(Step)
BY DEF Copied

(***************************************************************************)
(* Frames.                                                                 *)
(***************************************************************************)

\* Within a step, what it mounts and copies stays the same.
LEMMA StepKept ==
  ASSUME UNCHANGED <<job, mode, at>>
  PROVE  /\ Step' = Step
         /\ FirstMounted(Step)' = FirstMounted(Step)
         /\ Copied(Step)' = Copied(Step)
BY DEF Step, FirstMounted, Copied

\* Which mounts are in each other's way depends on nothing else, either.
LEMMA DisturbedKept ==
  ASSUME UNCHANGED <<job, mode, at>>, NEW u
  PROVE  Disturbed(Step, u)' <=> Disturbed(Step, u)
BY StepKept DEF Disturbed, Unpackable, Removes, Diverts, MayFollow

LEMMA BelowFileKept ==
  ASSUME UNCHANGED <<job, mode, at>>, NEW r
  PROVE  BelowFile(Step, r)' <=> BelowFile(Step, r)
BY StepKept DEF BelowFile, Unpackable, Stops, MayFollow

\* Mount points keep what they have got.
LEMMA SeenKept ==
  ASSUME UNCHANGED <<job, mode, at, view>>, NEW k
  PROVE  Seen(k)' <=> Seen(k)
<1>1. Step' = Step
  BY StepKept
<1>2. Root(Step, k)' = Root(Step, k)
  BY <1>1 DEF Root
<1>3. \A m : Disturbed(Step, <<k, m>>)' <=> Disturbed(Step, <<k, m>>)
  BY DisturbedKept
<1> QED BY <1>1, <1>2, <1>3 DEF Seen

\* Nothing is started, and no copy that is left can write into the pod.
LEMMA CommandsKept ==
  ASSUME CommandsSeeMounts, UNCHANGED <<job, mode, at, view, started>>,
         \/ started = {}
         \/ attempt' = attempt /\ stray' \subseteq stray
         \/ mode = "kubernetes" => \A w \in stray' : w.step # at \/ w.attempt # attempt'
  PROVE  CommandsSeeMounts'
<1> SUFFICES ASSUME (at <= Len(job.steps))', (mode # "dryrun")', NEW k \in Mounting(Step)',
                    (Step.containers[k].name \in started)'
             PROVE  /\ Seen(k)'
                    /\ (mode = "kubernetes")' =>
                         \A w \in stray' : w.step # at' \/ w.attempt # attempt'
  BY DEF CommandsSeeMounts
<1>1. Step' = Step
  BY StepKept
<1>2. k \in Mounting(Step) /\ Step.containers[k].name \in started
  BY <1>1 DEF Mounting
<1>3. /\ Seen(k)
      /\ mode = "kubernetes" => \A w \in stray : w.step # at \/ w.attempt # attempt
  BY <1>2 DEF CommandsSeeMounts
<1>4. Seen(k)'
  BY <1>3, SeenKept
<1> QED BY <1>2, <1>3, <1>4

\* Where the next container is at does not depend on copies.
LEMMA MountKept ==
  ASSUME MountInv, UNCHANGED <<job, mode, at, view, next>>,
         pc' \in {"preinit", "copying"} => pc \in {"preinit", "copying"},
         pc' \in {"mount", "run", "finished"} =>
           pc = pc' \/ (pc = "run" /\ pc' = "finished")
  PROVE  MountInv'
<1>1. /\ Step' = Step /\ FirstMounted(Step)' = FirstMounted(Step)
      /\ \A k : Seen(k)' <=> Seen(k)
  BY StepKept, SeenKept
<1> QED BY <1>1, Zenon DEF MountInv

(***************************************************************************)
(* The ends of an attempt.                                                 *)
(***************************************************************************)

\* The reasons a run may fail for.
Explained(reason) ==
  /\ reason[1] \notin {"repo", "token"}
  /\ reason[1] = "artifact" => reason[2] \in ArtifactNames(job, at)
  /\ reason[1] = "clone" => reason[2].clonedPath = "set"
  /\ reason[1] = "mount" /\ mode = "kubernetes" =>
       Split(Step, reason[2]) \/ BelowFile(Step, reason[2])

\* A run that fails for such a reason leaves containers and their mounts alone.
LEMMA FailKeeps ==
  ASSUME MInv, TypeOK', NEW reason, Fail(reason), Explained(reason),
         UNCHANGED <<job, mode, at, attempt, view, started>>,
         pc \notin {"validate", "rejected"}, copying' = Plain,
         started = {} \/ stray' \subseteq stray
  PROVE  MInv'
<1>1. pc' = "failed" /\ why' = reason
  BY DEF Fail
<1>2. PlaceInv'
  BY <1>1 DEF MInv, PlaceInv
<1>3. StartInv' /\ CopyInv' /\ StrayInv' /\ MountInv'
  BY <1>1 DEF StartInv, CopyInv, StrayInv, MountInv, InPod
<1>4. CommandsSeeMounts'
  BY CommandsKept DEF MInv
<1>5. Step' = Step
  BY StepKept
<1>6. NamesAreKnown'
  BY <1>1 DEF Explained, NamesAreKnown
<1>7. MountFailureHasReason'
  BY <1>1, <1>5, BelowFileKept DEF Explained, MountFailureHasReason, Split
<1> QED BY <1>2, <1>3, <1>4, <1>6, <1>7 DEF MInv

\* A retry leaves copies behind that are not of its attempt.
LEMMA RetryKeeps ==
  ASSUME MInv, TypeOK', Retry, UNCHANGED <<job, mode, at, view, started>>,
         pc \in {"create", "copying", "mount", "finished"}, copying' = Plain,
         \A w \in stray' : w.step < at \/ (w.step = at /\ w.attempt <= attempt)
  PROVE  MInv'
<1>1. /\ pc' = "build" /\ mode = "kubernetes" /\ why' = why
      /\ attempt \in Nat \ {0} /\ attempt' = attempt + 1
      /\ at \in Nat
      /\ \A w \in stray' : w.step \in Nat /\ w.attempt \in Nat
  BY AttemptAssumption DEF Retry, MInv, TypeOK
<1>2. why = <<"none">>
  BY DEF MInv, PlaceInv
<1>3. PlaceInv'
  BY <1>1 DEF MInv, PlaceInv
<1>4. StartInv' /\ CopyInv' /\ MountInv'
  BY <1>1 DEF StartInv, CopyInv, MountInv, InPod
<1>5. StrayInv'
  BY <1>1 DEF StrayInv
<1>6. \A w \in stray' : w.step # at \/ w.attempt # attempt'
  BY <1>1
<1>7. CommandsSeeMounts'
  BY <1>6, CommandsKept DEF MInv
<1>8. NamesAreKnown' /\ MountFailureHasReason'
  BY <1>1, <1>2 DEF NamesAreKnown, MountFailureHasReason
<1> QED BY <1>3, <1>4, <1>5, <1>7, <1>8 DEF MInv

\* An attempt that ends with an error is retried, or the run fails.
LEMMA EndAttemptKeeps ==
  ASSUME MInv, TypeOK', NEW reason, EndAttempt(reason), Explained(reason),
         UNCHANGED <<job, mode, at, stray, view, started>>,
         pc \in {"create", "copying", "mount", "finished"}, copying' = Plain
  PROVE  MInv'
<1>1. CASE Retry
  <2>1. \A w \in stray : w.step < at \/ (w.step = at /\ w.attempt < attempt)
    BY <1>1 DEF Retry, MInv, StrayInv
  <2>2. attempt \in Nat /\ \A w \in stray : w.attempt \in Nat
    BY AttemptAssumption DEF MInv, TypeOK
  <2>3. \A w \in stray' : w.step < at \/ (w.step = at /\ w.attempt <= attempt)
    BY <2>1, <2>2
  <2> QED BY <1>1, <2>3, RetryKeeps
<1>2. CASE Fail(reason) /\ UNCHANGED attempt
  BY <1>2, FailKeeps
<1> QED BY <1>1, <1>2 DEF EndAttempt

(***************************************************************************)
(* Before a pod is created.                                                *)
(***************************************************************************)

\* The initial state satisfies the invariant.
LEMMA InitMInv == Init => MInv
<1> SUFFICES ASSUME Init PROVE MInv
  OBVIOUS
<1>1. 1 \in DOMAIN job.steps
  BY JobAssumption DEF Init
<1>2. TypeOK
  <2>1. dst \in [Resources -> Paths]
    BY DEF Init, Paths, OnePerPod
  <2>2. attempt \in 1 .. MaxAttempts
    BY AttemptAssumption DEF Init
  <2>3. view \in Views
    BY DEF Init, Views, Unmounted
  <2> QED BY <2>1, <2>2, <2>3 DEF Init, TypeOK
<1>3. PlaceInv /\ StartInv
  BY <1>1 DEF Init, PlaceInv, StartInv
<1>4. CopyInv /\ StrayInv /\ MountInv
  BY DEF Init, CopyInv, StrayInv, MountInv, InPod
<1>5. CommandsSeeMounts
  BY DEF Init, CommandsSeeMounts
<1>6. NamesAreKnown /\ MountFailureHasReason
  BY DEF Init, NamesAreKnown, MountFailureHasReason
<1> QED BY <1>2, <1>3, <1>4, <1>5, <1>6 DEF MInv

\* A job the validator takes.
LEMMA ValidateKeeps ==
  ASSUME MInv, Validate
  PROVE  MInv'
<1>1. /\ pc = "validate" /\ pc' \in {"setup", "rejected"}
      /\ pc' = "setup" => ValidJob(job)
      /\ UNCHANGED <<job, mode, at, attempt, known, gathered, todo, dst, copying, stray,
                     content, next, view, started, why>>
  BY DEF Validate, jobVars, artifactVars, copyVars, podVars
<1>2. started = {} /\ why = <<"none">>
  BY <1>1 DEF MInv, StartInv, PlaceInv
<1>3. TypeOK'
  BY <1>1 DEF MInv, TypeOK
<1>4. PlaceInv' /\ StartInv'
  BY <1>1, <1>2 DEF MInv, PlaceInv, StartInv
<1>5. CopyInv' /\ StrayInv' /\ MountInv'
  BY <1>1 DEF MInv, CopyInv, StrayInv, MountInv, InPod
<1>6. CommandsSeeMounts'
  BY <1>1, <1>2, CommandsKept DEF MInv
<1>7. NamesAreKnown'
  BY <1>1, <1>2 DEF MInv, NamesAreKnown, PlaceInv
<1>8. MountFailureHasReason'
  BY <1>1, <1>2 DEF MountFailureHasReason
<1> QED BY <1>3, <1>4, <1>5, <1>6, <1>7, <1>8 DEF MInv

\* A token that CloneAll does not find is of a repository with a clonedPath.
LEMMA SetupKeeps ==
  ASSUME MInv, Setup
  PROVE  MInv'
<1>1. /\ pc = "setup" /\ copying = Plain /\ started = {} /\ why = <<"none">> /\ ValidJob(job)
      /\ UNCHANGED <<job, mode, at, attempt, known, gathered, todo, dst, copying, stray,
                     content, next, view, started>>
      /\ at \in DOMAIN job.steps
  BY DEF Setup, MInv, PlaceInv, StartInv, jobVars, artifactVars, copyVars, podVars
<1>2. pc' \in {"build", "failed"}
  BY DEF Setup, Fail
<1>3. TypeOK'
  BY <1>1, <1>2 DEF MInv, TypeOK
<1>4. CASE pc' = "build" /\ UNCHANGED why
  <2>1. PlaceInv' /\ StartInv'
    BY <1>1, <1>4 DEF PlaceInv, StartInv
  <2>2. CopyInv' /\ StrayInv' /\ MountInv'
    BY <1>1, <1>4 DEF MInv, CopyInv, StrayInv, MountInv, InPod
  <2>3. CommandsSeeMounts'
    BY <1>1, CommandsKept DEF MInv
  <2>4. NamesAreKnown' /\ MountFailureHasReason'
    BY <1>1, <1>4 DEF NamesAreKnown, MountFailureHasReason
  <2> QED BY <1>3, <2>1, <2>2, <2>3, <2>4 DEF MInv
<1>5. ASSUME NEW k \in DOMAIN job.repos, ~TokenKnown(job.repos[k]),
             Fail(<<"clone", job.repos[k]>>)
      PROVE  MInv'
  <2>1. job.repos[k].clonedPath = "set"
    BY <1>1, <1>5 DEF ValidJob, ValidRepos, ValidRepository, TokenKnown
  <2>2. Explained(<<"clone", job.repos[k]>>)
    BY <2>1 DEF Explained
  <2> QED BY <1>1, <1>3, <1>5, <2>2, FailKeeps
<1>6. CASE Fail(<<"io">>)
  <2>1. Explained(<<"io">>)
    BY DEF Explained
  <2> QED BY <1>1, <1>3, <1>6, <2>1, FailKeeps
<1> QED BY <1>4, <1>5, <1>6 DEF Setup

(***************************************************************************)
(* Building a step.                                                        *)
(***************************************************************************)

\* A resource that is copied is one the validator has looked at.
LEMMA CopiedIsValid ==
  ASSUME job \in Jobs, at \in DOMAIN job.steps, ValidJob(job), NEW r \in Copied(Step)
  PROVE  r \in Resources /\ ValidVolumeSource(job, at, r)
<1>1. WellFormed(Step) /\ r \in Used(Step)
  BY StepFacts, CopiedFacts
<1> QED BY <1>1, UsedFacts, ValidStepFacts

\* What a lookup misses is an artifact of an earlier step.
LEMMA MissingIsArtifact ==
  ASSUME job \in Jobs, at \in DOMAIN job.steps, ValidJob(job), Missing(Step) # {}
  PROVE  Explained(First(Missing(Step)))
<1> DEFINE r == First(Missing(Step))
<1>1. Missing(Step) \subseteq Copied(Step) /\ Copied(Step) \subseteq Resources
  BY CopiedIsValid DEF Missing
<1>2. r \in Missing(Step)
  BY <1>1, FirstIsMember
<1> HIDE DEF r
<1>3. ValidVolumeSource(job, at, r)
  BY <1>1, <1>2, CopiedIsValid
<1>4. r[1] = "artifact" /\ r[2] \in ArtifactNames(job, at)
  BY <1>2, <1>3 DEF Missing, ValidVolumeSource
<1>5. Explained(r)
  BY <1>4 DEF Explained
<1> QED BY <1>5 DEF r

\* A new pod has empty volumes and nothing has been started in it.
LEMMA BuildKeeps ==
  ASSUME MInv, Build
  PROVE  MInv'
<1>1. /\ pc = "build" /\ copying = Plain /\ why = <<"none">> /\ ValidJob(job)
      /\ job \in Jobs /\ at \in DOMAIN job.steps /\ attempt \in Nat
      /\ UNCHANGED <<job, mode, at, attempt, gathered>>
  BY AttemptAssumption DEF Build, MInv, TypeOK, PlaceInv, jobVars
<1>2. ASSUME NEW reason, Fail(reason), Explained(reason), UNCHANGED <<known, copyVars, podVars>>
      PROVE  MInv'
  <2>1. UNCHANGED <<known, todo, dst, copying, stray, content, next, view, started>>
    BY <1>2 DEF copyVars, podVars
  <2>2. TypeOK'
    BY <1>1, <1>2, <2>1 DEF MInv, TypeOK, Fail
  <2> QED BY <1>1, <1>2, <2>1, <2>2, FailKeeps
<1>3. CASE Fail(<<"io">>) /\ UNCHANGED <<known, copyVars, podVars>>
  BY <1>2, <1>3 DEF Explained
<1>4. CASE Fail(<<"main">>) /\ UNCHANGED <<known, copyVars, podVars>>
  BY <1>2, <1>4 DEF Explained
<1>5. CASE Missing(Step) # {} /\ Fail(First(Missing(Step))) /\ UNCHANGED <<known, copyVars, podVars>>
  BY <1>1, <1>2, <1>5, MissingIsArtifact
<1>6. ASSUME BuildJob(Step), pc' = "create", UNCHANGED why, known \subseteq known'
      PROVE  MInv'
  <2>1. /\ todo' = Copied(Step) /\ copying' = Plain /\ started' = {} /\ next' = 1
        /\ content' = [p \in Paths |-> "absent"]
        /\ view' = [f \in Roots |-> [p \in Points |-> Unmounted]]
        /\ stray' = stray
    BY <1>6 DEF BuildJob
  <2>2. PICK to : /\ \A r \in Copied(Step) : to[r] \in Destinations(Step, r)
                  /\ dst' = [r \in Resources |-> IF r \in Copied(Step) THEN to[r] ELSE dst[r]]
    BY <1>6 DEF BuildJob
  <2>3. Copied(Step) \subseteq Resources /\ WellFormed(Step)
    BY <1>1, CopiedIsValid, StepFacts
  <2>4. \A r \in Copied(Step) : dst'[r] \in Destinations(Step, r) /\ to[r] \in Paths
    BY <2>2, <2>3, DestinationFacts
  <2>5. dst' \in [Resources -> Paths]
    BY <2>2, <2>4 DEF MInv, TypeOK
  <2>6. TypeOK'
    <3>1. view' \in Views
      BY <2>1 DEF Views, Unmounted
    <3> QED BY <1>1, <1>6, <2>1, <2>3, <2>5, <3>1 DEF MInv, TypeOK
  <2>7. PlaceInv' /\ StartInv' /\ StrayInv' /\ MountInv'
    BY <1>1, <1>6, <2>1 DEF MInv, PlaceInv, StartInv, StrayInv, MountInv
  <2>8. CopyInv'
    <3>1. Step' = Step /\ Copied(Step)' = Copied(Step)
      BY <1>1, StepKept
    <3>2. \A p \in Paths : content'[p] # "partial"
      BY <2>1
    <3> QED BY <1>6, <2>1, <2>4, <3>1, <3>2 DEF CopyInv
  <2>9. CommandsSeeMounts'
    BY <2>1 DEF CommandsSeeMounts
  <2>10. NamesAreKnown' /\ MountFailureHasReason'
    BY <1>1, <1>6, <2>1 DEF NamesAreKnown, MountFailureHasReason
  <2> QED BY <2>6, <2>7, <2>8, <2>9, <2>10 DEF MInv
<1>7. CASE /\ BuildJob(Step) /\ pc' = "create" /\ UNCHANGED why
           /\ known \subseteq known'
  BY <1>6, <1>7
<1> QED BY <1>3, <1>4, <1>5, <1>7 DEF Build

\* The next step, or the export.
LEMMA SkipStepKeeps ==
  ASSUME MInv, SkipStep
  PROVE  MInv'
<1>1. /\ pc = "build" /\ attempt = 1 /\ at' = at + 1
      /\ pc' = IF at = Len(job.steps) THEN "export" ELSE "build"
      /\ UNCHANGED <<job, mode, attempt, known, gathered, todo, dst, copying, stray, content,
                     next, view, started, why>>
  BY DEF SkipStep, jobVars, artifactVars, copyVars, podVars
<1>2. /\ started = {} /\ why = <<"none">> /\ ValidJob(job) /\ copying = Plain
      /\ at \in DOMAIN job.steps /\ job \in Jobs /\ at \in Nat \ {0}
  BY <1>1 DEF MInv, StartInv, PlaceInv, TypeOK
<1>3. TypeOK'
  BY <1>1, <1>2 DEF MInv, TypeOK
<1>4. PlaceInv'
  BY <1>1, <1>2, JobAssumption DEF PlaceInv
<1>5. StartInv' /\ CopyInv' /\ MountInv'
  BY <1>1, <1>2 DEF StartInv, CopyInv, MountInv, InPod
<1>6. StrayInv'
  <2>1. \A w \in stray : w.step \in Nat
    BY DEF MInv, TypeOK
  <2>2. mode = "kubernetes" => \A w \in stray : w.step < at \/ w.step = at
    BY <1>1 DEF MInv, StrayInv
  <2>3. mode = "kubernetes" => \A w \in stray : w.step < at + 1
    BY <1>2, <2>1, <2>2
  <2> QED BY <1>1, <2>3 DEF StrayInv
<1>7. CommandsSeeMounts'
  BY <1>1, <1>2 DEF CommandsSeeMounts
<1>8. NamesAreKnown' /\ MountFailureHasReason'
  BY <1>1, <1>2 DEF NamesAreKnown, MountFailureHasReason
<1> QED BY <1>3, <1>4, <1>5, <1>6, <1>7, <1>8 DEF MInv

(***************************************************************************)
(* The copies.                                                             *)
(***************************************************************************)

\* The mounts begin with the first container.
LEMMA EntersMount ==
  ASSUME job \in Jobs, at \in DOMAIN job.steps, ValidJob(job), next = FirstMounted(Step),
         UNCHANGED <<job, mode, at, next>>, pc' = "mount"
  PROVE  MountInv'
<1>1. WellFormed(Step) /\ Containers(Step, "main") # {}
  BY StepFacts, ValidStepFacts
<1>2. /\ FirstMounted(Step) \in Mounting(Step) /\ FirstMounted(Step) \in Nat \ {0}
      /\ Mounting(Step) \subseteq Nat \ {0}
      /\ \A k \in Mounting(Step) : \A m \in Nat \ {0} : m <= k => m \in Mounting(Step)
  BY <1>1, FirstMountedFacts, MountingFacts
<1>3. Step' = Step /\ FirstMounted(Step)' = FirstMounted(Step)
  BY StepKept
<1>4. FirstMounted(Step) <= next /\ (next = 1 \/ next - 1 \in Mounting(Step))
  BY <1>2
<1>5. \A k \in Mounting(Step) : ~(FirstMounted(Step) <= k /\ k < next)
  BY <1>2
<1> QED BY <1>3, <1>4, <1>5 DEF MountInv

\* A pod that is not taken fails the run; another error may be retried.
LEMMA CreateKeeps ==
  ASSUME MInv, Create
  PROVE  MInv'
<1>1. /\ pc = "create" /\ copying = Plain /\ started = {} /\ why = <<"none">> /\ ValidJob(job)
      /\ UNCHANGED <<job, mode, at, known, gathered, todo, dst, copying, stray, content,
                     view, started>>
      /\ at \in DOMAIN job.steps /\ job \in Jobs
  BY DEF Create, MInv, PlaceInv, StartInv, TypeOK, jobVars, artifactVars, copyVars
<1>2. CASE /\ pc' = IF mode = "dryrun" THEN "run" ELSE "preinit"
           /\ next' = FirstMounted(Step)
           /\ UNCHANGED <<attempt, why>>
  <2>1. FirstMounted(Step) \in Nat \ {0}
    BY <1>1, StepFacts, ValidStepFacts, FirstMountedFacts
  <2>2. TypeOK'
    BY <1>1, <1>2, <2>1 DEF MInv, TypeOK
  <2>3. PlaceInv' /\ StartInv' /\ StrayInv'
    BY <1>1, <1>2 DEF MInv, PlaceInv, StartInv, StrayInv
  <2>4. Step' = Step /\ FirstMounted(Step)' = FirstMounted(Step) /\ Copied(Step)' = Copied(Step)
    BY <1>1, StepKept
  <2>5. CopyInv'
    BY <1>1, <1>2, <2>4 DEF MInv, CopyInv, InPod
  <2>6. MountInv'
    BY <1>1, <1>2, <2>4 DEF MountInv
  <2>7. CommandsSeeMounts'
    BY <1>1, CommandsKept DEF MInv
  <2>8. NamesAreKnown' /\ MountFailureHasReason'
    BY <1>1, <1>2 DEF NamesAreKnown, MountFailureHasReason
  <2> QED BY <2>2, <2>3, <2>5, <2>6, <2>7, <2>8 DEF MInv
<1>3. CASE Fail(<<"pod">>) /\ UNCHANGED <<attempt, next>>
  <2>1. TypeOK'
    BY <1>1, <1>3 DEF MInv, TypeOK, Fail
  <2>2. Explained(<<"pod">>)
    BY DEF Explained
  <2> QED BY <1>1, <1>3, <2>1, <2>2, FailKeeps
<1>4. CASE EndAttempt(<<"job">>) /\ UNCHANGED next
  <2>1. TypeOK'
    BY <1>1, <1>4, AttemptAssumption DEF MInv, TypeOK, EndAttempt, Retry, Fail
  <2>2. Explained(<<"job">>)
    BY DEF Explained
  <2> QED BY <1>1, <1>4, <2>1, <2>2, EndAttemptKeeps
<1> QED BY <1>2, <1>3, <1>4 DEF Create

\* A log or a report is copied in a poststep only.
LEMMA StartCopyKeeps ==
  ASSUME MInv, StartCopy
  PROVE  MInv'
<1>1. /\ pc = "preinit" /\ pc' = "copying" /\ copying' = First(todo) /\ todo # {}
      /\ UNCHANGED <<job, mode, at, attempt, known, gathered, todo, dst, stray, content,
                     next, view, started, why>>
  BY DEF StartCopy, jobVars, artifactVars, podVars
<1>2. /\ ValidJob(job) /\ job \in Jobs /\ at \in DOMAIN job.steps /\ started = {}
      /\ why = <<"none">> /\ todo \subseteq Resources /\ todo \subseteq Copied(Step)
  BY <1>1 DEF MInv, PlaceInv, StartInv, TypeOK, CopyInv, InPod
<1>3. copying' \in todo
  BY <1>1, <1>2, FirstIsMember
<1>4. TypeOK'
  BY <1>1, <1>3 DEF MInv, TypeOK
<1>5. PlaceInv' /\ StartInv' /\ StrayInv'
  <2>1. copying' # Plain
    BY <1>2, <1>3, ResourceAssumption DEF Plain
  <2> QED BY <1>1, <1>2, <2>1 DEF MInv, PlaceInv, StartInv, StrayInv
<1>6. CopyInv'
  <2>1. Step' = Step /\ Copied(Step)' = Copied(Step)
    BY <1>1, StepKept
  <2> QED BY <1>1, <2>1 DEF MInv, CopyInv, InPod
<1>7. MountInv' /\ CommandsSeeMounts'
  BY <1>1, <1>2, MountKept, CommandsKept DEF MInv
<1>8. NamesAreKnown'
  <2>1. ValidVolumeSource(job, at, copying')
    BY <1>2, <1>3, CopiedIsValid
  <2>2. SourceExists(copying)'
    BY <1>1, <2>1 DEF SourceExists, ValidVolumeSource, OnePerPod, Step
  <2> QED BY <1>1, <1>2, <2>2 DEF NamesAreKnown
<1>9. MountFailureHasReason'
  BY <1>1, <1>2 DEF MountFailureHasReason
<1> QED BY <1>4, <1>5, <1>6, <1>7, <1>8, <1>9 DEF MInv

\* The source of a copy is whole, since every token has a source.
LEMMA SourceIsWhole ==
  ASSUME ValidJob(job), NEW r
  PROVE  SourceContent(r) = "whole"
<1>1. \A k \in DOMAIN job.tokens : job.tokens[k].sources # {}
  <2>1. \A k \in DOMAIN job.tokens : Cardinality(job.tokens[k].sources) = 1
    BY DEF ValidJob, ValidTokens
  <2>2. Cardinality({}) = 0
    BY FS_EmptySet
  <2>3. ASSUME NEW k \in DOMAIN job.tokens, job.tokens[k].sources = {} PROVE FALSE
    <3>1. Cardinality(job.tokens[k].sources) = 0
      BY <2>2, <2>3, Zenon
    <3>2. Cardinality(job.tokens[k].sources) = 1
      BY <2>1
    <3> QED BY <3>1, <3>2
  <2> QED BY <2>3
<1> QED BY <1>1 DEF SourceContent

\* A copy leaves the whole resource at its path.
LEMMA CopyEndsKeeps ==
  ASSUME MInv, CopyEnds
  PROVE  MInv'
<1>1. /\ pc = "copying" /\ pc' = "preinit" /\ copying' = Plain
      /\ todo' = todo \ {copying}
      /\ content' = [content EXCEPT ![dst[copying]] = SourceContent(copying)]
      /\ UNCHANGED <<job, mode, at, attempt, known, gathered, dst, stray, next, view, started, why>>
  BY DEF CopyEnds, jobVars, artifactVars, podVars
<1>2. /\ ValidJob(job) /\ job \in Jobs /\ at \in DOMAIN job.steps /\ started = {}
      /\ why = <<"none">> /\ copying \in todo /\ todo \subseteq Resources
      /\ dst \in [Resources -> Paths] /\ content \in [Paths -> {"absent", "partial", "whole"}]
  BY <1>1 DEF MInv, PlaceInv, StartInv, TypeOK
<1>3. /\ dst[copying] \in Paths
      /\ content' = [content EXCEPT ![dst[copying]] = "whole"]
  BY <1>1, <1>2, SourceIsWhole
<1>4. TypeOK'
  BY <1>1, <1>2, <1>3 DEF MInv, TypeOK
<1>5. PlaceInv' /\ StartInv' /\ StrayInv'
  BY <1>1, <1>2 DEF MInv, PlaceInv, StartInv, StrayInv
<1>6. CopyInv'
  <2>1. Step' = Step /\ Copied(Step)' = Copied(Step)
    BY <1>1, StepKept
  <2>2. Copied(Step) \subseteq Resources
    BY <1>2, CopiedIsValid
  <2>3. mode = "kubernetes" =>
          /\ \A p \in Paths : content'[p] # "partial"
          /\ \A r \in Copied(Step) \ todo' : content'[dst[r]] = "whole"
    BY <1>1, <1>2, <1>3, <2>2 DEF MInv, CopyInv, InPod
  <2> QED BY <1>1, <2>1, <2>3 DEF MInv, CopyInv, InPod
<1>7. MountInv' /\ CommandsSeeMounts'
  BY <1>1, <1>2, MountKept, CommandsKept DEF MInv
<1>8. NamesAreKnown' /\ MountFailureHasReason'
  BY <1>1, <1>2 DEF NamesAreKnown, MountFailureHasReason
<1> QED BY <1>4, <1>5, <1>6, <1>7, <1>8 DEF MInv

\* The local mode goes on after an error of the callback.
LEMMA DroppedErrorKeeps ==
  ASSUME MInv, TypeOK', mode = "local", pc = "copying", pc' = "mount", copying' = Plain,
         UNCHANGED <<job, mode, at, attempt, todo, next, view, started, why>>
  PROVE  MInv'
<1>1. /\ ValidJob(job) /\ job \in Jobs /\ at \in DOMAIN job.steps /\ started = {}
      /\ why = <<"none">>
  BY DEF MInv, PlaceInv, StartInv, TypeOK
<1>2. PlaceInv' /\ StartInv' /\ StrayInv'
  BY <1>1 DEF PlaceInv, StartInv, StrayInv
<1>3. Step' = Step /\ Copied(Step)' = Copied(Step)
  BY StepKept
<1>4. CopyInv'
  BY <1>3 DEF MInv, CopyInv, InPod
<1>5. MountInv'
  BY <1>1, EntersMount DEF MInv, MountInv
<1>6. CommandsSeeMounts'
  BY <1>1, CommandsKept DEF MInv
<1>7. NamesAreKnown' /\ MountFailureHasReason'
  BY <1>1 DEF NamesAreKnown, MountFailureHasReason
<1> QED BY <1>2, <1>4, <1>5, <1>6, <1>7 DEF MInv

\* A copy that fails ends the attempt.
LEMMA CopyFailsKeeps ==
  ASSUME MInv, CopyFails
  PROVE  MInv'
<1>1. /\ pc = "copying" /\ copying' = Plain /\ PreInitError
      /\ \E left \in {content[dst[copying]], "partial"} :
           content' = [content EXCEPT ![dst[copying]] = left]
      /\ UNCHANGED <<job, mode, at, known, gathered, todo, dst, stray, next, view, started>>
  BY DEF CopyFails, jobVars, artifactVars, podVars
<1>2. content' \in [Paths -> {"absent", "partial", "whole"}]
  <2>1. /\ copying \in Resources /\ dst[copying] \in Paths
        /\ content \in [Paths -> {"absent", "partial", "whole"}]
    BY <1>1 DEF MInv, TypeOK, PlaceInv
  <2> QED BY <1>1, <2>1
<1>3. CASE mode = "local"
  <2>1. pc' = "mount" /\ UNCHANGED <<attempt, why>>
    BY <1>1, <1>3 DEF PreInitError
  <2>2. TypeOK'
    BY <1>1, <1>2, <2>1 DEF MInv, TypeOK
  <2> QED BY <1>1, <1>3, <2>1, <2>2, DroppedErrorKeeps
<1>4. CASE mode # "local"
  <2>1. EndAttempt(<<"preinit">>)
    BY <1>1, <1>4 DEF PreInitError
  <2>2. TypeOK'
    BY <1>1, <1>2, <2>1, AttemptAssumption DEF MInv, TypeOK, EndAttempt, Retry, Fail
  <2>3. Explained(<<"preinit">>)
    BY DEF Explained
  <2> QED BY <1>1, <2>1, <2>2, <2>3, EndAttemptKeeps
<1> QED BY <1>3, <1>4

\* A copy that is given up can only write into a pod that is given up as well.
LEMMA CopyTimesOutKeeps ==
  ASSUME MInv, CopyTimesOut
  PROVE  MInv'
<1> DEFINE w0 == [step |-> at, attempt |-> attempt, source |-> copying, path |-> dst[copying]]
<1>1. /\ pc = "copying" /\ copying' = Plain /\ PreInitError /\ stray' = stray \cup {w0}
      /\ UNCHANGED <<job, mode, at, known, gathered, todo, dst, content, next, view, started>>
  BY DEF CopyTimesOut, jobVars, artifactVars, podVars
<1>2. /\ started = {} /\ at \in Nat /\ attempt \in Nat /\ \A w \in stray : w.attempt \in Nat
  BY <1>1, AttemptAssumption DEF MInv, StartInv, TypeOK
<1>3. w0 \in [step : Nat, attempt : 1 .. MaxAttempts, source : Resources, path : Paths]
  <2>1. copying \in Resources /\ dst[copying] \in Paths
    BY <1>1 DEF MInv, TypeOK, PlaceInv
  <2> QED BY <1>2, <2>1 DEF MInv, TypeOK
<1>4. w0.step = at /\ w0.attempt = attempt
  OBVIOUS
<1> HIDE DEF w0
<1>5. CASE mode = "local"
  <2>1. pc' = "mount" /\ UNCHANGED <<attempt, why>>
    BY <1>1, <1>5 DEF PreInitError
  <2>2. TypeOK'
    BY <1>1, <1>3, <2>1 DEF MInv, TypeOK
  <2> QED BY <1>1, <1>5, <2>1, <2>2, DroppedErrorKeeps
<1>6. CASE mode # "local"
  <2>1. EndAttempt(<<"preinit">>)
    BY <1>1, <1>6 DEF PreInitError
  <2>2. TypeOK'
    BY <1>1, <1>3, <2>1, AttemptAssumption DEF MInv, TypeOK, EndAttempt, Retry, Fail
  <2>3. CASE Retry
    <3>1. \A w \in stray : w.step < at \/ (w.step = at /\ w.attempt < attempt)
      BY <1>1, <2>3 DEF Retry, MInv, StrayInv
    <3>2. \A w \in stray' : w.step < at \/ (w.step = at /\ w.attempt <= attempt)
      BY <1>1, <1>2, <1>4, <3>1
    <3> QED BY <1>1, <2>2, <2>3, <3>2, RetryKeeps
  <2>4. CASE Fail(<<"preinit">>) /\ UNCHANGED attempt
    <3>1. Explained(<<"preinit">>)
      BY DEF Explained
    <3> QED BY <1>1, <1>2, <2>2, <2>4, <3>1, FailKeeps
  <2> QED BY <2>1, <2>3, <2>4 DEF EndAttempt
<1> QED BY <1>5, <1>6

\* A stray copy writes nothing into a pod of a cluster that is still in use.
LEMMA StrayEndsKeeps ==
  ASSUME MInv, StrayEnds
  PROVE  MInv'
<1>1. PICK w \in stray :
        /\ stray' = stray \ {w}
        /\ \/ UNCHANGED content
           \/ /\ w.step = at /\ w.attempt = attempt
              /\ \E left \in {"partial", SourceContent(w.source)} :
                   content' = [content EXCEPT ![w.path] = left]
  BY DEF StrayEnds
<1>2. UNCHANGED <<job, mode, pc, at, attempt, known, gathered, todo, dst, copying, next, view,
                  started, why>>
  BY DEF StrayEnds, jobVars, artifactVars, podVars
<1>3. content' \in [Paths -> {"absent", "partial", "whole"}]
  <2>1. /\ w.path \in Paths
        /\ content \in [Paths -> {"absent", "partial", "whole"}]
    BY DEF MInv, TypeOK
  <2>2. SourceContent(w.source) \in {"partial", "whole"}
    BY DEF SourceContent
  <2> QED BY <1>1, <2>1, <2>2
<1>4. TypeOK'
  BY <1>1, <1>2, <1>3 DEF MInv, TypeOK
<1>5. PlaceInv' /\ StartInv' /\ StrayInv'
  BY <1>1, <1>2 DEF MInv, PlaceInv, StartInv, StrayInv
<1>6. CopyInv'
  <2>1. Step' = Step /\ Copied(Step)' = Copied(Step)
    BY <1>2, StepKept
  <2>2. at \in Nat /\ attempt \in Nat
    BY AttemptAssumption DEF MInv, TypeOK
  <2>3. mode = "kubernetes" /\ pc \in InPod => content' = content
    BY <1>1, <2>2 DEF MInv, StrayInv, InPod
  <2> QED BY <1>2, <2>1, <2>3 DEF MInv, CopyInv
<1>7. MountInv' /\ CommandsSeeMounts'
  BY <1>1, <1>2, MountKept, CommandsKept DEF MInv, InPod
<1>8. Step' = Step
  BY <1>2, StepKept
<1>9. NamesAreKnown' /\ MountFailureHasReason'
  BY <1>2, <1>8, BelowFileKept DEF MInv, NamesAreKnown, MountFailureHasReason, Split, SourceExists
<1> QED BY <1>4, <1>5, <1>6, <1>7, <1>9 DEF MInv

\* When nothing is left to copy, the mounts begin.
LEMMA EndPreInitKeeps ==
  ASSUME MInv, EndPreInit
  PROVE  MInv'
<1>1. /\ pc = "preinit" /\ todo = {} /\ pc' = "mount"
      /\ UNCHANGED <<job, mode, at, attempt, known, gathered, todo, dst, copying, stray, content,
                     next, view, started, why>>
  BY DEF EndPreInit, jobVars, artifactVars, copyVars, podVars
<1>2. /\ ValidJob(job) /\ job \in Jobs /\ at \in DOMAIN job.steps /\ started = {}
      /\ why = <<"none">> /\ copying = Plain /\ next = FirstMounted(Step)
  BY <1>1 DEF MInv, PlaceInv, StartInv, TypeOK, MountInv
<1>3. TypeOK'
  BY <1>1 DEF MInv, TypeOK
<1>4. PlaceInv' /\ StartInv' /\ StrayInv'
  BY <1>1, <1>2 DEF MInv, PlaceInv, StartInv, StrayInv
<1>5. Step' = Step /\ Copied(Step)' = Copied(Step)
  BY <1>1, StepKept
<1>6. CopyInv'
  BY <1>1, <1>5 DEF MInv, CopyInv, InPod
<1>7. MountInv' /\ CommandsSeeMounts'
  BY <1>1, <1>2, EntersMount, CommandsKept DEF MInv
<1>8. NamesAreKnown' /\ MountFailureHasReason'
  BY <1>1, <1>2 DEF NamesAreKnown, MountFailureHasReason
<1> QED BY <1>3, <1>4, <1>6, <1>7, <1>8 DEF MInv

(***************************************************************************)
(* The mounts.                                                             *)
(***************************************************************************)

\* In a cluster nothing fits but what is whole, and a mount that does not fit is of a
\* resource that was copied to where another container mounts it.
LEMMA ClusterMount ==
  ASSUME MInv, pc = "mount", mode = "kubernetes",
         NEW k \in Mounting(Step), NEW m \in Served(Step, k)
  PROVE  /\ CanMount(Step, k, m) => content[PathOf(Step, k, m)] = "whole"
         /\ ~CanMount(Step, k, m) => Split(Step, MountSource(Step, k, m))
<1> DEFINE r == MountSource(Step, k, m)
           p == PathOf(Step, k, m)
<1>1. job \in Jobs /\ at \in DOMAIN job.steps
  BY DEF MInv, TypeOK, PlaceInv
<1>2. WellFormed(Step) /\ k \in DOMAIN Step.containers
  BY <1>1, StepFacts, MountingFacts
<1>3. p \in Paths
  BY <1>2, ServedFacts
<1>4. /\ content \in [Paths -> {"absent", "partial", "whole"}]
      /\ content[p] # "partial" /\ todo = {}
  BY <1>3 DEF MInv, TypeOK, CopyInv, InPod
<1>5. CanMount(Step, k, m) => content[p] = "whole"
  BY <1>4 DEF CanMount
<1>6. ASSUME ~CanMount(Step, k, m) PROVE Split(Step, r)
  <2>1. r \in Copied(Step)
    BY DEF Copied, Used, UsedIn, UsedBy, Mounting
  <2>2. content[dst[r]] = "whole" /\ dst[r] \in Destinations(Step, r)
    BY <1>4, <2>1 DEF MInv, CopyInv, InPod
  <2>3. PICK n \in DOMAIN Step.containers : \E j \in Served(Step, n) :
          MountSource(Step, n, j) = r /\ PathOf(Step, n, j) = dst[r]
    BY <1>2, <2>2, DestinationFacts
  <2>4. p # dst[r]
    BY <1>6, <2>2 DEF CanMount
  <2> QED BY <1>2, <2>3, <2>4 DEF Split
<1> QED BY <1>5, <1>6

\* Of some of a container's mounts there is one that is unpacked last.
LEMMA LastOfFacts ==
  ASSUME NEW s, WellFormed(s), NEW k \in DOMAIN s.containers, NEW order \in Orders(s, k),
         NEW M \in SUBSET Served(s, k), M # {}
  PROVE  /\ LastOf(order, M) \in M
         /\ \A n \in M : order[n] <= order[LastOf(order, M)]
<1> DEFINE N == Cardinality(Served(s, k))
           T == {N - order[m] : m \in M}
<1>1. IsFiniteSet(Served(s, k)) /\ N \in Nat
  <2>1. Len(s.containers[k].mounts) \in Int
    BY DEF WellFormed
  <2>3. IsFiniteSet(1 .. Len(s.containers[k].mounts))
    BY <2>1, FS_Interval
  <2>2. Served(s, k) \in SUBSET (1 .. Len(s.containers[k].mounts))
    BY DEF WellFormed, Served
  <2> QED BY <2>2, <2>3, FS_Subset, FS_CardinalityType
<1>2. \A m \in M : order[m] \in 1 .. N
  BY DEF Orders, Bijection, Injection
<1>3. T \subseteq Nat /\ T # {}
  BY <1>1, <1>2
<1>4. PICK x \in T : \A y \in T : x <= y
  BY <1>3, SmallestNumber
<1>5. PICK m \in M : x = N - order[m]
  BY <1>4
<1>6. ASSUME NEW n \in M PROVE order[n] <= order[m]
  <2>1. N - order[m] <= N - order[n]
    BY <1>4, <1>5
  <2> QED BY <1>1, <1>2, <2>1
<1> QED BY <1>5, <1>6 DEF LastOf

\* A point stays as it was, or the last mount that decides about it does.
LEMMA UnpackedFacts ==
  ASSUME NEW s, WellFormed(s), NEW k \in DOMAIN s.containers, NEW order \in Orders(s, k),
         NEW diverted, NEW p
  PROVE  \/ /\ Decide(s, k, diverted, p) = {}
            /\ Unpacked(s, k, order, diverted, p) = view[Root(s, k)][p]
         \/ \E m \in Decide(s, k, diverted, p) :
              /\ \A n \in Decide(s, k, diverted, p) : order[n] <= order[m]
              /\ Unpacked(s, k, order, diverted, p) = Unpack(s, k, m, p)
<1>1. Decide(s, k, diverted, p) \in SUBSET Served(s, k)
  BY DEF Decide
<1> QED BY <1>1, LastOfFacts DEF Unpacked

\* What is unpacked is a resource, or a part of one.
LEMMA UnpackedType ==
  ASSUME MInv, NEW k \in DOMAIN Step.containers, WellFormed(Step),
         NEW order \in Orders(Step, k), NEW diverted, NEW p \in Points
  PROVE  Unpacked(Step, k, order, diverted, p)
           \in (Resources \cup {Plain}) \X {"absent", "partial", "whole"}
<1>1. Root(Step, k) \in Roots /\ view \in Views
      /\ content \in [Paths -> {"absent", "partial", "whole"}]
  BY DEF MInv, TypeOK, Root, Roots, WellFormed
<1>2. view[Root(Step, k)][p] \in (Resources \cup {Plain}) \X {"absent", "partial", "whole"}
  BY <1>1 DEF Views
<1>3. ASSUME NEW m \in Served(Step, k)
      PROVE  Unpack(Step, k, m, p) \in (Resources \cup {Plain}) \X {"absent", "partial", "whole"}
  <2>1. MountSource(Step, k, m) \in Resources /\ PathOf(Step, k, m) \in Paths
    BY ServedFacts
  <2> QED BY <1>1, <2>1 DEF Unpack, Unmounted
<1>4. Decide(Step, k, diverted, p) \subseteq Served(Step, k)
  BY DEF Decide
<1> QED BY <1>2, <1>3, <1>4, UnpackedFacts

\* A mount that comes after u and decides about its point disturbs u, or brings the same.
LEMMA LaterDisturbs ==
  ASSUME NEW s, NEW k \in Mounting(s), FirstMounted(s) <= k, NEW u, NEW diverted,
         NEW m \in Decide(s, k, diverted, Point(s, u)), MayFollow(s, <<k, m>>, u)
  PROVE  \/ Disturbed(s, u)
         \/ Unpack(s, k, m, Point(s, u))
              = <<MountSource(s, u[1], u[2]), content[PathOf(s, k, m)]>>
<1>1. /\ m \in Served(s, k)
      /\ Inside(s, u, <<k, m>>)
      /\ KindOf(s, <<k, m>>) \in Trees \/ Point(s, <<k, m>>) = Point(s, u)
  BY DEF Decide, Inside
<1>2. <<k, m>> \in Unpackable(s)
  BY <1>1 DEF Unpackable
<1>3. CASE Alike(s, u, <<k, m>>)
  BY <1>3 DEF Alike, Unpack
<1>4. CASE ~Alike(s, u, <<k, m>>)
  BY <1>1, <1>2, <1>4 DEF Disturbed, Removes
<1> QED BY <1>3, <1>4

\* A container that has got its mounts has them after another one's are unpacked, and the
\* next one has its own.
LEMMA SeenAfter ==
  ASSUME MInv, pc = "mount", NEW c \in Mounting(Step), FirstMounted(Step) <= c,
         MountsFit(Step, c),
         NEW order \in Orders(Step, c), NEW diverted \in SUBSET Divertible(Step, c),
         view' = [view EXCEPT ![Root(Step, c)] =
                    [p \in Points |-> Unpacked(Step, c, order, diverted, p)]],
         UNCHANGED <<job, mode, at>>,
         NEW k \in Mounting(Step), k = c \/ Seen(k), k = c \/ mode # "local" \/ k < c
  PROVE  Seen(k)'
<1>1. job \in Jobs /\ at \in DOMAIN job.steps
  BY DEF MInv, TypeOK, PlaceInv
<1>2. WellFormed(Step) /\ Mounting(Step) \subseteq DOMAIN Step.containers
  BY <1>1, StepFacts, MountingFacts
<1>3. Step' = Step /\ Root(Step, k)' = Root(Step, k)
  BY StepKept DEF Root
<1> SUFFICES ASSUME NEW m \in Served(Step, k), ~Disturbed(Step, <<k, m>>)
             PROVE  \E found \in {"partial", "whole"} :
                      /\ view'[Root(Step, k)][Point(Step, <<k, m>>)]
                           = <<MountSource(Step, k, m), found>>
                      /\ mode = "kubernetes" => found = "whole"
  BY <1>3, DisturbedKept DEF Seen
<1> DEFINE u == <<k, m>>
           p == Point(Step, u)
           here == Decide(Step, c, diverted, p)
<1>4. /\ view \in Views
      /\ Root(Step, k) \in Roots /\ Root(Step, c) \in Roots
      /\ p \in Points /\ m \in DOMAIN Step.containers[k].mounts
  BY <1>2 DEF MInv, TypeOK, Root, Roots, WellFormed, Served, Point
<1>5. CASE k # c /\ (Root(Step, k) # Root(Step, c) \/ here = {})
  <2>1. view'[Root(Step, k)][p] = view[Root(Step, k)][p]
    BY <1>2, <1>4, <1>5, UnpackedFacts DEF Views
  <2> QED BY <1>5, <2>1 DEF Seen
<1>6. CASE k = c \/ (Root(Step, k) = Root(Step, c) /\ here # {})
  <2>1. Root(Step, k) = Root(Step, c)
    BY <1>6
  <2>2. view'[Root(Step, k)][p] = Unpacked(Step, c, order, diverted, p)
    BY <1>4, <2>1 DEF Views
  <2>3. k = c => m \in here
    <3>1. k = c => m \notin diverted
      BY DEF Divertible, Disturbed
    <3> QED BY <1>4, <3>1, PointAssumption DEF Decide
  <2>4. PICK last \in here : /\ \A n \in here : order[n] <= order[last]
                             /\ view'[Root(Step, k)][p] = Unpack(Step, c, last, p)
    BY <1>2, <1>6, <2>2, <2>3, UnpackedFacts
  <2>5. last \in Served(Step, c) /\ CanMount(Step, c, last)
    BY DEF Decide, MountsFit
  <2>6. view'[Root(Step, k)][p] = <<MountSource(Step, k, m), content[PathOf(Step, c, last)]>>
    <3>1. CASE k = c /\ last = m
      BY <2>4, <3>1 DEF Unpack
    <3>2. CASE k = c /\ last # m
      <4>1. order[m] < order[last]
        <5>1. order[m] # order[last] /\ order[m] <= order[last]
          BY <2>3, <2>4, <2>5, <3>2 DEF Orders, Bijection, Injection, IsInjective
        <5>2. order[m] \in Int /\ order[last] \in Int
          BY <2>5, <3>2 DEF Orders, Bijection, Injection
        <5> QED BY <5>1, <5>2
      <4>2. MayFollow(Step, <<c, last>>, u)
        BY <2>5, <3>2, <4>1 DEF Orders
      <4> QED BY <2>4, <4>2, LaterDisturbs
    <3>3. CASE k # c
      <4>1. mode = "local"
        BY <1>2, <2>1, <3>3 DEF Root, WellFormed, NoDuplicate
      <4>2. MayFollow(Step, <<c, last>>, u)
        BY <3>3, <4>1 DEF MayFollow
      <4> QED BY <2>4, <4>2, LaterDisturbs
    <3> QED BY <3>1, <3>2, <3>3
  <2>7. content[PathOf(Step, c, last)] \in {"partial", "whole"}
    BY <2>5 DEF CanMount
  <2>8. mode = "kubernetes" => content[PathOf(Step, c, last)] = "whole"
    BY <2>5, ClusterMount
  <2> QED BY <2>6, <2>7, <2>8
<1> QED BY <1>5, <1>6

\* A container gets all its mounts before its command starts.
LEMMA MountSucceeds ==
  ASSUME MInv, pc = "mount", NEW c \in Mounting(Step), next = c, MountsFit(Step, c),
         NEW order \in Orders(Step, c), NEW diverted \in SUBSET Divertible(Step, c),
         view' = [view EXCEPT ![Root(Step, c)] =
                    [p \in Points |-> Unpacked(Step, c, order, diverted, p)]],
         StartInit(Step.containers[c]), next' = next + 1,
         UNCHANGED <<job, mode, pc, at, attempt, known, gathered, todo, dst, copying, stray,
                     content, why>>
  PROVE  MInv'
<1> DEFINE name == Step.containers[c].name
<1>1. /\ job \in Jobs /\ at \in DOMAIN job.steps /\ c \in Nat \ {0} /\ copying = Plain
      /\ at \in Nat /\ attempt \in Nat /\ why = <<"none">>
  BY AttemptAssumption DEF MInv, TypeOK, PlaceInv
<1>2. /\ WellFormed(Step) /\ Mounting(Step) \subseteq DOMAIN Step.containers
      /\ Mounting(Step) \subseteq Nat
  BY <1>1, StepFacts, MountingFacts
<1>3. name \in Names
  BY <1>2 DEF WellFormed
<1>4. FirstMounted(Step) <= c /\ FirstMounted(Step) \in Nat
  BY <1>1, <1>2, ValidStepFacts, FirstMountedFacts DEF MInv, MountInv, PlaceInv
<1>5. view \in Views /\ started \subseteq Names /\ Root(Step, c) \in Roots
  BY <1>3 DEF MInv, TypeOK, Root, Roots
<1>6. started \subseteq started' /\ started' \subseteq started \cup {name}
  BY DEF StartInit
<1>7. TypeOK'
  <2>1. \A p \in Points : Unpacked(Step, c, order, diverted, p)
                             \in (Resources \cup {Plain}) \X {"absent", "partial", "whole"}
    BY <1>2, UnpackedType
  <2>3. view' \in Views
    BY <1>5, <2>1 DEF Views
  <2>2. started' \subseteq Names
    BY <1>3, <1>5, <1>6
  <2> QED BY <1>1, <2>3, <2>2 DEF MInv, TypeOK
<1>8. Step' = Step /\ FirstMounted(Step)' = FirstMounted(Step) /\ Copied(Step)' = Copied(Step)
  BY StepKept
<1>9. ASSUME NEW k \in Mounting(Step), k = c \/ Seen(k), k = c \/ mode # "local" \/ k < c
      PROVE  Seen(k)'
  BY <1>9, <1>4, SeenAfter
<1>10. ASSUME NEW k \in Mounting(Step), k # c
       PROVE  Step.containers[k].name # name
  BY <1>2, <1>10 DEF WellFormed, NoDuplicate
<1>11. PlaceInv' /\ StartInv' /\ StrayInv'
  <2>1. mode # "kubernetes" => started' = {}
    BY <1>1, <1>2, <1>4, ValidStepFacts, FirstMountedFacts DEF MInv, PlaceInv, StartInv, StartInit
  <2> QED BY <2>1 DEF MInv, PlaceInv, StartInv, StrayInv
<1>12. CopyInv'
  BY <1>8 DEF MInv, CopyInv, InPod
<1>13. MountInv'
  <2>1. next' - 1 \in Mounting(Step)
    BY <1>1
  <2>2. ASSUME mode # "dryrun", NEW k \in Mounting(Step), FirstMounted(Step) <= k, k < next'
        PROVE  Seen(k)'
    <3>1. CASE k = c
      BY <1>9, <3>1
    <3>2. CASE k # c
      <4>1. k < next
        BY <1>1, <1>2, <2>2, <3>2
      <4>2. Seen(k)
        BY <2>2, <4>1 DEF MInv, MountInv
      <4> QED BY <1>9, <3>2, <4>1, <4>2
    <3> QED BY <3>1, <3>2
  <2>3. \A k \in Mounting(Step) : mode # "dryrun" /\ FirstMounted(Step) <= k /\ k < next' => Seen(k)'
    BY <2>2
  <2> HIDE DEF name
  <2>4. FirstMounted(Step) <= next'
    BY <1>1, <1>8, <1>4
  <2> QED BY <1>8, <2>1, <2>3, <2>4 DEF MountInv
<1>14. CommandsSeeMounts'
  <2> SUFFICES ASSUME mode # "dryrun", NEW k \in Mounting(Step),
                      Step.containers[k].name \in started'
               PROVE  /\ Seen(k)'
                      /\ mode = "kubernetes" => \A w \in stray : w.step # at \/ w.attempt # attempt
    BY <1>8 DEF CommandsSeeMounts
  <2>1. Seen(k)'
    <3>1. CASE k = c
      BY <1>9, <3>1
    <3>2. CASE k # c
      <4>1. Step.containers[k].name \in started
        BY <1>6, <1>10, <3>2
      <4>2. at <= Len(job.steps)
        BY <1>1, StepFacts
      <4>3. Seen(k)
        BY <4>1, <4>2 DEF MInv, CommandsSeeMounts
      <4>4. mode # "local"
        BY <4>1 DEF MInv, StartInv
      <4> QED BY <1>9, <3>2, <4>3, <4>4
    <3> QED BY <3>1, <3>2
  <2>2. mode = "kubernetes" => \A w \in stray : w.step # at \/ w.attempt # attempt
    BY <1>1 DEF MInv, StrayInv
  <2> QED BY <2>1, <2>2
<1>15. NamesAreKnown' /\ MountFailureHasReason'
  BY <1>1 DEF NamesAreKnown, MountFailureHasReason
<1> QED BY <1>7, <1>11, <1>12, <1>13, <1>14, <1>15 DEF MInv

\* A mount that fails ends the attempt.
LEMMA MountContainerKeeps ==
  ASSUME MInv, MountContainer
  PROVE  MInv'
<1>1. /\ pc = "mount" /\ next \in Mounting(Step) /\ copying = Plain
      /\ UNCHANGED <<job, mode, at, known, gathered, todo, dst, copying, stray, content>>
  BY DEF MountContainer, MInv, PlaceInv, jobVars, artifactVars, copyVars
<1>2. ASSUME NEW reason, EndAttempt(reason), Explained(reason), UNCHANGED podVars
      PROVE  MInv'
  <2>1. UNCHANGED <<next, view, started>>
    BY <1>2 DEF podVars
  <2>2. TypeOK'
    BY <1>1, <1>2, <2>1, AttemptAssumption DEF MInv, TypeOK, EndAttempt, Retry, Fail
  <2> QED BY <1>1, <1>2, <2>1, <2>2, EndAttemptKeeps
<1>3. CASE /\ UnpackMounts(Step, next)
           /\ StartInit(Step.containers[next])
           /\ next' = next + 1
           /\ UNCHANGED <<pc, attempt, why>>
  BY <1>1, <1>3, MountSucceeds DEF UnpackMounts
<1>4. ASSUME NEW m \in Served(Step, next),
             \/ ~CanMount(Step, next, m)
             \/ \E v \in Unpackable(Step) : Stops(Step, v, <<next, m>>),
             EndAttempt(<<"mount", MountSource(Step, next, m)>>), UNCHANGED podVars
      PROVE  MInv'
  <2>1. Explained(<<"mount", MountSource(Step, next, m)>>)
    <3> DEFINE r == MountSource(Step, next, m)
    <3>1. ASSUME mode = "kubernetes", NEW v \in Unpackable(Step), Stops(Step, v, <<next, m>>)
          PROVE  BelowFile(Step, r)
      <4>1. FirstMounted(Step) <= next
        BY <1>1, <3>1 DEF MInv, MountInv
      <4>2. <<next, m>> \in Unpackable(Step)
        BY <1>1, <4>1 DEF Unpackable
      <4> QED BY <3>1, <4>2 DEF BelowFile
    <3>2. mode = "kubernetes" => Split(Step, r) \/ BelowFile(Step, r)
      BY <1>1, <1>4, <3>1, ClusterMount
    <3> QED BY <3>2 DEF Explained
  <2> QED BY <1>2, <1>4, <2>1
<1>5. CASE EndAttempt(<<"job">>) /\ UNCHANGED podVars
  BY <1>2, <1>5 DEF Explained
<1> QED BY <1>3, <1>4, <1>5 DEF MountContainer

\* Main containers start when all containers of the pod have their mounts.
LEMMA StartHandlerKeeps ==
  ASSUME MInv, StartHandler
  PROVE  MInv'
<1>1. /\ pc = "mount" /\ pc' = "run" /\ next \notin Mounting(Step)
      /\ started' = started \cup ContainerNames(Step, "main")
      /\ UNCHANGED <<job, mode, at, attempt, known, gathered, todo, dst, copying, stray, content,
                     next, view, why>>
  BY DEF StartHandler, jobVars, artifactVars, copyVars
<1>2. /\ ValidJob(job) /\ job \in Jobs /\ at \in DOMAIN job.steps /\ copying = Plain
      /\ why = <<"none">> /\ at \in Nat /\ attempt \in Nat /\ next \in Nat \ {0}
  BY <1>1, AttemptAssumption DEF MInv, PlaceInv, TypeOK
<1>3. /\ WellFormed(Step)
      /\ Mounting(Step) \subseteq Nat \ {0} /\ Mounting(Step) \subseteq DOMAIN Step.containers
      /\ \A k \in Mounting(Step) : \A m \in Nat \ {0} : m <= k => m \in Mounting(Step)
      /\ \A k \in Containers(Step, "main") : FirstMounted(Step) <= k
      /\ at <= Len(job.steps)
  BY <1>2, StepFacts, ValidStepFacts, MountingFacts, FirstMountedFacts
<1>4. TypeOK'
  <2>1. ContainerNames(Step, "main") \subseteq Names
    BY <1>3 DEF WellFormed, ContainerNames, Containers
  <2> QED BY <1>1, <2>1 DEF MInv, TypeOK
<1>5. PlaceInv' /\ StartInv' /\ StrayInv' /\ CopyInv'
  BY <1>1, <1>2 DEF MInv, PlaceInv, StartInv, StrayInv, CopyInv, InPod
<1>6. /\ Step' = Step /\ FirstMounted(Step)' = FirstMounted(Step)
      /\ \A k : Seen(k)' <=> Seen(k)
  BY <1>1, StepKept, SeenKept
<1>7. MountInv'
  BY <1>1, <1>6 DEF MInv, MountInv
<1>8. CommandsSeeMounts'
  <2> SUFFICES ASSUME mode # "dryrun", NEW k \in Mounting(Step),
                      Step.containers[k].name \in started'
               PROVE  /\ Seen(k)
                      /\ mode = "kubernetes" => \A w \in stray : w.step # at \/ w.attempt # attempt
    BY <1>1, <1>6 DEF CommandsSeeMounts
  <2>1. CASE Step.containers[k].name \in started
    BY <1>3, <2>1 DEF MInv, CommandsSeeMounts
  <2>2. CASE Step.containers[k].name \in ContainerNames(Step, "main")
    <3>1. FirstMounted(Step) <= k
      BY <1>3, <2>2, NamesApart
    <3>2. k < next
      <4>1. next = 1 \/ next - 1 \in Mounting(Step)
        BY <1>1 DEF MInv, MountInv
      <4>2. ~(next <= k)
        BY <1>1, <1>2, <1>3
      <4> QED BY <1>2, <1>3, <4>2
    <3>3. Seen(k)
      BY <1>1, <3>1, <3>2 DEF MInv, MountInv
    <3>4. mode = "kubernetes" => \A w \in stray : w.step # at \/ w.attempt # attempt
      BY <1>1, <1>2 DEF MInv, StrayInv
    <3> QED BY <3>3, <3>4
  <2> QED BY <1>1, <2>1, <2>2
<1>9. NamesAreKnown' /\ MountFailureHasReason'
  BY <1>1, <1>2 DEF NamesAreKnown, MountFailureHasReason
<1> QED BY <1>4, <1>5, <1>7, <1>8, <1>9 DEF MInv

\* The finalizer is no container of the pod.
LEMMA RunFinalizerKeeps ==
  ASSUME MInv, RunFinalizer
  PROVE  MInv'
<1>1. /\ pc = "run" /\ pc' = "finished"
      /\ started' = started \cup ContainerNames(Step, "final")
      /\ UNCHANGED <<job, mode, at, attempt, known, gathered, todo, dst, copying, stray, content,
                     next, view, why>>
  BY DEF RunFinalizer, jobVars, artifactVars, copyVars
<1>2. /\ job \in Jobs /\ at \in DOMAIN job.steps /\ copying = Plain /\ why = <<"none">>
  BY <1>1 DEF MInv, PlaceInv, TypeOK
<1>3. /\ WellFormed(Step) /\ Mounting(Step) \subseteq DOMAIN Step.containers
  BY <1>2, StepFacts, MountingFacts
<1>4. TypeOK'
  <2>1. ContainerNames(Step, "final") \subseteq Names
    BY <1>3 DEF WellFormed, ContainerNames, Containers
  <2> QED BY <1>1, <2>1 DEF MInv, TypeOK
<1>5. PlaceInv' /\ StartInv' /\ StrayInv' /\ CopyInv'
  BY <1>1, <1>2 DEF MInv, PlaceInv, StartInv, StrayInv, CopyInv, InPod
<1>6. MountInv'
  BY <1>1, MountKept DEF MInv
<1>7. CommandsSeeMounts'
  <2>1. ASSUME NEW k \in Mounting(Step), Step.containers[k].name \in started'
        PROVE  Step.containers[k].name \in started
    <3>1. k \notin Containers(Step, "final")
      BY DEF Mounting, Containers
    <3> QED BY <1>1, <1>3, <2>1, <3>1, NamesApart
  <2>2. Step' = Step /\ \A k : Seen(k)' <=> Seen(k)
    BY <1>1, StepKept, SeenKept
  <2> QED BY <1>1, <2>1, <2>2 DEF MInv, CommandsSeeMounts
<1>8. NamesAreKnown' /\ MountFailureHasReason'
  BY <1>1, <1>2 DEF NamesAreKnown, MountFailureHasReason
<1> QED BY <1>4, <1>5, <1>6, <1>7, <1>8 DEF MInv

(***************************************************************************)
(* The end of a step and of the run.                                       *)
(***************************************************************************)

\* The next step begins with its first attempt.
LEMMA EndStepKeeps ==
  ASSUME MInv, EndStep
  PROVE  MInv'
<1>1. /\ pc = "finished" /\ copying = Plain /\ why = <<"none">> /\ ValidJob(job)
      /\ at \in DOMAIN job.steps /\ job \in Jobs /\ at \in Nat \ {0}
      /\ UNCHANGED <<job, mode, known, todo, dst, copying, stray, content, next, view>>
  BY DEF EndStep, MInv, PlaceInv, TypeOK, jobVars, copyVars
<1>2. CASE /\ gathered \subseteq gathered' /\ gathered' \subseteq known
           /\ at' = at + 1
           /\ attempt' = 1
           /\ pc' = IF at = Len(job.steps) THEN "export" ELSE "build"
           /\ started' = {}
           /\ UNCHANGED why
  <2>1. TypeOK'
    BY <1>1, <1>2, AttemptAssumption DEF MInv, TypeOK
  <2>2. PlaceInv'
    BY <1>1, <1>2, JobAssumption DEF PlaceInv
  <2>3. StartInv' /\ CopyInv' /\ MountInv'
    BY <1>1, <1>2 DEF StartInv, CopyInv, MountInv, InPod
  <2>4. StrayInv'
    <3>1. \A w \in stray : w.step \in Nat
      BY DEF MInv, TypeOK
    <3>2. mode = "kubernetes" => \A w \in stray : w.step < at \/ w.step = at
      BY <1>1 DEF MInv, StrayInv
    <3>3. mode = "kubernetes" => \A w \in stray : w.step < at + 1
      BY <1>1, <3>1, <3>2
    <3> QED BY <1>1, <1>2, <3>3 DEF StrayInv
  <2>5. CommandsSeeMounts'
    BY <1>2 DEF CommandsSeeMounts
  <2>6. NamesAreKnown' /\ MountFailureHasReason'
    BY <1>1, <1>2 DEF NamesAreKnown, MountFailureHasReason
  <2> QED BY <2>1, <2>2, <2>3, <2>4, <2>5, <2>6 DEF MInv
<1>3. CASE EndAttempt(<<"job">>) /\ UNCHANGED <<at, gathered, started>>
  <2>1. TypeOK'
    BY <1>1, <1>3, AttemptAssumption DEF MInv, TypeOK, EndAttempt, Retry, Fail
  <2>2. Explained(<<"job">>)
    BY DEF Explained
  <2> QED BY <1>1, <1>3, <2>1, <2>2, EndAttemptKeeps
<1>4. ASSUME NEW got \in SUBSET (ArtifactsOf(Step, ContainerNames(Step, "main")) \cap known),
             gathered' = gathered \cup got
      PROVE  gathered \subseteq gathered' /\ gathered' \subseteq known
  BY <1>4 DEF MInv, TypeOK
<1> QED BY <1>2, <1>3, <1>4 DEF EndStep

\* An artifact that is exported is one of the steps'.
LEMMA ExportKeeps ==
  ASSUME MInv, Export
  PROVE  MInv'
<1>1. /\ pc = "export" /\ copying = Plain /\ why = <<"none">> /\ ValidJob(job)
      /\ at = Len(job.steps) + 1
      /\ UNCHANGED <<job, mode, at, attempt, known, gathered, todo, dst, copying, stray, content,
                     next, view, started>>
  BY DEF Export, MInv, PlaceInv, jobVars, artifactVars, copyVars, podVars
<1>2. pc' \in {"done", "failed"}
  BY DEF Export, Fail
<1>3. TypeOK'
  BY <1>1, <1>2 DEF MInv, TypeOK
<1>4. CASE pc' = "done" /\ UNCHANGED why
  <2>1. PlaceInv' /\ StartInv' /\ CopyInv' /\ StrayInv' /\ MountInv'
    BY <1>1, <1>4 DEF MInv, PlaceInv, StartInv, CopyInv, StrayInv, MountInv, InPod
  <2>2. CommandsSeeMounts'
    BY <1>1, CommandsKept DEF MInv
  <2>3. NamesAreKnown' /\ MountFailureHasReason'
    BY <1>1, <1>4 DEF NamesAreKnown, MountFailureHasReason
  <2> QED BY <1>3, <2>1, <2>2, <2>3 DEF MInv
<1>5. ASSUME NEW a \in job.exports \ known, Fail(<<"artifact", a>>)
      PROVE  MInv'
  <2>1. a \in ArtifactNames(job, at)
    BY <1>1 DEF ValidJob
  <2>2. Explained(<<"artifact", a>>)
    BY <2>1 DEF Explained
  <2> QED BY <1>1, <1>3, <1>5, <2>2, FailKeeps
<1>6. CASE Fail(<<"io">>)
  <2>1. Explained(<<"io">>)
    BY DEF Explained
  <2> QED BY <1>1, <1>3, <1>6, <2>1, FailKeeps
<1> QED BY <1>4, <1>5, <1>6 DEF Export

\* A stuttering step.
LEMMA StutterKeeps ==
  ASSUME MInv, UNCHANGED vars
  PROVE  MInv'
<1>1. UNCHANGED <<job, mode, pc, at, attempt, known, gathered, todo, dst, copying, stray,
                  content, next, view, started, why>>
  BY DEF vars
<1>2. Step' = Step /\ Copied(Step)' = Copied(Step)
  BY <1>1, StepKept
<1>3. TypeOK' /\ PlaceInv' /\ StartInv' /\ StrayInv'
  BY <1>1 DEF MInv, TypeOK, PlaceInv, StartInv, StrayInv
<1>4. CopyInv'
  BY <1>1, <1>2 DEF MInv, CopyInv
<1>5. MountInv' /\ CommandsSeeMounts'
  BY <1>1, MountKept, CommandsKept DEF MInv
<1>6. NamesAreKnown' /\ MountFailureHasReason'
  BY <1>1, <1>2, BelowFileKept DEF MInv, NamesAreKnown, MountFailureHasReason, Split, SourceExists
<1> QED BY <1>3, <1>4, <1>5, <1>6 DEF MInv

(***************************************************************************)
(* All steps.                                                              *)
(***************************************************************************)

\* MInv is invariant: whatever fails, is retried or goes on behind a timeout.
THEOREM Invariance == Spec => []MInv
<1>1. Init => MInv
  BY InitMInv
<1>2. MInv /\ [Next]_vars => MInv'
  BY ValidateKeeps, SetupKeeps, BuildKeeps, SkipStepKeeps, CreateKeeps, StartCopyKeeps,
     CopyEndsKeeps, CopyFailsKeeps, CopyTimesOutKeeps, StrayEndsKeeps, EndPreInitKeeps,
     MountContainerKeeps, StartHandlerKeeps, RunFinalizerKeeps, EndStepKeeps, ExportKeeps,
     StutterKeeps, Zenon
     DEF Next
<1> QED BY <1>1, <1>2, PTL DEF Spec

\* Every variable keeps its type.
THEOREM TypeCorrect == Spec => []TypeOK
BY Invariance, PTL DEF MInv

\* A command starts only when its container has all its mounts, whole ones in a cluster.
THEOREM CommandsHaveMounts == Spec => []CommandsSeeMounts
BY Invariance, PTL DEF MInv

\* What a validated job names is found, but for the exceptions the property names.
THEOREM NamesFound == Spec => []NamesAreKnown
BY Invariance, PTL DEF MInv

\* In a cluster, only a resource with two volumes can be missing at a mount.
THEOREM MountFailuresExplained == Spec => []MountFailureHasReason
BY Invariance, PTL DEF MInv
-----------------------------------------------------------------------------
(***************************************************************************)
(* Why a run ends.                                                         *)
(***************************************************************************)
\* What a step mounts is finite: it is in the volumes.
LEMMA CopiedFinite ==
  ASSUME NEW s, WellFormed(s)
  PROVE  IsFiniteSet(Copied(s))
<1> DEFINE f == [v \in DOMAIN s.volumes |-> s.volumes[v]]
           T == {s.volumes[v] : v \in DOMAIN s.volumes}
<1>1. f \in Surjection(DOMAIN s.volumes, T)
  BY DEF Surjection
<1>2. IsFiniteSet(T)
  BY <1>1, FS_Surjection DEF WellFormed
<1>3. Copied(s) \in SUBSET T
  BY UsedFacts DEF Copied
<1> QED BY <1>2, <1>3, FS_Subset

LEMMA TodoFinite ==
  ASSUME MInv, pc \in InPod
  PROVE  IsFiniteSet(todo) /\ Cardinality(todo) \in Nat
<1>1. WellFormed(Step)
  BY StepFacts DEF MInv, TypeOK, PlaceInv, InPod
<1>2. todo \in SUBSET Copied(Step)
  BY DEF MInv, CopyInv
<1> QED BY <1>1, <1>2, CopiedFinite, FS_Subset, FS_CardinalityType

LEMMA ToMountFinite ==
  ASSUME MInv, pc \in InPod
  PROVE  IsFiniteSet(ToMount) /\ Cardinality(ToMount) \in Nat
<1>1. WellFormed(Step)
  BY StepFacts DEF MInv, TypeOK, PlaceInv, InPod
<1>2. PICK n \in 0 .. Len(Step.containers) : Mounting(Step) = 1 .. n
  BY <1>1 DEF WellFormed, Mounting
<1>3. IsFiniteSet(1 .. n)
  BY <1>2, FS_Interval
<1>4. ToMount \in SUBSET (1 .. n)
  BY <1>2 DEF ToMount
<1> QED BY <1>3, <1>4, FS_Subset, FS_CardinalityType

\* Until the run is over, what is left is never negative.
LEMMA LeftFacts ==
  ASSUME MInv, pc \notin {"failed", "done", "rejected"}
  PROVE  /\ StepsLeft \in Nat /\ AttemptsLeft \in Nat
         /\ PlaceLeft \in Nat /\ TurnsLeft \in Nat
         /\ RunLeft \in Nat \X Nat \X Nat \X Nat
<1>1. StepsLeft \in Nat
  <2>1. Len(job.steps) \in Nat
    BY JobAssumption DEF MInv, TypeOK
  <2>2. CASE pc = "export"
    BY <2>1, <2>2 DEF StepsLeft, MInv, PlaceInv
  <2>3. CASE pc # "export"
    BY <2>1, <2>3, StepFacts DEF StepsLeft, MInv, TypeOK, PlaceInv
  <2> QED BY <2>2, <2>3
<1>2. AttemptsLeft \in Nat
  BY AttemptAssumption DEF AttemptsLeft, MInv, TypeOK
<1>3. PlaceLeft \in Nat
  BY DEF PlaceLeft
<1>4. TurnsLeft \in Nat
  <2>1. CASE pc = "preinit"
    BY <2>1, TodoFinite DEF TurnsLeft, InPod
  <2>2. CASE pc = "copying"
    <3>1. copying \in todo
      BY <2>2 DEF MInv, TypeOK, PlaceInv
    <3>2. Cardinality(todo) # 0
      BY <2>2, <3>1, TodoFinite, FS_EmptySet DEF InPod
    <3> QED BY <2>2, <3>2, TodoFinite DEF TurnsLeft, InPod
  <2>3. CASE pc = "mount"
    BY <2>3, ToMountFinite DEF TurnsLeft, InPod
  <2>4. CASE pc \notin {"preinit", "copying", "mount"}
    BY <2>4 DEF TurnsLeft
  <2> QED BY <2>1, <2>2, <2>3, <2>4
<1> QED BY <1>1, <1>2, <1>3, <1>4 DEF RunLeft

\* One of the four gets less, and those before it stay.
LEMMA StepsGetLess ==
  ASSUME MInv, pc \notin {"failed", "done", "rejected"}, StepsLeft' < StepsLeft
  PROVE  Advances
BY LeftFacts DEF Advances, RunLeft, Lower

LEMMA AttemptsGetLess ==
  ASSUME MInv, pc \notin {"failed", "done", "rejected"}, UNCHANGED <<job, at>>,
         AttemptsLeft' < AttemptsLeft
  PROVE  Advances
<1>1. StepsLeft' = StepsLeft
  BY DEF StepsLeft
<1> QED BY <1>1, LeftFacts DEF Advances, RunLeft, Lower

LEMMA PlacesGetLess ==
  ASSUME MInv, pc \notin {"failed", "done", "rejected"}, UNCHANGED <<job, at, attempt>>,
         PlaceLeft' < PlaceLeft
  PROVE  Advances
<1>1. StepsLeft' = StepsLeft /\ AttemptsLeft' = AttemptsLeft
  BY DEF StepsLeft, AttemptsLeft
<1> QED BY <1>1, LeftFacts DEF Advances, RunLeft, Lower

LEMMA TurnsGetLess ==
  ASSUME MInv, pc \notin {"failed", "done", "rejected"}, UNCHANGED <<job, at, attempt>>,
         PlaceLeft' = PlaceLeft, TurnsLeft' < TurnsLeft
  PROVE  Advances
<1>1. StepsLeft' = StepsLeft /\ AttemptsLeft' = AttemptsLeft
  BY DEF StepsLeft, AttemptsLeft
<1> QED BY <1>1, LeftFacts DEF Advances, RunLeft, Lower

LEMMA FailAdvances ==
  ASSUME MInv, NEW reason, Fail(reason), UNCHANGED <<job, at, attempt>>,
         pc \notin {"failed", "done", "rejected"}
  PROVE  Advances
<1>1. PlaceLeft \in 1 .. 9
  BY DEF PlaceLeft, MInv, TypeOK
<1>2. PlaceLeft' = 0
  BY DEF PlaceLeft, Fail
<1> QED BY <1>1, <1>2, PlacesGetLess

LEMMA EndAttemptAdvances ==
  ASSUME MInv, NEW reason, EndAttempt(reason), UNCHANGED <<job, at>>,
         pc \notin {"failed", "done", "rejected"}
  PROVE  Advances
<1>1. CASE Retry
  <2>1. AttemptsLeft' < AttemptsLeft
    BY <1>1, AttemptAssumption DEF Retry, AttemptsLeft, MInv, TypeOK
  <2> QED BY <2>1, AttemptsGetLess
<1>2. CASE Fail(reason) /\ UNCHANGED attempt
  BY <1>2, FailAdvances
<1> QED BY <1>1, <1>2 DEF EndAttempt

\* The steps that go on to the next place.
LEMMA BeforeAttempt ==
  ASSUME MInv, Validate \/ Setup \/ Build \/ Create
  PROVE  Advances
<1>1. CASE Validate
  <2>1. PlaceLeft = 9 /\ PlaceLeft' \in {0, 8}
    BY <1>1 DEF Validate, PlaceLeft
  <2> QED BY <1>1, <2>1, PlacesGetLess DEF Validate, jobVars
<1>2. CASE Setup
  <2>1. CASE pc' = "build"
    <3>1. PlaceLeft = 8 /\ PlaceLeft' = 7
      BY <1>2, <2>1 DEF Setup, PlaceLeft
    <3> QED BY <1>2, <3>1, PlacesGetLess DEF Setup, jobVars
  <2>2. CASE pc' # "build"
    BY <1>2, <2>2, FailAdvances DEF Setup, jobVars
  <2> QED BY <2>1, <2>2
<1>3. CASE Build
  <2>1. CASE pc' = "create"
    <3>1. PlaceLeft = 7 /\ PlaceLeft' = 6
      BY <1>3, <2>1 DEF Build, PlaceLeft
    <3> QED BY <1>3, <3>1, PlacesGetLess DEF Build, jobVars
  <2>2. CASE pc' # "create"
    BY <1>3, <2>2, FailAdvances DEF Build, jobVars
  <2> QED BY <2>1, <2>2
<1>4. CASE Create
  <2>1. CASE pc' \in {"run", "preinit"} /\ UNCHANGED attempt
    <3>1. PlaceLeft = 6 /\ PlaceLeft' \in {3, 5}
      BY <1>4, <2>1 DEF Create, PlaceLeft
    <3> QED BY <1>4, <2>1, <3>1, PlacesGetLess DEF Create, jobVars
  <2>2. CASE ~(pc' \in {"run", "preinit"} /\ UNCHANGED attempt)
    BY <1>4, <2>2, FailAdvances, EndAttemptAdvances DEF Create, jobVars
  <2> QED BY <2>1, <2>2
<1> QED BY <1>1, <1>2, <1>3, <1>4

\* A copy is started once, and ends once; one that fails or takes too long ends the loop.
LEMMA CopiesAdvance ==
  ASSUME MInv, StartCopy \/ CopyEnds \/ CopyFails \/ CopyTimesOut \/ EndPreInit
  PROVE  Advances
<1>1. CASE StartCopy
  <2>1. PlaceLeft' = PlaceLeft
    BY <1>1 DEF StartCopy, PlaceLeft
  <2>2. TurnsLeft' < TurnsLeft
    BY <1>1, TodoFinite DEF StartCopy, TurnsLeft, InPod
  <2> QED BY <1>1, <2>1, <2>2, TurnsGetLess DEF StartCopy, jobVars
<1>2. CASE CopyEnds
  <2>1. PlaceLeft' = PlaceLeft
    BY <1>2 DEF CopyEnds, PlaceLeft
  <2>2. copying \in todo
    BY <1>2 DEF CopyEnds, MInv, TypeOK, PlaceInv
  <2>3. Cardinality(todo') = Cardinality(todo) - 1
    BY <1>2, <2>2, TodoFinite, FS_RemoveElement DEF CopyEnds, InPod
  <2>4. TurnsLeft' < TurnsLeft
    BY <1>2, <2>3, TodoFinite DEF CopyEnds, TurnsLeft, InPod
  <2> QED BY <1>2, <2>1, <2>4, TurnsGetLess DEF CopyEnds, jobVars
<1>3. CASE CopyFails \/ CopyTimesOut
  <2>1. pc = "copying" /\ UNCHANGED <<job, at>> /\ PreInitError
    BY <1>3 DEF CopyFails, CopyTimesOut, jobVars
  <2>2. CASE mode = "local"
    <3>1. PlaceLeft = 5 /\ PlaceLeft' = 4 /\ UNCHANGED attempt
      BY <2>1, <2>2 DEF PreInitError, PlaceLeft
    <3> QED BY <2>1, <3>1, PlacesGetLess
  <2>3. CASE mode # "local"
    BY <2>1, <2>3, EndAttemptAdvances DEF PreInitError
  <2> QED BY <2>2, <2>3
<1>4. CASE EndPreInit
  <2>1. PlaceLeft = 5 /\ PlaceLeft' = 4
    BY <1>4 DEF EndPreInit, PlaceLeft
  <2> QED BY <1>4, <2>1, PlacesGetLess DEF EndPreInit, jobVars
<1> QED BY <1>1, <1>2, <1>3, <1>4

LEMMA MountAdvances ==
  ASSUME MInv, MountContainer
  PROVE  Advances
<1>1. pc = "mount" /\ next \in Mounting(Step) /\ UNCHANGED <<job, mode, at>>
  BY DEF MountContainer, jobVars
<1>2. CASE next' = next + 1 /\ UNCHANGED <<pc, attempt>>
  <2>1. Mounting(Step) \subseteq Nat
    BY <1>1, StepFacts, MountingFacts DEF MInv, TypeOK, PlaceInv
  <2>2. ToMount' = ToMount \ {next} /\ next \in ToMount
    BY <1>1, <1>2, <2>1 DEF ToMount, Step, Mounting
  <2>3. Cardinality(ToMount') = Cardinality(ToMount) - 1
    BY <1>1, <2>2, ToMountFinite, FS_RemoveElement DEF InPod
  <2>4. TurnsLeft' < TurnsLeft
    BY <1>1, <1>2, <2>3, ToMountFinite DEF TurnsLeft, InPod
  <2>5. PlaceLeft' = PlaceLeft
    BY <1>2 DEF PlaceLeft
  <2> QED BY <1>1, <1>2, <2>4, <2>5, TurnsGetLess
<1>3. CASE ~(next' = next + 1 /\ UNCHANGED <<pc, attempt>>)
  BY <1>1, <1>3, EndAttemptAdvances DEF MountContainer
<1> QED BY <1>2, <1>3

LEMMA NextStepIsOneLess ==
  ASSUME MInv, UNCHANGED job, at' = at + 1
  PROVE  StepsLeft' < StepsLeft
<1>1. Len(job.steps) \in Nat /\ at \in Nat
  BY JobAssumption DEF MInv, TypeOK
<1>2. StepsLeft' = Len(job.steps) + 1 - (at + 1)
  BY Zenon DEF StepsLeft
<1>3. \A n, a \in Nat : n + 1 - (a + 1) < n + 1 - a
  OBVIOUS
<1> QED BY <1>1, <1>2, <1>3, Zenon DEF StepsLeft

LEMMA AfterMount ==
  ASSUME MInv, SkipStep \/ StartHandler \/ RunFinalizer \/ EndStep \/ Export
  PROVE  Advances
<1>1. CASE SkipStep
  <2>1. StepsLeft' < StepsLeft
    BY <1>1, NextStepIsOneLess DEF SkipStep, jobVars
  <2> QED BY <1>1, <2>1, StepsGetLess DEF SkipStep
<1>2. CASE StartHandler
  <2>1. PlaceLeft = 4 /\ PlaceLeft' = 3
    BY <1>2 DEF StartHandler, PlaceLeft
  <2> QED BY <1>2, <2>1, PlacesGetLess DEF StartHandler, jobVars
<1>3. CASE RunFinalizer
  <2>1. PlaceLeft = 3 /\ PlaceLeft' = 2
    BY <1>3 DEF RunFinalizer, PlaceLeft
  <2> QED BY <1>3, <2>1, PlacesGetLess DEF RunFinalizer, jobVars
<1>4. CASE EndStep
  <2>1. pc = "finished" /\ UNCHANGED job
    BY <1>4 DEF EndStep, jobVars
  <2>2. CASE at' = at + 1
    <3>1. StepsLeft' < StepsLeft
      BY <2>1, <2>2, NextStepIsOneLess
    <3> QED BY <2>1, <3>1, StepsGetLess
  <2>3. CASE at' # at + 1
    BY <1>4, <2>1, <2>3, EndAttemptAdvances DEF EndStep
  <2> QED BY <2>2, <2>3
<1>5. CASE Export
  <2>1. CASE pc' = "done"
    <3>1. PlaceLeft = 1 /\ PlaceLeft' = 0
      BY <1>5, <2>1 DEF Export, PlaceLeft
    <3> QED BY <1>5, <3>1, PlacesGetLess DEF Export, jobVars
  <2>2. CASE pc' # "done"
    BY <1>5, <2>2, FailAdvances DEF Export, jobVars
  <2> QED BY <2>1, <2>2
<1> QED BY <1>1, <1>2, <1>3, <1>4, <1>5

\* An abandoned copy ends once, and leaves the run where it is.
LEMMA StrayApart ==
  ASSUME MInv, StrayEnds
  PROVE  RunLeft' = RunLeft /\ stray' \subseteq stray /\ stray' # stray
<1>1. UNCHANGED <<job, mode, pc, at, attempt, todo, next>>
  BY DEF StrayEnds, jobVars, podVars
<1>2. RunLeft' = RunLeft
  BY <1>1 DEF RunLeft, StepsLeft, AttemptsLeft, PlaceLeft, TurnsLeft, ToMount, Step, Mounting
<1> QED BY <1>2 DEF StrayEnds

\* The run of a job has no loop that a copy, an attempt or a mount could keep going; its
\* retries are bounded by the backoff policy, its copies by what the step mounts.
THEOREM RunIsBounded == Spec => RunAdvances
<1>1. ASSUME MInv, [Next]_vars, ~UNCHANGED vars
      PROVE  Advances \/ (RunLeft' = RunLeft /\ stray' \subseteq stray /\ stray' # stray)
  BY <1>1, BeforeAttempt, CopiesAdvance, MountAdvances, AfterMount, StrayApart, Zenon DEF Next
<1>2. MInv /\ [Next]_vars =>
        [Advances \/ (RunLeft' = RunLeft /\ stray' \subseteq stray /\ stray' # stray)]_vars
  BY <1>1
<1> QED BY <1>2, Invariance, PTL DEF Spec, RunAdvances
=============================================================================

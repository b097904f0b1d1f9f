--------------------------------- MODULE Mounts ---------------------------------
(***************************************************************************)
(* What a job's containers find at their mount points.  The steps of a     *)
(* validated job are built one after the other; building looks up what a   *)
(* step mounts and fixes what its pre-init container copies, and where to. *)
(* Each copy has a timeout, after which its goroutine is abandoned.  Then  *)
(* the resources are unpacked in each container before its command starts, *)
(* at mount points that may lie in each other.                             *)
(*                                                                         *)
(* A step is one Task; TaskGroup has several of them, and the errors an    *)
(* attempt can end with, in detail.  Pods, kubejob and the API server are  *)
(* external.                                                               *)
(***************************************************************************)
EXTENDS Validator, Functions

CONSTANTS
  Jobs,         \* TestJobs as users write them, the validator's to judge
  Modes,        \* run modes: "kubernetes", "local", "dryrun"
  Resources,    \* what volumes name: <<kind, name>>
  Rank,         \* Rank[r]: the place of r in the order of copying, by kind and name
  Volumes,      \* names of volumes
  Names,        \* names of containers
  Points,       \* mount points
  Under,        \* <<p, q>>: p is q, or lies in it
  MaxAttempts   \* attempts of a Task

Plain == <<"plain", None>>
OnePerPod == {"log", "report"}

\* The shape of a step: init containers, main containers and the finalizer follow each
\* other, no two containers share a name, and a volume is plain or of a resource.
WellFormed(s) ==
  /\ DOMAIN s.volumes \subseteq Volumes
  /\ IsFiniteSet(DOMAIN s.volumes)
  /\ \A v \in DOMAIN s.volumes : s.volumes[v] \in Resources \cup {Plain}
  /\ \A k \in DOMAIN s.containers :
       /\ s.containers[k].name \in Names
       /\ s.containers[k].group \in {"init", "main", "final"}
       /\ Len(s.containers[k].mounts) \in Nat
       /\ DOMAIN s.containers[k].mounts = 1 .. Len(s.containers[k].mounts)
       /\ s.containers[k].points \in [DOMAIN s.containers[k].mounts -> Points]
  /\ NoDuplicate(s.containers)
  /\ \E n \in 0 .. Len(s.containers) : \E i \in 0 .. n :
       Containers(s, "init") = 1 .. i /\ Containers(s, "main") = i + 1 .. n

ASSUME JobAssumption ==
  \A j \in Jobs :
    /\ Len(j.steps) \in Nat \ {0}
    /\ DOMAIN j.steps = 1 .. Len(j.steps)
    /\ \A i \in DOMAIN j.steps : WellFormed(j.steps[i])
ASSUME ResourceAssumption ==
  \A r \in Resources : r[1] \in {"repo", "token", "artifact", "log", "report"}
ASSUME RankAssumption == Rank \in [Resources -> Nat]
ASSUME PointAssumption ==
  Under \in SUBSET (Points \X Points) /\ \A p \in Points : <<p, p>> \in Under
ASSUME AttemptAssumption == MaxAttempts \in Nat \ {0}

VARIABLES
  job,        \* the TestJob
  mode,       \* the run mode
  pc,         \* where Run is
  at,         \* the step
  attempt,    \* the attempt of its Task
  known,      \* artifacts that have a directory
  gathered,   \* those with a file in it
  todo,       \* resources that are still to be copied
  dst,        \* dst[r]: the path the pre-init container copies r to
  copying,    \* the resource that is being copied, or Plain
  stray,      \* copies given up that may still go on
  content,    \* content[p]: what is under the path p in the volumes
  next,       \* the container whose mounts come next
  view,       \* view[f][p]: what was unpacked at point p of file system f
  started,    \* containers whose command was started
  why         \* the reason of a failure

jobVars == <<job, mode>>
artifactVars == <<known, gathered>>
copyVars == <<todo, dst, copying, stray, content>>
podVars == <<next, view, started>>
vars == <<job, mode, pc, at, attempt, known, gathered, todo, dst, copying, stray,
          content, next, view, started, why>>

-----------------------------------------------------------------------------
(***************************************************************************)
(* newTaskContainer: a mount of a repository, token or artifact is moved   *)
(* to a path named after its volume, and recorded under the name of the    *)
(* resource, so that the last of several mounts counts.  All logs, and all *)
(* reports, share one path.                                                *)
(***************************************************************************)
Source(s, v) == IF v \in DOMAIN s.volumes THEN s.volumes[v] ELSE Plain

MountPath(s, v) ==
  IF Source(s, v)[1] \in OnePerPod THEN <<Source(s, v)[1]>> ELSE <<Source(s, v)[1], v>>

Paths == {<<k>> : k \in OnePerPod}
         \cup ({"repo", "token", "artifact", "plain"} \X Volumes)

MountSource(s, k, m) == Source(s, s.containers[k].mounts[m])

Served(s, k) ==
  {m \in DOMAIN s.containers[k].mounts :
     /\ MountSource(s, k, m) # Plain
     /\ \/ MountSource(s, k, m)[1] \in OnePerPod
        \/ \A n \in DOMAIN s.containers[k].mounts :
             MountSource(s, k, n) = MountSource(s, k, m) => n <= m}

PathOf(s, k, m) == MountPath(s, s.containers[k].mounts[m])

UsedBy(s, k) == {MountSource(s, k, m) : m \in Served(s, k)}

UsedIn(s, group) == UNION {UsedBy(s, k) : k \in Containers(s, group)}

\* The finalizer's mounts count like the others'.
Used(s) == UsedIn(s, "init") \cup UsedIn(s, "main") \cup UsedIn(s, "final")

FirstGroup(s, r) ==
  IF r \in UsedIn(s, "init") THEN "init"
  ELSE IF r \in UsedIn(s, "main") THEN "main" ELSE "final"

\* The path to copy to is that of any container of the first group that uses
\* the resource, in the random order of a map.
Destinations(s, r) ==
  UNION {{PathOf(s, k, m) : m \in {n \in Served(s, k) : MountSource(s, k, n) = r}}
         : k \in Containers(s, FirstGroup(s, r))}

\* The API server takes a pod only if each mount is of a declared volume (podSpec
\* leaves the finalizer's out), at paths of their own in a container, the pre-init
\* container included.
Mounted(s, groups) ==
  UNION {Range(s.containers[k].mounts) : k \in UNION {Containers(s, g) : g \in groups}}

PodAccepted(s) ==
  /\ Mounted(s, {"init", "main", "final"}) \subseteq Mounted(s, {"init", "main"})
  /\ Mounted(s, {"init", "main"}) \subseteq DOMAIN s.volumes
  /\ \A k \in DOMAIN s.containers : \A m, n \in DOMAIN s.containers[k].mounts :
       PathOf(s, k, m) = PathOf(s, k, n) => m = n
  /\ \A v, w \in Mounted(s, {"init", "main"}) :
       MountPath(s, v) = MountPath(s, w) => v = w

\* A dry run looks up repositories and tokens only.
Copied(s) ==
  IF mode = "dryrun" THEN {r \in Used(s) : r[1] \in {"repo", "token"}} ELSE Used(s)

First(S) == CHOOSE r \in S : \A q \in S : Rank[r] <= Rank[q]

Step == job.steps[at]

-----------------------------------------------------------------------------
(***************************************************************************)
(* The callback of job.Mount.  Containers of a pod have a file system      *)
(* each, those of a local job share a root directory, in which they mount  *)
(* one after the other.  A mount that counts is <<container, number>>.     *)
(***************************************************************************)
Roots == Names \cup {"root"}
Root(s, k) == IF mode = "local" THEN "root" ELSE s.containers[k].name
Unmounted == <<Plain, "absent">>
Views == [Roots -> [Points -> (Resources \cup {Plain}) \X {"absent", "partial", "whole"}]]

Mounting(s) == Containers(s, "init") \cup Containers(s, "main")

\* A local job starts with its main containers, a dry run copies and mounts nothing.
FirstMounted(s) ==
  IF mode = "kubernetes" THEN 1 ELSE CHOOSE k \in Containers(s, "main") :
                                       \A m \in Containers(s, "main") : k <= m

Unpackable(s) ==
  UNION {{k} \X Served(s, k) : k \in {n \in Mounting(s) : FirstMounted(s) <= n}}

KindOf(s, u) == MountSource(s, u[1], u[2])[1]
Point(s, u) == s.containers[u[1]].points[u[2]]
Inside(s, u, v) == <<Point(s, u), Point(s, v)>> \in Under
Alike(s, u, v) ==
  Point(s, u) = Point(s, v) /\ MountSource(s, u[1], u[2]) = MountSource(s, v[1], v[2])

\* What rm -rf makes room for; the rest are files, copied by cp.
Trees == {"repo", "artifact"}

Turn(kind) == CASE kind = "repo" -> 1 [] kind = "token" -> 2 [] kind = "artifact" -> 3
                [] kind = "log" -> 4 [] OTHER -> 5

\* v may be unpacked after u: kind by kind, in the random order of a map, but for logs
\* and reports, which are in a slice.
MayFollow(s, v, u) ==
  \/ /\ u[1] = v[1] /\ u[2] # v[2]
     /\ Turn(KindOf(s, u)) <= Turn(KindOf(s, v))
     /\ KindOf(s, u) = KindOf(s, v) /\ KindOf(s, u) \in OnePerPod => u[2] < v[2]
  \/ mode = "local" /\ u[1] < v[1]

\* v, which comes later, removes u or replaces it.
Removes(s, v, u) ==
  /\ MayFollow(s, v, u) /\ Inside(s, u, v) /\ ~Alike(s, u, v)
  /\ KindOf(s, v) \in Trees \/ Point(s, u) = Point(s, v)

\* v has made a directory of the point of u, so that cp puts the file into it.
Diverts(s, v, u) ==
  /\ MayFollow(s, u, v) /\ Inside(s, v, u) /\ ~Alike(s, u, v)
  /\ KindOf(s, u) \notin Trees
  /\ Point(s, u) = Point(s, v) => KindOf(s, v) \in Trees

\* v is a file, or an artifact that may be one, where u needs a directory.
Stops(s, v, u) ==
  /\ MayFollow(s, u, v) /\ Inside(s, u, v) /\ Point(s, u) # Point(s, v)
  /\ KindOf(s, v) # "repo"

Orders(s, k) ==
  {order \in Bijection(Served(s, k), 1 .. Cardinality(Served(s, k))) :
     \A m, n \in Served(s, k) : order[m] < order[n] => MayFollow(s, <<k, n>>, <<k, m>>)}

Divertible(s, k) ==
  {m \in Served(s, k) : \E v \in Unpackable(s) : Diverts(s, v, <<k, m>>)}

\* What decides about point p is the last of the mounts at it and of the trees it lies in.
Decide(s, k, diverted, p) ==
  {m \in Served(s, k) \ diverted :
     /\ <<p, Point(s, <<k, m>>)>> \in Under
     /\ KindOf(s, <<k, m>>) \in Trees \/ Point(s, <<k, m>>) = p}

LastOf(order, M) == CHOOSE m \in M : \A n \in M : order[n] <= order[m]

Unpack(s, k, m, p) ==
  IF Point(s, <<k, m>>) = p THEN <<MountSource(s, k, m), content[PathOf(s, k, m)]>>
  ELSE Unmounted

Unpacked(s, k, order, diverted, p) ==
  IF Decide(s, k, diverted, p) = {} THEN view[Root(s, k)][p]
  ELSE Unpack(s, k, LastOf(order, Decide(s, k, diverted, p)), p)

-----------------------------------------------------------------------------
Init ==
  /\ job \in Jobs
  /\ mode \in Modes
  /\ pc = "validate"
  /\ at = 1
  /\ attempt = 1
  /\ known = {}
  /\ gathered = {}
  /\ todo = {}
  /\ dst = [r \in Resources |-> <<"log">>]
  /\ copying = Plain
  /\ stray = {}
  /\ content = [p \in Paths |-> "absent"]
  /\ next = 1
  /\ view = [f \in Roots |-> [p \in Points |-> Unmounted]]
  /\ started = {}
  /\ why = <<"none">>

Fail(reason) == pc' = "failed" /\ why' = reason

Validate ==
  /\ pc = "validate"
  /\ pc' = IF ValidJob(job) THEN "setup" ELSE "rejected"
  /\ UNCHANGED <<jobVars, at, attempt, artifactVars, copyVars, podVars, why>>

TokenKnown(repo) == repo.token \in NamesOf(job.tokens) \cup {None}

\* CloneAll asks for a token when it clones, which it does for a clonedPath
\* only if that is not there.
Setup ==
  /\ pc = "setup"
  /\ \/ /\ \A k \in DOMAIN job.repos :
             TokenKnown(job.repos[k]) \/ job.repos[k].clonedPath = "set"
        /\ pc' = "build"
        /\ UNCHANGED why
     \/ \E k \in DOMAIN job.repos :
          ~TokenKnown(job.repos[k]) /\ Fail(<<"clone", job.repos[k]>>)
     \/ Fail(<<"io">>)
  /\ UNCHANGED <<jobVars, at, attempt, artifactVars, copyVars, podVars>>

-----------------------------------------------------------------------------
(***************************************************************************)
(* Building a step.                                                        *)
(***************************************************************************)
NoMain(s) == s.main \notin ContainerNames(s, "main") \cup {None}

\* What the lookups of preInitCallback do not find.
Missing(s) ==
  {r \in Copied(s) : \/ r[1] = "repo" /\ r[2] \notin NamesOf(job.repos)
                     \/ r[1] = "token" /\ r[2] \notin NamesOf(job.tokens)
                     \/ r[1] = "artifact" /\ r[2] \notin gathered}

\* buildJob: new volumes in a new pod, or a new root directory.
BuildJob(s) ==
  /\ todo' = Copied(s)
  /\ \E to \in [Copied(s) -> UNION {Destinations(s, r) : r \in Copied(s)}] :
       /\ \A r \in Copied(s) : to[r] \in Destinations(s, r)
       /\ dst' = [r \in Resources |-> IF r \in Copied(s) THEN to[r] ELSE dst[r]]
  /\ content' = [p \in Paths |-> "absent"]
  /\ copying' = Plain
  /\ view' = [f \in Roots |-> [p \in Points |-> Unmounted]]
  /\ started' = {}
  /\ next' = 1
  /\ UNCHANGED stray

\* BuildWithKey also makes the directories of the step's artifacts, and drops the error
\* that ends AddArtifacts; a retry calls buildJob only.
Build ==
  /\ pc = "build"
  /\ \/ Fail(<<"io">>) /\ UNCHANGED <<known, copyVars, podVars>>
     \/ /\ NoMain(Step)
        /\ Fail(<<"main">>)
        /\ UNCHANGED <<known, copyVars, podVars>>
     \/ /\ Missing(Step) # {}
        /\ Fail(First(Missing(Step)))
        /\ UNCHANGED <<known, copyVars, podVars>>
     \/ /\ ~NoMain(Step)
        /\ Missing(Step) = {}
        /\ BuildJob(Step)
        /\ pc' = "create"
        /\ UNCHANGED why
        /\ IF attempt = 1
           THEN \E made \in 0 .. Len(Step.artifacts) :
                  known' = known \cup {Step.artifacts[k].name : k \in 1 .. made}
           ELSE known' = known
  /\ UNCHANGED <<jobVars, at, attempt, gathered>>

\* A main step that is scheduled by the number of pods has no Task if its dynamic keys
\* are none.
SkipStep ==
  /\ pc = "build"
  /\ attempt = 1
  /\ at > 1
  /\ job.steps[at - 1].type = "key"
  /\ at' = at + 1
  /\ pc' = IF at = Len(job.steps) THEN "export" ELSE "build"
  /\ UNCHANGED <<jobVars, attempt, artifactVars, copyVars, podVars, why>>

-----------------------------------------------------------------------------
(***************************************************************************)
(* An attempt.                                                             *)
(***************************************************************************)
\* Mutant: the attempts are counted from zero.
RetryOnceMore ==
  /\ mode = "kubernetes"
  /\ attempt <= MaxAttempts
  /\ pc' = "build"
  /\ attempt' = attempt + 1
  /\ UNCHANGED why

\* The end of an attempt with an error: buildJob again, or the end of the run.
Retry ==
  /\ mode = "kubernetes"
  /\ attempt < MaxAttempts
  /\ pc' = "build"
  /\ attempt' = attempt + 1
  /\ UNCHANGED why

EndAttempt(reason) == Retry \/ (Fail(reason) /\ UNCHANGED attempt)

Create ==
  /\ pc = "create"
  /\ \/ /\ mode = "kubernetes" => PodAccepted(Step)
        /\ pc' = IF mode = "dryrun" THEN "run" ELSE "preinit"
        /\ next' = FirstMounted(Step)
        /\ UNCHANGED <<attempt, why>>
     \/ /\ mode = "kubernetes" /\ ~PodAccepted(Step)
        /\ Fail(<<"pod">>)
        /\ UNCHANGED <<attempt, next>>
     \/ /\ mode = "kubernetes"
        /\ EndAttempt(<<"job">>)
        /\ UNCHANGED next
  /\ UNCHANGED <<jobVars, at, artifactVars, copyVars, view, started>>

StartCopy ==
  /\ pc = "preinit"
  /\ todo # {}
  /\ copying' = First(todo)
  /\ pc' = "copying"
  /\ UNCHANGED <<jobVars, at, attempt, artifactVars, todo, dst, stray, content, podVars, why>>

\* A token without a source is an empty file.
SourceContent(r) ==
  IF r[1] = "token" /\ \E k \in DOMAIN job.tokens :
                         job.tokens[k].name = r[2] /\ job.tokens[k].sources = {}
  THEN "partial" ELSE "whole"

\* The log and the report are written after the main step.
SourceExists(r) == r[1] \in OnePerPod => Step.type = "post"

CopyEnds ==
  /\ pc = "copying"
  /\ SourceExists(copying)
  /\ content' = [content EXCEPT ![dst[copying]] = SourceContent(copying)]
  /\ todo' = todo \ {copying}
  /\ copying' = Plain
  /\ pc' = "preinit"
  /\ UNCHANGED <<jobVars, at, attempt, artifactVars, dst, stray, podVars, why>>

\* Mutant: the error of the callback is dropped in a cluster, too.
PreInitErrorDropped == pc' = "mount" /\ UNCHANGED <<attempt, why>>

\* The error of the callback ends the attempt; the local mode drops it, and goes on
\* without what was not copied.
PreInitError ==
  IF mode = "local" THEN pc' = "mount" /\ UNCHANGED <<attempt, why>>
  ELSE EndAttempt(<<"preinit">>)

CopyFails ==
  /\ pc = "copying"
  /\ \E left \in {content[dst[copying]], "partial"} :
       content' = [content EXCEPT ![dst[copying]] = left]
  /\ copying' = Plain
  /\ PreInitError
  /\ UNCHANGED <<jobVars, at, artifactVars, todo, dst, stray, podVars>>

\* Mutant: the copy that is not over in time counts as done.
CopyTimesOutQuietly ==
  /\ pc = "copying"
  /\ stray' = stray \cup {[step |-> at, attempt |-> attempt, source |-> copying,
                           path |-> dst[copying]]}
  /\ todo' = todo \ {copying}
  /\ copying' = Plain
  /\ pc' = "preinit"
  /\ UNCHANGED <<jobVars, at, attempt, artifactVars, dst, content, podVars, why>>

\* Mutant: the copy is waited for without a timeout.
CopyTimesOutNever == FALSE /\ UNCHANGED vars

\* The timeout of ten minutes, or a signal: nobody waits for the goroutine any more.
CopyTimesOut ==
  /\ pc = "copying"
  /\ stray' = stray \cup {[step |-> at, attempt |-> attempt, source |-> copying,
                           path |-> dst[copying]]}
  /\ copying' = Plain
  /\ PreInitError
  /\ UNCHANGED <<jobVars, at, artifactVars, todo, dst, content, podVars>>

\* The copy went on, into a pod that is gone unless it is of this attempt.
StrayEnds ==
  /\ \E w \in stray :
       /\ stray' = stray \ {w}
       /\ \/ UNCHANGED content
          \/ /\ w.step = at /\ w.attempt = attempt
             /\ \E left \in {"partial", SourceContent(w.source)} :
                  content' = [content EXCEPT ![w.path] = left]
  /\ UNCHANGED <<jobVars, pc, at, attempt, artifactVars, todo, dst, copying, podVars, why>>

EndPreInit ==
  /\ pc = "preinit"
  /\ todo = {}
  /\ pc' = "mount"
  /\ UNCHANGED <<jobVars, at, attempt, artifactVars, copyVars, podVars, why>>

-----------------------------------------------------------------------------
(***************************************************************************)
(* The mounts of the containers, init containers first, each of which also *)
(* runs its command.  tar finds out about a part of an archive, cp does    *)
(* not; nothing can be unpacked below a file that is still there.          *)
(***************************************************************************)
CanMount(s, k, m) ==
  content[PathOf(s, k, m)] \in
    IF MountSource(s, k, m)[1] = "repo" THEN {"whole"} ELSE {"partial", "whole"}

MountsFit(s, k) == \A m \in Served(s, k) : CanMount(s, k, m)

FileInTheWay(s, k, order) ==
  \E m, n \in Served(s, k) :
    /\ order[n] < order[m] /\ Stops(s, <<k, n>>, <<k, m>>)
    /\ KindOf(s, <<k, n>>) # "artifact"
    /\ view'[Root(s, k)][Point(s, <<k, n>>)][1] = MountSource(s, k, n)

UnpackMounts(s, k) ==
  /\ MountsFit(s, k)
  /\ \E order \in Orders(s, k), diverted \in SUBSET Divertible(s, k) :
       /\ view' = [view EXCEPT ![Root(s, k)] =
                     [p \in Points |-> Unpacked(s, k, order, diverted, p)]]
       /\ ~FileInTheWay(s, k, order)

StartInit(container) ==
  started' = IF container.group = "init" THEN started \cup {container.name} ELSE started

MountContainer ==
  /\ pc = "mount"
  /\ next \in Mounting(Step)
  /\ LET c == Step.containers[next]
     IN \/ /\ UnpackMounts(Step, next)
           /\ StartInit(c)
           /\ next' = next + 1
           /\ UNCHANGED <<pc, attempt, why>>
        \/ /\ \E m \in Served(Step, next) :
                /\ \/ ~CanMount(Step, next, m)
                   \/ \E v \in Unpackable(Step) : Stops(Step, v, <<next, m>>)
                /\ EndAttempt(<<"mount", MountSource(Step, next, m)>>)
           /\ UNCHANGED podVars
        \/ EndAttempt(<<"job">>) /\ UNCHANGED podVars
  /\ UNCHANGED <<jobVars, at, artifactVars, copyVars>>

\* The handler starts the sidecars and all main containers.
StartHandler ==
  /\ pc = "mount"
  /\ next \notin Mounting(Step)
  /\ started' = started \cup ContainerNames(Step, "main")
  /\ pc' = "run"
  /\ UNCHANGED <<jobVars, at, attempt, artifactVars, copyVars, next, view, why>>

-----------------------------------------------------------------------------
(***************************************************************************)
(* After the commands.                                                     *)
(***************************************************************************)
ArtifactsOf(s, group) ==
  {s.artifacts[k].name : k \in {m \in DOMAIN s.artifacts :
                                  s.artifacts[m].container \in group}}

\* Nobody unpacks anything for the finalizer.
RunFinalizer ==
  /\ pc = "run"
  /\ started' = started \cup ContainerNames(Step, "final")
  /\ pc' = "finished"
  /\ UNCHANGED <<jobVars, at, attempt, artifactVars, copyVars, next, view, why>>

\* A failed pre- or poststep ends the run, a main step with failures does not; copies
\* of artifacts may be missing (a dry run makes none).
EndStep ==
  /\ pc = "finished"
  /\ \/ /\ \E got \in SUBSET (ArtifactsOf(Step, ContainerNames(Step, "main")) \cap known) :
             /\ mode = "dryrun" => got = {}
             /\ gathered' = gathered \cup got
        /\ at' = at + 1
        /\ attempt' = 1
        /\ pc' = IF at = Len(job.steps) THEN "export" ELSE "build"
        /\ started' = {}
        /\ UNCHANGED why
     \/ EndAttempt(<<"job">>) /\ UNCHANGED <<at, gathered, started>>
  /\ UNCHANGED <<jobVars, known, copyVars, next, view>>

Export ==
  /\ pc = "export"
  /\ \/ job.exports \subseteq known /\ pc' = "done" /\ UNCHANGED why
     \/ \E a \in job.exports \ known : Fail(<<"artifact", a>>)
     \/ Fail(<<"io">>)
  /\ UNCHANGED <<jobVars, at, attempt, artifactVars, copyVars, podVars>>

Next ==
  \/ Validate \/ Setup \/ Build \/ SkipStep \/ Create
  \/ StartCopy \/ CopyEnds \/ CopyFails \/ CopyTimesOut \/ StrayEnds \/ EndPreInit
  \/ MountContainer \/ StartHandler \/ RunFinalizer \/ EndStep \/ Export

\* The main goroutine goes on, commands end, and a timer fires.  A copy need not end.
Fairness ==
  WF_vars(\/ Validate \/ Setup \/ Build \/ Create \/ StartCopy \/ CopyTimesOut
          \/ EndPreInit \/ MountContainer \/ StartHandler \/ RunFinalizer \/ EndStep
          \/ Export)

Spec == Init /\ [][Next]_vars
FairSpec == Spec /\ Fairness
-----------------------------------------------------------------------------
(***************************************************************************)
(* Properties                                                              *)
(***************************************************************************)

\* Every variable keeps its type.
TypeOK ==
  /\ job \in Jobs
  /\ mode \in Modes
  /\ pc \in {"validate", "setup", "build", "create", "preinit", "copying", "mount",
            "run", "finished", "export", "rejected", "failed", "done"}
  /\ at \in Nat \ {0}
  /\ attempt \in 1 .. MaxAttempts
  /\ gathered \subseteq known
  /\ todo \subseteq Resources
  /\ dst \in [Resources -> Paths]
  /\ copying \in todo \cup {Plain}
  /\ stray \subseteq [step : Nat, attempt : 1 .. MaxAttempts, source : Resources, path : Paths]
  /\ content \in [Paths -> {"absent", "partial", "whole"}]
  /\ next \in Nat \ {0}
  /\ view \in Views
  /\ started \subseteq Names

\* Another mount of the file system may be unpacked over u, or is in the way of u.
Disturbed(s, u) == \E v \in Unpackable(s) : Removes(s, v, u) \/ Diverts(s, v, u)

\* What the mount points of container k have got.
Seen(k) ==
  \A m \in Served(Step, k) :
    \/ Disturbed(Step, <<k, m>>)
    \/ \E found \in {"partial", "whole"} :
         /\ view[Root(Step, k)][Point(Step, <<k, m>>)] = <<MountSource(Step, k, m), found>>
         /\ mode = "kubernetes" => found = "whole"

\* When the command of a container starts, each of its mounts that counts is at its
\* mount point, and in a cluster nothing of it is missing and no copy that was given up
\* can still write into the pod.  The exceptions: a mount point in or around another one,
\* of this container (in a cluster) or of any (in the root directory of a local job), if
\* the other may come later and removes it, or has made a directory of it; the local mode
\* may leave a part, since it drops the error of a copy; and a finalizer, whose mounts
\* nobody unpacks.
CommandsSeeMounts ==
  at <= Len(job.steps) /\ mode # "dryrun" =>
    \A k \in Mounting(Step) :
      Step.containers[k].name \in started =>
        /\ Seen(k)
        /\ mode = "kubernetes" => \A w \in stray : w.step # at \/ w.attempt # attempt

\* What a validated job names is there when it is looked up: a step fails for a name
\* only if it is that of an artifact of an earlier step (which has made no directory,
\* had no Task, or has copied nothing), that of template.main, or a token of a repository
\* with a clonedPath; and a log or report is copied only after it was written.
NamesAreKnown ==
  /\ why[1] \notin {"repo", "token"}
  /\ why[1] = "artifact" => why[2] \in ArtifactNames(job, at)
  /\ why[1] = "clone" => why[2].clonedPath = "set"
  /\ copying # Plain => SourceExists(copying)

\* Two containers reach the resource through different volumes.
Split(s, r) ==
  \E k, n \in DOMAIN s.containers :
    \E i \in Served(s, k), j \in Served(s, n) :
      /\ MountSource(s, k, i) = r
      /\ MountSource(s, n, j) = r
      /\ PathOf(s, k, i) # PathOf(s, n, j)

\* The resource is mounted below another mount that may be a file.
BelowFile(s, r) ==
  \E u, v \in Unpackable(s) : MountSource(s, u[1], u[2]) = r /\ Stops(s, v, u)

\* In a cluster a mount whose copies have all succeeded fails for two reasons only: another
\* container mounts the resource through another volume, and the copy went there; or the
\* mount point lies below that of a file of the same container.
MountFailureHasReason ==
  why[1] = "mount" /\ mode = "kubernetes" => Split(Step, why[2]) \/ BelowFile(Step, why[2])

\* Every run ends, even if copies into a pod never do.
RunEnds == <>(pc \in {"rejected", "failed", "done"})
-----------------------------------------------------------------------------
(***************************************************************************)
(* Why commands see their mounts: an inductive invariant.                  *)
(***************************************************************************)
InPod == {"create", "preinit", "copying", "mount"}

\* What is known where the run is.
PlaceInv ==
  /\ pc \notin {"validate", "rejected"} => ValidJob(job)
  /\ pc # "failed" => why = <<"none">>
  /\ pc \notin {"export", "done", "failed"} => at \in DOMAIN job.steps
  /\ pc = "export" => at = Len(job.steps) + 1
  /\ pc = "copying" <=> copying # Plain

\* Nothing is started in a pod before its copies are over, nor in a local job before all
\* mounts.
StartInv ==
  /\ pc = "mount" /\ mode # "kubernetes" => started = {}
  /\ pc \in {"validate", "setup", "create", "preinit", "copying"} => started = {}
  /\ pc = "build" /\ attempt = 1 => started = {}

\* In a cluster, what has been copied is whole and at a path of a container that uses it,
\* and nothing else is in the volumes.
CopyInv ==
  /\ pc \in InPod => todo \subseteq Copied(Step)
  /\ pc \in InPod /\ mode = "kubernetes" =>
       /\ \A p \in Paths : content[p] # "partial"
       /\ \A r \in Copied(Step) : dst[r] \in Destinations(Step, r)
       /\ \A r \in Copied(Step) \ todo : content[dst[r]] = "whole"
       /\ pc = "mount" => todo = {}

\* A copy that was given up is of an earlier attempt, or the run has failed.
StrayInv ==
  mode = "kubernetes" /\ pc # "failed" =>
    \A w \in stray : w.step < at \/ (w.step = at /\ w.attempt < attempt)

\* The containers before the next one have got their mounts.
MountInv ==
  /\ pc \in {"preinit", "copying"} => next = FirstMounted(Step)
  /\ pc = "mount" => FirstMounted(Step) <= next
  /\ pc \in {"mount", "run", "finished"} /\ mode # "dryrun" =>
       /\ next = 1 \/ next - 1 \in Mounting(Step)
       /\ \A k \in Mounting(Step) : FirstMounted(Step) <= k /\ k < next => Seen(k)
       /\ pc # "mount" => next \notin Mounting(Step)

MInv ==
  /\ TypeOK
  /\ PlaceInv
  /\ StartInv
  /\ CopyInv
  /\ StrayInv
  /\ MountInv
  /\ CommandsSeeMounts
  /\ NamesAreKnown
  /\ MountFailureHasReason
-----------------------------------------------------------------------------
(***************************************************************************)
(* Why a run ends, although copies may not: what is left to do gets less,  *)
(* of the job, of the attempts of a step, of an attempt, or of its copies  *)
(* and mounts.                                                             *)
(***************************************************************************)
StepsLeft == Len(job.steps) + 1 - at
AttemptsLeft == MaxAttempts - attempt

PlaceLeft == CASE pc = "validate"               -> 9
               [] pc = "setup"                  -> 8
               [] pc = "build"                  -> 7
               [] pc = "create"                 -> 6
               [] pc \in {"preinit", "copying"} -> 5
               [] pc = "mount"                  -> 4
               [] pc = "run"                    -> 3
               [] pc = "finished"               -> 2
               [] pc = "export"                 -> 1
               [] OTHER                         -> 0

ToMount == {k \in Mounting(Step) : next <= k}

TurnsLeft == CASE pc = "preinit" -> 2 * Cardinality(todo)
               [] pc = "copying" -> 2 * Cardinality(todo) - 1
               [] pc = "mount"   -> Cardinality(ToMount)
               [] OTHER          -> 0

RunLeft == <<StepsLeft, AttemptsLeft, PlaceLeft, TurnsLeft>>

Lower(v, w) == \E i \in 1 .. 4 : v[i] < w[i] /\ \A j \in 1 .. i - 1 : v[j] = w[j]

Advances == RunLeft \in Nat \X Nat \X Nat \X Nat /\ Lower(RunLeft', RunLeft)

\* Every step of the run leaves less to do: no copy, retry or mount comes up again for
\* ever.  What a copy that was given up does meanwhile costs the run nothing.
RunAdvances ==
  [][Advances \/ (RunLeft' = RunLeft /\ stray' \subseteq stray /\ stray' # stray)]_vars
=============================================================================

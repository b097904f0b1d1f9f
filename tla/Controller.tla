------------------------------- MODULE Controller -------------------------------
(***************************************************************************)
(* TestJobReconciler: the controllers that watch one TestJob by its name,  *)
(* mark it as running with an optimistic update and run it in a goroutine, *)
(* which deletes it by its name at the end.  The API server, the informer  *)
(* and the work queue of controller-runtime are external: a controller     *)
(* reads a cache that lags behind the API server, a failed Reconcile is    *)
(* queued again, and a restarted controller lists the objects afresh.      *)
(***************************************************************************)
EXTENDS Integers

CONSTANTS
  Managers,           \* controller processes; leader election is off by default
  MaxJobs,            \* bound: how often users create the TestJob
  MaxEdits,           \* bound: how often they change the spec of one
  MaxFaults           \* bound: crashes, failed and unanswered requests

ASSUME MaxJobsAssumption == MaxJobs \in Nat
ASSUME MaxEditsAssumption == MaxEdits \in Nat
ASSUME MaxFaultsAssumption == MaxFaults \in Nat

VARIABLES
  api,      \* the TestJob in the API server; uid 0 when there is none
  written,  \* every state the API server has stored
  created,  \* TestJobs created so far; the last one's uid
  meddled,  \* a user has deleted a TestJob while it was run
  up,       \* up[m]: process m is alive
  cache,    \* cache[m]: the TestJob in the informer's cache
  queued,   \* queued[m]: a request for the TestJob is in the work queue
  job,      \* job[m]: the local variable of Reconcile between Get and Update
  runs,     \* the goroutines of runTestJob
  started,  \* started[u]: runs ever started for the TestJob with uid u
  stuck,    \* uids whose run or answer got lost, or whose deletion failed
  faults    \* faults so far

apiVars == <<api, written>>
managerVars == <<up, cache, queued, job>>
runVars == <<runs, started, stuck>>
vars == <<apiVars, created, meddled, managerVars, runVars, faults>>

Uids == 1 .. MaxJobs
Jobs == [version : Nat, uid : 0 .. MaxJobs, spec : 0 .. MaxEdits, running : BOOLEAN]
NoJob == [version |-> 0, uid |-> 0, spec |-> 0, running |-> FALSE]
Exists(j) == j.uid # 0
Runs == [manager : Managers, uid : Uids, spec : 0 .. MaxEdits]

Init ==
  /\ api = NoJob
  /\ written = {NoJob}
  /\ created = 0
  /\ meddled = FALSE
  /\ up = [m \in Managers |-> TRUE]
  /\ cache = [m \in Managers |-> NoJob]
  /\ queued = [m \in Managers |-> FALSE]
  /\ job = [m \in Managers |-> NoJob]
  /\ runs = {}
  /\ started = [u \in Uids |-> 0]
  /\ stuck = {}
  /\ faults = 0

-----------------------------------------------------------------------------
(***************************************************************************)
(* The API server stores every change under a new resource version.        *)
(***************************************************************************)
Store(j) ==
  /\ api' = [j EXCEPT !.version = api.version + 1]
  /\ written' = written \cup {api'}

Create ==
  /\ ~Exists(api)
  /\ created < MaxJobs
  /\ created' = created + 1
  /\ Store([NoJob EXCEPT !.uid = created + 1])
  /\ UNCHANGED <<meddled, managerVars, runVars, faults>>

\* kubectl apply or edit: the status is kept.
Edit ==
  /\ Exists(api)
  /\ api.spec < MaxEdits
  /\ Store([api EXCEPT !.spec = @ + 1])
  /\ UNCHANGED <<created, meddled, managerVars, runVars, faults>>

Remove ==
  /\ Exists(api)
  /\ Store(NoJob)
  /\ meddled' = (meddled \/ \E r \in runs : r.uid = api.uid)
  /\ UNCHANGED <<created, managerVars, runVars, faults>>

\* The informer moves on to a later state, and its event queues a request.
Watch(m) ==
  /\ up[m]
  /\ \E w \in written :
       /\ w.version > cache[m].version
       /\ cache' = [cache EXCEPT ![m] = w]
  /\ queued' = [queued EXCEPT ![m] = TRUE]
  /\ UNCHANGED <<apiVars, created, meddled, up, job, runVars, faults>>

(***************************************************************************)
(* Reconcile: Get answers from the cache.                                  *)
(***************************************************************************)
Get(m) ==
  /\ up[m]
  /\ ~Exists(job[m])
  /\ queued[m]
  /\ queued' = [queued EXCEPT ![m] = FALSE]
  /\ job' = IF Exists(cache[m]) /\ ~cache[m].running
            THEN [job EXCEPT ![m] = [cache[m] EXCEPT !.running = TRUE]]
            ELSE job
  /\ UNCHANGED <<apiVars, created, meddled, up, cache, runVars, faults>>

Fault == faults < MaxFaults /\ faults' = faults + 1

\* Mutant: a patch without a resource version, which is always accepted.
AcceptedBlindly(m) == Exists(api) /\ Store(job[m])

\* The API server accepts an update of the version it holds, and no other.
Accepted(m) == api.version = job[m].version /\ Store(job[m])

StartRun(m) ==
  /\ Accepted(m)
  /\ runs' = runs \cup {[manager |-> m, uid |-> job[m].uid, spec |-> job[m].spec]}
  /\ started' = [started EXCEPT ![job[m].uid] = @ + 1]
  /\ UNCHANGED <<queued, stuck, faults>>

Requeue(m) == queued' = [queued EXCEPT ![m] = TRUE] /\ UNCHANGED <<runs, started>>

Conflict(m) ==
  /\ api.version # job[m].version
  /\ Requeue(m)
  /\ UNCHANGED <<apiVars, stuck, faults>>

RequestFails(m) ==
  /\ Fault
  /\ Requeue(m)
  /\ UNCHANGED <<apiVars, stuck>>

\* The update is stored, but the answer is an error (a timeout).
AnswerLost(m) ==
  /\ Fault
  /\ Accepted(m)
  /\ stuck' = stuck \cup {job[m].uid}
  /\ Requeue(m)

Update(m) ==
  /\ Exists(job[m])
  /\ job' = [job EXCEPT ![m] = NoJob]
  /\ StartRun(m) \/ Conflict(m) \/ RequestFails(m) \/ AnswerLost(m)
  /\ UNCHANGED <<created, meddled, up, cache>>

(***************************************************************************)
(* runTestJob ends, with a report or an error, and deletes by name: the    *)
(* TestJob that has the name now, whatever its uid.  Reconcile has long    *)
(* returned, so an error is seen by nobody.                                *)
(***************************************************************************)
\* Mutant: the TestJob is not deleted.
NotDeleted == UNCHANGED apiVars

Deleted == IF Exists(api) THEN Store(NoJob) ELSE UNCHANGED apiVars

EndRun(r) ==
  /\ r \in runs
  /\ runs' = runs \ {r}
  /\ \/ Deleted /\ UNCHANGED <<stuck, faults>>
     \/ Fault /\ stuck' = stuck \cup {r.uid} /\ UNCHANGED apiVars
  /\ UNCHANGED <<created, meddled, managerVars, started>>

(***************************************************************************)
(* A process dies with its queue, its Reconcile and its goroutines.        *)
(***************************************************************************)
RunsOf(m) == {r \in runs : r.manager = m}

Crash(m) ==
  /\ up[m]
  /\ Fault
  /\ up' = [up EXCEPT ![m] = FALSE]
  /\ queued' = [queued EXCEPT ![m] = FALSE]
  /\ job' = [job EXCEPT ![m] = NoJob]
  /\ runs' = runs \ RunsOf(m)
  /\ stuck' = stuck \cup {r.uid : r \in RunsOf(m)}
  /\ UNCHANGED <<apiVars, created, meddled, cache, started>>

Restart(m) ==
  /\ ~up[m]
  /\ up' = [up EXCEPT ![m] = TRUE]
  /\ cache' = [cache EXCEPT ![m] = api]
  /\ queued' = [queued EXCEPT ![m] = Exists(api)]
  /\ UNCHANGED <<apiVars, created, meddled, job, runVars, faults>>

UserStep == Create \/ Edit \/ Remove
ManagerStep(m) == Watch(m) \/ Get(m) \/ Update(m) \/ Crash(m) \/ Restart(m)
Next == UserStep \/ (\E m \in Managers : ManagerStep(m)) \/ \E r \in runs : EndRun(r)

(***************************************************************************)
(* Fairness: informers catch up, queued requests are handled, runs end and *)
(* dead processes are restarted.  Users do as they please, and no fault    *)
(* has to happen.                                                          *)
(***************************************************************************)
Fairness ==
  /\ \A m \in Managers : /\ WF_vars(Watch(m))
                         /\ WF_vars(Get(m))
                         /\ WF_vars(Update(m))
                         /\ WF_vars(Restart(m))
  /\ \A r \in Runs : WF_vars(EndRun(r))

Spec == Init /\ [][Next]_vars
FairSpec == Spec /\ Fairness

-----------------------------------------------------------------------------
(***************************************************************************)
(* Properties                                                              *)
(***************************************************************************)

\* Every variable keeps its type.
TypeOK ==
  /\ api \in Jobs
  /\ written \subseteq Jobs
  /\ created \in 0 .. MaxJobs
  /\ meddled \in BOOLEAN
  /\ up \in [Managers -> BOOLEAN]
  /\ cache \in [Managers -> Jobs]
  /\ queued \in [Managers -> BOOLEAN]
  /\ job \in [Managers -> Jobs]
  /\ runs \subseteq Runs
  /\ started \in [Uids -> Nat]
  /\ stuck \subseteq Uids
  /\ faults \in 0 .. MaxFaults

\* A TestJob is run at most once, however stale the caches are, whatever is
\* queued again, and also when two controllers are active or one is restarted.
AtMostOneRun == \A u \in Uids : started[u] <= 1

\* The two directions of the mark.
RunsAreMarked == \A r \in runs : api.uid = r.uid => api.running
MarkHasReason ==
  api.running => api.uid \in stuck \/ \E r \in runs : r.uid = api.uid

\* The mark matches the runs: a run that is going on has marked its TestJob (if it
\* is still there, no other controller can take it up), and a mark without a run
\* has a reason: a crash, a lost answer to the update that set it, or a deletion
\* that failed.  A conflict or a stale read never leaves one.
MarkMatchesRuns == RunsAreMarked /\ MarkHasReason

\* A run starts from the spec that is in the API server at that moment, never
\* from one that an edit has replaced since it was read.
RunsAreFresh ==
  [][\A r \in runs' \ runs :
       /\ api.uid = r.uid /\ api.spec = r.spec /\ ~api.running
       /\ api'.uid = r.uid /\ api'.running]_vars

\* A run deletes its own TestJob and no other, although it deletes by name and long
\* after it has read the object, unless a user has deleted a TestJob while it was run:
\* then the run that is left deletes the next one that gets the name.
DeletesItsOwn ==
  [][\A r \in runs : EndRun(r) => api' = api \/ api.uid = r.uid \/ meddled]_vars

\* A TestJob does not stay: it is run and deleted, or a fault got it stuck.
EveryJobSettles ==
  \A u \in Uids : api.uid = u ~> api.uid # u \/ u \in stuck

\* "Whether the testjob is running".  (Broken: nobody takes back a mark, so it
\* outlives a crash, a failed deletion and an unanswered update.)
RunningMeansRunning == api.running => \E r \in runs : r.uid = api.uid

-----------------------------------------------------------------------------
(***************************************************************************)
(* The inductive invariant of the proofs.                                  *)
(***************************************************************************)

\* A version names one state, and the API server holds the latest.
VersionInv ==
  /\ api \in written
  /\ \A w \in written : /\ w.version <= api.version
                        /\ w.version = api.version => w = api
                        /\ w.running => Exists(w)

\* What controllers know was stored once; what they write adds the mark.
ReadInv ==
  \A m \in Managers :
    /\ cache[m] \in written
    /\ Exists(job[m]) => /\ job[m].running
                         /\ [job[m] EXCEPT !.running = FALSE] \in written

\* A TestJob that was started once is marked for as long as it exists.
StartInv ==
  /\ api.uid <= created
  /\ \A u \in Uids : /\ started[u] <= 1
                     /\ started[u] = 1 => u <= created /\ (api.uid = u => api.running)
  /\ \A r \in runs : started[r.uid] = 1

CInv == TypeOK /\ VersionInv /\ ReadInv /\ StartInv /\ MarkHasReason

\* As long as users leave running TestJobs alone, a run has its TestJob until it ends, so
\* no two runs go on at once: the one name is taken.
OwnInv ==
  ~meddled =>
    \A r \in runs : api.uid = r.uid /\ \A s \in runs : s = r
=============================================================================

---------------------------- MODULE ControllerProofs ----------------------------
(***************************************************************************)
(* Theorems about Controller, for every number of controllers, TestJobs,   *)
(* edits and faults.                                                       *)
(***************************************************************************)
EXTENDS Controller, TLAPS

USE MaxJobsAssumption, MaxEditsAssumption, MaxFaultsAssumption

\* The initial state satisfies the invariant.
LEMMA InitCInv == Init => CInv
<1> SUFFICES ASSUME Init PROVE CInv
  OBVIOUS
<1>1. NoJob \in Jobs /\ ~Exists(NoJob) /\ ~NoJob.running /\ NoJob.uid = 0
  BY DEF NoJob, Jobs, Exists
<1>7. meddled \in BOOLEAN
  BY Zenon DEF Init
<1>2. TypeOK
  BY <1>1, <1>7 DEF Init, TypeOK
<1>3. VersionInv
  BY <1>1, NoJob.version <= NoJob.version DEF Init, VersionInv, NoJob
<1>4. ReadInv /\ StartInv /\ MarkHasReason
  BY <1>1 DEF Init, ReadInv, StartInv, MarkHasReason
<1> QED BY <1>2, <1>3, <1>4 DEF CInv

(***************************************************************************)
(* Changes in the API server.                                              *)
(***************************************************************************)

\* A stored state is the latest; what was stored before stays stored.
LEMMA StoreFacts ==
  ASSUME CInv, NEW j \in Jobs, j.running => Exists(j), Store(j)
  PROVE  /\ api' \in Jobs /\ written' \subseteq Jobs
         /\ written \subseteq written'
         /\ api'.uid = j.uid /\ api'.spec = j.spec /\ api'.running = j.running
         /\ VersionInv'
<1>1. TypeOK /\ VersionInv
  BY DEF CInv
<1>2. api.version \in Nat /\ \A w \in written : w.version \in Nat
  BY <1>1 DEF TypeOK, Jobs
<1>3. /\ api' = [j EXCEPT !.version = api.version + 1]
      /\ written' = written \cup {api'}
  BY DEF Store
<1>4. api' \in Jobs
  BY <1>2, <1>3 DEF Jobs
<1>5. /\ api'.version = api.version + 1
      /\ api'.uid = j.uid /\ api'.spec = j.spec /\ api'.running = j.running
  BY <1>3 DEF Jobs
<1>6. VersionInv'
  <2>1. api' \in written'
    BY <1>3
  <2>2. \A w \in written' : w.version <= api'.version /\ (w.version = api'.version => w = api')
    <3>1. \A w \in written : w.version <= api.version
      BY <1>1 DEF VersionInv
    <3>2. \A w \in written : w.version < api'.version
      BY <1>2, <1>5, <3>1
    <3>3. api'.version <= api'.version
      BY <1>2, <1>5
    <3>4. \A w \in written : w.version <= api'.version /\ w.version # api'.version
      BY <1>2, <1>5, <3>2
    <3>5. written' = written \cup {api'}
      BY <1>3
    <3> QED BY <3>3, <3>4, <3>5, Zenon
  <2>3. \A w \in written' : w.running => Exists(w)
    <3>1. \A w \in written : w.running => Exists(w)
      BY <1>1 DEF VersionInv
    <3>2. api'.running => Exists(api')
      BY <1>5 DEF Exists
    <3> QED BY <1>3, <3>1, <3>2, Zenon
  <2> QED BY <2>1, <2>2, <2>3 DEF VersionInv
<1> QED BY <1>1, <1>3, <1>4, <1>5, <1>6 DEF TypeOK

\* Controllers keep what they know when the API server changes.
LEMMA ReadKept ==
  ASSUME ReadInv, written \subseteq written', UNCHANGED managerVars
  PROVE  ReadInv'
BY DEF ReadInv, managerVars, Exists

\* Users create, change and delete the TestJob.
LEMMA UserCInv ==
  ASSUME CInv, UserStep
  PROVE  CInv'
<1>1. TypeOK /\ VersionInv /\ ReadInv /\ StartInv /\ MarkHasReason
  BY DEF CInv
<1>2. CASE Create
  <2> DEFINE j == [NoJob EXCEPT !.uid = created + 1]
  <2>1. /\ j \in Jobs /\ j.uid = created + 1 /\ ~j.running /\ created + 1 \in Uids
        /\ created \in Nat
    <3>1. NoJob \in Jobs /\ ~NoJob.running
      BY DEF NoJob, Jobs
    <3>2. created \in Nat /\ created + 1 \in 1 .. MaxJobs
      BY <1>1, <1>2 DEF TypeOK, Create
    <3> QED BY <3>1, <3>2 DEF Jobs, Uids
  <2>2. Store(j) /\ created' = created + 1 /\ UNCHANGED <<meddled, managerVars, runVars, faults>>
    BY <1>2 DEF Create
  <2> HIDE DEF j
  <2>3. /\ api' \in Jobs /\ written' \subseteq Jobs /\ written \subseteq written'
        /\ api'.uid = created + 1 /\ ~api'.running
        /\ VersionInv'
    BY <2>1, <2>2, StoreFacts
  <2>4. TypeOK'
    BY <1>1, <2>1, <2>2, <2>3 DEF TypeOK, managerVars, runVars, Uids
  <2>5. ReadInv'
    BY <1>1, <2>2, <2>3, ReadKept
  <2>6. StartInv'
    BY <1>1, <2>1, <2>2, <2>3 DEF StartInv, runVars, TypeOK, Uids
  <2>7. MarkHasReason'
    BY <2>3 DEF MarkHasReason
  <2> QED BY <2>3, <2>4, <2>5, <2>6, <2>7 DEF CInv
<1>3. CASE Edit
  <2> DEFINE j == [api EXCEPT !.spec = @ + 1]
  <2>1. j \in Jobs /\ j.uid = api.uid /\ j.running = api.running /\ Exists(j)
    BY <1>1, <1>3 DEF TypeOK, Edit, Jobs, Exists
  <2>2. Store(j) /\ UNCHANGED <<created, meddled, managerVars, runVars, faults>>
    BY <1>3 DEF Edit
  <2> HIDE DEF j
  <2>3. /\ api' \in Jobs /\ written' \subseteq Jobs /\ written \subseteq written'
        /\ api'.uid = api.uid /\ api'.running = api.running
        /\ VersionInv'
    BY <2>1, <2>2, StoreFacts
  <2>4. TypeOK'
    BY <1>1, <2>2, <2>3 DEF TypeOK, managerVars, runVars
  <2>5. ReadInv'
    BY <1>1, <2>2, <2>3, ReadKept
  <2>6. StartInv'
    BY <1>1, <2>2, <2>3 DEF StartInv, runVars
  <2>7. MarkHasReason'
    BY <1>1, <2>2, <2>3 DEF MarkHasReason, runVars
  <2> QED BY <2>3, <2>4, <2>5, <2>6, <2>7 DEF CInv
<1>4. CASE Remove
  <2>1. NoJob \in Jobs /\ NoJob.uid = 0 /\ ~NoJob.running
    BY DEF NoJob, Jobs
  <2>2. Store(NoJob) /\ UNCHANGED <<created, managerVars, runVars, faults>> /\ meddled' \in BOOLEAN
    BY <1>1, <1>4 DEF Remove, TypeOK
  <2>3. /\ api' \in Jobs /\ written' \subseteq Jobs /\ written \subseteq written'
        /\ api'.uid = 0 /\ ~api'.running
        /\ VersionInv'
    BY <2>1, <2>2, StoreFacts
  <2>4. TypeOK'
    BY <1>1, <2>2, <2>3 DEF TypeOK, managerVars, runVars
  <2>5. ReadInv'
    BY <1>1, <2>2, <2>3, ReadKept
  <2>6. StartInv'
    BY <1>1, <2>2, <2>3 DEF StartInv, runVars, TypeOK, Uids
  <2>7. MarkHasReason'
    BY <2>3 DEF MarkHasReason
  <2> QED BY <2>3, <2>4, <2>5, <2>6, <2>7 DEF CInv
<1> QED BY <1>2, <1>3, <1>4 DEF UserStep

(***************************************************************************)
(* What the controllers do.                                                *)
(***************************************************************************)

\* An accepted update marks the TestJob that Reconcile has read, unchanged
\* since and unmarked until then.
LEMMA AcceptFacts ==
  ASSUME CInv, NEW m \in Managers, Exists(job[m]), Accepted(m)
  PROVE  /\ api = [job[m] EXCEPT !.running = FALSE]
         /\ ~api.running /\ api.uid = job[m].uid /\ api.spec = job[m].spec
         /\ job[m].uid \in Uids /\ job[m].uid <= created
         /\ started[job[m].uid] = 0
         /\ api' \in Jobs /\ written' \subseteq Jobs /\ written \subseteq written'
         /\ api'.uid = job[m].uid /\ api'.running
         /\ VersionInv'
<1>1. TypeOK /\ VersionInv /\ ReadInv /\ StartInv
  BY DEF CInv
<1>2. job[m] \in Jobs /\ job[m].running /\ [job[m] EXCEPT !.running = FALSE] \in written
  BY <1>1 DEF TypeOK, ReadInv
<1>3. api = [job[m] EXCEPT !.running = FALSE]
  <2>1. api.version = [job[m] EXCEPT !.running = FALSE].version
    BY <1>2 DEF Accepted, Jobs
  <2> QED BY <1>1, <1>2, <2>1 DEF VersionInv
<1>4. ~api.running /\ api.uid = job[m].uid /\ api.spec = job[m].spec
  BY <1>2, <1>3 DEF Jobs
<1>5. job[m].uid \in Uids /\ job[m].uid <= created
  BY <1>1, <1>2, <1>4 DEF Exists, Jobs, Uids, StartInv
<1>6. started[job[m].uid] = 0
  <2>1. started[job[m].uid] # 1
    BY <1>1, <1>4, <1>5 DEF StartInv
  <2>2. started[job[m].uid] \in Nat /\ started[job[m].uid] <= 1
    BY <1>1, <1>5 DEF StartInv, TypeOK
  <2> QED BY <2>1, <2>2
<1>7. /\ api' \in Jobs /\ written' \subseteq Jobs /\ written \subseteq written'
      /\ api'.uid = job[m].uid /\ api'.running
      /\ VersionInv'
  BY <1>2, StoreFacts DEF Accepted
<1> QED BY <1>3, <1>4, <1>5, <1>6, <1>7

\* Reconcile is done with its job; queued or not, the others keep theirs.
LEMMA JobDone ==
  ASSUME CInv, NEW m \in Managers, written \subseteq written',
         job' = [job EXCEPT ![m] = NoJob], UNCHANGED cache
  PROVE  ReadInv' /\ job' \in [Managers -> Jobs]
<1>1. ReadInv /\ job \in [Managers -> Jobs]
  BY DEF CInv, TypeOK
<1>2. NoJob \in Jobs /\ ~Exists(NoJob)
  BY DEF NoJob, Jobs, Exists
<1>3. job' \in [Managers -> Jobs]
  BY <1>1, <1>2
<1>4. \A n \in Managers : job'[n] = IF n = m THEN NoJob ELSE job[n]
  BY <1>1
<1> QED BY <1>1, <1>2, <1>3, <1>4 DEF ReadInv

\* Reconcile reads the cache, or has its update answered.
LEMMA UpdateCInv ==
  ASSUME CInv, NEW m \in Managers, Update(m)
  PROVE  CInv'
<1>1. TypeOK /\ VersionInv /\ ReadInv /\ StartInv /\ MarkHasReason
  BY DEF CInv
<1>2. /\ Exists(job[m]) /\ job' = [job EXCEPT ![m] = NoJob]
      /\ created' = created /\ meddled' = meddled /\ up' = up /\ cache' = cache
  BY DEF Update
<1>3. CASE StartRun(m)
  <2> DEFINE u == job[m].uid
             r == [manager |-> m, uid |-> u, spec |-> job[m].spec]
  <2>1. /\ Accepted(m) /\ runs' = runs \cup {r}
        /\ started' = [started EXCEPT ![u] = @ + 1]
        /\ queued' = queued /\ stuck' = stuck /\ faults' = faults
    BY <1>3 DEF StartRun
  <2>2. /\ u \in Uids /\ u <= created /\ started[u] = 0
        /\ api' \in Jobs /\ written' \subseteq Jobs /\ written \subseteq written'
        /\ api'.uid = u /\ api'.running
        /\ VersionInv'
    BY <1>2, <2>1, AcceptFacts
  <2>3. r \in Runs /\ r.uid = u
    BY <1>1, <2>2 DEF Runs, TypeOK, Jobs
  <2>4. ReadInv' /\ job' \in [Managers -> Jobs]
    BY <1>2, <2>2, JobDone
  <2> HIDE DEF r, u
  <2>5. started' \in [Uids -> Nat] /\ started'[u] = 1
        /\ \A v \in Uids : v # u => started'[v] = started[v]
    BY <1>1, <2>1, <2>2 DEF TypeOK
  <2>6. TypeOK'
    BY <1>1, <1>2, <2>1, <2>2, <2>3, <2>4, <2>5 DEF TypeOK
  <2>7. StartInv'
    <3>1. api'.uid <= created' /\ created' = created
      BY <1>2, <2>2
    <3>2. \A v \in Uids : /\ started'[v] <= 1
                          /\ started'[v] = 1 => v <= created' /\ (api'.uid = v => api'.running)
      BY <1>1, <2>2, <2>5, <3>1 DEF StartInv
    <3>3. \A s \in runs' : started'[s.uid] = 1
      <4> SUFFICES ASSUME NEW s \in runs' PROVE started'[s.uid] = 1
        OBVIOUS
      <4>1. CASE s = r
        BY <2>3, <2>5, <4>1
      <4>2. CASE s \in runs
        <5>1. s.uid \in Uids /\ started[s.uid] = 1
          BY <1>1, <4>2 DEF TypeOK, Runs, StartInv
        <5> QED BY <2>2, <2>5, <5>1
      <4> QED BY <2>1, <4>1, <4>2
    <3> QED BY <3>1, <3>2, <3>3 DEF StartInv
  <2>8. MarkHasReason'
    BY <2>1, <2>2, <2>3 DEF MarkHasReason
  <2> QED BY <2>2, <2>4, <2>6, <2>7, <2>8 DEF CInv
<1>4. CASE Conflict(m) \/ RequestFails(m)
  <2>1. /\ api' = api /\ written' = written /\ runs' = runs /\ started' = started
        /\ stuck' = stuck /\ queued' = [queued EXCEPT ![m] = TRUE]
        /\ faults' \in 0 .. MaxFaults
    BY <1>1, <1>4 DEF Conflict, RequestFails, Requeue, Fault, apiVars, TypeOK
  <2>2. ReadInv' /\ job' \in [Managers -> Jobs]
    BY <1>2, <2>1, JobDone
  <2>3. TypeOK'
    BY <1>1, <1>2, <2>1, <2>2 DEF TypeOK
  <2>4. VersionInv' /\ StartInv' /\ MarkHasReason'
    BY <1>1, <1>2, <2>1 DEF VersionInv, StartInv, MarkHasReason
  <2> QED BY <2>2, <2>3, <2>4 DEF CInv
<1>5. CASE AnswerLost(m)
  <2> DEFINE u == job[m].uid
  <2>1. /\ Accepted(m) /\ runs' = runs /\ started' = started /\ stuck' = stuck \cup {u}
        /\ queued' = [queued EXCEPT ![m] = TRUE] /\ faults' \in 0 .. MaxFaults
    BY <1>1, <1>5 DEF AnswerLost, Requeue, Fault, TypeOK
  <2>2. /\ u \in Uids /\ u <= created /\ started[u] = 0
        /\ api' \in Jobs /\ written' \subseteq Jobs /\ written \subseteq written'
        /\ api'.uid = u /\ api'.running /\ api.uid = u
        /\ VersionInv'
    BY <1>2, <2>1, AcceptFacts
  <2>3. ReadInv' /\ job' \in [Managers -> Jobs]
    BY <1>2, <2>2, JobDone
  <2> HIDE DEF u
  <2>4. TypeOK'
    BY <1>1, <1>2, <2>1, <2>2, <2>3 DEF TypeOK
  <2>5. StartInv'
    BY <1>1, <1>2, <2>1, <2>2 DEF StartInv
  <2>6. MarkHasReason'
    BY <2>1, <2>2 DEF MarkHasReason
  <2> QED BY <2>2, <2>3, <2>4, <2>5, <2>6 DEF CInv
<1> QED BY <1>3, <1>4, <1>5 DEF Update

\* Steps that leave the API server alone and start nothing.
LEMMA ReadCInv ==
  ASSUME CInv, NEW m \in Managers, Watch(m) \/ Get(m) \/ Restart(m)
  PROVE  CInv'
<1>1. TypeOK /\ VersionInv /\ ReadInv /\ StartInv /\ MarkHasReason
  BY DEF CInv
<1>2. /\ api' = api /\ written' = written /\ created' = created /\ meddled' = meddled
      /\ runs' = runs /\ started' = started /\ stuck' = stuck /\ faults' = faults
  BY DEF Watch, Get, Restart, apiVars, runVars
<1>3. VersionInv' /\ StartInv' /\ MarkHasReason'
  BY <1>1, <1>2 DEF VersionInv, StartInv, MarkHasReason
<1>4. CASE Watch(m)
  <2>1. PICK w \in written : cache' = [cache EXCEPT ![m] = w]
    BY <1>4 DEF Watch
  <2>2. w \in Jobs /\ up' = up /\ job' = job /\ queued' = [queued EXCEPT ![m] = TRUE]
    BY <1>1, <1>4, <2>1 DEF TypeOK, Watch
  <2>3. TypeOK'
    BY <1>1, <1>2, <2>1, <2>2 DEF TypeOK
  <2>4. ReadInv'
    BY <1>1, <1>2, <2>1, <2>2 DEF ReadInv, TypeOK
  <2> QED BY <1>3, <2>3, <2>4 DEF CInv
<1>5. CASE Get(m)
  <2>1. cache' = cache /\ up' = up /\ queued' = [queued EXCEPT ![m] = FALSE]
    BY <1>5 DEF Get
  <2>2. CASE job' = job
    <3>1. TypeOK'
      BY <1>1, <1>2, <2>1, <2>2 DEF TypeOK
    <3>2. ReadInv'
      BY <1>1, <1>2, <2>1, <2>2 DEF ReadInv
    <3> QED BY <1>3, <3>1, <3>2 DEF CInv
  <2>3. CASE /\ Exists(cache[m]) /\ ~cache[m].running
             /\ job' = [job EXCEPT ![m] = [cache[m] EXCEPT !.running = TRUE]]
    <3> DEFINE j == [cache[m] EXCEPT !.running = TRUE]
    <3>1. cache[m] \in Jobs /\ cache[m] \in written
      BY <1>1 DEF TypeOK, ReadInv
    <3>2. j \in Jobs /\ j.running
      BY <3>1 DEF Jobs
    <3>3. [j EXCEPT !.running = FALSE] = cache[m]
      BY <2>3, <3>1 DEF Jobs
    <3> HIDE DEF j
    <3>4. job' = [job EXCEPT ![m] = j] /\ job \in [Managers -> Jobs]
      BY <1>1, <2>3 DEF TypeOK, j
    <3>5. TypeOK'
      BY <1>1, <1>2, <2>1, <3>2, <3>4 DEF TypeOK
    <3>6. ReadInv'
      BY <1>1, <1>2, <2>1, <3>1, <3>2, <3>3, <3>4 DEF ReadInv
    <3> QED BY <1>3, <3>5, <3>6 DEF CInv
  <2> QED BY <1>5, <2>2, <2>3 DEF Get
<1>6. CASE Restart(m)
  <2>1. /\ up' = [up EXCEPT ![m] = TRUE]
        /\ cache' = [cache EXCEPT ![m] = api]
        /\ queued' = [queued EXCEPT ![m] = Exists(api)]
        /\ job' = job
    BY <1>6 DEF Restart
  <2>2. Exists(api) \in BOOLEAN
    BY DEF Exists
  <2>3. TypeOK'
    BY <1>1, <1>2, <2>1, <2>2 DEF TypeOK
  <2>4. ReadInv'
    BY <1>1, <1>2, <2>1 DEF ReadInv, VersionInv, TypeOK
  <2> QED BY <1>3, <2>3, <2>4 DEF CInv
<1> QED BY <1>4, <1>5, <1>6

\* A controller dies.
LEMMA CrashCInv ==
  ASSUME CInv, NEW m \in Managers, Crash(m)
  PROVE  CInv'
<1>1. TypeOK /\ VersionInv /\ ReadInv /\ StartInv /\ MarkHasReason
  BY DEF CInv
<1>2. /\ api' = api /\ written' = written /\ created' = created /\ meddled' = meddled /\ cache' = cache
      /\ started' = started
      /\ up' = [up EXCEPT ![m] = FALSE] /\ queued' = [queued EXCEPT ![m] = FALSE]
      /\ job' = [job EXCEPT ![m] = NoJob]
      /\ runs' = runs \ RunsOf(m) /\ stuck' = stuck \cup {r.uid : r \in RunsOf(m)}
      /\ faults' \in 0 .. MaxFaults
  BY <1>1 DEF Crash, apiVars, Fault, TypeOK
<1>3. ReadInv' /\ job' \in [Managers -> Jobs]
  BY <1>2, JobDone
<1>4. \A r \in RunsOf(m) : r.uid \in Uids
  BY <1>1 DEF RunsOf, TypeOK, Runs
<1>5. TypeOK'
  BY <1>1, <1>2, <1>3, <1>4 DEF TypeOK
<1>6. VersionInv'
  BY <1>1, <1>2 DEF VersionInv
<1>7. StartInv'
  BY <1>1, <1>2 DEF StartInv
<1>8. MarkHasReason'
  BY <1>1, <1>2 DEF MarkHasReason
<1> QED BY <1>3, <1>5, <1>6, <1>7, <1>8 DEF CInv

\* A run ends, and its TestJob, or another, is deleted.
LEMMA EndRunCInv ==
  ASSUME CInv, NEW r \in runs, EndRun(r)
  PROVE  CInv'
<1>1. TypeOK /\ VersionInv /\ ReadInv /\ StartInv /\ MarkHasReason
  BY DEF CInv
<1>2. /\ runs' = runs \ {r} /\ created' = created /\ meddled' = meddled /\ started' = started
      /\ UNCHANGED managerVars
  BY DEF EndRun
<1>3. CASE Deleted /\ UNCHANGED <<stuck, faults>>
  <2>1. /\ api' \in Jobs /\ written' \subseteq Jobs /\ written \subseteq written'
        /\ api'.uid = 0 /\ ~api'.running
        /\ VersionInv'
    <3>1. CASE Exists(api)
      <4>1. NoJob \in Jobs /\ NoJob.uid = 0 /\ ~NoJob.running
        BY DEF NoJob, Jobs
      <4>2. Store(NoJob)
        BY <1>3, <3>1 DEF Deleted
      <4> QED BY <4>1, <4>2, StoreFacts
    <3>2. CASE ~Exists(api)
      <4>1. api' = api /\ written' = written
        BY <1>3, <3>2 DEF Deleted, apiVars
      <4>2. ~api.running
        BY <1>1, <3>2 DEF VersionInv
      <4>3. VersionInv'
        BY <1>1, <4>1 DEF VersionInv
      <4> QED BY <1>1, <3>2, <4>1, <4>2, <4>3 DEF TypeOK, Exists
    <3> QED BY <3>1, <3>2
  <2>2. TypeOK'
    BY <1>1, <1>2, <1>3, <2>1 DEF TypeOK, managerVars
  <2>3. ReadInv'
    BY <1>1, <1>2, <2>1, ReadKept
  <2>4. StartInv'
    BY <1>1, <1>2, <2>1 DEF StartInv, TypeOK, Uids
  <2>5. MarkHasReason'
    BY <2>1 DEF MarkHasReason
  <2> QED BY <2>1, <2>2, <2>3, <2>4, <2>5 DEF CInv
<1>4. CASE Fault /\ stuck' = stuck \cup {r.uid} /\ UNCHANGED apiVars
  <2>1. api' = api /\ written' = written /\ faults' \in 0 .. MaxFaults /\ r.uid \in Uids
    BY <1>1, <1>4 DEF apiVars, Fault, TypeOK, Runs
  <2>2. TypeOK'
    BY <1>1, <1>2, <1>4, <2>1 DEF TypeOK, managerVars
  <2>3. ReadInv'
    BY <1>1, <1>2, <2>1, ReadKept
  <2>4. VersionInv' /\ StartInv'
    BY <1>1, <1>2, <2>1 DEF VersionInv, StartInv
  <2>5. MarkHasReason'
    BY <1>1, <1>2, <1>4, <2>1 DEF MarkHasReason
  <2> QED BY <2>2, <2>3, <2>4, <2>5 DEF CInv
<1> QED BY <1>3, <1>4 DEF EndRun

\* Every step keeps the invariant.
LEMMA NextCInv == CInv /\ [Next]_vars => CInv'
<1> SUFFICES ASSUME CInv, [Next]_vars PROVE CInv'
  OBVIOUS
<1>1. CASE UNCHANGED vars
  BY <1>1 DEF vars, apiVars, managerVars, runVars, CInv, TypeOK, VersionInv, ReadInv,
              StartInv, MarkHasReason
<1> QED
  BY <1>1, UserCInv, ReadCInv, UpdateCInv, CrashCInv, EndRunCInv DEF Next, ManagerStep

\* CInv is an inductive invariant of the controllers.
THEOREM Invariance == Spec => []CInv
<1> QED BY InitCInv, NextCInv, PTL DEF Spec

\* Every variable keeps its type.
THEOREM TypeCorrect == Spec => []TypeOK
<1>1. CInv => TypeOK
  BY DEF CInv
<1> QED BY <1>1, Invariance, PTL

\* However many controllers are active, no TestJob is run twice.
THEOREM RunAtMostOnce == Spec => []AtMostOneRun
<1>1. CInv => AtMostOneRun
  BY DEF CInv, StartInv, AtMostOneRun
<1> QED BY <1>1, Invariance, PTL

\* A TestJob that is being run carries its mark, and only a fault leaves one behind.
THEOREM MarkExplained == Spec => []MarkMatchesRuns
<1>1. CInv => RunsAreMarked
  BY DEF CInv, StartInv, RunsAreMarked, TypeOK, Runs
<1>2. CInv => MarkHasReason
  BY DEF CInv
<1> QED BY <1>1, <1>2, Invariance, PTL DEF MarkMatchesRuns

\* No run starts from a spec that has been edited since.
THEOREM RunsFresh == Spec => RunsAreFresh
<1> DEFINE Fresh(r) == /\ api.uid = r.uid /\ api.spec = r.spec /\ ~api.running
                       /\ api'.uid = r.uid /\ api'.running
<1>1. CInv /\ [Next]_vars => [\A r \in runs' \ runs : Fresh(r)]_vars
  <2> SUFFICES ASSUME CInv, Next, NEW r \in runs' \ runs
               PROVE  Fresh(r)
    BY DEF vars
  <2>1. PICK m \in Managers : Update(m) /\ StartRun(m)
    BY DEF Next, UserStep, Create, Edit, Remove, ManagerStep, Watch, Get, Update, Conflict,
           RequestFails, AnswerLost, Requeue, Crash, Restart, EndRun, runVars
  <2>2. /\ Exists(job[m]) /\ Accepted(m)
        /\ r = [manager |-> m, uid |-> job[m].uid, spec |-> job[m].spec]
    BY <2>1 DEF Update, StartRun
  <2> QED BY <2>2, AcceptFacts
<1> QED BY <1>1, Invariance, PTL DEF Spec, RunsAreFresh

(***************************************************************************)
(* Deletion by name, as long as users leave running TestJobs alone.        *)
(***************************************************************************)

\* Nobody but its run takes a TestJob away: no step breaks OwnInv.
LEMMA NextOwn == CInv /\ OwnInv /\ [Next]_vars => OwnInv'
<1> SUFFICES ASSUME CInv, OwnInv, ~meddled', [Next]_vars
             PROVE  \A r \in runs' : api'.uid = r.uid /\ \A s \in runs' : s = r
  BY DEF OwnInv
<1>0. ~meddled
  BY DEF Next, vars, UserStep, Create, Edit, Remove, ManagerStep, Watch, Get, Update, Crash, Restart,
         EndRun
<1>1. TypeOK /\ StartInv
  BY DEF CInv
<1>2. \A r \in runs : /\ api.uid = r.uid /\ r.uid \in Uids /\ started[r.uid] = 1
                      /\ \A s \in runs : s = r
  BY <1>0, <1>1 DEF OwnInv, TypeOK, Runs, StartInv
<1>3. CASE runs' \subseteq runs /\ api' = api
  BY <1>2, <1>3
<1>4. CASE Create
  <2>1. runs = {} /\ runs' = runs
    BY <1>2, <1>4 DEF Create, Exists, runVars, Uids
  <2> QED BY <2>1
<1>5. CASE Edit
  <2> DEFINE j == [api EXCEPT !.spec = @ + 1]
  <2>1. j \in Jobs /\ j.uid = api.uid /\ (j.running => Exists(j))
    BY <1>1, <1>5 DEF TypeOK, Edit, Jobs, Exists
  <2>2. Store(j) /\ runs' = runs
    BY <1>5 DEF Edit, runVars
  <2> HIDE DEF j
  <2>3. api'.uid = api.uid
    BY <2>1, <2>2, StoreFacts
  <2> QED BY <1>2, <2>2, <2>3
<1>6. CASE Remove
  <2>1. runs = {} /\ runs' = runs
    BY <1>2, <1>6 DEF Remove, runVars
  <2> QED BY <2>1
<1>7. ASSUME NEW m \in Managers, Update(m), StartRun(m)
      PROVE  \A r \in runs' : api'.uid = r.uid /\ \A s \in runs' : s = r
  <2>1. /\ Exists(job[m]) /\ Accepted(m)
        /\ runs' = runs \cup {[manager |-> m, uid |-> job[m].uid, spec |-> job[m].spec]}
    BY <1>7 DEF Update, StartRun
  <2>2. started[job[m].uid] = 0 /\ api.uid = job[m].uid /\ api'.uid = job[m].uid
    BY <2>1, AcceptFacts
  <2>3. runs = {}
    BY <1>2, <2>2
  <2> QED BY <2>1, <2>2, <2>3
<1>8. ASSUME NEW m \in Managers, Update(m), ~StartRun(m)
      PROVE  \A r \in runs' : api'.uid = r.uid /\ \A s \in runs' : s = r
  <2>1. CASE AnswerLost(m)
    <3>1. Exists(job[m]) /\ Accepted(m) /\ runs' = runs
      BY <1>8, <2>1 DEF Update, AnswerLost, Requeue
    <3>2. api.uid = api'.uid
      BY <3>1, AcceptFacts
    <3> QED BY <1>2, <3>1, <3>2
  <2>2. CASE Conflict(m) \/ RequestFails(m)
    BY <1>3, <2>2 DEF Conflict, RequestFails, Requeue, apiVars
  <2> QED BY <1>8, <2>1, <2>2 DEF Update
<1>9. ASSUME NEW m \in Managers, Watch(m) \/ Get(m) \/ Crash(m) \/ Restart(m)
      PROVE  runs' \subseteq runs /\ api' = api
  BY <1>9 DEF Watch, Get, Crash, Restart, apiVars, runVars
<1>10. ASSUME NEW r \in runs, EndRun(r) PROVE runs' = {}
  BY <1>2, <1>10 DEF EndRun
<1>11. CASE UNCHANGED vars
  BY <1>3, <1>11 DEF vars, apiVars, runVars
<1> QED BY <1>3, <1>4, <1>5, <1>6, <1>7, <1>8, <1>9, <1>10, <1>11
        DEF Next, UserStep, ManagerStep

\* runTestJob deletes by name, and takes away no TestJob but its own before a user has
\* deleted one that was run, whatever the replicas, the caches and the faults do.
THEOREM OwnDeletion == Spec => DeletesItsOwn
<1>1. Init => OwnInv
  BY DEF Init, OwnInv
<1>2. Spec => []OwnInv
  BY <1>1, NextOwn, Invariance, PTL DEF Spec
<1>3. OwnInv => \A r \in runs : EndRun(r) => api' = api \/ api.uid = r.uid \/ meddled
  BY DEF OwnInv
<1> QED BY <1>2, <1>3, PTL DEF DeletesItsOwn
=============================================================================

------------------------------ MODULE Repositories ------------------------------
(***************************************************************************)
(* RepositoryManager over the runs of kubetest on one machine: CloneAll    *)
(* clones, checks out and archives one repository after the other, the     *)
(* steps of the job mount the archives, and Cleanup removes what CloneAll  *)
(* has recorded.  A repository with a ClonedPath is cloned there, unless   *)
(* the directory exists: then it is reused as it is, so what one run       *)
(* leaves behind decides what the next one tests.                          *)
(*                                                                         *)
(* git and the file system are external; a directory is abstracted to the  *)
(* revision that is checked out in it.                                     *)
(***************************************************************************)
EXTENDS Integers

CONSTANTS
  RepoNum,  \* number of repositories of the job
  Paths,    \* the directories that can be a ClonedPath
  PathOf,   \* PathOf[r]: the ClonedPath of repository r, or NoPath
  NoPath,
  RevOf,    \* RevOf[r]: what the job wants checked out, merges included
  NamedRevs, \* the repositories whose rev is a name, of a tag say, and no hash
  HeadOf,   \* HeadOf[r]: what HEAD of the remote gives instead, merges included
  MaxRuns   \* bound: runs of the job

Repos == 1 .. RepoNum

ASSUME RepoNumAssumption == RepoNum \in Nat
ASSUME PathAssumption == PathOf \in [Repos -> Paths \cup {NoPath}] /\ NoPath \notin Paths
ASSUME PlaceAssumption == Paths \cap Repos = {}
ASSUME MaxRunsAssumption == MaxRuns \in Nat

Revs == {RevOf[r] : r \in Repos} \cup {HeadOf[r] : r \in Repos}
States == {"absent", "empty", "partial"}
Contents == Revs \cup States
ASSUME RevAssumption == Revs \cap (States \cup {"truncated"}) = {}
ASSUME NamedAssumption == NamedRevs \subseteq Repos

\* plumbing.NewHash drops the error of a rev that is no hash: of a name it makes the
\* zero hash, for which git makes a branch of that name at HEAD.
CheckedOut(r) == IF r \in NamedRevs THEN HeadOf[r] ELSE RevOf[r]

\* Where repository r is cloned: its ClonedPath, or a fresh temporary directory.
Place(r) == IF PathOf[r] = NoPath THEN r ELSE PathOf[r]
Places == Paths \cup Repos

VARIABLES
  runNum,      \* runs so far
  pc,          \* "idle" between runs, then the step of CloneAll, or "steps"
  repo,        \* the repository CloneAll is at
  dir,         \* dir[p]: the content of the directory p
  archives,    \* archives[r]: the content of the archive of r; "absent" if none
  provided,    \* paths a user has filled before a run
  dirty        \* paths a run has left behind: it failed, was killed, or could
               \* not remove them

vars == <<runNum, pc, repo, dir, archives, provided, dirty>>

Init ==
  /\ runNum = 0
  /\ pc = "idle"
  /\ repo = 1
  /\ dir = [p \in Places |-> "absent"]
  /\ archives = [r \in Repos |-> "absent"]
  /\ provided = {}
  /\ dirty = {}

-----------------------------------------------------------------------------
\* The user clones a repository for the job, or only makes the directory.
Provide ==
  /\ pc = "idle"
  /\ \E p \in Paths : \E c \in Contents \ {"absent", "partial"} :
       /\ dir[p] = "absent"
       /\ dir' = [dir EXCEPT ![p] = c]
       /\ provided' = provided \cup {p}
  /\ UNCHANGED <<runNum, pc, repo, archives, dirty>>

\* A new process: NewRepositoryManager, and nothing in its temporary directories.
StartRun ==
  /\ pc = "idle"
  /\ runNum < MaxRuns
  /\ runNum' = runNum + 1
  /\ pc' = "next"
  /\ repo' = 1
  /\ dir' = [p \in Places |-> IF p \in Repos THEN "absent" ELSE dir[p]]
  /\ archives' = [r \in Repos |-> "absent"]
  /\ UNCHANGED <<provided, dirty>>

\* Run ends without Cleanup: CloneAll failed, or the process was killed.
Abort ==
  /\ pc' = "idle"
  /\ archives' = [r \in Repos |-> "absent"]
  /\ dirty' = dirty \cup {p \in Paths : dir[p] # "absent"}
  /\ UNCHANGED <<runNum, repo, dir, provided>>

(***************************************************************************)
(* One iteration of CloneAll.                                              *)
(***************************************************************************)
Here == Place(repo)

Reuse ==
  /\ pc = "next"
  /\ repo <= RepoNum
  /\ PathOf[repo] # NoPath
  /\ dir[Here] # "absent"
  /\ pc' = "archive"
  /\ UNCHANGED <<runNum, repo, dir, archives, provided, dirty>>

MakeDir ==
  /\ pc = "next"
  /\ repo <= RepoNum
  /\ PathOf[repo] = NoPath \/ dir[Here] = "absent"
  /\ \/ /\ dir' = [dir EXCEPT ![Here] = "empty"]
        /\ pc' = "clone"
        /\ UNCHANGED <<runNum, repo, archives, provided, dirty>>
     \/ Abort

\* The token cannot be had, or git fails: the directory made for it stays.
Clone ==
  /\ pc = "clone"
  /\ \/ /\ dir' = [dir EXCEPT ![Here] = "partial"]
        /\ pc' = "checkout"
        /\ UNCHANGED <<runNum, repo, archives, provided, dirty>>
     \/ Abort

\* Mutant: the error of the checkout is dropped.
CheckoutUnchecked ==
  /\ pc = "checkout"
  /\ pc' = "archive"
  /\ dir' \in {dir, [dir EXCEPT ![Here] = CheckedOut(repo)]}
  /\ UNCHANGED <<runNum, repo, archives, provided, dirty>>

\* Checkout, reset and merge of the base branch; each of them may fail, as the
\* checkout does for part of a hash, which stands for another commit.
Checkout ==
  /\ pc = "checkout"
  /\ \/ /\ dir' = [dir EXCEPT ![Here] = CheckedOut(repo)]
        /\ pc' = "archive"
        /\ UNCHANGED <<runNum, repo, archives, provided, dirty>>
     \/ Abort

\* Mutant: the loop moves on twice.
ArchiveAndSkip ==
  /\ pc = "archive"
  /\ \/ /\ \E content \in {dir[Here], "truncated"} :
            archives' = [archives EXCEPT ![repo] = content]
        /\ repo' = repo + 2
        /\ pc' = "next"
        /\ UNCHANGED <<runNum, dir, provided, dirty>>
     \/ Abort

\* archiveRepo fails, or writes the archive; what the deferred calls of Close
\* report is dropped, and with it that the end of the archive is missing.
Archive ==
  /\ pc = "archive"
  /\ \/ /\ \E content \in {dir[Here], "truncated"} :
            archives' = [archives EXCEPT ![repo] = content]
        /\ repo' = repo + 1
        /\ pc' = "next"
        /\ UNCHANGED <<runNum, dir, provided, dirty>>
     \/ Abort

EndCloneAll ==
  /\ pc = "next"
  /\ repo > RepoNum
  /\ pc' = "steps"
  /\ UNCHANGED <<runNum, repo, dir, archives, provided, dirty>>

(***************************************************************************)
(* The steps end, one way or another, and Cleanup removes the directories  *)
(* of the recorded repositories, a ClonedPath like any other, and the      *)
(* archives (of these the files: no run removes the directories made for   *)
(* them).  What cannot be removed stays in part, and Run drops the error.  *)
(***************************************************************************)
Recorded == {r \in Repos : archives[r] # "absent"}
\* Mutant: only temporary directories are removed.
ClonedTemporary == {r \in Recorded : PathOf[r] = NoPath}

ClonedPlaces == {Place(r) : r \in Recorded}

Cleanup ==
  /\ pc = "steps"
  /\ pc' = "idle"
  /\ \E kept \in SUBSET ClonedPlaces :
       /\ dir' = [p \in Places |-> IF p \in kept THEN "partial"
                                   ELSE IF p \in ClonedPlaces THEN "absent"
                                   ELSE dir[p]]
       /\ dirty' = (dirty \ ClonedPlaces) \cup (kept \cap Paths)
  /\ provided' = provided \ ClonedPlaces
  /\ archives' = [r \in Repos |-> "absent"]
  /\ UNCHANGED <<runNum, repo>>

Kill == pc # "idle" /\ Abort

Next ==
  \/ Provide
  \/ StartRun
  \/ Reuse
  \/ MakeDir
  \/ Clone
  \/ Checkout
  \/ Archive
  \/ EndCloneAll
  \/ Cleanup
  \/ Kill

Spec == Init /\ [][Next]_vars

-----------------------------------------------------------------------------
(***************************************************************************)
(* Properties                                                              *)
(***************************************************************************)

\* Every variable keeps its type.
TypeOK ==
  /\ runNum \in 0 .. MaxRuns
  /\ pc \in {"idle", "next", "clone", "checkout", "archive", "steps"}
  /\ repo \in 1 .. (RepoNum + 1)
  /\ dir \in [Places -> Contents]
  /\ archives \in [Repos -> Contents \cup {"truncated"}]
  /\ provided \subseteq Paths
  /\ dirty \subseteq Paths

SharedBefore(r) == \E q \in 1 .. (r - 1) : PathOf[q] = PathOf[r] /\ CheckedOut(q) # RevOf[r]

\* A job tests the revision it asks for, as far as its archive goes.  There are two
\* exceptions: a rev that is a name, for which HEAD is tested instead, and a ClonedPath
\* that a user has filled (or only made: an empty directory is reused too), that an
\* earlier run has left behind, or that the job gives to two repositories.
RightRevision ==
  \A r \in Recorded :
    \/ archives[r] \in {RevOf[r], "truncated"}
    \/ r \in NamedRevs /\ archives[r] = HeadOf[r]
    \/ /\ PathOf[r] # NoPath
       /\ PathOf[r] \in provided \cup dirty \/ SharedBefore(r)

\* A job whose clones were all recorded leaves none of them: what is found in a
\* ClonedPath between two runs was put there by a user or left by a run that
\* failed to set up, was killed, or could not clean up.
NothingLeftBehind ==
  pc = "idle" => \A p \in Paths : dir[p] # "absent" => p \in provided \cup dirty

\* CloneAll leaves a directory that a user has filled as it is: only Cleanup, after
\* the steps, writes to it.
ProvidedIsKept ==
  [][pc # "steps" => \A p \in provided : p \in provided' /\ dir'[p] = dir[p]]_vars

(***************************************************************************)
(* The inductive invariant.                                                *)
(***************************************************************************)
Busy == pc \in {"clone", "checkout", "archive"}

\* CloneAll has recorded the repositories before the one it is at.
RecordedInv ==
  /\ Busy => repo <= RepoNum
  /\ pc = "steps" => repo = RepoNum + 1
  /\ Recorded = IF pc = "idle" THEN {} ELSE 1 .. (repo - 1)

\* The directories of the recorded repositories and of the one at hand exist, and so
\* do those a user has filled.
ThereInv ==
  /\ \A r \in Recorded : dir[Place(r)] # "absent"
  /\ Busy => dir[Here] # "absent"
  /\ \A p \in provided : dir[p] # "absent"

\* CloneAll writes to a directory only for the first repository that is cloned there.
FirstInv ==
  /\ pc \in {"clone", "checkout"} =>
       Here \notin provided /\ \A q \in 1 .. (repo - 1) : Place(q) # Here
  /\ pc = "archive" /\ PathOf[repo] = NoPath => dir[Here] = CheckedOut(repo)

\* Any other ClonedPath holds what was checked out for the first repository of this
\* run to be cloned there.
ClonedFor(r, p) ==
  /\ PathOf[r] = p
  /\ \A q \in 1 .. (r - 1) : PathOf[q] # p
  /\ \/ r < repo /\ dir[p] = CheckedOut(r)
     \/ r = repo /\ Busy /\ (pc = "archive" => dir[p] = CheckedOut(r))

PathInv ==
  \A p \in Paths \ (provided \cup dirty) :
    dir[p] # "absent" => pc # "idle" /\ \E r \in Repos : ClonedFor(r, p)

CloneInv ==
  /\ TypeOK
  /\ RecordedInv
  /\ ThereInv
  /\ FirstInv
  /\ PathInv
  /\ RightRevision
=============================================================================

--------------------------- MODULE RepositoriesProofs ---------------------------
(***************************************************************************)
(* Theorems about Repositories, for every number of repositories, every    *)
(* assignment of ClonedPaths and every number of runs.                     *)
(***************************************************************************)
EXTENDS Repositories, TLAPS

(***************************************************************************)
(* Places.                                                                 *)
(***************************************************************************)

\* A repository is cloned into its ClonedPath or into a directory of its own.
LEMMA PlaceFacts ==
  ASSUME NEW r \in Repos
  PROVE  /\ Place(r) \in Places
         /\ PathOf[r] = NoPath => Place(r) = r
         /\ PathOf[r] # NoPath => PathOf[r] \in Paths /\ Place(r) = PathOf[r]
         /\ \A p \in Paths : Place(r) = p <=> PathOf[r] = p
BY PathAssumption, PlaceAssumption DEF Place, Places

\* A revision that can be checked out is none of the other contents.
LEMMA RevFacts ==
  ASSUME NEW r \in Repos
  PROVE  /\ CheckedOut(r) \in Contents
         /\ CheckedOut(r) \notin {"absent", "empty", "partial", "truncated"}
         /\ CheckedOut(r) # RevOf[r] => r \in NamedRevs /\ CheckedOut(r) = HeadOf[r]
BY RevAssumption DEF Revs, States, Contents, CheckedOut

LEMMA InitClone == Init => CloneInv
<1> SUFFICES ASSUME Init PROVE CloneInv
  OBVIOUS
<1>1. TypeOK
  BY RepoNumAssumption, MaxRunsAssumption DEF Init, TypeOK, Contents, States
<1>2. Recorded = {}
  BY DEF Init, Recorded
<1>3. RecordedInv /\ ThereInv /\ FirstInv
  BY <1>2 DEF Init, RecordedInv, ThereInv, FirstInv, Busy
<1>4. PathInv /\ RightRevision
  BY <1>2 DEF Init, PathInv, RightRevision, Places
<1> QED BY <1>1, <1>3, <1>4 DEF CloneInv

(***************************************************************************)
(* The user, and the beginning and the end of a run.                       *)
(***************************************************************************)

\* Between two runs nothing is recorded, and what is found in a ClonedPath is
\* accounted for: the invariant asks for no more.
LEMMA IdleNext ==
  ASSUME TypeOK', pc' = "idle", archives' = [r \in Repos |-> "absent"],
         \A p \in provided' : dir'[p] # "absent",
         \A p \in Paths \ (provided' \cup dirty') : dir'[p] = "absent"
  PROVE  CloneInv'
<1>1. Recorded' = {}
  BY DEF Recorded
<1>2. RecordedInv' /\ ThereInv' /\ FirstInv'
  BY <1>1 DEF RecordedInv, ThereInv, FirstInv, Busy
<1>3. PathInv' /\ RightRevision'
  BY <1>1 DEF PathInv, RightRevision
<1> QED BY <1>2, <1>3 DEF CloneInv

\* Nothing recorded: every archive is absent.
LEMMA NoArchive ==
  ASSUME TypeOK, Recorded = {}
  PROVE  archives = [r \in Repos |-> "absent"]
BY DEF TypeOK, Recorded

\* What a user puts into a ClonedPath is provided.
LEMMA ProvideKeeps == ASSUME CloneInv, Provide PROVE CloneInv'
<1>1. TypeOK /\ RecordedInv /\ ThereInv /\ PathInv
  BY DEF CloneInv
<1>2. pc = "idle" /\ Recorded = {} /\ pc' = pc /\ archives' = archives
  BY <1>1 DEF RecordedInv, Provide
<1>3. PICK p \in Paths, c \in Contents \ {"absent", "partial"} :
        dir' = [dir EXCEPT ![p] = c] /\ provided' = provided \cup {p}
  BY DEF Provide
<1>4. TypeOK'
  BY <1>1, <1>3 DEF TypeOK, Provide, Places
<1>5. archives' = [r \in Repos |-> "absent"]
  BY <1>1, <1>2, NoArchive
<1>6. \A q \in provided' : dir'[q] # "absent"
  BY <1>1, <1>3 DEF ThereInv, TypeOK, Places
<1>7. \A q \in Paths \ (provided' \cup dirty') : dir'[q] = "absent"
  BY <1>1, <1>2, <1>3 DEF PathInv, TypeOK, Places, Provide
<1> QED BY <1>2, <1>4, <1>5, <1>6, <1>7, IdleNext

\* A new process starts with nothing recorded, and empties temporary directories only.
LEMMA StartRunKeeps == ASSUME CloneInv, StartRun PROVE CloneInv'
<1>1. TypeOK /\ RecordedInv /\ ThereInv /\ PathInv
  BY DEF CloneInv
<1>2. pc = "idle" /\ pc' = "next" /\ repo' = 1 /\ provided' = provided /\ dirty' = dirty
  BY DEF StartRun
<1>3. TypeOK'
  BY <1>1, RepoNumAssumption, MaxRunsAssumption DEF TypeOK, StartRun, Contents, States
<1>4. Recorded' = {} /\ ~Busy'
  BY <1>2 DEF Recorded, StartRun, Busy
<1>5. RecordedInv'
  BY <1>2, <1>4 DEF RecordedInv
<1>6. \A p \in Paths : dir'[p] = dir[p]
  BY PlaceAssumption DEF StartRun, Places
<1>7. ThereInv'
  BY <1>1, <1>2, <1>4, <1>6 DEF ThereInv, TypeOK
<1>8. FirstInv'
  BY <1>2 DEF FirstInv
<1>9. PathInv'
  BY <1>1, <1>2, <1>6 DEF PathInv
<1>10. RightRevision'
  BY <1>4 DEF RightRevision
<1> QED BY <1>3, <1>5, <1>7, <1>8, <1>9, <1>10 DEF CloneInv

\* A run that is given up accounts for every ClonedPath it has found or made.
LEMMA AbortKeeps == ASSUME CloneInv, Abort PROVE CloneInv'
<1>1. TypeOK /\ ThereInv
  BY DEF CloneInv
<1>2. TypeOK'
  BY <1>1 DEF TypeOK, Abort, Contents, States
<1>3. \A p \in provided' : dir'[p] # "absent"
  BY <1>1 DEF ThereInv, Abort
<1>4. \A p \in Paths \ (provided' \cup dirty') : dir'[p] = "absent"
  BY DEF Abort
<1> QED BY <1>2, <1>3, <1>4, IdleNext DEF Abort

\* Cleanup runs when every repository is recorded, so every ClonedPath of the job is
\* removed or known to be there in part.
LEMMA CleanupKeeps == ASSUME CloneInv, Cleanup PROVE CloneInv'
<1>1. TypeOK /\ RecordedInv /\ ThereInv /\ PathInv
  BY DEF CloneInv
<1>2. Recorded = Repos
  BY <1>1, RepoNumAssumption DEF Cleanup, RecordedInv, Repos
<1>3. PICK kept \in SUBSET ClonedPlaces :
        /\ dir' = [p \in Places |-> IF p \in kept THEN "partial"
                                    ELSE IF p \in ClonedPlaces THEN "absent"
                                    ELSE dir[p]]
        /\ dirty' = (dirty \ ClonedPlaces) \cup (kept \cap Paths)
  BY DEF Cleanup
<1>4. TypeOK'
  <2>1. dir' \in [Places -> Contents]
    BY <1>1, <1>3 DEF TypeOK, Contents, States
  <2>2. archives' \in [Repos -> Contents \cup {"truncated"}]
    BY DEF Cleanup, Contents, States
  <2> QED BY <1>1, <1>3, <2>1, <2>2 DEF TypeOK, Cleanup
<1>5. ASSUME NEW p \in provided' PROVE dir'[p] # "absent"
  BY <1>1, <1>3 DEF ThereInv, TypeOK, Places, Cleanup
<1>6. ASSUME NEW p \in Paths \ (provided' \cup dirty') PROVE dir'[p] = "absent"
  <2>1. CASE p \in ClonedPlaces
    BY <1>3, <2>1 DEF Places
  <2>2. CASE p \notin ClonedPlaces
    <3>1. p \notin provided \cup dirty /\ dir'[p] = dir[p]
      BY <1>3, <2>2 DEF Cleanup, Places
    <3>2. \A r \in Repos : PathOf[r] # p
      BY <1>2, <2>2, PlaceFacts DEF ClonedPlaces
    <3> QED BY <1>1, <3>1, <3>2 DEF PathInv, ClonedFor
  <2> QED BY <2>1, <2>2
<1> QED BY <1>4, <1>5, <1>6, IdleNext DEF Cleanup

(***************************************************************************)
(* CloneAll.                                                               *)
(***************************************************************************)

\* While the archives are the same, so is what is said of them.
LEMMA SameArchives ==
  ASSUME RightRevision, UNCHANGED <<archives, provided, dirty>>
  PROVE  Recorded' = Recorded /\ RightRevision'
BY DEF RightRevision, Recorded

\* A directory that exists is archived as it is.
LEMMA ReuseKeeps == ASSUME CloneInv, Reuse PROVE CloneInv'
<1>1. TypeOK /\ RecordedInv /\ ThereInv /\ PathInv /\ RightRevision
  BY DEF CloneInv
<1>2. /\ pc = "next" /\ pc' = "archive" /\ repo <= RepoNum
      /\ UNCHANGED <<repo, dir, archives, provided, dirty>>
  BY DEF Reuse
<1>3. Recorded' = Recorded /\ RightRevision'
  BY <1>1, <1>2, SameArchives
<1>4. TypeOK'
  BY <1>1 DEF TypeOK, Reuse
<1>5. RecordedInv'
  BY <1>1, <1>2, <1>3 DEF RecordedInv, Busy
<1>6. ThereInv'
  BY <1>1, <1>2, <1>3 DEF ThereInv, Reuse, Here
<1>7. FirstInv'
  BY <1>2 DEF FirstInv, Reuse
<1>8. PathInv'
  BY <1>1, <1>2 DEF PathInv, ClonedFor, Busy
<1> QED BY <1>3, <1>4, <1>5, <1>6, <1>7, <1>8 DEF CloneInv

\* A directory that is made was not there, so no repository before this one has it.
LEMMA MakeDirKeeps == ASSUME CloneInv, MakeDir PROVE CloneInv'
<1>1. TypeOK /\ RecordedInv /\ ThereInv /\ PathInv /\ RightRevision
  BY DEF CloneInv
<1>2. SUFFICES ASSUME dir' = [dir EXCEPT ![Here] = "empty"], pc' = "clone",
                      UNCHANGED <<runNum, repo, archives, provided, dirty>>
               PROVE  CloneInv'
  BY AbortKeeps DEF MakeDir
<1>3. pc = "next" /\ repo \in Repos /\ Recorded = 1 .. (repo - 1)
  BY <1>1, RepoNumAssumption DEF MakeDir, TypeOK, RecordedInv, Repos
<1>4. Here \in Places /\ (PathOf[repo] = NoPath => Here = repo)
  BY <1>3, PlaceFacts DEF Here
<1>5. \A p \in Places : dir'[p] = IF p = Here THEN "empty" ELSE dir[p]
  BY <1>1, <1>2, <1>4 DEF TypeOK
<1>6. ASSUME NEW q \in 1 .. (repo - 1) PROVE Place(q) # Here
  <2>1. q \in Repos /\ q # repo /\ dir[Place(q)] # "absent"
    BY <1>1, <1>3, <1>6, RepoNumAssumption DEF ThereInv, Repos
  <2>2. CASE PathOf[repo] = NoPath
    BY <1>3, <1>4, <2>1, <2>2, PlaceFacts, PlaceAssumption DEF Places
  <2>3. CASE PathOf[repo] # NoPath
    BY <2>1, <2>3 DEF MakeDir
  <2> QED BY <2>2, <2>3
<1>7. Here \notin provided
  <2>1. CASE PathOf[repo] = NoPath
    BY <1>1, <1>3, <1>4, <2>1, PlaceAssumption DEF TypeOK
  <2>2. CASE PathOf[repo] # NoPath
    BY <1>1, <2>2 DEF ThereInv, MakeDir
  <2> QED BY <2>1, <2>2
<1>8. Here' = Here /\ Recorded' = Recorded /\ RightRevision'
  BY <1>1, <1>2, SameArchives DEF Here
<1>9. TypeOK'
  BY <1>1, <1>2, <1>4 DEF TypeOK, Contents, States
<1>10. RecordedInv'
  BY <1>1, <1>2, <1>3, <1>8 DEF RecordedInv, Busy, Repos
<1>11. ThereInv'
  <2>1. \A r \in Recorded : dir'[Place(r)] # "absent"
    BY <1>1, <1>5, PlaceFacts DEF ThereInv, Recorded
  <2>2. \A p \in provided : dir'[p] # "absent"
    BY <1>1, <1>5 DEF ThereInv, TypeOK, Places
  <2> QED BY <1>2, <1>4, <1>5, <1>8, <2>1, <2>2 DEF ThereInv
<1>12. FirstInv'
  BY <1>2, <1>6, <1>7, <1>8 DEF FirstInv
<1>13. PathInv'
  <2> SUFFICES ASSUME NEW p \in Paths \ (provided \cup dirty), dir'[p] # "absent"
               PROVE  \E r \in Repos : ClonedFor(r, p)'
    BY <1>2 DEF PathInv
  <2>1. CASE p = Here
    <3>1. PathOf[repo] = p
      BY <1>3, <2>1, PlaceFacts DEF Here
    <3>2. \A q \in 1 .. (repo - 1) : PathOf[q] # p
      BY <1>3, <1>6, <2>1, PlaceFacts, RepoNumAssumption DEF Repos
    <3> QED BY <1>2, <1>3, <3>1, <3>2 DEF ClonedFor, Busy
  <2>2. CASE p # Here
    <3>1. dir'[p] = dir[p]
      BY <1>5, <2>2 DEF Places
    <3>2. PICK r \in Repos : ClonedFor(r, p)
      BY <1>1, <3>1 DEF PathInv
    <3> QED BY <1>2, <1>3, <3>1, <3>2 DEF ClonedFor, Busy
  <2> QED BY <2>1, <2>2
<1> QED BY <1>8, <1>9, <1>10, <1>11, <1>12, <1>13 DEF CloneInv

\* A step of the clone at hand writes to the one directory that is made for it.
LEMMA WriteKeeps ==
  ASSUME CloneInv, pc \in {"clone", "checkout"},
         NEW content \in {"partial", CheckedOut(repo)}, dir' = [dir EXCEPT ![Here] = content],
         pc' = IF content = "partial" THEN "checkout" ELSE "archive",
         UNCHANGED <<runNum, repo, archives, provided, dirty>>
  PROVE  CloneInv'
<1>1. TypeOK /\ RecordedInv /\ ThereInv /\ FirstInv /\ PathInv /\ RightRevision
  BY DEF CloneInv
<1>2. Busy /\ Busy' /\ repo \in Repos /\ Recorded = 1 .. (repo - 1)
  BY <1>1, RepoNumAssumption DEF TypeOK, RecordedInv, Repos, Busy
<1>3. content \in Contents /\ content # "absent" /\ (content = "partial" \/ content = CheckedOut(repo))
  BY <1>2, RevFacts DEF Contents, States
<1>4. pc' = "archive" => content = CheckedOut(repo)
  BY <1>3
<1>5. Here \in Places
  BY <1>2, PlaceFacts DEF Here
<1>6. \A p \in Places : dir'[p] = IF p = Here THEN content ELSE dir[p]
  BY <1>1, <1>5 DEF TypeOK
<1>7. Here' = Here /\ Recorded' = Recorded /\ RightRevision'
  BY <1>1, SameArchives DEF Here
<1>8. Here \notin provided /\ \A q \in 1 .. (repo - 1) : Place(q) # Here
  BY <1>1 DEF FirstInv
<1>9. TypeOK'
  BY <1>1, <1>3, <1>5 DEF TypeOK
<1>10. RecordedInv'
  BY <1>1, <1>2, <1>7 DEF RecordedInv, Busy
<1>11. ThereInv'
  <2>1. \A r \in Recorded : dir'[Place(r)] # "absent"
    BY <1>1, <1>3, <1>6, PlaceFacts DEF ThereInv, Recorded
  <2>2. \A p \in provided : dir'[p] # "absent"
    BY <1>1, <1>3, <1>6 DEF ThereInv, TypeOK, Places
  <2> QED BY <1>3, <1>5, <1>6, <1>7, <2>1, <2>2 DEF ThereInv
<1>12. FirstInv'
  BY <1>4, <1>5, <1>6, <1>7, <1>8 DEF FirstInv
<1>13. PathInv'
  <2> SUFFICES ASSUME NEW p \in Paths \ (provided \cup dirty), dir'[p] # "absent"
               PROVE  pc' # "idle" /\ \E r \in Repos : ClonedFor(r, p)'
    BY DEF PathInv
  <2>1. CASE p = Here
    <3>1. PathOf[repo] = p
      BY <1>2, <2>1, PlaceFacts DEF Here
    <3>2. \A q \in 1 .. (repo - 1) : PathOf[q] # p
      BY <1>2, <1>8, <2>1, PlaceFacts, RepoNumAssumption DEF Repos
    <3>3. pc' = "archive" => dir'[p] = CheckedOut(repo)
      BY <1>4, <1>5, <1>6, <2>1
    <3>4. ClonedFor(repo, p)'
      BY <1>2, <3>1, <3>2, <3>3 DEF ClonedFor
    <3> QED BY <1>2, <3>4 DEF Busy
  <2>2. CASE p # Here
    <3>1. dir'[p] = dir[p]
      BY <1>6, <2>2 DEF Places
    <3>2. PICK r \in Repos : ClonedFor(r, p)
      BY <1>1, <3>1 DEF PathInv
    <3>3. r # repo
      BY <1>2, <2>2, <3>2, PlaceFacts DEF ClonedFor, Here
    <3> QED BY <1>2, <3>1, <3>2, <3>3 DEF ClonedFor, Busy
  <2> QED BY <2>1, <2>2
<1> QED BY <1>7, <1>9, <1>10, <1>11, <1>12, <1>13 DEF CloneInv

LEMMA CloneKeeps == ASSUME CloneInv, Clone PROVE CloneInv'
BY AbortKeeps, WriteKeeps DEF Clone

LEMMA CheckoutKeeps == ASSUME CloneInv, Checkout PROVE CloneInv'
<1>1. SUFFICES ASSUME dir' = [dir EXCEPT ![Here] = CheckedOut(repo)], pc' = "archive",
                      UNCHANGED <<runNum, repo, archives, provided, dirty>>
               PROVE  CloneInv'
  BY AbortKeeps DEF Checkout
<1>2. repo \in Repos /\ pc = "checkout"
  BY RepoNumAssumption DEF Checkout, CloneInv, TypeOK, RecordedInv, Busy, Repos
<1> QED BY <1>1, <1>2, RevFacts, WriteKeeps

\* What is archived is the clone made for this repository or, of a ClonedPath, for the
\* first one that has it.
LEMMA ArchiveKeeps == ASSUME CloneInv, Archive PROVE CloneInv'
<1>1. TypeOK /\ RecordedInv /\ ThereInv /\ FirstInv /\ PathInv /\ RightRevision
  BY DEF CloneInv
<1>2. SUFFICES ASSUME NEW content \in {dir[Here], "truncated"},
                      archives' = [archives EXCEPT ![repo] = content],
                      repo' = repo + 1, pc' = "next",
                      UNCHANGED <<runNum, dir, provided, dirty>>
               PROVE  CloneInv'
  BY AbortKeeps DEF Archive
<1>3. pc = "archive" /\ repo \in Repos /\ Recorded = 1 .. (repo - 1)
  BY <1>1, RepoNumAssumption DEF Archive, TypeOK, RecordedInv, Repos, Busy
<1>4. Here \in Places /\ dir[Here] \in Contents /\ dir[Here] # "absent"
  BY <1>1, <1>3, PlaceFacts DEF Here, ThereInv, TypeOK, Busy
<1>5. \A r \in Repos : archives'[r] = IF r = repo THEN content ELSE archives[r]
  BY <1>1, <1>2 DEF TypeOK
<1>6. Recorded' = Recorded \cup {repo}
  BY <1>2, <1>3, <1>4, <1>5 DEF Recorded
<1>7. TypeOK'
  BY <1>1, <1>2, <1>3, <1>4, RepoNumAssumption DEF TypeOK, Repos
<1>8. RecordedInv'
  BY <1>2, <1>3, <1>6, RepoNumAssumption DEF RecordedInv, Repos, Busy
<1>9. ThereInv'
  BY <1>1, <1>2, <1>4, <1>6 DEF ThereInv, Busy, Here
<1>10. FirstInv'
  BY <1>2 DEF FirstInv
<1>11. PathInv'
  BY <1>1, <1>2, <1>3 DEF PathInv, ClonedFor, Repos
<1>12. RightRevision'
  <2> SUFFICES ASSUME NEW r \in Recorded', archives'[r] \notin {RevOf[r], "truncated"},
                      ~(r \in NamedRevs /\ archives'[r] = HeadOf[r])
               PROVE  /\ PathOf[r] # NoPath
                      /\ PathOf[r] \in provided \cup dirty \/ SharedBefore(r)
    BY <1>2 DEF RightRevision
  <2>1. CASE r # repo
    BY <1>1, <1>3, <1>5, <1>6, <2>1 DEF RightRevision, Recorded
  <2>2. CASE r = repo
    <3>1. dir[Here] # RevOf[repo] /\ dir[Here] # CheckedOut(repo)
      BY <1>2, <1>3, <1>5, <2>2, RevFacts
    <3>2. PathOf[repo] # NoPath
      BY <1>1, <1>3, <3>1 DEF FirstInv
    <3>3. PathOf[repo] \in Paths /\ Here = PathOf[repo]
      BY <1>3, <3>2, PlaceFacts DEF Here
    <3>4. CASE PathOf[repo] \notin provided \cup dirty
      <4>1. PICK q \in Repos : ClonedFor(q, PathOf[repo])
        BY <1>1, <1>4, <3>3, <3>4 DEF PathInv
      <4>2. q < repo /\ CheckedOut(q) # RevOf[repo]
        BY <1>3, <3>1, <3>3, <4>1 DEF ClonedFor
      <4> QED BY <1>3, <2>2, <3>2, <4>1, <4>2 DEF ClonedFor, SharedBefore, Repos
    <3> QED BY <2>2, <3>2, <3>4
  <2> QED BY <2>1, <2>2
<1> QED BY <1>7, <1>8, <1>9, <1>10, <1>11, <1>12 DEF CloneInv

LEMMA EndCloneAllKeeps == ASSUME CloneInv, EndCloneAll PROVE CloneInv'
<1>1. TypeOK /\ RecordedInv /\ ThereInv /\ PathInv /\ RightRevision
  BY DEF CloneInv
<1>2. Recorded' = Recorded /\ RightRevision'
  BY <1>1, SameArchives DEF EndCloneAll
<1>3. TypeOK' /\ RecordedInv'
  BY <1>1, <1>2, RepoNumAssumption DEF TypeOK, RecordedInv, EndCloneAll, Busy
<1>4. ThereInv' /\ FirstInv'
  BY <1>1, <1>2 DEF ThereInv, FirstInv, EndCloneAll, Busy
<1>5. PathInv'
  BY <1>1 DEF PathInv, ClonedFor, EndCloneAll, Busy
<1> QED BY <1>2, <1>3, <1>4, <1>5 DEF CloneInv

LEMMA StutterKeeps == ASSUME CloneInv, UNCHANGED vars PROVE CloneInv'
BY DEF vars, CloneInv, TypeOK, RecordedInv, ThereInv, FirstInv, PathInv, ClonedFor, Busy,
       Here, Recorded, RightRevision

(***************************************************************************)
(* The theorems.                                                           *)
(***************************************************************************)

\* CloneInv is an inductive invariant.
THEOREM Invariance == Spec => []CloneInv
<1>1. CloneInv /\ [Next]_vars => CloneInv'
  BY ProvideKeeps, StartRunKeeps, ReuseKeeps, MakeDirKeeps, CloneKeeps, CheckoutKeeps,
     ArchiveKeeps, EndCloneAllKeeps, CleanupKeeps, AbortKeeps, StutterKeeps, Zenon
     DEF Next, Kill
<1> QED BY <1>1, InitClone, PTL DEF Spec

\* Every variable keeps its type.
THEOREM TypeCorrect == Spec => []TypeOK
<1>1. CloneInv => TypeOK
  BY DEF CloneInv
<1> QED BY <1>1, Invariance, PTL

\* CloneAll, archiveRepo: what is archived is the revision the job asks for, but for
\* HEAD, where the rev is a name, and for the ClonedPaths that somebody else has filled
\* or that two repositories share.
THEOREM ArchivesAreRight == Spec => []RightRevision
<1>1. CloneInv => RightRevision
  BY DEF CloneInv
<1> QED BY <1>1, Invariance, PTL

\* Cleanup: no clone of a run that has recorded all of them outlives it.
THEOREM CleanupIsComplete == Spec => []NothingLeftBehind
<1>1. CloneInv => NothingLeftBehind
  BY DEF CloneInv, PathInv, NothingLeftBehind
<1> QED BY <1>1, Invariance, PTL

\* CloneAll reuses a directory that a user has filled and never writes to it.
THEOREM ProvidedIsReused == Spec => ProvidedIsKept
<1>1. ASSUME CloneInv, [Next]_vars, pc # "steps", NEW p \in provided
      PROVE  p \in provided' /\ dir'[p] = dir[p]
  <2>1. TypeOK /\ ThereInv /\ FirstInv /\ RecordedInv
    BY <1>1 DEF CloneInv
  <2>2. p \in Paths /\ p \in Places /\ p \notin Repos /\ dir[p] # "absent"
    BY <1>1, <2>1, PlaceAssumption DEF TypeOK, Places, ThereInv
  <2>3. CASE Provide
    BY <2>1, <2>2, <2>3 DEF Provide, TypeOK
  <2>4. CASE StartRun
    BY <2>2, <2>4, <1>1 DEF StartRun
  <2>5. CASE MakeDir
    <3>1. repo \in Repos
      BY <2>1, <2>5, RepoNumAssumption DEF MakeDir, TypeOK, Repos
    <3>2. Here # p
      BY <2>2, <2>5, <3>1, PlaceFacts DEF MakeDir, Here
    <3> QED BY <1>1, <2>1, <2>2, <2>5, <3>2 DEF MakeDir, Abort, TypeOK
  <2>6. CASE Clone
    BY <1>1, <2>1, <2>2, <2>6 DEF Clone, Abort, TypeOK, FirstInv
  <2>7. CASE Checkout
    BY <1>1, <2>1, <2>2, <2>7 DEF Checkout, Abort, TypeOK, FirstInv
  <2>8. CASE Reuse \/ Archive \/ EndCloneAll \/ Kill \/ UNCHANGED vars
    BY <1>1, <2>8 DEF Reuse, Archive, EndCloneAll, Kill, Abort, vars
  <2>9. CASE Cleanup
    BY <1>1, <2>9 DEF Cleanup
  <2> QED BY <1>1, <2>3, <2>4, <2>5, <2>6, <2>7, <2>8, <2>9 DEF Next
<1>2. CloneInv /\ [Next]_vars =>
        (pc # "steps" => \A p \in provided : p \in provided' /\ dir'[p] = dir[p])
  BY <1>1
<1> QED BY <1>2, Invariance, PTL DEF Spec, ProvidedIsKept

=============================================================================

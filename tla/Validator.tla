------------------------------- MODULE Validator -------------------------------
(***************************************************************************)
(* What a TestJob says, as far as one part of it refers to another, and    *)
(* what the validator accepts of it.  Fields that only have to be present  *)
(* (images, commands, URLs, paths) are left out; the limits of a strategy  *)
(* are in KeySchedule.                                                     *)
(*                                                                         *)
(*   job       [tokens, repos, steps : sequences, exports : set of names]  *)
(*   token     [name, sources : SUBSET TokenSources]                       *)
(*   repo      [name, token (or None), clonedPath : "set" or "none"]       *)
(*   step      [type, main : container name or None, containers, volumes,  *)
(*              artifacts], of type "pre", "main" or "post"; the template  *)
(*              of dynamic keys is a step "key" before the main step       *)
(*   container [name, group : "init", "main" or "final", mounts : sequence *)
(*              of volume names, points : sequence of their mount points], *)
(*              in the order of the groups                                 *)
(*   volumes   a function from volume names to resources                   *)
(*   resource  <<kind, name>>                                              *)
(*   artifact  [name, container]                                           *)
(***************************************************************************)
EXTENDS Naturals, Sequences, FiniteSets

None == "none"
TokenSources == {"githubApp", "githubToken", "filePath"}
NamesOf(list) == {list[k].name : k \in DOMAIN list}
NoDuplicate(list) == \A k, m \in DOMAIN list : list[k].name = list[m].name => k = m

ValidTokens(job) ==
  /\ \A k \in DOMAIN job.tokens : Cardinality(job.tokens[k].sources) = 1
  /\ NoDuplicate(job.tokens)

\* A repository with a clonedPath is accepted before its token is looked at.
ValidRepository(job, repo) ==
  \/ repo.clonedPath = "set"
  \/ repo.token = None
  \/ repo.token \in NamesOf(job.tokens)

ValidRepos(job) ==
  /\ \A k \in DOMAIN job.repos : ValidRepository(job, job.repos[k])
  /\ NoDuplicate(job.repos)

\* The artifactNameMap when the validator gets to step i.
ArtifactNames(job, i) == UNION {NamesOf(job.steps[k].artifacts) : k \in 1 .. i - 1}

\* Mutant: the artifacts of a step are entered before its volumes are checked.
ValidVolumeSourceOwn(job, i, source) ==
  CASE source[1] = "repo"               -> source[2] \in NamesOf(job.repos)
    [] source[1] = "token"              -> source[2] \in NamesOf(job.tokens)
    [] source[1] = "artifact"           -> source[2] \in ArtifactNames(job, i + 1)
    [] source[1] \in {"log", "report"}  -> job.steps[i].type = "post"
    [] OTHER                            -> TRUE

ValidVolumeSource(job, i, source) ==
  CASE source[1] = "repo"               -> source[2] \in NamesOf(job.repos)
    [] source[1] = "token"              -> source[2] \in NamesOf(job.tokens)
    [] source[1] = "artifact"           -> source[2] \in ArtifactNames(job, i)
    [] source[1] \in {"log", "report"}  -> job.steps[i].type = "post"
    [] OTHER                            -> TRUE

Containers(step, group) ==
  {k \in DOMAIN step.containers : step.containers[k].group = group}

ContainerNames(step, group) == {step.containers[k].name : k \in Containers(step, group)}

ValidArtifacts(job, i) ==
  LET artifacts == job.steps[i].artifacts
  IN /\ \A k \in DOMAIN artifacts :
          /\ artifacts[k].container \in ContainerNames(job.steps[i], "main")
          /\ artifacts[k].name \notin ArtifactNames(job, i)
     /\ NoDuplicate(artifacts)

\* That template.main names one of several containers is not checked.
ValidStep(job, i) ==
  LET step == job.steps[i]
  IN /\ Containers(step, "main") # {}
     /\ Cardinality(Containers(step, "main")) > 1 => step.main # None
     /\ \A v \in DOMAIN step.volumes : ValidVolumeSource(job, i, step.volumes[v])
     /\ ValidArtifacts(job, i)

ValidJob(job) ==
  /\ ValidTokens(job)
  /\ ValidRepos(job)
  /\ \A i \in DOMAIN job.steps : ValidStep(job, i)
  /\ job.exports \subseteq ArtifactNames(job, Len(job.steps) + 1)
=============================================================================

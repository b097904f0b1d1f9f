-------------------------------- MODULE MCMounts --------------------------------
\* Jobs for TLC: every mistake the validator looks for, those it does not, and
\* every arrangement of volumes over containers.
EXTENDS Mounts

Repo == <<"repo", "r">>
Repo2 == <<"repo", "s">>
Token == <<"token", "t">>
Artifact == <<"artifact", "a">>
Log == <<"log", None>>
MCResources == {Repo, Repo2, Token, Artifact, Log}
MCRank == [r \in MCResources |->
             CASE r = Repo -> 1 [] r = Repo2 -> 2 [] r = Token -> 3 [] r = Artifact -> 4
               [] OTHER -> 5]
MCVolumes == {"v", "w"}
MCNames == {"init", "main", "side", "final"}

\* The mount point "in" lies in "out", the others are apart.
MCPoints == {"out", "in", "a", "b"}
MCUnder == {<<p, p>> : p \in MCPoints} \cup {<<"in", "out">>}
Apart(mounts) == [i \in DOMAIN mounts |-> IF i = 1 THEN "a" ELSE "b"]

At(name, group, mounts, points) ==
  [name |-> name, group |-> group, mounts |-> mounts, points |-> points]
C(name, group, mounts) == At(name, group, mounts, Apart(mounts))
Main(mounts) == C("main", "main", mounts)
OneContainer(mounts) == <<Main(mounts)>>
AllSame == [v \in MCVolumes |-> Repo]
V(x, y) == [v \in MCVolumes |-> IF v = "v" THEN x ELSE y]
S(type, containers, volumes, artifacts) ==
  [type |-> type, main |-> IF Len(containers) = 1 THEN None ELSE "main",
   containers |-> containers, volumes |-> volumes, artifacts |-> artifacts]
MakesA == <<[name |-> "a", container |-> "main"]>>
TokenOf(sources) == <<[name |-> "t", sources |-> sources]>>
RepoOf(token, cloned) == <<[name |-> "r", token |-> token, clonedPath |-> cloned]>>
J(steps) == [tokens |-> TokenOf({"filePath"}), repos |-> RepoOf("t", "none"),
             steps |-> steps, exports |-> {}]

Nothing == [v \in {} |-> Plain]
MainStep == S("main", OneContainer(<<>>), Nothing, <<>>)

Arrangements ==
  { OneContainer(<<"v">>), OneContainer(<<"v", "w">>), OneContainer(<<"v", "v">>),
    OneContainer(<<"x">>),
    <<Main(<<"v">>), C("side", "main", <<"v">>)>>,
    <<Main(<<"v">>), C("side", "main", <<"w">>)>>,
    <<C("init", "init", <<"v">>), Main(<<"v">>)>>,
    <<C("init", "init", <<"v", "w">>), Main(<<"w">>)>>,
    <<Main(<<"v">>), C("final", "final", <<"v">>)>>,
    <<Main(<<"v">>), C("final", "final", <<"w">>)>>,
    <<Main(<<>>), C("final", "final", <<"w">>)>> }

ArrangedJobs ==
  { J(<<S("main", cs, volumes, <<>>)>>) :
      cs \in Arrangements, volumes \in {AllSame, V(Repo, Token), V(Token, Token)} }

\* One mount point is that of another one, or lies in it: of one container, and of two.
NestedPoints == {<<x, y>> : x, y \in {"out", "in"}}

NestedArrangements ==
  UNION {{ <<At("main", "main", <<"v", "w">>, points)>>,
           <<At("main", "main", <<"v">>, <<points[1]>>),
             At("side", "main", <<"w">>, <<points[2]>>)>> } : points \in NestedPoints}

NestedJobs ==
  { [J(<<S("main", cs, volumes, <<>>)>>)
       EXCEPT !.repos = RepoOf("t", "none")
                        \o <<[name |-> "s", token |-> "t", clonedPath |-> "none"]>>] :
      cs \in NestedArrangements, volumes \in {AllSame, V(Repo, Repo2), V(Repo, Token)} }
  \cup
  { J(<<S("pre", OneContainer(<<>>), Nothing, MakesA), MainStep,
        S("post", cs, V(x, Artifact), <<>>)>>) : cs \in NestedArrangements, x \in {Token, Log} }

ArtifactJobs ==
  { J(<<S(first, OneContainer(<<"v">>), V(x, Plain), MakesA),
        S(second, OneContainer(<<"v">>), V(y, Plain), <<>>)>>) :
      first \in {"pre", "key", "main"}, second \in {"main", "post"},
      x \in {Plain, Artifact, Log}, y \in {Artifact, Log} }

ChainedJobs ==
  { J(<<S("key", OneContainer(<<>>), Nothing, <<>>),
        S("main", OneContainer(<<"v">>), V(Token, Plain), MakesA),
        S("post", OneContainer(<<"v", "w">>), V(Artifact, Log), <<>>)>>),
    [J(<<S("main", OneContainer(<<>>), Nothing, MakesA)>>) EXCEPT !.exports = {"a"}],
    [J(<<MainStep>>) EXCEPT !.exports = {"a"}] }

LogJobs ==
  { J(<<MainStep, S("post", cs, V(Log, r), <<>>)>>) : cs \in Arrangements, r \in {Log, Repo} }

NameJobs ==
  { [J(<<MainStep>>) EXCEPT !.repos = RepoOf("u", cloned)] : cloned \in {"set", "none"} }
  \cup
  { [J(<<S("main", OneContainer(<<"v">>), V(Token, Plain), <<>>)>>)
       EXCEPT !.tokens = TokenOf(sources)] : sources \in SUBSET {"githubToken", "filePath"} }
  \cup
  { [J(<<S("main", OneContainer(<<"v">>), V(r, Plain), <<>>)>>)
       EXCEPT !.tokens = <<>>, !.repos = <<>>] : r \in {Repo, Token} }
  \cup
  { J(<<[MainStep EXCEPT !.main = "side"]>>) }

MCJobs == ArrangedJobs \cup NestedJobs \cup ArtifactJobs \cup ChainedJobs \cup LogJobs \cup NameJobs
=============================================================================

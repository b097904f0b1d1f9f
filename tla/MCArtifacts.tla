------------------------------ MODULE MCArtifacts ------------------------------
(***************************************************************************)
(* Instances of Artifacts for TLC.                                         *)
(***************************************************************************)
EXTENDS Artifacts, TLC
CONSTANTS p1, p2, c1, c2, x1

\* Two pods of one container.
OneEach == (c1 :> p1) @@ (c2 :> p2)

\* The second artifact, and then the first one, are exported to one path.
SharedNames == <<2, 1>>
SharedPath == <<x1, x1>>

NoExport == <<>>

\* The pods are alike, each with its container.
Alike == {f \in Permutations({p1, p2, c1, c2}) :
            \A c \in {c1, c2} : f[c] \in {c1, c2} /\ OneEach[f[c]] = f[OneEach[c]]}
===============================================================================

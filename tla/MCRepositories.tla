---------------------------- MODULE MCRepositories ----------------------------
(***************************************************************************)
(* Instances of Repositories for TLC.                                      *)
(***************************************************************************)
EXTENDS Repositories
CONSTANTS p1, p2, v1, v2, head

\* The first and the third of five repositories, of two revisions, share a
\* ClonedPath; the second and the last are cloned into temporary directories.
SharedPaths == <<p1, NoPath, p1, p2, NoPath>>
SharedRevs == <<v1, v2, v2, v1, v1>>

\* HEAD is neither of the revisions.
Heads == [r \in 1 .. 5 |-> head]
=============================================================================

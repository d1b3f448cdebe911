---------------------------- MODULE MCRepoWorker ----------------------------
(* Two repositories and three workers, so that workers overlap on a         *)
(* repository, with one request, and one rebuild of all or deletions.       *)
EXTENDS RepoWorker, TLC

CONSTANTS a, b, w1, w2, w3, b1, q1

MCRepos    == {a, b}
MCWorkers  == {w1, w2, w3}
MCRebuilds == {b1}
MCRequests == {q1}

\* Bound: repositories are deleted in behaviours with two workers, without a rebuild,
\* a crash or a lost write.
DeletionsApart ==
  (deleting # {} \/ \E r \in Repos : ~Exists(r)) =>
    /\ Cardinality({w \in Workers : pc[w] # "idle"}) <= 2
    /\ ~lost /\ \A x \in Rebuilds : rebuild[x] = "idle"

Symmetry   == Permutations(MCRepos) \cup Permutations(MCWorkers)
============================================================================

---------------------------- MODULE MCRepoQueue ----------------------------
(* Instances of RepoQueue for TLC. *)
EXTENDS RepoQueue, TLC

Symmetry ==
  Permutations(Deliveries) \cup Permutations(Commits) \cup Permutations(PRs) \cup Permutations(Repos)
=============================================================================

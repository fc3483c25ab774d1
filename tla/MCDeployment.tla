---------------------------- MODULE MCDeployment ----------------------------
(* Small instances of Deployment for TLC.                                  *)
EXTENDS Deployment, TLC

\* Deployments and allocations are only compared with each other.
Symmetry == Permutations(Deployments) \cup Permutations(Allocs)

=============================================================================

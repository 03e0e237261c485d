-------------------------- MODULE MC_LeaderElection --------------------------
(* Instances of LeaderElection for model checking. *)
EXTENDS LeaderElection

CONSTANTS n1, n2, n3

TwoNodes == {n1, n2}
ThreeNodes == {n1, n2, n3}
=============================================================================

-------------------------- MODULE MCArtifactIndex --------------------------
(* A small instance of ArtifactIndex for TLC. *)
EXTENDS ArtifactIndex, TLC

Alike == Permutations(Worker) \cup Permutations(Job) \cup Permutations(Upload)
=============================================================================

------------------------- MODULE MCClusterSupervisor -------------------------
(* Two workers: five rapid crashes of one of them are more than its share. *)
EXTENDS ClusterSupervisor
=============================================================================

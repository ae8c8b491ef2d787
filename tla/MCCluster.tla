------------------------------ MODULE MCCluster ------------------------------
(* Instance of Cluster: replicas with a crash, a redelivery and an error. *)
EXTENDS Cluster
=============================================================================

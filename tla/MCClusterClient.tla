-------------------------- MODULE MCClusterClient --------------------------
(***************************************************************************)
(* Instances of ClusterClient for model checking.                          *)
(***************************************************************************)
EXTENDS ClusterClient

CONSTANTS c1, c2, d
=============================================================================

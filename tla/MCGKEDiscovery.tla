--------------------------- MODULE MCGKEDiscovery ---------------------------
(***************************************************************************)
(* Instances of GKEDiscovery for model checking.                           *)
(***************************************************************************)
EXTENDS GKEDiscovery

CONSTANTS g1, g2, h1, incluster, x
=============================================================================

---------------------------- MODULE MCIPWatcher ----------------------------
(***************************************************************************)
(* Instances of IPWatcher for model checking.                              *)
(***************************************************************************)
EXTENDS IPWatcher

CONSTANTS p1, p2, ip1, ip2
=============================================================================

-------------------------- MODULE MCCSRController --------------------------
(***************************************************************************)
(* Instances of CSRController for model checking.                          *)
(***************************************************************************)
EXTENDS CSRController

CONSTANTS c1, r1, r2, ours, unsigned, binary, foreign
=============================================================================

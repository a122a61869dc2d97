-------------------------- MODULE MCTokenTransport --------------------------
(***************************************************************************)
(* Instances of TokenTransport for model checking.                         *)
(***************************************************************************)
EXTENDS TokenTransport

CONSTANTS a, b, t1, t2
=============================================================================

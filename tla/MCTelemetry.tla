---------------------------- MODULE MCTelemetry ----------------------------
(***************************************************************************)
(* Instances of Telemetry for model checking.                              *)
(***************************************************************************)
EXTENDS Telemetry

CONSTANTS s1, s2
=============================================================================

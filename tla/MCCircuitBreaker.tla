-------------------------- MODULE MCCircuitBreaker --------------------------
(***************************************************************************)
(* CircuitBreaker for TLC: three or four tasks, so that a late call, a     *)
(* probe and a newcomer can meet in one half-open period.                  *)
(***************************************************************************)
EXTENDS CircuitBreaker

AllOutcomes == {"success", "recorded", "ignored", "cancelled"}
=============================================================================

-------------------------- MODULE MCCircuitBreaker --------------------------
(* Instances of CircuitBreaker for TLC: the values are in the cfg files.   *)
(* The runs check liveness, so they take no symmetry.                      *)
EXTENDS CircuitBreaker
=============================================================================

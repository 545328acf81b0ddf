-------------------------- MODULE MCCircuitBreaker --------------------------
(* Small instances of CircuitBreaker for TLC.                               *)
EXTENDS CircuitBreaker

Thresholds(f, s) == [failureThreshold |-> f, successThreshold |-> s]
OneConfig == {Thresholds(2, 1)}
TwoConfigs == {Thresholds(1, 2), Thresholds(2, 1)}
=============================================================================

------------------------- MODULE MC_CircuitBreaker --------------------------
(* Three coroutines around a breaker with the threshold of the code.       *)
EXTENDS CircuitBreaker

=============================================================================

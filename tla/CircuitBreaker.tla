--------------------------- MODULE CircuitBreaker ---------------------------
(***************************************************************************)
(* The circuit breaker of DataServiceClient (src/clients/data_service.py), *)
(* shared by the coroutines that fetch up to 500 symbols at once.          *)
(*                                                                         *)
(* _get and _post are one coroutine with one await, the HTTP call: what    *)
(* runs before it is Send or FastFail, what runs after it is one of the    *)
(* answers, and the answers of concurrent requests come in any order.      *)
(*                                                                         *)
(* Abstractions.  _circuit_open_until is kept as whether it is set         *)
(* (tripped) and how many ticks are left until it (left).  The code only   *)
(* compares the failure counter with the threshold, so it is counted up to *)
(* Threshold + 1.  The service outside is a flag: while it is up, requests *)
(* in flight are answered with 200.                                        *)
(***************************************************************************)
EXTENDS Integers, FiniteSets

CONSTANTS
  Requests,   \* coroutines that may be inside _get or _post at once
  Threshold,  \* _circuit_threshold
  Timeout     \* _circuit_timeout, in ticks

ASSUME ThresholdAssumption == Threshold \in Nat /\ Threshold > 0
ASSUME TimeoutAssumption   == Timeout \in Nat /\ Timeout > 0

VARIABLES
  tripped,    \* _circuit_open_until is not 0.0
  left,       \* ticks until _circuit_open_until
  failures,   \* _consecutive_failures
  http,       \* http[r]: none, or the HTTP call r awaits and what admitted it
  up          \* data-service2.0 answers with 200

vars == <<tripped, left, failures, http, up>>

Init ==
  /\ tripped = FALSE
  /\ left = 0
  /\ failures = 0
  /\ http = [r \in Requests |-> "none"]
  /\ up \in BOOLEAN

Open     == tripped /\ left > 0     \* _is_circuit_open()
HalfOpen == tripped /\ left = 0

\* _is_circuit_open() is FALSE: the coroutine suspends in its HTTP call.
Send(r) ==
  /\ http[r] = "none"
  /\ ~ Open
  /\ http' = [http EXCEPT ![r] = IF HalfOpen THEN "probe" ELSE "call"]
  /\ UNCHANGED <<tripped, left, failures, up>>

\* Variants: a success resets only the time, or only the counter.
ClearTimeOnly    == tripped' = FALSE /\ left' = 0 /\ UNCHANGED failures
ClearCounterOnly == failures' = 0 /\ UNCHANGED <<tripped, left>>

\* _record_success
RecordSuccess ==
  /\ failures' = 0
  /\ tripped' = FALSE
  /\ left' = 0

\* Variants: the circuit opens at exactly the threshold; the timeout backs off.
OpenAtThreshold ==
  /\ failures' = IF failures > Threshold THEN failures ELSE failures + 1
  /\ IF failures' = Threshold THEN tripped' = TRUE /\ left' = Timeout
     ELSE UNCHANGED <<tripped, left>>
OpenWithBackoff ==
  /\ failures' = IF failures > Threshold THEN failures ELSE failures + 1
  /\ IF failures' >= Threshold THEN tripped' = TRUE /\ left' = left + Timeout
     ELSE UNCHANGED <<tripped, left>>

\* _record_failure
RecordFailure ==
  /\ failures' = IF failures > Threshold THEN failures ELSE failures + 1
  /\ IF failures' >= Threshold
     THEN tripped' = TRUE /\ left' = Timeout
     ELSE UNCHANGED <<tripped, left>>

Answered(r) ==
  /\ http[r] # "none"
  /\ http' = [http EXCEPT ![r] = "none"]
  /\ UNCHANGED up

Success(r) == Answered(r) /\ RecordSuccess

\* Timeout, connection or HTTP error, 429, or an error status.
Failure(r) == Answered(r) /\ ~ up /\ RecordFailure

\* 401 and 403 are neither a success nor a failure, and so is a cancellation.
Refused(r) == Answered(r) /\ ~ up /\ UNCHANGED <<tripped, left, failures>>

Tick ==
  /\ left > 0
  /\ left' = left - 1
  /\ UNCHANGED <<tripped, failures, http, up>>

Outage == up' = ~ up /\ UNCHANGED <<tripped, left, failures, http>>

Answer(r) == Success(r) \/ Failure(r) \/ Refused(r)

Next == \/ Tick \/ Outage
        \/ \E r \in Requests : Send(r) \/ Answer(r)

Spec == Init /\ [][Next]_vars

(* Time passes, every HTTP call ends (httpx runs it under a timeout), and  *)
(* the callers keep calling: the universe is fetched again every cycle.    *)
Fairness ==
  /\ WF_vars(Tick)
  /\ \A r \in Requests : WF_vars(Send(r)) /\ WF_vars(Answer(r))

FairSpec == Spec /\ Fairness

-----------------------------------------------------------------------------
TypeOK ==
  /\ tripped \in BOOLEAN
  /\ left \in 0 .. Timeout
  /\ failures \in 0 .. Threshold + 1
  /\ http \in [Requests -> {"none", "call", "probe"}]
  /\ up \in BOOLEAN

(* The two fields never disagree, whatever answers overlap: the circuit is *)
(* tripped exactly while the counter is at the threshold or above it.      *)
TrippedIffThreshold == tripped = TRUE <=> failures >= Threshold

(* A failed probe opens the circuit for the full timeout again; it does    *)
(* not take Threshold more failures.                                       *)
FailedProbeReopens ==
  [][(\E r \in Requests : Failure(r)) /\ HalfOpen => Open' /\ left' = Timeout]_vars

(* Once the service stays up, the circuit closes for good.                 *)
ClosesAfterRecovery == <>[]up => <>[](~ tripped)

=============================================================================

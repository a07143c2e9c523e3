------------------------ MODULE CircuitBreakerProofs ------------------------
(* The circuit breaker for any number of coroutines and any threshold and  *)
(* timeout.  TypeOK bounds the saturated counter, and with that bound      *)
(* TrippedIffThreshold is inductive as it stands.                          *)
EXTENDS CircuitBreaker, TLAPS

LEMMA InitInv == Init => TypeOK /\ TrippedIffThreshold
<1> SUFFICES ASSUME Init PROVE TypeOK /\ TrippedIffThreshold
    OBVIOUS
<1>1. TrippedIffThreshold
      BY ThresholdAssumption DEF Init, TrippedIffThreshold
<1>2. left \in 0 .. Timeout /\ failures \in 0 .. Threshold + 1
      BY ThresholdAssumption, TimeoutAssumption DEF Init
<1>3. QED
      BY <1>1, <1>2 DEF Init, TypeOK

LEMMA NextInv ==
  TypeOK /\ TrippedIffThreshold /\ [Next]_vars => TypeOK' /\ TrippedIffThreshold'
<1> SUFFICES ASSUME TypeOK, TrippedIffThreshold, [Next]_vars
             PROVE  TypeOK' /\ TrippedIffThreshold'
    OBVIOUS
<1> USE ThresholdAssumption, TimeoutAssumption DEF TypeOK, TrippedIffThreshold
<1>1. CASE Tick
      BY <1>1 DEF Tick
<1>2. CASE Outage
      BY <1>2 DEF Outage
<1>3. ASSUME NEW r \in Requests, Send(r)
      PROVE  TypeOK' /\ TrippedIffThreshold'
      BY <1>3 DEF Send
<1>4. ASSUME NEW r \in Requests, Success(r)
      PROVE  TypeOK' /\ TrippedIffThreshold'
  <2>1. tripped' = FALSE /\ left' = 0 /\ failures' = 0
        BY <1>4 DEF Success, RecordSuccess
  <2>2. left' \in 0 .. Timeout /\ failures' \in 0 .. Threshold + 1
        BY <2>1
  <2>3. TrippedIffThreshold'
        BY <2>1
  <2>4. QED
        BY <1>4, <2>1, <2>2, <2>3 DEF Success, Answered
<1>5. ASSUME NEW r \in Requests, Failure(r)
      PROVE  TypeOK' /\ TrippedIffThreshold'
  <2>1. failures' \in 0 .. Threshold + 1 /\ failures' >= failures
        BY <1>5 DEF Failure, RecordFailure
  <2>2. CASE failures' >= Threshold
    <3>1. tripped' = TRUE /\ left' = Timeout
          BY <1>5, <2>2 DEF Failure, RecordFailure
    <3>2. left' \in 0 .. Timeout
          BY <3>1
    <3>3. TrippedIffThreshold'
          BY <2>2, <3>1
    <3>4. QED
          BY <1>5, <2>1, <3>1, <3>2, <3>3 DEF Failure, Answered
  <2>3. CASE ~ (failures' >= Threshold)
    <3>1. tripped' = tripped /\ left' = left
          BY <1>5, <2>3 DEF Failure, RecordFailure
    <3>2. ~ (failures >= Threshold)
          BY <2>1, <2>3
    <3>3. TrippedIffThreshold'
          BY <2>3, <3>1, <3>2
    <3>4. QED
          BY <1>5, <2>1, <3>1, <3>3 DEF Failure, Answered
  <2>4. QED
        BY <2>2, <2>3
<1>6. ASSUME NEW r \in Requests, Refused(r)
      PROVE  TypeOK' /\ TrippedIffThreshold'
      BY <1>6 DEF Refused, Answered
<1>7. CASE UNCHANGED vars
      BY <1>7 DEF vars
<1>8. QED
      BY <1>1, <1>2, <1>3, <1>4, <1>5, <1>6, <1>7 DEF Next, Answer

(* The variables stay in their ranges (TypeOK).                            *)
THEOREM BreakerTypeCorrect == Spec => []TypeOK
<1>1. TypeOK /\ TrippedIffThreshold => TypeOK
      OBVIOUS
<1>2. QED
      BY InitInv, NextInv, <1>1, PTL DEF Spec

(* _circuit_open_until is set exactly while the failure counter has reached *)
(* the threshold, in every interleaving of answers (TrippedIffThreshold).   *)
THEOREM BreakerFieldsAgree == Spec => []TrippedIffThreshold
<1>1. TypeOK /\ TrippedIffThreshold => TrippedIffThreshold
      OBVIOUS
<1>2. QED
      BY InitInv, NextInv, <1>1, PTL DEF Spec

(* One failure of a half-open circuit opens it for the whole timeout, since *)
(* tripping left the counter at the threshold (FailedProbeReopens).         *)
THEOREM BreakerReopens == Spec => FailedProbeReopens
<1>1. TypeOK /\ TrippedIffThreshold /\ [Next]_vars
      => [(\E r \in Requests : Failure(r)) /\ HalfOpen => Open' /\ left' = Timeout]_vars
  <2> SUFFICES ASSUME TypeOK, TrippedIffThreshold, HalfOpen,
                      NEW r \in Requests, Failure(r)
               PROVE  Open' /\ left' = Timeout
      OBVIOUS
  <2>1. failures \in Nat /\ failures >= Threshold
        BY ThresholdAssumption DEF TypeOK, TrippedIffThreshold, HalfOpen
  <2>2. failures' >= Threshold
        BY <2>1, ThresholdAssumption DEF Failure, RecordFailure
  <2>3. tripped' = TRUE /\ left' = Timeout
        BY <2>2 DEF Failure, RecordFailure
  <2>4. QED
        BY <2>3, TimeoutAssumption DEF Open
<1>2. QED
      BY InitInv, NextInv, <1>1, PTL DEF Spec, FailedProbeReopens

=============================================================================

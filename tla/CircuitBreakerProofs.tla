------------------------ MODULE CircuitBreakerProofs ------------------------
(***************************************************************************)
(* Proofs about CircuitBreaker for any number of callers, any threshold    *)
(* and any recovery timeout.                                               *)
(***************************************************************************)
EXTENDS CircuitBreaker, TLAPS

Inv == TypeOK /\ OneProbe /\ OpensAfterConsecutiveFailures

LEMMA InvInit == Init => Inv
BY ThresholdAssumption, TimeoutAssumption
DEF Init, Inv, TypeOK, OneProbe, Probing, OpensAfterConsecutiveFailures,
    BreakerStates

\* What the end of a call may do to the breaker: a call that is not the probe
\* counts only while the breaker is closed, the probe decides what follows.
LEMMA Outcomes ==
  ASSUME Inv, NEW c \in Callers, End(c)
  PROVE  /\ inflight[c] = "regular" /\ state # "CLOSED" => UNCHANGED breaker
         /\ inflight[c] = "regular" /\ state = "CLOSED" =>
              state' \in {"CLOSED", "OPEN"}
         /\ inflight[c] = "probe" =>
              state = "HALF_OPEN" /\ state' \in {"CLOSED", "OPEN"}
<1>1. inflight[c] \in {"regular", "probe"}
  BY DEF End, Answered, Failed, Interrupted, Ends, Inv, TypeOK
<1>2. inflight[c] = "probe" => state = "HALF_OPEN"
  BY DEF Inv, OneProbe, Probing
<1>3. CASE Answered(c)
  BY <1>1, <1>2, <1>3 DEF Answered, RecordSuccess, Close, breaker
<1>4. CASE Failed(c)
  BY <1>1, <1>2, <1>4 DEF Failed, RecordFailure, Open, breaker
<1>5. CASE Interrupted(c)
  BY <1>1, <1>2, <1>5 DEF Interrupted, RecordUnfinishedProbe, Open, breaker
<1>6. QED
  BY <1>3, <1>4, <1>5 DEF End

LEMMA InvStep == Inv /\ [Next]_vars => Inv'
<1> SUFFICES ASSUME Inv, [Next]_vars PROVE Inv'
  OBVIOUS
<1> USE ThresholdAssumption, TimeoutAssumption, NoneAssumption
<1>1. ASSUME UNCHANGED vars PROVE Inv'
  BY <1>1
  DEF Inv, TypeOK, OneProbe, Probing, OpensAfterConsecutiveFailures, vars, breaker
<1>2. ASSUME Tick PROVE Inv'
  BY <1>2
  DEF Tick, Inv, TypeOK, OneProbe, Probing, OpensAfterConsecutiveFailures
<1>3. ASSUME NEW c \in Callers, StartRegular(c) PROVE Inv'
  BY <1>3
  DEF StartRegular, breaker, Inv, TypeOK, OneProbe, Probing,
      OpensAfterConsecutiveFailures
<1>4. ASSUME NEW c \in Callers, StartProbe(c) PROVE Inv'
  BY <1>4
  DEF StartProbe, Inv, TypeOK, OneProbe, Probing, BreakerStates,
      OpensAfterConsecutiveFailures
<1>5. ASSUME NEW c \in Callers, End(c) PROVE Inv'
  <2>1. /\ inflight[c] # "none"
        /\ inflight' = [inflight EXCEPT ![c] = "none"]
    BY <1>5 DEF End, Answered, Failed, Interrupted, Ends
  <2>2. OneProbe'
    BY <1>5, <2>1, Outcomes DEF Inv, TypeOK, OneProbe, Probing, breaker
  <2>3. inflight' \in [Callers -> {"none", "regular", "probe"}]
    BY <2>1 DEF Inv, TypeOK
  <2>4. streak \in 0..FailureThreshold /\ failure_count \in 0..FailureThreshold
        /\ state \in BreakerStates /\ open_for \in (0..RecoveryTimeout) \cup {None}
        /\ (state = "CLOSED" <=> failure_count < FailureThreshold)
        /\ (state = "CLOSED" <=> open_for = None)
        /\ (state = "CLOSED" => failure_count = streak)
    BY DEF Inv, TypeOK, OpensAfterConsecutiveFailures
  <2>5. inflight[c] \in {"regular", "probe"}
        /\ (inflight[c] = "probe" => state = "HALF_OPEN")
    BY <2>1, <1>5, Outcomes DEF Inv, TypeOK
  <2>6. state' \in BreakerStates
        /\ open_for' \in (0..RecoveryTimeout) \cup {None}
        /\ (state' = "CLOSED" <=> open_for' = None)
    <3>1. CASE Close \/ Open
      BY <3>1 DEF Close, Open, BreakerStates
    <3>2. CASE UNCHANGED <<state, open_for>>
      BY <2>4, <3>2
    <3>3. CASE open_for' = None /\ UNCHANGED state /\ state = "CLOSED"
      BY <2>4, <3>3
    <3>4. QED
      BY <1>5, <3>1, <3>2, <3>3
      DEF End, Answered, Failed, Interrupted, RecordSuccess, RecordFailure,
          RecordUnfinishedProbe, breaker
  <2>7. /\ streak' \in 0..FailureThreshold
        /\ failure_count' \in 0..FailureThreshold
        /\ state' = "CLOSED" <=> failure_count' < FailureThreshold
        /\ state' = "CLOSED" => failure_count' = streak'
    <3>1. CASE Answered(c)
      BY <2>4, <2>5, <3>1 DEF Answered, RecordSuccess, Close, breaker
    <3>2. CASE Failed(c)
      BY <2>4, <2>5, <3>2 DEF Failed, RecordFailure, Open, breaker
    <3>3. CASE Interrupted(c)
      BY <2>4, <2>5, <3>3 DEF Interrupted, RecordUnfinishedProbe, Open, breaker
    <3>4. QED
      BY <1>5, <3>1, <3>2, <3>3 DEF End
  <2>8. QED
    BY <2>2, <2>3, <2>6, <2>7 DEF Inv, TypeOK, OpensAfterConsecutiveFailures
<1>6. QED
  BY <1>1, <1>2, <1>3, <1>4, <1>5 DEF Next

\* The breaker is half open exactly while one probe is out, and never tries
\* the provider with two, for any number of concurrent callers.
THEOREM OneProbeAtATime == Spec => []OneProbe
<1>1. Inv => OneProbe
  BY DEF Inv
<1>2. QED
  BY <1>1, InvInit, InvStep, PTL DEF Spec

\* The state has its types, whatever calls end in whatever order; the breaker
\* has an opening time exactly while it is not closed, so that _before_call
\* never raises RuntimeError.
THEOREM TypeCorrect == Spec => []TypeOK
<1>1. Inv => TypeOK
  BY DEF Inv
<1>2. QED
  BY <1>1, InvInit, InvStep, PTL DEF Spec

\* The breaker opens when, and only when, failure_threshold calls in a row
\* failed, whatever calls of earlier times end in between.
THEOREM ConsecutiveFailures == Spec => []OpensAfterConsecutiveFailures
<1>1. Inv => OpensAfterConsecutiveFailures
  BY DEF Inv
<1>2. QED
  BY <1>1, InvInit, InvStep, PTL DEF Spec

\* Once the breaker is not closed, nothing but its probe moves it on.
THEOREM LateCalls == Spec => LateCallsChangeNothing
<1> DEFINE Late == \A c \in Callers :
       (inflight[c] = "regular" /\ inflight'[c] = "none" /\ state # "CLOSED")
         => UNCHANGED breaker
<1>1. Inv /\ [Next]_vars => [Late]_vars
  <2> SUFFICES ASSUME Inv, Next, NEW c \in Callers, inflight[c] = "regular",
                      inflight'[c] = "none", state # "CLOSED"
               PROVE  UNCHANGED breaker
    OBVIOUS
  <2>1. PICK d \in Callers : StartRegular(d) \/ StartProbe(d) \/ End(d)
    BY DEF Next, Tick
  <2>2. inflight \in [Callers -> {"none", "regular", "probe"}]
    BY DEF Inv, TypeOK
  <2>3. End(d) /\ d = c
    BY <2>1, <2>2 DEF StartRegular, StartProbe, End, Answered, Failed,
       Interrupted, Ends
  <2>4. QED
    BY <2>3, Outcomes
<1>2. QED
  BY <1>1, InvInit, InvStep, PTL DEF Spec, LateCallsChangeNothing
=============================================================================

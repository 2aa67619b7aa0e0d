--------------------------- MODULE CircuitBreaker ---------------------------
(***************************************************************************)
(* The circuit breaker a worker process puts in front of its provider:     *)
(* handlers and the reconciler share one instance, and up to as many calls *)
(* are in flight as there are Callers.  Between the awaits the event loop  *)
(* runs one of them at a time, so that admitting a call and recording its  *)
(* outcome are atomic; while a call is in flight anything may happen to    *)
(* the breaker.                                                            *)
(*                                                                         *)
(* Time counts from the moment the breaker opened, in ticks, up to the     *)
(* recovery timeout: what comes after that is all the same to the code.    *)
(***************************************************************************)
EXTENDS Naturals

CONSTANTS
  Callers,           \* those who call the provider through the breaker
  FailureThreshold,  \* failure_threshold
  RecoveryTimeout,   \* recovery_timeout_seconds, in ticks
  None               \* Python's None

ASSUME ThresholdAssumption == FailureThreshold \in Nat \ {0}
ASSUME TimeoutAssumption == RecoveryTimeout \in Nat
ASSUME NoneAssumption == None \notin Nat

VARIABLES
  state,          \* CLOSED, OPEN or HALF_OPEN
  failure_count,
  open_for,       \* None if opened_at is, else the ticks since then
  inflight,       \* per caller: "none", or its call is "regular" or the "probe"
  streak          \* history: failures since the last answer of the provider

breaker == <<state, failure_count, open_for>>
vars == <<breaker, inflight, streak>>

BreakerStates == {"CLOSED", "OPEN", "HALF_OPEN"}

Init ==
  /\ state = "CLOSED"
  /\ failure_count = 0
  /\ open_for = None
  /\ inflight = [c \in Callers |-> "none"]
  /\ streak = 0

\* monotonic() advances.
Tick ==
  /\ open_for # None
  /\ open_for < RecoveryTimeout
  /\ open_for' = open_for + 1
  /\ UNCHANGED <<state, failure_count, inflight, streak>>

-----------------------------------------------------------------------------
(* _before_call.  A call that is refused changes nothing.                  *)

\* Mutant of StartProbe: the state is left to whoever records the outcome.
StartProbeStillOpen(c) ==
  /\ inflight[c] = "none"
  /\ state = "OPEN"
  /\ open_for # None /\ open_for >= RecoveryTimeout
  /\ inflight' = [inflight EXCEPT ![c] = "probe"]
  /\ UNCHANGED <<breaker, streak>>

StartRegular(c) ==
  /\ inflight[c] = "none"
  /\ state = "CLOSED"
  /\ inflight' = [inflight EXCEPT ![c] = "regular"]
  /\ UNCHANGED <<breaker, streak>>

\* open_for is None while the breaker is open only in the branch of
\* _before_call that raises RuntimeError.
StartProbe(c) ==
  /\ inflight[c] = "none"
  /\ state = "OPEN"
  /\ open_for # None /\ open_for >= RecoveryTimeout
  /\ state' = "HALF_OPEN"
  /\ inflight' = [inflight EXCEPT ![c] = "probe"]
  /\ UNCHANGED <<failure_count, open_for, streak>>

-----------------------------------------------------------------------------
(* What recording an outcome does to the breaker.                          *)

\* Mutant of Close: the failures before the breaker opened stay counted.
CloseKeepingCount == state' = "CLOSED" /\ open_for' = None /\ UNCHANGED failure_count

Close == state' = "CLOSED" /\ failure_count' = 0 /\ open_for' = None
Open == state' = "OPEN" /\ open_for' = 0

\* Mutant of RecordSuccess: the failures are forgotten only when the breaker
\* closes.
RecordSuccessKeepingCount(c) ==
  IF inflight[c] = "probe" /\ state = "HALF_OPEN" THEN Close ELSE UNCHANGED breaker

\* _record_success
RecordSuccess(c) ==
  IF inflight[c] = "probe"
    THEN IF state = "HALF_OPEN" THEN Close ELSE UNCHANGED breaker
    ELSE IF state = "CLOSED"
      THEN failure_count' = 0 /\ open_for' = None /\ UNCHANGED state
      ELSE UNCHANGED breaker

\* Mutant of RecordFailure: a late failure of a regular call reopens too.
RecordAnyFailure(c) ==
  IF inflight[c] = "probe" \/ state # "CLOSED"
    THEN Open /\ UNCHANGED failure_count
    ELSE /\ failure_count' = failure_count + 1
         /\ IF failure_count + 1 >= FailureThreshold
              THEN Open ELSE UNCHANGED <<state, open_for>>

\* _record_failure
RecordFailure(c) ==
  IF inflight[c] = "probe"
    THEN IF state = "HALF_OPEN" THEN Open /\ UNCHANGED failure_count
                                ELSE UNCHANGED breaker
    ELSE IF state = "CLOSED"
      THEN /\ failure_count' = failure_count + 1
           /\ IF failure_count + 1 >= FailureThreshold
                THEN Open ELSE UNCHANGED <<state, open_for>>
      ELSE UNCHANGED breaker

\* Mutant of RecordUnfinishedProbe: CancelledError is not an Exception, and
\* nothing is recorded for it.
RecordNothing(c) == UNCHANGED breaker

\* _record_cancelled_probe and _record_inconclusive_probe, which do the same.
RecordUnfinishedProbe(c) ==
  IF inflight[c] = "probe" /\ state = "HALF_OPEN"
    THEN Open /\ UNCHANGED failure_count
    ELSE UNCHANGED breaker

-----------------------------------------------------------------------------
(* The ways CircuitBreaker.call ends.                                      *)

Ends(c) == /\ inflight[c] # "none"
           /\ inflight' = [inflight EXCEPT ![c] = "none"]

\* A result, or ProviderPermanentError: the provider answered.
Answered(c) ==
  /\ Ends(c)
  /\ RecordSuccess(c)
  /\ streak' = 0

\* ProviderUnavailableError or ProviderAmbiguousOutcomeError.
Failed(c) ==
  /\ Ends(c)
  /\ RecordFailure(c)
  /\ streak' = IF streak < FailureThreshold THEN streak + 1 ELSE streak

\* CancelledError, or any other exception.
Interrupted(c) ==
  /\ Ends(c)
  /\ RecordUnfinishedProbe(c)
  /\ UNCHANGED streak

End(c) == Answered(c) \/ Failed(c) \/ Interrupted(c)

Next ==
  \/ Tick
  \/ \E c \in Callers : StartRegular(c) \/ StartProbe(c) \/ End(c)

Spec == Init /\ [][Next]_vars

\* Time passes, and no call lasts for ever: a charge has a time budget, of a
\* lookup, which has a timeout per read, it is assumed.
Fairness == /\ WF_vars(Tick)
            /\ \A c \in Callers : WF_vars(End(c))

FairSpec == Spec /\ Fairness

-----------------------------------------------------------------------------
(* Correctness.                                                            *)

\* The types, with what ties the columns of the breaker to its state: it
\* counts to the threshold exactly when it is not closed, and has an opening
\* time exactly then, so that _before_call never raises RuntimeError.
TypeOK ==
  /\ state \in BreakerStates
  /\ failure_count \in 0..FailureThreshold
  /\ open_for \in (0..RecoveryTimeout) \cup {None}
  /\ inflight \in [Callers -> {"none", "regular", "probe"}]
  /\ streak \in 0..FailureThreshold
  /\ state = "CLOSED" <=> failure_count < FailureThreshold
  /\ state = "CLOSED" <=> open_for = None

Probing(c) == inflight[c] = "probe"

\* Half open means that one call is out to try the provider: never two, and
\* never none, or the breaker would refuse every call from then on.
OneProbe ==
  /\ \A c, d \in Callers : Probing(c) /\ Probing(d) => c = d
  /\ state = "HALF_OPEN" <=> \E c \in Callers : Probing(c)

\* README: the breaker opens after failure_threshold consecutive failures.
\* While it is closed it has counted exactly the failures since the provider
\* last answered anyone, calls of earlier times included, and less than the
\* threshold of them.
OpensAfterConsecutiveFailures ==
  state = "CLOSED" => failure_count = streak /\ streak < FailureThreshold

\* Calls that started before the breaker opened and end after it did never
\* close it, reopen it or restart its timeout: only the probe's end does.
LateCallsChangeNothing ==
  [][\A c \in Callers :
       (inflight[c] = "regular" /\ inflight'[c] = "none" /\ state # "CLOSED")
         => UNCHANGED breaker]_vars

\* The breaker refuses calls.
Refusing == \/ state = "HALF_OPEN"
            \/ state = "OPEN" /\ open_for < RecoveryTimeout

\* However its probes end, failing, cancelled or with an error nobody
\* expected, the breaker lets a call through again.
RefusalEnds == Refusing ~> ~Refusing
=============================================================================

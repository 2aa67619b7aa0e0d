--------------------------- MODULE ProviderClient ---------------------------
(***************************************************************************)
(* PaymentProviderClient: a charge is tried again as long as the provider  *)
(* cannot have taken it on and the attempts and the time budget of the     *)
(* call allow it.  The provider is MockProvider, or one that turns requests*)
(* away as well; the network between them may fail at any moment, before a *)
(* request arrives or after.                                               *)
(*                                                                         *)
(* A call has its own clock, elapsed, the ticks since started_at.  The     *)
(* event loop wakes a call up to Lag ticks after its timer ran out.        *)
(* httpx's timeouts end a request earlier than the budget does, at a moment*)
(* that depends on where it hangs: it may fail at any time.                *)
(***************************************************************************)
EXTENDS MockProvider

CONSTANTS
  Lookups,       \* calls of get_payment_by_idempotency_key
  BaseDelay,     \* payment_provider_retry_base_delay_seconds, in ticks
  MaxDelay,      \* payment_provider_retry_max_delay_seconds
  TotalTimeout,  \* payment_provider_retry_total_timeout_seconds
  RetryAfters,   \* bound: the delays a Retry-After header may ask for
  Lag            \* bound: by how much a timer may be late

ASSUME SettingsAssumption ==
  /\ BaseDelay \in Nat
  /\ MaxDelay \in Nat /\ MaxDelay >= BaseDelay
  /\ TotalTimeout \in Nat \ {0}
  /\ RetryAfters \subseteq Nat
  /\ Lag \in Nat

VARIABLES
  call,    \* per charge: its step, key, attempt, clock, timer and outcome
  lookup   \* per lookup: its step, key, and what the provider answered

vars == <<providerVars, call, lookup>>

\* How a charge may end: a verdict, a ProviderError, or any other exception.
Outcomes == Verdicts \cup {"ambiguous", "unavailable", "permanent", "error"}

ASSUME NoneAssumption == None \notin Keys \cup Responses \cup Outcomes

CallSteps == {"idle", "connect", "wait", "sleep", "done"}

NewCall == [step |-> "idle", key |-> None, attempt |-> 1, elapsed |-> 0,
            due |-> 0, outcome |-> None]

Init ==
  /\ ProviderInit
  /\ call = [c \in Calls |-> NewCall]
  /\ lookup = [l \in Lookups |->
                 [step |-> "idle", key |-> None, answer |-> None]]

\* The request of call c's present attempt.
Current(c) == <<c, call[c].attempt>>

Remaining(c) == TotalTimeout - call[c].elapsed

End(c, outcome) ==
  call' = [call EXCEPT ![c].step = "done", ![c].outcome = outcome]

-----------------------------------------------------------------------------
(* process_payment                                                         *)

Begin(c, k) ==
  /\ call[c].step = "idle"
  /\ call' = [call EXCEPT ![c].step = "connect", ![c].key = k,
                          ![c].due = TotalTimeout]
  /\ UNCHANGED <<providerVars, lookup>>

\* A connection is made and the request is on its way.
Send(c) ==
  /\ call[c].step = "connect"
  /\ Handle(Current(c), call[c].key, "sent", None)
  /\ call' = [call EXCEPT ![c].step = "wait"]
  /\ UNCHANGED <<records, lookup>>

\* Up to min(base * 2 ** (attempt - 1), max): full jitter.
Backoff(attempt) ==
  {delay \in 0..MaxDelay : delay <= BaseDelay * 2 ^ (attempt - 1)}

\* Mutant of WaitBeforeRetry: the delay is not held against the budget.
WaitRegardless(c, delay) ==
  call' = [call EXCEPT ![c].step = "sleep", ![c].due = call[c].elapsed + delay]

\* _wait_before_retry, for a delay that is a number.
WaitBeforeRetry(c, delay) ==
  \/ delay >= Remaining(c) /\ End(c, "unavailable")
  \/ /\ delay < Remaining(c)
     /\ call' = [call EXCEPT ![c].step = "sleep",
                             ![c].due = call[c].elapsed + delay]

\* Mutant of NotConnected: the loop runs once more than it has attempts.
NotConnectedOnceMore(c) ==
  /\ call[c].step = "connect"
  /\ \/ call[c].attempt > MaxAttempts /\ End(c, "unavailable")
     \/ /\ call[c].attempt <= MaxAttempts
        /\ \E delay \in Backoff(call[c].attempt) : WaitBeforeRetry(c, delay)
  /\ UNCHANGED <<providerVars, lookup>>

\* Nothing was connected: ConnectError, ConnectTimeout, PoolTimeout.
NotConnected(c) ==
  /\ call[c].step = "connect"
  /\ \/ call[c].attempt = MaxAttempts /\ End(c, "unavailable")
     \/ /\ call[c].attempt < MaxAttempts
        /\ \E delay \in Backoff(call[c].attempt) : WaitBeforeRetry(c, delay)
  /\ UNCHANGED <<providerVars, lookup>>

\* A connection breaks or times out once the request may be on its way.
TransportFails(c) ==
  /\ call[c].step \in {"connect", "wait"}
  /\ End(c, "ambiguous")
  /\ UNCHANGED <<providerVars, lookup>>

Response(c) == request[Current(c)].response

GotResponse(c) == /\ call[c].step = "wait"
                  /\ request[Current(c)].step = "answered"

GetVerdict(c) ==
  /\ GotResponse(c)
  /\ Response(c) \in Verdicts
  /\ End(c, Response(c))
  /\ UNCHANGED <<providerVars, lookup>>

\* Mutant of GetUnclear: a 5xx is retried like a 503.
RetryUnclear(c) ==
  /\ GotResponse(c)
  /\ Response(c) = "unclear"
  /\ \/ call[c].attempt = MaxAttempts /\ End(c, "unavailable")
     \/ /\ call[c].attempt < MaxAttempts
        /\ \E delay \in Backoff(call[c].attempt) : WaitBeforeRetry(c, delay)
  /\ UNCHANGED <<providerVars, lookup>>

\* 408, a 5xx other than 503, or a 2xx whose body is no verdict.
GetUnclear(c) ==
  /\ GotResponse(c)
  /\ Response(c) = "unclear"
  /\ End(c, "ambiguous")
  /\ UNCHANGED <<providerVars, lookup>>

GetRejection(c) ==
  /\ GotResponse(c)
  /\ Response(c) = "rejected"
  /\ End(c, "permanent")
  /\ UNCHANGED <<providerVars, lookup>>

\* 429 and 503.  A Retry-After that is absent, unreadable or negative leaves
\* the delay to the back-off; a date gives the ticks until then, a past one
\* 0.  NaN compares with nothing, so that the budget does not stop it:
\* asyncio.sleep raises ValueError, and the call ends as no ProviderError.
GetTryLater(c) ==
  /\ GotResponse(c)
  /\ Response(c) = "try_later"
  /\ \/ call[c].attempt = MaxAttempts /\ End(c, "unavailable")
     \/ /\ call[c].attempt < MaxAttempts
        /\ \/ \E delay \in Backoff(call[c].attempt) \cup RetryAfters :
                WaitBeforeRetry(c, delay)
           \/ End(c, "error")
  /\ UNCHANGED <<providerVars, lookup>>

\* Mutant of BudgetRunsOut: the time to connect is not limited.
ResponseTimesOut(c) ==
  /\ call[c].step = "wait"
  /\ call[c].elapsed >= call[c].due
  /\ End(c, "ambiguous")
  /\ UNCHANGED <<providerVars, lookup>>

\* asyncio.timeout(remaining_time)
BudgetRunsOut(c) ==
  /\ call[c].step \in {"connect", "wait"}
  /\ call[c].elapsed >= call[c].due
  /\ End(c, "ambiguous")
  /\ UNCHANGED <<providerVars, lookup>>

\* Mutant of Retry: every attempt gets the whole budget.
RetryAfresh(c) ==
  /\ call[c].step = "sleep"
  /\ call[c].elapsed >= call[c].due
  /\ call' = [call EXCEPT ![c].step = "connect", ![c].attempt = @ + 1,
                          ![c].due = call[c].elapsed + TotalTimeout]
  /\ UNCHANGED <<providerVars, lookup>>

\* asyncio.sleep(delay) returns; the next request gets what time is left.
Retry(c) ==
  /\ call[c].step = "sleep"
  /\ call[c].elapsed >= call[c].due
  /\ \/ Remaining(c) <= 0 /\ End(c, "unavailable")
     \/ /\ Remaining(c) > 0
        /\ call' = [call EXCEPT ![c].step = "connect", ![c].attempt = @ + 1,
                                ![c].due = call[c].elapsed + Remaining(c)]
  /\ UNCHANGED <<providerVars, lookup>>

-----------------------------------------------------------------------------
(* get_payment_by_idempotency_key                                          *)

\* The provider reads its records.
BeginLookup(l, k) ==
  /\ lookup[l].step = "idle"
  /\ lookup' = [lookup EXCEPT ![l] =
       [step |-> "wait", key |-> k,
        answer |-> IF records[k] = None THEN "not_found" ELSE records[k]]]
  /\ UNCHANGED <<providerVars, call>>

\* Its answer arrives, or another one: no connection, a 5xx or an invalid
\* body; or a 4xx other than 404.
EndLookup(l) ==
  /\ lookup[l].step = "wait"
  /\ \E answer \in {lookup[l].answer, "unavailable", "permanent"} :
       lookup' = [lookup EXCEPT ![l].step = "done", ![l].answer = answer]
  /\ UNCHANGED <<providerVars, call>>

-----------------------------------------------------------------------------
Running(c) == call[c].step \in {"connect", "wait", "sleep"}

\* Time passes for every running call, unless a timer would be too late.
Tick ==
  /\ \E c \in Calls : Running(c)
  /\ \A c \in Calls : Running(c) => call[c].elapsed < call[c].due + Lag
  /\ call' = [c \in Calls |-> IF Running(c)
                                THEN [call[c] EXCEPT !.elapsed = @ + 1]
                                ELSE call[c]]
  /\ UNCHANGED <<providerVars, lookup>>

GetResponse(c) ==
  GetVerdict(c) \/ GetUnclear(c) \/ GetRejection(c) \/ GetTryLater(c)

Timer(c) == BudgetRunsOut(c) \/ Retry(c)

Next ==
  \/ Tick
  \/ \E c \in Calls :
       \/ \E k \in Keys : Begin(c, k)
       \/ Send(c) \/ NotConnected(c) \/ TransportFails(c) \/ GetResponse(c)
       \/ Timer(c)
  \/ \E r \in Requests : /\ ProcessPayment(r) \/ TurnAway(r) \/ WakeUp(r)
                         /\ UNCHANGED <<call, lookup>>
  \/ \E l \in Lookups : \/ \E k \in Keys : BeginLookup(l, k)
                        \/ EndLookup(l)

Spec == Init /\ [][Next]_vars

\* Time passes and the event loop serves timers.  Provider and network owe
\* nothing.
Fairness ==
  /\ WF_vars(Tick)
  /\ \A c \in Calls : WF_vars(Timer(c))

FairSpec == Spec /\ Fairness
-----------------------------------------------------------------------------
(* Correctness.                                                            *)

Times == 0..(TotalTimeout + Lag)

\* The types of the variables.
TypeOK ==
  /\ ProviderTypeOK
  /\ call \in [Calls ->
       [step : CallSteps, key : Keys \cup {None}, attempt : 1..MaxAttempts,
        elapsed : Nat, due : Nat, outcome : Outcomes \cup {None}]]
  /\ lookup \in [Lookups ->
       [step : {"idle", "wait", "done"}, key : Keys \cup {None},
        answer : Verdicts \cup {"not_found", "unavailable", "permanent", None}]]

\* README: the retries are limited by one time budget for all of them.  All
\* attempts, waits and Retry-After delays together stay inside it, but for
\* the lateness of one timer; late timers do not add up.
BudgetKept == \A c \in Calls : call[c].elapsed <= TotalTimeout + Lag

\* README: no dangerous operation is repeated blindly.  A call sends another
\* request only when the provider turned all earlier ones away, or they were
\* never sent; and it blames an unavailable or rejecting provider only then.
NoBlindRetry ==
  \A c \in Calls :
    call[c].step \in {"connect", "sleep"}
      \/ call[c].outcome \in {"unavailable", "permanent", "error"}
    => \A a \in 1..MaxAttempts :
         request[<<c, a>>].step # "sent" /\ ~TakenOn(<<c, a>>)

\* The charges put to the provider, by call and key.
Asked ==
  {ck \in Calls \X Keys :
     \E a \in 1..MaxAttempts :
       TakenOn(<<ck[1], a>>) /\ request[<<ck[1], a>>].key = ck[2]}

Found(l) == IF lookup[l].step = "done" THEN <<lookup[l].key, lookup[l].answer>>
                                       ELSE None

\* What PaymentFlow takes the client to do: see ProviderContract.
Contract == INSTANCE ProviderContract WITH
  asked <- Asked,
  ledger <- records,
  answer <- [c \in Calls |-> call[c].outcome],
  found <- [l \in Lookups |-> Found(l)]

\* However requests and answers are lost or late, the calls keep the contract:
\* one decision per payment, told to all who hear of it, and asked for at
\* most once by each call, never by one that says it was not.
KeepsContract == Contract!ContractSpec

\* Every charge ends, whatever the provider and the network do: no message of
\* the queue waits for ever behind a handler, and no charge that is the probe of
\* the breaker keeps it half open.  A lookup has a timeout per read only.
CallsEnd == \A c \in Calls : Running(c) ~> call[c].step = "done"
=============================================================================

---------------------------- MODULE MockProvider ----------------------------
(***************************************************************************)
(* The payment provider of mock-provider/: one request is one POST to      *)
(* /process-payment, records is what it decided under each Idempotency-Key *)
(* (the UUID of the payment).                                              *)
(*                                                                         *)
(* Between two awaits of the handler nothing else runs.  The key's         *)
(* asyncio.Lock is taken and given back without an await in between, so    *)
(* that nobody ever waits for it and its entry is gone again at the next   *)
(* await: looking for a record and making one is a single action.          *)
(* How long the provider sleeps is left open.                              *)
(***************************************************************************)
EXTENDS Integers

CONSTANTS
  Calls,        \* calls of PaymentProviderClient
  Keys,         \* payment ids, used as Idempotency-Key
  MaxAttempts,  \* payment_provider_max_attempts
  None

ASSUME AttemptsAssumption == MaxAttempts \in Nat \ {0}

VARIABLES
  request,  \* per request: where its handler is, its key and its response
  records   \* _idempotency_records: the verdict under each key

providerVars == <<request, records>>

\* The requests a call may send: one per attempt.
Requests == Calls \X (1..MaxAttempts)

Verdicts == {"approved", "declined"}

\* Status codes that say the charge was not attempted: 429 and 503, which ask
\* to try again, and the other 4xx but 408, which do not.
Refusals == {"try_later", "rejected"}

\* A response may also be unclear, a body that is no verdict or a status code
\* (504) after which nothing is known.
Responses == Verdicts \cup Refusals \cup {"unclear"}

\* MockScenario, and None for the usual random delay and decision.
Scenarios == {None, "approved", "declined", "error-before-processing",
              "timeout-before-processing", "timeout-after-processing",
              "malformed-response"}

RequestSteps == {"none", "sent", "working", "stuck", "delayed", "answered"}

NoRequest == [step |-> "none", key |-> None, response |-> None]

ProviderInit ==
  /\ request = [r \in Requests |-> NoRequest]
  /\ records = [k \in Keys |-> None]

Handle(r, k, step, response) ==
  request' = [request EXCEPT
    ![r] = [step |-> step, key |-> k, response |-> response]]

\* What may be decided in a scenario.
Decisions(scenario) ==
  CASE scenario = "declined" -> {"declined"}
    [] scenario = None       -> Verdicts
    [] OTHER                 -> {"approved"}

\* Mutant of Charge: the record is looked for before the sleep only, and is
\* no longer looked at here.
ChargeAnew(r, k, scenario) ==
  \E v \in Decisions(scenario) :
    /\ records' = [records EXCEPT ![k] = v]
    /\ CASE scenario = "timeout-after-processing" -> Handle(r, k, "delayed", v)
         [] scenario = "malformed-response" ->
              Handle(r, k, "answered", "unclear")
         [] OTHER -> Handle(r, k, "answered", v)

\* The critical section and what follows it up to the next await.
Charge(r, k, scenario) ==
  \/ /\ records[k] # None
     /\ Handle(r, k, "answered", records[k])
     /\ UNCHANGED records
  \/ /\ records[k] = None
     /\ \E v \in Decisions(scenario) :
          /\ records' = [records EXCEPT ![k] = v]
          /\ CASE scenario = "timeout-after-processing" ->
                    Handle(r, k, "delayed", v)
               [] scenario = "malformed-response" ->
                    Handle(r, k, "answered", "unclear")
               [] OTHER -> Handle(r, k, "answered", v)

\* A request that was sent arrives, if ever: the handler up to its first await.
ProcessPayment(r) ==
  LET k == request[r].key
  IN  /\ request[r].step = "sent"
      /\ \E scenario \in Scenarios :
           CASE scenario = "error-before-processing" ->
                  Handle(r, k, "answered", "try_later") /\ UNCHANGED records
             [] scenario = "timeout-before-processing" ->
                  Handle(r, k, "stuck", None) /\ UNCHANGED records
             [] scenario = None ->
                  Handle(r, k, "working", None) /\ UNCHANGED records
             [] OTHER -> Charge(r, k, scenario)

\* A real provider may also turn a request away with a 429 or another 4xx.
TurnAway(r) ==
  /\ request[r].step = "sent"
  /\ \E response \in Refusals :
       Handle(r, request[r].key, "answered", response)
  /\ UNCHANGED records

\* A sleep of the handler ends, whether or not its client still waits.
WakeUp(r) ==
  \/ /\ request[r].step = "working"
     /\ Charge(r, request[r].key, None)
  \/ /\ request[r].step = "stuck"
     /\ Handle(r, request[r].key, "answered", "unclear")
     /\ UNCHANGED records
  \/ /\ request[r].step = "delayed"
     /\ Handle(r, request[r].key, "answered", request[r].response)
     /\ UNCHANGED records

\* The provider took the request on: it has charged it or still may.
TakenOn(r) == /\ request[r].step \notin {"none", "sent"}
              /\ request[r].response \notin Refusals

ProviderTypeOK ==
  /\ request \in [Requests -> [step : RequestSteps, key : Keys \cup {None},
                               response : Responses \cup {None}]]
  /\ records \in [Keys -> Verdicts \cup {None}]
=============================================================================

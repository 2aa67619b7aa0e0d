------------------------ MODULE ProviderClientProofs ------------------------
(***************************************************************************)
(* Proofs about ProviderClient for any number of calls, lookups and keys   *)
(* and all settings: its invariants, and that client, provider and network *)
(* together implement ProviderContract.                                    *)
(***************************************************************************)
EXTENDS ProviderClient, TLAPS

\* A request that was never sent, or that the provider turned away.
Harmless(r) ==
  \/ request[r].step = "none"
  \/ request[r].step = "answered" /\ request[r].response \in Refusals

CallType == [step : CallSteps, key : Keys \cup {None}, attempt : 1..MaxAttempts,
             elapsed : Nat, due : Nat, outcome : Outcomes \cup {None}]

LEMMA HarmlessIsNotTakenOn ==
  ASSUME NEW r, Harmless(r)
  PROVE  request[r].step # "sent" /\ ~TakenOn(r)
BY DEF Harmless, TakenOn

-----------------------------------------------------------------------------
(* The kinds of steps of a call.                                           *)

\* A call ends; what it says of the provider is true of its last request.
Ends(c, o) ==
  /\ Running(c)
  /\ End(c, o)
  /\ o \in Verdicts => GotResponse(c) /\ Response(c) = o
  /\ o \in {"unavailable", "permanent", "error"} =>
       call[c].step # "wait" \/ Harmless(Current(c))
  /\ UNCHANGED <<providerVars, lookup>>

\* A call waits for its next attempt.
Waits(c, due) ==
  /\ call[c].step = "connect" \/ (call[c].step = "wait" /\ Harmless(Current(c)))
  /\ call[c].attempt < MaxAttempts
  /\ due <= TotalTimeout /\ call[c].elapsed <= due
  /\ call' = [call EXCEPT ![c].step = "sleep", ![c].due = due]
  /\ UNCHANGED <<providerVars, lookup>>

\* It makes its next attempt.
Resumes(c) ==
  /\ call[c].step = "sleep"
  /\ call' = [call EXCEPT ![c].step = "connect", ![c].attempt = @ + 1,
                          ![c].due = TotalTimeout]
  /\ call[c].elapsed < TotalTimeout
  /\ UNCHANGED <<providerVars, lookup>>

LEMMA Fields ==
  ASSUME TypeOK, NEW c \in Calls
  PROVE  /\ call[c].attempt \in 1..MaxAttempts /\ call[c].attempt \in Int
         /\ call[c].elapsed \in Nat /\ call[c].due \in Nat
         /\ call[c].step \in CallSteps
         /\ Remaining(c) = TotalTimeout - call[c].elapsed
         /\ TotalTimeout \in Nat /\ MaxAttempts \in Nat
<1>1. call[c] \in CallType
  BY DEF TypeOK, CallType
<1>2. /\ call[c].attempt \in 1..MaxAttempts
      /\ call[c].elapsed \in Nat /\ call[c].due \in Nat
      /\ call[c].step \in CallSteps
  BY <1>1 DEF CallType
<1>3. QED
  BY <1>2, SettingsAssumption, AttemptsAssumption DEF Remaining

LEMMA WaitOrEnd ==
  ASSUME TypeOK, NEW c \in Calls, NEW delay \in Nat, WaitBeforeRetry(c, delay),
         call[c].step = "connect" \/ (call[c].step = "wait" /\ Harmless(Current(c))),
         call[c].attempt < MaxAttempts,
         UNCHANGED <<providerVars, lookup>>
  PROVE  Ends(c, "unavailable") \/ \E due \in Nat : Waits(c, due)
<1>1. CASE End(c, "unavailable")
  BY <1>1 DEF Ends, Running, Verdicts
<1>2. CASE /\ delay < Remaining(c)
           /\ call' = [call EXCEPT ![c].step = "sleep",
                                   ![c].due = call[c].elapsed + delay]
  <2> DEFINE due == call[c].elapsed + delay
  <2>1. due \in Nat /\ due <= TotalTimeout /\ call[c].elapsed <= due
    BY <1>2, Fields
  <2>2. Waits(c, due)
    BY <1>2, <2>1 DEF Waits
  <2>3. QED
    BY <2>1, <2>2
<1>3. QED
  BY <1>1, <1>2 DEF WaitBeforeRetry

\* Connection failures, responses and timers are of these kinds.
LEMMA Kinds ==
  ASSUME TypeOK, NEW c \in Calls,
         NotConnected(c) \/ TransportFails(c) \/ GetResponse(c) \/ Timer(c)
  PROVE  \/ \E o \in Outcomes : Ends(c, o)
         \/ \E due \in Nat : Waits(c, due)
         \/ Resumes(c)
<1>1. \A delay \in Backoff(call[c].attempt) \cup RetryAfters : delay \in Nat
  BY SettingsAssumption DEF Backoff
<1>2. /\ "unavailable" \in Outcomes /\ "ambiguous" \in Outcomes
      /\ "permanent" \in Outcomes /\ "error" \in Outcomes
      /\ Verdicts \subseteq Outcomes
  BY DEF Outcomes
<1>3. CASE NotConnected(c)
  <2>1. CASE End(c, "unavailable")
    BY <1>2, <1>3, <2>1 DEF NotConnected, Ends, Running, Verdicts
  <2>2. ASSUME call[c].attempt < MaxAttempts,
               NEW delay \in Backoff(call[c].attempt), WaitBeforeRetry(c, delay)
        PROVE  Ends(c, "unavailable") \/ \E due \in Nat : Waits(c, due)
    BY <1>1, <1>3, <2>2, WaitOrEnd DEF NotConnected
  <2>3. QED
    BY <1>2, <1>3, <2>1, <2>2 DEF NotConnected
<1>4. CASE TransportFails(c)
  BY <1>2, <1>4 DEF TransportFails, Ends, Running, Verdicts
<1>5. CASE GetVerdict(c)
  <2>1. Ends(c, Response(c))
    BY <1>5 DEF GetVerdict, GotResponse, Ends, Running, Verdicts
  <2>2. QED
    BY <1>2, <1>5, <2>1 DEF GetVerdict
<1>6. CASE GetUnclear(c)
  BY <1>2, <1>6 DEF GetUnclear, GotResponse, Ends, Running, Verdicts
<1>7. CASE GetRejection(c)
  BY <1>2, <1>7
  DEF GetRejection, GotResponse, Response, Ends, Running, Verdicts, Harmless,
      Refusals
<1>8. CASE GetTryLater(c)
  <2>1. call[c].step = "wait" /\ Harmless(Current(c))
    BY <1>8 DEF GetTryLater, GotResponse, Response, Harmless, Refusals
  <2>2. ASSUME NEW o \in {"unavailable", "error"}, End(c, o) PROVE Ends(c, o)
    BY <1>8, <2>1, <2>2 DEF GetTryLater, Ends, Running, Verdicts
  <2>3. ASSUME call[c].attempt < MaxAttempts,
               NEW delay \in Backoff(call[c].attempt) \cup RetryAfters,
               WaitBeforeRetry(c, delay)
        PROVE  Ends(c, "unavailable") \/ \E due \in Nat : Waits(c, due)
    BY <1>1, <1>8, <2>1, <2>3, WaitOrEnd DEF GetTryLater
  <2>4. QED
    BY <1>2, <1>8, <2>2, <2>3 DEF GetTryLater
<1>9. CASE BudgetRunsOut(c)
  BY <1>2, <1>9 DEF BudgetRunsOut, Ends, Running, Verdicts
<1>10. CASE Retry(c)
  <2>1. CASE End(c, "unavailable")
    BY <1>2, <1>10, <2>1 DEF Retry, Ends, Running, Verdicts
  <2>2. CASE /\ Remaining(c) > 0
             /\ call' = [call EXCEPT ![c].step = "connect", ![c].attempt = @ + 1,
                                     ![c].due = call[c].elapsed + Remaining(c)]
    <3>1. /\ call[c].elapsed + Remaining(c) = TotalTimeout
          /\ call[c].elapsed < TotalTimeout
      BY <2>2, Fields
    <3>2. Resumes(c)
      BY <1>10, <2>2, <3>1 DEF Retry, Resumes
    <3>3. QED
      BY <3>2
  <2>3. QED
    BY <1>10, <2>1, <2>2 DEF Retry
<1>11. QED
  BY <1>3, <1>4, <1>5, <1>6, <1>7, <1>8, <1>9, <1>10 DEF GetResponse, Timer

-----------------------------------------------------------------------------
(* The kinds of steps of the provider: request r becomes new.              *)

Moves(r, new) ==
  /\ r \in Requests
  /\ request[r].step \in {"sent", "working", "stuck", "delayed"}
  /\ new.key = request[r].key
  /\ new.step \in {"working", "stuck", "delayed", "answered"}
  /\ request' = [request EXCEPT ![r] = new]
  /\ UNCHANGED <<call, lookup>>

\* It turns the request away.
Refuses(r, new) ==
  /\ request[r].step = "sent" /\ new.step = "answered"
  /\ new.response \in Refusals
  /\ UNCHANGED records

\* It takes the request on, and has decided nothing yet.
TakesOn(r, new) ==
  /\ request[r].step = "sent"
  /\ new.response = None
  /\ UNCHANGED records

\* It answers with the decision there is.
Repeats(r, new) ==
  /\ request[r].step \in {"sent", "working"}
  /\ records[request[r].key] \in Verdicts
  /\ new.response = records[request[r].key]
  /\ UNCHANGED records

\* It decides, and tells the decision or fails to.
Decides(r, new) ==
  /\ request[r].step \in {"sent", "working"}
  /\ records[request[r].key] = None
  /\ \E v \in Verdicts :
       /\ records' = [records EXCEPT ![request[r].key] = v]
       /\ new.response \in {v, "unclear"}

\* A delayed answer leaves, or nothing was decided and never will be.
Leaves(r, new) ==
  /\ request[r].step \in {"stuck", "delayed"}
  /\ new.response \in {request[r].response, "unclear"}
  /\ UNCHANGED records

RequestType == [step : RequestSteps, key : Keys \cup {None},
                response : Responses \cup {None}]

ProviderSteps(r, new) ==
  /\ Moves(r, new)
  /\ \/ Refuses(r, new) \/ TakesOn(r, new) \/ Repeats(r, new)
     \/ Decides(r, new) \/ Leaves(r, new)

LEMMA RequestFields ==
  ASSUME TypeOK, NEW r \in Requests
  PROVE  /\ request[r].key \in Keys \cup {None}
         /\ request[r].response \in Responses \cup {None}
<1>1. request[r] \in RequestType
  BY DEF TypeOK, ProviderTypeOK, RequestType
<1>2. QED
  BY <1>1 DEF RequestType

LEMMA Charges ==
  ASSUME TypeOK, NEW r \in Requests, NEW scenario \in Scenarios,
         request[r].step \in {"sent", "working"}, request[r].key \in Keys,
         Charge(r, request[r].key, scenario), UNCHANGED <<call, lookup>>
  PROVE  \E new \in RequestType : ProviderSteps(r, new)
<1> DEFINE k == request[r].key
           New(step, v) == [step |-> step, key |-> k, response |-> v]
<1>1. ASSUME NEW step \in {"delayed", "answered"}, NEW v \in Verdicts \cup {"unclear"}
      PROVE  New(step, v) \in RequestType
  BY <1>1, RequestFields DEF RequestType, RequestSteps, Responses
<1>2. records[k] \in Verdicts \cup {None}
  BY DEF TypeOK, ProviderTypeOK
<1>3. ASSUME records[k] # None, Handle(r, k, "answered", records[k]),
             UNCHANGED records
      PROVE  \E new \in RequestType : ProviderSteps(r, new)
  <2>1. New("answered", records[k]) \in RequestType
    BY <1>1, <1>2, <1>3
  <2>2. ProviderSteps(r, New("answered", records[k]))
    BY <1>2, <1>3 DEF ProviderSteps, Moves, Repeats, Handle
  <2>3. QED
    BY <2>1, <2>2
<1>4. ASSUME records[k] = None, NEW v \in Verdicts,
             records' = [records EXCEPT ![k] = v],
             NEW step \in {"delayed", "answered"}, NEW w \in {v, "unclear"},
             Handle(r, k, step, w)
      PROVE  \E new \in RequestType : ProviderSteps(r, new)
  <2>1. New(step, w) \in RequestType
    BY <1>1, <1>4
  <2>2. ProviderSteps(r, New(step, w))
    BY <1>4 DEF ProviderSteps, Moves, Decides, Handle
  <2>3. QED
    BY <2>1, <2>2
<1>5. Decisions(scenario) \subseteq Verdicts
  BY DEF Decisions, Verdicts
<1>6. ASSUME records[k] = None, NEW v \in Verdicts,
             records' = [records EXCEPT ![k] = v],
             CASE scenario = "timeout-after-processing" ->
                    Handle(r, k, "delayed", v)
               [] scenario = "malformed-response" ->
                    Handle(r, k, "answered", "unclear")
               [] OTHER -> Handle(r, k, "answered", v)
      PROVE  \/ Handle(r, k, "delayed", v)
             \/ Handle(r, k, "answered", "unclear")
             \/ Handle(r, k, "answered", v)
  BY <1>6
<1>7. QED
  BY <1>3, <1>4, <1>5, <1>6 DEF Charge

LEMMA ProviderKinds ==
  ASSUME TypeOK, NEW r \in Requests,
         request[r].step # "none" => request[r].key \in Keys,
         ProcessPayment(r) \/ TurnAway(r) \/ WakeUp(r),
         UNCHANGED <<call, lookup>>
  PROVE  \E new \in RequestType : ProviderSteps(r, new)
<1> DEFINE k == request[r].key
           New(step, v) == [step |-> step, key |-> k, response |-> v]
<1>1. ASSUME NEW step \in RequestSteps, NEW v \in Responses \cup {None}
      PROVE  New(step, v) \in RequestType
  BY <1>1, RequestFields DEF RequestType
<1>2. ASSUME NEW v \in Refusals, request[r].step = "sent",
             Handle(r, k, "answered", v), UNCHANGED records
      PROVE  \E new \in RequestType : ProviderSteps(r, new)
  <2>1. New("answered", v) \in RequestType
    BY <1>1, <1>2 DEF Responses, RequestSteps
  <2>2. ProviderSteps(r, New("answered", v))
    BY <1>2 DEF ProviderSteps, Moves, Refuses, Handle
  <2>3. QED
    BY <2>1, <2>2
<1>3. ASSUME NEW step \in {"stuck", "working"}, request[r].step = "sent",
             Handle(r, k, step, None), UNCHANGED records
      PROVE  \E new \in RequestType : ProviderSteps(r, new)
  <2>1. New(step, None) \in RequestType
    BY <1>1, <1>3 DEF RequestSteps
  <2>2. ProviderSteps(r, New(step, None))
    BY <1>3 DEF ProviderSteps, Moves, TakesOn, Handle
  <2>3. QED
    BY <2>1, <2>2
<1>4. ASSUME NEW v \in {request[r].response, "unclear"},
             request[r].step \in {"stuck", "delayed"},
             Handle(r, k, "answered", v), UNCHANGED records
      PROVE  \E new \in RequestType : ProviderSteps(r, new)
  <2>1. New("answered", v) \in RequestType
    BY <1>1, <1>4, RequestFields DEF Responses, RequestSteps
  <2>2. ProviderSteps(r, New("answered", v))
    BY <1>4 DEF ProviderSteps, Moves, Leaves, Handle
  <2>3. QED
    BY <2>1, <2>2
<1>5. CASE TurnAway(r)
  BY <1>2, <1>5 DEF TurnAway
<1>6. CASE ProcessPayment(r)
  <2>1. PICK scenario \in Scenarios :
          CASE scenario = "error-before-processing" ->
                 Handle(r, k, "answered", "try_later") /\ UNCHANGED records
            [] scenario = "timeout-before-processing" ->
                 Handle(r, k, "stuck", None) /\ UNCHANGED records
            [] scenario = None ->
                 Handle(r, k, "working", None) /\ UNCHANGED records
            [] OTHER -> Charge(r, k, scenario)
    BY <1>6 DEF ProcessPayment
  <2>2. request[r].step = "sent"
    BY <1>6 DEF ProcessPayment
  <2>3. \/ Handle(r, k, "answered", "try_later") /\ UNCHANGED records
        \/ Handle(r, k, "stuck", None) /\ UNCHANGED records
        \/ Handle(r, k, "working", None) /\ UNCHANGED records
        \/ Charge(r, k, scenario)
    BY <2>1
  <2>4. "try_later" \in Refusals
    BY DEF Refusals
  <2>5. ASSUME Charge(r, k, scenario)
        PROVE  \E new \in RequestType : ProviderSteps(r, new)
    BY <2>2, <2>5, Charges
  <2>6. QED
    BY <1>2, <1>3, <2>2, <2>3, <2>4, <2>5
<1>7. CASE WakeUp(r)
  <2>1. ASSUME request[r].step = "working", Charge(r, k, None)
        PROVE  \E new \in RequestType : ProviderSteps(r, new)
    BY <2>1, Charges DEF Scenarios
  <2>2. QED
    BY <1>4, <1>7, <2>1 DEF WakeUp
<1>8. QED
  BY <1>5, <1>6, <1>7

-----------------------------------------------------------------------------
(* The invariant.                                                          *)

CallInv(c) ==
  /\ call[c].step = "idle" => call[c].elapsed = 0
  /\ Running(c) => /\ call[c].due <= TotalTimeout
                   /\ call[c].elapsed <= call[c].due + Lag
  /\ call[c].elapsed <= TotalTimeout + Lag
  /\ call[c].step = "sleep" => call[c].attempt < MaxAttempts
  /\ call[c].step # "done" => call[c].outcome = None
  /\ call[c].step # "idle" => call[c].key \in Keys

\* Attempt a of call c is over, still to come, or of no consequence.
Settled(c, a) ==
  \/ a # call[c].attempt
  \/ call[c].step \in {"idle", "connect", "sleep"}
  \/ call[c].outcome \in {"unavailable", "permanent", "error"}

AttemptInv(c, a) ==
  /\ Settled(c, a) => Harmless(<<c, a>>)
  /\ request[<<c, a>>].step # "none" =>
       call[c].step # "idle" /\ request[<<c, a>>].key = call[c].key
  /\ request[<<c, a>>].response \in Verdicts =>
       /\ request[<<c, a>>].step # "none"
       /\ records[request[<<c, a>>].key] = request[<<c, a>>].response
  /\ request[<<c, a>>].step \in {"working", "stuck", "delayed"} =>
       request[<<c, a>>].response \notin Refusals

\* A call that ended with a verdict was told it.
Told(c) ==
  call[c].outcome \in Verdicts =>
    /\ call[c].step = "done"
    /\ request[Current(c)].step = "answered"
    /\ request[Current(c)].response = call[c].outcome

LookupInv(l) ==
  lookup[l].step = "wait" =>
    /\ lookup[l].key \in Keys
    /\ \/ lookup[l].answer = "not_found"
       \/ /\ lookup[l].answer \in Verdicts
          /\ records[lookup[l].key] = lookup[l].answer

IInv ==
  /\ \A c \in Calls : CallInv(c) /\ Told(c)
  /\ \A c \in Calls, a \in 1..MaxAttempts : AttemptInv(c, a)
  /\ \A l \in Lookups : LookupInv(l)

LEMMA InitInv == Init => TypeOK /\ IInv
<1> SUFFICES ASSUME Init PROVE TypeOK /\ IInv
  OBVIOUS
<1>1. /\ \A r \in Requests : request[r] = NoRequest
      /\ \A c \in Calls : call[c] = NewCall
      /\ \A l \in Lookups : lookup[l].step = "idle"
  BY DEF Init, ProviderInit
<1>2. NewCall \in CallType
  BY AttemptsAssumption DEF NewCall, CallType, CallSteps
<1>3. NoRequest \in RequestType
  BY DEF NoRequest, RequestType, RequestSteps
<1>4. TypeOK
  BY <1>2, <1>3 DEF Init, ProviderInit, TypeOK, ProviderTypeOK, CallType, RequestType
<1>5. None \notin Verdicts
  BY NoneAssumption DEF Responses
<1>6. ASSUME NEW c \in Calls PROVE CallInv(c) /\ Told(c)
  BY <1>1, <1>5, SettingsAssumption DEF NewCall, CallInv, Told, Running
<1>7. ASSUME NEW c \in Calls, NEW a \in 1..MaxAttempts PROVE AttemptInv(c, a)
  <2>1. request[<<c, a>>] = NoRequest
    BY <1>1 DEF Requests
  <2>2. QED
    BY <2>1, <1>5 DEF NoRequest, AttemptInv, Harmless
<1>8. ASSUME NEW l \in Lookups PROVE LookupInv(l)
  BY <1>1 DEF LookupInv
<1>9. QED
  BY <1>4, <1>6, <1>7, <1>8 DEF IInv

\* A step of call c alone, to row.
Turns(c, row) ==
  /\ call' = [call EXCEPT ![c] = row]
  /\ UNCHANGED <<providerVars, lookup>>

\* What is left to show of such a step.
LEMMA TurnKeeps ==
  ASSUME TypeOK, IInv, NEW c \in Calls, NEW row \in CallType, Turns(c, row),
         CallInv(c)', Told(c)', \A a \in 1..MaxAttempts : AttemptInv(c, a)'
  PROVE  TypeOK' /\ IInv'
<1>1. TypeOK'
  BY DEF Turns, TypeOK, CallType, ProviderTypeOK, providerVars
<1>2. call'[c] = row /\ \A d \in Calls \ {c} : call'[d] = call[d]
  BY DEF Turns, TypeOK
<1>3. request' = request /\ records' = records /\ lookup' = lookup
  BY DEF Turns, providerVars
<1>4. ASSUME NEW d \in Calls \ {c} PROVE CallInv(d)' /\ Told(d)'
  <2>1. CallInv(d) /\ Told(d)
    BY DEF IInv
  <2>2. QED
    BY <1>2, <1>3, <2>1 DEF CallInv, Told, Running, Current
<1>5. ASSUME NEW d \in Calls \ {c}, NEW a \in 1..MaxAttempts
      PROVE  AttemptInv(d, a)'
  <2>1. AttemptInv(d, a)
    BY DEF IInv
  <2>2. QED
    BY <1>2, <1>3, <2>1 DEF AttemptInv, Settled, Harmless
<1>6. ASSUME NEW l \in Lookups PROVE LookupInv(l)'
  <2>1. LookupInv(l)
    BY DEF IInv
  <2>2. QED
    BY <1>3, <2>1 DEF LookupInv
<1>7. QED
  BY <1>1, <1>4, <1>5, <1>6 DEF IInv

LEMMA CallFacts ==
  ASSUME TypeOK, IInv, NEW c \in Calls
  PROVE  /\ call[c] \in CallType
         /\ CallInv(c) /\ Told(c)
         /\ \A a \in 1..MaxAttempts : AttemptInv(c, a)
         /\ None \notin Verdicts
         /\ call[c].attempt \in 1..MaxAttempts
         /\ \A a \in 1..MaxAttempts : <<c, a>> \in Requests
BY NoneAssumption DEF TypeOK, CallType, IInv, Responses, Requests

LEMMA EndsKeeps ==
  ASSUME TypeOK, IInv, NEW c \in Calls, NEW o \in Outcomes, Ends(c, o)
  PROVE  TypeOK' /\ IInv'
<1> DEFINE row == [call[c] EXCEPT !.step = "done", !.outcome = o]
<1>1. row \in CallType
  BY CallFacts DEF CallType, CallSteps
<1>2. Turns(c, row)
  BY DEF Ends, End, Turns
<1>3. /\ call'[c].step = "done" /\ call'[c].outcome = o
      /\ call'[c].key = call[c].key /\ call'[c].attempt = call[c].attempt
      /\ call'[c].elapsed = call[c].elapsed /\ call'[c].due = call[c].due
  BY CallFacts DEF Ends, End, TypeOK, CallType
<1>4. request' = request /\ records' = records
  BY DEF Ends, providerVars
<1>5. CallInv(c)'
  <2>1. CallInv(c) /\ Running(c)
    BY CallFacts DEF Ends
  <2>2. QED
    BY <1>3, <2>1 DEF CallInv, Running
<1>6. Told(c)'
  BY <1>3, <1>4 DEF Ends, Told, GotResponse, Response, Current
<1>7. ASSUME NEW a \in 1..MaxAttempts PROVE AttemptInv(c, a)'
  <2>1. AttemptInv(c, a) /\ Running(c)
    BY CallFacts DEF Ends
  <2>2. Settled(c, a)' => Harmless(<<c, a>>)
    <3>1. CASE a # call[c].attempt
      BY <2>1, <3>1 DEF AttemptInv, Settled
    <3>2. CASE a = call[c].attempt /\ o \in {"unavailable", "permanent", "error"}
      <4>1. call[c].step # "wait" => Settled(c, a)
        BY <2>1 DEF Running, Settled
      <4>2. QED
        BY <2>1, <3>2, <4>1 DEF Ends, Current, AttemptInv
    <3>3. QED
      BY <1>3, <3>1, <3>2 DEF Settled
  <2>3. QED
    BY <1>3, <1>4, <2>1, <2>2 DEF AttemptInv, Harmless, Running
<1>8. QED
  BY <1>1, <1>2, <1>5, <1>6, <1>7, TurnKeeps

LEMMA WaitsKeeps ==
  ASSUME TypeOK, IInv, NEW c \in Calls, NEW due \in Nat, Waits(c, due)
  PROVE  TypeOK' /\ IInv'
<1> DEFINE row == [call[c] EXCEPT !.step = "sleep", !.due = due]
<1>1. row \in CallType
  BY CallFacts DEF CallType, CallSteps
<1>2. Turns(c, row)
  BY DEF Waits, Turns
<1>3. /\ call'[c].step = "sleep" /\ call'[c].outcome = call[c].outcome
      /\ call'[c].key = call[c].key /\ call'[c].attempt = call[c].attempt
      /\ call'[c].elapsed = call[c].elapsed /\ call'[c].due = due
  BY CallFacts DEF Waits, TypeOK, CallType
<1>4. request' = request /\ records' = records
  BY DEF Waits, providerVars
<1>5. CallInv(c) /\ call[c].step \in {"connect", "wait"}
  BY CallFacts DEF Waits
<1>6. CallInv(c)'
  <2>1. call[c].elapsed <= due + Lag /\ due <= TotalTimeout
    BY Fields, SettingsAssumption DEF Waits
  <2>2. QED
    BY <1>3, <1>5, <2>1 DEF CallInv, Running, Waits
<1>7. Told(c)'
  BY <1>3, <1>5, CallFacts DEF Told, CallInv
<1>8. ASSUME NEW a \in 1..MaxAttempts PROVE AttemptInv(c, a)'
  <2>1. AttemptInv(c, a)
    BY CallFacts
  <2>2. Harmless(<<c, a>>)
    <3>1. CASE a # call[c].attempt
      BY <2>1, <3>1 DEF AttemptInv, Settled
    <3>2. CASE a = call[c].attempt
      BY <2>1, <3>2 DEF Waits, Current, AttemptInv, Settled
    <3>3. QED
      BY <3>1, <3>2
  <2>3. QED
    BY <1>3, <1>4, <1>5, <2>1, <2>2 DEF AttemptInv, Harmless
<1>9. QED
  BY <1>1, <1>2, <1>6, <1>7, <1>8, TurnKeeps

LEMMA ResumesKeeps ==
  ASSUME TypeOK, IInv, NEW c \in Calls, Resumes(c)
  PROVE  TypeOK' /\ IInv'
<1> DEFINE row == [call[c] EXCEPT !.step = "connect", !.attempt = call[c].attempt + 1,
                                  !.due = TotalTimeout]
<1>1. call[c].attempt < MaxAttempts /\ call[c].step = "sleep" /\ CallInv(c)
  BY CallFacts DEF CallInv, Resumes
<1>2. row \in CallType
  <2>1. call[c].attempt + 1 \in 1..MaxAttempts /\ TotalTimeout \in Nat
    BY <1>1, Fields
  <2>2. QED
    BY <2>1, CallFacts DEF CallType, CallSteps
<1>3. Turns(c, row)
  BY DEF Resumes, Turns
<1>4. /\ call'[c].step = "connect" /\ call'[c].outcome = call[c].outcome
      /\ call'[c].key = call[c].key
      /\ call'[c].elapsed = call[c].elapsed /\ call'[c].due = TotalTimeout
  BY CallFacts DEF Resumes, TypeOK, CallType
<1>5. request' = request /\ records' = records
  BY DEF Resumes, providerVars
<1>6. CallInv(c)'
  <2>1. call[c].elapsed <= TotalTimeout + Lag /\ TotalTimeout <= TotalTimeout
    BY Fields, SettingsAssumption DEF Resumes
  <2>2. QED
    BY <1>1, <1>4, <2>1 DEF CallInv, Running
<1>7. Told(c)'
  BY <1>1, <1>4, CallFacts DEF Told, CallInv
<1>8. ASSUME NEW a \in 1..MaxAttempts PROVE AttemptInv(c, a)'
  <2>1. AttemptInv(c, a) /\ Harmless(<<c, a>>)
    BY <1>1, CallFacts DEF AttemptInv, Settled
  <2>2. QED
    BY <1>1, <1>4, <1>5, <2>1 DEF AttemptInv, Harmless
<1>9. QED
  BY <1>2, <1>3, <1>6, <1>7, <1>8, TurnKeeps

LEMMA BeginKeeps ==
  ASSUME TypeOK, IInv, NEW c \in Calls, NEW k \in Keys, Begin(c, k)
  PROVE  TypeOK' /\ IInv'
<1> DEFINE row == [call[c] EXCEPT !.step = "connect", !.key = k, !.due = TotalTimeout]
<1>1. call[c].step = "idle" /\ CallInv(c)
  BY CallFacts DEF Begin
<1>2. row \in CallType
  BY CallFacts, SettingsAssumption DEF CallType, CallSteps
<1>3. Turns(c, row)
  BY DEF Begin, Turns
<1>4. /\ call'[c].step = "connect" /\ call'[c].outcome = call[c].outcome
      /\ call'[c].key = k /\ call'[c].attempt = call[c].attempt
      /\ call'[c].elapsed = call[c].elapsed /\ call'[c].due = TotalTimeout
  BY CallFacts DEF Begin, TypeOK, CallType
<1>5. request' = request /\ records' = records
  BY DEF Begin, providerVars
<1>6. CallInv(c)'
  <2>1. call[c].elapsed = 0
    BY <1>1 DEF CallInv
  <2>2. 0 <= TotalTimeout + Lag /\ TotalTimeout <= TotalTimeout
    BY SettingsAssumption
  <2>3. QED
    BY <1>1, <1>4, <2>1, <2>2 DEF CallInv, Running
<1>7. Told(c)'
  BY <1>1, <1>4, CallFacts DEF Told, CallInv
<1>8. ASSUME NEW a \in 1..MaxAttempts PROVE AttemptInv(c, a)'
  <2>1. AttemptInv(c, a) /\ Harmless(<<c, a>>) /\ request[<<c, a>>].step = "none"
    BY <1>1, CallFacts DEF AttemptInv, Settled
  <2>2. QED
    BY <1>4, <1>5, <2>1 DEF AttemptInv, Harmless
<1>9. QED
  BY <1>2, <1>3, <1>6, <1>7, <1>8, TurnKeeps

LEMMA SendKeeps ==
  ASSUME TypeOK, IInv, NEW c \in Calls, Send(c)
  PROVE  TypeOK' /\ IInv'
<1> DEFINE new == [step |-> "sent", key |-> call[c].key, response |-> None]
           row == [call[c] EXCEPT !.step = "wait"]
<1>1. call[c].step = "connect" /\ CallInv(c) /\ Told(c)
  BY CallFacts DEF Send
<1>2. /\ new \in RequestType /\ row \in CallType
      /\ Current(c) \in Requests
  BY <1>1, CallFacts DEF RequestType, RequestSteps, CallType, CallSteps, CallInv,
     Current
<1>3. /\ request' = [request EXCEPT ![Current(c)] = new]
      /\ call' = [call EXCEPT ![c] = row]
      /\ records' = records /\ lookup' = lookup
  BY DEF Send, Handle
<1>4. TypeOK'
  BY <1>2, <1>3 DEF TypeOK, ProviderTypeOK, CallType, RequestType
<1>5. /\ call'[c].step = "wait" /\ call'[c].outcome = call[c].outcome
      /\ call'[c].key = call[c].key /\ call'[c].attempt = call[c].attempt
      /\ call'[c].elapsed = call[c].elapsed /\ call'[c].due = call[c].due
      /\ \A d \in Calls \ {c} : call'[d] = call[d]
  BY <1>3, CallFacts DEF TypeOK, CallType
<1>6. /\ request'[Current(c)] = new
      /\ \A r \in Requests : r # Current(c) => request'[r] = request[r]
  BY <1>2, <1>3 DEF TypeOK, ProviderTypeOK
<1>7. CallInv(c)' /\ Told(c)'
  BY <1>1, <1>5, CallFacts DEF CallInv, Running, Told
<1>8. ASSUME NEW d \in Calls \ {c} PROVE CallInv(d)' /\ Told(d)'
  <2>1. CallInv(d) /\ Told(d) /\ Current(d) \in Requests
    BY CallFacts DEF Current
  <2>2. Current(d)' = Current(d) /\ Current(d) # Current(c)
    BY <1>5 DEF Current
  <2>3. QED
    BY <1>5, <1>6, <2>1, <2>2 DEF CallInv, Told, Running
<1>9. ASSUME NEW d \in Calls, NEW a \in 1..MaxAttempts PROVE AttemptInv(d, a)'
  <2>1. AttemptInv(d, a) /\ <<d, a>> \in Requests
    BY CallFacts
  <2>2. CASE <<d, a>> = Current(c)
    <3>1. d = c /\ a = call[c].attempt
      BY <2>2 DEF Current
    <3>2. ~Settled(c, a)'
      BY <1>1, <1>5, <3>1, NoneAssumption DEF Settled, CallInv, Outcomes
    <3>3. QED
      BY <1>5, <1>6, <2>2, <3>1, <3>2, CallFacts DEF AttemptInv
  <2>3. CASE <<d, a>> # Current(c)
    <3>1. request'[<<d, a>>] = request[<<d, a>>]
      BY <1>6, <2>1, <2>3
    <3>2. Settled(d, a)' => Settled(d, a)
      BY <1>1, <1>5 DEF Settled
    <3>3. QED
      BY <1>1, <1>3, <1>5, <2>1, <3>1, <3>2 DEF AttemptInv, Harmless
  <2>4. QED
    BY <2>2, <2>3
<1>10. ASSUME NEW l \in Lookups PROVE LookupInv(l)'
  BY <1>3 DEF IInv, LookupInv
<1>11. QED
  BY <1>4, <1>7, <1>8, <1>9, <1>10 DEF IInv

LEMMA TickKeeps ==
  ASSUME TypeOK, IInv, Tick
  PROVE  TypeOK' /\ IInv'
<1>1. /\ request' = request /\ records' = records /\ lookup' = lookup
      /\ call' = [c \in Calls |-> IF Running(c)
                                    THEN [call[c] EXCEPT !.elapsed = call[c].elapsed + 1]
                                    ELSE call[c]]
      /\ \A c \in Calls : Running(c) => call[c].elapsed < call[c].due + Lag
  BY DEF Tick, providerVars
<1>2. ASSUME NEW c \in Calls
      PROVE  /\ call'[c] \in CallType
             /\ call'[c].step = call[c].step /\ call'[c].outcome = call[c].outcome
             /\ call'[c].key = call[c].key /\ call'[c].attempt = call[c].attempt
             /\ call'[c].due = call[c].due
             /\ Running(c) => call'[c].elapsed = call[c].elapsed + 1
             /\ ~Running(c) => call'[c].elapsed = call[c].elapsed
  <2>1. call[c] \in CallType /\ call[c].elapsed + 1 \in Nat
    BY CallFacts, Fields
  <2>2. CASE Running(c)
    <3>1. call'[c] = [call[c] EXCEPT !.elapsed = call[c].elapsed + 1]
      BY <1>1, <2>2
    <3>2. QED
      BY <2>1, <2>2, <3>1 DEF CallType
  <2>3. CASE ~Running(c)
    BY <1>1, <2>1, <2>3
  <2>4. QED
    BY <2>2, <2>3
<1>3. TypeOK'
  <2>1. call' \in [Calls -> CallType]
    BY <1>1, <1>2
  <2>2. QED
    BY <1>1, <2>1 DEF TypeOK, ProviderTypeOK, CallType
<1>4. ASSUME NEW c \in Calls PROVE CallInv(c)' /\ Told(c)'
  <2>1. CallInv(c) /\ Told(c)
    BY CallFacts
  <2>2. Running(c) => /\ call[c].elapsed + 1 <= call[c].due + Lag
                      /\ call[c].elapsed + 1 <= TotalTimeout + Lag
    <3>1. Running(c) => call[c].elapsed < call[c].due + Lag
                        /\ call[c].due <= TotalTimeout
      BY <1>1, <2>1 DEF CallInv
    <3>2. QED
      BY <3>1, Fields, SettingsAssumption
  <2>3. Running(c)' <=> Running(c)
    BY <1>2 DEF Running
  <2>4. call[c].step = "idle" => ~Running(c)
    BY DEF Running
  <2>5. CallInv(c)'
    BY <1>2, <2>1, <2>2, <2>3, <2>4 DEF CallInv
  <2>6. Told(c)'
    BY <1>1, <1>2, <2>1 DEF Told, Current
  <2>7. QED
    BY <2>5, <2>6
<1>5. ASSUME NEW c \in Calls, NEW a \in 1..MaxAttempts PROVE AttemptInv(c, a)'
  <2>1. AttemptInv(c, a)
    BY CallFacts
  <2>2. QED
    BY <1>1, <1>2, <2>1 DEF AttemptInv, Settled, Harmless
<1>6. ASSUME NEW l \in Lookups PROVE LookupInv(l)'
  BY <1>1 DEF IInv, LookupInv
<1>7. QED
  BY <1>3, <1>4, <1>5, <1>6 DEF IInv

\* A decision stands.
LEMMA RecordsStand ==
  ASSUME TypeOK, NEW r \in Requests, NEW new \in RequestType,
         ProviderSteps(r, new), NEW k \in Keys, records[k] \in Verdicts
  PROVE  records'[k] = records[k]
<1>1. None \notin Verdicts
  BY NoneAssumption DEF Responses
<1>2. QED
  BY <1>1
  DEF ProviderSteps, Refuses, TakesOn, Repeats, Decides, Leaves, TypeOK,
      ProviderTypeOK

LEMMA ProviderKeeps ==
  ASSUME TypeOK, IInv, NEW r \in Requests, NEW new \in RequestType,
         ProviderSteps(r, new)
  PROVE  TypeOK' /\ IInv'
<1>1. /\ request' = [request EXCEPT ![r] = new]
      /\ call' = call /\ lookup' = lookup
      /\ request[r].step \notin {"none", "answered"} /\ new.step # "none"
      /\ new.key = request[r].key
  BY DEF ProviderSteps, Moves
<1>2. /\ request'[r] = new
      /\ \A q \in Requests : q # r => request'[q] = request[q]
  BY <1>1 DEF TypeOK, ProviderTypeOK
<1>3. PICK c \in Calls, a \in 1..MaxAttempts : r = <<c, a>>
  BY DEF Requests
<1>4. AttemptInv(c, a) /\ CallInv(c) /\ ~Harmless(r)
  BY <1>1, <1>3, CallFacts DEF Harmless
<1>5. request[r].key = call[c].key /\ request[r].key \in Keys
  BY <1>1, <1>3, <1>4 DEF AttemptInv, CallInv
<1>6. records' \in [Keys -> Verdicts \cup {None}]
  BY <1>5 DEF ProviderSteps, Refuses, TakesOn, Repeats, Decides, Leaves, TypeOK,
     ProviderTypeOK
<1>7. TypeOK'
  BY <1>1, <1>6 DEF TypeOK, ProviderTypeOK, RequestType
<1>8. None \notin Verdicts /\ "unclear" \notin Verdicts /\ "not_found" \notin Verdicts
      /\ Verdicts \cap Refusals = {}
  BY NoneAssumption DEF Responses, Verdicts, Refusals
<1>9. new.response \in Verdicts => records'[request[r].key] = new.response
  <2>1. CASE Refuses(r, new) \/ TakesOn(r, new)
    BY <1>8, <2>1 DEF Refuses, TakesOn
  <2>2. CASE Repeats(r, new)
    BY <2>2 DEF Repeats
  <2>3. CASE Decides(r, new)
    BY <1>5, <1>8, <2>3 DEF Decides, TypeOK, ProviderTypeOK
  <2>4. CASE Leaves(r, new)
    BY <1>3, <1>4, <1>8, <2>4 DEF Leaves, AttemptInv
  <2>5. QED
    BY <2>1, <2>2, <2>3, <2>4 DEF ProviderSteps
<1>10. ASSUME NEW d \in Calls PROVE CallInv(d)' /\ Told(d)'
  <2>1. CallInv(d) /\ Told(d) /\ Current(d) \in Requests
    BY CallFacts DEF Current
  <2>2. request[Current(d)].step = "answered" =>
          request'[Current(d)] = request[Current(d)]
    BY <1>1, <1>2, <2>1
  <2>3. Current(d)' = Current(d) /\ call'[d] = call[d]
    BY <1>1 DEF Current
  <2>4. QED
    BY <2>1, <2>2, <2>3 DEF CallInv, Told, Running
<1>11. ASSUME NEW d \in Calls, NEW b \in 1..MaxAttempts PROVE AttemptInv(d, b)'
  <2>1. AttemptInv(d, b) /\ CallInv(d) /\ <<d, b>> \in Requests
    BY CallFacts
  <2>2. Settled(d, b)' => Settled(d, b)
    BY <1>1 DEF Settled
  <2>3. CASE <<d, b>> = r
    <3>1. ~Settled(d, b)
      BY <1>4, <2>1, <2>3 DEF AttemptInv
    <3>2. new.step \in {"working", "stuck", "delayed"} =>
            new.response \notin Refusals
      <4>1. None \notin Refusals /\ "unclear" \notin Refusals
        BY NoneAssumption DEF Responses, Refusals
      <4>2. CASE Leaves(r, new)
        BY <1>3, <1>4, <4>1, <4>2 DEF Leaves, AttemptInv
      <4>3. CASE Refuses(r, new) \/ TakesOn(r, new)
        BY <4>1, <4>3 DEF Refuses, TakesOn
      <4>4. CASE Repeats(r, new) \/ Decides(r, new)
        BY <1>8, <4>1, <4>4 DEF Repeats, Decides
      <4>5. QED
        BY <4>2, <4>3, <4>4 DEF ProviderSteps
    <3>3. QED
      BY <1>1, <1>2, <1>9, <2>1, <2>2, <2>3, <3>1, <3>2 DEF AttemptInv
  <2>4. CASE <<d, b>> # r
    <3>1. request'[<<d, b>>] = request[<<d, b>>]
      BY <1>2, <2>1, <2>4
    <3>2. request[<<d, b>>].response \in Verdicts =>
            records'[request[<<d, b>>].key] = request[<<d, b>>].response
      <4>1. CASE request[<<d, b>>].key \in Keys
        BY <2>1, <4>1, RecordsStand DEF AttemptInv
      <4>2. CASE request[<<d, b>>].key \notin Keys
        BY <2>1, <4>2 DEF AttemptInv, CallInv
      <4>3. QED
        BY <4>1, <4>2
    <3>3. QED
      BY <1>1, <2>1, <2>2, <3>1, <3>2 DEF AttemptInv, Harmless
  <2>5. QED
    BY <2>3, <2>4
<1>12. ASSUME NEW l \in Lookups PROVE LookupInv(l)'
  <2>1. LookupInv(l)
    BY DEF IInv
  <2>2. QED
    BY <1>1, <1>8, <2>1, RecordsStand DEF LookupInv
<1>13. QED
  BY <1>7, <1>10, <1>11, <1>12 DEF IInv

LEMMA LookupKeeps ==
  ASSUME TypeOK, IInv, NEW l \in Lookups,
         (\E k \in Keys : BeginLookup(l, k)) \/ EndLookup(l)
  PROVE  TypeOK' /\ IInv'
<1>1. request' = request /\ records' = records /\ call' = call
  BY DEF BeginLookup, EndLookup, providerVars
<1> DEFINE Row == [step : {"idle", "wait", "done"}, key : Keys \cup {None},
          answer : Verdicts \cup {"not_found", "unavailable", "permanent", None}]
<1>2. PICK row \in Row :
        /\ lookup' = [lookup EXCEPT ![l] = row]
        /\ row.step = "wait" =>
             /\ row.key \in Keys
             /\ \/ row.answer = "not_found"
                \/ row.answer \in Verdicts /\ records[row.key] = row.answer
  <2>1. ASSUME NEW k \in Keys, BeginLookup(l, k)
        PROVE  \E row \in Row :
                 /\ lookup' = [lookup EXCEPT ![l] = row]
                 /\ row.step = "wait" =>
                      /\ row.key \in Keys
                      /\ \/ row.answer = "not_found"
                         \/ row.answer \in Verdicts /\ records[row.key] = row.answer
    <3> DEFINE row == [step |-> "wait", key |-> k,
                 answer |-> IF records[k] = None THEN "not_found" ELSE records[k]]
    <3>1. records[k] \in Verdicts \cup {None}
      BY DEF TypeOK, ProviderTypeOK
    <3>2. row \in Row /\ lookup' = [lookup EXCEPT ![l] = row]
      BY <2>1, <3>1 DEF BeginLookup
    <3>3. row.answer = "not_found" \/ (row.answer \in Verdicts /\ records[k] = row.answer)
      BY <3>1
    <3>4. QED
      BY <3>2, <3>3
  <2>2. CASE EndLookup(l)
    <3>1. PICK answer \in {lookup[l].answer, "unavailable", "permanent"} :
            lookup' = [lookup EXCEPT ![l].step = "done", ![l].answer = answer]
      BY <2>2 DEF EndLookup
    <3> DEFINE row == [lookup[l] EXCEPT !.step = "done", !.answer = answer]
    <3>2. row \in Row /\ row.step = "done" /\ lookup' = [lookup EXCEPT ![l] = row]
      BY <3>1 DEF TypeOK
    <3>3. QED
      BY <3>2
  <2>3. QED
    BY <2>1, <2>2
<1>3. TypeOK'
  BY <1>1, <1>2 DEF TypeOK, ProviderTypeOK
<1>4. ASSUME NEW m \in Lookups PROVE LookupInv(m)'
  <2>1. LookupInv(m)
    BY DEF IInv
  <2>2. lookup'[m] = IF m = l THEN row ELSE lookup[m]
    BY <1>2 DEF TypeOK
  <2>3. QED
    BY <1>1, <1>2, <2>1, <2>2 DEF LookupInv
<1>5. ASSUME NEW c \in Calls PROVE CallInv(c)' /\ Told(c)'
  BY <1>1, CallFacts DEF CallInv, Told, Running, Current
<1>6. ASSUME NEW c \in Calls, NEW a \in 1..MaxAttempts PROVE AttemptInv(c, a)'
  BY <1>1, CallFacts DEF AttemptInv, Settled, Harmless
<1>7. QED
  BY <1>3, <1>4, <1>5, <1>6 DEF IInv

LEMMA NextKeeps ==
  ASSUME TypeOK, IInv, [Next]_vars
  PROVE  TypeOK' /\ IInv'
<1>1. ASSUME NEW c \in Calls,
             NotConnected(c) \/ TransportFails(c) \/ GetResponse(c) \/ Timer(c)
      PROVE  TypeOK' /\ IInv'
  BY <1>1, Kinds, EndsKeeps, WaitsKeeps, ResumesKeeps
<1>2. ASSUME NEW r \in Requests, ProcessPayment(r) \/ TurnAway(r) \/ WakeUp(r),
             UNCHANGED <<call, lookup>>
      PROVE  TypeOK' /\ IInv'
  <2>1. request[r].step # "none" => request[r].key \in Keys
    <3>1. PICK c \in Calls, a \in 1..MaxAttempts : r = <<c, a>>
      BY DEF Requests
    <3>2. QED
      BY <3>1, CallFacts DEF AttemptInv, CallInv
  <2>2. QED
    BY <1>2, <2>1, ProviderKinds, ProviderKeeps
<1>3. CASE UNCHANGED vars
  <2>1. request' = request /\ records' = records /\ call' = call /\ lookup' = lookup
    BY <1>3 DEF vars, providerVars
  <2>2. TypeOK'
    BY <2>1 DEF TypeOK, ProviderTypeOK
  <2>3. ASSUME NEW c \in Calls PROVE CallInv(c)' /\ Told(c)'
    BY <2>1, CallFacts DEF CallInv, Told, Running, Current
  <2>4. ASSUME NEW c \in Calls, NEW a \in 1..MaxAttempts PROVE AttemptInv(c, a)'
    BY <2>1, CallFacts DEF AttemptInv, Settled, Harmless
  <2>5. ASSUME NEW l \in Lookups PROVE LookupInv(l)'
    BY <2>1 DEF IInv, LookupInv
  <2>6. QED
    BY <2>2, <2>3, <2>4, <2>5 DEF IInv
<1>4. ASSUME Next PROVE TypeOK' /\ IInv'
  BY <1>1, <1>2, <1>4, TickKeeps, BeginKeeps, SendKeeps, LookupKeeps DEF Next
<1>5. QED
  BY <1>3, <1>4

-----------------------------------------------------------------------------
\* The types and the invariant hold, for all settings.
THEOREM Invariant == Spec => [](TypeOK /\ IInv)
<1>1. Init => TypeOK /\ IInv
  BY InitInv
<1>2. TypeOK /\ IInv /\ [Next]_vars => (TypeOK /\ IInv)'
  BY NextKeeps
<1>3. QED
  BY <1>1, <1>2, PTL DEF Spec

\* Client and provider: the variables keep their types: no call makes more
\* than max_attempts attempts.
THEOREM TypeCorrect == Spec => []TypeOK
BY Invariant, PTL

\* PaymentProviderClient.process_payment: however many attempts, back-offs
\* and Retry-After delays there are, a call ends within the budget, but for
\* the lateness of a single timer.
THEOREM BudgetIsKept == Spec => []BudgetKept
<1>1. IInv => BudgetKept
  BY DEF IInv, CallInv, BudgetKept
<1>2. QED
  BY <1>1, Invariant, PTL

\* A retry is only made, and a call only ends with a ProviderUnavailableError
\* or ProviderPermanentError, when no request of the call was taken on.
THEOREM RetriesAreSafe == Spec => []NoBlindRetry
<1>1. IInv => NoBlindRetry
  <2>1. SUFFICES ASSUME IInv, NEW c \in Calls, NEW a \in 1..MaxAttempts,
                        \/ call[c].step \in {"connect", "sleep"}
                        \/ call[c].outcome \in {"unavailable", "permanent", "error"}
                 PROVE  request[<<c, a>>].step # "sent" /\ ~TakenOn(<<c, a>>)
    BY DEF NoBlindRetry
  <2>2. Harmless(<<c, a>>)
    BY <2>1 DEF IInv, AttemptInv, Settled
  <2>3. QED
    BY <2>2, HarmlessIsNotTakenOn
<1>2. QED
  BY <1>1, Invariant, PTL

-----------------------------------------------------------------------------
(* The refinement.                                                         *)

\* The variables of the contract that KeepsContract computes.
Answer == [c \in Calls |-> call[c].outcome]

AllFound == [l \in Lookups |-> Found(l)]

LEMMA AskedBy ==
  ASSUME NEW c \in Calls, NEW k \in Keys
  PROVE  <<c, k>> \in Asked <=>
           \E a \in 1..MaxAttempts :
             TakenOn(<<c, a>>) /\ request[<<c, a>>].key = k
BY DEF Asked

LEMMA AskedByNext ==
  ASSUME NEW c \in Calls, NEW k \in Keys
  PROVE  <<c, k>> \in Asked' <=>
           \E a \in 1..MaxAttempts :
             TakenOn(<<c, a>>)' /\ request'[<<c, a>>].key = k
BY DEF Asked

LEMMA SameAsked ==
  ASSUME \A c \in Calls, k \in Keys : <<c, k>> \in Asked' <=> <<c, k>> \in Asked
  PROVE  Asked' = Asked
<1>1. Asked \subseteq Calls \X Keys /\ Asked' \subseteq Calls \X Keys
  BY DEF Asked
<1>2. \A ck \in Calls \X Keys : ck = <<ck[1], ck[2]>>
  OBVIOUS
<1>3. \A ck \in Calls \X Keys : ck \in Asked' <=> ck \in Asked
  BY <1>2
<1>4. QED
  BY <1>1, <1>3

\* Only its present attempt may have put a charge to the provider.
LEMMA AskedIs ==
  ASSUME TypeOK, IInv, NEW c \in Calls
  PROVE  /\ \A k \in Keys : <<c, k>> \in Asked <=>
              TakenOn(Current(c)) /\ k = call[c].key
         /\ TakenOn(Current(c)) => /\ call[c].key \in Keys
                                   /\ request[Current(c)].key = call[c].key
                                   /\ ~Settled(c, call[c].attempt)
<1>1. ASSUME NEW a \in 1..MaxAttempts, TakenOn(<<c, a>>)
      PROVE  /\ ~Settled(c, a) /\ a = call[c].attempt
             /\ request[<<c, a>>].key = call[c].key /\ call[c].key \in Keys
  <2>1. ~Harmless(<<c, a>>) /\ request[<<c, a>>].step # "none"
    BY <1>1 DEF TakenOn, Harmless
  <2>2. AttemptInv(c, a) /\ CallInv(c)
    BY CallFacts
  <2>3. QED
    BY <2>1, <2>2 DEF AttemptInv, CallInv, Settled
<1>2. call[c].attempt \in 1..MaxAttempts
  BY CallFacts
<1>3. TakenOn(Current(c)) => /\ call[c].key \in Keys
                             /\ request[Current(c)].key = call[c].key
                             /\ ~Settled(c, call[c].attempt)
  BY <1>1, <1>2 DEF Current
<1>4. ASSUME NEW k \in Keys
      PROVE  <<c, k>> \in Asked <=> TakenOn(Current(c)) /\ k = call[c].key
  <2>1. <<c, k>> \in Asked => TakenOn(Current(c)) /\ k = call[c].key
    <3>1. SUFFICES ASSUME <<c, k>> \in Asked
                   PROVE  TakenOn(Current(c)) /\ k = call[c].key
      OBVIOUS
    <3>2. PICK a \in 1..MaxAttempts :
            TakenOn(<<c, a>>) /\ request[<<c, a>>].key = k
      BY <3>1, AskedBy
    <3>3. a = call[c].attempt /\ k = call[c].key
      BY <1>1, <3>2
    <3>4. QED
      BY <3>2, <3>3 DEF Current
  <2>2. TakenOn(Current(c)) /\ k = call[c].key => <<c, k>> \in Asked
    BY <1>2, <1>3, AskedBy DEF Current
  <2>3. QED
    BY <2>1, <2>2
<1>5. QED
  BY <1>3, <1>4

LEMMA InitRefines == Init => Contract!ContractInit
<1> SUFFICES ASSUME Init PROVE Contract!ContractInit
  OBVIOUS
<1>1. ASSUME NEW c \in Calls, NEW k \in Keys PROVE <<c, k>> \notin Asked
  BY <1>1, AskedBy DEF Init, ProviderInit, Requests, NoRequest, TakenOn
<1>2. Asked = {}
  <2>1. \A ck \in Asked : ck = <<ck[1], ck[2]>> /\ ck[1] \in Calls /\ ck[2] \in Keys
    BY DEF Asked
  <2>2. QED
    BY <1>1, <2>1
<1>3. Answer = [c \in Calls |-> None] /\ AllFound = [l \in Lookups |-> None]
  BY DEF Init, Answer, AllFound, Found, NewCall
<1>4. QED
  BY <1>2, <1>3 DEF Init, ProviderInit, Contract!ContractInit, Answer, AllFound

\* A step the contract does not see.
LEMMA Unseen ==
  ASSUME Asked' = Asked, records' = records, lookup' = lookup,
         \A c \in Calls : call'[c].outcome = call[c].outcome
  PROVE  UNCHANGED Contract!contractVars
<1>1. Answer' = Answer /\ AllFound' = AllFound
  BY DEF Answer, AllFound, Found
<1>2. QED
  BY <1>1 DEF Contract!contractVars, Answer, AllFound

LEMMA EndsRefines ==
  ASSUME TypeOK, IInv, NEW c \in Calls, NEW o \in Outcomes, Ends(c, o)
  PROVE  Contract!ContractNext
<1>1. /\ request' = request /\ records' = records /\ lookup' = lookup
      /\ call[c].outcome = None /\ Running(c)
  BY CallFacts DEF Ends, providerVars, CallInv, Running
<1>2. Asked' = Asked /\ AllFound' = AllFound
  BY <1>1 DEF Asked, TakenOn, AllFound, Found
<1>3. Answer[c] = None /\ Answer' = [Answer EXCEPT ![c] = o]
  BY <1>1 DEF Ends, End, Answer, TypeOK
<1>4. ASSUME NEW k \in Keys, <<c, k>> \in Asked,
             o = "ambiguous" \/ (records[k] # None /\ o = records[k])
      PROVE  Contract!ContractNext
  <2>1. Contract!EndAsked(c)
    BY <1>1, <1>2, <1>3, <1>4 DEF Contract!EndAsked, Answer, AllFound
  <2>2. QED
    BY <2>1 DEF Contract!ContractNext
<1>5. ASSUME o \in {"ambiguous", "unavailable", "permanent", "error"},
             \A k \in Keys : <<c, k>> \notin Asked
      PROVE  Contract!ContractNext
  <2>1. Contract!EndNotAsked(c)
    BY <1>1, <1>2, <1>3, <1>5 DEF Contract!EndNotAsked, Answer, AllFound
  <2>2. QED
    BY <2>1 DEF Contract!ContractNext
<1>6. CASE o = "ambiguous"
  BY <1>4, <1>5, <1>6
<1>7. CASE o \in {"unavailable", "permanent", "error"}
  <2>1. ~TakenOn(Current(c))
    <3>1. CASE Harmless(Current(c))
      BY <3>1, HarmlessIsNotTakenOn
    <3>2. CASE call[c].step # "wait"
      BY <1>1, <3>2, AskedIs DEF Settled, Running
    <3>3. QED
      BY <1>7, <3>1, <3>2 DEF Ends
  <2>2. QED
    BY <1>5, <1>7, <2>1, AskedIs
<1>8. CASE o \in Verdicts
  <2>1. /\ request[Current(c)].step = "answered"
        /\ request[Current(c)].response = o
    BY <1>8 DEF Ends, GotResponse, Response
  <2>2. TakenOn(Current(c))
    BY <1>8, <2>1 DEF TakenOn, Verdicts, Refusals
  <2>3. call[c].key \in Keys /\ <<c, call[c].key>> \in Asked
    BY <2>2, AskedIs
  <2>4. records[call[c].key] = o
    <3>1. AttemptInv(c, call[c].attempt)
      BY CallFacts
    <3>2. QED
      BY <1>8, <2>1, <2>2, <3>1, AskedIs DEF AttemptInv, Current
  <2>5. o # None
    BY <1>8, CallFacts
  <2>6. QED
    BY <1>4, <2>3, <2>4, <2>5
<1>9. QED
  BY <1>6, <1>7, <1>8 DEF Outcomes

LEMMA QuietRefines ==
  ASSUME TypeOK, IInv,
         \/ Tick
         \/ \E c \in Calls : \/ \E k \in Keys : Begin(c, k)
                             \/ \E due \in Nat : Waits(c, due)
                             \/ Resumes(c)
  PROVE  UNCHANGED Contract!contractVars
<1>1. request' = request /\ records' = records /\ lookup' = lookup
  BY DEF Tick, Begin, Waits, Resumes, providerVars
<1>2. Asked' = Asked
  BY <1>1 DEF Asked, TakenOn
<1>3. ASSUME NEW d \in Calls PROVE call'[d].outcome = call[d].outcome
  <2>1. CASE Tick
    BY <2>1 DEF Tick
  <2>2. ASSUME NEW c \in Calls, NEW k \in Keys, Begin(c, k)
        PROVE  call'[d].outcome = call[d].outcome
    <3>1. call' = [call EXCEPT ![c].step = "connect", ![c].key = k,
                               ![c].due = TotalTimeout]
      BY <2>2 DEF Begin
    <3>2. QED
      BY <3>1 DEF TypeOK
  <2>3. ASSUME NEW c \in Calls, NEW due \in Nat, Waits(c, due)
        PROVE  call'[d].outcome = call[d].outcome
    <3>1. call' = [call EXCEPT ![c].step = "sleep", ![c].due = due]
      BY <2>3 DEF Waits
    <3>2. QED
      BY <3>1 DEF TypeOK
  <2>4. ASSUME NEW c \in Calls, Resumes(c)
        PROVE  call'[d].outcome = call[d].outcome
    <3>1. PICK n : call' = [call EXCEPT ![c].step = "connect", ![c].attempt = n,
                                        ![c].due = TotalTimeout]
      BY <2>4 DEF Resumes
    <3>2. QED
      BY <3>1 DEF TypeOK
  <2>5. QED
    BY <2>1, <2>2, <2>3, <2>4
<1>4. QED
  BY <1>1, <1>2, <1>3, Unseen

LEMMA SendRefines ==
  ASSUME TypeOK, IInv, NEW c \in Calls, Send(c)
  PROVE  UNCHANGED Contract!contractVars
<1>1. /\ records' = records /\ lookup' = lookup /\ call[c].step = "connect"
      /\ \A d \in Calls : call'[d].outcome = call[d].outcome
  BY DEF Send, TypeOK
<1>2. /\ Current(c) \in Requests /\ request'[Current(c)].step = "sent"
      /\ \A r \in Requests : r # Current(c) => request'[r] = request[r]
  BY CallFacts DEF Send, Handle, TypeOK, ProviderTypeOK, Current
<1>3. ~TakenOn(Current(c)) /\ ~TakenOn(Current(c))'
  <2>1. ~TakenOn(Current(c))
    BY <1>1, AskedIs DEF Settled
  <2>2. Current(c)' = Current(c)
    BY CallFacts DEF Send, Current, TypeOK
  <2>3. QED
    BY <1>2, <2>1, <2>2 DEF TakenOn
<1>4. ASSUME NEW r \in Requests
      PROVE  /\ TakenOn(r)' <=> TakenOn(r)
             /\ TakenOn(r) => request'[r] = request[r]
  <2>1. CASE r = Current(c)
    BY <1>2, <1>3, <2>1 DEF TakenOn
  <2>2. CASE r # Current(c)
    BY <1>2, <2>2 DEF TakenOn
  <2>3. QED
    BY <2>1, <2>2
<1>5. Asked' = Asked
  <2>1. ASSUME NEW d \in Calls, NEW k \in Keys
        PROVE  <<d, k>> \in Asked' <=> <<d, k>> \in Asked
    <3>1. ASSUME NEW a \in 1..MaxAttempts PROVE <<d, a>> \in Requests
      BY DEF Requests
    <3>2. ASSUME <<d, k>> \in Asked PROVE <<d, k>> \in Asked'
      <4>1. PICK a \in 1..MaxAttempts :
              TakenOn(<<d, a>>) /\ request[<<d, a>>].key = k
        BY <3>2, AskedBy
      <4>2. TakenOn(<<d, a>>)' /\ request'[<<d, a>>].key = k
        BY <1>4, <3>1, <4>1
      <4>3. QED
        BY <4>2, AskedByNext
    <3>3. ASSUME <<d, k>> \in Asked' PROVE <<d, k>> \in Asked
      <4>1. PICK a \in 1..MaxAttempts :
              TakenOn(<<d, a>>)' /\ request'[<<d, a>>].key = k
        BY <3>3, AskedByNext
      <4>2. TakenOn(<<d, a>>) /\ request[<<d, a>>].key = k
        BY <1>4, <3>1, <4>1
      <4>3. QED
        BY <4>2, AskedBy
    <3>4. QED
      BY <3>2, <3>3
  <2>2. QED
    BY <2>1, SameAsked
<1>6. QED
  BY <1>1, <1>5, Unseen

LEMMA ProviderRefines ==
  ASSUME TypeOK, IInv, NEW r \in Requests, NEW new \in RequestType,
         ProviderSteps(r, new)
  PROVE  Contract!ContractNext \/ UNCHANGED Contract!contractVars
<1>1. /\ request' = [request EXCEPT ![r] = new] /\ call' = call /\ lookup' = lookup
      /\ request[r].step \in {"sent", "working", "stuck", "delayed"}
      /\ new.step \in {"working", "stuck", "delayed", "answered"}
      /\ new.key = request[r].key
  BY DEF ProviderSteps, Moves
<1>2. /\ request'[r] = new
      /\ \A q \in Requests : q # r => request'[q] = request[q]
  BY <1>1 DEF TypeOK, ProviderTypeOK
<1>3. PICK c \in Calls, a \in 1..MaxAttempts : r = <<c, a>>
  BY DEF Requests
<1>4. AttemptInv(c, a) /\ CallInv(c) /\ Told(c) /\ None \notin Verdicts
  BY <1>3, CallFacts
<1>5. ~Settled(c, a) /\ a = call[c].attempt /\ r = Current(c)
  <2>1. ~Harmless(r)
    BY <1>1 DEF Harmless
  <2>2. QED
    BY <1>3, <1>4, <2>1 DEF AttemptInv, Settled, Current
<1>6. request[r].key = call[c].key /\ call[c].key \in Keys
  BY <1>1, <1>3, <1>4 DEF AttemptInv, CallInv
<1> DEFINE k == call[c].key
<1>7. Answer' = Answer /\ AllFound' = AllFound
  BY <1>1 DEF Answer, AllFound, Found
<1>8. /\ None \notin Refusals /\ "unclear" \notin Refusals
      /\ Verdicts \cap Refusals = {}
  BY NoneAssumption DEF Responses, Verdicts, Refusals
<1>9. request[r].step # "sent" => TakenOn(r)
  BY <1>1, <1>3, <1>4 DEF TakenOn, AttemptInv
<1>10. TakenOn(r)' <=> ~Refuses(r, new)
  <2>1. TakenOn(r)' <=> new.response \notin Refusals
    BY <1>1, <1>2 DEF TakenOn
  <2>2. CASE Leaves(r, new)
    BY <1>3, <1>4, <1>8, <2>1, <2>2 DEF Leaves, Refuses, AttemptInv
  <2>3. CASE Repeats(r, new) \/ Decides(r, new)
    BY <1>8, <2>1, <2>3 DEF Repeats, Decides, Refuses
  <2>4. CASE Refuses(r, new) \/ TakesOn(r, new)
    BY <1>8, <2>1, <2>4 DEF Refuses, TakesOn
  <2>5. QED
    BY <2>2, <2>3, <2>4 DEF ProviderSteps
<1>11. TakenOn(r) => ~Refuses(r, new)
  BY DEF TakenOn, Refuses
<1>12. ASSUME NEW d \in Calls, NEW j \in Keys
       PROVE  <<d, j>> \in Asked' <=>
                <<d, j>> \in Asked \/ (TakenOn(r)' /\ <<d, j>> = <<c, k>>)
  <2>1. ASSUME <<d, j>> \in Asked PROVE <<d, j>> \in Asked'
    <3>1. PICK b \in 1..MaxAttempts :
            TakenOn(<<d, b>>) /\ request[<<d, b>>].key = j
      BY <2>1, AskedBy
    <3>2. CASE <<d, b>> = r
      <4>1. TakenOn(<<d, b>>)' /\ request'[<<d, b>>].key = j
        BY <1>1, <1>2, <1>10, <1>11, <3>1, <3>2
      <4>2. QED
        BY <4>1, AskedByNext
    <3>3. CASE <<d, b>> # r
      <4>1. request'[<<d, b>>] = request[<<d, b>>]
        BY <1>2, <3>3 DEF Requests
      <4>2. TakenOn(<<d, b>>)' /\ request'[<<d, b>>].key = j
        BY <3>1, <4>1 DEF TakenOn
      <4>3. QED
        BY <4>2, AskedByNext
    <3>4. QED
      BY <3>2, <3>3
  <2>2. ASSUME TakenOn(r)', <<d, j>> = <<c, k>> PROVE <<d, j>> \in Asked'
    <3>1. TakenOn(<<d, a>>)' /\ request'[<<d, a>>].key = j
      BY <1>1, <1>2, <1>3, <1>6, <2>2
    <3>2. QED
      BY <3>1, AskedByNext
  <2>3. ASSUME <<d, j>> \in Asked'
        PROVE  <<d, j>> \in Asked \/ (TakenOn(r)' /\ <<d, j>> = <<c, k>>)
    <3>1. PICK b \in 1..MaxAttempts :
            TakenOn(<<d, b>>)' /\ request'[<<d, b>>].key = j
      BY <2>3, AskedByNext
    <3>2. CASE <<d, b>> = r
      <4>1. d = c /\ j = k
        BY <1>1, <1>2, <1>3, <1>6, <3>1, <3>2
      <4>2. QED
        BY <3>1, <3>2, <4>1
    <3>3. CASE <<d, b>> # r
      <4>1. request'[<<d, b>>] = request[<<d, b>>]
        BY <1>2, <3>3 DEF Requests
      <4>2. TakenOn(<<d, b>>) /\ request[<<d, b>>].key = j
        BY <3>1, <4>1 DEF TakenOn
      <4>3. QED
        BY <4>2, AskedBy
    <3>4. QED
      BY <3>2, <3>3
  <2>4. QED
    BY <2>1, <2>2, <2>3
<1>13. CASE Refuses(r, new)
  <2>1. Asked' = Asked
    BY <1>10, <1>12, <1>13, SameAsked
  <2>2. records' = records
    BY <1>13 DEF Refuses
  <2>3. QED
    BY <1>1, <2>1, <2>2, Unseen
<1>14. records' = records \/ Decides(r, new)
  BY DEF ProviderSteps, Refuses, TakesOn, Repeats, Leaves
<1>15. Decides(r, new) => Contract!Decide(k)
  BY <1>6 DEF Decides, Contract!Decide
<1>16. CASE ~Refuses(r, new) /\ request[r].step = "sent"
  <2>1. ~TakenOn(r)
    BY <1>16 DEF TakenOn
  <2>2. \A j \in Keys : <<c, j>> \notin Asked
    BY <1>5, <2>1, AskedIs
  <2>3. Asked' = Asked \cup {<<c, k>>}
    <3>1. Asked \subseteq Calls \X Keys /\ Asked' \subseteq Calls \X Keys
      BY DEF Asked
    <3>2. \A ck \in Calls \X Keys : ck = <<ck[1], ck[2]>>
      OBVIOUS
    <3>3. \A ck \in Calls \X Keys : ck \in Asked' <=> ck \in Asked \cup {<<c, k>>}
      <4>1. SUFFICES ASSUME NEW d \in Calls, NEW j \in Keys
                     PROVE  <<d, j>> \in Asked' <=> <<d, j>> \in Asked \cup {<<c, k>>}
        BY <3>2
      <4>2. QED
        BY <1>10, <1>12, <1>16
    <3>4. <<c, k>> \in Calls \X Keys
      BY <1>6
    <3>5. QED
      BY <3>1, <3>3, <3>4
  <2>4. Answer[c] \in {None, "ambiguous"}
    <3>1. call[c].outcome \in Outcomes \cup {None}
      BY CallFacts DEF CallType
    <3>2. call[c].outcome \notin Verdicts
      BY <1>4, <1>5, <1>16 DEF Told
    <3>3. call[c].outcome \notin {"unavailable", "permanent", "error"}
      BY <1>5 DEF Settled
    <3>4. QED
      BY <3>1, <3>2, <3>3 DEF Outcomes, Answer
  <2>5. Contract!Ask(c, k)
    BY <1>7, <1>14, <1>15, <2>2, <2>3, <2>4 DEF Contract!Ask, Answer, AllFound
  <2>6. QED
    BY <1>6, <2>5 DEF Contract!ContractNext
<1>17. CASE ~Refuses(r, new) /\ request[r].step # "sent"
  <2>1. <<c, k>> \in Asked
    BY <1>5, <1>6, <1>9, <1>17, AskedIs
  <2>2. Asked' = Asked
    BY <1>12, <2>1, SameAsked
  <2>3. CASE records' = records
    BY <1>1, <2>2, <2>3, Unseen
  <2>4. CASE Decides(r, new)
    <3>1. Contract!DecideLater(k)
      BY <1>7, <1>15, <2>1, <2>2, <2>4 DEF Contract!DecideLater, Answer, AllFound
    <3>2. QED
      BY <1>6, <3>1 DEF Contract!ContractNext
  <2>5. QED
    BY <1>14, <2>3, <2>4
<1>18. QED
  BY <1>13, <1>16, <1>17

LEMMA LookupRefines ==
  ASSUME TypeOK, IInv, NEW l \in Lookups,
         (\E k \in Keys : BeginLookup(l, k)) \/ EndLookup(l)
  PROVE  Contract!ContractNext \/ UNCHANGED Contract!contractVars
<1>1. request' = request /\ records' = records /\ call' = call
  BY DEF BeginLookup, EndLookup, providerVars
<1>2. Asked' = Asked /\ Answer' = Answer
  BY <1>1 DEF Asked, TakenOn, Answer
<1>3. ASSUME NEW k \in Keys, BeginLookup(l, k)
      PROVE  UNCHANGED Contract!contractVars
  <2>1. ASSUME NEW m \in Lookups PROVE Found(m)' = Found(m)
    BY <1>3 DEF BeginLookup, Found, TypeOK
  <2>2. AllFound' = AllFound
    BY <2>1 DEF AllFound
  <2>3. QED
    BY <1>1, <1>2, <2>2 DEF Contract!contractVars, Answer, AllFound
<1>4. CASE EndLookup(l)
  <2>1. PICK answer \in {lookup[l].answer, "unavailable", "permanent"} :
          lookup' = [lookup EXCEPT ![l].step = "done", ![l].answer = answer]
    BY <1>4 DEF EndLookup
  <2> DEFINE k == lookup[l].key
  <2>2. lookup[l].step = "wait" /\ LookupInv(l)
    BY <1>4 DEF EndLookup, IInv
  <2>3. Found(l)' = <<k, answer>> /\ AllFound[l] = None
    BY <2>1, <2>2 DEF Found, AllFound, TypeOK
  <2>4. ASSUME NEW m \in Lookups, m # l PROVE Found(m)' = Found(m)
    BY <2>1, <2>4 DEF Found, TypeOK
  <2>5. AllFound' = [AllFound EXCEPT ![l] = <<k, answer>>]
    BY <2>3, <2>4 DEF AllFound
  <2>6. /\ k \in Keys
        /\ \/ answer \in {"not_found", "unavailable", "permanent"}
           \/ records[k] # None /\ answer = records[k]
    BY <2>1, <2>2, NoneAssumption DEF LookupInv, Responses
  <2>7. Contract!EndLookup(l, k)
    BY <1>1, <1>2, <2>3, <2>5, <2>6 DEF Contract!EndLookup, Answer, AllFound
  <2>8. QED
    BY <2>6, <2>7 DEF Contract!ContractNext
<1>5. QED
  BY <1>3, <1>4

LEMMA NextRefines ==
  TypeOK /\ IInv /\ [Next]_vars => [Contract!ContractNext]_Contract!contractVars
<1> SUFFICES ASSUME TypeOK, IInv, [Next]_vars
             PROVE  Contract!ContractNext \/ UNCHANGED Contract!contractVars
  OBVIOUS
<1>1. ASSUME NEW c \in Calls,
             NotConnected(c) \/ TransportFails(c) \/ GetResponse(c) \/ Timer(c)
      PROVE  Contract!ContractNext \/ UNCHANGED Contract!contractVars
  BY <1>1, Kinds, EndsRefines, QuietRefines
<1>2. ASSUME NEW r \in Requests, ProcessPayment(r) \/ TurnAway(r) \/ WakeUp(r),
             UNCHANGED <<call, lookup>>
      PROVE  Contract!ContractNext \/ UNCHANGED Contract!contractVars
  <2>1. request[r].step # "none" => request[r].key \in Keys
    <3>1. PICK c \in Calls, a \in 1..MaxAttempts : r = <<c, a>>
      BY DEF Requests
    <3>2. QED
      BY <3>1, CallFacts DEF AttemptInv, CallInv
  <2>2. QED
    BY <1>2, <2>1, ProviderKinds, ProviderRefines
<1>3. CASE UNCHANGED vars
  <2>1. request' = request /\ records' = records /\ call' = call /\ lookup' = lookup
    BY <1>3 DEF vars, providerVars
  <2>2. Asked' = Asked
    BY <2>1 DEF Asked, TakenOn
  <2>3. QED
    BY <2>1, <2>2, Unseen
<1>4. ASSUME Next PROVE Contract!ContractNext \/ UNCHANGED Contract!contractVars
  BY <1>1, <1>2, <1>4, QuietRefines, SendRefines, LookupRefines DEF Next
<1>5. QED
  BY <1>3, <1>4

\* PaymentProviderClient and the provider, over any network: one decision per
\* payment, told to all who hear of it, and no call asks for a charge twice
\* or says that it asked for none when it did.
THEOREM ClientRefines == Spec => KeepsContract
<1>1. Init => Contract!ContractInit
  BY InitRefines
<1>2. TypeOK /\ IInv /\ [Next]_vars => [Contract!ContractNext]_Contract!contractVars
  BY NextRefines
<1>3. QED
  BY <1>1, <1>2, Invariant, PTL DEF Spec, KeepsContract, Contract!ContractSpec
=============================================================================

------------------------- MODULE PaymentFlowProofs -------------------------
(***************************************************************************)
(* Proofs about PaymentFlow for every set of payments, handlers, relays    *)
(* and reconcilers, every batch size, budget and number of faults.         *)
(***************************************************************************)
EXTENDS PaymentFlow, TLAPS

\* A row still open to reconciliation has attempts left in its budget.
BudgetLeft ==
  \A p \in Payments :
    ~payment[p].manual_review => payment[p].attempts < ReconciliationMaxAttempts

\* What a handler holds at each step: a message while it is busy, of the type
\* its processor handles.
HandlersOK ==
  \A h \in Handlers :
    /\ pc[h] # "idle" => msg[h] \in Messages
    /\ pc[h] \in {"call", "await", "apply", "mark_unknown"} =>
         msg[h].event.type = "payment.process_requested"
    /\ pc[h] \in {"deliver", "mark_sent"} =>
         msg[h].event.type = "webhook.delivery_requested"
    /\ pc[h] = "apply" => result[h] \in Verdicts
    /\ pc[h] \in {"deliver", "mark_sent"} => result[h] \in Terminal

\* A reconciler that asks or writes about a payment has one in hand.
ReconcilersOK ==
  \A c \in Reconcilers :
    recon[c].step \in {"lookup", "persist"} => recon[c].target \in Payments

TypeInv == TypeOK /\ BudgetLeft /\ HandlersOK /\ ReconcilersOK

-----------------------------------------------------------------------------
\* The fields of an event, and what tells two events apart.
LEMMA EventFields ==
  ASSUME NEW e \in Events
  PROVE  /\ e.payment \in Payments
         /\ e.type \in {"payment.process_requested",
                        "webhook.delivery_requested"}
         /\ e.type = "payment.process_requested" => e = ProcessEvent(e.payment)
         /\ e.type = "webhook.delivery_requested" =>
              e.id \in WebhookIds /\ e = WebhookEvent(e.payment, e.id)
<1>1. CASE \E p \in Payments : e = ProcessEvent(p)
  BY <1>1 DEF ProcessEvent
<1>2. CASE \E p \in Payments, w \in WebhookIds : e = WebhookEvent(p, w)
  BY <1>2 DEF WebhookEvent
<1>3. QED
  BY <1>1, <1>2 DEF Events

LEMMA EventsExist ==
  ASSUME NEW p \in Payments
  PROVE  /\ ProcessEvent(p) \in Events
         /\ \A w \in WebhookIds : WebhookEvent(p, w) \in Events
BY DEF Events

\* Putting a message into a queue and moving one keep the queues well-typed.
LEMMA PutType ==
  ASSUME queue \in [Queues -> [Messages -> Nat]],
         NEW q \in Queues, NEW m \in Messages
  PROVE  Put(q, m) \in [Queues -> [Messages -> Nat]]
BY DEF Put

LEMMA MoveType ==
  ASSUME queue \in [Queues -> [Messages -> Nat]],
         NEW from \in Queues, NEW to \in Queues, NEW m \in Messages,
         from # to, queue[from][m] > 0
  PROVE  Move(from, to, m) \in [Queues -> [Messages -> Nat]]
<1> DEFINE less == [queue EXCEPT ![from][m] = @ - 1]
<1>1. less \in [Queues -> [Messages -> Nat]]
  <2>1. queue[from] \in [Messages -> Nat] /\ queue[from][m] - 1 \in Nat
    OBVIOUS
  <2>2. [queue[from] EXCEPT ![m] = @ - 1] \in [Messages -> Nat]
    BY <2>1
  <2>3. QED
    BY <2>2
<1>2. Move(from, to, m) = [less EXCEPT ![to][m] = @ + 1]
  BY DEF Move
<1> HIDE DEF less
<1>3. [less EXCEPT ![to][m] = @ + 1] \in [Queues -> [Messages -> Nat]]
  BY <1>1
<1>4. QED
  BY <1>2, <1>3

\* A message that is not at its last attempt has a next one.
LEMMA CopyType ==
  ASSUME NEW m \in Messages, m.attempt < MaxAttempts
  PROVE  [m EXCEPT !.attempt = @ + 1] \in Messages
BY DEF Messages, MaxAttempts

\* Rewriting the status, the sent mark or the lease spends no attempt.
LEMMA FlagsKeepBudget ==
  ASSUME NEW row \in PaymentRows(WebhookIds, Tokens, Attempts)
  PROVE  /\ \A s : /\ [row EXCEPT !.status = s].attempts = row.attempts
                  /\ [row EXCEPT !.status = s].manual_review
                       = row.manual_review
         /\ \A b : /\ [row EXCEPT !.webhook_sent = b].attempts = row.attempts
                  /\ [row EXCEPT !.webhook_sent = b].manual_review
                       = row.manual_review
         /\ \A t : /\ [row EXCEPT !.lease_token = t].attempts = row.attempts
                  /\ [row EXCEPT !.lease_token = t].manual_review
                       = row.manual_review
BY DEF PaymentRows

\* A lookup without a verdict spends one attempt, the last one of the budget
\* for the price of a manual review.
LEMMA UnresolvedSpends ==
  ASSUME NEW row \in PaymentRows(WebhookIds, Tokens, Attempts), NEW max
  PROVE  /\ Unresolved(row, max).attempts = row.attempts + 1
         /\ row.attempts + 1 >= max => Unresolved(row, max).manual_review
<1> DEFINE review == row.manual_review \/ row.attempts + 1 >= max
<1>1. /\ Unresolved(row, max).attempts = row.attempts + 1
      /\ Unresolved(row, max).manual_review = review
  BY DEF Unresolved, PaymentRows
<1>2. QED
  BY <1>1

\* Each rewriting of a row gives a row.
LEMMA RowTypes ==
  ASSUME NEW row \in PaymentRows(WebhookIds, Tokens, Attempts)
  PROVE  /\ \A v \in Verdicts, w \in WebhookIds :
              Resolved(row, v, w) \in PaymentRows(WebhookIds, Tokens, Attempts)
         /\ row.attempts < ReconciliationMaxAttempts =>
              Unresolved(row, ReconciliationMaxAttempts)
                \in PaymentRows(WebhookIds, Tokens, Attempts)
         /\ \A t \in Tokens : [row EXCEPT !.lease_token = t]
                \in PaymentRows(WebhookIds, Tokens, Attempts)
         /\ [row EXCEPT !.status = "unknown"]
                \in PaymentRows(WebhookIds, Tokens, Attempts)
         /\ [row EXCEPT !.webhook_sent = TRUE]
                \in PaymentRows(WebhookIds, Tokens, Attempts)
<1> DEFINE Rows == PaymentRows(WebhookIds, Tokens, Attempts)
<1> USE DEF PaymentRows
<1>1. ASSUME NEW v \in Verdicts, NEW w \in WebhookIds
      PROVE  Resolved(row, v, w) \in Rows
  BY DEF Resolved, PaymentStatus, StatusFor
<1>2. ASSUME row.attempts < ReconciliationMaxAttempts
      PROVE  Unresolved(row, ReconciliationMaxAttempts) \in Rows
  <2> DEFINE review == row.manual_review
                         \/ row.attempts + 1 >= ReconciliationMaxAttempts
             rest == [row EXCEPT !.attempts = @ + 1, !.lease_token = None]
  <2>1. review \in BOOLEAN
    OBVIOUS
  <2>2. row.attempts + 1 \in Attempts
    BY <1>2, BoundsAssumption DEF Attempts
  <2>3. rest \in Rows
    BY <2>2
  <2>4. Unresolved(row, ReconciliationMaxAttempts)
          = [rest EXCEPT !.manual_review = review]
    BY DEF Unresolved
  <2> HIDE DEF review, rest
  <2>5. QED
    BY <2>1, <2>3, <2>4
<1>3. ASSUME NEW t \in Tokens
      PROVE  [row EXCEPT !.lease_token = t] \in Rows
  OBVIOUS
<1>4. [row EXCEPT !.status = "unknown"] \in Rows
  BY DEF PaymentStatus
<1>5. [row EXCEPT !.webhook_sent = TRUE] \in Rows
  OBVIOUS
<1>6. QED
  BY <1>1, <1>2, <1>3, <1>4, <1>5

-----------------------------------------------------------------------------
(* Who writes what: every step leaves a variable alone unless it is one of *)
(* a few actions.                                                          *)

LEMMA WritersOfPayment ==
  ASSUME [Next]_vars
  PROVE  \/ UNCHANGED payment
         \/ \E p \in Payments : CreatePayment(p)
         \/ \E h \in Handlers : ApplyResult(h) \/ MarkUnknown(h) \/ MarkSent(h)
         \/ \E c \in Reconcilers : ClaimBatch(c) \/ PersistResolution(c)
BY ZenonT(60) DEF Next, RelayStep, HandlerStep, PaymentStep, WebhookStep, ReconcilerStep,
   vars, tables, relayVars, handlerVars, outsideVars,
   ProviderDecides, FetchBatch, Publish, CommitBatch, RelayFails, Receive,
   Ack, Reject, RetryOrReject, Crash, TransactionFails, LoadRequest,
   CallFails, PostCharge, GetVerdict, GetAmbiguousOutcome, LoadDelivery,
   Deliver, TtlExpires, RenewClaim, LookupProvider, ReconcileFails,
   ReconcilerCrashes

LEMMA WritersOfOutbox ==
  ASSUME [Next]_vars
  PROVE  \/ UNCHANGED outbox
         \/ \E p \in Payments : CreatePayment(p)
         \/ \E r \in Relays : CommitBatch(r)
         \/ \E h \in Handlers : ApplyResult(h)
         \/ \E c \in Reconcilers : PersistResolution(c)
BY ZenonT(60) DEF Next, RelayStep, HandlerStep, PaymentStep, WebhookStep, ReconcilerStep,
   vars, tables, relayVars, handlerVars, outsideVars,
   ProviderDecides, FetchBatch, Publish, RelayFails, Receive, Ack, Reject,
   RetryOrReject, Crash, TransactionFails, LoadRequest, CallFails,
   PostCharge, GetVerdict, GetAmbiguousOutcome, MarkUnknown, LoadDelivery,
   Deliver, MarkSent, TtlExpires, ClaimBatch, RenewClaim, LookupProvider,
   ReconcileFails, ReconcilerCrashes

LEMMA WritersOfQueue ==
  ASSUME [Next]_vars
  PROVE  \/ UNCHANGED queue
         \/ \E r \in Relays : Publish(r)
         \/ \E h \in Handlers :
              \/ Receive(h) \/ Reject(h) \/ RetryOrReject(h)
              \/ Crash(h)
         \/ \E q \in Queues : TtlExpires(q)
BY ZenonT(60) DEF Next, RelayStep, HandlerStep, PaymentStep, WebhookStep, ReconcilerStep,
   vars, tables, relayVars, handlerVars, outsideVars,
   CreatePayment, ProviderDecides, FetchBatch, CommitBatch, RelayFails,
   Ack, TransactionFails, LoadRequest, CallFails, PostCharge, GetVerdict,
   GetAmbiguousOutcome, ApplyResult, MarkUnknown, LoadDelivery, Deliver,
   MarkSent, ClaimBatch, RenewClaim, LookupProvider, PersistResolution,
   ReconcileFails, ReconcilerCrashes

LEMMA WritersOfBatches ==
  ASSUME [Next]_vars
  PROVE  \/ UNCHANGED relayVars
         \/ \E r \in Relays :
              \/ FetchBatch(r) \/ Publish(r) \/ CommitBatch(r)
              \/ RelayFails(r)
BY ZenonT(60) DEF Next, RelayStep, HandlerStep, PaymentStep, WebhookStep, ReconcilerStep,
   vars, tables, relayVars, handlerVars, outsideVars,
   CreatePayment, ProviderDecides, Receive, Ack, Reject, RetryOrReject,
   Crash, TransactionFails, LoadRequest, CallFails, PostCharge, GetVerdict,
   GetAmbiguousOutcome, ApplyResult, MarkUnknown, LoadDelivery, Deliver,
   MarkSent, TtlExpires, ClaimBatch, RenewClaim, LookupProvider,
   PersistResolution, ReconcileFails, ReconcilerCrashes

LEMMA WritersOfHandlers ==
  ASSUME [Next]_vars
  PROVE  \/ UNCHANGED handlerVars
         \/ \E h \in Handlers :
              \/ Receive(h) \/ Ack(h) \/ Reject(h)
              \/ RetryOrReject(h) \/ Crash(h)
              \/ TransactionFails(h) \/ LoadRequest(h)
              \/ CallFails(h) \/ PostCharge(h) \/ GetVerdict(h)
              \/ GetAmbiguousOutcome(h) \/ ApplyResult(h)
              \/ MarkUnknown(h) \/ LoadDelivery(h) \/ Deliver(h)
              \/ MarkSent(h)
BY ZenonT(60) DEF Next, RelayStep, HandlerStep, PaymentStep, WebhookStep, ReconcilerStep,
   vars, tables, relayVars, handlerVars, outsideVars,
   CreatePayment, ProviderDecides, FetchBatch, Publish, CommitBatch,
   RelayFails, TtlExpires, ClaimBatch, RenewClaim, LookupProvider,
   PersistResolution, ReconcileFails, ReconcilerCrashes

LEMMA WritersOfRecon ==
  ASSUME [Next]_vars
  PROVE  \/ UNCHANGED recon
         \/ \E c \in Reconcilers :
              \/ ClaimBatch(c) \/ RenewClaim(c)
              \/ LookupProvider(c) \/ PersistResolution(c)
              \/ ReconcileFails(c) \/ ReconcilerCrashes(c)
BY ZenonT(60) DEF Next, RelayStep, HandlerStep, PaymentStep, WebhookStep, ReconcilerStep,
   vars, tables, relayVars, handlerVars, outsideVars,
   CreatePayment, ProviderDecides, FetchBatch, Publish, CommitBatch,
   RelayFails, Receive, Ack, Reject, RetryOrReject, Crash,
   TransactionFails, LoadRequest, CallFails, PostCharge, GetVerdict,
   GetAmbiguousOutcome, ApplyResult, MarkUnknown, LoadDelivery, Deliver,
   MarkSent, TtlExpires

LEMMA WritersOfPosted ==
  ASSUME [Next]_vars
  PROVE  \/ UNCHANGED posted
         \/ \E h \in Handlers : PostCharge(h)
BY ZenonT(60) DEF Next, RelayStep, HandlerStep, PaymentStep, WebhookStep, ReconcilerStep,
   vars, tables, relayVars, handlerVars, outsideVars,
   CreatePayment, ProviderDecides, FetchBatch, Publish, CommitBatch,
   RelayFails, Receive, Ack, Reject, RetryOrReject, Crash,
   TransactionFails, LoadRequest, CallFails, GetVerdict,
   GetAmbiguousOutcome, ApplyResult, MarkUnknown, LoadDelivery, Deliver,
   MarkSent, TtlExpires, ClaimBatch, RenewClaim, LookupProvider,
   PersistResolution, ReconcileFails, ReconcilerCrashes

LEMMA WritersOfLedger ==
  ASSUME [Next]_vars
  PROVE  \/ UNCHANGED ledger
         \/ \E p \in Payments : ProviderDecides(p)
BY ZenonT(60) DEF Next, RelayStep, HandlerStep, PaymentStep, WebhookStep, ReconcilerStep,
   vars, tables, relayVars, handlerVars, outsideVars,
   CreatePayment, FetchBatch, Publish, CommitBatch, RelayFails, Receive,
   Ack, Reject, RetryOrReject, Crash, TransactionFails, LoadRequest,
   CallFails, PostCharge, GetVerdict, GetAmbiguousOutcome, ApplyResult,
   MarkUnknown, LoadDelivery, Deliver, MarkSent, TtlExpires, ClaimBatch,
   RenewClaim, LookupProvider, PersistResolution, ReconcileFails,
   ReconcilerCrashes

LEMMA WritersOfReceived ==
  ASSUME [Next]_vars
  PROVE  \/ UNCHANGED received
         \/ \E h \in Handlers : Deliver(h)
BY ZenonT(60) DEF Next, RelayStep, HandlerStep, PaymentStep, WebhookStep, ReconcilerStep,
   vars, tables, relayVars, handlerVars, outsideVars,
   CreatePayment, ProviderDecides, FetchBatch, Publish, CommitBatch,
   RelayFails, Receive, Ack, Reject, RetryOrReject, Crash,
   TransactionFails, LoadRequest, CallFails, PostCharge, GetVerdict,
   GetAmbiguousOutcome, ApplyResult, MarkUnknown, LoadDelivery, MarkSent,
   TtlExpires, ClaimBatch, RenewClaim, LookupProvider, PersistResolution,
   ReconcileFails, ReconcilerCrashes

-----------------------------------------------------------------------------
(* Types, one lemma per part of the state.                                 *)

Rows == PaymentRows(WebhookIds, Tokens, Attempts)

LEMMA PaymentTyped ==
  ASSUME TypeInv, [Next]_vars
  PROVE  payment' \in [Payments -> Rows] /\ BudgetLeft'
<1> USE DEF Rows
<1>1. payment \in [Payments -> Rows] /\ BudgetLeft
  BY DEF TypeInv, TypeOK
<1>2. ASSUME NEW p \in Payments, NEW row \in Rows,
             ~row.manual_review => row.attempts < ReconciliationMaxAttempts,
             payment' = [payment EXCEPT ![p] = row]
      PROVE  payment' \in [Payments -> Rows] /\ BudgetLeft'
  BY <1>1, <1>2 DEF BudgetLeft
<1>3. ASSUME NEW p \in Payments, NEW v \in Verdicts, Settle(p, v)
      PROVE  payment' \in [Payments -> Rows] /\ BudgetLeft'
  <2>1. PICK w \in WebhookIds :
          payment' = [payment EXCEPT ![p] = Resolved(payment[p], v, w)]
    BY <1>3 DEF Settle, FreshWebhookIds
  <2>2. Resolved(payment[p], v, w) \in Rows
    BY <1>1, RowTypes
  <2>3. /\ Resolved(payment[p], v, w).manual_review = payment[p].manual_review
        /\ Resolved(payment[p], v, w).attempts = payment[p].attempts
    BY <1>1 DEF Resolved, PaymentRows
  <2>4. QED
    BY <1>1, <1>2, <2>1, <2>2, <2>3 DEF BudgetLeft
<1>4. CASE UNCHANGED payment
  BY <1>1, <1>4 DEF BudgetLeft
<1>5. ASSUME NEW p \in Payments, CreatePayment(p)
      PROVE  payment' \in [Payments -> Rows] /\ BudgetLeft'
  <2>1. 0 \in Attempts /\ 0 < ReconciliationMaxAttempts
    BY BoundsAssumption DEF Attempts
  <2>2. NewPayment \in Rows /\ NewPayment.attempts = 0
    BY <2>1 DEF NewPayment, NoRow, PaymentRows, PaymentStatus
  <2>3. QED
    BY <1>2, <1>5, <2>1, <2>2 DEF CreatePayment
<1>6. ASSUME NEW h \in Handlers, ApplyResult(h)
      PROVE  payment' \in [Payments -> Rows] /\ BudgetLeft'
  <2>1. pc[h] = "apply" /\ result[h] \in Verdicts
        /\ WorksOn(h).payment \in Payments
    BY <1>6, EventFields
    DEF TypeInv, HandlersOK, ApplyResult, At, WorksOn, Messages
  <2>2. CASE UNCHANGED tables
    BY <1>4, <2>2 DEF tables
  <2>3. CASE Settle(WorksOn(h).payment, result[h])
    BY <1>3, <2>1, <2>3
  <2>4. QED
    BY <1>6, <2>2, <2>3 DEF ApplyResult
<1>7. ASSUME NEW h \in Handlers, MarkUnknown(h)
      PROVE  payment' \in [Payments -> Rows] /\ BudgetLeft'
  <2>1. WorksOn(h).payment \in Payments
    BY <1>7, EventFields
    DEF TypeInv, HandlersOK, MarkUnknown, At, WorksOn, Messages
  <2> DEFINE row == [payment[WorksOn(h).payment] EXCEPT !.status = "unknown"]
  <2>2. /\ row \in Rows
        /\ row.manual_review = payment[WorksOn(h).payment].manual_review
        /\ row.attempts = payment[WorksOn(h).payment].attempts
    <3>1. payment[WorksOn(h).payment] \in Rows
      BY <1>1, <2>1
    <3>2. QED
      BY <3>1, RowTypes, FlagsKeepBudget
  <2>3. payment' = payment
        \/ payment' = [payment EXCEPT ![WorksOn(h).payment] = row]
    BY <1>7 DEF MarkUnknown
  <2> HIDE DEF row
  <2>4. QED
    BY <1>1, <1>2, <1>4, <2>1, <2>2, <2>3 DEF BudgetLeft
<1>8. ASSUME NEW h \in Handlers, MarkSent(h)
      PROVE  payment' \in [Payments -> Rows] /\ BudgetLeft'
  <2>1. WorksOn(h).payment \in Payments
    BY <1>8, EventFields
    DEF TypeInv, HandlersOK, MarkSent, At, WorksOn, Messages
  <2> DEFINE row == [payment[WorksOn(h).payment] EXCEPT !.webhook_sent = TRUE]
  <2>2. /\ row \in Rows
        /\ row.manual_review = payment[WorksOn(h).payment].manual_review
        /\ row.attempts = payment[WorksOn(h).payment].attempts
    <3>1. payment[WorksOn(h).payment] \in Rows
      BY <1>1, <2>1
    <3>2. QED
      BY <3>1, RowTypes, FlagsKeepBudget
  <2>3. payment' = payment
        \/ payment' = [payment EXCEPT ![WorksOn(h).payment] = row]
    BY <1>8 DEF MarkSent
  <2> HIDE DEF row
  <2>4. QED
    BY <1>1, <1>2, <1>4, <2>1, <2>2, <2>3 DEF BudgetLeft
<1>9. ASSUME NEW c \in Reconcilers, ClaimBatch(c)
      PROVE  payment' \in [Payments -> Rows] /\ BudgetLeft'
  <2>1. PICK b \in SUBSET Payments, t \in Tokens :
          payment' = [p \in Payments |->
            IF p \in b THEN [payment[p] EXCEPT !.lease_token = t]
                       ELSE payment[p]]
    BY <1>9 DEF ClaimBatch, FreshTokens
  <2>2. ASSUME NEW p \in Payments
        PROVE  /\ [payment[p] EXCEPT !.lease_token = t] \in Rows
               /\ [payment[p] EXCEPT !.lease_token = t].manual_review
                    = payment[p].manual_review
               /\ [payment[p] EXCEPT !.lease_token = t].attempts
                    = payment[p].attempts
    BY <1>1, RowTypes, FlagsKeepBudget
  <2>3. QED
    BY <1>1, <2>1, <2>2 DEF BudgetLeft
<1>10. ASSUME NEW c \in Reconcilers, PersistResolution(c)
       PROVE  payment' \in [Payments -> Rows] /\ BudgetLeft'
  <2> DEFINE p == recon[c].target
             row == Unresolved(payment[p], ReconciliationMaxAttempts)
  <2>1. p \in Payments /\ recon[c].answer \in Verdicts \cup {None}
    BY <1>10
    DEF TypeInv, TypeOK, ReconcilersOK, ReconStates, PersistResolution
  <2>2. CASE UNCHANGED tables
    BY <1>4, <2>2 DEF tables
  <2>3. CASE Renewable(c, p) /\ payment' = [payment EXCEPT ![p] = row]
    <3>1. payment[p].attempts < ReconciliationMaxAttempts
      BY <1>1, <2>1, <2>3 DEF Renewable, Reconcilable, BudgetLeft
    <3>2. row \in Rows
      BY <1>1, <2>1, <3>1, RowTypes
    <3>3. ~row.manual_review => row.attempts < ReconciliationMaxAttempts
      <4>1. row.attempts = payment[p].attempts + 1
        BY <1>1, <2>1, UnresolvedSpends
      <4>2. payment[p].attempts + 1 >= ReconciliationMaxAttempts
              => row.manual_review
        BY <1>1, <2>1, UnresolvedSpends
      <4>3. payment[p].attempts \in Nat /\ ReconciliationMaxAttempts \in Nat
        <5>1. payment[p] \in Rows
          BY <1>1, <2>1
        <5>2. payment[p].attempts \in Attempts
          BY <5>1 DEF PaymentRows
        <5>3. QED
          BY <5>2, BoundsAssumption DEF Attempts
      <4> HIDE DEF p, row
      <4>4. QED
        BY <4>1, <4>2, <4>3
    <3> HIDE DEF p, row
    <3>4. QED
      BY <1>2, <2>1, <2>3, <3>2, <3>3
  <2>4. CASE recon[c].answer # None /\ Settle(p, recon[c].answer)
    BY <1>3, <2>1, <2>4
  <2>5. QED
    BY <1>10, <2>2, <2>3, <2>4 DEF PersistResolution
<1>11. QED
  BY <1>4, <1>5, <1>6, <1>7, <1>8, <1>9, <1>10, WritersOfPayment

LEMMA OutboxTyped ==
  ASSUME TypeInv, [Next]_vars
  PROVE  outbox' \in [Events -> {"absent", "unpublished", "published"}]
<1> DEFINE OutboxType == [Events -> {"absent", "unpublished", "published"}]
<1>1. outbox \in OutboxType
  BY DEF TypeInv, TypeOK
<1>2. ASSUME NEW p \in Payments, NEW v, Settle(p, v)
      PROVE  outbox' \in OutboxType
  BY <1>1, <1>2, EventsExist DEF Settle, FreshWebhookIds
<1>3. CASE UNCHANGED outbox
  BY <1>1, <1>3
<1>4. ASSUME NEW p \in Payments, CreatePayment(p)
      PROVE  outbox' \in OutboxType
  BY <1>1, <1>4, EventsExist DEF CreatePayment
<1>5. ASSUME NEW r \in Relays, CommitBatch(r)
      PROVE  outbox' \in OutboxType
  BY <1>1, <1>5 DEF CommitBatch
<1>6. ASSUME NEW h \in Handlers, ApplyResult(h)
      PROVE  outbox' \in OutboxType
  <2>1. WorksOn(h).payment \in Payments
    BY <1>6, EventFields
    DEF TypeInv, HandlersOK, ApplyResult, At, WorksOn, Messages
  <2>2. QED
    BY <1>2, <1>3, <1>6, <2>1 DEF ApplyResult, tables
<1>7. ASSUME NEW c \in Reconcilers, PersistResolution(c)
      PROVE  outbox' \in OutboxType
  <2>1. recon[c].target \in Payments
    BY <1>7 DEF TypeInv, ReconcilersOK, PersistResolution
  <2>2. QED
    BY <1>2, <1>3, <1>7, <2>1 DEF PersistResolution, tables
<1>8. QED
  BY <1>3, <1>4, <1>5, <1>6, <1>7, WritersOfOutbox

LEMMA QueueTyped ==
  ASSUME TypeInv, [Next]_vars
  PROVE  queue' \in [Queues -> [Messages -> Nat]]
<1> DEFINE QueueType == [Queues -> [Messages -> Nat]]
<1>1. queue \in QueueType
  BY DEF TypeInv, TypeOK
<1>2. /\ "payments.new" \in Queues
      /\ "payments.dlq" \in Queues
      /\ \A n : RetryQueue(n) \in Queues \ {"payments.new"}
  BY DEF Queues, RetryQueue
<1>3. ASSUME NEW h \in Handlers, pc[h] # "idle"
      PROVE  msg[h] \in Messages
  BY <1>3 DEF TypeInv, HandlersOK
<1>4. CASE UNCHANGED queue
  BY <1>1, <1>4
<1>5. ASSUME NEW r \in Relays, Publish(r)
      PROVE  queue' \in QueueType
  <2>1. PICK e \in batch[r] :
          queue' = Put("payments.new", [event |-> e, attempt |-> 1])
    BY <1>5 DEF Publish
  <2>2. [event |-> e, attempt |-> 1] \in Messages
    BY DEF TypeInv, TypeOK, Messages, MaxAttempts
  <2>3. QED
    BY <1>1, <1>2, <2>1, <2>2, PutType
<1>6. ASSUME NEW h \in Handlers, Receive(h)
      PROVE  queue' \in QueueType
  <2>1. PICK m \in Messages :
          /\ queue["payments.new"][m] > 0
          /\ queue' = [queue EXCEPT !["payments.new"][m] = @ - 1]
    BY <1>6 DEF Receive
  <2>2. /\ queue["payments.new"] \in [Messages -> Nat]
        /\ queue["payments.new"][m] - 1 \in Nat
    BY <1>1, <1>2, <2>1
  <2>3. [queue["payments.new"] EXCEPT ![m] = @ - 1] \in [Messages -> Nat]
    BY <2>2
  <2>4. QED
    BY <1>1, <2>1, <2>3
<1>7. ASSUME NEW h \in Handlers, Reject(h) \/ Crash(h)
      PROVE  queue' \in QueueType
  <2>1. pc[h] # "idle"
    BY <1>7 DEF Reject, Crash, At
  <2>2. QED
    BY <1>1, <1>2, <1>3, <1>7, <2>1, PutType DEF Reject, Crash
<1>8. ASSUME NEW h \in Handlers, RetryOrReject(h)
      PROVE  queue' \in QueueType
  <2> DEFINE m == msg[h]
             retry == RetryQueue(m.attempt + 1)
             copy == [m EXCEPT !.attempt = @ + 1]
             retried == Put(retry, copy)
  <2>1. m \in Messages
    BY <1>3, <1>8 DEF RetryOrReject, At
  <2>2. CASE queue' = Put("payments.dlq", m) \/ queue' = Put("payments.new", m)
    BY <1>1, <1>2, <2>1, <2>2, PutType
  <2>3. ASSUME m.attempt < MaxAttempts
        PROVE  retried \in QueueType
    <3>1. copy \in Messages
      BY <2>1, <2>3, CopyType
    <3> HIDE DEF copy
    <3>2. QED
      BY <1>1, <1>2, <3>1, PutType
  <2>4. m.attempt < MaxAttempts =>
          [retried EXCEPT !["payments.new"][m] = @ + 1] \in QueueType
    BY <1>2, <2>1, <2>3
  <2>5. \/ queue' = Put("payments.dlq", m) \/ queue' = Put("payments.new", m)
        \/ m.attempt < MaxAttempts
           /\ \/ queue' = retried
              \/ queue' = [retried EXCEPT !["payments.new"][m] = @ + 1]
    BY <1>8 DEF RetryOrReject
  <2>6. QED
    BY <2>2, <2>3, <2>4, <2>5
<1>9. ASSUME NEW q \in Queues, TtlExpires(q)
      PROVE  queue' \in QueueType
  BY <1>1, <1>2, <1>9, MoveType DEF TtlExpires
<1>10. QED
  BY <1>4, <1>5, <1>6, <1>7, <1>8, <1>9, WritersOfQueue

LEMMA BatchesTyped ==
  ASSUME TypeInv, [Next]_vars
  PROVE  /\ batch' \in [Relays -> SUBSET Events]
         /\ marked' \in [Relays -> SUBSET Events]
<1>1. /\ batch \in [Relays -> SUBSET Events]
      /\ marked \in [Relays -> SUBSET Events]
  BY DEF TypeInv, TypeOK
<1>2. CASE UNCHANGED relayVars
  BY <1>1, <1>2 DEF relayVars
<1>3. ASSUME NEW r \in Relays, FetchBatch(r)
      PROVE  /\ batch' \in [Relays -> SUBSET Events]
             /\ marked' \in [Relays -> SUBSET Events]
  <2>1. PICK b \in SUBSET Events : batch' = [batch EXCEPT ![r] = b]
    BY <1>3 DEF FetchBatch
  <2>2. QED
    BY <1>1, <1>3, <2>1 DEF FetchBatch
<1>4. ASSUME NEW r \in Relays, Publish(r)
      PROVE  /\ batch' \in [Relays -> SUBSET Events]
             /\ marked' \in [Relays -> SUBSET Events]
  <2>1. PICK e \in batch[r] :
          /\ batch' = [batch EXCEPT ![r] = @ \ {e}]
          /\ marked' = [marked EXCEPT ![r] = @ \cup {e}]
    BY <1>4 DEF Publish
  <2>2. batch[r] \ {e} \in SUBSET Events /\ marked[r] \cup {e} \in SUBSET Events
    BY <1>1
  <2>3. QED
    BY <1>1, <2>1, <2>2
<1>5. ASSUME NEW r \in Relays, CommitBatch(r) \/ RelayFails(r)
      PROVE  /\ batch' \in [Relays -> SUBSET Events]
             /\ marked' \in [Relays -> SUBSET Events]
  BY <1>1, <1>5 DEF CommitBatch, RelayFails
<1>6. QED
  BY <1>2, <1>3, <1>4, <1>5, WritersOfBatches

Results == Verdicts \cup PaymentStatus \cup {"absent", None}

\* What a handler may hold when it is about to do a step.
Fits(step, m, res) ==
  /\ step \in {"call", "await", "apply", "mark_unknown"} =>
       m.event.type = "payment.process_requested"
  /\ step \in {"deliver", "mark_sent"} =>
       m.event.type = "webhook.delivery_requested" /\ res \in Terminal
  /\ step = "apply" => res \in Verdicts

LEMMA HandlersTyped ==
  ASSUME TypeInv, [Next]_vars
  PROVE  /\ pc' \in [Handlers -> HandlerSteps]
         /\ msg' \in [Handlers -> Messages \cup {None}]
         /\ result' \in [Handlers -> Results]
         /\ HandlersOK'
<1> DEFINE Goal == /\ pc' \in [Handlers -> HandlerSteps]
                   /\ msg' \in [Handlers -> Messages \cup {None}]
                   /\ result' \in [Handlers -> Results]
                   /\ HandlersOK'
<1>1. /\ pc \in [Handlers -> HandlerSteps]
      /\ msg \in [Handlers -> Messages \cup {None}]
      /\ result \in [Handlers -> Results]
      /\ HandlersOK
  BY DEF TypeInv, TypeOK, Results
<1>2. ASSUME NEW h \in Handlers, NEW step \in HandlerSteps, NEW res \in Results,
             pc[h] # "idle", Fits(step, msg[h], res), Goto(h, step),
             result' = [result EXCEPT ![h] = res]
      PROVE  Goal
  BY <1>1, <1>2 DEF Goto, HandlersOK, Fits
<1>3. ASSUME NEW h \in Handlers, NEW step \in HandlerSteps,
             pc[h] # "idle", Fits(step, msg[h], result[h]), Goto(h, step),
             UNCHANGED result
      PROVE  Goal
  <2>1. result[h] \in Results /\ result' = [result EXCEPT ![h] = result[h]]
    BY <1>1, <1>3
  <2> HIDE DEF Goal
  <2>2. QED
    BY <1>2, <1>3, <2>1
<1>4. ASSUME NEW h \in Handlers, NEW step \in {"ack", "retry", "reject"},
             pc[h] # "idle", Goto(h, step), UNCHANGED result
      PROVE  Goal
  <2>1. step \in HandlerSteps /\ Fits(step, msg[h], result[h])
    BY DEF HandlerSteps, Fits
  <2> HIDE DEF Goal
  <2>2. QED
    BY <1>3, <1>4, <2>1
<1>5. ASSUME NEW h \in Handlers, Release(h)
      PROVE  Goal
  BY <1>1, <1>5 DEF Release, HandlersOK, HandlerSteps, Results
<1>6. ASSUME UNCHANGED handlerVars
      PROVE  Goal
  BY <1>1, <1>6 DEF handlerVars, HandlersOK
<1>7. ASSUME NEW h \in Handlers, Receive(h)
      PROVE  Goal
  BY <1>1, <1>7 DEF Receive, HandlersOK, HandlerSteps
<1> HIDE DEF Goal
<1>8. ASSUME NEW h \in Handlers, Ack(h) \/ Reject(h) \/ Crash(h)
      PROVE  Goal
  BY <1>5, <1>8 DEF Ack, Reject, Crash
<1>9. ASSUME NEW h \in Handlers, RetryOrReject(h)
      PROVE  Goal
  BY <1>4, <1>5, <1>9 DEF RetryOrReject, At
<1>10. ASSUME NEW h \in Handlers, TransactionFails(h) \/ CallFails(h)
       PROVE  Goal
  BY <1>4, <1>10 DEF TransactionFails, CallFails, At
<1>11. ASSUME NEW h \in Handlers, LoadRequest(h)
       PROVE  Goal
  <2> DEFINE step == CASE RowOf(h).status = "absent"  -> "reject"
                       [] RowOf(h).status = "pending" -> "call"
                       [] OTHER                       -> "ack"
  <2>1. /\ step \in {"reject", "call", "ack"}
        /\ step \in HandlerSteps
    BY DEF HandlerSteps
  <2>2. pc[h] # "idle" /\ Goto(h, step) /\ UNCHANGED result
        /\ msg[h].event.type = "payment.process_requested"
    BY <1>11 DEF LoadRequest, At, WorksOn
  <2> HIDE DEF step
  <2>3. Fits(step, msg[h], result[h])
    BY <2>1, <2>2 DEF Fits
  <2>4. QED
    BY <1>3, <2>1, <2>2, <2>3
<1>12. ASSUME NEW h \in Handlers, PostCharge(h) \/ GetAmbiguousOutcome(h)
       PROVE  Goal
  <2>1. PICK step \in {"await", "mark_unknown"} :
          /\ pc[h] \in {"call", "await"}
          /\ Goto(h, step)
          /\ UNCHANGED result
    BY <1>12 DEF PostCharge, GetAmbiguousOutcome, At
  <2>2. step \in HandlerSteps /\ Fits(step, msg[h], result[h])
    BY <1>1, <2>1 DEF HandlerSteps, Fits, HandlersOK
  <2>3. QED
    BY <1>3, <2>1, <2>2
<1>13. ASSUME NEW h \in Handlers, GetVerdict(h)
       PROVE  Goal
  <2> DEFINE v == ledger[WorksOn(h).payment]
  <2>1. /\ pc[h] = "await" /\ Goto(h, "apply") /\ v # None
        /\ result' = [result EXCEPT ![h] = v]
    BY <1>13 DEF GetVerdict, At
  <2>2. WorksOn(h).payment \in Payments
    BY <1>1, <2>1, EventFields DEF HandlersOK, WorksOn, Messages
  <2>3. v \in Verdicts
    BY <2>1, <2>2 DEF TypeInv, TypeOK
  <2> HIDE DEF v
  <2>4. "apply" \in HandlerSteps /\ Fits("apply", msg[h], v) /\ v \in Results
    BY <1>1, <2>1, <2>3 DEF HandlerSteps, Fits, HandlersOK, Results
  <2>5. QED
    BY <1>2, <2>1, <2>4
<1>14. ASSUME NEW h \in Handlers, ApplyResult(h) \/ MarkUnknown(h) \/ MarkSent(h)
       PROVE  Goal
  <2>1. PICK step \in {"ack", "retry", "reject"} :
          pc[h] # "idle" /\ Goto(h, step) /\ UNCHANGED result
    BY <1>14 DEF ApplyResult, MarkUnknown, MarkSent, Committed, At
  <2>2. QED
    BY <1>4, <2>1
<1>15. ASSUME NEW h \in Handlers, LoadDelivery(h)
       PROVE  Goal
  <2> DEFINE row == RowOf(h)
             matches == WebhookMatches(row, WorksOn(h).id)
             step == CASE row.webhook_sent              -> "ack"
                       [] ~row.webhook_sent /\ matches  -> "deliver"
                       [] OTHER                         -> "reject"
  <2>1. /\ step \in {"ack", "deliver", "reject"}
        /\ step = "deliver" => row.status \in Terminal
    BY DEF WebhookMatches
  <2>2. /\ pc[h] = "load" /\ Goto(h, step)
        /\ result' = [result EXCEPT ![h] = row.status]
        /\ msg[h].event.type = "webhook.delivery_requested"
    BY <1>15 DEF LoadDelivery, At, WorksOn
  <2>3. WorksOn(h).payment \in Payments
    BY <1>1, <2>2, EventFields DEF HandlersOK, WorksOn, Messages
  <2>4. row.status \in Results
    BY <2>3 DEF TypeInv, TypeOK, PaymentRows, RowOf, Results
  <2> HIDE DEF row, step
  <2>5. step \in HandlerSteps /\ Fits(step, msg[h], row.status)
    BY <2>1, <2>2 DEF HandlerSteps, Fits
  <2>6. QED
    BY <1>2, <2>2, <2>4, <2>5
<1>16. ASSUME NEW h \in Handlers, Deliver(h)
       PROVE  Goal
  <2>1. PICK step \in {"mark_sent", "retry", "reject"} :
          pc[h] = "deliver" /\ Goto(h, step) /\ UNCHANGED result
    BY <1>16 DEF Deliver, At
  <2>2. step \in HandlerSteps /\ Fits(step, msg[h], result[h])
    BY <1>1, <2>1 DEF HandlerSteps, Fits, HandlersOK
  <2>3. QED
    BY <1>3, <2>1, <2>2
<1>17. ASSUME NEW h \in Handlers,
              \/ Receive(h) \/ Ack(h) \/ Reject(h)
              \/ RetryOrReject(h) \/ Crash(h)
              \/ TransactionFails(h) \/ LoadRequest(h)
              \/ CallFails(h) \/ PostCharge(h) \/ GetVerdict(h)
              \/ GetAmbiguousOutcome(h) \/ ApplyResult(h)
              \/ MarkUnknown(h) \/ LoadDelivery(h) \/ Deliver(h)
              \/ MarkSent(h)
       PROVE  Goal
  BY ONLY <1>7, <1>8, <1>9, <1>10, <1>11, <1>12, <1>13, <1>14, <1>15, <1>16,
     <1>17
<1>18. Goal
  BY <1>6, <1>17, WritersOfHandlers
<1>19. QED
  BY <1>18 DEF Goal

LEMMA ReconTyped ==
  ASSUME TypeInv, [Next]_vars
  PROVE  recon' \in [Reconcilers -> ReconStates] /\ ReconcilersOK'
<1> DEFINE Goal == recon' \in [Reconcilers -> ReconStates] /\ ReconcilersOK'
<1>1. recon \in [Reconcilers -> ReconStates] /\ ReconcilersOK
  BY DEF TypeInv, TypeOK
<1>2. ASSUME NEW c \in Reconcilers, NEW state \in ReconStates,
             state.step \in {"lookup", "persist"} => state.target \in Payments,
             recon' = [recon EXCEPT ![c] = state]
      PROVE  Goal
  BY <1>1, <1>2 DEF ReconcilersOK
<1>3. ASSUME UNCHANGED recon
      PROVE  Goal
  BY <1>1, <1>3 DEF ReconcilersOK
<1> HIDE DEF Goal
<1>4. Resting \in ReconStates /\ Resting.step = "claim"
  BY DEF Resting, ReconStates
<1>5. ASSUME NEW c \in Reconcilers, ReconcilerCrashes(c)
      PROVE  Goal
  BY <1>2, <1>4, <1>5 DEF ReconcilerCrashes
<1>6. ASSUME NEW c \in Reconcilers, NEW todo \in SUBSET Payments,
             NextPayment(c, todo)
      PROVE  Goal
  <2> DEFINE next == [step |-> "renew", token |-> recon[c].token,
                      todo |-> todo, target |-> None, answer |-> None]
  <2>1. next \in ReconStates
    BY <1>1 DEF ReconStates
  <2>2. recon' = [recon EXCEPT ![c] = Resting]
        \/ recon' = [recon EXCEPT ![c] = next]
    BY <1>6 DEF NextPayment
  <2>3. next.step = "renew"
    OBVIOUS
  <2> HIDE DEF next
  <2>4. QED
    BY <1>2, <1>4, <2>1, <2>2, <2>3
<1>7. ASSUME NEW c \in Reconcilers
      PROVE  recon[c].todo \in SUBSET Payments
  BY <1>1 DEF ReconStates
<1>8. ASSUME NEW c \in Reconcilers, PersistResolution(c) \/ ReconcileFails(c)
      PROVE  Goal
  <2>1. PICK todo \in SUBSET recon[c].todo : NextPayment(c, todo)
    BY <1>8 DEF PersistResolution, ReconcileFails
  <2>2. QED
    BY <1>6, <1>7, <2>1
<1>9. ASSUME NEW c \in Reconcilers, ClaimBatch(c)
      PROVE  Goal
  <2>1. PICK b \in SUBSET Payments, t \in Tokens :
          recon' = [recon EXCEPT ![c] =
            [step |-> "renew", token |-> t, todo |-> b, target |-> None,
             answer |-> None]]
    BY <1>9 DEF ClaimBatch, FreshTokens
  <2> DEFINE state == [step |-> "renew", token |-> t, todo |-> b,
                       target |-> None, answer |-> None]
  <2>2. state \in ReconStates /\ state.step = "renew"
    BY DEF ReconStates
  <2>3. recon' = [recon EXCEPT ![c] = state]
    BY <2>1
  <2> HIDE DEF state
  <2>4. QED
    BY <1>2, <2>2, <2>3
<1>10. ASSUME NEW c \in Reconcilers, RenewClaim(c)
       PROVE  Goal
  <2>1. PICK p \in recon[c].todo, rest \in SUBSET recon[c].todo :
          \/ NextPayment(c, rest)
          \/ recon' = [recon EXCEPT ![c] =
               [@ EXCEPT !.step = "lookup", !.todo = recon[c].todo \ {p},
                         !.target = p]]
    BY <1>10 DEF RenewClaim
  <2>2. NextPayment(c, rest) => Goal
    BY <1>6, <1>7
  <2> DEFINE state == [recon[c] EXCEPT !.step = "lookup",
                         !.todo = recon[c].todo \ {p}, !.target = p]
  <2>3. ASSUME ~NextPayment(c, rest)
        PROVE  Goal
    <3>1. recon' = [recon EXCEPT ![c] = state]
      BY <2>1, <2>3
    <3>2. state \in ReconStates /\ state.target \in Payments
      BY <1>1, <1>7 DEF ReconStates
    <3> HIDE DEF state
    <3>3. QED
      BY <1>2, <3>1, <3>2
  <2>4. QED
    BY <2>2, <2>3
<1>11. ASSUME NEW c \in Reconcilers, LookupProvider(c)
       PROVE  Goal
  <2>1. recon[c].target \in Payments
    BY <1>1, <1>11 DEF ReconcilersOK, LookupProvider
  <2>2. ledger[recon[c].target] \in Verdicts \cup {None}
    BY <2>1 DEF TypeInv, TypeOK
  <2>3. PICK answer \in Verdicts \cup {None} :
          recon' = [recon EXCEPT ![c] =
                      [@ EXCEPT !.step = "persist", !.answer = answer]]
    BY <1>11, <2>2 DEF LookupProvider
  <2> DEFINE state == [recon[c] EXCEPT !.step = "persist", !.answer = answer]
  <2>4. state \in ReconStates /\ state.target \in Payments
    BY <1>1, <2>1 DEF ReconStates
  <2>5. recon' = [recon EXCEPT ![c] = state]
    BY <2>3
  <2> HIDE DEF state
  <2>6. QED
    BY <1>2, <2>4, <2>5
<1>12. Goal
  BY <1>3, <1>5, <1>8, <1>9, <1>10, <1>11, WritersOfRecon
<1>13. QED
  BY <1>12 DEF Goal

LEMMA OutsideTyped ==
  ASSUME TypeInv, [Next]_vars
  PROVE  /\ posted' \in [Payments -> BOOLEAN]
         /\ ledger' \in [Payments -> Verdicts \cup {None}]
         /\ received' \in [Payments -> SUBSET Notices]
<1>1. posted' \in [Payments -> BOOLEAN]
  BY WritersOfPosted DEF TypeInv, TypeOK, PostCharge
<1>2. ledger' \in [Payments -> Verdicts \cup {None}]
  BY WritersOfLedger DEF TypeInv, TypeOK, ProviderDecides
<1>3. received' \in [Payments -> SUBSET Notices]
  <2>1. received \in [Payments -> SUBSET Notices]
    BY DEF TypeInv, TypeOK
  <2>2. ASSUME NEW h \in Handlers, Deliver(h)
        PROVE  received' \in [Payments -> SUBSET Notices]
    <3> DEFINE p == WorksOn(h).payment
               notice == [id |-> WorksOn(h).id, status |-> result[h]]
    <3>1. pc[h] = "deliver"
      BY <2>2 DEF Deliver, At
    <3>2. msg[h] \in Messages /\ result[h] \in Terminal
          /\ msg[h].event.type = "webhook.delivery_requested"
      BY <3>1 DEF TypeInv, HandlersOK
    <3>3. p \in Payments /\ notice \in Notices
      BY <3>2, EventFields DEF Messages, WorksOn, Notices
    <3>4. UNCHANGED received
          \/ received' = [received EXCEPT ![p] = @ \cup {notice}]
      BY <2>2 DEF Deliver
    <3> HIDE DEF p, notice
    <3>5. received[p] \cup {notice} \in SUBSET Notices
      BY <2>1, <3>3
    <3>6. QED
      BY <2>1, <3>3, <3>4, <3>5
  <2>3. QED
    BY <2>1, <2>2, WritersOfReceived
<1>4. QED
  BY <1>1, <1>2, <1>3

\* A step is a fault or counts none.
LEMMA FaultsCount ==
  ASSUME [Next]_vars
  PROVE  UNCHANGED faults \/ Fault
BY DEF Next, RelayStep, HandlerStep, PaymentStep, WebhookStep,
   ReconcilerStep, vars, NoFault, Committed, CreatePayment, ProviderDecides,
   FetchBatch, Publish, CommitBatch, RelayFails, Receive, Ack, Reject,
   RetryOrReject, Crash, TransactionFails, LoadRequest, CallFails,
   PostCharge, GetVerdict, GetAmbiguousOutcome, ApplyResult, MarkUnknown,
   LoadDelivery, Deliver, MarkSent, TtlExpires, ClaimBatch, RenewClaim,
   LookupProvider, PersistResolution, ReconcileFails, ReconcilerCrashes

LEMMA FaultsTyped ==
  ASSUME faults \in 0..MaxFaults, [Next]_vars
  PROVE  faults' \in 0..MaxFaults
BY FaultsCount, BoundsAssumption DEF Fault

-----------------------------------------------------------------------------
LEMMA TypeInvInit == Init => TypeInv
<1> SUFFICES ASSUME Init PROVE TypeInv
  OBVIOUS
<1>1. NoRow \in PaymentRows(WebhookIds, Tokens, Attempts) /\ NoRow.attempts = 0
  <2>1. 0 \in Attempts
    BY BoundsAssumption DEF Attempts
  <2>2. QED
    BY <2>1 DEF NoRow, PaymentRows
<1>2. TypeOK
  BY <1>1, BoundsAssumption
  DEF Init, TypeOK, Resting, ReconStates, HandlerSteps
<1>3. BudgetLeft
  BY <1>1, BoundsAssumption DEF Init, BudgetLeft
<1>4. HandlersOK /\ ReconcilersOK
  BY DEF Init, HandlersOK, ReconcilersOK, Resting
<1>5. QED
  BY <1>2, <1>3, <1>4 DEF TypeInv

LEMMA TypeInvStep == TypeInv /\ [Next]_vars => TypeInv'
<1> SUFFICES ASSUME TypeInv, [Next]_vars PROVE TypeInv'
  OBVIOUS
<1>1. faults' \in 0..MaxFaults
  BY FaultsTyped DEF TypeInv, TypeOK
<1>2. TypeOK'
  BY <1>1, PaymentTyped, OutboxTyped, QueueTyped, BatchesTyped, HandlersTyped,
     ReconTyped, OutsideTyped DEF TypeOK, Rows, Results
<1>3. QED
  BY <1>2, PaymentTyped, HandlersTyped, ReconTyped DEF TypeInv

\* The state always has the declared types; in particular no payment spends
\* more reconciliation attempts than its budget, however many reconcilers
\* share it, and no message is retried beyond MAX_ATTEMPTS.
THEOREM TypeCorrect == Spec => []TypeOK
<1>1. TypeInv => TypeOK
  BY DEF TypeInv
<1>2. QED
  BY <1>1, TypeInvInit, TypeInvStep, PTL DEF Spec
=============================================================================

---------------------------- MODULE PaymentFlow ----------------------------
(***************************************************************************)
(* The life of payments through the whole service: the API inserts a row   *)
(* and an outbox row, relays publish outbox rows to RabbitMQ, the handlers *)
(* of the worker charge the provider and deliver webhooks, the reconcilers *)
(* settle payments whose outcome is unknown.                               *)
(*                                                                         *)
(* One action is one database transaction, one call of an external system  *)
(* or one acknowledgement; between two of them anything else may run, and  *)
(* a crash may strike.  Faults (crashes, failed or uncertain commits and   *)
(* publishes, leases that expire under a live reconciler) draw on a budget *)
(* of MaxFaults.  The provider, the webhook owner and RabbitMQ are modelled *)
(* from how the code uses them.                                            *)
(***************************************************************************)
EXTENDS Naturals, FiniteSets, PaymentRecord

CONSTANTS
  Payments,      \* payment ids
  WebhookIds,    \* the values uuid4() gives webhook events
  Tokens,        \* the values uuid4() gives leases
  Handlers,      \* concurrent invocations of PaymentQueueConsumer.handle
  Relays,        \* OutboxRelay instances, one per worker process
  Reconcilers,   \* PaymentReconciliationWorker instances
  BatchSize,     \* outbox_relay_batch_size
  ClaimSize,     \* payment_reconciliation_batch_size
  ReconciliationMaxAttempts,
  MaxFaults      \* bound: how many faults a behaviour may contain

ASSUME NoneAssumption == None \notin WebhookIds \cup Tokens
ASSUME BoundsAssumption ==
  /\ BatchSize \in Nat \ {0}
  /\ ClaimSize \in Nat \ {0}
  /\ ReconciliationMaxAttempts \in Nat \ {0}
  /\ MaxFaults \in Nat

MaxAttempts == 3   \* PaymentQueueConsumer.MAX_ATTEMPTS

ProcessEvent(p) ==
  [type |-> "payment.process_requested", payment |-> p, id |-> None]
WebhookEvent(p, w) ==
  [type |-> "webhook.delivery_requested", payment |-> p, id |-> w]

Events == {ProcessEvent(p) : p \in Payments}
            \cup {WebhookEvent(p, w) : p \in Payments, w \in WebhookIds}

\* An envelope: the event and the number of this delivery attempt.
Messages == [event : Events, attempt : 1..MaxAttempts]

Queues == {"payments.new", "payments.retry.1", "payments.retry.2",
           "payments.dlq"}

RetryQueue(attempt) ==
  IF attempt = 2 THEN "payments.retry.1" ELSE "payments.retry.2"

VARIABLES
  payment,   \* table payments: Payments -> row
  outbox,    \* table outbox_events: Events -> absent, unpublished, published
  queue,     \* how many copies of a message each queue holds
  batch,     \* per relay: the rows its open transaction locked, not yet sent
  marked,    \* per relay: the rows it published and will commit as such
  pc,        \* per handler: its next step, "idle" without a message
  msg,       \* per handler: the unacknowledged message it works on
  result,    \* per handler: the provider's verdict, or the status to announce
  recon,     \* per reconciler: its next step and what it holds
  posted,    \* payments a charge request was sent for
  ledger,    \* what the provider decided
  received,  \* what each payment's webhook owner received
  faults     \* faults so far

tables == <<payment, outbox>>
relayVars == <<batch, marked>>
handlerVars == <<pc, msg, result>>
outsideVars == <<posted, ledger, received>>
vars == <<tables, queue, relayVars, handlerVars, recon, outsideVars, faults>>

HandlerSteps == {"idle", "load", "call", "await", "apply", "mark_unknown",
                 "deliver", "mark_sent", "retry", "reject", "ack"}

\* Between two batches a reconciler holds nothing.
Resting == [step |-> "claim", token |-> None, todo |-> {}, target |-> None,
            answer |-> None]

-----------------------------------------------------------------------------
(* The broker's side of a message and the faults.                          *)

Put(q, m) == [queue EXCEPT ![q][m] = @ + 1]
Move(from, to, m) == [queue EXCEPT ![from][m] = @ - 1, ![to][m] = @ + 1]

Fault == faults < MaxFaults /\ faults' = faults + 1
NoFault == UNCHANGED faults

\* Where handler h is, and the event and the row it works on.
At(h, step) == pc[h] = step
WorksOn(h) == msg[h].event
RowOf(h) == payment[WorksOn(h).payment]

Goto(h, step) == /\ pc' = [pc EXCEPT ![h] = step]
                 /\ UNCHANGED msg

\* The message is settled with the broker and the handler is free.
Release(h) == /\ pc' = [pc EXCEPT ![h] = "idle"]
              /\ msg' = [msg EXCEPT ![h] = None]
              /\ result' = [result EXCEPT ![h] = None]

\* After a commit the handler acknowledges, unless the commit's answer is
\* lost: the transaction took effect and still raises.
Committed(h) == \/ Goto(h, "ack") /\ NoFault
                \/ Goto(h, "retry") /\ Fault

-----------------------------------------------------------------------------
Init ==
  /\ payment = [p \in Payments |-> NoRow]
  /\ outbox = [e \in Events |-> "absent"]
  /\ queue = [q \in Queues |-> [m \in Messages |-> 0]]
  /\ batch = [r \in Relays |-> {}]
  /\ marked = [r \in Relays |-> {}]
  /\ pc = [h \in Handlers |-> "idle"]
  /\ msg = [h \in Handlers |-> None]
  /\ result = [h \in Handlers |-> None]
  /\ recon = [c \in Reconcilers |-> Resting]
  /\ posted = [p \in Payments |-> FALSE]
  /\ ledger = [p \in Payments |-> None]
  /\ received = [p \in Payments |-> {}]
  /\ faults = 0

\* POST /payments: the row and its event are inserted in one transaction.
CreatePayment(p) ==
  /\ payment[p].status = "absent"
  /\ payment' = [payment EXCEPT ![p] = NewPayment]
  /\ outbox' = [outbox EXCEPT ![ProcessEvent(p)] = "unpublished"]
  /\ UNCHANGED <<queue, relayVars, handlerVars, recon, outsideVars, faults>>

-----------------------------------------------------------------------------
(* OutboxRelay.process_batch: one transaction that locks rows, publishes   *)
(* each and commits them as published.                                     *)

Locked(r) == batch[r] \cup marked[r]

\* Mutant of FetchBatch: the rows are read without a lock.
FetchUnlocked(r) ==
  LET available == {e \in Events : outbox[e] = "unpublished"}
  IN  /\ Locked(r) = {}
      /\ \E b \in SUBSET available :
           /\ b # {}
           /\ Cardinality(b) <= BatchSize
           /\ b # available => Cardinality(b) = BatchSize
           /\ batch' = [batch EXCEPT ![r] = b]
      /\ UNCHANGED <<tables, queue, marked, handlerVars, recon, outsideVars,
                     faults>>

\* Rows locked by another relay are skipped.  Which rows are the oldest is
\* not modelled: any BatchSize of the available ones are taken.
FetchBatch(r) ==
  LET available == {e \in Events : /\ outbox[e] = "unpublished"
                                   /\ \A s \in Relays : e \notin Locked(s)}
  IN  /\ Locked(r) = {}
      /\ \E b \in SUBSET available :
           /\ b # {}
           /\ Cardinality(b) <= BatchSize
           /\ b # available => Cardinality(b) = BatchSize
           /\ batch' = [batch EXCEPT ![r] = b]
      /\ UNCHANGED <<tables, queue, marked, handlerVars, recon, outsideVars,
                     faults>>

Publish(r) ==
  \E e \in batch[r] :
    /\ queue' = Put("payments.new", [event |-> e, attempt |-> 1])
    /\ batch' = [batch EXCEPT ![r] = @ \ {e}]
    /\ marked' = [marked EXCEPT ![r] = @ \cup {e}]
    /\ UNCHANGED <<tables, handlerVars, recon, outsideVars, faults>>

\* Mutant of CommitBatch: published_at set on every unpublished row, not on
\* those of the batch.
CommitEverything(r) ==
  /\ batch[r] = {}
  /\ marked[r] # {}
  /\ outbox' = [e \in Events |->
       IF outbox[e] = "unpublished" THEN "published" ELSE outbox[e]]
  /\ marked' = [marked EXCEPT ![r] = {}]
  /\ UNCHANGED <<payment, queue, batch, handlerVars, recon, outsideVars,
                 faults>>

CommitBatch(r) ==
  /\ batch[r] = {}
  /\ marked[r] # {}
  /\ outbox' = [e \in Events |-> IF e \in marked[r] THEN "published"
                                                    ELSE outbox[e]]
  /\ marked' = [marked EXCEPT ![r] = {}]
  /\ UNCHANGED <<payment, queue, batch, handlerVars, recon, outsideVars,
                 faults>>

\* Mutant of RelayFails: the rows are committed as published before they are
\* sent, so that a failed publish no longer takes the mark back.
FailAfterCommit(r) ==
  /\ Locked(r) # {}
  /\ outbox' = [e \in Events |-> IF e \in Locked(r) THEN "published"
                                                    ELSE outbox[e]]
  /\ batch' = [batch EXCEPT ![r] = {}]
  /\ marked' = [marked EXCEPT ![r] = {}]
  /\ Fault
  /\ UNCHANGED <<payment, queue, handlerVars, recon, outsideVars>>

\* A publish or a commit raises, or the process dies: the transaction rolls
\* back, with what it already published.  A publish that raises after the
\* broker took the message is Publish followed by this step; a commit that
\* raises after it took effect is CommitBatch.
RelayFails(r) ==
  /\ Locked(r) # {}
  /\ batch' = [batch EXCEPT ![r] = {}]
  /\ marked' = [marked EXCEPT ![r] = {}]
  /\ Fault
  /\ UNCHANGED <<tables, queue, handlerVars, recon, outsideVars>>

-----------------------------------------------------------------------------
(* PaymentQueueConsumer.handle: taking a message and settling it.          *)

Receive(h) ==
  /\ At(h, "idle")
  /\ \E m \in Messages :
       /\ queue["payments.new"][m] > 0
       /\ queue' = [queue EXCEPT !["payments.new"][m] = @ - 1]
       /\ msg' = [msg EXCEPT ![h] = m]
  /\ pc' = [pc EXCEPT ![h] = "load"]
  /\ UNCHANGED <<tables, relayVars, result, recon, outsideVars, faults>>

Ack(h) ==
  /\ At(h, "ack")
  /\ Release(h)
  /\ UNCHANGED <<tables, queue, relayVars, recon, outsideVars, faults>>

\* reject() without requeue: payments.new dead-letters to payments.dlq.
Reject(h) ==
  /\ At(h, "reject")
  /\ queue' = Put("payments.dlq", msg[h])
  /\ Release(h)
  /\ UNCHANGED <<tables, relayVars, recon, outsideVars, faults>>

\* _retry_or_reject.  When the publish of the copy raises, the message is
\* nacked and requeued; the broker may have taken the copy all the same.
RetryOrReject(h) ==
  LET m == msg[h]
      copy == [m EXCEPT !.attempt = @ + 1]
      retried == Put(RetryQueue(m.attempt + 1), copy)
  IN  /\ At(h, "retry")
      /\ \/ /\ m.attempt >= MaxAttempts
            /\ queue' = Put("payments.dlq", m)
            /\ Release(h)
            /\ NoFault
         \/ /\ m.attempt < MaxAttempts
            /\ queue' = retried
            /\ Goto(h, "ack")
            /\ NoFault
            /\ UNCHANGED result
         \/ /\ m.attempt < MaxAttempts
            /\ Fault
            /\ \/ queue' = Put("payments.new", m)
               \/ queue' = [retried EXCEPT !["payments.new"][m] = @ + 1]
            /\ Release(h)
      /\ UNCHANGED <<tables, relayVars, recon, outsideVars>>

\* Mutant of Crash: the queue is consumed with automatic acknowledgement.
CrashAfterAck(h) ==
  /\ ~At(h, "idle")
  /\ Fault
  /\ Release(h)
  /\ UNCHANGED <<tables, queue, relayVars, recon, outsideVars>>

\* The worker dies or loses its connection: the broker redelivers what was
\* not acknowledged.
Crash(h) ==
  /\ ~At(h, "idle")
  /\ Fault
  /\ queue' = Put("payments.new", msg[h])
  /\ Release(h)
  /\ UNCHANGED <<tables, relayVars, recon, outsideVars>>

\* The time to live of a retry queue ends: its message goes back to work.
TtlExpires(q) ==
  /\ q \in {"payments.retry.1", "payments.retry.2"}
  /\ \E m \in Messages :
       /\ queue[q][m] > 0
       /\ queue' = Move(q, "payments.new", m)
  /\ UNCHANGED <<tables, relayVars, handlerVars, recon, outsideVars, faults>>

\* A transaction of a handler fails and rolls back: an unexpected exception.
TransactionFails(h) ==
  /\ pc[h] \in {"load", "apply", "mark_unknown", "mark_sent"}
  /\ Goto(h, "retry")
  /\ Fault
  /\ UNCHANGED <<tables, queue, relayVars, result, recon, outsideVars>>

-----------------------------------------------------------------------------
(* PaymentEventProcessor.process                                           *)

LoadRequest(h) ==
  /\ At(h, "load")
  /\ WorksOn(h).type = "payment.process_requested"
  /\ Goto(h, CASE RowOf(h).status = "absent"  -> "reject"
               [] RowOf(h).status = "pending" -> "call"
               [] OTHER                       -> "ack")
  /\ UNCHANGED <<tables, queue, relayVars, result, recon, outsideVars, faults>>

\* The breaker refuses, no connection is made, or the answer is a 429 or 503:
\* unavailable, to be retried; or another 4xx, for good.  Nothing is assumed
\* of what a provider did that answers so.
CallFails(h) ==
  /\ At(h, "call") \/ At(h, "await")
  /\ Goto(h, "retry") \/ Goto(h, "reject")
  /\ UNCHANGED <<tables, queue, relayVars, result, recon, outsideVars, faults>>

PostCharge(h) ==
  /\ At(h, "call")
  /\ posted' = [posted EXCEPT ![WorksOn(h).payment] = TRUE]
  /\ Goto(h, "await")
  /\ UNCHANGED <<tables, queue, relayVars, result, recon, ledger, received,
                 faults>>

\* 200 with a well-formed body: the provider's verdict under this payment's
\* idempotency key.
GetVerdict(h) ==
  /\ At(h, "await")
  /\ ledger[WorksOn(h).payment] # None
  /\ result' = [result EXCEPT ![h] = ledger[WorksOn(h).payment]]
  /\ Goto(h, "apply")
  /\ UNCHANGED <<tables, queue, relayVars, recon, outsideVars, faults>>

\* Mutant of GetAmbiguousOutcome: an outcome that is not "approved" counts as
\* "declined".
AmbiguousIsDeclined(h) ==
  /\ At(h, "call") \/ At(h, "await")
  /\ result' = [result EXCEPT ![h] = "declined"]
  /\ Goto(h, "apply")
  /\ UNCHANGED <<tables, queue, relayVars, recon, outsideVars, faults>>

\* A read timeout, a broken connection, a 5xx or a malformed body: the
\* request may have been processed, or may still be.  The time budget covers
\* connecting too: when it ends there, nothing was sent, and the outcome is
\* called ambiguous all the same.
GetAmbiguousOutcome(h) ==
  /\ At(h, "call") \/ At(h, "await")
  /\ Goto(h, "mark_unknown")
  /\ UNCHANGED <<tables, queue, relayVars, result, recon, outsideVars, faults>>

\* Ids no outbox row has: uuid4() never repeats.
FreshWebhookIds ==
  {w \in WebhookIds : \A p \in Payments : outbox[WebhookEvent(p, w)] = "absent"}

\* Mutant of Settle: the row and the event each call uuid4().
SettleWithTwoIds(p, verdict) ==
  \E w, x \in FreshWebhookIds :
    /\ payment' = [payment EXCEPT ![p] = Resolved(@, verdict, w)]
    /\ outbox' = [outbox EXCEPT ![WebhookEvent(p, x)] = "unpublished"]

\* The one transaction that settles p: its row and its webhook event.
Settle(p, verdict) ==
  \E w \in FreshWebhookIds :
    /\ payment' = [payment EXCEPT ![p] = Resolved(@, verdict, w)]
    /\ outbox' = [outbox EXCEPT ![WebhookEvent(p, w)] = "unpublished"]

\* Mutant of ApplyResult: no second look at the status under the row lock.
ApplyUnguarded(h) ==
  /\ At(h, "apply")
  /\ RowOf(h).status # "absent"
  /\ Settle(WorksOn(h).payment, result[h])
  /\ Committed(h)
  /\ UNCHANGED <<queue, relayVars, result, recon, outsideVars>>

ApplyResult(h) ==
  /\ At(h, "apply")
  /\ \/ /\ RowOf(h).status = "pending"
        /\ Settle(WorksOn(h).payment, result[h])
        /\ Committed(h)
     \/ /\ RowOf(h).status # "pending"
        /\ Goto(h, IF RowOf(h).status = "absent" THEN "reject" ELSE "ack")
        /\ UNCHANGED <<tables, faults>>
  /\ UNCHANGED <<queue, relayVars, result, recon, outsideVars>>

\* Mutant of MarkUnknown: no second look at the status under the row lock.
MarkUnknownUnguarded(h) ==
  /\ At(h, "mark_unknown")
  /\ RowOf(h).status # "absent"
  /\ payment' = [payment EXCEPT ![WorksOn(h).payment].status = "unknown"]
  /\ Committed(h)
  /\ UNCHANGED <<outbox, queue, relayVars, result, recon, outsideVars>>

MarkUnknown(h) ==
  /\ At(h, "mark_unknown")
  /\ \/ /\ RowOf(h).status = "pending"
        /\ payment' = [payment EXCEPT ![WorksOn(h).payment].status = "unknown"]
        /\ Committed(h)
     \/ /\ RowOf(h).status # "pending"
        /\ Goto(h, IF RowOf(h).status = "absent" THEN "reject" ELSE "ack")
        /\ UNCHANGED <<payment, faults>>
  /\ UNCHANGED <<outbox, queue, relayVars, result, recon, outsideVars>>

-----------------------------------------------------------------------------
(* WebhookEventProcessor.process                                           *)

LoadDelivery(h) ==
  /\ At(h, "load")
  /\ WorksOn(h).type = "webhook.delivery_requested"
  /\ Goto(h, CASE RowOf(h).webhook_sent                        -> "ack"
               [] ~RowOf(h).webhook_sent
                  /\ WebhookMatches(RowOf(h), WorksOn(h).id)   -> "deliver"
               [] OTHER                                        -> "reject")
  /\ result' = [result EXCEPT ![h] = RowOf(h).status]
  /\ UNCHANGED <<tables, queue, relayVars, recon, outsideVars, faults>>

\* Mutant of Deliver: the status code of the response is not looked at.
DeliverUnchecked(h) ==
  LET p == WorksOn(h).payment
      notice == [id |-> WorksOn(h).id, status |-> result[h]]
  IN  /\ At(h, "deliver")
      /\ \/ received' = [received EXCEPT ![p] = @ \cup {notice}]
         \/ UNCHANGED received
      /\ Goto(h, "mark_sent")
      /\ UNCHANGED <<tables, queue, relayVars, result, recon, posted, ledger,
                     faults>>

\* The POST to the webhook's URL.  With a 2xx it was received; with a
\* retryable failure (transport, 408, 429, 5xx) it may have been.
Deliver(h) ==
  LET p == WorksOn(h).payment
      notice == [id |-> WorksOn(h).id, status |-> result[h]]
      arrives == received' = [received EXCEPT ![p] = @ \cup {notice}]
      isLost == UNCHANGED received
  IN  /\ At(h, "deliver")
      /\ \/ arrives /\ Goto(h, "mark_sent")
         \/ (arrives \/ isLost) /\ Goto(h, "retry")
         \/ isLost /\ Goto(h, "reject")
      /\ UNCHANGED <<tables, queue, relayVars, result, recon, posted, ledger,
                     faults>>

MarkSent(h) ==
  /\ At(h, "mark_sent")
  /\ \/ /\ ~RowOf(h).webhook_sent
        /\ WebhookMatches(RowOf(h), WorksOn(h).id)
        /\ payment' = [payment EXCEPT ![WorksOn(h).payment].webhook_sent = TRUE]
        /\ Committed(h)
     \/ /\ RowOf(h).webhook_sent \/ ~WebhookMatches(RowOf(h), WorksOn(h).id)
        /\ Goto(h, IF RowOf(h).webhook_sent THEN "ack" ELSE "reject")
        /\ UNCHANGED <<payment, faults>>
  /\ UNCHANGED <<outbox, queue, relayVars, result, recon, outsideVars>>

-----------------------------------------------------------------------------
(* The payment provider: a request under an idempotency key is decided at  *)
(* most once, possibly long after the client stopped waiting, or never.    *)

ProviderDecides(p) ==
  /\ posted[p]
  /\ ledger[p] = None
  /\ \E v \in Verdicts : ledger' = [ledger EXCEPT ![p] = v]
  /\ UNCHANGED <<tables, queue, relayVars, handlerVars, recon, posted, received,
                 faults>>

-----------------------------------------------------------------------------
(* PaymentReconciliationWorker.process_batch.  Time is abstracted: a lease *)
(* nobody works under any more may be taken over, one whose reconciler is  *)
(* alive and slow may run out at the cost of a fault.                      *)

Holds(c, p) == /\ recon[c].token # None
               /\ payment[p].lease_token = recon[c].token
               /\ p \in recon[c].todo \cup {recon[c].target}

FreshTokens == {t \in Tokens : /\ \A p \in Payments : payment[p].lease_token # t
                               /\ \A c \in Reconcilers : recon[c].token # t}

\* _claim_batch: one transaction, a new token on every row of the batch.
ClaimBatch(c) ==
  LET available == {p \in Payments : Reconcilable(payment[p])}
  IN  /\ recon[c].step = "claim"
      /\ \E b \in SUBSET available, t \in FreshTokens :
           /\ b # {}
           /\ Cardinality(b) <= ClaimSize
           /\ payment' = [p \in Payments |->
                IF p \in b THEN [payment[p] EXCEPT !.lease_token = t]
                           ELSE payment[p]]
           /\ recon' = [recon EXCEPT ![c] =
                [step |-> "renew", token |-> t, todo |-> b, target |-> None,
                 answer |-> None]]
           /\ IF \E d \in Reconcilers, p \in b : Holds(d, p) THEN Fault
                                                             ELSE NoFault
      /\ UNCHANGED <<outbox, queue, relayVars, handlerVars, outsideVars>>

\* The loop of process_batch: on with the next payment, or the batch is done.
NextPayment(c, todo) ==
  recon' = [recon EXCEPT ![c] =
    IF todo = {} THEN Resting
    ELSE [step |-> "renew", token |-> @.token, todo |-> todo, target |-> None,
          answer |-> None]]

Renewable(c, p) == /\ Reconcilable(payment[p])
                   /\ payment[p].lease_token = recon[c].token

RenewClaim(c) ==
  /\ recon[c].step = "renew"
  /\ \E p \in recon[c].todo :
       IF Renewable(c, p)
         THEN recon' = [recon EXCEPT ![c] =
                [@ EXCEPT !.step = "lookup", !.todo = recon[c].todo \ {p},
                          !.target = p]]
         ELSE NextPayment(c, recon[c].todo \ {p})
  /\ UNCHANGED <<tables, queue, relayVars, handlerVars, outsideVars, faults>>

\* Mutant of LookupProvider: the answer may be another payment's.
LookupAnyPayment(c) ==
  /\ recon[c].step = "lookup"
  /\ \E answer \in {None} \cup {ledger[p] : p \in Payments} :
       recon' = [recon EXCEPT ![c] =
                   [@ EXCEPT !.step = "persist", !.answer = answer]]
  /\ UNCHANGED <<tables, queue, relayVars, handlerVars, outsideVars, faults>>

\* _lookup_provider: None stands for a 404, an error or an open breaker.
LookupProvider(c) ==
  /\ recon[c].step = "lookup"
  /\ \E answer \in {None, ledger[recon[c].target]} :
       recon' = [recon EXCEPT ![c] =
                   [@ EXCEPT !.step = "persist", !.answer = answer]]
  /\ UNCHANGED <<tables, queue, relayVars, handlerVars, outsideVars, faults>>

\* Mutant of PersistResolution: the row is found by its id alone.
PersistUnfenced(c) ==
  LET p == recon[c].target
  IN  /\ recon[c].step = "persist"
      /\ IF recon[c].answer = None
           THEN /\ payment' = [payment EXCEPT ![p] =
                     Unresolved(@, ReconciliationMaxAttempts)]
                /\ UNCHANGED outbox
           ELSE Settle(p, recon[c].answer)
      /\ NextPayment(c, recon[c].todo)
      /\ UNCHANGED <<queue, relayVars, handlerVars, outsideVars, faults>>

\* _persist_resolution, fenced by the lease token.
PersistResolution(c) ==
  LET p == recon[c].target
  IN  /\ recon[c].step = "persist"
      /\ IF ~Renewable(c, p)
           THEN UNCHANGED tables
           ELSE IF recon[c].answer = None
             THEN /\ payment' = [payment EXCEPT ![p] =
                       Unresolved(@, ReconciliationMaxAttempts)]
                  /\ UNCHANGED outbox
             ELSE Settle(p, recon[c].answer)
      /\ NextPayment(c, recon[c].todo)
      /\ UNCHANGED <<queue, relayVars, handlerVars, outsideVars, faults>>

\* One payment's turn is given up: its lease ran out, or a transaction or
\* the lookup raised and process_batch goes on with the next payment.
ReconcileFails(c) ==
  /\ recon[c].step # "claim"
  /\ \/ recon[c].step = "renew" /\ \E p \in recon[c].todo :
                                     NextPayment(c, recon[c].todo \ {p})
     \/ recon[c].step # "renew" /\ NextPayment(c, recon[c].todo)
  /\ Fault
  /\ UNCHANGED <<tables, queue, relayVars, handlerVars, outsideVars>>

ReconcilerCrashes(c) ==
  /\ recon[c].step # "claim"
  /\ recon' = [recon EXCEPT ![c] = Resting]
  /\ Fault
  /\ UNCHANGED <<tables, queue, relayVars, handlerVars, outsideVars>>

-----------------------------------------------------------------------------
RelayStep(r) == FetchBatch(r) \/ Publish(r) \/ CommitBatch(r)

PaymentStep(h) ==
  \/ LoadRequest(h) \/ CallFails(h) \/ PostCharge(h) \/ GetVerdict(h)
  \/ GetAmbiguousOutcome(h) \/ ApplyResult(h) \/ MarkUnknown(h)

WebhookStep(h) == LoadDelivery(h) \/ Deliver(h) \/ MarkSent(h)

HandlerStep(h) == \/ Receive(h) \/ Ack(h) \/ Reject(h) \/ RetryOrReject(h)
                  \/ PaymentStep(h) \/ WebhookStep(h)

ReconcilerStep(c) == \/ ClaimBatch(c) \/ RenewClaim(c) \/ LookupProvider(c)
                     \/ PersistResolution(c)

Next ==
  \/ \E p \in Payments : CreatePayment(p) \/ ProviderDecides(p)
  \/ \E r \in Relays : RelayStep(r) \/ RelayFails(r)
  \/ \E h \in Handlers : HandlerStep(h) \/ TransactionFails(h) \/ Crash(h)
  \/ \E q \in Queues : TtlExpires(q)
  \/ \E c \in Reconcilers :
       ReconcilerStep(c) \/ ReconcileFails(c) \/ ReconcilerCrashes(c)

Spec == Init /\ [][Next]_vars

\* The polling loops run for ever, the event loop runs every task that is
\* ready, every await on a peer ends (httpx's timeouts are per read, so that
\* this is assumed of lookups and webhooks), and RabbitMQ delivers and expires
\* messages.  Clients, the provider and faults are under no obligation.
Fairness ==
  /\ \A r \in Relays : WF_vars(RelayStep(r))
  /\ \A h \in Handlers : WF_vars(HandlerStep(h))
  /\ \A q \in Queues : WF_vars(TtlExpires(q))
  /\ \A c \in Reconcilers : WF_vars(ReconcilerStep(c))

FairSpec == Spec /\ Fairness

-----------------------------------------------------------------------------
(* Correctness.                                                            *)

Attempts == 0..ReconciliationMaxAttempts

Notices == [id : WebhookIds, status : Terminal]

ReconStates ==
  [step : {"claim", "renew", "lookup", "persist"}, token : Tokens \cup {None},
   todo : SUBSET Payments, target : Payments \cup {None},
   answer : Verdicts \cup {None}]

\* The values every variable takes; a row's reconciliation attempts never
\* exceed the budget.
TypeOK ==
  /\ payment \in [Payments -> PaymentRows(WebhookIds, Tokens, Attempts)]
  /\ outbox \in [Events -> {"absent", "unpublished", "published"}]
  /\ queue \in [Queues -> [Messages -> Nat]]
  /\ batch \in [Relays -> SUBSET Events]
  /\ marked \in [Relays -> SUBSET Events]
  /\ pc \in [Handlers -> HandlerSteps]
  /\ msg \in [Handlers -> Messages \cup {None}]
  /\ result \in [Handlers -> Verdicts \cup PaymentStatus \cup {"absent", None}]
  /\ recon \in [Reconcilers -> ReconStates]
  /\ posted \in [Payments -> BOOLEAN]
  /\ ledger \in [Payments -> Verdicts \cup {None}]
  /\ received \in [Payments -> SUBSET Notices]
  /\ faults \in 0..MaxFaults

\* A copy of the event is in a queue, or with a handler that has not yet
\* done what will let it acknowledge.
Carried(e) ==
  \/ \E q \in Queues, m \in Messages : m.event = e /\ queue[q][m] > 0
  \/ \E h \in Handlers : pc[h] \notin {"idle", "ack"} /\ msg[h].event = e

\* Where copies of the event wait or are worked on: queues and handlers.
Places(e) ==
  {s \in Queues \X Messages : s[2].event = e /\ queue[s[1]][s[2]] > 0}
    \cup {"handler"} \X {h \in Handlers : /\ pc[h] \notin {"idle", "ack"}
                                         /\ msg[h].event = e}

\* What the event asks for is done.
Done(e) == IF e.type = "payment.process_requested"
             THEN payment[e.payment].status \notin {"absent", "pending"}
             ELSE payment[e.payment].webhook_sent

\* No work is lost, whatever crashes, retries and rollbacks happen: an event
\* once committed with its payment is still to be published, or is carried by
\* the broker (the dead letter queue included), or has been done.
NothingLost ==
  \A e \in Events : outbox[e] # "absent" =>
    outbox[e] = "unpublished" \/ Carried(e) \/ Done(e)

\* Duplicates come of faults only.  While none has struck, relays that fetch at
\* the same time, retries and their acknowledgements leave an event in one
\* place: in the outbox, which no copy has left, or as one copy in one queue or
\* with one handler.
DuplicatesNeedFaults ==
  faults = 0 =>
    \A e \in Events :
      /\ \A x, y \in Places(e) : x = y
      /\ \A q \in Queues, m \in Messages : m.event = e => queue[q][m] <= 1
      /\ outbox[e] = "unpublished" /\ (\A r \in Relays : e \notin marked[r])
           => Places(e) = {}

\* A settled payment has exactly one webhook event, the one its row names,
\* and no other payment has any: concurrent handlers and reconcilers that
\* each got a verdict never announce the same payment twice.
OneWebhookEvent ==
  \A p \in Payments :
    {w \in WebhookIds : outbox[WebhookEvent(p, w)] # "absent"} =
      IF payment[p].status \in Terminal THEN {payment[p].webhook_event_id}
                                        ELSE {}

\* Every notice a webhook owner gets, duplicates included, carries the one id
\* and the final status of its payment, so that it can be deduplicated by
\* X-Webhook-Id; and the row says sent only when one was received.
NoticesAgree ==
  \A p \in Payments :
    /\ \A n \in received[p] :
         n = [id |-> payment[p].webhook_event_id, status |-> payment[p].status]
    /\ payment[p].webhook_sent => received[p] # {}

\* The guards of _load_delivery and _mark_sent that dead-letter a webhook
\* message (no row, not terminal, another webhook_event_id) never fire.
WebhookNeverRefused ==
  \A h \in Handlers :
    (pc[h] \in {"load", "deliver", "mark_sent"}
       /\ WorksOn(h).type = "webhook.delivery_requested")
    => WebhookMatches(RowOf(h), WorksOn(h).id)

\* Late handlers and reconcilers, still holding a verdict or an ambiguous
\* outcome, never touch a row that is settled (but to mark its webhook sent)
\* or that was given to manual review.
SettledRowsStay ==
  [][\A p \in Payments :
       /\ payment[p].status \in Terminal =>
            payment'[p] \in {payment[p],
                             [payment[p] EXCEPT !.webhook_sent = TRUE]}
       /\ payment[p].manual_review => payment'[p] = payment[p]]_vars

\* The service keeps the contract of PaymentContract.
Contract == INSTANCE PaymentContract WITH
  shown <- [p \in Payments |-> ToPublicStatus(payment[p].status)],
  verdict <- ledger,
  told <- [p \in Payments |-> {n.status : n \in received[p]}],
  notified <- [p \in Payments |-> payment[p].webhook_sent]

\* What clients, the provider and webhook owners see is a behaviour of the
\* contract: the API shows nothing but the provider's decision, the webhook
\* tells nothing but what the API shows, and counts as sent when received.
KeepsContract == Contract!ContractSpec

\* The leases of reconciliation, as LeaseContract has them.
Stage(row) == IF row.status \in {"absent", "pending"} THEN "early"
              ELSE IF Reconcilable(row) THEN "open" ELSE "closed"

Leases == INSTANCE LeaseContract WITH
  Workers <- Reconcilers,
  MaxAttempts <- ReconciliationMaxAttempts,
  job <- [p \in Payments |->
           [stage |-> Stage(payment[p]), spent |-> payment[p].attempts,
            holder |-> payment[p].lease_token]],
  token <- [c \in Reconcilers |-> recon[c].token]

\* Reconcilers, among handlers that settle the same payments, treat leases as
\* Reconciliation's do: an attempt has a token of its own, and only the worker
\* whose token the row carries writes what came of it.
KeepsLeases == Leases!LeaseSpec

\* The safety core of EveryPaymentSettles: a payment that is not at rest is in
\* somebody's hands.  A pending one has its request in the outbox or under
\* way, a settled one its webhook until that is sent, an unknown one attempts
\* of the reconcilers, or manual review as soon as they are spent.
NobodyForgotten ==
  \A p \in Payments :
    LET row == payment[p]
        Awaits(e) == outbox[e] = "unpublished" \/ Carried(e)
    IN  /\ row.status = "pending" => Awaits(ProcessEvent(p))
        /\ row.status \in Terminal =>
             row.webhook_sent \/ Awaits(WebhookEvent(p, row.webhook_event_id))
        /\ row.manual_review <=> row.attempts = ReconciliationMaxAttempts

DeadLettered(e) == \E m \in Messages :
                     m.event = e /\ queue["payments.dlq"][m] > 0

\* Where a payment may rest: settled with its webhook sent or dead-lettered,
\* pending with its request dead-lettered, or in manual review.
AtRest(p) ==
  CASE payment[p].status \in Terminal ->
         \/ payment[p].webhook_sent
         \/ DeadLettered(WebhookEvent(p, payment[p].webhook_event_id))
    [] payment[p].status = "pending" -> DeadLettered(ProcessEvent(p))
    [] payment[p].status = "unknown" -> payment[p].manual_review
    [] OTHER -> TRUE

\* Every accepted payment comes to rest and stays there: none is forgotten in
\* a queue, under a lease or in the outbox.
EveryPaymentSettles == \A p \in Payments : <>[]AtRest(p)

\* README: "after a confirmed result the payment becomes succeeded or failed".
\* A handler that got the provider's verdict has a confirmed result.
ConfirmedResultIsStored ==
  \A p \in Payments :
    (\E h \in Handlers : pc[h] = "apply" /\ msg[h].event = ProcessEvent(p))
      ~> payment[p].status \in Terminal
=============================================================================

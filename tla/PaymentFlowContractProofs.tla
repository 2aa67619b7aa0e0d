--------------------- MODULE PaymentFlowContractProofs ---------------------
(***************************************************************************)
(* Proofs that PaymentFlow tells the truth: what it charges, stores and    *)
(* announces is what the provider decided, and the whole of it implements  *)
(* PaymentContract.                                                        *)
(***************************************************************************)
EXTENDS PaymentFlowSafetyProofs

-----------------------------------------------------------------------------
(* The invariant.                                                          *)

\* An event is under way only once it was committed with its payment.
RelaysKnow ==
  \A r \in Relays : \A e \in Locked(r) : outbox[e] # "absent"

QueuesKnow ==
  \A q \in Queues, m \in Messages : queue[q][m] > 0 => outbox[m.event] # "absent"

\* What a handler may rely on at each step.
HandlerKnows(h) ==
  LET p == WorksOn(h).payment
  IN  /\ pc[h] # "idle" => outbox[WorksOn(h)] # "absent"
      /\ pc[h] \in {"call", "await", "apply", "mark_unknown"} =>
           payment[p].status # "absent"
      /\ pc[h] = "apply" => result[h] = ledger[p] /\ ledger[p] # None
      /\ pc[h] \in {"deliver", "mark_sent"} => result[h] = payment[p].status
      /\ pc[h] = "mark_sent" => received[p] # {}

\* A reconciler writes the answer it got for the payment it asked about.
ReconcilerKnows(c) ==
  (recon[c].step = "persist" /\ recon[c].answer # None)
    => recon[c].answer = ledger[recon[c].target]

\* Only a row that is there is charged, and what settled it is what the
\* provider decided.
RowKnows(p) ==
  /\ posted[p] => payment[p].status # "absent"
  /\ payment[p].status \in Terminal =>
       ledger[p] # None /\ payment[p].status = StatusFor(ledger[p])

TruthInv ==
  /\ RelaysKnow
  /\ QueuesKnow
  /\ \A h \in Handlers : HandlerKnows(h)
  /\ \A c \in Reconcilers : ReconcilerKnows(c)
  /\ \A p \in Payments : RowKnows(p)
  /\ OneWebhookEvent
  /\ NoticesAgree

LEMMA TruthInit == Init => TruthInv
BY DEF Init, TruthInv, RelaysKnow, QueuesKnow, HandlerKnows, ReconcilerKnows,
   RowKnows, OneWebhookEvent, NoticesAgree, Locked, Resting, NoRow, Terminal,
   Events

-----------------------------------------------------------------------------
(* What a step may change of the rest of the state, one payment, one event *)
(* and one handler at a time.                                              *)

\* What was committed, sent, decided or received stays so.
LEMMA PastStays ==
  ASSUME TypeInv, [Next]_vars
  PROVE  /\ \A e \in Events : outbox[e] # "absent" => outbox'[e] # "absent"
         /\ \A p \in Payments : ledger[p] # None => ledger'[p] = ledger[p]
         /\ \A p \in Payments : received[p] \subseteq received'[p]
<1>1. ASSUME NEW e \in Events, outbox[e] # "absent"
      PROVE  outbox'[e] # "absent"
  <2>1. outbox \in [Events -> {"absent", "unpublished", "published"}]
    BY DEF TypeInv, TypeOK
  <2>2. ASSUME NEW r \in Relays, CommitBatch(r)
        PROVE  outbox'[e] # "absent"
    BY <1>1, <2>2 DEF CommitBatch
  <2>3. ASSUME NEW d \in Events, outbox' = [outbox EXCEPT ![d] = "unpublished"]
        PROVE  outbox'[e] # "absent"
    BY <1>1, <2>1, <2>3
  <2>4. ASSUME NEW p \in Payments, CreatePayment(p)
        PROVE  outbox'[e] # "absent"
    BY <2>3, <2>4, EventsExist DEF CreatePayment
  <2>5. ASSUME NEW p \in Payments, NEW v, Settle(p, v)
        PROVE  outbox'[e] # "absent"
    <3>1. PICK w \in WebhookIds :
            outbox' = [outbox EXCEPT ![WebhookEvent(p, w)] = "unpublished"]
      BY <2>5 DEF Settle, FreshWebhookIds
    <3>2. QED
      BY <2>3, <3>1, EventsExist
  <2>6. ASSUME NEW h \in Handlers, ApplyResult(h)
        PROVE  outbox'[e] # "absent"
    <3>1. WorksOn(h).payment \in Payments
      BY <2>6, BusyHandler DEF ApplyResult, At
    <3>2. QED
      BY <1>1, <2>5, <2>6, <3>1 DEF ApplyResult, tables
  <2>7. ASSUME NEW c \in Reconcilers, PersistResolution(c)
        PROVE  outbox'[e] # "absent"
    <3>1. recon[c].target \in Payments
      BY <2>7 DEF PersistResolution, TypeInv, ReconcilersOK
    <3>2. QED
      BY <1>1, <2>5, <2>7, <3>1 DEF PersistResolution, tables
  <2>8. QED
    BY <1>1, <2>2, <2>4, <2>6, <2>7, WritersOfOutbox
<1>2. ASSUME NEW p \in Payments, ledger[p] # None
      PROVE  ledger'[p] = ledger[p]
  BY <1>2, WritersOfLedger DEF ProviderDecides, TypeInv, TypeOK
<1>3. ASSUME NEW p \in Payments
      PROVE  received[p] \subseteq received'[p]
  <2>1. ASSUME NEW h \in Handlers, Deliver(h)
        PROVE  received[p] \subseteq received'[p]
    <3>1. received \in [Payments -> SUBSET Notices]
      BY DEF TypeInv, TypeOK
    <3>2. \/ UNCHANGED received
          \/ \E n : received' = [received EXCEPT ![WorksOn(h).payment]
                                   = @ \cup {n}]
      BY <2>1 DEF Deliver
    <3>3. QED
      BY <3>1, <3>2
  <2>2. QED
    BY <2>1, WritersOfReceived
<1>4. QED
  BY <1>1, <1>2, <1>3

\* A row is never deleted.
LEMMA RowsStayThere ==
  ASSUME TypeInv, RowsOK, [Next]_vars, NEW p \in Payments,
         payment[p].status # "absent"
  PROVE  payment'[p].status # "absent"
<1>1. RowStep(p) /\ payment[p] \in Rows
  BY RowSteps DEF TypeInv, TypeOK, Rows
<1>2. CASE SettlesRow(p, payment[p], payment'[p])
  BY <1>1, <1>2, SettledColumns DEF Terminal
<1>3. CASE payment'[p] = Unresolved(payment[p], ReconciliationMaxAttempts)
  BY <1>1, <1>3, UnresolvedColumns
<1>4. CASE ~SettlesRow(p, payment[p], payment'[p])
           /\ payment'[p] # Unresolved(payment[p], ReconciliationMaxAttempts)
  BY <1>1, <1>4 DEF RowStep, Rows, PaymentRows
<1>5. QED
  BY <1>2, <1>3, <1>4

\* The status and the webhook id of a settled payment stay.
LEMMA SettledStays ==
  ASSUME TypeInv, RowsOK, [Next]_vars, NEW p \in Payments,
         payment[p].status \in Terminal
  PROVE  /\ payment'[p].status = payment[p].status
         /\ payment'[p].webhook_event_id = payment[p].webhook_event_id
<1>1. payment[p] \in Rows
  BY DEF TypeInv, TypeOK, Rows
<1>2. payment'[p] \in {payment[p], [payment[p] EXCEPT !.webhook_sent = TRUE]}
  BY SettledRowsStep
<1>3. QED
  BY <1>1, <1>2 DEF Rows, PaymentRows

\* A handler stays where it is unless one of its own steps is taken.
LEMMA HandlersApart ==
  ASSUME TypeInv, [Next]_vars, NEW h \in Handlers
  PROVE  \/ pc'[h] = pc[h] /\ msg'[h] = msg[h] /\ result'[h] = result[h]
         \/ Receive(h) \/ Ack(h) \/ Reject(h) \/ RetryOrReject(h) \/ Crash(h)
         \/ TransactionFails(h) \/ LoadRequest(h) \/ CallFails(h)
         \/ PostCharge(h) \/ GetVerdict(h) \/ GetAmbiguousOutcome(h)
         \/ ApplyResult(h) \/ MarkUnknown(h) \/ LoadDelivery(h)
         \/ Deliver(h) \/ MarkSent(h)
<1> DEFINE Same == pc'[h] = pc[h] /\ msg'[h] = msg[h] /\ result'[h] = result[h]
<1>1. ASSUME NEW k \in Handlers, k # h,
             \/ Release(k)
             \/ \E m : /\ msg' = [msg EXCEPT ![k] = m]
                       /\ pc' = [pc EXCEPT ![k] = "load"]
                       /\ UNCHANGED result
             \/ /\ \E s : Goto(k, s)
                /\ \/ UNCHANGED result
                   \/ \E v : result' = [result EXCEPT ![k] = v]
      PROVE  Same
  <2>1. pc \in [Handlers -> HandlerSteps] /\ DOMAIN msg = Handlers
        /\ DOMAIN result = Handlers
    BY DEF TypeInv, TypeOK
  <2>2. QED
    BY <1>1, <2>1 DEF Release, Goto
<1>2. ASSUME NEW k \in Handlers, k # h,
             \/ Receive(k) \/ Ack(k) \/ Reject(k) \/ RetryOrReject(k) \/ Crash(k)
             \/ TransactionFails(k) \/ LoadRequest(k) \/ CallFails(k)
             \/ PostCharge(k) \/ GetVerdict(k) \/ GetAmbiguousOutcome(k)
             \/ ApplyResult(k) \/ MarkUnknown(k) \/ LoadDelivery(k)
             \/ Deliver(k) \/ MarkSent(k)
      PROVE  Same
  <2> HIDE DEF Same
  <2>1. ASSUME Ack(k) \/ Reject(k) \/ Crash(k)
        PROVE  Same
    BY <1>1, <1>2, <2>1 DEF Ack, Reject, Crash
  <2>2. ASSUME Receive(k)
        PROVE  Same
    BY <1>1, <1>2, <2>2 DEF Receive
  <2>3. ASSUME RetryOrReject(k)
        PROVE  Same
    BY <1>1, <1>2, <2>3 DEF RetryOrReject
  <2>4. ASSUME TransactionFails(k) \/ LoadRequest(k) \/ CallFails(k)
                 \/ PostCharge(k) \/ GetVerdict(k) \/ GetAmbiguousOutcome(k)
        PROVE  Same
    <3>1. (\E s : Goto(k, s)) /\ (UNCHANGED result
            \/ \E v : result' = [result EXCEPT ![k] = v])
      BY <2>4 DEF TransactionFails, LoadRequest, CallFails, PostCharge,
         GetVerdict, GetAmbiguousOutcome
    <3>2. QED
      BY <1>1, <1>2, <3>1
  <2>5. ASSUME ApplyResult(k) \/ MarkUnknown(k) \/ LoadDelivery(k)
                 \/ Deliver(k) \/ MarkSent(k)
        PROVE  Same
    <3>1. (\E s : Goto(k, s)) /\ (UNCHANGED result
            \/ \E v : result' = [result EXCEPT ![k] = v])
      BY <2>5 DEF ApplyResult, MarkUnknown, LoadDelivery, Deliver, MarkSent,
         Committed
    <3>2. QED
      BY <1>1, <1>2, <3>1
  <2>6. QED
    BY <1>2, <2>1, <2>2, <2>3, <2>4, <2>5
<1>3. UNCHANGED handlerVars => Same
  BY DEF handlerVars
<1> HIDE DEF Same
<1>4. QED
  BY <1>2, <1>3, WritersOfHandlers DEF Same

-----------------------------------------------------------------------------
(* Settling a payment.                                                     *)

\* The verdict a handler or a reconciler is about to store for payment p.
InHand(p, v) ==
  \/ \E h \in Handlers :
       pc[h] = "apply" /\ WorksOn(h).payment = p /\ result[h] = v
  \/ \E c \in Reconcilers :
       /\ recon[c].step = "persist"
       /\ recon[c].target = p
       /\ recon[c].answer = v /\ v # None

\* The step settles p, and commits its one webhook event.
SettlesNow(p) ==
  \E v \in Verdicts, w \in WebhookIds :
    /\ payment[p].status \in {"pending", "unknown"}
    /\ InHand(p, v)
    /\ payment'[p].status = StatusFor(v)
    /\ payment'[p].webhook_event_id = w
    /\ payment'[p].webhook_sent = payment[p].webhook_sent
    /\ outbox[WebhookEvent(p, w)] = "absent"
    /\ \A x \in WebhookIds : outbox'[WebhookEvent(p, x)] # "absent"
                             <=> outbox[WebhookEvent(p, x)] # "absent" \/ x = w

\* The step leaves p as settled or unsettled as it was.
LeavesOpen(p) ==
  /\ payment'[p].status \in Terminal <=> payment[p].status \in Terminal
  /\ \A x \in WebhookIds : outbox'[WebhookEvent(p, x)] # "absent"
                           <=> outbox[WebhookEvent(p, x)] # "absent"

\* Webhook events differ when their payment or their id does.
LEMMA DifferentEvents ==
  ASSUME NEW p \in Payments, NEW q \in Payments,
         NEW w \in WebhookIds, NEW x \in WebhookIds
  PROVE  /\ WebhookEvent(p, w) = WebhookEvent(q, x) <=> p = q /\ w = x
         /\ WebhookEvent(p, w) # ProcessEvent(q)
BY DEF WebhookEvent, ProcessEvent

\* Settle settles its payment and no other.
LEMMA SettleOne ==
  ASSUME TypeInv, RowsOK, NEW p \in Payments, NEW o \in Payments,
         NEW v \in Verdicts, Settle(o, v), InHand(o, v),
         payment[o].status \in {"pending", "unknown"}
  PROVE  SettlesNow(p) \/ LeavesOpen(p)
<1>1. PICK w \in WebhookIds :
        /\ outbox[WebhookEvent(o, w)] = "absent"
        /\ payment' = [payment EXCEPT ![o] = Resolved(payment[o], v, w)]
        /\ outbox' = [outbox EXCEPT ![WebhookEvent(o, w)] = "unpublished"]
  BY DEF Settle, FreshWebhookIds
<1>2. payment \in [Payments -> Rows]
      /\ outbox \in [Events -> {"absent", "unpublished", "published"}]
  BY DEF TypeInv, TypeOK, Rows
<1>3. \A q \in Payments, x \in WebhookIds :
        outbox'[WebhookEvent(q, x)] # "absent"
          <=> outbox[WebhookEvent(q, x)] # "absent" \/ (q = o /\ x = w)
  <2> SUFFICES ASSUME NEW q \in Payments, NEW x \in WebhookIds
               PROVE  outbox'[WebhookEvent(q, x)] # "absent"
          <=> outbox[WebhookEvent(q, x)] # "absent" \/ (q = o /\ x = w)
    OBVIOUS
  <2>1. CASE q = o /\ x = w
    BY <1>1, <1>2, <2>1, EventsExist
  <2>2. CASE ~(q = o /\ x = w)
    <3>1. WebhookEvent(q, x) # WebhookEvent(o, w)
      BY <2>2, DifferentEvents
    <3>2. QED
      BY <1>1, <1>2, <2>2, <3>1, EventsExist
  <2>3. QED
    BY <2>1, <2>2
<1>4. CASE p = o
  <2>1. payment'[o] = Resolved(payment[o], v, w) /\ payment[o] \in Rows
    BY <1>1, <1>2
  <2>2. /\ payment'[o].status = StatusFor(v)
        /\ payment'[o].webhook_event_id = w
        /\ payment'[o].webhook_sent = payment[o].webhook_sent
    BY <2>1 DEF Resolved, Rows, PaymentRows
  <2>3. QED
    BY <1>1, <1>3, <1>4, <2>2 DEF SettlesNow
<1>5. CASE p # o
  BY <1>1, <1>2, <1>3, <1>5 DEF LeavesOpen
<1>6. QED
  BY <1>4, <1>5

\* Every step settles a payment with a verdict someone has in hand, or
\* leaves it and its events alone.
LEMMA Settlements ==
  ASSUME TypeInv, RowsOK, RelaysKnow, [Next]_vars, NEW p \in Payments
  PROVE  SettlesNow(p) \/ LeavesOpen(p)
<1>1. payment \in [Payments -> Rows]
      /\ outbox \in [Events -> {"absent", "unpublished", "published"}]
  BY DEF TypeInv, TypeOK, Rows
<1>2. CASE UNCHANGED tables
  BY <1>2 DEF tables, LeavesOpen
<1>3. ASSUME NEW o \in Payments, CreatePayment(o)
      PROVE  LeavesOpen(p)
  <2>1. /\ payment[o].status = "absent"
        /\ payment' = [payment EXCEPT ![o] = NewPayment]
        /\ outbox' = [outbox EXCEPT ![ProcessEvent(o)] = "unpublished"]
    BY <1>3 DEF CreatePayment
  <2>2. payment'[p].status \in Terminal <=> payment[p].status \in Terminal
    BY <1>1, <2>1 DEF NewPayment, NoRow, Terminal
  <2>3. ASSUME NEW x \in WebhookIds
        PROVE  outbox'[WebhookEvent(p, x)] = outbox[WebhookEvent(p, x)]
    BY <1>1, <2>1, EventsExist, DifferentEvents
  <2>4. QED
    BY <2>2, <2>3 DEF LeavesOpen
<1>4. ASSUME NEW r \in Relays, CommitBatch(r)
      PROVE  LeavesOpen(p)
  <2>1. UNCHANGED payment
    BY <1>4 DEF CommitBatch
  <2>2. ASSUME NEW x \in WebhookIds
        PROVE  outbox'[WebhookEvent(p, x)] # "absent"
                 <=> outbox[WebhookEvent(p, x)] # "absent"
    BY <1>1, <1>4, EventsExist DEF CommitBatch, RelaysKnow, Locked
  <2>3. QED
    BY <2>1, <2>2 DEF LeavesOpen
<1>5. ASSUME UNCHANGED outbox, NEW o \in Payments, NEW row,
             payment' = [payment EXCEPT ![o] = row],
             row.status \in Terminal <=> payment[o].status \in Terminal
      PROVE  LeavesOpen(p)
  BY <1>1, <1>5 DEF LeavesOpen
<1>6. ASSUME NEW h \in Handlers, ApplyResult(h)
      PROVE  SettlesNow(p) \/ LeavesOpen(p)
  <2>1. pc[h] = "apply" /\ WorksOn(h).payment \in Payments
        /\ result[h] \in Verdicts
    BY <1>6, BusyHandler DEF ApplyResult, At, TypeInv, HandlersOK
  <2>2. InHand(WorksOn(h).payment, result[h])
    BY <2>1 DEF InHand
  <2>3. CASE UNCHANGED tables
    BY <1>2, <2>3
  <2>4. CASE RowOf(h).status = "pending" /\ Settle(WorksOn(h).payment, result[h])
    BY <2>1, <2>2, <2>4, SettleOne DEF RowOf
  <2>5. QED
    BY <1>6, <2>3, <2>4 DEF ApplyResult
<1>7. ASSUME NEW h \in Handlers, MarkUnknown(h)
      PROVE  LeavesOpen(p)
  <2> DEFINE o == WorksOn(h).payment
             row == [payment[o] EXCEPT !.status = "unknown"]
  <2>1. o \in Payments /\ payment[o] \in Rows
    BY <1>1, <1>7, BusyHandler DEF MarkUnknown, At
  <2>2. /\ UNCHANGED outbox
        /\ \/ payment[o].status = "pending" /\ payment' = [payment EXCEPT ![o] = row]
           \/ UNCHANGED payment
    BY <1>7 DEF MarkUnknown, RowOf
  <2>3. row.status = "unknown"
    BY <2>1 DEF Rows, PaymentRows
  <2>4. \/ row.status \in Terminal <=> payment[o].status \in Terminal
        \/ UNCHANGED payment
    BY <2>2, <2>3 DEF Terminal
  <2> HIDE DEF row, o
  <2>5. CASE UNCHANGED payment
    BY <2>2, <2>5 DEF LeavesOpen
  <2>6. CASE payment' = [payment EXCEPT ![o] = row]
    BY <1>5, <2>1, <2>2, <2>4, <2>5, <2>6
  <2>7. QED
    BY <2>2, <2>5, <2>6
<1>8. ASSUME NEW h \in Handlers, MarkSent(h)
      PROVE  LeavesOpen(p)
  <2> DEFINE o == WorksOn(h).payment
             row == [payment[o] EXCEPT !.webhook_sent = TRUE]
  <2>1. o \in Payments /\ payment[o] \in Rows
    BY <1>1, <1>8, BusyHandler DEF MarkSent, At
  <2>2. /\ UNCHANGED outbox
        /\ payment' = [payment EXCEPT ![o] = row] \/ UNCHANGED payment
    BY <1>8 DEF MarkSent
  <2>3. row.status = payment[o].status
    BY <2>1 DEF Rows, PaymentRows
  <2> HIDE DEF row, o
  <2>4. CASE UNCHANGED payment
    BY <2>2, <2>4 DEF LeavesOpen
  <2>5. CASE payment' = [payment EXCEPT ![o] = row]
    BY <1>5, <2>1, <2>2, <2>3, <2>5
  <2>6. QED
    BY <2>2, <2>4, <2>5
<1>9. ASSUME NEW c \in Reconcilers, ClaimBatch(c)
      PROVE  LeavesOpen(p)
  <2>1. PICK b \in SUBSET Payments, t \in Tokens :
          payment' = [o \in Payments |->
            IF o \in b THEN [payment[o] EXCEPT !.lease_token = t]
                       ELSE payment[o]]
    BY <1>9 DEF ClaimBatch, FreshTokens
  <2>2. UNCHANGED outbox
    BY <1>9 DEF ClaimBatch
  <2>3. payment[p] \in Rows
    BY <1>1
  <2>4. [payment[p] EXCEPT !.lease_token = t].status = payment[p].status
    BY <2>3 DEF Rows, PaymentRows
  <2>5. QED
    BY <2>1, <2>2, <2>4 DEF LeavesOpen
<1>10. ASSUME NEW c \in Reconcilers, PersistResolution(c)
       PROVE  SettlesNow(p) \/ LeavesOpen(p)
  <2> DEFINE o == recon[c].target
             row == Unresolved(payment[o], ReconciliationMaxAttempts)
  <2>1. /\ o \in Payments /\ payment[o] \in Rows
        /\ recon[c].answer \in Verdicts \cup {None}
        /\ recon[c].step = "persist"
    BY <1>1, <1>10
    DEF TypeInv, TypeOK, ReconcilersOK, ReconStates, PersistResolution
  <2>2. recon[c].answer # None => InHand(o, recon[c].answer)
    BY <2>1 DEF InHand
  <2>3. row.status = payment[o].status
    BY <2>1, UnresolvedColumns
  <2>4. \/ UNCHANGED tables
        \/ UNCHANGED outbox /\ payment' = [payment EXCEPT ![o] = row]
        \/ /\ payment[o].status = "unknown" /\ recon[c].answer # None
           /\ Settle(o, recon[c].answer)
    BY <1>10 DEF PersistResolution, Renewable, Reconcilable
  <2> HIDE DEF row, o
  <2>5. QED
    BY <1>2, <1>5, <2>1, <2>2, <2>3, <2>4, SettleOne
<1>11. QED
  BY <1>2, <1>3, <1>4, <1>6, <1>7, <1>8, <1>9, <1>10, WritersOfPayment,
     WritersOfOutbox DEF tables

-----------------------------------------------------------------------------
(* The invariant is kept, one lemma per part.                              *)

\* The events of relays and queues.
LEMMA RelaysLearn ==
  ASSUME TypeInv, TruthInv, [Next]_vars
  PROVE  RelaysKnow'
<1>1. /\ batch \in [Relays -> SUBSET Events]
      /\ marked \in [Relays -> SUBSET Events]
  BY DEF TypeInv, TypeOK
<1>2. SUFFICES ASSUME NEW s \in Relays, NEW e \in Events,
                      e \in batch'[s] \cup marked'[s]
               PROVE  e \in batch[s] \cup marked[s] \/ outbox[e] # "absent"
  <2>1. \A s \in Relays : Locked(s)' \subseteq Events
    BY TypeInvStep DEF TypeInv, TypeOK, Locked
  <2>2. \A s \in Relays, e \in Events :
          e \in Locked(s)' => e \in Locked(s) \/ outbox[e] # "absent"
    BY <1>2 DEF Locked
  <2>3. QED
    BY <2>1, <2>2, PastStays DEF TruthInv, RelaysKnow
<1>3. ASSUME NEW r \in Relays, FetchBatch(r)
      PROVE  e \in batch[s] \cup marked[s] \/ outbox[e] # "absent"
  <2>1. PICK b \in SUBSET {d \in Events : outbox[d] = "unpublished"} :
          batch' = [batch EXCEPT ![r] = b] /\ UNCHANGED marked
    BY <1>3 DEF FetchBatch
  <2>2. QED
    BY <1>1, <1>2, <2>1
<1>4. ASSUME NEW r \in Relays, Publish(r) \/ CommitBatch(r) \/ RelayFails(r)
      PROVE  e \in batch[s] \cup marked[s]
  BY <1>1, <1>2, <1>4 DEF Publish, CommitBatch, RelayFails
<1>5. QED
  BY <1>2, <1>3, <1>4, WritersOfBatches DEF relayVars

\* Only Publish puts a new event into a queue.
LEMMA QueuesGetKnown ==
  ASSUME TypeInv, TruthInv, [Next]_vars, NEW q \in Queues, NEW m \in Messages,
         queue'[q][m] > 0
  PROVE  outbox[m.event] # "absent"
<1>1. queue \in [Queues -> [Messages -> Nat]]
  BY DEF TypeInv, TypeOK
<1>2. CASE queue[q][m] > 0
  BY <1>2 DEF TruthInv, QueuesKnow
<1>3. ASSUME NEW r \in Queues, NEW n \in Messages, outbox[n.event] # "absent",
             queue' = Put(r, n)
      PROVE  outbox[m.event] # "absent"
  BY <1>1, <1>2, <1>3 DEF Put
<1>4. ASSUME NEW h \in Handlers, pc[h] # "idle"
      PROVE  /\ msg[h] \in Messages
             /\ outbox[msg[h].event] # "absent"
  BY <1>4, BusyHandler DEF TruthInv, HandlerKnows, WorksOn
<1>5. ASSUME NEW r \in Relays, Publish(r)
      PROVE  outbox[m.event] # "absent"
  <2>1. PICK e \in batch[r] :
          queue' = Put("payments.new", [event |-> e, attempt |-> 1])
    BY <1>5 DEF Publish
  <2>2. [event |-> e, attempt |-> 1] \in Messages /\ "payments.new" \in Queues
    BY DEF TypeInv, TypeOK, Messages, MaxAttempts, Queues
  <2>3. outbox[e] # "absent"
    BY DEF TruthInv, RelaysKnow, Locked
  <2>4. QED
    BY <1>3, <2>1, <2>2, <2>3
<1>6. ASSUME NEW h \in Handlers, Receive(h)
      PROVE  outbox[m.event] # "absent"
  BY <1>1, <1>2, <1>6 DEF Receive
<1>7. ASSUME NEW h \in Handlers, Reject(h) \/ Crash(h)
      PROVE  outbox[m.event] # "absent"
  <2>1. pc[h] # "idle"
    BY <1>7 DEF Reject, Crash, At
  <2>2. PICK r \in Queues : queue' = Put(r, msg[h])
    BY <1>7 DEF Reject, Crash, Queues
  <2>3. QED
    BY <1>3, <1>4, <2>1, <2>2
<1>8. ASSUME NEW h \in Handlers, RetryOrReject(h)
      PROVE  outbox[m.event] # "absent"
  <2> DEFINE n == msg[h]
             retry == RetryQueue(n.attempt + 1)
             copy == [n EXCEPT !.attempt = @ + 1]
  <2>1. pc[h] # "idle" /\ n \in Messages /\ outbox[n.event] # "absent"
    BY <1>4, <1>8 DEF RetryOrReject, At
  <2>2. /\ "payments.new" \in Queues /\ "payments.dlq" \in Queues
        /\ retry \in Queues
    BY DEF Queues, RetryQueue
  <2>3. (copy \in Messages /\ copy.event = n.event) \/ n.attempt >= MaxAttempts
    <3>1. n.attempt < MaxAttempts \/ n.attempt >= MaxAttempts
      BY <2>1 DEF Messages, MaxAttempts
    <3>2. QED
      BY <2>1, <3>1, CopyType DEF Messages
  <2>4. \/ \E r \in Queues : queue' = Put(r, n)
        \/ n.attempt < MaxAttempts /\ queue' = Put(retry, copy)
        \/ /\ n.attempt < MaxAttempts
           /\ queue' = [Put(retry, copy) EXCEPT !["payments.new"][n] = @ + 1]
    BY <1>8, <2>2 DEF RetryOrReject
  <2>5. n.attempt < MaxAttempts => ~(n.attempt >= MaxAttempts)
    BY <2>1 DEF Messages, MaxAttempts
  <2>6. CASE \E r \in Queues : queue' = Put(r, n)
    BY <1>3, <2>1, <2>6
  <2>7. CASE n.attempt < MaxAttempts /\ queue' = Put(retry, copy)
    BY <1>3, <2>1, <2>2, <2>3, <2>5, <2>7
  <2>8. CASE /\ n.attempt < MaxAttempts
             /\ queue' = [Put(retry, copy) EXCEPT !["payments.new"][n] = @ + 1]
    <3>1. copy \in Messages /\ copy.event = n.event
      BY <2>3, <2>5, <2>8
    <3> HIDE DEF n, copy, retry
    <3>2. m # copy /\ m # n => queue'[q][m] = queue[q][m]
      BY <1>1, <2>1, <2>2, <2>8, <3>1 DEF Put
    <3>3. QED
      BY <1>2, <2>1, <3>1, <3>2
  <2>9. QED
    BY <2>4, <2>6, <2>7, <2>8
<1>9. ASSUME NEW r \in Queues, TtlExpires(r)
      PROVE  outbox[m.event] # "absent"
  <2>1. PICK n \in Messages :
          queue[r][n] > 0 /\ queue' = Move(r, "payments.new", n)
    BY <1>9 DEF TtlExpires
  <2>2. r # "payments.new" /\ "payments.new" \in Queues
    BY <1>9 DEF TtlExpires, Queues
  <2>3. m # n => queue'[q][m] = queue[q][m]
    BY <1>1, <2>1, <2>2 DEF Move
  <2>4. outbox[n.event] # "absent"
    BY <2>1 DEF TruthInv, QueuesKnow
  <2>5. QED
    BY <1>2, <2>3, <2>4
<1>10. QED
  BY <1>2, <1>5, <1>6, <1>7, <1>8, <1>9, WritersOfQueue

\* What is committed stays committed, so that the queues keep what they know.
LEMMA QueuesLearn ==
  ASSUME TypeInv, TruthInv, [Next]_vars
  PROVE  QueuesKnow'
<1>1. \A m \in Messages : m.event \in Events
  BY DEF Messages
<1>2. QED
  BY <1>1, QueuesGetKnown, PastStays DEF QueuesKnow

\* A webhook event that was committed is the one its settled payment names.
LEMMA WebhookIsNamed ==
  ASSUME OneWebhookEvent, NEW e \in Events, outbox[e] # "absent",
         e.type = "webhook.delivery_requested"
  PROVE  WebhookMatches(payment[e.payment], e.id)
<1>1. e.payment \in Payments /\ e.id \in WebhookIds
      /\ e = WebhookEvent(e.payment, e.id)
  BY EventFields
<1> DEFINE p == e.payment
           Ids == {w \in WebhookIds : outbox[WebhookEvent(p, w)] # "absent"}
<1>2. e.id \in Ids
  BY <1>1
<1>3. Ids = IF payment[p].status \in Terminal THEN {payment[p].webhook_event_id}
                                             ELSE {}
  BY <1>1 DEF OneWebhookEvent
<1>4. QED
  BY <1>2, <1>3 DEF WebhookMatches

\* Of handlers, one group of steps at a time.
LEMMA HandlersLearn ==
  ASSUME TypeInv, RowsOK, TruthInv, [Next]_vars, NEW h \in Handlers
  PROVE  HandlerKnows(h)'
<1> DEFINE p == WorksOn(h).payment
<1>1. pc[h] # "idle" => p \in Payments /\ WorksOn(h) \in Events
  BY BusyHandler
<1>2. HandlerKnows(h) /\ pc \in [Handlers -> HandlerSteps]
  BY DEF TruthInv, TypeInv, TypeOK
<1>3. ASSUME pc'[h] = "idle"
      PROVE  HandlerKnows(h)'
  BY <1>3 DEF HandlerKnows
<1>4. ASSUME msg'[h] = msg[h], pc[h] # "idle"
      PROVE  /\ WorksOn(h)' = WorksOn(h)
             /\ outbox'[WorksOn(h)] # "absent"
             /\ payment[p].status # "absent" => payment'[p].status # "absent"
             /\ ledger[p] # None => ledger'[p] = ledger[p]
             /\ received[p] # {} => received'[p] # {}
             /\ payment[p].status \in Terminal =>
                  payment'[p].status = payment[p].status
  <2>1. WorksOn(h)' = WorksOn(h)
    BY <1>4 DEF WorksOn
  <2>2. outbox[WorksOn(h)] # "absent"
    BY <1>2, <1>4 DEF HandlerKnows
  <2>3. QED
    BY <1>1, <1>4, <2>1, <2>2, PastStays, RowsStayThere, SettledStays
<1>5. CASE pc'[h] = pc[h] /\ msg'[h] = msg[h] /\ result'[h] = result[h]
  <2>1. CASE pc[h] = "idle"
    BY <1>3, <1>5, <2>1
  <2>2. CASE pc[h] # "idle"
    <3>1. pc[h] \in {"deliver", "mark_sent"} => result[h] \in Terminal
      BY DEF TypeInv, HandlersOK
    <3>2. QED
      BY <1>2, <1>4, <1>5, <2>2, <3>1 DEF HandlerKnows
  <2>3. QED
    BY <2>1, <2>2
<1>6. ASSUME Ack(h) \/ Reject(h) \/ Crash(h)
      PROVE  HandlerKnows(h)'
  BY <1>2, <1>3, <1>6 DEF Ack, Reject, Crash, Release
<1>7. ASSUME Receive(h)
      PROVE  HandlerKnows(h)'
  <2>1. PICK m \in Messages :
          queue["payments.new"][m] > 0 /\ msg' = [msg EXCEPT ![h] = m]
    BY <1>7 DEF Receive
  <2>2. pc'[h] = "load" /\ msg'[h] = m /\ UNCHANGED outbox
    BY <1>2, <1>7, <2>1 DEF Receive, TypeInv, TypeOK, tables
  <2>3. outbox[m.event] # "absent"
    BY <2>1 DEF TruthInv, QueuesKnow, Queues
  <2>4. QED
    BY <2>2, <2>3 DEF HandlerKnows, WorksOn
\* Steps that settle nothing and know nothing new.
<1>8. ASSUME NEW step \in {"ack", "retry", "reject"}, Goto(h, step), pc[h] # "idle"
      PROVE  HandlerKnows(h)'
  <2>1. pc'[h] = step /\ msg'[h] = msg[h]
    BY <1>2, <1>8 DEF Goto
  <2>2. QED
    BY <1>4, <1>8, <2>1 DEF HandlerKnows
<1>9. ASSUME \/ TransactionFails(h) \/ CallFails(h) \/ ApplyResult(h)
             \/ MarkUnknown(h) \/ MarkSent(h)
      PROVE  HandlerKnows(h)'
  <2>1. PICK step \in {"ack", "retry", "reject"} : Goto(h, step)
    BY <1>9 DEF TransactionFails, CallFails, ApplyResult, MarkUnknown, MarkSent,
       Committed
  <2>2. pc[h] # "idle"
    BY <1>9 DEF TransactionFails, CallFails, ApplyResult, MarkUnknown, MarkSent,
       At
  <2>3. QED
    BY <1>8, <2>1, <2>2
<1>10. ASSUME RetryOrReject(h)
       PROVE  HandlerKnows(h)'
  <2>1. pc[h] # "idle" /\ (Goto(h, "ack") \/ Release(h))
    BY <1>10 DEF RetryOrReject, At
  <2>2. Release(h) => pc'[h] = "idle"
    BY <1>2 DEF Release
  <2>3. QED
    BY <1>3, <1>8, <2>1, <2>2
<1>11. ASSUME LoadRequest(h)
       PROVE  HandlerKnows(h)'
  <2>1. pc[h] # "idle"
    BY <1>11 DEF LoadRequest, At
  <2>2. \/ \E step \in {"ack", "retry", "reject"} : Goto(h, step)
        \/ Goto(h, "call") /\ payment[p].status = "pending"
    BY <1>11 DEF LoadRequest, RowOf
  <2>3. CASE Goto(h, "call") /\ payment[p].status = "pending"
    <3>1. pc'[h] = "call" /\ msg'[h] = msg[h]
      BY <1>2, <2>3 DEF Goto
    <3>2. QED
      BY <1>4, <2>1, <2>3, <3>1 DEF HandlerKnows
  <2>4. QED
    BY <1>8, <2>1, <2>2, <2>3
<1>12. ASSUME PostCharge(h)
       PROVE  HandlerKnows(h)'
  <2>1. pc[h] = "call" /\ pc'[h] = "await" /\ msg'[h] = msg[h]
    BY <1>2, <1>12 DEF PostCharge, At, Goto
  <2>2. payment[p].status # "absent"
    BY <1>2, <2>1 DEF HandlerKnows
  <2>3. QED
    BY <1>4, <2>1, <2>2 DEF HandlerKnows
<1>13. ASSUME GetVerdict(h)
       PROVE  HandlerKnows(h)'
  <2>1. /\ pc[h] = "await" /\ pc'[h] = "apply" /\ msg'[h] = msg[h]
        /\ result' = [result EXCEPT ![h] = ledger[p]]
        /\ ledger[p] # None
    BY <1>2, <1>13 DEF GetVerdict, At, Goto
  <2>2. result'[h] = ledger[p]
    BY <2>1 DEF TypeInv, TypeOK
  <2>3. payment[p].status # "absent"
    BY <1>2, <2>1 DEF HandlerKnows
  <2>4. QED
    BY <1>4, <2>1, <2>2, <2>3 DEF HandlerKnows
<1>14. ASSUME GetAmbiguousOutcome(h)
       PROVE  HandlerKnows(h)'
  <2>1. /\ pc[h] \in {"call", "await"} /\ pc'[h] = "mark_unknown"
        /\ msg'[h] = msg[h]
    BY <1>2, <1>14 DEF GetAmbiguousOutcome, At, Goto
  <2>2. payment[p].status # "absent"
    BY <1>2, <2>1 DEF HandlerKnows
  <2>3. QED
    BY <1>4, <2>1, <2>2 DEF HandlerKnows
<1>15. ASSUME LoadDelivery(h)
       PROVE  HandlerKnows(h)'
  <2>1. /\ pc[h] = "load" /\ msg'[h] = msg[h]
        /\ result' = [result EXCEPT ![h] = payment[p].status]
        /\ UNCHANGED payment
    BY <1>15 DEF LoadDelivery, At, Goto, RowOf, tables
  <2>2. result'[h] = payment[p].status
    BY <2>1 DEF TypeInv, TypeOK
  <2>3. Goto(h, "deliver") \/ Goto(h, "ack") \/ Goto(h, "reject")
    BY <1>15 DEF LoadDelivery
  <2>4. CASE Goto(h, "deliver")
    <3>1. pc'[h] = "deliver"
      BY <1>2, <2>4 DEF Goto
    <3>2. QED
      BY <1>4, <2>1, <2>2, <3>1 DEF HandlerKnows
  <2>5. QED
    BY <1>8, <2>1, <2>3, <2>4
<1>16. ASSUME Deliver(h)
       PROVE  HandlerKnows(h)'
  <2> DEFINE notice == [id |-> WorksOn(h).id, status |-> result[h]]
  <2>1. pc[h] = "deliver" /\ UNCHANGED result /\ UNCHANGED payment
    BY <1>16 DEF Deliver, At, tables
  <2>2. \/ Goto(h, "retry") \/ Goto(h, "reject")
        \/ /\ received' = [received EXCEPT ![p] = @ \cup {notice}]
           /\ Goto(h, "mark_sent")
    BY <1>16 DEF Deliver
  <2>3. CASE /\ received' = [received EXCEPT ![p] = @ \cup {notice}]
             /\ Goto(h, "mark_sent")
    <3>1. notice \in received'[p]
      BY <1>1, <2>1, <2>3 DEF TypeInv, TypeOK
    <3>2. received'[p] # {}
      BY <3>1
    <3>3. pc'[h] = "mark_sent" /\ msg'[h] = msg[h]
      BY <1>2, <2>3 DEF Goto
    <3>4. result[h] = payment[p].status
      BY <1>2, <2>1 DEF HandlerKnows
    <3>5. QED
      BY <1>4, <2>1, <3>2, <3>3, <3>4 DEF HandlerKnows
  <2>4. QED
    BY <1>8, <2>1, <2>2, <2>3
<1>17. QED
  BY ONLY HandlersApart, <1>5, <1>6, <1>7, <1>9, <1>10, <1>11, <1>12, <1>13,
     <1>14, <1>15, <1>16, TypeInv, [Next]_vars, h \in Handlers

\* Of reconcilers: the answer is what the provider recorded.
LEMMA ReconcilersLearn ==
  ASSUME TypeInv, TruthInv, [Next]_vars, NEW c \in Reconcilers
  PROVE  ReconcilerKnows(c)'
<1>1. /\ recon \in [Reconcilers -> ReconStates]
      /\ recon[c].step = "persist" => recon[c].target \in Payments
      /\ ReconcilerKnows(c)
  BY DEF TypeInv, TypeOK, ReconcilersOK, TruthInv
<1>2. CASE recon'[c] = recon[c]
  BY <1>1, <1>2, PastStays DEF ReconcilerKnows
<1>3. CASE recon'[c].step # "persist"
  BY <1>3 DEF ReconcilerKnows
<1>4. ASSUME NEW d \in Reconcilers, NEW x, recon' = [recon EXCEPT ![d] = x],
             x.step # "persist"
      PROVE  ReconcilerKnows(c)'
  BY <1>1, <1>2, <1>3, <1>4
<1>5. Resting.step # "persist"
  BY DEF Resting
<1>6. ASSUME NEW d \in Reconcilers, NEW todo, NextPayment(d, todo)
      PROVE  ReconcilerKnows(c)'
  <2>1. \/ recon' = [recon EXCEPT ![d] = Resting]
        \/ recon' = [recon EXCEPT ![d] =
             [step |-> "renew", token |-> recon[d].token, todo |-> todo,
              target |-> None, answer |-> None]]
    BY <1>6 DEF NextPayment
  <2>2. CASE recon' = [recon EXCEPT ![d] = Resting]
    BY <1>1, <1>2, <1>3, <1>5, <2>2
  <2>3. CASE recon' = [recon EXCEPT ![d] =
             [step |-> "renew", token |-> recon[d].token, todo |-> todo,
              target |-> None, answer |-> None]]
    BY <1>1, <1>2, <1>3, <2>3
  <2>4. QED
    BY <2>1, <2>2, <2>3
<1>7. ASSUME NEW d \in Reconcilers, ClaimBatch(d)
      PROVE  ReconcilerKnows(c)'
  <2>1. PICK b, t : recon' = [recon EXCEPT ![d] =
          [step |-> "renew", token |-> t, todo |-> b, target |-> None,
           answer |-> None]]
    BY <1>7 DEF ClaimBatch
  <2>2. QED
    BY <1>1, <1>2, <1>3, <2>1
<1>8. ASSUME NEW d \in Reconcilers, RenewClaim(d)
      PROVE  ReconcilerKnows(c)'
  <2>1. PICK p \in recon[d].todo :
          \/ NextPayment(d, recon[d].todo \ {p})
          \/ recon' = [recon EXCEPT ![d] =
               [recon[d] EXCEPT !.step = "lookup", !.todo = recon[d].todo \ {p},
                                !.target = p]]
    BY <1>8 DEF RenewClaim
  <2> DEFINE x == [recon[d] EXCEPT !.step = "lookup",
                     !.todo = recon[d].todo \ {p}, !.target = p]
  <2>2. x.step = "lookup"
    BY <1>1 DEF ReconStates
  <2> HIDE DEF x
  <2>3. CASE recon' = [recon EXCEPT ![d] = x]
    BY <1>1, <1>2, <1>3, <2>2, <2>3
  <2>4. QED
    BY <1>6, <2>1, <2>3 DEF x
<1>9. ASSUME NEW d \in Reconcilers, LookupProvider(d)
      PROVE  ReconcilerKnows(c)'
  <2>1. PICK a \in {None, ledger[recon[d].target]} :
          recon' = [recon EXCEPT ![d] =
                      [recon[d] EXCEPT !.step = "persist", !.answer = a]]
    BY <1>9 DEF LookupProvider
  <2>2. UNCHANGED ledger
    BY <1>9 DEF LookupProvider, outsideVars
  <2>3. CASE c = d
    BY <1>1, <2>1, <2>2, <2>3 DEF ReconcilerKnows, ReconStates
  <2>4. CASE c # d
    BY <1>1, <1>2, <2>1, <2>4
  <2>5. QED
    BY <2>3, <2>4
<1>10. ASSUME NEW d \in Reconcilers,
              PersistResolution(d) \/ ReconcileFails(d) \/ ReconcilerCrashes(d)
       PROVE  ReconcilerKnows(c)'
  <2>1. (\E todo : NextPayment(d, todo)) \/ recon' = [recon EXCEPT ![d] = Resting]
    BY <1>10 DEF PersistResolution, ReconcileFails, ReconcilerCrashes
  <2>2. CASE recon' = [recon EXCEPT ![d] = Resting]
    BY <1>1, <1>2, <1>3, <1>5, <2>2
  <2>3. QED
    BY <1>6, <2>1, <2>2
<1>11. QED
  BY <1>2, <1>7, <1>8, <1>9, <1>10, WritersOfRecon

\* Only _mark_sent calls a webhook sent.
LEMMA SentByMarkSent ==
  ASSUME TypeInv, [Next]_vars, NEW p \in Payments,
         ~payment[p].webhook_sent, payment'[p].webhook_sent
  PROVE  \E h \in Handlers : pc[h] = "mark_sent" /\ WorksOn(h).payment = p
<1> DEFINE Quiet == payment'[p].webhook_sent = payment[p].webhook_sent
<1>1. payment \in [Payments -> Rows] /\ payment[p] \in Rows
  BY DEF TypeInv, TypeOK, Rows
<1>2. ASSUME NEW o \in Payments, NEW v \in Verdicts, Settle(o, v)
      PROVE  Quiet
  <2>1. SettlesRow(o, payment[o], payment'[o])
        /\ \A q \in Payments \ {o} : payment'[q] = payment[q]
    BY <1>2, SettleRow
  <2>2. CASE p = o
    BY <1>1, <2>1, <2>2, SettledColumns
  <2>3. CASE p # o
    BY <2>1, <2>3
  <2>4. QED
    BY <2>2, <2>3
<1>3. ASSUME NEW o \in Payments, CreatePayment(o)
      PROVE  Quiet
  BY <1>1, <1>3 DEF CreatePayment, NewPayment, NoRow
<1>4. ASSUME NEW h \in Handlers, ApplyResult(h)
      PROVE  Quiet
  <2>1. WorksOn(h).payment \in Payments /\ result[h] \in Verdicts
    BY <1>4, BusyHandler DEF ApplyResult, At, TypeInv, HandlersOK
  <2>2. UNCHANGED payment \/ Settle(WorksOn(h).payment, result[h])
    BY <1>4 DEF ApplyResult, tables
  <2>3. QED
    BY <1>2, <2>1, <2>2
<1>5. ASSUME NEW h \in Handlers, MarkUnknown(h)
      PROVE  Quiet
  <2>1. WorksOn(h).payment \in Payments
    BY <1>5, BusyHandler DEF MarkUnknown, At
  <2>2. \/ UNCHANGED payment
        \/ payment' = [payment EXCEPT ![WorksOn(h).payment] =
                         [payment[WorksOn(h).payment] EXCEPT !.status = "unknown"]]
    BY <1>5 DEF MarkUnknown
  <2>3. QED
    BY <1>1, <2>1, <2>2 DEF Rows, PaymentRows
<1>6. ASSUME NEW h \in Handlers, MarkSent(h)
      PROVE  Quiet \/ (pc[h] = "mark_sent" /\ WorksOn(h).payment = p)
  <2>1. WorksOn(h).payment \in Payments /\ pc[h] = "mark_sent"
    BY <1>6, BusyHandler DEF MarkSent, At
  <2>2. \/ UNCHANGED payment
        \/ payment' = [payment EXCEPT ![WorksOn(h).payment] =
                         [payment[WorksOn(h).payment] EXCEPT !.webhook_sent = TRUE]]
    BY <1>6 DEF MarkSent
  <2>3. QED
    BY <1>1, <2>1, <2>2 DEF Rows, PaymentRows
<1>7. ASSUME NEW c \in Reconcilers, ClaimBatch(c)
      PROVE  Quiet
  <2>1. PICK b \in SUBSET Payments, t \in Tokens :
          payment' = [o \in Payments |->
            IF o \in b THEN [payment[o] EXCEPT !.lease_token = t]
                       ELSE payment[o]]
    BY <1>7 DEF ClaimBatch, FreshTokens
  <2>2. QED
    BY <1>1, <2>1 DEF Rows, PaymentRows
<1>8. ASSUME NEW c \in Reconcilers, PersistResolution(c)
      PROVE  Quiet
  <2> DEFINE o == recon[c].target
             row == Unresolved(payment[o], ReconciliationMaxAttempts)
  <2>1. /\ o \in Payments /\ payment[o] \in Rows
        /\ recon[c].answer \in Verdicts \cup {None}
    BY <1>1, <1>8
    DEF TypeInv, TypeOK, ReconcilersOK, ReconStates, PersistResolution
  <2>2. row.webhook_sent = payment[o].webhook_sent
    BY <2>1, UnresolvedColumns
  <2>3. \/ UNCHANGED payment
        \/ payment' = [payment EXCEPT ![o] = row]
        \/ recon[c].answer # None /\ Settle(o, recon[c].answer)
    BY <1>8 DEF PersistResolution, tables
  <2> HIDE DEF row, o
  <2>4. CASE payment' = [payment EXCEPT ![o] = row]
    BY <1>1, <2>1, <2>2, <2>4
  <2>5. QED
    BY <1>2, <2>1, <2>3, <2>4
<1>9. QED
  BY <1>3, <1>4, <1>5, <1>6, <1>7, <1>8, WritersOfPayment

\* Of rows: nothing is charged that was not created, and nothing settled that
\* the provider did not decide.
LEMMA RowsLearn ==
  ASSUME TypeInv, RowsOK, TruthInv, [Next]_vars, NEW p \in Payments
  PROVE  RowKnows(p)'
<1>1. RowKnows(p) /\ RelaysKnow
  BY DEF TruthInv
<1>2. ledger[p] # None => ledger'[p] = ledger[p]
  BY PastStays
<1>3. posted'[p] => payment'[p].status # "absent"
  <2>1. CASE posted[p]
    BY <1>1, <2>1, RowsStayThere DEF RowKnows
  <2>2. ASSUME ~posted[p], posted'[p]
        PROVE  payment'[p].status # "absent"
    <3>1. PICK h \in Handlers : PostCharge(h)
      BY <2>2, WritersOfPosted
    <3>2. pc[h] = "call" /\ WorksOn(h).payment = p
      BY <2>2, <3>1 DEF PostCharge, At, TypeInv, TypeOK
    <3>3. payment[p].status # "absent"
      BY <3>2 DEF TruthInv, HandlerKnows
    <3>4. QED
      BY <3>3, RowsStayThere
  <2>3. QED
    BY <2>1, <2>2
<1>4. payment'[p].status \in Terminal =>
        ledger'[p] # None /\ payment'[p].status = StatusFor(ledger'[p])
  <2>1. CASE SettlesNow(p)
    <3>1. PICK v \in Verdicts : InHand(p, v) /\ payment'[p].status = StatusFor(v)
      BY <2>1 DEF SettlesNow
    <3>2. ledger[p] = v /\ v # None
      BY <3>1 DEF InHand, TruthInv, HandlerKnows, ReconcilerKnows
    <3>3. QED
      BY <1>2, <3>1, <3>2
  <2>2. CASE LeavesOpen(p)
    BY <1>1, <1>2, <2>2, SettledStays DEF LeavesOpen, RowKnows
  <2>3. QED
    BY <1>1, <2>1, <2>2, Settlements
<1>5. QED
  BY <1>3, <1>4 DEF RowKnows

\* One webhook event per settled payment, and none before.
LEMMA OneEventStays ==
  ASSUME TypeInv, RowsOK, TruthInv, [Next]_vars
  PROVE  OneWebhookEvent'
<1> SUFFICES ASSUME NEW p \in Payments
             PROVE  {w \in WebhookIds : outbox'[WebhookEvent(p, w)] # "absent"} =
                      IF payment'[p].status \in Terminal
                        THEN {payment'[p].webhook_event_id} ELSE {}
  BY DEF OneWebhookEvent
<1> DEFINE Ids == {w \in WebhookIds : outbox[WebhookEvent(p, w)] # "absent"}
           Ids2 == {w \in WebhookIds : outbox'[WebhookEvent(p, w)] # "absent"}
<1>1. Ids = IF payment[p].status \in Terminal THEN {payment[p].webhook_event_id}
                                             ELSE {}
  BY DEF TruthInv, OneWebhookEvent
<1>2. CASE SettlesNow(p)
  <2>1. PICK v \in Verdicts, w \in WebhookIds :
          /\ payment[p].status \in {"pending", "unknown"}
          /\ payment'[p].status = StatusFor(v)
          /\ payment'[p].webhook_event_id = w
          /\ \A x \in WebhookIds : outbox'[WebhookEvent(p, x)] # "absent"
                             <=> outbox[WebhookEvent(p, x)] # "absent" \/ x = w
    BY <1>2 DEF SettlesNow
  <2>2. Ids = {} /\ payment'[p].status \in Terminal
    BY <1>1, <2>1 DEF StatusFor, Terminal
  <2>3. Ids2 = {w}
    BY <2>1, <2>2
  <2>4. QED
    BY <2>1, <2>2, <2>3
<1>3. CASE LeavesOpen(p)
  <2>1. Ids2 = Ids
    BY <1>3 DEF LeavesOpen
  <2>2. payment[p].status \in Terminal =>
          payment'[p].webhook_event_id = payment[p].webhook_event_id
    BY SettledStays
  <2>3. QED
    BY <1>1, <1>3, <2>1, <2>2 DEF LeavesOpen
<1>4. QED
  BY <1>2, <1>3, Settlements DEF TruthInv

\* A delivery puts into received what the row says.
LEMMA DeliversTruth ==
  ASSUME TypeInv, TruthInv, NEW h \in Handlers, Deliver(h)
  PROVE  LET p == WorksOn(h).payment
         IN  /\ p \in Payments
             /\ payment[p].status \in Terminal
             /\ [id |-> WorksOn(h).id, status |-> result[h]]
                  = [id |-> payment[p].webhook_event_id,
                     status |-> payment[p].status]
<1> DEFINE p == WorksOn(h).payment
<1>1. pc[h] = "deliver"
  BY DEF Deliver, At
<1>2. /\ WorksOn(h).type = "webhook.delivery_requested"
      /\ WorksOn(h) \in Events /\ p \in Payments
      /\ result[h] = payment[p].status
      /\ outbox[WorksOn(h)] # "absent"
  BY <1>1, BusyHandler
  DEF TypeInv, HandlersOK, WorksOn, TruthInv, HandlerKnows
<1>3. WebhookMatches(payment[p], WorksOn(h).id)
  BY <1>2, WebhookIsNamed DEF TruthInv
<1>4. QED
  BY <1>2, <1>3 DEF WebhookMatches

\* A notice that was received stays true, and a webhook counts as sent only
\* once one was.
LEMMA NoticesStayTrue ==
  ASSUME TypeInv, RowsOK, TruthInv, [Next]_vars
  PROVE  NoticesAgree'
<1> SUFFICES ASSUME NEW p \in Payments
             PROVE  /\ \A n \in received'[p] :
                         n = [id |-> payment'[p].webhook_event_id,
                              status |-> payment'[p].status]
                    /\ payment'[p].webhook_sent => received'[p] # {}
  BY DEF NoticesAgree
<1>1. received \in [Payments -> SUBSET Notices]
  BY DEF TypeInv, TypeOK
<1>2. ASSUME NEW n \in received'[p]
      PROVE  n = [id |-> payment'[p].webhook_event_id,
                  status |-> payment'[p].status]
  <2>1. CASE n \in received[p]
    <3>1. n = [id |-> payment[p].webhook_event_id, status |-> payment[p].status]
      BY <2>1 DEF TruthInv, NoticesAgree
    <3>2. n \in Notices
      BY <1>1, <2>1
    <3>3. payment[p].status \in Terminal
      BY <3>1, <3>2 DEF Notices
    <3>4. QED
      BY <3>1, <3>3, SettledStays
  <2>2. CASE n \notin received[p]
    <3>1. PICK h \in Handlers : Deliver(h)
      BY <1>2, <2>2, WritersOfReceived
    <3>2. \/ UNCHANGED received
          \/ received' = [received EXCEPT ![WorksOn(h).payment] = @ \cup
                            {[id |-> WorksOn(h).id, status |-> result[h]]}]
      BY <3>1 DEF Deliver
    <3>3. WorksOn(h).payment = p
          /\ n = [id |-> WorksOn(h).id, status |-> result[h]]
      BY <1>1, <1>2, <2>2, <3>2
    <3>4. UNCHANGED payment
      BY <3>1 DEF Deliver, tables
    <3>5. QED
      BY <3>1, <3>3, <3>4, DeliversTruth
  <2>3. QED
    BY <2>1, <2>2
<1>3. ASSUME payment'[p].webhook_sent
      PROVE  received'[p] # {}
  <2>1. received[p] # {}
    BY <1>3, SentByMarkSent DEF TruthInv, NoticesAgree, HandlerKnows
  <2>2. QED
    BY <2>1, PastStays
<1>4. QED
  BY <1>2, <1>3

LEMMA TruthStep == TypeInv /\ RowsOK /\ TruthInv /\ [Next]_vars => TruthInv'
<1> SUFFICES ASSUME TypeInv, RowsOK, TruthInv, [Next]_vars PROVE TruthInv'
  OBVIOUS
<1>1. \A h \in Handlers : HandlerKnows(h)'
  BY HandlersLearn
<1>2. \A c \in Reconcilers : ReconcilerKnows(c)'
  BY ReconcilersLearn
<1>3. \A p \in Payments : RowKnows(p)'
  BY RowsLearn
<1>4. QED
  BY <1>1, <1>2, <1>3, RelaysLearn, QueuesLearn, OneEventStays, NoticesStayTrue
  DEF TruthInv

-----------------------------------------------------------------------------
(* PaymentFlow implements PaymentContract.                                 *)

\* What the contract speaks of, in terms of the tables and of what was
\* received.
Shown == [p \in Payments |-> ToPublicStatus(payment[p].status)]
Told == [p \in Payments |-> {n.status : n \in received[p]}]
Notified == [p \in Payments |-> payment[p].webhook_sent]

LEMMA InitRefines == Init => Contract!ContractInit
<1> SUFFICES ASSUME Init PROVE Contract!ContractInit
  OBVIOUS
<1>1. Shown = [p \in Payments |-> "absent"]
  BY DEF Init, Shown, NoRow, ToPublicStatus
<1>2. Told = [p \in Payments |-> {}]
  BY DEF Init, Told
<1>3. Notified = [p \in Payments |-> FALSE]
  BY DEF Init, Notified, NoRow
<1>4. QED
  BY <1>1, <1>2, <1>3 DEF Init, Contract!ContractInit, Shown, Told, Notified

\* A step that rewrites one row shows nothing else.
LEMMA OneRowShown ==
  ASSUME NEW p \in Payments, \A o \in Payments \ {p} : payment'[o] = payment[o]
  PROVE  /\ Shown' = [Shown EXCEPT ![p] = ToPublicStatus(payment'[p].status)]
         /\ Notified' = [Notified EXCEPT ![p] = payment'[p].webhook_sent]
BY DEF Shown, Notified

\* A step that leaves statuses and sent marks as they are shows nothing.
LEMMA NothingShown ==
  ASSUME \A p \in Payments :
           /\ ToPublicStatus(payment'[p].status) = ToPublicStatus(payment[p].status)
           /\ payment'[p].webhook_sent = payment[p].webhook_sent,
         UNCHANGED <<ledger, received>>
  PROVE  UNCHANGED Contract!contractVars
<1>1. Shown' = Shown /\ Told' = Told /\ Notified' = Notified
  BY DEF Shown, Told, Notified
<1>2. QED
  BY <1>1 DEF Contract!contractVars, Shown, Told, Notified

\* Whatever rewriting of one row the code contains, it accepts, reports or
\* notifies, or nobody outside sees it.
LEMMA RowRefines ==
  ASSUME TypeInv, RowsOK, TruthInv, [Next]_vars, NEW p \in Payments,
         \A o \in Payments \ {p} : payment'[o] = payment[o],
         UNCHANGED <<ledger, received>>
  PROVE  Contract!ContractNext \/ UNCHANGED Contract!contractVars
<1>1. RowStep(p) /\ payment[p] \in Rows
  BY RowSteps DEF TypeInv, TypeOK, Rows
<1>2. /\ Shown' = [Shown EXCEPT ![p] = ToPublicStatus(payment'[p].status)]
      /\ Notified' = [Notified EXCEPT ![p] = payment'[p].webhook_sent]
      /\ Told' = Told
      /\ Shown[p] = ToPublicStatus(payment[p].status)
      /\ Notified[p] = payment[p].webhook_sent
      /\ DOMAIN Shown = Payments /\ DOMAIN Notified = Payments
  BY OneRowShown DEF Shown, Notified, Told
<1>3. CASE payment'[p].webhook_sent = payment[p].webhook_sent
  <2>1. Notified' = Notified
    BY <1>2, <1>3 DEF Notified
  <2>2. CASE ToPublicStatus(payment'[p].status) = ToPublicStatus(payment[p].status)
    <3>1. Shown' = Shown
      BY <1>2, <2>2 DEF Shown
    <3>2. QED
      BY <1>2, <2>1, <3>1 DEF Contract!contractVars, Shown, Told, Notified
  <2>3. CASE payment[p].status = "absent" /\ payment'[p] = NewPayment
    <3>1. Shown[p] = "absent" /\ Shown' = [Shown EXCEPT ![p] = "pending"]
      BY <1>2, <2>3 DEF NewPayment, NoRow, ToPublicStatus
    <3>2. Contract!Accept(p)
      BY <1>2, <2>1, <3>1 DEF Contract!Accept, Shown, Told, Notified
    <3>3. QED
      BY <3>2 DEF Contract!ContractNext
  <2>4. CASE /\ payment[p].status \in {"pending", "unknown"}
             /\ payment'[p].status \in Terminal
    <3>1. RowKnows(p)'
      BY RowsLearn
    <3>2. ledger[p] # None /\ payment'[p].status = StatusFor(ledger[p])
      BY <2>4, <3>1 DEF RowKnows
    <3>3. Shown[p] = "pending" /\ Shown' = [Shown EXCEPT ![p] = StatusFor(ledger[p])]
      BY <1>2, <2>4, <3>2 DEF ToPublicStatus, Terminal
    <3>4. Contract!Report(p)
      BY <1>2, <2>1, <3>2, <3>3
      DEF Contract!Report, Contract!StatusFor, StatusFor, Shown, Told, Notified
    <3>5. QED
      BY <3>4 DEF Contract!ContractNext
  <2>5. \/ payment'[p].status = payment[p].status
        \/ payment[p].status = "pending" /\ payment'[p].status = "unknown"
        \/ payment[p].status = "absent" /\ payment'[p] = NewPayment
        \/ /\ payment[p].status \in {"pending", "unknown"}
           /\ payment'[p].status \in Terminal
    <3>1. CASE SettlesRow(p, payment[p], payment'[p])
               /\ payment[p].status \in {"pending", "unknown"}
      BY <1>1, <3>1, SettledColumns
    <3>2. CASE payment'[p] = Unresolved(payment[p], ReconciliationMaxAttempts)
      BY <1>1, <3>2, UnresolvedColumns
    <3>3. CASE /\ ~(SettlesRow(p, payment[p], payment'[p])
                     /\ payment[p].status \in {"pending", "unknown"})
               /\ payment'[p] # Unresolved(payment[p], ReconciliationMaxAttempts)
      BY <1>1, <3>3 DEF RowStep, Reconcilable, Rows, PaymentRows
    <3>4. QED
      BY <3>1, <3>2, <3>3
  <2>6. QED
    BY <2>2, <2>3, <2>4, <2>5 DEF ToPublicStatus
<1>4. CASE payment'[p].webhook_sent # payment[p].webhook_sent
  <2>1. payment'[p] = [payment[p] EXCEPT !.webhook_sent = TRUE]
    <3>1. ~SettlesRow(p, payment[p], payment'[p])
      BY <1>1, <1>4, SettledColumns
    <3>2. payment'[p] # Unresolved(payment[p], ReconciliationMaxAttempts)
      BY <1>1, <1>4, UnresolvedColumns
    <3>3. payment[p].status = "absent" => payment[p] = NoRow
      BY DEF RowsOK
    <3>4. payment[p].status = "absent" => payment'[p] # NewPayment
      BY <1>4, <3>3 DEF NewPayment, NoRow
    <3>5. /\ payment'[p] # [payment[p] EXCEPT !.status = "unknown"]
          /\ \A t \in Tokens : payment'[p] # [payment[p] EXCEPT !.lease_token = t]
      BY <1>1, <1>4 DEF Rows, PaymentRows
    <3>6. QED
      BY <1>1, <1>4, <3>1, <3>2, <3>4, <3>5 DEF RowStep
  <2>2. payment'[p].status = payment[p].status /\ payment'[p].webhook_sent = TRUE
    BY <1>1, <2>1 DEF Rows, PaymentRows
  <2>3. Shown' = Shown /\ Notified' = [Notified EXCEPT ![p] = TRUE]
    BY <1>2, <2>2 DEF Shown
  <2>4. received[p] # {}
    <3>1. NoticesAgree'
      BY NoticesStayTrue
    <3>2. received'[p] # {}
      BY <2>2, <3>1 DEF NoticesAgree
    <3>3. QED
      BY <3>2
  <2>5. Told[p] # {}
    BY <2>4 DEF Told
  <2>6. Contract!Notify(p)
    BY <1>2, <2>3, <2>5 DEF Contract!Notify, Shown, Told, Notified
  <2>7. QED
    BY <2>6 DEF Contract!ContractNext
<1>5. QED
  BY <1>3, <1>4

\* A decision of the provider is one of the contract: until it is made the
\* API shows a payment that was posted as pending.
LEMMA DecisionRefines ==
  ASSUME TypeInv, TruthInv, NEW p \in Payments, ProviderDecides(p)
  PROVE  Contract!Decide(p)
<1>1. payment[p] \in Rows
  BY DEF TypeInv, TypeOK, Rows
<1>2. payment[p].status \in {"pending", "unknown"}
  BY <1>1 DEF ProviderDecides, TruthInv, RowKnows, Rows, PaymentRows,
     PaymentStatus, Terminal
<1>3. Shown[p] = "pending"
  BY <1>2 DEF Shown, ToPublicStatus
<1>4. Shown' = Shown /\ Told' = Told /\ Notified' = Notified
  BY DEF ProviderDecides, tables, Shown, Told, Notified
<1>5. ledger[p] = None /\ \E v \in Verdicts : ledger' = [ledger EXCEPT ![p] = v]
  BY DEF ProviderDecides
<1>6. QED
  BY <1>3, <1>4, <1>5
  DEF Contract!Decide, Contract!Verdicts, Verdicts, Shown, Told, Notified

\* A notice tells what the API shows.
LEMMA DeliveryRefines ==
  ASSUME TypeInv, TruthInv, NEW h \in Handlers, Deliver(h)
  PROVE  Contract!ContractNext \/ UNCHANGED Contract!contractVars
<1>0. PICK p \in Payments : p = WorksOn(h).payment
  BY DeliversTruth
<1> DEFINE notice == [id |-> WorksOn(h).id, status |-> result[h]]
<1>1. /\ p \in Payments /\ payment[p].status \in Terminal
      /\ result[h] = payment[p].status
  BY <1>0, DeliversTruth
<1>2. Shown' = Shown /\ Notified' = Notified /\ ledger' = ledger
  BY DEF Deliver, tables, Shown, Notified
<1>3. \/ UNCHANGED received
      \/ received' = [received EXCEPT ![p] = @ \cup {notice}]
  BY <1>0 DEF Deliver
<1>4. Shown[p] = payment[p].status
  BY <1>1 DEF Shown, ToPublicStatus, Terminal
<1>5. CASE UNCHANGED received
  <2>1. Told' = Told
    BY <1>5 DEF Told
  <2>2. QED
    BY <1>2, <2>1 DEF Contract!contractVars, Shown, Told, Notified
<1>6. CASE received' = [received EXCEPT ![p] = @ \cup {notice}]
  <2>1. received \in [Payments -> SUBSET Notices]
    BY DEF TypeInv, TypeOK
  <2>2. notice.status = Shown[p]
    BY <1>1, <1>4
  <2> HIDE DEF notice
  <2>3. ASSUME NEW o \in Payments
        PROVE  {n.status : n \in received'[o]} =
                 IF o = p THEN {n.status : n \in received[o]} \cup {notice.status}
                          ELSE {n.status : n \in received[o]}
    BY <1>1, <1>6, <2>1
  <2>4. Told' = [Told EXCEPT ![p] = @ \cup {Shown[p]}]
    BY <1>1, <2>2, <2>3 DEF Told
  <2>5. Shown[p] \in Terminal
    BY <1>1, <1>4
  <2>6. Contract!Tell(p)
    BY <1>2, <2>4, <2>5
    DEF Contract!Tell, Contract!Terminal, Terminal, Shown, Told, Notified
  <2>7. QED
    BY <1>1, <2>6 DEF Contract!ContractNext
<1>7. QED
  BY <1>3, <1>5, <1>6

\* A claim changes leases only.
LEMMA ClaimRefines ==
  ASSUME TypeInv, NEW c \in Reconcilers, ClaimBatch(c)
  PROVE  UNCHANGED Contract!contractVars
<1>1. PICK b \in SUBSET Payments, t \in Tokens :
        payment' = [o \in Payments |->
          IF o \in b THEN [payment[o] EXCEPT !.lease_token = t]
                     ELSE payment[o]]
  BY DEF ClaimBatch, FreshTokens
<1>2. payment \in [Payments -> Rows]
  BY DEF TypeInv, TypeOK, Rows
<1>3. \A p \in Payments :
        /\ payment'[p].status = payment[p].status
        /\ payment'[p].webhook_sent = payment[p].webhook_sent
  BY <1>1, <1>2 DEF Rows, PaymentRows
<1>4. UNCHANGED <<ledger, received>>
  BY DEF ClaimBatch, outsideVars
<1>5. QED
  BY <1>3, <1>4, NothingShown

LEMMA NextRefines ==
  TypeInv /\ RowsOK /\ TruthInv /\ [Next]_vars
    => [Contract!ContractNext]_Contract!contractVars
<1> SUFFICES ASSUME TypeInv, RowsOK, TruthInv, [Next]_vars
             PROVE  Contract!ContractNext \/ UNCHANGED Contract!contractVars
  OBVIOUS
<1>1. ASSUME NEW p \in Payments, ProviderDecides(p)
      PROVE  Contract!ContractNext
  BY <1>1, DecisionRefines DEF Contract!ContractNext
<1>2. ASSUME NEW p \in Payments, UNCHANGED <<ledger, received>>,
             \A o \in Payments \ {p} : payment'[o] = payment[o]
      PROVE  Contract!ContractNext \/ UNCHANGED Contract!contractVars
  BY <1>2, RowRefines
<1>3. payment \in [Payments -> Rows]
  BY DEF TypeInv, TypeOK, Rows
<1>4. ASSUME NEW p \in Payments, CreatePayment(p)
      PROVE  Contract!ContractNext \/ UNCHANGED Contract!contractVars
  <2>1. UNCHANGED <<ledger, received>>
        /\ payment' = [payment EXCEPT ![p] = NewPayment]
    BY <1>4 DEF CreatePayment, outsideVars
  <2>2. QED
    BY <1>2, <1>3, <2>1
<1>5. ASSUME NEW h \in Handlers, ApplyResult(h) \/ MarkUnknown(h) \/ MarkSent(h)
      PROVE  Contract!ContractNext \/ UNCHANGED Contract!contractVars
  <2> DEFINE p == WorksOn(h).payment
  <2>1. pc[h] # "idle" /\ UNCHANGED <<ledger, received>>
    BY <1>5 DEF ApplyResult, MarkUnknown, MarkSent, At, outsideVars
  <2>2. p \in Payments
    BY <2>1, BusyHandler
  <2>3. UNCHANGED payment \/ \E row : payment' = [payment EXCEPT ![p] = row]
    BY <1>5 DEF ApplyResult, MarkUnknown, MarkSent, Settle, tables
  <2> HIDE DEF p
  <2>4. \A o \in Payments \ {p} : payment'[o] = payment[o]
    BY <1>3, <2>3
  <2>5. QED
    BY <1>2, <2>1, <2>2, <2>4
<1>6. ASSUME NEW c \in Reconcilers, PersistResolution(c)
      PROVE  Contract!ContractNext \/ UNCHANGED Contract!contractVars
  <2> DEFINE p == recon[c].target
  <2>1. p \in Payments /\ UNCHANGED <<ledger, received>>
    BY <1>6 DEF PersistResolution, TypeInv, ReconcilersOK, outsideVars
  <2>2. UNCHANGED payment \/ \E row : payment' = [payment EXCEPT ![p] = row]
    BY <1>6 DEF PersistResolution, Settle, tables
  <2> HIDE DEF p
  <2>3. \A o \in Payments \ {p} : payment'[o] = payment[o]
    BY <1>3, <2>2
  <2>4. QED
    BY <1>2, <2>1, <2>3
<1>7. ASSUME UNCHANGED payment, UNCHANGED ledger, UNCHANGED received
      PROVE  UNCHANGED Contract!contractVars
  BY <1>7, NothingShown
<1>8. QED
  BY <1>1, <1>4, <1>5, <1>6, <1>7, ClaimRefines, DeliveryRefines,
     WritersOfPayment, WritersOfLedger, WritersOfReceived

-----------------------------------------------------------------------------
\* The invariant holds, with the types and the shape of the rows.
THEOREM Truth == Spec => [](TypeInv /\ RowsOK /\ TruthInv)
<1>1. QED
  BY TypeInvInit, TypeInvStep, RowsOKInit, RowsStayOK, TruthInit, TruthStep, PTL
  DEF Spec

\* A settled payment has exactly one webhook event, however many handlers and
\* reconcilers got a verdict for it.
THEOREM OneEventEach == Spec => []OneWebhookEvent
<1>1. TruthInv => OneWebhookEvent
  BY DEF TruthInv
<1>2. QED
  BY <1>1, Truth, PTL

\* Every notice, duplicates included, has the one id and the final status of
\* its payment, and a payment whose webhook counts as sent was told.
THEOREM NoticesAreOne == Spec => []NoticesAgree
<1>1. TruthInv => NoticesAgree
  BY DEF TruthInv
<1>2. QED
  BY <1>1, Truth, PTL

\* The guards that would dead-letter a webhook message never fire.
THEOREM NoWebhookRefused == Spec => []WebhookNeverRefused
<1>1. TypeInv /\ TruthInv => WebhookNeverRefused
  <2>1. SUFFICES ASSUME TypeInv, TruthInv, NEW h \in Handlers, pc[h] # "idle",
                        WorksOn(h).type = "webhook.delivery_requested"
                 PROVE  WebhookMatches(RowOf(h), WorksOn(h).id)
    BY DEF WebhookNeverRefused
  <2>2. WorksOn(h) \in Events /\ outbox[WorksOn(h)] # "absent"
    BY <2>1, BusyHandler DEF TruthInv, HandlerKnows
  <2>3. QED
    BY <2>1, <2>2, WebhookIsNamed DEF TruthInv, RowOf
<1>2. QED
  BY <1>1, Truth, PTL

\* The service implements its contract: the API shows the provider's decision
\* and no other, the webhook tells what the API shows, and it counts as sent
\* only when it was received, for any number of payments, workers and faults.
THEOREM FlowRefines == Spec => KeepsContract
<1>1. QED
  BY Truth, InitRefines, NextRefines, PTL
  DEF Spec, KeepsContract, Contract!ContractSpec

-----------------------------------------------------------------------------
(* Nobody is forgotten: the safety core of the liveness property.          *)

\* A row was committed with its request, and manual review has the price of
\* the whole budget.
RowsEarned ==
  \A p \in Payments :
    /\ payment[p].status # "absent" => outbox[ProcessEvent(p)] # "absent"
    /\ payment[p].manual_review => payment[p].attempts = ReconciliationMaxAttempts

LEMMA RowsEarnedInit == Init => RowsEarned
BY DEF Init, RowsEarned, NoRow

\* Only the API makes a row, and it writes the row's request with it.
LEMMA OnlyCreated ==
  ASSUME TypeInv, [Next]_vars, NEW p \in Payments,
         payment[p].status = "absent", payment'[p] # payment[p]
  PROVE  CreatePayment(p)
<1>1. payment \in [Payments -> Rows]
  BY DEF TypeInv, TypeOK, Rows
<1>2. ASSUME NEW o \in Payments, CreatePayment(o)
      PROVE  o = p
  BY <1>1, <1>2 DEF CreatePayment
<1>3. ASSUME NEW h \in Handlers, ApplyResult(h) \/ MarkUnknown(h) \/ MarkSent(h)
      PROVE  FALSE
  <2>1. /\ pc[h] \in {"apply", "mark_unknown", "mark_sent"}
        /\ WorksOn(h).payment \in Payments
    BY <1>3, BusyHandler DEF ApplyResult, MarkUnknown, MarkSent, At
  <2>2. WorksOn(h).payment # p
    <3>1. ASSUME WorksOn(h).payment = p
          PROVE  UNCHANGED payment
      BY <1>3, <3>1 DEF ApplyResult, MarkUnknown, MarkSent, RowOf,
         WebhookMatches, Terminal, tables
    <3>2. QED
      BY <3>1
  <2>3. ASSUME ApplyResult(h)
        PROVE  payment'[p] = payment[p]
    <3>1. result[h] \in Verdicts
      BY <2>3 DEF ApplyResult, At, TypeInv, HandlersOK
    <3>2. QED
      BY <2>1, <2>2, <2>3, <3>1, SettleRow DEF ApplyResult, tables
  <2>4. QED
    BY <1>1, <1>3, <2>1, <2>2, <2>3 DEF MarkUnknown, MarkSent
<1>4. ASSUME NEW c \in Reconcilers, ClaimBatch(c)
      PROVE  FALSE
  <2>1. ~Reconcilable(payment[p])
    BY DEF Reconcilable
  <2>2. QED
    BY <1>4, <2>1 DEF ClaimBatch
<1>5. ASSUME NEW c \in Reconcilers, PersistResolution(c)
      PROVE  FALSE
  <2>1. PICK o \in Payments : o = recon[c].target
    BY <1>5 DEF PersistResolution, TypeInv, ReconcilersOK
  <2>2. recon[c].answer \in Verdicts \cup {None}
    BY DEF TypeInv, TypeOK, ReconStates
  <2>3. /\ Reconcilable(payment[o])
        /\ \/ payment' = [payment EXCEPT ![o] =
                Unresolved(payment[o], ReconciliationMaxAttempts)]
           \/ recon[c].answer # None /\ Settle(o, recon[c].answer)
    BY <1>5, <2>1 DEF PersistResolution, Renewable, tables
  <2>4. o # p
    BY <2>3 DEF Reconcilable
  <2>5. QED
    BY <1>1, <2>2, <2>3, <2>4, SettleRow
<1>6. QED
  BY <1>2, <1>3, <1>4, <1>5, WritersOfPayment

LEMMA RowsEarnedStep ==
  ASSUME TypeInv, RowsOK, RowsEarned, [Next]_vars
  PROVE  RowsEarned'
<1> SUFFICES ASSUME NEW p \in Payments
             PROVE  /\ payment'[p].status # "absent" =>
                         outbox'[ProcessEvent(p)] # "absent"
                    /\ payment'[p].manual_review =>
                         payment'[p].attempts = ReconciliationMaxAttempts
  BY DEF RowsEarned, ProcessEvent
<1>1. payment[p] \in Rows /\ payment'[p] \in Rows /\ RowStep(p)
  BY RowSteps, PaymentTyped DEF TypeInv, TypeOK, Rows
<1>2. ProcessEvent(p) \in Events
  BY EventsExist
<1>3. ASSUME payment'[p].status # "absent"
      PROVE  outbox'[ProcessEvent(p)] # "absent"
  <2>1. CASE payment[p].status # "absent"
    BY <1>2, <2>1, PastStays DEF RowsEarned
  <2>2. CASE payment[p].status = "absent"
    <3>1. CreatePayment(p)
      BY <1>3, <2>2, OnlyCreated
    <3>2. QED
      BY <1>2, <3>1 DEF CreatePayment, TypeInv, TypeOK
  <2>3. QED
    BY <2>1, <2>2
<1>4. ASSUME payment'[p].manual_review
      PROVE  payment'[p].attempts = ReconciliationMaxAttempts
  <2>1. CASE payment[p].manual_review
    BY <2>1, SettledRowsStep DEF RowsEarned
  <2>2. CASE ~payment[p].manual_review
    <3>1. ~SettlesRow(p, payment[p], payment'[p])
      BY <1>1, <1>4, <2>2, SettledColumns
    <3>2. payment'[p] # payment[p] /\ payment'[p] # NewPayment
      BY <1>4, <2>2 DEF NewPayment, NoRow
    <3>3. /\ payment'[p] # [payment[p] EXCEPT !.status = "unknown"]
          /\ payment'[p] # [payment[p] EXCEPT !.webhook_sent = TRUE]
      BY <1>1, <1>4, <2>2 DEF Rows, PaymentRows
    <3>4. ASSUME NEW t \in Tokens,
                 payment'[p] = [payment[p] EXCEPT !.lease_token = t]
          PROVE  FALSE
      BY <1>1, <1>4, <2>2, <3>4 DEF Rows, PaymentRows
    <3>5. payment'[p] = Unresolved(payment[p], ReconciliationMaxAttempts)
      BY <1>1, <3>1, <3>2, <3>3, <3>4 DEF RowStep
    <3>6. /\ payment'[p].attempts = payment[p].attempts + 1
          /\ payment'[p].manual_review =
               (payment[p].attempts + 1 >= ReconciliationMaxAttempts)
      BY <1>1, <2>2, <3>5 DEF Unresolved, Rows, PaymentRows
    <3>7. payment[p].attempts + 1 >= ReconciliationMaxAttempts
      BY <1>4, <3>6
    <3>8. /\ payment[p].attempts \in Nat /\ ReconciliationMaxAttempts \in Nat
          /\ payment'[p].attempts <= ReconciliationMaxAttempts
      BY <1>1, BoundsAssumption DEF Rows, PaymentRows, Attempts
    <3>9. QED
      BY <3>6, <3>7, <3>8
  <2>3. QED
    BY <2>1, <2>2
<1>5. QED
  BY <1>3, <1>4

\* A payment that is not at rest is in somebody's hands, whatever crashed and
\* however often its messages failed: its request or its webhook is in the
\* outbox or under way, or reconcilers have attempts left to find it out.
THEOREM NoneForgotten == Spec => []NobodyForgotten
<1>1. TypeInv /\ RowsOK /\ TruthInv /\ RowsEarned /\ NothingLost
        => NobodyForgotten
  <2> SUFFICES ASSUME TypeInv, RowsOK, TruthInv, RowsEarned, NothingLost,
                      NEW p \in Payments
               PROVE  LET row == payment[p]
                          Awaits(e) == outbox[e] = "unpublished" \/ Carried(e)
                      IN  /\ row.status = "pending" => Awaits(ProcessEvent(p))
                          /\ row.status \in Terminal =>
                               \/ row.webhook_sent
                               \/ Awaits(WebhookEvent(p, row.webhook_event_id))
                          /\ row.manual_review
                               <=> row.attempts = ReconciliationMaxAttempts
    BY DEF NobodyForgotten
  <2>1. payment[p] \in Rows
    BY DEF TypeInv, TypeOK, Rows
  <2>2. ASSUME payment[p].status = "pending"
        PROVE  outbox[ProcessEvent(p)] = "unpublished" \/ Carried(ProcessEvent(p))
    <3>1. ProcessEvent(p) \in Events /\ outbox[ProcessEvent(p)] # "absent"
      BY <2>2, EventsExist DEF RowsEarned
    <3>2. ~Done(ProcessEvent(p))
      BY <2>2 DEF Done, ProcessEvent
    <3>3. QED
      BY <3>1, <3>2 DEF NothingLost
  <2>3. ASSUME payment[p].status \in Terminal, ~payment[p].webhook_sent
        PROVE  LET e == WebhookEvent(p, payment[p].webhook_event_id)
               IN  outbox[e] = "unpublished" \/ Carried(e)
    <3>1. PICK w \in WebhookIds : w = payment[p].webhook_event_id
      BY <2>1, <2>3 DEF RowsOK, Rows, PaymentRows
    <3>2. WebhookEvent(p, w) \in Events /\ outbox[WebhookEvent(p, w)] # "absent"
      BY <2>3, <3>1, EventsExist DEF TruthInv, OneWebhookEvent
    <3>3. ~Done(WebhookEvent(p, w))
      BY <2>3 DEF Done, WebhookEvent
    <3>4. QED
      BY <3>1, <3>2, <3>3 DEF NothingLost
  <2>4. /\ payment[p].manual_review =>
             payment[p].attempts = ReconciliationMaxAttempts
        /\ ~payment[p].manual_review =>
             payment[p].attempts < ReconciliationMaxAttempts
    BY DEF TypeInv, BudgetLeft, RowsEarned
  <2>5. ~(ReconciliationMaxAttempts < ReconciliationMaxAttempts)
    BY BoundsAssumption
  <2>6. QED
    BY <2>2, <2>3, <2>4, <2>5
<1>2. QED
  BY <1>1, Truth, NoWorkLost, RowsEarnedInit, RowsEarnedStep, PTL DEF Spec

-----------------------------------------------------------------------------
(* Duplicates need faults.                                                 *)

\* The relays' transactions hold rows of their own, all unpublished.
RelaysApart ==
  \A r \in Relays :
    /\ \A e \in Locked(r) : outbox[e] = "unpublished"
    /\ batch[r] \cap marked[r] = {}
    /\ \A s \in Relays \ {r} : Locked(r) \cap Locked(s) = {}

\* A payment that is not there has no request in the outbox.
RequestsNeedRows ==
  \A p \in Payments :
    outbox[ProcessEvent(p)] # "absent" => payment[p].status # "absent"

Unsent(e) == outbox[e] # "published" /\ \A r \in Relays : e \notin marked[r]

Carries(h, e) == pc[h] \notin {"idle", "ack"} /\ msg[h].event = e

\* The event has one copy at most, and none before it is published.
Lone(e) ==
  /\ \A q \in Queues, m \in Messages : m.event = e => queue[q][m] <= 1
  /\ \A q \in Queues, m \in Messages, s \in Queues, n \in Messages :
       /\ m.event = e /\ queue[q][m] > 0
       /\ n.event = e /\ queue[s][n] > 0
       => q = s /\ m = n
  /\ \A h \in Handlers, k \in Handlers : Carries(h, e) /\ Carries(k, e) => h = k
  /\ \A h \in Handlers, q \in Queues, m \in Messages :
       Carries(h, e) /\ m.event = e => queue[q][m] = 0
  /\ Unsent(e) => /\ \A h \in Handlers : ~Carries(h, e)
                  /\ \A q \in Queues, m \in Messages :
                       m.event = e => queue[q][m] = 0

LoneInv ==
  /\ RelaysApart
  /\ RequestsNeedRows
  /\ faults = 0 => \A e \in Events : Lone(e)

LEMMA LoneInit == Init => LoneInv
BY DEF Init, LoneInv, RelaysApart, RequestsNeedRows, Lone, Carries, Locked,
   Events

\* An event enters the outbox unpublished, with its payment or as a fresh
\* webhook, and is published by the relay that sent it.
LEMMA OutboxMoves ==
  ASSUME TypeInv, [Next]_vars, NEW e \in Events, outbox'[e] # outbox[e]
  PROVE  \/ /\ outbox'[e] = "unpublished"
            /\ \/ outbox[e] = "absent" /\ e.type = "webhook.delivery_requested"
               \/ \E p \in Payments : CreatePayment(p) /\ e = ProcessEvent(p)
         \/ outbox'[e] = "published" /\ \E r \in Relays :
                                          CommitBatch(r) /\ e \in marked[r]
<1> DEFINE FreshWebhook == /\ outbox[e] = "absent" /\ outbox'[e] = "unpublished"
                           /\ e.type = "webhook.delivery_requested"
<1>1. outbox \in [Events -> {"absent", "unpublished", "published"}]
  BY DEF TypeInv, TypeOK
<1>2. ASSUME NEW p \in Payments, CreatePayment(p)
      PROVE  e = ProcessEvent(p) /\ outbox'[e] = "unpublished"
  BY <1>1, <1>2, EventsExist DEF CreatePayment
<1>3. ASSUME NEW r \in Relays, CommitBatch(r)
      PROVE  e \in marked[r] /\ outbox'[e] = "published"
  BY <1>3 DEF CommitBatch
<1>4. ASSUME NEW p \in Payments, NEW v, Settle(p, v)
      PROVE  FreshWebhook
  <2>1. PICK w \in WebhookIds :
          /\ outbox' = [outbox EXCEPT ![WebhookEvent(p, w)] = "unpublished"]
          /\ outbox[WebhookEvent(p, w)] = "absent"
    BY <1>4 DEF Settle, FreshWebhookIds
  <2>2. e = WebhookEvent(p, w)
    BY <1>1, <2>1
  <2>3. QED
    BY <1>1, <2>1, <2>2 DEF WebhookEvent
<1>5. ASSUME NEW h \in Handlers, ApplyResult(h)
      PROVE  FreshWebhook
  <2>1. WorksOn(h).payment \in Payments
    BY <1>5, BusyHandler DEF ApplyResult, At
  <2>2. QED
    BY <1>4, <1>5, <2>1 DEF ApplyResult, tables
<1>6. ASSUME NEW c \in Reconcilers, PersistResolution(c)
      PROVE  FreshWebhook
  <2>1. recon[c].target \in Payments
    BY <1>6 DEF PersistResolution, TypeInv, ReconcilersOK
  <2>2. QED
    BY <1>4, <1>6, <2>1 DEF PersistResolution, tables
<1>7. QED
  BY <1>2, <1>3, <1>5, <1>6, WritersOfOutbox

LEMMA RequestsNeedRowsStep ==
  ASSUME TypeInv, RowsOK, RelaysApart, RequestsNeedRows, [Next]_vars
  PROVE  RequestsNeedRows'
<1> SUFFICES ASSUME NEW p \in Payments, outbox'[ProcessEvent(p)] # "absent"
             PROVE  payment'[p].status # "absent"
  BY DEF RequestsNeedRows, ProcessEvent
<1>1. CASE outbox[ProcessEvent(p)] # "absent"
  BY <1>1, RowsStayThere DEF RequestsNeedRows
<1>2. CASE outbox[ProcessEvent(p)] = "absent"
  <2>1. CreatePayment(p)
    <3>1. /\ ProcessEvent(p) \in Events
          /\ \A o \in Payments : ProcessEvent(p) = ProcessEvent(o) => p = o
          /\ ProcessEvent(p).type # "webhook.delivery_requested"
      BY EventsExist DEF ProcessEvent
    <3>2. \A r \in Relays : ProcessEvent(p) \notin marked[r]
      BY <1>2 DEF RelaysApart, Locked
    <3>3. QED
      BY <1>2, <3>1, <3>2, OutboxMoves
  <2>2. QED
    BY <2>1 DEF CreatePayment, NewPayment, TypeInv, TypeOK
<1>3. QED
  BY <1>1, <1>2

\* Who fetches skips the rows that others hold, and who publishes moves one of
\* his own on.
LEMMA RelaysApartStep ==
  ASSUME TypeInv, RelaysApart, [Next]_vars
  PROVE  RelaysApart'
<1>1. /\ batch \in [Relays -> SUBSET Events]
      /\ marked \in [Relays -> SUBSET Events]
  BY DEF TypeInv, TypeOK
<1>2. CASE UNCHANGED relayVars
  <2>1. ASSUME NEW r \in Relays, CommitBatch(r)
        PROVE  FALSE
    BY <1>1, <1>2, <2>1 DEF CommitBatch, relayVars
  <2>2. ASSUME NEW r \in Relays, NEW e \in Locked(r)
        PROVE  outbox'[e] = "unpublished"
    <3>1. e \in Events /\ outbox[e] = "unpublished"
      BY <1>1 DEF RelaysApart, Locked
    <3>2. QED
      BY <2>1, <3>1, OutboxMoves
  <2>3. QED
    BY <1>2, <2>2 DEF RelaysApart, Locked, relayVars
<1>3. ASSUME NEW r \in Relays, FetchBatch(r)
      PROVE  RelaysApart'
  <2>1. PICK b \in SUBSET Events :
          /\ \A e \in b : /\ outbox[e] = "unpublished"
                          /\ \A s \in Relays : e \notin Locked(s)
          /\ batch' = [batch EXCEPT ![r] = b]
    BY <1>3 DEF FetchBatch
  <2>2. Locked(r) = {} /\ UNCHANGED <<outbox, marked>>
    BY <1>3 DEF FetchBatch, tables
  <2>3. /\ batch'[r] = b /\ marked'[r] = {}
        /\ \A s \in Relays \ {r} : batch'[s] = batch[s] /\ marked'[s] = marked[s]
    BY <1>1, <2>1, <2>2 DEF Locked
  <2>4. QED
    BY <2>1, <2>2, <2>3 DEF RelaysApart, Locked
<1>4. ASSUME NEW r \in Relays, Publish(r)
      PROVE  RelaysApart'
  <2>1. PICK e \in batch[r] :
          /\ batch' = [batch EXCEPT ![r] = @ \ {e}]
          /\ marked' = [marked EXCEPT ![r] = @ \cup {e}]
    BY <1>4 DEF Publish
  <2>2. /\ batch'[r] = batch[r] \ {e} /\ marked'[r] = marked[r] \cup {e}
        /\ \A s \in Relays \ {r} : batch'[s] = batch[s] /\ marked'[s] = marked[s]
    BY <1>1, <2>1
  <2>3. \A s \in Relays : Locked(s)' = Locked(s)
    BY <2>2 DEF Locked
  <2>4. batch'[r] \cap marked'[r] = {}
    BY <2>2 DEF RelaysApart
  <2>5. UNCHANGED outbox
    BY <1>4 DEF Publish, tables
  <2>6. QED
    BY <2>2, <2>3, <2>4, <2>5 DEF RelaysApart
<1>5. ASSUME NEW r \in Relays, CommitBatch(r) \/ RelayFails(r)
      PROVE  RelaysApart'
  <2>1. /\ batch'[r] = {} /\ marked'[r] = {}
        /\ \A s \in Relays \ {r} : batch'[s] = batch[s] /\ marked'[s] = marked[s]
    BY <1>1, <1>5 DEF CommitBatch, RelayFails
  <2>2. ASSUME NEW s \in Relays \ {r}, NEW e \in Locked(s)
        PROVE  outbox'[e] = "unpublished"
    <3>1. e \in Events /\ outbox[e] = "unpublished" /\ e \notin marked[r]
      BY <1>1 DEF RelaysApart, Locked
    <3>2. QED
      BY <1>5, <3>1 DEF CommitBatch, RelayFails, tables
  <2>3. \A s \in Relays \ {r} : Locked(s)' = Locked(s)
    BY <2>1 DEF Locked
  <2>4. Locked(r)' = {}
    BY <2>1 DEF Locked
  <2>5. QED
    BY <2>1, <2>2, <2>3, <2>4 DEF RelaysApart
<1>6. QED
  BY <1>2, <1>3, <1>4, <1>5, WritersOfBatches

\* Without a fault, what was sent stays sent.
LEMMA SentStays ==
  ASSUME TypeInv, RelaysApart, RequestsNeedRows, [Next]_vars, ~Fault,
         NEW e \in Events, Unsent(e)'
  PROVE  Unsent(e)
<1>1. outbox[e] # "published"
  <2>1. ASSUME outbox[e] = "published"
        PROVE  FALSE
    <3>1. outbox'[e] # outbox[e]
      BY <2>1 DEF Unsent
    <3>2. PICK p \in Payments : CreatePayment(p) /\ e = ProcessEvent(p)
      BY <2>1, <3>1, OutboxMoves DEF Unsent
    <3>3. QED
      BY <2>1, <3>2 DEF CreatePayment, RequestsNeedRows
  <2>2. QED
    BY <2>1
<1>2. ASSUME NEW r \in Relays, e \in marked[r]
      PROVE  FALSE
  <2>1. e \notin marked'[r] /\ marked \in [Relays -> SUBSET Events]
    BY DEF Unsent, TypeInv, TypeOK
  <2>2. CommitBatch(r)
    BY <1>2, <2>1, WritersOfBatches
    DEF FetchBatch, Publish, CommitBatch, RelayFails, relayVars
  <2>3. outbox'[e] = "published"
    BY <1>2, <2>2 DEF CommitBatch
  <2>4. QED
    BY <2>3 DEF Unsent
<1>3. QED
  BY <1>1, <1>2 DEF Unsent

\* Copies that only go leave at most one.
LEMMA LoneShrinks ==
  ASSUME TypeInv, [Next]_vars, NEW e \in Events, Lone(e),
         Unsent(e)' => Unsent(e),
         \A q \in Queues, m \in Messages :
           m.event = e => queue'[q][m] <= queue[q][m],
         \A h \in Handlers : Carries(h, e)' => Carries(h, e)
  PROVE  Lone(e)'
<1>1. \A q \in Queues, m \in Messages :
        /\ queue[q][m] \in Nat /\ queue'[q][m] \in Nat
        /\ m.event = e /\ queue'[q][m] > 0 => queue[q][m] > 0
        /\ m.event = e /\ queue[q][m] = 0 => queue'[q][m] = 0
        /\ m.event = e => queue'[q][m] <= 1
  <2>1. queue \in [Queues -> [Messages -> Nat]]
        /\ queue' \in [Queues -> [Messages -> Nat]]
    BY QueueTyped DEF TypeInv, TypeOK
  <2> SUFFICES ASSUME NEW q \in Queues, NEW m \in Messages
               PROVE  /\ queue[q][m] \in Nat /\ queue'[q][m] \in Nat
                      /\ m.event = e /\ queue'[q][m] > 0 => queue[q][m] > 0
                      /\ m.event = e /\ queue[q][m] = 0 => queue'[q][m] = 0
                      /\ m.event = e => queue'[q][m] <= 1
    OBVIOUS
  <2>2. queue[q][m] \in Nat /\ queue'[q][m] \in Nat
    BY <2>1
  <2>3. m.event = e => queue[q][m] <= 1 /\ queue'[q][m] <= queue[q][m]
    BY DEF Lone
  <2>4. QED
    BY <2>2, <2>3
<1>2. QED
  BY <1>1 DEF Lone

\* A copy put where there was none is the only one.
LEMMA LonePut ==
  ASSUME TypeInv, NEW e \in Events, ~Unsent(e)',
         NEW q \in Queues, NEW m \in Messages, m.event = e, queue' = Put(q, m),
         \A s \in Queues, n \in Messages : n.event = e => queue[s][n] = 0,
         \A h \in Handlers : ~Carries(h, e)'
  PROVE  Lone(e)'
<1>1. queue \in [Queues -> [Messages -> Nat]]
  BY DEF TypeInv, TypeOK
<1>2. \A s \in Queues, n \in Messages :
        queue'[s][n] = IF s = q /\ n = m THEN queue[s][n] + 1 ELSE queue[s][n]
  BY <1>1 DEF Put
<1>3. \A s \in Queues, n \in Messages :
        n.event = e => queue'[s][n] = IF s = q /\ n = m THEN 1 ELSE 0
  BY <1>2
<1>4. QED
  BY <1>3 DEF Lone

\* Every step but a fault moves the one copy there is, or puts the first.
LEMMA LoneStep ==
  ASSUME TypeInv, RelaysApart, RequestsNeedRows, [Next]_vars, ~Fault,
         NEW e \in Events, Lone(e)
  PROVE  Lone(e)'
<1>1. /\ queue \in [Queues -> [Messages -> Nat]]
      /\ pc \in [Handlers -> HandlerSteps]
      /\ msg \in [Handlers -> Messages \cup {None}]
  BY DEF TypeInv, TypeOK
<1>2. Unsent(e)' => Unsent(e)
  BY SentStays
<1>3. /\ "payments.new" \in Queues /\ "payments.dlq" \in Queues
      /\ \A q \in Queues, m \in Messages : queue[q][m] <= queue[q][m]
  BY <1>1 DEF Queues
\* Handler h puts its message somewhere and gives it up.
<1>4. ASSUME NEW h \in Handlers, pc[h] \notin {"idle", "ack"},
             NEW q \in Queues, NEW m \in Messages, m.event = WorksOn(h),
             queue' = Put(q, m), Goto(h, "ack") \/ Release(h)
      PROVE  Lone(e)'
  <2>1. /\ \A k \in Handlers : Carries(k, e)' => k # h /\ Carries(k, e)
        /\ Carries(h, WorksOn(h))
    BY <1>1, <1>4 DEF Goto, Release, Carries, WorksOn
  <2>2. CASE e = WorksOn(h)
    <3>1. \A k \in Handlers : ~Carries(k, e)'
      BY <2>1, <2>2 DEF Lone
    <3>2. \A s \in Queues, n \in Messages : n.event = e => queue[s][n] = 0
      BY <2>1, <2>2 DEF Lone
    <3>3. ~Unsent(e)'
      BY <1>2, <2>1, <2>2 DEF Lone
    <3>4. QED
      BY <1>4, <2>2, <3>1, <3>2, <3>3, LonePut
  <2>3. CASE e # WorksOn(h)
    <3>1. \A s \in Queues, n \in Messages :
            n.event = e => queue'[s][n] = queue[s][n]
      BY <1>1, <1>4, <2>3 DEF Put
    <3>2. QED
      BY <1>2, <1>3, <2>1, <3>1, LoneShrinks
  <2>4. QED
    BY <2>2, <2>3
\* Handler h goes on with its message, or is done with it.
<1>5. ASSUME NEW h \in Handlers, pc[h] # "idle", UNCHANGED queue,
             \/ Release(h)
             \/ pc[h] # "ack" /\ \E step \in HandlerSteps : Goto(h, step)
      PROVE  Lone(e)'
  <2>1. \A k \in Handlers : Carries(k, e)' => Carries(k, e)
    BY <1>1, <1>5 DEF Goto, Release, Carries
  <2>2. QED
    BY <1>2, <1>3, <1>5, <2>1, LoneShrinks
<1>6. ASSUME NEW r \in Relays, Publish(r)
      PROVE  Lone(e)'
  <2>1. PICK d \in batch[r] :
          /\ queue' = Put("payments.new", [event |-> d, attempt |-> 1])
          /\ marked' = [marked EXCEPT ![r] = @ \cup {d}]
    BY <1>6 DEF Publish
  <2> DEFINE m == [event |-> d, attempt |-> 1]
  <2>2. d \in Events /\ m \in Messages /\ m.event = d
    BY DEF TypeInv, TypeOK, Messages, MaxAttempts
  <2>3. \A h \in Handlers : Carries(h, e)' <=> Carries(h, e)
    BY <1>6 DEF Publish, handlerVars, Carries
  <2>4. CASE d = e
    <3>1. Unsent(e)
      BY <2>1, <2>4 DEF RelaysApart, Locked, Unsent
    <3>2. /\ \A h \in Handlers : ~Carries(h, e)
          /\ \A s \in Queues, n \in Messages : n.event = e => queue[s][n] = 0
      BY <3>1 DEF Lone
    <3>3. ~Unsent(e)'
      BY <2>1, <2>4 DEF Unsent, TypeInv, TypeOK
    <3> HIDE DEF m
    <3>4. QED
      BY <1>3, <2>1, <2>2, <2>3, <2>4, <3>2, <3>3, LonePut DEF m
  <2>5. CASE d # e
    <3>1. \A s \in Queues, n \in Messages :
            n.event = e => queue'[s][n] = queue[s][n]
      BY <1>1, <1>3, <2>1, <2>2, <2>5 DEF Put
    <3>2. QED
      BY <1>2, <1>3, <2>3, <3>1, LoneShrinks
  <2>6. QED
    BY <2>4, <2>5
<1>7. ASSUME NEW h \in Handlers, Receive(h)
      PROVE  Lone(e)'
  <2>1. PICK m \in Messages :
          /\ queue["payments.new"][m] > 0
          /\ queue' = [queue EXCEPT !["payments.new"][m] = @ - 1]
          /\ msg' = [msg EXCEPT ![h] = m]
    BY <1>7 DEF Receive
  <2>2. /\ pc[h] = "idle" /\ pc'[h] = "load" /\ msg'[h] = m
        /\ \A k \in Handlers \ {h} : pc'[k] = pc[k] /\ msg'[k] = msg[k]
    BY <1>1, <1>7, <2>1 DEF Receive, At
  <2>3. \A s \in Queues, n \in Messages :
          /\ queue'[s][n] = IF s = "payments.new" /\ n = m THEN queue[s][n] - 1
                                                           ELSE queue[s][n]
          /\ queue[s][n] \in Nat
    BY <1>1, <2>1
  <2>4. CASE m.event = e
    <3>1. \A s \in Queues, n \in Messages :
            n.event = e => queue'[s][n] = 0
      <4> SUFFICES ASSUME NEW s \in Queues, NEW n \in Messages, n.event = e
                   PROVE  queue'[s][n] = 0
        OBVIOUS
      <4>1. CASE s = "payments.new" /\ n = m
        <5>1. queue[s][n] <= 1
          BY DEF Lone
        <5>2. QED
          BY <2>1, <2>3, <4>1, <5>1
      <4>2. CASE ~(s = "payments.new" /\ n = m)
        <5>1. ~(queue[s][n] > 0)
          BY <1>3, <2>1, <2>4, <4>2 DEF Lone
        <5>2. QED
          BY <2>3, <4>2, <5>1
      <4>3. QED
        BY <4>1, <4>2
    <3>2. \A k \in Handlers : ~Carries(k, e)
      BY <1>3, <2>1, <2>4 DEF Lone
    <3>3. \A k \in Handlers : Carries(k, e)' => k = h
      BY <2>2, <3>2 DEF Carries
    <3>4. ~Unsent(e)'
      BY <1>2, <1>3, <2>1, <2>4 DEF Lone
    <3>5. QED
      BY <3>1, <3>3, <3>4 DEF Lone
  <2>5. CASE m.event # e
    <3>1. \A k \in Handlers : Carries(k, e)' => Carries(k, e)
      BY <2>2, <2>5 DEF Carries
    <3>2. \A s \in Queues, n \in Messages :
            n.event = e => queue'[s][n] = queue[s][n]
      BY <2>3, <2>5
    <3>3. QED
      BY <1>2, <1>3, <3>1, <3>2, LoneShrinks
  <2>6. QED
    BY <2>4, <2>5
<1>8. ASSUME NEW q \in Queues, TtlExpires(q)
      PROVE  Lone(e)'
  <2>1. PICK m \in Messages :
          queue[q][m] > 0 /\ queue' = Move(q, "payments.new", m)
    BY <1>8 DEF TtlExpires
  <2>2. q # "payments.new"
    BY <1>8 DEF TtlExpires
  <2>3. \A s \in Queues, n \in Messages :
          /\ queue'[s][n] = IF n # m THEN queue[s][n]
                            ELSE IF s = q THEN queue[s][n] - 1
                            ELSE IF s = "payments.new" THEN queue[s][n] + 1
                            ELSE queue[s][n]
          /\ queue[s][n] \in Nat
    BY <1>1, <1>3, <2>1, <2>2 DEF Move
  <2>4. \A h \in Handlers : Carries(h, e)' <=> Carries(h, e)
    BY <1>8 DEF TtlExpires, handlerVars, Carries
  <2>5. CASE m.event = e
    <3>1. \A s \in Queues, n \in Messages :
            n.event = e =>
              queue[s][n] = IF s = q /\ n = m THEN 1 ELSE 0
      <4> SUFFICES ASSUME NEW s \in Queues, NEW n \in Messages, n.event = e
                   PROVE  queue[s][n] = IF s = q /\ n = m THEN 1 ELSE 0
        OBVIOUS
      <4>1. queue[s][n] <= 1 /\ (queue[s][n] > 0 => s = q /\ n = m)
        BY <2>1, <2>5 DEF Lone
      <4>2. QED
        BY <2>1, <2>3, <4>1
    <3>2. \A s \in Queues, n \in Messages :
            n.event = e =>
              queue'[s][n] = IF s = "payments.new" /\ n = m THEN 1 ELSE 0
      BY <2>2, <2>3, <3>1
    <3>3. \A h \in Handlers : ~Carries(h, e)'
      BY <2>1, <2>4, <2>5 DEF Lone
    <3>4. ~Unsent(e)'
      BY <1>2, <2>1, <2>5 DEF Lone
    <3>5. QED
      BY <3>2, <3>3, <3>4 DEF Lone
  <2>6. CASE m.event # e
    <3>1. \A s \in Queues, n \in Messages :
            n.event = e => queue'[s][n] = queue[s][n]
      BY <2>3, <2>6
    <3>2. QED
      BY <1>2, <1>3, <2>4, <3>1, LoneShrinks
  <2>7. QED
    BY <2>5, <2>6
<1>9. ASSUME NEW h \in Handlers, RetryOrReject(h)
      PROVE  Lone(e)'
  <2> DEFINE m == msg[h]
             copy == [m EXCEPT !.attempt = @ + 1]
             retry == RetryQueue(m.attempt + 1)
  <2>1. pc[h] = "retry" /\ m \in Messages /\ m.event = WorksOn(h)
    BY <1>9, BusyHandler DEF RetryOrReject, At, WorksOn
  <2>2. CASE queue' = Put("payments.dlq", m) /\ Release(h)
    BY <1>3, <1>4, <2>1, <2>2
  <2>3. CASE m.attempt < MaxAttempts /\ queue' = Put(retry, copy) /\ Goto(h, "ack")
    <3>1. copy \in Messages /\ copy.event = WorksOn(h) /\ retry \in Queues
      BY <2>1, <2>3, CopyType DEF Messages, Queues, RetryQueue
    <3> HIDE DEF copy, retry
    <3>2. QED
      BY <1>4, <2>1, <2>3, <3>1
  <2>4. QED
    BY <1>9, <2>2, <2>3 DEF RetryOrReject
<1>10. ASSUME NEW h \in Handlers, Reject(h)
       PROVE  Lone(e)'
  <2>1. pc[h] = "reject" /\ msg[h] \in Messages
    BY <1>10, BusyHandler DEF Reject, At
  <2>2. QED
    BY <1>3, <1>4, <1>10, <2>1 DEF Reject, WorksOn
<1>11. ASSUME NEW h \in Handlers, Ack(h)
       PROVE  Lone(e)'
  BY <1>5, <1>11 DEF Ack, At
<1>12. ASSUME NEW h \in Handlers,
              \/ TransactionFails(h) \/ LoadRequest(h) \/ CallFails(h)
              \/ PostCharge(h) \/ GetVerdict(h) \/ GetAmbiguousOutcome(h)
              \/ ApplyResult(h) \/ MarkUnknown(h) \/ LoadDelivery(h)
              \/ Deliver(h) \/ MarkSent(h)
       PROVE  Lone(e)'
  <2>1. UNCHANGED queue /\ pc[h] \notin {"idle", "ack"}
    BY <1>12 DEF TransactionFails, LoadRequest, CallFails, PostCharge,
       GetVerdict, GetAmbiguousOutcome, ApplyResult, MarkUnknown,
       LoadDelivery, Deliver, MarkSent, At
  <2>2. PICK step \in {"ack", "retry", "reject", "call", "await", "apply",
                       "mark_unknown", "deliver", "mark_sent"} : Goto(h, step)
    BY <1>12 DEF TransactionFails, LoadRequest, CallFails, PostCharge,
       GetVerdict, GetAmbiguousOutcome, ApplyResult, MarkUnknown,
       LoadDelivery, Deliver, MarkSent, Committed
  <2>3. QED
    BY <1>5, <2>1, <2>2 DEF HandlerSteps
<1>13. CASE UNCHANGED queue /\ UNCHANGED handlerVars
  <2>1. \A h \in Handlers : Carries(h, e)' <=> Carries(h, e)
    BY <1>13 DEF handlerVars, Carries
  <2>2. QED
    BY <1>2, <1>3, <1>13, <2>1, LoneShrinks
<1>14. ~\E h \in Handlers : Crash(h)
  BY DEF Crash
<1>15. QED
  BY <1>6, <1>7, <1>8, <1>9, <1>10, <1>11, <1>12, <1>13, <1>14,
     WritersOfQueue, WritersOfHandlers

LEMMA LoneInvStep ==
  ASSUME TypeInv, RowsOK, LoneInv, [Next]_vars
  PROVE  LoneInv'
<1>1. RelaysApart' /\ RequestsNeedRows'
  BY RelaysApartStep, RequestsNeedRowsStep DEF LoneInv
<1>2. ASSUME faults' = 0, NEW e \in Events
      PROVE  Lone(e)'
  <2>1. faults \in Nat /\ (UNCHANGED faults \/ Fault)
    BY FaultsCount DEF TypeInv, TypeOK
  <2>2. ~Fault /\ faults = 0
    BY <1>2, <2>1 DEF Fault
  <2>3. QED
    BY <2>2, LoneStep DEF LoneInv
<1>3. QED
  BY <1>1, <1>2 DEF LoneInv

LEMMA LoneIsOnePlace ==
  ASSUME TypeInv, NEW e \in Events, Lone(e)
  PROVE  /\ \A x \in Places(e), y \in Places(e) : x = y
         /\ Unsent(e) => Places(e) = {}
<1>1. queue \in [Queues -> [Messages -> Nat]]
  BY DEF TypeInv, TypeOK
<1>2. ASSUME NEW x \in Places(e)
      PROVE  \/ \E q \in Queues, m \in Messages :
                  x = <<q, m>> /\ m.event = e /\ queue[q][m] > 0
             \/ \E h \in Handlers : x = <<"handler", h>> /\ Carries(h, e)
  BY DEF Places, Carries
<1>3. \A h \in Handlers, q \in Queues, m \in Messages :
        Carries(h, e) /\ m.event = e => ~(queue[q][m] > 0)
  BY DEF Lone
<1>4. ASSUME NEW x \in Places(e), NEW y \in Places(e)
      PROVE  x = y
  BY <1>2, <1>3 DEF Lone
<1>5. Unsent(e) => Places(e) = {}
  BY <1>2 DEF Lone
<1>6. QED
  BY <1>4, <1>5

\* While no fault has struck there is one copy of an event at most, and none
\* of one that no relay has published: relays skip each other's rows, and what
\* is acknowledged was moved on or is done.
THEOREM NoDuplicates == Spec => []DuplicatesNeedFaults
<1>1. TypeInv /\ LoneInv => DuplicatesNeedFaults
  BY LoneIsOnePlace DEF LoneInv, DuplicatesNeedFaults, Lone, Unsent
<1>2. QED
  BY <1>1, Truth, LoneInit, LoneInvStep, PTL DEF Spec
=============================================================================

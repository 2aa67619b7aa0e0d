---------------------- MODULE PaymentFlowSafetyProofs ----------------------
(***************************************************************************)
(* Proofs of the safety properties of PaymentFlow, on top of its types.    *)
(***************************************************************************)
EXTENDS PaymentFlowProofs

\* Handler h, when it is busy, works on an event about some payment.
LEMMA BusyHandler ==
  ASSUME TypeInv, NEW h \in Handlers, pc[h] # "idle"
  PROVE  /\ msg[h] \in Messages
         /\ WorksOn(h) \in Events
         /\ WorksOn(h).payment \in Payments
         /\ RowOf(h) \in Rows
BY EventFields
DEF TypeInv, TypeOK, HandlersOK, Messages, WorksOn, RowOf, Rows

-----------------------------------------------------------------------------
(* What a step may do to one row.                                          *)

\* The verdict v settles row as row2, with a webhook id no outbox row has.
SettlesRow(p, row, row2) ==
  \E v \in Verdicts, w \in WebhookIds :
    outbox[WebhookEvent(p, w)] = "absent" /\ row2 = Resolved(row, v, w)

\* The rewritings of a row the code contains, each with the guard under
\* which the code does it.
RowStep(p) ==
  \/ payment'[p] = payment[p]
  \/ /\ payment[p].status = "absent"
     /\ payment'[p] = NewPayment
  \/ /\ payment[p].status = "pending"
     /\ \/ payment'[p] = [payment[p] EXCEPT !.status = "unknown"]
        \/ SettlesRow(p, payment[p], payment'[p])
  \/ /\ payment[p].status \in Terminal
     /\ payment'[p] = [payment[p] EXCEPT !.webhook_sent = TRUE]
  \/ /\ Reconcilable(payment[p])
     /\ \/ \E t \in Tokens : payment'[p] = [payment[p] EXCEPT !.lease_token = t]
        \/ payment'[p] = Unresolved(payment[p], ReconciliationMaxAttempts)
        \/ SettlesRow(p, payment[p], payment'[p])

LEMMA SettleRow ==
  ASSUME TypeInv, NEW p \in Payments, NEW v \in Verdicts, Settle(p, v)
  PROVE  /\ SettlesRow(p, payment[p], payment'[p])
         /\ \A o \in Payments \ {p} : payment'[o] = payment[o]
<1>1. PICK w \in FreshWebhookIds :
        payment' = [payment EXCEPT ![p] = Resolved(payment[p], v, w)]
  BY DEF Settle
<1>2. w \in WebhookIds /\ outbox[WebhookEvent(p, w)] = "absent"
  BY DEF FreshWebhookIds
<1>3. payment'[p] = Resolved(payment[p], v, w)
  BY <1>1 DEF TypeInv, TypeOK
<1>4. \A o \in Payments \ {p} : payment'[o] = payment[o]
  BY <1>1 DEF TypeInv, TypeOK
<1>5. QED
  BY <1>2, <1>3, <1>4 DEF SettlesRow

\* Every step rewrites every row in one of these ways, or not at all.
LEMMA RowSteps ==
  ASSUME TypeInv, [Next]_vars, NEW p \in Payments
  PROVE  RowStep(p)
<1>1. payment \in [Payments -> Rows]
  BY DEF TypeInv, TypeOK, Rows
<1>2. ASSUME UNCHANGED payment
      PROVE  RowStep(p)
  BY <1>2 DEF RowStep
<1>3. ASSUME NEW o \in Payments, NEW row, payment' = [payment EXCEPT ![o] = row],
             o # p
      PROVE  RowStep(p)
  BY <1>1, <1>3 DEF RowStep
<1>4. ASSUME NEW o \in Payments, CreatePayment(o)
      PROVE  RowStep(p)
  BY <1>1, <1>3, <1>4 DEF CreatePayment, RowStep
<1>5. ASSUME NEW h \in Handlers, ApplyResult(h)
      PROVE  RowStep(p)
  <2>1. pc[h] = "apply"
    BY <1>5 DEF ApplyResult, At
  <2>2. WorksOn(h).payment \in Payments /\ result[h] \in Verdicts
    BY <2>1, BusyHandler DEF TypeInv, HandlersOK
  <2>3. CASE UNCHANGED tables
    BY <1>2, <2>3 DEF tables
  <2>4. CASE RowOf(h).status = "pending" /\ Settle(WorksOn(h).payment, result[h])
    BY <2>2, <2>4, SettleRow DEF RowStep, RowOf
  <2>5. QED
    BY <1>5, <2>3, <2>4 DEF ApplyResult
<1>6. ASSUME NEW h \in Handlers, MarkUnknown(h)
      PROVE  RowStep(p)
  <2>1. WorksOn(h).payment \in Payments
    BY <1>6, BusyHandler DEF MarkUnknown, At
  <2>2. QED
    BY <1>1, <1>6, <2>1 DEF MarkUnknown, RowStep, RowOf
<1>7. ASSUME NEW h \in Handlers, MarkSent(h)
      PROVE  RowStep(p)
  <2>1. WorksOn(h).payment \in Payments
    BY <1>7, BusyHandler DEF MarkSent, At
  <2>2. QED
    BY <1>1, <1>7, <2>1 DEF MarkSent, RowStep, RowOf, WebhookMatches
<1>8. ASSUME NEW c \in Reconcilers, ClaimBatch(c)
      PROVE  RowStep(p)
  <2>1. PICK b \in SUBSET {o \in Payments : Reconcilable(payment[o])},
             t \in Tokens :
          payment' = [o \in Payments |->
            IF o \in b THEN [payment[o] EXCEPT !.lease_token = t]
                       ELSE payment[o]]
    BY <1>8 DEF ClaimBatch, FreshTokens
  <2>2. CASE p \in b
    BY <2>1, <2>2 DEF RowStep
  <2>3. CASE p \notin b
    BY <2>1, <2>3 DEF RowStep
  <2>4. QED
    BY <2>2, <2>3
<1>9. ASSUME NEW c \in Reconcilers, PersistResolution(c)
      PROVE  RowStep(p)
  <2> DEFINE o == recon[c].target
  <2>1. o \in Payments /\ recon[c].answer \in Verdicts \cup {None}
    BY <1>9
    DEF TypeInv, TypeOK, ReconcilersOK, ReconStates, PersistResolution
  <2>2. \/ UNCHANGED payment
        \/ /\ Reconcilable(payment[o])
           /\ \/ payment' = [payment EXCEPT ![o] =
                   Unresolved(payment[o], ReconciliationMaxAttempts)]
              \/ recon[c].answer # None /\ Settle(o, recon[c].answer)
    BY <1>9 DEF PersistResolution, Renewable, tables
  <2> HIDE DEF o
  <2>3. ASSUME Reconcilable(payment[o]),
               payment' = [payment EXCEPT ![o] =
                   Unresolved(payment[o], ReconciliationMaxAttempts)]
        PROVE  RowStep(p)
    BY <1>1, <2>1, <2>3 DEF RowStep
  <2>4. ASSUME Reconcilable(payment[o]), recon[c].answer # None,
               Settle(o, recon[c].answer)
        PROVE  RowStep(p)
    BY <2>1, <2>4, SettleRow DEF RowStep
  <2>5. QED
    BY <1>2, <2>2, <2>3, <2>4
<1>10. QED
  BY <1>2, <1>4, <1>5, <1>6, <1>7, <1>8, <1>9, WritersOfPayment

\* How the columns of a row hang together.
RowsOK ==
  \A p \in Payments :
    /\ payment[p].status = "absent" => payment[p] = NoRow
    /\ payment[p].webhook_sent => payment[p].status \in Terminal
    /\ payment[p].status \in Terminal <=> payment[p].webhook_event_id # None
    /\ payment[p].manual_review => payment[p].status = "unknown"

\* The columns of a settled row.
LEMMA SettledColumns ==
  ASSUME NEW p \in Payments, NEW row \in Rows, NEW row2,
         SettlesRow(p, row, row2)
  PROVE  \E v \in Verdicts, w \in WebhookIds :
           /\ outbox[WebhookEvent(p, w)] = "absent"
           /\ row2.status = StatusFor(v)
           /\ row2.status \in Terminal
           /\ row2.webhook_event_id = w
           /\ row2.webhook_sent = row.webhook_sent
           /\ row2.manual_review = row.manual_review
           /\ row2 = Resolved(row, v, w)
BY DEF SettlesRow, Resolved, StatusFor, Terminal, Rows, PaymentRows

\* The columns a lookup without a verdict leaves alone.
LEMMA UnresolvedColumns ==
  ASSUME NEW row \in Rows
  PROVE  LET row2 == Unresolved(row, ReconciliationMaxAttempts)
         IN  /\ row2.status = row.status
             /\ row2.webhook_event_id = row.webhook_event_id
             /\ row2.webhook_sent = row.webhook_sent
BY DEF Unresolved, Rows, PaymentRows

LEMMA RowsOKInit == Init => RowsOK
BY DEF Init, RowsOK, NoRow, Terminal

LEMMA RowsStayOK ==
  ASSUME TypeInv, RowsOK, [Next]_vars
  PROVE  RowsOK'
<1> SUFFICES ASSUME NEW p \in Payments
             PROVE  /\ payment'[p].status = "absent" => payment'[p] = NoRow
                    /\ payment'[p].webhook_sent => payment'[p].status \in Terminal
                    /\ payment'[p].status \in Terminal
                         <=> payment'[p].webhook_event_id # None
                    /\ payment'[p].manual_review => payment'[p].status = "unknown"
  BY DEF RowsOK
<1>1. payment[p] \in Rows /\ RowStep(p)
  BY RowSteps DEF TypeInv, TypeOK, Rows
<1>2. CASE SettlesRow(p, payment[p], payment'[p])
           /\ (payment[p].status = "pending" \/ Reconcilable(payment[p]))
  <2>1. ~payment[p].manual_review
    BY <1>2 DEF RowsOK, Reconcilable
  <2>2. QED
    BY <1>1, <1>2, <2>1, SettledColumns, NoneAssumption DEF Terminal
<1>3. CASE payment'[p] = Unresolved(payment[p], ReconciliationMaxAttempts)
           /\ Reconcilable(payment[p])
  BY <1>1, <1>3, UnresolvedColumns DEF RowsOK, Reconcilable, Terminal
<1>4. CASE payment[p].status = "absent" /\ payment'[p] = NewPayment
  BY <1>4 DEF NewPayment, NoRow, Terminal
<1>5. CASE payment[p].status = "pending"
           /\ payment'[p] = [payment[p] EXCEPT !.status = "unknown"]
  BY <1>1, <1>5 DEF RowsOK, Rows, PaymentRows, Terminal
<1>6. CASE payment[p].status \in Terminal
           /\ payment'[p] = [payment[p] EXCEPT !.webhook_sent = TRUE]
  BY <1>1, <1>6 DEF RowsOK, Rows, PaymentRows, Terminal
<1>7. ASSUME NEW t \in Tokens, Reconcilable(payment[p]),
             payment'[p] = [payment[p] EXCEPT !.lease_token = t]
      PROVE  /\ payment'[p].status = payment[p].status
             /\ payment'[p].webhook_event_id = payment[p].webhook_event_id
             /\ payment'[p].webhook_sent = payment[p].webhook_sent
             /\ payment[p].status = "unknown"
  BY <1>1, <1>7 DEF Rows, PaymentRows, Reconcilable
<1>8. CASE payment'[p] = payment[p]
  BY <1>8 DEF RowsOK
<1>9. QED
  BY <1>1, <1>2, <1>3, <1>4, <1>5, <1>6, <1>7, <1>8 DEF RowStep, RowsOK, Terminal

\* Settled rows, and those in manual review, are never rewritten.
LEMMA SettledRowsStep ==
  ASSUME TypeInv, RowsOK, [Next]_vars, NEW p \in Payments
  PROVE  /\ payment[p].status \in Terminal =>
              payment'[p] \in {payment[p],
                               [payment[p] EXCEPT !.webhook_sent = TRUE]}
         /\ payment[p].manual_review => payment'[p] = payment[p]
<1>1. RowStep(p)
  BY RowSteps
<1>2. payment[p].manual_review => payment[p].status = "unknown"
  BY DEF RowsOK
<1>3. QED
  BY <1>1, <1>2 DEF RowStep, Reconcilable, Terminal

-----------------------------------------------------------------------------
(* No work is lost.                                                        *)

\* An event is accounted for when a copy of it is under way or it is done.
Accounted(e) == Carried(e) \/ Done(e)

\* The invariant behind NothingLost: an event that was published, even by a
\* relay that will roll back, is accounted for from then on.
LossInv ==
  \A e \in Events :
    (outbox[e] = "published" \/ \E r \in Relays : e \in marked[r])
      => Accounted(e)

\* Nothing undoes what an event asked for.
LEMMA DoneStays ==
  ASSUME TypeInv, RowsOK, [Next]_vars, NEW e \in Events, Done(e)
  PROVE  Done(e)'
<1> DEFINE p == e.payment
<1>1. p \in Payments /\ RowStep(p)
  BY EventFields, RowSteps
<1>2. payment[p] \in Rows
  BY <1>1 DEF TypeInv, TypeOK, Rows
<1>3. payment[p].status # "absent"
  BY <1>1 DEF Done, RowsOK, NoRow
<1>4. /\ payment[p].status # "pending" =>
           payment'[p].status \notin {"absent", "pending"}
      /\ payment[p].webhook_sent => payment'[p].webhook_sent
  <2>1. CASE SettlesRow(p, payment[p], payment'[p])
    BY <1>1, <1>2, <2>1, SettledColumns DEF Terminal
  <2>2. CASE payment'[p] = Unresolved(payment[p], ReconciliationMaxAttempts)
             /\ Reconcilable(payment[p])
    BY <1>2, <2>2, UnresolvedColumns DEF Reconcilable
  <2>3. ASSUME ~SettlesRow(p, payment[p], payment'[p]),
               payment'[p] # Unresolved(payment[p], ReconciliationMaxAttempts)
                 \/ ~Reconcilable(payment[p])
        PROVE  /\ payment'[p].status = payment[p].status
                    \/ payment'[p].status = "unknown"
               /\ payment'[p].webhook_sent \/ ~payment[p].webhook_sent
    BY <1>1, <1>2, <1>3, <2>3
    DEF RowStep, Rows, PaymentRows, Terminal
  <2>4. QED
    BY <1>3, <2>1, <2>2, <2>3
<1>5. QED
  BY <1>3, <1>4 DEF Done

\* What the queues hold, when no copy leaves them.
QueuesKeep ==
  \A q \in Queues, m \in Messages : queue[q][m] > 0 => queue'[q][m] > 0

LEMMA PutKeeps ==
  ASSUME TypeInv, NEW q \in Queues, NEW m \in Messages, queue' = Put(q, m)
  PROVE  QueuesKeep /\ queue'[q][m] > 0
<1>1. queue \in [Queues -> [Messages -> Nat]]
  BY DEF TypeInv, TypeOK
<1>2. queue'[q][m] = queue[q][m] + 1
  BY <1>1 DEF Put
<1>3. \A q2 \in Queues, m2 \in Messages :
        queue'[q2][m2] = queue[q2][m2] \/ (q2 = q /\ m2 = m)
  BY <1>1 DEF Put
<1>4. QED
  BY <1>1, <1>2, <1>3 DEF QueuesKeep

\* A handler that goes on to another step still carries its event, and one
\* that goes on to acknowledge stops carrying only that.
LEMMA GotoKeeps ==
  ASSUME TypeInv, NEW e \in Events, Carried(e), QueuesKeep,
         NEW h \in Handlers, NEW step \in HandlerSteps \ {"idle"},
         Goto(h, step), pc[h] # "idle"
  PROVE  Carried(e)' \/ (step = "ack" /\ e = WorksOn(h))
<1>1. CASE \E q \in Queues, m \in Messages : m.event = e /\ queue[q][m] > 0
  BY <1>1 DEF Carried, QueuesKeep, TypeInv, TypeOK
<1>2. ASSUME NEW k \in Handlers, pc[k] \notin {"idle", "ack"}, msg[k].event = e
      PROVE  Carried(e)' \/ (step = "ack" /\ e = WorksOn(h))
  BY <1>2 DEF Carried, Goto, WorksOn, TypeInv, TypeOK
<1>3. QED
  BY <1>1, <1>2 DEF Carried

\* A handler that lets its message go loses nothing when it had nothing left
\* to do or the message is in a queue.
LEMMA ReleaseKeeps ==
  ASSUME TypeInv, NEW e \in Events, Carried(e), QueuesKeep,
         NEW h \in Handlers, Release(h), pc[h] # "idle",
         pc[h] = "ack" \/ \E q \in Queues : queue'[q][msg[h]] > 0
  PROVE  Carried(e)'
<1>1. CASE \E q \in Queues, m \in Messages : m.event = e /\ queue[q][m] > 0
  BY <1>1 DEF Carried, QueuesKeep, TypeInv, TypeOK
<1>2. ASSUME NEW k \in Handlers, pc[k] \notin {"idle", "ack"}, msg[k].event = e
      PROVE  Carried(e)'
  <2>1. CASE k = h
    BY <1>2, <2>1, BusyHandler DEF Carried
  <2>2. CASE k # h
    BY <1>2, <2>2 DEF Carried, Release, TypeInv, TypeOK
  <2>3. QED
    BY <2>1, <2>2
<1>3. QED
  BY <1>1, <1>2 DEF Carried

LEMMA CarriedFrame ==
  ASSUME NEW e \in Events, Carried(e), UNCHANGED queue, UNCHANGED handlerVars
  PROVE  Carried(e)'
BY DEF Carried, handlerVars

\* The heart of the argument: every step of every component, a crash or a
\* failed publish included, leaves a carried event accounted for.
LEMMA CarriedStays ==
  ASSUME TypeInv, RowsOK, [Next]_vars, NEW e \in Events, Carried(e)
  PROVE  Accounted(e)'
<1> DEFINE Goal == Accounted(e)'
<1>1. Carried(e)' => Goal
  BY DEF Accounted
<1>2. Done(e)' => Goal
  BY DEF Accounted
<1> HIDE DEF Goal
<1>3. ASSUME UNCHANGED queue
      PROVE  QueuesKeep
  BY <1>3 DEF QueuesKeep
<1>4. ASSUME NEW h \in Handlers, NEW step \in HandlerSteps \ {"idle"},
             Goto(h, step), pc[h] # "idle", QueuesKeep,
             step = "ack" => Accounted(WorksOn(h))'
      PROVE  Goal
  <2>1. CASE Carried(e)'
    BY <1>1, <2>1
  <2>2. CASE step = "ack" /\ e = WorksOn(h)
    BY <1>4, <2>2 DEF Goal, Accounted, Carried, Done, Goto, WorksOn
  <2>3. QED
    BY <1>4, <2>1, <2>2, GotoKeeps
<1>5. {"ack", "retry", "reject", "call", "await", "apply", "mark_unknown",
       "deliver", "mark_sent"} \subseteq HandlerSteps \ {"idle"}
  BY DEF HandlerSteps
<1>6. ASSUME NEW h \in Handlers, Receive(h)
      PROVE  Goal
  <2>1. PICK m \in Messages :
          /\ queue["payments.new"][m] > 0
          /\ queue' = [queue EXCEPT !["payments.new"][m] = @ - 1]
          /\ msg' = [msg EXCEPT ![h] = m]
    BY <1>6 DEF Receive
  <2>2. pc[h] = "idle" /\ pc' = [pc EXCEPT ![h] = "load"]
    BY <1>6 DEF Receive, At
  <2>3. CASE e = m.event
    BY <1>1, <2>1, <2>2, <2>3 DEF Carried, TypeInv, TypeOK
  <2>4. CASE e # m.event
    <3>1. ASSUME NEW q \in Queues, NEW n \in Messages, n.event = e,
                 queue[q][n] > 0
          PROVE  queue'[q][n] > 0
      BY <2>1, <2>4, <3>1 DEF TypeInv, TypeOK
    <3>2. ASSUME NEW k \in Handlers, pc[k] \notin {"idle", "ack"},
                 msg[k].event = e
          PROVE  pc'[k] \notin {"idle", "ack"} /\ msg'[k].event = e
      BY <2>1, <2>2, <3>2 DEF TypeInv, TypeOK
    <3>3. QED
      BY <1>1, <3>1, <3>2 DEF Carried
  <2>5. QED
    BY <2>3, <2>4
<1>7. ASSUME NEW q \in Queues, TtlExpires(q)
      PROVE  Goal
  <2>1. PICK m \in Messages :
          queue[q][m] > 0 /\ queue' = Move(q, "payments.new", m)
    BY <1>7 DEF TtlExpires
  <2>2. /\ q # "payments.new" /\ "payments.new" \in Queues
        /\ UNCHANGED handlerVars
    BY <1>7 DEF TtlExpires, Queues
  <2>3. queue'["payments.new"][m] > 0
    BY <2>1, <2>2 DEF Move, TypeInv, TypeOK
  <2>4. \A r \in Queues, n \in Messages :
          n # m /\ queue[r][n] > 0 => queue'[r][n] > 0
    BY <2>1, <2>2 DEF Move, TypeInv, TypeOK
  <2>5. QED
    BY <1>1, <2>2, <2>3, <2>4 DEF Carried, handlerVars
<1>8. ASSUME NEW h \in Handlers, Ack(h)
      PROVE  Goal
  <2>1. Release(h) /\ pc[h] = "ack" /\ QueuesKeep
    BY <1>3, <1>8 DEF Ack, At
  <2>2. QED
    BY <1>1, <2>1, ReleaseKeeps
<1>9. ASSUME NEW h \in Handlers, NEW q \in Queues, Release(h),
             pc[h] # "idle", QueuesKeep, queue'[q][msg[h]] > 0
      PROVE  Goal
  BY <1>1, <1>9, ReleaseKeeps
<1>10. ASSUME NEW h \in Handlers, Reject(h) \/ Crash(h)
       PROVE  Goal
  <2>1. pc[h] # "idle" /\ Release(h)
    BY <1>10 DEF Reject, Crash, At
  <2>2. PICK q \in Queues : queue' = Put(q, msg[h])
    BY <1>10 DEF Reject, Crash, Queues
  <2>3. QueuesKeep /\ queue'[q][msg[h]] > 0
    BY <2>1, <2>2, BusyHandler, PutKeeps
  <2>4. QED
    BY <1>9, <2>1, <2>3
<1>11. ASSUME NEW r \in Relays, Publish(r)
       PROVE  Goal
  <2>1. PICK d \in batch[r] :
          queue' = Put("payments.new", [event |-> d, attempt |-> 1])
    BY <1>11 DEF Publish
  <2>2. [event |-> d, attempt |-> 1] \in Messages /\ "payments.new" \in Queues
    BY DEF TypeInv, TypeOK, Messages, MaxAttempts, Queues
  <2>3. QueuesKeep
    BY <2>1, <2>2, PutKeeps
  <2>4. UNCHANGED handlerVars
    BY <1>11 DEF Publish
  <2>5. QED
    BY <1>1, <2>3, <2>4 DEF Carried, QueuesKeep, handlerVars
<1>12. ASSUME NEW h \in Handlers, RetryOrReject(h)
       PROVE  Goal
  <2> DEFINE m == msg[h]
             retry == RetryQueue(m.attempt + 1)
             copy == [m EXCEPT !.attempt = @ + 1]
             retried == Put(retry, copy)
  <2>1. pc[h] = "retry" /\ m \in Messages
    BY <1>12, BusyHandler DEF RetryOrReject, At
  <2>2. /\ "payments.new" \in Queues /\ "payments.dlq" \in Queues
        /\ retry \in Queues \ {"payments.new"}
    BY DEF Queues, RetryQueue
  <2>3. ASSUME NEW q \in Queues, queue' = Put(q, m), Release(h)
        PROVE  Goal
    BY <1>9, <2>1, <2>3, PutKeeps
  <2>4. ASSUME m.attempt < MaxAttempts, queue' = retried, Goto(h, "ack")
        PROVE  Goal
    <3>1. copy \in Messages /\ copy.event = WorksOn(h)
      BY <2>1, <2>4, CopyType DEF Messages, WorksOn
    <3>2. QueuesKeep /\ queue'[retry][copy] > 0
      <4> HIDE DEF copy, retry
      <4>1. QED
        BY <2>2, <2>4, <3>1, PutKeeps
    <3>3. Carried(WorksOn(h))'
      BY <2>2, <2>4, <3>1, <3>2 DEF Carried, Goto, WorksOn
    <3>4. QED
      BY <1>4, <1>5, <2>1, <2>4, <3>2, <3>3 DEF Accounted
  <2>5. ASSUME m.attempt < MaxAttempts, Release(h),
               queue' = [retried EXCEPT !["payments.new"][m] = @ + 1]
        PROVE  Goal
    <3>1. copy \in Messages
      BY <2>1, <2>5, CopyType
    <3>2. queue \in [Queues -> [Messages -> Nat]]
      BY DEF TypeInv, TypeOK
    <3> HIDE DEF copy, retry
    <3>3. /\ retried \in [Queues -> [Messages -> Nat]]
          /\ \A q \in Queues, n \in Messages : retried[q][n] >= queue[q][n]
      BY <2>2, <3>1, <3>2 DEF Put
    <3> HIDE DEF retried
    <3>4. /\ \A q \in Queues, n \in Messages : queue'[q][n] >= retried[q][n]
          /\ queue'["payments.new"][m] = retried["payments.new"][m] + 1
      BY <2>1, <2>2, <2>5, <3>3
    <3>5. queue' \in [Queues -> [Messages -> Nat]]
      BY QueueTyped
    <3>6. QueuesKeep
      <4> SUFFICES ASSUME NEW q \in Queues, NEW n \in Messages,
                          queue[q][n] > 0
                   PROVE  queue'[q][n] > 0
        BY DEF QueuesKeep
      <4>1. /\ queue'[q][n] \in Nat /\ retried[q][n] \in Nat
            /\ queue[q][n] \in Nat
        BY <3>2, <3>3, <3>5
      <4>2. QED
        BY <3>3, <3>4, <4>1
    <3>7. queue'["payments.new"][m] > 0
      BY <2>1, <2>2, <3>3, <3>4
    <3>8. QED
      BY <1>9, <2>1, <2>2, <2>5, <3>6, <3>7
  <2>6. \/ \E q \in Queues : queue' = Put(q, m) /\ Release(h)
        \/ m.attempt < MaxAttempts /\ queue' = retried /\ Goto(h, "ack")
        \/ /\ m.attempt < MaxAttempts
           /\ Release(h)
           /\ queue' = [retried EXCEPT !["payments.new"][m] = @ + 1]
    BY <1>12, <2>2 DEF RetryOrReject
  <2>7. QED
    BY <2>3, <2>4, <2>5, <2>6
<1>13. ASSUME NEW h \in Handlers,
              \/ TransactionFails(h) \/ CallFails(h) \/ PostCharge(h)
              \/ GetVerdict(h) \/ GetAmbiguousOutcome(h) \/ Deliver(h)
       PROVE  Goal
  <2>1. PICK step \in {"retry", "reject", "await", "apply", "mark_unknown",
                       "mark_sent"} :
          pc[h] # "idle" /\ Goto(h, step) /\ UNCHANGED queue
    BY <1>13 DEF TransactionFails, CallFails, PostCharge, GetVerdict,
       GetAmbiguousOutcome, Deliver, At
  <2>2. QED
    BY <1>3, <1>4, <1>5, <2>1
<1>14. ASSUME NEW h \in Handlers, LoadRequest(h)
       PROVE  Goal
  <2>1. PICK step \in {"reject", "call", "ack"} :
          /\ pc[h] # "idle" /\ Goto(h, step) /\ UNCHANGED <<queue, payment>>
          /\ WorksOn(h).type = "payment.process_requested"
          /\ step = "ack" => RowOf(h).status \notin {"absent", "pending"}
    BY <1>14 DEF LoadRequest, At, tables
  <2>2. step = "ack" => Done(WorksOn(h))'
    BY <2>1 DEF Done, RowOf, WorksOn, Goto
  <2>3. QED
    BY <1>3, <1>4, <1>5, <2>1, <2>2 DEF Accounted
<1>15. ASSUME NEW h \in Handlers, LoadDelivery(h)
       PROVE  Goal
  <2>1. PICK step \in {"reject", "deliver", "ack"} :
          /\ pc[h] # "idle" /\ Goto(h, step) /\ UNCHANGED <<queue, payment>>
          /\ WorksOn(h).type = "webhook.delivery_requested"
          /\ step = "ack" => RowOf(h).webhook_sent
    BY <1>15 DEF LoadDelivery, At, tables
  <2>2. step = "ack" => Done(WorksOn(h))'
    BY <2>1 DEF Done, RowOf, WorksOn, Goto
  <2>3. QED
    BY <1>3, <1>4, <1>5, <2>1, <2>2 DEF Accounted
<1>16. ASSUME NEW h \in Handlers, ApplyResult(h) \/ MarkUnknown(h) \/ MarkSent(h)
       PROVE  Goal
  <2>1. pc[h] \in {"apply", "mark_unknown", "mark_sent"} /\ UNCHANGED queue
    BY <1>16 DEF ApplyResult, MarkUnknown, MarkSent, At
  <2>2. PICK step \in {"ack", "retry", "reject"} : Goto(h, step)
    BY <1>16 DEF ApplyResult, MarkUnknown, MarkSent, Committed
  <2>3. WorksOn(h).payment \in Payments /\ RowOf(h) \in Rows
    BY <2>1, BusyHandler
  <2>4. step = "ack" => Done(WorksOn(h))'
    <3>1. ASSUME step = "ack", ApplyResult(h)
          PROVE  Done(WorksOn(h))'
      <4>1. pc[h] = "apply" /\ result[h] \in Verdicts
            /\ WorksOn(h).type = "payment.process_requested"
        BY <3>1 DEF ApplyResult, At, TypeInv, HandlersOK, WorksOn
      <4>2. payment'[WorksOn(h).payment].status \notin {"absent", "pending"}
        <5>1. CASE RowOf(h).status # "pending"
          BY <2>2, <3>1, <5>1 DEF ApplyResult, Goto, RowOf, tables, At, TypeInv, TypeOK
        <5>2. CASE Settle(WorksOn(h).payment, result[h])
          BY <2>3, <4>1, <5>2, SettleRow, SettledColumns DEF RowOf, Terminal
        <5>3. QED
          BY <3>1, <5>1, <5>2 DEF ApplyResult
      <4>3. QED
        BY <2>2, <4>1, <4>2 DEF Done, Goto, WorksOn
    <3>2. ASSUME step = "ack", MarkUnknown(h)
          PROVE  Done(WorksOn(h))'
      <4>1. WorksOn(h).type = "payment.process_requested" /\ pc[h] = "mark_unknown"
        BY <3>2 DEF MarkUnknown, At, TypeInv, HandlersOK, WorksOn
      <4>2. payment'[WorksOn(h).payment].status \notin {"absent", "pending"}
        BY <2>2, <2>3, <3>2, <4>1
        DEF MarkUnknown, Goto, RowOf, TypeInv, TypeOK, Rows, PaymentRows
      <4>3. QED
        BY <2>2, <4>1, <4>2 DEF Done, Goto, WorksOn
    <3>3. ASSUME step = "ack", MarkSent(h)
          PROVE  Done(WorksOn(h))'
      <4>1. WorksOn(h).type = "webhook.delivery_requested" /\ pc[h] = "mark_sent"
        BY <3>3 DEF MarkSent, At, TypeInv, HandlersOK, WorksOn
      <4>2. payment'[WorksOn(h).payment].webhook_sent
        BY <2>2, <2>3, <3>3, <4>1
        DEF MarkSent, Goto, RowOf, TypeInv, TypeOK, Rows, PaymentRows
      <4>3. QED
        BY <2>2, <4>1, <4>2 DEF Done, Goto, WorksOn
    <3>4. QED
      BY <1>16, <3>1, <3>2, <3>3
  <2>5. QED
    BY <1>3, <1>4, <1>5, <2>1, <2>2, <2>4 DEF Accounted
<1>17. ASSUME UNCHANGED queue, UNCHANGED handlerVars
       PROVE  Goal
  BY <1>1, <1>17, CarriedFrame
<1>18. Goal
  <2>1. ASSUME NEW h \in Handlers,
               \/ Receive(h) \/ Ack(h) \/ Reject(h) \/ RetryOrReject(h)
               \/ Crash(h) \/ TransactionFails(h) \/ LoadRequest(h)
               \/ CallFails(h) \/ PostCharge(h) \/ GetVerdict(h)
               \/ GetAmbiguousOutcome(h) \/ ApplyResult(h) \/ MarkUnknown(h)
               \/ LoadDelivery(h) \/ Deliver(h) \/ MarkSent(h)
        PROVE  Goal
    BY ONLY <1>6, <1>8, <1>10, <1>12, <1>13, <1>14, <1>15, <1>16, <2>1
  <2>2. QED
    BY <1>7, <1>11, <1>17, <2>1, WritersOfQueue, WritersOfHandlers
<1>19. QED
  BY <1>18 DEF Goal

LEMMA LossInvStep == TypeInv /\ RowsOK /\ LossInv /\ [Next]_vars => LossInv'
<1> SUFFICES ASSUME TypeInv, RowsOK, LossInv, [Next]_vars, NEW e \in Events,
                    outbox'[e] = "published" \/ \E r \in Relays : e \in marked'[r]
             PROVE  Accounted(e)'
  BY DEF LossInv
<1>1. CASE Accounted(e)
  <2>1. Done(e) => Accounted(e)'
    BY DoneStays DEF Accounted
  <2>2. Carried(e) => Accounted(e)'
    BY CarriedStays
  <2>3. QED
    BY <1>1, <2>1, <2>2 DEF Accounted
<1>2. CASE outbox[e] = "published" \/ \E r \in Relays : e \in marked[r]
  BY <1>1, <1>2 DEF LossInv
<1>3. CASE ~(outbox[e] = "published" \/ \E r \in Relays : e \in marked[r])
  <2>1. PICK r \in Relays : /\ Publish(r)
                            /\ marked' = [marked EXCEPT ![r] = @ \cup {e}]
    <3>1. outbox' # outbox => outbox'[e] # "published"
      BY <1>3, WritersOfOutbox
      DEF CreatePayment, CommitBatch, ApplyResult, PersistResolution, Settle,
          TypeInv, TypeOK, tables, FreshWebhookIds
    <3>2. outbox'[e] # "published"
      BY <1>3, <3>1
    <3>3. PICK r \in Relays : e \in marked'[r]
      BY <3>2
    <3>4. marked \in [Relays -> SUBSET Events] /\ e \notin marked[r]
      BY <1>3 DEF TypeInv, TypeOK
    <3>5. ASSUME NEW s \in Relays,
                 FetchBatch(s) \/ CommitBatch(s) \/ RelayFails(s)
          PROVE  FALSE
      BY <3>3, <3>4, <3>5 DEF FetchBatch, CommitBatch, RelayFails
    <3>6. ~UNCHANGED relayVars
      BY <3>3, <3>4 DEF relayVars
    <3>7. PICK s \in Relays : Publish(s)
      BY <3>5, <3>6, WritersOfBatches
    <3>8. s = r /\ marked' = [marked EXCEPT ![r] = @ \cup {e}]
      <4>1. PICK d \in batch[s] : marked' = [marked EXCEPT ![s] = @ \cup {d}]
        BY <3>7 DEF Publish
      <4>2. s = r
        BY <3>3, <3>4, <4>1
      <4>3. marked'[r] = marked[r] \cup {d}
        BY <3>4, <4>1, <4>2
      <4>4. d = e
        BY <3>3, <3>4, <4>3
      <4>5. QED
        BY <4>1, <4>2, <4>4
    <3>9. QED
      BY <3>7, <3>8
  <2>2. queue' = Put("payments.new", [event |-> e, attempt |-> 1])
    BY <1>3, <2>1 DEF Publish, TypeInv, TypeOK
  <2>3. [event |-> e, attempt |-> 1] \in Messages /\ "payments.new" \in Queues
    BY DEF Messages, MaxAttempts, Queues
  <2>4. QED
    BY <2>2, <2>3, PutKeeps DEF Accounted, Carried
<1>4. QED
  BY <1>2, <1>3

-----------------------------------------------------------------------------
\* No work is lost: every event committed with its payment stays in the
\* outbox, with the broker or with a handler until what it asks for is done,
\* for any number of relays, handlers, reconcilers and faults.
THEOREM NoWorkLost == Spec => []NothingLost
<1>1. Init => LossInv
  BY DEF Init, LossInv
<1>2. TypeInv /\ LossInv => NothingLost
  BY DEF TypeInv, TypeOK, LossInv, Accounted, NothingLost
<1>3. QED
  BY <1>1, <1>2, TypeInvInit, TypeInvStep, RowsOKInit, RowsStayOK, LossInvStep,
     PTL DEF Spec

\* A settled payment, or one in manual review, is never rewritten by a late
\* handler or reconciler.
THEOREM SettledForGood == Spec => SettledRowsStay
<1>1. TypeInv /\ RowsOK /\ [Next]_vars =>
        [\A p \in Payments :
           /\ payment[p].status \in Terminal =>
                payment'[p] \in {payment[p],
                                 [payment[p] EXCEPT !.webhook_sent = TRUE]}
           /\ payment[p].manual_review => payment'[p] = payment[p]]_vars
  BY SettledRowsStep
<1>2. QED
  BY <1>1, TypeInvInit, TypeInvStep, RowsOKInit, RowsStayOK, PTL
  DEF Spec, SettledRowsStay

-----------------------------------------------------------------------------
(* The refinement: reconcilers treat leases as LeaseContract does.         *)

\* The variables of the contract, as KeepsLeases gives them.
JobFor(row) == [stage |-> Stage(row), spent |-> row.attempts,
                holder |-> row.lease_token]

Jobs == [p \in Payments |-> JobFor(payment[p])]

HeldTokens == [c \in Reconcilers |-> recon[c].token]

\* A reconciler has a token from its claim to the end of its batch; no lease
\* is on a row whose outcome nobody has called unknown.
TokensOK ==
  /\ \A c \in Reconcilers : IF recon[c].step = "claim"
                              THEN recon[c].token = None
                              ELSE recon[c].token \in Tokens
  /\ \A p \in Payments : payment[p].status \in {"absent", "pending"} =>
                           payment[p].lease_token = None

\* Reconciler c goes on under its token, or puts it down.
GoesOn(c) ==
  LET new == recon'[c]
  IN  /\ recon' = [recon EXCEPT ![c] = new]
      /\ IF new.step = "claim" THEN new.token = None
                               ELSE new.token = recon[c].token

LEMMA ReconcilerGoesOn ==
  ASSUME TypeInv, NEW c \in Reconcilers,
         \/ RenewClaim(c) \/ LookupProvider(c) \/ PersistResolution(c)
         \/ ReconcileFails(c) \/ ReconcilerCrashes(c)
  PROVE  recon[c].step # "claim" /\ GoesOn(c)
<1>1. recon[c] \in ReconStates
  BY DEF TypeInv, TypeOK
<1>2. ASSUME NEW new, recon' = [recon EXCEPT ![c] = new],
             IF new.step = "claim" THEN new.token = None
                                   ELSE new.token = recon[c].token
      PROVE  GoesOn(c)
  <2>1. recon'[c] = new
    BY <1>2 DEF TypeInv, TypeOK
  <2>2. QED
    BY <1>2, <2>1 DEF GoesOn
<1> DEFINE rest(todo) == [step |-> "renew", token |-> recon[c].token,
                          todo |-> todo, target |-> None, answer |-> None]
<1>3. ASSUME NEW todo, NextPayment(c, todo)
      PROVE  GoesOn(c)
  <2>1. CASE todo = {}
    <3>1. recon' = [recon EXCEPT ![c] = Resting]
      BY <1>3, <2>1 DEF NextPayment
    <3>2. Resting.step = "claim" /\ Resting.token = None
      BY DEF Resting
    <3>3. QED
      BY <1>2, <3>1, <3>2
  <2>2. CASE todo # {}
    <3>1. recon' = [recon EXCEPT ![c] = rest(todo)]
      BY <1>3, <2>2 DEF NextPayment
    <3>2. rest(todo).step = "renew" /\ rest(todo).token = recon[c].token
      OBVIOUS
    <3> HIDE DEF rest
    <3>3. QED
      BY <1>2, <3>1, <3>2
  <2>3. QED
    BY <2>1, <2>2
<1>4. CASE RenewClaim(c)
  <2>1. PICK p \in recon[c].todo :
          \/ NextPayment(c, recon[c].todo \ {p})
          \/ recon' = [recon EXCEPT ![c] =
               [@ EXCEPT !.step = "lookup", !.todo = recon[c].todo \ {p},
                         !.target = p]]
    BY <1>4 DEF RenewClaim
  <2> DEFINE new == [recon[c] EXCEPT !.step = "lookup",
                       !.todo = recon[c].todo \ {p}, !.target = p]
  <2>2. new.step # "claim" /\ new.token = recon[c].token
    BY <1>1 DEF ReconStates
  <2>3. NextPayment(c, recon[c].todo \ {p}) \/ recon' = [recon EXCEPT ![c] = new]
    BY <2>1
  <2> HIDE DEF new
  <2>4. QED
    BY <1>2, <1>3, <1>4, <2>2, <2>3 DEF RenewClaim
<1>5. CASE LookupProvider(c)
  <2>1. PICK answer :
          recon' = [recon EXCEPT ![c] =
                      [@ EXCEPT !.step = "persist", !.answer = answer]]
    BY <1>5 DEF LookupProvider
  <2> DEFINE new == [recon[c] EXCEPT !.step = "persist", !.answer = answer]
  <2>2. new.step # "claim" /\ new.token = recon[c].token
    BY <1>1 DEF ReconStates
  <2>3. recon' = [recon EXCEPT ![c] = new]
    BY <2>1
  <2> HIDE DEF new
  <2>4. QED
    BY <1>2, <1>5, <2>2, <2>3 DEF LookupProvider
<1>6. CASE PersistResolution(c)
  BY <1>3, <1>6 DEF PersistResolution
<1>7. CASE ReconcileFails(c)
  BY <1>3, <1>7 DEF ReconcileFails
<1>8. CASE ReconcilerCrashes(c)
  BY <1>3, <1>8 DEF ReconcilerCrashes, NextPayment
<1>9. QED
  BY <1>4, <1>5, <1>6, <1>7, <1>8

\* What going on does to the tokens held.
LEMMA TokenKeptOrPutDown ==
  ASSUME TypeInv, NEW c \in Reconcilers, GoesOn(c)
  PROVE  \/ HeldTokens' = HeldTokens
         \/ HeldTokens' = [HeldTokens EXCEPT ![c] = None]
<1>1. \A d \in Reconcilers \ {c} : recon'[d] = recon[d]
  BY DEF GoesOn, TypeInv, TypeOK
<1>2. HeldTokens' = [HeldTokens EXCEPT ![c] = recon'[c].token]
  BY <1>1 DEF HeldTokens
<1>3. recon'[c].token = None \/ recon'[c].token = HeldTokens[c]
  BY DEF GoesOn, HeldTokens
<1>4. QED
  BY <1>2, <1>3 DEF HeldTokens

LEMMA TokensOKInit == Init => TokensOK
BY DEF Init, TokensOK, Resting, NoRow

LEMMA TokensKeepStatus ==
  ASSUME NEW row \in Rows, NEW t
  PROVE  [row EXCEPT !.lease_token = t].status = row.status
BY DEF Rows, PaymentRows

LEMMA TokensOKStep ==
  ASSUME TypeInv, TokensOK, [Next]_vars
  PROVE  TokensOK'
<1>1. ASSUME NEW d \in Reconcilers
      PROVE  IF recon'[d].step = "claim" THEN recon'[d].token = None
                                         ELSE recon'[d].token \in Tokens
  <2>1. CASE UNCHANGED recon
    BY <2>1 DEF TokensOK
  <2>3. ASSUME NEW c \in Reconcilers, ClaimBatch(c)
        PROVE  IF recon'[d].step = "claim" THEN recon'[d].token = None
                                           ELSE recon'[d].token \in Tokens
    <3>1. PICK b \in SUBSET Payments, t \in Tokens :
            recon' = [recon EXCEPT ![c] =
              [step |-> "renew", token |-> t, todo |-> b, target |-> None,
               answer |-> None]]
      BY <2>3 DEF ClaimBatch, FreshTokens
    <3>2. CASE d = c
      BY <3>1, <3>2 DEF TypeInv, TypeOK
    <3>3. CASE d # c
      BY <3>1, <3>3 DEF TokensOK, TypeInv, TypeOK
    <3>4. QED
      BY <3>2, <3>3
  <2>4. ASSUME NEW c \in Reconcilers, recon[c].step # "claim", GoesOn(c)
        PROVE  IF recon'[d].step = "claim" THEN recon'[d].token = None
                                           ELSE recon'[d].token \in Tokens
    <3>1. CASE d = c
      BY <2>4, <3>1 DEF GoesOn, TokensOK
    <3>2. CASE d # c
      BY <2>4, <3>2 DEF GoesOn, TokensOK, TypeInv, TypeOK
    <3>3. QED
      BY <3>1, <3>2
  <2>5. QED
    BY <2>1, <2>3, <2>4, WritersOfRecon, ReconcilerGoesOn
<1>2. ASSUME NEW p \in Payments, payment'[p].status \in {"absent", "pending"}
      PROVE  payment'[p].lease_token = None
  <2>1. payment[p] \in Rows /\ RowStep(p)
    BY RowSteps DEF TypeInv, TypeOK, Rows
  <2>2. CASE payment'[p] = payment[p]
    BY <1>2, <2>2 DEF TokensOK
  <2>3. CASE payment'[p] = NewPayment
    BY <2>3 DEF NewPayment, NoRow
  <2>4. payment'[p] # [payment[p] EXCEPT !.status = "unknown"]
    BY <1>2, <2>1 DEF Rows, PaymentRows
  <2>5. ~SettlesRow(p, payment[p], payment'[p])
    BY <1>2, <2>1, SettledColumns DEF Terminal
  <2>6. CASE payment[p].status \in Terminal
             /\ payment'[p] = [payment[p] EXCEPT !.webhook_sent = TRUE]
    BY <1>2, <2>1, <2>6 DEF Rows, PaymentRows, Terminal
  <2>7. CASE Reconcilable(payment[p])
    <3>1. payment[p].status = "unknown"
      BY <2>7 DEF Reconcilable
    <3>2. payment'[p] # Unresolved(payment[p], ReconciliationMaxAttempts)
      BY <1>2, <2>1, <3>1, UnresolvedColumns
    <3>3. \A t \in Tokens : payment'[p] # [payment[p] EXCEPT !.lease_token = t]
      BY <1>2, <2>1, <3>1, TokensKeepStatus
    <3>4. QED
      BY <2>1, <2>2, <2>3, <2>5, <3>1, <3>2, <3>3 DEF RowStep, Terminal
  <2>8. QED
    BY <2>1, <2>2, <2>3, <2>4, <2>5, <2>6, <2>7 DEF RowStep
<1>3. QED
  BY <1>1, <1>2 DEF TokensOK

-----------------------------------------------------------------------------
LEMMA OneJob ==
  ASSUME TypeInv, NEW p \in Payments,
         \A q \in Payments \ {p} : payment'[q] = payment[q]
  PROVE  Jobs' = [Jobs EXCEPT ![p] = JobFor(payment'[p])]
BY DEF Jobs, JobFor, Stage, Reconcilable

LEMMA LeaseInitRefines == Init => Leases!LeaseInit
BY DEF Init, Leases!LeaseInit, Stage, NoRow, Resting

\* The jobs of settled and of unresolved rows, as the contract has them.
LEMMA ConcludedJobs ==
  ASSUME TypeInv, RowsOK, NEW p \in Payments, Reconcilable(payment[p])
  PROVE  /\ \A v \in Verdicts, w \in WebhookIds :
              JobFor(Resolved(payment[p], v, w)) = Leases!Settled(Jobs[p])
         /\ JobFor(Unresolved(payment[p], ReconciliationMaxAttempts))
              = Leases!Spent(Jobs[p])
<1>1. payment[p] \in Rows
  BY DEF TypeInv, TypeOK, Rows
<1>2. Jobs[p].spent = payment[p].attempts
  BY DEF Jobs, JobFor
<1>3. ASSUME NEW v \in Verdicts, NEW w \in WebhookIds
      PROVE  JobFor(Resolved(payment[p], v, w)) = Leases!Settled(Jobs[p])
  <2> DEFINE new == Resolved(payment[p], v, w)
  <2>1. /\ new.status \in Terminal /\ new.attempts = payment[p].attempts
        /\ new.lease_token = None
    BY <1>1 DEF Resolved, StatusFor, Terminal, Rows, PaymentRows
  <2>2. Stage(new) = "closed"
    BY <2>1 DEF Stage, Reconcilable, Terminal
  <2> HIDE DEF new
  <2>3. QED
    BY <1>2, <2>1, <2>2 DEF JobFor, Leases!Settled, new
<1>4. JobFor(Unresolved(payment[p], ReconciliationMaxAttempts))
        = Leases!Spent(Jobs[p])
  <2> DEFINE new == Unresolved(payment[p], ReconciliationMaxAttempts)
             n == payment[p].attempts + 1
  <2>1. /\ new.status = payment[p].status /\ new.attempts = n
        /\ new.lease_token = None
    BY <1>1 DEF Unresolved, Rows, PaymentRows
  <2>2. new.manual_review = (n >= ReconciliationMaxAttempts)
    BY <1>1 DEF Unresolved, Rows, PaymentRows, Reconcilable
  <2>3. n < ReconciliationMaxAttempts <=> ~(n >= ReconciliationMaxAttempts)
    BY <1>1, BoundsAssumption DEF Rows, PaymentRows, Attempts
  <2> HIDE DEF n, new
  <2>4. Stage(new) = IF n < ReconciliationMaxAttempts THEN "open" ELSE "closed"
    BY <2>1, <2>2, <2>3 DEF Stage, Reconcilable
  <2>5. QED
    BY <1>2, <2>1, <2>4 DEF JobFor, Leases!Spent, n, new
<1>5. QED
  BY <1>3, <1>4

\* A step that rewrites one row without a change of its job is a stutter, or
\* a reconciler's giving up, of the contract.
LEMMA SameJob ==
  ASSUME TypeInv, NEW p \in Payments, NEW row,
         payment' = [payment EXCEPT ![p] = row],
         JobFor(row) = JobFor(payment[p])
  PROVE  Jobs' = Jobs
<1>1. /\ payment'[p] = row
      /\ \A q \in Payments \ {p} : payment'[q] = payment[q]
  BY DEF TypeInv, TypeOK
<1>2. QED
  BY <1>1, OneJob DEF Jobs

LEMMA PersistRefines ==
  ASSUME TypeInv, RowsOK, TokensOK, NEW c \in Reconcilers, PersistResolution(c)
  PROVE  [Leases!LeaseNext]_Leases!leaseVars
<1>1. recon[c].step = "persist" /\ GoesOn(c)
  BY ReconcilerGoesOn DEF PersistResolution
<1>2. HeldTokens' = HeldTokens \/ HeldTokens' = [HeldTokens EXCEPT ![c] = None]
  BY <1>1, TokenKeptOrPutDown
<1>3. CASE UNCHANGED payment
  BY <1>2, <1>3 DEF Leases!LeaseNext, Leases!GiveUp, Leases!PutDown,
     Leases!leaseVars, HeldTokens
<1>4. CASE ~UNCHANGED payment
  <2>1. PICK p \in Payments : p = recon[c].target
    BY <1>1 DEF TypeInv, ReconcilersOK
  <2>2. recon[c].answer \in Verdicts \cup {None}
    BY DEF TypeInv, TypeOK, ReconStates
  <2>3. /\ Renewable(c, p)
        /\ \/ payment' = [payment EXCEPT ![p] =
                Unresolved(payment[p], ReconciliationMaxAttempts)]
           \/ recon[c].answer # None /\ Settle(p, recon[c].answer)
    BY <1>4, <2>1 DEF PersistResolution, tables
  <2>4. /\ Jobs[p].stage = "open" /\ Jobs[p].holder = HeldTokens[c]
        /\ HeldTokens[c] # None
    BY <1>1, <2>3, NoneAssumption
    DEF Renewable, Reconcilable, Stage, Jobs, JobFor, HeldTokens, TokensOK
  <2>5. /\ payment'[p] = Unresolved(payment[p], ReconciliationMaxAttempts)
           \/ SettlesRow(p, payment[p], payment'[p])
        /\ \A q \in Payments \ {p} : payment'[q] = payment[q]
    BY <2>2, <2>3, SettleRow DEF TypeInv, TypeOK
  <2>6. JobFor(payment'[p]) \in {Leases!Settled(Jobs[p]), Leases!Spent(Jobs[p])}
    BY <2>3, <2>5, ConcludedJobs DEF Renewable, SettlesRow
  <2>7. Jobs' = [Jobs EXCEPT ![p] = JobFor(payment'[p])]
    BY <2>5, OneJob
  <2>8. Leases!Conclude(c, p)
    BY <1>2, <2>4, <2>6, <2>7
    DEF Leases!Conclude, Leases!PutDown, Jobs, JobFor, HeldTokens
  <2>9. QED
    BY <2>8 DEF Leases!LeaseNext
<1>5. QED
  BY <1>3, <1>4

LEMMA TakesOn ==
  ASSUME TypeInv, TokensOK, NEW c \in Reconcilers, ClaimBatch(c)
  PROVE  Leases!TakeOn(c)
<1>1. PICK b \in SUBSET {p \in Payments : Reconcilable(payment[p])},
           k \in FreshTokens :
        /\ b # {}
        /\ payment' = [p \in Payments |->
             IF p \in b THEN [payment[p] EXCEPT !.lease_token = k]
                        ELSE payment[p]]
        /\ recon' = [recon EXCEPT ![c] =
             [step |-> "renew", token |-> k, todo |-> b, target |-> None,
              answer |-> None]]
  BY DEF ClaimBatch
<1>2. HeldTokens[c] = None
  BY DEF ClaimBatch, TokensOK, HeldTokens
<1>3. /\ k \in Tokens /\ \A p \in Payments : Jobs[p].holder # k
      /\ \A d \in Reconcilers : HeldTokens[d] # k
  BY DEF FreshTokens, Jobs, JobFor, HeldTokens
<1>4. b \in SUBSET {p \in Payments : Jobs[p].stage = "open"}
  BY DEF Reconcilable, Stage, Jobs, JobFor
<1>5. Jobs' = [p \in Payments |->
         IF p \in b THEN [Jobs[p] EXCEPT !.holder = k] ELSE Jobs[p]]
  <2>1. ASSUME NEW p \in Payments
        PROVE  JobFor(payment'[p]) = IF p \in b
                 THEN [Jobs[p] EXCEPT !.holder = k] ELSE Jobs[p]
    <3>1. CASE p \in b
      <4>1. /\ payment[p] \in Rows
            /\ payment'[p] = [payment[p] EXCEPT !.lease_token = k]
        BY <1>1, <3>1 DEF TypeInv, TypeOK, Rows
      <4>2. /\ payment'[p].status = payment[p].status
            /\ payment'[p].attempts = payment[p].attempts
            /\ payment'[p].manual_review = payment[p].manual_review
            /\ payment'[p].lease_token = k
        BY <4>1 DEF Rows, PaymentRows
      <4>3. QED
        BY <3>1, <4>2 DEF Jobs, JobFor, Stage, Reconcilable
    <3>2. CASE p \notin b
      BY <1>1, <3>2 DEF Jobs
    <3>3. QED
      BY <3>1, <3>2
  <2>2. QED
    BY <2>1 DEF Jobs
<1>6. HeldTokens' = [HeldTokens EXCEPT ![c] = k]
  <2>1. /\ recon'[c].token = k
        /\ \A d \in Reconcilers \ {c} : recon'[d] = recon[d]
    BY <1>1 DEF TypeInv, TypeOK
  <2>2. QED
    BY <2>1 DEF HeldTokens
<1>7. QED
  BY <1>1, <1>2, <1>3, <1>4, <1>5, <1>6
  DEF Leases!TakeOn, Leases!Fresh, Jobs, JobFor, HeldTokens

\* A handler's step makes a job of a pending payment, or changes none.
LEMMA HandlerRefines ==
  ASSUME TypeInv, RowsOK, TokensOK, NEW h \in Handlers,
         ApplyResult(h) \/ MarkUnknown(h) \/ MarkSent(h)
  PROVE  [Leases!LeaseNext]_Leases!leaseVars
<1>1. HeldTokens' = HeldTokens
  BY DEF ApplyResult, MarkUnknown, MarkSent, HeldTokens
<1>2. CASE Jobs' = Jobs
  BY <1>1, <1>2 DEF Leases!leaseVars, Jobs, JobFor, HeldTokens
<1>3. PICK p \in Payments : p = WorksOn(h).payment
  BY BusyHandler DEF ApplyResult, MarkUnknown, MarkSent, At
<1>4. payment[p] \in Rows
  BY DEF TypeInv, TypeOK, Rows
<1>5. ASSUME payment[p].status = "pending",
             \A q \in Payments \ {p} : payment'[q] = payment[q],
             \E s \in {"open", "closed"} :
               JobFor(payment'[p]) = [stage |-> s, spent |-> payment[p].attempts,
                                      holder |-> payment[p].lease_token]
      PROVE  [Leases!LeaseNext]_Leases!leaseVars
  <2>1. Jobs[p].stage = "early"
    BY <1>5 DEF Jobs, JobFor, Stage
  <2>2. \E s \in {"open", "closed"} : Jobs' = [Jobs EXCEPT ![p].stage = s]
    <3>1. PICK s \in {"open", "closed"} :
            JobFor(payment'[p]) = [stage |-> s, spent |-> payment[p].attempts,
                                   holder |-> payment[p].lease_token]
      BY <1>5
    <3>2. JobFor(payment'[p]) = [Jobs[p] EXCEPT !.stage = s]
      BY <3>1 DEF Jobs, JobFor
    <3>3. Jobs' = [Jobs EXCEPT ![p] = JobFor(payment'[p])]
      BY <1>5, OneJob
    <3>4. QED
      BY <3>2, <3>3 DEF Jobs
  <2>3. Leases!Arise(p)
    BY <1>1, <2>1, <2>2 DEF Leases!Arise, Jobs, JobFor, HeldTokens
  <2>4. QED
    BY <2>3 DEF Leases!LeaseNext
<1>6. CASE UNCHANGED payment
  BY <1>2, <1>6 DEF Jobs, JobFor, Stage, Reconcilable
<1>7. CASE ApplyResult(h) /\ ~UNCHANGED payment
  <2>1. pc[h] = "apply" /\ payment[p].status = "pending" /\ Settle(p, result[h])
    BY <1>3, <1>7 DEF ApplyResult, At, RowOf, tables
  <2>2. result[h] \in Verdicts
    BY <2>1 DEF TypeInv, HandlersOK
  <2>3. /\ SettlesRow(p, payment[p], payment'[p])
        /\ \A q \in Payments \ {p} : payment'[q] = payment[q]
    BY <2>1, <2>2, SettleRow
  <2>4. /\ payment'[p].status \in Terminal /\ payment'[p].lease_token = None
        /\ payment'[p].attempts = payment[p].attempts
    BY <1>4, <2>3
    DEF SettlesRow, Resolved, StatusFor, Terminal, Rows, PaymentRows
  <2>5. payment[p].lease_token = None
    BY <2>1 DEF TokensOK
  <2>6. JobFor(payment'[p]) = [stage |-> "closed", spent |-> payment[p].attempts,
                               holder |-> payment[p].lease_token]
    BY <2>4, <2>5 DEF JobFor, Stage, Reconcilable, Terminal
  <2>7. QED
    BY <1>5, <2>1, <2>3, <2>6
<1>8. CASE MarkUnknown(h) /\ ~UNCHANGED payment
  <2>1. /\ payment[p].status = "pending"
        /\ payment' = [payment EXCEPT ![p].status = "unknown"]
    BY <1>3, <1>8 DEF MarkUnknown, RowOf
  <2>2. /\ payment'[p] = [payment[p] EXCEPT !.status = "unknown"]
        /\ \A q \in Payments \ {p} : payment'[q] = payment[q]
    BY <2>1 DEF TypeInv, TypeOK
  <2>3. /\ payment'[p].status = "unknown"
        /\ payment'[p].attempts = payment[p].attempts
        /\ payment'[p].lease_token = payment[p].lease_token
    BY <1>4, <2>2 DEF Rows, PaymentRows
  <2>4. \E s \in {"open", "closed"} :
          JobFor(payment'[p]) = [stage |-> s, spent |-> payment[p].attempts,
                                 holder |-> payment[p].lease_token]
    BY <2>3 DEF JobFor, Stage
  <2>5. QED
    BY <1>5, <2>1, <2>2, <2>4
<1>9. CASE MarkSent(h) /\ ~UNCHANGED payment
  <2>1. payment' = [payment EXCEPT ![p].webhook_sent = TRUE]
    BY <1>3, <1>9 DEF MarkSent
  <2> DEFINE row == [payment[p] EXCEPT !.webhook_sent = TRUE]
  <2>2. payment' = [payment EXCEPT ![p] = row]
    BY <2>1
  <2>3. /\ row.status = payment[p].status /\ row.attempts = payment[p].attempts
        /\ row.manual_review = payment[p].manual_review
        /\ row.lease_token = payment[p].lease_token
    BY <1>4 DEF Rows, PaymentRows
  <2> HIDE DEF row
  <2>4. JobFor(row) = JobFor(payment[p])
    BY <2>3 DEF JobFor, Stage, Reconcilable
  <2>5. QED
    BY <1>2, <2>2, <2>4, SameJob
<1>10. QED
  BY <1>6, <1>7, <1>8, <1>9

LEMMA LeaseNextRefines ==
  ASSUME TypeInv, RowsOK, TokensOK, [Next]_vars
  PROVE  [Leases!LeaseNext]_Leases!leaseVars
<1>1. CASE UNCHANGED <<payment, recon>>
  BY <1>1 DEF Leases!leaseVars
<1>2. ASSUME NEW c \in Reconcilers, UNCHANGED payment,
             \/ RenewClaim(c) \/ LookupProvider(c)
             \/ ReconcileFails(c) \/ ReconcilerCrashes(c)
      PROVE  [Leases!LeaseNext]_Leases!leaseVars
  <2>1. HeldTokens' = HeldTokens
        \/ HeldTokens' = [HeldTokens EXCEPT ![c] = None]
    BY <1>2, ReconcilerGoesOn, TokenKeptOrPutDown
  <2>2. QED
    BY <1>2, <2>1 DEF Leases!LeaseNext, Leases!GiveUp, Leases!PutDown,
       Leases!leaseVars, HeldTokens
<1>3. ASSUME NEW p \in Payments, CreatePayment(p)
      PROVE  [Leases!LeaseNext]_Leases!leaseVars
  <2>1. payment[p] = NoRow /\ payment' = [payment EXCEPT ![p] = NewPayment]
    BY <1>3 DEF CreatePayment, RowsOK
  <2>2. JobFor(NewPayment) = JobFor(NoRow)
    BY DEF JobFor, Stage, NewPayment, NoRow
  <2>3. Jobs' = Jobs
    BY <2>1, <2>2, SameJob
  <2>4. QED
    BY <1>3, <2>3 DEF CreatePayment, Leases!leaseVars, Jobs, JobFor
<1>4. ASSUME NEW c \in Reconcilers, ClaimBatch(c)
      PROVE  [Leases!LeaseNext]_Leases!leaseVars
  BY <1>4, TakesOn DEF Leases!LeaseNext
<1>5. \/ UNCHANGED payment
      \/ \E p \in Payments : CreatePayment(p)
      \/ \E h \in Handlers : ApplyResult(h) \/ MarkUnknown(h) \/ MarkSent(h)
      \/ \E c \in Reconcilers : ClaimBatch(c) \/ PersistResolution(c)
  BY WritersOfPayment
<1>6. CASE UNCHANGED payment
  BY <1>1, <1>2, <1>4, <1>6, WritersOfRecon, PersistRefines
<1>7. QED
  BY <1>3, <1>4, <1>5, <1>6, HandlerRefines, PersistRefines

\* Among handlers that settle the same payments, and with faults of every
\* kind, reconcilers use leases as Reconciliation's do: an attempt has a token
\* of its own, and what came of it is written once, under that token.
THEOREM FlowLeasesRefine == Spec => KeepsLeases
<1>1. Init => Leases!LeaseInit
  BY LeaseInitRefines
<1>2. TypeInv /\ RowsOK /\ TokensOK /\ [Next]_vars =>
        [Leases!LeaseNext]_Leases!leaseVars
  BY LeaseNextRefines
<1>3. QED
  BY <1>1, <1>2, TypeInvInit, TypeInvStep, RowsOKInit, RowsStayOK,
     TokensOKInit, TokensOKStep, PTL
  DEF Spec, KeepsLeases, Leases!LeaseSpec
=============================================================================

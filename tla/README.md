# Async Payment Processing: formal models

TLA+ models of the payment service in `app/`, TLC configurations that check
them on small instances, and TLAPS proofs of what holds for instances of any
size.  Every definition is translated from the source; `PROJECT.json` says which
lines each one stands for.

## The system

| Component | State | Operations | Talks to |
|---|---|---|---|
| API, `PaymentService` (`app/api`, `app/services/payment.py`) | none of its own | create a payment, show one | tables `payments`, `outbox_events` |
| Outbox relay (`services/outbox_relay.py`) | an open transaction | fetch a batch, publish, commit | `outbox_events`, RabbitMQ |
| RabbitMQ (`integrations/rabbitmq`) | `payments.new`, `.retry.1`, `.retry.2`, `.dlq` | route, expire, dead-letter, redeliver | relay, consumer |
| Consumer (`worker/consumer.py`, `dispatcher.py`, `subscriber.py`) | one unacknowledged message per invocation | ack, reject, retry, nack | RabbitMQ, processors |
| Payment processor (`worker/payment_processor.py`) | the provider's answer, in memory | load, charge, apply the result, mark unknown | `payments`, provider |
| Webhook processor, client (`worker/webhook_processor.py`, `clients/webhook.py`) | the payload, in memory | load, deliver, mark sent | `payments`, webhook owner |
| Provider client (`clients/payment_provider.py`) | attempt and time budget of one call | charge with retries, look up | provider |
| Circuit breaker (`resilience/circuit_breaker.py`) | state, failure count, opening time | admit, record an outcome | processor, reconciler |
| Reconciliation worker (`services/payment_reconciliation.py`) | a lease token and a batch | claim, renew, look up, persist | `payments`, provider |
| Worker process (`worker/main.py`) | tasks, connections | start, stop | all of the above |
| Mock provider (`mock-provider/`) | records by idempotency key, locks | charge, show | provider client |

The hard parts are listed, each with its line and the properties that would
catch it, under `hazards` in `PROJECT.json`.  In short: every hand-over is at
least once, so every step may run twice and concurrently with itself; what a
handler read or was told is stale by the time it writes; a relay, a handler or a
reconciler may die between any two of its steps; and leases run out under live
workers.

What makes the components correct:

* relay, broker, consumer: nothing that was committed is lost, whatever fails;
* processors, reconciler: one verdict, stored once, announced under one id, and
  never overwritten by news that come late;
* creation: a key stands for one payment, which comes with its event, and every
  request with that key is told so;
* provider client: no charge outlives its budget, none is repeated that may have
  been taken on;
* breaker: one probe at a time, no influence of late calls, no refusal for ever;
* reconciliation: one worker per payment, no attempt spent out of turn or
  concluded by another than its own worker;
* worker process: nothing is closed under a running task, no task lost while it
  serves is hidden;
* all together: the service shows and tells what the provider decided, and every
  payment comes to rest; one that has not is always in somebody's hands.

## Modules

| Module | What it is |
|---|---|
| `PaymentRecord` | the row of table `payments` and its rewritings |
| `PaymentContract` | abstract specification: what client, provider and webhook owner may see |
| `PaymentFlow` | the core: API, outbox, relays, broker, handlers, reconcilers, provider and webhook owner together; `INSTANCE`s the contract |
| `PaymentFlowProofs` | type correctness of `PaymentFlow` |
| `PaymentFlowSafetyProofs` | no work is lost; settled rows stay; `PaymentFlow` implements `LeaseContract` |
| `PaymentFlowContractProofs` | what is stored and told is what the provider decided; `PaymentFlow` implements `PaymentContract`; no payment is forgotten |
| `CircuitBreaker`, `CircuitBreakerProofs` | the breaker with concurrent callers, and its proofs |
| `LeaseContract` | abstract specification: what a reconciler may do with payments, with or without a lease; no clock |
| `Reconciliation`, `ReconciliationProofs` | the reconciliation worker with its clocks, and its proofs; implements `LeaseContract` |
| `CreationContract` | abstract specification: what an Idempotency-Key stands for |
| `PaymentCreation`, `PaymentCreationProofs` | `POST /payments`, statement by statement; implements `CreationContract` |
| `ProviderContract` | abstract specification: what the service takes a call of the provider client to be |
| `MockProvider` | the provider of `mock-provider/` |
| `ProviderClient`, `ProviderClientProofs` | the retry loop and the lookup, `EXTENDS MockProvider`; client, network and provider implement `ProviderContract` |
| `WorkerLifecycle`, `WorkerLifecycleProofs` | start-up and shutdown of the worker process |
| `MCPaymentFlow`, `MCPaymentCreation`, `MCReconciliation` | values and symmetry sets for TLC |

`PaymentFlow` composes the components but sees three of them from outside: the
creation of a payment is one commit of a row and its event, a charge is a call
that ends in one of the ways of `ProviderContract`, and a worker that goes down is
a crash of its tasks.  `PaymentCreation`, `ProviderClient` and `WorkerLifecycle`
look inside.

### PaymentFlow

One action is one database transaction, one call of an external system or one
settlement of a message, because that is what other tasks and processes can come
between.  `pc[h]` is where invocation `h` of `PaymentQueueConsumer.handle`
stands between two awaits, `msg[h]` its message, `result[h]` what it keeps in
memory.  `recon[c]` is the same for a reconciler, `batch` and `marked` for the
transaction of a relay.  `payment` and `outbox` are the tables, `queue` counts the
copies of each message.  `posted`, `ledger` and `received` belong to the provider
and to the webhook owner, and are modelled from how the code uses them: a charge
is decided at most once under its key, as late as it pleases or never.

Abstractions, and why they lose nothing the properties need:

* Amounts, currencies, URLs and time stamps are no part of the protocol.
* A relay takes any `BatchSize` of the unlocked rows, not the oldest: more
  behaviours than the code has, none less.
* A transaction that rolls back is one that did not happen (`RelayFails`,
  `TransactionFails`, `ReconcileFails`); one that takes effect and still raises
  is in `Committed`, in `RetryOrReject` for publishes, and is `CommitBatch` or
  `ClaimBatch` followed by a failure for the rest.
* The provider client and the breaker appear by the ways a call can end:
  refused or retryable (`CallFails`), a verdict, or ambiguous, as
  `ProviderContract` has it.  Any of them may
  happen at any time, which covers every state of the breaker.  An ambiguous
  outcome needs no charge that was sent: the time budget covers waiting for a
  connection and making one (`BudgetRunsOut` of `ProviderClient`), and the
  payment is called unknown then as well.
* Leases have no clock here: a lease nobody works under may be taken over at any
  time, that of a live reconciler at the cost of a fault.  `Reconciliation` has
  the clock; that both implement `LeaseContract` is what ties them together.

`MaxFaults` bounds crashes, rollbacks, uncertain commits and publishes, and lost
leases.  Refusals, time-outs and failed webhooks are not faults: they are free.

### PaymentCreation

One action is one SQL statement of `PaymentService.create_payment`, that is, one
await: `Read`, `Insert`, `AddEvent`, `Commit`, `Refresh`, `Rollback`, `Reread`.
What a transaction has inserted is `staged` (rows of `payments`) and
`stagedEvents` (rows of `outbox_events`) until it commits; the two come of two
inserts, and `Commit` writes what each left.  PostgreSQL appears
by two things the code relies on: under READ COMMITTED a statement sees what is
committed, and the UNIQUE constraint makes an insert wait for the transaction
that holds the same key and fail once that one has committed.  `Fail`, `Raise` and
`Crash` may happen at every statement, as often as they like, and a commit may
take effect and still raise.  A retry of a client is another request.

A payment is named after the request that made it, since `uuid4()` makes a new
name for each.  An amount is a mantissa and a number of decimal places, so that
1.0 and 1.00 are two ways of writing one sum; `Fingerprint` quantizes them as
`build_request_fingerprint` does and is taken to be injective, as SHA-256 is for
all purposes.  The other fields are one value.  Requests that FastAPI refuses
before the service is called (no body that validates, no API key, a key longer
than 255 characters) are left out; a key of white space only is in.

### ProviderClient and MockProvider

One action of the client is what `process_payment` does between two awaits.
`call[c]` has the step (making a connection, waiting for the response, sleeping
before a retry), the attempt, and a clock of its own: `elapsed` is the time since
`started_at`, `due` when the timer set last runs out.  `Tick` lets time pass for
all running calls; a timer is served at most `Lag` ticks late.  httpx's own
time-outs end a request at a moment nobody knows beforehand, which is any moment.
`TransportFails` covers what may have reached the provider, `NotConnected` what
cannot.  Status codes appear by class, as the code branches on them: `try_later`
(429, 503), `rejected` (a 4xx but 408), `unclear` (408, other 5xx, a body that is
no verdict).  A Retry-After is any delay of `RetryAfters`, none, or NaN, for
which `delay >= remaining_time` is false and `asyncio.sleep` raises: the call
ends as `"error"`.

The provider is that of `mock-provider/`, with all its scenarios, and may turn a
request away besides.  A request that its client has given up lives on: the
handler may wake up and charge when nobody listens.  Between taking the lock of a
key and giving it back `process_payment` does not await, so that looking for a
record and making one is one action, and nobody ever waits for the lock.

`ProviderContract` is what `PaymentFlow` is built on: one decision per key, told
to all who hear of it; a call puts one charge at most to the provider, perhaps
after it gave up; one that ends with anything but a verdict or an ambiguous
outcome has put none.

### WorkerLifecycle

`main` is where `run_worker` stands between two awaits, `open` the connections and
pools, `task` the two background tasks, whose batches are left out but for being
`busy`.  Any step of the start-up may fail, a task may fail at any time, signals
may come at any time, and every step of the clean-up may raise, which takes the
rest of it along.  `broker.stop()` is FastStream's: without a `graceful_timeout`
it ends the deliveries and waits for no handler.  A reconciler that fails while
the relay is awaited in the `finally` block is done when its turn comes, and its
exception is raised to nobody; the model has that.

### CircuitBreaker

Admitting a call and recording its outcome are atomic, as the event loop makes
them: there is no await inside `_before_call` or the `_record_` methods.  Between
them the call is in flight.  `open_for` counts ticks since `opened_at`, up to the
recovery timeout, past which the code tells no difference, so that the state
space is finite without a bound.  `streak` is a history variable: the failures
since the provider last answered anyone, whether the breaker recorded that or not.

### Reconciliation

The clock is explicit.  The worker reads `datetime.now()` before it opens a
session and PostgreSQL's `now()`, which `onupdate` writes to `updated_at`, is the
start of the transaction; an action commits at `now` with both readings anywhere
between the end of the worker's last step and the present.  `StepTime` bounds how
long a transaction or a lookup takes.  The code has no such bound (the lookup's
timeout is per read, and no setting ties it to the lease), so runs are made with
leases longer and shorter than what steps need.  A worker that dies leaves its
leases behind; workers and database are assumed to share one clock.

`LeaseContract` is what is left of leases without clocks.  An attempt to find a
payment out begins under a token nobody else has, on open payments; the row may
change hands at any time; what came of an attempt, a settlement or one attempt
spent, is written by the worker whose token the row carries, which takes the
token off.  A payment whose attempts are spent, or which is settled, is closed to
all.  When a lease may be taken over the contract leaves open, because neither
the clock nor the promise that leases exclude each other survives a slow step.

## Runs

| Run | Bounds | What it shows |
|---|---|---|
| `flow_safety` | 1 payment, 2 handlers, 1 relay, 1 reconciler, 2 faults, 2 reconciliation attempts | types, no lost work, one webhook event, notices agree with the row, webhook guards never fire, no payment forgotten, settled rows stay, refinement of `PaymentContract` |
| `flow_leases` | 1 payment, 2 reconcilers, 1 handler, 2 faults | one settlement though leases are lost; refinement of `LeaseContract` |
| `flow_two_payments` | 2 payments in batches of 2, 2 relays, 1 handler, 1 reconciler, no faults | no mix-up and no loss inside a batch; relays that fetch at the same time publish no event twice |
| `flow_liveness` | 1 payment, 1 handler, 2 faults, fairness | every payment comes to rest |
| `flow_confirmed_result` | the same | violated: a verdict may never be stored (finding) |
| `breaker` | 4 callers, threshold 3, timeout 2 ticks, fairness | all properties of the breaker |
| `reconcile` | 2 workers, 2 payments, leases longer than two steps, 7 ticks | one worker per payment, no early manual review |
| `reconcile_slow` | 2 workers, 1 payment, steps longer than leases, 9 ticks | no early manual review and no write to a row another worker holds, though leases are lost; refinement of `LeaseContract` |
| `reconcile_lease_lost` | the same | violated: two workers on one payment (finding) |
| `create` | 3 requests, 1 key and the blank one, 2 sums written in 3 ways, any number of faults, fairness | a payment and its event come together, losers find the winner, refinement of `CreationContract`, every request ends |
| `client` | 2 calls of one key, 1 lookup, 2 attempts, a budget of 2 ticks, back-offs up to 1, a Retry-After past the budget, timers 1 tick late, fairness | the budget is kept, no blind retry, refinement of `ProviderContract`, every call ends |
| `lifecycle` | all of it (185 states) | tasks keep what they need, deliveries end first, no task lost while the worker serves is hidden, the worker goes down |

Why the bounds suffice: the hazards are races of two copies of one message, of a
handler with a reconciler, of two reconcilers, and faults between two steps; each
needs two actors and one or two faults, and all message attempts (3) and
reconciliation attempts (2) run to their end.  Two webhook ids are enough to see
a second event, one more token than workers to see a lease taken over.  Two
relays and two outbox rows let one relay fetch rows the other has locked, with
batches full and not; that nothing is in two places is promised without faults
only, since a relay that dies between publish and commit publishes again.  Ticks
allow each attempt of the budget to be made and lost once.  Deadlock is not
checked where the system really drains: when all payments are at rest, or the
clock has reached its bound, all requests, calls or the worker have ended.  The
breaker never stops.

Three requests are needed where one loses to another that then fails, so that the
third may win.  Two attempts and a budget of two ticks let a call run out of
either, a wait end in time and too late, and a request of the first call be
decided after the second call asked.  That back-offs double is not seen with two
attempts; the proofs have any number of them, and any settings.

Fairness: the polling loops of relay and reconciler run for ever and survive
every exception (`run` catches them), the event loop runs every task that is
ready, and RabbitMQ delivers and expires messages.  That every await on a peer
ends is an assumption where the code has httpx's timeouts only, that is, for
lookups and webhooks: they are per read, and a peer that sends a byte now and
then is waited for.  A charge has a time budget of its own (`CallsEnd`).  So each relay, handler, queue and reconciler is weakly fair in its
own steps.  Clients, the provider and faults owe nothing.  For the breaker: time
passes, and calls end: a charge by its budget (`CallsEnd` of `ProviderClient`), a
lookup by the same assumption.  In `ProviderClient` time passes and the event loop serves timers that ran
out, no more: neither provider nor network owes an answer.  In `PaymentCreation`
every handler goes on, since the database answers or breaks the connection; an
insert goes on only while nobody else holds its key.  In `WorkerLifecycle` every
await of `run_worker` and every batch of a task ends.

## Proofs

`PaymentFlowProofs` proves `Spec => []TypeOK` for every value of the constants
that satisfies the `ASSUME`s (positive batch sizes and budgets, `None` not an
identifier).  `TypeOK` is not inductive: a handler that applies a result must hold
a verdict, one that delivers a final status (`HandlersOK`), a reconciler that
looks up or persists must hold a payment (`ReconcilersOK`), and an open row must
have attempts left (`BudgetLeft`).

`PaymentFlowSafetyProofs` reduces what any step does to a row to the few
rewritings of `RowStep`, each with its guard.  From this come `SettledRowsStay`
and `RowsOK`, how the columns of a row hang together.  `NothingLost` needs
`LossInv`: an event is accounted for (in a queue, with a handler, or done) from
the moment a relay *publishes* it, not from the commit, because the commit comes
later and only for what was published.  `CarriedStays` goes through every step of
every component: a message leaves a queue only into a handler, and a handler lets
it go only when it is done or back in a queue.

`PaymentFlowContractProofs` proves the rest of `PaymentFlow`'s safety from
`TruthInv`, which says what each place may rely on.  An event is with a relay, a
queue or a handler only once it was committed (`RelaysKnow`, `QueuesKnow`,
`HandlerKnows`), so that a webhook message meets the row that names it
(`WebhookNeverRefused`).  A verdict in a handler's or a reconciler's hand is the
provider's, and the provider decides once; hence two of them agree, and whoever
comes first settles the row with it (`RowKnows`).  `Settlements` is the pivot:
every step either settles a payment, with a verdict someone has in hand and one
fresh webhook event, or leaves it and its events as they are.  This gives
`OneWebhookEvent` and `NoticesAgree`, and the refinement: each rewriting of a row
is an `Accept`, a `Report` or a `Notify` of `PaymentContract`, or nobody outside
sees it.  The arithmetic of the budget plays no part.

`DuplicatesNeedFaults` needs `LoneInv`, which follows each event from place to
place while no fault has struck: rows a relay has published are in its own batch
alone (`RelaysApart`), a row that is not yet published has left no copy
(`Unsent`), and a message is in one queue, once, or with one handler (`Lone`).
A relay's publish turns the first place into the second, a delivery, a retry and
a reject move the copy on (`LonePut`, `LoneStep`), and an acknowledgement ends it.

`NobodyForgotten` is the safety core of `EveryPaymentSettles`, which itself stays
with TLC: in every state, a payment that is not at rest has a next step that
somebody is going to take.  It follows from `NothingLost`, from `TruthInv`, which
says that the event the row names is the one in the outbox, and from
`RowsEarned`: the row was committed with its request, since only the API makes
rows (`OnlyCreated`), and manual review comes with the last attempt of the
budget, neither before nor after it.

`CircuitBreakerProofs` proves `TypeOK`, `OneProbe`, `OpensAfterConsecutiveFailures` and
`LateCallsChangeNothing` together: that a late call cannot be taken for a probe
is what makes the count exact.

`ProviderClientProofs` first shows that every step is one of few kinds: a call
ends (`Ends`), waits (`Waits`) or makes its next attempt (`Resumes`), and the
provider refuses, takes on, repeats a decision, decides, or answers late.  The
invariant `IInv` says of time that a timer is never set beyond the budget and
never missed by more than `Lag` (`BudgetKept`), of requests that all but the one
a call is waiting for are `Harmless`: never sent, or turned away
(`NoBlindRetry`), and of answers that each agrees with the provider's record.
From the same invariant comes `KeepsContract`: only the present attempt may have
put a charge to the provider (`AskedIs`), so that a request the provider takes on
is an `Ask` of the contract, and an end of a call is `EndAsked` or `EndNotAsked`.
The theorems assume positive budgets and attempts, natural delays, and that
`None` is neither key, nor response, nor outcome.

`PaymentCreationProofs` proceeds in the same way.  Its invariant: a key has at
most one payment, committed or staged, of the request whose name it has and with
the fingerprint of its body; a request about to commit has staged its row and the
event of its row, neither alone (`EachPaymentItsEvent`); a request past its failed insert finds a committed
row, since rows stay.  That two bodies have one fingerprint exactly
when they ask for the same sum, however it is written, is a theorem of its own
(`SameFingerprint`): arithmetic on `Cents`.

`WorkerLifecycleProofs` needs that what is closed is closed in order, and that no
task lives once the first of it is.

`ReconciliationProofs` follows the clock.  Of a row it keeps that the attempts it
spent, each `StaleAfter` long, fit between the moment its outcome became unknown
and its last update, with one more while it is under a lease (`RowInv`): this is
`ReviewAfterGrace` once the last attempt is spent.  Of a worker it keeps that a row
it holds was last written before its present step began (`HoldInv`), and that no
two workers have one token; so a lease that runs was not overtaken
(`LeaseKeepsOthersOut`).  `OneWorkerPerPayment` is proved under
`LeaseTime > 2 * StepTime` only (`LookupInv`: the lease taken with a lookup outlasts
it); `reconcile_lease_lost` shows that it fails without.

The lease refinements are proved twice, in `ReconciliationProofs` with the clocks
(`LeasesRefine`) and in `PaymentFlowSafetyProofs` among handlers and faults
(`FlowLeasesRefine`).  In both a worker has a token exactly while it has a batch
(`WorkInv`, `TokensOK`); `WorkerRefines` and `PersistRefines` show that each way on
leaves all jobs alone or concludes the one whose row carries that token.  No
assumption on `LeaseTime` is made: this is what remains true of leases however
slow the workers are, and all that `PaymentFlow` uses of them.

Only model-checked: liveness (`EveryPaymentSettles`, `RefusalEnds`, `CallsEnd`,
`EveryRequestEnds`, `GoesDown`), which is out of the prover's reach.

## Findings

* A confirmed result may be lost for good (README:54 says otherwise): see
  `flow_confirmed_result`.
* The lease does not keep two workers from reconciling one payment at the same
  time (README:337): see `reconcile_lease_lost`.  The write is fenced, so that
  no property of the payment suffers (`flow_leases`, `reconcile_slow`).

## Not modelled

Authentication, health checks, configuration, logging and migrations: they hold
no state of the protocol.  The webhooks the mock provider captures for the
end-to-end tests: the webhook owner of `PaymentFlow` is any receiver.  The order
in which a relay takes rows: `PaymentFlow`'s relay may take any, so that what
holds of it holds of one that takes the oldest.  The reasons for each component
are in `PROJECT.json`.

## Plan

1. `CircuitBreaker` composed with the calls of `ProviderClient`: how long an
   outage of the provider lasts for the callers.

--------------------------- MODULE Reconciliation ---------------------------
(***************************************************************************)
(* PaymentReconciliationWorker with its clocks: leases that run out while  *)
(* their worker is slow, rows that must rest before they are tried again,  *)
(* and a budget of attempts that ends in manual review.  PaymentFlow has   *)
(* the same transactions without time and with what they mean to the rest  *)
(* of the service; here an answer of the provider is only known or not.    *)
(*                                                                         *)
(* A transaction is one action, taken when it commits.  The code reads the *)
(* time before it opens the session, and PostgreSQL's now(), which         *)
(* updated_at is set to on every write, is when the transaction began:     *)
(* both readings may be old by then, by as much as a step can take.        *)
(***************************************************************************)
EXTENDS Naturals, FiniteSets

CONSTANTS
  Payments, Workers,
  Tokens,       \* the values uuid4() gives leases
  None,
  BatchSize,    \* payment_reconciliation_batch_size
  StaleAfter,   \* payment_reconciliation_stale_after_seconds, in ticks
  LeaseTime,    \* payment_reconciliation_lease_seconds, in ticks
  MaxAttempts,  \* payment_reconciliation_max_attempts
  StepTime,     \* bound: ticks a transaction or a lookup may take
  MaxTime       \* bound: when the clock stops

ASSUME NoneAssumption == None \notin Tokens \cup Payments \cup Nat
ASSUME SettingsAssumption ==
  /\ BatchSize \in Nat \ {0}
  /\ StaleAfter \in Nat
  /\ LeaseTime \in Nat \ {0}
  /\ MaxAttempts \in Nat \ {0}
  /\ StepTime \in Nat
  /\ MaxTime \in Nat

VARIABLES
  now,
  row,          \* the columns of table payments reconciliation reads or writes
  work,         \* per worker: its step, since when, and what it holds
  unknown_since \* history: updated_at of the write that made a row unknown

vars == <<now, row, work, unknown_since>>

Statuses == {"pending", "unknown", "settled"}
Steps == {"claim", "renew", "lookup", "persist"}

\* Between two batches a worker holds nothing.
Resting == [step |-> "claim", since |-> now, token |-> None, todo |-> {},
            target |-> None, known |-> FALSE]

Init ==
  /\ now = 0
  /\ row = [p \in Payments |->
       [status |-> "pending", attempts |-> 0, manual_review |-> FALSE,
        lease_token |-> None, lease_until |-> None, updated_at |-> 0]]
  /\ work = [w \in Workers |->
       [step |-> "claim", since |-> 0, token |-> None, todo |-> {},
        target |-> None, known |-> FALSE]]
  /\ unknown_since = [p \in Payments |-> None]

\* Time passes as long as no step takes longer than it may.
Tick ==
  /\ now < MaxTime
  /\ \A w \in Workers :
       work[w].step # "claim" => now < work[w].since + StepTime
  /\ now' = now + 1
  /\ UNCHANGED <<row, work, unknown_since>>

\* The readings a transaction that ends now and began after `since` may use.
Recent(since) == {t \in since..now : now <= t + StepTime}

\* _mark_unknown of the payment processor.
BecomesUnknown(p) ==
  /\ row[p].status = "pending"
  /\ \E s \in Recent(0) :
       /\ row' = [row EXCEPT ![p].status = "unknown", ![p].updated_at = s]
       /\ unknown_since' = [unknown_since EXCEPT ![p] = s]
  /\ UNCHANGED <<now, work>>

-----------------------------------------------------------------------------
Open(p) == row[p].status = "unknown" /\ ~row[p].manual_review

\* Mutant of Claimable: rows need not rest between two attempts.
ClaimableAtOnce(p, t) ==
  Open(p) /\ (row[p].lease_until = None \/ row[p].lease_until <= t)

\* The rows claim_reconciliation_batch selects, t being the worker's clock.
Claimable(p, t) ==
  /\ Open(p)
  /\ row[p].updated_at + StaleAfter <= t
  /\ row[p].lease_until = None \/ row[p].lease_until <= t

FreshTokens == {k \in Tokens : /\ \A p \in Payments : row[p].lease_token # k
                               /\ \A w \in Workers : work[w].token # k}

\* _claim_batch: the transaction began at s, after the clock was read at t.
\* Any BatchSize of the rows are taken, the oldest or not.
ClaimBatch(w) ==
  /\ work[w].step = "claim"
  /\ \E t \in Recent(work[w].since), k \in FreshTokens :
     \E s \in t..now, b \in SUBSET {p \in Payments : Claimable(p, t)} :
       /\ b # {}
       /\ Cardinality(b) <= BatchSize
       /\ row' = [p \in Payments |->
            IF p \in b THEN [row[p] EXCEPT !.lease_token = k,
                                           !.lease_until = t + LeaseTime,
                                           !.updated_at = s]
                       ELSE row[p]]
       /\ work' = [work EXCEPT ![w] =
            [step |-> "renew", since |-> now, token |-> k, todo |-> b,
             target |-> None, known |-> FALSE]]
  /\ UNCHANGED <<now, unknown_since>>

\* Mutant of Held: the row is found by its id alone.
HeldByAnyone(w, p, t) == Open(p)

\* The condition of renew_reconciliation_lease and
\* get_claimed_payment_for_update.
Held(w, p, t) ==
  /\ Open(p)
  /\ row[p].lease_token = work[w].token
  /\ row[p].lease_until # None /\ row[p].lease_until > t

\* On with the next payment of the batch, or the batch is done.
NextPayment(w, todo) ==
  work' = [work EXCEPT ![w] =
    IF todo = {} THEN Resting
    ELSE [Resting EXCEPT !.step = "renew", !.token = work[w].token,
                         !.todo = todo]]

\* Mutant of RenewClaim: the lease is looked at, not prolonged.
CheckClaim(w) ==
  /\ work[w].step = "renew"
  /\ \E p \in work[w].todo, t \in Recent(work[w].since) :
       IF Held(w, p, t)
         THEN work' = [work EXCEPT ![w] =
                [@ EXCEPT !.step = "lookup", !.since = now,
                          !.todo = @ \ {p}, !.target = p]]
         ELSE NextPayment(w, work[w].todo \ {p})
  /\ UNCHANGED <<now, row, unknown_since>>

\* _renew_claim
RenewClaim(w) ==
  /\ work[w].step = "renew"
  /\ \E p \in work[w].todo, t \in Recent(work[w].since) :
       \/ /\ Held(w, p, t)
          /\ \E s \in t..now :
               row' = [row EXCEPT ![p].lease_until = t + LeaseTime,
                                  ![p].updated_at = s]
          /\ work' = [work EXCEPT ![w] =
               [@ EXCEPT !.step = "lookup", !.since = now,
                         !.todo = work[w].todo \ {p}, !.target = p]]
       \/ /\ ~Held(w, p, t)
          /\ NextPayment(w, work[w].todo \ {p})
          /\ UNCHANGED row
  /\ UNCHANGED <<now, unknown_since>>

\* _lookup_provider returns: a verdict, or None.
LookupProvider(w) ==
  /\ work[w].step = "lookup"
  /\ \E known \in BOOLEAN :
       work' = [work EXCEPT ![w] =
         [@ EXCEPT !.step = "persist", !.since = now, !.known = known]]
  /\ UNCHANGED <<now, row, unknown_since>>

\* Mutant of Persisted: half of the lease is forgotten.
PersistedHalfLeased(r, known, s) ==
  IF known
    THEN [r EXCEPT !.status = "settled", !.lease_token = None,
                   !.updated_at = s]
    ELSE [r EXCEPT !.attempts = @ + 1,
                   !.manual_review = r.attempts + 1 >= MaxAttempts,
                   !.lease_token = None, !.updated_at = s]

\* What _persist_resolution writes, at s: a settled row, or an attempt spent.
Persisted(r, known, s) ==
  IF known
    THEN [r EXCEPT !.status = "settled", !.lease_token = None,
                   !.lease_until = None, !.updated_at = s]
    ELSE [r EXCEPT !.attempts = @ + 1,
                   !.manual_review = r.attempts + 1 >= MaxAttempts,
                   !.lease_token = None, !.lease_until = None,
                   !.updated_at = s]

PersistResolution(w) ==
  LET p == work[w].target
  IN  /\ work[w].step = "persist"
      /\ \E t \in Recent(work[w].since) :
           \/ /\ Held(w, p, t)
              /\ \E s \in t..now :
                   row' = [row EXCEPT ![p] = Persisted(row[p], work[w].known, s)]
           \/ ~Held(w, p, t) /\ UNCHANGED row
      /\ NextPayment(w, work[w].todo)
      /\ UNCHANGED <<now, unknown_since>>

\* A transaction or the lookup raises, and process_batch goes on with the
\* next payment; or the worker dies, and its leases are left to run out.
StepFails(w) ==
  /\ work[w].step # "claim"
  /\ \/ work[w].step = "renew" /\ \E p \in work[w].todo :
                                    NextPayment(w, work[w].todo \ {p})
     \/ work[w].step # "renew" /\ NextPayment(w, work[w].todo)
     \/ NextPayment(w, {})
  /\ UNCHANGED <<now, row, unknown_since>>

Next ==
  \/ Tick
  \/ \E p \in Payments : BecomesUnknown(p)
  \/ \E w \in Workers : \/ ClaimBatch(w) \/ RenewClaim(w) \/ LookupProvider(w)
                        \/ PersistResolution(w) \/ StepFails(w)

Spec == Init /\ [][Next]_vars

-----------------------------------------------------------------------------
(* Correctness.                                                            *)

Times == 0..MaxTime

\* The types; an attempt is spent at most MaxAttempts times, and a token and
\* a time make a lease together or not at all.
TypeOK ==
  /\ now \in Times
  /\ row \in [Payments ->
       [status : Statuses, attempts : 0..MaxAttempts, manual_review : BOOLEAN,
        lease_token : Tokens \cup {None},
        lease_until : (0..(MaxTime + LeaseTime)) \cup {None},
        updated_at : Times]]
  /\ work \in [Workers ->
       [step : Steps, since : Times, token : Tokens \cup {None},
        todo : SUBSET Payments, target : Payments \cup {None},
        known : BOOLEAN]]
  /\ unknown_since \in [Payments -> Times \cup {None}]
  /\ \A p \in Payments :
       row[p].lease_token = None <=> row[p].lease_until = None

\* Nobody is called in to review a payment before the provider had its time:
\* every attempt of the budget, whoever spends it, comes StaleAfter later than
\* the one before, since each needs a claim of its own and a claim touches
\* updated_at.
ReviewAfterGrace ==
  \A p \in Payments :
    row[p].manual_review => now >= unknown_since[p] + MaxAttempts * StaleAfter

\* While a lease runs, its row belongs to the worker who holds it: no worker
\* that comes late with a lookup of an earlier lease spends an attempt, prolongs
\* or ends the lease, or settles the row, and nobody else claims it.
LeaseKeepsOthersOut ==
  [][\A p \in Payments :
       (row[p].lease_token # None /\ now < row[p].lease_until
          /\ row'[p] # row[p])
       => \E w \in Workers : /\ work[w].token = row[p].lease_token
                             /\ work'[w] # work[w]]_vars

\* The leases seen without their clocks.
Stage(p) == IF row[p].status = "pending" THEN "early"
            ELSE IF Open(p) THEN "open" ELSE "closed"

Leases == INSTANCE LeaseContract WITH
  job <- [p \in Payments |-> [stage |-> Stage(p), spent |-> row[p].attempts,
                              holder |-> row[p].lease_token]],
  token <- [w \in Workers |-> work[w].token]

\* Clocks may be read late, leases run out and workers die: every attempt is
\* still made under a token of its own, and concluded by nobody else.
KeepsLeases == Leases!LeaseSpec

\* README: the lease keeps workers from reconciling one payment at the same
\* time.  It does when no lease runs out under the step it covers, that is,
\* when a lease is longer than two steps.
OneWorkerPerPayment ==
  \A v, w \in Workers :
    (work[v].step = "lookup" /\ work[w].step = "lookup"
       /\ work[v].target = work[w].target)
    => v = w
=============================================================================

--------------------------- MODULE PaymentRecord ---------------------------
(***************************************************************************)
(* The row of table `payments` and the functions that read or rewrite one  *)
(* row: what every component of the service shares.  A row carries the     *)
(* columns the protocol branches on; amounts, currencies, descriptions,    *)
(* URLs and time stamps are left out, processed_at is set exactly when the *)
(* status becomes terminal and is therefore the status itself.             *)
(***************************************************************************)
EXTENDS Naturals

CONSTANT None   \* SQL NULL, and Python's None

\* "absent" stands for "no row with this id"; the others are PaymentStatus.
PaymentStatus == {"pending", "succeeded", "failed", "unknown"}

Terminal == {"succeeded", "failed"}

\* ProviderPaymentStatus: the provider's verdict on a charge.
Verdicts == {"approved", "declined"}

\* The terminal status a verdict is stored as.
StatusFor(verdict) == IF verdict = "approved" THEN "succeeded" ELSE "failed"

\* The status the API shows: an unknown outcome is still "pending" outside.
ToPublicStatus(status) == IF status = "unknown" THEN "pending" ELSE status

\* The columns of a row, for identifiers of webhook events and of leases.
PaymentRows(webhookIds, tokens, attempts) ==
  [status : PaymentStatus \cup {"absent"},
   webhook_event_id : webhookIds \cup {None},
   webhook_sent : BOOLEAN,
   attempts : attempts,
   manual_review : BOOLEAN,
   lease_token : tokens \cup {None}]

NoRow == [status |-> "absent", webhook_event_id |-> None,
          webhook_sent |-> FALSE, attempts |-> 0, manual_review |-> FALSE,
          lease_token |-> None]

\* The row create_payment inserts: pending, every other column its default.
NewPayment == [NoRow EXCEPT !.status = "pending"]

\* The row once the provider's verdict is known, with a fresh webhook event.
\* The processor leaves the lease columns alone, which are NULL while the
\* payment is pending; the reconciler resets them.
Resolved(row, verdict, w) ==
  [row EXCEPT !.status = StatusFor(verdict), !.webhook_event_id = w,
              !.lease_token = None]

\* Mutant of Unresolved: the budget compared with > for >=.
UnresolvedOffByOne(row, maxAttempts) ==
  [row EXCEPT !.attempts = @ + 1,
              !.manual_review = @ \/ row.attempts + 1 > maxAttempts,
              !.lease_token = None]

\* The row after a reconciliation lookup that gave no verdict: one attempt
\* of the budget is spent, the lease is given back.
Unresolved(row, maxAttempts) ==
  [row EXCEPT !.attempts = @ + 1,
              !.manual_review = @ \/ row.attempts + 1 >= maxAttempts,
              !.lease_token = None]

\* The rows the reconciliation statements select, the lease left aside.
Reconcilable(row) == row.status = "unknown" /\ ~row.manual_review

\* The checks a webhook message must pass against its payment's row.
WebhookMatches(row, w) == row.status \in Terminal /\ row.webhook_event_id = w
=============================================================================

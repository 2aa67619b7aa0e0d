-------------------------- MODULE PaymentCreation ---------------------------
(***************************************************************************)
(* POST /payments with an Idempotency-Key: requests of any number of API   *)
(* processes that read, insert and commit concurrently in PostgreSQL (READ *)
(* COMMITTED).  An action is one statement, that is, one await.  What a    *)
(* transaction wrote is seen by others once it commits; only the UNIQUE    *)
(* constraint looks further: an insert waits for the transaction that      *)
(* holds the same key.                                                     *)
(*                                                                         *)
(* A client that repeats a request is another request.  uuid4() never      *)
(* repeats itself: a payment is named after the request that made it.      *)
(* Statements, commits, processes may fail at any time, as often as they   *)
(* like.                                                                   *)
(***************************************************************************)
EXTENDS Integers

CONSTANTS
  Requests,
  Keys,     \* keys, without white space around them
  Blank,    \* what is left of a header of white space only
  Amounts,  \* the amounts as written: <<mantissa, decimal places>>
  Rests,    \* the other fields of a body
  None

ASSUME AmountsAssumption == Amounts \subseteq Nat \X (0..2)
ASSUME BlankAssumption == Blank \notin Keys

\* What a client gets: 202, 409, 422, 500, nothing; or the IntegrityError of
\* the first insert, which the second read should explain.
Answers == {<<"accepted", id>> : id \in Requests}
             \cup {<<"conflict">>, <<"invalid">>, <<"error">>, <<"lost">>,
                   <<"unresolved">>}

ASSUME NoneAssumption ==
  None \notin Answers \cup [key : Keys \cup {Blank},
                           body : [amount : Amounts, rest : Rests]]

VARIABLES
  payments,  \* committed rows
  events,    \* payments whose PAYMENT_PROCESS_REQUESTED event is committed
  staged,    \* per request: the payments its open transaction has inserted
  stagedEvents,  \* per request: the payments whose events it has inserted
  request,   \* per request: its step, its key and its body
  answer     \* per request: what the client gets

tables == <<payments, events>>
transaction == <<staged, stagedEvents>>
vars == <<tables, transaction, request, answer>>

\* An Idempotency-Key header, with or without white space around it.
Headers == [text : Keys \cup {Blank}, padded : BOOLEAN]

Bodies == [amount : Amounts, rest : Rests]

NoRequest == [step |-> "idle", key |-> None, body |-> None]

Init ==
  /\ payments = {}
  /\ events = {}
  /\ staged = [r \in Requests |-> {}]
  /\ stagedEvents = [r \in Requests |-> {}]
  /\ request = [r \in Requests |-> NoRequest]
  /\ answer = [r \in Requests |-> None]

\* Mutant of Strip: the key is taken as it comes.
AsItComes(header) == IF header.padded THEN header ELSE header.text

\* idempotency_key.strip()
Strip(header) == header.text

\* amount.quantize(Decimal("0.01")), in cents
Cents(amount) == CASE amount[2] = 0 -> 100 * amount[1]
                   [] amount[2] = 1 -> 10 * amount[1]
                   [] amount[2] = 2 -> amount[1]

\* A SHA-256 of the fields: it takes equal values for equal fields only.
Fingerprint(body) == [amount |-> Cents(body.amount), rest |-> body.rest]

Row(r) == [id |-> r, key |-> request[r].key,
           fingerprint |-> Fingerprint(request[r].body)]

\* get_by_idempotency_key
Rows(k) == {p \in payments : p.key = k}

Goto(r, step) == request' = [request EXCEPT ![r].step = step]

\* The transaction of r is over.
EndTransaction(r) == /\ staged' = [staged EXCEPT ![r] = {}]
                     /\ stagedEvents' = [stagedEvents EXCEPT ![r] = {}]

\* Mutant of Finish: nobody closes the session.
FinishUnclosed(r, a) ==
  /\ Goto(r, "done")
  /\ answer' = [answer EXCEPT ![r] = a]
  /\ UNCHANGED transaction

\* The request ends; the session closes, and rolls back what was not
\* committed.
Finish(r, a) ==
  /\ Goto(r, "done")
  /\ EndTransaction(r)
  /\ answer' = [answer EXCEPT ![r] = a]

\* Mutant of Resolve: the fingerprints are not compared.
ResolveUnchecked(r, p) ==
  Finish(r, <<"accepted", p.id>>) /\ UNCHANGED tables

\* _resolve_existing_payment, and the response that becomes of it
Resolve(r, p) ==
  /\ IF p.fingerprint = Fingerprint(request[r].body)
       THEN Finish(r, <<"accepted", p.id>>)
       ELSE Finish(r, <<"conflict">>)
  /\ UNCHANGED tables

-----------------------------------------------------------------------------
\* A request that is well formed arrives.  A blank key is turned down.
Arrive(r, header, body) ==
  /\ request[r].step = "idle"
  /\ LET key == Strip(header)
     IN  IF key = Blank
           THEN /\ request' = [request EXCEPT ![r] =
                     [step |-> "done", key |-> key, body |-> body]]
                /\ answer' = [answer EXCEPT ![r] = <<"invalid">>]
           ELSE /\ request' = [request EXCEPT ![r] =
                     [step |-> "read", key |-> key, body |-> body]]
                /\ UNCHANGED answer
  /\ UNCHANGED <<tables, transaction>>

Read(r) ==
  /\ request[r].step = "read"
  /\ \/ \E p \in Rows(request[r].key) : Resolve(r, p)
     \/ /\ Rows(request[r].key) = {}
        /\ Goto(r, "insert")
        /\ UNCHANGED <<tables, transaction, answer>>

\* The UNIQUE constraint: no other open transaction holds the key.
KeyFree(r) ==
  \A o \in Requests \ {r} : \A p \in staged[o] : p.key # request[r].key

\* The payment is flushed.  PostgreSQL lets the insert wait while another
\* transaction holds the key, and fails it when that one has committed.
Insert(r) ==
  /\ request[r].step = "insert"
  /\ KeyFree(r)
  /\ \/ /\ Rows(request[r].key) # {}
        /\ Goto(r, "duplicate")
        /\ UNCHANGED staged
     \/ /\ Rows(request[r].key) = {}
        /\ Goto(r, "add_event")
        /\ staged' = [staged EXCEPT ![r] = {Row(r)}]
  /\ UNCHANGED <<tables, stagedEvents, answer>>

\* Mutant of AddEvent: the payment is committed before its event is added.
AddEventInItsOwnTransaction(r) ==
  /\ request[r].step = "add_event"
  /\ payments' = payments \cup staged[r]
  /\ stagedEvents' = [stagedEvents EXCEPT ![r] = {p.id : p \in staged[r]}]
  /\ Goto(r, "commit")
  /\ UNCHANGED <<events, staged, answer>>

\* _build_process_requested_event names the payment that was flushed; the
\* event is flushed as well.
AddEvent(r) ==
  /\ request[r].step = "add_event"
  /\ stagedEvents' = [stagedEvents EXCEPT ![r] = {p.id : p \in staged[r]}]
  /\ Goto(r, "commit")
  /\ UNCHANGED <<tables, staged, answer>>

\* What the transaction inserted into each table takes effect; the code may
\* still be told otherwise.
Commit(r) ==
  /\ request[r].step = "commit"
  /\ payments' = payments \cup staged[r]
  /\ events' = events \cup stagedEvents[r]
  /\ EndTransaction(r)
  /\ Goto(r, "refresh") \/ Goto(r, "failed")
  /\ UNCHANGED answer

\* The payment is read back and the client told of it.
Refresh(r) ==
  /\ request[r].step = "refresh"
  /\ Finish(r, <<"accepted", r>>)
  /\ UNCHANGED tables

\* Mutant of Fail: every exception is taken for an IntegrityError.
FailAsDuplicate(r) ==
  /\ request[r].step \in {"insert", "add_event", "commit"}
  /\ Goto(r, "duplicate")
  /\ UNCHANGED <<tables, transaction, answer>>

\* A statement of the try block raises something else than IntegrityError.
Fail(r) ==
  /\ request[r].step \in {"insert", "add_event", "commit"}
  /\ Goto(r, "failed")
  /\ UNCHANGED <<tables, transaction, answer>>

\* session.rollback(), in either of the two except clauses
Rollback(r) ==
  /\ \/ /\ request[r].step = "duplicate"
        /\ Goto(r, "reread")
        /\ EndTransaction(r)
        /\ UNCHANGED answer
     \/ /\ request[r].step = "failed"
        /\ Finish(r, <<"error">>)
  /\ UNCHANGED tables

\* The loser of a race reads the winner's payment; if there were none, it
\* would raise the IntegrityError again.
Reread(r) ==
  /\ request[r].step = "reread"
  /\ \/ \E p \in Rows(request[r].key) : Resolve(r, p)
     \/ /\ Rows(request[r].key) = {}
        /\ Finish(r, <<"unresolved">>)
        /\ UNCHANGED tables

\* A statement outside the try block raises, or the rollback does.
Raise(r) ==
  /\ request[r].step \in {"read", "refresh", "duplicate", "failed", "reread"}
  /\ Finish(r, <<"error">>)
  /\ UNCHANGED tables

\* The API process dies; its connection breaks and PostgreSQL rolls back.
Crash(r) ==
  /\ request[r].step \notin {"idle", "done"}
  /\ Finish(r, <<"lost">>)
  /\ UNCHANGED tables

Handle(r) == \/ Read(r) \/ Insert(r) \/ AddEvent(r) \/ Commit(r)
             \/ Refresh(r) \/ Rollback(r) \/ Reread(r)

Next ==
  \E r \in Requests :
    \/ \E header \in Headers, body \in Bodies : Arrive(r, header, body)
    \/ Handle(r)
    \/ Fail(r) \/ Raise(r) \/ Crash(r)

Spec == Init /\ [][Next]_vars

\* The event loop runs every handler, and the database answers or breaks the
\* connection.
FairSpec == Spec /\ \A r \in Requests : WF_vars(Handle(r))
-----------------------------------------------------------------------------
(* Correctness.                                                            *)

Steps == {"idle", "read", "insert", "add_event", "commit", "refresh",
          "duplicate", "failed", "reread", "done"}

Fingerprints == [amount : Nat, rest : Rests]

PaymentRows == [id : Requests, key : Keys, fingerprint : Fingerprints]

\* The types of the variables.
TypeOK ==
  /\ payments \subseteq PaymentRows
  /\ events \subseteq Requests
  /\ staged \in [Requests -> SUBSET PaymentRows]
  /\ stagedEvents \in [Requests -> SUBSET Requests]
  /\ request \in [Requests -> [step : Steps, key : Keys \cup {Blank, None},
                               body : Bodies \cup {None}]]
  /\ answer \in [Requests -> Answers \cup {None}]

\* A payment and the event that gets it charged come into being together: no
\* crash or failure between the statements leaves a payment that nobody
\* charges or an event without payment.
EachPaymentItsEvent == events = {p.id : p \in payments}

\* README: concurrent creation with one key is protected by the constraint and
\* the second read.  The loser of a race always finds the payment it lost to.
LoserFindsWinner == \A r \in Requests : answer[r] # <<"unresolved">>

Contract == INSTANCE CreationContract WITH
  asked <- [r \in Requests |->
              IF request[r].step = "idle" THEN None
              ELSE [key |-> request[r].key, body |-> request[r].body]],
  bound <- {<<p.key, p.id>> : p \in payments}

\* However requests with one key race and fail, a key gets one payment; the
\* same request is told of it, another one of a conflict.
KeepsContract == Contract!ContractSpec

\* Every request ends: none waits for ever for the key that another holds.
EveryRequestEnds ==
  \A r \in Requests : request[r].step # "idle" ~> request[r].step = "done"
=============================================================================

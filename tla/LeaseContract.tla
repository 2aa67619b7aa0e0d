--------------------------- MODULE LeaseContract ---------------------------
(***************************************************************************)
(* What the leases of reconciliation are for, whoever is slow, overtaken   *)
(* or dead: each attempt to resolve a payment is made under a token of its *)
(* own, and only the worker whose token the row carries may write what     *)
(* came of it, once.  When a lease may be taken over is left open.         *)
(*                                                                         *)
(*   job    per payment: its stage ("early" while nobody has called the    *)
(*          outcome unknown, "open" while it is to be found out, "closed"  *)
(*          once settled or left to manual review), the attempts that      *)
(*          brought no answer, and the token on the row                    *)
(*   token  per worker: the token it works under                           *)
(***************************************************************************)
EXTENDS Naturals

CONSTANTS Payments, Workers, Tokens, None, MaxAttempts

VARIABLES job, token

leaseVars == <<job, token>>

LeaseInit ==
  /\ job = [p \in Payments |-> [stage |-> "early", spent |-> 0, holder |-> None]]
  /\ token = [w \in Workers |-> None]

\* The outcome is called unknown, or the payment is settled without that.
Arise(p) ==
  /\ job[p].stage = "early"
  /\ \E s \in {"open", "closed"} : job' = [job EXCEPT ![p].stage = s]
  /\ UNCHANGED token

Fresh == {k \in Tokens : /\ \A p \in Payments : job[p].holder # k
                         /\ \A w \in Workers : token[w] # k}

\* A worker without a token takes on open payments, held by others or not.
TakeOn(w) ==
  /\ token[w] = None
  /\ \E k \in Fresh, b \in SUBSET {p \in Payments : job[p].stage = "open"} :
       /\ b # {}
       /\ job' = [p \in Payments |->
            IF p \in b THEN [job[p] EXCEPT !.holder = k] ELSE job[p]]
       /\ token' = [token EXCEPT ![w] = k]

PutDown(w) == token' = [token EXCEPT ![w] = None]

Settled(j) == [stage |-> "closed", spent |-> j.spent, holder |-> None]

\* One attempt more is spent; the last one leaves the payment to review.
Spent(j) == [stage |-> IF j.spent + 1 < MaxAttempts THEN "open" ELSE "closed",
             spent |-> j.spent + 1, holder |-> None]

\* The holder, and nobody else, writes what came of its attempt.
Conclude(w, p) ==
  /\ token[w] # None
  /\ job[p].stage = "open" /\ job[p].holder = token[w]
  /\ \E j \in {Settled(job[p]), Spent(job[p])} : job' = [job EXCEPT ![p] = j]
  /\ UNCHANGED token \/ PutDown(w)

\* It is done with its batch, failed, was overtaken, or died.
GiveUp(w) == PutDown(w) /\ UNCHANGED job

LeaseNext == \/ \E p \in Payments : Arise(p)
             \/ \E w \in Workers : \/ TakeOn(w) \/ GiveUp(w)
                                   \/ \E p \in Payments : Conclude(w, p)

LeaseSpec == LeaseInit /\ [][LeaseNext]_leaseVars
=============================================================================

-------------------------- MODULE CreationContract --------------------------
(***************************************************************************)
(* What a client may rely on when it creates payments (README, Idempotent  *)
(* API): a key stands for one payment, whatever fails and whoever else     *)
(* uses it at the same time.                                               *)
(*                                                                         *)
(*   asked   the key and the body of each request                          *)
(*   bound   <<key, payment>>; a payment has the name of the request that  *)
(*           made it                                                       *)
(*   answer  what each request was told                                    *)
(***************************************************************************)
EXTENDS Integers

CONSTANTS Requests, Keys, Bodies, Blank, None

VARIABLES asked, bound, answer

contractVars == <<asked, bound, answer>>

PowerOfTen == [n \in 0..2 |-> IF n = 0 THEN 1 ELSE IF n = 1 THEN 10 ELSE 100]

\* Two bodies ask for the same if they differ at most in how the amount, a
\* mantissa and its decimal places, is written.
Same(a, b) ==
  /\ a.rest = b.rest
  /\ a.amount[1] * PowerOfTen[b.amount[2]] = b.amount[1] * PowerOfTen[a.amount[2]]

ContractInit ==
  /\ asked = [r \in Requests |-> None]
  /\ bound = {}
  /\ answer = [r \in Requests |-> None]

Ask(r, k, b) ==
  /\ asked[r] = None
  /\ asked' = [asked EXCEPT ![r] = [key |-> k, body |-> b]]
  /\ IF k = Blank
       THEN answer' = [answer EXCEPT ![r] = <<"invalid">>]
       ELSE UNCHANGED answer
  /\ UNCHANGED bound

\* A request that is under way makes the payment of its key, the first time.
Bind(r) ==
  /\ asked[r] # None
  /\ answer[r] = None
  /\ \A id \in Requests : <<asked[r].key, id>> \notin bound
  /\ bound' = bound \cup {<<asked[r].key, r>>}
  /\ UNCHANGED <<asked, answer>>

\* It is told of the key's payment, or that the key was used for another
\* request; or it fails, which says nothing of the payment.
Answer(r) ==
  /\ asked[r] # None
  /\ answer[r] = None
  /\ \/ \E id \in Requests :
          /\ <<asked[r].key, id>> \in bound
          /\ answer' = [answer EXCEPT ![r] =
               IF Same(asked[r].body, asked[id].body)
                 THEN <<"accepted", id>> ELSE <<"conflict">>]
     \/ \E failure \in {"error", "lost"} :
          answer' = [answer EXCEPT ![r] = <<failure>>]
  /\ UNCHANGED <<asked, bound>>

ContractNext ==
  \E r \in Requests : \/ \E k \in Keys \cup {Blank}, b \in Bodies : Ask(r, k, b)
                      \/ Bind(r)
                      \/ Answer(r)

ContractSpec == ContractInit /\ [][ContractNext]_contractVars
=============================================================================

-------------------------- MODULE PaymentContract --------------------------
(***************************************************************************)
(* What the service promises to those outside it, whatever its queues,     *)
(* relays, retries and crashes do: the client who polls GET /payments/{id},*)
(* the provider that decides the charge, and the owner of the webhook URL. *)
(*                                                                         *)
(*   shown     the status the API shows for a payment                      *)
(*   verdict   what the provider decided, None while it did not            *)
(*   told      the statuses the webhook owner has been sent                *)
(*   notified  the service considers its webhook delivered                 *)
(***************************************************************************)
EXTENDS PaymentRecord

CONSTANT Payments

VARIABLES shown, verdict, told, notified

contractVars == <<shown, verdict, told, notified>>

ContractInit ==
  /\ shown = [p \in Payments |-> "absent"]
  /\ verdict = [p \in Payments |-> None]
  /\ told = [p \in Payments |-> {}]
  /\ notified = [p \in Payments |-> FALSE]

\* A request is accepted: the payment becomes visible, as pending.
Accept(p) ==
  /\ shown[p] = "absent"
  /\ shown' = [shown EXCEPT ![p] = "pending"]
  /\ UNCHANGED <<verdict, told, notified>>

\* The provider decides, at most once and only while the payment is pending.
Decide(p) ==
  /\ shown[p] = "pending"
  /\ verdict[p] = None
  /\ \E v \in Verdicts : verdict' = [verdict EXCEPT ![p] = v]
  /\ UNCHANGED <<shown, told, notified>>

\* The API starts to show the provider's decision, and no other.
Report(p) ==
  /\ shown[p] = "pending"
  /\ verdict[p] # None
  /\ shown' = [shown EXCEPT ![p] = StatusFor(verdict[p])]
  /\ UNCHANGED <<verdict, told, notified>>

\* The webhook owner is told the decision the API already shows.
Tell(p) ==
  /\ shown[p] \in Terminal
  /\ told' = [told EXCEPT ![p] = @ \cup {shown[p]}]
  /\ UNCHANGED <<shown, verdict, notified>>

\* The webhook counts as delivered only after its owner was told.
Notify(p) ==
  /\ told[p] # {}
  /\ notified' = [notified EXCEPT ![p] = TRUE]
  /\ UNCHANGED <<shown, verdict, told>>

ContractNext ==
  \E p \in Payments :
    Accept(p) \/ Decide(p) \/ Report(p) \/ Tell(p) \/ Notify(p)

ContractSpec == ContractInit /\ [][ContractNext]_contractVars
=============================================================================

-------------------------- MODULE ProviderContract --------------------------
(***************************************************************************)
(* What the rest of the service takes a call of the provider client to be, *)
(* whatever the network and the retry loop do: PaymentFlow is built on it. *)
(*                                                                         *)
(*   asked   <<call, key>> for every charge a call has put to the provider *)
(*   ledger  the provider's decision under each key                        *)
(*   answer  how each charge ended                                         *)
(*   found   what each lookup was about, and what it found                 *)
(***************************************************************************)
CONSTANTS Calls, Lookups, Keys, Verdicts, None

VARIABLES asked, ledger, answer, found

contractVars == <<asked, ledger, answer, found>>

ContractInit ==
  /\ asked = {}
  /\ ledger = [k \in Keys |-> None]
  /\ answer = [c \in Calls |-> None]
  /\ found = [l \in Lookups |-> None]

\* A charge is decided at most once, and only if somebody asked for it.
Decide(k) ==
  /\ ledger[k] = None
  /\ \E v \in Verdicts : ledger' = [ledger EXCEPT ![k] = v]

DecideLater(k) ==
  /\ \E c \in Calls : <<c, k>> \in asked
  /\ Decide(k)
  /\ UNCHANGED <<asked, answer, found>>

\* A call puts at most one charge to the provider, while it runs or, if the
\* request was under way by then, after it gave up.
Ask(c, k) ==
  /\ answer[c] \in {None, "ambiguous"}
  /\ \A j \in Keys : <<c, j>> \notin asked
  /\ asked' = asked \cup {<<c, k>>}
  /\ UNCHANGED ledger \/ Decide(k)
  /\ UNCHANGED <<answer, found>>

\* A call ends with the decision on what it asked for, or ambiguous.
EndAsked(c) ==
  /\ answer[c] = None
  /\ \E k \in Keys :
       /\ <<c, k>> \in asked
       /\ \/ ledger[k] # None /\ answer' = [answer EXCEPT ![c] = ledger[k]]
          \/ answer' = [answer EXCEPT ![c] = "ambiguous"]
  /\ UNCHANGED <<asked, ledger, found>>

\* A call that reports anything else has not asked for a charge, and never
\* will.  It may also be ambiguous for want of knowing better.
EndNotAsked(c) ==
  /\ answer[c] = None
  /\ \A k \in Keys : <<c, k>> \notin asked
  /\ \E a \in {"ambiguous", "unavailable", "permanent", "error"} :
       answer' = [answer EXCEPT ![c] = a]
  /\ UNCHANGED <<asked, ledger, found>>

\* A lookup finds the decision under its key, or nothing it could tell: what
\* is not found may be decided by the time the answer is read, or later.
EndLookup(l, k) ==
  /\ found[l] = None
  /\ \/ ledger[k] # None /\ found' = [found EXCEPT ![l] = <<k, ledger[k]>>]
     \/ \E a \in {"not_found", "unavailable", "permanent"} :
          found' = [found EXCEPT ![l] = <<k, a>>]
  /\ UNCHANGED <<asked, ledger, answer>>

ContractNext ==
  \/ \E k \in Keys : DecideLater(k)
  \/ \E c \in Calls : \/ \E k \in Keys : Ask(c, k)
                      \/ EndAsked(c) \/ EndNotAsked(c)
  \/ \E l \in Lookups, k \in Keys : EndLookup(l, k)

ContractSpec == ContractInit /\ [][ContractNext]_contractVars
=============================================================================

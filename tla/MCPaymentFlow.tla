--------------------------- MODULE MCPaymentFlow ---------------------------
(***************************************************************************)
(* Small instances of PaymentFlow for TLC.                                 *)
(***************************************************************************)
EXTENDS PaymentFlow, TLC

\* Handlers, relays, webhook ids and lease tokens are interchangeable: no
\* definition tells one from another.  Used by the runs without liveness
\* properties.
Interchangeable ==
  Permutations(Handlers) \cup Permutations(Relays) \cup
    Permutations(WebhookIds) \cup Permutations(Tokens)
=============================================================================

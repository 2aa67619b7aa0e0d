------------------------- MODULE MCReconciliation -------------------------
(***************************************************************************)
(* Small instances of Reconciliation for TLC.                              *)
(***************************************************************************)
EXTENDS Reconciliation, TLC

\* Workers, tokens and payments are interchangeable.
Interchangeable ==
  Permutations(Workers) \cup Permutations(Tokens) \cup Permutations(Payments)
=============================================================================

----------------------------- MODULE MCPayments -----------------------------
(***************************************************************************)
(* Instances of the payments for TLC.                                       *)
(***************************************************************************)
EXTENDS PaymobPayments, TLC

\* Calls, intentions and transactions are interchangeable.
PaymentSymmetry == Permutations(Calls) \cup Permutations(Intentions) \cup Permutations(Txns)
=============================================================================

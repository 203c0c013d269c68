----------------------------- MODULE MCPayouts -----------------------------
(* Instances of Payouts for TLC.                                           *)
EXTENDS Payouts, TLC

\* The calls and the disbursements are interchangeable.
Symmetry == Permutations(Workers) \cup Permutations(Callbacks)
              \cup Permutations(Tokens)
=============================================================================

-------------------------- MODULE MCRentCollection --------------------------
(* Instances of RentCollection for TLC.                                    *)
EXTENDS RentCollection, TLC

\* The rows, the requests and the references are interchangeable.
Symmetry ==
  Permutations(Payments) \cup Permutations(Requests) \cup Permutations(Tokens)
    \cup Permutations(Initiators) \cup Permutations(Reconcilers)
    \cup Permutations(Runs)
=============================================================================

------------------------ MODULE MCPropertyLifecycle ------------------------
(* Instances of PropertyLifecycle for TLC.                                 *)
EXTENDS PropertyLifecycle, TLC

\* Room for one property in the first two tiers, and for two in the third.
SmallQuota == [t \in Tiers |-> IF t < 2 THEN 1 ELSE 2]

\* The rows, the tenants and the requests are interchangeable.
Symmetry == Permutations(Properties) \cup Permutations(Tenants)
              \cup Permutations(Leases) \cup Permutations(Requests)
=============================================================================

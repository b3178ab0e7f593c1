--------------------------- MODULE MCRevenueLedger ---------------------------
(* Small instances of RevenueLedger for TLC.                                 *)
EXTENDS RevenueLedger, TLC

\* Payments, refunds and disputes are interchangeable identities.
Ids == Permutations(Payments) \cup Permutations(RefundIds) \cup Permutations(DisputeIds)
=============================================================================

------------------------ MODULE MCStripeConnections ------------------------
(* Small instances of StripeConnections for TLC.                           *)
EXTENDS StripeConnections, TLC

\* One user with all apps, who can choose every account.
OneUser == [a \in Apps |-> "u"]
EveryAccount == [a \in Apps |-> Accounts]

Symmetric == Permutations(Apps) \cup Permutations(Accounts) \cup Permutations(Callers)
=============================================================================

------------------------ MODULE MCAffiliateAccounts ------------------------
(* Small instances of AffiliateAccounts for TLC.                             *)
EXTENDS AffiliateAccounts, TLC

Ids == Permutations(Users) \cup Permutations(Keys) \cup Permutations(Links)
         \cup Permutations(Codes) \cup Permutations(Callers)
=============================================================================

--------------------------- MODULE MCAttribution ---------------------------
(* Small instances of Attribution for TLC.                                 *)
EXTENDS Attribution, TLC

Symmetric == UNION {Permutations(S) : S \in {Callers, People, Affiliates, Clicks, Customers}}
=============================================================================

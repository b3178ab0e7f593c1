--------------------------- MODULE MCAppDirectory ---------------------------
(* A small instance of AppDirectory for TLC.                               *)
EXTENDS AppDirectory, TLC

Symmetric == Permutations(Programs) \cup Permutations(Files) \cup Permutations(Callers)
=============================================================================

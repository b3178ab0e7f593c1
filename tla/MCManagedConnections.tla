------------------------ MODULE MCManagedConnections ------------------------
(* For the runs of ManagedConnections: one account that always sends its website, *)
(* and one that sends the same website or none.                                    *)
EXTENDS ManagedConnections, TLC

CONSTANTS x, y, site

SharedSite == x :> {site} @@ y :> {site, None}

Symmetric == UNION {Permutations(S) : S \in {Conns, Callers, InstallKeys}}
=============================================================================

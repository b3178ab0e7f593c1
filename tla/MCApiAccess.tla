---------------------------- MODULE MCApiAccess ----------------------------
(***************************************************************************)
(* Two apps of one organization, one app of another and the managed app.    *)
(* The owner of the first is an affiliate of the third; one credential of   *)
(* every kind, the app keys of one app or of the organization.              *)
(***************************************************************************)
EXTENDS ApiAccess

CONSTANTS a1, a2, b1, m1, orgA, orgB, orgM, owner, affiliate, admin

MCOrgOf == [a \in {a1, a2, b1, m1} |->
               CASE a \in {a1, a2} -> orgA [] a = b1 -> orgB [] a = m1 -> orgM]
MCAffiliated == {<<owner, b1>>, <<affiliate, a1>>, <<affiliate, b1>>, <<affiliate, m1>>}

Stranger == [type |-> "none", user |-> Null, orgs |-> {}, app |-> Null, test |-> FALSE,
             admin |-> FALSE]
Session(u, orgs) == [Stranger EXCEPT !.type = "session", !.user = u, !.orgs = orgs]
AppKey(orgs, a, test) ==
    [Stranger EXCEPT !.type = "app", !.orgs = orgs, !.app = a, !.test = test]
MCCredentials ==
    {Stranger, Session(owner, {orgA}), Session(affiliate, {}),
     [Session(admin, {}) EXCEPT !.admin = TRUE],
     AppKey({orgA}, a1, FALSE), AppKey({orgA}, Null, TRUE), AppKey({orgM}, m1, FALSE),
     [Stranger EXCEPT !.type = "affiliate", !.user = affiliate],
     [Stranger EXCEPT !.type = "managed", !.app = m1],
     [Stranger EXCEPT !.type = "provider"],
     [Stranger EXCEPT !.type = "stripe"]}

=============================================================================

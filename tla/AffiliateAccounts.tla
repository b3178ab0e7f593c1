------------------------- MODULE AffiliateAccounts -------------------------
(***************************************************************************)
(* What belongs to the account of an affiliate of one program: the          *)
(* membership, the tracking links with their clicks and the API keys, up to *)
(* the deletion of the account.                                             *)
(*                                                                         *)
(* No handler but the join runs in a transaction: each read and each write  *)
(* is a step of its own.  What holds in spite of that is held by the unique *)
(* indexes and the foreign keys of the tables, which each write obeys.      *)
(* Payout details are part of Payouts; sessions outlive the deletion, so an *)
(* account that was deleted may still be used.                              *)
(***************************************************************************)
EXTENDS Naturals

CONSTANTS
    Users,        \* affiliates
    Keys,         \* ids of API keys
    Links,        \* ids of affiliate links
    Codes,        \* link codes, as normalizeLinkCode leaves them
    Callers,      \* requests in flight at the same time
    MaxRequests,  \* bound: requests and changes by the owner
    None

ASSUME AffiliateAccountsAssumption ==
    /\ None \notin Users \cup Codes \cup Callers
    /\ MaxRequests \in Nat

VARIABLES
    member,   \* program_affiliates.status of a user, "none" is no row; "disabled"
              \* also stands for the other statuses that are not active
    link,     \* affiliate_links
    clicked,  \* the links that clicks refer to
    key,      \* api_keys
    deleted,  \* the users whose email is anonymized
    call,     \* the requests in flight
    requests
vars == <<member, link, clicked, key, deleted, call, requests>>
tracking == <<member, link, clicked>>
account == <<key, deleted>>

Idle == [step |-> "idle"]
NoLink == [status |-> "none", owner |-> None, code |-> None, default |-> FALSE]
NoKey == [status |-> "none", owner |-> None]

Init ==
    /\ member = [u \in Users |-> "none"]
    /\ link = [l \in Links |-> NoLink]
    /\ clicked = {}
    /\ key = [k \in Keys |-> NoKey]
    /\ deleted = {}
    /\ call = [p \in Callers |-> Idle]
    /\ requests = 0

At(p, step) == call[p].step = step
Finish(p) == call' = [call EXCEPT ![p] = Idle] /\ UNCHANGED requests
GoTo(p, step) == call' = [call EXCEPT ![p].step = step] /\ UNCHANGED requests
Request == requests < MaxRequests /\ requests' = requests + 1
Begin(p, request) ==
    /\ Request
    /\ call[p] = Idle
    /\ call' = [call EXCEPT ![p] = request]

Kept(l) == link[l].status = "kept"
CodeFree(c) == ~\E l \in Links : Kept(l) /\ link[l].code = c
LiveKeys(u) == {k \in Keys : key[k] = [status |-> "live", owner |-> u]}

-----------------------------------------------------------------------------
(* Memberships.                                                            *)

\* createAffiliate and the joins draw a code that no link of the app has ...
generateUniqueLinkCode(p, u, c) ==
    /\ member[u] = "none"
    /\ CodeFree(c)
    /\ Begin(p, [step |-> "join", user |-> u, code |-> c, default |-> TRUE])
    /\ UNCHANGED <<tracking, account>>

\* affiliate_links_app_id_link_code_unique.
NoCodeIndex(c) == TRUE                                              \* mutant
CodeIndexAllows(c) == CodeFree(c)
InsertLink(p) ==
    \E l \in Links :
      /\ link[l].status = "none"
      /\ link' = [link EXCEPT ![l] = [status |-> "kept", owner |-> call[p].user,
                                      code |-> call[p].code, default |-> call[p].default]]

\* Active, or pending where the program asks for approval.
NewMember(u) == {[member EXCEPT ![u] = "active"], [member EXCEPT ![u] = "disabled"]}
\* ... and insert the membership with its default link in one transaction, which
\* fails if the user or the code came in between.
joinInsert(p) ==
    /\ At(p, "join")
    /\ IF member[call[p].user] = "none" /\ CodeIndexAllows(call[p].code)
       THEN InsertLink(p) /\ member' \in NewMember(call[p].user)
       ELSE UNCHANGED <<link, member>>
    /\ Finish(p)
    /\ UNCHANGED <<clicked, account>>

\* The owner disables or enables a member.
changeMember(u) ==
    /\ Request
    /\ member[u] # "none"
    /\ member' = [member EXCEPT ![u] = IF @ = "active" THEN "disabled" ELSE "active"]
    /\ UNCHANGED <<link, clicked, account, call>>

-----------------------------------------------------------------------------
(* Links, by the affiliate or by the owner in the affiliate's place.       *)

\* assertLinkCodeAvailable, with any label: also that of the default link.
createLinkCheck(p, u, c, isDefault) ==
    /\ member[u] # "none"
    /\ CodeFree(c)
    /\ Begin(p, [step |-> "create", user |-> u, code |-> c, default |-> isDefault])
    /\ UNCHANGED <<tracking, account>>
createLinkInsert(p) ==
    /\ At(p, "create")
    /\ IF CodeIndexAllows(call[p].code) THEN InsertLink(p) ELSE UNCHANGED link
    /\ Finish(p)
    /\ UNCHANGED <<member, clicked, account>>

\* updateAffiliateLinkForOwner gives any link any label.
updateLinkRead(p, l, isDefault) ==
    /\ Kept(l)
    /\ Begin(p, [step |-> "update", link |-> l, default |-> isDefault])
    /\ UNCHANGED <<tracking, account>>
updateLinkWrite(p) ==
    /\ At(p, "update")
    /\ link' = IF Kept(call[p].link) THEN [link EXCEPT ![call[p].link].default = call[p].default]
               ELSE link
    /\ Finish(p)
    /\ UNCHANGED <<member, clicked, account>>

\* deleteAffiliateLink: not a link labelled as the default one ...
deleteLinkRead(p, l) ==
    /\ Kept(l) /\ ~link[l].default
    /\ Begin(p, [step |-> "clicks", link |-> l])
    /\ UNCHANGED <<tracking, account>>
\* ... and not one with clicks ...
deleteLinkCheck(p) ==
    /\ At(p, "clicks")
    /\ IF call[p].link \in clicked THEN Finish(p) ELSE GoTo(p, "remove")
    /\ UNCHANGED <<tracking, account>>
\* ... which the foreign keys of the clicks refuse as well.
OnlyChecked(l) == TRUE                                              \* mutant
Unreferenced(l) == l \notin clicked
deleteLinkRow(p) ==
    /\ At(p, "remove")
    /\ link' = IF Unreferenced(call[p].link)
               THEN [link EXCEPT ![call[p].link] = [NoLink EXCEPT !.status = "gone"]] ELSE link
    /\ Finish(p)
    /\ UNCHANGED <<member, clicked, account>>

\* captureAffiliateClick: a click on the link of an active member ...
captureRead(p, l) ==
    /\ Kept(l) /\ member[link[l].owner] = "active"
    /\ Begin(p, [step |-> "capture", link |-> l])
    /\ UNCHANGED <<tracking, account>>
\* ... is stored unless its link is gone by then.
captureInsert(p) ==
    /\ At(p, "capture")
    /\ clicked' = IF Kept(call[p].link) THEN clicked \cup {call[p].link} ELSE clicked
    /\ Finish(p)
    /\ UNCHANGED <<member, link, account>>

-----------------------------------------------------------------------------
(* API keys.                                                               *)

\* createApiKey; a session, also of a deleted account, may do that.
createApiKey(u, k) ==
    /\ Request
    /\ key[k].status = "none"
    /\ key' = [key EXCEPT ![k] = [status |-> "live", owner |-> u]]
    /\ UNCHANGED <<tracking, deleted, call>>

\* revokeApiKey reads the key, refuses one that is revoked, and writes.
revokeKeyRead(p, u, k) ==
    /\ k \in LiveKeys(u)
    /\ Begin(p, [step |-> "revoke", key |-> k])
    /\ UNCHANGED <<tracking, account>>
Revoked(k) == [key EXCEPT ![k].status = "revoked"]
revokeKeyWrite(p) ==
    /\ At(p, "revoke")
    /\ key' = Revoked(call[p].key)
    /\ Finish(p)
    /\ UNCHANGED <<tracking, deleted>>

-----------------------------------------------------------------------------
(* deleteAffiliateAccount.                                                 *)

\* The balance, which may block the deletion, and the user are read ...
deletionRead(p, u) ==
    /\ u \notin deleted
    /\ Begin(p, [step |-> "list", user |-> u])
    /\ UNCHANGED <<tracking, account>>
\* ... then the keys ...
deletionListKeys(p) ==
    /\ At(p, "list")
    /\ LET keys == LiveKeys(call[p].user)
       IN  call' = [call EXCEPT ![p] = [step |-> "keys", user |-> @.user, listed |-> keys,
                                        todo |-> keys, key |-> None]]
    /\ UNCHANGED <<tracking, account, requests>>
\* ... each of which revokeApiKey reads and revokes: a key that somebody else has
\* revoked meanwhile aborts the deletion.
StopsRevoking(p) == call' = [call EXCEPT ![p].todo = {}]            \* mutant
OnRevoked(p) == call' = [call EXCEPT ![p] = Idle]
deletionReadKey(p) ==
    /\ At(p, "keys")
    /\ \E k \in call[p].todo :
         IF key[k].status = "revoked" THEN OnRevoked(p)
         ELSE call' = [call EXCEPT ![p].step = "key", ![p].todo = @ \ {k}, ![p].key = k]
    /\ UNCHANGED <<tracking, account, requests>>
deletionRevokeKey(p) ==
    /\ At(p, "key")
    /\ key' = Revoked(call[p].key)
    /\ GoTo(p, "keys")
    /\ UNCHANGED <<tracking, deleted>>
\* All memberships are disabled, and at last the email is anonymized.
deletionDisable(p) ==
    /\ At(p, "keys") /\ call[p].todo = {}
    /\ member' = [member EXCEPT ![call[p].user] = IF @ = "none" THEN @ ELSE "disabled"]
    /\ GoTo(p, "anonymize")
    /\ UNCHANGED <<link, clicked, account>>
deletionAnonymize(p) ==
    /\ At(p, "anonymize")
    /\ deleted' = deleted \cup {call[p].user}
    /\ Finish(p)
    /\ UNCHANGED <<tracking, key>>

-----------------------------------------------------------------------------
Crash(p) ==
    /\ call[p] # Idle
    /\ Finish(p)
    /\ UNCHANGED <<tracking, account>>

Start(p) ==
    \/ \E u \in Users, c \in Codes :
         \/ generateUniqueLinkCode(p, u, c)
         \/ \E isDefault \in BOOLEAN : createLinkCheck(p, u, c, isDefault)
    \/ \E l \in Links :
         \/ \E isDefault \in BOOLEAN : updateLinkRead(p, l, isDefault)
         \/ deleteLinkRead(p, l)
         \/ captureRead(p, l)
    \/ \E u \in Users : deletionRead(p, u) \/ \E k \in Keys : revokeKeyRead(p, u, k)

Step(p) ==
    \/ joinInsert(p) \/ createLinkInsert(p) \/ updateLinkWrite(p)
    \/ deleteLinkCheck(p) \/ deleteLinkRow(p) \/ captureInsert(p)
    \/ revokeKeyWrite(p)
    \/ deletionListKeys(p) \/ deletionReadKey(p) \/ deletionRevokeKey(p)
    \/ deletionDisable(p) \/ deletionAnonymize(p)

Next ==
    \/ \E p \in Callers : Start(p) \/ Step(p) \/ Crash(p)
    \/ \E u \in Users : changeMember(u) \/ \E k \in Keys : createApiKey(u, k)

Spec == Init /\ [][Next]_vars

-----------------------------------------------------------------------------
(* Properties.                                                             *)

Call ==
    {Idle}
    \cup [step : {"join", "create"}, user : Users, code : Codes, default : BOOLEAN]
    \cup [step : {"update"}, link : Links, default : BOOLEAN]
    \cup [step : {"clicks", "remove", "capture"}, link : Links]
    \cup [step : {"revoke"}, key : Keys]
    \cup [step : {"list"}, user : Users]
    \cup [step : {"keys", "key", "anonymize"}, user : Users, listed : SUBSET Keys,
          todo : SUBSET Keys, key : Keys \cup {None}]

\* The types of the variables; who has a link is a member.
TypeOK ==
    /\ member \in [Users -> {"none", "active", "disabled"}]
    /\ link \in [Links -> {NoLink, [NoLink EXCEPT !.status = "gone"]} \cup
                   [status : {"kept"}, owner : Users, code : Codes, default : BOOLEAN]]
    /\ clicked \subseteq Links
    /\ key \in [Keys -> {NoKey} \cup [status : {"live", "revoked"}, owner : Users]]
    /\ deleted \subseteq Users
    /\ \A l \in Links : Kept(l) => member[link[l].owner] # "none"
    /\ call \in [Callers -> Call]
    /\ requests \in 0 .. MaxRequests

\* A link with clicks is never removed, although the check for clicks and the
\* removal are apart and clicks arrive in between: every click, so every
\* commission that follows from it, leads back to the link it came by.
ClicksKeepLink == \A l \in clicked : Kept(l)

\* api.md:413: within an app a code names one link, also when two affiliates take
\* it at the same time or an old link gives it up: no visitor of one affiliate is
\* credited to another.
OneLinkPerCode == \A l, m \in Links :
    Kept(l) /\ Kept(m) /\ link[l].code = link[m].code => l = m

\* A deletion anonymizes the account only after every key it found live has been
\* revoked, also when other requests revoke keys of the account meanwhile or
\* delete the same account: no key that was forgotten outlives its owner.
KeysDieFirst == \A p \in Callers : At(p, "anonymize") =>
    \A k \in call[p].listed : key[k].status = "revoked"
=============================================================================

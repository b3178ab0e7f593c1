----------------------- MODULE AffiliateAccounts_proof -----------------------
(***************************************************************************)
(* Links, codes and keys of affiliates, for any number of affiliates,       *)
(* links, codes, keys and requests in flight.                              *)
(***************************************************************************)
EXTENDS AffiliateAccounts, TLAPS

KeptLink == [status : {"kept"}, owner : Users, code : Codes, default : BOOLEAN]
LinkRow == {NoLink, [NoLink EXCEPT !.status = "gone"]} \cup KeptLink
MemberOK == member \in [Users -> {"none", "active", "disabled"}]
LinkOK == link \in [Links -> LinkRow]
Owned == \A l \in Links : Kept(l) => member[link[l].owner] # "none"
TrackingOK ==
    /\ MemberOK /\ LinkOK /\ clicked \subseteq Links
    /\ Owned /\ ClicksKeepLink /\ OneLinkPerCode
KeyRow == {NoKey} \cup [status : {"live", "revoked"}, owner : Users]
KeyOK == key \in [Keys -> KeyRow] /\ deleted \subseteq Users
CallOK == call \in [Callers -> Call]

-----------------------------------------------------------------------------
(* The requests in flight.                                                 *)

\* A request is followed by a request, or by none.
LEMMA CallSet ==
  ASSUME CallOK, NEW p \in Callers, NEW r \in Call, call' = [call EXCEPT ![p] = r]
  PROVE  CallOK'
  BY DEF CallOK

\* A request that makes a link.
LEMMA Making ==
  ASSUME CallOK, NEW p \in Callers, call[p].step \in {"join", "create"}
  PROVE  call[p] \in [step : {"join", "create"}, user : Users, code : Codes, default : BOOLEAN]
<1>1. call[p] \in Call
  BY DEF CallOK
<1> QED BY <1>1 DEF Call, Idle

\* A request that labels a link.
LEMMA Labelling ==
  ASSUME CallOK, NEW p \in Callers, call[p].step = "update"
  PROVE  call[p] \in [step : {"update"}, link : Links, default : BOOLEAN]
<1>1. call[p] \in Call
  BY DEF CallOK
<1> QED BY <1>1 DEF Call, Idle

\* A request that removes a link or captures a click on it.
LEMMA OnLink ==
  ASSUME CallOK, NEW p \in Callers, call[p].step \in {"clicks", "remove", "capture"}
  PROVE  call[p] \in [step : {"clicks", "remove", "capture"}, link : Links]
<1>1. call[p] \in Call
  BY DEF CallOK
<1> QED BY <1>1 DEF Call, Idle

\* A request that revokes a key.
LEMMA Revoking ==
  ASSUME CallOK, NEW p \in Callers, call[p].step = "revoke"
  PROVE  call[p] \in [step : {"revoke"}, key : Keys]
<1>1. call[p] \in Call
  BY DEF CallOK
<1> QED BY <1>1 DEF Call, Idle

\* A deletion that has not listed the keys yet.
LEMMA Listing ==
  ASSUME CallOK, NEW p \in Callers, call[p].step = "list"
  PROVE  call[p] \in [step : {"list"}, user : Users]
<1>1. call[p] \in Call
  BY DEF CallOK
<1> QED BY <1>1 DEF Call, Idle

\* What a deletion keeps once it has listed the keys.
Deletion == [step : {"keys", "key", "anonymize"}, user : Users, listed : SUBSET Keys,
             todo : SUBSET Keys, key : Keys \cup {None}]

\* A request in one of the steps of a deletion after the listing is such a deletion.
LEMMA Deleting ==
  ASSUME CallOK, NEW p \in Callers, call[p].step \in {"keys", "key", "anonymize"}
  PROVE  call[p] \in Deletion
<1>1. call[p] \in Call
  BY DEF CallOK
<1> QED BY <1>1 DEF Call, Idle, Deletion

\* What a request may be.
LEMMA CallKinds ==
  ASSUME NEW u \in Users, NEW c \in Codes, NEW l \in Links, NEW d \in BOOLEAN, NEW k \in Keys
  PROVE  /\ Idle \in Call
         /\ \A step \in {"join", "create"} :
               [step |-> step, user |-> u, code |-> c, default |-> d] \in Call
         /\ [step |-> "update", link |-> l, default |-> d] \in Call
         /\ \A step \in {"clicks", "remove", "capture"} : [step |-> step, link |-> l] \in Call
         /\ [step |-> "revoke", key |-> k] \in Call
         /\ [step |-> "list", user |-> u] \in Call
  BY DEF Call

-----------------------------------------------------------------------------
(* Memberships, links and clicks.                                          *)

\* Members change, and nobody stops being one.
LEMMA MemberChanged ==
  ASSUME TrackingOK, MemberOK', link' = link, clicked' = clicked,
         \A u \in Users : member[u] # "none" => member'[u] # "none"
  PROVE  TrackingOK'
<1>1. \A l \in Links : Kept(l) => link[l] \in KeptLink
  BY DEF TrackingOK, LinkOK, LinkRow, Kept, NoLink
<1>2. Owned'
  BY <1>1 DEF TrackingOK, Owned, Kept, KeptLink
<1> QED BY <1>2 DEF TrackingOK, LinkOK, ClicksKeepLink, OneLinkPerCode, Kept

\* A link with a free code comes up.
LEMMA LinkAdded ==
  ASSUME TrackingOK, NEW l \in Links, link[l].status = "none", NEW r \in KeptLink,
         CodeFree(r.code), link' = [link EXCEPT ![l] = r], clicked' = clicked,
         MemberOK', \A u \in Users : member[u] # "none" => member'[u] # "none",
         member'[r.owner] # "none"
  PROVE  TrackingOK'
<1>1. LinkOK' /\ link \in [Links -> LinkRow]
  BY DEF TrackingOK, LinkOK, LinkRow
<1>2. /\ link'[l] = r /\ r.status = "kept"
      /\ \A m \in Links \ {l} : link'[m] = link[m]
  BY <1>1 DEF KeptLink
<1>3. \A m \in Links : Kept(m) => link[m] \in KeptLink /\ m # l
  BY DEF TrackingOK, LinkOK, LinkRow, Kept, NoLink
<1>4. Owned'
  BY <1>2, <1>3 DEF TrackingOK, Owned, Kept, KeptLink
<1>5. ClicksKeepLink'
  BY <1>2, <1>3 DEF TrackingOK, ClicksKeepLink, Kept
<1>6. OneLinkPerCode'
  BY <1>2, <1>3 DEF TrackingOK, OneLinkPerCode, CodeFree, Kept
<1> QED BY <1>1, <1>4, <1>5, <1>6 DEF TrackingOK

\* The row of a link that is kept has all its columns.
LEMMA KeptRow ==
  ASSUME LinkOK, NEW l \in Links, Kept(l)
  PROVE  link[l] \in KeptLink
BY DEF LinkOK, LinkRow, Kept, NoLink

\* A link is given another label.
LEMMA LinkLabelled ==
  ASSUME TrackingOK, NEW l \in Links, Kept(l), NEW d \in BOOLEAN,
         link' = [link EXCEPT ![l].default = d], clicked' = clicked, member' = member
  PROVE  TrackingOK'
<1>1. link \in [Links -> LinkRow] /\ link[l] \in KeptLink
  BY KeptRow DEF TrackingOK, LinkOK
<1>2. [link[l] EXCEPT !.default = d] \in KeptLink
  BY <1>1 DEF KeptLink
<1>3. LinkOK'
  BY <1>1, <1>2 DEF LinkOK, LinkRow
<1>4. \A m \in Links : /\ link'[m].status = link[m].status
                       /\ link'[m].owner = link[m].owner
                       /\ link'[m].code = link[m].code
  BY <1>1, <1>2 DEF KeptLink
<1> QED BY <1>3, <1>4 DEF TrackingOK, MemberOK, Owned, ClicksKeepLink, OneLinkPerCode, Kept

\* A link without clicks goes.
LEMMA LinkRemoved ==
  ASSUME TrackingOK, NEW l \in Links, l \notin clicked, clicked' = clicked, member' = member,
         link' = [link EXCEPT ![l] = [NoLink EXCEPT !.status = "gone"]]
  PROVE  TrackingOK'
<1>1. LinkOK' /\ link \in [Links -> LinkRow]
  BY DEF TrackingOK, LinkOK, LinkRow
<1>2. /\ link'[l].status = "gone"
      /\ \A m \in Links \ {l} : link'[m] = link[m]
  BY <1>1 DEF NoLink
<1> QED BY <1>1, <1>2 DEF TrackingOK, MemberOK, Owned, ClicksKeepLink, OneLinkPerCode, Kept

\* A link that is kept is clicked.
LEMMA LinkClicked ==
  ASSUME TrackingOK, NEW l \in Links, Kept(l), clicked' = clicked \cup {l},
         member' = member, link' = link
  PROVE  TrackingOK'
  BY DEF TrackingOK, MemberOK, LinkOK, Owned, ClicksKeepLink, OneLinkPerCode, Kept

\* What a request still relies on when it writes: the member it makes a link for is
\* one, and every key it found live is revoked, or still to be.
Fits(r) ==
    /\ r.step = "create" => member[r.user] # "none"
    /\ r.step = "revoke" => key[r.key].status # "none"
    /\ r.step \in {"keys", "key", "anonymize"} =>
         /\ r.todo \subseteq r.listed
         /\ r.step = "key" => r.key \in r.listed
         /\ r.step = "anonymize" => r.todo = {}
         /\ \A k \in r.listed :
              /\ key[k].status # "none"
              /\ \/ key[k].status = "revoked"
                 \/ k \in r.todo
                 \/ r.step = "key" /\ k = r.key
AllFit == \A p \in Callers : Fits(call[p])

\* Nobody stops being a member, no key comes back.
Stable ==
    /\ \A u \in Users : member[u] # "none" => member'[u] # "none"
    /\ \A k \in Keys : /\ key[k].status # "none" => key'[k].status # "none"
                       /\ key[k].status = "revoked" => key'[k].status = "revoked"

\* A step that inserts the link of a request.
LEMMA Inserted ==
  ASSUME TrackingOK, CallOK, NEW p \in Callers, call[p].step \in {"join", "create"},
         InsertLink(p), CodeFree(call[p].code), clicked' = clicked,
         MemberOK', \A u \in Users : member[u] # "none" => member'[u] # "none",
         member'[call[p].user] # "none"
  PROVE  TrackingOK'
<1>1. /\ call[p].user \in Users /\ call[p].code \in Codes /\ call[p].default \in BOOLEAN
  BY Making
<1> DEFINE r == [status |-> "kept", owner |-> call[p].user, code |-> call[p].code,
                 default |-> call[p].default]
<1>2. PICK l \in Links : link[l].status = "none" /\ link' = [link EXCEPT ![l] = r]
  BY DEF InsertLink
<1>3. r \in KeptLink /\ r.code = call[p].code /\ r.owner = call[p].user
  BY <1>1 DEF KeptLink
<1> HIDE DEF r
<1> QED BY <1>2, <1>3, LinkAdded

\* Every step keeps the memberships, links and clicks in order.
LEMMA TrackingStep ==
  ASSUME TrackingOK, CallOK, AllFit, [Next]_vars
  PROVE  TrackingOK' /\ \A u \in Users : member[u] # "none" => member'[u] # "none"
<1> DEFINE Goal == TrackingOK' /\ \A u \in Users : member[u] # "none" => member'[u] # "none"
<1>1. ASSUME UNCHANGED tracking
      PROVE  Goal
  BY <1>1, MemberChanged DEF tracking, TrackingOK, MemberOK
<1>2. ASSUME NEW p \in Callers, joinInsert(p)
      PROVE  Goal
  <2>1. CASE UNCHANGED <<link, member>>
    BY <2>1, <1>1, <1>2 DEF joinInsert, tracking
  <2>2. CASE /\ member[call[p].user] = "none" /\ CodeIndexAllows(call[p].code)
             /\ InsertLink(p) /\ member' \in NewMember(call[p].user)
    <3>1. call[p].user \in Users /\ call[p].step = "join"
      BY <1>2, Making DEF joinInsert, At
    <3>2. /\ MemberOK' /\ member'[call[p].user] # "none"
          /\ \A u \in Users : member[u] # "none" => member'[u] # "none"
      BY <2>2, <3>1 DEF NewMember, TrackingOK, MemberOK
    <3> QED BY <1>2, <2>2, <3>1, <3>2, Inserted DEF joinInsert, CodeIndexAllows
  <2> QED BY <1>2, <2>1, <2>2 DEF joinInsert
<1>3. ASSUME NEW u \in Users, changeMember(u)
      PROVE  Goal
  <2>1. /\ MemberOK' /\ \A v \in Users : member[v] # "none" => member'[v] # "none"
    BY <1>3 DEF changeMember, TrackingOK, MemberOK
  <2> QED BY <1>3, <2>1, MemberChanged DEF changeMember
<1>4. ASSUME NEW p \in Callers, createLinkInsert(p)
      PROVE  Goal
  <2>1. CASE UNCHANGED link
    BY <2>1, <1>1, <1>4 DEF createLinkInsert, tracking
  <2>2. CASE CodeIndexAllows(call[p].code) /\ InsertLink(p)
    <3>1. member[call[p].user] # "none" /\ call[p].step = "create" /\ member' = member
      BY <1>4 DEF createLinkInsert, AllFit, Fits, At
    <3> QED BY <1>4, <2>2, <3>1, Inserted
            DEF createLinkInsert, CodeIndexAllows, TrackingOK, MemberOK
  <2> QED BY <1>4, <2>1, <2>2 DEF createLinkInsert
<1>5. ASSUME NEW p \in Callers, updateLinkWrite(p)
      PROVE  Goal
  <2>1. CASE ~Kept(call[p].link)
    BY <2>1, <1>1, <1>5 DEF updateLinkWrite, tracking
  <2>2. CASE Kept(call[p].link)
    BY <2>2, <1>5, Labelling, LinkLabelled DEF updateLinkWrite, At
  <2> QED BY <2>1, <2>2
<1>6. ASSUME NEW p \in Callers, deleteLinkRow(p)
      PROVE  Goal
  <2>1. CASE ~Unreferenced(call[p].link)
    BY <2>1, <1>1, <1>6 DEF deleteLinkRow, tracking
  <2>2. CASE Unreferenced(call[p].link)
    BY <2>2, <1>6, OnLink, LinkRemoved DEF deleteLinkRow, At, Unreferenced
  <2> QED BY <2>1, <2>2
<1>7. ASSUME NEW p \in Callers, captureInsert(p)
      PROVE  Goal
  <2>1. CASE ~Kept(call[p].link)
    BY <2>1, <1>1, <1>7 DEF captureInsert, tracking
  <2>2. CASE Kept(call[p].link)
    BY <2>2, <1>7, OnLink, LinkClicked DEF captureInsert, At
  <2> QED BY <2>1, <2>2
<1>8. ASSUME NEW p \in Callers, deletionDisable(p)
      PROVE  Goal
  <2>1. /\ MemberOK' /\ \A v \in Users : member[v] # "none" => member'[v] # "none"
    BY <1>8 DEF deletionDisable, TrackingOK, MemberOK
  <2> QED BY <1>8, <2>1, MemberChanged DEF deletionDisable
<1> QED
  <2>1. CASE UNCHANGED vars
    BY <2>1, <1>1 DEF vars, tracking
  <2>2. ASSUME NEW p \in Callers, Start(p)
        PROVE  UNCHANGED tracking
    BY <2>2 DEF Start, generateUniqueLinkCode, createLinkCheck, updateLinkRead, deleteLinkRead,
                captureRead, deletionRead, revokeKeyRead, tracking
  <2>3. ASSUME NEW p \in Callers,
               \/ deleteLinkCheck(p) \/ revokeKeyWrite(p) \/ deletionListKeys(p)
               \/ deletionReadKey(p) \/ deletionRevokeKey(p) \/ deletionAnonymize(p) \/ Crash(p)
        PROVE  UNCHANGED tracking
    BY <2>3 DEF deleteLinkCheck, revokeKeyWrite, deletionListKeys, deletionReadKey,
                deletionRevokeKey, deletionAnonymize, Crash, tracking
  <2>4. ASSUME NEW u \in Users, NEW k \in Keys, createApiKey(u, k)
        PROVE  UNCHANGED tracking
    BY <2>4 DEF createApiKey, tracking
  <2> QED BY <2>1, <2>2, <2>3, <2>4, <1>1, <1>2, <1>3, <1>4, <1>5, <1>6, <1>7, <1>8
          DEF Next, Step

-----------------------------------------------------------------------------
(* Keys.                                                                   *)

\* A key is revoked, and the others are left alone.
LEMMA KeyRevoked ==
  ASSUME KeyOK, NEW k \in Keys, key[k].status # "none", key' = Revoked(k), deleted' = deleted
  PROVE  /\ KeyOK' /\ key'[k].status = "revoked"
         /\ \A j \in Keys : /\ key[j].status # "none" => key'[j].status # "none"
                            /\ key[j].status = "revoked" => key'[j].status = "revoked"
<1>1. key \in [Keys -> KeyRow] /\ key[k] \in [status : {"live", "revoked"}, owner : Users]
  BY DEF KeyOK, KeyRow, NoKey
<1>2. /\ [key[k] EXCEPT !.status = "revoked"] \in [status : {"live", "revoked"}, owner : Users]
      /\ [key[k] EXCEPT !.status = "revoked"].status = "revoked"
  BY <1>1
<1>3. key' = [key EXCEPT ![k] = [key[k] EXCEPT !.status = "revoked"]]
  BY DEF Revoked
<1>4. key' \in [Keys -> KeyRow]
  BY <1>1, <1>2, <1>3 DEF KeyRow
<1> QED BY <1>1, <1>2, <1>3, <1>4 DEF KeyOK

\* Every step keeps the keys in order.
LEMMA KeyStep ==
  ASSUME KeyOK, CallOK, AllFit, [Next]_vars
  PROVE  /\ KeyOK'
         /\ \A k \in Keys : /\ key[k].status # "none" => key'[k].status # "none"
                            /\ key[k].status = "revoked" => key'[k].status = "revoked"
<1> DEFINE Goal == /\ KeyOK'
                   /\ \A k \in Keys : /\ key[k].status # "none" => key'[k].status # "none"
                                      /\ key[k].status = "revoked" => key'[k].status = "revoked"
<1>1. ASSUME UNCHANGED key, deleted' \subseteq Users
      PROVE  Goal
  BY <1>1 DEF KeyOK
<1>2. ASSUME NEW u \in Users, NEW k \in Keys, createApiKey(u, k)
      PROVE  Goal
  BY <1>2 DEF createApiKey, KeyOK, KeyRow
<1>3. ASSUME NEW p \in Callers, revokeKeyWrite(p)
      PROVE  Goal
  <2>1. call[p].key \in Keys /\ key[call[p].key].status # "none"
    BY <1>3, Revoking DEF revokeKeyWrite, At, AllFit, Fits
  <2> QED BY <1>3, <2>1, KeyRevoked DEF revokeKeyWrite
<1>4. ASSUME NEW p \in Callers, deletionRevokeKey(p)
      PROVE  Goal
  <2>1. call[p].key \in Keys /\ key[call[p].key].status # "none"
    BY <1>4, Deleting DEF deletionRevokeKey, At, AllFit, Fits, Deletion
  <2> QED BY <1>4, <2>1, KeyRevoked DEF deletionRevokeKey
<1>5. ASSUME NEW p \in Callers, deletionAnonymize(p)
      PROVE  Goal
  <2>1. call[p].user \in Users
    BY <1>5, Deleting DEF deletionAnonymize, At, Deletion
  <2> QED BY <1>5, <2>1, <1>1 DEF deletionAnonymize, KeyOK
<1> QED
  <2>1. CASE UNCHANGED vars
    BY <2>1, <1>1 DEF vars, KeyOK
  <2>2. ASSUME UNCHANGED account
        PROVE  Goal
    BY <2>2, <1>1 DEF account, KeyOK
  <2>3. ASSUME NEW p \in Callers, Start(p)
        PROVE  UNCHANGED account
    BY <2>3 DEF Start, generateUniqueLinkCode, createLinkCheck, updateLinkRead, deleteLinkRead,
                captureRead, deletionRead, revokeKeyRead, account
  <2>4. ASSUME NEW p \in Callers,
               \/ joinInsert(p) \/ createLinkInsert(p) \/ updateLinkWrite(p)
               \/ deleteLinkCheck(p) \/ deleteLinkRow(p) \/ captureInsert(p)
               \/ deletionListKeys(p) \/ deletionReadKey(p) \/ deletionDisable(p) \/ Crash(p)
        PROVE  UNCHANGED account
    BY <2>4 DEF joinInsert, createLinkInsert, updateLinkWrite, deleteLinkCheck, deleteLinkRow,
                captureInsert, deletionListKeys, deletionReadKey, deletionDisable, Crash, account
  <2>5. ASSUME NEW u \in Users, changeMember(u)
        PROVE  UNCHANGED account
    BY <2>5 DEF changeMember, account
  <2> QED BY <2>1, <2>2, <2>3, <2>4, <2>5, <1>2, <1>3, <1>4, <1>5 DEF Next, Step

-----------------------------------------------------------------------------
(* What requests rely on.                                                  *)

\* A request that has not moved relies on the same.
LEMMA StillFits ==
  ASSUME CallOK, Stable, NEW p \in Callers, Fits(call[p]), call'[p] = call[p]
  PROVE  Fits(call[p])'
<1>1. call[p].step = "create" => call[p].user \in Users
  BY Making
<1>2. call[p].step = "revoke" => call[p].key \in Keys
  BY Revoking
<1>3. call[p].step \in {"keys", "key", "anonymize"} => call[p].listed \subseteq Keys
  BY Deleting DEF Deletion
<1> QED BY <1>1, <1>2, <1>3 DEF Fits, Stable

\* A request has moved and relies on what holds; the others stay where they are.
LEMMA Moves ==
  ASSUME CallOK, AllFit, Stable, NEW p \in Callers, NEW r \in Call,
         call' = [call EXCEPT ![p] = r], call'[p] = r => Fits(call[p])'
  PROVE  CallOK' /\ AllFit'
<1>1. CallOK' /\ call'[p] = r
  BY CallSet DEF CallOK
<1>2. ASSUME NEW q \in Callers, q # p
      PROVE  Fits(call[q])'
  <2>1. call'[q] = call[q] /\ Fits(call[q])
    BY <1>2 DEF CallOK, AllFit
  <2> QED BY <2>1, StillFits
<1> QED BY <1>1, <1>2 DEF AllFit

\* No request has moved.
LEMMA Stays ==
  ASSUME CallOK, AllFit, Stable, call' = call
  PROVE  CallOK' /\ AllFit'
<1>1. ASSUME NEW q \in Callers
      PROVE  Fits(call[q])'
  BY <1>1, StillFits DEF AllFit
<1> QED BY <1>1 DEF AllFit, CallOK

\* A request that ends relies on nothing.
LEMMA Ends ==
  ASSUME CallOK, AllFit, Stable, NEW p \in Callers, call' = [call EXCEPT ![p] = Idle]
  PROVE  CallOK' /\ AllFit'
<1>1. Idle \in Call
  BY DEF Call
<1>2. call'[p] = Idle => Fits(call[p])'
  BY DEF Fits, Idle
<1> QED BY <1>1, <1>2, Moves

\* A request begins.
LEMMA StartStep ==
  ASSUME CallOK, AllFit, Stable, NEW p \in Callers, Start(p), UNCHANGED <<tracking, account>>
  PROVE  CallOK' /\ AllFit'
<1> DEFINE Goal == CallOK' /\ AllFit'
<1>u. /\ member' = member /\ key' = key
  BY DEF tracking, account
<1>1. ASSUME NEW u \in Users, NEW c \in Codes, generateUniqueLinkCode(p, u, c)
      PROVE  Goal
  <2> DEFINE r == [step |-> "join", user |-> u, code |-> c, default |-> TRUE]
  <2>1. call' = [call EXCEPT ![p] = r] /\ r \in Call
    BY <1>1 DEF generateUniqueLinkCode, Begin, Call
  <2>2. call'[p] = r => Fits(call[p])'
    BY DEF Fits
  <2> QED BY <2>1, <2>2, Moves
<1>2. ASSUME NEW u \in Users, NEW c \in Codes, NEW d \in BOOLEAN, createLinkCheck(p, u, c, d)
      PROVE  Goal
  <2> DEFINE r == [step |-> "create", user |-> u, code |-> c, default |-> d]
  <2>1. call' = [call EXCEPT ![p] = r] /\ r \in Call /\ member[u] # "none"
    BY <1>2 DEF createLinkCheck, Begin, Call
  <2>2. call'[p] = r => Fits(call[p])'
    BY <1>u, <2>1 DEF Fits
  <2> QED BY <2>1, <2>2, Moves
<1>3. ASSUME NEW l \in Links, NEW d \in BOOLEAN, updateLinkRead(p, l, d)
      PROVE  Goal
  <2> DEFINE r == [step |-> "update", link |-> l, default |-> d]
  <2>1. call' = [call EXCEPT ![p] = r] /\ r \in Call
    BY <1>3 DEF updateLinkRead, Begin, Call
  <2>2. call'[p] = r => Fits(call[p])'
    BY DEF Fits
  <2> QED BY <2>1, <2>2, Moves
<1>4. ASSUME NEW l \in Links, deleteLinkRead(p, l)
      PROVE  Goal
  <2> DEFINE r == [step |-> "clicks", link |-> l]
  <2>1. call' = [call EXCEPT ![p] = r] /\ r \in Call
    BY <1>4 DEF deleteLinkRead, Begin, Call
  <2>2. call'[p] = r => Fits(call[p])'
    BY DEF Fits
  <2> QED BY <2>1, <2>2, Moves
<1>5. ASSUME NEW l \in Links, captureRead(p, l)
      PROVE  Goal
  <2> DEFINE r == [step |-> "capture", link |-> l]
  <2>1. call' = [call EXCEPT ![p] = r] /\ r \in Call
    BY <1>5 DEF captureRead, Begin, Call
  <2>2. call'[p] = r => Fits(call[p])'
    BY DEF Fits
  <2> QED BY <2>1, <2>2, Moves
<1>6. ASSUME NEW u \in Users, deletionRead(p, u)
      PROVE  Goal
  <2> DEFINE r == [step |-> "list", user |-> u]
  <2>1. call' = [call EXCEPT ![p] = r] /\ r \in Call
    BY <1>6 DEF deletionRead, Begin, Call
  <2>2. call'[p] = r => Fits(call[p])'
    BY DEF Fits
  <2> QED BY <2>1, <2>2, Moves
<1>7. ASSUME NEW u \in Users, NEW k \in Keys, revokeKeyRead(p, u, k)
      PROVE  Goal
  <2> DEFINE r == [step |-> "revoke", key |-> k]
  <2>1. call' = [call EXCEPT ![p] = r] /\ r \in Call
    BY <1>7 DEF revokeKeyRead, Begin, Call
  <2>2. key[k].status # "none"
    BY <1>7 DEF revokeKeyRead, LiveKeys
  <2>3. call'[p] = r => Fits(call[p])'
    BY <1>u, <2>2 DEF Fits
  <2> QED BY <2>1, <2>3, Moves
<1> QED BY <1>1, <1>2, <1>3, <1>4, <1>5, <1>6, <1>7 DEF Start

\* A deletion goes on, and has forgotten no key.
LEMMA DeletionStep ==
  ASSUME KeyOK, CallOK, AllFit, Stable, NEW p \in Callers,
         \/ deletionListKeys(p) \/ deletionReadKey(p) \/ deletionRevokeKey(p)
         \/ deletionDisable(p) \/ deletionAnonymize(p)
  PROVE  CallOK' /\ AllFit'
<1> DEFINE Goal == CallOK' /\ AllFit'
<1>1. CASE deletionListKeys(p)
  <2> DEFINE keys == LiveKeys(call[p].user)
             r == [step |-> "keys", user |-> call[p].user, listed |-> keys, todo |-> keys,
                   key |-> None]
  <2>1. call[p].user \in Users /\ keys \subseteq Keys /\ key' = key
    BY <1>1, Listing DEF deletionListKeys, At, LiveKeys, account
  <2>2. \A k \in keys : key[k].status # "none"
    BY DEF LiveKeys
  <2>3. call' = [call EXCEPT ![p] = r]
    BY <1>1 DEF deletionListKeys
  <2> HIDE DEF keys
  <2>4. r \in Call
    BY <2>1 DEF Call
  <2>5. call'[p] = r => Fits(call[p])'
    BY <2>1, <2>2 DEF Fits
  <2> HIDE DEF r
  <2> QED BY <2>3, <2>4, <2>5, Moves
<1>2. CASE deletionReadKey(p)
  <2>1. call[p] \in Deletion /\ call[p].step = "keys" /\ Fits(call[p]) /\ key' = key
    BY <1>2, Deleting DEF deletionReadKey, At, AllFit, account
  <2>2. PICK k \in call[p].todo :
           IF key[k].status = "revoked" THEN call' = [call EXCEPT ![p] = Idle]
           ELSE call' = [call EXCEPT ![p].step = "key", ![p].todo = @ \ {k}, ![p].key = k]
    BY <1>2 DEF deletionReadKey, OnRevoked
  <2>3. CASE key[k].status = "revoked"
    BY <2>2, <2>3, Ends
  <2>4. CASE key[k].status # "revoked"
    <3> DEFINE r == [step |-> "key", user |-> call[p].user, listed |-> call[p].listed,
                     todo |-> call[p].todo \ {k}, key |-> k]
    <3>1. call' = [call EXCEPT ![p] = r]
      BY <2>1, <2>2, <2>4 DEF Deletion, CallOK
    <3>2. /\ k \in Keys /\ call[p].todo \subseteq Keys /\ call[p].listed \subseteq Keys
          /\ call[p].user \in Users /\ call[p].todo \subseteq call[p].listed
      BY <2>1, <2>2 DEF Deletion, Fits
    <3>3. r \in Call
      BY <3>2 DEF Call
    <3>4. call'[p] = r => Fits(call[p])'
      BY <2>1, <3>2 DEF Fits
    <3> HIDE DEF r
    <3> QED BY <3>1, <3>3, <3>4, Moves
  <2> QED BY <2>3, <2>4
<1>3. CASE deletionRevokeKey(p)
  <2>1. call[p] \in Deletion /\ call[p].step = "key" /\ Fits(call[p])
    BY <1>3, Deleting DEF deletionRevokeKey, At, AllFit
  <2>2. call[p].key \in Keys /\ key[call[p].key].status # "none"
    BY <2>1 DEF Deletion, Fits
  <2>3. key'[call[p].key].status = "revoked"
    BY <1>3, <2>2, KeyRevoked DEF deletionRevokeKey
  <2> DEFINE r == [call[p] EXCEPT !.step = "keys"]
  <2>4. call' = [call EXCEPT ![p] = r] /\ r \in Deletion
    BY <1>3, <2>1 DEF deletionRevokeKey, GoTo, Deletion
  <2>5. /\ r.step = "keys" /\ r.listed = call[p].listed /\ r.todo = call[p].todo
        /\ r.listed \subseteq Keys /\ r \in Call
    BY <2>1, <2>4 DEF Deletion, Call
  <2> HIDE DEF r
  <2>6. call'[p] = r => Fits(call[p])'
    BY <2>1, <2>3, <2>5 DEF Fits, Stable
  <2> QED BY <2>4, <2>5, <2>6, Moves
<1>4. CASE deletionDisable(p)
  <2>1. call[p] \in Deletion /\ call[p].step = "keys" /\ Fits(call[p]) /\ call[p].todo = {}
        /\ key' = key
    BY <1>4, Deleting DEF deletionDisable, At, AllFit, account
  <2> DEFINE r == [call[p] EXCEPT !.step = "anonymize"]
  <2>2. call' = [call EXCEPT ![p] = r] /\ r \in Deletion
    BY <1>4, <2>1 DEF deletionDisable, GoTo, Deletion
  <2>3. /\ r.step = "anonymize" /\ r.listed = call[p].listed /\ r.todo = {} /\ r \in Call
    BY <2>1, <2>2 DEF Deletion, Call
  <2> HIDE DEF r
  <2>4. call'[p] = r => Fits(call[p])'
    BY <2>1, <2>3 DEF Fits
  <2> QED BY <2>2, <2>3, <2>4, Moves
<1>5. CASE deletionAnonymize(p)
  BY <1>5, Ends DEF deletionAnonymize, Finish
<1> QED BY <1>1, <1>2, <1>3, <1>4, <1>5

\* Every step leaves the requests with what they rely on.
LEMMA FitStep ==
  ASSUME TrackingOK, KeyOK, CallOK, AllFit, [Next]_vars
  PROVE  CallOK' /\ AllFit'
<1>1. Stable
  BY TrackingStep, KeyStep DEF Stable
<1>2. ASSUME NEW p \in Callers, Start(p)
      PROVE  CallOK' /\ AllFit'
  <2>1. UNCHANGED <<tracking, account>>
    BY <1>2 DEF Start, generateUniqueLinkCode, createLinkCheck, updateLinkRead, deleteLinkRead,
                captureRead, deletionRead, revokeKeyRead
  <2> QED BY <1>1, <1>2, <2>1, StartStep
<1>3. ASSUME NEW p \in Callers, deleteLinkCheck(p)
      PROVE  CallOK' /\ AllFit'
  <2>1. CASE call[p].link \in clicked
    BY <1>1, <1>3, <2>1, Ends DEF deleteLinkCheck, Finish
  <2>2. CASE call[p].link \notin clicked
    <3> DEFINE r == [call[p] EXCEPT !.step = "remove"]
    <3>1. call[p] \in [step : {"clicks", "remove", "capture"}, link : Links]
      BY <1>3, OnLink DEF deleteLinkCheck, At
    <3>2. call' = [call EXCEPT ![p] = r] /\ r \in Call /\ r.step = "remove"
      BY <1>3, <2>2, <3>1 DEF deleteLinkCheck, GoTo, Call
    <3> HIDE DEF r
    <3>3. call'[p] = r => Fits(call[p])'
      BY <3>2 DEF Fits
    <3> QED BY <1>1, <3>2, <3>3, Moves
  <2> QED BY <2>1, <2>2
<1>4. ASSUME NEW p \in Callers,
             \/ joinInsert(p) \/ createLinkInsert(p) \/ updateLinkWrite(p)
             \/ deleteLinkRow(p) \/ captureInsert(p) \/ revokeKeyWrite(p) \/ Crash(p)
      PROVE  CallOK' /\ AllFit'
  <2>1. call' = [call EXCEPT ![p] = Idle]
    BY <1>4 DEF joinInsert, createLinkInsert, updateLinkWrite, deleteLinkRow, captureInsert,
                revokeKeyWrite, Crash, Finish
  <2> QED BY <1>1, <2>1, Ends
<1>5. ASSUME \/ \E u \in Users : changeMember(u) \/ \E k \in Keys : createApiKey(u, k)
             \/ UNCHANGED vars
      PROVE  CallOK' /\ AllFit'
  <2>1. call' = call
    BY <1>5 DEF changeMember, createApiKey, vars
  <2> QED BY <1>1, <2>1, Stays
<1> QED BY <1>1, <1>2, <1>3, <1>4, <1>5, DeletionStep DEF Next, Step

-----------------------------------------------------------------------------
(* The theorems.                                                           *)

Inv == TrackingOK /\ KeyOK /\ CallOK /\ AllFit /\ requests \in 0 .. MaxRequests

\* The invariant holds at first.
LEMMA InitInv ==
  ASSUME AffiliateAccountsAssumption, Init
  PROVE  Inv
<1>1. TrackingOK
  BY DEF Init, TrackingOK, MemberOK, LinkOK, LinkRow, Owned, ClicksKeepLink, OneLinkPerCode,
         Kept, NoLink
<1>2. KeyOK
  BY DEF Init, KeyOK, KeyRow
<1>3. CallOK /\ AllFit
  BY DEF Init, CallOK, AllFit, Fits, Call, Idle
<1>4. requests \in 0 .. MaxRequests
  BY DEF Init, AffiliateAccountsAssumption
<1> QED BY <1>1, <1>2, <1>3, <1>4 DEF Inv

\* Requests are counted up to their bound.
LEMMA Counted ==
  ASSUME AffiliateAccountsAssumption, requests \in 0 .. MaxRequests, [Next]_vars
  PROVE  requests' \in 0 .. MaxRequests
<1>1. requests' = requests \/ Request
  BY DEF Next, Start, Step, vars, generateUniqueLinkCode, createLinkCheck, updateLinkRead,
         deleteLinkRead, captureRead, deletionRead, revokeKeyRead, joinInsert, createLinkInsert,
         updateLinkWrite, deleteLinkCheck, deleteLinkRow, captureInsert, revokeKeyWrite,
         deletionListKeys, deletionReadKey, deletionRevokeKey, deletionDisable,
         deletionAnonymize, Crash, changeMember, createApiKey, Begin, Finish, GoTo
<1> QED BY <1>1 DEF Request, AffiliateAccountsAssumption

\* It holds always.
LEMMA Invariance == Spec => []Inv
<1>1. Init => Inv
  BY InitInv, AffiliateAccountsAssumption
<1>2. Inv /\ [Next]_vars => Inv'
  <2> SUFFICES ASSUME Inv, [Next]_vars
               PROVE  Inv'
    OBVIOUS
  <2>1. TrackingOK /\ KeyOK /\ CallOK /\ AllFit /\ requests \in 0 .. MaxRequests
    BY DEF Inv
  <2>2. TrackingOK' /\ KeyOK'
    BY <2>1, TrackingStep, KeyStep
  <2>3. CallOK' /\ AllFit'
    BY <2>1, FitStep
  <2>4. requests' \in 0 .. MaxRequests
    BY <2>1, Counted, AffiliateAccountsAssumption
  <2> QED BY <2>2, <2>3, <2>4 DEF Inv
<1> QED BY <1>1, <1>2, PTL DEF Spec

\* Members, links, keys and requests keep their types, and who has a link is a member.
THEOREM TypesHold == Spec => []TypeOK
<1>1. Inv => TypeOK
  BY DEF Inv, TrackingOK, MemberOK, LinkOK, LinkRow, KeptLink, Owned, KeyOK, KeyRow, CallOK, TypeOK
<1> QED BY <1>1, Invariance, PTL

\* However clicks and removals overlap, a link that was clicked stays.
THEOREM ClicksAreKept == Spec => []ClicksKeepLink
<1>1. Inv => ClicksKeepLink
  BY DEF Inv, TrackingOK
<1> QED BY <1>1, Invariance, PTL

\* However joins and new links overlap, a code names one link.
THEOREM CodesAreUnique == Spec => []OneLinkPerCode
<1>1. Inv => OneLinkPerCode
  BY DEF Inv, TrackingOK
<1> QED BY <1>1, Invariance, PTL

\* However revocations and deletions overlap, an account is anonymized after the keys
\* that its deletion found.
THEOREM NoKeyIsForgotten == Spec => []KeysDieFirst
<1>1. Inv => KeysDieFirst
  BY DEF Inv, AllFit, Fits, KeysDieFirst, At
<1> QED BY <1>1, Invariance, PTL

=============================================================================

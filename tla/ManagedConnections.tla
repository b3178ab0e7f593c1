------------------------- MODULE ManagedConnections -------------------------
(***************************************************************************)
(* The installations of one managed provider: provisioning, credential     *)
(* generations, the lifecycle of a connection and its final redaction.     *)
(*                                                                         *)
(* The three keys of a generation are issued and revoked together, so      *)
(* "revoked" holds generations.  The managed account is redacted with its  *)
(* connection and in no other way, so its status is not kept apart.  The   *)
(* provider keeps the newest bundle it was answered and acknowledges only  *)
(* what it keeps (docs/architecture.md:73).  A website is optional in a    *)
(* provisioning request, and nothing ties it to the account.  That the     *)
(* website of a connected app is changed by hand (updateAppWebsiteUrl) is  *)
(* left out.                                                               *)
(***************************************************************************)
EXTENDS Naturals, FiniteSets

CONSTANTS
    Conns,        \* rows of managed_connections, each with its own app
    Accounts,     \* external accounts of the provider
    InstallKeys,  \* idempotency keys
    Sites,        \* the tracking origins of the websites the requests of an account
                  \* send, with None for a request without website
    Callers,      \* requests in flight at the same time
    MaxVersion,   \* bound: credential generations of a connection
    None

ASSUME ManagedAssumption ==
    /\ None \notin Conns \cup Accounts \cup InstallKeys
    /\ MaxVersion \in Nat \ {0}

VARIABLES
    conn,     \* managed_connections, with the tracking origin of its app
    revoked,  \* the credential generations whose api_keys are revoked
    held,     \* the newest generation the provider persisted, 0 for none
    call      \* the requests in flight
vars == <<conn, revoked, held, call>>

Live == {"active", "suspended", "uninstalled"}
NoRow == [status |-> "none", key |-> None, account |-> None, site |-> None,
          version |-> 0, pending |-> FALSE]
Idle == [step |-> "idle"]

Init ==
    /\ conn = [c \in Conns |-> NoRow]
    /\ revoked = [c \in Conns |-> {}]
    /\ held = [c \in Conns |-> 0]
    /\ call = [p \in Callers |-> Idle]

IsLive(c) == conn[c].status \in Live
At(p, step) == call[p].step = step
Finish(p) == call' = [call EXCEPT ![p] = Idle]

\* provisionResponse: the pending bundle, or no credentials (0).
Answer(c, row) == [step |-> "answer", conn |-> c,
                   version |-> IF row.pending THEN row.version ELSE 0]

-----------------------------------------------------------------------------
(* Provisioning.                                                           *)

Provision(p, x, s, k) ==
    /\ call[p] = Idle
    /\ call' = [call EXCEPT ![p] = [step |-> "byKey", account |-> x, site |-> s, key |-> k,
                                    conn |-> None, again |-> FALSE]]
    /\ UNCHANGED <<conn, revoked, held>>

\* What provisionExistingConnection does next with the row it was handed.
Continue(p, c) ==
    CASE conn[c].key # call[p].key    -> [call[p] EXCEPT !.step = "reissue", !.conn = c]
      [] conn[c].key = call[p].key /\ conn[c].status = "active" -> Answer(c, conn[c])
      [] OTHER                        -> [call[p] EXCEPT !.step = "revive", !.conn = c]
UseUnchecked(p, c, kind) ==                                         \* mutant
    IF conn[c].status = "redacted" THEN Idle ELSE Continue(p, c)
UseExisting(p, c, kind) ==
    IF conn[c].status = "redacted" \/ (kind = "idempotency" /\ conn[c].account # call[p].account)
    THEN Idle
    ELSE Continue(p, c)

\* findConnectionForProvisioning reads three times: by idempotency key, by
\* external account, by tracking origin.  A second search that finds nothing fails.
Find(p, step, Matches, kind, next) ==
    /\ At(p, step)
    /\ \/ \E c \in Matches : call' = [call EXCEPT ![p] = UseExisting(p, c, kind)]
       \/ Matches = {} /\ call' = [call EXCEPT ![p] = next]
    /\ UNCHANGED <<conn, revoked, held>>

SameSite(p) == {c \in Conns : call[p].site # None /\ conn[c].site = call[p].site}
findByKey(p) ==
    Find(p, "byKey", {c \in Conns : conn[c].key = call[p].key}, "idempotency",
         [call[p] EXCEPT !.step = "byAccount"])
findByAccount(p) ==
    Find(p, "byAccount", {c \in Conns : conn[c].account = call[p].account}, "account",
         [call[p] EXCEPT !.step = "bySite"])
findByOrigin(p) ==
    Find(p, "bySite", SameSite(p), "site",
         IF call[p].again THEN Idle ELSE [call[p] EXCEPT !.step = "create"])

\* managed_connections_provider_provisioning_idempotency_unique and the unique
\* tracking origin of apps.
TakenByKey(p) == \E c \in Conns : conn[c].key = call[p].key         \* mutant
Taken(p) == SameSite(p) # {} \/ \E c \in Conns : conn[c].key = call[p].key

createConnection(p, c) ==
    /\ At(p, "create")
    /\ conn[c].status = "none"
    /\ ~Taken(p)
    /\ conn' = [conn EXCEPT ![c] =
                   [status |-> "active", key |-> call[p].key, account |-> call[p].account,
                    site |-> call[p].site, version |-> 1, pending |-> TRUE]]
    /\ call' = [call EXCEPT ![p] = Answer(c, conn'[c])]
    /\ UNCHANGED <<revoked, held>>

createRefused(p) ==
    /\ At(p, "create")
    /\ Taken(p)
    /\ call' = [call EXCEPT ![p].step = "byKey", ![p].again = TRUE]
    /\ UNCHANGED <<conn, revoked, held>>

\* The transaction of a new installation generation: a pending bundle is given
\* again, else a new generation is issued; the older ones stay valid.
RevokeOnIssue(c) == revoked' = [revoked EXCEPT ![c] = 1..conn[c].version]    \* mutant
KeepOlderKeys(c) == UNCHANGED revoked
reissue(p) ==
    /\ At(p, "reissue")
    /\ LET c == call[p].conn
           k == call[p].key
       IN  IF IsLive(c) /\ \A d \in Conns \ {c} : conn[d].key # k
           THEN /\ conn[c].pending \/ conn[c].version < MaxVersion
                /\ conn' = [conn EXCEPT
                      ![c].key = k, ![c].account = call[p].account, ![c].status = "active",
                      ![c].version = IF conn[c].pending THEN @ ELSE @ + 1, ![c].pending = TRUE]
                /\ call' = [call EXCEPT ![p] = Answer(c, conn'[c])]
                /\ KeepOlderKeys(c)
           ELSE Finish(p) /\ UNCHANGED <<conn, revoked>>
    /\ UNCHANGED held

\* The same installation comes back: a conditional update, or a new search.
reviveByStatusRead(p) ==                                            \* mutant
    /\ At(p, "revive")
    /\ LET c == call[p].conn
       IN  /\ conn' = [conn EXCEPT ![c].status = "active"]
           /\ call' = [call EXCEPT ![p] = Answer(c, conn'[c])]
    /\ UNCHANGED <<revoked, held>>
revive(p) ==
    /\ At(p, "revive")
    /\ LET c == call[p].conn
       IN  IF conn[c].status \in {"suspended", "uninstalled"}
           THEN /\ conn' = [conn EXCEPT ![c].status = "active"]
                /\ call' = [call EXCEPT ![p] = Answer(c, conn'[c])]
           ELSE /\ call' = [call EXCEPT ![p].step = "byKey", ![p].again = TRUE]
                /\ UNCHANGED conn
    /\ UNCHANGED <<revoked, held>>

-----------------------------------------------------------------------------
(* Credentials.                                                            *)

\* The provider persists the bundle of an answer, unless it has a newer one.
Persist(p) ==
    /\ At(p, "answer")
    /\ LET c == call[p].conn
       IN  held' = [held EXCEPT ![c] = IF call[p].version > @ THEN call[p].version ELSE @]
    /\ Finish(p)
    /\ UNCHANGED <<conn, revoked>>

\* The acknowledgement names the generation the provider holds when it sends it.
SendAckUnpersisted(p, c) ==                                        \* mutant
    /\ call[p] = Idle
    /\ conn[c].pending
    /\ call' = [call EXCEPT ![p] = [step |-> "ack", conn |-> c, version |-> held[c]]]
    /\ UNCHANGED <<conn, revoked, held>>
SendAck(p, c) ==
    /\ call[p] = Idle
    /\ held[c] > 0
    /\ call' = [call EXCEPT ![p] = [step |-> "ack", conn |-> c, version |-> held[c]]]
    /\ UNCHANGED <<conn, revoked, held>>

ackAnyGeneration(p) ==                                              \* mutant
    /\ At(p, "ack")
    /\ LET c == call[p].conn
       IN  IF IsLive(c) /\ conn[c].pending
           THEN /\ revoked' = [revoked EXCEPT ![c] = 1..(conn[c].version - 1)]
                /\ conn' = [conn EXCEPT ![c].pending = FALSE]
           ELSE UNCHANGED <<conn, revoked>>
    /\ Finish(p)
    /\ UNCHANGED held
acknowledgeManagedCredentials(p) ==
    /\ At(p, "ack")
    /\ LET c == call[p].conn
       IN  IF IsLive(c) /\ call[p].version = conn[c].version /\ conn[c].pending
           THEN /\ revoked' = [revoked EXCEPT ![c] = 1..(conn[c].version - 1)]
                /\ conn' = [conn EXCEPT ![c].pending = FALSE]
           ELSE UNCHANGED <<conn, revoked>>
    /\ Finish(p)
    /\ UNCHANGED held

-----------------------------------------------------------------------------
(* Requests authenticated by the management key the provider holds.        *)

\* requireManagedKey: the key is not revoked, its account is not redacted.
Authenticated(c) == IsLive(c) /\ held[c] > 0 /\ held[c] \notin revoked[c]

Manage(p, c, op) ==
    /\ call[p] = Idle
    /\ Authenticated(c)
    /\ call' = [call EXCEPT ![p] = [step |-> op, conn |-> c]]
    /\ UNCHANGED <<conn, revoked, held>>

rotateManagedCredentials(p) ==
    /\ At(p, "rotate")
    /\ LET c == call[p].conn
       IN  IF IsLive(c)
           THEN /\ conn[c].pending \/ conn[c].version < MaxVersion
                /\ conn' = [conn EXCEPT ![c].version = IF conn[c].pending THEN @ ELSE @ + 1,
                                        ![c].pending = TRUE]
                /\ call' = [call EXCEPT ![p] = Answer(c, conn'[c])]
                /\ KeepOlderKeys(c)
           ELSE Finish(p) /\ UNCHANGED <<conn, revoked>>
    /\ UNCHANGED held

Targets == {"suspended", "active", "uninstalled"}
From(to) == CASE to = "suspended"   -> {"active"}
              [] to = "active"      -> {"suspended", "uninstalled"}
              [] to = "uninstalled" -> {"active", "suspended"}

\* transitionManagedConnection reads the status and then updates under a
\* condition on it.
transitionRead(p, to) ==
    /\ At(p, to)
    /\ LET c == call[p].conn
       IN  call' = [call EXCEPT ![p] = IF conn[c].status \in From(to)
                                       THEN [step |-> "write", conn |-> c, to |-> to]
                                       ELSE Idle]
    /\ UNCHANGED <<conn, revoked, held>>

transitionWrite(p) ==
    /\ At(p, "write")
    /\ LET c == call[p].conn
       IN  conn' = [conn EXCEPT ![c].status = IF @ \in From(call[p].to) THEN call[p].to ELSE @]
    /\ Finish(p)
    /\ UNCHANGED <<revoked, held>>

\* redactManagedConnection; again for a connection that is redacted is a replay.
redactManagedConnection(p) ==
    /\ At(p, "redact")
    /\ LET c == call[p].conn
       IN  /\ conn' = [conn EXCEPT ![c].status = "redacted", ![c].account = None,
                                   ![c].site = None, ![c].pending = FALSE]
           /\ revoked' = [revoked EXCEPT ![c] = 1..conn[c].version]
    /\ Finish(p)
    /\ UNCHANGED held

\* A request ends without effect, or its answer is lost, at any point.
Crash(p) ==
    /\ call[p] # Idle
    /\ Finish(p)
    /\ UNCHANGED <<conn, revoked, held>>

Next == \E p \in Callers :
    \/ \E x \in Accounts, k \in InstallKeys : \E s \in Sites[x] : Provision(p, x, s, k)
    \/ findByKey(p) \/ findByAccount(p) \/ findByOrigin(p)
    \/ \E c \in Conns : createConnection(p, c)
    \/ createRefused(p) \/ reissue(p) \/ revive(p)
    \/ Persist(p)
    \/ \E c \in Conns : SendAck(p, c)
    \/ acknowledgeManagedCredentials(p)
    \/ \E c \in Conns, op \in Targets \cup {"rotate", "redact"} : Manage(p, c, op)
    \/ rotateManagedCredentials(p)
    \/ \E to \in Targets : transitionRead(p, to)
    \/ transitionWrite(p)
    \/ redactManagedConnection(p)
    \/ Crash(p)

Spec == Init /\ [][Next]_vars

-----------------------------------------------------------------------------
(* Properties.                                                             *)

Origins == {None} \cup UNION {Sites[x] : x \in Accounts}
Row == [status : Live \cup {"none", "redacted"}, key : InstallKeys \cup {None},
        account : Accounts \cup {None}, site : Origins,
        version : 0..MaxVersion, pending : BOOLEAN]
Call == {Idle}
    \cup [step : {"byKey", "byAccount", "bySite", "create", "reissue", "revive"},
          account : Accounts, site : Origins, key : InstallKeys, conn : Conns \cup {None},
          again : BOOLEAN]
    \cup [step : {"answer"}, conn : Conns, version : 0..MaxVersion]
    \cup [step : {"ack"}, conn : Conns, version : 1..MaxVersion]
    \cup [step : Targets \cup {"rotate", "redact"}, conn : Conns]
    \cup [step : {"write"}, conn : Conns, to : Targets]

\* The types of the variables.
TypeOK ==
    /\ conn \in [Conns -> Row]
    /\ revoked \in [Conns -> SUBSET (1..MaxVersion)]
    /\ held \in [Conns -> 0..MaxVersion]
    /\ call \in [Callers -> Call]

\* A provider is never locked out: whatever is lost or interleaved, a connection
\* that is not redacted has keys the provider persisted and RefKit still accepts,
\* or a bundle of keys that still work and that provisioning gives out again.
NeverLockedOut == \A c \in Conns :
    conn[c].status \in {"active", "suspended", "uninstalled"} =>
        \/ conn[c].pending /\ conn[c].version \notin revoked[c]
        \/ held[c] > 0 /\ held[c] \notin revoked[c]

\* A generation is revoked only by redaction, or when the provider holds a newer
\* one that works ("Credential rotation keeps the previous generation valid until
\* the new bundle is acknowledged", docs/architecture.md:73).
RevokedOnlyWhenReplaced == [][
    \A c \in Conns : \A g \in revoked'[c] \ revoked[c] :
        \/ conn'[c].status = "redacted"
        \/ held[c] > g /\ held[c] \notin revoked'[c]]_vars

\* Redaction is final: no request that authenticated or read the row before it
\* brings the connection, its account or one of its keys back.
RedactionIsFinal == [][
    \A c \in Conns : conn[c].status = "redacted" =>
        /\ conn'[c] = conn[c]
        /\ 1..conn[c].version \subseteq revoked'[c]]_vars

\* The answer to a provisioning request never carries the credentials of an
\* installation that belongs to another external account, unless its app has a
\* website that the account sends too: the code takes the two for one installation
\* (managed-connections/index.ts:221-244), and the reused key of another one, a
\* retry or a hand-over in between gives nothing else away.
NoForeignCredentials == [][
    \A p \in Callers :
        (call[p].step \in {"byKey", "byAccount", "bySite", "create", "reissue", "revive"}
            /\ call'[p].step = "answer")
        => \/ conn'[call'[p].conn].account = call[p].account
           \/ conn'[call'[p].conn].site \in Sites[call[p].account] \ {None}]_vars

\* An account whose requests always send one and the same website has at most
\* one app that is not redacted, however its requests overlap and whatever the
\* other accounts send.  docs/architecture.md:187 promises it of every account; one
\* whose requests send no website, or not always, may get two.  So may one whose app
\* is moved to another website by hand while a second request is about to create.
OneAppPerAccount == \A c, d \in Conns :
    (/\ c # d /\ conn[c].account # None
     /\ \E s \in Origins \ {None} : Sites[conn[c].account] = {s})
    => conn[c].account # conn[d].account
=============================================================================

----------------------------- MODULE ApiAccess -----------------------------
(***************************************************************************)
(* One request to the API, from its arrival to the rows it touches, while   *)
(* credentials are revoked and the managed connection changes.              *)
(*                                                                         *)
(* A request is a credential, a handler and up to two ids.  The credential  *)
(* is looked up, then the managed connection it stands for, then the        *)
(* service function checks the first id, and only then rows are touched:    *)
(* each is a read or write of its own, and anything may change in between.  *)
(* Requests meet in what they write, which other modules model; here one at *)
(* a time is enough, and what others do to credentials and to the           *)
(* connection is the environment.                                           *)
(***************************************************************************)
EXTENDS Naturals, ApiClients

CONSTANTS
    Apps,          \* apps; an id stands for the app that its row belongs to
    Users,
    OrgOf,         \* the organization of an app
    Affiliated,    \* program_affiliates, pairs of a user and an app
    ManagedApp,    \* the app of the managed account
    Credentials,   \* what a caller may send, see CredentialRecord
    MaxChanges,    \* bound: revocations and transitions
    Null

CredentialRecord ==
    [type : {"session", "app", "affiliate", "managed", "provider", "stripe", "none"},
     user : Users \cup {Null},     \* of a session or key
     orgs : SUBSET {OrgOf[a] : a \in Apps},   \* memberships, or the key's organization
     app : Apps \cup {Null},       \* the scope of a key
     test : BOOLEAN, admin : BOOLEAN]

ASSUME ApiAccessAssumption ==
    /\ ManagedApp \in Apps
    /\ Null \notin Apps \cup Users
    /\ Affiliated \subseteq Users \X Apps
    /\ Credentials \subseteq CredentialRecord
    /\ \A c \in Credentials : c.type = "managed" => c.app = ManagedApp
    /\ MaxChanges \in Nat

VARIABLES
    live,         \* the credentials that are not revoked or signed out
    connection,   \* managed_connections.status
    call,         \* the request
    changes
apiVars == <<live, connection, call, changes>>

Statuses == {"active", "suspended", "uninstalled", "redacted"}
NoRequest == [step |-> "idle"]

ApiInit ==
    /\ live = Credentials
    /\ connection = "active"
    /\ call = NoRequest
    /\ changes = 0

\* The management key and the revenue keys of the managed account.
Managed(c) == c.type \in {"managed", "app"} /\ c.app = ManagedApp

\* A row belongs to an app, to a user, or to a user as an affiliate of an app.  Clicks,
\* payments and memberships are of one mode; customers, the app and what it shows to
\* everybody are of both.
Modes == {"live", "test"}
ModeOf(c) == IF c.test THEN "test" ELSE "live"
Rows ==
    {[app |-> a, user |-> Null, mode |-> m, table |-> t] :
        a \in Apps, m \in Modes, t \in {"clicks", "payments"}}
    \cup {[app |-> a, user |-> Null, mode |-> "both", table |-> t] :
              a \in Apps, t \in {"customers", "pages"}}
    \cup {[app |-> Null, user |-> u, mode |-> "both", table |-> "accounts"] : u \in Users}
    \cup {[app |-> x[2], user |-> x[1], mode |-> m, table |-> "affiliates"] :
              x \in Affiliated, m \in Modes}
RowsOf(table) == {r \in Rows : r.table = table}
RowsOfApps(S) == {r \in Rows : r.app \in S}
RowsOfUser(u) == {r \in Rows : u # Null /\ r.user = u}

-----------------------------------------------------------------------------
(* Admission.                                                              *)

\* A request with any credential to any handler, with any two ids.
Arrive(c, r, a, b) ==
    /\ call = NoRequest
    /\ call' = [step |-> "credential", by |-> c, route |-> r, a |-> a, b |-> b,
                wasLive |-> c \in live, seen |-> IF Managed(c) THEN {connection} ELSE {},
                revoked |-> FALSE, status |-> Null, reach |-> Open]
    /\ UNCHANGED <<live, connection, changes>>

Refuse(why) ==
    call' = [step |-> "refused", why |-> why,
             asked |-> IF why = "type" THEN [type |-> call.by.type, route |-> call.route] ELSE Null]
GoTo(step) == call' = [call EXCEPT !.step = step]

\* findApiKeyByRawKey finds no revoked key; for the deletion of a connection it
\* does, if the key is one of that connection.
RevokedToo(c) == TRUE                                               \* mutant
findApiKeyByRawKey(c) == c \in live
Found(auth, c) ==
    CASE auth.via = "request" -> c.type \in authenticateRequest.types /\ findApiKeyByRawKey(c)
      [] auth.via = "session" -> c.type = "session" /\ c \in live
      [] auth.via = "deletion" -> c.type = "managed" /\ call.a = ManagedApp
      [] auth.via = "key if any" -> c.type = "none" \/ findApiKeyByRawKey(c)
      [] OTHER -> TRUE
findCredential ==
    /\ call.step = "credential"
    /\ LET auth == call.route.auth
       IN  IF ~Found(auth, call.by) THEN Refuse("credential")
           ELSE IF Managed(call.by) /\ auth.via \in {"request", "deletion", "key if any"}
                THEN call' = [call EXCEPT !.step = "connection", !.revoked = call.by \notin live]
                ELSE GoTo("type")
    /\ UNCHANGED <<live, connection, changes>>

\* getManagedConnectionForApiKey: a management key serves any connection that is
\* not redacted, a revenue key an active one, and the deletion is replayed.
getManagedConnectionForApiKey ==
    /\ call.step = "connection"
    /\ IF \/ (call.by.type = "app" /\ connection = "active")
          \/ (call.by.type = "managed" /\ ~call.revoked /\ connection # "redacted")
          \/ (call.route.auth.via = "deletion" /\ call.revoked /\ connection = "redacted")
       THEN call' = [call EXCEPT !.step = "type", !.status = connection]
       ELSE Refuse("connection")
    /\ UNCHANGED <<live, connection, changes>>

\* The rest of the functions of auth-context reads nothing.
IsAdmitted(auth, c) ==
    CASE auth.narrow = "admin" -> c.admin
      [] auth.narrow = "live and app-scoped" -> c.app # Null /\ ~c.test
      [] auth.narrow = "app-scoped" -> c.type = "none" \/ c.app # Null
      [] OTHER -> TRUE
admit ==
    /\ call.step = "type"
    /\ LET auth == call.route.auth
           c == call.by
       IN  IF c.type \notin auth.types THEN Refuse("type")
           ELSE IF \/ (auth.active /\ c.type = "managed" /\ call.status # "active")
                      \/ ~IsAdmitted(auth, c)
                THEN Refuse("context")
                ELSE GoTo("service")
    /\ UNCHANGED <<live, connection, changes>>

-----------------------------------------------------------------------------
(* The checks of the service functions.                                    *)

\* getOrganizationMembership and requireAppAccess: a managed account stands for
\* its app while it is not redacted.
requireOrganizationMembership(c, a) ==
    IF c.type = "managed" THEN OrgOf[a] = OrgOf[ManagedApp] /\ connection # "redacted"
    ELSE OrgOf[a] \in c.orgs
requireAppAccess(c, a) ==
    IF c.type = "managed" THEN a = ManagedApp /\ connection # "redacted"
    ELSE OrgOf[a] \in c.orgs
requireProgramAffiliate(c, a) == <<c.user, a>> \in Affiliated
resolveProgramListAccess(c, a) == requireAppAccess(c, a) \/ requireProgramAffiliate(c, a)
requireManagedConnectionAccess(c, a) == a = ManagedApp /\ connection # "redacted"

\* A key of one app stands for that app, one of an organization for all of its apps.
resolveAppScope(c, a) == IF c.app # Null THEN a = c.app ELSE OrgOf[a] \in c.orgs
\* A browser says whose page it is on.
resolveCaptureAppId(c, a) == c.type = "none" \/ a = c.app

Passes(check, c, a) ==
    CASE check = "requireOrganizationMembership" -> requireOrganizationMembership(c, a)
      [] check = "requireAppAccess" -> requireAppAccess(c, a)
      [] check = "requireProgramAffiliate" -> requireProgramAffiliate(c, a)
      [] check = "resolveProgramListAccess" -> resolveProgramListAccess(c, a)
      [] check = "requireManagedConnectionAccess" -> requireManagedConnectionAccess(c, a)
      [] check = "requireManagedConnectionAccess unless redacted" ->
            call.status = "redacted" \/ requireManagedConnectionAccess(c, a)
      [] check = "resolveAppScope" -> resolveAppScope(c, a)
      [] check = "resolveCaptureAppId" -> resolveCaptureAppId(c, a)
      [] check \in {"requireExecutionForApp", "findApiPaymentForAuth"} -> a = c.app
      [] OTHER -> TRUE

service ==
    /\ call.step = "service"
    /\ \E s \in call.route.serves :
          /\ call.by.type \in s.types
          /\ IF Passes(s.reach.check, call.by, call.a)
             THEN call' = [call EXCEPT !.step = "query", !.reach = s.reach]
             ELSE Refuse("scope")
    /\ UNCHANGED <<live, connection, changes>>

\* The handler serves other kinds of caller only.
serveNobody ==
    /\ call.step = "service"
    /\ \A s \in call.route.serves : call.by.type \notin s.types
    /\ Refuse("type")
    /\ UNCHANGED <<live, connection, changes>>

-----------------------------------------------------------------------------
(* The rows, but for those that a check reads to decide.                    *)

\* A row named by the second id is looked up under a condition on the first.
AnySecond(a, b) == TRUE                                             \* mutant
BelongsTo(a, b) == b = a
SameMode(c, r) == r.mode \in {ModeOf(c), "both"}

Touched(reach, c, a, b) ==
    LET second == IF BelongsTo(a, b) THEN {b} ELSE {}
    IN  CASE reach.rows = "all" -> Rows
          [] reach.rows = "user" -> RowsOfUser(c.user)
          [] reach.rows = "app" -> RowsOfApps({a})
          [] reach.rows = "organization" -> RowsOfApps({x \in Apps : OrgOf[x] = OrgOf[a]})
          [] reach.rows = "second in organization" ->
                IF OrgOf[b] = OrgOf[a] THEN RowsOfApps({b}) ELSE {}
          [] reach.rows = "second" -> RowsOfApps(second)
          [] reach.rows = "membership" -> {r \in RowsOfApps({a}) : r.user = c.user}
          [] reach.rows = "second membership" -> {r \in RowsOfApps(second) : r.user = c.user}
          [] reach.rows = "readable" ->
                IF requireAppAccess(c, a) THEN RowsOfApps({a})
                ELSE {r \in RowsOfApps({a}) : r.user = c.user}
          [] reach.rows = "mode" -> {r \in RowsOfApps({a}) : SameMode(c, r)}
          [] reach.rows = "mode second" -> {r \in RowsOfApps(second) : SameMode(c, r)}
          [] reach.rows = "managed" -> RowsOfApps({ManagedApp})
          [] reach.rows = "clicks" ->
                IF a = ManagedApp /\ connection \notin {"active", "suspended"} THEN {}
                ELSE RowsOfApps({a}) \cap RowsOf("clicks")
          [] reach.rows \in {"pages", "accounts"} -> RowsOf(reach.rows)
          [] OTHER -> {}

query ==
    /\ call.step = "query"
    /\ call' = [step |-> "done", by |-> call.by, route |-> call.route, wasLive |-> call.wasLive,
                seen |-> call.seen, touched |-> Touched(call.reach, call.by, call.a, call.b)]
    /\ UNCHANGED <<live, connection, changes>>

finish ==
    /\ call.step \in {"refused", "done"}
    /\ call' = NoRequest
    /\ UNCHANGED <<live, connection, changes>>

-----------------------------------------------------------------------------
(* Meanwhile.                                                              *)

Change == changes < MaxChanges /\ changes' = changes + 1
Watched(status) ==
    IF call.step \notin {"idle", "refused", "done"} /\ Managed(call.by)
    THEN [call EXCEPT !.seen = @ \cup {status}] ELSE call

\* A key is revoked, a session signed out.
Revoke(c) ==
    /\ Change
    /\ c \in live /\ c.type \in {"session", "app", "affiliate", "managed"}
    /\ live' = live \ {c}
    /\ UNCHANGED <<connection, call>>

\* Suspended, reconnected or uninstalled; and redacted with all its keys.
Transition(status) ==
    /\ Change
    /\ connection \notin {status, "redacted"}
    /\ ~(connection = "uninstalled" /\ status = "suspended")
    /\ connection' = status
    /\ live' = IF status = "redacted" THEN {c \in live : ~Managed(c)} ELSE live
    /\ call' = Watched(status)

-----------------------------------------------------------------------------

\* Ids that a handler does not take are Null.
Ids(r, isTaken(_)) == IF \E s \in r.serves : isTaken(s.reach) THEN Apps ELSE {Null}
TakesFirst(reach) == reach.check # "nothing"
TakesSecond(reach) ==
    reach.rows \in {"second", "second membership", "second in organization", "mode second"}

ApiNext ==
    \/ \E c \in Credentials, r \in Handlers :
          \E a \in Ids(r, TakesFirst), b \in Ids(r, TakesSecond) : Arrive(c, r, a, b)
    \/ findCredential \/ getManagedConnectionForApiKey \/ admit
    \/ service \/ serveNobody \/ query \/ finish
    \/ \E c \in Credentials : Revoke(c)
    \/ \E s \in Statuses : Transition(s)

ApiSpec == ApiInit /\ [][ApiNext]_apiVars

-----------------------------------------------------------------------------
(* Properties.                                                             *)

\* What a credential stands for: an owner's session the apps of the organizations
\* and what is the user's own, an affiliate key the latter, an app key the rows of its
\* app or organization that are of its mode or of both, a management key its app.
StandsFor(c) ==
    IF c.admin \/ c.type = "stripe" THEN Rows ELSE
    CASE c.type = "session" ->
            RowsOfUser(c.user) \cup RowsOfApps({a \in Apps : OrgOf[a] \in c.orgs})
      [] c.type = "affiliate" -> RowsOfUser(c.user)
      [] c.type = "app" ->
            {r \in RowsOfApps({a \in Apps : c.app = a \/ (c.app = Null /\ OrgOf[a] \in c.orgs)}) :
                r.mode \in {ModeOf(c), "both"}}
      [] c.type \in {"managed", "provider"} -> RowsOfApps({ManagedApp})
      [] OTHER -> {}

\* What a handler does for whoever asks, with whatever credential: show the listed apps
\* and the join pages, and write the account of the email it is given.
ForAnybody(h) ==
    {r \in Rows :
        \/ /\ r.table = "pages"
           /\ h \in {GET_network_apps, GET_join_programSlug, POST_join_programSlug}
        \/ /\ r.table = "accounts"
           /\ h \in {POST_join_programSlug, POST_auth_register, POST_self_hosted_setup}}
\* Capture adds clicks of either mode: a key's to its own app, a browser's to any app.
Capturable(h, c) ==
    IF h = POST_capture THEN {r \in RowsOf("clicks") : c.type = "none" \/ r.app = c.app} ELSE {}

\* Whatever ids a request names, the rows it reads or writes are rows that its
\* credential stands for: the check of each handler, of the service function it
\* calls and of the query that takes the second id leave nothing else (API routes,
\* scoping.ts).  Two things go further, and are stated in full: what is for anybody,
\* and clicks, which keep to the app of a key but not to its mode
\* (capture/route.ts:72-80, clicks/index.ts:206-222).
OnlyOwnRows ==
    call.step = "done" =>
        call.touched \subseteq
            StandsFor(call.by) \cup ForAnybody(call.route) \cup Capturable(call.route, call.by)

\* The routes that administer the connection itself and its data subjects.
AdministersConnection ==
    {POST_managed_connections_id_credentials_rotate, POST_managed_connections_id_suspend,
     POST_managed_connections_id_reconnect, POST_managed_connections_id_uninstall,
     DELETE_managed_connections_id, POST_managed_data_subjects_export,
     POST_managed_data_subjects_redact}

\* Whether the credential of a request had a part in what it touched.
ByCredential == call.step = "done" /\ ~(call.touched \subseteq ForAnybody(call.route))

\* A managed connection that was not active at any moment of a request lets it do
\* nothing but administer the connection, with whichever of its keys it comes, and
\* what anybody may (assertManagedConnectionIsActive and the callers that must not
\* forget it).
InactiveIsSilent ==
    ByCredential /\ Managed(call.by) /\ "active" \notin call.seen =>
        call.by.type = "managed" /\ call.route \in AdministersConnection

\* A credential that was revoked before the request arrived touches nothing but what
\* anybody may; the one exception is the repeated deletion of a connection that is
\* redacted (findApiKeyByRawKey, requireManagedConnectionDeleteKey).
RevokedIsRefused ==
    ByCredential /\ ~call.wasLive =>
        call.route = DELETE_managed_connections_id /\ connection = "redacted"

\* No command and no tool asks a handler that does not take the kind of credential
\* it sends: the programs and the API agree on who may call what (commands of the
\* command line, tools of the MCP server).
ClientsAdmitted ==
    call.step = "refused" /\ call.why = "type" => call.asked \notin ClientCalls

=============================================================================

------------------------- MODULE StripeConnections -------------------------
(***************************************************************************)
(* How Stripe accounts are bound to apps, and which revenue an app accepts. *)
(*                                                                         *)
(* No handler of the install runs in a transaction: each read and each      *)
(* write is a step of its own, and a request may die between two of them.   *)
(* One user installs for an app, so a pending install is kept per app.  A   *)
(* link and its pending install last 15 minutes; of the times of rows only  *)
(* this is kept, and which authorizations are older than a pending install  *)
(* by more than the minute of skew.                                        *)
(***************************************************************************)
EXTENDS Naturals

CONSTANTS
    Apps,
    Accounts,  \* Stripe accounts
    Modes,     \* livemode: a subset of BOOLEAN
    UserOf,    \* the user who installs for an app
    Reach,     \* the accounts which that user can choose in Stripe
    Callers,   \* requests in flight at the same time
    MaxRequests,  \* bound: requests, webhooks and lapses of time
    None

ASSUME StripeConnectionsAssumption ==
    /\ None \notin Apps \cup Accounts \cup Callers
    /\ Modes \subseteq BOOLEAN /\ TRUE \in Modes
    /\ DOMAIN UserOf = Apps
    /\ MaxRequests \in Nat
    /\ Reach \in [Apps -> SUBSET Accounts]

VARIABLES
    conn,     \* stripe_connections, by their unique app and livemode
    auth,     \* stripe_app_authorizations, by their unique account
    pending,  \* pending_stripe_installs, by app
    started,  \* the apps and livemodes of the install links handed out
    source,   \* apps.revenue_source
    revenue,  \* the sources of the live payments of an app
    call,     \* the requests in flight
    requests
vars == <<conn, auth, pending, started, source, revenue, call, requests>>
install == <<conn, auth, pending, started>>
money == <<source, revenue>>

Idle == [step |-> "idle"]
NoConn == [account |-> None, status |-> "none"]
NoAuth == [status |-> "none", mode |-> TRUE]
NoPending == [status |-> "none", mode |-> TRUE, missed |-> {}]

Init ==
    /\ conn = [a \in Apps |-> [m \in Modes |-> NoConn]]
    /\ auth = [x \in Accounts |-> NoAuth]
    /\ pending = [a \in Apps |-> NoPending]
    /\ started = {}
    /\ source \in [Apps -> {"stripe", "api"}]
    /\ revenue = [a \in Apps |-> {}]
    /\ call = [p \in Callers |-> Idle]
    /\ requests = 0

At(p, step) == call[p].step = step
Finish(p) == call' = [call EXCEPT ![p] = Idle] /\ UNCHANGED requests
Request == requests < MaxRequests /\ requests' = requests + 1
Begin(p, request) ==
    /\ Request
    /\ call[p] = Idle
    /\ call' = [call EXCEPT ![p] = request]
GoTo(p, step) == call' = [call EXCEPT ![p].step = step] /\ UNCHANGED requests

\* The connections, as pairs of app and mode, of an account.
RowsOf(x) == {r \in Apps \X Modes : conn[r[1]][r[2]].account = x}
Waiting == {a \in Apps : pending[a].status = "open"}

-----------------------------------------------------------------------------
(* The install link.                                                       *)

\* createStripeAppInstallUrl; an existing row keeps its creation time, so what it
\* missed.
createInstallUrl(a, m) ==
    /\ source[a] = "stripe"
    /\ started' = started \cup {<<a, m>>}
    /\ \E old \in SUBSET {x \in Accounts : auth[x].status # "none"} :
         pending' = [pending EXCEPT ![a] =
             [status |-> "open", mode |-> m,
              missed |-> IF pending[a].status = "none" THEN old ELSE pending[a].missed]]
    /\ Request /\ UNCHANGED <<conn, auth, money, call>>

\* 15 minutes pass after the last link of an app.
Expire(a) ==
    /\ a \in Waiting
    /\ pending' = [pending EXCEPT ![a].status = "expired"]
    /\ Request /\ UNCHANGED <<conn, auth, started, money, call>>

-----------------------------------------------------------------------------
(* The ways back from Stripe.  "sure" tells the poll, which marks the        *)
(* authorization it read, from the others, which mark one still unclaimed.  *)

Goes(step, a, x, m, sure) ==
    [step |-> step, app |-> a, account |-> x, mode |-> m, sure |-> sure]
\* A mode that is not the expected one: nothing is bound, the install is over.
Accept(a, x, expected, m, sure) ==
    Goes(IF expected = m THEN "check" ELSE "clear", a, x, m, sure)
KnownMode(x, m) == IF auth[x].status = "none" THEN m ELSE auth[x].mode

\* completeStripeAppInstall: the callback carries the signed state of some link of
\* the last 15 minutes; the model lets it come later too.
callback(p, a, x, expected, m) ==
    /\ <<a, expected>> \in started
    /\ Begin(p, Accept(a, x, expected, KnownMode(x, m), FALSE))
    /\ UNCHANGED <<install, money>>

\* completeStripeAppInstallFromAccountId: the button, for the only install the user
\* waits for.
postInstall(p, a, x, m) ==
    /\ {b \in Waiting : UserOf[b] = UserOf[a]} = {a}
    /\ Begin(p, Accept(a, x, pending[a].mode, KnownMode(x, m), FALSE))
    /\ UNCHANGED <<install, money>>

\* claimPendingStripeInstall reads the claimable authorizations ...
Claimable(a) == {x \in Accounts \ pending[a].missed : auth[x].status = "unclaimed"}
poll(p, a) ==
    /\ source[a] = "stripe"
    /\ a \in Waiting
    /\ \E x \in Claimable(a) :
         /\ Claimable(a) = {x}
         /\ Begin(p, [step |-> "others", app |-> a, account |-> x,
                      mode |-> auth[x].mode, expected |-> pending[a].mode])
    /\ UNCHANGED <<install, money>>
\* ... and then the other installs in flight.
pollOthers(p) ==
    /\ At(p, "others")
    /\ LET c == call[p]
       IN  call' = [call EXCEPT ![p] = IF Waiting \subseteq {c.app}
                                       THEN Accept(c.app, c.account, c.expected, c.mode, TRUE)
                                       ELSE Idle]
    /\ UNCHANGED <<install, money, requests>>

-----------------------------------------------------------------------------
(* upsertStripeAppConnection and what follows it.                           *)

bindCheck(p) ==
    /\ At(p, "check")
    /\ LET c == call[p]
       IN  call' = [call EXCEPT ![p] =
               IF \E r \in RowsOf(c.account) : r # <<c.app, c.mode>> THEN Idle
               ELSE [c EXCEPT !.step = IF conn[c.app][c.mode] = NoConn THEN "insert" ELSE "update"]]
    /\ UNCHANGED <<install, money, requests>>

\* stripe_connections_stripe_account_unique.
AccountUnchecked(c) == TRUE                                         \* mutant
AccountFree(c) == RowsOf(c.account) \subseteq {<<c.app, c.mode>>}
Bind(p) ==
    /\ conn' = [conn EXCEPT ![call[p].app][call[p].mode] =
                   [account |-> call[p].account, status |-> "connected"]]
    /\ GoTo(p, "clear")
bindUpdate(p) ==
    /\ At(p, "update")
    /\ \/ AccountFree(call[p]) /\ Bind(p)
       \/ ~AccountFree(call[p]) /\ Finish(p) /\ UNCHANGED conn
    /\ UNCHANGED <<auth, pending, started, money>>
\* An insert that meets a row of the same app, mode and account connects that.
bindInsert(p) ==
    /\ At(p, "insert")
    /\ \/ AccountFree(call[p]) /\ conn[call[p].app][call[p].mode].account \in {None, call[p].account}
          /\ Bind(p)
       \/ ~(AccountFree(call[p]) /\ conn[call[p].app][call[p].mode].account \in {None, call[p].account})
          /\ Finish(p) /\ UNCHANGED conn
    /\ UNCHANGED <<auth, pending, started, money>>

clearPending(p) ==
    /\ At(p, "clear")
    /\ pending' = [pending EXCEPT ![call[p].app] = NoPending]
    /\ GoTo(p, "claim")
    /\ UNCHANGED <<conn, auth, started, money>>
markClaimed(p) ==
    /\ At(p, "claim")
    /\ LET c == call[p]
       IN  auth' = [auth EXCEPT ![c.account].status =
                       IF c.sure \/ @ = "unclaimed" THEN "claimed" ELSE @]
    /\ Finish(p)
    /\ UNCHANGED <<conn, pending, started, money>>

-----------------------------------------------------------------------------
(* Webhooks about the installation, and the disconnect button.              *)

\* ingestStripeEvent finds the connection of the account; without one
\* recordStripeAppAuthorization records what a later claim may take.  Its event is
\* processed for an app with Stripe revenue only.
authorized(x, m) ==
    /\ \E r \in started : x \in Reach[r[1]]
    /\ IF RowsOf(x) = {}
       THEN /\ auth' = [auth EXCEPT ![x] = [status |-> "unclaimed", mode |-> m]]
            /\ UNCHANGED conn
       ELSE /\ \E r \in RowsOf(x) :
                 r[2] = m /\ conn' = [conn EXCEPT ![r[1]][r[2]].status = "connected"]
            /\ UNCHANGED auth
    /\ Request /\ UNCHANGED <<pending, started, money, call>>

deauthorized(x, m) ==
    /\ \E r \in started : x \in Reach[r[1]]
    /\ \E r \in RowsOf(x) :
         /\ r[2] = m /\ source[r[1]] = "stripe"
         /\ conn' = [conn EXCEPT ![r[1]][r[2]].status = "disconnected"]
    /\ Request /\ UNCHANGED <<auth, pending, started, money, call>>

\* disconnectStripeConnectionForApp.
disconnect(a, m) ==
    /\ conn[a][m].status = "connected"
    /\ conn' = [conn EXCEPT ![a][m].status = "disconnected"]
    /\ Request /\ UNCHANGED <<auth, pending, started, money, call>>

-----------------------------------------------------------------------------
(* The revenue source.                                                     *)

\* updateAppRevenueSource holds the lock of the app row.
Mutable(a, s) ==
    /\ revenue[a] = {}
    /\ s = "api" => conn[a][TRUE].status # "connected"
updateRevenueSource(a, s) ==
    /\ source[a] # s
    /\ Mutable(a, s)
    /\ source' = [source EXCEPT ![a] = s]
    /\ Request /\ UNCHANGED <<install, revenue, call>>

\* A live payment, reported by the app or told by Stripe, is checked and later
\* recorded in a transaction that locks the app row.  One of each source is enough.
paymentCheck(p, a) ==
    /\ source[a] = "stripe" => conn[a][TRUE].status = "connected"
    /\ source[a] \notin revenue[a]
    /\ Begin(p, [step |-> "payment", app |-> a, source |-> source[a]])
    /\ UNCHANGED <<install, money>>
SourceUnlocked(c) == TRUE                                           \* mutant
SourceKept(c) == source[c.app] = c.source
paymentRecord(p) ==
    /\ At(p, "payment")
    /\ LET c == call[p]
       IN  revenue' = [revenue EXCEPT ![c.app] = IF SourceKept(c) THEN @ \cup {c.source} ELSE @]
    /\ Finish(p)
    /\ UNCHANGED <<install, source>>

\* A request dies between two writes.
Crash(p) ==
    /\ call[p] # Idle
    /\ Finish(p)
    /\ UNCHANGED <<install, money>>

Next ==
    \/ \E a \in Apps, m \in Modes : createInstallUrl(a, m) \/ disconnect(a, m)
    \/ \E a \in Apps : Expire(a)
    \/ \E x \in Accounts, m \in Modes : authorized(x, m) \/ deauthorized(x, m)
    \/ \E a \in Apps, s \in {"stripe", "api"} : updateRevenueSource(a, s)
    \/ \E p \in Callers :
         \/ \E a \in Apps : \/ poll(p, a) \/ paymentCheck(p, a)
                            \/ \E x \in Reach[a], m \in Modes :
                                 \/ postInstall(p, a, x, m)
                                 \/ \E e \in Modes : callback(p, a, x, e, m)
         \/ pollOthers(p) \/ bindCheck(p) \/ bindUpdate(p) \/ bindInsert(p)
         \/ clearPending(p) \/ markClaimed(p)
         \/ paymentRecord(p)
         \/ Crash(p)

Spec == Init /\ [][Next]_vars

-----------------------------------------------------------------------------
(* Properties.                                                             *)

Call ==
    {Idle}
    \cup [step : {"check", "update", "insert", "clear", "claim"},
          app : Apps, account : Accounts, mode : Modes, sure : BOOLEAN]
    \cup [step : {"others"}, app : Apps, account : Accounts, mode : Modes, expected : Modes]
    \cup [step : {"payment"}, app : Apps, source : {"stripe", "api"}]

\* The types of the variables; a connection without account has no status.
TypeOK ==
    /\ conn \in [Apps -> [Modes -> [account : Accounts, status : {"connected", "disconnected"}]
                                    \cup {NoConn}]]
    /\ auth \in [Accounts -> [status : {"none", "unclaimed", "claimed"}, mode : Modes]]
    /\ pending \in [Apps -> [status : {"none", "open", "expired"}, mode : Modes,
                             missed : SUBSET Accounts]]
    /\ started \subseteq Apps \X Modes
    /\ source \in [Apps -> {"stripe", "api"}]
    /\ revenue \in [Apps -> SUBSET {"stripe", "api"}]
    /\ call \in [Callers -> Call] /\ requests \in 0..MaxRequests

\* A Stripe account reports to one app only, in one mode, although the callback, the
\* button and the poll of several installs check it before they write.
OneAppPerStripeAccount == \A a, b \in Apps, m, n \in Modes :
    (conn[a][m].account = conn[b][n].account /\ conn[a][m].account # None) => a = b /\ m = n

\* An app never mixes revenue: all its live payments come from the source it has now,
\* also those that were checked before the source changed.
OneRevenueSource == \A a \in Apps : revenue[a] \subseteq {source[a]}

=============================================================================

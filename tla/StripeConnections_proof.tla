----------------------- MODULE StripeConnections_proof -----------------------
(***************************************************************************)
(* A Stripe account reports to one app and an app has one revenue source,  *)
(* for any number of apps, accounts and requests in flight.                *)
(***************************************************************************)
EXTENDS StripeConnections, TLAPS

ConnRow == [account : Accounts, status : {"connected", "disconnected"}] \cup {NoConn}
ConnOK == conn \in [Apps -> [Modes -> ConnRow]]
CallOK == call \in [Callers -> Call]

-----------------------------------------------------------------------------
(* The requests in flight.                                                 *)

\* A request is followed by a request, or by none.
LEMMA CallSet ==
  ASSUME CallOK, NEW p \in Callers, NEW r \in Call, call' = [call EXCEPT ![p] = r]
  PROVE  CallOK'
  BY DEF CallOK

\* What a request may be.
LEMMA CallKinds ==
  ASSUME NEW a \in Apps, NEW x \in Accounts, NEW m \in Modes, NEW e \in Modes, NEW s \in BOOLEAN
  PROVE  /\ Idle \in Call
         /\ \A step \in {"check", "update", "insert", "clear", "claim"} :
               [step |-> step, app |-> a, account |-> x, mode |-> m, sure |-> s] \in Call
         /\ [step |-> "others", app |-> a, account |-> x, mode |-> m, expected |-> e] \in Call
         /\ \A r \in {"stripe", "api"} : [step |-> "payment", app |-> a, source |-> r] \in Call
         /\ Accept(a, x, e, m, s) \in Call
<1>1. \A step \in {"check", "update", "insert", "clear", "claim"} :
         [step |-> step, app |-> a, account |-> x, mode |-> m, sure |-> s] \in Call
  BY DEF Call
<1> QED BY <1>1 DEF Call, Accept, Goes

\* The request at a step of an install.
LEMMA Installing ==
  ASSUME CallOK, NEW p \in Callers,
         call[p].step \in {"check", "update", "insert", "clear", "claim"}
  PROVE  call[p] \in [step : {"check", "update", "insert", "clear", "claim"},
                      app : Apps, account : Accounts, mode : Modes, sure : BOOLEAN]
<1>1. call[p] \in Call
  BY DEF CallOK
<1> QED BY <1>1 DEF Call, Idle

\* The request of a poll that has read the authorizations.
LEMMA Polling ==
  ASSUME CallOK, NEW p \in Callers, call[p].step = "others"
  PROVE  call[p] \in [step : {"others"}, app : Apps, account : Accounts, mode : Modes,
                      expected : Modes]
<1>1. call[p] \in Call
  BY DEF CallOK
<1> QED BY <1>1 DEF Call, Idle

\* A payment that is checked and not yet recorded.
LEMMA Paying ==
  ASSUME CallOK, NEW p \in Callers, call[p].step = "payment"
  PROVE  call[p] \in [step : {"payment"}, app : Apps, source : {"stripe", "api"}]
<1>1. call[p] \in Call
  BY DEF CallOK
<1> QED BY <1>1 DEF Call, Idle

\* A request of an install goes on to another of its steps.
LEMMA NextStep ==
  ASSUME CallOK, NEW p \in Callers,
         call[p].step \in {"check", "update", "insert", "clear", "claim"},
         NEW step \in {"check", "update", "insert", "clear", "claim"}
  PROVE  [call[p] EXCEPT !.step = step] \in Call
<1>1. call[p] \in [step : {"check", "update", "insert", "clear", "claim"},
                   app : Apps, account : Accounts, mode : Modes, sure : BOOLEAN]
  BY Installing
<1>2. [call[p] EXCEPT !.step = step]
        \in [step : {"check", "update", "insert", "clear", "claim"},
             app : Apps, account : Accounts, mode : Modes, sure : BOOLEAN]
  BY <1>1
<1> QED BY <1>2 DEF Call

-----------------------------------------------------------------------------
(* The connections.                                                        *)

\* One row is written.
Writes(a, m, row) == conn' = [conn EXCEPT ![a][m] = row]
LEMMA ConnSet ==
  ASSUME ConnOK, NEW a \in Apps, NEW m \in Modes, NEW row \in ConnRow, Writes(a, m, row)
  PROVE  /\ ConnOK'
         /\ conn'[a][m] = row
         /\ \A b \in Apps, n \in Modes : <<b, n>> # <<a, m>> => conn'[b][n] = conn[b][n]
  BY DEF ConnOK, Writes

\* A write that keeps the account of a row keeps accounts apart.
LEMMA KeepsAccount ==
  ASSUME ConnOK, OneAppPerStripeAccount, NEW a \in Apps, NEW m \in Modes,
         NEW row \in ConnRow, row.account = conn[a][m].account, Writes(a, m, row)
  PROVE  ConnOK' /\ OneAppPerStripeAccount'
<1>1. /\ ConnOK' /\ conn'[a][m] = row
      /\ \A b \in Apps, n \in Modes : <<b, n>> # <<a, m>> => conn'[b][n] = conn[b][n]
  BY ConnSet
<1>2. ASSUME NEW b \in Apps, NEW n \in Modes
      PROVE  conn'[b][n].account = conn[b][n].account
  BY <1>1
<1> QED BY <1>1, <1>2 DEF OneAppPerStripeAccount

\* A change of the status of a connection that has an account.
SetsStatus(a, m, to) == conn' = [conn EXCEPT ![a][m].status = to]
LEMMA StatusOnly ==
  ASSUME ConnOK, OneAppPerStripeAccount, NEW a \in Apps, NEW m \in Modes,
         conn[a][m] # NoConn, NEW to \in {"connected", "disconnected"},
         SetsStatus(a, m, to)
  PROVE  ConnOK' /\ OneAppPerStripeAccount'
<1> DEFINE row == [conn[a][m] EXCEPT !.status = to]
<1>1. conn[a][m] \in [account : Accounts, status : {"connected", "disconnected"}]
  BY DEF ConnOK, ConnRow
<1>2. row \in ConnRow /\ row.account = conn[a][m].account
  BY <1>1 DEF ConnRow
<1>3. Writes(a, m, row)
  BY DEF ConnOK, Writes, SetsStatus
<1> HIDE DEF row
<1> QED BY <1>2, <1>3, KeepsAccount

\* An account that has rows is bound in them.
LEMMA RowIsBound ==
  ASSUME StripeConnectionsAssumption, NEW x \in Accounts, NEW r \in RowsOf(x)
  PROVE  /\ r \in Apps \X Modes /\ r[1] \in Apps /\ r[2] \in Modes
         /\ conn[r[1]][r[2]] # NoConn
<1>1. x # None
  BY DEF StripeConnectionsAssumption
<1> QED BY <1>1 DEF RowsOf, NoConn

\* A request binds an account that no other row has.
LEMMA BindKeepsApart ==
  ASSUME StripeConnectionsAssumption, ConnOK, OneAppPerStripeAccount,
         NEW a \in Apps, NEW m \in Modes, NEW x \in Accounts,
         RowsOf(x) \subseteq {<<a, m>>}, Writes(a, m, [account |-> x, status |-> "connected"])
  PROVE  ConnOK' /\ OneAppPerStripeAccount'
<1>1. [account |-> x, status |-> "connected"] \in ConnRow
  BY DEF ConnRow
<1>2. /\ ConnOK'
      /\ conn'[a][m].account = x
      /\ \A b \in Apps, n \in Modes : <<b, n>> # <<a, m>> => conn'[b][n] = conn[b][n]
  BY <1>1, ConnSet
<1>3. \A b \in Apps, n \in Modes : conn[b][n].account = x => <<b, n>> = <<a, m>>
  BY DEF RowsOf
<1> QED BY <1>2, <1>3 DEF OneAppPerStripeAccount

\* The steps of an install that write a connection.
LEMMA BindStep ==
  ASSUME StripeConnectionsAssumption, ConnOK, CallOK, OneAppPerStripeAccount,
         NEW p \in Callers, bindUpdate(p) \/ bindInsert(p)
  PROVE  ConnOK' /\ CallOK' /\ OneAppPerStripeAccount'
<1>1. call[p] \in [step : {"check", "update", "insert", "clear", "claim"},
                   app : Apps, account : Accounts, mode : Modes, sure : BOOLEAN]
  BY Installing DEF bindUpdate, bindInsert, At
<1>2. CASE AccountFree(call[p]) /\ Bind(p)
  <2>1. ConnOK' /\ OneAppPerStripeAccount'
    BY <1>1, <1>2, BindKeepsApart DEF Bind, AccountFree, Writes
  <2>2. [call[p] EXCEPT !.step = "clear"] \in Call
    BY <1>1, NextStep
  <2>3. call' = [call EXCEPT ![p] = [call[p] EXCEPT !.step = "clear"]]
    BY <1>2 DEF Bind, GoTo
  <2> QED BY <2>1, <2>2, <2>3, CallSet
<1>3. CASE Finish(p) /\ UNCHANGED conn
  <2>1. call' = [call EXCEPT ![p] = Idle] /\ Idle \in Call
    BY <1>3 DEF Finish, Call
  <2>2. CallOK'
    BY <2>1, CallSet
  <2> QED BY <1>3, <2>2 DEF ConnOK, OneAppPerStripeAccount
<1> QED BY <1>2, <1>3 DEF bindUpdate, bindInsert

\* A Stripe account reports to one app.
LEMMA ConnStep ==
  ASSUME StripeConnectionsAssumption, ConnOK, CallOK, OneAppPerStripeAccount, [Next]_vars
  PROVE  ConnOK' /\ OneAppPerStripeAccount'
<1>1. CASE UNCHANGED conn
  BY <1>1 DEF ConnOK, OneAppPerStripeAccount
<1>2. ASSUME NEW a \in Apps, NEW m \in Modes, disconnect(a, m)
      PROVE  ConnOK' /\ OneAppPerStripeAccount'
  <2>1. conn[a][m] # NoConn /\ SetsStatus(a, m, "disconnected")
    BY <1>2 DEF disconnect, NoConn, SetsStatus
  <2> QED BY <2>1, StatusOnly
<1>3. ASSUME NEW x \in Accounts, NEW m \in Modes, authorized(x, m)
      PROVE  ConnOK' /\ OneAppPerStripeAccount'
  <2>1. CASE RowsOf(x) # {}
    <3>1. PICK r \in RowsOf(x) : SetsStatus(r[1], r[2], "connected")
      BY <1>3, <2>1 DEF authorized, SetsStatus
    <3> QED BY <3>1, RowIsBound, StatusOnly
  <2>2. CASE RowsOf(x) = {}
    BY <1>1, <1>3, <2>2 DEF authorized
  <2> QED BY <2>1, <2>2
<1>4. ASSUME NEW x \in Accounts, NEW m \in Modes, deauthorized(x, m)
      PROVE  ConnOK' /\ OneAppPerStripeAccount'
  <2>1. PICK r \in RowsOf(x) : SetsStatus(r[1], r[2], "disconnected")
    BY <1>4 DEF deauthorized, SetsStatus
  <2> QED BY <2>1, RowIsBound, StatusOnly
<1>5. ASSUME NEW p \in Callers, bindUpdate(p) \/ bindInsert(p)
      PROVE  ConnOK' /\ OneAppPerStripeAccount'
  BY <1>5, BindStep
<1>6. \/ UNCHANGED conn
      \/ \E a \in Apps, m \in Modes : disconnect(a, m)
      \/ \E x \in Accounts, m \in Modes : authorized(x, m) \/ deauthorized(x, m)
      \/ \E p \in Callers : bindUpdate(p) \/ bindInsert(p)
  BY DEF Next, vars, install, money, createInstallUrl, Expire, updateRevenueSource, poll,
         paymentCheck, postInstall, callback, pollOthers, bindCheck, clearPending, markClaimed,
         paymentRecord, Crash
<1> QED BY <1>1, <1>2, <1>3, <1>4, <1>5, <1>6

-----------------------------------------------------------------------------
(* The other variables.                                                    *)

\* A request that starts or goes on is again one of the requests of the model.
LEMMA CallStep ==
  ASSUME TypeOK, StripeConnectionsAssumption, OneAppPerStripeAccount, [Next]_vars
  PROVE  CallOK'
<1>0. CallOK /\ ConnOK
  BY DEF TypeOK, CallOK, ConnOK, ConnRow
<1>a. ASSUME NEW p \in Callers, NEW r \in Call, Begin(p, r)
      PROVE  CallOK'
  BY <1>a, <1>0, CallSet DEF Begin
<1>b. ASSUME NEW p \in Callers, Finish(p)
      PROVE  CallOK'
  <2>1. call' = [call EXCEPT ![p] = Idle] /\ Idle \in Call
    BY <1>b DEF Finish, Call
  <2> QED BY <1>0, <2>1, CallSet
<1>1. CASE UNCHANGED call
  BY <1>0, <1>1 DEF CallOK
<1>2. ASSUME NEW p \in Callers, NEW a \in Apps, poll(p, a)
      PROVE  CallOK'
  <2>1. PICK x \in Claimable(a) :
           Begin(p, [step |-> "others", app |-> a, account |-> x,
                     mode |-> auth[x].mode, expected |-> pending[a].mode])
    BY <1>2 DEF poll
  <2>2. x \in Accounts /\ auth[x].mode \in Modes /\ pending[a].mode \in Modes
    BY <2>1 DEF TypeOK, Claimable
  <2> QED BY <2>1, <2>2, <1>a, CallKinds
<1>3. ASSUME NEW p \in Callers, NEW a \in Apps, paymentCheck(p, a)
      PROVE  CallOK'
  <2>1. source[a] \in {"stripe", "api"}
    BY DEF TypeOK
  <2>2. [step |-> "payment", app |-> a, source |-> source[a]] \in Call
    BY <2>1 DEF Call
  <2> QED BY <1>3, <2>2, <1>a DEF paymentCheck
<1>4. ASSUME NEW p \in Callers, NEW a \in Apps, NEW x \in Reach[a], NEW m \in Modes,
             \/ postInstall(p, a, x, m)
             \/ \E e \in Modes : callback(p, a, x, e, m)
      PROVE  CallOK'
  <2>1. x \in Accounts /\ pending[a].mode \in Modes /\ KnownMode(x, m) \in Modes
    BY DEF TypeOK, StripeConnectionsAssumption, KnownMode
  <2>2. FALSE \in BOOLEAN
    OBVIOUS
  <2>3. CASE postInstall(p, a, x, m)
    <3>1. Accept(a, x, pending[a].mode, KnownMode(x, m), FALSE) \in Call
      BY <2>1, <2>2, CallKinds
    <3> QED BY <2>3, <3>1, <1>a DEF postInstall
  <2>4. ASSUME NEW e \in Modes, callback(p, a, x, e, m)
        PROVE  CallOK'
    <3>1. Accept(a, x, e, KnownMode(x, m), FALSE) \in Call
      BY <2>1, <2>2, CallKinds
    <3> QED BY <2>4, <3>1, <1>a DEF callback
  <2> QED BY <1>4, <2>3, <2>4
<1>5. ASSUME NEW p \in Callers, pollOthers(p)
      PROVE  CallOK'
  <2> DEFINE c == call[p]
             r == IF Waiting \subseteq {c.app}
                  THEN Accept(c.app, c.account, c.expected, c.mode, TRUE) ELSE Idle
  <2>1. call[p].app \in Apps /\ call[p].account \in Accounts
        /\ call[p].expected \in Modes /\ call[p].mode \in Modes
    BY <1>5, <1>0, Polling DEF pollOthers, At
  <2>2. r \in Call
    BY <2>1, CallKinds
  <2>3. call' = [call EXCEPT ![p] = r]
    BY <1>5 DEF pollOthers
  <2> HIDE DEF r
  <2> QED BY <2>2, <2>3, <1>0, CallSet
<1>6. ASSUME NEW p \in Callers, bindCheck(p)
      PROVE  CallOK'
  <2> DEFINE c == call[p]
             r == IF \E s \in RowsOf(c.account) : s # <<c.app, c.mode>> THEN Idle
                  ELSE [c EXCEPT !.step = IF conn[c.app][c.mode] = NoConn THEN "insert" ELSE "update"]
  <2>1. /\ [call[p] EXCEPT !.step = "insert"] \in Call
        /\ [call[p] EXCEPT !.step = "update"] \in Call
    BY <1>6, <1>0, NextStep DEF bindCheck, At
  <2>2. Idle \in Call
    BY DEF Call
  <2>3. r \in Call
    BY <2>1, <2>2
  <2>4. call' = [call EXCEPT ![p] = r]
    BY <1>6 DEF bindCheck
  <2> HIDE DEF r
  <2> QED BY <2>3, <2>4, <1>0, CallSet
<1>7. ASSUME NEW p \in Callers, bindUpdate(p) \/ bindInsert(p)
      PROVE  CallOK'
  BY <1>7, <1>0, BindStep
<1>8. ASSUME NEW p \in Callers, clearPending(p)
      PROVE  CallOK'
  <2>1. [call[p] EXCEPT !.step = "claim"] \in Call
    BY <1>8, <1>0, NextStep DEF clearPending, At
  <2>2. call' = [call EXCEPT ![p] = [call[p] EXCEPT !.step = "claim"]]
    BY <1>8 DEF clearPending, GoTo
  <2> QED BY <2>1, <2>2, <1>0, CallSet
<1>9. ASSUME NEW p \in Callers, markClaimed(p) \/ paymentRecord(p) \/ Crash(p)
      PROVE  CallOK'
  BY <1>9, <1>b DEF markClaimed, paymentRecord, Crash
<1>10. \/ UNCHANGED call
       \/ \E p \in Callers : \E a \in Apps :
             \/ poll(p, a) \/ paymentCheck(p, a)
             \/ \E x \in Reach[a], m \in Modes :
                  postInstall(p, a, x, m) \/ \E e \in Modes : callback(p, a, x, e, m)
       \/ \E p \in Callers : pollOthers(p) \/ bindCheck(p) \/ bindUpdate(p) \/ bindInsert(p)
             \/ clearPending(p) \/ markClaimed(p) \/ paymentRecord(p) \/ Crash(p)
  BY DEF Next, vars, createInstallUrl, disconnect, Expire, authorized, deauthorized,
         updateRevenueSource
<1> QED BY <1>1, <1>2, <1>3, <1>4, <1>5, <1>6, <1>7, <1>8, <1>9, <1>10

-----------------------------------------------------------------------------
(* The steps, by what they leave alone.                                    *)

LinkStep == \E a \in Apps, m \in Modes : createInstallUrl(a, m) \/ disconnect(a, m) \/ Expire(a)
WebhookStep == \E x \in Accounts, m \in Modes : authorized(x, m) \/ deauthorized(x, m)
BeginStep(p) == \E a \in Apps :
    \/ poll(p, a) \/ paymentCheck(p, a)
    \/ \E x \in Reach[a], m \in Modes :
         postInstall(p, a, x, m) \/ \E e \in Modes : callback(p, a, x, e, m)
InstallStep(p) ==
    pollOthers(p) \/ bindCheck(p) \/ bindUpdate(p) \/ bindInsert(p) \/ clearPending(p) \/ markClaimed(p)

\* Every step is one of these.
LEMMA Steps ==
  ASSUME StripeConnectionsAssumption, Next
  PROVE  \/ LinkStep \/ WebhookStep
         \/ \E a \in Apps, s \in {"stripe", "api"} : updateRevenueSource(a, s)
         \/ \E p \in Callers : BeginStep(p) \/ InstallStep(p) \/ paymentRecord(p) \/ Crash(p)
<1>1. TRUE \in Modes
  BY DEF StripeConnectionsAssumption
<1> QED BY <1>1 DEF Next, LinkStep, WebhookStep, BeginStep, InstallStep

AuthOK == auth \in [Accounts -> [status : {"none", "unclaimed", "claimed"}, mode : Modes]]
PendingOK == pending \in [Apps -> [status : {"none", "open", "expired"}, mode : Modes,
                                   missed : SUBSET Accounts]]

\* The authorizations.
LEMMA AuthStep ==
  ASSUME AuthOK, CallOK, [Next]_vars
  PROVE  AuthOK'
<1>1. CASE UNCHANGED auth
  BY <1>1 DEF AuthOK
<1>2. ASSUME NEW x \in Accounts, NEW m \in Modes, authorized(x, m)
      PROVE  AuthOK'
  <2>1. CASE auth' = [auth EXCEPT ![x] = [status |-> "unclaimed", mode |-> m]]
    BY <2>1 DEF AuthOK
  <2> QED BY <1>1, <1>2, <2>1 DEF authorized
<1>3. ASSUME NEW p \in Callers, markClaimed(p)
      PROVE  AuthOK'
  <2> DEFINE x == call[p].account
             to == IF call[p].sure \/ auth[x].status = "unclaimed" THEN "claimed"
                   ELSE auth[x].status
             row == [auth[x] EXCEPT !.status = to]
  <2>1. x \in Accounts
    BY <1>3, Installing DEF markClaimed, At
  <2>2. auth[x] \in [status : {"none", "unclaimed", "claimed"}, mode : Modes]
    BY <2>1 DEF AuthOK
  <2>3. row \in [status : {"none", "unclaimed", "claimed"}, mode : Modes]
    BY <2>2
  <2>4. auth' = [auth EXCEPT ![x] = row]
    BY <1>3 DEF markClaimed
  <2> HIDE DEF row, x
  <2> QED BY <2>1, <2>3, <2>4 DEF AuthOK
<1>4. \/ UNCHANGED auth
      \/ \E x \in Accounts, m \in Modes : authorized(x, m)
      \/ \E p \in Callers : markClaimed(p)
  BY DEF Next, vars, install, money, createInstallUrl, disconnect, Expire, deauthorized,
         updateRevenueSource, poll, paymentCheck, postInstall, callback, pollOthers, bindCheck,
         bindUpdate, bindInsert, clearPending, paymentRecord, Crash
<1> QED BY <1>1, <1>2, <1>3, <1>4

\* The pending installs.
LEMMA PendingStep ==
  ASSUME PendingOK, CallOK, StripeConnectionsAssumption, [Next]_vars
  PROVE  PendingOK'
<1> DEFINE Rows == [status : {"none", "open", "expired"}, mode : Modes, missed : SUBSET Accounts]
<1>a. ASSUME NEW a \in Apps, NEW row \in Rows, pending' = [pending EXCEPT ![a] = row]
      PROVE  PendingOK'
  BY <1>a DEF PendingOK
<1>1. CASE UNCHANGED pending
  BY <1>1 DEF PendingOK
<1>2. ASSUME NEW a \in Apps, NEW m \in Modes, createInstallUrl(a, m)
      PROVE  PendingOK'
  <2>1. PICK old \in SUBSET Accounts :
           pending' = [pending EXCEPT ![a] =
             [status |-> "open", mode |-> m,
              missed |-> IF pending[a].status = "none" THEN old ELSE pending[a].missed]]
    BY <1>2 DEF createInstallUrl
  <2>2. pending[a].missed \in SUBSET Accounts
    BY DEF PendingOK
  <2>3. [status |-> "open", mode |-> m,
         missed |-> IF pending[a].status = "none" THEN old ELSE pending[a].missed] \in Rows
    BY <2>2
  <2> QED BY <2>1, <2>3, <1>a
<1>3. ASSUME NEW a \in Apps, Expire(a)
      PROVE  PendingOK'
  <2>1. [pending[a] EXCEPT !.status = "expired"] \in Rows
    BY DEF PendingOK
  <2>2. pending' = [pending EXCEPT ![a] = [pending[a] EXCEPT !.status = "expired"]]
    BY <1>3 DEF Expire
  <2> QED BY <2>1, <2>2, <1>a
<1>4. ASSUME NEW p \in Callers, clearPending(p)
      PROVE  PendingOK'
  <2>1. call[p].app \in Apps
    BY <1>4, Installing DEF clearPending, At
  <2>2. NoPending \in Rows
    BY DEF NoPending, StripeConnectionsAssumption
  <2>3. pending' = [pending EXCEPT ![call[p].app] = NoPending]
    BY <1>4 DEF clearPending
  <2> QED BY <2>1, <2>2, <2>3, <1>a
<1>5. \/ UNCHANGED pending
      \/ \E a \in Apps, m \in Modes : createInstallUrl(a, m)
      \/ \E a \in Apps : Expire(a)
      \/ \E p \in Callers : clearPending(p)
  BY DEF Next, vars, install, money, disconnect, authorized, deauthorized,
         updateRevenueSource, poll, paymentCheck, postInstall, callback, pollOthers, bindCheck,
         bindUpdate, bindInsert, markClaimed, paymentRecord, Crash
<1> QED BY <1>1, <1>2, <1>3, <1>4, <1>5

\* The source of an app changes only without live payments, and a payment is recorded
\* only under the source it was checked against.
LEMMA MoneyStep ==
  ASSUME source \in [Apps -> {"stripe", "api"}], revenue \in [Apps -> SUBSET {"stripe", "api"}],
         CallOK, OneRevenueSource, StripeConnectionsAssumption, [Next]_vars
  PROVE  /\ source' \in [Apps -> {"stripe", "api"}]
         /\ revenue' \in [Apps -> SUBSET {"stripe", "api"}]
         /\ OneRevenueSource'
<1>1. CASE UNCHANGED money
  BY <1>1 DEF money, OneRevenueSource
<1>2. ASSUME NEW a \in Apps, NEW s \in {"stripe", "api"}, updateRevenueSource(a, s)
      PROVE  /\ source' \in [Apps -> {"stripe", "api"}]
             /\ revenue' \in [Apps -> SUBSET {"stripe", "api"}]
             /\ OneRevenueSource'
  <2>1. /\ revenue[a] = {} /\ revenue' = revenue
        /\ source' = [source EXCEPT ![a] = s]
    BY <1>2 DEF updateRevenueSource, Mutable
  <2> QED BY <2>1 DEF OneRevenueSource
<1>3. ASSUME NEW p \in Callers, paymentRecord(p)
      PROVE  /\ source' \in [Apps -> {"stripe", "api"}]
             /\ revenue' \in [Apps -> SUBSET {"stripe", "api"}]
             /\ OneRevenueSource'
  <2>1. /\ call[p].app \in Apps /\ call[p].source \in {"stripe", "api"}
        /\ source' = source
    BY <1>3, Paying DEF paymentRecord, At, install
  <2>2. CASE call[p].source = source[call[p].app]
    <3>1. revenue' = [revenue EXCEPT ![call[p].app] = @ \cup {call[p].source}]
      BY <1>3, <2>2 DEF paymentRecord, SourceKept
    <3> QED BY <2>1, <2>2, <3>1 DEF OneRevenueSource
  <2>3. CASE call[p].source # source[call[p].app]
    <3>1. revenue' = [revenue EXCEPT ![call[p].app] = @]
      BY <1>3, <2>3 DEF paymentRecord, SourceKept
    <3> QED BY <2>1, <3>1 DEF OneRevenueSource
  <2> QED BY <2>2, <2>3
<1>4. \/ UNCHANGED money
      \/ \E a \in Apps, s \in {"stripe", "api"} : updateRevenueSource(a, s)
      \/ \E p \in Callers : paymentRecord(p)
  <2>1. LinkStep \/ WebhookStep => UNCHANGED money
    BY DEF LinkStep, WebhookStep, createInstallUrl, disconnect, Expire, authorized,
           deauthorized, money
  <2>2. ASSUME NEW p \in Callers, BeginStep(p) \/ InstallStep(p) \/ Crash(p)
        PROVE  UNCHANGED money
    BY <2>2 DEF BeginStep, InstallStep, poll, paymentCheck, postInstall, callback, pollOthers,
           bindCheck, bindUpdate, bindInsert, clearPending, markClaimed, Crash, money
  <2>3. UNCHANGED vars => UNCHANGED money
    BY DEF vars, money
  <2> QED BY <2>1, <2>2, <2>3, Steps
<1> QED BY <1>1, <1>2, <1>3, <1>4

\* The links and the number of requests.
LEMMA BoundStep ==
  ASSUME started \subseteq Apps \X Modes, requests \in 0..MaxRequests,
         StripeConnectionsAssumption, [Next]_vars
  PROVE  started' \subseteq Apps \X Modes /\ requests' \in 0..MaxRequests
<1>1. UNCHANGED started \/ \E a \in Apps, m \in Modes : started' = started \cup {<<a, m>>}
  BY DEF Next, vars, install, money, createInstallUrl, Expire, disconnect, authorized,
         deauthorized, updateRevenueSource, poll, paymentCheck, postInstall, callback,
         pollOthers, bindCheck, bindUpdate, bindInsert, clearPending, markClaimed,
         paymentRecord, Crash
<1>2. Request \/ UNCHANGED requests
  <2>1. LinkStep \/ WebhookStep => Request
    BY DEF LinkStep, WebhookStep, createInstallUrl, disconnect, Expire, authorized,
           deauthorized
  <2>2. ASSUME NEW a \in Apps, NEW s \in {"stripe", "api"}, updateRevenueSource(a, s)
        PROVE  Request
    BY <2>2 DEF updateRevenueSource
  <2>3. ASSUME NEW p \in Callers, BeginStep(p)
        PROVE  Request
    BY <2>3 DEF BeginStep, poll, paymentCheck, postInstall, callback, Begin
  <2>4. ASSUME NEW p \in Callers, InstallStep(p) \/ paymentRecord(p) \/ Crash(p)
        PROVE  UNCHANGED requests
    BY <2>4 DEF InstallStep, pollOthers, bindCheck, bindUpdate, bindInsert, clearPending,
           markClaimed, paymentRecord, Crash, GoTo, Finish, Bind
  <2>5. UNCHANGED vars => UNCHANGED requests
    BY DEF vars
  <2> QED BY <2>1, <2>2, <2>3, <2>4, <2>5, Steps
<1>3. requests' \in 0..MaxRequests
  BY <1>2 DEF Request, StripeConnectionsAssumption
<1> QED BY <1>1, <1>3

-----------------------------------------------------------------------------
(* The theorems.                                                           *)

Inv == TypeOK /\ OneAppPerStripeAccount /\ OneRevenueSource

\* The invariant holds at first.
LEMMA InitInv ==
  ASSUME StripeConnectionsAssumption, Init
  PROVE  Inv
<1>a. TRUE \in Modes /\ MaxRequests \in Nat
  BY DEF StripeConnectionsAssumption
<1>b. ConnOK
  BY DEF Init, ConnOK, ConnRow
<1>c. AuthOK
  BY <1>a DEF Init, AuthOK, NoAuth
<1>d. PendingOK
  BY <1>a DEF Init, PendingOK, NoPending
<1>e. CallOK
  BY DEF Init, CallOK, Call
<1>f. /\ started \subseteq Apps \X Modes /\ source \in [Apps -> {"stripe", "api"}]
      /\ revenue \in [Apps -> SUBSET {"stripe", "api"}] /\ requests \in 0..MaxRequests
  BY <1>a DEF Init
<1>1. TypeOK
  BY <1>b, <1>c, <1>d, <1>e, <1>f DEF TypeOK, ConnOK, ConnRow, AuthOK, PendingOK, CallOK
<1>2. OneAppPerStripeAccount /\ OneRevenueSource
  BY DEF Init, OneAppPerStripeAccount, OneRevenueSource, NoConn
<1> QED BY <1>1, <1>2 DEF Inv

\* Every step keeps it.
LEMMA NextInv ==
  ASSUME StripeConnectionsAssumption, Inv, [Next]_vars
  PROVE  Inv'
<1>1. TypeOK /\ OneAppPerStripeAccount /\ OneRevenueSource
  BY DEF Inv
<1>2. /\ ConnOK /\ AuthOK /\ PendingOK /\ CallOK /\ started \subseteq Apps \X Modes
      /\ source \in [Apps -> {"stripe", "api"}] /\ revenue \in [Apps -> SUBSET {"stripe", "api"}]
      /\ requests \in 0..MaxRequests
  BY <1>1 DEF TypeOK, ConnOK, ConnRow, AuthOK, PendingOK, CallOK
<1>3. ConnOK' /\ OneAppPerStripeAccount'
  BY <1>1, <1>2, ConnStep
<1>4. CallOK'
  BY <1>1, CallStep
<1>5. AuthOK'
  BY <1>2, AuthStep
<1>6. PendingOK'
  BY <1>2, PendingStep
<1>7. /\ source' \in [Apps -> {"stripe", "api"}]
      /\ revenue' \in [Apps -> SUBSET {"stripe", "api"}]
      /\ OneRevenueSource'
  BY <1>1, <1>2, MoneyStep
<1>8. started' \subseteq Apps \X Modes /\ requests' \in 0..MaxRequests
  BY <1>2, BoundStep
<1>9. TypeOK'
  BY <1>3, <1>4, <1>5, <1>6, <1>7, <1>8 DEF TypeOK, ConnOK, ConnRow, AuthOK, PendingOK, CallOK
<1> QED BY <1>3, <1>7, <1>9 DEF Inv

\* It holds always.
LEMMA Invariance == Spec => []Inv
<1>1. Init => Inv
  BY InitInv, StripeConnectionsAssumption
<1>2. Inv /\ [Next]_vars => Inv'
  BY NextInv, StripeConnectionsAssumption
<1> QED BY <1>1, <1>2, PTL DEF Spec

\* The variables keep their types.
THEOREM TypesHold == Spec => []TypeOK
<1>1. Inv => TypeOK
  BY DEF Inv
<1> QED BY <1>1, Invariance, PTL

\* Whatever installs, polls, callbacks and webhooks overlap and wherever requests die,
\* a Stripe account is connected to one app in one mode.
THEOREM AccountsKeptApart == Spec => []OneAppPerStripeAccount
<1>1. Inv => OneAppPerStripeAccount
  BY DEF Inv
<1> QED BY <1>1, Invariance, PTL

\* No payment that was checked before the revenue source changed is recorded under it.
THEOREM SourcesNeverMix == Spec => []OneRevenueSource
<1>1. Inv => OneRevenueSource
  BY DEF Inv
<1> QED BY <1>1, Invariance, PTL
=============================================================================

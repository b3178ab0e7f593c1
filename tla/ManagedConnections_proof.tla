----------------------- MODULE ManagedConnections_proof -----------------------
(***************************************************************************)
(* A provider is never locked out, a redacted connection stays redacted, an *)
(* account that always sends one website gets one app, and an answer is     *)
(* another account's only where both send its website, for any number of    *)
(* connections, requests and credential generations.                       *)
(***************************************************************************)
EXTENDS ManagedConnections, TLAPS

\* What holds of a row, its revoked generations and the one the provider holds: the
\* revoked ones are older than the held one while the connection lives, and the
\* newest one is held unless its bundle is pending.
Fits(row, rev, h) ==
    /\ h <= row.version
    /\ row.status = "none" => row.version = 0 /\ rev = {}
    /\ row.status \in Live =>
          /\ row.version > 0
          /\ \A g \in rev : g < h
          /\ ~row.pending => h = row.version
    /\ row.status = "redacted" =>
          row.account = None /\ row.site = None /\ ~row.pending /\ 1..row.version \subseteq rev

\* What holds of a request in flight: it carries no newer generation than there is,
\* and acknowledges none that the provider does not hold.
CallFits(r) ==
    /\ r.step \in {"reissue", "revive"} => r.conn \in Conns
    /\ r.step = "answer" => r.version <= conn[r.conn].version
    /\ r.step = "ack" => r.version <= held[r.conn]

Generations == SUBSET (1..MaxVersion)
DataOK == /\ conn \in [Conns -> Row]
          /\ revoked \in [Conns -> Generations]
          /\ held \in [Conns -> 0..MaxVersion]
          /\ \A c \in Conns : Fits(conn[c], revoked[c], held[c])
CallOK == /\ call \in [Callers -> Call]
          /\ \A p \in Callers : CallFits(call[p])

\* A connection is written.
Writes(c, row, rev, h) ==
    /\ conn' = [conn EXCEPT ![c] = row]
    /\ revoked' = [revoked EXCEPT ![c] = rev]
    /\ held' = [held EXCEPT ![c] = h]
\* What no write does: lose a generation, revoke one without a newer one in the
\* provider's hands, change what is redacted.
Legal(c, row, rev, h) ==
    /\ Fits(row, rev, h)
    /\ row.version >= conn[c].version /\ h >= held[c]
    /\ \A g \in rev \ revoked[c] :
          row.status = "redacted" \/ (held[c] > g /\ held[c] \notin rev)
    /\ conn[c].status = "redacted" => row = conn[c] /\ 1..conn[c].version \subseteq rev

Same == UNCHANGED <<conn, revoked, held>>
DataStep ==
    \/ Same
    \/ \E c \in Conns, row \in Row, rev \in Generations, h \in 0..MaxVersion :
          Writes(c, row, rev, h) /\ Legal(c, row, rev, h)

SearchCall == [step : {"byKey", "byAccount", "bySite", "create", "reissue", "revive"},
               account : Accounts, site : Origins, key : InstallKeys, conn : Conns \cup {None},
               again : BOOLEAN]

-----------------------------------------------------------------------------
(* Requests by their step.                                                 *)

\* A request that provisions.
LEMMA Searching ==
  ASSUME CallOK, NEW p \in Callers,
         call[p].step \in {"byKey", "byAccount", "bySite", "create", "reissue", "revive"}
  PROVE  /\ call[p] \in SearchCall
         /\ call[p].account \in Accounts /\ call[p].key \in InstallKeys
         /\ call[p].site \in Origins
         /\ call[p].step \in {"reissue", "revive"} => call[p].conn \in Conns
<1>1. call[p] \in Call /\ CallFits(call[p])
  BY DEF CallOK
<1>2. call[p] \in SearchCall
  BY <1>1 DEF Call, Idle, SearchCall, Targets
<1> QED BY <1>1, <1>2 DEF SearchCall, CallFits

\* An answer on its way to the provider.
LEMMA Answering ==
  ASSUME CallOK, NEW p \in Callers, call[p].step = "answer"
  PROVE  /\ call[p].conn \in Conns /\ call[p].version \in 0..MaxVersion
         /\ call[p].version <= conn[call[p].conn].version
<1>1. call[p] \in Call /\ CallFits(call[p])
  BY DEF CallOK
<1>2. call[p] \in [step : {"answer"}, conn : Conns, version : 0..MaxVersion]
  BY <1>1 DEF Call, Idle, Targets
<1> QED BY <1>1, <1>2 DEF CallFits

\* An acknowledgement on its way to RefKit.
LEMMA Acknowledging ==
  ASSUME CallOK, NEW p \in Callers, call[p].step = "ack"
  PROVE  /\ call[p].conn \in Conns /\ call[p].version \in 1..MaxVersion
         /\ call[p].version <= held[call[p].conn]
<1>1. call[p] \in Call /\ CallFits(call[p])
  BY DEF CallOK
<1>2. call[p] \in [step : {"ack"}, conn : Conns, version : 1..MaxVersion]
  BY <1>1 DEF Call, Idle, Targets
<1> QED BY <1>1, <1>2 DEF CallFits

\* An authenticated request.
LEMMA Managing ==
  ASSUME CallOK, NEW p \in Callers, call[p].step \in Targets \cup {"rotate", "redact"}
  PROVE  call[p].conn \in Conns
<1>1. call[p] \in Call
  BY DEF CallOK
<1>2. call[p] \in [step : Targets \cup {"rotate", "redact"}, conn : Conns]
  BY <1>1 DEF Call, Idle, Targets
<1> QED BY <1>2

\* A transition that has read the status.
LEMMA Transitioning ==
  ASSUME CallOK, NEW p \in Callers, call[p].step = "write"
  PROVE  call[p].conn \in Conns /\ call[p].to \in Targets
<1>1. call[p] \in Call
  BY DEF CallOK
<1>2. call[p] \in [step : {"write"}, conn : Conns, to : Targets]
  BY <1>1 DEF Call, Idle, Targets
<1> QED BY <1>2

-----------------------------------------------------------------------------
(* Rows.                                                                   *)

\* A row is what its fields are.
LEMMA RowFields ==
  ASSUME DataOK, NEW c \in Conns
  PROVE  /\ conn[c] \in Row /\ revoked[c] \in Generations /\ held[c] \in 0..MaxVersion
         /\ conn[c].status \in Live \cup {"none", "redacted"}
         /\ conn[c].key \in InstallKeys \cup {None}
         /\ conn[c].account \in Accounts \cup {None}
         /\ conn[c].site \in Origins
         /\ conn[c].version \in 0..MaxVersion /\ conn[c].pending \in BOOLEAN
         /\ Fits(conn[c], revoked[c], held[c])
<1>1. conn[c] \in Row /\ revoked[c] \in Generations /\ held[c] \in 0..MaxVersion
  BY DEF DataOK
<1>2. Fits(conn[c], revoked[c], held[c])
  BY DEF DataOK
<1> QED BY <1>1, <1>2 DEF Row

\* A new generation for a live connection, or its pending bundle again.
LEMMA Issue ==
  ASSUME DataOK, ManagedAssumption, NEW c \in Conns, conn[c].status \in Live,
         conn[c].pending \/ conn[c].version < MaxVersion,
         NEW row \in Row, row.status \in Live, row.pending,
         row.version = IF conn[c].pending THEN conn[c].version ELSE conn[c].version + 1
  PROVE  Legal(c, row, revoked[c], held[c])
<1>1. /\ conn[c].version \in Nat /\ held[c] \in Nat /\ revoked[c] \subseteq Nat
      /\ Fits(conn[c], revoked[c], held[c])
  BY RowFields DEF Generations, ManagedAssumption
<1>2. row.version \in Nat /\ row.version >= conn[c].version /\ row.version > 0
  BY <1>1 DEF Fits
<1>3. row.status # "none" /\ row.status # "redacted" /\ conn[c].status # "redacted"
  BY DEF Live
<1>4. held[c] <= row.version
  BY <1>1, <1>2 DEF Fits
<1>5. Fits(row, revoked[c], held[c])
  BY <1>1, <1>2, <1>3, <1>4 DEF Fits
<1> QED BY <1>1, <1>2, <1>3, <1>5 DEF Legal

\* A change of status between live ones.
LEMMA Restatus ==
  ASSUME DataOK, ManagedAssumption, NEW c \in Conns, conn[c].status \in Live, NEW to \in Live
  PROVE  /\ [conn[c] EXCEPT !.status = to] \in Row
         /\ Legal(c, [conn[c] EXCEPT !.status = to], revoked[c], held[c])
<1> DEFINE row == [conn[c] EXCEPT !.status = to]
<1>1. /\ conn[c] \in Row /\ conn[c].version \in Nat /\ held[c] \in Nat
      /\ Fits(conn[c], revoked[c], held[c])
  BY RowFields DEF ManagedAssumption
<1>2. /\ row \in Row /\ row.status = to /\ row.version = conn[c].version
      /\ row.pending = conn[c].pending
  BY <1>1 DEF Row
<1>3. to # "none" /\ to # "redacted" /\ conn[c].status # "redacted"
  BY DEF Live
<1> HIDE DEF row
<1>4. Fits(row, revoked[c], held[c])
  BY <1>1, <1>2, <1>3 DEF Fits
<1>5. Legal(c, row, revoked[c], held[c])
  BY <1>1, <1>2, <1>3, <1>4 DEF Legal
<1> QED BY <1>2, <1>5 DEF row

\* What a write leaves.
LEMMA Written ==
  ASSUME DataOK, DataStep
  PROVE  /\ DataOK'
         /\ \A c \in Conns : conn'[c].version >= conn[c].version /\ held'[c] >= held[c]
<1>0. \A c \in Conns : conn[c].version \in 0..MaxVersion /\ held[c] \in 0..MaxVersion
  BY RowFields
<1>1. CASE Same
  BY <1>0, <1>1 DEF DataOK, Same, Fits
<1>2. ASSUME NEW c \in Conns, NEW row \in Row, NEW rev \in Generations, NEW h \in 0..MaxVersion,
             Writes(c, row, rev, h), Legal(c, row, rev, h)
      PROVE  /\ DataOK'
             /\ \A d \in Conns : conn'[d].version >= conn[d].version /\ held'[d] >= held[d]
  <2>1. /\ conn' \in [Conns -> Row] /\ revoked' \in [Conns -> Generations]
        /\ held' \in [Conns -> 0..MaxVersion]
    BY <1>2 DEF DataOK, Writes
  <2>2. conn'[c] = row /\ revoked'[c] = rev /\ held'[c] = h
    BY <1>2 DEF DataOK, Writes
  <2>3. \A d \in Conns \ {c} : conn'[d] = conn[d] /\ revoked'[d] = revoked[d] /\ held'[d] = held[d]
    BY <1>2 DEF DataOK, Writes
  <2>4. Fits(row, rev, h) /\ row.version >= conn[c].version /\ h >= held[c]
    BY <1>2 DEF Legal
  <2>5. \A d \in Conns : Fits(conn'[d], revoked'[d], held'[d])
    BY <2>2, <2>3, <2>4 DEF DataOK
  <2>6. \A d \in Conns : conn'[d].version >= conn[d].version /\ held'[d] >= held[d]
    BY <1>0, <2>2, <2>3, <2>4
  <2> QED BY <2>1, <2>5, <2>6 DEF DataOK, Fits
<1> QED BY <1>1, <1>2 DEF DataStep

-----------------------------------------------------------------------------
(* What each step writes.                                                  *)

\* A write of a row that keeps the other two columns is one of all three.
LEMMA RowOnly ==
  ASSUME DataOK, NEW c \in Conns, NEW row \in Row, conn' = [conn EXCEPT ![c] = row],
         UNCHANGED <<revoked, held>>, Legal(c, row, revoked[c], held[c])
  PROVE  DataStep
<1>1. Writes(c, row, revoked[c], held[c])
  BY DEF DataOK, Writes
<1>2. revoked[c] \in Generations /\ held[c] \in 0..MaxVersion
  BY DEF DataOK
<1> QED BY <1>1, <1>2 DEF DataStep

\* A connection is created with its first generation pending.
LEMMA CreateStep ==
  ASSUME DataOK, CallOK, ManagedAssumption, NEW p \in Callers, NEW c \in Conns,
         createConnection(p, c)
  PROVE  DataStep
<1> DEFINE row == [status |-> "active", key |-> call[p].key, account |-> call[p].account,
                   site |-> call[p].site, version |-> 1, pending |-> TRUE]
<1>1. call[p].account \in Accounts /\ call[p].key \in InstallKeys /\ call[p].site \in Origins
  BY Searching DEF createConnection, At
<1>2. 1 \in 0..MaxVersion /\ "active" \in Live
  BY DEF ManagedAssumption, Live
<1>3. row \in Row
  BY <1>1, <1>2 DEF Row
<1>4. /\ conn[c].status = "none" /\ Fits(conn[c], revoked[c], held[c])
      /\ held[c] \in Nat
  BY RowFields DEF createConnection, ManagedAssumption
<1>5. conn[c].version = 0 /\ revoked[c] = {} /\ held[c] = 0
  BY <1>4 DEF Fits
<1>6. /\ row.version = 1 /\ row.status = "active" /\ row.pending
      /\ conn' = [conn EXCEPT ![c] = row] /\ UNCHANGED <<revoked, held>>
  BY DEF createConnection
<1> HIDE DEF row
<1>7. Fits(row, revoked[c], held[c])
  BY <1>5, <1>6 DEF Fits
<1>8. Legal(c, row, revoked[c], held[c])
  BY <1>4, <1>5, <1>6, <1>7 DEF Legal
<1> QED BY <1>3, <1>6, <1>8, RowOnly

\* A provisioning request issues a generation for a connection there is.
LEMMA ReissueStep ==
  ASSUME DataOK, CallOK, ManagedAssumption, NEW p \in Callers, reissue(p)
  PROVE  DataStep
<1> DEFINE c == call[p].conn
           v == IF conn[c].pending THEN conn[c].version ELSE conn[c].version + 1
           row == [conn[c] EXCEPT !.key = call[p].key, !.account = call[p].account,
                                  !.status = "active", !.version = v, !.pending = TRUE]
<1>1. c \in Conns /\ call[p].account \in Accounts /\ call[p].key \in InstallKeys
  BY Searching DEF reissue, At
<1>2. CASE Same
  BY <1>2 DEF DataStep
<1>3. CASE /\ IsLive(c) /\ UNCHANGED <<revoked, held>>
           /\ conn[c].pending \/ conn[c].version < MaxVersion
           /\ conn' = [conn EXCEPT
                ![c].key = call[p].key, ![c].account = call[p].account, ![c].status = "active",
                ![c].version = IF conn[c].pending THEN @ ELSE @ + 1, ![c].pending = TRUE]
  <2>1. /\ conn[c] \in Row /\ conn[c].version \in 0..MaxVersion /\ conn[c].status \in Live
        /\ conn[c].pending \/ conn[c].version < MaxVersion
    BY <1>1, <1>3, RowFields DEF IsLive
  <2>2. v \in 0..MaxVersion /\ "active" \in Live
    BY <2>1 DEF ManagedAssumption, Live
  <2>3. row \in Row
    BY <1>1, <2>1, <2>2 DEF Row
  <2>4. row.status = "active" /\ row.pending /\ row.version = v
    BY <2>1 DEF Row
  <2>5. conn' = [conn EXCEPT ![c] = row]
    BY <1>1, <1>3 DEF DataOK, Row
  <2> HIDE DEF row
  <2>6. Legal(c, row, revoked[c], held[c])
    BY <1>1, <2>1, <2>2, <2>3, <2>4, Issue
  <2> QED BY <1>1, <1>3, <2>3, <2>5, <2>6, RowOnly
<1> QED BY <1>2, <1>3 DEF reissue, Same, KeepOlderKeys

\* An authenticated request issues a generation.
LEMMA RotateStep ==
  ASSUME DataOK, CallOK, ManagedAssumption, NEW p \in Callers, rotateManagedCredentials(p)
  PROVE  DataStep
<1> DEFINE c == call[p].conn
           v == IF conn[c].pending THEN conn[c].version ELSE conn[c].version + 1
           row == [conn[c] EXCEPT !.version = v, !.pending = TRUE]
<1>1. c \in Conns
  BY Managing DEF rotateManagedCredentials, At
<1>2. CASE Same
  BY <1>2 DEF DataStep
<1>3. CASE /\ IsLive(c) /\ UNCHANGED <<revoked, held>>
           /\ conn[c].pending \/ conn[c].version < MaxVersion
           /\ conn' = [conn EXCEPT ![c].version = IF conn[c].pending THEN @ ELSE @ + 1,
                                   ![c].pending = TRUE]
  <2>1. /\ conn[c] \in Row /\ conn[c].version \in 0..MaxVersion /\ conn[c].status \in Live
    BY <1>1, <1>3, RowFields DEF IsLive
  <2>2. v \in 0..MaxVersion
    BY <1>3, <2>1 DEF ManagedAssumption
  <2>3. row \in Row
    BY <2>1, <2>2 DEF Row
  <2>4. row.status = conn[c].status /\ row.pending /\ row.version = v
    BY <2>1 DEF Row
  <2>5. conn' = [conn EXCEPT ![c] = row]
    BY <1>1, <1>3 DEF DataOK, Row
  <2> HIDE DEF row
  <2>6. Legal(c, row, revoked[c], held[c])
    BY <1>1, <1>3, <2>1, <2>2, <2>3, <2>4, Issue
  <2> QED BY <1>1, <1>3, <2>3, <2>5, <2>6, RowOnly
<1> QED BY <1>2, <1>3 DEF rotateManagedCredentials, Same, KeepOlderKeys

\* A change of status that finds the status it expects.
LEMMA StatusStep ==
  ASSUME DataOK, CallOK, ManagedAssumption, NEW p \in Callers, revive(p) \/ transitionWrite(p)
  PROVE  DataStep
<1>a. ASSUME NEW c \in Conns, NEW to \in Live, conn[c].status \in Live,
             conn' = [conn EXCEPT ![c].status = to], UNCHANGED <<revoked, held>>
      PROVE  DataStep
  <2>1. /\ [conn[c] EXCEPT !.status = to] \in Row
        /\ Legal(c, [conn[c] EXCEPT !.status = to], revoked[c], held[c])
    BY <1>a, Restatus
  <2>2. conn' = [conn EXCEPT ![c] = [conn[c] EXCEPT !.status = to]]
    BY <1>a DEF DataOK
  <2> QED BY <1>a, <2>1, <2>2, RowOnly
<1>1. CASE Same
  BY <1>1 DEF DataStep
<1>2. CASE revive(p)
  <2>1. call[p].conn \in Conns /\ "active" \in Live
    BY <1>2, Searching DEF revive, At, Live
  <2>2. CASE conn[call[p].conn].status \in {"suspended", "uninstalled"}
    BY <1>2, <2>1, <2>2, <1>a DEF revive, Live
  <2>3. CASE conn[call[p].conn].status \notin {"suspended", "uninstalled"}
    BY <1>1, <1>2, <2>3 DEF revive, Same
  <2> QED BY <2>2, <2>3
<1>3. CASE transitionWrite(p)
  <2> DEFINE c == call[p].conn
             to == call[p].to
  <2>1. c \in Conns /\ to \in Targets
    BY <1>3, Transitioning DEF transitionWrite, At
  <2>2. CASE conn[c].status \in From(to)
    <3>1. conn[c].status \in Live /\ to \in Live
      BY <2>1, <2>2 DEF Targets, From, Live
    <3>2. conn' = [conn EXCEPT ![c].status = to] /\ UNCHANGED <<revoked, held>>
      BY <1>3, <2>2 DEF transitionWrite
    <3> QED BY <2>1, <3>1, <3>2, <1>a
  <2>3. CASE conn[c].status \notin From(to)
    <3>1. conn' = [conn EXCEPT ![c].status = @] /\ UNCHANGED <<revoked, held>>
      BY <1>3, <2>3 DEF transitionWrite
    <3>2. conn' = conn
      BY <2>1, <3>1 DEF DataOK, Row
    <3> QED BY <1>1, <3>1, <3>2 DEF Same
  <2> QED BY <2>2, <2>3
<1> QED BY <1>2, <1>3

\* The provider keeps a bundle.
LEMMA PersistStep ==
  ASSUME DataOK, CallOK, ManagedAssumption, NEW p \in Callers, Persist(p)
  PROVE  DataStep
<1> DEFINE c == call[p].conn
           h == IF call[p].version > held[c] THEN call[p].version ELSE held[c]
<1>1. c \in Conns /\ call[p].version \in 0..MaxVersion /\ call[p].version <= conn[c].version
  BY Answering DEF Persist, At
<1>2. /\ held[c] \in 0..MaxVersion /\ conn[c] \in Row /\ revoked[c] \in Generations
      /\ conn[c].version \in 0..MaxVersion /\ Fits(conn[c], revoked[c], held[c])
  BY <1>1, RowFields
<1>3. h \in 0..MaxVersion /\ h >= held[c] /\ h <= conn[c].version
  BY <1>1, <1>2 DEF Fits
<1>4. held' = [held EXCEPT ![c] = h] /\ UNCHANGED <<conn, revoked>>
  BY DEF Persist
<1> HIDE DEF h
<1>5. Writes(c, conn[c], revoked[c], h)
  BY <1>1, <1>4 DEF DataOK, Writes
<1>6. revoked[c] \subseteq Nat
  BY <1>2 DEF Generations, ManagedAssumption
<1>7. Fits(conn[c], revoked[c], h)
  BY <1>2, <1>3, <1>6 DEF Fits, ManagedAssumption
<1>8. conn[c].status = "redacted" => 1..conn[c].version \subseteq revoked[c]
  BY <1>2 DEF Fits
<1>9. Legal(c, conn[c], revoked[c], h)
  BY <1>2, <1>3, <1>7, <1>8 DEF Legal
<1> QED BY <1>1, <1>2, <1>3, <1>5, <1>9 DEF DataStep

\* The older generations end when the newest one is acknowledged.
LEMMA AckStep ==
  ASSUME DataOK, CallOK, ManagedAssumption, NEW p \in Callers, acknowledgeManagedCredentials(p)
  PROVE  DataStep
<1> DEFINE c == call[p].conn
           row == [conn[c] EXCEPT !.pending = FALSE]
           rev == 1..(conn[c].version - 1)
<1>1. c \in Conns /\ call[p].version \in 1..MaxVersion /\ call[p].version <= held[c]
  BY Acknowledging DEF acknowledgeManagedCredentials, At
<1>2. CASE Same
  BY <1>2 DEF DataStep
<1>3. CASE /\ IsLive(c) /\ call[p].version = conn[c].version /\ UNCHANGED held
           /\ revoked' = [revoked EXCEPT ![c] = 1..(conn[c].version - 1)]
           /\ conn' = [conn EXCEPT ![c].pending = FALSE]
  <2>1. /\ held[c] \in 0..MaxVersion /\ conn[c] \in Row /\ conn[c].version \in 0..MaxVersion
        /\ Fits(conn[c], revoked[c], held[c]) /\ conn[c].status \in Live
    BY <1>1, <1>3, RowFields DEF IsLive
  <2>2. held[c] = conn[c].version /\ held[c] > 0
    BY <1>1, <1>3, <2>1 DEF Fits
  <2>3. row \in Row /\ row.version = conn[c].version /\ row.status = conn[c].status
    BY <2>1 DEF Row
  <2>4. /\ rev \in Generations /\ held[c] \notin rev
        /\ \A g \in rev : g < held[c]
    BY <2>1, <2>2 DEF Generations, ManagedAssumption
  <2>5. Writes(c, row, rev, held[c])
    BY <1>1, <1>3 DEF DataOK, Writes
  <2>6. conn[c].status # "none" /\ conn[c].status # "redacted"
    BY <2>1 DEF Live
  <2> HIDE DEF row, rev
  <2>7. Fits(row, rev, held[c])
    BY <2>1, <2>2, <2>3, <2>4, <2>6 DEF Fits
  <2>8. Legal(c, row, rev, held[c])
    BY <2>1, <2>3, <2>4, <2>6, <2>7 DEF Legal
  <2> QED BY <1>1, <2>1, <2>3, <2>4, <2>5, <2>8 DEF DataStep
<1> QED BY <1>2, <1>3 DEF acknowledgeManagedCredentials, Same

\* Redaction ends every generation, and repeats what it did.
LEMMA RedactStep ==
  ASSUME DataOK, CallOK, ManagedAssumption, NEW p \in Callers, redactManagedConnection(p)
  PROVE  DataStep
<1> DEFINE c == call[p].conn
           row == [conn[c] EXCEPT !.status = "redacted", !.account = None, !.site = None,
                                  !.pending = FALSE]
           rev == 1..conn[c].version
<1>1. c \in Conns
  BY Managing DEF redactManagedConnection, At
<1>2. /\ held[c] \in 0..MaxVersion /\ conn[c] \in Row /\ conn[c].version \in 0..MaxVersion
      /\ Fits(conn[c], revoked[c], held[c])
  BY <1>1, RowFields
<1>n. None \in Origins
  BY DEF Origins
<1>3. /\ row \in Row /\ row.version = conn[c].version /\ row.status = "redacted"
      /\ row.account = None /\ row.site = None /\ ~row.pending
  BY <1>2, <1>n DEF Row
<1>4. rev \in Generations
  BY <1>2 DEF Generations, ManagedAssumption
<1>5. Writes(c, row, rev, held[c])
  BY <1>1 DEF DataOK, Writes, redactManagedConnection
<1>6. conn[c].status = "redacted" => row = conn[c]
  BY <1>2 DEF Fits, Row
<1>7. Fits(row, rev, held[c])
  <2> HIDE DEF row
  <2> QED BY <1>2, <1>3 DEF Fits, Live
<1>8. Legal(c, row, rev, held[c])
  <2> HIDE DEF row
  <2> QED BY <1>2, <1>3, <1>6, <1>7 DEF Legal
<1> HIDE DEF row, rev
<1> QED BY <1>1, <1>2, <1>3, <1>4, <1>5, <1>8 DEF DataStep

\* The steps of a search, which write nothing.
FindStep(p) == findByKey(p) \/ findByAccount(p) \/ findByOrigin(p)
QuietStep(p) ==
    \/ \E x \in Accounts, k \in InstallKeys : \E s \in Sites[x] : Provision(p, x, s, k)
    \/ createRefused(p) \/ Crash(p)
    \/ \E c \in Conns : SendAck(p, c)
    \/ \E c \in Conns, op \in Targets \cup {"rotate", "redact"} : Manage(p, c, op)
    \/ \E to \in Targets : transitionRead(p, to)
WriteStep(p) ==
    \/ \E c \in Conns : createConnection(p, c)
    \/ reissue(p) \/ rotateManagedCredentials(p) \/ revive(p) \/ transitionWrite(p)
    \/ Persist(p) \/ acknowledgeManagedCredentials(p) \/ redactManagedConnection(p)

\* Every step of the system is one of these.
LEMMA Steps ==
  ASSUME Next
  PROVE  \E p \in Callers : FindStep(p) \/ QuietStep(p) \/ WriteStep(p)
  BY DEF Next, FindStep, QuietStep, WriteStep

\* Every step writes a legal row, or none.
LEMMA NextIsDataStep ==
  ASSUME DataOK, CallOK, ManagedAssumption, [Next]_vars
  PROVE  DataStep
<1>1. ASSUME NEW p \in Callers, FindStep(p)
      PROVE  Same
  BY <1>1 DEF FindStep, findByKey, findByAccount, findByOrigin, Find, Same
<1>2. ASSUME NEW p \in Callers, QuietStep(p)
      PROVE  Same
  BY <1>2 DEF QuietStep, Provision, createRefused, Crash, SendAck, Manage, transitionRead, Same
<1>3. ASSUME NEW p \in Callers, WriteStep(p)
      PROVE  DataStep
  BY <1>3, CreateStep, ReissueStep, RotateStep, StatusStep, PersistStep, AckStep, RedactStep
     DEF WriteStep
<1>4. UNCHANGED vars => Same
  BY DEF vars, Same
<1> QED BY <1>1, <1>2, <1>3, <1>4, Steps DEF DataStep

-----------------------------------------------------------------------------
(* The requests in flight.                                                 *)

\* A request that goes on to another that fits.
LEMMA CallSet ==
  ASSUME DataOK, CallOK, DataStep, ManagedAssumption, NEW p \in Callers, NEW r \in Call,
         call' = [call EXCEPT ![p] = r],
         r.step \in {"reissue", "revive"} => r.conn \in Conns,
         r.step = "answer" => r.version <= conn'[r.conn].version,
         r.step = "ack" => r.version <= held'[r.conn]
  PROVE  CallOK'
<1>1. call' \in [Callers -> Call] /\ call'[p] = r
  BY DEF CallOK
<1>2. \A q \in Callers \ {p} : call'[q] = call[q]
  BY DEF CallOK
<1>3. \A c \in Conns : /\ conn'[c].version >= conn[c].version /\ held'[c] >= held[c]
                       /\ conn'[c].version \in Nat /\ held'[c] \in Nat
                       /\ conn[c].version \in Nat /\ held[c] \in Nat
  <2>1. DataOK' /\ \A c \in Conns : conn'[c].version >= conn[c].version /\ held'[c] >= held[c]
    BY Written
  <2>2. \A c \in Conns : conn[c].version \in 0..MaxVersion /\ held[c] \in 0..MaxVersion
    BY RowFields
  <2>3. \A c \in Conns : conn'[c].version \in 0..MaxVersion /\ held'[c] \in 0..MaxVersion
    BY <2>1 DEF DataOK, Row
  <2> QED BY <2>1, <2>2, <2>3 DEF ManagedAssumption
<1>4. ASSUME NEW q \in Callers
      PROVE  /\ call'[q].step \in {"reissue", "revive"} => call'[q].conn \in Conns
             /\ call'[q].step = "answer" => call'[q].version <= conn'[call'[q].conn].version
             /\ call'[q].step = "ack" => call'[q].version <= held'[call'[q].conn]
  <2>1. CASE q = p
    BY <1>1, <2>1
  <2>2. CASE q # p
    <3>1. call'[q] = call[q] /\ CallFits(call[q])
      BY <1>2, <2>2 DEF CallOK
    <3>2. call[q].step = "answer" => /\ call[q].conn \in Conns /\ call[q].version \in Nat
                                     /\ call[q].version <= conn[call[q].conn].version
      BY Answering DEF ManagedAssumption
    <3>3. call[q].step = "ack" => /\ call[q].conn \in Conns /\ call[q].version \in Nat
                                  /\ call[q].version <= held[call[q].conn]
      BY Acknowledging DEF ManagedAssumption
    <3> QED BY <1>3, <3>1, <3>2, <3>3 DEF CallFits
  <2> QED BY <2>1, <2>2
<1> QED BY <1>1, <1>4 DEF CallOK, CallFits

\* A request that ends.
LEMMA FinishSet ==
  ASSUME DataOK, CallOK, DataStep, ManagedAssumption, NEW p \in Callers, Finish(p)
  PROVE  CallOK'
<1>1. call' = [call EXCEPT ![p] = Idle] /\ Idle \in Call /\ Idle.step = "idle"
  BY DEF Finish, Call, Idle
<1> QED BY <1>1, CallSet

\* The answer about a row is a request of the model, as it is after the write.
LEMMA AnswerSet ==
  ASSUME DataOK, CallOK, DataStep, ManagedAssumption, NEW p \in Callers, NEW c \in Conns,
         call' = [call EXCEPT ![p] = Answer(c, conn'[c])]
  PROVE  CallOK'
<1>1. conn'[c].version \in 0..MaxVersion
  BY Written DEF DataOK, Row
<1>2. /\ Answer(c, conn'[c]) \in Call /\ Answer(c, conn'[c]).step = "answer"
      /\ Answer(c, conn'[c]).conn = c
      /\ Answer(c, conn'[c]).version <= conn'[c].version
  BY <1>1 DEF Answer, Call, ManagedAssumption
<1> HIDE DEF Answer
<1> QED BY <1>2, CallSet

\* A search goes on.
LEMMA SearchSet ==
  ASSUME DataOK, CallOK, DataStep, ManagedAssumption, NEW p \in Callers,
         NEW r \in SearchCall, r.step \in {"reissue", "revive"} => r.conn \in Conns,
         call' = [call EXCEPT ![p] = r]
  PROVE  CallOK'
<1>1. r \in Call /\ r.step # "answer" /\ r.step # "ack"
  BY DEF SearchCall, Call
<1> QED BY <1>1, CallSet

\* What a search does with the row it found.
Uses(p, c, kind) == call' = [call EXCEPT ![p] = UseExisting(p, c, kind)]
\* What the provision does with a row it found keeps every call sound.
LEMMA UseExistingSet ==
  ASSUME DataOK, CallOK, Same, ManagedAssumption, NEW p \in Callers, NEW c \in Conns,
         NEW kind \in {"idempotency", "account", "site"},
         call[p].step \in {"byKey", "byAccount", "bySite"}, Uses(p, c, kind)
  PROVE  CallOK'
<1>0. DataStep /\ call[p] \in SearchCall
  BY Searching DEF DataStep
<1>1. CASE UseExisting(p, c, kind) = Idle
  <2>1. Finish(p)
    BY <1>1 DEF Finish, Uses
  <2> QED BY <1>0, <2>1, FinishSet
<1>2. CASE UseExisting(p, c, kind) = Answer(c, conn[c])
  <2>1. call' = [call EXCEPT ![p] = Answer(c, conn'[c])]
    BY <1>2 DEF Same, Uses
  <2> QED BY <1>0, <2>1, AnswerSet
<1>3. CASE UseExisting(p, c, kind) = [call[p] EXCEPT !.step = "reissue", !.conn = c]
  <2> DEFINE r == [call[p] EXCEPT !.step = "reissue", !.conn = c]
  <2>1. r \in SearchCall /\ r.conn = c
    BY <1>0 DEF SearchCall
  <2>2. call' = [call EXCEPT ![p] = r]
    BY <1>3 DEF Uses
  <2> HIDE DEF r
  <2> QED BY <1>0, <2>1, <2>2, SearchSet
<1>4. CASE UseExisting(p, c, kind) = [call[p] EXCEPT !.step = "revive", !.conn = c]
  <2> DEFINE r == [call[p] EXCEPT !.step = "revive", !.conn = c]
  <2>1. r \in SearchCall /\ r.conn = c
    BY <1>0 DEF SearchCall
  <2>2. call' = [call EXCEPT ![p] = r]
    BY <1>4 DEF Uses
  <2> HIDE DEF r
  <2> QED BY <1>0, <2>1, <2>2, SearchSet
<1> QED BY <1>1, <1>2, <1>3, <1>4 DEF UseExisting, Continue

\* A search that finds nothing goes on to the next, or fails.
LEMMA FindCall ==
  ASSUME DataOK, CallOK, ManagedAssumption, NEW p \in Callers, FindStep(p)
  PROVE  CallOK'
<1>0. Same
  BY DEF FindStep, findByKey, findByAccount, findByOrigin, Find, Same
<1>1. DataStep
  BY <1>0 DEF DataStep
<1>2. call[p].step \in {"byKey", "byAccount", "bySite"}
  BY DEF FindStep, findByKey, findByAccount, findByOrigin, Find, At
<1>3. call[p] \in SearchCall
  BY <1>2, Searching
<1>a. ASSUME NEW step \in {"byAccount", "bySite", "create"},
             call' = [call EXCEPT ![p] = [call[p] EXCEPT !.step = step]]
      PROVE  CallOK'
  <2> DEFINE r == [call[p] EXCEPT !.step = step]
  <2>1. r \in SearchCall /\ r.step = step
    BY <1>3 DEF SearchCall
  <2>2. call' = [call EXCEPT ![p] = r]
    BY <1>a
  <2> HIDE DEF r
  <2> QED BY <1>1, <2>1, <2>2, SearchSet
<1>b. ASSUME Finish(p)
      PROVE  CallOK'
  BY <1>b, <1>1, FinishSet
<1>c. ASSUME NEW c \in Conns, NEW kind \in {"idempotency", "account", "site"}, Uses(p, c, kind)
      PROVE  CallOK'
  BY <1>c, <1>0, <1>2, UseExistingSet
<1>4. CASE findByKey(p)
  BY <1>4, <1>a, <1>c DEF findByKey, Find, Uses
<1>5. CASE findByAccount(p)
  BY <1>5, <1>a, <1>c DEF findByAccount, Find, Uses
<1>6. CASE findByOrigin(p)
  <2>1. \/ \E c \in Conns : Uses(p, c, "site")
        \/ call' = [call EXCEPT ![p] = IF call[p].again THEN Idle
                                       ELSE [call[p] EXCEPT !.step = "create"]]
    BY <1>6 DEF findByOrigin, Find, SameSite, Uses
  <2>2. CASE call[p].again /\ call' = [call EXCEPT ![p] = Idle]
    BY <2>2, <1>b DEF Finish
  <2>3. CASE call' = [call EXCEPT ![p] = [call[p] EXCEPT !.step = "create"]]
    BY <2>3, <1>a
  <2> QED BY <2>1, <2>2, <2>3, <1>c
<1> QED BY <1>4, <1>5, <1>6 DEF FindStep

\* The other steps that write no row.
LEMMA QuietCall ==
  ASSUME DataOK, CallOK, ManagedAssumption, NEW p \in Callers, QuietStep(p)
  PROVE  CallOK'
<1>0. Same
  BY DEF QuietStep, Provision, createRefused, Crash, SendAck, Manage, transitionRead, Same
<1>a. DataStep
  BY <1>0 DEF DataStep
<1>b. ASSUME NEW r \in Call, r.step \notin {"reissue", "revive", "answer", "ack"},
             call' = [call EXCEPT ![p] = r]
      PROVE  CallOK'
  <2>1. r.step # "reissue" /\ r.step # "revive" /\ r.step # "answer" /\ r.step # "ack"
    BY <1>b
  <2> QED BY <1>a, <1>b, <2>1, CallSet
<1>1. ASSUME NEW x \in Accounts, NEW k \in InstallKeys, NEW s \in Sites[x], Provision(p, x, s, k)
      PROVE  CallOK'
  <2> DEFINE r == [step |-> "byKey", account |-> x, site |-> s, key |-> k, conn |-> None,
                   again |-> FALSE]
  <2>1. r \in Call /\ r.step = "byKey"
    BY DEF Call, Origins
  <2>2. call' = [call EXCEPT ![p] = r]
    BY <1>1 DEF Provision
  <2> HIDE DEF r
  <2> QED BY <2>1, <2>2, <1>b
<1>2. CASE createRefused(p)
  <2> DEFINE r == [call[p] EXCEPT !.step = "byKey", !.again = TRUE]
  <2>1. call[p] \in SearchCall
    BY <1>2, Searching DEF createRefused, At
  <2>2. r \in SearchCall /\ r.step = "byKey"
    BY <2>1 DEF SearchCall
  <2>3. call' = [call EXCEPT ![p] = r]
    BY <1>2, <2>1 DEF createRefused, CallOK, SearchCall
  <2> HIDE DEF r
  <2> QED BY <2>2, <2>3, <1>a, SearchSet
<1>3. CASE Crash(p)
  BY <1>3, <1>a, FinishSet DEF Crash
<1>4. ASSUME NEW c \in Conns, SendAck(p, c)
      PROVE  CallOK'
  <2> DEFINE r == [step |-> "ack", conn |-> c, version |-> held[c]]
  <2>1. held[c] \in 0..MaxVersion /\ held[c] > 0 /\ held' = held
    BY <1>4, RowFields DEF SendAck
  <2>2. r \in Call /\ r.step = "ack" /\ r.version <= held'[r.conn]
    BY <2>1 DEF Call, ManagedAssumption
  <2>3. call' = [call EXCEPT ![p] = r]
    BY <1>4 DEF SendAck
  <2> HIDE DEF r
  <2> QED BY <1>a, <2>2, <2>3, CallSet
<1>5. ASSUME NEW c \in Conns, NEW op \in Targets \cup {"rotate", "redact"}, Manage(p, c, op)
      PROVE  CallOK'
  <2> DEFINE r == [step |-> op, conn |-> c]
  <2>1. r \in Call /\ r.step \notin {"reissue", "revive", "answer", "ack"}
    BY DEF Call, Targets
  <2>2. call' = [call EXCEPT ![p] = r]
    BY <1>5 DEF Manage
  <2> HIDE DEF r
  <2> QED BY <2>1, <2>2, <1>b
<1>6. ASSUME NEW to \in Targets, transitionRead(p, to)
      PROVE  CallOK'
  <2> DEFINE c == call[p].conn
             r == IF conn[c].status \in From(to) THEN [step |-> "write", conn |-> c, to |-> to]
                  ELSE Idle
  <2>1. c \in Conns
    BY <1>6, Managing DEF transitionRead, At
  <2>2. r \in Call /\ r.step \notin {"reissue", "revive", "answer", "ack"}
    BY <2>1 DEF Call, Idle
  <2>3. call' = [call EXCEPT ![p] = r]
    BY <1>6 DEF transitionRead
  <2> HIDE DEF r
  <2> QED BY <2>2, <2>3, <1>b
<1> QED BY <1>1, <1>2, <1>3, <1>4, <1>5, <1>6 DEF QuietStep

\* The steps that write a row end or answer.
LEMMA WriteCall ==
  ASSUME DataOK, CallOK, DataStep, ManagedAssumption, NEW p \in Callers, WriteStep(p)
  PROVE  CallOK'
<1>a. Finish(p) => CallOK'
  BY FinishSet
<1>b. ASSUME NEW c \in Conns, call' = [call EXCEPT ![p] = Answer(c, conn'[c])]
      PROVE  CallOK'
  BY <1>b, AnswerSet
<1>1. ASSUME NEW c \in Conns, createConnection(p, c)
      PROVE  CallOK'
  BY <1>1, <1>b DEF createConnection
<1>2. CASE reissue(p)
  <2>1. call[p].conn \in Conns
    BY <1>2, Searching DEF reissue, At
  <2> QED BY <1>2, <2>1, <1>a, <1>b DEF reissue
<1>3. CASE rotateManagedCredentials(p)
  <2>1. call[p].conn \in Conns
    BY <1>3, Managing DEF rotateManagedCredentials, At
  <2> QED BY <1>3, <2>1, <1>a, <1>b DEF rotateManagedCredentials
<1>4. CASE revive(p)
  <2>1. call[p] \in SearchCall /\ call[p].conn \in Conns
    BY <1>4, Searching DEF revive, At
  <2>2. CASE call' = [call EXCEPT ![p].step = "byKey", ![p].again = TRUE]
    <3> DEFINE r == [call[p] EXCEPT !.step = "byKey", !.again = TRUE]
    <3>1. r \in SearchCall /\ r.step = "byKey"
      BY <2>1 DEF SearchCall
    <3>2. call' = [call EXCEPT ![p] = r]
      BY <2>1, <2>2 DEF CallOK, SearchCall
    <3> HIDE DEF r
    <3> QED BY <3>1, <3>2, SearchSet
  <2> QED BY <1>4, <2>1, <2>2, <1>b DEF revive
<1>5. CASE transitionWrite(p) \/ Persist(p) \/ acknowledgeManagedCredentials(p)
           \/ redactManagedConnection(p)
  BY <1>5, <1>a DEF transitionWrite, Persist, acknowledgeManagedCredentials,
     redactManagedConnection
<1> QED BY <1>1, <1>2, <1>3, <1>4, <1>5 DEF WriteStep

-----------------------------------------------------------------------------
(* The theorems.                                                           *)

IInv == DataOK /\ CallOK

\* The inductive invariant holds at first.
LEMMA InitInv ==
  ASSUME ManagedAssumption, Init
  PROVE  IInv
<1>1. 0 \in 0..MaxVersion
  BY DEF ManagedAssumption
<1>n. None \in Origins
  BY DEF Origins
<1>2. NoRow \in Row
  BY <1>1, <1>n DEF NoRow, Row
<1>3. Fits(NoRow, {}, 0)
  BY DEF Fits, NoRow, Live
<1>4. DataOK
  BY <1>1, <1>2, <1>3 DEF Init, DataOK, Generations
<1>5. CallOK
  BY DEF Init, CallOK, CallFits, Call, Idle
<1> QED BY <1>4, <1>5 DEF IInv

\* Every step keeps it.
LEMMA NextInv ==
  ASSUME ManagedAssumption, IInv, [Next]_vars
  PROVE  IInv' /\ DataStep
<1>0. DataOK /\ CallOK
  BY DEF IInv
<1>1. DataStep
  BY <1>0, NextIsDataStep
<1>2. DataOK'
  BY <1>0, <1>1, Written
<1>3. Next => CallOK'
  BY <1>0, <1>1, Steps, FindCall, QuietCall, WriteCall
<1>4. UNCHANGED vars => CallOK'
  BY <1>0 DEF vars, CallOK, CallFits
<1> QED BY <1>1, <1>2, <1>3, <1>4 DEF IInv

\* It holds always.
LEMMA Invariance == Spec => []IInv
<1>1. Init => IInv
  BY InitInv, ManagedAssumption
<1>2. IInv /\ [Next]_vars => IInv'
  BY NextInv, ManagedAssumption
<1> QED BY <1>1, <1>2, PTL DEF Spec

\* The variables keep their types.
THEOREM TypesHold == Spec => []TypeOK
<1>1. IInv => TypeOK
  BY DEF IInv, DataOK, CallOK, TypeOK, Generations
<1> QED BY <1>1, Invariance, PTL

\* Whatever is lost, repeated or interleaved, a provider has keys that work, or a
\* bundle of such keys that provisioning gives out again.
THEOREM ProviderKeepsAccess == Spec => []NeverLockedOut
<1>1. IInv => NeverLockedOut
  <2> SUFFICES ASSUME IInv, NEW c \in Conns, conn[c].status \in {"active", "suspended", "uninstalled"}
               PROVE  \/ conn[c].pending /\ conn[c].version \notin revoked[c]
                      \/ held[c] > 0 /\ held[c] \notin revoked[c]
    BY DEF NeverLockedOut
  <2>1. /\ conn[c].version \in Nat /\ held[c] \in Nat /\ revoked[c] \subseteq Nat
        /\ Fits(conn[c], revoked[c], held[c]) /\ conn[c].pending \in BOOLEAN
    BY RowFields, ManagedAssumption DEF IInv, ManagedAssumption, Generations
  <2>2. /\ held[c] <= conn[c].version /\ conn[c].version > 0
        /\ \A g \in revoked[c] : g < held[c]
        /\ ~conn[c].pending => held[c] = conn[c].version
    BY <2>1 DEF Fits, Live
  <2>3. held[c] \notin revoked[c] /\ conn[c].version \notin revoked[c]
    BY <2>1, <2>2
  <2>4. CASE conn[c].pending
    BY <2>3, <2>4
  <2>5. CASE ~conn[c].pending
    BY <2>2, <2>3, <2>5
  <2> QED BY <2>4, <2>5
<1> QED BY <1>1, Invariance, PTL

\* A step revokes a generation by redaction, or when the provider holds a newer one
\* that still works.
THEOREM RevocationIsSafe == Spec => RevokedOnlyWhenReplaced
<1> DEFINE A == \A c \in Conns : \A g \in revoked'[c] \ revoked[c] :
                   \/ conn'[c].status = "redacted"
                   \/ held[c] > g /\ held[c] \notin revoked'[c]
<1>1. IInv /\ [Next]_vars => [A]_vars
  <2> SUFFICES ASSUME IInv, [Next]_vars
               PROVE  A
    OBVIOUS
  <2>1. DataOK /\ DataStep
    BY NextInv, ManagedAssumption DEF IInv
  <2>2. CASE Same
    BY <2>2 DEF Same
  <2>3. ASSUME NEW c \in Conns, NEW row \in Row, NEW rev \in Generations, NEW h \in 0..MaxVersion,
               Writes(c, row, rev, h), Legal(c, row, rev, h)
        PROVE  A
    <3>1. conn'[c] = row /\ revoked'[c] = rev
      BY <2>1, <2>3 DEF DataOK, Writes
    <3>2. \A d \in Conns \ {c} : revoked'[d] = revoked[d]
      BY <2>1, <2>3 DEF DataOK, Writes
    <3>3. \A g \in rev \ revoked[c] :
             row.status = "redacted" \/ (held[c] > g /\ held[c] \notin rev)
      BY <2>3 DEF Legal
    <3> QED BY <3>1, <3>2, <3>3
  <2> QED BY <2>1, <2>2, <2>3 DEF DataStep
<1> QED BY <1>1, Invariance, PTL DEF Spec, RevokedOnlyWhenReplaced

\* A redacted connection, its account and its keys never come back.
THEOREM RedactionHolds == Spec => RedactionIsFinal
<1> DEFINE A == \A c \in Conns : conn[c].status = "redacted" =>
                   /\ conn'[c] = conn[c]
                   /\ 1..conn[c].version \subseteq revoked'[c]
<1>1. IInv /\ [Next]_vars => [A]_vars
  <2> SUFFICES ASSUME IInv, [Next]_vars, NEW c \in Conns, conn[c].status = "redacted"
               PROVE  conn'[c] = conn[c] /\ 1..conn[c].version \subseteq revoked'[c]
    OBVIOUS
  <2>1. DataOK /\ DataStep
    BY NextInv, ManagedAssumption DEF IInv
  <2>a. 1..conn[c].version \subseteq revoked[c]
    BY <2>1, RowFields DEF Fits
  <2>2. CASE Same
    BY <2>2, <2>a DEF Same
  <2>3. ASSUME NEW d \in Conns, NEW row \in Row, NEW rev \in Generations, NEW h \in 0..MaxVersion,
               Writes(d, row, rev, h), Legal(d, row, rev, h)
        PROVE  conn'[c] = conn[c] /\ 1..conn[c].version \subseteq revoked'[c]
    <3>1. CASE c = d
      <4>1. conn'[c] = row /\ revoked'[c] = rev
        BY <2>1, <2>3, <3>1 DEF DataOK, Writes
      <4>2. row = conn[c] /\ 1..conn[c].version \subseteq rev
        BY <2>3, <3>1 DEF Legal
      <4> QED BY <4>1, <4>2
    <3>2. CASE c # d
      <4>1. conn'[c] = conn[c] /\ revoked'[c] = revoked[c]
        BY <2>1, <2>3, <3>2 DEF DataOK, Writes
      <4> QED BY <4>1, <2>a
    <3> QED BY <3>1, <3>2
  <2> QED BY <2>1, <2>2, <2>3 DEF DataStep
<1> QED BY <1>1, Invariance, PTL DEF Spec, RedactionIsFinal

-----------------------------------------------------------------------------
(* Accounts and their websites.                                            *)

\* A row that provisioning may answer an account with: its own, or one whose app has
\* a website that the account sends too.
Serves(row, x) == row.account = x \/ (row.site # None /\ row.site \in Sites[x])

\* A live row has a website that its account sends, or none if the account may send
\* none; any other row has neither account nor website.
RowOrigin(row) ==
    /\ row.status = "none" => row.key = None
    /\ row.status \in Live => row.account \in Accounts /\ row.site \in Sites[row.account]
    /\ row.status \notin Live => row.account = None /\ row.site = None
\* A website has one row.
OriginsDiffer == \A c, d \in Conns :
    (c # d /\ conn[c].site # None) => conn[c].site # conn[d].site
\* A search is for a website of its account; the row it will write to again, if it
\* lives, is still one for its account.
SearchSteps == {"byKey", "byAccount", "bySite", "create", "reissue", "revive"}
CallOrigin(r) ==
    /\ r.step \in SearchSteps => r.site \in Sites[r.account]
    /\ r.step \in {"reissue", "revive"} =>
        /\ conn[r.conn].status # "none"
        /\ conn[r.conn].status \in Live => Serves(conn[r.conn], r.account)

OriginOK ==
    /\ \A c \in Conns : RowOrigin(conn[c])
    /\ OriginsDiffer
    /\ \A p \in Callers : CallOrigin(call[p])

\* What a step does to a row, a row that is created, given to another account that
\* sends its website, redacted.
Keeps(c) ==
    /\ conn'[c].key = conn[c].key /\ conn'[c].account = conn[c].account
    /\ conn'[c].site = conn[c].site
    /\ conn'[c].status = conn[c].status \/ (conn[c].status \in Live /\ conn'[c].status \in Live)
Created(c, x) ==
    /\ conn[c].status = "none" /\ conn'[c].status = "active"
    /\ conn'[c].account = x /\ conn'[c].site \in Sites[x]
    /\ conn'[c].site # None => \A d \in Conns : conn[d].site # conn'[c].site
HandedOver(c, x) ==
    /\ conn[c].status \in Live /\ conn'[c].status = "active"
    /\ Serves(conn[c], x) /\ conn'[c].account = x /\ conn'[c].site = conn[c].site
Redacted(c) ==
    conn'[c].status = "redacted" /\ conn'[c].account = None /\ conn'[c].site = None
Moves(c) ==
    Keeps(c) \/ Redacted(c) \/ \E x \in Accounts : Created(c, x) \/ HandedOver(c, x)
RowMoves == \E c \in Conns : Moves(c) /\ \A d \in Conns \ {c} : Keeps(d)
OriginStep == (\A c \in Conns : Keeps(c)) \/ RowMoves

\* The statuses of a row exclude each other.
LEMMA Statuses ==
  /\ "none" \notin Live /\ "redacted" \notin Live /\ "active" \in Live
  /\ "suspended" \in Live /\ "uninstalled" \in Live
  BY DEF Live

\* A row that moves keeps what holds of rows.
LEMMA MovesKeepRow ==
  ASSUME NEW c \in Conns, RowOrigin(conn[c]), Moves(c)
  PROVE  RowOrigin(conn'[c])
<1>1. CASE Keeps(c)
  BY <1>1, Statuses DEF Keeps, RowOrigin
<1>2. CASE Redacted(c)
  BY <1>2, Statuses DEF Redacted, RowOrigin
<1>3. ASSUME NEW x \in Accounts, Created(c, x)
      PROVE  RowOrigin(conn'[c])
  BY <1>3, Statuses DEF Created, RowOrigin
<1>4. ASSUME NEW x \in Accounts, HandedOver(c, x)
      PROVE  RowOrigin(conn'[c])
  BY <1>4, Statuses DEF HandedOver, RowOrigin, Serves
<1> QED BY <1>1, <1>2, <1>3, <1>4 DEF Moves

\* A website that a row has after a move it had before, unless it was no row's.
LEMMA MovesKeepOrigins ==
  ASSUME OriginsDiffer, OriginStep
  PROVE  OriginsDiffer'
<1>1. CASE \A c \in Conns : Keeps(c)
  BY <1>1 DEF OriginsDiffer, Keeps
<1>2. ASSUME NEW c \in Conns, Moves(c), \A d \in Conns \ {c} : Keeps(d)
      PROVE  OriginsDiffer'
  <2>1. \A d \in Conns \ {c} : conn'[d].site = conn[d].site
    BY <1>2 DEF Keeps
  <2>2. \/ conn'[c].site = conn[c].site
        \/ conn'[c].site = None
        \/ \A d \in Conns : conn[d].site # conn'[c].site
    BY <1>2 DEF Moves, Keeps, Redacted, Created, HandedOver
  <2> QED BY <2>1, <2>2 DEF OriginsDiffer
<1> QED BY <1>1, <1>2 DEF OriginStep, RowMoves

\* A row that is not a free one stays so, and one that lives on serves the accounts
\* it served: a row without website stays with its account.
LEMMA MovesKeepServing ==
  ASSUME NEW c \in Conns, RowOrigin(conn[c]), OriginStep, conn[c].status # "none"
  PROVE  /\ conn'[c].status # "none"
         /\ conn'[c].status \in Live =>
               /\ conn[c].status \in Live
               /\ \A x \in Accounts : Serves(conn[c], x) => Serves(conn'[c], x)
<1>1. Moves(c)
  BY DEF OriginStep, RowMoves, Moves
<1>2. CASE Keeps(c)
  BY <1>2, Statuses DEF Keeps, Serves
<1>3. CASE Redacted(c)
  BY <1>3, Statuses DEF Redacted
<1>4. ASSUME NEW y \in Accounts, HandedOver(c, y)
      PROVE  /\ conn'[c].status = "active" /\ conn[c].status \in Live
             /\ \A x \in Accounts : Serves(conn[c], x) => Serves(conn'[c], x)
  BY <1>4 DEF HandedOver, Serves, RowOrigin
<1> QED BY <1>1, <1>2, <1>3, <1>4, Statuses DEF Moves, Created

\* A request that goes on as it was still writes to a row of its account.
LEMMA CallStays ==
  ASSUME OriginOK, CallOK, OriginStep, NEW q \in Callers, call'[q] = call[q]
  PROVE  CallOrigin(call[q])'
<1>0. call[q].step \in SearchSteps => call[q].site \in Sites[call[q].account]
  BY DEF OriginOK, CallOrigin
<1> SUFFICES ASSUME call[q].step \in {"reissue", "revive"}
             PROVE  /\ conn'[call[q].conn].status # "none"
                    /\ conn'[call[q].conn].status \in Live =>
                          Serves(conn'[call[q].conn], call[q].account)
  BY <1>0 DEF CallOrigin, Serves
<1> DEFINE c == call[q].conn
<1>1. c \in Conns /\ call[q].account \in Accounts
  BY Searching
<1>2. /\ RowOrigin(conn[c]) /\ conn[c].status # "none"
      /\ conn[c].status \in Live => Serves(conn[c], call[q].account)
  BY <1>1 DEF OriginOK, CallOrigin
<1>3. /\ conn'[c].status # "none"
      /\ conn'[c].status \in Live =>
            /\ conn[c].status \in Live
            /\ \A x \in Accounts : Serves(conn[c], x) => Serves(conn'[c], x)
  BY <1>1, <1>2, MovesKeepServing
<1> QED BY <1>1, <1>2, <1>3

\* Only one request moves, and to a step that relies on no row or on one of its account.
LEMMA OriginKept ==
  ASSUME OriginOK, CallOK, OriginStep, NEW p \in Callers, NEW r,
         call' = [call EXCEPT ![p] = r],
         r.step \in SearchSteps => r.site \in Sites[r.account],
         r.step \in {"reissue", "revive"} =>
            /\ conn'[r.conn].status # "none"
            /\ conn'[r.conn].status \in Live => Serves(conn'[r.conn], r.account)
  PROVE  OriginOK'
<1>1. call'[p] = r /\ \A q \in Callers \ {p} : call'[q] = call[q]
  BY DEF CallOK
<1>2. \A c \in Conns : RowOrigin(conn'[c])
  BY MovesKeepRow DEF OriginOK, OriginStep, RowMoves, Moves
<1>3. OriginsDiffer'
  BY MovesKeepOrigins DEF OriginOK
<1>4. ASSUME NEW q \in Callers
      PROVE  CallOrigin(call[q])'
  <2>1. CASE q = p
    BY <1>1, <2>1 DEF CallOrigin, Serves
  <2>2. CASE q # p
    BY <1>1, <2>2, CallStays
  <2> QED BY <2>1, <2>2
<1> QED BY <1>2, <1>3, <1>4 DEF OriginOK, RowOrigin

\* A row that a search finds is redacted, or lives and is one for the account of the
\* request, unless it was found by its key and has another account.
Found(p, c, kind) ==
    \/ kind = "idempotency" /\ conn[c].key = call[p].key
    \/ kind = "account" /\ conn[c].account = call[p].account
    \/ kind = "site" /\ c \in SameSite(p)
\* A row that a search finds is redacted, or has another account's key, or lives and
\* serves the account.
LEMMA FoundRow ==
  ASSUME ManagedAssumption, DataOK, OriginOK, NEW p \in Callers, NEW c \in Conns, NEW kind,
         call[p].account \in Accounts, call[p].key \in InstallKeys,
         call[p].site \in Sites[call[p].account], Found(p, c, kind)
  PROVE  \/ conn[c].status = "redacted"
         \/ kind = "idempotency" /\ conn[c].account # call[p].account
         \/ conn[c].status \in Live /\ Serves(conn[c], call[p].account)
<1>1. RowOrigin(conn[c]) /\ conn[c].status \in Live \cup {"none", "redacted"}
  BY RowFields DEF OriginOK
<1>2. None \notin Accounts /\ None \notin InstallKeys
  BY DEF ManagedAssumption
<1>3. CASE kind = "idempotency" /\ conn[c].key = call[p].key
  BY <1>1, <1>2, <1>3 DEF RowOrigin, Serves
<1>4. CASE kind = "account" /\ conn[c].account = call[p].account
  BY <1>1, <1>2, <1>4, Statuses DEF RowOrigin, Serves
<1>5. CASE kind = "site" /\ c \in SameSite(p)
  BY <1>1, <1>2, <1>5, Statuses DEF RowOrigin, Serves, SameSite
<1> QED BY <1>3, <1>4, <1>5 DEF Found

\* A search is answered with a row that serves its account.
AnswersOwn(p) ==
    call'[p].step = "answer" => Serves(conn'[call'[p].conn], call[p].account)

\* A search that uses the row it found.
LEMMA UseOrigin ==
  ASSUME ManagedAssumption, DataOK, CallOK, OriginOK, Same, NEW p \in Callers, NEW c \in Conns,
         NEW kind, call[p].step \in SearchSteps, Found(p, c, kind), Uses(p, c, kind)
  PROVE  OriginOK' /\ AnswersOwn(p)
<1>1. /\ call[p].account \in Accounts /\ call[p].key \in InstallKeys
      /\ call[p] \in SearchCall /\ call[p].site \in Sites[call[p].account]
  BY Searching DEF SearchSteps, OriginOK, CallOrigin
<1>2. OriginStep
  BY DEF OriginStep, Keeps, Same
<1>4. call'[p] = UseExisting(p, c, kind)
  BY DEF CallOK, Uses
<1>5. CASE UseExisting(p, c, kind) = Idle
  <2>1. Idle.step = "idle"
    BY DEF Idle
  <2>2. call' = [call EXCEPT ![p] = Idle] /\ call'[p] = Idle
    BY <1>4, <1>5 DEF Uses
  <2>3. OriginOK'
    BY <1>2, <2>1, <2>2, OriginKept DEF SearchSteps
  <2> QED BY <2>1, <2>2, <2>3 DEF AnswersOwn
<1>6. CASE /\ UseExisting(p, c, kind) = Continue(p, c)
           /\ conn[c].status \in Live /\ Serves(conn[c], call[p].account)
  <2> DEFINE r == Continue(p, c)
  <2>1. /\ r.conn = c /\ r.step \in {"answer", "reissue", "revive"}
        /\ r.step \in {"reissue", "revive"} =>
              r.account = call[p].account /\ r.site = call[p].site
    BY <1>1 DEF Continue, Answer, SearchCall
  <2>2. call' = [call EXCEPT ![p] = r] /\ call'[p] = r /\ conn' = conn
    BY <1>4, <1>6 DEF Uses, Same
  <2> HIDE DEF r
  <2>3. OriginOK'
    BY <1>1, <1>2, <1>6, <2>1, <2>2, Statuses, OriginKept DEF SearchSteps
  <2> QED BY <1>6, <2>1, <2>2, <2>3 DEF AnswersOwn
<1> QED BY <1>1, <1>5, <1>6, FoundRow DEF UseExisting

\* A step of a search.
LEMMA FindOrigin ==
  ASSUME ManagedAssumption, DataOK, CallOK, OriginOK, NEW p \in Callers, FindStep(p)
  PROVE  OriginOK' /\ (call[p].step \in SearchSteps => AnswersOwn(p))
<1>0. Same
  BY DEF FindStep, findByKey, findByAccount, findByOrigin, Find, Same
<1>1. OriginStep
  BY <1>0 DEF OriginStep, Keeps, Same
<1>2. call[p].step \in SearchSteps
  BY DEF FindStep, findByKey, findByAccount, findByOrigin, Find, At, SearchSteps
<1>3. call[p] \in SearchCall /\ call[p].site \in Sites[call[p].account]
  BY <1>2, Searching DEF SearchSteps, OriginOK, CallOrigin
<1>a. ASSUME NEW step \in {"byAccount", "bySite", "create"},
             call' = [call EXCEPT ![p] = [call[p] EXCEPT !.step = step]]
      PROVE  OriginOK' /\ AnswersOwn(p)
  <2> DEFINE r == [call[p] EXCEPT !.step = step]
  <2>1. /\ r.step = step /\ step # "reissue" /\ step # "revive" /\ step # "answer"
        /\ r.site \in Sites[r.account]
    BY <1>3 DEF SearchCall
  <2>2. call' = [call EXCEPT ![p] = r] /\ call'[p] = r
    BY <1>a DEF CallOK
  <2> HIDE DEF r
  <2> QED BY <1>1, <2>1, <2>2, OriginKept DEF AnswersOwn
<1>b. ASSUME call' = [call EXCEPT ![p] = Idle]
      PROVE  OriginOK' /\ AnswersOwn(p)
  <2>1. call'[p] = Idle /\ Idle.step = "idle"
    BY <1>b DEF CallOK, Idle
  <2> QED BY <1>1, <1>b, <2>1, OriginKept DEF AnswersOwn, SearchSteps
<1>c. ASSUME NEW c \in Conns, NEW kind, Found(p, c, kind), Uses(p, c, kind)
      PROVE  OriginOK' /\ AnswersOwn(p)
  BY <1>c, <1>0, <1>2, UseOrigin
<1>4. CASE findByKey(p)
  BY <1>4, <1>a, <1>c DEF findByKey, Find, Uses, Found
<1>5. CASE findByAccount(p)
  BY <1>5, <1>a, <1>c DEF findByAccount, Find, Uses, Found
<1>6. CASE findByOrigin(p)
  <2>1. \/ \E c \in Conns : Found(p, c, "site") /\ Uses(p, c, "site")
        \/ call' = [call EXCEPT ![p] = IF call[p].again THEN Idle
                                       ELSE [call[p] EXCEPT !.step = "create"]]
    BY <1>6 DEF findByOrigin, Find, SameSite, Uses, Found
  <2>2. CASE call' = [call EXCEPT ![p] = Idle]
    BY <2>2, <1>b
  <2>3. CASE call' = [call EXCEPT ![p] = [call[p] EXCEPT !.step = "create"]]
    BY <2>3, <1>a
  <2> QED BY <2>1, <2>2, <2>3, <1>c
<1> QED BY <1>4, <1>5, <1>6 DEF FindStep

\* Another step that writes no row begins or ends a request, or starts a search again.
LEMMA QuietOrigin ==
  ASSUME ManagedAssumption, DataOK, CallOK, OriginOK, NEW p \in Callers, QuietStep(p)
  PROVE  OriginOK' /\ (call[p].step \in SearchSteps => AnswersOwn(p))
<1>0. Same
  BY DEF QuietStep, Provision, createRefused, Crash, SendAck, Manage, transitionRead, Same
<1>a. OriginStep
  BY <1>0 DEF OriginStep, Keeps, Same
<1>b. ASSUME NEW r, call' = [call EXCEPT ![p] = r],
             r.step \notin {"reissue", "revive", "answer"},
             r.step \in SearchSteps => r.site \in Sites[r.account]
      PROVE  OriginOK' /\ AnswersOwn(p)
  <2>1. r.step # "reissue" /\ r.step # "revive" /\ r.step # "answer" /\ call'[p] = r
    BY <1>b DEF CallOK
  <2> QED BY <1>a, <1>b, <2>1, OriginKept DEF AnswersOwn
<1>1. ASSUME NEW x \in Accounts, NEW k \in InstallKeys, NEW s \in Sites[x], Provision(p, x, s, k)
      PROVE  OriginOK' /\ AnswersOwn(p)
  <2> DEFINE r == [step |-> "byKey", account |-> x, site |-> s, key |-> k, conn |-> None,
                   again |-> FALSE]
  <2>1. r.step = "byKey" /\ r.site \in Sites[r.account] /\ call' = [call EXCEPT ![p] = r]
    BY <1>1 DEF Provision
  <2> HIDE DEF r
  <2> QED BY <2>1, <1>b
<1>2. CASE createRefused(p)
  <2> DEFINE r == [call[p] EXCEPT !.step = "byKey", !.again = TRUE]
  <2>1. call[p] \in SearchCall /\ call[p].site \in Sites[call[p].account]
    BY <1>2, Searching DEF createRefused, At, OriginOK, CallOrigin, SearchSteps
  <2>2. /\ r.step = "byKey" /\ call' = [call EXCEPT ![p] = r]
        /\ r.site \in Sites[r.account]
    BY <1>2, <2>1 DEF createRefused, CallOK, SearchCall
  <2> HIDE DEF r
  <2> QED BY <2>2, <1>b
<1>3. CASE Crash(p)
  BY <1>3, <1>b DEF Crash, Finish, Idle, SearchSteps
<1>4. ASSUME NEW c \in Conns, SendAck(p, c)
      PROVE  OriginOK' /\ AnswersOwn(p)
  BY <1>4, <1>b DEF SendAck, SearchSteps
<1>5. ASSUME NEW c \in Conns, NEW op \in Targets \cup {"rotate", "redact"}, Manage(p, c, op)
      PROVE  OriginOK' /\ AnswersOwn(p)
  BY <1>5, <1>b DEF Manage, Targets, SearchSteps
<1>6. ASSUME NEW to \in Targets, transitionRead(p, to)
      PROVE  OriginOK' /\ AnswersOwn(p)
  <2> DEFINE r == IF conn[call[p].conn].status \in From(to)
                  THEN [step |-> "write", conn |-> call[p].conn, to |-> to] ELSE Idle
  <2>1. r.step \notin {"reissue", "revive", "answer"} /\ r.step \notin SearchSteps
    BY DEF Idle, SearchSteps
  <2>2. call' = [call EXCEPT ![p] = r]
    BY <1>6 DEF transitionRead
  <2> HIDE DEF r
  <2> QED BY <2>1, <2>2, <1>b
<1> QED BY <1>1, <1>2, <1>3, <1>4, <1>5, <1>6 DEF QuietStep

\* A step that leaves the identity of every row.
LEMMA KeepsAll ==
  ASSUME DataOK, NEW c \in Conns, NEW row, conn' = [conn EXCEPT ![c] = row],
         row.key = conn[c].key, row.account = conn[c].account, row.site = conn[c].site,
         row.status = conn[c].status \/ (conn[c].status \in Live /\ row.status \in Live)
  PROVE  OriginStep
  BY DEF DataOK, OriginStep, Keeps

\* A connection is created for a website that no row has.
LEMMA CreateOrigin ==
  ASSUME DataOK, CallOK, OriginOK, NEW p \in Callers, NEW c \in Conns, createConnection(p, c)
  PROVE  OriginStep /\ conn'[c].account = call[p].account
<1> DEFINE x == call[p].account
           s == call[p].site
           row == [status |-> "active", key |-> call[p].key, account |-> x, site |-> s,
                   version |-> 1, pending |-> TRUE]
<1>1. x \in Accounts /\ conn[c].status = "none" /\ s \in Sites[x]
  BY Searching DEF createConnection, At, OriginOK, CallOrigin, SearchSteps
<1>2. s # None => \A d \in Conns : conn[d].site # s
  BY DEF createConnection, Taken, SameSite
<1>3. conn' = [conn EXCEPT ![c] = row]
  BY DEF createConnection
<1>4. conn'[c] = row /\ \A d \in Conns \ {c} : conn'[d] = conn[d]
  BY <1>3 DEF DataOK
<1>5. row.status = "active" /\ row.account = x /\ row.site = s
  OBVIOUS
<1> HIDE DEF row
<1>6. Created(c, x)
  BY <1>1, <1>2, <1>4, <1>5 DEF Created
<1>7. \A d \in Conns \ {c} : Keeps(d)
  BY <1>4 DEF Keeps
<1> QED BY <1>1, <1>4, <1>5, <1>6, <1>7 DEF OriginStep, RowMoves, Moves

\* A connection is given to a request for its account, or for one that it serves.
LEMMA ReissueOrigin ==
  ASSUME DataOK, CallOK, OriginOK, NEW p \in Callers, reissue(p)
  PROVE  /\ OriginStep
         /\ \/ call' = [call EXCEPT ![p] = Idle]
            \/ /\ call' = [call EXCEPT ![p] = Answer(call[p].conn, conn'[call[p].conn])]
               /\ conn'[call[p].conn].account = call[p].account
<1> DEFINE c == call[p].conn
           x == call[p].account
           row == [conn[c] EXCEPT !.key = call[p].key, !.account = x, !.status = "active",
                      !.version = IF conn[c].pending THEN @ ELSE @ + 1, !.pending = TRUE]
<1>1. c \in Conns /\ x \in Accounts /\ call[p].step = "reissue"
  BY Searching DEF reissue, At
<1>2. CASE UNCHANGED conn /\ call' = [call EXCEPT ![p] = Idle]
  BY <1>2 DEF OriginStep, Keeps
<1>3. CASE /\ IsLive(c) /\ call' = [call EXCEPT ![p] = Answer(c, conn'[c])]
           /\ conn' = [conn EXCEPT
                ![c].key = call[p].key, ![c].account = x, ![c].status = "active",
                ![c].version = IF conn[c].pending THEN @ ELSE @ + 1, ![c].pending = TRUE]
  <2>1. conn' = [conn EXCEPT ![c] = row]
    BY <1>1, <1>3 DEF DataOK, Row
  <2>2. conn[c] \in Row
    BY <1>1, RowFields
  <2>3. row.status = "active" /\ row.account = x /\ row.site = conn[c].site
    BY <2>2 DEF Row
  <2>4. conn[c].status \in Live /\ Serves(conn[c], x)
    BY <1>1, <1>3 DEF IsLive, OriginOK, CallOrigin
  <2> HIDE DEF row
  <2>5. conn'[c] = row /\ \A d \in Conns \ {c} : conn'[d] = conn[d]
    BY <1>1, <2>1 DEF DataOK
  <2>6. HandedOver(c, x)
    BY <2>3, <2>4, <2>5 DEF HandedOver
  <2>7. \A d \in Conns \ {c} : Keeps(d)
    BY <2>5 DEF Keeps
  <2> QED BY <1>1, <1>3, <2>3, <2>5, <2>6, <2>7 DEF OriginStep, RowMoves, Moves
<1> QED BY <1>2, <1>3 DEF reissue, Finish

\* Redaction takes account and website from the row.
LEMMA RedactOrigin ==
  ASSUME DataOK, CallOK, NEW p \in Callers, redactManagedConnection(p)
  PROVE  OriginStep
<1> DEFINE c == call[p].conn
           row == [conn[c] EXCEPT !.status = "redacted", !.account = None, !.site = None,
                                  !.pending = FALSE]
<1>1. c \in Conns
  BY Managing DEF redactManagedConnection, At
<1>2. conn' = [conn EXCEPT ![c] = row]
  BY <1>1 DEF redactManagedConnection, DataOK, Row
<1>3. conn[c] \in Row
  BY <1>1, RowFields
<1>4. row.status = "redacted" /\ row.account = None /\ row.site = None
  BY <1>3 DEF Row
<1> HIDE DEF row
<1>5. conn'[c] = row /\ \A d \in Conns \ {c} : conn'[d] = conn[d]
  BY <1>1, <1>2 DEF DataOK
<1>6. Redacted(c) /\ \A d \in Conns \ {c} : Keeps(d)
  BY <1>4, <1>5 DEF Redacted, Keeps
<1> QED BY <1>1, <1>6 DEF OriginStep, RowMoves, Moves

\* A change of status between live ones, of the version or of the bundle leaves the
\* identity of the row.
LEMMA KeepOrigin ==
  ASSUME DataOK, CallOK, NEW p \in Callers,
         \/ revive(p) \/ transitionWrite(p) \/ Persist(p) \/ rotateManagedCredentials(p)
         \/ acknowledgeManagedCredentials(p)
  PROVE  OriginStep
<1>a. UNCHANGED conn => OriginStep
  BY DEF OriginStep, Keeps
<1>b. ASSUME NEW c \in Conns, NEW to \in Live, conn[c].status \in Live,
             conn' = [conn EXCEPT ![c].status = to]
      PROVE  OriginStep
  <2> DEFINE row == [conn[c] EXCEPT !.status = to]
  <2>1. conn' = [conn EXCEPT ![c] = row] /\ conn[c] \in Row
    BY <1>b DEF DataOK
  <2>2. /\ row.key = conn[c].key /\ row.account = conn[c].account
        /\ row.site = conn[c].site /\ row.status \in Live
    BY <2>1 DEF Row
  <2> HIDE DEF row
  <2> QED BY <1>b, <2>1, <2>2, KeepsAll
<1>1. CASE revive(p)
  <2>1. call[p].conn \in Conns
    BY <1>1, Searching DEF revive, At
  <2> QED BY <1>1, <2>1, <1>a, <1>b, Statuses DEF revive
<1>2. CASE transitionWrite(p)
  <2> DEFINE c == call[p].conn
             to == call[p].to
  <2>1. c \in Conns /\ to \in Targets
    BY <1>2, Transitioning DEF transitionWrite, At
  <2>2. CASE conn[c].status \in From(to)
    <3>1. conn[c].status \in Live /\ to \in Live
      BY <2>1, <2>2 DEF Targets, From, Live
    <3>2. conn' = [conn EXCEPT ![c].status = to]
      BY <1>2, <2>2 DEF transitionWrite
    <3> QED BY <2>1, <3>1, <3>2, <1>b
  <2>3. CASE conn[c].status \notin From(to)
    <3>1. conn' = [conn EXCEPT ![c].status = @]
      BY <1>2, <2>3 DEF transitionWrite
    <3>2. conn' = conn
      BY <2>1, <3>1 DEF DataOK, Row
    <3> QED BY <3>2, <1>a
  <2> QED BY <2>2, <2>3
<1>3. CASE Persist(p)
  BY <1>3, <1>a DEF Persist
<1>4. CASE rotateManagedCredentials(p)
  <2> DEFINE c == call[p].conn
             row == [conn[c] EXCEPT !.version = IF conn[c].pending THEN @ ELSE @ + 1,
                                    !.pending = TRUE]
  <2>1. c \in Conns
    BY <1>4, Managing DEF rotateManagedCredentials, At
  <2>2. CASE conn' = [conn EXCEPT ![c].version = IF conn[c].pending THEN @ ELSE @ + 1,
                                  ![c].pending = TRUE]
    <3>1. conn' = [conn EXCEPT ![c] = row] /\ conn[c] \in Row
      BY <2>1, <2>2 DEF DataOK
    <3>2. /\ row.key = conn[c].key /\ row.account = conn[c].account
          /\ row.site = conn[c].site /\ row.status = conn[c].status
      BY <3>1 DEF Row
    <3> HIDE DEF row
    <3> QED BY <2>1, <3>1, <3>2, KeepsAll
  <2> QED BY <1>4, <1>a, <2>2 DEF rotateManagedCredentials
<1>5. CASE acknowledgeManagedCredentials(p)
  <2> DEFINE c == call[p].conn
             row == [conn[c] EXCEPT !.pending = FALSE]
  <2>1. c \in Conns
    BY <1>5, Acknowledging DEF acknowledgeManagedCredentials, At
  <2>2. CASE conn' = [conn EXCEPT ![c].pending = FALSE]
    <3>1. conn' = [conn EXCEPT ![c] = row] /\ conn[c] \in Row
      BY <2>1, <2>2 DEF DataOK
    <3>2. /\ row.key = conn[c].key /\ row.account = conn[c].account
          /\ row.site = conn[c].site /\ row.status = conn[c].status
      BY <3>1 DEF Row
    <3> HIDE DEF row
    <3> QED BY <2>1, <3>1, <3>2, KeepsAll
  <2> QED BY <1>5, <1>a, <2>2 DEF acknowledgeManagedCredentials
<1> QED BY <1>1, <1>2, <1>3, <1>4, <1>5

\* The steps that write a row.
LEMMA WriteOrigin ==
  ASSUME ManagedAssumption, DataOK, CallOK, OriginOK, NEW p \in Callers, WriteStep(p)
  PROVE  OriginOK' /\ (call[p].step \in SearchSteps => AnswersOwn(p))
<1>1. OriginStep
  BY CreateOrigin, ReissueOrigin, RedactOrigin, KeepOrigin DEF WriteStep
<1>a. ASSUME NEW r, r.step # "reissue", r.step # "revive", call' = [call EXCEPT ![p] = r],
             r.step \in SearchSteps => r.site \in Sites[r.account]
      PROVE  OriginOK' /\ call'[p] = r
  BY <1>a, <1>1, OriginKept DEF CallOK
<1>b. ASSUME call' = [call EXCEPT ![p] = Idle]
      PROVE  OriginOK' /\ AnswersOwn(p)
  <2>1. Idle.step = "idle" /\ Idle.step \notin SearchSteps
    BY DEF Idle, SearchSteps
  <2>2. OriginOK' /\ call'[p] = Idle
    BY <1>a, <1>b, <2>1
  <2> QED BY <2>1, <2>2 DEF AnswersOwn
<1>c. ASSUME NEW c \in Conns, call' = [call EXCEPT ![p] = Answer(c, conn'[c])],
             call[p].step \in SearchSteps => Serves(conn'[c], call[p].account)
      PROVE  OriginOK' /\ (call[p].step \in SearchSteps => AnswersOwn(p))
  <2> DEFINE r == Answer(c, conn'[c])
  <2>1. r.step = "answer" /\ r.conn = c /\ r.step \notin SearchSteps
    BY DEF Answer, SearchSteps
  <2>2. call' = [call EXCEPT ![p] = r]
    BY <1>c
  <2> HIDE DEF r
  <2>3. OriginOK' /\ call'[p] = r
    BY <1>a, <2>1, <2>2
  <2> QED BY <1>c, <2>1, <2>3 DEF AnswersOwn
<1>2. ASSUME NEW c \in Conns, createConnection(p, c)
      PROVE  OriginOK' /\ (call[p].step \in SearchSteps => AnswersOwn(p))
  <2>1. conn'[c].account = call[p].account
    BY <1>2, CreateOrigin
  <2>2. call' = [call EXCEPT ![p] = Answer(c, conn'[c])]
    BY <1>2 DEF createConnection
  <2> QED BY <1>c, <2>1, <2>2 DEF Serves
<1>3. CASE reissue(p)
  <2>1. call[p].conn \in Conns
    BY <1>3, Searching DEF reissue, At
  <2> QED BY <1>3, <2>1, <1>b, <1>c, ReissueOrigin DEF Serves
<1>4. CASE rotateManagedCredentials(p)
  <2>1. call[p].conn \in Conns /\ call[p].step = "rotate"
    BY <1>4, Managing DEF rotateManagedCredentials, At
  <2> QED BY <1>4, <2>1, <1>b, <1>c DEF rotateManagedCredentials, Finish, SearchSteps
<1>5. CASE revive(p)
  <2> DEFINE c == call[p].conn
  <2>1. call[p] \in SearchCall /\ c \in Conns /\ call[p].step = "revive"
    BY <1>5, Searching DEF revive, At
  <2>2. CASE call' = [call EXCEPT ![p].step = "byKey", ![p].again = TRUE]
    <3> DEFINE r == [call[p] EXCEPT !.step = "byKey", !.again = TRUE]
    <3>1. r.step = "byKey" /\ r.site \in Sites[r.account]
      BY <2>1 DEF SearchCall, OriginOK, CallOrigin, SearchSteps
    <3>2. call' = [call EXCEPT ![p] = r]
      BY <2>1, <2>2 DEF CallOK, SearchCall
    <3> HIDE DEF r
    <3>3. OriginOK' /\ call'[p] = r
      BY <1>a, <3>1, <3>2
    <3> QED BY <3>1, <3>3 DEF AnswersOwn
  <2>3. CASE /\ conn[c].status \in {"suspended", "uninstalled"}
             /\ conn' = [conn EXCEPT ![c].status = "active"]
             /\ call' = [call EXCEPT ![p] = Answer(c, conn'[c])]
    <3>1. conn'[c].account = conn[c].account /\ conn'[c].site = conn[c].site
      BY <2>1, <2>3 DEF DataOK, Row
    <3>2. Serves(conn[c], call[p].account)
      BY <2>1, <2>3, Statuses DEF OriginOK, CallOrigin
    <3> QED BY <2>1, <2>3, <3>1, <3>2, <1>c DEF Serves
  <2> QED BY <1>5, <2>2, <2>3 DEF revive
<1>6. CASE transitionWrite(p) \/ Persist(p) \/ acknowledgeManagedCredentials(p)
           \/ redactManagedConnection(p)
  BY <1>6, <1>b DEF transitionWrite, Persist, acknowledgeManagedCredentials,
     redactManagedConnection, Finish
<1> QED BY <1>2, <1>3, <1>4, <1>5, <1>6 DEF WriteStep

\* A step moves one request.
LEMMA CallElsewhere ==
  ASSUME CallOK, NEW p \in Callers, FindStep(p) \/ QuietStep(p) \/ WriteStep(p),
         NEW q \in Callers, q # p
  PROVE  call'[q] = call[q]
<1>1. \A r : call' = [call EXCEPT ![p] = r] => call'[q] = call[q]
  BY DEF CallOK
<1>2. call' = [call EXCEPT ![p].step = "byKey", ![p].again = TRUE] => call'[q] = call[q]
  BY DEF CallOK
<1>3. CASE FindStep(p)
  BY <1>1, <1>3 DEF FindStep, findByKey, findByAccount, findByOrigin, Find
<1>4. CASE QuietStep(p)
  BY <1>1, <1>2, <1>4 DEF QuietStep, Provision, createRefused, Crash, Finish, SendAck, Manage,
     transitionRead
<1>5. CASE WriteStep(p)
  BY <1>1, <1>2, <1>5 DEF WriteStep, createConnection, reissue, rotateManagedCredentials,
     revive, transitionWrite, Persist, acknowledgeManagedCredentials, redactManagedConnection,
     Finish
<1> QED BY <1>3, <1>4, <1>5

\* What holds of accounts and websites holds always, and answers are to those a row serves.
OriginInv == IInv /\ OriginOK
\* A step keeps it, and what a search answers with serves its account.
LEMMA OriginNext ==
  ASSUME ManagedAssumption, OriginInv, [Next]_vars
  PROVE  /\ OriginInv'
         /\ \A p \in Callers : call[p].step \in SearchSteps /\ call'[p].step = "answer"
               => Serves(conn'[call'[p].conn], call[p].account)
<1>0. DataOK /\ CallOK /\ OriginOK /\ IInv'
  BY NextInv DEF OriginInv, IInv
<1>1. ASSUME NEW p \in Callers, FindStep(p) \/ QuietStep(p) \/ WriteStep(p)
      PROVE  /\ OriginOK' /\ (call[p].step \in SearchSteps => AnswersOwn(p))
             /\ \A q \in Callers \ {p} : call'[q] = call[q]
  <2>1. OriginOK' /\ (call[p].step \in SearchSteps => AnswersOwn(p))
    BY <1>0, <1>1, FindOrigin, QuietOrigin, WriteOrigin
  <2>2. \A q \in Callers \ {p} : call'[q] = call[q]
    BY <1>0, <1>1, CallElsewhere
  <2> QED BY <2>1, <2>2
<1>2. CASE UNCHANGED vars
  <2>1. OriginOK'
    BY <1>0, <1>2 DEF vars, OriginOK, RowOrigin, OriginsDiffer, CallOrigin, Serves
  <2>2. call' = call
    BY <1>2 DEF vars
  <2> QED BY <1>0, <2>1, <2>2 DEF OriginInv, SearchSteps
<1>3. ASSUME NEW p \in Callers, FindStep(p) \/ QuietStep(p) \/ WriteStep(p)
      PROVE  /\ OriginInv'
             /\ \A q \in Callers : call[q].step \in SearchSteps /\ call'[q].step = "answer"
                   => Serves(conn'[call'[q].conn], call[q].account)
  BY <1>0, <1>1, <1>3 DEF OriginInv, AnswersOwn, SearchSteps
<1> QED BY <1>2, <1>3, Steps

\* Rows and answers in flight keep to their account always.
LEMMA OriginInvariance == Spec => []OriginInv
<1>1. Init => OriginInv
  <2> SUFFICES ASSUME Init
               PROVE  OriginInv
    OBVIOUS
  <2>1. IInv
    BY InitInv, ManagedAssumption
  <2>2. OriginOK
    BY DEF Init, OriginOK, RowOrigin, OriginsDiffer, CallOrigin, NoRow, Idle, Live, SearchSteps
  <2> QED BY <2>1, <2>2 DEF OriginInv
<1>2. OriginInv /\ [Next]_vars => OriginInv'
  BY OriginNext, ManagedAssumption
<1> QED BY <1>1, <1>2, PTL DEF Spec

\* An account that always sends one and the same website has one connection, and
\* with it one app: the unique origin of an app is what keeps a second one out.
THEOREM OneAppHolds == Spec => []OneAppPerAccount
<1>1. OriginInv => OneAppPerAccount
  <2> SUFFICES ASSUME OriginInv, NEW c \in Conns, NEW d \in Conns, c # d,
                      conn[c].account # None, NEW s \in Origins \ {None},
                      Sites[conn[c].account] = {s}, conn[c].account = conn[d].account
               PROVE  FALSE
    BY DEF OneAppPerAccount
  <2>1. /\ RowOrigin(conn[c]) /\ RowOrigin(conn[d])
        /\ conn[c].site # None => conn[c].site # conn[d].site
    BY DEF OriginInv, OriginOK, OriginsDiffer
  <2>2. conn[c].site = s /\ conn[d].site = s
    BY <2>1 DEF RowOrigin
  <2> QED BY <2>1, <2>2
<1> QED BY <1>1, OriginInvariance, PTL

\* No answer to a provisioning request carries the credentials of another account's
\* installation, but for one whose website the account sends too.
THEOREM AnswersStayOwn == Spec => NoForeignCredentials
<1> DEFINE A == \A p \in Callers :
                   (call[p].step \in SearchSteps /\ call'[p].step = "answer")
                   => \/ conn'[call'[p].conn].account = call[p].account
                      \/ conn'[call'[p].conn].site \in Sites[call[p].account] \ {None}
<1>1. OriginInv /\ [Next]_vars => A
  <2> SUFFICES ASSUME OriginInv, [Next]_vars, NEW p \in Callers,
                      call[p].step \in SearchSteps, call'[p].step = "answer"
               PROVE  \/ conn'[call'[p].conn].account = call[p].account
                      \/ conn'[call'[p].conn].site \in Sites[call[p].account] \ {None}
    OBVIOUS
  <2>1. Serves(conn'[call'[p].conn], call[p].account)
    BY OriginNext, ManagedAssumption
  <2> QED BY <2>1 DEF Serves
<1>2. OriginInv /\ [Next]_vars => [A]_vars
  BY <1>1
<1> QED BY <1>2, OriginInvariance, PTL DEF Spec, NoForeignCredentials, SearchSteps
=============================================================================

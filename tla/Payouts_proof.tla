---------------------------- MODULE Payouts_proof ----------------------------
(***************************************************************************)
(* Proofs about Payouts for any number of affiliates, batches, requests,   *)
(* ledger rows and overlapping calls.                                      *)
(***************************************************************************)
EXTENDS Payouts, TLAPS

Statuses == {"none", "draft", "prepared", "paid", "cancelled"}

\* The rows that stand for none have the types of rows.
LEMMA NoRowsTyped ==
    /\ NoEntry \in EntryRow
    /\ NoItem \in ItemRow
    /\ NoExec \in ExecRow
    /\ NoRequest \in RequestRow
  BY PayoutsAssumption DEF NoEntry, EntryRow, NoItem, ItemRow, NoExec, ExecRow, NoRequest, RequestRow, EntryIds

\* A row whose status is set to another of its statuses keeps its type.
LEMMA StatusSet ==
    /\ \A i \in ItemRow, s \in {"pending", "paid", "failed"} : [i EXCEPT !.status = s] \in ItemRow
    /\ \A x \in ExecRow : [x EXCEPT !.status = "succeeded", !.source = "manual"] \in ExecRow
    /\ \A q \in RequestRow : [q EXCEPT !.status = "declined", !.alloc = {}] \in RequestRow
<1>1. \A i \in ItemRow, s \in {"pending", "paid", "failed"} : [i EXCEPT !.status = s] \in ItemRow
  BY DEF ItemRow
<1>2. \A x \in ExecRow : [x EXCEPT !.status = "succeeded", !.source = "manual"] \in ExecRow
  BY DEF ExecRow
<1>3. \A q \in RequestRow : [q EXCEPT !.status = "declined", !.alloc = {}] \in RequestRow
  BY DEF RequestRow, EntryIds
<1> QED
  BY <1>1, <1>2, <1>3

\* Stamping the rows of a batch keeps the type of the item table.
LEMMA StampTyped ==
    ASSUME NEW items \in [Batches -> [EntryIds -> ItemRow]], NEW b \in Batches,
           NEW status \in {"draft", "prepared", "paid", "cancelled"}
    PROVE  /\ StampItems(items, b, status) \in [Batches -> [EntryIds -> ItemRow]]
           /\ \A b2 \in Batches, e \in EntryIds :
                 /\ StampItems(items, b, status)[b2][e].status = items[b2][e].status
                 /\ StampItems(items, b, status)[b2][e].batchStatus =
                       IF b2 = b /\ items[b2][e].status # "none" THEN status ELSE items[b2][e].batchStatus
<1>1. \A e \in EntryIds : /\ items[b][e] \in ItemRow
                          /\ [items[b][e] EXCEPT !.batchStatus = status] \in ItemRow
                          /\ [items[b][e] EXCEPT !.batchStatus = status].status = items[b][e].status
                          /\ [items[b][e] EXCEPT !.batchStatus = status].batchStatus = status
  BY DEF ItemRow
<1> QED
  BY <1>1 DEF StampItems

\* Everything has its type before the first call.
THEOREM InitTyped == Init => TypeOK
<1> SUFFICES ASSUME Init PROVE TypeOK
  OBVIOUS
<1>1. entry \in [EntryIds -> EntryRow]
  BY PayoutsAssumption, NoRowsTyped DEF Init, EntryIds
<1>2. call \in [Callers -> CallType]
  BY DEF Init, CallType
<1> QED
  BY <1>1, <1>2, PayoutsAssumption, NoRowsTyped DEF Init, TypeOK

\* What a call in flight carries, by the step it has reached.
LEMMA CallFields ==
    ASSUME TypeOK, NEW c \in Callers
    PROVE  /\ call[c].op = "reserve" => /\ call[c].listed \in EntrySets
                                        /\ call[c].outstanding \in [Affiliates -> Amounts]
           /\ call[c].op = "insert" => /\ call[c].listed \in EntrySets
                                       /\ call[c].outstanding \in [Affiliates -> Amounts]
                                       /\ call[c].reserved \in [Affiliates -> Amounts]
           /\ call[c].op = "resolve" => /\ call[c].batch \in Batches /\ call[c].entry \in EntryIds
                                        /\ call[c].status \in {"pending", "paid", "failed"}
           /\ call[c].op = "cancel" => call[c].batch \in Batches
           /\ call[c].op = "payrun" => call[c].batch \in Batches /\ call[c].paid \in EntrySets
           /\ call[c].op = "markpaid" => /\ call[c].batch \in Batches /\ call[c].affiliate \in Affiliates
                                         /\ call[c].source \in {"manual", "external"}
                                         /\ call[c].key \in Keys \cup {None}
           /\ call[c].op = "balance" => call[c].affiliate \in Affiliates /\ call[c].amount \in Amounts
           /\ call[c].op = "request" => /\ call[c].affiliate \in Affiliates /\ call[c].amount \in Amounts
                                        /\ call[c].listed \in EntrySets
           /\ call[c].op = "save" => call[c].affiliate \in Affiliates
<1>1. call[c] \in CallType
  BY DEF TypeOK
<1> QED
  BY <1>1 DEF CallType, Idle

\* A call that moves on to a typed record, or ends, keeps the calls typed.
LEMMA CallMoves ==
    ASSUME TypeOK, NEW c \in Callers, NEW r \in CallType, call' = [call EXCEPT ![c] = r]
    PROVE  call' \in [Callers -> CallType]
  BY DEF TypeOK

\* A caller without a call is one of the calls' types.
LEMMA IdleTyped == Idle \in CallType
  BY DEF CallType

\* Adding a typed ledger row, and marking rows paid or settled, keep the ledger typed.
LEMMA AddEntryTyped ==
    ASSUME TypeOK, NEW row \in EntryRow, AddEntry(row)
    PROVE  used' \in 0 .. MaxEntries /\ entry' \in [EntryIds -> EntryRow]
  BY PayoutsAssumption DEF TypeOK, AddEntry, EntryIds

\* Marking ledger rows paid and their debt settled keeps the ledger typed.
LEMMA PayEntriesTyped ==
    ASSUME TypeOK, NEW paid, NEW owners, NEW rows, PayEntries(paid, owners, rows)
    PROVE  entry' \in [EntryIds -> EntryRow]
<1>1. \A e \in EntryIds : /\ [entry[e] EXCEPT !.status = "paid"] \in EntryRow
                          /\ [entry[e] EXCEPT !.status = "settled"] \in EntryRow
                          /\ entry[e] \in EntryRow
  BY DEF TypeOK, EntryRow
<1> QED
  BY <1>1 DEF PayEntries

\* Fulfilling requests keeps them typed.
LEMMA FulfilTyped ==
    ASSUME TypeOK, NEW b, NEW owners, NEW entries, NEW rows, Fulfil(b, owners, entries, rows)
    PROVE  request' \in [Requests -> RequestRow]
<1>1. \A r \in Requests : /\ [request[r] EXCEPT !.status = "fulfilled"] \in RequestRow
                          /\ request[r] \in RequestRow
  BY DEF TypeOK, RequestRow
<1> QED
  BY <1>1 DEF Fulfil

\* Preparing a batch keeps batches, items and snapshots typed.
LEMMA PrepareTyped ==
    ASSUME TypeOK, NEW b \in Batches, Prepare(b)
    PROVE  /\ batch' \in [Batches -> Statuses]
           /\ item' \in [Batches -> [EntryIds -> ItemRow]]
           /\ snap' \in [Batches -> [Affiliates -> 0 .. MaxDetails]]
<1>1. item' \in [Batches -> [EntryIds -> ItemRow]]
  BY StampTyped DEF TypeOK, Prepare
<1> QED
  BY <1>1 DEF TypeOK, Prepare, Statuses

-----------------------------------------------------------------------------
(* Type correctness, one step per action.                                  *)

\* What revenue, disputes and reviews do to the ledger keeps everything typed.
LEMMA RevenueTyped == TypeOK /\ Revenue => TypeOK'
<1> SUFFICES ASSUME TypeOK, Revenue PROVE TypeOK'
  OBVIOUS
<1>1. ASSUME NEW a \in Affiliates, NEW x \in Commissions, EarnCommission(a, x) PROVE TypeOK'
  <2>1. [owner |-> a, amount |-> x, kind |-> "earned", status |-> "approved", of |-> 0] \in EntryRow
    BY PayoutsAssumption DEF EntryRow
  <2> QED
    BY <1>1, <2>1, AddEntryTyped DEF EarnCommission, TypeOK
<1>2. ASSUME NEW e \in EntryIds, NEW x \in Refunds, RefundCommission(e, x) PROVE TypeOK'
  <2> DEFINE reversal == [owner |-> entry[e].owner, amount |-> -x, kind |-> "refund_reversal",
                          status |-> "approved", of |-> e]
             debt == [reversal EXCEPT !.amount = x, !.kind = "recovery_debt", !.status = "outstanding"]
  <2>1. entry[e].owner \in Affiliates \cup {None} /\ {x, -x} \subseteq Amounts /\ e \in 0 .. MaxEntries
    BY <1>2, PayoutsAssumption DEF TypeOK, EntryRow, RefundCommission, EntryIds
  <2>2. reversal \in EntryRow /\ debt \in EntryRow
    BY <2>1 DEF EntryRow
  <2>3. \E row \in EntryRow : AddEntry(row)
    BY <1>2, <2>2 DEF RefundCommission
  <2> QED
    BY <1>2, <2>3, AddEntryTyped DEF RefundCommission, TypeOK
<1>3. ASSUME NEW e \in Disputable, markEntriesDisputed(e) \/ restoreDisputedEntries(e) PROVE TypeOK'
  <2>1. e \in EntryIds
    BY PayoutsAssumption
  <2>2. \A status \in {"approved", "disputed"} : [entry[e] EXCEPT !.status = status] \in EntryRow
    BY <2>1 DEF TypeOK, EntryRow
  <2> QED
    BY <1>3, <2>1, <2>2 DEF markEntriesDisputed, restoreDisputedEntries, TypeOK
<1> QED
  BY <1>1, <1>2, <1>3 DEF Revenue

\* The reads and single steps of calls about a batch keep everything typed.
LEMMA BatchCallTyped ==
    ASSUME TypeOK, NEW c \in Callers, NEW b \in Batches
    PROVE  /\ createPayoutRunInsert(c, b) => TypeOK'
           /\ \A e \in EntryIds, status \in {"pending", "paid", "failed"} :
                 resolvePayoutItemRead(c, b, e, status) => TypeOK'
           /\ cancelPayoutRunRead(c, b) => TypeOK'
           /\ markPayoutRunPaidRead(c, b) => TypeOK'
           /\ \A a \in Affiliates, source \in {"manual", "external"}, key \in Keys \cup {None} :
                 markAffiliatePayoutPaidRead(c, b, a, source, key) => TypeOK'
<1>1. ASSUME createPayoutRunInsert(c, b) PROVE TypeOK'
  <2>1. item' \in [Batches -> [EntryIds -> ItemRow]]
    <3> DEFINE available(a) == call[c].outstanding[a] - call[c].reserved[a]
               amount(e) == PayoutAmount(e, call[c].listed, available(entry[e].owner))
               total(a) == MapThenSumSet(amount, {e \in call[c].listed : entry[e].owner = a})
               kept == {e \in call[c].listed : total(entry[e].owner) > 0}
               requestOf(e) == {r \in Requests : request[r].status = "open" /\ e \in request[r].alloc}
               row(e) == IF e \in kept
                         THEN [amount |-> amount(e), status |-> "pending", batchStatus |-> "draft",
                               request |-> IF requestOf(e) = {} THEN None ELSE CHOOSE r \in requestOf(e) : TRUE]
                         ELSE NoItem
    <3>1. \A e \in kept : amount(e) \in Amounts
      BY <1>1 DEF createPayoutRunInsert
    <3>2. \A e \in EntryIds : (IF requestOf(e) = {} THEN None ELSE CHOOSE r \in requestOf(e) : TRUE)
                                 \in Requests \cup {None}
      OBVIOUS
    <3>3. item' = [item EXCEPT ![b] = [e \in EntryIds |-> row(e)]]
      BY <1>1 DEF createPayoutRunInsert
    <3>4. \A e \in EntryIds : row(e) \in ItemRow
      <4> HIDE DEF amount, requestOf, kept
      <4> QED
        BY <3>1, <3>2, NoRowsTyped DEF ItemRow
    <3> HIDE DEF row
    <3> QED
      BY <3>3, <3>4 DEF TypeOK
  <2>2. call' \in [Callers -> CallType]
    BY <1>1, CallMoves, IdleTyped DEF createPayoutRunInsert, Finish, Advance
  <2>3. batch' \in [Batches -> Statuses]
    BY <1>1 DEF createPayoutRunInsert, TypeOK, Statuses
  <2> QED
    BY <1>1, <2>1, <2>2, <2>3 DEF createPayoutRunInsert, TypeOK, Statuses
<1>2. ASSUME NEW e \in EntryIds, NEW status \in {"pending", "paid", "failed"},
             resolvePayoutItemRead(c, b, e, status)
      PROVE  TypeOK'
  <2>1. [op |-> "resolve", batch |-> b, entry |-> e, status |-> status] \in CallType
    BY DEF CallType
  <2> QED
    BY <1>2, <2>1, CallMoves DEF resolvePayoutItemRead, Start, TypeOK
<1>3. ASSUME cancelPayoutRunRead(c, b) PROVE TypeOK'
  <2>1. [op |-> "cancel", batch |-> b] \in CallType
    BY DEF CallType
  <2> QED
    BY <1>3, <2>1, CallMoves DEF cancelPayoutRunRead, Start, TypeOK
<1>4. ASSUME markPayoutRunPaidRead(c, b) PROVE TypeOK'
  <2>1. [op |-> "payrun", batch |-> b, paid |-> {e \in ItemsOf(b) : item[b][e].status = "paid"}] \in CallType
    BY DEF CallType, EntrySets, ItemsOf
  <2> QED
    BY <1>4, <2>1, CallMoves DEF markPayoutRunPaidRead, Start, TypeOK
<1>5. ASSUME NEW a \in Affiliates, NEW source \in {"manual", "external"}, NEW key \in Keys \cup {None},
             markAffiliatePayoutPaidRead(c, b, a, source, key)
      PROVE  TypeOK'
  <2>1. [op |-> "markpaid", batch |-> b, affiliate |-> a, source |-> source, key |-> key] \in CallType
    BY DEF CallType
  <2>2. call' \in [Callers -> CallType]
    BY <1>5, <2>1, CallMoves DEF markAffiliatePayoutPaidRead, Start
  <2>3. /\ batch' \in [Batches -> Statuses]
        /\ item' \in [Batches -> [EntryIds -> ItemRow]]
        /\ snap' \in [Batches -> [Affiliates -> 0 .. MaxDetails]]
    BY <1>5, PrepareTyped DEF markAffiliatePayoutPaidRead, TypeOK, Statuses
  <2> QED
    BY <1>5, <2>2, <2>3 DEF markAffiliatePayoutPaidRead, TypeOK, Statuses
<1> QED
  BY <1>1, <1>2, <1>3, <1>4, <1>5

\* The steps that write what a call had read keep everything typed.
LEMMA CallWriteTyped ==
    ASSUME TypeOK, NEW c \in Callers
    PROVE  /\ resolvePayoutItemWrite(c) => TypeOK'
           /\ cancelPayoutRunWrite(c) => TypeOK'
           /\ markPayoutRunPaidWrite(c) => TypeOK'
           /\ markAffiliatePayoutPaidWrite(c) => TypeOK'
           /\ saveAffiliatePayoutDetailsWrite(c) => TypeOK'
           /\ \A r \in Requests : createPayoutRequestInsert(c, r) => TypeOK'
           /\ Abort(c) => TypeOK'
<1>c. call' = [call EXCEPT ![c] = Idle] => call' \in [Callers -> CallType]
  BY CallMoves, IdleTyped
<1>1. ASSUME resolvePayoutItemWrite(c) PROVE TypeOK'
  <2>0. call[c].batch \in Batches /\ call[c].entry \in EntryIds /\ call[c].status \in {"pending", "paid", "failed"}
    BY <1>1, CallFields DEF resolvePayoutItemWrite
  <2>a. item[call[c].batch][call[c].entry] \in ItemRow
    BY <2>0 DEF TypeOK
  <2>1. [item[call[c].batch][call[c].entry] EXCEPT !.status = call[c].status] \in ItemRow
    BY <2>0, <2>a, StatusSet
  <2> QED
    BY <1>1, <2>0, <2>1, <1>c DEF resolvePayoutItemWrite, Finish, Advance, TypeOK
<1>2. ASSUME cancelPayoutRunWrite(c) PROVE TypeOK'
  <2>1. call[c].batch \in Batches
    BY <1>2, CallFields DEF cancelPayoutRunWrite
  <2>2. item' \in [Batches -> [EntryIds -> ItemRow]]
    BY <1>2, <2>1, StampTyped DEF cancelPayoutRunWrite, TypeOK
  <2>3. batch' \in [Batches -> Statuses]
    BY <1>2, <2>1 DEF cancelPayoutRunWrite, CancelStatus, TypeOK, Statuses
  <2> QED
    BY <1>2, <2>2, <2>3, <1>c DEF cancelPayoutRunWrite, Finish, Advance, TypeOK, Statuses
<1>3. ASSUME markPayoutRunPaidWrite(c) PROVE TypeOK'
  <2> DEFINE b == call[c].batch
  <2>1. b \in Batches
    BY <1>3, CallFields DEF markPayoutRunPaidWrite
  <2>2. item' \in [Batches -> [EntryIds -> ItemRow]]
    BY <1>3, <2>1, StampTyped DEF markPayoutRunPaidWrite, TypeOK
  <2>3. batch' \in [Batches -> Statuses]
    BY <1>3, <2>1 DEF markPayoutRunPaidWrite, TypeOK, Statuses
  <2>4. entry' \in [EntryIds -> EntryRow] /\ request' \in [Requests -> RequestRow]
    BY <1>3, PayEntriesTyped, FulfilTyped DEF markPayoutRunPaidWrite
  <2>5. exec' \in [Batches -> [Affiliates -> ExecRow]]
    <3>1. \A a \in Affiliates : /\ exec[b][a] \in ExecRow
                                /\ [exec[b][a] EXCEPT !.status = "succeeded", !.source = "manual"] \in ExecRow
      BY <2>1, StatusSet DEF TypeOK
    <3> QED
      BY <1>3, <2>1, <3>1 DEF markPayoutRunPaidWrite, TypeOK
  <2> QED
    BY <1>3, <2>2, <2>3, <2>4, <2>5, <1>c DEF markPayoutRunPaidWrite, Finish, Advance, TypeOK, Statuses
<1>4. ASSUME markAffiliatePayoutPaidWrite(c) PROVE TypeOK'
  <2> DEFINE b == call[c].batch
             a == call[c].affiliate
             pending == {e \in AffiliateItems(b, a) : item[b][e].status = "pending"}
             marked == [item EXCEPT ![b] = [e \in EntryIds |->
                          IF e \in pending THEN [item[b][e] EXCEPT !.status = "paid"] ELSE item[b][e]]]
  <2>1. b \in Batches /\ a \in Affiliates
    BY <1>4, CallFields DEF markAffiliatePayoutPaidWrite
  <2>2. marked \in [Batches -> [EntryIds -> ItemRow]]
    <3>1. \A e \in EntryIds : item[b][e] \in ItemRow /\ [item[b][e] EXCEPT !.status = "paid"] \in ItemRow
      BY <2>1, StatusSet DEF TypeOK
    <3> QED
      BY <2>1, <3>1 DEF TypeOK
  <2>3. item' \in [Batches -> [EntryIds -> ItemRow]]
    <3>1. item' = marked \/ item' = StampItems(marked, b, "paid")
      BY <1>4 DEF markAffiliatePayoutPaidWrite
    <3> HIDE DEF marked
    <3> QED
      BY <2>1, <2>2, <3>1, StampTyped
  <2>4. batch' \in [Batches -> Statuses]
    BY <1>4, <2>1 DEF markAffiliatePayoutPaidWrite, TypeOK, Statuses
  <2>5. entry' \in [EntryIds -> EntryRow] /\ request' \in [Requests -> RequestRow]
    BY <1>4, PayEntriesTyped, FulfilTyped DEF markAffiliatePayoutPaidWrite
  <2>6. exec' \in [Batches -> [Affiliates -> ExecRow]]
    <3>1. [status |-> "succeeded", source |-> call[c].source, key |-> call[c].key] \in ExecRow
      BY <1>4, CallFields DEF markAffiliatePayoutPaidWrite, ExecRow
    <3> QED
      BY <1>4, <2>1, <3>1 DEF markAffiliatePayoutPaidWrite, TypeOK
  <2> QED
    BY <1>4, <2>3, <2>4, <2>5, <2>6, <1>c DEF markAffiliatePayoutPaidWrite, Finish, Advance, TypeOK, Statuses
<1>5. ASSUME saveAffiliatePayoutDetailsWrite(c) PROVE TypeOK'
  <2>1. call[c].affiliate \in Affiliates
    BY <1>5, CallFields DEF saveAffiliatePayoutDetailsWrite
  <2>2. details' \in [Affiliates -> 0 .. MaxDetails]
    BY <1>5, <2>1, PayoutsAssumption DEF saveAffiliatePayoutDetailsWrite, TypeOK
  <2> QED
    BY <1>5, <2>2, <1>c DEF saveAffiliatePayoutDetailsWrite, Finish, Advance, TypeOK
<1>6. ASSUME NEW r \in Requests, createPayoutRequestInsert(c, r) PROVE TypeOK'
  <2>1. [status |-> "open", owner |-> call[c].affiliate, amount |-> call[c].amount,
         alloc |-> call[c].listed] \in RequestRow
    BY <1>6, CallFields DEF createPayoutRequestInsert, RequestRow, EntrySets
  <2> QED
    BY <1>6, <2>1, <1>c DEF createPayoutRequestInsert, Finish, Advance, TypeOK
<1>7. ASSUME Abort(c) PROVE TypeOK'
  BY <1>7, <1>c DEF Abort, Finish, Advance, TypeOK
<1> QED
  BY <1>1, <1>2, <1>3, <1>4, <1>5, <1>6, <1>7

\* The steps that read for a call keep everything typed.
LEMMA CallReadTyped ==
    ASSUME TypeOK, NEW c \in Callers
    PROVE  /\ \A scope \in SUBSET Affiliates : createPayoutRunRead(c, scope) => TypeOK'
           /\ createPayoutRunReserve(c) => TypeOK'
           /\ createPayoutRequestList(c) => TypeOK'
           /\ \A a \in Affiliates : createPayoutRequestRead(c, a) => TypeOK'
           /\ \A a \in Affiliates : saveAffiliatePayoutDetailsRead(c, a) => TypeOK'
<1>1. ASSUME NEW scope \in SUBSET Affiliates, createPayoutRunRead(c, scope) PROVE TypeOK'
  <2>1. [op |-> "reserve", listed |-> ApprovedEntries(scope),
         outstanding |-> [a \in Affiliates |-> OutstandingDebt(a)]] \in CallType
    BY <1>1 DEF createPayoutRunRead, CallType, EntrySets, ApprovedEntries
  <2> QED
    BY <1>1, <2>1, CallMoves DEF createPayoutRunRead, Start, TypeOK
<1>2. ASSUME createPayoutRunReserve(c) PROVE TypeOK'
  <2>1. [op |-> "insert", listed |-> call[c].listed, outstanding |-> call[c].outstanding,
         reserved |-> [a \in Affiliates |-> ReservedDebt(a, call[c].outstanding[a])]] \in CallType
    BY <1>2, CallFields DEF createPayoutRunReserve, CallType
  <2> QED
    BY <1>2, <2>1, CallMoves DEF createPayoutRunReserve, Advance, TypeOK
<1>3. ASSUME createPayoutRequestList(c) PROVE TypeOK'
  <2> DEFINE a == call[c].affiliate
             approved == ApprovedEntries({a})
             listed == {e \in approved : PayoutAmount(e, approved, OutstandingDebt(a)) # 0}
  <2>1. listed \in EntrySets
    BY DEF EntrySets, ApprovedEntries
  <2>2. call' = [call EXCEPT ![c] = [op |-> "request", affiliate |-> a, amount |-> call[c].amount,
                                    listed |-> listed]]
    BY <1>3 DEF createPayoutRequestList, Advance
  <2> HIDE DEF listed
  <2>3. [op |-> "request", affiliate |-> a, amount |-> call[c].amount, listed |-> listed] \in CallType
    BY <1>3, <2>1, CallFields DEF createPayoutRequestList, CallType
  <2> QED
    BY <1>3, <2>2, <2>3, CallMoves DEF createPayoutRequestList, TypeOK
<1>4. ASSUME NEW a \in Affiliates, createPayoutRequestRead(c, a) PROVE TypeOK'
  <2>1. [op |-> "balance", affiliate |-> a, amount |-> PayableBalance(a)] \in CallType
    BY <1>4 DEF createPayoutRequestRead, CallType
  <2> QED
    BY <1>4, <2>1, CallMoves DEF createPayoutRequestRead, Start, TypeOK
<1>5. ASSUME NEW a \in Affiliates, saveAffiliatePayoutDetailsRead(c, a) PROVE TypeOK'
  <2>1. [op |-> "save", affiliate |-> a] \in CallType
    BY DEF CallType
  <2> QED
    BY <1>5, <2>1, CallMoves DEF saveAffiliatePayoutDetailsRead, Start, TypeOK
<1> QED
  BY <1>1, <1>2, <1>3, <1>4, <1>5

\* The calls of one step that no caller's record is kept of keep everything typed.
LEMMA OtherTyped ==
    ASSUME TypeOK
    PROVE  /\ \A b \in Batches : generatePayoutRunCsv(b) \/ dispatchPayoutBatch(b) => TypeOK'
           /\ \A b \in Batches, a \in Affiliates, k \in Keys : markPayoutExecutionFailed(b, a, k) => TypeOK'
           /\ \A r \in Requests : declinePayoutRequest(r) => TypeOK'
<1>1. ASSUME NEW b \in Batches, generatePayoutRunCsv(b) PROVE TypeOK'
  BY <1>1, PrepareTyped DEF generatePayoutRunCsv, TypeOK, Statuses
<1>2. ASSUME NEW b \in Batches, dispatchPayoutBatch(b) PROVE TypeOK'
  <2>1. [NoExec EXCEPT !.status = "ready"] \in ExecRow
    BY DEF NoExec, ExecRow
  <2>2. exec' \in [Batches -> [Affiliates -> ExecRow]]
    BY <1>2, <2>1 DEF dispatchPayoutBatch, TypeOK
  <2> QED
    BY <1>2, <2>2 DEF dispatchPayoutBatch, TypeOK
<1>3. ASSUME NEW b \in Batches, NEW a \in Affiliates, NEW k \in Keys, markPayoutExecutionFailed(b, a, k)
      PROVE  TypeOK'
  <2>1. [status |-> "failed", source |-> "external", key |-> k] \in ExecRow
    BY DEF ExecRow
  <2> QED
    BY <1>3, <2>1 DEF markPayoutExecutionFailed, TypeOK
<1>4. ASSUME NEW r \in Requests, declinePayoutRequest(r) PROVE TypeOK'
  <2>1. [request[r] EXCEPT !.status = "declined", !.alloc = {}] \in RequestRow
    BY StatusSet DEF TypeOK
  <2>2. request' = [request EXCEPT ![r] = [request[r] EXCEPT !.status = "declined", !.alloc = {}]]
    BY <1>4 DEF declinePayoutRequest, TypeOK
  <2> QED
    BY <1>4, <2>1, <2>2 DEF declinePayoutRequest, TypeOK
<1> QED
  BY <1>1, <1>2, <1>3, <1>4

\* Every step keeps everything typed.
LEMMA NextTyped == TypeOK /\ [Next]_vars => TypeOK'
<1> SUFFICES ASSUME TypeOK, [Next]_vars PROVE TypeOK'
  OBVIOUS
<1>1. CASE Revenue
  BY <1>1, RevenueTyped
<1>2. ASSUME NEW c \in Callers, CallStep(c) PROVE TypeOK'
  <2>1. \A a \in Affiliates : {a} \in SUBSET Affiliates
    OBVIOUS
  <2>2. \A b \in Batches, a \in Affiliates, k \in Keys : markPayoutExecutionSucceeded(c, b, a, k) => TypeOK'
    BY BatchCallTyped DEF markPayoutExecutionSucceeded
  <2> QED
    BY <1>2, <2>1, <2>2, BatchCallTyped, CallWriteTyped, CallReadTyped DEF CallStep
<1>3. CASE UNCHANGED vars
  BY <1>3 DEF vars, TypeOK
<1> QED
  BY <1>1, <1>2, <1>3, OtherTyped DEF Next

\* The tables and the calls in flight keep their types in every execution.
THEOREM TypeCorrect == Spec => []TypeOK
  BY InitTyped, NextTyped, PTL DEF Spec

-----------------------------------------------------------------------------
(* One active item per entry.  ActiveOnce alone is not inductive: stamping *)
(* a batch status onto items could revive a cancelled item, so the status  *)
(* copied onto the items must follow the batch; and a resolution that was  *)
(* read earlier must still find its row.                                   *)

NoRowsBeforeInsert == \A b \in Batches : batch[b] = "none" =>
    \A e \in EntryIds : item[b][e].status = "none"

ResolvedRowExists == \A c \in Callers :
    call[c].op = "resolve" => item[call[c].batch][call[c].entry].status # "none"

ItemInv == NoRowsBeforeInsert /\ ItemsFollowBatch /\ ActiveOnce

RowsStay == \A b \in Batches, e \in EntryIds : item[b][e].status # "none" => item'[b][e].status # "none"

\* No row of an item appears or goes away: only the insert of a run writes new ones.
SameRows == \A b \in Batches, e \in EntryIds : item'[b][e].status = "none" <=> item[b][e].status = "none"

SameActive == \A b \in Batches, e \in EntryIds : ItemActive(item'[b][e]) <=> ItemActive(item[b][e])

\* A step that leaves batches and items leaves what holds of them.
LEMMA ItemsUnchanged ==
    ASSUME ItemInv, UNCHANGED <<batch, item>>
    PROVE  ItemInv' /\ RowsStay
  BY DEF ItemInv, NoRowsBeforeInsert, ItemsFollowBatch, ActiveOnce, ItemsOf, ItemActive, RowsStay

\* The insert of a run takes rows that no item holds, for a batch that had none.
LEMMA InsertKeepsItems ==
    ASSUME TypeOK, ItemInv, NEW c \in Callers, NEW b \in Batches, createPayoutRunInsert(c, b)
    PROVE  /\ ItemInv' /\ RowsStay
           /\ batch[b] = "none" /\ batch' = [batch EXCEPT ![b] = "draft"]
           /\ \E taken \in (SUBSET EntryIds) \ {{}} :
                 /\ \A e \in taken : ~Active(e)
                 /\ \A b2 \in Batches, e \in EntryIds : ItemActive(item'[b2][e]) <=>
                       IF b2 = b THEN e \in taken ELSE ItemActive(item[b2][e])
                 /\ \A b2 \in Batches, e \in EntryIds : item'[b2][e].status = "none" <=>
                       IF b2 = b THEN e \notin taken ELSE item[b2][e].status = "none"
<1> DEFINE fresh(e) == item'[b][e].status = "pending" /\ item'[b][e].batchStatus = "draft" /\ ~Active(e)
<1>1. /\ batch[b] = "none" /\ batch' = [batch EXCEPT ![b] = "draft"]
      /\ \A e \in EntryIds : item'[b][e].status = "none" \/ fresh(e)
      /\ \A b2 \in Batches \ {b}, e \in EntryIds : item'[b2][e] = item[b2][e]
      /\ \E taken \in (SUBSET EntryIds) \ {{}} : \A e \in EntryIds : item'[b][e].status # "none" <=> e \in taken
  <2> DEFINE available(a) == call[c].outstanding[a] - call[c].reserved[a]
             amount(e) == PayoutAmount(e, call[c].listed, available(entry[e].owner))
             total(a) == MapThenSumSet(amount, {e \in call[c].listed : entry[e].owner = a})
             kept == {e \in call[c].listed : total(entry[e].owner) > 0}
             requestOf(e) == {r \in Requests : request[r].status = "open" /\ e \in request[r].alloc}
             tag(e) == IF requestOf(e) = {} THEN None ELSE CHOOSE r \in requestOf(e) : TRUE
             row(e) == IF e \in kept
                       THEN [amount |-> amount(e), status |-> "pending", batchStatus |-> "draft",
                             request |-> tag(e)]
                       ELSE NoItem
  <2>1. /\ batch[b] = "none" /\ batch' = [batch EXCEPT ![b] = "draft"]
        /\ kept # {} /\ \A e \in kept : ~Active(e)
        /\ item' = [item EXCEPT ![b] = [e \in EntryIds |-> row(e)]]
    BY DEF createPayoutRunInsert
  <2>k. kept \in SUBSET EntryIds
    BY CallFields DEF createPayoutRunInsert, EntrySets
  <2>2. \A e \in EntryIds : /\ item'[b][e] = row(e)
                            /\ \A b2 \in Batches \ {b} : item'[b2][e] = item[b2][e]
    <3> HIDE DEF row
    <3> QED
      BY <2>1 DEF TypeOK
  <2>3. \A e \in EntryIds : \/ row(e).status = "none" /\ e \notin kept
                            \/ row(e).status = "pending" /\ row(e).batchStatus = "draft" /\ e \in kept
    <3> HIDE DEF kept, amount, tag
    <3> QED
      BY DEF NoItem
  <2> HIDE DEF row, kept
  <2>4. \A e \in EntryIds : item'[b][e].status # "none" <=> e \in kept
    BY <2>2, <2>3
  <2> QED
    BY <2>1, <2>2, <2>3, <2>4, <2>k
<1>2. \A e \in EntryIds, b2 \in Batches : fresh(e) => ~ItemActive(item[b2][e])
  BY DEF Active
<1>3. NoRowsBeforeInsert' /\ ItemsFollowBatch'
  BY <1>1 DEF ItemInv, NoRowsBeforeInsert, ItemsFollowBatch, ItemsOf, TypeOK
<1>4. ActiveOnce'
  BY <1>1, <1>2 DEF ItemInv, ActiveOnce, ItemActive
<1>5. RowsStay
  BY <1>1 DEF ItemInv, NoRowsBeforeInsert, RowsStay
<1>6. \E taken \in (SUBSET EntryIds) \ {{}} :
         /\ \A e \in taken : ~Active(e)
         /\ \A b2 \in Batches, e \in EntryIds : ItemActive(item'[b2][e]) <=>
               IF b2 = b THEN e \in taken ELSE ItemActive(item[b2][e])
         /\ \A b2 \in Batches, e \in EntryIds : item'[b2][e].status = "none" <=>
               IF b2 = b THEN e \notin taken ELSE item[b2][e].status = "none"
  <2>1. PICK taken \in (SUBSET EntryIds) \ {{}} : \A e \in EntryIds : item'[b][e].status # "none" <=> e \in taken
    BY <1>1
  <2>2. \A e \in EntryIds : ItemActive(item'[b][e]) <=> e \in taken
    BY <1>1, <2>1 DEF ItemActive
  <2>3. \A e \in taken : ~Active(e)
    BY <1>1, <2>1
  <2>4. \A b2 \in Batches, e \in EntryIds : item'[b2][e].status = "none" <=>
           IF b2 = b THEN e \notin taken ELSE item[b2][e].status = "none"
    BY <1>1, <2>1
  <2> QED
    BY <1>1, <2>2, <2>3, <2>4
<1> QED
  BY <1>1, <1>3, <1>4, <1>5, <1>6 DEF ItemInv

\* Stamping a batch that is draft or prepared, or cancelling the items of any batch.
LEMMA StampKeepsItems ==
    ASSUME TypeOK, ItemInv, NEW b \in Batches, NEW status \in {"prepared", "paid", "cancelled"},
           item' = StampItems(item, b, status),
           \/ batch[b] \in {"draft", "prepared"} /\ batch' = [batch EXCEPT ![b] = status]
           \/ status = "cancelled" /\ batch' = batch /\ batch[b] \notin {"draft", "prepared"}
    PROVE  /\ ItemInv' /\ RowsStay /\ SameRows
           /\ \A b2 \in Batches, e \in EntryIds : ItemActive(item'[b2][e]) <=>
                 ItemActive(item[b2][e]) /\ ~(b2 = b /\ status = "cancelled")
<1>1. item \in [Batches -> [EntryIds -> ItemRow]]
  BY DEF TypeOK
<1>2. \A b2 \in Batches, e \in EntryIds :
         /\ item'[b2][e].status = item[b2][e].status
         /\ item'[b2][e].batchStatus = IF b2 = b /\ item[b2][e].status # "none"
                                        THEN status ELSE item[b2][e].batchStatus
  BY <1>1, StampTyped
<1>b. /\ \A b2 \in Batches \ {b} : batch'[b2] = batch[b2]
      /\ \/ batch[b] \in {"draft", "prepared"} /\ batch'[b] = status
         \/ status = "cancelled" /\ batch'[b] = batch[b] /\ batch[b] \in {"none", "paid", "cancelled"}
  BY DEF TypeOK
<1>3. RowsStay /\ SameRows
  BY <1>2 DEF RowsStay, SameRows
<1>4. NoRowsBeforeInsert'
  BY <1>2, <1>b DEF ItemInv, NoRowsBeforeInsert
<1>5. ItemsFollowBatch'
  BY <1>2, <1>b DEF ItemInv, ItemsFollowBatch, NoRowsBeforeInsert, ItemsOf
<1>6. \A b2 \in Batches, e \in EntryIds : ItemActive(item'[b2][e]) <=>
         ItemActive(item[b2][e]) /\ ~(b2 = b /\ status = "cancelled")
  BY <1>2, <1>b DEF ItemInv, ItemsFollowBatch, ItemsOf, ItemActive
<1>7. ActiveOnce'
  BY <1>6 DEF ItemInv, ActiveOnce
<1> QED
  BY <1>3, <1>4, <1>5, <1>6, <1>7 DEF ItemInv

\* Preparing a batch stamps its items and activates none.
LEMMA PrepareKeepsItems ==
    ASSUME TypeOK, ItemInv, NEW b \in Batches, Prepare(b)
    PROVE  /\ ItemInv' /\ RowsStay /\ SameRows
           /\ SameActive
  BY StampKeepsItems DEF Prepare, SameActive

\* A resolution cannot make an item active beside another one of the same entry.
LEMMA ResolveKeepsItems ==
    ASSUME TypeOK, ItemInv, ResolvedRowExists, NEW c \in Callers, resolvePayoutItemWrite(c)
    PROVE  /\ ItemInv' /\ RowsStay /\ SameRows
           /\ \E b \in Batches, e \in EntryIds :
                 /\ item[b][e].status # "none"
                 /\ batch[b] # "none" /\ (batch[b] = "cancelled" => ~ItemActive(item'[b][e]))
                 /\ ItemActive(item'[b][e]) => \A other \in Batches \ {b} : ~ItemActive(item[other][e])
                 /\ \A b2 \in Batches, e2 \in EntryIds : <<b2, e2>> # <<b, e>> => item'[b2][e2] = item[b2][e2]
<1> DEFINE b == call[c].batch
           e == call[c].entry
           row == [item[b][e] EXCEPT !.status = call[c].status]
<1>1. b \in Batches /\ e \in EntryIds /\ call[c].status \in {"pending", "paid", "failed"}
  BY CallFields DEF resolvePayoutItemWrite
<1>2. item[b][e] \in ItemRow /\ item[b][e].status # "none"
  BY <1>1 DEF TypeOK, ResolvedRowExists, resolvePayoutItemWrite
<1>3. row.status # "none" /\ row.batchStatus = item[b][e].batchStatus
  BY <1>1, <1>2 DEF ItemRow
<1>4. /\ item' = [item EXCEPT ![b][e] = row] /\ batch' = batch
      /\ ItemActive(row) => \A other \in Batches \ {b} : ~ItemActive(item[other][e])
  BY DEF resolvePayoutItemWrite, ActiveIndexAllows
<1> HIDE DEF b, e, row
<1>5. \A b2 \in Batches, e2 \in EntryIds :
         item'[b2][e2] = IF b2 = b /\ e2 = e THEN row ELSE item[b2][e2]
  BY <1>1, <1>4 DEF TypeOK
<1>s. item[b][e].status # "none" /\ row.status # "none"
  BY <1>2, <1>3 DEF b, e
<1>6. NoRowsBeforeInsert' /\ ItemsFollowBatch' /\ RowsStay
  BY <1>1, <1>2, <1>3, <1>4, <1>5
     DEF ItemInv, NoRowsBeforeInsert, ItemsFollowBatch, ItemsOf, RowsStay
<1>r. SameRows
  BY <1>5, <1>s DEF SameRows
<1>7. ActiveOnce'
  BY <1>1, <1>4, <1>5 DEF ItemInv, ActiveOnce
<1>8. batch[b] # "none" /\ (batch[b] = "cancelled" => ~ItemActive(item'[b][e]))
  BY <1>1, <1>2, <1>3, <1>5 DEF ItemInv, NoRowsBeforeInsert, ItemsFollowBatch, ItemsOf, ItemActive
<1> QED
  BY <1>1, <1>4, <1>5, <1>6, <1>7, <1>8, <1>r, <1>s DEF ItemInv

\* Paying an affiliate turns pending items of a prepared batch into paid ones.
LEMMA MarkPaidKeepsItems ==
    ASSUME TypeOK, ItemInv, NEW c \in Callers, markAffiliatePayoutPaidWrite(c)
    PROVE  ItemInv' /\ RowsStay /\ SameRows /\ SameActive
<1> DEFINE b == call[c].batch
           pending == {e \in AffiliateItems(b, call[c].affiliate) : item[b][e].status = "pending"}
           marked == [item EXCEPT ![b] = [e \in EntryIds |->
                        IF e \in pending THEN [item[b][e] EXCEPT !.status = "paid"] ELSE item[b][e]]]
           complete == \A e \in EntryIds : marked[b][e].status # "pending"
<1>1. b \in Batches /\ batch[b] = "prepared"
  BY CallFields DEF markAffiliatePayoutPaidWrite
<1>2. /\ item' = IF complete THEN StampItems(marked, b, "paid") ELSE marked
      /\ batch' = [batch EXCEPT ![b] = IF complete THEN "paid" ELSE "prepared"]
  BY <1>1 DEF markAffiliatePayoutPaidWrite
<1>3. \A b2 \in Batches, e \in EntryIds :
         /\ marked[b2][e].batchStatus = item[b2][e].batchStatus
         /\ \/ marked[b2][e].status = item[b2][e].status
            \/ marked[b2][e].status = "paid" /\ item[b2][e].status = "pending"
  <2>1. \A e \in EntryIds : /\ [item[b][e] EXCEPT !.status = "paid"].batchStatus = item[b][e].batchStatus
                            /\ [item[b][e] EXCEPT !.status = "paid"].status = "paid"
    BY <1>1 DEF TypeOK, ItemRow
  <2> QED
    BY <1>1, <2>1 DEF TypeOK
<1>4. marked \in [Batches -> [EntryIds -> ItemRow]]
  <2>1. \A e \in EntryIds : item[b][e] \in ItemRow /\ [item[b][e] EXCEPT !.status = "paid"] \in ItemRow
    BY <1>1, StatusSet DEF TypeOK
  <2> QED
    BY <1>1, <2>1 DEF TypeOK
<1> HIDE DEF marked, complete, b
<1>5. \A b2 \in Batches, e \in EntryIds :
         /\ \/ item'[b2][e].status = item[b2][e].status
            \/ item'[b2][e].status = "paid" /\ item[b2][e].status = "pending"
         /\ item'[b2][e].batchStatus = IF complete /\ b2 = b /\ item[b2][e].status # "none"
                                        THEN "paid" ELSE item[b2][e].batchStatus
  BY <1>1, <1>2, <1>3, <1>4, StampTyped
<1>6. /\ \A b2 \in Batches \ {b} : batch'[b2] = batch[b2]
      /\ batch'[b] = IF complete THEN "paid" ELSE "prepared"
  BY <1>1, <1>2 DEF TypeOK
<1>7. NoRowsBeforeInsert' /\ RowsStay /\ SameRows
  BY <1>1, <1>5, <1>6 DEF ItemInv, NoRowsBeforeInsert, RowsStay, SameRows
<1>8. ItemsFollowBatch'
  BY <1>1, <1>5, <1>6 DEF ItemInv, ItemsFollowBatch, ItemsOf
<1>a. SameActive
  BY <1>1, <1>5 DEF ItemInv, ItemsFollowBatch, ItemsOf, ItemActive, SameActive
<1>9. ActiveOnce'
  BY <1>a DEF ItemInv, ActiveOnce, SameActive
<1> QED
  BY <1>7, <1>8, <1>9, <1>a DEF ItemInv

\* A cancellation, early or late, and the payment of a whole batch.
LEMMA CancelKeepsItems ==
    ASSUME TypeOK, ItemInv, NEW c \in Callers, cancelPayoutRunWrite(c)
    PROVE  /\ ItemInv' /\ RowsStay /\ SameRows
           /\ \E b \in Batches :
                 /\ \/ batch[b] \in {"draft", "prepared"} /\ batch' = [batch EXCEPT ![b] = "cancelled"]
                    \/ batch' = batch /\ batch[b] \notin {"draft", "prepared"}
                 /\ \A b2 \in Batches, e \in EntryIds : ItemActive(item'[b2][e]) <=>
                       ItemActive(item[b2][e]) /\ b2 # b
<1> DEFINE b == call[c].batch
<1>1. b \in Batches
  BY CallFields DEF cancelPayoutRunWrite
<1>2. item' = StampItems(item, b, "cancelled")
  BY DEF cancelPayoutRunWrite
<1>3. \/ batch[b] \in {"draft", "prepared"} /\ batch' = [batch EXCEPT ![b] = "cancelled"]
      \/ batch' = batch /\ batch[b] \notin {"draft", "prepared"}
  BY <1>1 DEF cancelPayoutRunWrite, CancelStatus, TypeOK
<1> HIDE DEF b
<1> QED
  BY <1>1, <1>2, <1>3, StampKeepsItems

\* Paying a run stamps its items and activates none.
LEMMA PayRunKeepsItems ==
    ASSUME TypeOK, ItemInv, NEW c \in Callers, markPayoutRunPaidWrite(c)
    PROVE  ItemInv' /\ RowsStay /\ SameRows /\ SameActive
<1> DEFINE b == call[c].batch
<1>1. /\ b \in Batches /\ batch[b] = "prepared" /\ batch' = [batch EXCEPT ![b] = "paid"]
      /\ item' = StampItems(item, b, "paid")
  BY CallFields DEF markPayoutRunPaidWrite
<1> HIDE DEF b
<1> QED
  BY <1>1, StampKeepsItems DEF SameActive

-----------------------------------------------------------------------------
(* The inductive invariant, and what follows from it.                      *)

AllocInv == TypeOK /\ ItemInv /\ ResolvedRowExists

\* Steps that leave the batches and their items alone, and the calls that do not.
Elsewhere == UNCHANGED <<batch, item>>

BatchCall(c) ==
    \/ \E b \in Batches : createPayoutRunInsert(c, b)
    \/ \E b \in Batches : Prepare(b)
    \/ resolvePayoutItemWrite(c) \/ cancelPayoutRunWrite(c)
    \/ markPayoutRunPaidWrite(c) \/ markAffiliatePayoutPaidWrite(c)

\* A step of a call changes batches and items, or only what is elsewhere.
LEMMA CallSteps == ASSUME NEW c \in Callers, CallStep(c) PROVE BatchCall(c) \/ Elsewhere
  BY DEF CallStep, BatchCall, Elsewhere, createPayoutRunRead, createPayoutRunReserve,
     resolvePayoutItemRead, cancelPayoutRunRead, markPayoutRunPaidRead, markAffiliatePayoutPaidRead,
     markPayoutExecutionSucceeded, createPayoutRequestRead, saveAffiliatePayoutDetailsRead,
     createPayoutRequestList, createPayoutRequestInsert, saveAffiliatePayoutDetailsWrite, Abort

\* The other steps of Next.
LEMMA NextSteps ==
    ASSUME [Next]_vars
    PROVE  (\E c \in Callers : CallStep(c)) \/ (\E b \in Batches : Prepare(b)) \/ Elsewhere
  BY DEF Next, vars, Revenue, Elsewhere, EarnCommission, RefundCommission, markEntriesDisputed,
     restoreDisputedEntries, generatePayoutRunCsv, dispatchPayoutBatch, markPayoutExecutionFailed,
     declinePayoutRequest

\* Every step keeps what holds of items, and removes none.
LEMMA StepItems == AllocInv /\ [Next]_vars => ItemInv' /\ RowsStay
<1> SUFFICES ASSUME AllocInv, [Next]_vars PROVE ItemInv' /\ RowsStay
  OBVIOUS
<1> USE DEF AllocInv
<1>1. CASE Elsewhere
  BY <1>1, ItemsUnchanged DEF Elsewhere
<1>2. ASSUME NEW b \in Batches, Prepare(b) PROVE ItemInv' /\ RowsStay
  BY <1>2, PrepareKeepsItems
<1>3. ASSUME NEW c \in Callers, BatchCall(c) PROVE ItemInv' /\ RowsStay
  <2>1. ASSUME NEW b \in Batches, createPayoutRunInsert(c, b) PROVE ItemInv' /\ RowsStay
    BY <2>1, InsertKeepsItems
  <2>2. CASE resolvePayoutItemWrite(c)
    BY <2>2, ResolveKeepsItems
  <2>3. CASE cancelPayoutRunWrite(c)
    BY <2>3, CancelKeepsItems
  <2>4. CASE markPayoutRunPaidWrite(c)
    BY <2>4, PayRunKeepsItems
  <2>5. CASE markAffiliatePayoutPaidWrite(c)
    BY <2>5, MarkPaidKeepsItems
  <2> QED
    BY <1>2, <1>3, <2>1, <2>2, <2>3, <2>4, <2>5 DEF BatchCall
<1> QED
  BY <1>1, <1>2, <1>3, CallSteps, NextSteps

\* A resolution in flight is an old one, or has just read the row it is about.
ResolutionsRead == \A c \in Callers : call'[c].op = "resolve" =>
    call'[c] = call[c] \/ item'[call'[c].batch][call'[c].entry].status # "none"

\* A call that goes on to anything but a resolution leaves the resolutions.
LEMMA MovedOn ==
    ASSUME TypeOK, NEW c \in Callers, NEW r, r.op # "resolve", call' = [call EXCEPT ![c] = r]
    PROVE  ResolutionsRead
<1>1. \A c2 \in Callers : call'[c2] = IF c2 = c THEN r ELSE call[c2]
  BY DEF TypeOK
<1> QED
  BY <1>1 DEF ResolutionsRead

\* A resolution in flight is one that read its row in this step, or was one before.
LEMMA StepResolutions == TypeOK /\ Next => ResolutionsRead
<1> SUFFICES ASSUME TypeOK, Next PROVE ResolutionsRead
  OBVIOUS
<1>1. CASE UNCHANGED call
  BY <1>1 DEF ResolutionsRead
<1>2. ASSUME NEW c \in Callers, CallStep(c) PROVE ResolutionsRead
  <2>1. CASE \E b \in Batches, e \in EntryIds, status \in {"pending", "paid", "failed"} :
                resolvePayoutItemRead(c, b, e, status)
    <3>1. PICK b \in Batches, e \in EntryIds, status \in {"pending", "paid", "failed"} :
             resolvePayoutItemRead(c, b, e, status)
      BY <2>1
    <3> DEFINE r == [op |-> "resolve", batch |-> b, entry |-> e, status |-> status]
    <3>2. call' = [call EXCEPT ![c] = r] /\ item' = item /\ item[b][e].status # "none"
      BY <3>1 DEF resolvePayoutItemRead, Start, ItemsOf
    <3>3. r.batch = b /\ r.entry = e
      OBVIOUS
    <3> HIDE DEF r
    <3>4. \A c2 \in Callers : call'[c2] = IF c2 = c THEN r ELSE call[c2]
      BY <3>2 DEF TypeOK
    <3> QED
      BY <3>2, <3>3, <3>4 DEF ResolutionsRead
  <2>2. CASE ~\E b \in Batches, e \in EntryIds, status \in {"pending", "paid", "failed"} :
                resolvePayoutItemRead(c, b, e, status)
    <3>1. \E r : r.op # "resolve" /\ call' = [call EXCEPT ![c] = r]
      BY <1>2, <2>2 DEF CallStep, createPayoutRunRead, createPayoutRunReserve, createPayoutRunInsert,
         resolvePayoutItemWrite, cancelPayoutRunRead, cancelPayoutRunWrite, markPayoutRunPaidRead,
         markPayoutRunPaidWrite, markAffiliatePayoutPaidRead, markAffiliatePayoutPaidWrite,
         markPayoutExecutionSucceeded, createPayoutRequestRead, createPayoutRequestList,
         createPayoutRequestInsert, saveAffiliatePayoutDetailsRead, saveAffiliatePayoutDetailsWrite,
         Abort, Start, Advance, Finish, Idle
    <3> QED
      BY <3>1, MovedOn
  <2> QED
    BY <2>1, <2>2
<1>3. CASE Revenue
  BY <1>1, <1>3 DEF Revenue, EarnCommission, RefundCommission, markEntriesDisputed, restoreDisputedEntries
<1> QED
  BY <1>1, <1>2, <1>3 DEF Next, generatePayoutRunCsv, dispatchPayoutBatch, markPayoutExecutionFailed,
     declinePayoutRequest

\* No batch has a row before the first call.
LEMMA InitAlloc == Init => AllocInv
<1>1. Init => ItemInv /\ ResolvedRowExists
  BY DEF Init, ItemInv, NoRowsBeforeInsert, ItemsFollowBatch, ActiveOnce, ItemActive, ItemsOf, NoItem,
     ResolvedRowExists, Idle
<1> QED
  BY <1>1, InitTyped DEF AllocInv

\* Every step keeps the allocation of rows to batches.
LEMMA NextAlloc == AllocInv /\ [Next]_vars => AllocInv'
<1> SUFFICES ASSUME AllocInv, [Next]_vars PROVE AllocInv'
  OBVIOUS
<1>1. CASE UNCHANGED vars
  <2>1. ItemInv'
    BY <1>1, ItemsUnchanged DEF vars, AllocInv
  <2> QED
    BY <1>1, <2>1, NextTyped DEF vars, AllocInv, ResolvedRowExists
<1>2. CASE Next
  <2>1. ItemInv' /\ RowsStay /\ ResolutionsRead
    BY <1>2, StepItems, StepResolutions DEF AllocInv
  <2>2. ASSUME NEW c \in Callers, call'[c].op = "resolve"
        PROVE  item'[call'[c].batch][call'[c].entry].status # "none"
    <3>1. CASE call'[c] = call[c]
      BY <2>1, <2>2, <3>1, CallFields DEF AllocInv, ResolvedRowExists, RowsStay
    <3> QED
      BY <2>1, <2>2, <3>1 DEF ResolutionsRead
  <2> QED
    BY <2>1, <2>2, NextTyped DEF AllocInv, ResolvedRowExists
<1> QED
  BY <1>1, <1>2

\* Overlapping calls never give an entry two active payout items, and the
\* batch status copied onto the items follows their batch.
THEOREM ActiveOnceCorrect == Spec => []ActiveOnce
<1>1. AllocInv => ActiveOnce
  BY DEF AllocInv, ItemInv
<1> QED
  BY <1>1, InitAlloc, NextAlloc, PTL DEF Spec

\* Whatever calls overlap, an item carries the status of its batch, but for the cancelled
\* items of a batch whose payment overtook the cancellation.
THEOREM ItemsFollowBatchCorrect == Spec => []ItemsFollowBatch
<1>1. AllocInv => ItemsFollowBatch
  BY DEF AllocInv, ItemInv
<1> QED
  BY <1>1, InitAlloc, NextAlloc, PTL DEF Spec

-----------------------------------------------------------------------------
(* What no step does to a batch, and to an execution that has succeeded.   *)

BatchMoves == \A b \in Batches : batch'[b] = batch[b] \/
    <<batch[b], batch'[b]>> \in
        {"none"} \X {"draft"} \cup {"draft"} \X {"prepared"} \cup {"prepared"} \X {"paid"}
        \cup {"draft", "prepared"} \X {"cancelled"}

\* Every step moves a batch along its lifecycle or leaves it.
LEMMA StepLifecycle == TypeOK /\ [Next]_vars => BatchMoves
<1> SUFFICES ASSUME TypeOK, [Next]_vars PROVE BatchMoves
  OBVIOUS
<1>1. CASE UNCHANGED batch
  BY <1>1 DEF BatchMoves
<1>2. ASSUME NEW b \in Batches, NEW s, batch' = [batch EXCEPT ![b] = s],
             <<batch[b], s>> \in
                 {"none"} \X {"draft"} \cup {"draft"} \X {"prepared"} \cup {"prepared"} \X {"paid"}
                 \cup {"draft", "prepared"} \X {"cancelled"}
      PROVE  BatchMoves
  BY <1>2 DEF BatchMoves, TypeOK
<1>3. ASSUME NEW b \in Batches, Prepare(b) PROVE BatchMoves
  BY <1>3, <1>2 DEF Prepare
<1>4. ASSUME NEW c \in Callers, BatchCall(c) PROVE BatchMoves
  <2>1. ASSUME NEW b \in Batches, createPayoutRunInsert(c, b) PROVE BatchMoves
    BY <2>1, <1>2 DEF createPayoutRunInsert
  <2>2. CASE resolvePayoutItemWrite(c)
    BY <2>2, <1>1 DEF resolvePayoutItemWrite
  <2>3. CASE cancelPayoutRunWrite(c)
    <3> DEFINE b == call[c].batch
    <3>1. b \in Batches
      BY <2>3, CallFields DEF cancelPayoutRunWrite
    <3>2. batch' = batch \/ (batch[b] \in {"draft", "prepared"} /\ batch' = [batch EXCEPT ![b] = "cancelled"])
      BY <2>3, <3>1 DEF cancelPayoutRunWrite, CancelStatus, TypeOK
    <3> HIDE DEF b
    <3> QED
      BY <3>1, <3>2, <1>1, <1>2
  <2>4. CASE markPayoutRunPaidWrite(c)
    <3> DEFINE b == call[c].batch
    <3>1. b \in Batches /\ batch[b] = "prepared" /\ batch' = [batch EXCEPT ![b] = "paid"]
      BY <2>4, CallFields DEF markPayoutRunPaidWrite
    <3> HIDE DEF b
    <3> QED
      BY <3>1, <1>2
  <2>5. CASE markAffiliatePayoutPaidWrite(c)
    <3> DEFINE b == call[c].batch
    <3>1. /\ b \in Batches /\ batch[b] = "prepared"
          /\ \E s \in {"prepared", "paid"} : batch' = [batch EXCEPT ![b] = s]
      BY <2>5, CallFields DEF markAffiliatePayoutPaidWrite
    <3>2. [batch EXCEPT ![b] = "prepared"] = batch
      BY <3>1 DEF TypeOK
    <3> HIDE DEF b
    <3> QED
      BY <3>1, <3>2, <1>1, <1>2
  <2> QED
    BY <1>3, <1>4, <2>1, <2>2, <2>3, <2>4, <2>5 DEF BatchCall
<1> QED
  BY <1>1, <1>3, <1>4, CallSteps, NextSteps DEF Elsewhere

\* No stale mark-paid, export or cancel call revives a paid or a cancelled batch.
THEOREM BatchLifecycleCorrect == Spec => BatchLifecycle
<1>1. TypeOK /\ [Next]_vars => [BatchMoves]_vars
  BY StepLifecycle
<1>2. TypeOK /\ [Next]_vars => [\A b \in Batches : batch'[b] = batch[b] \/
        <<batch[b], batch'[b]>> \in
            {"none"} \X {"draft"} \cup {"draft"} \X {"prepared"} \cup {"prepared"} \X {"paid"}
            \cup {"draft", "prepared"} \X {"cancelled"}]_vars
  BY <1>1 DEF BatchMoves
<1> QED
  BY <1>2, InitTyped, NextTyped, PTL DEF Spec, BatchLifecycle

-----------------------------------------------------------------------------
(* Payout requests.  A request is allocated entries once and keeps them     *)
(* until it is declined, and what a batch pays of them is fixed by then.    *)

\* Stamping a batch status changes no amount and no tag.
LEMMA StampKeeps ==
    ASSUME NEW items \in [Batches -> [EntryIds -> ItemRow]], NEW b \in Batches,
           NEW status \in {"draft", "prepared", "paid", "cancelled"}
    PROVE  \A b2 \in Batches, e \in EntryIds :
              /\ StampItems(items, b, status)[b2][e].amount = items[b2][e].amount
              /\ StampItems(items, b, status)[b2][e].request = items[b2][e].request
<1>1. \A e \in EntryIds : /\ [items[b][e] EXCEPT !.batchStatus = status].amount = items[b][e].amount
                          /\ [items[b][e] EXCEPT !.batchStatus = status].request = items[b][e].request
  BY DEF ItemRow
<1> QED
  BY <1>1 DEF StampItems

\* An item of a batch that exists keeps its amount and the request it is for.
KeptItems == \A b \in Batches : batch[b] # "none" =>
    \A e \in EntryIds : /\ item'[b][e].amount = item[b][e].amount
                        /\ item'[b][e].request = item[b][e].request

\* A mark-paid of one affiliate keeps the amounts and the tags.
LEMMA MarkPaidRows ==
    ASSUME TypeOK, NEW c \in Callers, markAffiliatePayoutPaidWrite(c)
    PROVE  \A b2 \in Batches, e \in EntryIds : /\ item'[b2][e].amount = item[b2][e].amount
                                               /\ item'[b2][e].request = item[b2][e].request
<1> DEFINE b == call[c].batch
           pending == {e \in AffiliateItems(b, call[c].affiliate) : item[b][e].status = "pending"}
           marked == [item EXCEPT ![b] = [e \in EntryIds |->
                        IF e \in pending THEN [item[b][e] EXCEPT !.status = "paid"] ELSE item[b][e]]]
<1>1. b \in Batches
  BY CallFields DEF markAffiliatePayoutPaidWrite
<1>2. item' = marked \/ item' = StampItems(marked, b, "paid")
  BY DEF markAffiliatePayoutPaidWrite
<1>3. \A e \in EntryIds : item[b][e] \in ItemRow /\ [item[b][e] EXCEPT !.status = "paid"] \in ItemRow
  BY <1>1, StatusSet DEF TypeOK
<1>4. \A e \in EntryIds : /\ [item[b][e] EXCEPT !.status = "paid"].amount = item[b][e].amount
                          /\ [item[b][e] EXCEPT !.status = "paid"].request = item[b][e].request
  BY <1>3 DEF ItemRow
<1>5. /\ marked \in [Batches -> [EntryIds -> ItemRow]]
      /\ \A b2 \in Batches, e \in EntryIds : /\ marked[b2][e].amount = item[b2][e].amount
                                             /\ marked[b2][e].request = item[b2][e].request
  BY <1>1, <1>3, <1>4 DEF TypeOK
<1> HIDE DEF b, marked
<1> QED
  BY <1>1, <1>2, <1>5, StampKeeps

\* Every step keeps them.
LEMMA StepKeptItems == TypeOK /\ [Next]_vars => KeptItems
<1> SUFFICES ASSUME TypeOK, [Next]_vars PROVE KeptItems
  OBVIOUS
<1>0. item \in [Batches -> [EntryIds -> ItemRow]]
  BY DEF TypeOK
<1>1. CASE Elsewhere
  BY <1>1 DEF Elsewhere, KeptItems
<1>2. ASSUME NEW b \in Batches, NEW status \in {"draft", "prepared", "paid", "cancelled"},
             item' = StampItems(item, b, status)
      PROVE  KeptItems
  BY <1>0, <1>2, StampKeeps DEF KeptItems
<1>3. ASSUME NEW b \in Batches, Prepare(b) PROVE KeptItems
  BY <1>2, <1>3 DEF Prepare
<1>4. ASSUME NEW c \in Callers, BatchCall(c) PROVE KeptItems
  <2>1. ASSUME NEW b \in Batches, createPayoutRunInsert(c, b) PROVE KeptItems
    <3>1. /\ batch[b] = "none"
          /\ \E row : item' = [item EXCEPT ![b] = row]
      BY <2>1 DEF createPayoutRunInsert
    <3> QED
      BY <3>1 DEF TypeOK, KeptItems
  <2>2. CASE resolvePayoutItemWrite(c)
    <3> DEFINE b == call[c].batch
               e == call[c].entry
               row == [item[b][e] EXCEPT !.status = call[c].status]
    <3>1. b \in Batches /\ e \in EntryIds
      BY <2>2, CallFields DEF resolvePayoutItemWrite
    <3>2. row.amount = item[b][e].amount /\ row.request = item[b][e].request
      BY <3>1 DEF TypeOK, ItemRow
    <3>3. item' = [item EXCEPT ![b][e] = row]
      BY <2>2 DEF resolvePayoutItemWrite
    <3> HIDE DEF b, e, row
    <3>4. \A b2 \in Batches, e2 \in EntryIds :
             item'[b2][e2] = IF b2 = b /\ e2 = e THEN row ELSE item[b2][e2]
      BY <3>1, <3>3 DEF TypeOK
    <3>5. item[b][e].amount = row.amount /\ item[b][e].request = row.request
      BY <3>2
    <3> QED
      BY <3>4, <3>5 DEF KeptItems
  <2>3. CASE cancelPayoutRunWrite(c)
    BY <2>3, <1>2, CallFields DEF cancelPayoutRunWrite
  <2>4. CASE markPayoutRunPaidWrite(c)
    BY <2>4, <1>2, CallFields DEF markPayoutRunPaidWrite
  <2>5. CASE markAffiliatePayoutPaidWrite(c)
    BY <2>5, MarkPaidRows DEF KeptItems
  <2> QED
    BY <1>3, <1>4, <2>1, <2>2, <2>3, <2>4, <2>5 DEF BatchCall
<1> QED
  BY <1>1, <1>3, <1>4, CallSteps, NextSteps DEF Elsewhere

\* What a batch pays of the entries of a request, when it is as much as was asked.
PaidInFull(r, b) ==
    /\ \A e \in request[r].alloc : item[b][e].request = r
    /\ request[r].amount = SumFunctionOnSet(ItemAmounts(item, b), request[r].alloc)

\* A request is written by its insert, by a decline, or by the payment of a
\* batch that covers it.
Inserted(r) ==
    /\ request[r].status = "none" /\ request'[r].status = "open"
    /\ AllocationIndexAllows(request'[r].alloc)
    /\ \A r2 \in Requests \ {r} : request'[r2] = request[r2]
Declined(r) == request[r].status = "open" /\ request'[r].status = "declined" /\ request'[r].alloc = {}
Fulfilled(r) ==
    /\ request[r].status = "open" /\ request'[r].status = "fulfilled"
    /\ request'[r].alloc = request[r].alloc /\ request'[r].amount = request[r].amount
    /\ request[r].alloc \subseteq EntryIds
    /\ \E b \in Batches : batch[b] = "prepared" /\ batch'[b] \in {"prepared", "paid"} /\ PaidInFull(r, b)
RequestMoves ==
    \/ \E r \in Requests : Inserted(r)
    \/ \A r \in Requests : request'[r] = request[r] \/ Declined(r) \/ Fulfilled(r)

\* A payment fulfils a request only when its items pay for all of it.
LEMMA FulfilMoves ==
    ASSUME TypeOK, NEW b \in Batches, NEW owners, NEW entries, NEW rows,
           batch[b] = "prepared", batch'[b] \in {"prepared", "paid"},
           \A e \in EntryIds : /\ rows[b][e].amount = item[b][e].amount
                               /\ rows[b][e].request = item[b][e].request,
           Fulfil(b, owners, entries, rows)
    PROVE  RequestMoves
<1> SUFFICES ASSUME NEW r \in Requests
             PROVE  request'[r] = request[r] \/ Fulfilled(r)
  BY DEF RequestMoves
<1>1. request[r] \in RequestRow
  BY DEF TypeOK
<1>2. CASE ~(request[r].owner \in owners /\ Covered(r, b, entries, rows))
  BY <1>2 DEF Fulfil
<1>3. CASE Covered(r, b, entries, rows) /\ request[r].owner \in owners
  <2>1. request'[r] = [request[r] EXCEPT !.status = "fulfilled"]
    BY <1>3 DEF Fulfil
  <2>2. /\ request'[r].status = "fulfilled" /\ request'[r].alloc = request[r].alloc
        /\ request'[r].amount = request[r].amount
        /\ request[r].alloc \subseteq EntryIds
    BY <1>1, <2>1 DEF RequestRow
  <2>3. ItemAmounts(rows, b) = ItemAmounts(item, b)
    BY DEF ItemAmounts
  <2>4. PaidInFull(r, b)
    BY <1>3, <2>2, <2>3 DEF Covered, PaidInFull
  <2> QED
    BY <1>3, <2>2, <2>4 DEF Covered, Fulfilled
<1> QED
  BY <1>2, <1>3

\* So does every step.
LEMMA StepRequests == TypeOK /\ [Next]_vars => RequestMoves
<1> SUFFICES ASSUME TypeOK, [Next]_vars PROVE RequestMoves
  OBVIOUS
<1>1. CASE UNCHANGED request
  BY <1>1 DEF RequestMoves
<1>2. ASSUME NEW r \in Requests, declinePayoutRequest(r) PROVE RequestMoves
  <2>1. /\ request' = [request EXCEPT ![r].status = "declined", ![r].alloc = {}]
        /\ request[r].status = "open" /\ request[r] \in RequestRow
    BY <1>2 DEF declinePayoutRequest, TypeOK
  <2>2. \A q \in RequestRow : LET d == [q EXCEPT !.status = "declined", !.alloc = {}]
                              IN  d.status = "declined" /\ d.alloc = {}
    BY DEF RequestRow
  <2>3. request'[r] = [request[r] EXCEPT !.status = "declined", !.alloc = {}]
    BY <2>1 DEF TypeOK
  <2>4. Declined(r)
    BY <2>1, <2>2, <2>3 DEF Declined
  <2>5. \A r2 \in Requests \ {r} : request'[r2] = request[r2]
    BY <2>1 DEF TypeOK
  <2> QED
    BY <2>4, <2>5 DEF RequestMoves
<1>3. ASSUME NEW c \in Callers, NEW r \in Requests, createPayoutRequestInsert(c, r) PROVE RequestMoves
  <2>1. /\ request[r].status = "none"
        /\ AllocationIndexAllows(call[c].listed)
        /\ request' = [request EXCEPT ![r] = [status |-> "open", owner |-> call[c].affiliate,
                                             amount |-> call[c].amount, alloc |-> call[c].listed]]
    BY <1>3 DEF createPayoutRequestInsert
  <2>2. /\ request'[r].status = "open" /\ request'[r].alloc = call[c].listed
        /\ \A r2 \in Requests \ {r} : request'[r2] = request[r2]
    BY <2>1 DEF TypeOK
  <2> QED
    BY <2>1, <2>2 DEF RequestMoves, Inserted
<1>4. ASSUME NEW c \in Callers, markPayoutRunPaidWrite(c) PROVE RequestMoves
  <2> DEFINE b == call[c].batch
             rows == StampItems(item, b, "paid")
  <2>1. /\ b \in Batches /\ batch[b] = "prepared" /\ batch' = [batch EXCEPT ![b] = "paid"]
        /\ Fulfil(b, AffiliatesOf(b), call[c].paid, rows)
    BY <1>4, CallFields DEF markPayoutRunPaidWrite
  <2>2. batch'[b] = "paid"
    BY <2>1 DEF TypeOK
  <2>3. \A e \in EntryIds : /\ rows[b][e].amount = item[b][e].amount
                            /\ rows[b][e].request = item[b][e].request
    BY <2>1, StampKeeps DEF TypeOK
  <2> HIDE DEF b, rows
  <2> QED
    BY <2>1, <2>2, <2>3, FulfilMoves
<1>5. ASSUME NEW c \in Callers, markAffiliatePayoutPaidWrite(c) PROVE RequestMoves
  <2> DEFINE b == call[c].batch
  <2>1. /\ b \in Batches /\ batch[b] = "prepared"
        /\ \E s \in {"prepared", "paid"} : batch' = [batch EXCEPT ![b] = s]
        /\ Fulfil(b, {call[c].affiliate}, AffiliateItems(b, call[c].affiliate), item)
    BY <1>5, CallFields DEF markAffiliatePayoutPaidWrite
  <2>2. batch'[b] \in {"prepared", "paid"}
    BY <2>1 DEF TypeOK
  <2> HIDE DEF b
  <2> QED
    BY <2>1, <2>2, FulfilMoves
<1>6. ASSUME NEW c \in Callers, CallStep(c) PROVE RequestMoves
  <2>1. \/ \E r \in Requests : createPayoutRequestInsert(c, r)
        \/ markPayoutRunPaidWrite(c) \/ markAffiliatePayoutPaidWrite(c)
        \/ UNCHANGED request
    BY <1>6 DEF CallStep, createPayoutRunRead, createPayoutRunReserve, createPayoutRunInsert,
       resolvePayoutItemRead, resolvePayoutItemWrite, cancelPayoutRunRead, cancelPayoutRunWrite,
       markPayoutRunPaidRead, markAffiliatePayoutPaidRead, markPayoutExecutionSucceeded,
       createPayoutRequestRead, saveAffiliatePayoutDetailsRead, createPayoutRequestList,
       saveAffiliatePayoutDetailsWrite, Abort
  <2> QED
    BY <1>1, <1>3, <1>4, <1>5, <2>1
<1>7. \/ \E c \in Callers : CallStep(c)
      \/ \E r \in Requests : declinePayoutRequest(r)
      \/ UNCHANGED request
  BY DEF Next, vars, Revenue, EarnCommission, RefundCommission, markEntriesDisputed,
     restoreDisputedEntries, generatePayoutRunCsv, dispatchPayoutBatch, markPayoutExecutionFailed
<1> QED
  BY <1>1, <1>2, <1>6, <1>7

\* Two requests share no entry: the unique index refuses what is allocated.
LEMMA AllocatedOnceStep == TypeOK /\ AllocatedOnce /\ [Next]_vars => AllocatedOnce'
<1> SUFFICES ASSUME TypeOK, AllocatedOnce, RequestMoves PROVE AllocatedOnce'
  BY StepRequests
<1>1. CASE \E r \in Requests : Inserted(r)
  BY <1>1 DEF AllocatedOnce, Inserted, AllocationIndexAllows
<1>2. CASE \A r \in Requests : request'[r] = request[r] \/ Declined(r) \/ Fulfilled(r)
  <2>1. \A r \in Requests : request'[r].alloc \subseteq request[r].alloc
    BY <1>2 DEF Declined, Fulfilled
  <2> QED
    BY <2>1 DEF AllocatedOnce
<1> QED
  BY <1>1, <1>2 DEF RequestMoves

\* A fulfilled request stays fulfilled by the same batch: no item of a batch
\* changes its amount or its tag, and no step takes the batch back to a draft.
LEMMA FulfilledStep == TypeOK /\ FulfilledAmountMatches /\ [Next]_vars => FulfilledAmountMatches'
<1> SUFFICES ASSUME TypeOK, FulfilledAmountMatches, [Next]_vars,
                    NEW r \in Requests, request'[r].status = "fulfilled"
             PROVE  \E b \in Batches :
                       /\ batch'[b] \in {"prepared", "paid", "cancelled"}
                       /\ \A e \in request'[r].alloc : item'[b][e].request = r
                       /\ request'[r].amount = SumFunctionOnSet(ItemAmounts(item', b), request'[r].alloc)
  BY DEF FulfilledAmountMatches, ItemAmounts
<1>1. KeptItems /\ BatchMoves /\ RequestMoves
  BY StepKeptItems, StepLifecycle, StepRequests
<1>2. ASSUME NEW b \in Batches, batch[b] # "none", PaidInFull(r, b), request[r].alloc \subseteq EntryIds,
             batch'[b] \in {"prepared", "paid", "cancelled"},
             request'[r].alloc = request[r].alloc, request'[r].amount = request[r].amount
      PROVE  /\ \A e \in request'[r].alloc : item'[b][e].request = r
             /\ request'[r].amount = SumFunctionOnSet(ItemAmounts(item', b), request'[r].alloc)
  <2>1. ItemAmounts(item', b) = ItemAmounts(item, b)
    BY <1>1, <1>2 DEF KeptItems, ItemAmounts
  <2>2. \A e \in request[r].alloc : item'[b][e].request = item[b][e].request
    BY <1>1, <1>2 DEF KeptItems
  <2> QED
    BY <1>2, <2>1, <2>2 DEF PaidInFull
<1>3. CASE request'[r] = request[r]
  <2>1. PICK b \in Batches : batch[b] \in {"prepared", "paid", "cancelled"} /\ PaidInFull(r, b)
    BY <1>3 DEF FulfilledAmountMatches, PaidInFull
  <2>2. batch'[b] \in {"prepared", "paid", "cancelled"}
    BY <1>1, <2>1 DEF BatchMoves
  <2>3. request[r].alloc \subseteq EntryIds
    BY DEF TypeOK, RequestRow
  <2> QED
    BY <1>2, <1>3, <2>1, <2>2, <2>3
<1>4. CASE Fulfilled(r)
  <2>1. PICK b \in Batches : /\ batch[b] = "prepared" /\ batch'[b] \in {"prepared", "paid"}
                             /\ PaidInFull(r, b)
    BY <1>4 DEF Fulfilled
  <2> QED
    BY <1>2, <1>4, <2>1 DEF Fulfilled
<1>5. CASE \E r2 \in Requests : Inserted(r2)
  BY <1>3, <1>5 DEF Inserted
<1> QED
  BY <1>1, <1>3, <1>4, <1>5 DEF RequestMoves, Declined

\* An entry is allocated to at most one payout request, whatever requests,
\* declines and payments overlap.
THEOREM AllocatedOnceCorrect == Spec => []AllocatedOnce
<1>1. Init => AllocatedOnce
  BY DEF Init, AllocatedOnce, NoRequest
<1> QED
  BY <1>1, AllocatedOnceStep, InitTyped, NextTyped, PTL DEF Spec

\* A request is fulfilled for exactly what its items amount to, and stays so:
\* whatever is exported, resolved, cancelled or paid later, in any order.
THEOREM FulfilledAmountCorrect == Spec => []FulfilledAmountMatches
<1>1. Init => FulfilledAmountMatches
  BY DEF Init, FulfilledAmountMatches, NoRequest
<1> QED
  BY <1>1, FulfilledStep, InitTyped, NextTyped, PTL DEF Spec

StaysSucceeded == \A b \in Batches, a \in Affiliates :
    exec[b][a].status = "succeeded" => exec'[b][a].status = "succeeded"

\* No step takes a success of an execution back.
LEMMA StepSucceeded == TypeOK /\ [Next]_vars => StaysSucceeded
<1> SUFFICES ASSUME TypeOK, [Next]_vars PROVE StaysSucceeded
  OBVIOUS
<1>1. CASE UNCHANGED exec
  BY <1>1 DEF StaysSucceeded
<1>2. ASSUME NEW b \in Batches, dispatchPayoutBatch(b) PROVE StaysSucceeded
  BY <1>2 DEF dispatchPayoutBatch, StaysSucceeded, TypeOK
<1>3. ASSUME NEW b \in Batches, NEW a \in Affiliates, NEW k \in Keys, markPayoutExecutionFailed(b, a, k)
      PROVE  StaysSucceeded
  BY <1>3 DEF markPayoutExecutionFailed, StaysSucceeded, TypeOK
<1>4. ASSUME NEW c \in Callers, markPayoutRunPaidWrite(c) PROVE StaysSucceeded
  <2> DEFINE b == call[c].batch
             manual(a) == [exec[b][a] EXCEPT !.status = "succeeded", !.source = "manual"]
  <2>1. b \in Batches
    BY <1>4, CallFields DEF markPayoutRunPaidWrite
  <2>2. \A x \in ExecRow : [x EXCEPT !.status = "succeeded", !.source = "manual"].status = "succeeded"
    BY DEF ExecRow
  <2>3. \A a \in Affiliates : manual(a).status = "succeeded"
    BY <2>1, <2>2 DEF TypeOK
  <2>4. \A b2 \in Batches, a \in Affiliates : exec'[b2][a] = exec[b2][a] \/ exec'[b2][a] = manual(a)
    BY <1>4, <2>1 DEF markPayoutRunPaidWrite, TypeOK
  <2> HIDE DEF manual
  <2> QED
    BY <2>3, <2>4 DEF StaysSucceeded
<1>5. ASSUME NEW c \in Callers, markAffiliatePayoutPaidWrite(c) PROVE StaysSucceeded
  <2> DEFINE b == call[c].batch
             a == call[c].affiliate
             row == IF exec[b][a].status = "none" THEN exec[b][a]
                    ELSE [status |-> "succeeded", source |-> call[c].source, key |-> call[c].key]
  <2>1. b \in Batches /\ a \in Affiliates /\ exec' = [exec EXCEPT ![b][a] = row]
    BY <1>5, CallFields DEF markAffiliatePayoutPaidWrite, TypeOK
  <2>2. exec[b][a].status = "succeeded" => row.status = "succeeded"
    OBVIOUS
  <2> HIDE DEF row, a, b
  <2> QED
    BY <2>1, <2>2 DEF StaysSucceeded, TypeOK
<1>6. CASE Revenue
  BY <1>1, <1>6 DEF Revenue, EarnCommission, RefundCommission, markEntriesDisputed, restoreDisputedEntries
<1>7. ASSUME NEW c \in Callers, CallStep(c), ~markPayoutRunPaidWrite(c), ~markAffiliatePayoutPaidWrite(c)
      PROVE  UNCHANGED exec
  BY <1>7 DEF CallStep, createPayoutRunRead, createPayoutRunReserve, createPayoutRunInsert,
     resolvePayoutItemWrite, cancelPayoutRunRead, cancelPayoutRunWrite, markPayoutRunPaidRead,
     resolvePayoutItemRead, markAffiliatePayoutPaidRead, markPayoutExecutionSucceeded,
     createPayoutRequestRead, createPayoutRequestList, createPayoutRequestInsert,
     saveAffiliatePayoutDetailsRead, saveAffiliatePayoutDetailsWrite, Abort
<1> QED
  BY <1>1, <1>2, <1>3, <1>4, <1>5, <1>6, <1>7 DEF Next, vars, generatePayoutRunCsv, declinePayoutRequest

\* A succeeded execution stays succeeded, whatever callbacks and calls overlap.
THEOREM SucceededIsTerminalCorrect == Spec => SucceededIsTerminal
<1>1. TypeOK /\ [Next]_vars => [\A b \in Batches, a \in Affiliates :
        exec[b][a].status = "succeeded" => exec'[b][a].status = "succeeded"]_vars
  BY StepSucceeded DEF StaysSucceeded
<1> QED
  BY <1>1, InitTyped, NextTyped, PTL DEF Spec, SucceededIsTerminal

-----------------------------------------------------------------------------
(* Recovery debt stands against a paid commission.  The invariant adds     *)
(* that the row it is booked against is an earned one, and that rows not   *)
(* yet created are blank, so that a new row never overwrites such a row.   *)

LedgerInv ==
    /\ \A e \in EntryIds : e > used => entry[e].kind = "none"
    /\ \A e \in EntryIds : entry[e].kind = "recovery_debt" =>
          /\ entry[e].of \in EntryIds
          /\ entry[entry[e].of].kind = "earned" /\ entry[entry[e].of].status = "paid"

\* A paid earned row is still paid.
PaidStays == \A e \in EntryIds :
    entry[e].kind = "earned" /\ entry[e].status = "paid" => entry'[e].status = "paid"

\* A step that only sets statuses, of no paid row, leaves what holds of the ledger.
LEMMA StatusOnly ==
    ASSUME LedgerInv, used' = used, PaidStays,
           \A e \in EntryIds : entry'[e].kind = entry[e].kind /\ entry'[e].of = entry[e].of
    PROVE  LedgerInv'
  BY DEF LedgerInv, PaidStays, EntryIds

\* Marking rows paid keeps what holds of the ledger.
LEMMA PayKeepsLedger ==
    ASSUME TypeOK, LedgerInv, NEW paid, NEW owners, NEW rows, PayEntries(paid, owners, rows), used' = used
    PROVE  LedgerInv'
<1>1. \A e \in EntryIds, s \in {"paid", "settled"} :
         /\ [entry[e] EXCEPT !.status = s].kind = entry[e].kind
         /\ [entry[e] EXCEPT !.status = s].of = entry[e].of
         /\ [entry[e] EXCEPT !.status = s].status = s
  BY DEF TypeOK, EntryRow
<1>2. \A e \in EntryIds, a \in owners : e \in SettledBy(rows, a) => entry[e].kind = "recovery_debt"
  BY DEF SettledBy, Debts
<1>3. \A e \in EntryIds :
         /\ entry'[e].kind = entry[e].kind /\ entry'[e].of = entry[e].of
         /\ \/ entry'[e].status \in {entry[e].status, "paid"}
            \/ entry[e].kind = "recovery_debt"
  <2> TAKE e \in EntryIds
  <2>1. \/ entry'[e] = entry[e]
        \/ entry'[e] = [entry[e] EXCEPT !.status = "paid"]
        \/ entry'[e] = [entry[e] EXCEPT !.status = "settled"] /\ entry[e].kind = "recovery_debt"
    BY <1>2 DEF PayEntries
  <2> QED
    BY <1>1, <2>1
<1>4. PaidStays
  BY <1>3 DEF PaidStays
<1> QED
  BY <1>3, <1>4, StatusOnly

\* Disputing and restoring a commission keeps what holds of the ledger.
LEMMA DisputeKeepsLedger ==
    ASSUME TypeOK, LedgerInv, NEW e \in Disputable, markEntriesDisputed(e) \/ restoreDisputedEntries(e)
    PROVE  LedgerInv'
<1>1. e \in EntryIds /\ entry[e] \in EntryRow
  BY PayoutsAssumption DEF TypeOK
<1>2. \A s \in {"approved", "disputed"} :
         [entry[e] EXCEPT !.status = s].kind = entry[e].kind /\ [entry[e] EXCEPT !.status = s].of = entry[e].of
  BY <1>1 DEF EntryRow
<1>3. /\ used' = used /\ entry[e].status # "paid"
      /\ \E s \in {"approved", "disputed"} : entry' = [entry EXCEPT ![e] = [entry[e] EXCEPT !.status = s]]
  BY <1>1 DEF markEntriesDisputed, restoreDisputedEntries, TypeOK
<1>4. \A f \in EntryIds : /\ f # e => entry'[f] = entry[f]
                          /\ entry'[f].kind = entry[f].kind /\ entry'[f].of = entry[f].of
  BY <1>1, <1>2, <1>3 DEF TypeOK
<1>5. PaidStays
  BY <1>3, <1>4 DEF PaidStays
<1> QED
  BY <1>3, <1>4, <1>5, StatusOnly

\* A new row is written where no row was; if it is a debt, its commission is paid.
LEMMA AddKeepsLedger ==
    ASSUME TypeOK, LedgerInv, NEW row \in EntryRow, AddEntry(row),
           row.kind = "recovery_debt" =>
               row.of \in EntryIds /\ entry[row.of].kind = "earned" /\ entry[row.of].status = "paid"
    PROVE  LedgerInv'
<1>1. /\ used' = used + 1 /\ used + 1 \in EntryIds
      /\ \A e \in EntryIds : entry'[e] = IF e = used + 1 THEN row ELSE entry[e]
  BY PayoutsAssumption DEF AddEntry, TypeOK, EntryIds
<1>2. entry[used + 1].kind = "none"
  BY <1>1, PayoutsAssumption DEF LedgerInv, TypeOK, EntryIds
<1>3. ASSUME NEW e \in EntryIds, e > used' PROVE entry'[e].kind = "none"
  BY <1>1, <1>3, PayoutsAssumption DEF LedgerInv, TypeOK, EntryIds
<1>4. ASSUME NEW e \in EntryIds, entry'[e].kind = "recovery_debt"
      PROVE  /\ entry'[e].of \in EntryIds
             /\ entry'[entry'[e].of].kind = "earned" /\ entry'[entry'[e].of].status = "paid"
  <2>1. /\ entry'[e].of \in EntryIds
        /\ entry[entry'[e].of].kind = "earned" /\ entry[entry'[e].of].status = "paid"
    BY <1>1, <1>4 DEF LedgerInv
  <2> QED
    BY <1>1, <1>2, <2>1
<1> QED
  BY <1>3, <1>4 DEF LedgerInv

\* What holds of the ledger holds of the empty one.
LEMMA InitLedger == Init => LedgerInv
  BY PayoutsAssumption DEF Init, LedgerInv, EntryIds, NoEntry

\* Every step keeps what holds of the ledger.
LEMMA NextLedger == TypeOK /\ LedgerInv /\ [Next]_vars => LedgerInv'
<1> SUFFICES ASSUME TypeOK, LedgerInv, [Next]_vars PROVE LedgerInv'
  OBVIOUS
<1>1. CASE UNCHANGED <<used, entry>>
  BY <1>1 DEF LedgerInv
<1>2. ASSUME NEW a \in Affiliates, NEW x \in Commissions, EarnCommission(a, x) PROVE LedgerInv'
  <2> DEFINE row == [owner |-> a, amount |-> x, kind |-> "earned", status |-> "approved", of |-> 0]
  <2>1. row \in EntryRow /\ row.kind = "earned" /\ AddEntry(row)
    BY <1>2, PayoutsAssumption DEF EntryRow, EarnCommission
  <2> HIDE DEF row
  <2> QED
    BY <2>1, AddKeepsLedger
<1>3. ASSUME NEW e \in EntryIds, NEW x \in Refunds, RefundCommission(e, x) PROVE LedgerInv'
  <2> DEFINE reversal == [owner |-> entry[e].owner, amount |-> -x, kind |-> "refund_reversal",
                          status |-> "approved", of |-> e]
             debt == [reversal EXCEPT !.amount = x, !.kind = "recovery_debt", !.status = "outstanding"]
             row == IF entry[e].status = "paid" THEN debt ELSE reversal
  <2>1. entry[e].owner \in Affiliates \cup {None} /\ {x, -x} \subseteq Amounts /\ e \in 0 .. MaxEntries
    BY <1>3, PayoutsAssumption DEF TypeOK, EntryRow, RefundCommission, EntryIds
  <2>2. reversal \in EntryRow /\ debt \in EntryRow
    BY <2>1 DEF EntryRow
  <2>3. reversal.kind = "refund_reversal" /\ debt.of = e
    OBVIOUS
  <2>4. AddEntry(row) /\ entry[e].kind = "earned"
    BY <1>3 DEF RefundCommission
  <2> HIDE DEF reversal, debt
  <2>5. row \in EntryRow /\ (row.kind = "recovery_debt" => row.of = e /\ entry[e].status = "paid")
    BY <2>2, <2>3
  <2> HIDE DEF row
  <2> QED
    BY <2>4, <2>5, AddKeepsLedger
<1>4. ASSUME NEW c \in Callers, CallStep(c) PROVE LedgerInv'
  <2>1. CASE markPayoutRunPaidWrite(c)
    BY <2>1, PayKeepsLedger DEF markPayoutRunPaidWrite
  <2>2. CASE markAffiliatePayoutPaidWrite(c)
    <3>1. used' = used /\ \E paid, owners, rows : PayEntries(paid, owners, rows)
      BY <2>2 DEF markAffiliatePayoutPaidWrite
    <3> QED
      BY <3>1, PayKeepsLedger
  <2>3. CASE ~markPayoutRunPaidWrite(c) /\ ~markAffiliatePayoutPaidWrite(c)
    <3>1. UNCHANGED <<used, entry>>
      BY <1>4, <2>3 DEF CallStep, createPayoutRunRead, createPayoutRunReserve, createPayoutRunInsert,
         resolvePayoutItemWrite, cancelPayoutRunRead, cancelPayoutRunWrite, markPayoutRunPaidRead,
         resolvePayoutItemRead, markAffiliatePayoutPaidRead, markPayoutExecutionSucceeded,
         createPayoutRequestRead, createPayoutRequestList, createPayoutRequestInsert,
         saveAffiliatePayoutDetailsRead, saveAffiliatePayoutDetailsWrite, Abort
    <3> QED
      BY <3>1, <1>1
  <2> QED
    BY <2>1, <2>2, <2>3
<1>5. CASE Revenue
  BY <1>2, <1>3, <1>5, DisputeKeepsLedger DEF Revenue
<1> QED
  BY <1>1, <1>4, <1>5 DEF Next, vars, generatePayoutRunCsv, dispatchPayoutBatch,
     markPayoutExecutionFailed, declinePayoutRequest

\* Recovery debt is only ever owed for a commission that stays paid.
THEOREM DebtFollowsPaymentCorrect == Spec => []DebtFollowsPayment
<1>1. LedgerInv => DebtFollowsPayment
  BY DEF LedgerInv, DebtFollowsPayment
<1> QED
  BY <1>1, InitTyped, NextTyped, InitLedger, NextLedger, PTL DEF Spec

-----------------------------------------------------------------------------
(* The batches implement EntryAllocation: since an entry has at most one   *)
(* active item, the batch that holds it is well defined, and every step    *)
(* hands entries out and back the way the abstract specification allows.   *)

HolderFact ==
    /\ \A e \in EntryIds, b \in Batches : Holder[e] = b <=> ItemActive(item[b][e])
    /\ \A e \in EntryIds : Holder[e] \in Batches \cup {None}

\* With one active item per row the holder is the batch of that item.
LEMMA HolderIs == ActiveOnce => HolderFact
<1> SUFFICES ASSUME ActiveOnce, NEW e \in EntryIds
             PROVE  /\ \A b \in Batches : Holder[e] = b <=> ItemActive(item[b][e])
                    /\ Holder[e] \in Batches \cup {None}
  BY DEF HolderFact
<1>1. CASE Active(e)
  <2>1. PICK b \in Batches : ItemActive(item[b][e])
    BY <1>1 DEF Active
  <2>2. (CHOOSE b2 \in Batches : ItemActive(item[b2][e])) = b
    BY <2>1 DEF ActiveOnce
  <2>3. Holder[e] = b
    BY <1>1, <2>2 DEF Holder
  <2> QED
    BY <2>1, <2>3 DEF ActiveOnce
<1>2. CASE ~Active(e)
  BY <1>2, PayoutsAssumption DEF Active, Holder
<1> QED
  BY <1>1, <1>2

\* Who holds what after a step, from which items are active after it.
LEMMA Gives ==
    ASSUME HolderFact, HolderFact', NEW S \in SUBSET EntryIds, NEW b \in Batches \cup {None},
           \A b2 \in Batches, e \in EntryIds : ItemActive(item'[b2][e]) <=>
               IF e \in S THEN b2 = b ELSE ItemActive(item[b2][e])
    PROVE  Allocation!Give(S, b)
<1>1. \A e \in EntryIds : Holder'[e] = IF e \in S THEN b ELSE Holder[e]
  BY PayoutsAssumption DEF HolderFact
<1>2. Holder' = [e \in EntryIds |-> Holder'[e]]
  BY DEF Holder
<1> QED
  BY <1>1, <1>2 DEF Allocation!Give

\* The same active items, the same holders.
LEMMA SameHolder ==
    ASSUME HolderFact, HolderFact', SameActive
    PROVE  Holder' = Holder
<1>1. \A e \in EntryIds : Holder'[e] = Holder[e]
  BY PayoutsAssumption DEF HolderFact, SameActive
<1>2. Holder' = [e \in EntryIds |-> Holder'[e]] /\ Holder = [e \in EntryIds |-> Holder[e]]
  BY DEF Holder
<1> QED
  BY <1>1, <1>2

\* The same rows: every batch still has the entries it was opened with.
LEMMA SameOpened ==
    ASSUME SameRows
    PROVE  Opened' = Opened
<1>1. \A b \in Batches : ItemsOf(b)' = ItemsOf(b)
  BY DEF SameRows, ItemsOf
<1> QED
  BY <1>1 DEF Opened

AllocStep == Allocation!Next \/ UNCHANGED Allocation!vars

\* A step that keeps batches and active items is a stutter of the abstract specification.
LEMMA StutterAllocates ==
    ASSUME HolderFact, HolderFact', SameActive, SameRows, batch' = batch
    PROVE  AllocStep
  BY SameHolder, SameOpened DEF AllocStep, Allocation!vars

\* The insert of a run is an allocation, or a stutter.
LEMMA InsertAllocates ==
    ASSUME TypeOK, ItemInv, HolderFact, HolderFact', NEW c \in Callers, NEW b \in Batches,
           createPayoutRunInsert(c, b)
    PROVE  AllocStep
<1>1. PICK taken \in (SUBSET EntryIds) \ {{}} :
         /\ \A e \in taken : ~Active(e)
         /\ \A b2 \in Batches, e \in EntryIds : ItemActive(item'[b2][e]) <=>
               IF b2 = b THEN e \in taken ELSE ItemActive(item[b2][e])
         /\ \A b2 \in Batches, e \in EntryIds : item'[b2][e].status = "none" <=>
               IF b2 = b THEN e \notin taken ELSE item[b2][e].status = "none"
  BY InsertKeepsItems
<1>2. \A e \in taken, b2 \in Batches : ~ItemActive(item[b2][e])
  BY <1>1 DEF Active
<1>3. batch[b] = "none" /\ batch' = [batch EXCEPT ![b] = "draft"]
  BY InsertKeepsItems
<1>4. \A e \in EntryIds : ~ItemActive(item[b][e])
  BY <1>3 DEF ItemInv, NoRowsBeforeInsert, ItemActive
<1>5. Allocation!Give(taken, b)
  BY <1>1, <1>2, <1>4, Gives
<1>6. taken \in SUBSET Allocation!Free
  BY <1>1, <1>2 DEF HolderFact, Allocation!Free
<1>7. Opened' = [Opened EXCEPT ![b] = taken]
  <2>1. \A b2 \in Batches : ItemsOf(b2)' = IF b2 = b THEN taken ELSE ItemsOf(b2)
    BY <1>1 DEF ItemsOf
  <2> QED
    BY <2>1 DEF Opened
<1> QED
  BY <1>1, <1>3, <1>5, <1>6, <1>7 DEF AllocStep, Allocation!Next, Allocation!Open, Allocation!Move

\* A resolution takes or gives back one row, or stutters.
LEMMA ResolveAllocates ==
    ASSUME TypeOK, ItemInv, ResolvedRowExists, HolderFact, HolderFact', NEW c \in Callers,
           resolvePayoutItemWrite(c)
    PROVE  AllocStep
<1>1. PICK b \in Batches, e \in EntryIds :
         /\ item[b][e].status # "none"
         /\ batch[b] # "none" /\ (batch[b] = "cancelled" => ~ItemActive(item'[b][e]))
         /\ ItemActive(item'[b][e]) => \A other \in Batches \ {b} : ~ItemActive(item[other][e])
         /\ \A b2 \in Batches, e2 \in EntryIds : <<b2, e2>> # <<b, e>> => item'[b2][e2] = item[b2][e2]
  BY ResolveKeepsItems
<1>2. batch' = batch /\ SameRows /\ Opened' = Opened
  BY ResolveKeepsItems, SameOpened DEF resolvePayoutItemWrite
<1>3. CASE ItemActive(item[b][e]) <=> ItemActive(item'[b][e])
  <2>1. SameActive
    BY <1>1, <1>3 DEF SameActive
  <2> QED
    BY <1>2, <2>1, StutterAllocates
<1>4. CASE ItemActive(item[b][e]) /\ ~ItemActive(item'[b][e])
  <2>1. \A b2 \in Batches : ~ItemActive(item'[b2][e])
    BY <1>1, <1>4 DEF ItemInv, ActiveOnce
  <2>2. Allocation!Give({e}, None)
    <3>1. \A b2 \in Batches, e2 \in EntryIds : ItemActive(item'[b2][e2]) <=>
             IF e2 \in {e} THEN b2 = None ELSE ItemActive(item[b2][e2])
      BY <1>1, <2>1, PayoutsAssumption
    <3> QED
      BY <3>1, Gives
  <2>3. Holder[e] # None
    BY <1>4, PayoutsAssumption DEF HolderFact
  <2> QED
    BY <1>2, <2>2, <2>3 DEF AllocStep, Allocation!Next, Allocation!Drop
<1>5. CASE ~ItemActive(item[b][e]) /\ ItemActive(item'[b][e])
  <2>1. \A b2 \in Batches : ~ItemActive(item[b2][e])
    BY <1>1, <1>5
  <2>2. Allocation!Give({e}, b)
    <3>1. \A b2 \in Batches, e2 \in EntryIds : ItemActive(item'[b2][e2]) <=>
             IF e2 \in {e} THEN b2 = b ELSE ItemActive(item[b2][e2])
      BY <1>1, <1>5, <2>1
    <3> QED
      BY <3>1, Gives
  <2>3. e \in Allocation!Free \cap Opened[b]
    BY <1>1, <2>1 DEF HolderFact, Allocation!Free, Opened, ItemsOf
  <2>4. batch[b] \in {"draft", "prepared", "paid"}
    BY <1>1, <1>5 DEF TypeOK
  <2> QED
    BY <1>2, <2>2, <2>3, <2>4 DEF AllocStep, Allocation!Next, Allocation!Retake
<1> QED
  BY <1>3, <1>4, <1>5

\* A cancellation gives back what the batch held, or stutters.
LEMMA CancelAllocates ==
    ASSUME TypeOK, ItemInv, HolderFact, HolderFact', NEW c \in Callers, cancelPayoutRunWrite(c)
    PROVE  AllocStep
<1>1. PICK b \in Batches :
         /\ \/ batch[b] \in {"draft", "prepared"} /\ batch' = [batch EXCEPT ![b] = "cancelled"]
            \/ batch' = batch /\ batch[b] \notin {"draft", "prepared"}
         /\ \A b2 \in Batches, e \in EntryIds : ItemActive(item'[b2][e]) <=> ItemActive(item[b2][e]) /\ b2 # b
  BY CancelKeepsItems
<1>o. SameRows /\ Opened' = Opened
  BY CancelKeepsItems, SameOpened
<1>2. Allocation!Give(Allocation!Held(b), None)
  <2>1. Allocation!Held(b) \in SUBSET EntryIds
    BY DEF Allocation!Held
  <2>2. \A e \in EntryIds : e \in Allocation!Held(b) <=> ItemActive(item[b][e])
    BY DEF HolderFact, Allocation!Held
  <2>3. \A b2 \in Batches, e \in EntryIds : ItemActive(item'[b2][e]) <=>
           IF e \in Allocation!Held(b) THEN b2 = None ELSE ItemActive(item[b2][e])
    BY <1>1, <2>2, PayoutsAssumption DEF ItemInv, ActiveOnce
  <2> QED
    BY <2>1, <2>3, Gives
<1>3. CASE batch[b] \in {"draft", "prepared"}
  BY <1>1, <1>2, <1>3, <1>o DEF AllocStep, Allocation!Next, Allocation!Cancel, Allocation!Move
<1>4. CASE batch[b] = "paid"
  BY <1>1, <1>2, <1>4, <1>o DEF AllocStep, Allocation!Next, Allocation!LateCancel
<1>5. CASE batch[b] \in {"none", "cancelled"}
  <2>1. \A e \in EntryIds : ~ItemActive(item[b][e])
    BY <1>5 DEF ItemInv, NoRowsBeforeInsert, ItemsFollowBatch, ItemsOf, ItemActive
  <2>2. SameActive
    BY <1>1, <2>1 DEF SameActive
  <2> QED
    BY <1>1, <1>5, <1>o, <2>2, StutterAllocates
<1> QED
  BY <1>3, <1>4, <1>5 DEF TypeOK

\* Steps that keep every item as active as it was and move one batch at most.
LEMMA MoveAllocates ==
    ASSUME HolderFact, HolderFact', SameActive, SameRows, NEW b \in Batches,
           \/ batch' = batch
           \/ batch[b] = "draft" /\ batch' = [batch EXCEPT ![b] = "prepared"]
           \/ batch[b] = "prepared" /\ batch' = [batch EXCEPT ![b] = "paid"]
    PROVE  AllocStep
<1>1. Holder' = Holder /\ Opened' = Opened
  BY SameHolder, SameOpened
<1> QED
  BY <1>1 DEF AllocStep, Allocation!Next, Allocation!vars, Allocation!Ready, Allocation!Close, Allocation!Move

\* Every step is one of the abstract specification, or a stutter.
LEMMA StepAllocates ==
    ASSUME AllocInv, HolderFact, HolderFact', [Next]_vars
    PROVE  AllocStep
<1> USE DEF AllocInv
<1>1. CASE Elsewhere
  BY <1>1, StutterAllocates DEF Elsewhere, SameActive, SameRows
<1>2. ASSUME NEW b \in Batches, Prepare(b) PROVE AllocStep
  BY <1>2, PrepareKeepsItems, MoveAllocates DEF Prepare
<1>3. ASSUME NEW c \in Callers, BatchCall(c) PROVE AllocStep
  <2>1. ASSUME NEW b \in Batches, createPayoutRunInsert(c, b) PROVE AllocStep
    BY <2>1, InsertAllocates
  <2>2. CASE resolvePayoutItemWrite(c)
    BY <2>2, ResolveAllocates
  <2>3. CASE cancelPayoutRunWrite(c)
    BY <2>3, CancelAllocates
  <2>4. CASE markPayoutRunPaidWrite(c)
    <3>1. \E b \in Batches : batch[b] = "prepared" /\ batch' = [batch EXCEPT ![b] = "paid"]
      BY <2>4, CallFields DEF markPayoutRunPaidWrite
    <3> QED
      BY <2>4, <3>1, PayRunKeepsItems, MoveAllocates
  <2>5. CASE markAffiliatePayoutPaidWrite(c)
    <3> DEFINE b == call[c].batch
    <3>1. /\ b \in Batches /\ batch[b] = "prepared"
          /\ \E s \in {"prepared", "paid"} : batch' = [batch EXCEPT ![b] = s]
      BY <2>5, CallFields DEF markAffiliatePayoutPaidWrite
    <3>2. [batch EXCEPT ![b] = "prepared"] = batch
      BY <3>1 DEF TypeOK
    <3> HIDE DEF b
    <3> QED
      BY <2>5, <3>1, <3>2, MarkPaidKeepsItems, MoveAllocates
  <2> QED
    BY <1>2, <1>3, <2>1, <2>2, <2>3, <2>4, <2>5 DEF BatchCall
<1> QED
  BY <1>1, <1>2, <1>3, CallSteps, NextSteps

\* Every execution of the payout code is one the abstract specification allows:
\* no entry is ever handed from one batch to another, and no batch comes to
\* hold an entry it was not opened with.
THEOREM AllocationImplemented == Spec => AllocationSpec
<1>1. Init => Allocation!Init
  <2> SUFFICES ASSUME Init PROVE Allocation!Init
    OBVIOUS
  <2>1. \A e \in EntryIds : ~Active(e)
    BY DEF Init, Active, ItemActive, NoItem
  <2>2. Holder = [e \in EntryIds |-> None]
    BY <2>1 DEF Holder
  <2>3. Opened = [b \in Batches |-> {}]
    BY DEF Opened, ItemsOf, Init, NoItem
  <2> QED
    BY <2>2, <2>3 DEF Allocation!Init, Init
<1>2. AllocInv => HolderFact
  BY HolderIs DEF AllocInv, ItemInv
<1>3. AllocInv /\ HolderFact /\ HolderFact' /\ [Next]_vars => [Allocation!Next]_(Allocation!vars)
  BY StepAllocates DEF AllocStep
<1> QED
  BY <1>1, <1>2, <1>3, InitAlloc, NextAlloc, PTL DEF Spec, AllocationSpec, Allocation!Spec
=============================================================================

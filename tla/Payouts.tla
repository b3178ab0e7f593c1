------------------------------ MODULE Payouts ------------------------------
(***************************************************************************)
(* The payout side of one RefKit program: the commission ledger rows it    *)
(* reads, payout requests, payout batches with their items, and the        *)
(* executions an external payout system reports on.                        *)
(*                                                                         *)
(* The code runs on PostgreSQL at READ COMMITTED.  A handler that reads,   *)
(* leaves the database and later writes what it decided is a call in two   *)
(* or three steps, so that other requests may commit in between; a handler *)
(* that decides under the row lock it writes under is one action.  The     *)
(* effects of one transaction are one step.                                *)
(***************************************************************************)
EXTENDS Integers, Sequences, FiniteSets, FiniteSetsExt, Functions

CONSTANTS
    Affiliates,     \* program-affiliate memberships
    Batches,        \* payout batch ids
    Requests,       \* payout request ids
    Callers,        \* HTTP requests in flight at the same time
    Keys,           \* Idempotency-Key values of external callbacks
    MaxEntries,     \* bound: rows the commission ledger can hold
    Commissions,    \* amounts an earned commission can have
    Refunds,        \* amounts a refund can take back of a commission
    Disputable,     \* bound: ledger rows a dispute may hit
    Amounts,        \* values the integer amount columns can hold
    MaxDetails,     \* bound: versions of an affiliate's payout details
    MinimumPayout,  \* program.minimumPayoutAmount
    History,        \* ledger rows that exist at the start
    None

EntryIds == 1 .. MaxEntries          \* creation order, the ORDER BY of balance.ts

EntryRow == [owner : Affiliates \cup {None}, amount : Amounts,
             kind : {"none", "earned", "refund_reversal", "recovery_debt"},
             status : {"none", "approved", "disputed", "paid", "outstanding", "settled"},
             of : 0 .. MaxEntries]
NoEntry == [owner |-> None, amount |-> 0, kind |-> "none", status |-> "none", of |-> 0]

ASSUME PayoutsAssumption ==
    /\ MaxEntries \in Nat
    /\ MaxDetails \in Nat
    /\ MinimumPayout \in Nat
    /\ Amounts \subseteq Int /\ 0 \in Amounts
    /\ Commissions \subseteq Amounts \cap (Nat \ {0})
    /\ Refunds \subseteq Nat \ {0}
    /\ Disputable \subseteq EntryIds
    /\ None \notin Affiliates \cup Batches \cup Requests \cup Keys
    /\ History \in Seq(EntryRow) /\ Len(History) <= MaxEntries
    /\ \A e \in 1 .. Len(History) :
          /\ History[e].owner \in Affiliates
          /\ History[e].kind # "none"
          /\ History[e].kind = "recovery_debt" =>
                /\ History[e].of \in 1 .. Len(History)
                /\ History[History[e].of].status = "paid"
                /\ History[History[e].of].kind = "earned"

VARIABLES
    used,      \* number of ledger rows
    entry,     \* commission_entries: kind "none" is an id not used yet
    batch,     \* payout_batches.status, "none" before the insert
    item,      \* payout_items[batch][entry]: status "none" is no row
    snap,      \* details version an export copied onto the affiliate's items
    exec,      \* payout_executions[batch][affiliate]: status "none" is no row
    request,   \* payout_requests with their payout_request_items
    details,   \* affiliate_payout_details: version, 0 is no row
    call       \* what each HTTP request in flight has read so far
vars == <<used, entry, batch, item, snap, exec, request, details, call>>

ItemRow == [amount : Amounts, status : {"none", "pending", "paid", "failed"},
            batchStatus : {"draft", "prepared", "paid", "cancelled"},
            request : Requests \cup {None}]
NoItem == [amount |-> 0, status |-> "none", batchStatus |-> "draft", request |-> None]
ExecRow == [status : {"none", "ready", "failed", "succeeded"},
            source : {None, "external", "manual"}, key : Keys \cup {None}]
NoExec == [status |-> "none", source |-> None, key |-> None]
RequestRow == [status : {"none", "open", "declined", "fulfilled"},
               owner : Affiliates \cup {None}, amount : Amounts, alloc : SUBSET EntryIds]
NoRequest == [status |-> "none", owner |-> None, amount |-> 0, alloc |-> {}]
Idle == [op |-> "idle"]

Init ==
    /\ used = Len(History)
    /\ entry = [e \in EntryIds |-> IF e <= Len(History) THEN History[e] ELSE NoEntry]
    /\ batch = [b \in Batches |-> "none"]
    /\ item = [b \in Batches |-> [e \in EntryIds |-> NoItem]]
    /\ snap = [b \in Batches |-> [a \in Affiliates |-> 0]]
    /\ exec = [b \in Batches |-> [a \in Affiliates |-> NoExec]]
    /\ request = [r \in Requests |-> NoRequest]
    /\ details = [a \in Affiliates |-> 0]
    /\ call = [c \in Callers |-> Idle]

-----------------------------------------------------------------------------
(* Items, owners and totals.                                               *)

\* The condition of the unique index payout_items_active_entry_unique.
ItemActive(i) == i.batchStatus # "cancelled" /\ i.status \in {"pending", "paid"}
Active(e) == \E b \in Batches : ItemActive(item[b][e])

ItemsOf(b) == {e \in EntryIds : item[b][e].status # "none"}
AffiliatesOf(b) == {entry[e].owner : e \in ItemsOf(b)}
AffiliateItems(b, a) == {e \in ItemsOf(b) : entry[e].owner = a}
Positive(b) == \A a \in AffiliatesOf(b) :
    MapThenSumSet(LAMBDA e : item[b][e].amount, AffiliateItems(b, a)) > 0

\* The unique index against a row written for entry e in batch b.
NoActiveIndex(row, b, e) == TRUE                                    \* mutant
ActiveIndexAllows(row, b, e) ==
    ItemActive(row) => \A other \in Batches \ {b} : ~ItemActive(item[other][e])

\* Every row of batch b gets the batch status its table copies from the batch.
StampPendingItems(items, b, status) ==                              \* mutant
    [items EXCEPT ![b] = [e \in EntryIds |->
        IF items[b][e].status # "pending" THEN items[b][e]
                                          ELSE [items[b][e] EXCEPT !.batchStatus = status]]]
StampItems(items, b, status) ==
    [items EXCEPT ![b] = [e \in EntryIds |->
        IF items[b][e].status = "none" THEN items[b][e]
                                       ELSE [items[b][e] EXCEPT !.batchStatus = status]]]

-----------------------------------------------------------------------------
(* Recovery debt: derived from ledger rows and items, never stored.        *)

Debts(a) == {e \in EntryIds : entry[e].kind = "recovery_debt" /\ entry[e].owner = a}
TotalDebt(a) == MapThenSumSet(LAMBDA e : entry[e].amount, Debts(a))

\* What payout items kept back of positive entries, over the rows with these statuses.
Withheld(items, a, batchStatuses, statuses) ==
    MapThenSumSet(
        LAMBDA p : Max({entry[p[2]].amount - items[p[1]][p[2]].amount, 0}),
        {p \in Batches \X EntryIds :
            /\ entry[p[2]].owner = a
            /\ entry[p[2]].amount > 0 /\ entry[p[2]].kind # "recovery_debt"
            /\ items[p[1]][p[2]].batchStatus \in batchStatuses
            /\ items[p[1]][p[2]].status \in statuses})

SettledDebt(items, a) == Min({TotalDebt(a), Withheld(items, a, {"paid"}, {"paid"})})
OutstandingDebt(a) == TotalDebt(a) - SettledDebt(item, a)
ReservedDebt(a, outstanding) ==
    Min({outstanding, Withheld(item, a, {"draft", "prepared"}, {"pending", "paid"})})

ApprovedEntries(scope) ==
    {e \in EntryIds : entry[e].status = "approved" /\ entry[e].owner \in scope /\ ~Active(e)}

\* Debt is taken from the positive entries of a list in creation order.
PayoutAmount(e, listed, debt) ==
    LET earlier == {f \in listed : f < e /\ entry[f].owner = entry[e].owner /\ entry[f].amount > 0}
        remaining == Max({0, debt - MapThenSumSet(LAMBDA f : entry[f].amount, earlier)})
    IN  entry[e].amount - (IF entry[e].amount > 0 THEN Min({entry[e].amount, remaining}) ELSE 0)

PayableBalance(a) ==
    Max({0, MapThenSumSet(LAMBDA e : entry[e].amount, ApprovedEntries({a})) - OutstandingDebt(a)})

\* settleRecoveryDebtEntries on the items a transaction has written so far.
SettledBy(items, a) ==
    {d \in Debts(a) :
        /\ SettledDebt(items, a) > 0
        /\ MapThenSumSet(LAMBDA f : entry[f].amount, {f \in Debts(a) : f <= d})
              <= SettledDebt(items, a)}

-----------------------------------------------------------------------------
(* The ledger, as services/revenue writes it.                              *)

AddEntry(row) ==
    /\ used < MaxEntries
    /\ used' = used + 1
    /\ entry' = [entry EXCEPT ![used + 1] = row]

EarnCommission(a, x) ==
    /\ AddEntry([owner |-> a, amount |-> x, kind |-> "earned", status |-> "approved", of |-> 0])
    /\ UNCHANGED <<batch, item, snap, exec, request, details, call>>

\* A refund of a paid commission becomes debt, of any other one a negative entry.
RefundCommission(e, x) ==
    LET reversed == MapThenSumSet(LAMBDA f : Max({entry[f].amount, -entry[f].amount}),
                                  {f \in EntryIds : entry[f].of = e})
        reversal == [owner |-> entry[e].owner, amount |-> -x, kind |-> "refund_reversal",
                     status |-> "approved", of |-> e]
    IN  /\ entry[e].kind = "earned"
        /\ x <= entry[e].amount - reversed
        /\ {x, -x} \subseteq Amounts
        /\ AddEntry(IF entry[e].status = "paid"
                    THEN [reversal EXCEPT !.amount = x, !.kind = "recovery_debt", !.status = "outstanding"]
                    ELSE reversal)
        /\ UNCHANGED <<batch, item, snap, exec, request, details, call>>

markAnyEntryDisputed(e) ==                                          \* mutant
    /\ entry[e].kind = "earned"
    /\ entry' = [entry EXCEPT ![e].status = "disputed"]
    /\ UNCHANGED <<used, batch, item, snap, exec, request, details, call>>

markEntriesDisputed(e) ==
    /\ entry[e].kind = "earned" /\ entry[e].status = "approved"
    /\ entry' = [entry EXCEPT ![e].status = "disputed"]
    /\ UNCHANGED <<used, batch, item, snap, exec, request, details, call>>

restoreDisputedEntries(e) ==
    /\ entry[e].kind = "earned" /\ entry[e].status = "disputed"
    /\ entry' = [entry EXCEPT ![e].status = "approved"]
    /\ UNCHANGED <<used, batch, item, snap, exec, request, details, call>>

-----------------------------------------------------------------------------
(* Calls.  A call that is rejected, or dies with its server, before its    *)
(* transaction commits leaves nothing behind.                              *)

Start(c, record) == call[c] = Idle /\ call' = [call EXCEPT ![c] = record]
Advance(c, record) == call' = [call EXCEPT ![c] = record]
Finish(c) == Advance(c, Idle)

Abort(c) ==
    /\ call[c] # Idle
    /\ Finish(c)
    /\ UNCHANGED <<used, entry, batch, item, snap, exec, request, details>>

\* SELECT ... FROM programs FOR UPDATE: held while a createPayoutRun transaction is open.
ProgramUnlocked == \A c \in Callers : call[c].op \notin {"reserve", "insert"}

-----------------------------------------------------------------------------
(* createPayoutRun: entries and settled debt, then reserved debt, are read *)
(* by separate statements of one READ COMMITTED transaction.  The queries  *)
(* cast their sums to integer and fail when the sum does not fit.          *)

createPayoutRunRead(c, scope) ==
    /\ ProgramUnlocked
    /\ ApprovedEntries(scope) # {}
    /\ \A a \in Affiliates : OutstandingDebt(a) \in Amounts
    /\ Start(c, [op |-> "reserve", listed |-> ApprovedEntries(scope),
                 outstanding |-> [a \in Affiliates |-> OutstandingDebt(a)]])
    /\ UNCHANGED <<used, entry, batch, item, snap, exec, request, details>>

createPayoutRunReserve(c) ==
    /\ call[c].op = "reserve"
    /\ \A a \in Affiliates : ReservedDebt(a, call[c].outstanding[a]) \in Amounts
    /\ Advance(c,
           [op |-> "insert", listed |-> call[c].listed, outstanding |-> call[c].outstanding,
            reserved |-> [a \in Affiliates |-> ReservedDebt(a, call[c].outstanding[a])]])
    /\ UNCHANGED <<used, entry, batch, item, snap, exec, request, details>>

createPayoutRunInsert(c, b) ==
    /\ call[c].op = "insert"
    /\ LET available(a) == call[c].outstanding[a] - call[c].reserved[a]
           amount(e) == PayoutAmount(e, call[c].listed, available(entry[e].owner))
           total(a) == MapThenSumSet(amount, {e \in call[c].listed : entry[e].owner = a})
           kept == {e \in call[c].listed : total(entry[e].owner) > 0}
           requestOf(e) == {r \in Requests : request[r].status = "open" /\ e \in request[r].alloc}
       IN  /\ kept # {}
           /\ \A e \in kept : ~Active(e) /\ amount(e) \in Amounts
           /\ batch[b] = "none"
           /\ batch' = [batch EXCEPT ![b] = "draft"]
           /\ item' = [item EXCEPT ![b] = [e \in EntryIds |->
                  IF e \in kept
                  THEN [amount |-> amount(e), status |-> "pending", batchStatus |-> "draft",
                        request |-> IF requestOf(e) = {} THEN None ELSE CHOOSE r \in requestOf(e) : TRUE]
                  ELSE NoItem]]
    /\ Finish(c)
    /\ UNCHANGED <<used, entry, snap, exec, request, details>>

-----------------------------------------------------------------------------
(* Preparing, resolving and cancelling a batch.                            *)

\* exportPayoutRunSnapshots on a draft; on a prepared batch it changes nothing.
Prepare(b) ==
    /\ batch[b] = "draft"
    /\ Positive(b)
    /\ \A a \in AffiliatesOf(b) : details[a] > 0
    /\ snap' = [snap EXCEPT ![b] = [a \in Affiliates |->
                   IF a \in AffiliatesOf(b) THEN details[a] ELSE snap[b][a]]]
    /\ batch' = [batch EXCEPT ![b] = "prepared"]
    /\ item' = StampItems(item, b, "prepared")

generatePayoutRunCsv(b) ==
    /\ Prepare(b)
    /\ UNCHANGED <<used, entry, exec, request, details, call>>

LegalTransitions == [pending |-> {"paid", "failed"}, paid |-> {"failed", "pending"},
                     failed |-> {"paid", "pending"}]

resolvePayoutItemRead(c, b, e, status) ==
    /\ batch[b] \in {"draft", "prepared"}
    /\ e \in ItemsOf(b)
    /\ status \in LegalTransitions[item[b][e].status]
    /\ Start(c, [op |-> "resolve", batch |-> b, entry |-> e, status |-> status])
    /\ UNCHANGED <<used, entry, batch, item, snap, exec, request, details>>

\* Updates by item id alone; only the unique index can refuse the new row.
resolvePayoutItemWrite(c) ==
    /\ call[c].op = "resolve"
    /\ LET b == call[c].batch
           e == call[c].entry
           row == [item[b][e] EXCEPT !.status = call[c].status]
       IN  /\ ActiveIndexAllows(row, b, e)
           /\ item' = [item EXCEPT ![b][e] = row]
    /\ Finish(c)
    /\ UNCHANGED <<used, entry, batch, snap, exec, request, details>>

cancelPayoutRunRead(c, b) ==
    /\ batch[b] \in {"draft", "prepared"}
    /\ Start(c, [op |-> "cancel", batch |-> b])
    /\ UNCHANGED <<used, entry, batch, item, snap, exec, request, details>>

CancelAnyStatus(status) == "cancelled"                              \* mutant
CancelStatus(status) == IF status \in {"draft", "prepared"} THEN "cancelled" ELSE status

\* The batch row is updated WHERE status is draft or prepared, the items always.
cancelPayoutRunWrite(c) ==
    /\ call[c].op = "cancel"
    /\ LET b == call[c].batch
       IN  /\ batch' = [batch EXCEPT ![b] = CancelStatus(@)]
           /\ item' = StampItems(item, b, "cancelled")
    /\ Finish(c)
    /\ UNCHANGED <<used, entry, snap, exec, request, details>>

-----------------------------------------------------------------------------
(* Marking money as paid.                                                  *)

ItemAmounts(rows, b) == [e \in EntryIds |-> rows[b][e].amount]

CoveredAtAnyAmount(r, b, entries, rows) ==                          \* mutant
    /\ request[r].status = "open" /\ request[r].alloc # {}
    /\ \A e \in request[r].alloc : e \in entries /\ rows[b][e].request = r
Covered(r, b, entries, rows) ==
    /\ request[r].status = "open" /\ request[r].alloc # {}
    /\ \A e \in request[r].alloc : e \in entries /\ rows[b][e].request = r
    /\ request[r].amount = SumFunctionOnSet(ItemAmounts(rows, b), request[r].alloc)

Fulfil(b, owners, entries, rows) ==
    request' = [r \in Requests |->
        IF request[r].owner \in owners /\ Covered(r, b, entries, rows)
        THEN [request[r] EXCEPT !.status = "fulfilled"] ELSE request[r]]

PayEntries(paid, owners, rows) ==
    entry' = [e \in EntryIds |->
        CASE e \in paid -> [entry[e] EXCEPT !.status = "paid"]
          [] \E a \in owners : e \in SettledBy(rows, a) -> [entry[e] EXCEPT !.status = "settled"]
          [] OTHER -> entry[e]]

AllResolved(b) == \A e \in ItemsOf(b) : item[b][e].status # "pending"

markPayoutRunPaidRead(c, b) ==
    /\ batch[b] = "prepared"
    /\ ItemsOf(b) # {}
    /\ AllResolved(b)
    /\ Start(c, [op |-> "payrun", batch |-> b,
                 paid |-> {e \in ItemsOf(b) : item[b][e].status = "paid"}])
    /\ UNCHANGED <<used, entry, batch, item, snap, exec, request, details>>

\* Runs on the items read before the transaction began.
markPayoutRunPaidWrite(c) ==
    /\ call[c].op = "payrun"
    /\ ProgramUnlocked
    /\ LET b == call[c].batch
           paid == call[c].paid
           rows == StampItems(item, b, "paid")
       IN  /\ batch[b] = "prepared"
           /\ batch' = [batch EXCEPT ![b] = "paid"]
           /\ item' = rows
           /\ PayEntries(paid, AffiliatesOf(b), rows)
           /\ exec' = [exec EXCEPT ![b] = [a \in Affiliates |->
                  IF exec[b][a].status # "none" /\ a \in {entry[e].owner : e \in paid}
                  THEN [exec[b][a] EXCEPT !.status = "succeeded", !.source = "manual"]
                  ELSE exec[b][a]]]
           /\ Fulfil(b, AffiliatesOf(b), paid, rows)
    /\ Finish(c)
    /\ UNCHANGED <<used, snap, details>>

\* A draft is prepared first, in a transaction of its own.
markAffiliatePayoutPaidRead(c, b, a, source, key) ==
    /\ \/ Prepare(b)
       \/ batch[b] = "prepared" /\ UNCHANGED <<batch, item, snap>>
    /\ Start(c, [op |-> "markpaid", batch |-> b, affiliate |-> a, source |-> source, key |-> key])
    /\ UNCHANGED <<used, entry, exec, request, details>>

markAffiliatePayoutPaidWrite(c) ==
    /\ call[c].op = "markpaid"
    /\ LET b == call[c].batch
           a == call[c].affiliate
           rows == AffiliateItems(b, a)
           pending == {e \in rows : item[b][e].status = "pending"}
           marked == [item EXCEPT ![b] = [e \in EntryIds |->
                        IF e \in pending THEN [item[b][e] EXCEPT !.status = "paid"] ELSE item[b][e]]]
           complete == \A e \in EntryIds : marked[b][e].status # "pending"
       IN  /\ batch[b] = "prepared"
           /\ pending # {}
           /\ \A e \in rows : item[b][e].status # "failed"
           /\ PayEntries(pending, {a}, marked)
           /\ exec' = [exec EXCEPT ![b][a] =
                  IF @.status = "none" THEN @
                  ELSE [status |-> "succeeded", source |-> call[c].source, key |-> call[c].key]]
           /\ Fulfil(b, {a}, rows, item)
           /\ batch' = [batch EXCEPT ![b] = IF complete THEN "paid" ELSE @]
           /\ item' = IF complete THEN StampItems(marked, b, "paid") ELSE marked
    /\ Finish(c)
    /\ UNCHANGED <<used, snap, details>>

-----------------------------------------------------------------------------
(* Payout requests.                                                        *)

HasOpenRequest(a) == \E r \in Requests : request[r].owner = a /\ request[r].status = "open"

\* payout_request_items has a unique index on the commission entry.
NoAllocationIndex(entries) == TRUE                                  \* mutant
AllocationIndexAllows(entries) == \A r \in Requests : request[r].alloc \cap entries = {}

createPayoutRequestRead(c, a) ==
    /\ details[a] > 0
    /\ PayableBalance(a) > 0 /\ PayableBalance(a) >= MinimumPayout
    /\ PayableBalance(a) \in Amounts
    /\ Start(c, [op |-> "balance", affiliate |-> a, amount |-> PayableBalance(a)])
    /\ UNCHANGED <<used, entry, batch, item, snap, exec, request, details>>

createPayoutRequestList(c) ==
    /\ call[c].op = "balance"
    /\ LET a == call[c].affiliate
           approved == ApprovedEntries({a})
       IN  /\ ~HasOpenRequest(a)
           /\ Advance(c, [op |-> "request", affiliate |-> a, amount |-> call[c].amount,
                          listed |-> {e \in approved : PayoutAmount(e, approved, OutstandingDebt(a)) # 0}])
    /\ UNCHANGED <<used, entry, batch, item, snap, exec, request, details>>

createPayoutRequestInsert(c, r) ==
    /\ call[c].op = "request"
    /\ request[r].status = "none"
    /\ AllocationIndexAllows(call[c].listed)
    /\ request' = [request EXCEPT ![r] = [status |-> "open", owner |-> call[c].affiliate,
                                         amount |-> call[c].amount, alloc |-> call[c].listed]]
    /\ Finish(c)
    /\ UNCHANGED <<used, entry, batch, item, snap, exec, details>>

declinePayoutRequest(r) ==
    /\ request[r].status = "open"
    /\ request' = [request EXCEPT ![r].status = "declined", ![r].alloc = {}]
    /\ UNCHANGED <<used, entry, batch, item, snap, exec, details, call>>

-----------------------------------------------------------------------------
(* Executions: what an external payout system is asked for and reports.    *)

dispatchPayoutBatch(b) ==
    /\ batch[b] = "prepared"
    /\ \A a \in Affiliates : exec[b][a].status = "none"
    /\ ItemsOf(b) # {}
    /\ \A e \in ItemsOf(b) : item[b][e].status = "pending" /\ snap[b][entry[e].owner] > 0
    /\ Positive(b)
    /\ exec' = [exec EXCEPT ![b] = [a \in Affiliates |->
           IF a \in AffiliatesOf(b) THEN [NoExec EXCEPT !.status = "ready"] ELSE exec[b][a]]]
    /\ UNCHANGED <<used, entry, batch, item, snap, request, details, call>>

\* An Idempotency-Key that reported failure cannot report success.
markPayoutExecutionSucceeded(c, b, a, key) ==
    /\ exec[b][a].status \in {"ready", "failed"}
    /\ exec[b][a].key # key
    /\ markAffiliatePayoutPaidRead(c, b, a, "external", key)

markPayoutExecutionFailed(b, a, key) ==
    /\ exec[b][a].status = "ready"
    /\ exec' = [exec EXCEPT ![b][a] = [status |-> "failed", source |-> "external", key |-> key]]
    /\ UNCHANGED <<used, entry, batch, item, snap, request, details, call>>

-----------------------------------------------------------------------------
(* Payout details: the lock is checked, then the row is written.           *)

isPayoutDetailsLocked(a) ==
    \/ HasOpenRequest(a)
    \/ \E b \in Batches : batch[b] = "prepared" /\ a \in AffiliatesOf(b)

saveAffiliatePayoutDetailsRead(c, a) ==
    /\ ~isPayoutDetailsLocked(a)
    /\ Start(c, [op |-> "save", affiliate |-> a])
    /\ UNCHANGED <<used, entry, batch, item, snap, exec, request, details>>

saveAffiliatePayoutDetailsWrite(c) ==
    /\ call[c].op = "save"
    /\ details[call[c].affiliate] < MaxDetails
    /\ details' = [details EXCEPT ![call[c].affiliate] = @ + 1]
    /\ Finish(c)
    /\ UNCHANGED <<used, entry, batch, item, snap, exec, request>>

-----------------------------------------------------------------------------
Revenue ==
    \/ \E a \in Affiliates, x \in Commissions : EarnCommission(a, x)
    \/ \E e \in EntryIds, x \in Refunds : RefundCommission(e, x)
    \/ \E e \in Disputable : markEntriesDisputed(e) \/ restoreDisputedEntries(e)

CallStep(c) ==
    \/ \E a \in Affiliates : createPayoutRunRead(c, {a})
    \/ createPayoutRunRead(c, Affiliates)
    \/ createPayoutRunReserve(c)
    \/ \E b \in Batches : createPayoutRunInsert(c, b)
    \/ \E b \in Batches, e \in EntryIds, status \in {"pending", "paid", "failed"} :
          resolvePayoutItemRead(c, b, e, status)
    \/ resolvePayoutItemWrite(c)
    \/ \E b \in Batches : cancelPayoutRunRead(c, b) \/ markPayoutRunPaidRead(c, b)
    \/ cancelPayoutRunWrite(c)
    \/ markPayoutRunPaidWrite(c)
    \/ \E b \in Batches, a \in Affiliates : markAffiliatePayoutPaidRead(c, b, a, "manual", None)
    \/ \E b \in Batches, a \in Affiliates, k \in Keys : markPayoutExecutionSucceeded(c, b, a, k)
    \/ markAffiliatePayoutPaidWrite(c)
    \/ \E a \in Affiliates : createPayoutRequestRead(c, a) \/ saveAffiliatePayoutDetailsRead(c, a)
    \/ createPayoutRequestList(c)
    \/ \E r \in Requests : createPayoutRequestInsert(c, r)
    \/ saveAffiliatePayoutDetailsWrite(c)
    \/ Abort(c)

Next ==
    \/ Revenue
    \/ \E c \in Callers : CallStep(c)
    \/ \E b \in Batches : generatePayoutRunCsv(b) \/ dispatchPayoutBatch(b)
    \/ \E b \in Batches, a \in Affiliates, k \in Keys : markPayoutExecutionFailed(b, a, k)
    \/ \E r \in Requests : declinePayoutRequest(r)

Spec == Init /\ [][Next]_vars

-----------------------------------------------------------------------------
(* Properties.                                                             *)

EntrySets == SUBSET EntryIds
CallType ==
    {Idle}
    \cup [op : {"reserve"}, listed : EntrySets, outstanding : [Affiliates -> Amounts]]
    \cup [op : {"insert"}, listed : EntrySets, outstanding : [Affiliates -> Amounts],
          reserved : [Affiliates -> Amounts]]
    \cup [op : {"resolve"}, batch : Batches, entry : EntryIds, status : {"pending", "paid", "failed"}]
    \cup [op : {"cancel"}, batch : Batches]
    \cup [op : {"payrun"}, batch : Batches, paid : EntrySets]
    \cup [op : {"markpaid"}, batch : Batches, affiliate : Affiliates,
          source : {"manual", "external"}, key : Keys \cup {None}]
    \cup [op : {"balance"}, affiliate : Affiliates, amount : Amounts]
    \cup [op : {"request"}, affiliate : Affiliates, amount : Amounts, listed : EntrySets]
    \cup [op : {"save"}, affiliate : Affiliates]

\* Every row and every call in flight has its type.
TypeOK ==
    /\ used \in 0 .. MaxEntries
    /\ entry \in [EntryIds -> EntryRow]
    /\ batch \in [Batches -> {"none", "draft", "prepared", "paid", "cancelled"}]
    /\ item \in [Batches -> [EntryIds -> ItemRow]]
    /\ snap \in [Batches -> [Affiliates -> 0 .. MaxDetails]]
    /\ exec \in [Batches -> [Affiliates -> ExecRow]]
    /\ request \in [Requests -> RequestRow]
    /\ details \in [Affiliates -> 0 .. MaxDetails]
    /\ call \in [Callers -> CallType]

\* A commission entry is in at most one active payout item, whatever calls
\* overlap: the unique index refuses inserts and resolutions, and the batch
\* status updates of export, mark-paid and cancel never bring a second item back.
ActiveOnce == \A e \in EntryIds, b1, b2 \in Batches :
    ItemActive(item[b1][e]) /\ ItemActive(item[b2][e]) => b1 = b2

\* The batch status copied onto the items is the status of their batch, except
\* that a cancellation overtaken by the payment leaves cancelled items behind.
ItemsFollowBatch == \A b \in Batches : \A e \in ItemsOf(b) :
    \/ item[b][e].batchStatus = batch[b]
    \/ item[b][e].batchStatus = "cancelled" /\ batch[b] = "paid"

\* A batch moves draft, prepared, paid, or is cancelled before it is paid: no
\* stale mark-paid, export or cancel call revives a paid or a cancelled batch.
BatchLifecycle == [][\A b \in Batches : batch'[b] = batch[b] \/
    <<batch[b], batch'[b]>> \in
        {"none"} \X {"draft"} \cup {"draft"} \X {"prepared"} \cup {"prepared"} \X {"paid"}
        \cup {"draft", "prepared"} \X {"cancelled"}]_vars

\* api.md, Payouts: a failed execution may still succeed, a succeeded one is
\* terminal, also when the two callbacks and a manual mark-paid overlap.
SucceededIsTerminal == [][\A b \in Batches, a \in Affiliates :
    exec[b][a].status = "succeeded" => exec'[b][a].status = "succeeded"]_vars

\* A refund is booked as recovery debt only against a commission that stays
\* paid: no dispute, restore or cancelled batch takes a paid entry back.
DebtFollowsPayment == \A e \in EntryIds :
    entry[e].kind = "recovery_debt" => entry[entry[e].of].status = "paid"

\* An entry is allocated to at most one open or fulfilled payout request.
AllocatedOnce == \A r1, r2 \in Requests :
    r1 = r2 \/ request[r1].alloc \cap request[r2].alloc = {}

\* A fulfilled request asked for exactly what the items tagged with it amount to.
FulfilledAmountMatches == \A r \in Requests : request[r].status = "fulfilled" =>
    \E b \in Batches :
        /\ batch[b] \in {"prepared", "paid", "cancelled"}
        /\ \A e \in request[r].alloc : item[b][e].request = r
        /\ request[r].amount = SumFunctionOnSet(ItemAmounts(item, b), request[r].alloc)

\* "... reserve that same difference so concurrent runs cannot apply the same debt
\* twice" (balance.ts:63-64): items keep back no more than the recovery debt.
DebtAppliedOnce == \A a \in Affiliates :
    Withheld(item, a, {"draft", "prepared", "paid"}, {"pending", "paid"}) <= TotalDebt(a)

\* The batches keep the promise of EntryAllocation: an entry is held by the
\* batch in which it has an active item, and a batch was opened with the
\* entries it has items of.
Holder == [e \in EntryIds |->
    IF Active(e) THEN CHOOSE b \in Batches : ItemActive(item[b][e]) ELSE None]
Opened == [b \in Batches |-> ItemsOf(b)]
Allocation == INSTANCE EntryAllocation WITH
    Entries <- EntryIds, Nobody <- None, holder <- Holder, life <- batch, opened <- Opened
AllocationSpec == Allocation!Spec
=============================================================================

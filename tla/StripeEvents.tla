---------------------------- MODULE StripeEvents ----------------------------
(***************************************************************************)
(* How the webhook of one Stripe connection turns events into money        *)
(* records: the event is stored, claimed, handled and marked in separate   *)
(* statements of one request, Stripe delivers it again until it is told    *)
(* 2xx, and an administrator may retry it.                                 *)
(*                                                                         *)
(* processing_attempts is compared with two values only: 1, and what the   *)
(* claim of the same request returned.  "claims" and "owner" stand for it: *)
(* the attempt of request w is the current one iff w is the owner.         *)
(***************************************************************************)
EXTENDS Naturals, FiniteSets

CONSTANTS
    Events,         \* Stripe events of the connection
    Type,           \* the type of an event
    NotOwed,        \* checkouts in subscription mode or not paid, and disputes closed with
                    \* another status than lost, won and withdrawn: nothing to record
    Parent,         \* the payment event a refund or dispute event waits for, or None
    Workers,        \* webhook and admin requests in flight at the same time
    Late,           \* payment events whose attribution is found only later
    MaxFaults,      \* bound: crashes, failed calls and requests slower than 5 minutes
    AdminRetries,   \* whether administrators retry events
    CanDisconnect,  \* whether the connection may be disconnected
    Livemode,       \* whether it is a live connection, not a test one
    MaxSwitches,    \* bound: changes of the app's revenue source
    None

ASSUME StripeAssumption ==
    /\ None \notin Events \cup Workers
    /\ Parent \in [Events -> Events \cup {None}]
    /\ \A e \in Events : Parent[e] # None => Parent[Parent[e]] = None
    /\ Type \in [Events -> {"checkout", "invoice", "refund", "dispute"}]
    /\ \A e \in Events : Parent[e] = None <=> Type[e] \in {"checkout", "invoice"}
    /\ NotOwed \subseteq {e \in Events : Type[e] \in {"checkout", "dispute"}}
    /\ Late \subseteq {e \in Events : Parent[e] = None}
    /\ MaxFaults \in Nat /\ MaxSwitches \in Nat
    /\ AdminRetries \in BOOLEAN /\ CanDisconnect \in BOOLEAN /\ Livemode \in BOOLEAN

VARIABLES
    row,        \* stripe_events: status "none" is no row
    work,       \* what each request in flight is about to do
    recorded,   \* the transactions and commission entries of an event
    found,      \* payment events whose attribution resolves by now
    emitted,    \* how often the domain events of an event went out
    acked,      \* events that Stripe was told 2xx for
    skipped,    \* events that were ignored
    connected,  \* stripe_connections.status
    fromStripe, \* apps.revenue_source is stripe, not the API
    switches,   \* how often it changed
    faults
vars == <<row, work, recorded, found, emitted, acked, skipped, connected, fromStripe, switches, faults>>

NoRow == [status |-> "none", claims |-> 0, owner |-> None, stale |-> FALSE]
Idle == [step |-> "idle"]

Init ==
    /\ row = [e \in Events |-> NoRow]
    /\ work = [w \in Workers |-> Idle]
    /\ recorded = [e \in Events |-> "none"]
    /\ found = {e \in Events : Parent[e] = None} \ Late
    /\ emitted = [e \in Events |-> 0]
    /\ acked = {}
    /\ skipped = {}
    /\ connected = TRUE
    /\ fromStripe = TRUE
    /\ switches = 0
    /\ faults = 0

Busy(e) == {w \in Workers : work[w] # Idle /\ work[w].event = e}
At(w, step) == work[w].step = step
Goto(w, step) == work' = [work EXCEPT ![w].step = step]
Finish(w) == work' = [work EXCEPT ![w] = Idle]

-----------------------------------------------------------------------------
(* Requests.                                                               *)

\* receiveVerifiedStripeWebhook: ingestStripeEvent stores the event once.
Deliver(w, e) ==
    /\ work[w] = Idle
    /\ row' = IF row[e].status = "none" THEN [row EXCEPT ![e].status = "pending"] ELSE row
    /\ work' = [work EXCEPT ![w] = [step |-> "claim", event |-> e, admin |-> FALSE,
                                   first |-> FALSE, seen |-> "none"]]
    /\ UNCHANGED <<recorded, found, emitted, acked, skipped, connected, fromStripe, switches, faults>>

\* reprocessStripeEvent of the administrators.
Retry(w, e) ==
    /\ AdminRetries
    /\ work[w] = Idle
    /\ row[e].status # "none"
    /\ row[e].status = "processing" => row[e].stale
    /\ work' = [work EXCEPT ![w] = [step |-> "claim", event |-> e, admin |-> TRUE,
                                   first |-> FALSE, seen |-> "none"]]
    /\ UNCHANGED <<row, recorded, found, emitted, acked, skipped, connected, fromStripe, switches, faults>>

NeverTakenOver(e, force) ==                                         \* mutant
    \/ row[e].status \in {"pending", "failed"}
    \/ force /\ row[e].status = "processed"
Claimable(e, force) ==
    \/ row[e].status \in {"pending", "failed"}
    \/ row[e].status = "processing" /\ row[e].stale
    \/ force /\ row[e].status = "processed"

claimStripeEvent(w) ==
    /\ At(w, "claim")
    /\ LET e == work[w].event
       IN  /\ Claimable(e, work[w].admin)
           /\ row' = [row EXCEPT ![e] = [status |-> "processing", owner |-> w, stale |-> FALSE,
                                        claims |-> IF @.claims = 0 THEN 1 ELSE 2]]
           /\ work' = [work EXCEPT ![w].step = "resolve", ![w].first = (row[e].claims = 0)]
    /\ UNCHANGED <<recorded, found, emitted, acked, skipped, connected, fromStripe, switches, faults>>

\* Stripe is told 2xx for an event that is processed already, 5xx otherwise.
refuseWith2xx(w) ==                                                 \* mutant
    /\ At(w, "claim")
    /\ ~Claimable(work[w].event, work[w].admin)
    /\ acked' = acked \cup {work[w].event}
    /\ Finish(w)
    /\ UNCHANGED <<row, recorded, found, emitted, skipped, connected, fromStripe, switches, faults>>
claimRefused(w) ==
    /\ At(w, "claim")
    /\ LET e == work[w].event
       IN  /\ ~Claimable(e, work[w].admin)
           /\ acked' = IF row[e].status = "processed" THEN acked \cup {e} ELSE acked
    /\ Finish(w)
    /\ UNCHANGED <<row, recorded, found, emitted, skipped, connected, fromStripe, switches, faults>>

\* processClaimedStripeEvent: an event of a disconnected account, or of an app whose
\* revenue the API reports, is ignored.  So is one that owes nothing, a dispute only
\* once its payment is found; others go to the handler of their type.
Settles(e) == e \in NotOwed /\ (Type[e] = "dispute" => recorded[Parent[e]] # "none")
Ignored(e) == ~connected \/ ~fromStripe \/ Settles(e)
ignoreEvent(w) ==
    /\ At(w, "resolve")
    /\ Ignored(work[w].event)
    /\ skipped' = skipped \cup {work[w].event}
    /\ Goto(w, "mark")
    /\ UNCHANGED <<row, recorded, found, emitted, acked, connected, fromStripe, switches, faults>>

\* The handler reads what it needs from Stripe and from the database: a payment
\* its attribution, a refund or dispute its payment, without which it fails.
Handle(w, type, next, seen) ==
    /\ At(w, "resolve")
    /\ ~Ignored(work[w].event)
    /\ Type[work[w].event] = type
    /\ work' = [work EXCEPT ![w].step = next, ![w].seen = seen]
    /\ UNCHANGED <<row, recorded, found, emitted, acked, skipped, connected, fromStripe, switches, faults>>
Attribution(e) == IF e \in found THEN "attributed" ELSE "plain"
Awaits(e) == IF recorded[Parent[e]] = "none" THEN "fail" ELSE "record"
handleCheckoutSessionCompleted(w) ==
    Handle(w, "checkout", "record", Attribution(work[w].event))
handleInvoicePaid(w) == Handle(w, "invoice", "record", Attribution(work[w].event))
handleChargeRefunded(w) == Handle(w, "refund", Awaits(work[w].event), "child")
handleChargeDispute(w) == Handle(w, "dispute", Awaits(work[w].event), "child")

\* The transaction of the handler locks the revenue source: if the API reports the
\* revenue by now, a payment or refund is ignored after all, a dispute fails.
\* createTransactionRecord keeps a record that exists; one with another attribution is
\* a conflict.
SourceConflict(w, e) ==
    /\ ~fromStripe
    /\ UNCHANGED recorded
    /\ \/ Type[e] # "dispute" /\ skipped' = skipped \cup {e} /\ Goto(w, "mark")
       \/ Type[e] = "dispute" /\ UNCHANGED skipped /\ Goto(w, "fail")
NoConflict(e, seen) == FALSE                                        \* mutant
Conflicts(e, seen) == recorded[e] \notin {"none", seen}
WriteRecord(w, e, seen) ==
    /\ fromStripe
    /\ UNCHANGED skipped
    /\ \/ Conflicts(e, seen) /\ UNCHANGED recorded /\ Goto(w, "fail")
       \/ ~Conflicts(e, seen) /\ recorded' = [recorded EXCEPT ![e] = seen] /\ Goto(w, "mark")
recordEvent(w) ==
    /\ At(w, "record")
    /\ LET e == work[w].event IN SourceConflict(w, e) \/ WriteRecord(w, e, work[w].seen)
    /\ UNCHANGED <<row, found, emitted, acked, connected, fromStripe, switches, faults>>

\* The condition of both updates: still processing, and still this attempt.
AnyAttempt(w, e) == row[e].status = "processing"                    \* mutant
Current(w, e) == row[e].status = "processing" /\ row[e].owner = w

EveryAttempt(first) == TRUE                                         \* mutant
EmitsDomainEvents(first) == first

\* An attempt that was superseded fails.
markStripeEventProcessed(w) ==
    /\ At(w, "mark")
    /\ LET e == work[w].event
       IN  \/ /\ Current(w, e)
              /\ row' = [row EXCEPT ![e].status = "processed", ![e].owner = None]
              /\ Goto(w, IF EmitsDomainEvents(work[w].first) THEN "emit" ELSE "respond")
           \/ /\ ~Current(w, e)
              /\ Goto(w, "fail")
              /\ UNCHANGED row
    /\ UNCHANGED <<recorded, found, emitted, acked, skipped, connected, fromStripe, switches, faults>>

emitProcessedStripeDomainEvents(w) ==
    /\ At(w, "emit")
    /\ LET e == work[w].event
       IN  emitted' = IF recorded[e] = "none" \/ Type[e] = "dispute" THEN emitted
                      ELSE [emitted EXCEPT ![e] = @ + 1]
    /\ Goto(w, "respond")
    /\ UNCHANGED <<row, recorded, found, acked, skipped, connected, fromStripe, switches, faults>>

respond(w) ==
    /\ At(w, "respond")
    /\ acked' = IF work[w].admin THEN acked ELSE acked \cup {work[w].event}
    /\ Finish(w)
    /\ UNCHANGED <<row, recorded, found, emitted, skipped, connected, fromStripe, switches, faults>>

markStripeEventFailed(w) ==
    /\ At(w, "fail")
    /\ LET e == work[w].event
       IN  row' = IF Current(w, e) THEN [row EXCEPT ![e].status = "failed", ![e].owner = None] ELSE row
    /\ Finish(w)
    /\ UNCHANGED <<recorded, found, emitted, acked, skipped, connected, fromStripe, switches, faults>>

-----------------------------------------------------------------------------
(* Faults and the outside world.                                           *)

Fault == faults < MaxFaults /\ faults' = faults + 1

\* A call to Stripe or to the database throws while the event is handled.
HandlerError(w) ==
    /\ Fault
    /\ work[w].step \in {"resolve", "record", "mark", "emit"}
    /\ Goto(w, "fail")
    /\ UNCHANGED <<row, recorded, found, emitted, acked, skipped, connected, fromStripe, switches>>

Crash(w) ==
    /\ Fault
    /\ work[w] # Idle
    /\ Finish(w)
    /\ UNCHANGED <<row, recorded, found, emitted, acked, skipped, connected, fromStripe, switches>>

\* Five minutes pass; that the owner is still at work then counts as a fault.
Stuck(e) ==
    /\ row[e].status = "processing" /\ ~row[e].stale
    /\ IF row[e].owner \in Busy(e) /\ ~At(row[e].owner, "claim") THEN Fault ELSE UNCHANGED faults
    /\ row' = [row EXCEPT ![e].stale = TRUE]
    /\ UNCHANGED <<work, recorded, found, emitted, acked, skipped, connected, fromStripe, switches>>

\* A referral or a promotion code of the customer is stored.
Attribute(e) ==
    /\ e \in Late \ found
    /\ found' = found \cup {e}
    /\ UNCHANGED <<row, work, recorded, emitted, acked, skipped, connected, fromStripe, switches, faults>>

markStripeConnectionDisconnected ==
    /\ CanDisconnect /\ connected
    /\ connected' = FALSE
    /\ UNCHANGED <<row, work, recorded, found, emitted, acked, skipped, fromStripe, switches, faults>>

\* updateAppRevenueSource: the owner changes where the revenue comes from: not after a live payment, and
\* not to the API while a live account is connected (assertCanSetRevenueSource).
updateRevenueSource ==
    /\ switches < MaxSwitches
    /\ Livemode => /\ \A e \in Events : Parent[e] = None => recorded[e] = "none"
                   /\ ~fromStripe \/ ~connected
    /\ fromStripe' = ~fromStripe
    /\ switches' = switches + 1
    /\ UNCHANGED <<row, work, recorded, found, emitted, acked, skipped, connected, faults>>

-----------------------------------------------------------------------------
WorkStep(w) ==
    \/ claimStripeEvent(w)
    \/ claimRefused(w)
    \/ ignoreEvent(w)
    \/ handleCheckoutSessionCompleted(w) \/ handleInvoicePaid(w)
    \/ handleChargeRefunded(w) \/ handleChargeDispute(w)
    \/ recordEvent(w)
    \/ markStripeEventProcessed(w)
    \/ emitProcessedStripeDomainEvents(w)
    \/ respond(w)
    \/ markStripeEventFailed(w)

Next ==
    \/ \E w \in Workers, e \in Events : Deliver(w, e) \/ Retry(w, e)
    \/ \E w \in Workers : WorkStep(w) \/ HandlerError(w) \/ Crash(w)
    \/ \E e \in Events : Stuck(e) \/ Attribute(e)
    \/ markStripeConnectionDisconnected \/ updateRevenueSource

Spec == Init /\ [][Next]_vars

\* A request that runs goes on, time passes, and Stripe delivers an event again
\* and again until it is told 2xx (api/webhooks/stripe/route.ts:70).
Redeliver(e) == e \notin acked /\ \E w \in Workers : Deliver(w, e)
FairSpec ==
    /\ Spec
    /\ \A w \in Workers : WF_vars(WorkStep(w))
    /\ \A e \in Events : WF_vars(Stuck(e)) /\ SF_vars(Redeliver(e))

-----------------------------------------------------------------------------
(* Properties.                                                             *)

\* stripe.md:96: Stripe is told 2xx only for an event whose records exist, or that
\* was ignored (InboxSpec: for a reason that held then, in the transaction that would
\* have recorded it or before), through crashes, takeovers, repeated deliveries and
\* changes of the revenue source: no event is lost between Stripe and the ledger.
AckedIsRecorded == \A e \in acked : recorded[e] # "none" \/ e \in skipped

\* The domain events of a Stripe event go out at most once, however often the
\* event is delivered, taken over and retried.
EmittedOnce == \A e \in Events : emitted[e] <= 1

\* What one request marks, another one that has the same event claimed does not
\* undo: only the owner of a processing row, or a new claim, changes its status.
OnlyOwnerMarks == [][\A e \in Events :
    row[e].status = "processing" /\ row'[e].status # "processing" =>
        \E w \in Workers : row[e].owner = w /\ work[w] # work'[w]]_vars

\* All that requests do to an event together is one of what EventInbox allows, or
\* nothing: a record is written once, after the one of its payment, and never
\* rewritten by a later attempt that finds another attribution; and what is announced
\* is what is recorded (processStoredStripeEvent, createTransactionRecord).
Inbox == INSTANCE EventInbox WITH
    Payment <- Parent, Nothing <- None, Silent <- {e \in Events : Type[e] = "dispute"},
    record <- recorded, ignored <- skipped, announced <- emitted, answered <- acked
InboxSpec == Inbox!Spec

\* Every event Stripe sends is in the end acknowledged, also a refund that came
\* before its payment, whatever crashes and slow requests there were.
EventuallyAcked == \A e \in Events : <>(e \in acked)
=============================================================================

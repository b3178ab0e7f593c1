-------------------------- MODULE Requests_proof --------------------------
(***************************************************************************)
(* What arrives over HTTP.  Stripe's events: none is lost and none is       *)
(* announced twice, for any number of events, requests in flight, crashes   *)
(* and slow requests, which together implement EventInbox.  And the         *)
(* requests of callers: whatever ids they name and whatever is revoked      *)
(* meanwhile, they touch what is their own, for any apps, users and         *)
(* credentials.                                                            *)
(***************************************************************************)
EXTENDS StripeEvents, ApiAccess, TLAPS


Steps == {"claim", "resolve", "record", "mark", "emit", "respond", "fail"}
Request == [step : Steps, event : Events, admin : BOOLEAN, first : BOOLEAN,
            seen : {"none", "attributed", "plain", "child"}]
EventRow == [status : {"none", "pending", "processing", "processed", "failed"},
             claims : {0, 1, 2}, owner : Workers \cup {None}, stale : BOOLEAN]

Types ==
    /\ row \in [Events -> EventRow]
    /\ work \in [Workers -> {Idle} \cup Request]
    /\ recorded \in [Events -> {"none", "attributed", "plain", "child"}]
    /\ found \subseteq Events /\ acked \subseteq Events /\ skipped \subseteq Events
    /\ emitted \in [Events -> Nat]
    /\ connected \in BOOLEAN /\ fromStripe \in BOOLEAN
    /\ switches \in 0 .. MaxSwitches /\ faults \in 0 .. MaxFaults

-----------------------------------------------------------------------------
(* The invariant.                                                          *)

Settled(e) == recorded[e] # "none" \/ e \in skipped

\* What a request has done already at its step.
Progress(w) ==
    /\ work[w].step = "record" => work[w].seen # "none"
    /\ work[w].step \in {"mark", "emit", "respond"} => Settled(work[w].event)
    /\ work[w].step = "emit" => work[w].first
Recorded ==
    /\ \A e \in Events : row[e].status = "processed" => Settled(e)
    /\ \A w \in Workers : Progress(w)

\* A request that may still announce its event: the first that claimed it.
Announces(w, e) == /\ work[w].step \in {"resolve", "record", "mark", "emit"}
                   /\ work[w].event = e /\ work[w].first
Announced ==
    /\ \A e \in Events, w \in Workers : row[e].claims = 0 => emitted[e] = 0 /\ ~Announces(w, e)
    /\ \A e \in Events, w \in Workers : Announces(w, e) => emitted[e] = 0
    /\ \A e \in Events, v, w \in Workers : Announces(v, e) /\ Announces(w, e) => v = w

IInv == Types /\ Recorded /\ AckedIsRecorded /\ Announced /\ EmittedOnce

-----------------------------------------------------------------------------
(* Requests.                                                               *)

\* A request that has a step is one.
LEMMA Working ==
  ASSUME Types, NEW w \in Workers, work[w].step # "idle"
  PROVE  work[w] \in Request
  BY DEF Types, Idle

\* One request moves, or ends; its step is another, and it stays with its event.
Moved(w, r) ==
    /\ work' = [work EXCEPT ![w] = r]
    /\ r \in {Idle} \cup Request

\* A request goes to another step.
LEMMA GotoMoves ==
  ASSUME Types, NEW w \in Workers, work[w].step # "idle", NEW s \in Steps, Goto(w, s)
  PROVE  /\ Moved(w, [work[w] EXCEPT !.step = s])
         /\ [work[w] EXCEPT !.step = s].step = s
         /\ [work[w] EXCEPT !.step = s].event = work[w].event
         /\ [work[w] EXCEPT !.step = s].first = work[w].first
         /\ [work[w] EXCEPT !.step = s].seen = work[w].seen
  BY Working DEF Moved, Goto, Request

\* What the move of one request leaves of the types and of the others.
LEMMA OneMoves ==
  ASSUME Types, NEW w \in Workers, NEW r, Moved(w, r)
  PROVE  /\ work' \in [Workers -> {Idle} \cup Request] /\ work'[w] = r
         /\ \A v \in Workers \ {w} : work'[v] = work[v]
  BY DEF Moved, Types

\* Records and skipped events stay, and what is acknowledged or processed is settled.
LEMMA RecordedKept ==
  ASSUME Types, Recorded, AckedIsRecorded, NEW w \in Workers, NEW r, Moved(w, r),
         \A e \in Events : recorded[e] # "none" => recorded'[e] # "none",
         skipped \subseteq skipped',
         r.step = "record" => r.seen # "none",
         r.step = "emit" => r.first,
         r.step \in {"mark", "emit", "respond"} =>
           recorded'[r.event] # "none" \/ r.event \in skipped',
         \A e \in Events : row'[e].status = "processed" => row[e].status = "processed" \/ Settled(e),
         \A e \in acked' : e \in acked \/ (e \in Events /\ Settled(e))
  PROVE  Recorded' /\ AckedIsRecorded'
<1>1. \A e \in Events : Settled(e) => Settled(e)'
  BY DEF Settled
<1>2. work'[w] = r /\ \A v \in Workers \ {w} : work'[v] = work[v]
  BY OneMoves
<1>3. ASSUME NEW e \in Events, (row[e].status = "processed")'
      PROVE  Settled(e)'
  BY <1>1, <1>3 DEF Recorded
<1>4. Progress(w)'
  BY <1>2 DEF Progress, Settled
<1>5. ASSUME NEW v \in Workers \ {w}
      PROVE  Progress(v)'
  <2>1. work'[v] = work[v] /\ Progress(v)
    BY <1>2 DEF Recorded
  <2>2. work[v].step \in {"mark", "emit", "respond"} => work[v].event \in Events
    BY Working DEF Request
  <2>3. work[v].step \in {"mark", "emit", "respond"} =>
          recorded'[work[v].event] # "none" \/ work[v].event \in skipped'
    BY <1>1, <2>1, <2>2 DEF Progress, Settled
  <2> QED BY <2>1, <2>3 DEF Progress, Settled
<1>6. Recorded'
  BY <1>3, <1>4, <1>5 DEF Recorded
<1>7. AckedIsRecorded'
  BY DEF AckedIsRecorded, Settled, Types
<1> QED BY <1>6, <1>7

\* The announcements stay as they are while no request becomes the first one.
LEMMA AnnouncedKept ==
  ASSUME Types, Announced, EmittedOnce, NEW w \in Workers, NEW r, Moved(w, r), emitted' = emitted,
         \A e \in Events : row'[e].claims = 0 => row[e].claims = 0,
         (r.step \in {"resolve", "record", "mark", "emit"} /\ r.first) => Announces(w, r.event)
  PROVE  Announced' /\ EmittedOnce'
<1>1. work'[w] = r /\ \A v \in Workers \ {w} : work'[v] = work[v]
  BY OneMoves
<1>2. \A e \in Events, v \in Workers : Announces(v, e)' => Announces(v, e)
  BY <1>1 DEF Announces
<1>3. EmittedOnce'
  BY DEF EmittedOnce
<1>4. Announced'
  <2>1. ASSUME NEW e \in Events, NEW v \in Workers, row'[e].claims = 0
        PROVE  emitted'[e] = 0 /\ ~Announces(v, e)'
    BY <1>2, <2>1 DEF Announced
  <2>2. ASSUME NEW e \in Events, NEW v \in Workers, Announces(v, e)'
        PROVE  emitted'[e] = 0
    BY <1>2, <2>2 DEF Announced
  <2>3. ASSUME NEW e \in Events, NEW u \in Workers, NEW v \in Workers,
               Announces(u, e)', Announces(v, e)'
        PROVE  u = v
    BY <1>2, <2>3 DEF Announced
  <2> QED BY <2>1, <2>2, <2>3 DEF Announced
<1> QED BY <1>3, <1>4

\* Ending relies on nothing.
LEMMA IdleStep == Idle.step = "idle"
  BY DEF Idle

others == <<recorded, found, emitted, skipped, connected, fromStripe, switches>>

-----------------------------------------------------------------------------
(* Steps.                                                                  *)

\* A request takes an event.
LEMMA TakeStep ==
  ASSUME IInv, NEW w \in Workers, NEW e \in Events, Deliver(w, e) \/ Retry(w, e)
  PROVE  IInv'
<1>1. Types /\ Recorded /\ AckedIsRecorded /\ Announced /\ EmittedOnce
  BY DEF IInv
<1>2. PICK a \in BOOLEAN : work' = [work EXCEPT ![w] =
           [step |-> "claim", event |-> e, admin |-> a, first |-> FALSE, seen |-> "none"]]
  BY DEF Deliver, Retry
<1> DEFINE r == [step |-> "claim", event |-> e, admin |-> a, first |-> FALSE, seen |-> "none"]
<1>3. Moved(w, r) /\ r.step = "claim"
  BY <1>2 DEF Moved, Request, Steps
<1>4. UNCHANGED others /\ acked' = acked /\ faults' = faults
  BY DEF Deliver, Retry, others
<1>5. /\ row' \in [Events -> EventRow]
      /\ \A x \in Events : row'[x].claims = row[x].claims
      /\ \A x \in Events : row'[x].status = "processed" => row[x].status = "processed"
  <2>1. CASE row' = row
    BY <1>1, <2>1 DEF Types
  <2>2. CASE row' = [row EXCEPT ![e].status = "pending"]
    <3> DEFINE new == [row[e] EXCEPT !.status = "pending"]
    <3>1. row[e] \in EventRow /\ row \in [Events -> EventRow]
      BY <1>1 DEF Types
    <3>2. new \in EventRow /\ new.claims = row[e].claims /\ new.status = "pending"
      BY <3>1 DEF EventRow
    <3>3. row' = [row EXCEPT ![e] = new]
      BY <2>2
    <3> HIDE DEF new
    <3> QED BY <3>1, <3>2, <3>3
  <2> QED BY <2>1, <2>2 DEF Deliver, Retry
<1> HIDE DEF r
<1>6. Types'
  BY <1>1, <1>3, <1>4, <1>5, OneMoves DEF Types, others
<1>7. Recorded' /\ AckedIsRecorded'
  BY <1>1, <1>3, <1>4, <1>5, RecordedKept DEF others, Types
<1>8. Announced' /\ EmittedOnce'
  BY <1>1, <1>3, <1>4, <1>5, AnnouncedKept DEF others
<1> QED BY <1>6, <1>7, <1>8 DEF IInv

\* A claim makes a request the first one only if no request has been before.
LEMMA ClaimStep ==
  ASSUME IInv, NEW w \in Workers, claimStripeEvent(w)
  PROVE  IInv'
<1> DEFINE e == work[w].event
           f == row[e].claims = 0
           r == [work[w] EXCEPT !.step = "resolve", !.first = f]
           new == [status |-> "processing", owner |-> w, stale |-> FALSE,
                   claims |-> IF row[e].claims = 0 THEN 1 ELSE 2]
<1>1. Types /\ Recorded /\ AckedIsRecorded /\ Announced /\ EmittedOnce
  BY DEF IInv
<1>2. work[w] \in Request /\ e \in Events /\ work[w].step = "claim"
  BY <1>1, Working DEF claimStripeEvent, At, Request
<1>3. UNCHANGED others /\ acked' = acked /\ faults' = faults
  BY DEF claimStripeEvent, others
<1>4. row' = [row EXCEPT ![e] = new] /\ row \in [Events -> EventRow]
  BY <1>1 DEF claimStripeEvent, Types
<1>5. /\ new \in EventRow /\ new.claims # 0 /\ new.status = "processing"
  BY DEF EventRow
<1>6. /\ row' \in [Events -> EventRow] /\ row'[e] = new
      /\ \A x \in Events \ {e} : row'[x] = row[x]
  BY <1>2, <1>4, <1>5
<1> HIDE DEF new
<1>7. /\ work' = [work EXCEPT ![w] = r] /\ r \in Request
      /\ r.step = "resolve" /\ r.event = e /\ r.first = f
  <2>1. r \in Request /\ r.step = "resolve" /\ r.event = e /\ r.first = f
    BY <1>2 DEF Request, Steps
  <2> QED BY <1>1, <1>2, <2>1 DEF claimStripeEvent, Types
<1>8. Moved(w, r)
  BY <1>7 DEF Moved
<1> HIDE DEF r
<1>9. Types'
  BY <1>1, <1>3, <1>6, <1>8, OneMoves DEF Types, others
<1>10. Recorded' /\ AckedIsRecorded'
  BY <1>1, <1>3, <1>5, <1>6, <1>7, <1>8, RecordedKept DEF others, Types
<1>11. EmittedOnce'
  BY <1>1, <1>3 DEF others, EmittedOnce
<1>12. work'[w] = r /\ \A v \in Workers \ {w} : work'[v] = work[v]
  BY <1>1, <1>8, OneMoves
<1>13. \A x \in Events, v \in Workers : Announces(v, x)' =>
         Announces(v, x) \/ (v = w /\ x = e /\ f)
  BY <1>7, <1>12 DEF Announces
<1>14. f => emitted[e] = 0 /\ \A v \in Workers : ~Announces(v, e)
  BY <1>1, <1>2 DEF Announced
<1>15. Announced'
  <2>0. emitted' = emitted
    BY <1>3 DEF others
  <2>1. ASSUME NEW x \in Events, NEW v \in Workers, row'[x].claims = 0
        PROVE  emitted'[x] = 0 /\ ~Announces(v, x)'
    <3>1. x # e /\ row[x].claims = 0
      BY <1>5, <1>6, <2>1
    <3> QED BY <1>1, <1>13, <2>0, <3>1 DEF Announced
  <2>2. ASSUME NEW x \in Events, NEW v \in Workers, Announces(v, x)'
        PROVE  emitted'[x] = 0
    BY <1>1, <1>13, <1>14, <2>0, <2>2 DEF Announced
  <2>3. ASSUME NEW x \in Events, NEW u \in Workers, NEW v \in Workers,
               Announces(u, x)', Announces(v, x)'
        PROVE  u = v
    BY <1>1, <1>13, <1>14, <2>3 DEF Announced
  <2> QED BY <2>1, <2>2, <2>3 DEF Announced
<1> QED BY <1>9, <1>10, <1>11, <1>15 DEF IInv

\* A step that announces nothing, and leaves of the event what the invariant needs.
LEMMA QuietStep ==
  ASSUME IInv, NEW w \in Workers, NEW r, Moved(w, r), emitted' = emitted,
         row' \in [Events -> EventRow],
         \A e \in Events : row'[e].claims = row[e].claims,
         \A e \in Events : row'[e].status = "processed" => row[e].status = "processed" \/ Settled(e),
         recorded' \in [Events -> {"none", "attributed", "plain", "child"}],
         \A e \in Events : recorded[e] # "none" => recorded'[e] # "none",
         skipped \subseteq skipped', skipped' \subseteq Events,
         \A e \in acked' : e \in acked \/ (e \in Events /\ Settled(e)),
         r.step = "record" => r.seen # "none",
         r.step = "emit" => r.first,
         r.step \in {"mark", "emit", "respond"} =>
           recorded'[r.event] # "none" \/ r.event \in skipped',
         (r.step \in {"resolve", "record", "mark", "emit"} /\ r.first) => Announces(w, r.event),
         found' = found, UNCHANGED <<connected, fromStripe, switches>>, faults' \in 0 .. MaxFaults
  PROVE  IInv'
<1>1. Types /\ Recorded /\ AckedIsRecorded /\ Announced /\ EmittedOnce
  BY DEF IInv
<1>2. Types'
  <2>1. work' \in [Workers -> {Idle} \cup Request]
    BY <1>1, OneMoves
  <2>2. acked' \subseteq Events
    BY <1>1 DEF Types
  <2> QED BY <1>1, <2>1, <2>2 DEF Types
<1>3. Recorded' /\ AckedIsRecorded'
  BY <1>1, RecordedKept
<1>4. Announced' /\ EmittedOnce'
  BY <1>1, AnnouncedKept
<1> QED BY <1>2, <1>3, <1>4 DEF IInv

\* A claim is refused; Stripe is told 2xx if the event was processed.
LEMMA RefusedStep ==
  ASSUME IInv, NEW w \in Workers, claimRefused(w)
  PROVE  IInv'
<1>1. Types /\ Recorded
  BY DEF IInv
<1>2. work[w] \in Request /\ work[w].event \in Events
  BY <1>1, Working DEF claimRefused, At, Request
<1>3. Moved(w, Idle) /\ Idle.step = "idle"
  BY DEF claimRefused, Finish, Moved, Idle
<1>4. UNCHANGED <<row, recorded, found, emitted, skipped, connected, fromStripe, switches, faults>>
  BY DEF claimRefused
<1>5. \A e \in acked' : e \in acked \/ (e \in Events /\ Settled(e))
  BY <1>1, <1>2 DEF claimRefused, Recorded
<1> QED BY <1>1, <1>3, <1>4, <1>5, QuietStep DEF Types

\* A request goes on with its event without writing the row.
LEMMA GoesOn ==
  ASSUME IInv, NEW w \in Workers, work[w].step \in {"resolve", "record", "mark", "emit"},
         NEW r \in Request, work' = [work EXCEPT ![w] = r],
         r.event = work[w].event, r.first = work[w].first,
         UNCHANGED <<row, found, emitted, acked, connected, fromStripe, switches>>, faults' \in 0 .. MaxFaults,
         recorded' \in [Events -> {"none", "attributed", "plain", "child"}],
         \A e \in Events : recorded[e] # "none" => recorded'[e] # "none",
         skipped \subseteq skipped', skipped' \subseteq Events,
         r.step = "record" => r.seen # "none",
         r.step = "emit" => r.first,
         r.step \in {"mark", "emit", "respond"} =>
           recorded'[r.event] # "none" \/ r.event \in skipped'
  PROVE  IInv'
<1>1. Types
  BY DEF IInv
<1>2. Moved(w, r)
  BY DEF Moved
<1>3. (r.step \in {"resolve", "record", "mark", "emit"} /\ r.first) => Announces(w, r.event)
  BY DEF Announces
<1>4. row' \in [Events -> EventRow] /\ row' = row /\ acked' = acked
  BY <1>1 DEF Types
<1> QED BY <1>2, <1>3, <1>4, QuietStep

\* The event is ignored, or handled as far as its record.
LEMMA ResolveStep ==
  ASSUME StripeAssumption, IInv, NEW w \in Workers,
         \/ ignoreEvent(w)
         \/ handleCheckoutSessionCompleted(w) \/ handleInvoicePaid(w)
         \/ handleChargeRefunded(w) \/ handleChargeDispute(w)
  PROVE  IInv'
<1> DEFINE e == work[w].event
<1>1. Types
  BY DEF IInv
<1>2. work[w] \in Request /\ e \in Events /\ work[w].step = "resolve"
  BY <1>1, Working DEF ignoreEvent, handleCheckoutSessionCompleted, handleInvoicePaid,
     handleChargeRefunded, handleChargeDispute, Handle, At, Request
<1>3. CASE ignoreEvent(w)
  <2> DEFINE r == [work[w] EXCEPT !.step = "mark"]
  <2>1. work' = [work EXCEPT ![w] = r]
    BY <1>3 DEF ignoreEvent, Goto
  <2>2. r \in Request /\ r.step = "mark" /\ r.event = e /\ r.first = work[w].first
    BY <1>2 DEF Request, Steps
  <2> HIDE DEF r
  <2>3. /\ UNCHANGED <<row, recorded, found, emitted, acked, connected, fromStripe, switches>> /\ faults' = faults
        /\ skipped' = skipped \cup {e}
    BY <1>3 DEF ignoreEvent
  <2> QED BY <1>1, <1>2, <2>1, <2>2, <2>3, GoesOn DEF Types
<1>4. ASSUME NEW next \in {"record", "fail"}, NEW seen \in {"attributed", "plain", "child"},
             NEW type, Handle(w, type, next, seen)
      PROVE  IInv'
  <2> DEFINE r == [work[w] EXCEPT !.step = next, !.seen = seen]
  <2>1. work' = [work EXCEPT ![w] = r]
    BY <1>1, <1>2, <1>4 DEF Handle, Types, Request
  <2>2. /\ r \in Request /\ r.step = next /\ r.event = e /\ r.first = work[w].first
        /\ r.seen = seen
    BY <1>2 DEF Request, Steps
  <2> HIDE DEF r
  <2>3. /\ UNCHANGED <<row, found, emitted, acked, connected, fromStripe, switches>> /\ faults' = faults
        /\ recorded' = recorded /\ skipped' = skipped
    BY <1>4 DEF Handle
  <2> QED BY <1>1, <1>2, <2>1, <2>2, <2>3, GoesOn DEF Types
<1>5. CASE handleCheckoutSessionCompleted(w) \/ handleInvoicePaid(w)
  BY <1>4, <1>5 DEF handleCheckoutSessionCompleted, handleInvoicePaid, Attribution
<1>6. CASE handleChargeRefunded(w) \/ handleChargeDispute(w)
  BY <1>4, <1>6 DEF handleChargeRefunded, handleChargeDispute, Awaits
<1> QED BY <1>3, <1>5, <1>6

\* The record is written, unless it contradicts the one that exists or the source changed.
LEMMA RecordStep ==
  ASSUME IInv, NEW w \in Workers, recordEvent(w)
  PROVE  IInv'
<1> DEFINE e == work[w].event
<1>1. Types /\ Recorded
  BY DEF IInv
<1>2. /\ work[w] \in Request /\ e \in Events /\ work[w].step = "record"
      /\ work[w].seen \in {"attributed", "plain", "child"}
  BY <1>1, Working DEF recordEvent, At, Request, Recorded, Progress
<1>3. UNCHANGED <<row, found, emitted, acked, connected, fromStripe, switches>> /\ faults' = faults
  BY DEF recordEvent
<1>4. ASSUME NEW s \in {"fail", "mark"}, Goto(w, s),
             recorded' = recorded \/ recorded' = [recorded EXCEPT ![e] = work[w].seen],
             skipped' = skipped \/ skipped' = skipped \cup {e},
             s = "mark" => recorded'[e] # "none" \/ e \in skipped'
      PROVE  IInv'
  <2> DEFINE r == [work[w] EXCEPT !.step = s]
  <2>1. work' = [work EXCEPT ![w] = r]
    BY <1>4 DEF Goto
  <2>2. r \in Request /\ r.step = s /\ r.event = e /\ r.first = work[w].first
    BY <1>2 DEF Request, Steps
  <2> HIDE DEF r
  <2>3. /\ recorded' \in [Events -> {"none", "attributed", "plain", "child"}]
        /\ \A x \in Events : recorded[x] # "none" => recorded'[x] # "none"
        /\ skipped \subseteq skipped' /\ skipped' \subseteq Events
    BY <1>1, <1>2, <1>4 DEF Types
  <2> QED BY <1>1, <1>2, <1>3, <1>4, <2>1, <2>2, <2>3, GoesOn DEF Types
<1>5. CASE SourceConflict(w, e)
  BY <1>4, <1>5 DEF SourceConflict
<1>6. CASE WriteRecord(w, e, work[w].seen) /\ Conflicts(e, work[w].seen)
  BY <1>4, <1>6 DEF WriteRecord
<1>7. CASE WriteRecord(w, e, work[w].seen) /\ ~Conflicts(e, work[w].seen)
  <2>1. /\ recorded' = [recorded EXCEPT ![e] = work[w].seen] /\ Goto(w, "mark")
        /\ skipped' = skipped
    BY <1>7 DEF WriteRecord
  <2>2. recorded'[e] # "none"
    BY <1>1, <1>2, <2>1 DEF Types
  <2> QED BY <1>4, <2>1, <2>2
<1> QED BY <1>5, <1>6, <1>7 DEF recordEvent

\* The current attempt marks the event; an attempt that was superseded fails.
LEMMA MarkStep ==
  ASSUME IInv, NEW w \in Workers, markStripeEventProcessed(w) \/ markStripeEventFailed(w)
  PROVE  IInv'
<1> DEFINE e == work[w].event
<1>1. Types /\ Recorded
  BY DEF IInv
<1>2. /\ work[w] \in Request /\ e \in Events
      /\ work[w].step = "mark" => Settled(e)
  BY <1>1, Working DEF markStripeEventProcessed, markStripeEventFailed, At, Request, Recorded,
     Progress
<1>3. /\ UNCHANGED <<recorded, found, emitted, acked, skipped, connected, fromStripe, switches>> /\ faults' = faults
  BY DEF markStripeEventProcessed, markStripeEventFailed
<1>4. ASSUME NEW st \in {"processed", "failed"},
             row' = [row EXCEPT ![e].status = st, ![e].owner = None] \/ row' = row,
             (st = "processed" /\ row' # row) => Settled(e)
      PROVE  /\ row' \in [Events -> EventRow]
             /\ \A x \in Events : row'[x].claims = row[x].claims
             /\ \A x \in Events : row'[x].status = "processed" => row[x].status = "processed" \/ Settled(x)
  <2>1. CASE row' = row
    BY <1>1, <2>1 DEF Types
  <2>2. CASE row' = [row EXCEPT ![e].status = st, ![e].owner = None] /\ row' # row
    <3> DEFINE new == [row[e] EXCEPT !.status = st, !.owner = None]
    <3>1. row \in [Events -> EventRow] /\ row[e] \in EventRow
      BY <1>1, <1>2 DEF Types
    <3>2. new \in EventRow /\ new.claims = row[e].claims /\ new.status = st
      BY <3>1 DEF EventRow
    <3>3. row' = [row EXCEPT ![e] = new]
      BY <1>2, <2>2, <3>1
    <3> HIDE DEF new
    <3> QED BY <1>2, <1>4, <2>2, <3>1, <3>2, <3>3
  <2> QED BY <1>4, <2>1, <2>2
<1>5. CASE markStripeEventProcessed(w)
  <2>1. PICK s \in {"emit", "respond", "fail"} : Goto(w, s) /\ (s = "emit" => work[w].first)
    BY <1>5 DEF markStripeEventProcessed, EmitsDomainEvents
  <2> DEFINE r == [work[w] EXCEPT !.step = s]
  <2>2. /\ work[w].step = "mark" /\ Settled(e)
        /\ row' = [row EXCEPT ![e].status = "processed", ![e].owner = None] \/ row' = row
    BY <1>2, <1>5 DEF markStripeEventProcessed, At
  <2>3. /\ row' \in [Events -> EventRow]
        /\ \A x \in Events : row'[x].claims = row[x].claims
        /\ \A x \in Events : row'[x].status = "processed" => row[x].status = "processed" \/ Settled(x)
    BY <1>4, <2>2
  <2>4. /\ r \in Request /\ r.step = s /\ r.event = e /\ r.first = work[w].first
        /\ work' = [work EXCEPT ![w] = r] /\ (s = "emit" => work[w].first)
    BY <1>2, <2>1 DEF Request, Steps, Goto
  <2> HIDE DEF r
  <2>5. (r.step \in {"resolve", "record", "mark", "emit"} /\ r.first) => Announces(w, r.event)
    BY <2>2, <2>4 DEF Announces
  <2>6. Moved(w, r) /\ r.step # "record"
        /\ (recorded'[r.event] # "none" \/ r.event \in skipped')
    BY <1>3, <2>2, <2>4 DEF Moved, Settled
  <2>7. (r.step = "emit" => r.first) /\ Types
    BY <1>1, <2>4
  <2> QED BY <1>1, <1>3, <2>3, <2>5, <2>6, <2>7, QuietStep DEF Types
<1>6. CASE markStripeEventFailed(w)
  <2>1. Moved(w, Idle) /\ Idle.step = "idle"
    BY <1>6 DEF markStripeEventFailed, Finish, Moved, Idle
  <2>2. row' = [row EXCEPT ![e].status = "failed", ![e].owner = None] \/ row' = row
    BY <1>6 DEF markStripeEventFailed
  <2>3. /\ row' \in [Events -> EventRow]
        /\ \A x \in Events : row'[x].claims = row[x].claims
        /\ \A x \in Events : row'[x].status = "processed" => row[x].status = "processed" \/ Settled(x)
    BY <1>4, <2>2
  <2> QED BY <1>1, <1>3, <2>1, <2>3, QuietStep DEF Types
<1> QED BY <1>5, <1>6

\* The first request announces its event, once.
LEMMA EmitStep ==
  ASSUME IInv, NEW w \in Workers, emitProcessedStripeDomainEvents(w)
  PROVE  IInv'
<1> DEFINE e == work[w].event
           r == [work[w] EXCEPT !.step = "respond"]
<1>1. Types /\ Recorded /\ AckedIsRecorded /\ Announced /\ EmittedOnce
  BY DEF IInv
<1>2. work[w] \in Request /\ e \in Events /\ work[w].step = "emit" /\ work[w].first
  BY <1>1, Working DEF emitProcessedStripeDomainEvents, At, Request, Recorded, Progress
<1>3. /\ r \in Request /\ r.step = "respond" /\ r.event = e
      /\ work' = [work EXCEPT ![w] = r]
  BY <1>2 DEF Request, Steps, Goto, emitProcessedStripeDomainEvents
<1> HIDE DEF r
<1>4. UNCHANGED <<row, recorded, found, acked, skipped, connected, fromStripe, switches, faults>>
  BY DEF emitProcessedStripeDomainEvents
<1>5. Announces(w, e) /\ emitted[e] = 0 /\ row[e].claims # 0
  BY <1>1, <1>2 DEF Announces, Announced
<1>6. /\ emitted' \in [Events -> Nat] /\ emitted'[e] \in {0, 1}
      /\ \A x \in Events \ {e} : emitted'[x] = emitted[x]
  BY <1>1, <1>2, <1>5 DEF emitProcessedStripeDomainEvents, Types
<1>7. Moved(w, r)
  BY <1>3 DEF Moved
<1>8. work' \in [Workers -> {Idle} \cup Request] /\ work'[w] = r
      /\ \A v \in Workers \ {w} : work'[v] = work[v]
  BY <1>1, <1>7, OneMoves
<1>9. Types'
  BY <1>1, <1>4, <1>6, <1>8 DEF Types
<1>10. Recorded' /\ AckedIsRecorded'
  <2>1. recorded'[r.event] # "none" \/ r.event \in skipped'
    BY <1>1, <1>2, <1>3, <1>4 DEF Recorded, Progress, Settled
  <2>2. \A x \in acked' : x \in acked
    BY <1>4
  <2> QED BY <1>1, <1>3, <1>4, <1>7, <2>1, <2>2, RecordedKept
<1>11. EmittedOnce'
  BY <1>1, <1>6 DEF EmittedOnce
<1>12. \A x \in Events, v \in Workers : Announces(v, x)' => Announces(v, x) /\ v # w /\ x # e
  BY <1>1, <1>2, <1>3, <1>5, <1>8 DEF Announces, Announced
<1>13. Announced'
  <2>1. ASSUME NEW x \in Events, NEW v \in Workers, row'[x].claims = 0
        PROVE  emitted'[x] = 0 /\ ~Announces(v, x)'
    BY <1>1, <1>4, <1>5, <1>6, <1>12, <2>1 DEF Announced
  <2>2. ASSUME NEW x \in Events, NEW v \in Workers, Announces(v, x)'
        PROVE  emitted'[x] = 0
    BY <1>1, <1>6, <1>12, <2>2 DEF Announced
  <2>3. ASSUME NEW x \in Events, NEW u \in Workers, NEW v \in Workers,
               Announces(u, x)', Announces(v, x)'
        PROVE  u = v
    BY <1>1, <1>12, <2>3 DEF Announced
  <2> QED BY <2>1, <2>2, <2>3 DEF Announced
<1> QED BY <1>9, <1>10, <1>11, <1>13 DEF IInv

\* A request ends or fails without a change of its row: it may have told Stripe 2xx.
LEMMA EndStep ==
  ASSUME StripeAssumption, IInv, NEW w \in Workers, respond(w) \/ HandlerError(w) \/ Crash(w)
  PROVE  IInv'
<1>1. Types /\ Recorded
  BY DEF IInv
<1>2. UNCHANGED <<row, recorded, found, emitted, skipped, connected, fromStripe, switches>> /\ row' \in [Events -> EventRow]
  BY <1>1 DEF respond, HandlerError, Crash, Types
<1>3. faults' \in 0 .. MaxFaults
  BY <1>1 DEF respond, HandlerError, Crash, Fault, Types, StripeAssumption
<1>4. CASE respond(w)
  <2>1. work[w].event \in Events /\ Settled(work[w].event)
    BY <1>1, <1>4, Working DEF respond, At, Request, Recorded, Progress
  <2>2. \A x \in acked' : x \in acked \/ (x \in Events /\ Settled(x))
    BY <1>4, <2>1 DEF respond
  <2>3. Moved(w, Idle) /\ Idle.step = "idle"
    BY <1>4 DEF respond, Finish, Moved, Idle
  <2> QED BY <1>1, <1>2, <1>3, <2>2, <2>3, QuietStep DEF Types
<1>5. CASE HandlerError(w)
  <2>1. work[w].step \in {"resolve", "record", "mark", "emit"} /\ work[w] \in Request
    BY <1>1, <1>5, Working DEF HandlerError
  <2> DEFINE r == [work[w] EXCEPT !.step = "fail"]
  <2>2. r \in Request /\ r.step = "fail" /\ r.event = work[w].event /\ r.first = work[w].first
        /\ work' = [work EXCEPT ![w] = r]
    BY <1>5, <2>1 DEF Request, Steps, HandlerError, Goto
  <2> HIDE DEF r
  <2>3. acked' = acked
    BY <1>5 DEF HandlerError
  <2> QED BY <1>1, <1>2, <1>3, <2>1, <2>2, <2>3, GoesOn DEF Types
<1>6. CASE Crash(w)
  <2>1. Moved(w, Idle) /\ Idle.step = "idle" /\ acked' = acked
    BY <1>6 DEF Crash, Finish, Moved, Idle
  <2> QED BY <1>1, <1>2, <1>3, <2>1, QuietStep DEF Types
<1> QED BY <1>4, <1>5, <1>6

\* No request moves: time passes, an attribution is found, the account is disconnected,
\* the revenue source changes.
LEMMA WorldStep ==
  ASSUME StripeAssumption, IInv,
         (\E e \in Events : Stuck(e) \/ Attribute(e)) \/ markStripeConnectionDisconnected
         \/ updateRevenueSource
  PROVE  IInv'
<1>1. Types /\ Recorded /\ AckedIsRecorded /\ Announced /\ EmittedOnce
  BY DEF IInv
<1>2. UNCHANGED <<work, recorded, emitted, acked, skipped>>
  BY DEF Stuck, Attribute, markStripeConnectionDisconnected, updateRevenueSource
<1>3. /\ row' \in [Events -> EventRow]
      /\ \A x \in Events : row'[x].claims = row[x].claims /\ row'[x].status = row[x].status
  <2>1. CASE row' = row
    BY <1>1, <2>1 DEF Types
  <2>2. ASSUME NEW e \in Events, row' = [row EXCEPT ![e].stale = TRUE]
        PROVE  /\ row' \in [Events -> EventRow]
               /\ \A x \in Events : row'[x].claims = row[x].claims /\ row'[x].status = row[x].status
    <3> DEFINE new == [row[e] EXCEPT !.stale = TRUE]
    <3>1. row \in [Events -> EventRow] /\ row[e] \in EventRow
      BY <1>1 DEF Types
    <3>2. new \in EventRow /\ new.claims = row[e].claims /\ new.status = row[e].status
      BY <3>1 DEF EventRow
    <3>3. row' = [row EXCEPT ![e] = new]
      BY <2>2
    <3> HIDE DEF new
    <3> QED BY <3>1, <3>2, <3>3
  <2> QED BY <2>1, <2>2 DEF Stuck, Attribute, markStripeConnectionDisconnected, updateRevenueSource
<1>4. found' \subseteq Events /\ connected' \in BOOLEAN /\ fromStripe' \in BOOLEAN
  BY <1>1 DEF Stuck, Attribute, markStripeConnectionDisconnected, updateRevenueSource, Types
<1>5. faults' \in 0 .. MaxFaults /\ switches' \in 0 .. MaxSwitches
  BY <1>1 DEF Stuck, Attribute, markStripeConnectionDisconnected, updateRevenueSource, Fault, Types, StripeAssumption
<1>6. Types'
  BY <1>1, <1>2, <1>3, <1>4, <1>5 DEF Types
<1>7. Recorded' /\ AckedIsRecorded'
  BY <1>1, <1>2, <1>3 DEF Recorded, Progress, Settled, AckedIsRecorded
<1>8. Announced' /\ EmittedOnce'
  BY <1>1, <1>2, <1>3 DEF Announced, Announces, EmittedOnce
<1> QED BY <1>6, <1>7, <1>8 DEF IInv

-----------------------------------------------------------------------------
(* The theorems.                                                           *)

\* The invariant holds at first.
LEMMA InitInv ==
  ASSUME StripeAssumption, Init
  PROVE  IInv
<1>1. Types
  BY DEF Init, Types, NoRow, EventRow, StripeAssumption
<1>2. Recorded /\ AckedIsRecorded
  BY DEF Init, Recorded, Progress, AckedIsRecorded, NoRow, Idle
<1>3. Announced /\ EmittedOnce
  BY DEF Init, Announced, Announces, EmittedOnce, Idle
<1> QED BY <1>1, <1>2, <1>3 DEF IInv

\* Every step of the specification keeps the invariant.
LEMMA NextInv ==
  ASSUME StripeAssumption, IInv, [Next]_vars
  PROVE  IInv'
<1>1. CASE UNCHANGED vars
  BY <1>1 DEF vars, IInv, Types, Recorded, Progress, Settled, AckedIsRecorded, Announced,
              Announces, EmittedOnce
<1> QED BY <1>1, TakeStep, ClaimStep, RefusedStep, ResolveStep, RecordStep, MarkStep, EmitStep,
           EndStep, WorldStep DEF Next, WorkStep

\* It holds always.
LEMMA Invariance == Spec => []IInv
<1>1. Init => IInv
  BY InitInv, StripeAssumption
<1>2. IInv /\ [Next]_vars => IInv'
  BY NextInv, StripeAssumption
<1> QED BY <1>1, <1>2, PTL DEF Spec

\* The rows, the requests in flight and the counters keep their types.
THEOREM TypesHold == Spec => []Types
<1>1. IInv => Types
  BY DEF IInv
<1> QED BY <1>1, Invariance, PTL

\* Stripe is told 2xx only for events that are recorded or ignored.
THEOREM NoEventIsLost == Spec => []AckedIsRecorded
<1>1. IInv => AckedIsRecorded
  BY DEF IInv
<1> QED BY <1>1, Invariance, PTL

\* However often an event is delivered, taken over and retried, it is announced once.
THEOREM NoEventIsAnnouncedTwice == Spec => []EmittedOnce
<1>1. IInv => EmittedOnce
  BY DEF IInv
<1> QED BY <1>1, Invariance, PTL

\* A request whose event was taken over by another leaves the status to that one.
THEOREM OwnerMarks == Spec => OnlyOwnerMarks
<1> DEFINE Owner == \A e \in Events :
              row[e].status = "processing" /\ row'[e].status # "processing" =>
                \E w \in Workers : row[e].owner = w /\ work[w] # work'[w]
<1>1. ASSUME IInv, [Next]_vars
      PROVE  Owner
  <2>1. Types
    BY <1>1 DEF IInv
  <2>2. ASSUME NEW e \in Events, row[e].status = "processing", row'[e].status # "processing"
        PROVE  \E w \in Workers : row[e].owner = w /\ work[w] # work'[w]
    <3>1. PICK w \in Workers :
             (markStripeEventProcessed(w) \/ markStripeEventFailed(w)) /\ row' # row
      <4>1. \A w \in Workers, x \in Events : Deliver(w, x) => row'[e].status = row[e].status
        BY <2>1, <2>2 DEF Deliver, Types
      <4>2. \A w \in Workers : claimStripeEvent(w) => row'[e].status = "processing"
        BY <2>1, <2>2 DEF claimStripeEvent, Types
      <4>3. \A x \in Events : Stuck(x) => row'[e].status = row[e].status
        BY <2>1 DEF Stuck, Types, EventRow
      <4> QED BY <1>1, <2>2, <4>1, <4>2, <4>3
              DEF Next, WorkStep, vars, Retry, claimRefused, ignoreEvent,
                  handleCheckoutSessionCompleted, handleInvoicePaid, handleChargeRefunded,
                  handleChargeDispute, Handle, recordEvent, emitProcessedStripeDomainEvents,
                  respond, HandlerError, Crash, Attribute, markStripeConnectionDisconnected,
                  updateRevenueSource
    <3>2. work[w] \in Request /\ work[w].step \in {"mark", "fail"}
      BY <2>1, <3>1, Working DEF markStripeEventProcessed, markStripeEventFailed, At
    <3>3. e = work[w].event /\ Current(w, e)
      BY <2>1, <2>2, <3>1, <3>2 DEF markStripeEventProcessed, markStripeEventFailed, Types, Request
    <3>4. work[w] # work'[w]
      <4>1. CASE markStripeEventProcessed(w)
        <5>1. PICK s \in {"emit", "respond", "fail"} : Goto(w, s) /\ work[w].step = "mark"
          BY <4>1 DEF markStripeEventProcessed, At
        <5>2. work'[w].step = s
          BY <2>1, <3>2, <5>1 DEF Goto, Types, Request
        <5> QED BY <5>1, <5>2
      <4>2. CASE markStripeEventFailed(w)
        BY <2>1, <3>2, <4>2 DEF markStripeEventFailed, Finish, Types, Idle
      <4> QED BY <3>1, <4>1, <4>2
    <3> QED BY <3>3, <3>4 DEF Current
  <2> QED BY <2>2
<1>2. IInv /\ [Next]_vars => [Owner]_vars
  BY <1>1
<1> QED BY <1>2, Invariance, PTL DEF Spec, OnlyOwnerMarks

-----------------------------------------------------------------------------
(* What is recorded, ignored, announced and answered.                      *)

\* A request about to record has read a payment's attribution, or found the record
\* of the payment that its refund or dispute is of.
Prepared == \A w \in Workers : work[w].step = "record" =>
    /\ work[w].seen \in Inbox!Records(work[w].event)
    /\ Parent[work[w].event] # None => recorded[Parent[work[w].event]] # "none"

RecordsStay == \A e \in Events : recorded[e] # "none" => recorded'[e] = recorded[e]

\* Recording writes what was not recorded, or nothing new; or the event is ignored.
LEMMA RecordsOnce ==
  ASSUME StripeAssumption, IInv, Prepared, NEW w \in Workers, recordEvent(w)
  PROVE  RecordsStay /\ [Inbox!Next]_(Inbox!vars)
<1> DEFINE e == work[w].event
           kind == work[w].seen
<1>1. Types
  BY DEF IInv
<1>2. work[w] \in Request /\ e \in Events /\ work[w].step = "record"
  BY <1>1, Working DEF recordEvent, At, Request
<1>3. /\ kind \in Inbox!Records(e)
      /\ Parent[e] # None => recorded[Parent[e]] # "none"
  BY <1>2 DEF Prepared
<1>4. UNCHANGED <<emitted, acked, connected, fromStripe>>
  BY DEF recordEvent
<1>5. CASE SourceConflict(w, e)
  <2>1. recorded' = recorded /\ ~fromStripe
    BY <1>5 DEF SourceConflict
  <2>2. skipped' = skipped \/ skipped' = skipped \cup {e}
    BY <1>5 DEF SourceConflict
  <2>3. UNCHANGED Inbox!vars \/ Inbox!Ignore(e)
    BY <1>4, <2>1, <2>2 DEF Inbox!vars, Inbox!Ignore
  <2> QED BY <1>2, <2>1, <2>3 DEF RecordsStay, Inbox!Next
<1>6. CASE WriteRecord(w, e, kind) /\ Conflicts(e, kind)
  <2>1. recorded' = recorded /\ skipped' = skipped
    BY <1>6 DEF WriteRecord
  <2> QED BY <1>4, <2>1 DEF RecordsStay, Inbox!vars
<1>7. CASE WriteRecord(w, e, kind) /\ ~Conflicts(e, kind)
  <2>1. recorded' = [recorded EXCEPT ![e] = kind] /\ skipped' = skipped /\ fromStripe
    BY <1>7 DEF WriteRecord
  <2>2. CASE recorded[e] = kind
    <3>1. recorded' = recorded
      BY <1>1, <2>1, <2>2 DEF Types
    <3> QED BY <1>4, <2>1, <3>1 DEF RecordsStay, Inbox!vars
  <2>3. CASE recorded[e] = "none"
    <3>1. RecordsStay
      BY <1>1, <1>2, <2>1, <2>3 DEF RecordsStay, Types
    <3>2. Inbox!Record(e, kind)
      BY <1>3, <1>4, <2>1, <2>3 DEF Inbox!Record, Inbox!Recorded
    <3> QED BY <1>2, <1>3, <3>1, <3>2 DEF Inbox!Next
  <2> QED BY <1>7, <2>2, <2>3 DEF Conflicts
<1> QED BY <1>5, <1>6, <1>7 DEF recordEvent

\* Ignoring an event, for a reason.
LEMMA IgnoreAllowed ==
  ASSUME StripeAssumption, IInv, NEW w \in Workers, ignoreEvent(w)
  PROVE  [Inbox!Next]_(Inbox!vars)
<1>1. work[w].event \in Events
  BY Working DEF IInv, ignoreEvent, At, Request
<1>2. Inbox!Ignore(work[w].event)
  BY <1>1 DEF ignoreEvent, Ignored, Settles, StripeAssumption, Inbox!Ignore, Inbox!Recorded
<1> QED BY <1>1, <1>2 DEF Inbox!Next

\* The announcement is the first, and of a record.
LEMMA AnnounceAllowed ==
  ASSUME IInv, NEW w \in Workers, emitProcessedStripeDomainEvents(w)
  PROVE  [Inbox!Next]_(Inbox!vars)
<1> DEFINE e == work[w].event
<1>1. Types /\ Recorded /\ Announced
  BY DEF IInv
<1>2. e \in Events /\ emitted[e] = 0
  BY <1>1, Working DEF emitProcessedStripeDomainEvents, At, Request, Recorded, Progress, Announced,
     Announces
<1>3. UNCHANGED <<recorded, skipped, acked, connected, fromStripe, switches>>
  BY DEF emitProcessedStripeDomainEvents
<1>4. CASE recorded[e] = "none" \/ Type[e] = "dispute"
  BY <1>3, <1>4 DEF emitProcessedStripeDomainEvents, Inbox!vars
<1>5. CASE ~(recorded[e] = "none" \/ Type[e] = "dispute")
  <2>1. emitted' = [emitted EXCEPT ![e] = 1]
    BY <1>2, <1>5 DEF emitProcessedStripeDomainEvents
  <2>2. Inbox!Announce(e)
    BY <1>2, <1>3, <1>5, <2>1 DEF Inbox!Announce, Inbox!Recorded
  <2> QED BY <1>2, <2>2 DEF Inbox!Next
<1> QED BY <1>4, <1>5

\* What Stripe is told 2xx for is recorded or ignored.
LEMMA AnswerAllowed ==
  ASSUME IInv, NEW w \in Workers, claimRefused(w) \/ respond(w)
  PROVE  [Inbox!Next]_(Inbox!vars)
<1> DEFINE e == work[w].event
<1>1. Types /\ Recorded
  BY DEF IInv
<1>2. e \in Events
  BY <1>1, Working DEF claimRefused, respond, At, Request
<1>3. UNCHANGED <<recorded, skipped, emitted, connected, fromStripe, switches>>
  BY DEF claimRefused, respond
<1>4. acked' = acked \/ (acked' = acked \cup {e} /\ Settled(e))
  BY <1>1, <1>2 DEF claimRefused, respond, At, Recorded, Progress
<1>5. CASE acked' = acked
  BY <1>3, <1>5 DEF Inbox!vars
<1>6. CASE acked' = acked \cup {e} /\ Settled(e)
  <2>1. Inbox!Answer(e)
    BY <1>3, <1>6 DEF Inbox!Answer, Inbox!Recorded, Settled
  <2> QED BY <1>2, <2>1 DEF Inbox!Next
<1> QED BY <1>4, <1>5, <1>6

\* The handlers that read what they need before anything is recorded.
Handles(w) == \/ handleCheckoutSessionCompleted(w) \/ handleInvoicePaid(w)
              \/ handleChargeRefunded(w) \/ handleChargeDispute(w)


\* Every step is one that the inbox allows, or none.
LEMMA StepAllowed ==
  ASSUME StripeAssumption, IInv, Prepared, [Next]_vars
  PROVE  RecordsStay /\ [Inbox!Next]_(Inbox!vars)
<1>1. CASE UNCHANGED vars
  BY <1>1 DEF vars, Inbox!vars, RecordsStay
<1>2. ASSUME NEW w \in Workers, NEW e \in Events, Deliver(w, e) \/ Retry(w, e)
      PROVE  RecordsStay /\ [Inbox!Next]_(Inbox!vars)
  BY <1>2 DEF RecordsStay, Inbox!vars, Deliver, Retry
<1>3. ASSUME NEW w \in Workers, WorkStep(w) \/ HandlerError(w) \/ Crash(w)
      PROVE  RecordsStay /\ [Inbox!Next]_(Inbox!vars)
  <2>1. CASE recordEvent(w)
    BY <2>1, RecordsOnce
  <2>2. CASE ignoreEvent(w)
    BY <2>2, IgnoreAllowed DEF RecordsStay, ignoreEvent
  <2>3. CASE emitProcessedStripeDomainEvents(w)
    BY <2>3, AnnounceAllowed DEF RecordsStay, emitProcessedStripeDomainEvents
  <2>4. CASE claimRefused(w) \/ respond(w)
    BY <2>4, AnswerAllowed DEF RecordsStay, claimRefused, respond
  <2>5. CASE \/ claimStripeEvent(w) \/ Handles(w) \/ markStripeEventProcessed(w)
             \/ markStripeEventFailed(w) \/ HandlerError(w) \/ Crash(w)
    <3>1. UNCHANGED Inbox!vars
      BY <2>5 DEF Inbox!vars, claimStripeEvent, Handles, handleCheckoutSessionCompleted,
         handleInvoicePaid, handleChargeRefunded, handleChargeDispute, Handle,
         markStripeEventProcessed, markStripeEventFailed, HandlerError, Crash
    <3> QED BY <3>1 DEF RecordsStay, Inbox!vars
  <2> QED BY <1>3, <2>1, <2>2, <2>3, <2>4, <2>5 DEF WorkStep, Handles
<1>4. ASSUME NEW e \in Events, Stuck(e) \/ Attribute(e)
      PROVE  RecordsStay /\ [Inbox!Next]_(Inbox!vars)
  BY <1>4 DEF RecordsStay, Inbox!vars, Stuck, Attribute
<1>5. CASE markStripeConnectionDisconnected
  <2>1. Inbox!Disconnect
    BY <1>5 DEF Inbox!Disconnect, markStripeConnectionDisconnected
  <2> QED BY <1>5, <2>1 DEF Inbox!Next, RecordsStay, markStripeConnectionDisconnected
<1>6. CASE updateRevenueSource
  <2>1. Inbox!SetSource
    BY <1>6 DEF Inbox!SetSource, updateRevenueSource, IInv, Types
  <2> QED BY <1>6, <2>1 DEF Inbox!Next, RecordsStay, updateRevenueSource
<1> QED BY <1>1, <1>2, <1>3, <1>4, <1>5, <1>6 DEF Next

\* A request that gets to its record has read what it needs.
LEMMA HandlePrepares ==
  ASSUME StripeAssumption, IInv, NEW w \in Workers, Handles(w)
  PROVE  \E r \in Request :
           /\ work' = [work EXCEPT ![w] = r]
           /\ r.event = work[w].event
           /\ r.step = "record" =>
                /\ r.seen \in Inbox!Records(r.event)
                /\ Parent[r.event] # None => recorded[Parent[r.event]] # "none"
<1> DEFINE e == work[w].event
<1>1. Types
  BY DEF IInv
<1>2. work[w] \in Request /\ e \in Events
  BY <1>1, Working DEF Handles, handleCheckoutSessionCompleted, handleInvoicePaid,
     handleChargeRefunded, handleChargeDispute, Handle, At, Request
<1>3. PICK next \in {"record", "fail"}, seen \in {"attributed", "plain", "child"} :
        /\ work' = [work EXCEPT ![w].step = next, ![w].seen = seen]
        /\ \/ Parent[e] = None /\ seen \in {"attributed", "plain"}
           \/ /\ Parent[e] # None /\ seen = "child"
              /\ next = "record" => recorded[Parent[e]] # "none"
  <2>1. CASE handleCheckoutSessionCompleted(w) \/ handleInvoicePaid(w)
    <3>1. Parent[e] = None
      BY <1>2, <2>1 DEF handleCheckoutSessionCompleted, handleInvoicePaid, Handle, StripeAssumption
    <3>2. Attribution(e) \in {"attributed", "plain"}
      BY DEF Attribution
    <3>3. work' = [work EXCEPT ![w].step = "record", ![w].seen = Attribution(e)]
      BY <2>1 DEF handleCheckoutSessionCompleted, handleInvoicePaid, Handle
    <3> QED BY <3>1, <3>2, <3>3
  <2>2. CASE handleChargeRefunded(w) \/ handleChargeDispute(w)
    <3>1. Parent[e] # None
      BY <1>2, <2>2 DEF handleChargeRefunded, handleChargeDispute, Handle, StripeAssumption
    <3>2. /\ Awaits(e) \in {"record", "fail"}
          /\ Awaits(e) = "record" => recorded[Parent[e]] # "none"
      BY DEF Awaits
    <3>3. work' = [work EXCEPT ![w].step = Awaits(e), ![w].seen = "child"]
      BY <2>2 DEF handleChargeRefunded, handleChargeDispute, Handle
    <3> QED BY <3>1, <3>2, <3>3
  <2> QED BY <2>1, <2>2 DEF Handles
<1> DEFINE r == [work[w] EXCEPT !.step = next, !.seen = seen]
<1>4. work' = [work EXCEPT ![w] = r]
  BY <1>1, <1>2, <1>3 DEF Types, Request
<1>5. r \in Request /\ r.step = next /\ r.event = e /\ r.seen = seen
  BY <1>2 DEF Request, Steps
<1> HIDE DEF r
<1>6. seen \in Inbox!Records(e)
  BY <1>3 DEF Inbox!Records
<1> QED BY <1>3, <1>4, <1>5, <1>6

\* No other step brings a request there.
LEMMA OthersMove ==
  ASSUME IInv, NEW v \in Workers, NEW w \in Workers,
         HandlerError(w) \/ Crash(w) \/ (WorkStep(w) /\ ~Handles(w))
  PROVE  work'[v] = work[v] \/ work'[v].step # "record"
<1>1. Types /\ (work[w].step # "idle" => work[w] \in Request) /\ Idle.step # "record"
  BY Working DEF IInv, Idle
<1>3. CASE claimStripeEvent(w)
  <2> DEFINE r == [work[w] EXCEPT !.step = "resolve", !.first = (row[work[w].event].claims = 0)]
  <2>1. r.step = "resolve" /\ work' = [work EXCEPT ![w] = r]
    BY <1>1, <1>3 DEF claimStripeEvent, At, Types, Request
  <2> HIDE DEF r
  <2> QED BY <1>1, <2>1 DEF Types
<1>4. ASSUME NEW s \in Steps \ {"record"}, Goto(w, s), work[w].step # "idle"
      PROVE  work'[v] = work[v] \/ work'[v].step # "record"
  <2> DEFINE r == [work[w] EXCEPT !.step = s]
  <2>1. Moved(w, r) /\ r.step = s
    BY <1>1, <1>4, GotoMoves
  <2> HIDE DEF r
  <2>2. work'[w] = r /\ \A u \in Workers \ {w} : work'[u] = work[u]
    BY <1>1, <2>1, OneMoves
  <2> QED BY <1>4, <2>1, <2>2
<1>5. CASE Finish(w)
  BY <1>1, <1>5 DEF Finish, Types
<1>6. CASE ignoreEvent(w) \/ recordEvent(w) \/ markStripeEventProcessed(w)
  BY <1>4, <1>6 DEF ignoreEvent, recordEvent, SourceConflict, WriteRecord,
     markStripeEventProcessed, At, Steps
<1>7. CASE emitProcessedStripeDomainEvents(w) \/ HandlerError(w)
  BY <1>4, <1>7 DEF emitProcessedStripeDomainEvents, HandlerError, At, Steps
<1>8. CASE claimRefused(w) \/ respond(w) \/ markStripeEventFailed(w) \/ Crash(w)
  BY <1>5, <1>8 DEF claimRefused, respond, markStripeEventFailed, Crash
<1> QED BY <1>3, <1>6, <1>7, <1>8 DEF WorkStep, Handles

\* Every step keeps requests prepared: what they found recorded stays.
LEMMA PreparedKept ==
  ASSUME StripeAssumption, IInv, Prepared, [Next]_vars
  PROVE  Prepared'
<1>1. Types /\ RecordsStay
  BY StepAllowed DEF IInv
<1>2. ASSUME NEW w \in Workers, work[w].step = "record", work'[w] = work[w]
      PROVE  /\ work'[w].seen \in Inbox!Records(work'[w].event)
             /\ Parent[work'[w].event] # None => recorded'[Parent[work'[w].event]] # "none"
  <2> DEFINE e == work[w].event
  <2>1. e \in Events
    BY <1>1, <1>2, Working DEF Request
  <2>2. Parent[e] # None => Parent[e] \in Events
    BY <2>1 DEF StripeAssumption
  <2> QED BY <1>1, <1>2, <2>2 DEF Prepared, RecordsStay
<1>3. CASE \A v \in Workers : work'[v] = work[v] \/ work'[v].step # "record"
  BY <1>2, <1>3 DEF Prepared
<1>4. ASSUME NEW w \in Workers, Handles(w)
      PROVE  Prepared'
  <2>1. PICK r \in Request :
          /\ work' = [work EXCEPT ![w] = r]
          /\ r.event = work[w].event
          /\ r.step = "record" =>
               /\ r.seen \in Inbox!Records(r.event)
               /\ Parent[r.event] # None => recorded[Parent[r.event]] # "none"
    BY <1>4, HandlePrepares
  <2>2. work'[w] = r /\ \A v \in Workers \ {w} : work'[v] = work[v]
    BY <1>1, <2>1 DEF Types
  <2>3. recorded' = recorded
    BY <1>4 DEF Handles, handleCheckoutSessionCompleted, handleInvoicePaid, handleChargeRefunded,
       handleChargeDispute, Handle
  <2> QED BY <1>2, <2>1, <2>2, <2>3 DEF Prepared
<1>5. CASE UNCHANGED vars
  BY <1>3, <1>5 DEF vars
<1>6. ASSUME NEW w \in Workers, NEW e \in Events, Deliver(w, e) \/ Retry(w, e)
      PROVE  Prepared'
  <2>1. \A v \in Workers : work'[v] = work[v] \/ work'[v].step # "record"
    BY <1>1, <1>6 DEF Deliver, Retry, Types
  <2> QED BY <1>3, <2>1
<1>7. ASSUME NEW w \in Workers, WorkStep(w) \/ HandlerError(w) \/ Crash(w)
      PROVE  Prepared'
  <2>1. CASE Handles(w)
    BY <1>4, <2>1
  <2>2. CASE ~Handles(w)
    <3>1. \A v \in Workers : work'[v] = work[v] \/ work'[v].step # "record"
      BY <1>7, <2>2, OthersMove
    <3> QED BY <1>3, <3>1
  <2> QED BY <2>1, <2>2
<1>8. CASE (\E e \in Events : Stuck(e) \/ Attribute(e)) \/ markStripeConnectionDisconnected
           \/ updateRevenueSource
  <2>1. work' = work
    BY <1>8 DEF Stuck, Attribute, markStripeConnectionDisconnected, updateRevenueSource
  <2> QED BY <1>3, <2>1
<1> QED BY <1>5, <1>6, <1>7, <1>8 DEF Next

\* Each event goes through the inbox as promised, whatever requests do to it together:
\* recorded once and after its payment, announced once and from its record, answered
\* only when that is settled, for any number of events, requests, crashes and takeovers.
THEOREM InboxImplemented == Spec => InboxSpec
<1>1. Init => Inbox!Init /\ IInv /\ Prepared
  <2> SUFFICES ASSUME Init PROVE Inbox!Init /\ Prepared
    BY InitInv, StripeAssumption
  <2> QED BY IdleStep DEF Init, Inbox!Init, Prepared
<1>2. IInv /\ Prepared /\ [Next]_vars => IInv' /\ Prepared' /\ [Inbox!Next]_(Inbox!vars)
  BY NextInv, PreparedKept, StepAllowed, StripeAssumption
<1> QED BY <1>1, <1>2, PTL DEF Spec, InboxSpec, Inbox!Spec

-----------------------------------------------------------------------------
(* The table of handlers.                                                  *)

\* What a service function may reach for a kind of caller: the rows it touches are
\* those that its check is about.
Reaches(auth, t, reach) ==
    \/ reach.rows = "all" /\ (t = "stripe" \/ (t = "session" /\ auth.narrow = "admin"))
    \/ reach.rows = "user" /\ t \in {"session", "affiliate"}
    \/ /\ reach.check = "requireAppAccess" /\ reach.rows \in {"app", "second"}
       /\ t \in {"session", "managed"}
    \/ /\ reach.check = "requireOrganizationMembership" /\ t = "session"
       /\ reach.rows \in {"organization", "second in organization"}
    \/ reach.check = "resolveProgramListAccess" /\ reach.rows = "readable" /\ t = "session"
    \/ /\ reach.check = "requireProgramAffiliate" /\ t \in {"session", "affiliate"}
       /\ reach.rows \in {"membership", "second membership"}
    \/ /\ reach.check \in {"resolveAppScope", "requireExecutionForApp", "findApiPaymentForAuth"}
       /\ reach.rows \in {"mode", "mode second"} /\ t = "app"
    \/ reach.check = "resolveCaptureAppId" /\ reach.rows = "clicks" /\ t \in {"app", "none"}
    \/ reach.check = "requireManagedConnectionAccess" /\ reach.rows = "app" /\ t = "managed"
    \/ /\ reach.check = "requireManagedConnectionAccess unless redacted"
       /\ reach.rows = "app" /\ t = "managed" /\ auth.via = "deletion"
    \/ reach.rows = "managed" /\ t = "provider"

\* How a caller that touches rows was let in: by a lookup that finds no revoked
\* credential, a managed connection only while it is active or to administer it.
Entered(r, t) ==
    /\ t \in {"session", "affiliate"} => r.auth.via \in {"request", "session"}
    /\ t = "app" => r.auth.via \in {"request", "key if any"}
    /\ t = "managed" =>
          \/ r.auth.via = "request" /\ (r.auth.active \/ r \in AdministersConnection)
          \/ r.auth.via = "deletion"
\* Rows that a handler has for anybody, and those that only capture has.
Offered == {"pages", "accounts", "clicks"}
Offers(r, rows) ==
    IF rows = "clicks" THEN r = POST_capture ELSE RowsOf(rows) \subseteq ForAnybody(r)
\* A handler serves rows that it offers, or that its callers may reach.
Sound(r) ==
    /\ r.auth.via = "deletion" => r = DELETE_managed_connections_id
    /\ \A s \in r.serves : s.reach.rows \in Offered => Offers(r, s.reach.rows)
    /\ \A s \in r.serves : \A t \in s.types \cap r.auth.types :
          s.reach.rows \notin {"nothing", "pages", "accounts"} =>
              Reaches(r.auth, t, s.reach) /\ Entered(r, t)

SessionReaches == {Open, OwnRows, OfApp, PairOfApp, OfOrganization, createApiKey}
KeyReaches == {reportPayment, reportRefund, identifyCustomer, getPayoutExecutionForApp}
AffiliateReaches == {OwnRows, OfMembership, deleteAffiliateLink}

\* What the functions check and touch.
LEMMA ReachFields ==
  /\ Open.rows = "nothing" /\ Everything.rows = "all" /\ OwnRows.rows = "user"
  /\ OfApp.check = "requireAppAccess" /\ OfApp.rows = "app"
  /\ PairOfApp.check = "requireAppAccess" /\ PairOfApp.rows = "second"
  /\ OfOrganization.check = "requireOrganizationMembership"
  /\ OfOrganization.rows = "organization"
  /\ createApiKey.check = "requireOrganizationMembership"
  /\ createApiKey.rows = "second in organization"
  /\ OfMembership.check = "requireProgramAffiliate" /\ OfMembership.rows = "membership"
  /\ OfConnection.check = "requireManagedConnectionAccess" /\ OfConnection.rows = "app"
  BY DEF Open, Everything, OwnRows, OfApp, PairOfApp, OfOrganization, createApiKey,
     OfMembership, OfConnection, Reach
\* The same of those that narrow it further.
LEMMA NarrowedFields ==
  /\ deleteAffiliateLink.check = "requireProgramAffiliate"
  /\ deleteAffiliateLink.rows = "second membership"
  /\ reportPayment.check = "resolveAppScope" /\ reportPayment.rows = "mode second"
  /\ identifyCustomer.check = "resolveAppScope" /\ identifyCustomer.rows = "mode second"
  /\ reportRefund.check = "findApiPaymentForAuth" /\ reportRefund.rows = "mode"
  /\ getPayoutExecutionForApp.check = "requireExecutionForApp"
  /\ getPayoutExecutionForApp.rows = "mode"
<1>1. deleteAffiliateLink.check = "requireProgramAffiliate"
  BY DEF deleteAffiliateLink, OfMembership, Reach
<1>2. deleteAffiliateLink.rows = "second membership"
  BY DEF deleteAffiliateLink, OfMembership, Reach
<1>3. reportPayment.check = "resolveAppScope" /\ reportPayment.rows = "mode second"
  BY DEF reportPayment, OfKey, Reach
<1>4. identifyCustomer.check = "resolveAppScope" /\ identifyCustomer.rows = "mode second"
  BY DEF identifyCustomer, OfKey, Reach
<1>5. reportRefund.check = "findApiPaymentForAuth" /\ reportRefund.rows = "mode"
  BY DEF reportRefund, Reach
<1>6. /\ getPayoutExecutionForApp.check = "requireExecutionForApp"
      /\ getPayoutExecutionForApp.rows = "mode"
  BY DEF getPayoutExecutionForApp, Reach
<1> QED BY <1>1, <1>2, <1>3, <1>4, <1>5, <1>6

\* What is reached within the caller's own is not what a handler offers.
LEMMA OwnNotOffered ==
  ASSUME NEW auth, NEW t, NEW reach, Reaches(auth, t, reach), reach.rows # "clicks"
  PROVE  reach.rows \notin Offered
  BY DEF Reaches, Offered
\* A caller with a session or another key than the app's reaches no clicks of others.
LEMMA CapturesByKey ==
  ASSUME NEW auth, NEW t, NEW reach, Reaches(auth, t, reach), t \notin {"app", "none"}
  PROVE  reach.rows \notin Offered
  BY DEF Reaches, Offered

\* A handler that lets anybody in and touches nothing.
LEMMA OpenSound ==
  ASSUME NEW auth, auth.via # "deletion"
  PROVE  Sound(Route(auth, {Open}))
  BY DEF Sound, Route, For, Open, Reach, Offered

\* A handler with one way in is sound if what its callers reach is their own.
LEMMA RouteSound ==
  ASSUME NEW auth, NEW reaches, auth.via # "deletion",
         \A x \in reaches : x.rows \notin Offered,
         \A x \in reaches : \A t \in auth.types : x.rows # "nothing" => Reaches(auth, t, x),
         \A t \in auth.types : Entered(Route(auth, reaches), t)
  PROVE  Sound(Route(auth, reaches))
<1> DEFINE r == Route(auth, reaches)
<1>1. r.auth = auth /\ \A s \in r.serves : s.types = auth.types /\ s.reach \in reaches
  BY DEF Route, For
<1>2. \A t \in auth.types : Entered(r, t)
  OBVIOUS
<1> HIDE DEF r
<1>3. Sound(r)
  BY <1>1, <1>2 DEF Sound
<1> QED BY <1>3 DEF r

\* A handler for users of the dashboard.
LEMMA SessionSound ==
  ASSUME NEW auth \in {requireSession, requireSessionUser}, NEW reaches \in SUBSET SessionReaches
  PROVE  Sound(Route(auth, reaches))
<1>1. auth.types = {"session"} /\ auth.via \in {"request", "session"}
  BY DEF requireSession, requireSessionUser, Auth
<1>2. \A x \in reaches : x.rows # "nothing" => Reaches(auth, "session", x)
  BY ReachFields DEF SessionReaches, Reaches
<1>3. \A x \in reaches : x.rows \notin Offered
  BY ReachFields DEF SessionReaches, Offered
<1> HIDE DEF SessionReaches
<1>4. \A t \in auth.types : Entered(Route(auth, reaches), t)
  BY <1>1 DEF Entered, Route
<1> QED BY <1>1, <1>2, <1>3, <1>4, RouteSound

\* A handler for an owner, with a session or a management key.
LEMMA OwnerSound ==
  ASSUME NEW reaches \in SUBSET {OfApp, PairOfApp}
  PROVE  Sound(Route(requireOwnerAuth, reaches))
<1>1. /\ requireOwnerAuth.types = {"session", "managed"} /\ requireOwnerAuth.via = "request"
      /\ requireOwnerAuth.active
  BY DEF requireOwnerAuth, assertManagedConnectionIsActive, Auth
<1>2. \A x \in reaches : \A t \in {"session", "managed"} : Reaches(requireOwnerAuth, t, x)
  BY ReachFields DEF Reaches
<1>3. \A x \in reaches : x.rows \notin Offered
  BY <1>2, CapturesByKey
<1>4. \A t \in requireOwnerAuth.types : Entered(Route(requireOwnerAuth, reaches), t)
  BY <1>1 DEF Entered, Route
<1> QED BY <1>1, <1>2, <1>3, <1>4, RouteSound

\* A handler for affiliates.
LEMMA AffiliateSound ==
  ASSUME NEW reaches \in SUBSET AffiliateReaches
  PROVE  Sound(Route(requireAffiliateAuth, reaches))
<1>1. /\ requireAffiliateAuth.types = {"session", "affiliate"}
      /\ requireAffiliateAuth.via = "request"
  BY DEF requireAffiliateAuth, Auth
<1>2. \A x \in reaches : \A t \in {"session", "affiliate"} : Reaches(requireAffiliateAuth, t, x)
  BY ReachFields, NarrowedFields DEF Reaches, AffiliateReaches
<1>3. \A x \in reaches : x.rows \notin Offered
  BY <1>2, CapturesByKey
<1>4. \A t \in requireAffiliateAuth.types : Entered(Route(requireAffiliateAuth, reaches), t)
  BY <1>1 DEF Entered, Route
<1> QED BY <1>1, <1>2, <1>3, <1>4, RouteSound

\* A handler for the app's server.
LEMMA KeySound ==
  ASSUME NEW auth \in {requireAppKey, requireLiveAppScopedKey}, NEW reaches \in SUBSET KeyReaches
  PROVE  Sound(Route(auth, reaches))
<1>1. auth.types = {"app"} /\ auth.via = "request"
  <2>1. requireAppKey.types = {"app"} /\ requireAppKey.via = "request"
    BY DEF requireAppKey, Auth
  <2>2. requireLiveAppScopedKey.types = {"app"} /\ requireLiveAppScopedKey.via = "request"
    BY DEF requireLiveAppScopedKey, requireAppKey, Auth
  <2> QED BY <2>1, <2>2
<1>2. \A x \in reaches : Reaches(auth, "app", x)
  BY NarrowedFields DEF Reaches, KeyReaches
<1>3. \A x \in reaches : x.rows \notin Offered
  BY NarrowedFields DEF KeyReaches, Offered
<1>4. \A t \in auth.types : Entered(Route(auth, reaches), t)
  BY <1>1 DEF Entered, Route
<1> QED BY <1>1, <1>2, <1>3, <1>4, RouteSound

\* A handler for administrators.
LEMMA AdminSound ==
  ASSUME NEW reaches \in SUBSET {Everything, Open}
  PROVE  Sound(Route(requireAdmin, reaches))
<1>1. /\ requireAdmin.types = {"session"} /\ requireAdmin.via = "session"
      /\ requireAdmin.narrow = "admin"
  BY DEF requireAdmin, requireSessionUser, Auth
<1>2. \A x \in reaches : x.rows # "nothing" => Reaches(requireAdmin, "session", x)
  BY <1>1, ReachFields DEF Reaches
<1>3. \A x \in reaches : x.rows \notin Offered
  BY ReachFields DEF Offered
<1>4. \A t \in requireAdmin.types : Entered(Route(requireAdmin, reaches), t)
  BY <1>1 DEF Entered, Route
<1> QED BY <1>1, <1>2, <1>3, <1>4, RouteSound

\* A handler that administers the managed connection.
LEMMA ManagedSound ==
  ASSUME NEW reaches \in SUBSET {OfConnection, OfApp},
         Route(requireManagedKey, reaches) \in AdministersConnection
  PROVE  Sound(Route(requireManagedKey, reaches))
<1> DEFINE r == Route(requireManagedKey, reaches)
<1>1. requireManagedKey.types = {"managed"} /\ requireManagedKey.via = "request"
  BY DEF requireManagedKey, Auth
<1>2. \A x \in reaches : Reaches(requireManagedKey, "managed", x)
  BY ReachFields DEF Reaches
<1>3. /\ r.auth = requireManagedKey
      /\ \A s \in r.serves : s.types = {"managed"} /\ s.reach \in reaches
  BY <1>1 DEF Route, For
<1>4. r \in AdministersConnection
  OBVIOUS
<1> HIDE DEF r
<1>6. \A x \in reaches : x.rows \notin Offered
  BY <1>2, CapturesByKey
<1>5. Sound(r)
  BY <1>1, <1>2, <1>3, <1>4, <1>6 DEF Sound, Entered
<1> QED BY <1>5 DEF r

\* The handlers that serve their callers differently: what each kind is served.
LEMMA ByTypeSound ==
  ASSUME NEW auth, NEW serves, auth.via = "request",
         \A s \in serves : s.reach.rows \notin Offered,
         \A s \in serves : \A t \in s.types \cap auth.types :
            /\ Reaches(auth, t, s.reach)
            /\ t \in {"session", "affiliate"} \/ (t = "managed" /\ auth.active)
  PROVE  Sound(ByType(auth, serves))
  BY DEF Sound, ByType, Entered

\* What each kind of caller may reach.
LEMMA ReachesKinds ==
  ASSUME NEW auth
  PROVE  /\ \A x \in {OfApp, PairOfApp, OwnRows, OfMembership, readableByProgram} :
               x.rows \notin Offered
         /\ Reaches(auth, "session", OfApp) /\ Reaches(auth, "session", PairOfApp)
         /\ Reaches(auth, "managed", OfApp) /\ Reaches(auth, "managed", PairOfApp)
         /\ Reaches(auth, "session", OwnRows) /\ Reaches(auth, "affiliate", OwnRows)
         /\ Reaches(auth, "affiliate", OfMembership)
         /\ Reaches(auth, "session", readableByProgram)
         /\ Reaches(auth, "provider", provisionManagedConnection)
         /\ Reaches(auth, "provider", acknowledgeManagedCredentials)
         /\ Reaches(auth, "stripe", receiveVerifiedStripeWebhook)
<1>1. /\ readableByProgram.check = "resolveProgramListAccess"
      /\ readableByProgram.rows = "readable"
  BY DEF readableByProgram, Reach
<1>2. provisionManagedConnection.rows = "managed" /\ acknowledgeManagedCredentials.rows = "managed"
  BY DEF provisionManagedConnection, acknowledgeManagedCredentials, Reach
<1>3. receiveVerifiedStripeWebhook.rows = "all"
  BY ReachFields DEF receiveVerifiedStripeWebhook
<1> QED BY <1>1, <1>2, <1>3, ReachFields DEF Reaches, Offered

\* Handlers that lists and the settings of an app are read and written by.
LEMMA ListsSound ==
  /\ Sound(PATCH_apps_id) /\ Sound(GET_clicks) /\ Sound(GET_referrals)
  /\ Sound(GET_commissions) /\ Sound(GET_payout_batches) /\ Sound(GET_payout_requests)
<1> DEFINE active == assertManagedConnectionIsActive(authenticateRequest)
<1>1. /\ authenticateRequest.via = "request" /\ active.via = "request" /\ active.active
      /\ requireOwnerAuth.via = "request" /\ requireOwnerAuth.active
  BY DEF authenticateRequest, assertManagedConnectionIsActive, requireOwnerAuth, Auth
<1> HIDE DEF active
<1>3. Sound(PATCH_apps_id)
  <2> DEFINE serves ==
        For({"session"}, {updateAppRevenueSource, setAppNetworkVisibility})
        \cup For({"session", "managed"}, {updateAppWebsiteUrl, setDefaultProgram, getAppById})
  <2>1. \A s \in serves : s.reach \in {OfApp, PairOfApp} /\ s.types \subseteq {"session", "managed"}
    BY DEF For, updateAppRevenueSource, setAppNetworkVisibility, updateAppWebsiteUrl,
       setDefaultProgram, getAppById
  <2>2. PATCH_apps_id = ByType(requireOwnerAuth, serves)
    BY DEF PATCH_apps_id
  <2> HIDE DEF serves
  <2>3. Sound(ByType(requireOwnerAuth, serves))
    BY <1>1, <2>1, ReachesKinds, ByTypeSound
  <2> QED BY <2>2, <2>3
<1>4. Sound(GET_clicks)
  <2> DEFINE serves == For({"session"}, {readableByProgram})
                       \cup For({"affiliate"}, {listClicksForAffiliate})
  <2>1. \A s \in serves : \/ s.types = {"session"} /\ s.reach = readableByProgram
                          \/ s.types = {"affiliate"} /\ s.reach = OfMembership
    BY DEF For, listClicksForAffiliate
  <2>2. GET_clicks = ByType(authenticateRequest, serves)
    BY DEF GET_clicks
  <2> HIDE DEF serves
  <2>3. Sound(ByType(authenticateRequest, serves))
    BY <1>1, <2>1, ReachesKinds, ByTypeSound
  <2> QED BY <2>2, <2>3
<1>5. Sound(GET_referrals)
  <2> DEFINE serves == For({"session"}, {listReferralsForApp, readableByProgram})
                       \cup For({"managed"}, {listReferralsForApp, listReferralsForProgram})
                       \cup For({"affiliate"}, {listReferralsForAffiliate})
  <2>1. \A s \in serves : \/ s.types = {"session"} /\ s.reach \in {OfApp, readableByProgram}
                          \/ s.types = {"managed"} /\ s.reach = OfApp
                          \/ s.types = {"affiliate"} /\ s.reach = OfMembership
    BY DEF For, listReferralsForApp, listReferralsForProgram, listReferralsForAffiliate
  <2>2. GET_referrals = ByType(active, serves)
    BY DEF GET_referrals, active
  <2> HIDE DEF serves
  <2>3. Sound(ByType(active, serves))
    BY <1>1, <2>1, ReachesKinds, ByTypeSound
  <2> QED BY <2>2, <2>3
<1>6. ASSUME NEW S \in SUBSET {OfApp, OwnRows}
      PROVE  Sound(ByType(active, For({"session"}, S) \cup For({"managed"}, {OfApp})
                                  \cup For({"affiliate"}, {OwnRows})))
  <2> DEFINE serves == For({"session"}, S) \cup For({"managed"}, {OfApp})
                       \cup For({"affiliate"}, {OwnRows})
  <2>1. \A s \in serves : \/ s.types = {"session"} /\ s.reach \in {OfApp, OwnRows}
                          \/ s.types = {"managed"} /\ s.reach = OfApp
                          \/ s.types = {"affiliate"} /\ s.reach = OwnRows
    BY DEF For
  <2> HIDE DEF serves
  <2>2. Sound(ByType(active, serves))
    BY <1>1, <2>1, ReachesKinds, ByTypeSound
  <2> QED BY <2>2 DEF serves
<1>7. Sound(GET_commissions)
  BY <1>6 DEF GET_commissions, active, listCommissionsForApp, listCommissionsForProgram,
     listCommissionsForAffiliateUser
<1>8. Sound(GET_payout_batches)
  BY <1>6 DEF GET_payout_batches, active, listPayoutRunsForApp, listPayoutRunsForProgram,
     listPayoutRunsForAffiliateUser
<1>9. Sound(GET_payout_requests)
  <2> DEFINE serves == For({"session"}, {OfApp, OwnRows}) \cup For({"affiliate"}, {OwnRows})
  <2>1. \A s \in serves : \/ s.types = {"session"} /\ s.reach \in {OfApp, OwnRows}
                          \/ s.types = {"affiliate"} /\ s.reach = OwnRows
    BY DEF For
  <2>2. GET_payout_requests = ByType(authenticateRequest, serves)
    BY DEF GET_payout_requests, For, listPayoutRequestsForApp, listPayoutRequestsForProgram,
       listPayoutRequestsForAffiliateUser
  <2> HIDE DEF serves
  <2>3. Sound(ByType(authenticateRequest, serves))
    BY <1>1, <2>1, ReachesKinds, ByTypeSound
  <2> QED BY <2>2, <2>3
<1> QED BY <1>3, <1>4, <1>5, <1>7, <1>8, <1>9

\* Handlers for the provider of managed connections, for Stripe and for a visitor.
LEMMA OutsideSound ==
  /\ Sound(POST_managed_connections_provision)
  /\ Sound(POST_managed_connections_id_credentials_ackId_acknowledge)
  /\ Sound(POST_webhooks_stripe) /\ Sound(POST_capture) /\ Sound(DELETE_managed_connections_id)
<1>0. ASSUME NEW auth, NEW t, auth.types = {t}, auth.via # "deletion",
             t \notin {"session", "affiliate", "app", "managed", "none"},
             NEW x, Reaches(auth, t, x)
      PROVE  Sound(Route(auth, {x}))
  <2> DEFINE r == Route(auth, {x})
  <2>1. r.auth = auth /\ \A s \in r.serves : s.types = {t} /\ s.reach = x
    BY <1>0 DEF Route, For
  <2> HIDE DEF r
  <2>2. x.rows \notin Offered
    BY <1>0, CapturesByKey
  <2>3. Sound(r)
    BY <1>0, <2>1, <2>2 DEF Sound, Entered
  <2> QED BY <2>3 DEF r
<1>1. /\ Sound(Route(requireManagedProvisioningSecret, {provisionManagedConnection}))
      /\ Sound(Route(requireManagedProvisioningSecret, {acknowledgeManagedCredentials}))
  <2>1. /\ requireManagedProvisioningSecret.types = {"provider"}
        /\ requireManagedProvisioningSecret.via = "secret"
    BY DEF requireManagedProvisioningSecret, Auth
  <2> QED BY <1>0, <2>1, ReachesKinds
<1>3. Sound(POST_webhooks_stripe)
  <2>1. verifyStripeConnectWebhook.types = {"stripe"} /\ verifyStripeConnectWebhook.via = "signature"
    BY DEF verifyStripeConnectWebhook, Auth
  <2> QED BY <1>0, <2>1, ReachesKinds DEF POST_webhooks_stripe
<1>4. Sound(POST_capture)
  <2> DEFINE auth == [Auth("key if any", {"app", "none"}) EXCEPT !.narrow = "app-scoped"]
  <2>1. auth.via = "key if any" /\ auth.types = {"app", "none"}
    BY DEF Auth
  <2>2. /\ captureAffiliateClick.check = "resolveCaptureAppId"
        /\ captureAffiliateClick.rows = "clicks"
    BY DEF captureAffiliateClick, Reach
  <2> HIDE DEF auth
  <2>3. /\ Route(auth, {captureAffiliateClick}).auth = auth
        /\ \A s \in Route(auth, {captureAffiliateClick}).serves : s.reach = captureAffiliateClick
    BY DEF Route, For
  <2>4. POST_capture = Route(auth, {captureAffiliateClick})
    BY DEF POST_capture, auth
  <2>5. /\ POST_capture.auth = auth
        /\ \A s \in POST_capture.serves : s.reach = captureAffiliateClick
    BY <2>3, <2>4
  <2> QED BY <2>1, <2>2, <2>5 DEF Sound, Reaches, Entered, Offers
<1>5. Sound(DELETE_managed_connections_id)
  <2>1. /\ requireManagedConnectionDeleteKey.types = {"managed"}
        /\ requireManagedConnectionDeleteKey.via = "deletion"
    BY DEF requireManagedConnectionDeleteKey, Auth
  <2>2. /\ redactManagedConnection.check = "requireManagedConnectionAccess unless redacted"
        /\ redactManagedConnection.rows = "app"
    BY DEF redactManagedConnection, Reach
  <2>3. /\ DELETE_managed_connections_id.auth = requireManagedConnectionDeleteKey
        /\ \A s \in DELETE_managed_connections_id.serves :
              s.types = {"managed"} /\ s.reach = redactManagedConnection
    BY <2>1 DEF DELETE_managed_connections_id, Route, For
  <2> QED BY <2>1, <2>2, <2>3 DEF Sound, Reaches, Entered, Offered
<1> QED BY <1>1, <1>3, <1>4, <1>5 DEF POST_managed_connections_provision,
       POST_managed_connections_id_credentials_ackId_acknowledge

\* Handlers that anybody may ask.
LEMMA PublicSound ==
  \A r \in {GET_legal, GET_health, GET_health_live, GET_health_ready, GET_v1,
            GET_self_hosted_setup, POST_self_hosted_setup, POST_auth_register, POST_auth_sign_in,
            GET_network_apps, GET_join_programSlug, POST_join_programSlug} : Sound(r)
<1>1. Nobody.via # "deletion"
  BY DEF Nobody, Auth
<1>2. Sound(Route(Nobody, {Open}))
  BY <1>1, OpenSound
<1>3. ASSUME NEW reaches, \A x \in reaches : x.rows \in {"pages", "accounts"},
             \A x \in reaches : RowsOf(x.rows) \subseteq ForAnybody(Route(Nobody, reaches))
      PROVE  Sound(Route(Nobody, reaches))
  <2> DEFINE r == Route(Nobody, reaches)
  <2>1. r.auth = Nobody /\ \A s \in r.serves : s.reach \in reaches
    BY DEF Route, For
  <2>2. \A x \in reaches : x.rows # "clicks" /\ RowsOf(x.rows) \subseteq ForAnybody(r)
    BY <1>3
  <2> HIDE DEF r
  <2>3. Sound(r)
    BY <1>1, <1>3, <2>1, <2>2 DEF Sound, Offers
  <2> QED BY <2>3 DEF r
<1>4. /\ listNetworkApps.rows = "pages" /\ getPublicJoinPageContext.rows = "pages"
      /\ registerPendingUser.rows = "accounts" /\ ensurePublicJoinUser.rows = "accounts"
      /\ bootstrapSelfHostedAdministrator.rows = "accounts"
  BY DEF listNetworkApps, getPublicJoinPageContext, registerPendingUser, ensurePublicJoinUser,
     bootstrapSelfHostedAdministrator, Reach
<1>5. /\ \A h \in {GET_network_apps, GET_join_programSlug} : RowsOf("pages") \subseteq ForAnybody(h)
      /\ RowsOf("pages") \cup RowsOf("accounts") \subseteq ForAnybody(POST_join_programSlug)
      /\ \A h \in {POST_auth_register, POST_self_hosted_setup} :
            RowsOf("accounts") \subseteq ForAnybody(h)
  BY DEF ForAnybody, RowsOf
<1>6. \A h \in {GET_network_apps, GET_join_programSlug, POST_join_programSlug,
                POST_auth_register, POST_self_hosted_setup} : Sound(h)
  BY <1>3, <1>4, <1>5 DEF GET_network_apps, GET_join_programSlug, POST_join_programSlug,
     POST_auth_register, POST_self_hosted_setup
<1> QED BY <1>2, <1>6 DEF GET_legal, GET_health, GET_health_live, GET_health_ready, GET_v1,
       GET_self_hosted_setup, POST_auth_sign_in

\* Handlers of the managed connection and its data subjects.
LEMMA ConnectionSound ==
  \A r \in AdministersConnection : Sound(r)
<1>1. ASSUME NEW x \in {OfConnection, OfApp}, Route(requireManagedKey, {x}) \in AdministersConnection
      PROVE  Sound(Route(requireManagedKey, {x}))
  BY <1>1, ManagedSound
<1>2. ASSUME NEW r \in AdministersConnection \ {DELETE_managed_connections_id}
      PROVE  \E x \in {OfConnection, OfApp} : r = Route(requireManagedKey, {x})
  BY DEF AdministersConnection, POST_managed_connections_id_credentials_rotate,
     POST_managed_connections_id_suspend, POST_managed_connections_id_reconnect,
     POST_managed_connections_id_uninstall, POST_managed_data_subjects_export,
     POST_managed_data_subjects_redact, rotateManagedCredentials, suspendManagedConnection,
     reconnectManagedConnection, uninstallManagedConnection, exportManagedCustomerData,
     redactManagedCustomerData
<1>3. ASSUME NEW r \in AdministersConnection \ {DELETE_managed_connections_id}
      PROVE  Sound(r)
  BY <1>1, <1>2
<1> QED BY <1>3, OutsideSound

\* Handlers of the dashboard.
LEMMA SessionHandlers ==
  \A r \in {GET_organizations, POST_organizations, GET_api_keys, POST_api_keys,
            DELETE_api_keys_id, GET_apps, POST_apps, GET_apps_id_agreement,
            PATCH_apps_id_agreement, POST_apps_id_logo, DELETE_apps_id_logo,
            GET_apps_id_overview, GET_apps_id_setup_status, GET_apps_id_webhook,
            PUT_apps_id_webhook, DELETE_apps_id_webhook, GET_apps_id_webhook_deliveries,
            POST_apps_id_webhook_rotate_secret, POST_apps_id_webhook_test,
            POST_stripe_connect_link, POST_stripe_claim_pending_install,
            GET_stripe_install_post_install, POST_stripe_disconnect,
            GET_programs_id_overview, POST_commissions_id_release,
            POST_commissions_id_reject, POST_ready_payouts_csv,
            POST_payout_batches_id_items_itemId_resolve, POST_payout_batches_id_cancel,
            POST_payout_batches_id_dispatch, POST_payout_requests_id_decline,
            POST_join_programSlug_confirm, GET_me, PATCH_me, POST_me_photo, DELETE_me_photo,
            POST_support} : Sound(r)
  BY SessionSound DEF SessionReaches, GET_organizations, POST_organizations, GET_api_keys,
     POST_api_keys, DELETE_api_keys_id, GET_apps, POST_apps, GET_apps_id_agreement,
     PATCH_apps_id_agreement, POST_apps_id_logo, DELETE_apps_id_logo, GET_apps_id_overview,
     GET_apps_id_setup_status, GET_apps_id_webhook, PUT_apps_id_webhook,
     DELETE_apps_id_webhook, GET_apps_id_webhook_deliveries,
     POST_apps_id_webhook_rotate_secret, POST_apps_id_webhook_test,
     POST_stripe_connect_link, POST_stripe_claim_pending_install,
     GET_stripe_install_post_install, POST_stripe_disconnect, GET_programs_id_overview,
     POST_commissions_id_release, POST_commissions_id_reject, POST_ready_payouts_csv,
     POST_payout_batches_id_items_itemId_resolve, POST_payout_batches_id_cancel,
     POST_payout_batches_id_dispatch, POST_payout_requests_id_decline,
     POST_join_programSlug_confirm, GET_me, PATCH_me, POST_me_photo, DELETE_me_photo,
     POST_support, listOrganizationsForUser, createOrganization, listApiKeys, revokeApiKey,
     listApps, createApp, publishAppAgreement, uploadAppLogo, removeAppLogo, getAppOverview,
     getAppSetupStatus, getWebhookEndpoint, configureWebhookEndpoint, deleteWebhookEndpoint,
     listWebhookDeliveries, rotateWebhookSecret, sendTestWebhook, createStripeAppInstallUrl,
     claimPendingStripeInstall, completeStripeAppInstallFromAccountId,
     disconnectStripeConnectionForApp, getProgramOverview, releaseFlaggedCommission,
     rejectFlaggedCommission, exportReadyPayoutsCsv, resolvePayoutItem, cancelPayoutRun,
     dispatchPayoutBatch, declinePayoutRequest, joinProgramViaPublicPage, getMeProfile,
     updateUserName, uploadUserPhoto, removeUserPhoto, submitSupportRequest,
     createAffiliateApiKey

\* Handlers of an owner.
LEMMA OwnerHandlers ==
  \A r \in {GET_apps_id, GET_programs, POST_programs, GET_programs_id, PATCH_programs_id,
            POST_programs_id_pause, POST_programs_id_resume, POST_programs_id_disable,
            POST_programs_id_acknowledge_disable, GET_programs_id_terms,
            POST_programs_id_terms, GET_program_affiliates, POST_program_affiliates,
            POST_program_affiliates_id_approve, POST_program_affiliates_id_disable,
            POST_program_affiliates_id_enable, GET_program_affiliates_id_links,
            POST_program_affiliates_id_links, PATCH_program_affiliates_id_links_linkId,
            DELETE_program_affiliates_id_links_linkId, GET_transactions, GET_ready_payouts,
            POST_ready_payouts_programAffiliateId_mark_paid, POST_payout_batches,
            GET_payout_batches_id_csv, GET_payout_batches_id_items,
            POST_payout_batches_id_affiliates_programAffiliateId_mark_paid,
            POST_payout_batches_id_mark_paid} : Sound(r)
  BY OwnerSound DEF GET_apps_id, GET_programs, POST_programs, GET_programs_id,
     PATCH_programs_id, POST_programs_id_pause, POST_programs_id_resume,
     POST_programs_id_disable, POST_programs_id_acknowledge_disable, GET_programs_id_terms,
     POST_programs_id_terms, GET_program_affiliates, POST_program_affiliates,
     POST_program_affiliates_id_approve, POST_program_affiliates_id_disable,
     POST_program_affiliates_id_enable, GET_program_affiliates_id_links,
     POST_program_affiliates_id_links, PATCH_program_affiliates_id_links_linkId,
     DELETE_program_affiliates_id_links_linkId, GET_transactions, GET_ready_payouts,
     POST_ready_payouts_programAffiliateId_mark_paid, POST_payout_batches,
     GET_payout_batches_id_csv, GET_payout_batches_id_items,
     POST_payout_batches_id_affiliates_programAffiliateId_mark_paid,
     POST_payout_batches_id_mark_paid, getAppById, listPrograms, createProgram,
     updateProgram, pauseProgram, resumeProgram, disableProgram, acknowledgeProgramDisable,
     publishProgramTermsVersion, listAffiliates, listAffiliatesForApp, createAffiliate,
     approvePendingAffiliate, disableAffiliate, enableAffiliate, listAffiliateLinksForOwner,
     createAffiliateLinkForOwner, updateAffiliateLinkForOwner, deleteAffiliateLinkForOwner,
     listTransactionsForApp, listTransactionsForProgram, listReadyPayouts,
     markReadyPayoutPaid, createPayoutRun, generatePayoutRunCsv, listPayoutItemsForRunOwner,
     markAffiliatePayoutPaid, markPayoutRunPaid

\* Handlers of an affiliate.
LEMMA AffiliateHandlers ==
  \A r \in {GET_affiliate_links, GET_affiliate_data_export, POST_affiliate_delete_account,
            POST_affiliate_programs_programId_join, GET_affiliate_programs_programId_links,
            POST_affiliate_programs_programId_links,
            DELETE_affiliate_programs_programId_links_linkId, GET_payout_balance,
            GET_payout_details, PUT_payout_details, POST_payout_requests} : Sound(r)
  BY AffiliateSound DEF AffiliateReaches, GET_affiliate_links, GET_affiliate_data_export,
     POST_affiliate_delete_account, POST_affiliate_programs_programId_join,
     GET_affiliate_programs_programId_links, POST_affiliate_programs_programId_links,
     DELETE_affiliate_programs_programId_links_linkId, GET_payout_balance,
     GET_payout_details, PUT_payout_details, POST_payout_requests,
     listAffiliateLinksForUser, exportAffiliateData, deleteAffiliateAccount,
     joinListedProgramForUser, listAffiliateLinks, createAffiliateLink,
     computePayableBalance, getAffiliatePayoutDetails, saveAffiliatePayoutDetails,
     createPayoutRequest

\* Handlers of the app's server.
LEMMA KeyHandlers ==
  \A r \in {POST_identify, POST_transactions, POST_transactions_refunds,
            POST_transactions_disputes, GET_payout_executions_executionId,
            POST_payout_executions_executionId_succeeded,
            POST_payout_executions_executionId_failed} : Sound(r)
  BY KeySound DEF KeyReaches, reportRefund, getPayoutExecutionForApp, POST_identify,
     POST_transactions, POST_transactions_refunds, POST_transactions_disputes,
     GET_payout_executions_executionId, POST_payout_executions_executionId_succeeded,
     POST_payout_executions_executionId_failed, reportDispute, markPayoutExecutionSucceeded,
     markPayoutExecutionFailed

\* Handlers of administrators.
LEMMA AdminHandlers ==
  \A r \in {GET_admin_organizations, GET_admin_organization_members, GET_admin_apps,
            POST_admin_apps_id_integration_issue, GET_admin_programs,
            POST_admin_programs_id_disable, GET_admin_affiliates,
            POST_admin_affiliates_id_disable, GET_admin_program_affiliates,
            POST_admin_program_affiliates_id_disable, GET_admin_clicks, GET_admin_referrals,
            GET_admin_customers, GET_admin_transactions, GET_admin_commission_entries,
            POST_admin_commission_adjustments, GET_admin_payout_batches,
            GET_admin_payout_batches_id_csv, GET_admin_payout_runs,
            GET_admin_payout_runs_id_csv, GET_admin_payout_items, GET_admin_payout_requests,
            GET_admin_stripe_connections, GET_admin_stripe_events,
            POST_admin_stripe_events_id_reprocess, GET_admin_audit_logs, POST_admin_users,
            POST_admin_email_diagnostic} : Sound(r)
  BY AdminSound DEF GET_admin_organizations, GET_admin_organization_members, GET_admin_apps,
     POST_admin_apps_id_integration_issue, GET_admin_programs,
     POST_admin_programs_id_disable, GET_admin_affiliates, POST_admin_affiliates_id_disable,
     GET_admin_program_affiliates, POST_admin_program_affiliates_id_disable,
     GET_admin_clicks, GET_admin_referrals, GET_admin_customers, GET_admin_transactions,
     GET_admin_commission_entries, POST_admin_commission_adjustments,
     GET_admin_payout_batches, GET_admin_payout_batches_id_csv, GET_admin_payout_runs,
     GET_admin_payout_runs_id_csv, GET_admin_payout_items, GET_admin_payout_requests,
     GET_admin_stripe_connections, GET_admin_stripe_events,
     POST_admin_stripe_events_id_reprocess, GET_admin_audit_logs, POST_admin_users,
     POST_admin_email_diagnostic, listAdminOrganizations, listAdminOrganizationMembers,
     listAdminApps, markIntegrationIssue, listAdminPrograms, adminDisableProgram,
     listAdminAffiliates, adminDisableAffiliate, listAdminClicks, listAdminReferrals,
     listAdminCustomers, listAdminTransactions, listAdminCommissionEntries,
     createCommissionAdjustment, listAdminPayoutRuns, adminExportPayoutRunCsv,
     listAdminPayoutItems, listAdminPayoutRequests, listAdminStripeConnections,
     listAdminStripeEvents, reprocessStripeEvent, listAdminAuditLogs, createBetaUser

\* Every handler of the API is sound.
LEMMA HandlersSound ==
  \A r \in Handlers : Sound(r)
  BY SessionHandlers, OwnerHandlers, AffiliateHandlers, KeyHandlers, AdminHandlers, PublicSound,
     ConnectionSound, ListsSound, OutsideSound DEF Handlers, AdministersConnection

-----------------------------------------------------------------------------
(* The table of clients.                                                   *)

\* The handler admits the kind of credential and has something to do for it.
Served(t, r) == t \in r.auth.types /\ \E s \in r.serves : t \in s.types

\* A handler that serves whom it admits.
LEMMA RouteServes ==
  ASSUME NEW auth, NEW reaches, reaches # {}, NEW t \in auth.types
  PROVE  Served(t, Route(auth, reaches))
<1>1. PICK x \in reaches : TRUE
  OBVIOUS
<1>2. [types |-> auth.types, reach |-> x] \in For(auth.types, reaches)
  BY DEF For
<1> QED BY <1>2 DEF Served, Route

\* The kinds of callers that the functions of auth-context let in.
LEMMA AuthTypes ==
  /\ "session" \in requireSession.types /\ "session" \in requireSessionUser.types
  /\ "session" \in requireOwnerAuth.types /\ "session" \in requireAffiliateAuth.types
  /\ "affiliate" \in requireAffiliateAuth.types /\ "app" \in requireAppKey.types
  /\ "app" \in requireLiveAppScopedKey.types /\ "none" \in Nobody.types
<1>1. "session" \in requireOwnerAuth.types
  BY DEF requireOwnerAuth, assertManagedConnectionIsActive, Auth
<1>2. "app" \in requireAppKey.types /\ "app" \in requireLiveAppScopedKey.types
  BY DEF requireLiveAppScopedKey, requireAppKey, Auth
<1>3. "session" \in requireSession.types /\ "session" \in requireSessionUser.types
  BY DEF requireSession, requireSessionUser, Auth
<1>4. "session" \in requireAffiliateAuth.types /\ "affiliate" \in requireAffiliateAuth.types
  BY DEF requireAffiliateAuth, Auth
<1> QED BY <1>1, <1>2, <1>3, <1>4 DEF Nobody, Auth

\* What a session is sent to, by the function that admits it.
LEMMA SessionServed ==
  \A r \in {GET_organizations, POST_organizations, GET_apps, POST_apps,
            GET_programs_id_overview, PATCH_apps_id_agreement, POST_commissions_id_reject,
            POST_commissions_id_release, POST_payout_batches_id_items_itemId_resolve,
            GET_apps_id_setup_status, POST_stripe_connect_link, POST_stripe_disconnect,
            GET_api_keys, POST_api_keys, DELETE_api_keys_id, GET_apps_id_webhook,
            PUT_apps_id_webhook, POST_apps_id_webhook_test,
            POST_apps_id_webhook_rotate_secret, GET_apps_id_webhook_deliveries,
            DELETE_apps_id_webhook, POST_payout_batches_id_dispatch, POST_ready_payouts_csv,
            GET_me} :
      Served("session", r)
  BY RouteServes, AuthTypes DEF GET_organizations, POST_organizations, GET_apps,
     POST_apps, GET_programs_id_overview, PATCH_apps_id_agreement,
     POST_commissions_id_reject, POST_commissions_id_release,
     POST_payout_batches_id_items_itemId_resolve, GET_apps_id_setup_status,
     POST_stripe_connect_link, POST_stripe_disconnect, GET_api_keys, POST_api_keys,
     DELETE_api_keys_id, GET_apps_id_webhook, PUT_apps_id_webhook,
     POST_apps_id_webhook_test, POST_apps_id_webhook_rotate_secret,
     GET_apps_id_webhook_deliveries, DELETE_apps_id_webhook,
     POST_payout_batches_id_dispatch, POST_ready_payouts_csv, GET_me

\* The same for handlers that admit a management key too.
LEMMA OwnerServed ==
  \A r \in {GET_apps_id, GET_programs, GET_programs_id, PATCH_programs_id, POST_programs,
            POST_programs_id_terms, POST_programs_id_pause, POST_programs_id_resume,
            GET_program_affiliates, POST_program_affiliates,
            POST_program_affiliates_id_approve, GET_transactions, POST_payout_batches,
            GET_payout_batches_id_items, GET_ready_payouts,
            POST_ready_payouts_programAffiliateId_mark_paid,
            POST_payout_batches_id_mark_paid, GET_program_affiliates_id_links,
            POST_program_affiliates_id_links, PATCH_program_affiliates_id_links_linkId,
            DELETE_program_affiliates_id_links_linkId} :
      Served("session", r)
  BY RouteServes, AuthTypes DEF GET_apps_id, GET_programs, GET_programs_id,
     PATCH_programs_id, POST_programs, POST_programs_id_terms, POST_programs_id_pause,
     POST_programs_id_resume, GET_program_affiliates, POST_program_affiliates,
     POST_program_affiliates_id_approve, GET_transactions, POST_payout_batches,
     GET_payout_batches_id_items, GET_ready_payouts,
     POST_ready_payouts_programAffiliateId_mark_paid, POST_payout_batches_id_mark_paid,
     GET_program_affiliates_id_links, POST_program_affiliates_id_links,
     PATCH_program_affiliates_id_links_linkId, DELETE_program_affiliates_id_links_linkId

\* The same for handlers that admit the key of an affiliate too.
LEMMA AffiliateServed ==
  \A r \in {POST_affiliate_programs_programId_join, GET_affiliate_links,
            GET_affiliate_programs_programId_links, POST_affiliate_programs_programId_links,
            DELETE_affiliate_programs_programId_links_linkId, GET_payout_balance,
            POST_payout_requests, GET_payout_details} :
      Served("session", r) /\ Served("affiliate", r)
  BY RouteServes, AuthTypes DEF POST_affiliate_programs_programId_join,
     GET_affiliate_links, GET_affiliate_programs_programId_links,
     POST_affiliate_programs_programId_links,
     DELETE_affiliate_programs_programId_links_linkId, GET_payout_balance,
     POST_payout_requests, GET_payout_details

\* What the key of an app is sent to.
LEMMA KeyServed ==
  \A r \in {POST_transactions, POST_transactions_refunds, POST_transactions_disputes,
            GET_payout_executions_executionId, POST_payout_executions_executionId_succeeded,
            POST_payout_executions_executionId_failed} :
      Served("app", r)
  BY RouteServes, AuthTypes DEF POST_transactions, POST_transactions_refunds,
     POST_transactions_disputes, GET_payout_executions_executionId,
     POST_payout_executions_executionId_succeeded, POST_payout_executions_executionId_failed

\* A handler that serves a kind of caller in a way of its own.
LEMMA ByTypeServes ==
  ASSUME NEW auth, NEW types, NEW reaches, NEW serves, For(types, reaches) \subseteq serves,
         reaches # {}, NEW t \in types, t \in auth.types
  PROVE  Served(t, ByType(auth, serves))
<1>1. PICK x \in reaches : TRUE
  OBVIOUS
<1>2. [types |-> types, reach |-> x] \in For(types, reaches)
  BY DEF For
<1> QED BY <1>2 DEF Served, ByType

\* What a session is sent to, where each kind of caller is served in its own way.
LEMMA ListsServed ==
  \A r \in {PATCH_apps_id, GET_clicks, GET_referrals, GET_commissions, GET_payout_batches} :
      Served("session", r)
<1> DEFINE active == assertManagedConnectionIsActive(authenticateRequest)
<1>1. "session" \in authenticateRequest.types /\ "session" \in active.types
  BY DEF authenticateRequest, assertManagedConnectionIsActive, Auth
<1> HIDE DEF active
<1>2. Served("session", PATCH_apps_id)
  BY ByTypeServes, AuthTypes DEF PATCH_apps_id
<1>3. Served("session", GET_clicks)
  BY <1>1, ByTypeServes DEF GET_clicks
<1>4. Served("session", GET_referrals)
  BY <1>1, ByTypeServes DEF GET_referrals, active
<1>5. Served("session", GET_commissions)
  BY <1>1, ByTypeServes DEF GET_commissions, active
<1>6. Served("session", GET_payout_batches)
  BY <1>1, ByTypeServes DEF GET_payout_batches, active
<1> QED BY <1>2, <1>3, <1>4, <1>5, <1>6

\* The list of the network is for everybody.
LEMMA NetworkServed == Served("none", GET_network_apps)
  BY RouteServes, AuthTypes DEF GET_network_apps

\* Whatever the program sends is served.
AllServed(calls) == \A x \in calls : Served(x.type, x.route)

\* One kind of credential, some handlers.
LEMMA SendsServed ==
  ASSUME NEW type, NEW routes, \A r \in routes : Served(type, r)
  PROVE  AllServed(Sends(type, routes))
  BY DEF AllServed, Sends
\* The same for the two kinds of an affiliate.
LEMMA EitherServed ==
  ASSUME NEW routes, \A r \in routes : Served("session", r) /\ Served("affiliate", r)
  PROVE  AllServed(requireAffiliateToken(routes))
  BY DEF AllServed, Sends, requireAffiliateToken

\* The tools of the owner.
LEMMA OwnerTools ==
  /\ AllServed(list_organizations) /\ AllServed(create_organization) /\ AllServed(list_apps)
  /\ AllServed(get_app) /\ AllServed(create_app) /\ AllServed(update_app)
  /\ AllServed(list_programs) /\ AllServed(get_program) /\ AllServed(update_program)
  /\ AllServed(get_program_overview) /\ AllServed(create_program)
  /\ AllServed(publish_program_terms) /\ AllServed(publish_app_agreement)
  /\ AllServed(pause_program) /\ AllServed(resume_program) /\ AllServed(list_affiliates)
  /\ AllServed(create_affiliate) /\ AllServed(approve_affiliate) /\ AllServed(list_clicks)
  /\ AllServed(list_referrals)
  BY SendsServed, SessionServed, OwnerServed, ListsServed
  DEF requireSessionAuth, list_organizations, create_organization, list_apps, get_app,
     create_app, update_app, list_programs, get_program, update_program,
     get_program_overview, create_program, publish_program_terms, publish_app_agreement,
     pause_program, resume_program, list_affiliates, create_affiliate, approve_affiliate,
     list_clicks, list_referrals

\* The tools of the owner for payouts and links.
LEMMA PayoutTools ==
  /\ AllServed(list_transactions) /\ AllServed(list_commissions)
  /\ AllServed(reject_commission) /\ AllServed(release_commission)
  /\ AllServed(create_payout_run) /\ AllServed(list_payout_runs)
  /\ AllServed(get_payout_run_items) /\ AllServed(list_ready_payouts)
  /\ AllServed(mark_affiliate_payout_paid) /\ AllServed(mark_payout_run_paid)
  /\ AllServed(resolve_payout_item) /\ AllServed(list_owned_affiliate_links)
  /\ AllServed(create_owned_affiliate_link) /\ AllServed(update_owned_affiliate_link)
  /\ AllServed(delete_owned_affiliate_link)
  BY SendsServed, SessionServed, OwnerServed, ListsServed
  DEF requireSessionAuth, list_transactions, list_commissions, reject_commission,
     release_commission, create_payout_run, list_payout_runs, get_payout_run_items,
     list_ready_payouts, mark_affiliate_payout_paid, mark_payout_run_paid,
     resolve_payout_item, list_owned_affiliate_links, create_owned_affiliate_link,
     update_owned_affiliate_link, delete_owned_affiliate_link

\* The tools for integration, automation and revenue.
LEMMA IntegrationTools ==
  /\ AllServed(get_auth_status) /\ AllServed(get_setup_status)
  /\ AllServed(create_stripe_connect_link) /\ AllServed(disconnect_stripe)
  /\ AllServed(list_api_keys) /\ AllServed(create_api_key) /\ AllServed(revoke_api_key)
  /\ AllServed(get_webhook) /\ AllServed(configure_webhook) /\ AllServed(test_webhook)
  /\ AllServed(rotate_webhook_secret) /\ AllServed(list_webhook_deliveries)
  /\ AllServed(remove_webhook) /\ AllServed(dispatch_payout_batch)
  /\ AllServed(get_payout_execution) /\ AllServed(report_payout_succeeded)
  /\ AllServed(report_payout_failed) /\ AllServed(report_payment) /\ AllServed(report_refund)
  /\ AllServed(report_dispute)
  BY SendsServed, SessionServed, KeyServed
  DEF requireSessionAuth, requireAppKeyAuth, get_auth_status, get_setup_status,
     create_stripe_connect_link, disconnect_stripe, list_api_keys, create_api_key,
     revoke_api_key, get_webhook, configure_webhook, test_webhook, rotate_webhook_secret,
     list_webhook_deliveries, remove_webhook, dispatch_payout_batch, get_payout_execution,
     report_payout_succeeded, report_payout_failed, report_payment, report_refund,
     report_dispute

\* The tools of the affiliate.
LEMMA AffiliateTools ==
  /\ AllServed(browse_refkit_network) /\ AllServed(join_refkit_network_program)
  /\ AllServed(list_affiliate_links) /\ AllServed(list_program_affiliate_links)
  /\ AllServed(create_program_affiliate_link) /\ AllServed(delete_program_affiliate_link)
  /\ AllServed(get_payout_balance) /\ AllServed(request_payout)
  /\ AllServed(get_payout_details)
  BY SendsServed, EitherServed, AffiliateServed, NetworkServed
  DEF NoToken, browse_refkit_network, join_refkit_network_program, list_affiliate_links,
     list_program_affiliate_links, create_program_affiliate_link,
     delete_program_affiliate_link, get_payout_balance, request_payout, get_payout_details

\* The two commands that are made of others.
LEMMA SetUp == AllServed(runInit) /\ AllServed(runStatus)
<1>1. /\ AllServed(ensureCliSession) /\ AllServed(selectApp) /\ AllServed(selectProgram)
      /\ AllServed(requireSessionAuth({GET_apps_id, GET_programs_id, POST_stripe_connect_link,
                                       GET_apps_id_setup_status, POST_api_keys}))
      /\ AllServed(requireSessionAuth({GET_apps_id_setup_status}))
  BY SendsServed, SessionServed, OwnerServed
  DEF requireSessionAuth, ensureCliSession, selectApp, selectProgram
<1> QED BY <1>1 DEF AllServed, runInit, runStatus

\* The commands of the owner.
LEMMA OwnerCommands ==
  /\ AllServed(apps_create) /\ AllServed(apps_update) /\ AllServed(apps_agreement_publish)
  /\ AllServed(apps_disconnect_stripe) /\ AllServed(programs_create)
  /\ AllServed(programs_update) /\ AllServed(programs_terms_publish)
  /\ AllServed(affiliates_create) /\ AllServed(commissions_list) /\ AllServed(webhooks_get)
  /\ AllServed(webhooks_configure) /\ AllServed(webhooks_test_rotate)
  /\ AllServed(webhooks_deliveries) /\ AllServed(webhooks_remove)
  /\ AllServed(payouts_create) /\ AllServed(payouts_ready)
  /\ AllServed(payouts_pay_affiliate) /\ AllServed(payouts_download)
  /\ AllServed(payouts_resolve_item) /\ AllServed(payouts_mark_paid)
  /\ AllServed(payouts_dispatch) /\ AllServed(payouts_execution)
  /\ AllServed(payouts_execution_succeeded) /\ AllServed(payouts_execution_failed)
  BY SendsServed, SessionServed, OwnerServed, ListsServed, KeyServed
  DEF requireSessionAuth, requireAppKeyAuth, apps_create, apps_update,
     apps_agreement_publish, apps_disconnect_stripe, programs_create, programs_update,
     programs_terms_publish, affiliates_create, commissions_list, webhooks_get,
     webhooks_configure, webhooks_test_rotate, webhooks_deliveries, webhooks_remove,
     payouts_create, payouts_ready, payouts_pay_affiliate, payouts_download,
     payouts_resolve_item, payouts_mark_paid, payouts_dispatch, payouts_execution,
     payouts_execution_succeeded, payouts_execution_failed

\* The commands of the affiliate.
LEMMA AffiliateCommands ==
  /\ AllServed(links_list) /\ AllServed(links_create) /\ AllServed(links_delete)
  /\ AllServed(links_update) /\ AllServed(network_list) /\ AllServed(network_join)
  BY SendsServed, OwnerServed, AffiliateServed, NetworkServed
  DEF requireSessionAuth, NoToken, links_list, links_create, links_delete, links_update,
     network_list, network_join

\* The API serves whatever the two programs ask of it.
LEMMA ClientsServed == AllServed(ClientCalls)
<1>1. AllServed(McpCalls)
  BY OwnerTools, PayoutTools, IntegrationTools, AffiliateTools DEF AllServed, McpCalls
<1>2. AllServed(CliCalls)
  BY SetUp, OwnerCommands, AffiliateCommands DEF AllServed, CliCalls
<1> QED BY <1>1, <1>2 DEF AllServed, ClientCalls

-----------------------------------------------------------------------------
(* The request on its way.                                                 *)

Entering == {"credential", "connection", "type", "service", "query"}
LookedUp == Entering \ {"credential"}
Connected == LookedUp \ {"connection"}
Vetted == {"service", "query"}
AllReaches == {Open} \cup UNION {{s.reach : s \in r.serves} : r \in Handlers}
ApiCall == [step : Entering, by : Credentials, route : Handlers, a : Apps \cup {Null},
            b : Apps \cup {Null}, wasLive : BOOLEAN, seen : SUBSET Statuses, revoked : BOOLEAN,
            status : Statuses \cup {Null}, reach : AllReaches]

\* Only users and apps have credentials that can be revoked.
Lasting == \A c \in Credentials : c.type \in {"none", "provider", "stripe"} => c \in live

\* What is known of a request from its arrival on.
Arrived ==
    /\ call \in ApiCall
    /\ \A s \in call.route.serves :
          /\ s.reach.check # "nothing" => call.a \in Apps
          /\ s.reach.rows = "second in organization" => call.b \in Apps
    /\ Managed(call.by) => connection \in call.seen
    /\ ~call.wasLive => call.by \notin live
\* What the lookup of its credential adds: one revoked before it came is found for the
\* deletion of a connection only.
Looked ==
    /\ call.route.auth.via \in {"request", "session"} => call.wasLive
    /\ call.route.auth.via = "key if any" => call.by.type = "none" \/ call.wasLive
    /\ call.route.auth.via = "deletion" => call.by.type = "managed" /\ call.a = ManagedApp
    /\ call.step = "connection" =>
          /\ Managed(call.by)
          /\ ~call.wasLive /\ call.route.auth.via = "deletion" => call.revoked
\* What the lookup of the connection adds.
Connects ==
    Managed(call.by) /\ call.route.auth.via \in {"request", "deletion", "key if any"} =>
        /\ call.status \in call.seen
        /\ call.by.type = "app" => call.status = "active"
        /\ ~call.wasLive => connection = "redacted"
\* What the function of auth-context adds.
Enters ==
    /\ call.by.type \in call.route.auth.types
    /\ call.route.auth.active /\ call.by.type = "managed" => call.status = "active"
    /\ call.route.auth.narrow = "admin" => call.by.admin
\* What the check of the service function adds.
Scoped(check, c, a) ==
    /\ check = "requireAppAccess" =>
          IF c.type = "managed" THEN a = ManagedApp ELSE OrgOf[a] \in c.orgs
    /\ check = "requireOrganizationMembership" /\ c.type # "managed" => OrgOf[a] \in c.orgs
    /\ check = "requireProgramAffiliate" => <<c.user, a>> \in Affiliated
    /\ check = "resolveProgramListAccess" /\ c.type # "managed" =>
          OrgOf[a] \in c.orgs \/ <<c.user, a>> \in Affiliated
    /\ check = "requireManagedConnectionAccess" => a = ManagedApp
    /\ check = "resolveAppScope" => resolveAppScope(c, a)
    /\ check = "resolveCaptureAppId" => resolveCaptureAppId(c, a)
    /\ check \in {"requireExecutionForApp", "findApiPaymentForAuth"} => a = c.app
Serves ==
    /\ \E s \in call.route.serves : call.by.type \in s.types /\ call.reach = s.reach
    /\ Scoped(call.reach.check, call.by, call.a)

ApiInv ==
    /\ connection \in Statuses
    /\ Lasting
    /\ call.step \in Entering \cup {"idle", "refused", "done"}
    /\ call.step \in Entering => Arrived
    /\ call.step \in LookedUp => Looked
    /\ call.step \in Connected => Connects
    /\ call.step \in Vetted => Enters
    /\ call.step = "query" => Serves
    /\ OnlyOwnRows /\ InactiveIsSilent /\ RevokedIsRefused /\ ClientsAdmitted

\* The fields of a request on its way.
LEMMA CallFields ==
  ASSUME call \in ApiCall
  PROVE  /\ call.step \in Entering /\ call.by \in Credentials /\ call.route \in Handlers
         /\ call.a \in Apps \cup {Null} /\ call.b \in Apps \cup {Null}
         /\ call.wasLive \in BOOLEAN /\ call.seen \in SUBSET Statuses
         /\ call.revoked \in BOOLEAN /\ call.status \in Statuses \cup {Null}
         /\ call.reach \in AllReaches
  BY DEF ApiCall

\* The request goes on: its step changes, and what its lookups found.
Moves ==
    /\ call' \in ApiCall
    /\ call'.by = call.by /\ call'.route = call.route /\ call'.a = call.a /\ call'.b = call.b
    /\ call'.wasLive = call.wasLive /\ call'.seen = call.seen

\* A change of the step, alone or with what a lookup found, leaves the other fields.
LEMMA GoToMoves ==
  ASSUME call \in ApiCall, NEW s \in Entering, GoTo(s)
  PROVE  Moves /\ call'.step = s /\ call'.status = call.status /\ call'.revoked = call.revoked
               /\ call'.reach = call.reach
  BY DEF ApiCall, Moves, GoTo
\* The same with the reach of a service function.
LEMMA ReachMoves ==
  ASSUME call \in ApiCall, NEW s \in Entering, NEW rc \in AllReaches,
         call' = [call EXCEPT !.step = s, !.reach = rc]
  PROVE  Moves /\ call'.step = s /\ call'.status = call.status /\ call'.reach = rc
  BY DEF ApiCall, Moves
\* The same with the status of the connection.
LEMMA StatusMoves ==
  ASSUME call \in ApiCall, NEW s \in Entering, NEW st \in Statuses \cup {Null},
         call' = [call EXCEPT !.step = s, !.status = st]
  PROVE  Moves /\ call'.step = s /\ call'.status = st
  BY DEF ApiCall, Moves
\* The same with whether the key is revoked.
LEMMA RevokedMoves ==
  ASSUME call \in ApiCall, NEW s \in Entering, NEW rv \in BOOLEAN,
         call' = [call EXCEPT !.step = s, !.revoked = rv]
  PROVE  Moves /\ call'.step = s /\ call'.revoked = rv
  BY DEF ApiCall, Moves

\* What a check that passes says, whatever becomes of the connection.
LEMMA PassesScopes ==
  ASSUME NEW check, NEW c, NEW a, Passes(check, c, a)
  PROVE  Scoped(check, c, a)
<1>1. check = "requireOrganizationMembership" => requireOrganizationMembership(c, a)
  BY DEF Passes
<1>2. check = "requireAppAccess" => requireAppAccess(c, a)
  BY DEF Passes
<1>3. check = "requireProgramAffiliate" => requireProgramAffiliate(c, a)
  BY DEF Passes
<1>4. check = "resolveProgramListAccess" => resolveProgramListAccess(c, a)
  BY DEF Passes
<1>5. check = "requireManagedConnectionAccess" => requireManagedConnectionAccess(c, a)
  BY DEF Passes
<1>6. check = "resolveAppScope" => resolveAppScope(c, a)
  BY DEF Passes
<1>7. check \in {"requireExecutionForApp", "findApiPaymentForAuth"} => a = c.app
  BY DEF Passes
<1>8. check = "resolveCaptureAppId" => resolveCaptureAppId(c, a)
  BY DEF Passes
<1> QED BY <1>1, <1>2, <1>3, <1>4, <1>5, <1>6, <1>7, <1>8 DEF Scoped, requireOrganizationMembership,
       requireAppAccess, requireProgramAffiliate, resolveProgramListAccess,
       requireManagedConnectionAccess

\* A request that goes on keeps what was known when it arrived.
LEMMA MovesOn ==
  ASSUME Arrived, Moves, UNCHANGED <<live, connection>>
  PROVE  Arrived'
  BY DEF Arrived, Moves, Managed

\* The four properties say nothing of a request on its way.
LEMMA OnItsWay ==
  ASSUME call.step \notin {"refused", "done"}
  PROVE  OnlyOwnRows /\ InactiveIsSilent /\ RevokedIsRefused /\ ClientsAdmitted
  BY DEF OnlyOwnRows, InactiveIsSilent, RevokedIsRefused, ClientsAdmitted,
       ByCredential

\* The steps exclude each other.
LEMMA StepsApart ==
  /\ "credential" \notin LookedUp /\ "connection" \notin Connected /\ "type" \notin Vetted
  /\ Vetted \subseteq Connected /\ Connected \subseteq LookedUp /\ LookedUp \subseteq Entering
  /\ \A s \in Entering : s \notin {"idle", "refused", "done"}
  /\ Entering = {"credential", "connection", "type", "service", "query"}
  /\ LookedUp = {"connection", "type", "service", "query"}
  /\ Connected = {"type", "service", "query"}
  BY DEF Entering, LookedUp, Connected, Vetted

\* A request arrives.
LEMMA ArriveStep ==
  ASSUME ApiAccessAssumption, ApiInv, NEW c \in Credentials, NEW r \in Handlers,
         NEW a \in Ids(r, TakesFirst), NEW b \in Ids(r, TakesSecond), Arrive(c, r, a, b)
  PROVE  ApiInv'
<1> DEFINE q == [step |-> "credential", by |-> c, route |-> r, a |-> a, b |-> b,
                 wasLive |-> c \in live, seen |-> IF Managed(c) THEN {connection} ELSE {},
                 revoked |-> FALSE, status |-> Null, reach |-> Open]
<1>1. call' = q /\ UNCHANGED <<live, connection>>
  BY DEF Arrive
<1>2. a \in Apps \cup {Null} /\ b \in Apps \cup {Null}
  BY DEF Ids
<1>3. connection \in Statuses /\ (c \in live) \in BOOLEAN
  BY DEF ApiInv
<1>4. q \in ApiCall
  BY <1>2, <1>3 DEF ApiCall, Entering, AllReaches
<1>5. \A s \in r.serves : /\ s.reach.check # "nothing" => a \in Apps
                          /\ s.reach.rows = "second in organization" => b \in Apps
  BY DEF Ids, TakesFirst, TakesSecond
<1>6. Arrived'
  <2>1. /\ call'.by = c /\ call'.route = r /\ call'.a = a /\ call'.b = b
        /\ call'.wasLive = (c \in live)
        /\ call'.seen = IF Managed(c) THEN {connection} ELSE {}
    BY <1>1
  <2>2. call' \in ApiCall
    BY <1>1, <1>4 DEF ApiCall
  <2> HIDE DEF q
  <2>3. Managed(call.by)' => connection' \in call'.seen
    BY <1>1, <2>1 DEF Managed
  <2>4. ~call'.wasLive => call'.by \notin live'
    BY <1>1, <2>1
  <2> QED BY <1>5, <2>1, <2>2, <2>3, <2>4 DEF Arrived
<1>7. call'.step = "credential"
  BY <1>1
<1>8. (OnlyOwnRows /\ InactiveIsSilent /\ RevokedIsRefused /\ ClientsAdmitted)'
  BY <1>7 DEF OnlyOwnRows, InactiveIsSilent, RevokedIsRefused, ClientsAdmitted,
       ByCredential
<1> HIDE DEF q
<1> QED BY <1>1, <1>6, <1>7, <1>8, StepsApart DEF ApiInv, Lasting

\* A request is refused for anything but the kind of its credential.
LEMMA RefuseStep ==
  ASSUME ApiInv, UNCHANGED <<live, connection>>, NEW why, why # "type", Refuse(why)
  PROVE  ApiInv'
<1>1. call'.step = "refused" /\ call'.why = why
  BY DEF Refuse
<1>2. (OnlyOwnRows /\ InactiveIsSilent /\ RevokedIsRefused /\ ClientsAdmitted)'
  BY <1>1 DEF OnlyOwnRows, InactiveIsSilent, RevokedIsRefused, ClientsAdmitted,
       ByCredential
<1> QED BY <1>1, <1>2, StepsApart DEF ApiInv, Lasting, Vetted

\* The credential is looked up.
LEMMA FindCredentialStep ==
  ASSUME ApiAccessAssumption, ApiInv, findCredential
  PROVE  ApiInv'
<1>1. call.step = "credential" /\ UNCHANGED <<live, connection>>
  BY DEF findCredential
<1>2. Arrived /\ call \in ApiCall
  BY <1>1, StepsApart DEF ApiInv, Arrived
<1>3. CASE Refuse("credential")
  BY <1>1, <1>3, RefuseStep
<1>4. CASE ~Refuse("credential")
  <2> DEFINE via == call.route.auth.via
  <2>1. Found(call.route.auth, call.by)
    BY <1>1, <1>4 DEF findCredential
  <2>2. /\ via = "request" => call.by \in live
        /\ via = "session" => call.by \in live
        /\ via = "key if any" => call.by.type = "none" \/ call.by \in live
        /\ via = "deletion" => call.by.type = "managed" /\ call.a = ManagedApp
    BY <2>1 DEF Found, findApiKeyByRawKey
  <2>3. /\ via \in {"request", "session"} => call.wasLive
        /\ via = "key if any" => call.by.type = "none" \/ call.wasLive
        /\ via = "deletion" => call.by.type = "managed" /\ call.a = ManagedApp
    BY <1>2, <2>2, CallFields DEF Arrived
  <2>4. CASE Managed(call.by) /\ via \in {"request", "deletion", "key if any"}
    <3>1. call' = [call EXCEPT !.step = "connection", !.revoked = call.by \notin live]
      BY <1>4, <2>1, <2>4 DEF findCredential
    <3>2. Moves /\ call'.step = "connection" /\ call'.revoked = (call.by \notin live)
      BY <1>2, <3>1, RevokedMoves, StepsApart
    <3>3. Arrived'
      BY <1>1, <1>2, <3>2, MovesOn
    <3>4. ~call.wasLive => call'.revoked
      BY <1>2, <3>2 DEF Arrived
    <3>5. Looked'
      BY <1>1, <2>3, <2>4, <3>2, <3>4 DEF Looked, Moves, Managed
    <3>6. (OnlyOwnRows /\ InactiveIsSilent /\ RevokedIsRefused /\ ClientsAdmitted)'
      BY <3>2 DEF OnlyOwnRows, InactiveIsSilent, RevokedIsRefused, ClientsAdmitted,
       ByCredential
    <3> QED BY <1>1, <3>2, <3>3, <3>5, <3>6, StepsApart DEF ApiInv, Lasting, Vetted
  <2>5. CASE ~(Managed(call.by) /\ via \in {"request", "deletion", "key if any"})
    <3>1. GoTo("type")
      BY <1>4, <2>1, <2>5 DEF findCredential
    <3>2. Moves /\ call'.step = "type"
      BY <1>2, <3>1, GoToMoves, StepsApart
    <3>3. Arrived'
      BY <1>1, <1>2, <3>2, MovesOn
    <3>4. Looked'
      BY <2>3, <3>2 DEF Looked, Moves
    <3>5. Connects'
      BY <2>5, <3>2 DEF Connects, Moves, Managed
    <3>6. (OnlyOwnRows /\ InactiveIsSilent /\ RevokedIsRefused /\ ClientsAdmitted)'
      BY <3>2 DEF OnlyOwnRows, InactiveIsSilent, RevokedIsRefused, ClientsAdmitted,
       ByCredential
    <3> QED BY <1>1, <3>2, <3>3, <3>4, <3>5, <3>6, StepsApart DEF ApiInv, Lasting, Vetted
  <2> QED BY <2>4, <2>5
<1> QED BY <1>3, <1>4

\* The managed connection is looked up.
LEMMA ConnectionStep ==
  ASSUME ApiAccessAssumption, ApiInv, getManagedConnectionForApiKey
  PROVE  ApiInv'
<1>1. call.step = "connection" /\ UNCHANGED <<live, connection>>
  BY DEF getManagedConnectionForApiKey
<1>2. Arrived /\ Looked /\ call \in ApiCall
  BY <1>1, StepsApart DEF ApiInv, Arrived
<1>3. CASE Refuse("connection")
  BY <1>1, <1>3, RefuseStep
<1>4. CASE ~Refuse("connection")
  <2>1. \/ call.by.type = "app" /\ connection = "active"
        \/ call.by.type = "managed" /\ ~call.revoked /\ connection # "redacted"
        \/ call.route.auth.via = "deletion" /\ call.revoked /\ connection = "redacted"
    BY <1>4 DEF getManagedConnectionForApiKey
  <2>2. call' = [call EXCEPT !.step = "type", !.status = connection]
    BY <1>4, <2>1 DEF getManagedConnectionForApiKey
  <2>3. Moves /\ call'.step = "type" /\ call'.status = connection
    BY <1>2, <2>2, StatusMoves, StepsApart DEF ApiInv
  <2>4. Arrived'
    BY <1>1, <1>2, <2>3, MovesOn
  <2>5. Looked'
    BY <1>2, <2>3 DEF Looked, Moves
  <2>6. call.route.auth.via = "deletion" /\ ~call.wasLive => connection = "redacted"
    BY <1>1, <1>2, <2>1 DEF Looked
  <2>7. call.by.type = "app" => connection = "active"
    BY <1>2, <2>1 DEF Looked
  <2>8. connection \in call.seen
    BY <1>1, <1>2 DEF Arrived, Looked
  <2>9. Connects'
    <3>1. call.route.auth.via \in {"request", "key if any"} => call.wasLive
      BY <1>1, <1>2 DEF Looked, Managed
    <3>2. connection' \in call'.seen /\ call'.status = connection'
      BY <1>1, <2>3, <2>8 DEF Moves
    <3> QED BY <1>1, <2>3, <2>6, <2>7, <3>1, <3>2 DEF Connects, Moves
  <2>10. (OnlyOwnRows /\ InactiveIsSilent /\ RevokedIsRefused /\ ClientsAdmitted)'
    BY <2>3 DEF OnlyOwnRows, InactiveIsSilent, RevokedIsRefused, ClientsAdmitted,
       ByCredential
  <2> QED BY <1>1, <2>3, <2>4, <2>5, <2>9, <2>10, StepsApart DEF ApiInv, Lasting, Vetted
<1> QED BY <1>3, <1>4

\* A request is refused for the kind of its credential: nobody's program sends it.
LEMMA RefuseTypeStep ==
  ASSUME ApiInv, UNCHANGED <<live, connection>>, ~Served(call.by.type, call.route), Refuse("type")
  PROVE  ApiInv'
<1>1. /\ call'.step = "refused"
      /\ call'.asked = [type |-> call.by.type, route |-> call.route]
  BY DEF Refuse
<1>2. call'.asked \notin ClientCalls
  <2> DEFINE x == [type |-> call.by.type, route |-> call.route]
  <2>1. x.type = call.by.type /\ x.route = call.route
    OBVIOUS
  <2> HIDE DEF x
  <2>2. x \notin ClientCalls
    BY <2>1, ClientsServed DEF AllServed
  <2> QED BY <1>1, <2>2 DEF x
<1>3. (OnlyOwnRows /\ InactiveIsSilent /\ RevokedIsRefused /\ ClientsAdmitted)'
  BY <1>1, <1>2 DEF OnlyOwnRows, InactiveIsSilent, RevokedIsRefused, ClientsAdmitted,
       ByCredential
<1> QED BY <1>1, <1>3, StepsApart DEF ApiInv, Lasting, Vetted

\* The credential is admitted or not.
LEMMA AdmitStep ==
  ASSUME ApiAccessAssumption, ApiInv, admit
  PROVE  ApiInv'
<1> DEFINE auth == call.route.auth
           c == call.by
<1>1. call.step = "type" /\ UNCHANGED <<live, connection>>
  BY DEF admit
<1>2. Arrived /\ Looked /\ Connects /\ call \in ApiCall
  BY <1>1, StepsApart DEF ApiInv, Arrived
<1>3. CASE c.type \notin auth.types
  <2>1. Refuse("type")
    BY <1>3 DEF admit
  <2>2. ~Served(c.type, call.route)
    BY <1>3 DEF Served
  <2> QED BY <1>1, <2>1, <2>2, RefuseTypeStep
<1>4. CASE c.type \in auth.types /\ Refuse("context")
  BY <1>1, <1>4, RefuseStep
<1>5. CASE c.type \in auth.types /\ ~Refuse("context")
  <2>1. /\ GoTo("service")
        /\ auth.active /\ c.type = "managed" => call.status = "active"
        /\ IsAdmitted(auth, c)
    BY <1>5 DEF admit
  <2>2. auth.narrow = "admin" => c.admin
    BY <2>1 DEF IsAdmitted
  <2>3. Moves /\ call'.step = "service" /\ call'.status = call.status
    BY <1>2, <2>1, GoToMoves, StepsApart
  <2>4. Arrived'
    BY <1>1, <1>2, <2>3, MovesOn
  <2>5. Looked'
    BY <1>2, <2>3 DEF Looked, Moves
  <2>6. Connects'
    BY <1>1, <1>2, <2>3 DEF Connects, Moves, Managed
  <2>7. Enters'
    BY <1>5, <2>1, <2>2, <2>3 DEF Enters, Moves
  <2>8. (OnlyOwnRows /\ InactiveIsSilent /\ RevokedIsRefused /\ ClientsAdmitted)'
    BY <2>3 DEF OnlyOwnRows, InactiveIsSilent, RevokedIsRefused, ClientsAdmitted,
       ByCredential
  <2> QED BY <1>1, <2>3, <2>4, <2>5, <2>6, <2>7, <2>8, StepsApart DEF ApiInv, Lasting, Vetted
<1> QED BY <1>3, <1>4, <1>5

\* A service function checks the first id.
LEMMA ServiceStep ==
  ASSUME ApiAccessAssumption, ApiInv, service
  PROVE  ApiInv'
<1>1. call.step = "service" /\ UNCHANGED <<live, connection>>
  BY DEF service
<1>2. Arrived /\ Looked /\ Connects /\ Enters /\ call \in ApiCall
  BY <1>1, StepsApart DEF ApiInv, Arrived, Vetted
<1>3. PICK s \in call.route.serves :
         /\ call.by.type \in s.types
         /\ IF Passes(s.reach.check, call.by, call.a)
            THEN call' = [call EXCEPT !.step = "query", !.reach = s.reach]
            ELSE Refuse("scope")
  BY DEF service
<1>4. CASE ~Passes(s.reach.check, call.by, call.a)
  BY <1>1, <1>3, <1>4, RefuseStep
<1>5. CASE Passes(s.reach.check, call.by, call.a)
  <2>1. call.route \in Handlers
    BY <1>2, CallFields
  <2>2. s.reach \in AllReaches
    BY <2>1 DEF AllReaches
  <2>3. Moves /\ call'.step = "query" /\ call'.status = call.status /\ call'.reach = s.reach
    BY <1>2, <1>3, <1>5, <2>2, ReachMoves, StepsApart
  <2>4. Scoped(s.reach.check, call.by, call.a)
    BY <1>5, PassesScopes
  <2>5. Arrived'
    BY <1>1, <1>2, <2>3, MovesOn
  <2>6. Looked'
    BY <1>2, <2>3 DEF Looked, Moves
  <2>7. Connects'
    BY <1>1, <1>2, <2>3 DEF Connects, Moves, Managed
  <2>8. Enters'
    BY <1>2, <2>3 DEF Enters, Moves
  <2>9. Serves'
    BY <1>3, <2>3, <2>4 DEF Serves, Moves
  <2>10. (OnlyOwnRows /\ InactiveIsSilent /\ RevokedIsRefused /\ ClientsAdmitted)'
    BY <2>3 DEF OnlyOwnRows, InactiveIsSilent, RevokedIsRefused, ClientsAdmitted,
       ByCredential
  <2> QED BY <1>1, <2>3, <2>5, <2>6, <2>7, <2>8, <2>9, <2>10, StepsApart DEF ApiInv, Lasting, Vetted
<1> QED BY <1>4, <1>5

\* No function of the handler is for this kind of caller.
LEMMA ServeNobodyStep ==
  ASSUME ApiInv, serveNobody
  PROVE  ApiInv'
<1>1. Refuse("type") /\ UNCHANGED <<live, connection>>
  BY DEF serveNobody
<1>2. ~Served(call.by.type, call.route)
  BY DEF serveNobody, Served
<1> QED BY <1>1, <1>2, RefuseTypeStep

-----------------------------------------------------------------------------
(* The rows.                                                               *)

\* What is touched by a function that reaches no further than its check allows.
LEMMA TouchedOwn ==
  ASSUME ApiAccessAssumption, NEW c \in Credentials, NEW auth, NEW reach, NEW a, NEW b,
         Reaches(auth, c.type, reach), Scoped(reach.check, c, a),
         auth.narrow = "admin" => c.admin,
         auth.via = "deletion" => a = ManagedApp,
         reach.check # "nothing" => a \in Apps,
         reach.rows = "second in organization" => b \in Apps, reach.rows # "clicks"
  PROVE  Touched(reach, c, a, b) \subseteq StandsFor(c)
<1> DEFINE T == Touched(reach, c, a, b)
<1>1. T \subseteq Rows
  BY DEF Touched, RowsOfApps, RowsOfUser, RowsOf
<1>2. CASE c.admin \/ c.type = "stripe"
  BY <1>1, <1>2 DEF StandsFor
<1>3. CASE ~c.admin /\ c.type # "stripe"
  <2> DEFINE Own == {x \in Apps : OrgOf[x] \in c.orgs}
             Mine == RowsOfUser(c.user)
             Ours == RowsOfApps(Own)
             Keyed == {r \in RowsOfApps({x \in Apps : c.app = x \/ (c.app = Null /\ OrgOf[x] \in c.orgs)}) :
                          r.mode \in {ModeOf(c), "both"}}
  <2>1. /\ c.type = "session" => StandsFor(c) = Mine \cup Ours
        /\ c.type = "affiliate" => StandsFor(c) = Mine
        /\ c.type = "app" => StandsFor(c) = Keyed
        /\ c.type \in {"managed", "provider"} => StandsFor(c) = RowsOfApps({ManagedApp})
    BY <1>3 DEF StandsFor
  <2>2. reach.rows # "all"
    BY <1>3 DEF Reaches
  <2>3. CASE reach.rows = "user" /\ c.type \in {"session", "affiliate"}
    <3>1. T = Mine
      BY <2>3 DEF Touched
    <3> QED BY <2>1, <2>3, <3>1
  <2>4. CASE /\ reach.check = "requireAppAccess" /\ reach.rows \in {"app", "second"}
             /\ c.type \in {"session", "managed"}
    <3>1. T \subseteq RowsOfApps({a})
      BY <2>4 DEF Touched, BelongsTo, RowsOfApps
    <3>2. CASE c.type = "managed"
      BY <2>1, <2>4, <3>1, <3>2 DEF Scoped
    <3>3. CASE c.type = "session"
      <4>1. a \in Own
        BY <2>4, <3>3 DEF Scoped
      <4>2. RowsOfApps({a}) \subseteq Ours
        BY <4>1 DEF RowsOfApps
      <4> QED BY <2>1, <3>1, <3>3, <4>2
    <3> QED BY <2>4, <3>2, <3>3
  <2>5. CASE /\ reach.check = "requireOrganizationMembership" /\ c.type = "session"
             /\ reach.rows \in {"organization", "second in organization"}
    <3>1. a \in Apps /\ OrgOf[a] \in c.orgs
      BY <2>5 DEF Scoped
    <3>2. CASE reach.rows = "organization"
      <4>1. T = RowsOfApps({x \in Apps : OrgOf[x] = OrgOf[a]})
        BY <3>2 DEF Touched
      <4>2. T \subseteq Ours
        BY <3>1, <4>1 DEF RowsOfApps
      <4> QED BY <2>1, <2>5, <4>2
    <3>3. CASE reach.rows = "second in organization"
      <4>1. T = IF OrgOf[b] = OrgOf[a] THEN RowsOfApps({b}) ELSE {}
        BY <3>3 DEF Touched
      <4>2. OrgOf[b] = OrgOf[a] => b \in Own
        BY <3>1, <3>3
      <4>3. T \subseteq Ours
        BY <4>1, <4>2 DEF RowsOfApps
      <4> QED BY <2>1, <2>5, <4>3
    <3> QED BY <2>5, <3>2, <3>3
  <2>6. CASE reach.check = "resolveProgramListAccess" /\ reach.rows = "readable" /\ c.type = "session"
    <3>1. T = IF OrgOf[a] \in c.orgs THEN RowsOfApps({a})
              ELSE {r \in RowsOfApps({a}) : r.user = c.user}
      BY <2>6 DEF Touched, requireAppAccess
    <3>2. CASE OrgOf[a] \in c.orgs
      <4>1. a \in Own
        BY <2>6, <3>2
      <4>2. RowsOfApps({a}) \subseteq Ours
        BY <4>1 DEF RowsOfApps
      <4> QED BY <2>1, <2>6, <3>1, <3>2, <4>2
    <3>3. CASE OrgOf[a] \notin c.orgs
      <4>1. <<c.user, a>> \in Affiliated
        BY <2>6, <3>3 DEF Scoped
      <4>2. c.user # Null
        BY <4>1 DEF ApiAccessAssumption
      <4>3. T \subseteq Mine
        BY <3>1, <3>3, <4>2 DEF RowsOfApps, RowsOfUser
      <4> QED BY <2>1, <2>6, <4>3
    <3> QED BY <3>2, <3>3
  <2>7. CASE /\ reach.check = "requireProgramAffiliate" /\ c.type \in {"session", "affiliate"}
             /\ reach.rows \in {"membership", "second membership"}
    <3>1. T \subseteq {r \in RowsOfApps({a}) : r.user = c.user}
      BY <2>7 DEF Touched, BelongsTo, RowsOfApps
    <3>2. <<c.user, a>> \in Affiliated
      BY <2>7 DEF Scoped
    <3>3. c.user # Null
      BY <3>2 DEF ApiAccessAssumption
    <3>4. T \subseteq Mine
      BY <3>1, <3>3 DEF RowsOfApps, RowsOfUser
    <3> QED BY <2>1, <2>7, <3>4
  <2>8. CASE /\ reach.check \in {"resolveAppScope", "requireExecutionForApp", "findApiPaymentForAuth"}
             /\ reach.rows \in {"mode", "mode second"} /\ c.type = "app"
    <3>1. T \subseteq {r \in RowsOfApps({a}) : r.mode \in {ModeOf(c), "both"}}
      BY <2>8 DEF Touched, BelongsTo, SameMode, RowsOfApps
    <3>2. a \in Apps
      BY <2>8
    <3>3. c.app = a \/ (c.app = Null /\ OrgOf[a] \in c.orgs)
      BY <2>8 DEF Scoped, resolveAppScope
    <3>4. RowsOfApps({a}) \subseteq
             RowsOfApps({x \in Apps : c.app = x \/ (c.app = Null /\ OrgOf[x] \in c.orgs)})
      BY <3>2, <3>3 DEF RowsOfApps
    <3>5. T \subseteq Keyed
      BY <3>1, <3>4
    <3> QED BY <2>1, <2>8, <3>5
  <2>9. CASE /\ reach.rows = "app" /\ c.type = "managed"
             /\ \/ reach.check = "requireManagedConnectionAccess"
                \/ auth.via = "deletion"
    <3>1. T = RowsOfApps({a})
      BY <2>9 DEF Touched
    <3>2. a = ManagedApp
      BY <2>9 DEF Scoped
    <3> QED BY <2>1, <2>9, <3>1, <3>2
  <2>10. CASE reach.rows = "managed" /\ c.type = "provider"
    <3>1. T = RowsOfApps({ManagedApp})
      BY <2>10 DEF Touched
    <3> QED BY <2>1, <2>10, <3>1
  <2>11. \/ reach.rows = "user" /\ c.type \in {"session", "affiliate"}
         \/ /\ reach.check = "requireAppAccess" /\ reach.rows \in {"app", "second"}
            /\ c.type \in {"session", "managed"}
         \/ /\ reach.check = "requireOrganizationMembership" /\ c.type = "session"
            /\ reach.rows \in {"organization", "second in organization"}
         \/ /\ reach.check = "resolveProgramListAccess" /\ reach.rows = "readable"
            /\ c.type = "session"
         \/ /\ reach.check = "requireProgramAffiliate" /\ c.type \in {"session", "affiliate"}
            /\ reach.rows \in {"membership", "second membership"}
         \/ /\ reach.check \in {"resolveAppScope", "requireExecutionForApp", "findApiPaymentForAuth"}
            /\ reach.rows \in {"mode", "mode second"} /\ c.type = "app"
         \/ /\ reach.rows = "app" /\ c.type = "managed"
            /\ \/ reach.check = "requireManagedConnectionAccess"
               \/ auth.via = "deletion"
         \/ reach.rows = "managed" /\ c.type = "provider"
    BY <2>2 DEF Reaches
  <2> QED BY <2>3, <2>4, <2>5, <2>6, <2>7, <2>8, <2>9, <2>10, <2>11, Zenon
<1> QED BY <1>2, <1>3

\* What capture touches, whoever sends it.
LEMMA CapturedOwn ==
  ASSUME NEW c, NEW auth, NEW reach, NEW a, NEW b,
         Reaches(auth, c.type, reach), Scoped(reach.check, c, a), reach.rows = "clicks"
  PROVE  Touched(reach, c, a, b) \subseteq Capturable(POST_capture, c)
<1>1. reach.check = "resolveCaptureAppId"
  BY DEF Reaches
<1>2. c.type = "none" \/ a = c.app
  BY <1>1 DEF Scoped, resolveCaptureAppId
<1>3. Touched(reach, c, a, b) \subseteq RowsOfApps({a}) \cap RowsOf("clicks")
  BY DEF Touched
<1> QED BY <1>2, <1>3 DEF Capturable, RowsOfApps

\* What is known of a request when it touches rows.
LEMMA SoundCaller ==
  ASSUME ApiInv, call.step = "query"
  PROVE  /\ Arrived /\ Looked /\ Connects /\ Enters /\ Serves /\ call \in ApiCall
         /\ call.route.auth.via = "deletion" => call.route = DELETE_managed_connections_id
         /\ call.reach.rows \in Offered => Offers(call.route, call.reach.rows)
         /\ call.reach.rows \notin {"nothing", "pages", "accounts"} =>
               Reaches(call.route.auth, call.by.type, call.reach) /\ Entered(call.route, call.by.type)
<1>1. Arrived /\ Looked /\ Connects /\ Enters /\ Serves /\ call \in ApiCall
  BY StepsApart DEF ApiInv, Arrived, Vetted
<1>2. Sound(call.route)
  BY <1>1, CallFields, HandlersSound
<1>3. PICK s \in call.route.serves : call.by.type \in s.types /\ call.reach = s.reach
  BY <1>1 DEF Serves
<1>4. call.by.type \in s.types \cap call.route.auth.types
  BY <1>1, <1>3 DEF Enters
<1>5. call.route.auth.via = "deletion" => call.route = DELETE_managed_connections_id
  BY <1>2 DEF Sound
<1>6. s.reach.rows \notin {"nothing", "pages", "accounts"} =>
         Reaches(call.route.auth, call.by.type, s.reach) /\ Entered(call.route, call.by.type)
  BY <1>2, <1>4 DEF Sound
<1>7. s.reach.rows \in Offered => Offers(call.route, s.reach.rows)
  BY <1>2 DEF Sound
<1> QED BY <1>1, <1>3, <1>5, <1>6, <1>7

\* The rows are read and written.
LEMMA QueryStep ==
  ASSUME ApiAccessAssumption, ApiInv, query
  PROVE  ApiInv'
<1> DEFINE c == call.by
           r == call.route
           rows == Touched(call.reach, c, call.a, call.b)
<1>1. call.step = "query" /\ UNCHANGED <<live, connection>>
  BY DEF query
<1>2. /\ call'.step = "done" /\ call'.by = c /\ call'.route = r /\ call'.wasLive = call.wasLive
      /\ call'.seen = call.seen /\ call'.touched = rows
  BY DEF query
<1>3. /\ Arrived /\ Looked /\ Connects /\ Enters /\ Serves /\ call \in ApiCall
      /\ r.auth.via = "deletion" => r = DELETE_managed_connections_id
      /\ call.reach.rows \in Offered => Offers(r, call.reach.rows)
      /\ call.reach.rows \notin {"nothing", "pages", "accounts"} =>
            Reaches(r.auth, c.type, call.reach) /\ Entered(r, c.type)
  BY <1>1, SoundCaller
<1>4. c \in Credentials
  BY <1>3, CallFields
<1>5. call.reach.rows \in {"nothing", "pages", "accounts"} => rows \subseteq ForAnybody(r)
  <2>1. call.reach.rows = "nothing" => rows = {}
    BY DEF Touched
  <2>2. call.reach.rows \in {"pages", "accounts"} => rows = RowsOf(call.reach.rows)
    BY DEF Touched
  <2>3. call.reach.rows \in {"pages", "accounts"} => RowsOf(call.reach.rows) \subseteq ForAnybody(r)
    BY <1>3 DEF Offered, Offers
  <2> QED BY <2>1, <2>2, <2>3
<1>6. rows \subseteq StandsFor(c) \cup ForAnybody(r) \cup Capturable(r, c)
  <2>1. CASE call.reach.rows \in {"nothing", "pages", "accounts"}
    BY <1>5, <2>1
  <2>2. CASE call.reach.rows \notin {"nothing", "pages", "accounts"}
    <3>1. PICK s \in r.serves : call.reach = s.reach
      BY <1>3 DEF Serves
    <3>2. /\ call.reach.check # "nothing" => call.a \in Apps
          /\ call.reach.rows = "second in organization" => call.b \in Apps
      BY <1>3, <3>1 DEF Arrived
    <3>3. Scoped(call.reach.check, c, call.a)
      BY <1>3 DEF Serves
    <3>4. /\ r.auth.narrow = "admin" => c.admin
          /\ r.auth.via = "deletion" => call.a = ManagedApp
      BY <1>3 DEF Enters, Looked
    <3>5. Reaches(r.auth, c.type, call.reach)
      BY <1>3, <2>2
    <3>6. CASE call.reach.rows = "clicks"
      <4>1. r = POST_capture
        BY <1>3, <3>6 DEF Offered, Offers
      <4> HIDE DEF c, r
      <4> QED BY <3>3, <3>5, <3>6, <4>1, CapturedOwn
    <3>7. CASE call.reach.rows # "clicks"
      <4> HIDE DEF c, r
      <4> QED BY <1>4, <3>2, <3>3, <3>4, <3>5, <3>7, TouchedOwn
    <3> QED BY <3>6, <3>7
  <2> QED BY <2>1, <2>2
<1>7. OnlyOwnRows'
  BY <1>2, <1>6 DEF OnlyOwnRows
<1>8. ASSUME Managed(c), "active" \notin call.seen, ~(rows \subseteq ForAnybody(r))
      PROVE  c.type = "managed" /\ r \in AdministersConnection
  <2>1. Entered(r, c.type)
    BY <1>3, <1>5, <1>8
  <2>2. c.type \in {"managed", "app"}
    BY <1>8 DEF Managed
  <2>3. r.auth.via \in {"request", "deletion", "key if any"} => call.status # "active"
    BY <1>3, <1>8 DEF Connects
  <2>4. c.type # "app"
    BY <1>3, <1>8, <2>1, <2>3 DEF Entered, Connects
  <2>5. r.auth.via = "deletion" => r \in AdministersConnection
    BY <1>3 DEF AdministersConnection
  <2>6. r.auth.active => r.auth.via # "request"
    BY <1>3, <2>2, <2>3, <2>4 DEF Enters
  <2> QED BY <2>1, <2>2, <2>4, <2>5, <2>6 DEF Entered
<1>9. InactiveIsSilent'
  BY <1>2, <1>8 DEF InactiveIsSilent, ByCredential, Managed
<1>10. ASSUME ~call.wasLive, ~(rows \subseteq ForAnybody(r))
       PROVE  r = DELETE_managed_connections_id /\ connection = "redacted"
  <2>1. Entered(r, c.type)
    BY <1>3, <1>5, <1>10
  <2>2. /\ r.auth.via \notin {"request", "session"}
        /\ r.auth.via = "key if any" => c.type = "none"
    BY <1>3, <1>10 DEF Looked
  <2>3. c.type \notin {"none", "provider", "stripe"}
    BY <1>3, <1>4, <1>10 DEF ApiInv, Lasting, Arrived
  <2>4. c.type \in {"session", "app", "affiliate", "managed", "provider", "stripe", "none"}
    BY <1>4 DEF ApiAccessAssumption, CredentialRecord
  <2>5. c.type = "managed" /\ r.auth.via = "deletion"
    BY <2>1, <2>2, <2>3, <2>4 DEF Entered
  <2>6. Managed(c)
    BY <1>4, <2>5 DEF Managed, ApiAccessAssumption
  <2>7. connection = "redacted"
    BY <1>3, <1>10, <2>5, <2>6 DEF Connects
  <2> QED BY <1>3, <2>5, <2>7
<1>11. RevokedIsRefused'
  BY <1>1, <1>2, <1>10 DEF RevokedIsRefused, ByCredential
<1>12. ClientsAdmitted'
  BY <1>2 DEF ClientsAdmitted
<1> QED BY <1>1, <1>2, <1>7, <1>9, <1>11, <1>12, StepsApart DEF ApiInv, Lasting, Vetted

-----------------------------------------------------------------------------
(* Meanwhile, and the theorems.                                            *)

\* The request is over.
LEMMA FinishStep ==
  ASSUME ApiInv, finish
  PROVE  ApiInv'
<1>1. call'.step = "idle" /\ UNCHANGED <<live, connection>>
  BY DEF finish, NoRequest
<1>2. (OnlyOwnRows /\ InactiveIsSilent /\ RevokedIsRefused /\ ClientsAdmitted)'
  BY <1>1 DEF OnlyOwnRows, InactiveIsSilent, RevokedIsRefused, ClientsAdmitted,
       ByCredential
<1> QED BY <1>1, <1>2, StepsApart DEF ApiInv, Lasting, Vetted

\* A credential is revoked.
LEMMA RevokeStep ==
  ASSUME ApiInv, NEW c \in Credentials, Revoke(c)
  PROVE  ApiInv'
<1>1. UNCHANGED <<connection, call>> /\ live' = live \ {c}
      /\ c.type \notin {"none", "provider", "stripe"}
  BY DEF Revoke
<1>2. Lasting'
  BY <1>1 DEF ApiInv, Lasting
<1>3. Arrived => Arrived'
  BY <1>1 DEF Arrived, Managed
<1>4. (Looked <=> Looked') /\ (Connects <=> Connects') /\ (Enters <=> Enters')
  BY <1>1 DEF Looked, Connects, Enters, Managed
<1>5. Serves <=> Serves'
  BY <1>1 DEF Serves, Scoped, resolveAppScope
<1>6. (OnlyOwnRows /\ InactiveIsSilent /\ RevokedIsRefused /\ ClientsAdmitted)'
  BY <1>1 DEF ApiInv, OnlyOwnRows, InactiveIsSilent, RevokedIsRefused, ClientsAdmitted,
       ByCredential, Managed
<1> QED BY <1>1, <1>2, <1>3, <1>4, <1>5, <1>6 DEF ApiInv

\* A request that waits while the connection changes has seen one more status.
LEMMA WatchedMoves ==
  ASSUME call \in ApiCall, NEW status \in Statuses, call' = [call EXCEPT !.seen = @ \cup {status}]
  PROVE  /\ call' \in ApiCall /\ call'.step = call.step /\ call'.by = call.by
         /\ call'.route = call.route /\ call'.a = call.a /\ call'.b = call.b
         /\ call'.wasLive = call.wasLive /\ call'.revoked = call.revoked
         /\ call'.status = call.status /\ call'.reach = call.reach
         /\ call'.seen = call.seen \cup {status}
  BY DEF ApiCall

\* The connection changes.
LEMMA TransitionStep ==
  ASSUME ApiInv, NEW status \in Statuses, Transition(status)
  PROVE  ApiInv'
<1>1. /\ connection # "redacted" /\ connection' = status /\ live' \subseteq live
      /\ call' = Watched(status)
  BY DEF Transition
<1>2. Lasting'
  BY DEF ApiInv, Lasting, Transition, Managed
<1>3. CASE call.step \in Entering
  <2>1. Arrived /\ call \in ApiCall
    BY <1>3 DEF ApiInv, Arrived
  <2>2. /\ call' \in ApiCall /\ call'.step = call.step /\ call'.by = call.by
        /\ call'.route = call.route /\ call'.a = call.a /\ call'.b = call.b
        /\ call'.wasLive = call.wasLive /\ call'.revoked = call.revoked
        /\ call'.status = call.status /\ call'.reach = call.reach
        /\ call'.seen = IF Managed(call.by) THEN call.seen \cup {status} ELSE call.seen
    <3>1. CASE Managed(call.by)
      <4>1. call' = [call EXCEPT !.seen = @ \cup {status}]
        BY <1>1, <1>3, <3>1, StepsApart DEF Watched
      <4> QED BY <2>1, <3>1, <4>1, WatchedMoves
    <3>2. CASE ~Managed(call.by)
      <4>1. call' = call
        BY <1>1, <3>2 DEF Watched
      <4> QED BY <2>1, <3>2, <4>1
    <3> QED BY <3>1, <3>2
  <2>3. Arrived'
    BY <1>1, <2>1, <2>2 DEF Arrived, Managed
  <2>4. Looked => Looked'
    BY <2>2 DEF Looked, Managed
  <2>5. Connects => Connects'
    BY <1>1, <2>2 DEF Connects, Managed
  <2>6. Enters => Enters'
    BY <2>2 DEF Enters
  <2>7. Serves => Serves'
    BY <2>2 DEF Serves, Scoped, resolveAppScope
  <2>8. (OnlyOwnRows /\ InactiveIsSilent /\ RevokedIsRefused /\ ClientsAdmitted)'
    <3>1. call'.step \notin {"refused", "done"}
      BY <1>3, <2>2, StepsApart
    <3> QED BY <3>1 DEF OnlyOwnRows, InactiveIsSilent, RevokedIsRefused, ClientsAdmitted,
       ByCredential
  <2> QED BY <1>1, <1>2, <2>2, <2>3, <2>4, <2>5, <2>6, <2>7, <2>8 DEF ApiInv
<1>4. CASE call.step \notin Entering
  <2>1. call' = call
    BY <1>1, <1>4 DEF Watched, ApiInv
  <2>2. (OnlyOwnRows /\ InactiveIsSilent /\ ClientsAdmitted)'
    BY <2>1 DEF ApiInv, OnlyOwnRows, InactiveIsSilent, ClientsAdmitted, ByCredential, Managed
  <2>3. RevokedIsRefused'
    BY <1>1, <2>1 DEF ApiInv, RevokedIsRefused, ByCredential
  <2> QED BY <1>1, <1>2, <1>4, <2>1, <2>2, <2>3, StepsApart DEF ApiInv, Vetted
<1> QED BY <1>3, <1>4

\* Every step keeps what is known of the request.
LEMMA ApiNextKeeps ==
  ASSUME ApiAccessAssumption, ApiInv, [ApiNext]_apiVars
  PROVE  ApiInv'
<1>1. CASE \E c \in Credentials, r \in Handlers :
             \E a \in Ids(r, TakesFirst), b \in Ids(r, TakesSecond) : Arrive(c, r, a, b)
  BY <1>1, ArriveStep
<1>2. CASE findCredential
  BY <1>2, FindCredentialStep
<1>3. CASE getManagedConnectionForApiKey
  BY <1>3, ConnectionStep
<1>4. CASE admit
  BY <1>4, AdmitStep
<1>5. CASE service
  BY <1>5, ServiceStep
<1>6. CASE serveNobody
  BY <1>6, ServeNobodyStep
<1>7. CASE query
  BY <1>7, QueryStep
<1>8. CASE finish
  BY <1>8, FinishStep
<1>9. CASE \E c \in Credentials : Revoke(c)
  BY <1>9, RevokeStep
<1>10. CASE \E s \in Statuses : Transition(s)
  BY <1>10, TransitionStep
<1>11. CASE UNCHANGED apiVars
  <2>1. UNCHANGED <<live, connection, call>>
    BY <1>11 DEF apiVars
  <2>2. (Arrived <=> Arrived') /\ (Looked <=> Looked') /\ (Connects <=> Connects')
        /\ (Enters <=> Enters')
    BY <2>1 DEF Arrived, Looked, Connects, Enters, Managed
  <2>3. Serves <=> Serves'
    BY <2>1 DEF Serves, Scoped, resolveAppScope
  <2>4. (OnlyOwnRows /\ InactiveIsSilent /\ RevokedIsRefused /\ ClientsAdmitted)'
    BY <2>1 DEF ApiInv, OnlyOwnRows, InactiveIsSilent, RevokedIsRefused, ClientsAdmitted,
       ByCredential, Managed
  <2> QED BY <2>1, <2>2, <2>3, <2>4 DEF ApiInv, Lasting
<1> QED BY <1>1, <1>2, <1>3, <1>4, <1>5, <1>6, <1>7, <1>8, <1>9, <1>10, <1>11 DEF ApiNext

\* What is known of the request holds always.
LEMMA ApiInvariance == ApiSpec => []ApiInv
<1>1. ApiInit => ApiInv
  <2> SUFFICES ASSUME ApiInit PROVE ApiInv
    OBVIOUS
  <2>1. call.step = "idle" /\ connection \in Statuses /\ Lasting
    BY DEF ApiInit, NoRequest, Statuses, Lasting
  <2> QED BY <2>1, OnItsWay, StepsApart DEF ApiInv, Vetted
<1>2. ApiInv /\ [ApiNext]_apiVars => ApiInv'
  BY ApiAccessAssumption, ApiNextKeeps
<1> QED BY <1>1, <1>2, PTL DEF ApiSpec

\* Whatever ids it names and whatever changes meanwhile, a request touches only rows
\* that its credential stands for, what is for anybody, and by way of capture clicks
\* of either mode (auth-context.ts, scoping.ts and the services).
THEOREM OwnRowsHold == ApiSpec => []OnlyOwnRows
<1>1. ApiInv => OnlyOwnRows
  BY DEF ApiInv
<1> QED BY <1>1, ApiInvariance, PTL

\* A managed connection that was inactive throughout a request let it do nothing but
\* administer the connection (assertManagedConnectionIsActive).
THEOREM InactiveHolds == ApiSpec => []InactiveIsSilent
<1>1. ApiInv => InactiveIsSilent
  BY DEF ApiInv
<1> QED BY <1>1, ApiInvariance, PTL

\* A credential revoked before its request touches nothing, but for the repeated
\* deletion of a redacted connection (findApiKeyByRawKey).
THEOREM RevokedHolds == ApiSpec => []RevokedIsRefused
<1>1. ApiInv => RevokedIsRefused
  BY DEF ApiInv
<1> QED BY <1>1, ApiInvariance, PTL

\* No command and no tool is refused for the kind of credential it sends.
THEOREM ClientsHold == ApiSpec => []ClientsAdmitted
<1>1. ApiInv => ClientsAdmitted
  BY DEF ApiInv
<1> QED BY <1>1, ApiInvariance, PTL

=============================================================================

---------------------------- MODULE Attribution ----------------------------
(***************************************************************************)
(* How a click becomes a referral with pinned terms in the app of a managed *)
(* connection, while terms are published, customers are redacted on request *)
(* and the whole connection is redacted.                                    *)
(*                                                                         *)
(* PostgreSQL runs the transactions at READ COMMITTED.  Which row locks a   *)
(* call holds follows from its step: "inserted" holds the shared locks of   *)
(* the foreign keys (KEY SHARE) on the program, the click and the customer, *)
(* "pinned", "publishing" and "wiping" hold the program exclusively,        *)
(* "erasing" the customer.  The customer row a redaction puts in place of a *)
(* redacted one is not kept apart: "anonymous" says the referral moved; nor  *)
(* are the receipts, which only answer a repeated redaction.                *)
(***************************************************************************)
EXTENDS Naturals, FiniteSets

CONSTANTS
    Callers,     \* requests in flight at the same time
    People,      \* external customer ids
    Affiliates,  \* members of the program
    Clicks,      \* ids of click rows
    Customers,   \* ids of customer rows
    MaxVersion,  \* bound: versions of the program's terms
    MaxChanges,  \* bound: changes of an affiliate, the program or the connection
    None

ASSUME AttributionAssumption ==
    /\ None \notin Callers \cup People \cup Affiliates \cup Clicks \cup Customers
    /\ MaxVersion \in Nat \ {0} /\ MaxChanges \in Nat

VARIABLES
    connection,  \* managed_connections.status
    program,     \* programs.status
    active,      \* program_affiliates with status active
    version,     \* the newest program_terms_versions
    click,       \* clicks: [status, aff]
    customer,    \* customers: [status, person]
    referral,    \* the referral of a customer row
    call,        \* the requests in flight
    changes
vars == <<connection, program, active, version, click, customer, referral,
          call, changes>>
admin == <<connection, program, active, changes>>
data == <<click, customer, referral>>

Idle == [step |-> "idle"]
NoClick == [status |-> "none", aff |-> None]
NoCustomer == [status |-> "none", person |-> None]
\* "via" remembers the click for SubjectErased when the row forgets it.
NoReferral == [aff |-> None, click |-> None, via |-> None, version |-> 0, anonymous |-> FALSE]

Init ==
    /\ connection = "active"
    /\ program = "active"
    /\ active = Affiliates
    /\ version = 1
    /\ click = [k \in Clicks |-> NoClick]
    /\ customer = [r \in Customers |-> NoCustomer]
    /\ referral = [r \in Customers |-> NoReferral]
    /\ call = [p \in Callers |-> Idle]
    /\ changes = 0

At(p, step) == call[p].step = step
Finish(p) == call' = [call EXCEPT ![p] = Idle]
Begin(p, request) == call[p] = Idle /\ call' = [call EXCEPT ![p] = request]
RowsOf(x) == {r \in Customers : customer[r] = [status |-> "kept", person |-> x]}

\* Locks of the program row that the other calls hold.
Others(p, steps) == \E q \in Callers \ {p} : call[q].step \in steps
ProgramShareable(p) == ~Others(p, {"pinned", "publishing", "wiping"})
ProgramUnlocked(p) == TRUE                                          \* mutant
ProgramFree(p) == ~Others(p, {"inserted", "pinned", "publishing", "wiping"})
HoldersOf(r) == {q \in Callers : /\ call[q].step \in {"inserted", "pinned", "erasing"}
                                 /\ call[q].row = r}

-----------------------------------------------------------------------------
(* Capture.                                                                *)

\* captureAffiliateClick resolves the link, the program and the affiliate ...
captureCheck(p, a) ==
    /\ connection \in {"active", "suspended"}
    /\ program = "active" /\ a \in active
    /\ Begin(p, [step |-> "capture", aff |-> a])
    /\ UNCHANGED <<admin, version, data>>

\* ... and inserts the click, which refers to its link: the redaction of the
\* connection deletes the links.
LinkUnchecked == TRUE                                               \* mutant
LinkExists == connection # "redacted"
captureInsert(p) ==
    /\ At(p, "capture")
    /\ ProgramShareable(p)
    /\ IF LinkExists
       THEN \E k \in Clicks : /\ click[k].status = "none"
                              /\ click' = [click EXCEPT ![k] = [status |-> "kept", aff |-> call[p].aff]]
       ELSE UNCHANGED click
    /\ Finish(p)
    /\ UNCHANGED <<admin, version, customer, referral>>

-----------------------------------------------------------------------------
(* Identify.                                                               *)

\* resolveAttribution, with a click or with the promotion code of an affiliate.
identifyByClick(p, x, k) ==
    /\ connection = "active"
    /\ click[k].status \in {"kept", "scrubbed"}
    /\ Begin(p, [step |-> "customer", person |-> x, aff |-> click[k].aff, click |-> k])
    /\ UNCHANGED <<admin, version, data>>
identifyByCode(p, x, a) ==
    /\ connection = "active"
    /\ a \in active
    /\ Begin(p, [step |-> "customer", person |-> x, aff |-> a, click |-> None])
    /\ UNCHANGED <<admin, version, data>>

\* The customer of an external id is read, inserted if there is none, and read
\* again: a redaction in between leaves nothing to read.
WithRow(p, step, r) ==
    [step |-> step, row |-> r, aff |-> call[p].aff, click |-> call[p].click]
customerSelect(p, step, otherwise) ==
    /\ At(p, step)
    /\ call' = [call EXCEPT ![p] =
                  IF RowsOf(call[p].person) = {} THEN otherwise
                  ELSE WithRow(p, "referral", CHOOSE r \in RowsOf(call[p].person) : TRUE)]
    /\ UNCHANGED <<admin, version, data>>
customerInsert(p) ==
    /\ At(p, "insert")
    /\ IF RowsOf(call[p].person) = {}
       THEN \E r \in Customers :
              /\ customer[r].status = "none"
              /\ customer' = [customer EXCEPT ![r] = [status |-> "kept", person |-> call[p].person]]
       ELSE UNCHANGED customer
    /\ call' = [call EXCEPT ![p].step = "reselect"]
    /\ UNCHANGED <<admin, version, click, referral>>

HasReferral(r) == referral[r].aff # None /\ ~referral[r].anonymous
Answer(r, a) == [step |-> "answer", row |-> r, aff |-> a]

referralSelect(p) ==
    /\ At(p, "referral")
    /\ LET r == call[p].row
       IN  call' = [call EXCEPT ![p] = IF HasReferral(r) THEN Answer(r, referral[r].aff)
                                       ELSE WithRow(p, "open", r)]
    /\ UNCHANGED <<admin, version, data>>

\* The transaction inserts the referral unless there is one, after waiting for
\* whoever inserts or erases it; the foreign keys need the customer and the click.
OverwritesFirst(r) == FALSE                                         \* mutant
KeepsFirst(r) == HasReferral(r)
KeyExists(p) == /\ customer[call[p].row].status = "kept"
                /\ call[p].click # None => click[call[p].click].status \in {"kept", "scrubbed"}
referralInsert(p) ==
    /\ At(p, "open")
    /\ ProgramShareable(p)
    /\ HoldersOf(call[p].row) = {}
    /\ LET r == call[p].row
       IN  call' = [call EXCEPT ![p] = CASE ~KeyExists(p)                  -> Idle
                                         [] KeyExists(p) /\ KeepsFirst(r)  -> Answer(r, referral[r].aff)
                                         [] OTHER                          -> WithRow(p, "inserted", r)]
    /\ UNCHANGED <<admin, version, data>>

CurrentTerms == version
\* pinTermsOnReferral turns the shared lock of the program into an exclusive one.
pinTerms(p) ==
    /\ At(p, "inserted")
    /\ ProgramFree(p)
    /\ call' = [call EXCEPT ![p] = [step |-> "pinned", row |-> @.row, aff |-> @.aff,
                                    click |-> @.click, version |-> CurrentTerms]]
    /\ UNCHANGED <<admin, version, data>>

\* Two identifies of one program wait for each other's shared lock: PostgreSQL
\* aborts one of the two.
deadlockVictim(p) ==
    /\ At(p, "inserted")
    /\ Others(p, {"inserted"})
    /\ Finish(p)
    /\ UNCHANGED <<admin, version, data>>

identifyCommit(p) ==
    /\ At(p, "pinned")
    /\ LET r == call[p].row
       IN  /\ referral' = [referral EXCEPT ![r] = [aff |-> call[p].aff, click |-> call[p].click,
                             via |-> call[p].click, version |-> call[p].version, anonymous |-> FALSE]]
           /\ call' = [call EXCEPT ![p] = Answer(r, call[p].aff)]
    /\ UNCHANGED <<admin, version, click, customer>>

answerIdentify(p) ==
    /\ At(p, "answer")
    /\ Finish(p)
    /\ UNCHANGED <<admin, version, data>>

-----------------------------------------------------------------------------
(* Terms.                                                                  *)

\* publishProgramTermsVersion locks the program and reads the current version.
publishLock(p) ==
    /\ version < MaxVersion
    /\ ProgramFree(p)
    /\ Begin(p, [step |-> "publishing", version |-> version])
    /\ UNCHANGED <<admin, version, data>>
publishCommit(p) ==
    /\ At(p, "publishing")
    /\ version' = call[p].version + 1
    /\ Finish(p)
    /\ UNCHANGED <<admin, data>>

-----------------------------------------------------------------------------
(* Redaction.                                                              *)

\* redactManagedCustomerData locks the customer row and reads its referrals; for
\* a customer that is gone the receipt answers, or nothing does.
SubjectUnlocked(p, r) == TRUE                                       \* mutant
SubjectFree(p, r) == HoldersOf(r) = {} /\ ~Others(p, {"wiping"})
redactCustomerLock(p, x) ==
    /\ connection # "redacted"
    /\ \E r \in RowsOf(x) :
         /\ SubjectFree(p, r)
         /\ Begin(p, [step |-> "erasing", row |-> r,
                      clicks |-> {referral[r].click} \ {None}])
    /\ UNCHANGED <<admin, version, data>>
redactCustomerCommit(p) ==
    /\ At(p, "erasing")
    /\ LET r == call[p].row
       IN  /\ referral' = [referral EXCEPT ![r] = IF @.aff = None THEN @
                             ELSE [@ EXCEPT !.click = None, !.anonymous = TRUE]]
           /\ click' = [k \in Clicks |-> IF k \in call[p].clicks /\ click[k].status = "kept"
                                         THEN [click[k] EXCEPT !.status = "scrubbed"] ELSE click[k]]
           /\ customer' = [customer EXCEPT ![r].status = "gone"]
    /\ Finish(p)
    /\ UNCHANGED <<admin, version>>

\* redactManagedConnection: one transaction that waits for the calls that hold
\* rows of the program, then lists the customers ...
redactConnectionLock(p) ==
    /\ connection # "redacted"
    /\ ProgramFree(p)
    /\ Begin(p, [step |-> "wiping", rows |-> {r \in Customers : customer[r].status = "kept"}])
    /\ UNCHANGED <<admin, version, data>>
\* ... and rewrites or deletes what it listed.
redactConnectionCommit(p) ==
    /\ At(p, "wiping")
    /\ ~Others(p, {"erasing"})
    /\ connection' = "redacted" /\ program' = "disabled" /\ active' = {}
    /\ click' = [k \in Clicks |-> IF click[k].status = "none" THEN click[k]
                                  ELSE [click[k] EXCEPT !.status = "gone"]]
    /\ referral' = [r \in Customers |-> IF referral[r].aff = None THEN referral[r]
                      ELSE [referral[r] EXCEPT !.click = None, !.anonymous = @ \/ r \in call[p].rows]]
    /\ customer' = [r \in Customers |-> IF r \in call[p].rows
                      THEN [customer[r] EXCEPT !.status = "gone"] ELSE customer[r]]
    /\ Finish(p)
    /\ UNCHANGED <<version, changes>>

-----------------------------------------------------------------------------
(* The rest of the app.                                                    *)

\* Affiliates are disabled and enabled, the program is paused, resumed and
\* disabled, the connection is suspended, uninstalled and reconnected.
Change ==
    /\ changes < MaxChanges /\ connection # "redacted"
    /\ changes' = changes + 1
    /\ \/ \E a \in Affiliates : active' = (active \ {a}) \cup ({a} \ active)
          /\ UNCHANGED <<connection, program>>
       \/ program # "disabled" /\ program' \in {"active", "paused", "disabled"} \ {program}
          /\ UNCHANGED <<connection, active>>
       \/ connection' \in {"active", "suspended", "uninstalled"} \ {connection}
          /\ UNCHANGED <<program, active>>
    /\ UNCHANGED <<version, data, call>>

\* A request dies, or its transaction is aborted, before it commits.
Crash(p) ==
    /\ call[p] # Idle
    /\ Finish(p)
    /\ UNCHANGED <<admin, version, data>>

\* The keys of a redacted connection are revoked: every new request is refused.
AllRefused ==
    /\ connection = "redacted"
    /\ \A p \in Callers : call[p] = Idle
    /\ UNCHANGED vars

\* A request that has begun goes on.
Step(p) ==
    \/ captureInsert(p)
    \/ customerSelect(p, "customer", [call[p] EXCEPT !.step = "insert"])
    \/ customerInsert(p)
    \/ customerSelect(p, "reselect", Idle)
    \/ referralSelect(p) \/ referralInsert(p)
    \/ pinTerms(p) \/ deadlockVictim(p) \/ identifyCommit(p) \/ answerIdentify(p)
    \/ publishCommit(p)
    \/ redactCustomerCommit(p) \/ redactConnectionCommit(p)

Next ==
    \/ \E p \in Callers :
         \/ \E a \in Affiliates : captureCheck(p, a)
         \/ \E x \in People, k \in Clicks : identifyByClick(p, x, k)
         \/ \E x \in People, a \in Affiliates : identifyByCode(p, x, a)
         \/ publishLock(p)
         \/ \E x \in People : redactCustomerLock(p, x)
         \/ redactConnectionLock(p)
         \/ Step(p) \/ Crash(p)
    \/ Change
    \/ AllRefused

Spec == Init /\ [][Next]_vars

-----------------------------------------------------------------------------
(* Properties.                                                             *)

\* The types of the variables; every referral has terms.
TypeOK ==
    /\ connection \in {"active", "suspended", "uninstalled", "redacted"}
    /\ program \in {"active", "paused", "disabled"}
    /\ active \subseteq Affiliates
    /\ version \in 1..MaxVersion
    /\ click \in [Clicks -> [status : {"none", "kept", "scrubbed", "gone"}, aff : Affiliates \cup {None}]]
    /\ customer \in [Customers -> [status : {"none", "kept", "gone"}, person : People \cup {None}]]
    /\ referral \in [Customers -> {NoReferral} \cup
                       [aff : Affiliates, click : Clicks \cup {None}, via : Clicks \cup {None},
                        version : 1..MaxVersion, anonymous : BOOLEAN]]
    /\ changes \in 0..MaxChanges

\* The first referral of a customer wins for good, also for the call that lost:
\* every answer about a customer names the affiliate that is stored, however late
\* it is given.
FirstReferralWins == \A p \in Callers :
    call[p].step = "answer" => call[p].aff = referral[call[p].row].aff

\* A referral is created with the terms in force at that moment, although they are
\* published meanwhile, and keeps them.
PinnedAtAttribution == [][
    \A r \in Customers : referral'[r].version # referral[r].version =>
        referral[r].aff = None /\ referral'[r].version = version]_vars

\* The data of a redacted customer is gone, also of a referral that an identify was
\* creating meanwhile: the referral is anonymous and its click scrubbed or deleted.
SubjectErased == \A r \in Customers :
    (customer[r].status = "gone" /\ referral[r].aff # None) =>
        /\ referral[r].anonymous /\ referral[r].click = None
        /\ referral[r].via # None => click[referral[r].via].status \in {"scrubbed", "gone"}

\* After the redaction of the connection nothing tracks visitors: no click is left
\* or added by a capture that had passed its checks, and no referral has one.
TrackingRemoved == connection = "redacted" =>
    /\ \A k \in Clicks : click[k].status \notin {"kept", "scrubbed"}
    /\ \A r \in Customers : referral[r].click = None
=============================================================================

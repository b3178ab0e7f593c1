---------------------------- MODULE AppDirectory ----------------------------
(***************************************************************************)
(* One app: its programs, the default one among them, its place in the      *)
(* RefKit Network, its logo, its agreement and the members of its programs. *)
(*                                                                         *)
(* PostgreSQL runs the transactions at READ COMMITTED.  Which row locks a   *)
(* call holds follows from its step: "defaulting", "showing", "creating" and *)
(* "enrolling" hold the app, "queued" and "enrolling" the program of a join, *)
(* "uploading" and "removing" the advisory lock of the logo.  The partial   *)
(* unique index on default programs is left out: OneDefaultProgram shows    *)
(* that the locks are enough.  The terms and the default rule, which every  *)
(* program has, are in Attribution; links have no state of their own here.  *)
(***************************************************************************)
EXTENDS Naturals

CONSTANTS
    Programs,     \* programs of the app
    Users,        \* users who become affiliates
    Files,        \* logo files
    Callers,      \* requests in flight at the same time
    MaxAgreement, \* bound: versions of the app agreement
    MaxRequests,  \* bound: requests
    None

ASSUME AppDirectoryAssumption ==
    /\ None \notin Programs \cup Users \cup Files
    /\ MaxAgreement \in Nat \ {0} /\ MaxRequests \in Nat

VARIABLES
    visible,    \* apps.network_visible
    program,    \* programs: [status, default, open, approval], the last two of its join page
    agreement,  \* the newest app_agreement_versions, 0 before the app is created
    member,     \* program_affiliates: [status, accepted]
    logo,       \* apps.logo_url
    files,      \* the stored logo files
    local,      \* files are stored locally, not as blobs
    call,       \* the requests in flight
    requests
vars == <<visible, program, agreement, member, logo, files, local, call, requests>>
image == <<logo, files, local>>

Idle == [step |-> "idle"]
Approvals == {"active", "pending"}
NoProgram == [status |-> "none", default |-> FALSE, open |-> FALSE, approval |-> "active"]
NoMember == [status |-> "none", accepted |-> {}]

Init ==
    /\ visible = FALSE
    /\ program = [g \in Programs |-> NoProgram]
    /\ agreement = 0
    /\ member = [g \in Programs |-> [u \in Users |-> NoMember]]
    /\ logo = None /\ files = {} /\ local \in BOOLEAN
    /\ call = [p \in Callers |-> Idle]
    /\ requests = 0

At(p, step) == call[p].step = step
Finish(p) == call' = [call EXCEPT ![p] = Idle] /\ UNCHANGED requests
GoTo(p, next) == call' = [call EXCEPT ![p] = next] /\ UNCHANGED requests
Request == agreement > 0 /\ requests < MaxRequests /\ requests' = requests + 1
Begin(p, request) == Request /\ call[p] = Idle /\ call' = [call EXCEPT ![p] = request]

Exists(g) == program[g].status # "none"
Defaults == {g \in Programs : program[g].default}

Others(p, steps) == {q \in Callers \ {p} : call[q].step \in steps}
AppUnlocked(p) == TRUE                                              \* mutant
AppFree(p) == Others(p, {"defaulting", "showing", "creating", "enrolling"}) = {}
ProgramUnlocked(p, g) == TRUE                                       \* mutant
ProgramFree(p, g) == \A q \in Others(p, {"queued", "enrolling"}) : call[q].program # g
LogoFree(p) == Others(p, {"uploading", "removing"}) = {}

-----------------------------------------------------------------------------
(* Programs, the default one and the network.                              *)

NewProgram(g, default, open, approval) == program' = [program EXCEPT ![g] =
    [status |-> "active", open |-> open, approval |-> approval, default |-> default]]

\* createApp: one transaction with the first agreement, and a program if the
\* owner gives one.
createApp(g, open, approval) ==
    /\ agreement = 0
    /\ agreement' = 1
    /\ NewProgram(g, TRUE, open, approval) \/ UNCHANGED program
    /\ UNCHANGED <<visible, member, image, call, requests>>

\* createProgram locks the app and looks for a default program.
createProgramRead(p, g) ==
    /\ ~Exists(g)
    /\ AppFree(p)
    /\ Begin(p, [step |-> "creating", program |-> g, default |-> Defaults = {}])
    /\ UNCHANGED <<visible, program, agreement, member, image>>
createProgramCommit(p) ==
    /\ At(p, "creating")
    /\ LET g == call[p].program
       IN  /\ ~Exists(g)
           /\ \E open \in BOOLEAN, a \in Approvals : NewProgram(g, call[p].default, open, a)
    /\ Finish(p)
    /\ UNCHANGED <<visible, agreement, member, image>>

\* setDefaultProgram locks the app and reads the program without a lock of it ...
setDefaultRead(p, g) ==
    /\ program[g].status \in (IF visible THEN {"active"} ELSE {"active", "paused"})
    /\ AppFree(p)
    /\ Begin(p, [step |-> "defaulting", program |-> g])
    /\ UNCHANGED <<visible, program, agreement, member, image>>
\* ... and writes all programs of the app.
KeepOldDefault(g, d) == g = d \/ program[g].default                 \* mutant
OnlyDefault(g, d) == g = d
setDefaultCommit(p) ==
    /\ At(p, "defaulting")
    /\ \A g \in Programs : ProgramFree(p, g)
    /\ program' = [g \in Programs |->
           IF Exists(g) THEN [program[g] EXCEPT !.default = OnlyDefault(g, call[p].program)]
           ELSE program[g]]
    /\ Finish(p)
    /\ UNCHANGED <<visible, agreement, member, image>>

\* setAppNetworkVisibility.
setVisibilityRead(p, v) ==
    /\ v => logo # None /\ \E g \in Defaults : program[g].status = "active"
    /\ AppFree(p)
    /\ Begin(p, [step |-> "showing", visible |-> v])
    /\ UNCHANGED <<visible, program, agreement, member, image>>
setVisibilityCommit(p) ==
    /\ At(p, "showing")
    /\ visible' = call[p].visible
    /\ Finish(p)
    /\ UNCHANGED <<program, agreement, member, image>>

\* pauseProgram, resumeProgram and disableProgram read, and then update if the
\* status is still the one they read.  An admin disables without acknowledgement.
pauseRead(p, g) ==
    /\ program[g].status = "active"
    /\ ~(program[g].default /\ visible)
    /\ Begin(p, [step |-> "changing", program |-> g, from |-> "active", to |-> "paused",
                 default |-> FALSE])
    /\ UNCHANGED <<visible, program, agreement, member, image>>
resumeRead(p, g) ==
    /\ program[g].status = "paused"
    /\ Begin(p, [step |-> "changing", program |-> g, from |-> "paused", to |-> "active",
                 default |-> FALSE])
    /\ UNCHANGED <<visible, program, agreement, member, image>>
disableRead(p, g) ==
    /\ program[g].status \in {"active", "paused"}
    /\ program[g].default =>
         \A h \in Programs \ {g} : program[h].status \notin {"active", "paused"}
    /\ Begin(p, [step |-> "changing", program |-> g, from |-> program[g].status,
                 to |-> "disabled", default |-> program[g].default])
    /\ UNCHANGED <<visible, program, agreement, member, image>>

StatusAsRead(c) == program[c.program].status = c.from
changeCommit(p) ==
    /\ At(p, "changing")
    /\ LET c == call[p]
           g == c.program
       IN  /\ ProgramFree(p, g)
           /\ (c.default => AppFree(p))
           /\ IF StatusAsRead(c)
              THEN /\ program' = [program EXCEPT ![g].status = c.to,
                                    ![g].default = @ /\ c.to # "disabled"]
                   /\ visible' = (visible /\ ~c.default)
              ELSE UNCHANGED <<program, visible>>
    /\ Finish(p)
    /\ UNCHANGED <<agreement, member, image>>

\* updateProgram: who may join by the join page.
updateProgram(p, g, open, approval) ==
    /\ call[p] = Idle
    /\ program[g].status \in {"active", "paused"}
    /\ ProgramFree(p, g)
    /\ program' = [program EXCEPT ![g].open = open, ![g].approval = approval]
    /\ Request /\ UNCHANGED <<visible, agreement, member, image, call>>

-----------------------------------------------------------------------------
(* The agreement and the members.                                          *)

\* publishAppAgreement locks the app.
publishAgreement(p) ==
    /\ call[p] = Idle /\ AppFree(p)
    /\ agreement < MaxAgreement
    /\ agreement' = agreement + 1
    /\ Request /\ UNCHANGED <<visible, program, member, image, call>>

PageOpen(g) == program[g].status \in {"active", "paused"} /\ program[g].open
Listed(g) == visible /\ program[g].status = "active" /\ program[g].default
Open(g, network) == IF network THEN Listed(g) ELSE PageOpen(g)
\* A request to join names the version of the agreement the user saw.
joinProgramViaPublicPage(p, g, u, v) ==
    /\ v <= agreement
    /\ PageOpen(g)
    /\ Begin(p, [step |-> "joining", program |-> g, user |-> u, version |-> v, network |-> FALSE])
    /\ UNCHANGED <<visible, program, agreement, member, image>>
joinListedProgramForUser(p, g, u, v) ==
    /\ v <= agreement
    /\ Listed(g)
    /\ Begin(p, [step |-> "joining", program |-> g, user |-> u, version |-> v, network |-> TRUE])
    /\ UNCHANGED <<visible, program, agreement, member, image>>
\* createProgramMembership locks the program, then the app, and checks again.
joinLockProgram(p) ==
    /\ At(p, "joining")
    /\ ProgramFree(p, call[p].program)
    /\ GoTo(p, [call[p] EXCEPT !.step = "queued"])
    /\ UNCHANGED <<visible, program, agreement, member, image>>
joinLockApp(p) ==
    /\ At(p, "queued")
    /\ AppFree(p)
    /\ LET c == call[p]
       IN  GoTo(p, IF /\ Open(c.program, c.network)
                      /\ member[c.program][c.user] = NoMember
                      /\ c.version = agreement
                   THEN [c EXCEPT !.step = "enrolling"] ELSE Idle)
    /\ UNCHANGED <<visible, program, agreement, member, image>>
Accepted(c) == {c.version}
joinCommit(p) ==
    /\ At(p, "enrolling")
    /\ LET c == call[p]
       IN  IF member[c.program][c.user] = NoMember
           THEN member' = [member EXCEPT ![c.program][c.user] =
                    [status |-> program[c.program].approval, accepted |-> Accepted(c)]]
           ELSE UNCHANGED member
    /\ Finish(p)
    /\ UNCHANGED <<visible, program, agreement, image>>
\* A join and a change of the default program wait for each other's rows:
\* PostgreSQL aborts one of the two.
deadlockVictim(p) ==
    /\ \/ At(p, "queued") /\ Others(p, {"defaulting"}) # {}
       \/ At(p, "defaulting") /\ Others(p, {"queued"}) # {}
    /\ Finish(p)
    /\ UNCHANGED <<visible, program, agreement, member, image>>

\* createAffiliate: the owner adds a member; the checks, the row and the acceptance
\* are not one transaction.
createAffiliateRead(p, g, u) ==
    /\ Exists(g)
    /\ member[g][u] = NoMember
    /\ Begin(p, [step |-> "adding", program |-> g, user |-> u, version |-> agreement])
    /\ UNCHANGED <<visible, program, agreement, member, image>>
createAffiliateInsert(p) ==
    /\ At(p, "adding")
    /\ LET c == call[p]
       IN  /\ ProgramFree(p, c.program)
           /\ IF member[c.program][c.user] = NoMember
              THEN /\ member' = [member EXCEPT ![c.program][c.user].status = "active"]
                   /\ GoTo(p, [c EXCEPT !.step = "accepting"])
              ELSE Finish(p) /\ UNCHANGED member
    /\ UNCHANGED <<visible, program, agreement, image>>
recordAcceptance(p) ==
    /\ At(p, "accepting")
    /\ LET c == call[p]
       IN  member' = [member EXCEPT ![c.program][c.user].accepted = @ \cup Accepted(c)]
    /\ Finish(p)
    /\ UNCHANGED <<visible, program, agreement, image>>

\* Conditional updates.
changeMember(g, u, from, to) ==
    /\ member[g][u].status = from
    /\ member' = [member EXCEPT ![g][u].status = to]
    /\ Request /\ UNCHANGED <<visible, program, agreement, image, call>>
approvePendingAffiliate(g, u) == changeMember(g, u, "pending", "active")
disableAffiliate(g, u) == changeMember(g, u, "active", "disabled")
enableAffiliate(g, u) == changeMember(g, u, "disabled", "active")

-----------------------------------------------------------------------------
(* The logo.                                                               *)

\* uploadAppLogo stores the file inside the transaction of the row.
uploadStore(p, f) ==
    /\ f \notin files
    /\ LogoFree(p)
    /\ files' = files \cup {f}
    /\ Begin(p, [step |-> "uploading", file |-> f, previous |-> logo])
    /\ UNCHANGED <<visible, program, agreement, member, logo, local>>
uploadCommit(p) ==
    /\ At(p, "uploading")
    /\ AppFree(p)
    /\ logo' = call[p].file
    /\ GoTo(p, [step |-> "pruning", file |-> call[p].file, previous |-> call[p].previous])
    /\ UNCHANGED <<visible, program, agreement, member, files, local>>
uploadFail(p) ==
    /\ At(p, "uploading")
    /\ files' = files \ {call[p].file}
    /\ Finish(p)
    /\ UNCHANGED <<visible, program, agreement, member, logo, local>>

removeLogoRead(p) ==
    /\ ~visible
    /\ LogoFree(p)
    /\ Begin(p, [step |-> "removing", previous |-> logo])
    /\ UNCHANGED <<visible, program, agreement, member, image>>
removeLogoCommit(p) ==
    /\ At(p, "removing")
    /\ AppFree(p)
    /\ logo' = None
    /\ GoTo(p, [step |-> "pruning", file |-> None, previous |-> call[p].previous])
    /\ UNCHANGED <<visible, program, agreement, member, files, local>>

\* Local files other than the current one are deleted under the advisory lock; a
\* blob is deleted by the request that replaced it.
KeepOwn(p) == {call[p].file}                                        \* mutant
KeepCurrent(p) == {logo}
prune(p) ==
    /\ At(p, "pruning")
    /\ local => LogoFree(p)
    /\ files' = IF local THEN files \cap KeepCurrent(p) ELSE files \ {call[p].previous}
    /\ Finish(p)
    /\ UNCHANGED <<visible, program, agreement, member, logo, local>>

-----------------------------------------------------------------------------

\* A request dies before its next step; a transaction is rolled back.
Crash(p) ==
    /\ call[p] # Idle
    /\ Finish(p)
    /\ UNCHANGED <<visible, program, agreement, member, image>>

Next ==
    \/ \E p \in Callers :
         \/ \E g \in Programs :
              \/ createProgramRead(p, g) \/ setDefaultRead(p, g)
              \/ pauseRead(p, g) \/ resumeRead(p, g) \/ disableRead(p, g)
              \/ \E open \in BOOLEAN, a \in Approvals : updateProgram(p, g, open, a)
              \/ \E u \in Users :
                   \/ createAffiliateRead(p, g, u)
                   \/ \E v \in 1..MaxAgreement :
                        joinProgramViaPublicPage(p, g, u, v) \/ joinListedProgramForUser(p, g, u, v)
         \/ \E v \in BOOLEAN : setVisibilityRead(p, v)
         \/ createProgramCommit(p) \/ setDefaultCommit(p) \/ setVisibilityCommit(p)
         \/ changeCommit(p)
         \/ publishAgreement(p)
         \/ joinLockProgram(p) \/ joinLockApp(p) \/ joinCommit(p) \/ deadlockVictim(p)
         \/ createAffiliateInsert(p) \/ recordAcceptance(p)
         \/ \E f \in Files : uploadStore(p, f)
         \/ uploadCommit(p) \/ uploadFail(p)
         \/ removeLogoRead(p) \/ removeLogoCommit(p) \/ prune(p)
         \/ Crash(p)
    \/ \E g \in Programs, open \in BOOLEAN, a \in Approvals : createApp(g, open, a)
    \/ \E g \in Programs, u \in Users :
         approvePendingAffiliate(g, u) \/ disableAffiliate(g, u) \/ enableAffiliate(g, u)

Spec == Init /\ [][Next]_vars

-----------------------------------------------------------------------------
(* Properties.                                                             *)

\* The types of the variables.
TypeOK ==
    /\ visible \in BOOLEAN
    /\ program \in [Programs -> [status : {"none", "active", "paused", "disabled"},
                                 default : BOOLEAN, open : BOOLEAN, approval : Approvals]]
    /\ agreement \in 0..MaxAgreement
    /\ member \in [Programs -> [Users -> [status : {"none", "pending", "active", "disabled"},
                                          accepted : SUBSET (1..MaxAgreement)]]]
    /\ logo \in Files \cup {None} /\ files \subseteq Files /\ local \in BOOLEAN
    /\ requests \in 0..MaxRequests

\* An app never has two default programs, although each of the handlers that set the
\* flag reads the others first.
OneDefaultProgram == \A g, h \in Programs :
    program[g].default /\ program[h].default => g = h

\* The logo the app shows is stored: the clean-up of one request never deletes the file
\* that another one has just put in its place.
LogoStored == logo # None => logo \in files

\* A user who joins by the join page or the network accepts the agreement that is in
\* force when the membership appears, not the one that was when the page was shown.
JoinAcceptsCurrent == [][\A g \in Programs, u \in Users :
    (member[g][u].status = "none" /\ member'[g][u].accepted # {})
        => member'[g][u].accepted = {agreement'}]_vars

\* No one joins a program that was disabled, closed or taken out of the network while the
\* request was under way.
JoinsWhereOpen == [][\A p \in Callers :
    (call[p].step = "enrolling" /\ member' # member)
        => IF call[p].network
           THEN visible /\ program[call[p].program].default /\ program[call[p].program].status = "active"
           ELSE program[call[p].program].status \in {"active", "paused"}
                /\ program[call[p].program].open]_vars
=============================================================================

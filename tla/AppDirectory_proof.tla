------------------------- MODULE AppDirectory_proof -------------------------
(***************************************************************************)
(* The default program, the logo and the joins, for any number of programs, *)
(* users, files, requests in flight and versions of the agreement.          *)
(***************************************************************************)
EXTENDS AppDirectory, TLAPS

CreateCall == [step : {"creating"}, program : Programs, default : BOOLEAN]
DefaultCall == [step : {"defaulting"}, program : Programs]
ShowCall == [step : {"showing"}, visible : BOOLEAN]
ChangeCall == [step : {"changing"}, program : Programs, from : {"active", "paused"},
               to : {"active", "paused", "disabled"}, default : BOOLEAN]
JoinCall == [step : {"joining", "queued", "enrolling"}, program : Programs, user : Users,
             version : 1 .. MaxAgreement, network : BOOLEAN]
AddCall == [step : {"adding", "accepting"}, program : Programs, user : Users,
            version : 1 .. MaxAgreement]
UploadCall == [step : {"uploading"}, file : Files, previous : Files \cup {None}]
RemoveCall == [step : {"removing"}, previous : Files \cup {None}]
PruneCall == [step : {"pruning"}, file : Files \cup {None}, previous : Files \cup {None}]
Call == {Idle} \cup CreateCall \cup DefaultCall \cup ShowCall \cup ChangeCall \cup JoinCall
        \cup AddCall \cup UploadCall \cup RemoveCall \cup PruneCall

-----------------------------------------------------------------------------
(* The invariant.                                                          *)

ProgramRow == [status : {"none", "active", "paused", "disabled"}, default : BOOLEAN,
               open : BOOLEAN, approval : Approvals]
DirectoryOK ==
    /\ visible \in BOOLEAN
    /\ program \in [Programs -> ProgramRow]
    /\ agreement \in 0 .. MaxAgreement
    /\ requests \in 0 .. MaxRequests
    /\ OneDefaultProgram
    /\ \A g \in Defaults : Exists(g)
    /\ agreement = 0 => Defaults = {}

MemberRow == [status : {"none", "pending", "active", "disabled"},
              accepted : SUBSET (1 .. MaxAgreement)]
MembersOK ==
    /\ member \in [Programs -> [Users -> MemberRow]]
    /\ \A g \in Programs, u \in Users :
         member[g][u].status = "none" => member[g][u].accepted = {}

LogoOK ==
    /\ logo \in Files \cup {None} /\ files \subseteq Files /\ local \in BOOLEAN
    /\ LogoStored

\* What a request still relies on when it writes, thanks to the locks it holds.
\* A blob that is to be deleted is not shown any more.
Fits(c) ==
    /\ c.step # "idle" => agreement # 0
    /\ (c.step = "creating" /\ c.default) => Defaults = {}
    /\ c.step = "enrolling" => Open(c.program, c.network) /\ c.version = agreement
    /\ c.step = "accepting" => member[c.program][c.user].status # "none"
    /\ c.step = "uploading" => c.file \in files /\ c.file # logo /\ c.previous = logo
    /\ c.step = "removing" => c.previous = logo
    /\ (c.step = "pruning" /\ ~local /\ c.previous # None) =>
         c.previous \in files /\ c.previous # logo

AppLock == {"defaulting", "showing", "creating", "enrolling"}
ProgramLock == {"queued", "enrolling"}
LogoLock == {"uploading", "removing"}
\* Two requests do not hold locks that exclude each other, and do not delete one blob.
Apart(c, d) ==
    /\ c.step \in AppLock => d.step \notin AppLock
    /\ (c.step \in ProgramLock /\ d.step \in ProgramLock) => c.program # d.program
    /\ c.step \in LogoLock => d.step \notin LogoLock
    /\ (c.step = "pruning" /\ ~local /\ c.previous # None) =>
         /\ d.step = "pruning" => c.previous # d.previous
         /\ d.step = "uploading" => c.previous # d.file
CallsOK ==
    /\ call \in [Callers -> Call]
    /\ \A p \in Callers : Fits(call[p])
    /\ \A p, q \in Callers : p # q => Apart(call[p], call[q])

IInv == DirectoryOK /\ MembersOK /\ LogoOK /\ CallsOK

-----------------------------------------------------------------------------
(* Requests.                                                               *)

\* What a request carries at each of its steps.
LEMMA CallAt ==
  ASSUME NEW c \in Call
  PROVE  /\ c.step = "creating" => c \in CreateCall
         /\ c.step = "defaulting" => c \in DefaultCall
         /\ c.step = "showing" => c \in ShowCall
         /\ c.step = "changing" => c \in ChangeCall
         /\ c.step \in {"joining", "queued", "enrolling"} => c \in JoinCall
         /\ c.step \in {"adding", "accepting"} => c \in AddCall
         /\ c.step = "uploading" => c \in UploadCall
         /\ c.step = "removing" => c \in RemoveCall
         /\ c.step = "pruning" => c \in PruneCall
         /\ c.step = "idle" => c = Idle
  BY DEF Call, Idle, CreateCall, DefaultCall, ShowCall, ChangeCall, JoinCall, AddCall,
         UploadCall, RemoveCall, PruneCall

Locks == AppLock \cup ProgramLock \cup LogoLock \cup {"pruning"}

\* A request without a lock is apart from every other.
LEMMA NoLock ==
  ASSUME NEW c, NEW d, c.step \notin Locks
  PROVE  Apart(c, d) /\ Apart(d, c)
  BY DEF Apart, Locks, AppLock, ProgramLock, LogoLock

\* Having no request relies on nothing.
LEMMA IdleFits == Idle \in Call /\ Fits(Idle) /\ Idle.step \notin Locks
  BY DEF Call, Fits, Idle, Locks, AppLock, ProgramLock, LogoLock

\* A request goes to another step; the others still have what they rely on.
LEMMA Goes ==
  ASSUME CallsOK, local' = local, NEW p \in Callers, NEW r \in Call,
         call' = [call EXCEPT ![p] = r], call'[p] = r => Fits(call[p])',
         \A q \in Callers \ {p} : call'[q] = call[q] => Fits(call[q])',
         \A q \in Callers \ {p} : Apart(r, call[q]) /\ Apart(call[q], r)
  PROVE  CallsOK'
<1>1. call' \in [Callers -> Call] /\ call'[p] = r /\ \A q \in Callers \ {p} : call'[q] = call[q]
  BY DEF CallsOK
<1>2. \A q \in Callers : Fits(call[q])'
  BY <1>1
<1>3. ASSUME NEW q1 \in Callers, NEW q2 \in Callers, q1 # q2
      PROVE  Apart(call'[q1], call'[q2])
  <2>1. CASE q1 = p
    BY <1>1, <1>3, <2>1
  <2>2. CASE q2 = p
    BY <1>1, <1>3, <2>2
  <2>3. CASE q1 # p /\ q2 # p
    <3>1. call'[q1] = call[q1] /\ call'[q2] = call[q2]
      BY <1>1, <2>3
    <3> QED BY <1>3, <3>1 DEF CallsOK
  <2> QED BY <2>1, <2>2, <2>3
<1>4. \A q1, q2 \in Callers : q1 # q2 => Apart(call[q1], call[q2])'
  BY <1>3 DEF Apart
<1> QED BY <1>1, <1>2, <1>4 DEF CallsOK

state == <<visible, program, agreement, member, image>>

\* A request that only moves leaves the rest as it is.
LEMMA Moves ==
  ASSUME CallsOK, NEW p \in Callers, NEW r \in Call, call' = [call EXCEPT ![p] = r], Fits(r),
         \A q \in Callers \ {p} : Apart(r, call[q]) /\ Apart(call[q], r), UNCHANGED state
  PROVE  CallsOK'
<1>1. /\ visible' = visible /\ program' = program /\ agreement' = agreement /\ member' = member
      /\ logo' = logo /\ files' = files /\ local' = local
  BY DEF state, image
<1>2. call'[p] = r => Fits(call[p])'
  BY <1>1 DEF Fits, Defaults, Open, PageOpen, Listed
<1>3. ASSUME NEW q \in Callers \ {p}, call'[q] = call[q]
      PROVE  Fits(call[q])'
  BY <1>1, <1>3 DEF Fits, CallsOK, Defaults, Open, PageOpen, Listed
<1> QED BY <1>1, <1>2, <1>3, Goes

\* A request that takes no lock needs only rely on what holds.
LEMMA MovesFree ==
  ASSUME CallsOK, NEW p \in Callers, NEW r \in Call, call' = [call EXCEPT ![p] = r], Fits(r),
         r.step \notin Locks, UNCHANGED state
  PROVE  CallsOK'
<1>1. \A q \in Callers \ {p} : Apart(r, call[q]) /\ Apart(call[q], r)
  BY NoLock
<1> QED BY <1>1, Moves

\* A request that writes and ends; the others still have what they rely on.
LEMMA WritesAndEnds ==
  ASSUME CallsOK, local' = local, NEW p \in Callers, Finish(p),
         \A q \in Callers \ {p} : call'[q] = call[q] => Fits(call[q])'
  PROVE  CallsOK'
<1>1. call' = [call EXCEPT ![p] = Idle]
  BY DEF Finish
<1>2. call'[p] = Idle => Fits(call[p])'
  BY DEF Fits, Idle
<1>3. \A q \in Callers \ {p} : Apart(Idle, call[q]) /\ Apart(call[q], Idle)
  BY NoLock, IdleFits
<1> QED BY <1>1, <1>2, <1>3, IdleFits, Goes

\* No request moves; each still has what it relies on.
LEMMA Stays ==
  ASSUME CallsOK, local' = local, call' = call, \A q \in Callers : call'[q] = call[q] => Fits(call[q])'
  PROVE  CallsOK'
  BY DEF CallsOK, Apart

-----------------------------------------------------------------------------
(* The steps that only read and lock.                                      *)

\* A request with the lock of the app alone is apart from the others.
LEMMA AppLocked ==
  ASSUME NEW p \in Callers, AppFree(p), NEW r, r.step \in AppLock \ ProgramLock
  PROVE  \A q \in Callers \ {p} : Apart(r, call[q]) /\ Apart(call[q], r)
<1>1. \A q \in Callers \ {p} : call[q].step \notin AppLock
  BY DEF AppFree, Others, AppLock
<1>2. r.step \notin ProgramLock \cup LogoLock \cup {"pruning", "uploading"}
  BY DEF AppLock, ProgramLock, LogoLock
<1> QED BY <1>1, <1>2 DEF Apart

\* A request about a program locks the app.
LEMMA ReadAppStep ==
  ASSUME CallsOK, NEW p \in Callers,
         \/ \E g \in Programs : createProgramRead(p, g) \/ setDefaultRead(p, g)
         \/ \E v \in BOOLEAN : setVisibilityRead(p, v)
  PROVE  CallsOK'
<1>1. UNCHANGED state /\ AppFree(p) /\ agreement # 0
  BY DEF createProgramRead, setDefaultRead, setVisibilityRead, state, Begin, Request
<1>2. ASSUME NEW g \in Programs, createProgramRead(p, g)
      PROVE  CallsOK'
  <2> DEFINE r == [step |-> "creating", program |-> g, default |-> Defaults = {}]
  <2>1. call' = [call EXCEPT ![p] = r]
    BY <1>2 DEF createProgramRead, Begin
  <2>2. r \in Call /\ Fits(r) /\ r.step \in AppLock \ ProgramLock
    BY <1>1 DEF Call, CreateCall, Fits, AppLock, ProgramLock
  <2> HIDE DEF r
  <2> QED BY <1>1, <2>1, <2>2, AppLocked, Moves
<1>3. ASSUME NEW g \in Programs, setDefaultRead(p, g)
      PROVE  CallsOK'
  <2> DEFINE r == [step |-> "defaulting", program |-> g]
  <2>1. call' = [call EXCEPT ![p] = r]
    BY <1>3 DEF setDefaultRead, Begin
  <2>2. r \in Call /\ Fits(r) /\ r.step \in AppLock \ ProgramLock
    BY <1>1 DEF Call, DefaultCall, Fits, AppLock, ProgramLock
  <2> HIDE DEF r
  <2> QED BY <1>1, <2>1, <2>2, AppLocked, Moves
<1>4. ASSUME NEW v \in BOOLEAN, setVisibilityRead(p, v)
      PROVE  CallsOK'
  <2> DEFINE r == [step |-> "showing", visible |-> v]
  <2>1. call' = [call EXCEPT ![p] = r]
    BY <1>4 DEF setVisibilityRead, Begin
  <2>2. r \in Call /\ Fits(r) /\ r.step \in AppLock \ ProgramLock
    BY <1>1 DEF Call, ShowCall, Fits, AppLock, ProgramLock
  <2> HIDE DEF r
  <2> QED BY <1>1, <2>1, <2>2, AppLocked, Moves
<1> QED BY <1>2, <1>3, <1>4

\* A request reads without a lock.
LEMMA ReadStep ==
  ASSUME DirectoryOK, CallsOK, NEW p \in Callers, NEW g \in Programs,
         \/ pauseRead(p, g) \/ resumeRead(p, g) \/ disableRead(p, g)
         \/ \E u \in Users :
              \/ createAffiliateRead(p, g, u)
              \/ \E v \in 1 .. MaxAgreement :
                   joinProgramViaPublicPage(p, g, u, v) \/ joinListedProgramForUser(p, g, u, v)
  PROVE  CallsOK'
<1>1. UNCHANGED state /\ agreement # 0
  BY DEF pauseRead, resumeRead, disableRead, createAffiliateRead, joinProgramViaPublicPage,
         joinListedProgramForUser, state, Begin, Request
<1>2. ASSUME NEW from \in {"active", "paused"}, NEW to \in {"active", "paused", "disabled"},
             NEW d \in BOOLEAN,
             call' = [call EXCEPT ![p] = [step |-> "changing", program |-> g, from |-> from,
                                          to |-> to, default |-> d]]
      PROVE  CallsOK'
  <2> DEFINE r == [step |-> "changing", program |-> g, from |-> from, to |-> to, default |-> d]
  <2>1. r \in Call /\ Fits(r) /\ r.step \notin Locks
    BY <1>1 DEF Call, ChangeCall, Fits, Locks, AppLock, ProgramLock, LogoLock
  <2>2. call' = [call EXCEPT ![p] = r]
    BY <1>2
  <2> HIDE DEF r
  <2> QED BY <1>1, <2>1, <2>2, MovesFree
<1>3. CASE pauseRead(p, g)
  BY <1>2, <1>3 DEF pauseRead, Begin
<1>4. CASE resumeRead(p, g)
  BY <1>2, <1>4 DEF resumeRead, Begin
<1>5. CASE disableRead(p, g)
  <2>1. program[g].status \in {"active", "paused"} /\ program[g].default \in BOOLEAN
    BY <1>5 DEF disableRead, DirectoryOK, ProgramRow
  <2> QED BY <1>2, <1>5, <2>1 DEF disableRead, Begin
<1>6. ASSUME NEW u \in Users, createAffiliateRead(p, g, u)
      PROVE  CallsOK'
  <2> DEFINE r == [step |-> "adding", program |-> g, user |-> u, version |-> agreement]
  <2>1. call' = [call EXCEPT ![p] = r]
    BY <1>6 DEF createAffiliateRead, Begin
  <2>2. agreement \in 1 .. MaxAgreement
    BY <1>1 DEF DirectoryOK
  <2>3. r \in Call /\ Fits(r) /\ r.step \notin Locks
    BY <1>1, <2>2 DEF Call, AddCall, Fits, Locks, AppLock, ProgramLock, LogoLock
  <2> HIDE DEF r
  <2> QED BY <1>1, <2>1, <2>3, MovesFree
<1>7. ASSUME NEW u \in Users, NEW v \in 1 .. MaxAgreement, NEW n \in BOOLEAN,
             call' = [call EXCEPT ![p] = [step |-> "joining", program |-> g, user |-> u,
                                          version |-> v, network |-> n]]
      PROVE  CallsOK'
  <2> DEFINE r == [step |-> "joining", program |-> g, user |-> u, version |-> v, network |-> n]
  <2>1. r \in Call /\ Fits(r) /\ r.step \notin Locks
    BY <1>1 DEF Call, JoinCall, Fits, Locks, AppLock, ProgramLock, LogoLock
  <2>2. call' = [call EXCEPT ![p] = r]
    BY <1>7
  <2> HIDE DEF r
  <2> QED BY <1>1, <2>1, <2>2, MovesFree
<1> QED BY <1>3, <1>4, <1>5, <1>6, <1>7
        DEF joinProgramViaPublicPage, joinListedProgramForUser, Begin

\* A join locks the program, then the app, and looks again whether it is open.
LEMMA JoinLockStep ==
  ASSUME CallsOK, NEW p \in Callers, joinLockProgram(p) \/ joinLockApp(p)
  PROVE  CallsOK'
<1>1. /\ UNCHANGED state /\ call[p] \in JoinCall /\ Fits(call[p])
      /\ \A q \in Callers \ {p} : Apart(call[p], call[q])
  BY CallAt DEF joinLockProgram, joinLockApp, state, CallsOK, At
<1>2. CASE joinLockProgram(p)
  <2> DEFINE r == [call[p] EXCEPT !.step = "queued"]
  <2>1. call' = [call EXCEPT ![p] = r]
    BY <1>2 DEF joinLockProgram, GoTo
  <2>2. r \in JoinCall /\ r.step = "queued" /\ r.program = call[p].program
    BY <1>1 DEF JoinCall
  <2> HIDE DEF r
  <2>3. r \in Call
    BY <2>2 DEF Call
  <2>4. agreement # 0
    BY <1>1, <1>2 DEF joinLockProgram, At, Fits
  <2>5. Fits(r)
    BY <2>2, <2>4 DEF Fits
  <2>6. \A q \in Callers \ {p} : call[q].step \in ProgramLock => call[q].program # r.program
    BY <1>2, <2>2 DEF joinLockProgram, ProgramFree, Others, ProgramLock
  <2>7. \A q \in Callers \ {p} : Apart(r, call[q]) /\ Apart(call[q], r)
    BY <2>2, <2>6 DEF Apart, AppLock, LogoLock
  <2> QED BY <1>1, <2>1, <2>3, <2>5, <2>7, Moves
<1>3. CASE joinLockApp(p) /\ Open(call[p].program, call[p].network) /\ call[p].version = agreement
           /\ call' = [call EXCEPT ![p] = [call[p] EXCEPT !.step = "enrolling"]]
  <2> DEFINE r == [call[p] EXCEPT !.step = "enrolling"]
  <2>1. call' = [call EXCEPT ![p] = r]
    BY <1>3
  <2>2. /\ r \in JoinCall /\ r.step = "enrolling" /\ r.program = call[p].program
        /\ r.network = call[p].network /\ r.version = call[p].version
    BY <1>1 DEF JoinCall
  <2> HIDE DEF r
  <2>3. r \in Call
    BY <2>2 DEF Call
  <2>4. agreement # 0 /\ call[p].step = "queued"
    BY <1>1, <1>3 DEF joinLockApp, At, Fits
  <2>5. Fits(r)
    BY <1>3, <2>2, <2>4 DEF Fits
  <2>6. \A q \in Callers \ {p} : /\ call[q].step \in ProgramLock => call[q].program # r.program
                                 /\ call[q].step \notin AppLock
    BY <1>1, <1>3, <2>2, <2>4 DEF joinLockApp, AppFree, Others, Apart, ProgramLock, AppLock
  <2>7. \A q \in Callers \ {p} : Apart(r, call[q]) /\ Apart(call[q], r)
    BY <2>2, <2>6 DEF Apart, LogoLock
  <2> QED BY <1>1, <2>1, <2>3, <2>5, <2>7, Moves
<1>4. CASE joinLockApp(p) /\ call' = [call EXCEPT ![p] = Idle]
  BY <1>1, <1>4, IdleFits, MovesFree
<1> QED BY <1>2, <1>3, <1>4 DEF joinLockApp, GoTo

\* The removal of the logo locks it and reads which it is.
LEMMA ReadLogoStep ==
  ASSUME LogoOK, CallsOK, NEW p \in Callers, removeLogoRead(p)
  PROVE  CallsOK'
<1> DEFINE r == [step |-> "removing", previous |-> logo]
<1>1. UNCHANGED state /\ agreement # 0 /\ call' = [call EXCEPT ![p] = r]
  BY DEF removeLogoRead, state, Begin, Request
<1>2. r \in Call /\ Fits(r) /\ r.step = "removing"
  BY <1>1 DEF Call, RemoveCall, Fits, LogoOK
<1> HIDE DEF r
<1>3. \A q \in Callers \ {p} : call[q].step \notin LogoLock
  BY DEF removeLogoRead, LogoFree, Others, LogoLock
<1>4. \A q \in Callers \ {p} : Apart(r, call[q]) /\ Apart(call[q], r)
  BY <1>2, <1>3 DEF Apart, AppLock, ProgramLock, LogoLock
<1> QED BY <1>1, <1>2, <1>4, Moves

\* A request ends without a change.
LEMMA EndStep ==
  ASSUME CallsOK, NEW p \in Callers, deadlockVictim(p) \/ Crash(p)
  PROVE  CallsOK'
<1>1. UNCHANGED state /\ call' = [call EXCEPT ![p] = Idle]
  BY DEF deadlockVictim, Crash, Finish, state
<1> QED BY <1>1, IdleFits, MovesFree

-----------------------------------------------------------------------------
(* The steps that write programs, visibility and agreement.                *)

\* What a request relies on is left by a change of the directory that finds it
\* without the locks it needs.
LEMMA DirectoryKeeps ==
  ASSUME CallsOK, member' = member, UNCHANGED image, agreement # 0 => agreement' # 0,
         NEW q \in Callers, call'[q] = call[q],
         (call[q].step = "creating" /\ Defaults = {}) => Defaults' = {},
         call[q].step = "enrolling" =>
           /\ agreement' = agreement /\ visible' = visible
           /\ program'[call[q].program] = program[call[q].program]
  PROVE  Fits(call[q])'
<1>1. Fits(call[q]) /\ logo' = logo /\ files' = files /\ local' = local
  BY DEF CallsOK, image
<1>2. call[q].step = "enrolling" => Open(call[q].program, call[q].network)'
  BY <1>1 DEF Fits, Open, PageOpen, Listed
<1> QED BY <1>1, <1>2 DEF Fits

\* The lock of the app keeps creations, joins and changes of the default apart.
LEMMA AppHolder ==
  ASSUME CallsOK, NEW p \in Callers, call[p].step \in AppLock
  PROVE  \A q \in Callers \ {p} : call[q].step \notin {"creating", "enrolling"}
  BY DEF CallsOK, Apart, AppLock

\* A new program is the default one only if there is none.
LEMMA NewProgramOK ==
  ASSUME DirectoryOK, NEW g \in Programs, NEW d \in BOOLEAN, NEW o \in BOOLEAN,
         NEW a \in Approvals, NewProgram(g, d, o, a), d => Defaults = {}
  PROVE  /\ program' \in [Programs -> ProgramRow] /\ OneDefaultProgram'
         /\ (\A h \in Defaults : Exists(h))'
<1> DEFINE new == [status |-> "active", open |-> o, approval |-> a, default |-> d]
<1>1. new \in ProgramRow /\ new.default = d /\ new.status = "active"
  BY DEF ProgramRow
<1>2. program' = [program EXCEPT ![g] = new]
  BY DEF NewProgram
<1> HIDE DEF new
<1>3. /\ program' \in [Programs -> ProgramRow] /\ program'[g] = new
      /\ \A h \in Programs \ {g} : program'[h] = program[h]
  BY <1>1, <1>2 DEF DirectoryOK
<1> QED BY <1>1, <1>3 DEF DirectoryOK, OneDefaultProgram, Defaults, Exists

\* The app comes with its first program, while no request is under way.
LEMMA CreateAppStep ==
  ASSUME AppDirectoryAssumption, DirectoryOK, CallsOK, NEW g \in Programs, NEW o \in BOOLEAN,
         NEW a \in Approvals, createApp(g, o, a)
  PROVE  DirectoryOK' /\ CallsOK'
<1>1. /\ agreement = 0 /\ agreement' = 1 /\ visible' = visible /\ member' = member /\ call' = call
      /\ UNCHANGED image /\ local' = local /\ requests' = requests
  BY DEF createApp, image
<1>2. program' \in [Programs -> ProgramRow] /\ OneDefaultProgram' /\ (\A h \in Defaults : Exists(h))'
  <2>1. CASE NewProgram(g, TRUE, o, a)
    BY <1>1, <2>1, NewProgramOK DEF DirectoryOK
  <2>2. CASE UNCHANGED program
    BY <2>2 DEF DirectoryOK, OneDefaultProgram, Defaults, Exists
  <2> QED BY <2>1, <2>2 DEF createApp
<1>3. DirectoryOK'
  BY <1>1, <1>2 DEF DirectoryOK, AppDirectoryAssumption
<1>4. ASSUME NEW q \in Callers, call'[q] = call[q]
      PROVE  Fits(call[q])'
  <2>1. call[q].step = "idle"
    BY <1>1 DEF CallsOK, Fits
  <2> QED BY <1>1, <1>4, <2>1, DirectoryKeeps
<1> QED BY <1>1, <1>3, <1>4, Stays

\* A program is created under the lock of the app.
LEMMA CreateStep ==
  ASSUME DirectoryOK, CallsOK, NEW p \in Callers, createProgramCommit(p)
  PROVE  DirectoryOK' /\ CallsOK'
<1>1. /\ call[p] \in CreateCall /\ call[p].step = "creating" /\ Fits(call[p])
      /\ call[p].program \in Programs /\ call[p].default \in BOOLEAN
  BY CallAt DEF createProgramCommit, At, CallsOK, CreateCall
<1>2. PICK o \in BOOLEAN, a \in Approvals : NewProgram(call[p].program, call[p].default, o, a)
  BY DEF createProgramCommit
<1>3. /\ agreement' = agreement /\ visible' = visible /\ member' = member
      /\ UNCHANGED image /\ local' = local /\ requests' = requests /\ agreement # 0
  BY <1>1 DEF createProgramCommit, image, Finish, Fits
<1>4. /\ program' \in [Programs -> ProgramRow] /\ OneDefaultProgram'
      /\ (\A h \in Defaults : Exists(h))'
  BY <1>1, <1>2, NewProgramOK DEF Fits
<1>5. DirectoryOK'
  BY <1>3, <1>4 DEF DirectoryOK
<1>6. ASSUME NEW q \in Callers \ {p}, call'[q] = call[q]
      PROVE  Fits(call[q])'
  BY <1>1, <1>3, <1>6, AppHolder, DirectoryKeeps DEF AppLock
<1> QED BY <1>3, <1>5, <1>6, WritesAndEnds DEF createProgramCommit

\* The default program changes under the lock of the app.
LEMMA DefaultStep ==
  ASSUME DirectoryOK, CallsOK, NEW p \in Callers, setDefaultCommit(p)
  PROVE  DirectoryOK' /\ CallsOK'
<1>1. call[p].step = "defaulting" /\ Fits(call[p])
  BY DEF setDefaultCommit, At, CallsOK
<1>2. /\ agreement' = agreement /\ visible' = visible /\ member' = member
      /\ UNCHANGED image /\ local' = local /\ requests' = requests /\ agreement # 0
  BY <1>1 DEF setDefaultCommit, image, Finish, Fits
<1>3. program' = [g \in Programs |->
           IF Exists(g) THEN [program[g] EXCEPT !.default = (g = call[p].program)] ELSE program[g]]
  BY DEF setDefaultCommit, OnlyDefault
<1>4. ASSUME NEW g \in Programs
      PROVE  /\ program'[g] \in ProgramRow /\ program'[g].status = program[g].status
             /\ program'[g].default => g = call[p].program /\ Exists(g)
  <2>1. program[g] \in ProgramRow /\ (program[g].default => Exists(g))
    BY DEF DirectoryOK, Defaults
  <2>2. [program[g] EXCEPT !.default = (g = call[p].program)] \in ProgramRow
    BY <2>1 DEF ProgramRow
  <2>3. /\ [program[g] EXCEPT !.default = (g = call[p].program)].default = (g = call[p].program)
        /\ [program[g] EXCEPT !.default = (g = call[p].program)].status = program[g].status
    BY <2>1 DEF ProgramRow
  <2> QED BY <1>3, <2>1, <2>2, <2>3
<1>5. program' \in [Programs -> ProgramRow]
  BY <1>3, <1>4
<1>6. OneDefaultProgram' /\ (\A g \in Defaults : Exists(g))'
  BY <1>4 DEF OneDefaultProgram, Defaults, Exists
<1>7. DirectoryOK'
  BY <1>2, <1>5, <1>6 DEF DirectoryOK
<1>8. ASSUME NEW q \in Callers \ {p}, call'[q] = call[q]
      PROVE  Fits(call[q])'
  BY <1>1, <1>2, <1>8, AppHolder, DirectoryKeeps DEF AppLock
<1> QED BY <1>2, <1>7, <1>8, WritesAndEnds DEF setDefaultCommit

\* The app is shown or hidden under its lock.
LEMMA ShowStep ==
  ASSUME DirectoryOK, CallsOK, NEW p \in Callers, setVisibilityCommit(p)
  PROVE  DirectoryOK' /\ CallsOK'
<1>1. call[p] \in ShowCall /\ call[p].step = "showing"
  BY CallAt DEF setVisibilityCommit, At, CallsOK
<1>2. /\ program' = program /\ agreement' = agreement /\ visible' \in BOOLEAN /\ member' = member
      /\ UNCHANGED image /\ local' = local /\ requests' = requests
  BY <1>1 DEF setVisibilityCommit, image, Finish, ShowCall
<1>3. DirectoryOK'
  BY <1>2 DEF DirectoryOK, OneDefaultProgram, Defaults, Exists
<1>4. ASSUME NEW q \in Callers \ {p}, call'[q] = call[q]
      PROVE  Fits(call[q])'
  <2>1. Defaults' = Defaults
    BY <1>2 DEF Defaults
  <2> QED BY <1>1, <1>2, <1>4, <2>1, AppHolder, DirectoryKeeps DEF AppLock
<1> QED BY <1>2, <1>3, <1>4, WritesAndEnds DEF setVisibilityCommit

\* A change of one program that makes no default one keeps the directory in order.
LEMMA ProgramChanged ==
  ASSUME DirectoryOK, NEW g \in Programs, NEW new \in ProgramRow,
         program' = [program EXCEPT ![g] = new], new.default => program[g].default,
         Exists(g), new.status # "none"
  PROVE  /\ program' \in [Programs -> ProgramRow] /\ OneDefaultProgram'
         /\ (\A h \in Defaults : Exists(h))'
         /\ Defaults' \subseteq Defaults
         /\ \A h \in Programs \ {g} : program'[h] = program[h]
<1>1. /\ program' \in [Programs -> ProgramRow] /\ program'[g] = new
      /\ \A h \in Programs \ {g} : program'[h] = program[h]
  BY DEF DirectoryOK
<1> QED BY <1>1 DEF DirectoryOK, OneDefaultProgram, Defaults, Exists

\* A program changes its status under its lock, and under that of the app when it was
\* the default one.
LEMMA StatusStep ==
  ASSUME DirectoryOK, CallsOK, NEW p \in Callers, changeCommit(p)
  PROVE  DirectoryOK' /\ CallsOK'
<1> DEFINE c == call[p]
           g == c.program
           new == [program[g] EXCEPT !.status = c.to, !.default = @ /\ c.to # "disabled"]
<1>1. c \in ChangeCall /\ g \in Programs /\ Fits(c) /\ c.step = "changing"
  BY CallAt DEF changeCommit, At, CallsOK, ChangeCall
<1>2. /\ agreement' = agreement /\ member' = member /\ UNCHANGED image /\ local' = local
      /\ requests' = requests
  BY DEF changeCommit, image, Finish
<1>3. ProgramFree(p, g) /\ (c.default => AppFree(p))
  BY DEF changeCommit
<1>4. CASE StatusAsRead(c)
  <2>1. program' = [program EXCEPT ![g].status = c.to, ![g].default = @ /\ c.to # "disabled"]
        /\ visible' = (visible /\ ~c.default)
    BY <1>4 DEF changeCommit
  <2>2. program[g] \in ProgramRow /\ program[g].status # "none" /\ program \in [Programs -> ProgramRow]
    BY <1>1, <1>4 DEF DirectoryOK, StatusAsRead, ChangeCall
  <2>3. program' = [program EXCEPT ![g] = new]
    BY <1>1, <2>1, <2>2
  <2>4. new \in ProgramRow /\ (new.default => program[g].default) /\ new.status # "none"
    BY <1>1, <2>2 DEF ProgramRow, ChangeCall
  <2> HIDE DEF new
  <2>5. /\ program' \in [Programs -> ProgramRow] /\ OneDefaultProgram'
        /\ (\A h \in Defaults : Exists(h))'
        /\ Defaults' \subseteq Defaults
        /\ \A h \in Programs \ {g} : program'[h] = program[h]
    BY <1>1, <2>2, <2>3, <2>4, ProgramChanged DEF Exists
  <2>6. visible' \in BOOLEAN
    BY <2>1
  <2>7. DirectoryOK'
    BY <1>2, <2>5, <2>6 DEF DirectoryOK
  <2>8. ASSUME NEW q \in Callers \ {p}, call'[q] = call[q]
        PROVE  Fits(call[q])'
    <3>1. Defaults = {} => Defaults' = {}
      BY <2>5
    <3>2. CASE call[q].step = "enrolling"
      <4>1. call[q].program \in Programs /\ call[q].program # g
        BY <1>3, <3>2, CallAt DEF CallsOK, JoinCall, ProgramFree, Others
      <4>2. ~c.default
        BY <1>3, <3>2 DEF AppFree, Others
      <4>3. visible' = visible
        BY <2>1, <4>2 DEF DirectoryOK
      <4> QED BY <1>2, <2>5, <2>8, <3>1, <4>1, <4>3, DirectoryKeeps
    <3>3. CASE call[q].step # "enrolling"
      BY <1>2, <2>8, <3>1, <3>3, DirectoryKeeps
    <3> QED BY <3>2, <3>3
  <2>9. CallsOK'
    BY <1>2, <2>8, WritesAndEnds DEF changeCommit
  <2> QED BY <2>7, <2>9
<1>5. CASE ~StatusAsRead(c)
  <2>1. program' = program /\ visible' = visible
    BY <1>5 DEF changeCommit
  <2>2. DirectoryOK' /\ Defaults' = Defaults
    BY <1>2, <2>1 DEF DirectoryOK, OneDefaultProgram, Defaults, Exists
  <2>3. ASSUME NEW q \in Callers \ {p}, call'[q] = call[q]
        PROVE  Fits(call[q])'
    BY <1>2, <2>1, <2>2, <2>3, DirectoryKeeps
  <2> QED BY <1>2, <2>2, <2>3, WritesAndEnds DEF changeCommit
<1> QED BY <1>4, <1>5

\* The join page of a program changes under the lock of the program.
LEMMA UpdateStep ==
  ASSUME AppDirectoryAssumption, DirectoryOK, CallsOK, NEW p \in Callers, NEW g \in Programs,
         NEW o \in BOOLEAN, NEW a \in Approvals, updateProgram(p, g, o, a)
  PROVE  DirectoryOK' /\ CallsOK'
<1> DEFINE new == [program[g] EXCEPT !.open = o, !.approval = a]
<1>1. /\ agreement' = agreement /\ visible' = visible /\ member' = member /\ call' = call
      /\ UNCHANGED image /\ local' = local /\ ProgramFree(p, g) /\ call[p] = Idle
  BY DEF updateProgram, image
<1>2. requests' \in 0 .. MaxRequests
  BY DEF updateProgram, Request, DirectoryOK, AppDirectoryAssumption
<1>3. program[g] \in ProgramRow /\ program[g].status # "none" /\ program \in [Programs -> ProgramRow]
  BY DEF updateProgram, DirectoryOK
<1>4. program' = [program EXCEPT ![g] = new]
  BY <1>3 DEF updateProgram
<1>5. new \in ProgramRow /\ (new.default => program[g].default) /\ new.status # "none"
  BY <1>3 DEF ProgramRow
<1> HIDE DEF new
<1>6. /\ program' \in [Programs -> ProgramRow] /\ OneDefaultProgram'
      /\ (\A h \in Defaults : Exists(h))'
      /\ Defaults' \subseteq Defaults
      /\ \A h \in Programs \ {g} : program'[h] = program[h]
  BY <1>3, <1>4, <1>5, ProgramChanged DEF Exists
<1>7. DirectoryOK'
  BY <1>1, <1>2, <1>6 DEF DirectoryOK
<1>8. ASSUME NEW q \in Callers, call'[q] = call[q]
      PROVE  Fits(call[q])'
  <2>1. call[q].step = "enrolling" => call[q].program \in Programs /\ call[q].program # g
    <3>1. CASE q = p
      BY <1>1, <3>1 DEF Idle
    <3>2. CASE q # p
      BY <1>1, <3>2, CallAt DEF CallsOK, JoinCall, ProgramFree, Others
    <3> QED BY <3>1, <3>2
  <2> QED BY <1>1, <1>6, <1>8, <2>1, DirectoryKeeps
<1> QED BY <1>1, <1>7, <1>8, Stays

\* The agreement changes while no join is past its check.
LEMMA AgreementStep ==
  ASSUME AppDirectoryAssumption, DirectoryOK, CallsOK, NEW p \in Callers, publishAgreement(p)
  PROVE  DirectoryOK' /\ CallsOK'
<1>1. /\ program' = program /\ visible' = visible /\ member' = member /\ call' = call
      /\ UNCHANGED image /\ local' = local /\ AppFree(p) /\ call[p] = Idle
      /\ agreement < MaxAgreement /\ agreement' = agreement + 1
  BY DEF publishAgreement, image
<1>2. /\ requests' \in 0 .. MaxRequests
      /\ agreement' \in 0 .. MaxAgreement /\ agreement' # 0
  BY <1>1 DEF publishAgreement, Request, DirectoryOK, AppDirectoryAssumption
<1>3. DirectoryOK' /\ Defaults' = Defaults
  BY <1>1, <1>2 DEF DirectoryOK, OneDefaultProgram, Defaults, Exists
<1>4. ASSUME NEW q \in Callers, call'[q] = call[q]
      PROVE  Fits(call[q])'
  <2>1. call[q].step # "enrolling"
    BY <1>1 DEF AppFree, Others, Idle
  <2> QED BY <1>1, <1>2, <1>3, <1>4, <2>1, DirectoryKeeps
<1> QED BY <1>1, <1>3, <1>4, Stays

-----------------------------------------------------------------------------
(* The steps that write members.                                           *)

directory == <<visible, program, agreement>>

\* A member gets another row, and nobody stops being one.
LEMMA MemberChanged ==
  ASSUME MembersOK, NEW g \in Programs, NEW u \in Users, NEW new \in MemberRow,
         new.status # "none", member' = [member EXCEPT ![g] = [member[g] EXCEPT ![u] = new]]
  PROVE  /\ MembersOK' /\ member'[g][u] = new
         /\ \A h \in Programs, v \in Users : h # g \/ v # u => member'[h][v] = member[h][v]
         /\ \A h \in Programs, v \in Users :
              member[h][v].status # "none" => member'[h][v].status # "none"
<1>1. member \in [Programs -> [Users -> MemberRow]]
  BY DEF MembersOK
<1> DEFINE row == [member[g] EXCEPT ![u] = new]
<1>2. row \in [Users -> MemberRow] /\ row[u] = new /\ \A v \in Users \ {u} : row[v] = member[g][v]
  BY <1>1
<1>3. member' = [member EXCEPT ![g] = row]
  OBVIOUS
<1> HIDE DEF row
<1>4. /\ member' \in [Programs -> [Users -> MemberRow]] /\ member'[g] = row
      /\ \A h \in Programs \ {g} : member'[h] = member[h]
  BY <1>1, <1>2, <1>3
<1>5. \A h \in Programs, v \in Users : h # g \/ v # u => member'[h][v] = member[h][v]
  BY <1>2, <1>4
<1>6. member'[g][u] = new
  BY <1>2, <1>4
<1> QED BY <1>4, <1>5, <1>6 DEF MembersOK

\* A request relies on members only to stay members.
LEMMA MembersKeep ==
  ASSUME CallsOK, UNCHANGED <<directory, image>>, NEW q \in Callers, call'[q] = call[q],
         \A h \in Programs, v \in Users :
           member[h][v].status # "none" => member'[h][v].status # "none"
  PROVE  Fits(call[q])'
<1>1. /\ visible' = visible /\ program' = program /\ agreement' = agreement
      /\ logo' = logo /\ files' = files /\ local' = local /\ Fits(call[q])
  BY DEF directory, image, CallsOK
<1>2. call[q].step = "accepting" => call[q].program \in Programs /\ call[q].user \in Users
  BY CallAt DEF CallsOK, AddCall
<1> QED BY <1>1, <1>2 DEF Fits, Defaults, Open, PageOpen, Listed

\* A user joins and has accepted the agreement in force.
LEMMA JoinStep ==
  ASSUME DirectoryOK, MembersOK, CallsOK, NEW p \in Callers, joinCommit(p)
  PROVE  /\ MembersOK' /\ CallsOK'
         /\ \A g \in Programs, u \in Users : member'[g][u].status # "none" =>
              member'[g][u] = member[g][u] \/ member'[g][u].accepted = {agreement}
<1> DEFINE c == call[p]
           new == [status |-> program[c.program].approval, accepted |-> {c.version}]
<1>1. /\ c \in JoinCall /\ Fits(c) /\ c.step = "enrolling" /\ c.program \in Programs
      /\ c.user \in Users /\ c.version \in 1 .. MaxAgreement /\ c.version = agreement
  BY CallAt DEF joinCommit, At, CallsOK, JoinCall, Fits
<1>2. UNCHANGED <<directory, image>> /\ local' = local
  BY DEF joinCommit, directory, image
<1>3. CASE member[c.program][c.user] = NoMember
  <2>1. new \in MemberRow /\ new.status # "none" /\ new.accepted = {agreement}
    BY <1>1 DEF DirectoryOK, ProgramRow, MemberRow, Approvals
  <2>2. member' = [member EXCEPT ![c.program] = [member[c.program] EXCEPT ![c.user] = new]]
    BY <1>1, <1>3 DEF joinCommit, Accepted, MembersOK
  <2> HIDE DEF new
  <2>3. /\ MembersOK' /\ member'[c.program][c.user] = new
        /\ \A h \in Programs, v \in Users :
             h # c.program \/ v # c.user => member'[h][v] = member[h][v]
        /\ \A h \in Programs, v \in Users :
             member[h][v].status # "none" => member'[h][v].status # "none"
    BY <1>1, <2>1, <2>2, MemberChanged
  <2>4. CallsOK'
    BY <1>2, <2>3, MembersKeep, WritesAndEnds DEF joinCommit
  <2> QED BY <2>1, <2>3, <2>4
<1>4. CASE member[c.program][c.user] # NoMember
  <2>1. member' = member
    BY <1>4 DEF joinCommit
  <2> QED BY <1>2, <2>1, MembersKeep, WritesAndEnds DEF joinCommit, MembersOK
<1> QED BY <1>3, <1>4

\* The owner adds a member, who has accepted nothing yet.
LEMMA AddStep ==
  ASSUME MembersOK, CallsOK, NEW p \in Callers, createAffiliateInsert(p)
  PROVE  /\ MembersOK' /\ CallsOK'
         /\ \A g \in Programs, u \in Users : member[g][u].status = "none" => member'[g][u].accepted = {}
<1> DEFINE c == call[p]
<1>1. /\ c \in AddCall /\ Fits(c) /\ c.step = "adding" /\ c.program \in Programs
      /\ c.user \in Users
  BY CallAt DEF createAffiliateInsert, At, CallsOK, AddCall
<1>2. UNCHANGED <<directory, image>> /\ local' = local
  BY DEF createAffiliateInsert, directory, image
<1>3. CASE member[c.program][c.user] = NoMember
  <2> DEFINE old == member[c.program][c.user]
             new == [old EXCEPT !.status = "active"]
             r == [c EXCEPT !.step = "accepting"]
  <2>1. new \in MemberRow /\ new.status = "active" /\ new.accepted = {}
    BY <1>3 DEF NoMember, MemberRow
  <2>2. member' = [member EXCEPT ![c.program] = [member[c.program] EXCEPT ![c.user] = new]]
    BY <1>1, <1>3 DEF createAffiliateInsert, MembersOK
  <2>3. call' = [call EXCEPT ![p] = r]
    BY <1>3 DEF createAffiliateInsert, GoTo
  <2>4. /\ r \in AddCall /\ r.step = "accepting" /\ r.program = c.program /\ r.user = c.user
    BY <1>1 DEF AddCall
  <2> HIDE DEF new, r
  <2>5. /\ MembersOK' /\ member'[c.program][c.user] = new
        /\ \A h \in Programs, v \in Users :
             h # c.program \/ v # c.user => member'[h][v] = member[h][v]
        /\ \A h \in Programs, v \in Users :
             member[h][v].status # "none" => member'[h][v].status # "none"
    BY <1>1, <2>1, <2>2, MemberChanged
  <2>6. r \in Call /\ r.step \notin Locks
    BY <2>4 DEF Call, Locks, AppLock, ProgramLock, LogoLock
  <2>7. agreement' # 0
    BY <1>1, <1>2 DEF Fits, directory
  <2>8. call'[p] = r => Fits(call[p])'
    BY <2>1, <2>4, <2>5, <2>7 DEF Fits
  <2>9. CallsOK'
    <3>1. \A q \in Callers \ {p} : Apart(r, call[q]) /\ Apart(call[q], r)
      BY <2>6, NoLock
    <3>2. \A q \in Callers \ {p} : call'[q] = call[q] => Fits(call[q])'
      BY <1>2, <2>5, MembersKeep
    <3> QED BY <1>2, <2>3, <2>6, <2>8, <3>1, <3>2, Goes
  <2> QED BY <2>1, <2>5, <2>9 DEF MembersOK
<1>4. CASE member[c.program][c.user] # NoMember
  <2>1. member' = member /\ Finish(p)
    BY <1>4 DEF createAffiliateInsert
  <2> QED BY <1>2, <2>1, MembersKeep, WritesAndEnds DEF MembersOK
<1> QED BY <1>3, <1>4

\* A member whom the owner added accepts afterwards.
LEMMA AcceptStep ==
  ASSUME MembersOK, CallsOK, NEW p \in Callers, recordAcceptance(p)
  PROVE  /\ MembersOK' /\ CallsOK'
         /\ \A g \in Programs, u \in Users : member[g][u].status = "none" => member'[g][u].accepted = {}
<1> DEFINE c == call[p]
           old == member[c.program][c.user]
           new == [old EXCEPT !.accepted = @ \cup {c.version}]
<1>1. /\ c \in AddCall /\ Fits(c) /\ c.step = "accepting" /\ c.program \in Programs
      /\ c.user \in Users /\ c.version \in 1 .. MaxAgreement /\ old.status # "none"
  BY CallAt DEF recordAcceptance, At, CallsOK, AddCall, Fits
<1>2. UNCHANGED <<directory, image>> /\ local' = local
  BY DEF recordAcceptance, directory, image
<1>3. old \in MemberRow
  BY <1>1 DEF MembersOK
<1>4. new \in MemberRow /\ new.status # "none"
  BY <1>1, <1>3 DEF MemberRow
<1>5. member' = [member EXCEPT ![c.program] = [member[c.program] EXCEPT ![c.user] = new]]
  <2>1. member' = [member EXCEPT ![c.program][c.user].accepted = @ \cup {c.version}]
    BY DEF recordAcceptance, Accepted
  <2>2. member \in [Programs -> [Users -> MemberRow]]
    BY DEF MembersOK
  <2> QED BY <1>1, <1>3, <2>1, <2>2
<1> HIDE DEF new
<1>6. /\ MembersOK' /\ member'[c.program][c.user] = new
      /\ \A h \in Programs, v \in Users :
           h # c.program \/ v # c.user => member'[h][v] = member[h][v]
      /\ \A h \in Programs, v \in Users :
           member[h][v].status # "none" => member'[h][v].status # "none"
  BY <1>1, <1>4, <1>5, MemberChanged
<1>7. CallsOK'
  BY <1>2, <1>6, MembersKeep, WritesAndEnds DEF recordAcceptance
<1> QED BY <1>1, <1>6, <1>7 DEF MembersOK

\* A member is approved, disabled or enabled.
LEMMA ChangeMemberStep ==
  ASSUME AppDirectoryAssumption, DirectoryOK, MembersOK, CallsOK, NEW g \in Programs, NEW u \in Users,
         approvePendingAffiliate(g, u) \/ disableAffiliate(g, u) \/ enableAffiliate(g, u)
  PROVE  /\ DirectoryOK' /\ MembersOK' /\ CallsOK'
         /\ \A h \in Programs, v \in Users : member[h][v].status = "none" => member'[h][v].accepted = {}
<1>1. PICK from \in {"pending", "active", "disabled"}, to \in {"active", "disabled"} :
         changeMember(g, u, from, to)
  BY DEF approvePendingAffiliate, disableAffiliate, enableAffiliate
<1>2. /\ UNCHANGED <<directory, image>> /\ local' = local /\ call' = call
      /\ member[g][u].status = from /\ member' = [member EXCEPT ![g][u].status = to]
      /\ requests < MaxRequests /\ requests' = requests + 1
  BY <1>1 DEF changeMember, directory, image, Request
<1> DEFINE new == [member[g][u] EXCEPT !.status = to]
<1>3. member[g][u] \in MemberRow
  BY DEF MembersOK
<1>4. new \in MemberRow /\ new.status # "none"
  BY <1>3 DEF MemberRow
<1>5. member' = [member EXCEPT ![g] = [member[g] EXCEPT ![u] = new]]
  BY <1>2
<1> HIDE DEF new
<1>6. /\ MembersOK' /\ member'[g][u] = new
      /\ \A h \in Programs, v \in Users : h # g \/ v # u => member'[h][v] = member[h][v]
      /\ \A h \in Programs, v \in Users :
           member[h][v].status # "none" => member'[h][v].status # "none"
  BY <1>4, <1>5, MemberChanged
<1>7. CallsOK'
  BY <1>2, <1>6, MembersKeep, Stays
<1>8. DirectoryOK'
  BY <1>2 DEF DirectoryOK, OneDefaultProgram, Defaults, Exists, directory, AppDirectoryAssumption
<1> QED BY <1>2, <1>6, <1>7, <1>8 DEF MembersOK

-----------------------------------------------------------------------------
(* The steps that write the logo and its files.                            *)

\* What a request relies on once the logo or the files have changed.
LEMMA LogoKeeps ==
  ASSUME CallsOK, UNCHANGED <<directory, member>>, local' = local,
         NEW q \in Callers, call'[q] = call[q],
         call[q].step = "uploading" =>
           call[q].file \in files' /\ call[q].file # logo' /\ call[q].previous = logo',
         call[q].step = "removing" => call[q].previous = logo',
         (call[q].step = "pruning" /\ ~local /\ call[q].previous # None) =>
           call[q].previous \in files' /\ call[q].previous # logo'
  PROVE  Fits(call[q])'
<1>1. /\ visible' = visible /\ program' = program /\ agreement' = agreement /\ member' = member
      /\ Fits(call[q])
  BY DEF directory, CallsOK
<1> QED BY <1>1 DEF Fits, Defaults, Open, PageOpen, Listed

\* An upload stores a file that is not there, so none that another request deletes.
LEMMA StoreStep ==
  ASSUME AppDirectoryAssumption, LogoOK, CallsOK, NEW p \in Callers, NEW f \in Files, uploadStore(p, f)
  PROVE  LogoOK' /\ CallsOK'
<1> DEFINE r == [step |-> "uploading", file |-> f, previous |-> logo]
<1>1. /\ UNCHANGED <<directory, member>> /\ local' = local /\ logo' = logo /\ f \notin files
      /\ files' = files \cup {f} /\ call' = [call EXCEPT ![p] = r] /\ agreement # 0
  BY DEF uploadStore, directory, Begin, Request
<1>2. LogoOK'
  BY <1>1 DEF LogoOK, LogoStored
<1>3. f # logo
  BY <1>1 DEF LogoOK, LogoStored, AppDirectoryAssumption
<1>4. r \in Call
  BY DEF Call, UploadCall, LogoOK
<1>5. r.step = "uploading" /\ r.file = f /\ r.previous = logo
  OBVIOUS
<1> HIDE DEF r
<1>6. call'[p] = r => Fits(call[p])'
  BY <1>1, <1>3, <1>5 DEF Fits, directory
<1>7. \A q \in Callers \ {p} : call[q].step \notin LogoLock
  BY DEF uploadStore, LogoFree, Others, LogoLock
<1>8. \A q \in Callers \ {p} : call'[q] = call[q] => Fits(call[q])'
  <2> SUFFICES ASSUME NEW q \in Callers \ {p}, call'[q] = call[q]
               PROVE  Fits(call[q])'
    OBVIOUS
  <2>1. Fits(call[q]) /\ call[q].step \notin {"uploading", "removing"}
    BY <1>7 DEF CallsOK, LogoLock
  <2> QED BY <1>1, <2>1, LogoKeeps DEF Fits
<1>9. \A q \in Callers \ {p} : Apart(r, call[q]) /\ Apart(call[q], r)
  <2> SUFFICES ASSUME NEW q \in Callers \ {p}
               PROVE  Apart(r, call[q]) /\ Apart(call[q], r)
    OBVIOUS
  <2>1. Fits(call[q])
    BY DEF CallsOK
  <2> QED BY <1>1, <1>5, <1>7, <2>1 DEF Apart, Fits, AppLock, ProgramLock, LogoLock
<1>10. CallsOK'
  BY <1>1, <1>4, <1>6, <1>8, <1>9, Goes
<1> QED BY <1>2, <1>10

\* An upload or a removal puts another logo in place, and has the old one to delete.
LEMMA ReplaceStep ==
  ASSUME AppDirectoryAssumption, LogoOK, CallsOK, NEW p \in Callers,
         uploadCommit(p) \/ removeLogoCommit(p)
  PROVE  LogoOK' /\ CallsOK'
<1>1. /\ UNCHANGED <<directory, member>> /\ local' = local /\ files' = files
      /\ call[p].step \in LogoLock /\ call[p] \in Call /\ Fits(call[p])
  BY DEF uploadCommit, removeLogoCommit, directory, At, LogoLock, CallsOK
<1>2. PICK new \in Files \cup {None} :
         /\ logo' = new /\ call' = [call EXCEPT ![p] =
                          [step |-> "pruning", file |-> new, previous |-> logo]]
         /\ new # None => new \in files /\ new # logo
         /\ new # None => call[p].step = "uploading" /\ new = call[p].file
  <2>1. CASE uploadCommit(p)
    <3>1. call[p] \in UploadCall /\ call[p].previous = logo /\ call[p].file \in files
          /\ call[p].file # logo
      BY <1>1, <2>1, CallAt DEF uploadCommit, At, Fits
    <3> QED BY <2>1, <3>1 DEF uploadCommit, GoTo, At, UploadCall
  <2>2. CASE removeLogoCommit(p)
    BY <1>1, <2>2 DEF removeLogoCommit, GoTo, At, Fits
  <2> QED BY <2>1, <2>2
<1> DEFINE r == [step |-> "pruning", file |-> new, previous |-> logo]
<1>3. LogoOK'
  BY <1>1, <1>2 DEF LogoOK, LogoStored
<1>4. r \in Call
  BY DEF Call, PruneCall, LogoOK
<1>5. r.step = "pruning" /\ r.previous = logo /\ call' = [call EXCEPT ![p] = r]
  BY <1>2
<1> HIDE DEF r
<1>6. call'[p] = r => Fits(call[p])'
  <2>1. agreement' # 0
    BY <1>1 DEF Fits, LogoLock, directory
  <2> QED BY <1>1, <1>2, <1>5, <2>1 DEF Fits, LogoOK, LogoStored
<1>7. ASSUME NEW q \in Callers \ {p}
      PROVE  /\ Fits(call[q]) /\ Apart(call[q], call[p])
             /\ call[q].step \notin {"uploading", "removing"}
  BY <1>1 DEF CallsOK, Apart, LogoLock
<1>8. ASSUME NEW q \in Callers \ {p}, call'[q] = call[q]
      PROVE  Fits(call[q])'
  <2>1. (call[q].step = "pruning" /\ ~local /\ call[q].previous # None) =>
          call[q].previous \in files' /\ call[q].previous # logo'
    BY <1>1, <1>2, <1>7 DEF Fits, Apart
  <2> QED BY <1>1, <1>7, <1>8, <2>1, LogoKeeps
<1>9. \A q \in Callers \ {p} : Apart(r, call[q]) /\ Apart(call[q], r)
  BY <1>5, <1>7 DEF Apart, Fits, AppLock, ProgramLock, LogoLock
<1>10. CallsOK'
  BY <1>1, <1>4, <1>5, <1>6, <1>8, <1>9, Goes
<1> QED BY <1>3, <1>10

\* A file that is deleted is not the logo, nor one that is just being put in its place.
LEMMA DeleteStep ==
  ASSUME AppDirectoryAssumption, LogoOK, CallsOK, NEW p \in Callers, uploadFail(p) \/ prune(p)
  PROVE  LogoOK' /\ CallsOK'
<1>1. /\ UNCHANGED <<directory, member>> /\ local' = local /\ logo' = logo
      /\ call[p] \in Call /\ Fits(call[p]) /\ Finish(p)
  BY DEF uploadFail, prune, directory, CallsOK
<1>2. /\ files' \subseteq Files /\ LogoStored'
      /\ \A q \in Callers \ {p} :
           /\ call[q].step = "uploading" => call[q].file \in files'
           /\ (call[q].step = "pruning" /\ ~local /\ call[q].previous # None) =>
                call[q].previous \in files'
  <2>1. CASE uploadFail(p)
    <3>1. files' = files \ {call[p].file} /\ call[p].step = "uploading" /\ call[p].file # logo
      BY <1>1, <2>1 DEF uploadFail, At, Fits
    <3>2. ASSUME NEW q \in Callers \ {p}
          PROVE  Fits(call[q]) /\ Apart(call[q], call[p])
      BY DEF CallsOK
    <3> QED BY <1>1, <3>1, <3>2 DEF LogoOK, LogoStored, Fits, Apart, LogoLock
  <2>2. CASE prune(p) /\ local
    <3>1. files' = files \cap {logo}
          /\ \A q \in Callers \ {p} : call[q].step # "uploading"
      BY <2>2 DEF prune, LogoFree, Others, KeepCurrent
    <3> QED BY <1>1, <2>2, <3>1 DEF LogoOK, LogoStored
  <2>3. CASE prune(p) /\ ~local
    <3>1. files' = files \ {call[p].previous} /\ call[p].step = "pruning"
          /\ (call[p].previous # None => call[p].previous # logo)
      BY <1>1, <2>3 DEF prune, At, Fits
    <3>2. ASSUME NEW q \in Callers \ {p}
          PROVE  Fits(call[q]) /\ Apart(call[p], call[q])
      BY DEF CallsOK
    <3>3. None \notin files
      BY DEF LogoOK, AppDirectoryAssumption
    <3> QED BY <1>1, <2>3, <3>1, <3>2, <3>3 DEF LogoOK, LogoStored, Fits, Apart
  <2> QED BY <2>1, <2>2, <2>3
<1>3. LogoOK'
  BY <1>1, <1>2 DEF LogoOK
<1>4. ASSUME NEW q \in Callers \ {p}, call'[q] = call[q]
      PROVE  Fits(call[q])'
  <2>1. Fits(call[q])
    BY DEF CallsOK
  <2> QED BY <1>1, <1>2, <1>4, <2>1, LogoKeeps DEF Fits
<1> QED BY <1>1, <1>3, <1>4, WritesAndEnds

-----------------------------------------------------------------------------
(* The theorems.                                                           *)

\* The invariant holds at first.
LEMMA InitInv ==
  ASSUME AppDirectoryAssumption, Init
  PROVE  IInv
<1>1. program \in [Programs -> ProgramRow] /\ \A g \in Programs : ~program[g].default
  BY DEF Init, NoProgram, ProgramRow, Approvals
<1>2. DirectoryOK
  <2>1. Defaults = {} /\ OneDefaultProgram
    BY <1>1 DEF Defaults, OneDefaultProgram
  <2>2. agreement \in 0 .. MaxAgreement /\ requests \in 0 .. MaxRequests
    BY DEF Init, AppDirectoryAssumption
  <2>3. visible \in BOOLEAN
    BY DEF Init
  <2> QED BY <1>1, <2>1, <2>2, <2>3 DEF DirectoryOK
<1>3. MembersOK
  BY DEF Init, MembersOK, NoMember, MemberRow
<1>4. LogoOK
  BY DEF Init, LogoOK, LogoStored
<1>5. CallsOK
  BY IdleFits, NoLock DEF Init, CallsOK
<1> QED BY <1>2, <1>3, <1>4, <1>5 DEF IInv

\* A step that begins a request.
Begins(p) ==
    \/ \E g \in Programs :
         \/ createProgramRead(p, g) \/ setDefaultRead(p, g)
         \/ pauseRead(p, g) \/ resumeRead(p, g) \/ disableRead(p, g)
         \/ \E u \in Users :
              \/ createAffiliateRead(p, g, u)
              \/ \E v \in 1 .. MaxAgreement :
                   joinProgramViaPublicPage(p, g, u, v) \/ joinListedProgramForUser(p, g, u, v)
    \/ \E v \in BOOLEAN : setVisibilityRead(p, v)
    \/ removeLogoRead(p)

\* A step that writes the directory.
Directs ==
    \/ \E p \in Callers :
         \/ createProgramCommit(p) \/ setDefaultCommit(p) \/ setVisibilityCommit(p)
         \/ changeCommit(p) \/ publishAgreement(p)
         \/ \E g \in Programs, open \in BOOLEAN, a \in Approvals : updateProgram(p, g, open, a)
    \/ \E g \in Programs, open \in BOOLEAN, a \in Approvals : createApp(g, open, a)

\* A step that writes the logo.
Draws(p) ==
    \/ \E f \in Files : uploadStore(p, f)
    \/ uploadCommit(p) \/ uploadFail(p) \/ removeLogoCommit(p) \/ prune(p)

\* A step that writes a member.
Enrols ==
    \/ \E p \in Callers : joinCommit(p) \/ createAffiliateInsert(p) \/ recordAcceptance(p)
    \/ \E g \in Programs, u \in Users :
         approvePendingAffiliate(g, u) \/ disableAffiliate(g, u) \/ enableAffiliate(g, u)

\* Every step is one of these.
LEMMA StepKinds ==
  ASSUME [Next]_vars
  PROVE  \/ \E p \in Callers :
              \/ Begins(p) \/ Draws(p) \/ joinLockProgram(p) \/ joinLockApp(p)
              \/ deadlockVictim(p) \/ Crash(p)
         \/ Directs \/ Enrols \/ UNCHANGED vars
  BY DEF Next, Begins, Draws, Directs, Enrols

\* A step that begins a request counts it.
LEMMA BeginStep ==
  ASSUME AppDirectoryAssumption, DirectoryOK, LogoOK, CallsOK, NEW p \in Callers, Begins(p)
  PROVE  CallsOK' /\ UNCHANGED state /\ requests' \in 0 .. MaxRequests
<1>1. CallsOK'
  BY ReadAppStep, ReadStep, ReadLogoStep DEF Begins
<1>2. UNCHANGED state /\ Request
  BY DEF Begins, createProgramRead, setDefaultRead, pauseRead, resumeRead, disableRead,
         createAffiliateRead, joinProgramViaPublicPage, joinListedProgramForUser,
         setVisibilityRead, removeLogoRead, Begin, state
<1> QED BY <1>1, <1>2 DEF Request, DirectoryOK, AppDirectoryAssumption

\* A step that writes the directory leaves the rest.
LEMMA DirectStep ==
  ASSUME AppDirectoryAssumption, DirectoryOK, CallsOK, Directs
  PROVE  DirectoryOK' /\ CallsOK' /\ UNCHANGED <<member, image>>
<1>1. DirectoryOK' /\ CallsOK'
  BY CreateAppStep, CreateStep, DefaultStep, ShowStep, StatusStep, UpdateStep, AgreementStep
     DEF Directs
<1>2. UNCHANGED <<member, image>>
  BY DEF Directs, createProgramCommit, setDefaultCommit, setVisibilityCommit, changeCommit,
         publishAgreement, updateProgram, createApp
<1> QED BY <1>1, <1>2

\* A step that writes the logo leaves the rest.
LEMMA DrawStep ==
  ASSUME AppDirectoryAssumption, DirectoryOK, LogoOK, CallsOK, NEW p \in Callers, Draws(p)
  PROVE  /\ LogoOK' /\ CallsOK' /\ UNCHANGED <<directory, member>>
         /\ requests' \in 0 .. MaxRequests
<1>1. LogoOK' /\ CallsOK'
  BY StoreStep, ReplaceStep, DeleteStep DEF Draws
<1>2. UNCHANGED <<directory, member>> /\ (Request \/ requests' = requests)
  BY DEF Draws, uploadStore, uploadCommit, uploadFail, removeLogoCommit, prune, Begin, Finish,
         GoTo, directory
<1> QED BY <1>1, <1>2 DEF Request, DirectoryOK, AppDirectoryAssumption

\* A step that writes a member leaves the rest; who joins accepts what is in force.
LEMMA EnrolStep ==
  ASSUME AppDirectoryAssumption, DirectoryOK, MembersOK, CallsOK, Enrols
  PROVE  /\ DirectoryOK' /\ MembersOK' /\ CallsOK' /\ UNCHANGED <<directory, image>>
         /\ \A g \in Programs, u \in Users :
              (member[g][u].status = "none" /\ member'[g][u].accepted # {})
                => member'[g][u].accepted = {agreement'}
<1>1. UNCHANGED <<directory, image>>
  BY DEF Enrols, joinCommit, createAffiliateInsert, recordAcceptance, approvePendingAffiliate,
         disableAffiliate, enableAffiliate, changeMember, directory
<1>2. agreement' = agreement
  BY <1>1 DEF directory
<1>3. ASSUME NEW p \in Callers, joinCommit(p)
      PROVE  /\ DirectoryOK' /\ MembersOK' /\ CallsOK'
             /\ \A g \in Programs, u \in Users :
                  (member[g][u].status = "none" /\ member'[g][u].accepted # {})
                    => member'[g][u].accepted = {agreement'}
  <2>1. requests' = requests
    BY <1>3 DEF joinCommit, Finish
  <2>2. DirectoryOK'
    BY <1>1, <2>1 DEF DirectoryOK, OneDefaultProgram, Defaults, Exists, directory
  <2>3. MembersOK' /\ CallsOK'
    BY <1>3, JoinStep
  <2>4. ASSUME NEW g \in Programs, NEW u \in Users,
               member[g][u].status = "none", member'[g][u].accepted # {}
        PROVE  member'[g][u].accepted = {agreement'}
    <3>1. member'[g][u].status # "none" /\ member[g][u].accepted = {}
      BY <2>3, <2>4 DEF MembersOK
    <3>2. member'[g][u] = member[g][u] \/ member'[g][u].accepted = {agreement}
      BY <1>3, <3>1, JoinStep
    <3> QED BY <1>2, <2>4, <3>1, <3>2
  <2> QED BY <2>2, <2>3, <2>4
<1>4. ASSUME NEW p \in Callers, createAffiliateInsert(p) \/ recordAcceptance(p)
      PROVE  /\ DirectoryOK' /\ MembersOK' /\ CallsOK'
             /\ \A g \in Programs, u \in Users :
                  member[g][u].status = "none" => member'[g][u].accepted = {}
  <2>1. requests' = requests
    BY <1>4 DEF createAffiliateInsert, recordAcceptance, Finish, GoTo
  <2>2. DirectoryOK'
    BY <1>1, <2>1 DEF DirectoryOK, OneDefaultProgram, Defaults, Exists, directory
  <2> QED BY <1>4, <2>2, AddStep, AcceptStep
<1> QED BY <1>1, <1>3, <1>4, ChangeMemberStep DEF Enrols

\* Every step of the specification keeps the invariant.
LEMMA NextInv ==
  ASSUME AppDirectoryAssumption, IInv, [Next]_vars
  PROVE  IInv'
<1>1. DirectoryOK /\ MembersOK /\ LogoOK /\ CallsOK
  BY DEF IInv
<1>2. ASSUME UNCHANGED directory, requests' \in 0 .. MaxRequests
      PROVE  DirectoryOK'
  BY <1>1, <1>2 DEF DirectoryOK, OneDefaultProgram, Defaults, Exists, directory
<1>3. ASSUME UNCHANGED member
      PROVE  MembersOK'
  BY <1>1, <1>3 DEF MembersOK
<1>4. ASSUME UNCHANGED image
      PROVE  LogoOK'
  BY <1>1, <1>4 DEF LogoOK, LogoStored, image
<1>5. ASSUME CallsOK', UNCHANGED state, requests' \in 0 .. MaxRequests
      PROVE  IInv'
  <2>1. UNCHANGED directory /\ UNCHANGED member /\ UNCHANGED image
    BY <1>5 DEF state, directory
  <2> QED BY <1>2, <1>3, <1>4, <1>5, <2>1 DEF IInv
<1>6. ASSUME NEW p \in Callers, Begins(p)
      PROVE  IInv'
  BY <1>1, <1>5, <1>6, BeginStep
<1>7. ASSUME NEW p \in Callers, joinLockProgram(p) \/ joinLockApp(p) \/ deadlockVictim(p) \/ Crash(p)
      PROVE  IInv'
  <2>1. UNCHANGED state /\ requests' = requests
    BY <1>7 DEF joinLockProgram, joinLockApp, deadlockVictim, Crash, GoTo, Finish, state
  <2>2. CallsOK'
    BY <1>1, <1>7, JoinLockStep, EndStep
  <2>3. requests' \in 0 .. MaxRequests
    BY <1>1, <2>1 DEF DirectoryOK
  <2> QED BY <1>5, <2>1, <2>2, <2>3
<1>8. ASSUME NEW p \in Callers, Draws(p)
      PROVE  IInv'
  <2>1. LogoOK' /\ CallsOK' /\ UNCHANGED directory /\ UNCHANGED member
        /\ requests' \in 0 .. MaxRequests
    BY <1>1, <1>8, DrawStep
  <2> QED BY <1>2, <1>3, <2>1 DEF IInv
<1>9. CASE Directs
  <2>1. DirectoryOK' /\ CallsOK' /\ UNCHANGED member /\ UNCHANGED image
    BY <1>1, <1>9, DirectStep
  <2> QED BY <1>3, <1>4, <2>1 DEF IInv
<1>10. CASE Enrols
  <2>1. DirectoryOK' /\ MembersOK' /\ CallsOK' /\ UNCHANGED image
    BY <1>1, <1>10, EnrolStep
  <2> QED BY <1>4, <2>1 DEF IInv
<1>11. CASE UNCHANGED vars
  <2>1. UNCHANGED state /\ requests' = requests /\ call' = call
    BY <1>11 DEF vars, state, image
  <2>2. CallsOK'
    BY <1>1, <2>1 DEF CallsOK, Fits, Apart, Defaults, Open, PageOpen, Listed, state, image
  <2>3. requests' \in 0 .. MaxRequests
    BY <1>1, <2>1 DEF DirectoryOK
  <2> QED BY <1>5, <2>1, <2>2, <2>3
<1> QED BY <1>6, <1>7, <1>8, <1>9, <1>10, <1>11, StepKinds

\* It holds always.
LEMMA Invariance == Spec => []IInv
<1>1. Init => IInv
  BY InitInv, AppDirectoryAssumption
<1>2. IInv /\ [Next]_vars => IInv'
  BY NextInv, AppDirectoryAssumption
<1> QED BY <1>1, <1>2, PTL DEF Spec

\* Programs, members, logo and files keep their types.
THEOREM TypesHold == Spec => []TypeOK
<1>1. IInv => TypeOK
  BY DEF IInv, DirectoryOK, ProgramRow, MembersOK, MemberRow, LogoOK, TypeOK
<1> QED BY <1>1, Invariance, PTL

\* Whatever requests about programs overlap, at most one is the default one.
THEOREM DefaultIsUnique == Spec => []OneDefaultProgram
<1>1. IInv => OneDefaultProgram
  BY DEF IInv, DirectoryOK
<1> QED BY <1>1, Invariance, PTL

\* Whatever uploads, removals and clean-ups overlap, the logo that is shown is stored.
THEOREM LogoIsStored == Spec => []LogoStored
<1>1. IInv => LogoStored
  BY DEF IInv, LogoOK
<1> QED BY <1>1, Invariance, PTL

\* Who joins has accepted the agreement that is in force at that moment.
THEOREM JoinsAcceptCurrent == Spec => JoinAcceptsCurrent
<1> DEFINE Current == \A g \in Programs, u \in Users :
              (member[g][u].status = "none" /\ member'[g][u].accepted # {})
                => member'[g][u].accepted = {agreement'}
<1>1. ASSUME IInv, [Next]_vars
      PROVE  Current
  <2>1. CASE UNCHANGED member
    BY <1>1, <2>1 DEF IInv, MembersOK
  <2>2. CASE Enrols
    BY <1>1, <2>2, EnrolStep, AppDirectoryAssumption DEF IInv
  <2>3. CASE Directs
    BY <1>1, <2>1, <2>3, DirectStep, AppDirectoryAssumption DEF IInv
  <2>4. ASSUME NEW p \in Callers, Begins(p)
        PROVE  Current
    BY <1>1, <2>1, <2>4, BeginStep, AppDirectoryAssumption DEF IInv, state
  <2>5. ASSUME NEW p \in Callers, Draws(p)
        PROVE  Current
    BY <1>1, <2>1, <2>5, DrawStep, AppDirectoryAssumption DEF IInv
  <2>6. ASSUME NEW p \in Callers,
               joinLockProgram(p) \/ joinLockApp(p) \/ deadlockVictim(p) \/ Crash(p)
        PROVE  Current
    BY <2>1, <2>6 DEF joinLockProgram, joinLockApp, deadlockVictim, Crash
  <2>7. CASE UNCHANGED vars
    BY <2>1, <2>7 DEF vars
  <2> HIDE DEF Current
  <2> QED BY <1>1, <2>2, <2>3, <2>4, <2>5, <2>6, <2>7, StepKinds
<1>2. IInv /\ [Next]_vars => [Current]_vars
  BY <1>1
<1> QED BY <1>2, Invariance, PTL DEF Spec, JoinAcceptsCurrent

\* A join that is past its checks finds the program as open as it was then.
THEOREM JoinsAreOpen == Spec => JoinsWhereOpen
<1> DEFINE Where(p) == (call[p].step = "enrolling" /\ member' # member)
                => IF call[p].network
                   THEN visible /\ program[call[p].program].default /\ program[call[p].program].status = "active"
                   ELSE program[call[p].program].status \in {"active", "paused"}
                        /\ program[call[p].program].open
<1>1. ASSUME IInv, [Next]_vars
      PROVE  \A p \in Callers : Where(p)
  BY <1>1 DEF IInv, CallsOK, Fits, Open, Listed, PageOpen
<1>2. IInv /\ [Next]_vars => [\A p \in Callers : Where(p)]_vars
  BY <1>1
<1> QED BY <1>2, Invariance, PTL DEF Spec, JoinsWhereOpen
=============================================================================

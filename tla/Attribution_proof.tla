-------------------------- MODULE Attribution_proof --------------------------
(***************************************************************************)
(* Referrals, their terms and the redactions, for any number of requests,   *)
(* customers, clicks, affiliates and versions of the terms.                 *)
(***************************************************************************)
EXTENDS Attribution, TLAPS

CaptureCall == [step : {"capture"}, aff : Affiliates]
IdentifyCall == [step : {"customer", "insert", "reselect"}, person : People,
                 aff : Affiliates, click : Clicks \cup {None}]
ReferralCall == [step : {"referral", "open", "inserted"}, row : Customers,
                 aff : Affiliates, click : Clicks \cup {None}]
PinnedCall == [step : {"pinned"}, row : Customers, aff : Affiliates,
               click : Clicks \cup {None}, version : 1 .. MaxVersion]
AnswerCall == [step : {"answer"}, row : Customers, aff : Affiliates]
PublishCall == [step : {"publishing"}, version : 1 .. (MaxVersion - 1)]
EraseCall == [step : {"erasing"}, row : Customers, clicks : SUBSET Clicks]
WipeCall == [step : {"wiping"}, rows : SUBSET Customers]
Call == {Idle} \cup CaptureCall \cup IdentifyCall \cup ReferralCall \cup PinnedCall
        \cup AnswerCall \cup PublishCall \cup EraseCall \cup WipeCall

-----------------------------------------------------------------------------
(* The invariant.                                                          *)

Live == {"kept", "scrubbed"}
AdminOK ==
    /\ connection \in {"active", "suspended", "uninstalled", "redacted"}
    /\ program \in {"active", "paused", "disabled"}
    /\ active \subseteq Affiliates
    /\ version \in 1 .. MaxVersion
    /\ changes \in 0 .. MaxChanges

ClickRow == [status : {"none", "kept", "scrubbed", "gone"}, aff : Affiliates \cup {None}]
CustomerRow == [status : {"none", "kept", "gone"}, person : People \cup {None}]
ReferralRow == [aff : Affiliates, click : Clicks \cup {None}, via : Clicks \cup {None},
                version : 1 .. MaxVersion, anonymous : BOOLEAN]
RowTypes ==
    /\ click \in [Clicks -> ClickRow]
    /\ customer \in [Customers -> CustomerRow]
    /\ referral \in [Customers -> {NoReferral} \cup ReferralRow]
Owned == \A k \in Clicks : click[k].status # "none" => click[k].aff \in Affiliates

\* A referral has its click as long as the click is there, and remembers no click
\* that still tracks once it has lost it; it is anonymous when its customer is gone.
RowFits(r) ==
    /\ referral[r].anonymous => customer[r].status = "gone"
    /\ referral[r].click # None =>
         referral[r].via = referral[r].click /\ click[referral[r].click].status \in Live
    /\ (referral[r].via # None /\ referral[r].click = None) =>
         click[referral[r].via].status \in {"scrubbed", "gone"}
    /\ (customer[r].status = "gone" /\ referral[r].aff # None) =>
         referral[r].anonymous /\ referral[r].click = None
DataOK == RowTypes /\ Owned /\ TrackingRemoved /\ \A r \in Customers : RowFits(r)

\* What a request still relies on when it writes, thanks to the locks it holds.
Fits(c) ==
    /\ c.step \in {"inserted", "pinned"} =>
         /\ customer[c.row].status = "kept" /\ referral[c.row].aff = None
         /\ c.click # None => click[c.click].status \in Live
    /\ c.step = "pinned" => c.version = version
    /\ c.step = "erasing" => c.clicks = {referral[c.row].click} \ {None}
    /\ c.step = "answer" => c.aff = referral[c.row].aff
    /\ connection = "redacted" => c.step \notin {"erasing", "wiping"}

Exclusive == {"pinned", "publishing", "wiping"}
OnRow == {"inserted", "pinned", "erasing"}
\* Two requests do not hold locks that exclude each other.
Apart(c, d) ==
    /\ c.step \in Exclusive => d.step \notin Exclusive \cup {"inserted"}
    /\ (c.step \in OnRow /\ d.step \in OnRow) => c.row # d.row
CallsOK ==
    /\ call \in [Callers -> Call]
    /\ \A p \in Callers : Fits(call[p])
    /\ \A p, q \in Callers : p # q => Apart(call[p], call[q])

IInv == AdminOK /\ DataOK /\ CallsOK

-----------------------------------------------------------------------------
(* Requests.                                                               *)

\* What a request carries at each of its steps.
LEMMA CallAt ==
  ASSUME NEW c \in Call
  PROVE  /\ c.step = "capture" => c \in CaptureCall
         /\ c.step \in {"customer", "insert", "reselect"} => c \in IdentifyCall
         /\ c.step \in {"referral", "open", "inserted"} => c \in ReferralCall
         /\ c.step = "pinned" => c \in PinnedCall
         /\ c.step = "answer" => c \in AnswerCall
         /\ c.step = "publishing" => c \in PublishCall
         /\ c.step = "erasing" => c \in EraseCall
         /\ c.step = "wiping" => c \in WipeCall
  BY DEF Call, Idle, CaptureCall, IdentifyCall, ReferralCall, PinnedCall, AnswerCall,
         PublishCall, EraseCall, WipeCall

\* A request without a lock is apart from every other.
LEMMA NoLock ==
  ASSUME NEW c, NEW d, c.step \notin Exclusive \cup OnRow
  PROVE  Apart(c, d) /\ Apart(d, c)
  BY DEF Apart, Exclusive, OnRow

\* Having no request relies on nothing.
LEMMA IdleFits ==
  /\ Idle \in Call /\ Fits(Idle)
  /\ Idle.step \notin Exclusive \cup OnRow
  BY DEF Call, Fits, Idle, Exclusive, OnRow

\* A request goes to another step; the others still have what they rely on.
LEMMA Goes ==
  ASSUME CallsOK, NEW p \in Callers, NEW r \in Call, call' = [call EXCEPT ![p] = r],
         call'[p] = r => Fits(call[p])',
         \A q \in Callers \ {p} : call'[q] = call[q] => Fits(call[q])',
         \A q \in Callers \ {p} : Apart(r, call[q]) /\ Apart(call[q], r)
  PROVE  CallsOK'
<1>1. call' \in [Callers -> Call] /\ call'[p] = r /\ \A q \in Callers \ {p} : call'[q] = call[q]
  BY DEF CallsOK
<1>2. \A q \in Callers : Fits(call[q])'
  BY <1>1
<1>3. ASSUME NEW q1 \in Callers, NEW q2 \in Callers, q1 # q2
      PROVE  Apart(call'[q1], call'[q2])
  <2>1. CASE q1 = p
    BY <1>1, <1>3, <2>1
  <2>2. CASE q2 = p
    BY <1>1, <1>3, <2>2
  <2>3. CASE q1 # p /\ q2 # p
    <3>1. call'[q1] = call[q1] /\ call'[q2] = call[q2]
      BY <1>1, <2>3
    <3> QED BY <1>3, <3>1 DEF CallsOK
  <2> QED BY <2>1, <2>2, <2>3
<1>4. \A q1, q2 \in Callers : q1 # q2 => Apart(call[q1], call[q2])'
  BY <1>3 DEF Apart
<1> QED BY <1>1, <1>2, <1>4 DEF CallsOK

\* A request that only moves leaves the rest as it is.
LEMMA Moves ==
  ASSUME CallsOK, NEW p \in Callers, NEW r \in Call, call' = [call EXCEPT ![p] = r], Fits(r),
         \A q \in Callers \ {p} : Apart(r, call[q]) /\ Apart(call[q], r),
         UNCHANGED <<connection, version, data>>
  PROVE  CallsOK'
<1>1. connection' = connection /\ version' = version /\ click' = click /\ customer' = customer
      /\ referral' = referral
  BY DEF data
<1>2. call'[p] = r => Fits(call[p])'
  BY <1>1 DEF Fits
<1>3. ASSUME NEW q \in Callers \ {p}, call'[q] = call[q]
      PROVE  Fits(call[q])'
  BY <1>1, <1>3 DEF Fits, CallsOK
<1> QED BY <1>2, <1>3, Goes

\* A request that takes no lock needs only rely on what holds.
LEMMA MovesFree ==
  ASSUME CallsOK, NEW p \in Callers, NEW r \in Call, call' = [call EXCEPT ![p] = r], Fits(r),
         r.step \notin Exclusive \cup OnRow, UNCHANGED <<connection, version, data>>
  PROVE  CallsOK'
<1>1. \A q \in Callers \ {p} : Apart(r, call[q]) /\ Apart(call[q], r)
  BY NoLock
<1> QED BY <1>1, Moves

\* A request begins without a lock.
LEMMA StartStep ==
  ASSUME DataOK, CallsOK, NEW p \in Callers,
         \/ \E a \in Affiliates : captureCheck(p, a)
         \/ \E x \in People, k \in Clicks : identifyByClick(p, x, k)
         \/ \E x \in People, a \in Affiliates : identifyByCode(p, x, a)
  PROVE  CallsOK'
<1>1. UNCHANGED <<connection, version, data>>
  BY DEF captureCheck, identifyByClick, identifyByCode, admin
<1>2. ASSUME NEW a \in Affiliates, captureCheck(p, a)
      PROVE  CallsOK'
  <2> DEFINE r == [step |-> "capture", aff |-> a]
  <2>1. call' = [call EXCEPT ![p] = r]
    BY <1>2 DEF captureCheck, Begin
  <2>2. r \in Call /\ Fits(r) /\ r.step \notin Exclusive \cup OnRow
    BY DEF Call, CaptureCall, Fits, Exclusive, OnRow
  <2> HIDE DEF r
  <2> QED BY <1>1, <2>1, <2>2, MovesFree
<1>3. ASSUME NEW x \in People, NEW a \in Affiliates, NEW k \in Clicks \cup {None},
             call' = [call EXCEPT ![p] =
                        [step |-> "customer", person |-> x, aff |-> a, click |-> k]]
      PROVE  CallsOK'
  <2> DEFINE r == [step |-> "customer", person |-> x, aff |-> a, click |-> k]
  <2>2. r \in Call /\ Fits(r) /\ r.step \notin Exclusive \cup OnRow
    BY DEF Call, IdentifyCall, Fits, Exclusive, OnRow
  <2>3. call' = [call EXCEPT ![p] = r]
    BY <1>3
  <2> HIDE DEF r
  <2> QED BY <1>1, <2>2, <2>3, MovesFree
<1>4. ASSUME NEW x \in People, NEW k \in Clicks, identifyByClick(p, x, k)
      PROVE  CallsOK'
  <2>1. click[k].aff \in Affiliates
    BY <1>4 DEF identifyByClick, DataOK, Owned
  <2> QED BY <1>3, <1>4, <2>1 DEF identifyByClick, Begin
<1>5. ASSUME NEW x \in People, NEW a \in Affiliates, identifyByCode(p, x, a)
      PROVE  CallsOK'
  BY <1>3, <1>5 DEF identifyByCode, Begin
<1> QED BY <1>2, <1>4, <1>5

\* A request looks for the customer and for its referral.
LEMMA LookupStep ==
  ASSUME DataOK, CallsOK, NEW p \in Callers,
         \/ customerSelect(p, "customer", [call[p] EXCEPT !.step = "insert"])
         \/ customerSelect(p, "reselect", Idle)
         \/ referralSelect(p)
  PROVE  CallsOK'
<1>1. UNCHANGED <<connection, version, data>> /\ call[p] \in Call
  BY DEF customerSelect, referralSelect, admin, CallsOK
<1>2. ASSUME NEW otherwise \in Call, Fits(otherwise), otherwise.step \notin Exclusive \cup OnRow,
             NEW step \in {"customer", "reselect"}, customerSelect(p, step, otherwise)
      PROVE  CallsOK'
  <2>1. call[p] \in IdentifyCall
    BY <1>1, <1>2, CallAt DEF customerSelect, At
  <2>2. CASE RowsOf(call[p].person) = {}
    BY <1>1, <1>2, <2>2, MovesFree DEF customerSelect
  <2>3. CASE RowsOf(call[p].person) # {}
    <3> DEFINE row == CHOOSE r \in RowsOf(call[p].person) : TRUE
               next == [step |-> "referral", row |-> row, aff |-> call[p].aff,
                        click |-> call[p].click]
    <3>1. row \in Customers
      BY <2>3 DEF RowsOf
    <3>2. call' = [call EXCEPT ![p] = next]
      BY <1>2, <2>3 DEF customerSelect, WithRow
    <3> HIDE DEF row
    <3>3. next \in Call /\ Fits(next) /\ next.step \notin Exclusive \cup OnRow
      BY <2>1, <3>1 DEF Call, IdentifyCall, ReferralCall, Fits, Exclusive, OnRow
    <3> HIDE DEF next
    <3> QED BY <1>1, <3>2, <3>3, MovesFree
  <2> QED BY <2>2, <2>3
<1>3. CASE customerSelect(p, "customer", [call[p] EXCEPT !.step = "insert"])
  <2> DEFINE r == [call[p] EXCEPT !.step = "insert"]
  <2>1. call[p] \in IdentifyCall
    BY <1>1, <1>3, CallAt DEF customerSelect, At
  <2>2. r \in IdentifyCall /\ r.step = "insert"
    BY <2>1 DEF IdentifyCall
  <2> HIDE DEF r
  <2>3. r \in Call /\ Fits(r) /\ r.step \notin Exclusive \cup OnRow
    BY <2>2 DEF Call, Fits, Exclusive, OnRow
  <2> QED BY <1>2, <1>3, <2>3 DEF r
<1>4. CASE customerSelect(p, "reselect", Idle)
  BY <1>2, <1>4, IdleFits
<1>5. CASE referralSelect(p)
  <2>1. call[p] \in ReferralCall
    BY <1>1, <1>5, CallAt DEF referralSelect, At
  <2>2. PICK r \in Call : /\ call' = [call EXCEPT ![p] = r] /\ Fits(r)
                          /\ r.step \notin Exclusive \cup OnRow
    <3>1. CASE HasReferral(call[p].row)
      <4> DEFINE r == [step |-> "answer", row |-> call[p].row, aff |-> referral[call[p].row].aff]
      <4>1. call' = [call EXCEPT ![p] = r]
        BY <1>5, <3>1 DEF referralSelect, Answer
      <4>2. referral[call[p].row].aff \in Affiliates /\ call[p].row \in Customers
        BY <2>1, <3>1 DEF HasReferral, DataOK, RowTypes, ReferralRow, ReferralCall, NoReferral
      <4>3. r \in Call /\ Fits(r) /\ r.step \notin Exclusive \cup OnRow
        BY <4>2 DEF Call, AnswerCall, Fits, Exclusive, OnRow
      <4> QED BY <4>1, <4>3
    <3>2. CASE ~HasReferral(call[p].row)
      <4> DEFINE r == [step |-> "open", row |-> call[p].row, aff |-> call[p].aff,
                       click |-> call[p].click]
      <4>1. call' = [call EXCEPT ![p] = r]
        BY <1>5, <3>2 DEF referralSelect, WithRow
      <4>2. r \in Call /\ Fits(r) /\ r.step \notin Exclusive \cup OnRow
        BY <2>1 DEF Call, ReferralCall, Fits, Exclusive, OnRow
      <4> QED BY <4>1, <4>2
    <3> QED BY <3>1, <3>2
  <2> QED BY <1>1, <2>2, MovesFree
<1> QED BY <1>3, <1>4, <1>5

\* The transaction of an identify locks the customer, the click and the program, and
\* finds no referral of a customer who is there.
LEMMA InsertStep ==
  ASSUME DataOK, CallsOK, NEW p \in Callers, referralInsert(p)
  PROVE  CallsOK'
<1> DEFINE row == call[p].row
<1>1. UNCHANGED <<connection, version, data>> /\ call[p] \in ReferralCall
  BY CallAt DEF referralInsert, admin, CallsOK, At
<1>2. row \in Customers
  BY <1>1 DEF ReferralCall
<1>3. CASE ~KeyExists(p)
  BY <1>1, <1>3, IdleFits, MovesFree DEF referralInsert
<1>4. CASE KeyExists(p) /\ HasReferral(row)
  <2> DEFINE r == [step |-> "answer", row |-> row, aff |-> referral[row].aff]
  <2>1. call' = [call EXCEPT ![p] = r]
    BY <1>4 DEF referralInsert, Answer, KeepsFirst
  <2>2. referral[row].aff \in Affiliates
    BY <1>2, <1>4 DEF HasReferral, DataOK, RowTypes, ReferralRow, NoReferral
  <2>3. r \in Call /\ Fits(r) /\ r.step \notin Exclusive \cup OnRow
    BY <1>2, <2>2 DEF Call, AnswerCall, Fits, Exclusive, OnRow
  <2> HIDE DEF r
  <2> QED BY <1>1, <2>1, <2>3, MovesFree
<1>5. CASE KeyExists(p) /\ ~HasReferral(row)
  <2> DEFINE r == [step |-> "inserted", row |-> row, aff |-> call[p].aff, click |-> call[p].click]
  <2>1. call' = [call EXCEPT ![p] = r]
    BY <1>5 DEF referralInsert, WithRow, KeepsFirst
  <2>2. /\ customer[row].status = "kept" /\ referral[row].aff = None
        /\ call[p].click # None => click[call[p].click].status \in Live
    BY <1>2, <1>5 DEF KeyExists, HasReferral, DataOK, RowFits, Live
  <2>3. r \in Call /\ Fits(r)
    BY <1>1, <2>2 DEF Call, ReferralCall, Fits
  <2>4. ASSUME NEW q \in Callers \ {p}
        PROVE  /\ call[q].step \notin Exclusive
               /\ call[q].step \in OnRow => call[q].row # row
    BY DEF referralInsert, ProgramShareable, Others, HoldersOf, Exclusive, OnRow
  <2>5. \A q \in Callers \ {p} : Apart(r, call[q]) /\ Apart(call[q], r)
    BY <2>4 DEF Apart, Exclusive
  <2> HIDE DEF r
  <2> QED BY <1>1, <2>1, <2>3, <2>5, Moves
<1> QED BY <1>3, <1>4, <1>5

\* A request that changes a lock of a referral for the exclusive one of the program.
LEMMA PinStep ==
  ASSUME AdminOK, CallsOK, NEW p \in Callers, pinTerms(p)
  PROVE  CallsOK'
<1> DEFINE r == [step |-> "pinned", row |-> call[p].row, aff |-> call[p].aff,
                 click |-> call[p].click, version |-> version]
<1>1. /\ UNCHANGED <<connection, version, data>> /\ call[p] \in ReferralCall
      /\ call[p].step = "inserted" /\ Fits(call[p])
  BY CallAt DEF pinTerms, admin, CallsOK, At
<1>2. call' = [call EXCEPT ![p] = r]
  BY DEF pinTerms, CurrentTerms
<1>3. r \in Call
  BY <1>1 DEF Call, ReferralCall, PinnedCall, AdminOK
<1>4. Fits(r)
  BY <1>1 DEF Fits
<1>5. ASSUME NEW q \in Callers \ {p}
      PROVE  /\ call[q].step \notin Exclusive \cup {"inserted"}
             /\ call[q].step \in OnRow => call[q].row # call[p].row
  <2>1. Apart(call[p], call[q])
    BY DEF CallsOK
  <2> QED BY <1>1, <2>1 DEF pinTerms, ProgramFree, Others, Exclusive, OnRow, Apart
<1>6. \A q \in Callers \ {p} : Apart(r, call[q]) /\ Apart(call[q], r)
  BY <1>5 DEF Apart, Exclusive, OnRow
<1> HIDE DEF r
<1> QED BY <1>1, <1>2, <1>3, <1>4, <1>6, Moves

\* A publication locks the program.
LEMMA PublishLockStep ==
  ASSUME AttributionAssumption, AdminOK, CallsOK, NEW p \in Callers, publishLock(p)
  PROVE  CallsOK'
<1> DEFINE r == [step |-> "publishing", version |-> version]
<1>1. UNCHANGED <<connection, version, data>> /\ call' = [call EXCEPT ![p] = r]
  BY DEF publishLock, admin, Begin
<1>2. version \in 1 .. (MaxVersion - 1)
  BY DEF publishLock, AdminOK, AttributionAssumption
<1>3. r \in Call /\ Fits(r)
  BY <1>2 DEF Call, PublishCall, Fits
<1>4. \A q \in Callers \ {p} : call[q].step \notin Exclusive \cup {"inserted"}
  BY DEF publishLock, ProgramFree, Others, Exclusive
<1>5. \A q \in Callers \ {p} : Apart(r, call[q]) /\ Apart(call[q], r)
  BY <1>4 DEF Apart, OnRow
<1> HIDE DEF r
<1> QED BY <1>1, <1>3, <1>5, Moves

\* A redaction of a customer locks its row and reads its click.
LEMMA EraseLockStep ==
  ASSUME DataOK, CallsOK, NEW p \in Callers, NEW x \in People, redactCustomerLock(p, x)
  PROVE  CallsOK'
<1>1. PICK row \in RowsOf(x) :
         /\ SubjectFree(p, row)
         /\ call' = [call EXCEPT ![p] = [step |-> "erasing", row |-> row,
                                         clicks |-> {referral[row].click} \ {None}]]
  BY DEF redactCustomerLock, Begin
<1>2. UNCHANGED <<connection, version, data>> /\ connection # "redacted" /\ row \in Customers
  BY DEF redactCustomerLock, admin, RowsOf
<1> DEFINE r == [step |-> "erasing", row |-> row, clicks |-> {referral[row].click} \ {None}]
<1>3. referral[row].click \in Clicks \cup {None}
  BY <1>2 DEF DataOK, RowTypes, ReferralRow, NoReferral
<1>4. r \in Call /\ Fits(r)
  BY <1>2, <1>3 DEF Call, EraseCall, Fits
<1>5. \A q \in Callers \ {p} : call[q].step \in OnRow => call[q].row # row
  BY <1>1 DEF SubjectFree, HoldersOf, OnRow
<1>6. \A q \in Callers \ {p} : Apart(r, call[q]) /\ Apart(call[q], r)
  BY <1>5 DEF Apart, Exclusive
<1>7. call' = [call EXCEPT ![p] = r]
  BY <1>1
<1> HIDE DEF r
<1> QED BY <1>2, <1>4, <1>6, <1>7, Moves

\* The redaction of the connection locks the program.
LEMMA WipeLockStep ==
  ASSUME CallsOK, NEW p \in Callers, redactConnectionLock(p)
  PROVE  CallsOK'
<1> DEFINE r == [step |-> "wiping", rows |-> {s \in Customers : customer[s].status = "kept"}]
<1>1. /\ UNCHANGED <<connection, version, data>> /\ connection # "redacted"
      /\ call' = [call EXCEPT ![p] = r]
  BY DEF redactConnectionLock, admin, Begin
<1>2. r \in Call /\ Fits(r) /\ r.step = "wiping"
  BY <1>1 DEF Call, WipeCall, Fits
<1>3. \A q \in Callers \ {p} : call[q].step \notin Exclusive \cup {"inserted"}
  BY DEF redactConnectionLock, ProgramFree, Others, Exclusive
<1> HIDE DEF r
<1>4. \A q \in Callers \ {p} : Apart(r, call[q]) /\ Apart(call[q], r)
  BY <1>2, <1>3 DEF Apart, OnRow, Exclusive
<1> QED BY <1>1, <1>2, <1>4, Moves

\* A request ends without a change of the data.
LEMMA EndStep ==
  ASSUME CallsOK, NEW p \in Callers, deadlockVictim(p) \/ answerIdentify(p) \/ Crash(p)
  PROVE  CallsOK'
<1>1. UNCHANGED <<connection, version, data>> /\ call' = [call EXCEPT ![p] = Idle]
  BY DEF deadlockVictim, answerIdentify, Crash, Finish, admin
<1> QED BY <1>1, IdleFits, MovesFree

-----------------------------------------------------------------------------
(* The steps that write.                                                   *)

\* A request writes and ends, or goes on without a lock; the others still have what
\* they rely on.
LEMMA WritesFree ==
  ASSUME CallsOK, NEW p \in Callers, NEW r \in Call, call' = [call EXCEPT ![p] = r],
         r.step \notin Exclusive \cup OnRow, call'[p] = r => Fits(call[p])',
         \A q \in Callers \ {p} : call'[q] = call[q] => Fits(call[q])'
  PROVE  CallsOK'
<1>1. \A q \in Callers \ {p} : Apart(r, call[q]) /\ Apart(call[q], r)
  BY NoLock
<1> QED BY <1>1, Goes

\* The same for a request that ends.
LEMMA WritesAndEnds ==
  ASSUME CallsOK, NEW p \in Callers, Finish(p),
         \A q \in Callers \ {p} : call'[q] = call[q] => Fits(call[q])'
  PROVE  CallsOK'
<1>1. call' = [call EXCEPT ![p] = Idle]
  BY DEF Finish
<1>2. call'[p] = Idle => Fits(call[p])'
  BY DEF Fits, Idle
<1> QED BY <1>1, <1>2, IdleFits, WritesFree

\* A capture stores its click only before the redaction of the connection.
LEMMA CaptureStep ==
  ASSUME DataOK, CallsOK, NEW p \in Callers, captureInsert(p)
  PROVE  DataOK' /\ CallsOK'
<1>1. connection' = connection /\ version' = version /\ customer' = customer /\ referral' = referral
  BY DEF captureInsert, admin
<1>2. call[p].aff \in Affiliates
  BY CallAt DEF captureInsert, At, CallsOK, CaptureCall
<1>3. /\ RowTypes' /\ Owned'
      /\ \A k \in Clicks : click[k].status # "none" => click'[k] = click[k]
      /\ connection = "redacted" => click' = click
  <2>1. CASE UNCHANGED click
    BY <1>1, <2>1 DEF DataOK, RowTypes, Owned
  <2>2. CASE LinkExists /\ \E k \in Clicks :
               /\ click[k].status = "none"
               /\ click' = [click EXCEPT ![k] = [status |-> "kept", aff |-> call[p].aff]]
    <3>1. PICK k \in Clicks :
             /\ click[k].status = "none"
             /\ click' = [click EXCEPT ![k] = [status |-> "kept", aff |-> call[p].aff]]
      BY <2>2
    <3>2. [status |-> "kept", aff |-> call[p].aff] \in ClickRow
      BY <1>2 DEF ClickRow
    <3>3. click' \in [Clicks -> ClickRow]
      BY <3>1, <3>2 DEF DataOK, RowTypes
    <3>4. /\ click'[k] = [status |-> "kept", aff |-> call[p].aff]
          /\ \A j \in Clicks \ {k} : click'[j] = click[j]
      BY <3>1 DEF DataOK, RowTypes
    <3> QED BY <1>1, <1>2, <2>2, <3>1, <3>3, <3>4 DEF DataOK, RowTypes, Owned, LinkExists
  <2> QED BY <2>1, <2>2 DEF captureInsert
<1>4. ASSUME NEW r \in Customers
      PROVE  RowFits(r)'
  <2>1. RowFits(r) /\ referral[r].click \in Clicks \cup {None} /\ referral[r].via \in Clicks \cup {None}
    BY DEF DataOK, RowTypes, ReferralRow, NoReferral
  <2> QED BY <1>1, <1>3, <2>1 DEF RowFits, Live
<1>5. TrackingRemoved'
  BY <1>1, <1>3 DEF DataOK, TrackingRemoved
<1>6. ASSUME NEW q \in Callers \ {p}, call'[q] = call[q]
      PROVE  Fits(call[q])'
  <2>1. call[q] \in Call /\ Fits(call[q])
    BY DEF CallsOK
  <2>2. call[q].step \in {"inserted", "pinned"} => call[q].click \in Clicks \cup {None}
    BY <2>1, CallAt DEF ReferralCall, PinnedCall
  <2> QED BY <1>1, <1>3, <1>6, <2>1, <2>2 DEF Fits, Live
<1>7. CallsOK'
  BY <1>6, WritesAndEnds DEF captureInsert
<1> QED BY <1>3, <1>4, <1>5, <1>7 DEF DataOK

\* A new customer has no referral yet, and is not one that was redacted.
LEMMA CustomerStep ==
  ASSUME DataOK, CallsOK, NEW p \in Callers, customerInsert(p)
  PROVE  DataOK' /\ CallsOK'
<1> DEFINE next == [call[p] EXCEPT !.step = "reselect"]
<1>1. /\ connection' = connection /\ version' = version /\ click' = click /\ referral' = referral
      /\ call' = [call EXCEPT ![p] = next]
  BY DEF customerInsert, admin
<1>2. call[p] \in IdentifyCall
  BY CallAt DEF customerInsert, At, CallsOK
<1>3. next \in IdentifyCall /\ next.step = "reselect"
  BY <1>2 DEF IdentifyCall
<1> HIDE DEF next
<1>4. /\ customer' \in [Customers -> CustomerRow]
      /\ \A r \in Customers : customer[r].status # "none" => customer'[r] = customer[r]
      /\ \A r \in Customers : customer[r].status = "none" =>
           customer'[r].status \in {"none", "kept"}
  <2>1. CASE UNCHANGED customer
    BY <2>1 DEF DataOK, RowTypes
  <2>2. CASE \E r \in Customers :
               /\ customer[r].status = "none"
               /\ customer' = [customer EXCEPT ![r] = [status |-> "kept", person |-> call[p].person]]
    <3>1. [status |-> "kept", person |-> call[p].person] \in CustomerRow
      BY <1>2 DEF IdentifyCall, CustomerRow
    <3> QED BY <2>2, <3>1 DEF DataOK, RowTypes
  <2> QED BY <2>1, <2>2 DEF customerInsert
<1>5. RowTypes' /\ Owned' /\ TrackingRemoved'
  BY <1>1, <1>4 DEF DataOK, RowTypes, Owned, TrackingRemoved
<1>6. ASSUME NEW r \in Customers
      PROVE  RowFits(r)'
  BY <1>1, <1>4 DEF DataOK, RowFits
<1>7. next \in Call /\ next.step \notin Exclusive \cup OnRow
  BY <1>3 DEF Call, Exclusive, OnRow
<1>8. call'[p] = next => Fits(call[p])'
  BY <1>3 DEF Fits
<1>9. ASSUME NEW q \in Callers \ {p}, call'[q] = call[q]
      PROVE  Fits(call[q])'
  <2>1. call[q] \in Call /\ Fits(call[q])
    BY DEF CallsOK
  <2>2. call[q].step \in {"inserted", "pinned"} => call[q].row \in Customers
    BY <2>1, CallAt DEF ReferralCall, PinnedCall
  <2> QED BY <1>1, <1>4, <1>9, <2>1, <2>2 DEF Fits
<1>10. CallsOK'
  BY <1>1, <1>7, <1>8, <1>9, WritesFree
<1> QED BY <1>5, <1>6, <1>10 DEF DataOK

\* An identify stores the referral of a customer who had none, with the terms in force.
LEMMA IdentifyStep ==
  ASSUME AdminOK, DataOK, CallsOK, NEW p \in Callers, identifyCommit(p)
  PROVE  DataOK' /\ CallsOK'
<1> DEFINE row == call[p].row
           new == [aff |-> call[p].aff, click |-> call[p].click, via |-> call[p].click,
                   version |-> call[p].version, anonymous |-> FALSE]
<1>1. call[p] \in PinnedCall /\ Fits(call[p]) /\ call[p].step = "pinned"
  BY CallAt DEF identifyCommit, At, CallsOK
<1>2. /\ row \in Customers /\ new \in ReferralRow
      /\ call[p].click \in Clicks \cup {None} /\ call[p].aff \in Affiliates
  BY <1>1 DEF PinnedCall, ReferralRow
<1>3. /\ customer[row].status = "kept" /\ referral[row].aff = None
      /\ call[p].click # None => click[call[p].click].status \in Live
  BY <1>1 DEF Fits
<1>4. /\ connection' = connection /\ version' = version /\ click' = click /\ customer' = customer
      /\ referral' = [referral EXCEPT ![row] = new]
      /\ call' = [call EXCEPT ![p] = Answer(row, call[p].aff)]
  BY DEF identifyCommit, admin
<1>5. /\ referral' \in [Customers -> {NoReferral} \cup ReferralRow]
      /\ referral'[row] = new
      /\ \A r \in Customers \ {row} : referral'[r] = referral[r]
  BY <1>2, <1>4 DEF DataOK, RowTypes
<1>6. new.click = call[p].click /\ new.via = call[p].click /\ ~new.anonymous /\ new.aff = call[p].aff
  OBVIOUS
<1> HIDE DEF new
<1>7. RowTypes' /\ Owned'
  BY <1>4, <1>5 DEF DataOK, RowTypes, Owned
<1>8. ASSUME NEW r \in Customers
      PROVE  RowFits(r)'
  BY <1>3, <1>4, <1>5, <1>6 DEF DataOK, RowFits
<1>9. TrackingRemoved'
  BY <1>2, <1>3, <1>4, <1>5, <1>6 DEF DataOK, TrackingRemoved, Live
<1>10. ASSUME NEW q \in Callers \ {p}, call'[q] = call[q]
       PROVE  Fits(call[q])'
  <2>1. call[q] \in Call /\ Fits(call[q]) /\ Apart(call[p], call[q])
    BY DEF CallsOK
  <2>2. call[q].step \in OnRow \cup {"answer"} => call[q].row \in Customers
    BY <2>1, CallAt DEF OnRow, ReferralCall, PinnedCall, EraseCall, AnswerCall
  <2>3. call[q].step \in OnRow => call[q].row # row
    BY <1>1, <2>1 DEF Apart, OnRow
  <2>4. call[q].step = "answer" => call[q].row # row
    <3>1. call[q].step = "answer" => call[q].aff \in Affiliates
      BY <2>1, CallAt DEF AnswerCall
    <3>2. call[q].step = "answer" => call[q].aff = referral[call[q].row].aff
      BY <2>1 DEF Fits
    <3> QED BY <1>3, <3>1, <3>2, AttributionAssumption DEF AttributionAssumption
  <2> QED BY <1>4, <1>5, <1>10, <2>1, <2>2, <2>3, <2>4 DEF Fits, OnRow
<1>11. CallsOK'
  <2> DEFINE r == Answer(row, call[p].aff)
  <2>1. r \in Call /\ r.step \notin Exclusive \cup OnRow
    BY <1>2 DEF Call, AnswerCall, Answer, Exclusive, OnRow
  <2>2. call'[p] = r => Fits(call[p])'
    BY <1>5, <1>6 DEF Fits, Answer
  <2>3. call' = [call EXCEPT ![p] = r]
    BY <1>4
  <2> HIDE DEF r
  <2> QED BY <1>10, <2>1, <2>2, <2>3, WritesFree
<1> QED BY <1>7, <1>8, <1>9, <1>11 DEF DataOK

\* New terms come while no referral is being pinned.
LEMMA PublishStep ==
  ASSUME AttributionAssumption, AdminOK, DataOK, CallsOK, NEW p \in Callers, publishCommit(p)
  PROVE  AdminOK' /\ DataOK' /\ CallsOK'
<1>1. /\ UNCHANGED <<admin, data>> /\ version' = call[p].version + 1
      /\ call[p] \in PublishCall /\ call[p].step = "publishing"
  BY CallAt DEF publishCommit, At, CallsOK
<1>2. AdminOK'
  BY <1>1 DEF AdminOK, admin, PublishCall, AttributionAssumption
<1>3. DataOK'
  BY <1>1 DEF DataOK, RowTypes, Owned, RowFits, TrackingRemoved, admin, data
<1>4. ASSUME NEW q \in Callers \ {p}, call'[q] = call[q]
      PROVE  Fits(call[q])'
  <2>1. Fits(call[q]) /\ call[q].step # "pinned"
    BY <1>1 DEF CallsOK, Apart, Exclusive
  <2> QED BY <1>1, <1>4, <2>1 DEF Fits, admin, data
<1> QED BY <1>2, <1>3, <1>4, WritesAndEnds DEF publishCommit

\* The redaction of a customer takes its referral the click it had, and scrubs that.
LEMMA EraseStep ==
  ASSUME AttributionAssumption, DataOK, CallsOK, NEW p \in Callers, redactCustomerCommit(p)
  PROVE  DataOK' /\ CallsOK'
<1> DEFINE row == call[p].row
<1>1. /\ call[p] \in EraseCall /\ call[p].step = "erasing" /\ row \in Customers
      /\ call[p].clicks = {referral[row].click} \ {None}
  BY CallAt DEF redactCustomerCommit, At, CallsOK, EraseCall, Fits
<1>2. /\ connection' = connection /\ version' = version
      /\ customer' = [customer EXCEPT ![row].status = "gone"]
      /\ click' = [k \in Clicks |-> IF k \in call[p].clicks /\ click[k].status = "kept"
                                    THEN [click[k] EXCEPT !.status = "scrubbed"] ELSE click[k]]
      /\ referral' = [referral EXCEPT ![row] = IF referral[row].aff = None THEN referral[row]
                        ELSE [referral[row] EXCEPT !.click = None, !.anonymous = TRUE]]
  BY DEF redactCustomerCommit, admin
<1>3. /\ click' \in [Clicks -> ClickRow]
      /\ \A k \in Clicks : /\ click'[k].aff = click[k].aff
                           /\ click'[k].status = IF k \in call[p].clicks /\ click[k].status = "kept"
                                                 THEN "scrubbed" ELSE click[k].status
  <2>1. \A k \in Clicks : /\ click[k] \in ClickRow
                          /\ [click[k] EXCEPT !.status = "scrubbed"] \in ClickRow
                          /\ [click[k] EXCEPT !.status = "scrubbed"].aff = click[k].aff
                          /\ [click[k] EXCEPT !.status = "scrubbed"].status = "scrubbed"
    BY DEF DataOK, RowTypes, ClickRow
  <2> QED BY <1>2, <2>1
<1>4. /\ customer' \in [Customers -> CustomerRow] /\ customer'[row].status = "gone"
      /\ \A r \in Customers \ {row} : customer'[r] = customer[r]
  <2>1. customer \in [Customers -> CustomerRow] /\ customer[row] \in CustomerRow
    BY <1>1 DEF DataOK, RowTypes
  <2>2. [customer[row] EXCEPT !.status = "gone"] \in CustomerRow
    BY <2>1 DEF CustomerRow
  <2>3. [customer[row] EXCEPT !.status = "gone"].status = "gone"
    BY <2>1 DEF CustomerRow
  <2> QED BY <1>1, <1>2, <2>1, <2>2, <2>3
<1>5. /\ referral' \in [Customers -> {NoReferral} \cup ReferralRow]
      /\ \A r \in Customers \ {row} : referral'[r] = referral[r]
      /\ referral[row].aff = None => referral'[row] = NoReferral
      /\ referral[row].aff # None =>
           /\ referral'[row].click = None /\ referral'[row].anonymous
           /\ referral'[row].via = referral[row].via /\ referral'[row].aff = referral[row].aff
  <2>1. referral \in [Customers -> {NoReferral} \cup ReferralRow]
    BY DEF DataOK, RowTypes
  <2>2. CASE referral[row].aff = None
    <3>1. referral[row] = NoReferral
      BY <1>1, <2>1, <2>2 DEF ReferralRow, AttributionAssumption
    <3> QED BY <1>1, <1>2, <2>1, <2>2, <3>1
  <2>3. CASE referral[row].aff # None
    <3> DEFINE new == [referral[row] EXCEPT !.click = None, !.anonymous = TRUE]
    <3>1. referral[row] \in ReferralRow
      BY <1>1, <2>1, <2>3 DEF NoReferral
    <3>2. /\ new \in ReferralRow /\ new.click = None /\ new.anonymous
          /\ new.via = referral[row].via /\ new.aff = referral[row].aff
      BY <3>1 DEF ReferralRow
    <3>3. referral' = [referral EXCEPT ![row] = new]
      BY <1>2, <2>3
    <3> HIDE DEF new
    <3> QED BY <1>1, <2>1, <2>3, <3>2, <3>3
  <2> QED BY <2>2, <2>3
<1>6. RowTypes' /\ Owned'
  BY <1>3, <1>4, <1>5 DEF DataOK, RowTypes, Owned
<1>7. ASSUME NEW r \in Customers
      PROVE  RowFits(r)'
  <2>1. RowFits(r) /\ referral[r].click \in Clicks \cup {None} /\ referral[r].via \in Clicks \cup {None}
    BY DEF DataOK, RowTypes, ReferralRow, NoReferral
  <2>2. CASE r # row
    BY <1>3, <1>4, <1>5, <2>1, <2>2 DEF RowFits, Live
  <2>3. CASE r = row /\ referral[row].aff = None
    BY <1>5, <2>3 DEF RowFits, NoReferral
  <2>4. CASE r = row /\ referral[row].aff # None
    BY <1>1, <1>3, <1>4, <1>5, <2>1, <2>4 DEF RowFits, Live
  <2> QED BY <2>2, <2>3, <2>4
<1>8. TrackingRemoved'
  BY <1>2, <1>3, <1>5 DEF DataOK, TrackingRemoved, NoReferral
<1>9. ASSUME NEW q \in Callers \ {p}, call'[q] = call[q]
      PROVE  Fits(call[q])'
  <2>1. call[q] \in Call /\ Fits(call[q]) /\ Apart(call[p], call[q])
    BY DEF CallsOK
  <2>2. call[q].step \in OnRow \cup {"answer"} => call[q].row \in Customers
    BY <2>1, CallAt DEF OnRow, ReferralCall, PinnedCall, EraseCall, AnswerCall
  <2>3. call[q].step \in OnRow => call[q].row # row
    BY <1>1, <2>1 DEF Apart, OnRow
  <2>4. call[q].step \in {"inserted", "pinned"} => call[q].click \in Clicks \cup {None}
    BY <2>1, CallAt DEF ReferralCall, PinnedCall
  <2>5. \A r \in Customers : referral'[r].aff = referral[r].aff
    BY <1>5 DEF NoReferral
  <2> QED BY <1>2, <1>3, <1>4, <1>5, <1>9, <2>1, <2>2, <2>3, <2>4, <2>5 DEF Fits, OnRow, Live
<1>10. CallsOK'
  BY <1>9, WritesAndEnds DEF redactCustomerCommit
<1> QED BY <1>6, <1>7, <1>8, <1>10 DEF DataOK

\* The redaction of the connection leaves no click; no request is about to store a
\* referral or to erase a customer.
LEMMA WipeStep ==
  ASSUME AttributionAssumption, AdminOK, DataOK, CallsOK, NEW p \in Callers, redactConnectionCommit(p)
  PROVE  AdminOK' /\ DataOK' /\ CallsOK'
<1>1. /\ call[p] \in WipeCall /\ call[p].step = "wiping"
      /\ \A q \in Callers \ {p} : call[q].step \notin {"pinned", "wiping", "inserted", "erasing"}
  BY CallAt DEF redactConnectionCommit, At, CallsOK, Apart, Exclusive, Others
<1>2. AdminOK' /\ connection' = "redacted" /\ version' = version
  BY DEF redactConnectionCommit, AdminOK
<1>3. /\ click' \in [Clicks -> ClickRow] /\ Owned'
      /\ \A k \in Clicks : click'[k].status = IF click[k].status = "none" THEN "none" ELSE "gone"
  <2>1. \A k \in Clicks : /\ click[k] \in ClickRow
                          /\ [click[k] EXCEPT !.status = "gone"] \in ClickRow
                          /\ [click[k] EXCEPT !.status = "gone"].aff = click[k].aff
                          /\ [click[k] EXCEPT !.status = "gone"].status = "gone"
    BY DEF DataOK, RowTypes, ClickRow
  <2>2. click' = [k \in Clicks |-> IF click[k].status = "none" THEN click[k]
                                   ELSE [click[k] EXCEPT !.status = "gone"]]
    BY DEF redactConnectionCommit
  <2> QED BY <2>1, <2>2 DEF DataOK, Owned
<1>4. /\ customer' \in [Customers -> CustomerRow]
      /\ \A r \in Customers : customer'[r].status = IF r \in call[p].rows THEN "gone"
                                                    ELSE customer[r].status
  <2>1. \A r \in Customers : /\ customer[r] \in CustomerRow
                             /\ [customer[r] EXCEPT !.status = "gone"] \in CustomerRow
                             /\ [customer[r] EXCEPT !.status = "gone"].status = "gone"
    BY DEF DataOK, RowTypes, CustomerRow
  <2>2. customer' = [r \in Customers |-> IF r \in call[p].rows
                       THEN [customer[r] EXCEPT !.status = "gone"] ELSE customer[r]]
    BY DEF redactConnectionCommit
  <2> QED BY <2>1, <2>2
<1>5. /\ referral' \in [Customers -> {NoReferral} \cup ReferralRow]
      /\ \A r \in Customers :
           /\ referral[r].aff = None => referral'[r] = NoReferral
           /\ referral[r].aff # None =>
                /\ referral'[r].anonymous = (referral[r].anonymous \/ r \in call[p].rows)
                /\ referral'[r].click = None
                /\ referral'[r].via = referral[r].via /\ referral'[r].aff = referral[r].aff
  <2> DEFINE new(r) == [referral[r] EXCEPT !.click = None, !.anonymous = @ \/ r \in call[p].rows]
  <2>1. referral' = [r \in Customers |-> IF referral[r].aff = None THEN referral[r] ELSE new(r)]
    BY DEF redactConnectionCommit
  <2>2. ASSUME NEW r \in Customers, referral[r].aff = None
        PROVE  referral[r] = NoReferral
    BY <2>2 DEF DataOK, RowTypes, ReferralRow, AttributionAssumption
  <2>3. ASSUME NEW r \in Customers, referral[r].aff # None
        PROVE  /\ new(r) \in ReferralRow
               /\ new(r).anonymous = (referral[r].anonymous \/ r \in call[p].rows)
               /\ new(r).click = None /\ new(r).via = referral[r].via /\ new(r).aff = referral[r].aff
    <3>1. referral[r] \in ReferralRow
      BY <2>3 DEF DataOK, RowTypes, NoReferral
    <3> QED BY <3>1 DEF ReferralRow
  <2> HIDE DEF new
  <2> QED BY <2>1, <2>2, <2>3
<1>6. ASSUME NEW r \in Customers
      PROVE  RowFits(r)' /\ referral'[r].click = None /\ referral'[r].aff = referral[r].aff
  <2>1. /\ RowFits(r) /\ referral[r].click \in Clicks \cup {None}
        /\ referral[r].via \in Clicks \cup {None}
    BY DEF DataOK, RowTypes, ReferralRow, NoReferral
  <2>2. CASE referral[r].aff = None
    BY <1>5, <2>2 DEF RowFits, NoReferral
  <2>3. CASE referral[r].aff # None
    BY <1>3, <1>4, <1>5, <2>1, <2>3 DEF RowFits, Live
  <2> QED BY <2>2, <2>3
<1>7. DataOK'
  BY <1>3, <1>4, <1>5, <1>6 DEF DataOK, RowTypes, TrackingRemoved
<1>8. ASSUME NEW q \in Callers \ {p}, call'[q] = call[q]
      PROVE  Fits(call[q])'
  <2>1. call[q] \in Call /\ Fits(call[q])
    BY DEF CallsOK
  <2>2. call[q].step = "answer" => call[q].row \in Customers
    BY <2>1, CallAt DEF AnswerCall
  <2> QED BY <1>1, <1>6, <1>8, <2>1, <2>2 DEF Fits
<1>9. CallsOK'
  BY <1>8, WritesAndEnds DEF redactConnectionCommit
<1> QED BY <1>2, <1>7, <1>9

\* The owner and the admin change what no request relies on.
LEMMA ChangeStep ==
  ASSUME AttributionAssumption, AdminOK, DataOK, CallsOK, Change
  PROVE  AdminOK' /\ DataOK' /\ CallsOK'
<1>1. /\ UNCHANGED <<version, data, call>> /\ connection # "redacted" /\ connection' # "redacted"
  BY DEF Change
<1>2. AdminOK'
  BY DEF Change, AdminOK, AttributionAssumption
<1>3. DataOK'
  BY <1>1 DEF DataOK, RowTypes, Owned, RowFits, TrackingRemoved, data
<1>4. CallsOK'
  BY <1>1 DEF CallsOK, Fits, Apart, data
<1> QED BY <1>2, <1>3, <1>4

-----------------------------------------------------------------------------
(* The theorems.                                                           *)

\* The invariant holds at first.
LEMMA InitInv ==
  ASSUME AttributionAssumption, Init
  PROVE  IInv
<1>1. AdminOK
  BY DEF Init, AdminOK, AttributionAssumption
<1>2. RowTypes
  BY DEF Init, RowTypes, NoClick, ClickRow, NoCustomer, CustomerRow
<1>3. Owned /\ TrackingRemoved /\ \A r \in Customers : RowFits(r)
  BY DEF Init, Owned, TrackingRemoved, RowFits, NoClick, NoCustomer, NoReferral
<1>4. CallsOK
  BY IdleFits, NoLock DEF Init, CallsOK
<1> QED BY <1>1, <1>2, <1>3, <1>4 DEF IInv, DataOK

\* Every step of the specification keeps the invariant.
LEMMA NextInv ==
  ASSUME AttributionAssumption, IInv, [Next]_vars
  PROVE  IInv'
<1>1. AdminOK /\ DataOK /\ CallsOK
  BY DEF IInv
<1>2. ASSUME CallsOK', UNCHANGED <<admin, version, data>>
      PROVE  IInv'
  <2>1. AdminOK'
    BY <1>1, <1>2 DEF AdminOK, admin
  <2>2. DataOK'
    BY <1>1, <1>2 DEF DataOK, RowTypes, Owned, RowFits, TrackingRemoved, admin, data
  <2> QED BY <1>2, <2>1, <2>2 DEF IInv
<1>3. ASSUME NEW p \in Callers,
             \/ \E a \in Affiliates : captureCheck(p, a)
             \/ \E x \in People, k \in Clicks : identifyByClick(p, x, k)
             \/ \E x \in People, a \in Affiliates : identifyByCode(p, x, a)
      PROVE  IInv'
  <2>1. UNCHANGED <<admin, version, data>>
    BY <1>3 DEF captureCheck, identifyByClick, identifyByCode
  <2> QED BY <1>1, <1>2, <1>3, <2>1, StartStep
<1>4. ASSUME NEW p \in Callers,
             \/ customerSelect(p, "customer", [call[p] EXCEPT !.step = "insert"])
             \/ customerSelect(p, "reselect", Idle) \/ referralSelect(p)
      PROVE  IInv'
  <2>1. UNCHANGED <<admin, version, data>>
    BY <1>4 DEF customerSelect, referralSelect
  <2> QED BY <1>1, <1>2, <1>4, <2>1, LookupStep
<1>5. ASSUME NEW p \in Callers,
             \/ referralInsert(p) \/ pinTerms(p) \/ publishLock(p) \/ redactConnectionLock(p)
             \/ deadlockVictim(p) \/ answerIdentify(p) \/ Crash(p)
             \/ \E x \in People : redactCustomerLock(p, x)
      PROVE  IInv'
  <2>1. UNCHANGED <<admin, version, data>>
    BY <1>5 DEF referralInsert, pinTerms, publishLock, redactConnectionLock, deadlockVictim,
                answerIdentify, Crash, redactCustomerLock
  <2>2. CallsOK'
    BY <1>1, <1>5, InsertStep, PinStep, PublishLockStep, WipeLockStep, EraseLockStep, EndStep
  <2> QED BY <1>2, <2>1, <2>2
<1>6. ASSUME NEW p \in Callers,
             captureInsert(p) \/ customerInsert(p) \/ identifyCommit(p) \/ redactCustomerCommit(p)
      PROVE  IInv'
  <2>1. UNCHANGED <<admin, version>>
    BY <1>6 DEF captureInsert, customerInsert, identifyCommit, redactCustomerCommit
  <2>2. AdminOK'
    BY <1>1, <2>1 DEF AdminOK, admin
  <2>3. DataOK' /\ CallsOK'
    BY <1>1, <1>6, CaptureStep, CustomerStep, IdentifyStep, EraseStep
  <2> QED BY <2>2, <2>3 DEF IInv
<1>7. ASSUME NEW p \in Callers, publishCommit(p) \/ redactConnectionCommit(p)
      PROVE  IInv'
  BY <1>1, <1>7, PublishStep, WipeStep DEF IInv
<1>8. CASE Change
  BY <1>1, <1>8, ChangeStep DEF IInv
<1>9. CASE UNCHANGED vars
  <2>1. CallsOK'
    BY <1>1, <1>9 DEF CallsOK, Fits, Apart, vars
  <2>2. UNCHANGED <<admin, version, data>>
    BY <1>9 DEF vars, admin, data
  <2> QED BY <1>2, <2>1, <2>2
<1>10. CASE AllRefused
  BY <1>9, <1>10 DEF AllRefused
<1> QED BY <1>3, <1>4, <1>5, <1>6, <1>7, <1>8, <1>9, <1>10 DEF Next, Step

\* It holds always.
LEMMA Invariance == Spec => []IInv
<1>1. Init => IInv
  BY InitInv, AttributionAssumption
<1>2. IInv /\ [Next]_vars => IInv'
  BY NextInv, AttributionAssumption
<1> QED BY <1>1, <1>2, PTL DEF Spec

\* Every row keeps its type; every referral has terms.
THEOREM TypesHold == Spec => []TypeOK
<1>1. IInv => TypeOK
  BY DEF IInv, AdminOK, DataOK, RowTypes, ClickRow, CustomerRow, ReferralRow, TypeOK
<1> QED BY <1>1, Invariance, PTL

\* Whatever identifies overlap, each answers with the affiliate that is stored.
THEOREM AnswersNameTheFirst == Spec => []FirstReferralWins
<1>1. IInv => FirstReferralWins
  BY DEF IInv, CallsOK, Fits, FirstReferralWins
<1> QED BY <1>1, Invariance, PTL

\* However late an identify is, no data of a redacted customer is left or comes back.
THEOREM RedactedStaysErased == Spec => []SubjectErased
<1>1. IInv => SubjectErased
  BY DEF IInv, DataOK, RowTypes, ReferralRow, NoReferral, RowFits, SubjectErased
<1> QED BY <1>1, Invariance, PTL

\* However late a capture or an identify is, a redacted connection tracks nobody.
THEOREM RedactedTracksNobody == Spec => []TrackingRemoved
<1>1. IInv => TrackingRemoved
  BY DEF IInv, DataOK
<1> QED BY <1>1, Invariance, PTL

\* Whatever terms are published, a referral gets those in force when it is stored.
THEOREM TermsPinned == Spec => PinnedAtAttribution
<1> DEFINE Pinned == \A r \in Customers : referral'[r].version # referral[r].version =>
                        referral[r].aff = None /\ referral'[r].version = version
<1>1. ASSUME IInv, [Next]_vars
      PROVE  Pinned
  <2>1. CASE UNCHANGED referral
    BY <2>1
  <2>2. ASSUME NEW p \in Callers, identifyCommit(p)
        PROVE  Pinned
    <3>1. /\ call[p] \in Call /\ call[p].step = "pinned" /\ Fits(call[p])
          /\ referral \in [Customers -> {NoReferral} \cup ReferralRow]
      BY <1>1, <2>2 DEF IInv, CallsOK, DataOK, RowTypes, identifyCommit, At
    <3>2. call[p].row \in Customers /\ referral[call[p].row].aff = None /\ call[p].version = version
      BY <3>1, CallAt DEF Fits, PinnedCall
    <3> QED BY <2>2, <3>1, <3>2 DEF identifyCommit
  <2>3. ASSUME NEW p \in Callers, redactCustomerCommit(p) \/ redactConnectionCommit(p)
        PROVE  Pinned
    <3>1. referral \in [Customers -> {NoReferral} \cup ReferralRow]
      BY <1>1 DEF IInv, DataOK, RowTypes
    <3>2. ASSUME NEW r \in Customers, NEW b \in BOOLEAN
          PROVE  [referral[r] EXCEPT !.click = None, !.anonymous = b].version = referral[r].version
      BY <3>1 DEF NoReferral, ReferralRow
    <3>3. \A r \in Customers : referral'[r].version = referral[r].version
      BY <2>3, <3>1, <3>2 DEF redactCustomerCommit, redactConnectionCommit
    <3> QED BY <3>3
  <2> QED
    BY <1>1, <2>1, <2>2, <2>3 DEF Next, Step, vars, data, Change, AllRefused, captureCheck,
       identifyByClick, identifyByCode, publishLock, redactCustomerLock, redactConnectionLock,
       captureInsert, customerSelect, customerInsert, referralSelect, referralInsert, pinTerms,
       deadlockVictim, answerIdentify, publishCommit, Crash
<1>2. IInv /\ [Next]_vars => [Pinned]_vars
  BY <1>1
<1> QED BY <1>2, Invariance, PTL DEF Spec, PinnedAtAttribution
=============================================================================

---------------------------- MODULE RevenueLedger ----------------------------
(***************************************************************************)
(* The revenue side of one RefKit app: payments, refunds and disputes, as  *)
(* the API or Stripe report them, and the commission rows they leave.      *)
(*                                                                         *)
(* Every report runs in a transaction that holds the app row and the       *)
(* payment row FOR UPDATE, so reports take turns.  Reviews of flagged      *)
(* commissions and payouts take neither lock: they interleave with a       *)
(* refund, whose rows become visible when its transaction commits.         *)
(* status_before_dispute is not modelled: only approved entries are held,  *)
(* so a hold always gives back approved.                                   *)
(***************************************************************************)
EXTENDS Integers, FiniteSets, FiniteSetsExt, Functions

CONSTANTS
    Payments,       \* payment ids of the provider
    RefundIds,      \* refund ids of the provider
    DisputeIds,     \* dispute ids of the provider
    Amounts,        \* positive amounts in minor units
    Commissions,    \* commission amounts a rule may give, 0 is no entry
    None

ASSUME RevenueAssumption ==
    /\ Amounts \subseteq Nat \ {0}
    /\ Commissions \subseteq Nat
    /\ None \notin Payments

VARIABLES
    payment,    \* transactions with action payment: the amount, 0 is no row
    earned,     \* the earned commission entry of each payment
    refund,     \* transactions with action refund, and the entry each one left
    dispute,    \* revenue_disputes, and the entries each one left
    tx          \* the refund transaction that holds the app row, or Unlocked
vars == <<payment, earned, refund, dispute, tx>>

EarnedRow == [status : {"none", "approved", "flagged_self_referral", "rejected", "disputed", "paid"},
              amount : Commissions \cup {0}]
NoEarned == [status |-> "none", amount |-> 0]
NoRefund == [of |-> None, amount |-> 0, kind |-> "none", taken |-> 0]
NoDispute == [of |-> None, amount |-> 0, status |-> "none", reversed |-> 0, reinstated |-> 0]
Unlocked == [op |-> "none"]

Init ==
    /\ payment = [p \in Payments |-> 0]
    /\ earned = [p \in Payments |-> NoEarned]
    /\ refund = [r \in RefundIds |-> NoRefund]
    /\ dispute = [d \in DisputeIds |-> NoDispute]
    /\ tx = Unlocked

-----------------------------------------------------------------------------
(* Amounts.                                                                *)

\* roundHalfUp(n / d) of lib/money.ts, on exact fractions.
RoundHalfUp(n, d) == (2 * n + d) \div (2 * d)

RefundsOf(refunds, p) == {r \in RefundIds : refunds[r].of = p}
Amount(rows) == [i \in DOMAIN rows |-> rows[i].amount]
Refunded(refunds, p) == SumFunctionOnSet(Amount(refunds), RefundsOf(refunds, p))
TakenBack(refunds, p) ==
    SumFunctionOnSet([r \in RefundIds |-> refunds[r].taken], RefundsOf(refunds, p))

OpenExposure == {"opened"}                                          \* mutant
ActiveStatuses == {"opened", "lost"}
Disputed(p) == SumFunctionOnSet(Amount(dispute),
    {d \in DisputeIds : dispute[d].of = p /\ dispute[d].status \in ActiveStatuses})

WithinBalance(refunds, p, amount) == Refunded(refunds, p) + Disputed(p) + amount <= payment[p]

-----------------------------------------------------------------------------
(* Payments and the review of self-referrals.                              *)

reportPayment(p, amount, commission, flagged) ==
    /\ tx = Unlocked
    /\ payment[p] = 0
    /\ payment' = [payment EXCEPT ![p] = amount]
    /\ earned' = IF commission = 0 THEN earned
                 ELSE [earned EXCEPT ![p] =
                         [status |-> IF flagged THEN "flagged_self_referral" ELSE "approved",
                          amount |-> commission]]
    /\ UNCHANGED <<refund, dispute, tx>>

SetEarned(p, from, to) ==
    /\ earned[p].status \in from
    /\ earned' = [earned EXCEPT ![p].status = to]
    /\ UNCHANGED <<payment, refund, dispute, tx>>

releaseFlaggedCommission(p) == SetEarned(p, {"flagged_self_referral"}, "approved")
rejectFlaggedCommission(p) == SetEarned(p, {"flagged_self_referral"}, "rejected")

\* A payout marks the entries of its items paid, whatever their status is by
\* then: an entry that a dispute holds may have been in the batch before.
markCommissionPaid(p) == SetEarned(p, {"approved", "disputed"}, "paid")

-----------------------------------------------------------------------------
(* Refunds.  The API reports one refund in a transaction, a charge.refunded *)
(* event of Stripe all the refunds of the charge.                          *)

\* What the refunds of p, up to and with r, take back of its commission.
PerRefund(refunds, p, r) ==                                         \* mutant
    RoundHalfUp(refunds[r].amount * earned[p].amount, payment[p]) + TakenBack(refunds, p)
CumulativeTarget(refunds, p, r) ==
    LET prior == SumFunctionOnSet(Amount(refunds),
                                  {q \in RefundsOf(refunds, p) : refunds[q].kind # "none"})
        cumulative == Min({payment[p], Max({Refunded(refunds, p), prior + refunds[r].amount})})
    IN  RoundHalfUp(cumulative * earned[p].amount, payment[p])

\* createRefundReversalEntry, in the transaction that recorded refund r.
WithEntry(refunds, p, r) ==
    LET taken == Max({0, CumulativeTarget(refunds, p, r) - TakenBack(refunds, p)})
    IN  IF earned[p].status = "none" \/ taken = 0 THEN refunds
        ELSE [refunds EXCEPT ![r].taken = taken,
                  ![r].kind = IF earned[p].status = "paid" THEN "recovery_debt" ELSE "refund_reversal"]

\* A refund id that was reported with other details is a conflict.
refundBegin(p, list) ==
    /\ tx = Unlocked
    /\ payment[p] > 0
    /\ \A r \in DOMAIN list : refund[r] = NoRefund \/ (refund[r].of = p /\ refund[r].amount = list[r])
    /\ tx' = [op |-> "refund", of |-> p, list |-> list, rows |-> refund]
    /\ UNCHANGED <<payment, earned, refund, dispute>>

refundRecord(r) ==
    /\ tx.op = "refund" /\ r \in DOMAIN tx.list
    /\ LET p == tx.of
           recorded == [tx.rows EXCEPT ![r] = [NoRefund EXCEPT !.of = p, !.amount = tx.list[r]]]
           rest == [q \in DOMAIN tx.list \ {r} |-> tx.list[q]]
       IN  IF tx.rows[r] # NoRefund
           THEN tx' = [tx EXCEPT !.list = rest]
           ELSE /\ WithinBalance(recorded, p, 0)
                /\ tx' = [tx EXCEPT !.list = rest, !.rows = WithEntry(recorded, p, r)]
    /\ UNCHANGED <<payment, earned, refund, dispute>>

refundCommit ==
    /\ tx.op = "refund" /\ DOMAIN tx.list = {}
    /\ refund' = tx.rows
    /\ tx' = Unlocked
    /\ UNCHANGED <<payment, earned, dispute>>

\* A refund beyond the balance, or a failure, rolls the whole transaction back.
refundRollback ==
    /\ tx.op = "refund"
    /\ tx' = Unlocked
    /\ UNCHANGED <<payment, earned, refund, dispute>>

-----------------------------------------------------------------------------
(* Disputes.                                                               *)

Terminal == {"won", "withdrawn", "lost", "funds_reinstated"}

\* shouldApplyStatus; a conflict is refused like a replay.
AppliesAfterLoss(current, next) ==                                  \* mutant
    current \in {"opened", "lost"} /\ next \in Terminal \ {current}
Applies(current, next) ==
    \/ current = "opened" /\ next \in Terminal
    \/ current = "lost" /\ next = "funds_reinstated"

AnyOpenDispute(d, p) ==                                             \* mutant
    \E o \in DisputeIds : dispute[o].of = p /\ dispute[o].status = "opened"
OtherOpenDispute(d, p) ==
    \E o \in DisputeIds \ {d} : dispute[o].of = p /\ dispute[o].status = "opened"

Hold(p) == earned' = IF earned[p].status = "approved"
                     THEN [earned EXCEPT ![p].status = "disputed"] ELSE earned
restoreWhenNoOtherDisputeIsOpen(d, p) ==
    earned' = IF earned[p].status = "disputed" /\ ~OtherOpenDispute(d, p)
              THEN [earned EXCEPT ![p].status = "approved"] ELSE earned

\* createDisputeEntry: the share of the commission that the dispute is about.
Share(p, amount) == IF earned[p].status = "none" THEN 0
                    ELSE RoundHalfUp(amount * earned[p].amount, payment[p])

\* applyCommissionOutcome; row is the dispute with its new status.
CommissionOutcome(d, p, row) ==
    \/ /\ row.status = "opened"
       /\ Hold(p)
       /\ dispute' = [dispute EXCEPT ![d] = row]
    \/ /\ row.status \in {"won", "withdrawn"}
       /\ restoreWhenNoOtherDisputeIsOpen(d, p)
       /\ dispute' = [dispute EXCEPT ![d] = row]
    \/ /\ row.status = "lost"
       /\ restoreWhenNoOtherDisputeIsOpen(d, p)
       /\ dispute' = [dispute EXCEPT ![d] = [row EXCEPT !.reversed = Share(p, row.amount)]]
    \/ /\ row.status = "funds_reinstated" /\ row.reversed = 0
       /\ restoreWhenNoOtherDisputeIsOpen(d, p)
       /\ dispute' = [dispute EXCEPT ![d] = row]
    \/ /\ row.status = "funds_reinstated" /\ row.reversed # 0
       /\ dispute' = [dispute EXCEPT ![d] = [row EXCEPT !.reinstated = Share(p, row.amount)]]
       /\ UNCHANGED earned

openDispute(d, p, amount, status) ==
    /\ tx = Unlocked
    /\ payment[p] > 0 /\ amount <= payment[p]
    /\ dispute[d] = NoDispute
    /\ status \in {"opened", "lost"} => WithinBalance(refund, p, amount)
    /\ CommissionOutcome(d, p, [NoDispute EXCEPT !.of = p, !.amount = amount, !.status = status])
    /\ UNCHANGED <<payment, refund, tx>>

updateDispute(d, status) ==
    /\ tx = Unlocked
    /\ dispute[d] # NoDispute /\ Applies(dispute[d].status, status)
    /\ CommissionOutcome(d, dispute[d].of, [dispute[d] EXCEPT !.status = status])
    /\ UNCHANGED <<payment, refund, tx>>

-----------------------------------------------------------------------------
Next ==
    \/ \E p \in Payments, amount \in Amounts, commission \in Commissions, flagged \in BOOLEAN :
          reportPayment(p, amount, commission, flagged)
    \/ \E p \in Payments :
          \/ releaseFlaggedCommission(p)
          \/ rejectFlaggedCommission(p)
          \/ markCommissionPaid(p)
    \/ \E p \in Payments, S \in SUBSET RefundIds : \E list \in [S -> Amounts] :
          S # {} /\ refundBegin(p, list)
    \/ \E r \in RefundIds : refundRecord(r)
    \/ refundCommit
    \/ refundRollback
    \/ \E d \in DisputeIds, p \in Payments, amount \in Amounts, status \in Terminal \cup {"opened"} :
          openDispute(d, p, amount, status)
    \/ \E d \in DisputeIds, status \in Terminal : updateDispute(d, status)

Spec == Init /\ [][Next]_vars

-----------------------------------------------------------------------------
(* Properties.                                                             *)

RefundRow == [of : Payments \cup {None}, amount : Amounts \cup {0},
              kind : {"none", "refund_reversal", "recovery_debt"}, taken : Nat]
DisputeRow == [of : Payments \cup {None}, amount : Amounts \cup {0},
               status : Terminal \cup {"none", "opened"}, reversed : Nat, reinstated : Nat]

\* Every row has its type, and the open transaction is one of this app.
TypeOK ==
    /\ payment \in [Payments -> Amounts \cup {0}]
    /\ earned \in [Payments -> EarnedRow]
    /\ refund \in [RefundIds -> RefundRow]
    /\ dispute \in [DisputeIds -> DisputeRow]
    /\ \/ tx = Unlocked
       \/ /\ tx.op = "refund" /\ tx.of \in Payments
          /\ \E S \in SUBSET RefundIds : tx.list \in [S -> Amounts]
          /\ tx.rows \in [RefundIds -> RefundRow]

\* PRODUCT.md:88: refunds and active disputes never exceed their payment, in
\* whatever order they are reported, replayed, settled and reinstated.
ExposureWithinPayment == \A p \in Payments :
    LET active == {d \in DisputeIds : dispute[d].of = p /\ dispute[d].status \in {"opened", "lost"}}
    IN  Refunded(refund, p) + SumFunctionOnSet(Amount(dispute), active) <= payment[p]

\* The entries of the refunds of a payment add up to the rounded share of the
\* whole refunded amount: splitting a refund takes no more and no less back,
\* also when the commission is paid out in between.
ReversalFollowsRefunds == \A p \in Payments : earned[p].status # "none" =>
    TakenBack(refund, p) = RoundHalfUp(Refunded(refund, p) * earned[p].amount, payment[p])

\* No commission is stranded: an entry is on hold only while a dispute is open.
HoldHasOpenDispute == \A p \in Payments : earned[p].status = "disputed" =>
    \E d \in DisputeIds : dispute[d].of = p /\ dispute[d].status = "opened"

\* PRODUCT.md:89: a lost dispute has taken back its share of the commission,
\* any other one nothing on balance, whichever events were lost or came late.
DisputeNetsOut == \A d \in DisputeIds :
    dispute[d].reversed - dispute[d].reinstated =
        IF dispute[d].status = "lost" THEN Share(dispute[d].of, dispute[d].amount) ELSE 0

\* Refunds and lost disputes together take back more than the commission by at
\* most half a minor unit for each rounding: one of all the refunds, and one of
\* every lost dispute, which createDisputeEntry rounds on its own.
Losses(p) == SumFunctionOnSet([d \in DisputeIds |-> dispute[d].reversed - dispute[d].reinstated],
                              {d \in DisputeIds : dispute[d].of = p /\ dispute[d].status # "none"})
Lost(p) == {d \in DisputeIds : dispute[d].of = p /\ dispute[d].status = "lost"}
TakenBackIsBounded == \A p \in Payments : earned[p].status # "none" =>
    2 * (TakenBack(refund, p) + Losses(p)) <= 2 * earned[p].amount + 1 + Cardinality(Lost(p))
=============================================================================

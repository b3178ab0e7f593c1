------------------------------ MODULE MCPayouts ------------------------------
(* Small instances of Payouts for TLC.                                       *)
EXTENDS Payouts, TLC

CONSTANTS a1, a2

\* The widest amounts the bounded ledgers below can add up to.
SmallAmounts == -12 .. 12

Ids == Permutations(Batches) \cup Permutations(Requests) \cup Permutations(Callers)

Row(a, x, kind, status, of) == [owner |-> a, amount |-> x, kind |-> kind, status |-> status, of |-> of]

OneApproved == << Row(a1, 2, "earned", "approved", 0) >>

\* A commission paid in an earlier batch and refunded since, then a new one.
Indebted == << Row(a1, 2, "earned", "paid", 0), Row(a1, 2, "recovery_debt", "outstanding", 1),
               Row(a1, 3, "earned", "approved", 0) >>

\* The same, and an approved commission of another affiliate.
IndebtedAndOther == Indebted \o << Row(a2, 1, "earned", "approved", 0) >>
=============================================================================

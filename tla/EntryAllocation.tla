--------------------------- MODULE EntryAllocation ---------------------------
(***************************************************************************)
(* What payout batches promise about the commission entries they pay: an   *)
(* entry is held by at most one batch, a batch takes only free entries, no *)
(* step hands an entry from one batch to another, a cancelled batch holds  *)
(* nothing and never comes back, and a batch never holds an entry that it  *)
(* was not opened with, open or paid.                                      *)
(***************************************************************************)
CONSTANTS Entries, Batches, Nobody
VARIABLES holder,   \* the batch that holds each entry
          life,     \* the life cycle of each batch
          opened    \* the entries each batch was opened with
vars == <<holder, life, opened>>

Held(b) == {e \in Entries : holder[e] = b}
Free == {e \in Entries : holder[e] = Nobody}

Init == /\ holder = [e \in Entries |-> Nobody]
        /\ life = [b \in Batches |-> "none"]
        /\ opened = [b \in Batches |-> {}]

Give(S, b) == holder' = [e \in Entries |-> IF e \in S THEN b ELSE holder[e]]
Move(b, from, to) == life[b] \in from /\ life' = [life EXCEPT ![b] = to]

Open(b) == \E S \in (SUBSET Free) \ {{}} :
    Give(S, b) /\ Move(b, {"none"}, "draft") /\ opened' = [opened EXCEPT ![b] = S]
Ready(b) == Move(b, {"draft"}, "prepared") /\ UNCHANGED <<holder, opened>>
Close(b) == Move(b, {"prepared"}, "paid") /\ UNCHANGED <<holder, opened>>
Cancel(b) == Move(b, {"draft", "prepared"}, "cancelled") /\ Give(Held(b), Nobody) /\ UNCHANGED opened

\* An item fails, or fails no longer: only an entry the batch was opened with comes back.
Drop(e) == holder[e] # Nobody /\ Give({e}, Nobody) /\ UNCHANGED <<life, opened>>
Retake(e, b) ==
    /\ e \in Free \cap opened[b] /\ life[b] \in {"draft", "prepared", "paid"}
    /\ Give({e}, b) /\ UNCHANGED <<life, opened>>

\* A cancellation that lost the race against the payment still lets the items go.
LateCancel(b) == life[b] = "paid" /\ Give(Held(b), Nobody) /\ UNCHANGED <<life, opened>>

Next == \/ \E b \in Batches : Open(b) \/ Ready(b) \/ Close(b) \/ Cancel(b) \/ LateCancel(b)
        \/ \E e \in Entries : Drop(e) \/ \E b \in Batches : Retake(e, b)

Spec == Init /\ [][Next]_vars
=============================================================================

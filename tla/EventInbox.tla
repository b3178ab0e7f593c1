----------------------------- MODULE EventInbox -----------------------------
(***************************************************************************)
(* What the handling of Stripe's events promises about each of them: it is  *)
(* recorded once and for good, while the app's revenue comes from Stripe, a *)
(* refund or dispute after its payment; it is ignored only if nothing is    *)
(* owed, the account is disconnected or the revenue comes from the API; it  *)
(* is announced once, from its record; and Stripe is told 2xx for nothing   *)
(* that was neither recorded nor ignored.  Requests, attempts, crashes and  *)
(* takeovers do not appear.                                                *)
(***************************************************************************)
EXTENDS Naturals

CONSTANTS
    Events,
    Payment,    \* the payment that a refund or dispute is of, or Nothing
    NotOwed,    \* checkouts and disputes that owe nothing
    Silent,     \* events that are not announced
    Nothing

VARIABLES
    record,     \* what is recorded of an event
    ignored,
    announced,  \* how often
    answered,   \* told 2xx
    connected,
    fromStripe  \* the app's revenue source
vars == <<record, ignored, announced, answered, connected, fromStripe>>

Recorded(e) == record[e] # "none"
\* A payment is recorded with the affiliate it was attributed to, or without.
Records(e) == IF Payment[e] = Nothing THEN {"attributed", "plain"} ELSE {"child"}

Init ==
    /\ record = [e \in Events |-> "none"]
    /\ ignored = {}
    /\ announced = [e \in Events |-> 0]
    /\ answered = {}
    /\ connected = TRUE
    /\ fromStripe = TRUE

Record(e, kind) ==
    /\ ~Recorded(e) /\ fromStripe
    /\ Payment[e] # Nothing => Recorded(Payment[e])
    /\ record' = [record EXCEPT ![e] = kind]
    /\ UNCHANGED <<ignored, announced, answered, connected, fromStripe>>

Ignore(e) ==
    /\ \/ ~connected \/ ~fromStripe
       \/ e \in NotOwed /\ (Payment[e] # Nothing => Recorded(Payment[e]))
    /\ ignored' = ignored \cup {e}
    /\ UNCHANGED <<record, announced, answered, connected, fromStripe>>

Announce(e) ==
    /\ Recorded(e) /\ e \notin Silent /\ announced[e] = 0
    /\ announced' = [announced EXCEPT ![e] = 1]
    /\ UNCHANGED <<record, ignored, answered, connected, fromStripe>>

Answer(e) ==
    /\ Recorded(e) \/ e \in ignored
    /\ answered' = answered \cup {e}
    /\ UNCHANGED <<record, ignored, announced, connected, fromStripe>>

Disconnect ==
    /\ connected' = FALSE
    /\ UNCHANGED <<record, ignored, announced, answered, fromStripe>>

SetSource ==
    /\ fromStripe' \in BOOLEAN
    /\ UNCHANGED <<record, ignored, announced, answered, connected>>

Next ==
    \/ \E e \in Events :
          \/ \E kind \in Records(e) : Record(e, kind)
          \/ Ignore(e) \/ Announce(e) \/ Answer(e)
    \/ Disconnect \/ SetSource

Spec == Init /\ [][Next]_vars
=============================================================================

--------------------------- MODULE MCStripeEvents ---------------------------
(* Small instances of StripeEvents for TLC.                                  *)
EXTENDS StripeEvents, TLC

CONSTANTS pay, after, closed

\* A payment and a dispute of it ...
AfterPayment == (pay :> None) @@ (after :> pay)
CheckoutAndDispute == (pay :> "checkout") @@ (after :> "dispute")
\* ... or a refund, and the end of a dispute with a status that changes nothing.
WithClosing == AfterPayment @@ (closed :> pay)
InvoiceAndRefund == (pay :> "invoice") @@ (after :> "refund") @@ (closed :> "dispute")

Ids == Permutations(Workers)
=============================================================================

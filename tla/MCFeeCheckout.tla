--------------------------- MODULE MCFeeCheckout ---------------------------
(* An instance of FeeCheckout for TLC. *)
EXTENDS FeeCheckout

CONSTANTS i1, r1, r2, s1, c1, c2, nobody

\* The billed amount: two of the smallest payments.
MCTotal == [i \in Invoices |-> 2]
MCInvoiceOf == [r \in CardRefs |-> i1]
=============================================================================

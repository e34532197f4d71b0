------------------------------ MODULE FeeBook ------------------------------
(***************************************************************************)
(* What the fee ledger promises, without tables, transactions or requests: *)
(* a receipt is written once under its reference and never changes, it is  *)
(* reversed at most once, and what an invoice owes moves by exactly the    *)
(* amount of each receipt written or reversed.  FeeLedger implements this  *)
(* book as long as no correction overlaps another write of its invoice.    *)
(***************************************************************************)
EXTENDS Naturals

CONSTANTS Invoices, Refs, Methods,
          Total      \* Total[i] is the amount billed on invoice i

VARIABLES owed,      \* what is still due on each invoice
          receipt,   \* the receipts written so far, by reference
          reversed   \* the references whose receipt has been reversed

bookVars == <<owed, receipt, reversed>>

\* The function f with x mapped to v, whether or not f was defined at x.
With(f, x, v) == [y \in DOMAIN f \cup {x} |-> IF y = x THEN v ELSE f[y]]

Init ==
    /\ owed = Total
    /\ receipt = [r \in {} |-> r]
    /\ reversed = {}

\* Money is received for an invoice: never more than is due.
Receive(r, i, a, m) ==
    /\ r \notin DOMAIN receipt
    /\ owed' = [owed EXCEPT ![i] = @ - a]
    /\ receipt' = With(receipt, r, [invoice |-> i, amount |-> a, method |-> m])
    /\ UNCHANGED reversed

\* A receipt is voided or refunded: its amount is due again.
Reverse(r) ==
    /\ r \in DOMAIN receipt
    /\ r \notin reversed
    /\ owed' = [owed EXCEPT ![receipt[r].invoice] = @ + receipt[r].amount]
    /\ reversed' = reversed \cup {r}
    /\ UNCHANGED receipt

Next ==
    \E r \in Refs :
        \/ \E i \in Invoices, m \in Methods : \E a \in 1 .. owed[i] : Receive(r, i, a, m)
        \/ Reverse(r)

Spec == Init /\ [][Next]_bookVars
=============================================================================

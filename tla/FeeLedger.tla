------------------------------ MODULE FeeLedger ------------------------------
(***************************************************************************)
(* School-fee invoices, receipts, payment attempts and corrections: the    *)
(* tables FeeInvoice, FeePayment, FeePaymentAttempt, FeePaymentCorrection  *)
(* and every handler that writes them except the Paystack checkout, which  *)
(* FeeCheckout adds.                                                       *)
(*                                                                         *)
(* A request reads some rows first, outside any transaction, and writes    *)
(* in a transaction later: every handler is a Start action and one or more *)
(* actions that finish it, and other requests run in between.  Transactions*)
(* run at PostgreSQL's default READ COMMITTED level.  Those that begin by  *)
(* locking or updating the invoice row are one action; the one that does   *)
(* not, the void or refund, is a read and a write.                         *)
(***************************************************************************)
EXTENDS Integers, FiniteSets

CONSTANTS
    Invoices,
    Refs,             \* payment references, chosen by parents, the bursar or the server
    Amounts,          \* the amounts a person may type
    Total,            \* Total[i] is FeeInvoice.totalAmount
    Staff,            \* requests that may be in progress at once, parents' and staff's
    QuietCorrections  \* TRUE: no other write of the invoice commits between
                      \* the reads and the write of a correction

ASSUME TotalAssumption == Total \in [Invoices -> Nat \ {0}]
ASSUME AmountsAssumption == Amounts \subseteq Nat \ {0}
ASSUME QuietAssumption == QuietCorrections \in BOOLEAN

VARIABLES
    invoice,    \* [Invoices -> [paid, balance, status]]
    attempt,    \* the FeePaymentAttempt rows, by their unique reference
    payment,    \* the FeePayment rows, by their unique reference
    corrected,  \* the references of the receipts that have a FeePaymentCorrection
    request,    \* the requests in progress, with what they have read
    told        \* the verdicts a bursar has been told succeeded

ledgerVars == <<invoice, attempt, payment, corrected, request, told>>

Methods == {"CASH", "BANK_TRANSFER", "PAYSTACK"}
InvoiceStatuses == {"UNPAID", "PARTIAL", "PAID"}
InvoiceRows == [paid : Nat, balance : Nat, status : InvoiceStatuses]
AttemptRows == [provider : {"BANK_TRANSFER", "PAYSTACK"}, invoice : Invoices,
                amount : Nat \ {0}, status : {"PENDING", "PAID", "FAILED"}]
PaymentRows == [invoice : Invoices, amount : Nat \ {0}, method : Methods]

\* A request carries the invoice, reference and amount it will act on; a
\* transfer also the balance it saw, a correction the net payments it read.
PlainRequests == [op : {"CASH", "APPROVE", "REJECT", "VOID"},
                  invoice : Invoices, ref : Refs, amount : Nat \ {0}]
SeeingRequests == [op : {"TRANSFER", "CORRECT"},
                   invoice : Invoices, ref : Refs, amount : Nat \ {0}, seen : Nat]
Requests == PlainRequests \cup SeeingRequests

-----------------------------------------------------------------------------
(* Helpers. *)

\* The function f with x mapped to v, whether or not f was defined at x.
With(f, x, v) == [y \in DOMAIN f \cup {x} |-> IF y = x THEN v ELSE f[y]]
Without(f, x) == [y \in DOMAIN f \ {x} |-> f[y]]
NoRows == [r \in {} |-> r]

Least(a, b) == IF a <= b THEN a ELSE b
NotBelowZero(n) == IF n > 0 THEN n ELSE 0

\* The sum of the amounts that the rows p give for the receipts in R: the
\* number of pairs of a receipt and one of its units of money.
Units(p, R) == UNION {{r} \X (1 .. p[r].amount) : r \in R}
Worth(p, R) == Cardinality(Units(p, R))

Receipts(p, i) == {r \in DOMAIN p : p[r].invoice = i}

\* Mutant: the new correction is not among those summed.
NetPaidUncorrected(p, i, C) ==
    NotBelowZero(Worth(p, Receipts(p, i)) - Worth(p, Receipts(p, i) \cap corrected))

\* Receipts of an invoice less its corrections, were C the corrected ones.
NetPaid(p, i, C) ==
    NotBelowZero(Worth(p, Receipts(p, i)) - Worth(p, Receipts(p, i) \cap C))

\* computeInvoiceStatus.  Its OVERDUE answer needs amountPaid = 0, and it is
\* only called after a payment has been added.
ComputeStatus(i, paid) ==
    IF paid >= Total[i] THEN "PAID" ELSE IF paid > 0 THEN "PARTIAL" ELSE "UNPAID"

Busy(s) == s \in DOMAIN request
Begin(s, q) == ~Busy(s) /\ request' = With(request, s, q)
End(s) == request' = Without(request, s)

Correcting(i) == \E s \in DOMAIN request : request[s].op = "CORRECT" /\ request[s].invoice = i
Quiet(i) == QuietCorrections => ~Correcting(i)

-----------------------------------------------------------------------------
(* postCompletedFeePayment: one transaction. *)

Posted(r) == r \in DOMAIN payment

\* Mutant: the balance is only checked before the transaction.
HasRoomUnchecked(i, a) == invoice[i].status \in {"UNPAID", "PARTIAL"}

\* The compare-and-set of the invoice: enough is due and it is not settled.
HasRoom(i, a) == invoice[i].balance >= a /\ invoice[i].status \in {"UNPAID", "PARTIAL"}

\* Mutant: the status is computed from the row read before the increment.
ReserveStaleStatus(i, a) ==
    invoice' = [invoice EXCEPT ![i] =
        [paid |-> @.paid + a, balance |-> @.balance - a, status |-> ComputeStatus(i, @.paid)]]

Reserve(i, a) ==
    invoice' = [invoice EXCEPT ![i] =
        [paid |-> @.paid + a, balance |-> @.balance - a, status |-> ComputeStatus(i, @.paid + a)]]

WriteReceipt(r, i, a, m) ==
    payment' = With(payment, r, [invoice |-> i, amount |-> a, method |-> m])

\* Mutant: an existing receipt under the reference is not looked for.
PostAnyway(r, i, a, m) ==
    /\ HasRoom(i, a)
    /\ Quiet(i)
    /\ Reserve(i, a)
    /\ WriteReceipt(r, i, a, m)

\* The whole effect of posting a new receipt, but for the attempt's row.
Post(r, i, a, m) ==
    /\ ~Posted(r)
    /\ HasRoom(i, a)
    /\ Quiet(i)
    /\ Reserve(i, a)
    /\ WriteReceipt(r, i, a, m)

Settle(r, status) == attempt' = [attempt EXCEPT ![r].status = status]

IsPending(r) == r \in DOMAIN attempt /\ attempt[r].status = "PENDING"
PendingOn(i) == {r \in DOMAIN attempt : attempt[r].invoice = i /\ attempt[r].status = "PENDING"}

-----------------------------------------------------------------------------
(* A parent declares a bank transfer. *)

StartTransfer(s, i, r, a) ==
    /\ invoice[i].balance > 0
    /\ Begin(s, [op |-> "TRANSFER", invoice |-> i, ref |-> r,
                 amount |-> Least(a, invoice[i].balance), seen |-> invoice[i].balance])
    /\ UNCHANGED <<invoice, attempt, payment, corrected, told>>

\* The checks of the transaction that holds the invoice's row lock.
MayDeclare(q) ==
    /\ invoice[q.invoice].balance = q.seen
    /\ PendingOn(q.invoice) = {}
    /\ q.ref \notin DOMAIN attempt
    /\ ~Posted(q.ref)

Declared(q) == [provider |-> "BANK_TRANSFER", invoice |-> q.invoice, amount |-> q.amount,
                status |-> "PENDING"]

SubmitTransfer(s) ==
    /\ Busy(s)
    /\ request[s].op = "TRANSFER"
    /\ MayDeclare(request[s])
    /\ attempt' = With(attempt, request[s].ref, Declared(request[s]))
    /\ End(s)
    /\ UNCHANGED <<invoice, payment, corrected, told>>

-----------------------------------------------------------------------------
(* The bursar records cash, under a generated reference or a typed one. *)

StartCash(s, i, r, a) ==
    /\ a <= invoice[i].balance
    /\ Begin(s, [op |-> "CASH", invoice |-> i, ref |-> r, amount |-> a])
    /\ UNCHANGED <<invoice, attempt, payment, corrected, told>>

RecordCash(s) ==
    LET q == request[s]
    IN  /\ Busy(s)
        /\ q.op = "CASH"
        /\ Post(q.ref, q.invoice, q.amount, "CASH")
        /\ End(s)
        /\ UNCHANGED <<attempt, corrected, told>>

-----------------------------------------------------------------------------
(* The bursar reviews a declared transfer. *)

StartReview(s, r, op) ==
    /\ IsPending(r)
    /\ attempt[r].provider = "BANK_TRANSFER"
    /\ Begin(s, [op |-> op, invoice |-> attempt[r].invoice, ref |-> r, amount |-> attempt[r].amount])
    /\ UNCHANGED <<invoice, attempt, payment, corrected, told>>

\* Mutant: the attempt is marked without the claim that it is still PENDING.
ApproveUnclaimed(s) ==
    LET q == request[s]
    IN  /\ Busy(s)
        /\ q.op = "APPROVE"
        /\ Settle(q.ref, "PAID")
        /\ Post(q.ref, q.invoice, q.amount, "BANK_TRANSFER")
        /\ told' = told \cup {<<q.ref, "APPROVED">>}
        /\ End(s)
        /\ UNCHANGED corrected

\* The claim of the attempt and the posting commit together.
Approve(s) ==
    LET q == request[s]
    IN  /\ Busy(s)
        /\ q.op = "APPROVE"
        /\ IsPending(q.ref)
        /\ Settle(q.ref, "PAID")
        /\ Post(q.ref, q.invoice, q.amount, "BANK_TRANSFER")
        /\ told' = told \cup {<<q.ref, "APPROVED">>}
        /\ End(s)
        /\ UNCHANGED corrected

\* A receipt under the transfer's reference exists: it is returned as the
\* result of the approval, and the attempt is left as it is.
ApproveReplay(s) ==
    LET q == request[s]
    IN  /\ Busy(s)
        /\ q.op = "APPROVE"
        /\ Posted(q.ref)
        /\ told' = told \cup {<<q.ref, "APPROVED">>}
        /\ End(s)
        /\ UNCHANGED <<invoice, attempt, payment, corrected>>

\* Mutant: the rejection relies on the status read before.
MayRejectStale(q) == q.ref \in DOMAIN attempt

MayReject(q) == IsPending(q.ref)

Reject(s) ==
    LET q == request[s]
    IN  /\ Busy(s)
        /\ q.op = "REJECT"
        /\ MayReject(q)
        /\ Settle(q.ref, "FAILED")
        /\ told' = told \cup {<<q.ref, "REJECTED">>}
        /\ End(s)
        /\ UNCHANGED <<invoice, payment, corrected>>

-----------------------------------------------------------------------------
(* The super admin voids or refunds a receipt. *)

StartVoid(s, r) ==
    /\ Posted(r)
    /\ r \notin corrected
    /\ Begin(s, [op |-> "VOID", invoice |-> payment[r].invoice, ref |-> r,
                 amount |-> payment[r].amount])
    /\ UNCHANGED <<invoice, attempt, payment, corrected, told>>

\* The transaction inserts the correction, unique per payment: a second one
\* fails, or waits for the first to end.  Then it reads the ledger.
MayCorrect(r) ==
    /\ r \notin corrected
    /\ \A t \in DOMAIN request : request[t].op = "CORRECT" => request[t].ref /= r

ReadLedger(s) ==
    LET q == request[s]
    IN  /\ Busy(s)
        /\ q.op = "VOID"
        /\ MayCorrect(q.ref)
        /\ Quiet(q.invoice)
        /\ request' = [request EXCEPT ![s] =
                [op |-> "CORRECT", invoice |-> q.invoice, ref |-> q.ref, amount |-> q.amount,
                 seen |-> NetPaid(payment, q.invoice, corrected \cup {q.ref})]]
        /\ UNCHANGED <<invoice, attempt, payment, corrected, told>>

\* The row as the correction writes it, from what it read.
Recalculated(i, net) ==
    LET balance == Total[i] - net
    IN  [paid |-> net,
         balance |-> NotBelowZero(balance),
         status |-> IF balance <= 0 THEN "PAID"
                    ELSE IF balance < Total[i] THEN "PARTIAL" ELSE "UNPAID"]

WriteCorrection(s) ==
    LET q == request[s]
    IN  /\ Busy(s)
        /\ q.op = "CORRECT"
        /\ invoice' = [invoice EXCEPT ![q.invoice] = Recalculated(q.invoice, q.seen)]
        /\ corrected' = corrected \cup {q.ref}
        /\ End(s)
        /\ UNCHANGED <<attempt, payment, told>>

-----------------------------------------------------------------------------
\* A request ends without effect: a check failed, the reference is already
\* posted, the database refused, or the process died.
GiveUp(s) ==
    /\ Busy(s)
    /\ End(s)
    /\ UNCHANGED <<invoice, attempt, payment, corrected, told>>

Init ==
    /\ invoice = [i \in Invoices |-> [paid |-> 0, balance |-> Total[i], status |-> "UNPAID"]]
    /\ attempt = NoRows
    /\ payment = NoRows
    /\ corrected = {}
    /\ request = NoRows
    /\ told = {}

Next ==
    \E s \in Staff :
        \/ \E r \in Refs :
            \/ \E i \in Invoices, a \in Amounts : StartTransfer(s, i, r, a) \/ StartCash(s, i, r, a)
            \/ \E op \in {"APPROVE", "REJECT"} : StartReview(s, r, op)
            \/ StartVoid(s, r)
        \/ SubmitTransfer(s) \/ RecordCash(s)
        \/ Approve(s) \/ ApproveReplay(s) \/ Reject(s)
        \/ ReadLedger(s) \/ WriteCorrection(s)
        \/ GiveUp(s)

Spec == Init /\ [][Next]_ledgerVars

-----------------------------------------------------------------------------
(* Properties. *)

\* Every table holds rows of its type; in particular no sequence of postings
\* and corrections takes a balance below zero.
TypeOK ==
    /\ invoice \in [Invoices -> InvoiceRows]
    /\ DOMAIN attempt \subseteq Refs
    /\ \A r \in DOMAIN attempt : attempt[r] \in AttemptRows
    /\ DOMAIN payment \subseteq Refs
    /\ \A r \in DOMAIN payment : payment[r] \in PaymentRows
    /\ corrected \subseteq DOMAIN payment
    /\ DOMAIN request \subseteq Staff
    /\ \A s \in DOMAIN request : request[s] \in Requests
    /\ told \subseteq Refs \X {"APPROVED", "REJECTED"}

\* Balance and status are always those that the paid amount of the row calls
\* for, although postings change the row by increments and recompute its
\* status from it, and corrections overwrite all three from stale reads.
RowsAreConsistent ==
    \A i \in Invoices :
        /\ invoice[i].balance = NotBelowZero(Total[i] - invoice[i].paid)
        /\ invoice[i].status = ComputeStatus(i, invoice[i].paid)

\* "The invoice balance is recalculated from posted receipts plus signed
\* corrections": the paid amount of an invoice is the worth of its receipts
\* less the worth of its corrected ones, whatever ran at the same time.
LedgerAgrees ==
    \A i \in Invoices :
        invoice[i].paid = Worth(payment, Receipts(payment, i)) - Worth(payment, Receipts(payment, i) \cap corrected)

\* A transfer is paid exactly when its money was posted: a bank attempt that
\* is PAID has a receipt of its own invoice and amount, and no receipt of
\* the bank-transfer kind exists for one that is PENDING or FAILED, although
\* approvals, rejections and cash under the same reference race.
TransferMatchesReceipt ==
    \A r \in Refs :
        /\ r \in DOMAIN attempt /\ attempt[r].status = "PAID" =>
             /\ Posted(r)
             /\ payment[r].invoice = attempt[r].invoice
             /\ payment[r].amount = attempt[r].amount
        /\ Posted(r) /\ payment[r].method = "BANK_TRANSFER" =>
             r \in DOMAIN attempt /\ attempt[r].status = "PAID"

\* What a bursar was told stands: an approved transfer has a receipt under
\* its reference, and a rejected one is FAILED for good.
VerdictsStand ==
    \A r \in Refs :
        /\ <<r, "APPROVED">> \in told => Posted(r)
        /\ <<r, "REJECTED">> \in told => r \in DOMAIN attempt /\ attempt[r].status = "FAILED"

\* At most one payment of an invoice awaits confirmation at any time.
OneOpenAttempt ==
    \A i \in Invoices : \A r1, r2 \in PendingOn(i) : r1 = r2

\* Parts of the inductive invariant.  A request acts on what its rows still
\* say: the columns it has read of an attempt or a receipt never change.
RequestsMatchRows ==
    \A s \in DOMAIN request :
        LET q == request[s]
        IN  /\ q.op \in {"APPROVE", "REJECT"} =>
                 /\ q.ref \in DOMAIN attempt
                 /\ attempt[q.ref].provider = "BANK_TRANSFER"
                 /\ attempt[q.ref].invoice = q.invoice
                 /\ attempt[q.ref].amount = q.amount
            /\ q.op \in {"VOID", "CORRECT"} =>
                 /\ Posted(q.ref)
                 /\ payment[q.ref].invoice = q.invoice
                 /\ payment[q.ref].amount = q.amount

\* A rejected transfer is a bank transfer: no checkout can reopen it.
RejectedAreTransfers ==
    \A r \in Refs : <<r, "REJECTED">> \in told =>
        r \in DOMAIN attempt /\ attempt[r].provider = "BANK_TRANSFER"

\* A receipt is being corrected by one request only, and not after it was.
CorrectionsAreUnique ==
    \A s \in DOMAIN request : request[s].op = "CORRECT" =>
        /\ request[s].ref \notin corrected
        /\ \A t \in DOMAIN request :
             request[t].op = "CORRECT" /\ request[t].ref = request[s].ref => t = s

\* With quiet corrections, what a correction read is still true.
ReadsAreCurrent ==
    \A s \in DOMAIN request : request[s].op = "CORRECT" =>
        /\ request[s].seen = NetPaid(payment, request[s].invoice, corrected \cup {request[s].ref})
        /\ \A t \in DOMAIN request :
             request[t].op = "CORRECT" /\ request[t].invoice = request[s].invoice => t = s

\* With quiet corrections, no invoice is paid more than was billed.
NeverOverpaid == \A i \in Invoices : invoice[i].paid <= Total[i]

TransfersInv ==
    /\ RequestsMatchRows
    /\ TransferMatchesReceipt
    /\ VerdictsStand
    /\ RejectedAreTransfers
    /\ OneOpenAttempt

SumsInv ==
    /\ IsFiniteSet(Units(payment, DOMAIN payment))
    /\ CorrectionsAreUnique
    /\ QuietCorrections => ReadsAreCurrent /\ LedgerAgrees /\ NeverOverpaid

IInv == TypeOK /\ RowsAreConsistent /\ TransfersInv /\ SumsInv

\* The ledger implements the book: what is owed is the balance of the row.
Book == INSTANCE FeeBook WITH owed <- [i \in Invoices |-> invoice[i].balance],
                              receipt <- payment, reversed <- corrected
ImplementsFeeBook == Book!Spec
=============================================================================

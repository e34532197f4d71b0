----------------------------- MODULE FeeCheckout -----------------------------
(***************************************************************************)
(* The Paystack checkout of school fees on top of FeeLedger: the payment-  *)
(* intents handler with its idempotency lease, the provider, its webhook   *)
(* and the parent's verify call.                                           *)
(*                                                                         *)
(* The lease is the abstraction of Idempotency that its theorems justify:  *)
(* at most one running request holds the lease of a key; a lease may       *)
(* expire at any time and be taken over, since the handler can stall for   *)
(* longer than it lasts.  The server derives the payment reference from    *)
(* the invoice number and the key, so a reference stands for its key.      *)
(***************************************************************************)
EXTENDS FeeLedger

CONSTANTS
    CardRefs,     \* the references the server derives, a subset of Refs
    InvoiceOf,    \* InvoiceOf[r] is the invoice in the reference r
    Checkouts,    \* checkout requests that may be in progress at once
    Nobody        \* holds the lease of a request that has ended without releasing it

ASSUME CardRefsAssumption == CardRefs \subseteq Refs
ASSUME InvoiceOfAssumption == InvoiceOf \in [CardRefs -> Invoices]
ASSUME NobodyAssumption == Nobody \notin Checkouts

VARIABLES
    checkout,   \* the checkout requests in progress
    holder,     \* who holds the PROCESSING idempotency record of a reference
    done,       \* references whose idempotency record is COMPLETED
    page,       \* references that Paystack has a transaction for
    handed,     \* references whose checkout page a parent was sent to
    charged,    \* references that Paystack has charged successfully
    odd,        \* those charged with another amount or currency than the attempt's
    acked,      \* references whose charge.success event was answered with 2xx
    issue,      \* the PaymentReconciliationIssue rows, by reference
    verifying   \* what Paystack answered to the verify calls in progress

providerVars == <<page, handed, charged, odd>>
callbackVars == <<acked, issue, verifying>>
checkoutVars == <<checkout, holder, done, providerVars, callbackVars>>
allVars == <<ledgerVars, checkoutVars>>

-----------------------------------------------------------------------------
(* The idempotency lease of a reference. *)

Holds(c) == checkout[c].ref \in DOMAIN holder /\ holder[checkout[c].ref] = c

\* deleteMany where lockedUntil is this request's: nothing if the lease is lost.
Release(c) == holder' = IF Holds(c) THEN Without(holder, checkout[c].ref) ELSE holder

\* The request ends and leaves its record behind.
Abandon(c) == holder' = IF Holds(c) THEN [holder EXCEPT ![checkout[c].ref] = Nobody] ELSE holder

At(c, step) == c \in DOMAIN checkout /\ checkout[c].at = step
Leave(c) == checkout' = Without(checkout, c)
Advance(c, step) == checkout' = [checkout EXCEPT ![c].at = step]

-----------------------------------------------------------------------------
(* POST /api/parent/fees/payment-intents, method PAYSTACK. *)

\* Read the invoice and reserve the key: new, or over a lease that has expired.
StartCheckout(c, r, a) ==
    LET balance == invoice[InvoiceOf[r]].balance
    IN  /\ c \notin DOMAIN checkout
        /\ balance > 0
        /\ r \notin done
        /\ holder' = With(holder, r, c)
        /\ checkout' = With(checkout, c, [at |-> "RESERVED", ref |-> r, amount |-> Least(a, balance),
                                          seen |-> balance, prior |-> FALSE])
        /\ UNCHANGED <<ledgerVars, done, providerVars, callbackVars>>

\* The same parent's own attempt for this reference and amount, not PAID.
Retryable(q) ==
    /\ attempt[q.ref].provider = "PAYSTACK"
    /\ attempt[q.ref].amount = q.amount
    /\ attempt[q.ref].status \in {"PENDING", "FAILED"}

\* Mutant: other pending attempts of the invoice are not looked for.
MayOpenBeside(q) ==
    /\ invoice[InvoiceOf[q.ref]].balance = q.seen
    /\ ~Posted(q.ref)
    /\ q.ref \in DOMAIN attempt => Retryable(q)

\* The checks of the transaction that holds the invoice's row lock.
MayOpen(q) ==
    /\ invoice[InvoiceOf[q.ref]].balance = q.seen
    /\ PendingOn(InvoiceOf[q.ref]) \subseteq {q.ref}
    /\ ~Posted(q.ref)
    /\ q.ref \in DOMAIN attempt => Retryable(q)

CardAttempt(q) == [provider |-> "PAYSTACK", invoice |-> InvoiceOf[q.ref], amount |-> q.amount,
                   status |-> "PENDING"]

OpenAttempt(c) ==
    LET q == checkout[c]
    IN  /\ At(c, "RESERVED")
        /\ MayOpen(q)
        /\ attempt' = With(attempt, q.ref, CardAttempt(q))
        /\ checkout' = [checkout EXCEPT ![c].at = "OPENED", ![c].prior = q.ref \in DOMAIN attempt]
        /\ UNCHANGED <<invoice, payment, corrected, request, told, holder, done,
                       providerVars, callbackVars>>

\* A check failed, or the database did: the reservation is released.
RefuseCheckout(c) ==
    /\ At(c, "RESERVED")
    /\ Release(c)
    /\ Leave(c)
    /\ UNCHANGED <<ledgerVars, done, providerVars, callbackVars>>

\* initializePaystackTransaction returns the checkout page ...
Initialize(c) ==
    /\ At(c, "OPENED")
    /\ page' = page \cup {checkout[c].ref}
    /\ Advance(c, "READY")
    /\ UNCHANGED <<ledgerVars, holder, done, handed, charged, odd, callbackVars>>

\* ... or throws, with or without Paystack having the transaction.
InitializeFails(c) ==
    /\ At(c, "OPENED")
    /\ page' \in {page, page \cup {checkout[c].ref}}
    /\ Advance(c, "INIT_FAILED")
    /\ UNCHANGED <<ledgerVars, holder, done, handed, charged, odd, callbackVars>>

\* A resumed attempt stays PENDING: an earlier run may have a page for it.
KeepPrior(c) ==
    /\ At(c, "INIT_FAILED")
    /\ checkout[c].prior
    /\ Release(c)
    /\ Leave(c)
    /\ UNCHANGED <<ledgerVars, done, providerVars, callbackVars>>

\* Mutant: the attempt is failed without giving up the lease first.
MayFailUnleased(c) == IsPending(checkout[c].ref)

\* failPaystackAttemptIfLeaseOwned: give up the lease and fail the attempt, or
\* neither.
MayFail(c) == Holds(c) /\ IsPending(checkout[c].ref)

FailOwn(c) ==
    /\ At(c, "INIT_FAILED")
    /\ ~checkout[c].prior
    /\ MayFail(c)
    /\ Settle(checkout[c].ref, "FAILED")
    /\ Release(c)
    /\ Leave(c)
    /\ UNCHANGED <<invoice, payment, corrected, request, told, done, providerVars, callbackVars>>

\* The response is stored with the lease still held, and the page is sent.
Complete(c) ==
    /\ At(c, "READY")
    /\ Holds(c)
    /\ holder' = Without(holder, checkout[c].ref)
    /\ done' = done \cup {checkout[c].ref}
    /\ handed' = handed \cup {checkout[c].ref}
    /\ Leave(c)
    /\ UNCHANGED <<ledgerVars, page, charged, odd, callbackVars>>

\* The response could not be stored, the lease not being lost: it is sent all
\* the same.
SendUnstored(c) ==
    /\ At(c, "READY")
    /\ Abandon(c)
    /\ handed' = handed \cup {checkout[c].ref}
    /\ Leave(c)
    /\ UNCHANGED <<ledgerVars, done, page, charged, odd, callbackVars>>

\* The process dies, the lease turns out lost, or the failed attempt could not
\* be marked: the request ends where it is.
DropCheckout(c) ==
    /\ c \in DOMAIN checkout
    /\ Abandon(c)
    /\ Leave(c)
    /\ UNCHANGED <<ledgerVars, done, providerVars, callbackVars>>

-----------------------------------------------------------------------------
(* Paystack and the parent (outside the repository). *)

\* The parent pays on a page, once; the event may not match what was asked.
Pay(r) ==
    /\ r \in handed
    /\ r \notin charged
    /\ charged' = charged \cup {r}
    /\ odd' \in {odd, odd \cup {r}}
    /\ UNCHANGED <<ledgerVars, checkout, holder, done, page, handed, callbackVars>>

-----------------------------------------------------------------------------
(* POST /api/payments/paystack/webhook, delivered until it is answered 2xx,  *)
(* and possibly again.                                                       *)

PostCard(r) ==
    /\ Post(r, attempt[r].invoice, attempt[r].amount, "PAYSTACK")
    /\ Settle(r, "PAID")

Acknowledge(r) == acked' = acked \cup {r}

\* Mutant: a refused posting is logged and answered with 2xx.
WebhookPostSwallowed(r) ==
    /\ r \in charged \ odd
    /\ r \in DOMAIN attempt
    /\ PostCard(r) \/ (~HasRoom(attempt[r].invoice, attempt[r].amount) /\ UNCHANGED <<invoice, payment, attempt>>)
    /\ Acknowledge(r)
    /\ UNCHANGED <<corrected, request, told, checkout, holder, done, providerVars, issue, verifying>>

WebhookPost(r) ==
    /\ r \in charged \ odd
    /\ r \in DOMAIN attempt
    /\ PostCard(r)
    /\ Acknowledge(r)
    /\ UNCHANGED <<corrected, request, told, checkout, holder, done, providerVars, issue, verifying>>

\* Mutant: an event for a posted reference is answered with an error.
WebhookReplayRefused(r) ==
    /\ r \in charged \ odd
    /\ r \in DOMAIN attempt
    /\ Posted(r)
    /\ UNCHANGED allVars

WebhookReplay(r) ==
    /\ r \in charged \ odd
    /\ r \in DOMAIN attempt
    /\ Posted(r)
    /\ Acknowledge(r)
    /\ UNCHANGED <<ledgerVars, checkout, holder, done, providerVars, issue, verifying>>

\* recordReconciliationIssue: created, or opened again.
WebhookHold(r) ==
    /\ r \in odd
    /\ issue' = With(issue, r, "OPEN")
    /\ Acknowledge(r)
    /\ UNCHANGED <<ledgerVars, checkout, holder, done, providerVars, verifying>>

\* PATCH /api/super-admin/payment-reconciliation: posts no money.
ResolveIssue(r) ==
    /\ r \in DOMAIN issue
    /\ issue[r] = "OPEN"
    /\ issue' = [issue EXCEPT ![r] = "RESOLVED"]
    /\ UNCHANGED <<ledgerVars, checkout, holder, done, providerVars, acked, verifying>>

-----------------------------------------------------------------------------
(* POST /api/parent/fees/payments: verify. *)

\* Mutant: the verified amount and currency are not compared.
AskPaystackLoosely(r) ==
    /\ r \in DOMAIN attempt
    /\ attempt[r].provider = "PAYSTACK"
    /\ attempt[r].status /= "PAID"
    /\ ~Posted(r)
    /\ r \in page
    /\ r \notin DOMAIN verifying
    /\ \E answer \in {"success", "not paid"} :
          /\ answer = "success" => r \in charged
          /\ verifying' = With(verifying, r, answer)
    /\ UNCHANGED <<ledgerVars, checkout, holder, done, providerVars, acked, issue>>

\* The attempt and the receipt are read, then Paystack is asked.  Without a
\* transaction it gives no usable answer, and nothing happens.  A charge that was
\* made under another e-mail than the parent's counts as none.
AskPaystack(r) ==
    /\ r \in DOMAIN attempt
    /\ attempt[r].provider = "PAYSTACK"
    /\ attempt[r].status /= "PAID"
    /\ ~Posted(r)
    /\ r \in page
    /\ r \notin DOMAIN verifying
    /\ \E answer \in {"success", "not paid"} :
          /\ answer = "success" => r \in charged \ odd
          /\ verifying' = With(verifying, r, answer)
    /\ UNCHANGED <<ledgerVars, checkout, holder, done, providerVars, acked, issue>>

Answered(r, answer) ==
    /\ r \in DOMAIN verifying
    /\ verifying[r] = answer
    /\ verifying' = Without(verifying, r)
    /\ UNCHANGED <<checkout, holder, done, providerVars, acked, issue>>

VerifyPost(r) ==
    /\ Answered(r, "success")
    /\ PostCard(r)
    /\ UNCHANGED <<corrected, request, told>>

\* A definite no fails the attempt, if it is still PENDING.
MayFailVerified(r) == IsPending(r)

VerifyFail(r) ==
    /\ Answered(r, "not paid")
    /\ MayFailVerified(r)
    /\ Settle(r, "FAILED")
    /\ UNCHANGED <<invoice, payment, corrected, request, told>>

\* The receipt is there already, the posting was refused or the call died: an
\* inconclusive verification leaves the attempt as it is.
VerifyEnds(r) ==
    /\ \E answer \in {"success", "not paid"} : Answered(r, answer)
    /\ UNCHANGED ledgerVars

-----------------------------------------------------------------------------
CheckoutInit ==
    /\ Init
    /\ checkout = NoRows
    /\ holder = NoRows
    /\ done = {}
    /\ page = {}
    /\ handed = {}
    /\ charged = {}
    /\ odd = {}
    /\ acked = {}
    /\ issue = NoRows
    /\ verifying = NoRows

LedgerStep == Next /\ UNCHANGED checkoutVars

CheckoutStep(c) ==
    \/ \E r \in CardRefs, a \in Amounts : StartCheckout(c, r, a)
    \/ OpenAttempt(c) \/ RefuseCheckout(c)
    \/ Initialize(c) \/ InitializeFails(c)
    \/ KeepPrior(c) \/ FailOwn(c)
    \/ Complete(c) \/ SendUnstored(c) \/ DropCheckout(c)

ProviderStep(r) ==
    \/ Pay(r)
    \/ WebhookPost(r) \/ WebhookReplay(r) \/ WebhookHold(r) \/ ResolveIssue(r)
    \/ AskPaystack(r) \/ VerifyPost(r) \/ VerifyFail(r) \/ VerifyEnds(r)

CheckoutNext ==
    \/ LedgerStep
    \/ \E c \in Checkouts : CheckoutStep(c)
    \/ \E r \in CardRefs : ProviderStep(r)

CheckoutSpec == CheckoutInit /\ [][CheckoutNext]_allVars

\* Paystack delivers the event of a charge until it is answered with 2xx.
FairCheckoutSpec ==
    /\ CheckoutSpec
    /\ \A r \in CardRefs :
         WF_allVars(r \notin acked /\ (WebhookPost(r) \/ WebhookReplay(r) \/ WebhookHold(r)))

-----------------------------------------------------------------------------
(* Properties, beside those of FeeLedger. *)

\* "Never trusts the browser for paid": a card receipt exists only for a
\* reference that Paystack charged as asked, and its attempt is PAID with the
\* same invoice and amount.
CardReceiptsAreBacked ==
    \A r \in DOMAIN payment : payment[r].method = "PAYSTACK" =>
        /\ r \in charged \ odd
        /\ r \in DOMAIN attempt
        /\ attempt[r] = [provider |-> "PAYSTACK", invoice |-> payment[r].invoice,
                         amount |-> payment[r].amount, status |-> "PAID"]

\* A success event that was answered with 2xx, and so is not delivered again
\* for certain, has left a receipt or a reconciliation issue.
AckedChargesAreAccountedFor ==
    \A r \in acked : Posted(r) \/ r \in DOMAIN issue

\* "A late first request cannot invalidate a retry that took over the expired
\* lease": an attempt whose page was stored as the response and sent is failed
\* only because Paystack answered that it was not paid.  (A page sent although
\* its response could not be stored has no such protection: if its request had
\* lost the lease, the request that took over may still fail the attempt.)
StoredPagesStayOpen ==
    [][\A r \in done :
        attempt[r].status = "PENDING" /\ attempt'[r].status = "FAILED"
            => r \in DOMAIN verifying /\ verifying[r] = "not paid"]_allVars

\* Parts of the inductive invariant.  The checkout's own tables.
CheckoutTablesOK ==
    /\ DOMAIN checkout \subseteq Checkouts
    /\ \A c \in DOMAIN checkout : checkout[c] \in
         [at : {"RESERVED", "OPENED", "READY", "INIT_FAILED"}, ref : CardRefs,
          amount : Nat \ {0}, seen : Nat, prior : BOOLEAN]
    /\ charged \subseteq handed
    /\ odd \subseteq charged

\* A key is not reserved again once its response is stored.
StoredKeysAreFree == DOMAIN holder \cap done = {}

\* What the provider and the parent know of a reference goes back to a card
\* attempt, and no attempt changes its kind.
IsCard(r) == r \in DOMAIN attempt /\ attempt[r].provider = "PAYSTACK"
CardsAreKept ==
    /\ \A c \in DOMAIN checkout : checkout[c].at /= "RESERVED" => IsCard(checkout[c].ref)
    /\ \A r \in done \cup handed \cup DOMAIN verifying : IsCard(r)

\* A success that a verify call was told stays true while the call runs.
VerifiedAreCharged ==
    \A r \in DOMAIN verifying : verifying[r] = "success" => r \in charged \ odd

CardInv ==
    /\ IInv
    /\ CheckoutTablesOK
    /\ StoredKeysAreFree
    /\ CardsAreKept
    /\ VerifiedAreCharged
    /\ CardReceiptsAreBacked
    /\ AckedChargesAreAccountedFor

\* Every successful charge is eventually posted or held as an issue, unless its
\* invoice no longer has room for it.
NoRoomFor(r) == r \in DOMAIN attempt /\ invoice[attempt[r].invoice].balance < attempt[r].amount
ChargesAreSettled == \A r \in CardRefs : r \in charged ~> (r \in acked \/ NoRoomFor(r))
=============================================================================

-------------------------- MODULE FeeCheckoutProofs --------------------------
(***************************************************************************)
(* Proofs about the card checkout, for any sets of references, requests    *)
(* and checkouts.  The ledger's invariant is kept by the ledger's own      *)
(* steps (FeeLedgerProofs); what remains is what the checkout writes.      *)
(***************************************************************************)
EXTENDS FeeCheckout, FeeLedgerProofs

-----------------------------------------------------------------------------
(* What the checkout does to the ledger. *)

LedgerButAttempts == <<invoice, payment, corrected, request, told>>

\* A card attempt is failed.
CardFails(r) ==
    /\ IsCard(r)
    /\ IsPending(r)
    /\ Settle(r, "FAILED")
    /\ UNCHANGED LedgerButAttempts

\* A card payment is posted.
CardPosts(r) ==
    /\ IsCard(r)
    /\ r \in charged \ odd
    /\ PostCard(r)
    /\ UNCHANGED <<corrected, request, told>>

\* An attempt is opened, or opened again.
CardOpens(c) ==
    /\ At(c, "RESERVED")
    /\ MayOpen(checkout[c])
    /\ attempt' = With(attempt, checkout[c].ref, CardAttempt(checkout[c]))
    /\ UNCHANGED LedgerButAttempts

\* What is known of a checkout in progress.
LEMMA CheckoutTypes ==
  ASSUME CheckoutTablesOK, NEW c \in DOMAIN checkout
  PROVE  /\ c \in Checkouts
         /\ checkout[c].ref \in CardRefs /\ checkout[c].ref \in Refs
         /\ InvoiceOf[checkout[c].ref] \in Invoices
         /\ checkout[c].amount \in Nat \ {0}
BY CardRefsAssumption, InvoiceOfAssumption DEF CheckoutTablesOK

\* The rows of a card attempt.
LEMMA OpenedRow ==
  ASSUME TypeOK, CheckoutTablesOK, NEW c \in Checkouts, CardOpens(c)
  PROVE  LET q == checkout[c]
         IN  /\ c \in DOMAIN checkout
             /\ q.ref \notin DOMAIN payment
             /\ q.ref \in DOMAIN attempt => IsCard(q.ref)
             /\ PendingOn(InvoiceOf[q.ref]) \subseteq {q.ref}
             /\ DOMAIN attempt' = DOMAIN attempt \cup {q.ref}
             /\ attempt'[q.ref] = CardAttempt(q)
             /\ CardAttempt(q) \in AttemptRows
             /\ \A x \in DOMAIN attempt : x /= q.ref => attempt'[x] = attempt[x]
<1> DEFINE q == checkout[c]
<1>1. /\ c \in DOMAIN checkout
      /\ q.ref \notin DOMAIN payment
      /\ q.ref \in DOMAIN attempt => IsCard(q.ref)
      /\ PendingOn(InvoiceOf[q.ref]) \subseteq {q.ref}
      /\ attempt' = With(attempt, q.ref, CardAttempt(q))
  BY DEF CardOpens, At, MayOpen, Posted, Retryable, IsCard
<1>2. CardAttempt(q) \in AttemptRows
  BY <1>1, CheckoutTypes DEF CardAttempt, AttemptRows
<1> HIDE DEF q
<1>3. /\ DOMAIN attempt' = DOMAIN attempt \cup {q.ref}
      /\ attempt'[q.ref] = CardAttempt(q)
      /\ \A x \in DOMAIN attempt : x /= q.ref => attempt'[x] = attempt[x]
  BY <1>1 DEF With
<1> QED
  BY <1>1, <1>2, <1>3 DEF q

\* What is known of a posting.
LEMMA PostedCard ==
  ASSUME TypeOK, NEW r \in CardRefs, CardPosts(r)
  PROVE  /\ r \in Refs /\ r \in DOMAIN attempt /\ attempt[r] \in AttemptRows
         /\ attempt[r].invoice \in Invoices /\ attempt[r].amount \in Nat \ {0}
         /\ Post(r, attempt[r].invoice, attempt[r].amount, "PAYSTACK")
         /\ Settle(r, "PAID")
         /\ DOMAIN attempt' = DOMAIN attempt
         /\ attempt'[r] = [provider |-> "PAYSTACK", invoice |-> attempt[r].invoice,
                           amount |-> attempt[r].amount, status |-> "PAID"]
         /\ \A x \in DOMAIN attempt : x /= r => attempt'[x] = attempt[x]
         /\ r \notin DOMAIN payment
         /\ DOMAIN payment' = DOMAIN payment \cup {r}
         /\ payment'[r] = [invoice |-> attempt[r].invoice, amount |-> attempt[r].amount,
                           method |-> "PAYSTACK"]
         /\ \A x \in DOMAIN payment : payment'[x] = payment[x]
<1>1. /\ r \in DOMAIN attempt /\ attempt[r].provider = "PAYSTACK"
      /\ Post(r, attempt[r].invoice, attempt[r].amount, "PAYSTACK")
      /\ Settle(r, "PAID")
  BY DEF CardPosts, IsCard, PostCard
<1>2. attempt[r] \in AttemptRows /\ r \in Refs
  BY <1>1, CardRefsAssumption DEF TypeOK
<1>3. /\ DOMAIN attempt' = DOMAIN attempt
      /\ attempt'[r] = [provider |-> "PAYSTACK", invoice |-> attempt[r].invoice,
                        amount |-> attempt[r].amount, status |-> "PAID"]
      /\ \A x \in DOMAIN attempt : x /= r => attempt'[x] = attempt[x]
  BY <1>1, <1>2 DEF Settle, AttemptRows
<1>4. attempt[r].invoice \in Invoices /\ attempt[r].amount \in Nat \ {0}
  BY <1>2 DEF AttemptRows
<1>5. /\ r \notin DOMAIN payment
      /\ DOMAIN payment' = DOMAIN payment \cup {r}
      /\ payment'[r] = [invoice |-> attempt[r].invoice, amount |-> attempt[r].amount,
                        method |-> "PAYSTACK"]
      /\ \A x \in DOMAIN payment : payment'[x] = payment[x]
  <2>1. "PAYSTACK" \in Methods
    BY DEF Methods
  <2>2. r \notin DOMAIN payment
    BY <1>1 DEF Post, Posted
  <2> QED
    BY <1>1, <1>2, <1>4, <2>1, <2>2, PostTypes
<1> QED
  BY <1>1, <1>2, <1>3, <1>4, <1>5

-----------------------------------------------------------------------------
(* The ledger's invariant. *)

\* What only attempts can disturb.
LEMMA AttemptsOnly ==
  ASSUME IInv, UNCHANGED LedgerButAttempts,
         TypeOK', RequestsMatchRows', TransferMatchesReceipt', OneOpenAttempt',
         VerdictsStand', RejectedAreTransfers'
  PROVE  IInv'
<1> USE DEF LedgerButAttempts
<1>1. RowsAreConsistent'
  BY DEF IInv, RowsAreConsistent, ComputeStatus
<1>2. SumsInv'
  BY DEF IInv, SumsInv, CorrectionsAreUnique, ReadsAreCurrent, LedgerAgrees, NeverOverpaid, Units, NetPaid
<1> QED
  BY <1>1, <1>2 DEF IInv, TransfersInv

\* The new row is of no transfer and has no receipt, and no other attempt of
\* the invoice was pending.
LEMMA OpensLedger ==
  ASSUME IInv, CheckoutTablesOK, NEW c \in Checkouts, CardOpens(c)
  PROVE  IInv'
<1> DEFINE q == checkout[c]
<1>1. TypeOK /\ RequestsMatchRows /\ TransferMatchesReceipt /\ OneOpenAttempt /\ VerdictsStand
      /\ RejectedAreTransfers
  BY DEF IInv, TransfersInv
<1>2. /\ c \in DOMAIN checkout
      /\ q.ref \notin DOMAIN payment
      /\ q.ref \in DOMAIN attempt => attempt[q.ref].provider = "PAYSTACK"
      /\ PendingOn(InvoiceOf[q.ref]) \subseteq {q.ref}
      /\ DOMAIN attempt' = DOMAIN attempt \cup {q.ref}
      /\ attempt'[q.ref] = CardAttempt(q)
      /\ CardAttempt(q) \in AttemptRows
      /\ \A x \in DOMAIN attempt : x /= q.ref => attempt'[x] = attempt[x]
  BY <1>1, OpenedRow DEF IsCard
<1>3. q.ref \in Refs /\ CardAttempt(q).status = "PENDING" /\ CardAttempt(q).invoice = InvoiceOf[q.ref]
  BY <1>2, CheckoutTypes DEF CardAttempt
<1>4. UNCHANGED <<invoice, payment, corrected, request, told>>
  BY DEF CardOpens, LedgerButAttempts
<1> HIDE DEF q
<1>5. TypeOK'
  BY <1>1, <1>2, <1>3, <1>4 DEF TypeOK
<1>6. RequestsMatchRows'
  BY <1>1, <1>2, <1>4 DEF RequestsMatchRows, Posted
<1>7. TransferMatchesReceipt'
  BY <1>1, <1>2, <1>3, <1>4 DEF TransferMatchesReceipt, Posted
<1>8. VerdictsStand' /\ RejectedAreTransfers'
  BY <1>1, <1>2, <1>4 DEF VerdictsStand, RejectedAreTransfers, Posted
<1>9. OneOpenAttempt'
  <2>1. \A i \in Invoices : i = InvoiceOf[q.ref] => PendingOn(i)' \subseteq {q.ref}
    BY <1>2 DEF PendingOn
  <2>2. \A i \in Invoices : i /= InvoiceOf[q.ref] => PendingOn(i)' \subseteq PendingOn(i)
    BY <1>2, <1>3 DEF PendingOn
  <2> QED
    BY <1>1, <2>1, <2>2 DEF OneOpenAttempt
<1> QED
  BY <1>1, <1>4, <1>5, <1>6, <1>7, <1>8, <1>9, AttemptsOnly DEF LedgerButAttempts

\* A failed attempt was pending: it has no receipt and nobody was told of it.
LEMMA FailsLedger ==
  ASSUME IInv, NEW r \in CardRefs, CardFails(r)
  PROVE  IInv'
<1>1. TypeOK /\ RequestsMatchRows /\ TransferMatchesReceipt /\ OneOpenAttempt /\ VerdictsStand
      /\ RejectedAreTransfers
  BY DEF IInv, TransfersInv
<1>2. /\ r \in DOMAIN attempt /\ attempt[r].status = "PENDING"
      /\ Settle(r, "FAILED")
      /\ UNCHANGED <<invoice, payment, corrected, request, told>>
  BY DEF CardFails, IsPending, LedgerButAttempts
<1>3. /\ DOMAIN attempt' = DOMAIN attempt
      /\ attempt'[r].status = "FAILED"
      /\ attempt'[r].provider = attempt[r].provider
      /\ attempt'[r].invoice = attempt[r].invoice
      /\ attempt'[r].amount = attempt[r].amount
      /\ \A x \in DOMAIN attempt : x /= r => attempt'[x] = attempt[x]
  BY <1>1, <1>2, SettledAttempt
<1>4. TypeOK'
  <2>1. attempt[r] \in AttemptRows /\ attempt'[r] \in AttemptRows
    BY <1>1, <1>2 DEF TypeOK, Settle, AttemptRows
  <2> QED
    BY <1>1, <1>2, <1>3, <2>1 DEF TypeOK
<1>5. RequestsMatchRows'
  BY <1>1, <1>2, <1>3 DEF RequestsMatchRows, Posted
<1>6. TransferMatchesReceipt'
  BY <1>1, <1>2, <1>3 DEF TransferMatchesReceipt, Posted
<1>7. VerdictsStand' /\ RejectedAreTransfers'
  BY <1>1, <1>2, <1>3 DEF VerdictsStand, RejectedAreTransfers, Posted
<1>8. OneOpenAttempt'
  <2>1. \A i \in Invoices : PendingOn(i)' \subseteq PendingOn(i)
    BY <1>3 DEF PendingOn
  <2> QED
    BY <1>1, <2>1 DEF OneOpenAttempt
<1> QED
  BY <1>1, <1>2, <1>4, <1>5, <1>6, <1>7, <1>8, AttemptsOnly DEF LedgerButAttempts

\* A posted card payment meets the ledger's invariant as cash does, and makes
\* its attempt PAID.
LEMMA PostsLedger ==
  ASSUME IInv, NEW r \in CardRefs, CardPosts(r)
  PROVE  IInv'
<1> DEFINE i == attempt[r].invoice
           a == attempt[r].amount
<1>1. /\ TypeOK /\ RowsAreConsistent /\ RequestsMatchRows /\ TransferMatchesReceipt /\ OneOpenAttempt
      /\ VerdictsStand /\ RejectedAreTransfers /\ SumsInv
  BY DEF IInv, TransfersInv
<1>2. /\ r \in Refs /\ r \in DOMAIN attempt
      /\ i \in Invoices /\ a \in Nat \ {0}
      /\ Post(r, i, a, "PAYSTACK")
      /\ Settle(r, "PAID")
      /\ DOMAIN attempt' = DOMAIN attempt
      /\ attempt'[r] = [provider |-> "PAYSTACK", invoice |-> i, amount |-> a, status |-> "PAID"]
      /\ \A x \in DOMAIN attempt : x /= r => attempt'[x] = attempt[x]
      /\ r \notin DOMAIN payment
      /\ DOMAIN payment' = DOMAIN payment \cup {r}
      /\ payment'[r] = [invoice |-> i, amount |-> a, method |-> "PAYSTACK"]
      /\ \A x \in DOMAIN payment : payment'[x] = payment[x]
  BY <1>1, PostedCard
<1>3. UNCHANGED <<corrected, request, told>> /\ attempt[r].provider = "PAYSTACK"
  BY DEF CardPosts, IsCard
<1>4. HasRoom(i, a) /\ Reserve(i, a) /\ Quiet(i)
  BY <1>2 DEF Post
<1>5. "PAYSTACK" \in Methods
  BY DEF Methods
<1> HIDE DEF i, a
<1>6. TypeOK'
  <2>1. /\ invoice' \in [Invoices -> InvoiceRows]
        /\ \A x \in DOMAIN payment' : payment'[x] \in PaymentRows
    BY <1>1, <1>2, <1>5, PostTypes
  <2>2. attempt'[r] \in AttemptRows
    BY <1>2 DEF AttemptRows
  <2> QED
    BY <1>1, <1>2, <1>3, <2>1, <2>2 DEF TypeOK
<1>7. RowsAreConsistent'
  BY <1>1, <1>2, <1>4, PostedRow
<1>8. RequestsMatchRows'
  BY <1>1, <1>2, <1>3 DEF RequestsMatchRows, Posted
<1>9. TransferMatchesReceipt'
  BY <1>1, <1>2, <1>3 DEF TransferMatchesReceipt, Posted
<1>10. VerdictsStand' /\ RejectedAreTransfers'
  BY <1>1, <1>2, <1>3 DEF VerdictsStand, RejectedAreTransfers, Posted
<1>11. OneOpenAttempt'
  <2>1. \A j \in Invoices : PendingOn(j)' \subseteq PendingOn(j)
    BY <1>2 DEF PendingOn
  <2> QED
    BY <1>1, <2>1 DEF OneOpenAttempt
<1>12. IsFiniteSet(Units(payment, DOMAIN payment))
  BY <1>1 DEF SumsInv
<1>13. IsFiniteSet(Units(payment, DOMAIN payment))'
  <2>1. IsFiniteSet(Units(payment', DOMAIN payment'))
    BY <1>1, <1>2, <1>5, <1>12, PostSums
  <2> QED
    BY <2>1 DEF Units
<1>14. CorrectionsAreUnique'
  BY <1>1, <1>3 DEF SumsInv, CorrectionsAreUnique
<1>15. ASSUME QuietCorrections PROVE LedgerAgrees' /\ NeverOverpaid'
  <2>1. LedgerAgrees /\ NeverOverpaid
    BY <1>1, <1>15 DEF SumsInv
  <2>2. LedgerAgrees'
    BY <1>1, <1>2, <1>3, <1>5, <1>12, <2>1, PostAgrees
  <2>3. NeverOverpaid'
    BY <1>1, <1>2, <1>4, <2>1, PostHasRoom
  <2> QED
    BY <2>2, <2>3
<1>16. ASSUME QuietCorrections PROVE ReadsAreCurrent'
  <2>1. ReadsAreCurrent
    BY <1>1, <1>16 DEF SumsInv
  <2>2. ASSUME NEW s \in DOMAIN request, request[s].op = "CORRECT"
        PROVE  NetPaid(payment', request[s].invoice, corrected \cup {request[s].ref})
                 = NetPaid(payment, request[s].invoice, corrected \cup {request[s].ref})
    <3>1. request[s].invoice /= i
      BY <1>4, <1>16, <2>2 DEF Quiet, Correcting
    <3>2. request[s].invoice \in Invoices /\ corrected \cup {request[s].ref} \in SUBSET DOMAIN payment
      BY <1>1, <2>2, RequestTypes DEF RequestsMatchRows, Posted, TypeOK
    <3> QED
      BY <1>1, <1>2, <1>5, <1>12, <3>1, <3>2, PostKeepsNet
  <2> QED
    BY <1>3, <2>1, <2>2 DEF ReadsAreCurrent
<1> QED
  BY <1>6, <1>7, <1>8, <1>9, <1>10, <1>11, <1>13, <1>14, <1>15, <1>16 DEF IInv, TransfersInv, SumsInv

-----------------------------------------------------------------------------
(* Every step, seen from the ledger. *)

LEMMA LedgerEffects ==
  ASSUME CardInv, [CheckoutNext]_allVars
  PROVE  \/ [Next]_ledgerVars /\ UNCHANGED checkoutVars
         \/ /\ (\E c \in Checkouts : CheckoutStep(c)) \/ \E r \in CardRefs : ProviderStep(r)
            /\ \/ UNCHANGED ledgerVars
               \/ \E c \in Checkouts : CardOpens(c)
               \/ \E r \in CardRefs : CardFails(r) \/ CardPosts(r)
<1> DEFINE Effect == \/ UNCHANGED ledgerVars
                     \/ \E c \in Checkouts : CardOpens(c)
                     \/ \E r \in CardRefs : CardFails(r) \/ CardPosts(r)
<1>1. ASSUME NEW c \in Checkouts, CheckoutStep(c) PROVE Effect
  <2>1. ASSUME OpenAttempt(c) PROVE CardOpens(c)
    BY <2>1 DEF OpenAttempt, CardOpens, LedgerButAttempts
  <2>2. ASSUME FailOwn(c) PROVE checkout[c].ref \in CardRefs /\ CardFails(checkout[c].ref)
    <3>1. c \in DOMAIN checkout /\ checkout[c].at = "INIT_FAILED"
      BY <2>2 DEF FailOwn, At
    <3>2. checkout[c].ref \in CardRefs /\ IsCard(checkout[c].ref)
      BY <3>1, CheckoutTypes DEF CardInv, CardsAreKept
    <3> QED
      BY <2>2, <3>2 DEF FailOwn, MayFail, CardFails, LedgerButAttempts
  <2>3. ASSUME \/ \E r \in CardRefs, a \in Amounts : StartCheckout(c, r, a)
               \/ RefuseCheckout(c) \/ Initialize(c) \/ InitializeFails(c)
               \/ KeepPrior(c) \/ Complete(c) \/ SendUnstored(c) \/ DropCheckout(c)
        PROVE  UNCHANGED ledgerVars
    BY <2>3 DEF StartCheckout, RefuseCheckout, Initialize, InitializeFails, KeepPrior, Complete,
                SendUnstored, DropCheckout
  <2> QED
    BY <1>1, <2>1, <2>2, <2>3 DEF CheckoutStep
<1>2. ASSUME NEW r \in CardRefs, ProviderStep(r) PROVE Effect
  <2>1. ASSUME r \in charged PROVE IsCard(r)
    BY <2>1 DEF CardInv, CheckoutTablesOK, CardsAreKept
  <2>2. ASSUME r \in DOMAIN verifying PROVE IsCard(r)
    BY <2>2 DEF CardInv, CardsAreKept
  <2>3. ASSUME WebhookPost(r) PROVE CardPosts(r)
    BY <2>1, <2>3 DEF WebhookPost, CardPosts
  <2>4. ASSUME VerifyPost(r) PROVE CardPosts(r)
    BY <2>2, <2>4 DEF VerifyPost, Answered, CardPosts, CardInv, VerifiedAreCharged
  <2>5. ASSUME VerifyFail(r) PROVE CardFails(r)
    BY <2>2, <2>5 DEF VerifyFail, MayFailVerified, Answered, CardFails, LedgerButAttempts
  <2>6. ASSUME \/ Pay(r) \/ WebhookReplay(r) \/ WebhookHold(r) \/ ResolveIssue(r)
               \/ AskPaystack(r) \/ VerifyEnds(r)
        PROVE  UNCHANGED ledgerVars
    BY <2>6 DEF Pay, WebhookReplay, WebhookHold, ResolveIssue, AskPaystack, VerifyEnds
  <2> QED
    BY <1>2, <2>3, <2>4, <2>5, <2>6 DEF ProviderStep
<1>3. CASE LedgerStep \/ UNCHANGED allVars
  BY <1>3 DEF LedgerStep, allVars
<1> QED
  BY <1>1, <1>2, <1>3 DEF CheckoutNext

\* The ledger's invariant is kept by every step of the checkout.
LEMMA LedgerInvStep ==
  ASSUME CardInv, [CheckoutNext]_allVars
  PROVE  IInv'
<1>1. IInv /\ CheckoutTablesOK
  BY DEF CardInv
<1>2. CASE [Next]_ledgerVars
  BY <1>1, <1>2, InductiveInvariant
<1>3. CASE UNCHANGED ledgerVars
  BY <1>1, <1>3, InductiveInvariant
<1> QED
  BY <1>1, <1>2, <1>3, OpensLedger, FailsLedger, PostsLedger, LedgerEffects

\* The ledger's own steps post no card receipt and change no PAID attempt.
LEMMA LedgerKeepsCards ==
  ASSUME TypeOK, [Next]_ledgerVars
  PROVE  /\ \A r \in DOMAIN payment' \ DOMAIN payment : payment'[r].method /= "PAYSTACK"
         /\ \A r \in DOMAIN attempt : attempt[r].status = "PAID" => attempt'[r] = attempt[r]
<1>1. CASE UNCHANGED Tables
  BY <1>1 DEF Tables
<1>2. ASSUME NEW s \in Staff, RecordCash(s)
      PROVE  /\ \A r \in DOMAIN payment' \ DOMAIN payment : payment'[r].method = "CASH"
             /\ UNCHANGED attempt
  <2>1. Post(request[s].ref, request[s].invoice, request[s].amount, "CASH") /\ UNCHANGED attempt
    BY <1>2 DEF RecordCash
  <2> QED
    BY <2>1, PostedReceipt
<1>3. ASSUME NEW s \in Staff, Approve(s)
      PROVE  /\ \A r \in DOMAIN payment' \ DOMAIN payment : payment'[r].method = "BANK_TRANSFER"
             /\ \A r \in DOMAIN attempt : attempt[r].status = "PAID" => attempt'[r] = attempt[r]
  <2>1. /\ Post(request[s].ref, request[s].invoice, request[s].amount, "BANK_TRANSFER")
        /\ IsPending(request[s].ref) /\ Settle(request[s].ref, "PAID")
    BY <1>3 DEF Approve
  <2>2. \A r \in DOMAIN payment' \ DOMAIN payment : payment'[r].method = "BANK_TRANSFER"
    BY <2>1, PostedReceipt
  <2>3. \A r \in DOMAIN attempt : attempt[r].status = "PAID" => attempt'[r] = attempt[r]
    BY <2>1, SettledAttempt DEF IsPending
  <2> QED
    BY <2>2, <2>3
<1>4. ASSUME NEW s \in Staff, Reject(s)
      PROVE  /\ UNCHANGED payment
             /\ \A r \in DOMAIN attempt : attempt[r].status = "PAID" => attempt'[r] = attempt[r]
  BY <1>4, SettledAttempt DEF Reject, MayReject, IsPending
<1>5. ASSUME NEW s \in Staff, SubmitTransfer(s)
      PROVE  /\ UNCHANGED payment
             /\ \A r \in DOMAIN attempt : attempt'[r] = attempt[r]
  BY <1>5 DEF SubmitTransfer, MayDeclare, With
<1>6. ASSUME NEW s \in Staff, ApproveReplay(s) \/ WriteCorrection(s)
      PROVE  UNCHANGED <<attempt, payment>>
  BY <1>6 DEF ApproveReplay, WriteCorrection
<1> QED
  BY <1>1, <1>2, <1>3, <1>4, <1>5, <1>6, StepCases

\* What every step keeps: card attempts stay card attempts, receipts and PAID
\* attempts with a receipt stay as they are.
LEMMA CardsStay ==
  ASSUME CardInv, [CheckoutNext]_allVars
  PROVE  /\ \A r : IsCard(r) => IsCard(r)'
         /\ \A r \in DOMAIN payment : r \in DOMAIN payment' /\ payment'[r] = payment[r]
         /\ \A r \in DOMAIN payment \cap DOMAIN attempt :
              attempt[r].status = "PAID" => r \in DOMAIN attempt' /\ attempt'[r] = attempt[r]
<1>1. TypeOK /\ CheckoutTablesOK
  BY DEF CardInv, IInv
<1>2. CASE [Next]_ledgerVars
  BY <1>1, <1>2, RowsKeepColumns, LedgerKeepsCards DEF IsCard
<1>3. CASE UNCHANGED ledgerVars
  BY <1>3 DEF ledgerVars, IsCard
<1>4. ASSUME NEW c \in Checkouts, CardOpens(c)
      PROVE  /\ \A r : IsCard(r) => IsCard(r)'
             /\ UNCHANGED payment
             /\ \A r \in DOMAIN payment \cap DOMAIN attempt : r \in DOMAIN attempt' /\ attempt'[r] = attempt[r]
  <2> DEFINE q == checkout[c]
  <2>1. /\ q.ref \notin DOMAIN payment
        /\ DOMAIN attempt' = DOMAIN attempt \cup {q.ref}
        /\ attempt'[q.ref] = CardAttempt(q)
        /\ \A x \in DOMAIN attempt : x /= q.ref => attempt'[x] = attempt[x]
    BY <1>1, <1>4, OpenedRow
  <2>2. attempt'[q.ref].provider = "PAYSTACK"
    BY <2>1 DEF CardAttempt
  <2>3. UNCHANGED payment
    BY <1>4 DEF CardOpens, LedgerButAttempts
  <2> HIDE DEF q
  <2>4. \A r : IsCard(r) => IsCard(r)'
    BY <2>1, <2>2 DEF IsCard
  <2>5. \A r \in DOMAIN payment \cap DOMAIN attempt : r \in DOMAIN attempt' /\ attempt'[r] = attempt[r]
    BY <2>1
  <2> QED
    BY <2>3, <2>4, <2>5
<1>5. ASSUME NEW r \in CardRefs, CardFails(r)
      PROVE  /\ \A x : IsCard(x) => IsCard(x)'
             /\ UNCHANGED payment
             /\ \A x \in DOMAIN attempt : attempt[x].status = "PAID" =>
                   x \in DOMAIN attempt' /\ attempt'[x] = attempt[x]
  BY <1>1, <1>5, SettledAttempt DEF IsCard, CardFails, IsPending, LedgerButAttempts
<1>6. ASSUME NEW r \in CardRefs, CardPosts(r)
      PROVE  /\ \A x : IsCard(x) => IsCard(x)'
             /\ \A x \in DOMAIN payment : x \in DOMAIN payment' /\ payment'[x] = payment[x]
             /\ \A x \in DOMAIN payment \cap DOMAIN attempt : x \in DOMAIN attempt' /\ attempt'[x] = attempt[x]
  <2>1. /\ DOMAIN attempt' = DOMAIN attempt
        /\ attempt'[r] = [provider |-> "PAYSTACK", invoice |-> attempt[r].invoice,
                          amount |-> attempt[r].amount, status |-> "PAID"]
        /\ \A x \in DOMAIN attempt : x /= r => attempt'[x] = attempt[x]
        /\ r \notin DOMAIN payment
        /\ DOMAIN payment' = DOMAIN payment \cup {r}
        /\ \A x \in DOMAIN payment : payment'[x] = payment[x]
    BY <1>1, <1>6, PostedCard
  <2>2. \A x : IsCard(x) => IsCard(x)'
    <3>1. attempt'[r].provider = "PAYSTACK"
      BY <2>1
    <3> QED
      BY <2>1, <3>1 DEF IsCard
  <2> QED
    BY <2>1, <2>2
<1> QED
  BY <1>2, <1>3, <1>4, <1>5, <1>6, LedgerEffects

-----------------------------------------------------------------------------
(* The parts of the checkout's invariant. *)

\* Charges and acknowledgements are never taken back, and no page is handed out
\* but for an attempt that was opened.
LEMMA ProviderOnlyAdds ==
  ASSUME CheckoutTablesOK, [CheckoutNext]_allVars
  PROVE  charged \ odd \subseteq charged' \ odd'
<1>1. CASE LedgerStep \/ UNCHANGED allVars
  BY <1>1 DEF LedgerStep, allVars, checkoutVars, providerVars
<1>2. ASSUME NEW c \in Checkouts, CheckoutStep(c) PROVE UNCHANGED <<charged, odd>>
  BY <1>2 DEF CheckoutStep, StartCheckout, OpenAttempt, RefuseCheckout, Initialize, InitializeFails,
              KeepPrior, FailOwn, Complete, SendUnstored, DropCheckout, providerVars
<1>3. ASSUME NEW r \in CardRefs, Pay(r) PROVE charged \ odd \subseteq charged' \ odd'
  BY <1>3 DEF Pay
<1>4. ASSUME NEW r \in CardRefs, ProviderStep(r), ~Pay(r) PROVE UNCHANGED <<charged, odd>>
  BY <1>4 DEF ProviderStep, WebhookPost, WebhookReplay, WebhookHold, ResolveIssue, AskPaystack,
              VerifyPost, VerifyFail, VerifyEnds, Answered, providerVars
<1> QED
  BY <1>1, <1>2, <1>3, <1>4 DEF CheckoutNext

\* A new card receipt is of a charge that matches its attempt, whoever posts it;
\* the attempt is PAID from then on, and a PAID attempt with a receipt stays.
LEMMA BackedStep ==
  ASSUME CardInv, [CheckoutNext]_allVars
  PROVE  CardReceiptsAreBacked'
<1> DEFINE Fits(p, t, r) == r \in DOMAIN t /\ t[r] = [provider |-> "PAYSTACK", invoice |-> p[r].invoice,
                                                  amount |-> p[r].amount, status |-> "PAID"]
<1>1. TypeOK /\ CheckoutTablesOK /\ CardReceiptsAreBacked
  BY DEF CardInv, IInv
<1>2. charged \ odd \subseteq charged' \ odd'
  BY <1>1, ProviderOnlyAdds
<1>3. \A r \in DOMAIN payment : payment'[r].method = "PAYSTACK" =>
         r \in charged' \ odd' /\ Fits(payment', attempt', r)
  <2>1. \A r \in DOMAIN payment : payment[r].method = "PAYSTACK" =>
           r \in charged \ odd /\ Fits(payment, attempt, r) /\ attempt[r].status = "PAID"
    BY <1>1 DEF CardReceiptsAreBacked
  <2>2. /\ \A r \in DOMAIN payment : payment'[r] = payment[r]
        /\ \A r \in DOMAIN payment \cap DOMAIN attempt :
             attempt[r].status = "PAID" => r \in DOMAIN attempt' /\ attempt'[r] = attempt[r]
    BY CardsStay
  <2> QED
    BY <1>2, <2>1, <2>2
<1>4. \A r \in DOMAIN payment' \ DOMAIN payment : payment'[r].method = "PAYSTACK" =>
         r \in charged' \ odd' /\ Fits(payment', attempt', r)
  <2>1. CASE [Next]_ledgerVars
    BY <1>1, <2>1, LedgerKeepsCards
  <2>2. CASE UNCHANGED payment
    BY <2>2
  <2>3. ASSUME NEW x \in CardRefs, CardPosts(x)
        PROVE  DOMAIN payment' = DOMAIN payment \cup {x} /\ x \in charged \ odd /\ Fits(payment', attempt', x)
    <3>1. /\ x \in DOMAIN attempt /\ DOMAIN attempt' = DOMAIN attempt
          /\ attempt'[x] = [provider |-> "PAYSTACK", invoice |-> attempt[x].invoice,
                            amount |-> attempt[x].amount, status |-> "PAID"]
          /\ payment'[x] = [invoice |-> attempt[x].invoice, amount |-> attempt[x].amount,
                            method |-> "PAYSTACK"]
          /\ DOMAIN payment' = DOMAIN payment \cup {x}
      BY <1>1, <2>3, PostedCard
    <3>2. payment'[x].invoice = attempt[x].invoice /\ payment'[x].amount = attempt[x].amount
      BY <3>1
    <3> QED
      BY <2>3, <3>1, <3>2 DEF CardPosts
  <2>4. (\E c \in Checkouts : CardOpens(c)) \/ (\E x \in CardRefs : CardFails(x)) => UNCHANGED payment
    BY DEF CardOpens, CardFails, LedgerButAttempts
  <2>5. UNCHANGED ledgerVars => UNCHANGED payment
    BY DEF ledgerVars
  <2> HIDE DEF Fits
  <2> QED
    BY <1>2, <2>1, <2>2, <2>3, <2>4, <2>5, LedgerEffects
<1> QED
  BY <1>3, <1>4 DEF CardReceiptsAreBacked

\* An event is only answered with 2xx once its receipt or its issue exists, and
\* neither is ever deleted.
LEMMA AccountedStep ==
  ASSUME CardInv, [CheckoutNext]_allVars
  PROVE  AckedChargesAreAccountedFor'
<1>1. AckedChargesAreAccountedFor /\ TypeOK
  BY DEF CardInv, IInv
<1>2. DOMAIN payment \subseteq DOMAIN payment'
  BY CardsStay
<1>3. CASE acked' = acked /\ DOMAIN issue \subseteq DOMAIN issue'
  BY <1>1, <1>2, <1>3 DEF AckedChargesAreAccountedFor, Posted
<1>4. ASSUME NEW r \in CardRefs, WebhookPost(r) \/ WebhookReplay(r)
      PROVE  acked' = acked \cup {r} /\ r \in DOMAIN payment' /\ issue' = issue
  <2>1. WebhookPost(r) => acked' = acked \cup {r} /\ issue' = issue
                          /\ Post(r, attempt[r].invoice, attempt[r].amount, "PAYSTACK")
    BY DEF WebhookPost, PostCard, Acknowledge
  <2>2. WebhookPost(r) => r \in DOMAIN payment'
    BY <2>1, PostedReceipt
  <2>3. WebhookReplay(r) => acked' = acked \cup {r} /\ issue' = issue /\ r \in DOMAIN payment'
    BY <1>2 DEF WebhookReplay, Acknowledge, Posted
  <2> QED
    BY <1>4, <2>1, <2>2, <2>3
<1>5. ASSUME NEW r \in CardRefs, WebhookHold(r)
      PROVE  acked' = acked \cup {r} /\ DOMAIN issue' = DOMAIN issue \cup {r}
  BY <1>5 DEF WebhookHold, Acknowledge, With
<1>6. CASE LedgerStep \/ UNCHANGED allVars
  BY <1>3, <1>6 DEF LedgerStep, allVars, checkoutVars, callbackVars
<1>7. ASSUME NEW c \in Checkouts, CheckoutStep(c) PROVE UNCHANGED <<acked, issue>>
  BY <1>7 DEF CheckoutStep, StartCheckout, OpenAttempt, RefuseCheckout, Initialize, InitializeFails,
              KeepPrior, FailOwn, Complete, SendUnstored, DropCheckout, callbackVars
<1>8. ASSUME NEW r \in CardRefs,
             Pay(r) \/ ResolveIssue(r) \/ AskPaystack(r) \/ VerifyPost(r) \/ VerifyFail(r) \/ VerifyEnds(r)
      PROVE  acked' = acked /\ DOMAIN issue' = DOMAIN issue
  BY <1>8 DEF Pay, ResolveIssue, AskPaystack, VerifyPost, VerifyFail, VerifyEnds, Answered, callbackVars
<1>9. \A r \in CardRefs : WebhookPost(r) \/ WebhookReplay(r) \/ WebhookHold(r) => AckedChargesAreAccountedFor'
  BY <1>1, <1>2, <1>4, <1>5 DEF AckedChargesAreAccountedFor, Posted
<1> QED
  BY <1>3, <1>6, <1>7, <1>8, <1>9 DEF CheckoutNext, ProviderStep

CheckoutRows == [at : {"RESERVED", "OPENED", "READY", "INIT_FAILED"}, ref : CardRefs,
         amount : Nat \ {0}, seen : Nat, prior : BOOLEAN]

\* The row of the checkout that acts, after each of its actions.
LEMMA CheckoutRow ==
  ASSUME CardInv, NEW c \in Checkouts, CheckoutStep(c)
  PROVE  /\ DOMAIN checkout' \subseteq DOMAIN checkout \cup {c}
         /\ \A d \in DOMAIN checkout' : d /= c => d \in DOMAIN checkout /\ checkout'[d] = checkout[d]
         /\ c \in DOMAIN checkout' => checkout'[c] \in CheckoutRows
         /\ c \in DOMAIN checkout' /\ checkout'[c].at /= "RESERVED" =>
              /\ c \in DOMAIN checkout /\ checkout'[c].ref = checkout[c].ref
              /\ checkout[c].at /= "RESERVED" \/ CardOpens(c)
<1> DEFINE Goal == /\ DOMAIN checkout' \subseteq DOMAIN checkout \cup {c}
                   /\ \A d \in DOMAIN checkout' : d /= c => d \in DOMAIN checkout /\ checkout'[d] = checkout[d]
                   /\ c \in DOMAIN checkout' => checkout'[c] \in CheckoutRows
                   /\ c \in DOMAIN checkout' /\ checkout'[c].at /= "RESERVED" =>
                        /\ c \in DOMAIN checkout /\ checkout'[c].ref = checkout[c].ref
                        /\ checkout[c].at /= "RESERVED" \/ CardOpens(c)
<1>1. c \in DOMAIN checkout => checkout[c] \in CheckoutRows
  BY DEF CardInv, CheckoutTablesOK, CheckoutRows
<1>2. ASSUME NEW r \in CardRefs, NEW a \in Amounts, StartCheckout(c, r, a) PROVE Goal
  <2> DEFINE b == invoice[InvoiceOf[r]].balance
             row == [at |-> "RESERVED", ref |-> r, amount |-> Least(a, b), seen |-> b, prior |-> FALSE]
  <2>1. b \in Nat \ {0}
    <3>1. InvoiceOf[r] \in Invoices
      BY InvoiceOfAssumption
    <3>2. invoice[InvoiceOf[r]] \in InvoiceRows
      BY <3>1 DEF CardInv, IInv, TypeOK
    <3> QED
      BY <1>2, <3>2 DEF StartCheckout, InvoiceRows
  <2>2. Least(a, b) \in Nat \ {0}
    BY <2>1, AmountsAssumption DEF Least
  <2>3. checkout' = With(checkout, c, row)
    BY <1>2 DEF StartCheckout
  <2>4. row \in CheckoutRows /\ row.at = "RESERVED"
    BY <2>1, <2>2 DEF CheckoutRows
  <2> HIDE DEF row
  <2>5. /\ DOMAIN checkout' = DOMAIN checkout \cup {c}
        /\ checkout'[c] = row
        /\ \A d \in DOMAIN checkout : d /= c => checkout'[d] = checkout[d]
    BY <2>3 DEF With
  <2> QED
    BY <2>4, <2>5
<1>3. ASSUME Leave(c) PROVE Goal
  BY <1>3 DEF Leave, Without
<1>4. ASSUME NEW step \in {"READY", "INIT_FAILED"}, At(c, "OPENED"), Advance(c, step) PROVE Goal
  <2>1. c \in DOMAIN checkout /\ checkout[c].at = "OPENED"
        /\ checkout' = [checkout EXCEPT ![c].at = step]
    BY <1>4 DEF At, Advance
  <2>2. checkout'[c] \in CheckoutRows /\ checkout'[c].ref = checkout[c].ref
    BY <1>1, <2>1 DEF CheckoutRows
  <2> QED
    BY <2>1, <2>2
<1>5. ASSUME OpenAttempt(c) PROVE Goal
  <2>1. c \in DOMAIN checkout
        /\ checkout' = [checkout EXCEPT ![c].at = "OPENED", ![c].prior = checkout[c].ref \in DOMAIN attempt]
    BY <1>5 DEF OpenAttempt, At
  <2>2. checkout'[c] \in CheckoutRows /\ checkout'[c].ref = checkout[c].ref
    BY <1>1, <2>1 DEF CheckoutRows
  <2>3. CardOpens(c)
    BY <1>5 DEF OpenAttempt, CardOpens, LedgerButAttempts
  <2> QED
    BY <2>1, <2>2, <2>3
<1> HIDE DEF Goal
<1> USE <1>2, <1>3, <1>4, <1>5
<1>6. RefuseCheckout(c) \/ KeepPrior(c) \/ FailOwn(c) \/ Complete(c) \/ SendUnstored(c) \/ DropCheckout(c) => Leave(c)
  BY DEF RefuseCheckout, KeepPrior, FailOwn, Complete, SendUnstored, DropCheckout
<1>7. Initialize(c) => Goal
  BY DEF Initialize
<1>8. InitializeFails(c) => Goal
  BY DEF InitializeFails
<1>9. Goal
  BY <1>6, <1>7, <1>8 DEF CheckoutStep
<1> QED
  BY <1>9 DEF Goal

\* What a checkout does to the lease, the stored responses and the pages sent.
LEMMA CheckoutKeys ==
  ASSUME CardInv, NEW c \in Checkouts, CheckoutStep(c)
  PROVE  /\ DOMAIN holder' \cap done' = {}
         /\ handed \subseteq handed'
         /\ \A r \in (done' \cup handed') \ (done \cup handed) : IsCard(r)
         /\ UNCHANGED <<charged, odd, verifying>>
<1> DEFINE Goal == /\ DOMAIN holder' \cap done' = {}
                   /\ handed \subseteq handed'
                   /\ \A r \in (done' \cup handed') \ (done \cup handed) : IsCard(r)
                   /\ UNCHANGED <<charged, odd, verifying>>
<1>1. DOMAIN holder \cap done = {}
  BY DEF CardInv, StoredKeysAreFree
<1>2. Release(c) \/ Abandon(c) => DOMAIN holder' \subseteq DOMAIN holder
  BY DEF Release, Abandon, Holds, Without
<1>3. At(c, "READY") => IsCard(checkout[c].ref)
  BY DEF At, CardInv, CardsAreKept
<1>4. ASSUME NEW r \in CardRefs, NEW a \in Amounts, StartCheckout(c, r, a) PROVE Goal
  BY <1>1, <1>4 DEF StartCheckout, With, providerVars, callbackVars
<1>5. ASSUME OpenAttempt(c) \/ Initialize(c) \/ InitializeFails(c) PROVE Goal
  BY <1>1, <1>5 DEF OpenAttempt, Initialize, InitializeFails, providerVars, callbackVars
<1>6. ASSUME RefuseCheckout(c) \/ KeepPrior(c) \/ FailOwn(c) \/ DropCheckout(c) PROVE Goal
  BY <1>1, <1>2, <1>6 DEF RefuseCheckout, KeepPrior, FailOwn, DropCheckout, providerVars, callbackVars
<1>7. ASSUME Complete(c) PROVE Goal
  BY <1>1, <1>3, <1>7 DEF Complete, Without, callbackVars
<1>8. ASSUME SendUnstored(c) PROVE Goal
  BY <1>1, <1>2, <1>3, <1>8 DEF SendUnstored, callbackVars
<1> QED
  BY <1>4, <1>5, <1>6, <1>7, <1>8 DEF CheckoutStep

\* What the provider and its callbacks do to the same, and to the verify calls.
LEMMA ProviderKeys ==
  ASSUME CardInv, NEW r \in CardRefs, ProviderStep(r)
  PROVE  /\ UNCHANGED <<checkout, holder, done, handed>>
         /\ charged' \subseteq handed /\ odd' \subseteq charged'
         /\ \A x \in DOMAIN verifying' \ DOMAIN verifying :
              IsCard(x) /\ (verifying'[x] = "success" => x \in charged \ odd)
         /\ \A x \in DOMAIN verifying' \cap DOMAIN verifying : verifying'[x] = verifying[x]
<1> DEFINE Goal == /\ UNCHANGED <<checkout, holder, done, handed>>
                   /\ charged' \subseteq handed /\ odd' \subseteq charged'
                   /\ \A x \in DOMAIN verifying' \ DOMAIN verifying :
                        IsCard(x) /\ (verifying'[x] = "success" => x \in charged \ odd)
                   /\ \A x \in DOMAIN verifying' \cap DOMAIN verifying : verifying'[x] = verifying[x]
<1>1. charged \subseteq handed /\ odd \subseteq charged
  BY DEF CardInv, CheckoutTablesOK
<1>2. ASSUME Pay(r) PROVE Goal
  BY <1>1, <1>2 DEF Pay, callbackVars
<1>3. ASSUME WebhookPost(r) \/ WebhookReplay(r) \/ WebhookHold(r) \/ ResolveIssue(r) PROVE Goal
  BY <1>1, <1>3 DEF WebhookPost, WebhookReplay, WebhookHold, ResolveIssue, providerVars
<1>4. ASSUME AskPaystack(r) PROVE Goal
  <2>1. /\ UNCHANGED <<checkout, holder, done, providerVars>>
        /\ IsCard(r) /\ r \notin DOMAIN verifying
    BY <1>4 DEF AskPaystack, IsCard
  <2>2. PICK answer : /\ verifying' = With(verifying, r, answer)
                      /\ answer = "success" => r \in charged \ odd
    BY <1>4 DEF AskPaystack
  <2>3. /\ DOMAIN verifying' = DOMAIN verifying \cup {r}
        /\ verifying'[r] = "success" => r \in charged \ odd
        /\ \A x \in DOMAIN verifying : verifying'[x] = verifying[x]
    BY <2>1, <2>2 DEF With
  <2> QED
    BY <1>1, <2>1, <2>3 DEF providerVars
<1>5. ASSUME NEW answer, Answered(r, answer) PROVE Goal
  BY <1>1, <1>5 DEF Answered, Without, providerVars
<1>6. ASSUME VerifyPost(r) \/ VerifyFail(r) \/ VerifyEnds(r) PROVE Goal
  BY <1>5, <1>6 DEF VerifyPost, VerifyFail, VerifyEnds
<1> HIDE DEF Goal
<1>7. Goal
  BY <1>2, <1>3, <1>4, <1>6 DEF ProviderStep
<1> QED
  BY <1>7 DEF Goal

\* Leases, stored responses, pages and verify calls: only IsCard and charged are
\* needed of the ledger and the provider.
LEMMA KeysStep ==
  ASSUME CardInv, [CheckoutNext]_allVars
  PROVE  CheckoutTablesOK' /\ StoredKeysAreFree' /\ CardsAreKept' /\ VerifiedAreCharged'
<1> DEFINE Goal == CheckoutTablesOK' /\ StoredKeysAreFree' /\ CardsAreKept' /\ VerifiedAreCharged'
           StillCard(x) == x \in DOMAIN attempt' /\ attempt'[x].provider = "PAYSTACK"
<1>1. CheckoutTablesOK /\ StoredKeysAreFree /\ CardsAreKept /\ VerifiedAreCharged
  BY DEF CardInv
<1>2. \A r : IsCard(r) => StillCard(r)
  BY CardsStay DEF IsCard
<1>3. charged \ odd \subseteq charged' \ odd'
  BY <1>1, ProviderOnlyAdds
<1>4. CASE LedgerStep \/ UNCHANGED allVars
  <2>1. UNCHANGED <<checkout, holder, done, handed, charged, odd, verifying>>
    BY <1>4 DEF LedgerStep, allVars, checkoutVars, providerVars, callbackVars
  <2> QED
    BY <1>1, <1>2, <2>1 DEF CheckoutTablesOK, StoredKeysAreFree, CardsAreKept, IsCard, VerifiedAreCharged
<1>5. ASSUME NEW c \in Checkouts, CheckoutStep(c) PROVE Goal
  <2>1. /\ DOMAIN holder' \cap done' = {}
        /\ handed \subseteq handed'
        /\ \A r \in (done' \cup handed') \ (done \cup handed) : IsCard(r)
        /\ UNCHANGED <<charged, odd, verifying>>
    BY <1>5, CheckoutKeys
  <2>2. /\ DOMAIN checkout' \subseteq DOMAIN checkout \cup {c}
        /\ \A d \in DOMAIN checkout' : d /= c => d \in DOMAIN checkout /\ checkout'[d] = checkout[d]
        /\ c \in DOMAIN checkout' => checkout'[c] \in CheckoutRows
        /\ c \in DOMAIN checkout' /\ checkout'[c].at /= "RESERVED" =>
             /\ c \in DOMAIN checkout /\ checkout'[c].ref = checkout[c].ref
             /\ checkout[c].at /= "RESERVED" \/ CardOpens(c)
    BY <1>5, CheckoutRow
  <2>3. CheckoutTablesOK'
    BY <1>1, <2>1, <2>2 DEF CheckoutTablesOK, CheckoutRows
  <2>4. StoredKeysAreFree'
    BY <2>1 DEF StoredKeysAreFree
  <2>5. CardOpens(c) => StillCard(checkout[c].ref)
    <3>1. ASSUME CardOpens(c)
          PROVE  checkout[c].ref \in DOMAIN attempt' /\ attempt'[checkout[c].ref] = CardAttempt(checkout[c])
      BY <1>1, <3>1, OpenedRow DEF CardInv, IInv
    <3>2. CardAttempt(checkout[c]).provider = "PAYSTACK"
      BY DEF CardAttempt
    <3>3. ASSUME CardOpens(c)
          PROVE  checkout[c].ref \in DOMAIN attempt' /\ attempt'[checkout[c].ref].provider = "PAYSTACK"
      BY <3>1, <3>2, <3>3
    <3> QED
      BY <3>3
  <2>6. ASSUME NEW d \in DOMAIN checkout', checkout'[d].at /= "RESERVED" PROVE StillCard(checkout'[d].ref)
    <3>1. CASE d = c
      BY <1>1, <1>2, <2>2, <2>5, <2>6, <3>1 DEF CardsAreKept
    <3>2. CASE d /= c
      BY <1>1, <1>2, <2>2, <2>6, <3>2 DEF CardsAreKept
    <3> QED
      BY <3>1, <3>2
  <2>7. \A r \in done' \cup handed' \cup DOMAIN verifying' : StillCard(r)
    BY <1>1, <1>2, <2>1 DEF CardsAreKept
  <2>8. CardsAreKept'
    BY <2>6, <2>7 DEF CardsAreKept, IsCard
  <2>9. VerifiedAreCharged'
    BY <1>1, <2>1 DEF VerifiedAreCharged
  <2> QED
    BY <2>3, <2>4, <2>8, <2>9
<1>6. ASSUME NEW r \in CardRefs, ProviderStep(r) PROVE Goal
  <2>1. /\ UNCHANGED <<checkout, holder, done, handed>>
        /\ charged' \subseteq handed /\ odd' \subseteq charged'
        /\ \A x \in DOMAIN verifying' \ DOMAIN verifying :
             IsCard(x) /\ (verifying'[x] = "success" => x \in charged \ odd)
        /\ \A x \in DOMAIN verifying' \cap DOMAIN verifying : verifying'[x] = verifying[x]
    BY <1>6, ProviderKeys
  <2>2. CheckoutTablesOK' /\ StoredKeysAreFree'
    BY <1>1, <2>1 DEF CheckoutTablesOK, StoredKeysAreFree
  <2>3. \A x \in DOMAIN verifying' : IsCard(x)
    BY <1>1, <2>1 DEF CardsAreKept
  <2>4. CardsAreKept'
    BY <1>1, <1>2, <2>1, <2>3 DEF CardsAreKept, IsCard
  <2>5. VerifiedAreCharged'
    BY <1>1, <1>3, <2>1 DEF VerifiedAreCharged
  <2> QED
    BY <2>2, <2>4, <2>5
<1> HIDE DEF Goal
<1>7. LedgerStep \/ UNCHANGED allVars => Goal
  BY <1>4 DEF Goal
<1>8. Goal
  BY <1>5, <1>6, <1>7 DEF CheckoutNext
<1> QED
  BY <1>8 DEF Goal

\* The invariant holds at first, and every step keeps it.
LEMMA CardInit == CheckoutInit => CardInv
<1> SUFFICES ASSUME CheckoutInit PROVE CardInv
  OBVIOUS
<1>1. IInv /\ payment = NoRows
  BY InitInv DEF CheckoutInit, Init
<1>2. CheckoutTablesOK /\ StoredKeysAreFree /\ CardsAreKept /\ VerifiedAreCharged
  BY DEF CheckoutInit, NoRows, CheckoutTablesOK, StoredKeysAreFree, CardsAreKept, VerifiedAreCharged
<1>3. CardReceiptsAreBacked /\ AckedChargesAreAccountedFor
  BY <1>1 DEF CheckoutInit, NoRows, CardReceiptsAreBacked, AckedChargesAreAccountedFor
<1> QED
  BY <1>1, <1>2, <1>3 DEF CardInv

LEMMA CardStep == CardInv /\ [CheckoutNext]_allVars => CardInv'
<1> SUFFICES ASSUME CardInv, [CheckoutNext]_allVars PROVE CardInv'
  OBVIOUS
<1> QED
  BY LedgerInvStep, KeysStep, BackedStep, AccountedStep DEF CardInv

LEMMA CardInvariance == CheckoutSpec => []CardInv
BY CardInit, CardStep, PTL DEF CheckoutSpec

-----------------------------------------------------------------------------
(* Theorems. *)

\* No card receipt without a charge: the browser, the webhook and the verify call
\* may race in any way, and a receipt of the kind PAYSTACK still stands for a
\* charge of the amount asked, on an attempt that is PAID.
THEOREM CardReceiptsBacked == CheckoutSpec => []CardReceiptsAreBacked
<1>1. CardInv => CardReceiptsAreBacked
  BY DEF CardInv
<1> QED
  BY <1>1, CardInvariance, PTL

\* A success event that was answered with 2xx has left a receipt or an issue.
THEOREM ChargesAccounted == CheckoutSpec => []AckedChargesAreAccountedFor
<1>1. CardInv => AckedChargesAreAccountedFor
  BY DEF CardInv
<1> QED
  BY <1>1, CardInvariance, PTL

\* Cards and transfers together never leave two payments of an invoice open.
THEOREM CheckoutsAreExclusive == CheckoutSpec => []OneOpenAttempt
<1>1. CardInv => OneOpenAttempt
  BY DEF CardInv, IInv, TransfersInv
<1> QED
  BY <1>1, CardInvariance, PTL

\* A stored page stays open: the request that would fail its attempt holds no
\* lease any more, and a bursar rejects transfers only.
LEMMA PagesStep ==
  ASSUME CardInv, [CheckoutNext]_allVars, NEW r \in done,
         attempt[r].status = "PENDING", attempt'[r].status = "FAILED"
  PROVE  r \in DOMAIN verifying /\ verifying[r] = "not paid"
<1>1. /\ IInv /\ TypeOK /\ RequestsMatchRows /\ CheckoutTablesOK
      /\ IsCard(r) /\ r \notin DOMAIN holder
  BY DEF CardInv, IInv, TransfersInv, CardsAreKept, StoredKeysAreFree
<1>2. r \in DOMAIN attempt /\ attempt[r].provider = "PAYSTACK"
  BY <1>1 DEF IsCard
<1>3. attempt' /= attempt
  OBVIOUS
<1>4. ASSUME [Next]_ledgerVars PROVE FALSE
  <2>1. ASSUME NEW s \in Staff, SubmitTransfer(s) PROVE attempt'[r] = attempt[r]
    BY <1>2, <2>1 DEF SubmitTransfer, MayDeclare, With
  <2>2. ASSUME NEW s \in Staff, Approve(s) \/ Reject(s) PROVE attempt'[r] = attempt[r]
    <3>1. /\ s \in DOMAIN request /\ request[s].op \in {"APPROVE", "REJECT"}
          /\ Settle(request[s].ref, "PAID") \/ Settle(request[s].ref, "FAILED")
      BY <2>2 DEF Approve, Reject, Busy
    <3>2. request[s].ref /= r /\ request[s].ref \in DOMAIN attempt
      BY <1>1, <1>2, <3>1 DEF RequestsMatchRows
    <3> QED
      BY <1>1, <1>2, <3>1, <3>2, SettledAttempt
  <2>3. ASSUME NEW s \in Staff, RecordCash(s) \/ ApproveReplay(s) \/ WriteCorrection(s)
        PROVE  UNCHANGED attempt
    BY <2>3 DEF RecordCash, ApproveReplay, WriteCorrection
  <2> QED
    BY <1>3, <1>4, <2>1, <2>2, <2>3, StepCases DEF Tables
<1>5. UNCHANGED ledgerVars => FALSE
  BY <1>3 DEF ledgerVars
<1>6. ASSUME NEW c \in Checkouts, CardOpens(c) PROVE FALSE
  <2>1. /\ attempt'[checkout[c].ref] = CardAttempt(checkout[c])
        /\ \A x \in DOMAIN attempt : x /= checkout[c].ref => attempt'[x] = attempt[x]
    BY <1>1, <1>6, OpenedRow
  <2>2. CardAttempt(checkout[c]).status = "PENDING"
    BY DEF CardAttempt
  <2> QED
    BY <1>2, <2>1, <2>2
<1>7. ASSUME NEW x, Settle(x, "PAID") PROVE FALSE
  <2>1. CASE x = r
    BY <1>1, <1>2, <1>7, <2>1, SettledAttempt
  <2>2. CASE x /= r
    BY <1>2, <1>7, <2>2 DEF Settle
  <2> QED
    BY <2>1, <2>2
<1>8. ASSUME NEW x, Settle(x, "FAILED") PROVE x = r
  BY <1>2, <1>8 DEF Settle
<1>9. ASSUME NEW c \in Checkouts, CheckoutStep(c) PROVE FALSE
  <2>1. OpenAttempt(c) => CardOpens(c)
    BY DEF OpenAttempt, CardOpens, LedgerButAttempts
  <2>2. FailOwn(c) => checkout[c].ref \in DOMAIN holder /\ Settle(checkout[c].ref, "FAILED")
    BY DEF FailOwn, MayFail, Holds
  <2>3. OpenAttempt(c) \/ FailOwn(c) \/ UNCHANGED ledgerVars
    BY <1>9 DEF CheckoutStep, StartCheckout, RefuseCheckout, Initialize, InitializeFails, KeepPrior,
                Complete, SendUnstored, DropCheckout
  <2> QED
    BY <1>1, <1>5, <1>6, <1>8, <2>1, <2>2, <2>3
<1>10. ASSUME NEW x \in CardRefs, ProviderStep(x) PROVE r \in DOMAIN verifying /\ verifying[r] = "not paid"
  <2>1. WebhookPost(x) \/ VerifyPost(x) => Settle(x, "PAID")
    BY DEF WebhookPost, VerifyPost, PostCard
  <2>2. VerifyFail(x) => Settle(x, "FAILED") /\ x \in DOMAIN verifying /\ verifying[x] = "not paid"
    BY DEF VerifyFail, Answered
  <2>3. WebhookPost(x) \/ VerifyPost(x) \/ VerifyFail(x) \/ UNCHANGED ledgerVars
    BY <1>10 DEF ProviderStep, Pay, WebhookReplay, WebhookHold, ResolveIssue, AskPaystack, VerifyEnds
  <2> QED
    BY <1>5, <1>7, <1>8, <2>1, <2>2, <2>3
<1>11. ~LedgerStep /\ ~UNCHANGED allVars
  BY <1>4, <1>5 DEF LedgerStep, allVars
<1> QED
  BY <1>9, <1>10, <1>11 DEF CheckoutNext

\* No request fails an attempt whose page was stored and sent, however late it
\* runs: only Paystack's own answer that it was not paid does.
THEOREM StoredPagesAreKept == CheckoutSpec => StoredPagesStayOpen
<1>1. ASSUME CardInv, [CheckoutNext]_allVars
      PROVE  [\A r \in done : attempt[r].status = "PENDING" /\ attempt'[r].status = "FAILED"
                 => r \in DOMAIN verifying /\ verifying[r] = "not paid"]_allVars
  BY <1>1, PagesStep
<1>2. CardInv /\ [CheckoutNext]_allVars
        => [\A r \in done : attempt[r].status = "PENDING" /\ attempt'[r].status = "FAILED"
               => r \in DOMAIN verifying /\ verifying[r] = "not paid"]_allVars
  BY <1>1
<1> QED
  BY <1>2, CardInvariance, PTL DEF CheckoutSpec, StoredPagesStayOpen
=============================================================================

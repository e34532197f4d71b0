--------------------------- MODULE FeeLedgerProofs ---------------------------
(***************************************************************************)
(* Proofs about the fee ledger, for any sets of invoices, references and   *)
(* requests and any billed amounts.                                        *)
(***************************************************************************)
EXTENDS FeeLedger, FiniteSetTheorems, TLAPS

-----------------------------------------------------------------------------
(* Rows, tables and sums. *)

\* What With and Without do to a table.
LEMMA TableOps ==
  ASSUME NEW f, NEW x, NEW v
  PROVE  /\ DOMAIN With(f, x, v) = DOMAIN f \cup {x}
         /\ With(f, x, v)[x] = v
         /\ \A y \in DOMAIN f : y /= x => With(f, x, v)[y] = f[y]
         /\ DOMAIN Without(f, x) = DOMAIN f \ {x}
         /\ \A y \in DOMAIN f : y /= x => Without(f, x)[y] = f[y]
BY DEF With, Without

\* A receipt added to a set of receipts adds its amount to the set's worth.
LEMMA WorthOfOneMore ==
  ASSUME NEW p, NEW R, NEW r, r \notin R, p[r].amount \in Nat,
         IsFiniteSet(Units(p, R))
  PROVE  /\ IsFiniteSet(Units(p, R \cup {r}))
         /\ Worth(p, R \cup {r}) = Worth(p, R) + p[r].amount
<1> DEFINE mine == {r} \X (1 .. p[r].amount)
<1>1. Units(p, R \cup {r}) = Units(p, R) \cup mine
  BY DEF Units
<1>2. Units(p, R) \cap mine = {}
  BY DEF Units
<1>3. IsFiniteSet({r}) /\ Cardinality({r}) = 1
  BY FS_Singleton
<1>4. \A n \in Nat : IsFiniteSet(1 .. n) /\ Cardinality(1 .. n) = n
  <2> TAKE n \in Nat
  <2>1. /\ IsFiniteSet(1 .. n)
        /\ Cardinality(1 .. n) = IF 1 > n THEN 0 ELSE n - 1 + 1
    BY FS_Interval
  <2> QED
    BY <2>1
<1>5. IsFiniteSet(mine) /\ Cardinality(mine) = p[r].amount
  <2>1. IsFiniteSet(1 .. p[r].amount) /\ Cardinality(1 .. p[r].amount) = p[r].amount
    BY <1>4
  <2>2. IsFiniteSet(mine) /\ Cardinality(mine) = 1 * Cardinality(1 .. p[r].amount)
    BY <1>3, <2>1, FS_Product
  <2> QED
    BY <2>1, <2>2
<1>6. Cardinality(Units(p, R) \cap mine) = 0
  BY <1>2, FS_EmptySet
<1>7. Cardinality(Units(p, R)) \in Nat
  BY FS_CardinalityType
<1> HIDE DEF mine
<1>8. /\ IsFiniteSet(Units(p, R) \cup mine)
      /\ Cardinality(Units(p, R) \cup mine) = Cardinality(Units(p, R)) + p[r].amount - 0
  <2>1. PICK old : old = Units(p, R)
    OBVIOUS
  <2>2. IsFiniteSet(old) /\ IsFiniteSet(mine)
    BY <1>5, <2>1
  <2>3. /\ IsFiniteSet(old \cup mine)
        /\ Cardinality(old \cup mine)
             = Cardinality(old) + Cardinality(mine) - Cardinality(old \cap mine)
    BY <2>2, FS_Union
  <2>4. Cardinality(old \cap mine) = 0
    BY <1>6, <2>1
  <2> QED
    BY <1>5, <2>1, <2>3, <2>4
<1>9. /\ Worth(p, R \cup {r}) = Cardinality(Units(p, R) \cup mine)
      /\ Worth(p, R) = Cardinality(Units(p, R))
  BY <1>1 DEF Worth
<1>10. IsFiniteSet(Units(p, R \cup {r}))
  BY <1>1, <1>8
<1> QED
  BY <1>7, <1>8, <1>9, <1>10

\* Fewer receipts are worth no more.
LEMMA WorthOfFewer ==
  ASSUME NEW p, NEW S, IsFiniteSet(Units(p, S)), NEW R, R \subseteq S
  PROVE  /\ IsFiniteSet(Units(p, R))
         /\ Worth(p, R) \in Nat
         /\ Worth(p, S) \in Nat
         /\ Worth(p, R) <= Worth(p, S)
<1>1. Units(p, R) \subseteq Units(p, S)
  BY DEF Units
<1>2. IsFiniteSet(Units(p, R)) /\ Cardinality(Units(p, R)) <= Cardinality(Units(p, S))
  BY <1>1, FS_Subset
<1> QED
  BY <1>2, FS_CardinalityType DEF Worth

\* The worth of receipts depends on their own rows only.
LEMMA WorthOfSameRows ==
  ASSUME NEW p, NEW q, NEW R, \A r \in R : p[r] = q[r]
  PROVE  Units(p, R) = Units(q, R) /\ Worth(p, R) = Worth(q, R)
<1>1. Units(p, R) = Units(q, R)
  BY DEF Units
<1> QED
  BY <1>1 DEF Worth

\* The net worth of an invoice is a natural number.
LEMMA NetPaidType ==
  ASSUME IsFiniteSet(Units(payment, DOMAIN payment)), NEW i, NEW C
  PROVE  /\ NetPaid(payment, i, C) \in Nat
         /\ NetPaid(payment, i, C) = Worth(payment, Receipts(payment, i)) - Worth(payment, Receipts(payment, i) \cap C)
<1>1. Receipts(payment, i) \subseteq DOMAIN payment
  BY DEF Receipts
<1>2. IsFiniteSet(Units(payment, Receipts(payment, i))) /\ Worth(payment, Receipts(payment, i)) \in Nat
  BY <1>1, WorthOfFewer
<1>3. /\ Worth(payment, Receipts(payment, i) \cap C) \in Nat
      /\ Worth(payment, Receipts(payment, i) \cap C) <= Worth(payment, Receipts(payment, i))
  BY <1>2, WorthOfFewer
<1> QED
  BY <1>2, <1>3 DEF NetPaid, NotBelowZero

-----------------------------------------------------------------------------
(* Type correctness. *)

\* What is known of a request in progress.
LEMMA RequestTypes ==
  ASSUME TypeOK, NEW s \in DOMAIN request
  PROVE  /\ s \in Staff
         /\ request[s] \in Requests
         /\ request[s].invoice \in Invoices
         /\ request[s].ref \in Refs
         /\ request[s].amount \in Nat \ {0}
         /\ request[s].op \in {"TRANSFER", "CORRECT"} => request[s].seen \in Nat
<1>1. s \in Staff /\ request[s] \in Requests
  BY DEF TypeOK
<1> QED
  BY <1>1 DEF Requests, PlainRequests, SeeingRequests

\* What is known of an invoice row.
LEMMA InvoiceTypes ==
  ASSUME TypeOK, NEW i \in Invoices
  PROVE  /\ invoice[i] \in InvoiceRows
         /\ invoice[i].paid \in Nat /\ invoice[i].balance \in Nat
         /\ invoice[i].status \in InvoiceStatuses
         /\ Total[i] \in Nat /\ Total[i] > 0
<1>1. invoice[i] \in InvoiceRows
  BY DEF TypeOK
<1>2. Total[i] \in Nat /\ Total[i] > 0
  BY TotalAssumption
<1> QED
  BY <1>1, <1>2 DEF InvoiceRows

\* The rows that posting and correcting write have their types.
LEMMA WrittenRowTypes ==
  ASSUME TypeOK, NEW i \in Invoices
  PROVE  /\ \A a \in Nat \ {0} : HasRoom(i, a) =>
              [paid |-> invoice[i].paid + a, balance |-> invoice[i].balance - a,
               status |-> ComputeStatus(i, invoice[i].paid + a)] \in InvoiceRows
         /\ \A n \in Nat : Recalculated(i, n) \in InvoiceRows
<1>1. /\ invoice[i].paid \in Nat /\ invoice[i].balance \in Nat
      /\ Total[i] \in Nat
  BY InvoiceTypes
<1>2. ASSUME NEW a \in Nat \ {0}, HasRoom(i, a)
      PROVE  [paid |-> invoice[i].paid + a, balance |-> invoice[i].balance - a,
              status |-> ComputeStatus(i, invoice[i].paid + a)] \in InvoiceRows
  <2>1. invoice[i].paid + a \in Nat /\ invoice[i].balance - a \in Nat
    BY <1>1, <1>2 DEF HasRoom
  <2>2. ComputeStatus(i, invoice[i].paid + a) \in InvoiceStatuses
    BY DEF ComputeStatus, InvoiceStatuses
  <2> QED
    BY <2>1, <2>2 DEF InvoiceRows
<1>3. ASSUME NEW n \in Nat PROVE Recalculated(i, n) \in InvoiceRows
  <2>1. NotBelowZero(Total[i] - n) \in Nat
    BY <1>1 DEF NotBelowZero
  <2> QED
    BY <2>1 DEF Recalculated, InvoiceRows, InvoiceStatuses
<1> QED
  BY <1>2, <1>3

\* A table of requests gains or loses one.
LEMMA RequestTable ==
  ASSUME TypeOK, NEW s \in Staff
  PROVE  /\ End(s) => /\ DOMAIN request' \subseteq Staff
                      /\ \A t \in DOMAIN request' : request'[t] \in Requests
         /\ \A q \in Requests : Begin(s, q) =>
                      /\ DOMAIN request' \subseteq Staff
                      /\ \A t \in DOMAIN request' : request'[t] \in Requests
<1>1. /\ DOMAIN request \subseteq Staff
      /\ \A t \in DOMAIN request : request[t] \in Requests
  BY DEF TypeOK
<1>2. ASSUME End(s)
      PROVE  /\ DOMAIN request' \subseteq Staff
             /\ \A t \in DOMAIN request' : request'[t] \in Requests
  BY <1>1, <1>2 DEF End, Without
<1>3. ASSUME NEW q \in Requests, Begin(s, q)
      PROVE  /\ DOMAIN request' \subseteq Staff
             /\ \A t \in DOMAIN request' : request'[t] \in Requests
  BY <1>1, <1>3 DEF Begin, With
<1> QED
  BY <1>2, <1>3

\* Posting writes rows of the right types.
LEMMA PostTypes ==
  ASSUME TypeOK, NEW r \in Refs, NEW i \in Invoices, NEW a \in Nat \ {0}, NEW m \in Methods,
         Post(r, i, a, m)
  PROVE  /\ invoice' \in [Invoices -> InvoiceRows]
         /\ DOMAIN payment' = DOMAIN payment \cup {r}
         /\ DOMAIN payment' \subseteq Refs
         /\ payment'[r] = [invoice |-> i, amount |-> a, method |-> m]
         /\ \A x \in DOMAIN payment : x /= r /\ payment'[x] = payment[x]
         /\ \A x \in DOMAIN payment' : payment'[x] \in PaymentRows
<1> DEFINE row == [invoice |-> i, amount |-> a, method |-> m]
<1>1. row \in PaymentRows
  BY DEF PaymentRows
<1>2. payment' = With(payment, r, row) /\ r \notin DOMAIN payment
  BY DEF Post, WriteReceipt, Posted
<1>3. /\ DOMAIN payment \subseteq Refs
      /\ \A x \in DOMAIN payment : payment[x] \in PaymentRows
      /\ invoice \in [Invoices -> InvoiceRows]
  BY DEF TypeOK
<1>4. invoice' \in [Invoices -> InvoiceRows]
  BY <1>3, WrittenRowTypes DEF Post, Reserve
<1>5. /\ DOMAIN payment' = DOMAIN payment \cup {r}
      /\ payment'[r] = row
      /\ \A x \in DOMAIN payment : x /= r /\ payment'[x] = payment[x]
  BY <1>2 DEF With
<1> QED
  BY <1>1, <1>3, <1>4, <1>5

LEMMA TypeStep ==
  ASSUME TypeOK, RequestsMatchRows, IsFiniteSet(Units(payment, DOMAIN payment)),
         [Next]_ledgerVars
  PROVE  TypeOK'
<1>1. ASSUME NEW s \in Staff, NEW i \in Invoices, NEW r \in Refs, NEW a \in Amounts,
             StartTransfer(s, i, r, a)
      PROVE  TypeOK'
  <2>1. [op |-> "TRANSFER", invoice |-> i, ref |-> r,
         amount |-> Least(a, invoice[i].balance), seen |-> invoice[i].balance] \in Requests
    <3>1. invoice[i].balance \in Nat \ {0} /\ a \in Nat \ {0}
      BY <1>1, InvoiceTypes, AmountsAssumption DEF StartTransfer
    <3>2. Least(a, invoice[i].balance) \in Nat \ {0}
      BY <3>1 DEF Least
    <3> QED
      BY <3>1, <3>2 DEF Requests, SeeingRequests
  <2> QED
    BY <1>1, <2>1, RequestTable DEF StartTransfer, TypeOK
<1>2. ASSUME NEW s \in Staff, NEW i \in Invoices, NEW r \in Refs, NEW a \in Amounts,
             StartCash(s, i, r, a)
      PROVE  TypeOK'
  <2>1. [op |-> "CASH", invoice |-> i, ref |-> r, amount |-> a] \in Requests
    BY AmountsAssumption DEF Requests, PlainRequests
  <2> QED
    BY <1>2, <2>1, RequestTable DEF StartCash, TypeOK
<1>3. ASSUME NEW s \in Staff, NEW r \in Refs, NEW op \in {"APPROVE", "REJECT"},
             StartReview(s, r, op)
      PROVE  TypeOK'
  <2>1. attempt[r] \in AttemptRows
    BY <1>3 DEF StartReview, IsPending, TypeOK
  <2>2. [op |-> op, invoice |-> attempt[r].invoice, ref |-> r, amount |-> attempt[r].amount]
           \in Requests
    BY <2>1 DEF Requests, PlainRequests, AttemptRows
  <2> QED
    BY <1>3, <2>2, RequestTable DEF StartReview, TypeOK
<1>4. ASSUME NEW s \in Staff, NEW r \in Refs, StartVoid(s, r)
      PROVE  TypeOK'
  <2>1. payment[r] \in PaymentRows
    BY <1>4 DEF StartVoid, Posted, TypeOK
  <2>2. [op |-> "VOID", invoice |-> payment[r].invoice, ref |-> r,
         amount |-> payment[r].amount] \in Requests
    BY <2>1 DEF Requests, PlainRequests, PaymentRows
  <2> QED
    BY <1>4, <2>2, RequestTable DEF StartVoid, TypeOK
<1>5. ASSUME NEW s \in Staff, SubmitTransfer(s) PROVE TypeOK'
  <2>1. s \in DOMAIN request
    BY <1>5 DEF SubmitTransfer, Busy
  <2>2. Declared(request[s]) \in AttemptRows
    BY <2>1, RequestTypes DEF Declared, AttemptRows
  <2>3. /\ DOMAIN attempt' \subseteq Refs
        /\ \A r \in DOMAIN attempt' : attempt'[r] \in AttemptRows
    BY <1>5, <2>1, <2>2, RequestTypes DEF SubmitTransfer, With, TypeOK
  <2> QED
    BY <1>5, <2>3, RequestTable DEF SubmitTransfer, TypeOK
<1>6. ASSUME NEW s \in Staff, RecordCash(s) PROVE TypeOK'
  <2>1. /\ s \in DOMAIN request
        /\ Post(request[s].ref, request[s].invoice, request[s].amount, "CASH")
    BY <1>6 DEF RecordCash, Busy
  <2>2. "CASH" \in Methods
    BY DEF Methods
  <2>3. /\ invoice' \in [Invoices -> InvoiceRows]
        /\ DOMAIN payment' \subseteq Refs /\ DOMAIN payment \subseteq DOMAIN payment'
        /\ \A x \in DOMAIN payment' : payment'[x] \in PaymentRows
    BY <2>1, <2>2, RequestTypes, PostTypes
  <2> QED
    BY <1>6, <2>3, RequestTable DEF RecordCash, TypeOK
<1>7. ASSUME NEW s \in Staff, Approve(s) PROVE TypeOK'
  <2>1. /\ s \in DOMAIN request
        /\ Post(request[s].ref, request[s].invoice, request[s].amount, "BANK_TRANSFER")
    BY <1>7 DEF Approve, Busy
  <2>2. "BANK_TRANSFER" \in Methods
    BY DEF Methods
  <2>3. /\ invoice' \in [Invoices -> InvoiceRows]
        /\ DOMAIN payment' \subseteq Refs /\ DOMAIN payment \subseteq DOMAIN payment'
        /\ \A x \in DOMAIN payment' : payment'[x] \in PaymentRows
    BY <2>1, <2>2, RequestTypes, PostTypes
  <2>4. /\ DOMAIN attempt' \subseteq Refs
        /\ \A r \in DOMAIN attempt' : attempt'[r] \in AttemptRows
    BY <1>7 DEF Approve, Settle, AttemptRows, TypeOK
  <2>5. told' \subseteq Refs \X {"APPROVED", "REJECTED"}
    BY <1>7, <2>1, RequestTypes DEF Approve, TypeOK
  <2> QED
    BY <1>7, <2>3, <2>4, <2>5, RequestTable DEF Approve, TypeOK
<1>8. ASSUME NEW s \in Staff, ApproveReplay(s) PROVE TypeOK'
  <2>1. told' \subseteq Refs \X {"APPROVED", "REJECTED"}
    BY <1>8, RequestTypes DEF ApproveReplay, Busy, TypeOK
  <2> QED
    BY <1>8, <2>1, RequestTable DEF ApproveReplay, TypeOK
<1>9. ASSUME NEW s \in Staff, Reject(s) PROVE TypeOK'
  <2>1. told' \subseteq Refs \X {"APPROVED", "REJECTED"}
    BY <1>9, RequestTypes DEF Reject, Busy, TypeOK
  <2>2. /\ DOMAIN attempt' \subseteq Refs
        /\ \A r \in DOMAIN attempt' : attempt'[r] \in AttemptRows
    BY <1>9 DEF Reject, Settle, AttemptRows, TypeOK
  <2> QED
    BY <1>9, <2>1, <2>2, RequestTable DEF Reject, TypeOK
<1>10. ASSUME NEW s \in Staff, ReadLedger(s) PROVE TypeOK'
  <2>1. s \in DOMAIN request
    BY <1>10 DEF ReadLedger, Busy
  <2>2. NetPaid(payment, request[s].invoice, corrected \cup {request[s].ref}) \in Nat
    BY NetPaidType
  <2>3. [op |-> "CORRECT", invoice |-> request[s].invoice, ref |-> request[s].ref,
         amount |-> request[s].amount,
         seen |-> NetPaid(payment, request[s].invoice, corrected \cup {request[s].ref})] \in Requests
    BY <2>1, <2>2, RequestTypes DEF Requests, SeeingRequests
  <2> QED
    BY <1>10, <2>1, <2>3 DEF ReadLedger, TypeOK
<1>11. ASSUME NEW s \in Staff, WriteCorrection(s) PROVE TypeOK'
  <2>1. s \in DOMAIN request /\ request[s].op = "CORRECT"
    BY <1>11 DEF WriteCorrection, Busy
  <2>2. Recalculated(request[s].invoice, request[s].seen) \in InvoiceRows
    BY <2>1, RequestTypes, WrittenRowTypes
  <2>3. invoice' \in [Invoices -> InvoiceRows]
    BY <1>11, <2>2 DEF WriteCorrection, TypeOK
  <2>4. corrected' \subseteq DOMAIN payment
    BY <1>11, <2>1 DEF WriteCorrection, RequestsMatchRows, Posted, TypeOK
  <2> QED
    BY <1>11, <2>1, <2>3, <2>4, RequestTable DEF WriteCorrection, TypeOK
<1>12. ASSUME NEW s \in Staff, GiveUp(s) PROVE TypeOK'
  BY <1>12, RequestTable DEF GiveUp, TypeOK
<1>13. CASE UNCHANGED ledgerVars
  BY <1>13 DEF ledgerVars, TypeOK
<1> QED
  BY <1>1, <1>2, <1>3, <1>4, <1>5, <1>6, <1>7, <1>8, <1>9, <1>10, <1>11, <1>12, <1>13 DEF Next

-----------------------------------------------------------------------------
(* The invariants. *)

Tables == <<invoice, attempt, payment, corrected, told>>

\* A step writes a table in one of six ways.
LEMMA StepCases ==
  ASSUME [Next]_ledgerVars
  PROVE  \/ UNCHANGED Tables
         \/ \E s \in Staff :
              \/ SubmitTransfer(s) \/ RecordCash(s) \/ Approve(s)
              \/ ApproveReplay(s) \/ Reject(s) \/ WriteCorrection(s)
<1>1. ASSUME NEW s \in Staff, NEW r \in Refs, NEW i \in Invoices, NEW a \in Amounts,
             StartTransfer(s, i, r, a) \/ StartCash(s, i, r, a)
      PROVE  UNCHANGED Tables
  BY <1>1 DEF StartTransfer, StartCash, Tables
<1>2. ASSUME NEW s \in Staff, NEW r \in Refs, NEW op \in {"APPROVE", "REJECT"},
             StartReview(s, r, op)
      PROVE  UNCHANGED Tables
  BY <1>2 DEF StartReview, Tables
<1>3. ASSUME NEW s \in Staff, NEW r \in Refs, StartVoid(s, r)
      PROVE  UNCHANGED Tables
  BY <1>3 DEF StartVoid, Tables
<1>4. ASSUME NEW s \in Staff, ReadLedger(s) \/ GiveUp(s)
      PROVE  UNCHANGED Tables
  BY <1>4 DEF ReadLedger, GiveUp, Tables
<1>5. CASE UNCHANGED ledgerVars
  BY <1>5 DEF ledgerVars, Tables
<1> QED
  BY <1>1, <1>2, <1>3, <1>4, <1>5 DEF Next

\* A posted row is consistent.
LEMMA PostedRow ==
  ASSUME TypeOK, RowsAreConsistent, NEW i \in Invoices, NEW a \in Nat \ {0},
         HasRoom(i, a), Reserve(i, a)
  PROVE  /\ RowsAreConsistent'
         /\ invoice'[i].paid = invoice[i].paid + a
         /\ invoice'[i].balance = invoice[i].balance - a
         /\ \A j \in Invoices : j /= i => invoice'[j] = invoice[j]
<1>1. /\ invoice \in [Invoices -> InvoiceRows]
      /\ invoice[i].paid \in Nat /\ invoice[i].balance \in Nat /\ Total[i] \in Nat
  BY InvoiceTypes DEF TypeOK
<1>2. /\ invoice'[i].paid = invoice[i].paid + a
      /\ invoice'[i].balance = invoice[i].balance - a
      /\ invoice'[i].status = ComputeStatus(i, invoice[i].paid + a)
      /\ \A j \in Invoices : j /= i => invoice'[j] = invoice[j]
  BY <1>1 DEF Reserve
<1>3. invoice[i].balance >= a /\ invoice[i].balance = NotBelowZero(Total[i] - invoice[i].paid)
  BY DEF HasRoom, RowsAreConsistent
<1>4. invoice[i].balance - a = NotBelowZero(Total[i] - (invoice[i].paid + a))
  BY <1>1, <1>3 DEF NotBelowZero
<1>5. \A j \in Invoices : /\ invoice'[j].balance = NotBelowZero(Total[j] - invoice'[j].paid)
                          /\ invoice'[j].status = ComputeStatus(j, invoice'[j].paid)
  <2> TAKE j \in Invoices
  <2>1. CASE j = i
    BY <2>1, <1>2, <1>4
  <2>2. CASE j /= i
    BY <2>2, <1>2 DEF RowsAreConsistent
  <2> QED
    BY <2>1, <2>2
<1> QED
  BY <1>2, <1>5 DEF RowsAreConsistent, ComputeStatus

LEMMA RowsStep ==
  ASSUME TypeOK, RowsAreConsistent, [Next]_ledgerVars
  PROVE  RowsAreConsistent'
<1>1. CASE UNCHANGED invoice
  BY <1>1 DEF RowsAreConsistent, ComputeStatus
<1>2. ASSUME NEW s \in Staff, RecordCash(s) \/ Approve(s) PROVE RowsAreConsistent'
  <2>1. s \in DOMAIN request
    BY <1>2 DEF RecordCash, Approve, Busy
  <2>2. HasRoom(request[s].invoice, request[s].amount)
        /\ Reserve(request[s].invoice, request[s].amount)
    BY <1>2 DEF RecordCash, Approve, Post
  <2> QED
    BY <2>1, <2>2, RequestTypes, PostedRow
<1>3. ASSUME NEW s \in Staff, WriteCorrection(s) PROVE RowsAreConsistent'
  <2> DEFINE i == request[s].invoice
             n == request[s].seen
  <2>1. s \in DOMAIN request /\ request[s].op = "CORRECT"
    BY <1>3 DEF WriteCorrection, Busy
  <2>2. i \in Invoices /\ n \in Nat /\ Total[i] \in Nat /\ Total[i] > 0
    BY <2>1, RequestTypes, InvoiceTypes
  <2>3. invoice' = [invoice EXCEPT ![i] = Recalculated(i, n)] /\ invoice \in [Invoices -> InvoiceRows]
    BY <1>3 DEF WriteCorrection, TypeOK
  <2> HIDE DEF i, n
  <2>4. /\ Recalculated(i, n).paid = n
        /\ Recalculated(i, n).balance = NotBelowZero(Total[i] - n)
        /\ Recalculated(i, n).status = ComputeStatus(i, n)
    BY <2>2 DEF Recalculated, ComputeStatus, NotBelowZero
  <2>5. \A j \in Invoices : /\ invoice'[j].balance = NotBelowZero(Total[j] - invoice'[j].paid)
                            /\ invoice'[j].status = ComputeStatus(j, invoice'[j].paid)
    <3> TAKE j \in Invoices
    <3>1. CASE j = i
      BY <3>1, <2>2, <2>3, <2>4
    <3>2. CASE j /= i
      BY <3>2, <2>2, <2>3 DEF RowsAreConsistent
    <3> QED
      BY <3>1, <3>2
  <2> QED
    BY <2>5 DEF RowsAreConsistent, ComputeStatus
<1>4. ASSUME NEW s \in Staff, SubmitTransfer(s) \/ ApproveReplay(s) \/ Reject(s)
      PROVE  UNCHANGED invoice
  BY <1>4 DEF SubmitTransfer, ApproveReplay, Reject
<1> QED
  BY <1>1, <1>2, <1>3, <1>4, StepCases DEF Tables

\* Attempts and receipts keep the columns that requests have read of them.
LEMMA RowsKeepColumns ==
  ASSUME TypeOK, [Next]_ledgerVars
  PROVE  /\ DOMAIN attempt \subseteq DOMAIN attempt'
         /\ \A r \in DOMAIN attempt : /\ attempt'[r].provider = attempt[r].provider
                                      /\ attempt'[r].invoice = attempt[r].invoice
                                      /\ attempt'[r].amount = attempt[r].amount
         /\ DOMAIN payment \subseteq DOMAIN payment'
         /\ \A r \in DOMAIN payment : payment'[r] = payment[r]
<1> DEFINE Kept(r) == /\ attempt'[r].provider = attempt[r].provider
                      /\ attempt'[r].invoice = attempt[r].invoice
                      /\ attempt'[r].amount = attempt[r].amount
<1>1. \A r \in DOMAIN attempt : attempt[r] \in AttemptRows
  BY DEF TypeOK
<1>2. CASE UNCHANGED Tables
  BY <1>2 DEF Tables
<1>3. ASSUME NEW s \in Staff, SubmitTransfer(s)
      PROVE  /\ DOMAIN attempt \subseteq DOMAIN attempt' /\ UNCHANGED payment
             /\ \A r \in DOMAIN attempt : Kept(r)
  BY <1>3 DEF SubmitTransfer, MayDeclare, With
<1>4. ASSUME NEW s \in Staff, Reject(s)
      PROVE  /\ DOMAIN attempt' = DOMAIN attempt /\ UNCHANGED payment
             /\ \A r \in DOMAIN attempt : Kept(r)
  BY <1>1, <1>4 DEF Reject, Settle, AttemptRows
<1>5. ASSUME NEW r, NEW i, NEW a, NEW m, Post(r, i, a, m)
      PROVE  /\ DOMAIN payment \subseteq DOMAIN payment'
             /\ \A x \in DOMAIN payment : payment'[x] = payment[x]
  BY <1>5 DEF Post, Posted, WriteReceipt, With
<1>6. ASSUME NEW s \in Staff, Approve(s)
      PROVE  /\ DOMAIN attempt' = DOMAIN attempt
             /\ \A r \in DOMAIN attempt : Kept(r)
             /\ DOMAIN payment \subseteq DOMAIN payment'
             /\ \A x \in DOMAIN payment : payment'[x] = payment[x]
  <2>1. Post(request[s].ref, request[s].invoice, request[s].amount, "BANK_TRANSFER")
    BY <1>6 DEF Approve
  <2>2. DOMAIN attempt' = DOMAIN attempt /\ \A r \in DOMAIN attempt : Kept(r)
    BY <1>1, <1>6 DEF Approve, Settle, AttemptRows
  <2> QED
    BY <2>1, <2>2, <1>5
<1>7. ASSUME NEW s \in Staff, RecordCash(s)
      PROVE  /\ UNCHANGED attempt
             /\ DOMAIN payment \subseteq DOMAIN payment'
             /\ \A x \in DOMAIN payment : payment'[x] = payment[x]
  BY <1>7, <1>5 DEF RecordCash
<1>8. ASSUME NEW s \in Staff, ApproveReplay(s) \/ WriteCorrection(s)
      PROVE  UNCHANGED <<attempt, payment>>
  BY <1>8 DEF ApproveReplay, WriteCorrection
<1> QED
  BY <1>2, <1>3, <1>4, <1>6, <1>7, <1>8, StepCases

\* A request is as it was, or was just begun or advanced by one of five actions.
LEMMA RequestCases ==
  ASSUME [Next]_ledgerVars, NEW t \in DOMAIN request'
  PROVE  \/ t \in DOMAIN request /\ request'[t] = request[t]
         \/ \E i \in Invoices, r \in Refs, a \in Amounts :
              request'[t] \in {[op |-> "TRANSFER", invoice |-> i, ref |-> r,
                                amount |-> Least(a, invoice[i].balance), seen |-> invoice[i].balance],
                               [op |-> "CASH", invoice |-> i, ref |-> r, amount |-> a]}
         \/ \E r \in Refs, op \in {"APPROVE", "REJECT"} :
              /\ IsPending(r) /\ attempt[r].provider = "BANK_TRANSFER"
              /\ request'[t] = [op |-> op, invoice |-> attempt[r].invoice, ref |-> r,
                                amount |-> attempt[r].amount]
         \/ \E r \in Refs :
              /\ Posted(r)
              /\ request'[t] = [op |-> "VOID", invoice |-> payment[r].invoice, ref |-> r,
                                amount |-> payment[r].amount]
         \/ ReadLedger(t)
<1> DEFINE Same == t \in DOMAIN request /\ request'[t] = request[t]
<1>1. ASSUME NEW s, End(s) PROVE Same
  BY <1>1 DEF End, Without
<1>2. ASSUME NEW s, NEW q, Begin(s, q) PROVE Same \/ request'[t] = q
  BY <1>2 DEF Begin, With
<1>3. ASSUME NEW s \in Staff, ReadLedger(s) PROVE Same \/ ReadLedger(t)
  BY <1>3 DEF ReadLedger, Busy
<1>4. ASSUME NEW s \in Staff, \/ SubmitTransfer(s) \/ RecordCash(s) \/ Approve(s) \/ ApproveReplay(s)
                              \/ Reject(s) \/ WriteCorrection(s) \/ GiveUp(s)
      PROVE  Same
  BY <1>1, <1>4 DEF SubmitTransfer, RecordCash, Approve, ApproveReplay, Reject, WriteCorrection, GiveUp
<1>5. CASE UNCHANGED ledgerVars
  BY <1>5 DEF ledgerVars
<1> HIDE DEF Same
<1>6. ASSUME NEW s \in Staff, NEW r \in Refs, NEW i \in Invoices, NEW a \in Amounts,
             StartTransfer(s, i, r, a) \/ StartCash(s, i, r, a)
      PROVE  Same \/ request'[t] \in {[op |-> "TRANSFER", invoice |-> i, ref |-> r,
                                amount |-> Least(a, invoice[i].balance), seen |-> invoice[i].balance],
                               [op |-> "CASH", invoice |-> i, ref |-> r, amount |-> a]}
  BY <1>2, <1>6 DEF StartTransfer, StartCash
<1>7. ASSUME NEW s \in Staff, NEW r \in Refs, NEW op \in {"APPROVE", "REJECT"},
             StartReview(s, r, op)
      PROVE  \/ Same
             \/ /\ IsPending(r) /\ attempt[r].provider = "BANK_TRANSFER"
                /\ request'[t] = [op |-> op, invoice |-> attempt[r].invoice, ref |-> r,
                                  amount |-> attempt[r].amount]
  BY <1>2, <1>7 DEF StartReview
<1>8. ASSUME NEW s \in Staff, NEW r \in Refs, StartVoid(s, r)
      PROVE  \/ Same
             \/ /\ Posted(r)
                /\ request'[t] = [op |-> "VOID", invoice |-> payment[r].invoice, ref |-> r,
                                  amount |-> payment[r].amount]
  BY <1>2, <1>8 DEF StartVoid
<1> QED
  BY <1>3, <1>4, <1>5, <1>6, <1>7, <1>8 DEF Next, Same

LEMMA RequestsStep ==
  ASSUME TypeOK, RequestsMatchRows, [Next]_ledgerVars
  PROVE  RequestsMatchRows'
<1> DEFINE Matches(q) ==
      /\ q.op \in {"APPROVE", "REJECT"} =>
           /\ q.ref \in DOMAIN attempt
           /\ attempt[q.ref].provider = "BANK_TRANSFER"
           /\ attempt[q.ref].invoice = q.invoice
           /\ attempt[q.ref].amount = q.amount
      /\ q.op \in {"VOID", "CORRECT"} =>
           /\ Posted(q.ref)
           /\ payment[q.ref].invoice = q.invoice
           /\ payment[q.ref].amount = q.amount
<1>1. \A s \in DOMAIN request : Matches(request[s])
  BY DEF RequestsMatchRows
<1>2. ASSUME NEW t \in DOMAIN request' PROVE Matches(request'[t])
  <2>1. CASE t \in DOMAIN request /\ request'[t] = request[t]
    BY <1>1, <2>1
  <2>2. ASSUME NEW i \in Invoices, NEW r \in Refs, NEW a \in Amounts,
              request'[t] \in {[op |-> "TRANSFER", invoice |-> i, ref |-> r,
                                amount |-> Least(a, invoice[i].balance), seen |-> invoice[i].balance],
                               [op |-> "CASH", invoice |-> i, ref |-> r, amount |-> a]}
        PROVE Matches(request'[t])
    BY <2>2
  <2>3. ASSUME NEW r \in Refs, NEW op \in {"APPROVE", "REJECT"},
               IsPending(r), attempt[r].provider = "BANK_TRANSFER",
               request'[t] = [op |-> op, invoice |-> attempt[r].invoice, ref |-> r,
                              amount |-> attempt[r].amount]
        PROVE Matches(request'[t])
    BY <2>3 DEF IsPending
  <2>4. ASSUME NEW r \in Refs, Posted(r),
               request'[t] = [op |-> "VOID", invoice |-> payment[r].invoice, ref |-> r,
                              amount |-> payment[r].amount]
        PROVE Matches(request'[t])
    BY <2>4
  <2>5. CASE ReadLedger(t)
    <3>1. t \in DOMAIN request /\ Matches(request[t]) /\ request[t].op = "VOID"
      BY <1>1, <2>5 DEF ReadLedger, Busy
    <3> QED
      BY <3>1, <2>5 DEF ReadLedger
  <2> QED
    BY <2>1, <2>2, <2>3, <2>4, <2>5, RequestCases
<1>3. \A q : Matches(q) =>
        /\ q.op \in {"APPROVE", "REJECT"} =>
             /\ q.ref \in DOMAIN attempt'
             /\ attempt'[q.ref].provider = "BANK_TRANSFER"
             /\ attempt'[q.ref].invoice = q.invoice
             /\ attempt'[q.ref].amount = q.amount
        /\ q.op \in {"VOID", "CORRECT"} =>
             /\ q.ref \in DOMAIN payment'
             /\ payment'[q.ref].invoice = q.invoice
             /\ payment'[q.ref].amount = q.amount
  BY RowsKeepColumns DEF Posted
<1> QED
  BY <1>2, <1>3 DEF RequestsMatchRows, Posted

-----------------------------------------------------------------------------
(* Transfers, their reviews and what the bursar was told. *)

\* What posting does to the receipts, by reference.
LEMMA PostedReceipt ==
  ASSUME NEW r, NEW i, NEW a, NEW m, Post(r, i, a, m)
  PROVE  /\ ~Posted(r)
         /\ DOMAIN payment' = DOMAIN payment \cup {r}
         /\ payment'[r].invoice = i /\ payment'[r].amount = a /\ payment'[r].method = m
         /\ \A x \in DOMAIN payment : payment'[x] = payment[x]
BY DEF Post, Posted, WriteReceipt, With

\* What a change of status does to the attempts.
LEMMA SettledAttempt ==
  ASSUME TypeOK, NEW r \in DOMAIN attempt, NEW status, Settle(r, status)
  PROVE  /\ DOMAIN attempt' = DOMAIN attempt
         /\ attempt'[r].status = status
         /\ attempt'[r].provider = attempt[r].provider
         /\ attempt'[r].invoice = attempt[r].invoice
         /\ attempt'[r].amount = attempt[r].amount
         /\ \A x \in DOMAIN attempt : x /= r => attempt'[x] = attempt[x]
<1>1. attempt[r] \in AttemptRows
  BY DEF TypeOK
<1> QED
  BY <1>1 DEF Settle, AttemptRows

LEMMA TransferStep ==
  ASSUME TypeOK, RequestsMatchRows, TransferMatchesReceipt, [Next]_ledgerVars
  PROVE  TransferMatchesReceipt'
<1>1. CASE UNCHANGED <<attempt, payment>>
  BY <1>1 DEF TransferMatchesReceipt, Posted
<1>2. ASSUME NEW s \in Staff, SubmitTransfer(s) PROVE TransferMatchesReceipt'
  <2>1. /\ request[s].ref \notin DOMAIN attempt
        /\ attempt' = With(attempt, request[s].ref, Declared(request[s]))
        /\ UNCHANGED payment
        /\ Declared(request[s]).status = "PENDING"
    BY <1>2 DEF SubmitTransfer, MayDeclare, Declared
  <2> QED
    BY <2>1 DEF TransferMatchesReceipt, Posted, With
<1>3. ASSUME NEW s \in Staff, RecordCash(s) PROVE TransferMatchesReceipt'
  <2>1. Post(request[s].ref, request[s].invoice, request[s].amount, "CASH") /\ UNCHANGED attempt
    BY <1>3 DEF RecordCash
  <2>2. /\ request[s].ref \notin DOMAIN payment
        /\ DOMAIN payment' = DOMAIN payment \cup {request[s].ref}
        /\ payment'[request[s].ref].method = "CASH"
        /\ \A x \in DOMAIN payment : payment'[x] = payment[x]
    BY <2>1, PostedReceipt DEF Posted
  <2> QED
    BY <2>1, <2>2 DEF TransferMatchesReceipt, Posted
<1>4. ASSUME NEW s \in Staff, Approve(s) PROVE TransferMatchesReceipt'
  <2> DEFINE q == request[s]
  <2>1. /\ Post(q.ref, q.invoice, q.amount, "BANK_TRANSFER")
        /\ Settle(q.ref, "PAID")
        /\ s \in DOMAIN request
        /\ q.op = "APPROVE"
        /\ q.ref \in DOMAIN attempt
    BY <1>4 DEF Approve, IsPending, Busy
  <2>2. attempt[q.ref].invoice = q.invoice /\ attempt[q.ref].amount = q.amount
    BY <2>1 DEF RequestsMatchRows
  <2> HIDE DEF q
  <2>3. /\ q.ref \notin DOMAIN payment
        /\ DOMAIN payment' = DOMAIN payment \cup {q.ref}
        /\ payment'[q.ref].invoice = q.invoice /\ payment'[q.ref].amount = q.amount
        /\ \A x \in DOMAIN payment : payment'[x] = payment[x]
    BY <2>1, PostedReceipt DEF Posted
  <2>4. /\ DOMAIN attempt' = DOMAIN attempt
        /\ attempt'[q.ref].status = "PAID"
        /\ attempt'[q.ref].invoice = q.invoice /\ attempt'[q.ref].amount = q.amount
        /\ \A x \in DOMAIN attempt : x /= q.ref => attempt'[x] = attempt[x]
    BY <2>1, <2>2, SettledAttempt
  <2> QED
    BY <2>1, <2>3, <2>4 DEF TransferMatchesReceipt, Posted
<1>5. ASSUME NEW s \in Staff, Reject(s) PROVE TransferMatchesReceipt'
  <2>1. /\ Settle(request[s].ref, "FAILED")
        /\ request[s].ref \in DOMAIN attempt
        /\ attempt[request[s].ref].status = "PENDING"
        /\ UNCHANGED payment
    BY <1>5 DEF Reject, MayReject, IsPending
  <2> QED
    BY <2>1, SettledAttempt DEF TransferMatchesReceipt, Posted
<1>6. ASSUME NEW s \in Staff, ApproveReplay(s) \/ WriteCorrection(s)
      PROVE  UNCHANGED <<attempt, payment>>
  BY <1>6 DEF ApproveReplay, WriteCorrection
<1> QED
  BY <1>1, <1>2, <1>3, <1>4, <1>5, <1>6, StepCases DEF Tables

LEMMA VerdictsStep ==
  ASSUME TypeOK, RequestsMatchRows, VerdictsStand, RejectedAreTransfers, [Next]_ledgerVars
  PROVE  VerdictsStand' /\ RejectedAreTransfers'
<1>1. CASE UNCHANGED Tables
  BY <1>1 DEF VerdictsStand, RejectedAreTransfers, Posted, Tables
<1>2. ASSUME NEW s \in Staff, SubmitTransfer(s) PROVE VerdictsStand' /\ RejectedAreTransfers'
  BY <1>2 DEF SubmitTransfer, MayDeclare, With, VerdictsStand, RejectedAreTransfers, Posted
<1>3. ASSUME NEW s \in Staff, RecordCash(s) PROVE VerdictsStand' /\ RejectedAreTransfers'
  <2>1. /\ Post(request[s].ref, request[s].invoice, request[s].amount, "CASH")
        /\ UNCHANGED <<attempt, told>>
    BY <1>3 DEF RecordCash
  <2> QED
    BY <2>1, PostedReceipt DEF VerdictsStand, RejectedAreTransfers, Posted
<1>4. ASSUME NEW s \in Staff, Approve(s) PROVE VerdictsStand' /\ RejectedAreTransfers'
  <2> DEFINE q == request[s]
  <2>1. /\ Post(q.ref, q.invoice, q.amount, "BANK_TRANSFER")
        /\ Settle(q.ref, "PAID")
        /\ q.ref \in DOMAIN attempt /\ attempt[q.ref].status = "PENDING"
        /\ told' = told \cup {<<q.ref, "APPROVED">>}
    BY <1>4 DEF Approve, IsPending
  <2> HIDE DEF q
  <2>2. DOMAIN payment' = DOMAIN payment \cup {q.ref}
    BY <2>1, PostedReceipt
  <2>3. /\ DOMAIN attempt' = DOMAIN attempt
        /\ attempt'[q.ref].provider = attempt[q.ref].provider
        /\ \A x \in DOMAIN attempt : x /= q.ref => attempt'[x] = attempt[x]
    BY <2>1, SettledAttempt
  <2>4. \A r \in Refs : <<r, "REJECTED">> \in told => r /= q.ref
    BY <2>1 DEF VerdictsStand
  <2> QED
    BY <2>1, <2>2, <2>3, <2>4 DEF VerdictsStand, RejectedAreTransfers, Posted
<1>5. ASSUME NEW s \in Staff, ApproveReplay(s) PROVE VerdictsStand' /\ RejectedAreTransfers'
  BY <1>5 DEF ApproveReplay, VerdictsStand, RejectedAreTransfers, Posted
<1>6. ASSUME NEW s \in Staff, Reject(s) PROVE VerdictsStand' /\ RejectedAreTransfers'
  <2> DEFINE q == request[s]
  <2>1. /\ Settle(q.ref, "FAILED")
        /\ q.ref \in DOMAIN attempt
        /\ s \in DOMAIN request /\ q.op = "REJECT"
        /\ told' = told \cup {<<q.ref, "REJECTED">>}
        /\ UNCHANGED payment
    BY <1>6 DEF Reject, MayReject, IsPending, Busy
  <2>2. attempt[q.ref].provider = "BANK_TRANSFER"
    BY <2>1 DEF RequestsMatchRows
  <2> HIDE DEF q
  <2> QED
    BY <2>1, <2>2, SettledAttempt DEF VerdictsStand, RejectedAreTransfers, Posted
<1>7. ASSUME NEW s \in Staff, WriteCorrection(s) PROVE VerdictsStand' /\ RejectedAreTransfers'
  BY <1>7 DEF WriteCorrection, VerdictsStand, RejectedAreTransfers, Posted
<1> QED
  BY <1>1, <1>2, <1>3, <1>4, <1>5, <1>6, <1>7, StepCases

LEMMA OpenStep ==
  ASSUME TypeOK, OneOpenAttempt, [Next]_ledgerVars
  PROVE  OneOpenAttempt'
<1>1. CASE UNCHANGED attempt
  BY <1>1 DEF OneOpenAttempt, PendingOn
<1>2. ASSUME NEW s \in Staff, SubmitTransfer(s) PROVE OneOpenAttempt'
  <2>1. /\ PendingOn(request[s].invoice) = {}
        /\ attempt' = With(attempt, request[s].ref, Declared(request[s]))
        /\ Declared(request[s]).invoice = request[s].invoice
        /\ request[s].ref \notin DOMAIN attempt
    BY <1>2 DEF SubmitTransfer, MayDeclare, Declared
  <2> QED
    BY <2>1 DEF OneOpenAttempt, PendingOn, With
<1>3. ASSUME NEW s \in Staff, Approve(s) \/ Reject(s) PROVE OneOpenAttempt'
  <2>1. /\ request[s].ref \in DOMAIN attempt
        /\ \E st \in {"PAID", "FAILED"} : Settle(request[s].ref, st)
    BY <1>3 DEF Approve, Reject, MayReject, IsPending
  <2>2. PICK st \in {"PAID", "FAILED"} : Settle(request[s].ref, st)
    BY <2>1
  <2>3. \A i \in Invoices : PendingOn(i)' \subseteq PendingOn(i)
    BY <2>1, <2>2, SettledAttempt DEF PendingOn
  <2> QED
    BY <2>3 DEF OneOpenAttempt
<1>4. ASSUME NEW s \in Staff, RecordCash(s) \/ ApproveReplay(s) \/ WriteCorrection(s)
      PROVE  UNCHANGED attempt
  BY <1>4 DEF RecordCash, ApproveReplay, WriteCorrection
<1> QED
  BY <1>1, <1>2, <1>3, <1>4, StepCases DEF Tables

-----------------------------------------------------------------------------
(* Sums: what the receipts and the corrections of an invoice amount to. *)

\* A request that is correcting was correcting, or has just read the ledger.
LEMMA CorrectingCases ==
  ASSUME [Next]_ledgerVars, NEW t \in DOMAIN request', request'[t].op = "CORRECT"
  PROVE  \/ t \in DOMAIN request /\ request'[t] = request[t]
         \/ ReadLedger(t)
BY RequestCases

\* What a posted receipt does to the worth of every invoice's receipts.
LEMMA PostSums ==
  ASSUME TypeOK, IsFiniteSet(Units(payment, DOMAIN payment)),
         NEW r \in Refs, NEW i \in Invoices, NEW a \in Nat \ {0}, NEW m \in Methods,
         Post(r, i, a, m)
  PROVE  /\ IsFiniteSet(Units(payment', DOMAIN payment'))
         /\ Worth(payment', Receipts(payment', i)) = Worth(payment, Receipts(payment, i)) + a
         /\ \A j \in Invoices : j /= i => Worth(payment', Receipts(payment', j)) = Worth(payment, Receipts(payment, j))
         /\ \A j \in Invoices, C \in SUBSET DOMAIN payment :
              Worth(payment', Receipts(payment', j) \cap C) = Worth(payment, Receipts(payment, j) \cap C)
<1> DEFINE D == DOMAIN payment
<1>1. /\ r \notin D
      /\ DOMAIN payment' = D \cup {r}
      /\ payment'[r].invoice = i /\ payment'[r].amount = a
      /\ \A x \in D : payment'[x] = payment[x]
  BY PostedReceipt DEF Posted
<1>2. /\ Receipts(payment', i) = Receipts(payment, i) \cup {r}
      /\ \A j \in Invoices : j /= i => Receipts(payment', j) = Receipts(payment, j)
      /\ \A j \in Invoices, C \in SUBSET D : Receipts(payment', j) \cap C = Receipts(payment, j) \cap C
      /\ \A j \in Invoices : Receipts(payment, j) \subseteq D
      /\ r \notin Receipts(payment, i)
  BY <1>1 DEF Receipts
<1>3. \A R \in SUBSET D : Units(payment', R) = Units(payment, R) /\ Worth(payment', R) = Worth(payment, R)
  BY <1>1, WorthOfSameRows
<1>4. IsFiniteSet(Units(payment', D)) /\ IsFiniteSet(Units(payment', Receipts(payment, i)))
  BY <1>2, <1>3, WorthOfFewer
<1>5. IsFiniteSet(Units(payment', DOMAIN payment'))
  BY <1>1, <1>4, WorthOfOneMore
<1>6. Worth(payment', Receipts(payment, i) \cup {r}) = Worth(payment', Receipts(payment, i)) + a
  BY <1>1, <1>2, <1>4, WorthOfOneMore
<1> HIDE DEF D
<1> QED
  BY <1>2, <1>3, <1>5, <1>6 DEF D

\* A posting adds the same to what an invoice is paid and to its receipts.
LEMMA PostAgrees ==
  ASSUME TypeOK, RowsAreConsistent, IsFiniteSet(Units(payment, DOMAIN payment)), LedgerAgrees,
         NEW r \in Refs, NEW i \in Invoices, NEW a \in Nat \ {0}, NEW m \in Methods,
         Post(r, i, a, m), UNCHANGED corrected
  PROVE  LedgerAgrees'
<1>1. HasRoom(i, a) /\ Reserve(i, a)
  BY DEF Post
<1>2. corrected \subseteq DOMAIN payment
  BY DEF TypeOK
<1>3. ASSUME NEW j \in Invoices
      PROVE invoice'[j].paid = Worth(payment', Receipts(payment', j)) - Worth(payment', Receipts(payment', j) \cap corrected)
  <2>1. Worth(payment', Receipts(payment', j) \cap corrected) = Worth(payment, Receipts(payment, j) \cap corrected)
    BY <1>2, PostSums
  <2>2. invoice[j].paid = Worth(payment, Receipts(payment, j)) - Worth(payment, Receipts(payment, j) \cap corrected)
    BY DEF LedgerAgrees
  <2>3. Receipts(payment, j) \subseteq DOMAIN payment /\ Receipts(payment, j) \cap corrected \subseteq DOMAIN payment
    BY DEF Receipts
  <2>4. /\ Worth(payment, Receipts(payment, j)) \in Nat
        /\ Worth(payment, Receipts(payment, j) \cap corrected) \in Nat
    BY <2>3, WorthOfFewer
  <2>5. CASE j = i
    <3>1. Worth(payment', Receipts(payment', j)) = Worth(payment, Receipts(payment, j)) + a
      BY <2>5, PostSums
    <3>2. invoice'[j].paid = invoice[j].paid + a
      BY <1>1, <2>5, PostedRow
    <3> QED
      BY <2>1, <2>2, <2>4, <3>1, <3>2
  <2>6. CASE j /= i
    <3>1. Worth(payment', Receipts(payment', j)) = Worth(payment, Receipts(payment, j))
      BY <2>6, PostSums
    <3>2. invoice'[j] = invoice[j]
      BY <1>1, <2>6, PostedRow
    <3> QED
      BY <2>1, <2>2, <3>1, <3>2
  <2> QED
    BY <2>5, <2>6
<1> QED
  BY <1>3 DEF LedgerAgrees

\* A posting takes no invoice beyond what was billed.
LEMMA PostHasRoom ==
  ASSUME TypeOK, RowsAreConsistent, NeverOverpaid,
         NEW i \in Invoices, NEW a \in Nat \ {0}, HasRoom(i, a), Reserve(i, a)
  PROVE  NeverOverpaid'
<1>1. /\ invoice'[i].paid = invoice[i].paid + a
      /\ \A j \in Invoices : j /= i => invoice'[j] = invoice[j]
  BY PostedRow
<1>2. /\ invoice[i].balance >= a /\ invoice[i].balance = NotBelowZero(Total[i] - invoice[i].paid)
      /\ invoice[i].paid \in Nat /\ Total[i] \in Nat
  BY InvoiceTypes DEF HasRoom, RowsAreConsistent
<1>3. invoice[i].paid + a <= Total[i]
  BY <1>2 DEF NotBelowZero
<1> QED
  BY <1>1, <1>3 DEF NeverOverpaid

\* A posting leaves the net worth of the other invoices alone.
LEMMA PostKeepsNet ==
  ASSUME TypeOK, IsFiniteSet(Units(payment, DOMAIN payment)),
         NEW r \in Refs, NEW i \in Invoices, NEW a \in Nat \ {0}, NEW m \in Methods,
         Post(r, i, a, m),
         NEW j \in Invoices, j /= i, NEW C \in SUBSET DOMAIN payment
  PROVE  NetPaid(payment', j, C) = NetPaid(payment, j, C)
<1>1. /\ Worth(payment', Receipts(payment', j)) = Worth(payment, Receipts(payment, j))
      /\ Worth(payment', Receipts(payment', j) \cap C) = Worth(payment, Receipts(payment, j) \cap C)
  BY PostSums
<1> QED
  BY <1>1 DEF NetPaid

\* Which requests post, and what.
LEMMA Posting ==
  ASSUME TypeOK, NEW s \in Staff, RecordCash(s) \/ Approve(s)
  PROVE  /\ s \in DOMAIN request
         /\ request[s].ref \in Refs /\ request[s].invoice \in Invoices
         /\ request[s].amount \in Nat \ {0}
         /\ \E m \in Methods : Post(request[s].ref, request[s].invoice, request[s].amount, m)
         /\ Quiet(request[s].invoice)
         /\ UNCHANGED corrected
<1>1. s \in DOMAIN request /\ UNCHANGED corrected
  BY DEF RecordCash, Approve, Busy
<1>2. \E m \in Methods : Post(request[s].ref, request[s].invoice, request[s].amount, m)
  BY DEF RecordCash, Approve, Methods
<1>3. Quiet(request[s].invoice)
  BY <1>2 DEF Post
<1> QED
  BY <1>1, <1>2, <1>3, RequestTypes

LEMMA UnitsStep ==
  ASSUME TypeOK, IsFiniteSet(Units(payment, DOMAIN payment)), [Next]_ledgerVars
  PROVE  IsFiniteSet(Units(payment, DOMAIN payment))'
<1>1. CASE UNCHANGED payment
  BY <1>1 DEF Units
<1>2. ASSUME NEW s \in Staff, RecordCash(s) \/ Approve(s)
      PROVE  IsFiniteSet(Units(payment', DOMAIN payment'))
  BY <1>2, Posting, PostSums
<1>3. ASSUME NEW s \in Staff, SubmitTransfer(s) \/ ApproveReplay(s) \/ Reject(s) \/ WriteCorrection(s)
      PROVE  UNCHANGED payment
  BY <1>3 DEF SubmitTransfer, ApproveReplay, Reject, WriteCorrection
<1>4. IsFiniteSet(Units(payment', DOMAIN payment'))
  BY <1>1, <1>2, <1>3, StepCases DEF Tables
<1> QED
  BY <1>4 DEF Units

LEMMA UniqueStep ==
  ASSUME TypeOK, CorrectionsAreUnique, [Next]_ledgerVars
  PROVE  CorrectionsAreUnique'
<1>1. ASSUME NEW s \in Staff, WriteCorrection(s) PROVE CorrectionsAreUnique'
  <2>1. /\ s \in DOMAIN request /\ request[s].op = "CORRECT"
        /\ corrected' = corrected \cup {request[s].ref}
        /\ request' = Without(request, s)
    BY <1>1 DEF WriteCorrection, Busy, End
  <2> QED
    BY <2>1 DEF CorrectionsAreUnique, Without
<1>2. ASSUME NEW s \in Staff, ReadLedger(s) PROVE CorrectionsAreUnique'
  <2>1. /\ s \in DOMAIN request
        /\ DOMAIN request' = DOMAIN request
        /\ request'[s].ref = request[s].ref
        /\ \A t \in DOMAIN request : t /= s => request'[t] = request[t]
        /\ MayCorrect(request[s].ref)
        /\ UNCHANGED corrected
    BY <1>2 DEF ReadLedger, Busy
  <2> QED
    BY <2>1 DEF CorrectionsAreUnique, MayCorrect
<1>3. CASE UNCHANGED corrected /\ \A s \in Staff : ~ReadLedger(s)
  <2>1. \A t \in DOMAIN request' : request'[t].op = "CORRECT" => t \in Staff
    BY CorrectingCases DEF TypeOK, ReadLedger, Busy
  <2>2. \A t \in DOMAIN request' : request'[t].op = "CORRECT" =>
             t \in DOMAIN request /\ request'[t] = request[t]
    BY <1>3, <2>1, CorrectingCases
  <2> QED
    BY <1>3, <2>2 DEF CorrectionsAreUnique
<1>4. ASSUME NEW s \in Staff, \/ SubmitTransfer(s) \/ RecordCash(s) \/ Approve(s)
                              \/ ApproveReplay(s) \/ Reject(s)
      PROVE  UNCHANGED corrected
  BY <1>4 DEF SubmitTransfer, RecordCash, Approve, ApproveReplay, Reject
<1> QED
  BY <1>1, <1>2, <1>3, <1>4, StepCases DEF Tables

\* With quiet corrections, a posting touches no invoice under correction, and
\* a written correction none that another request is correcting.
LEMMA QuietInvoices ==
  ASSUME TypeOK, ReadsAreCurrent, QuietCorrections, NEW s \in Staff,
         RecordCash(s) \/ Approve(s) \/ WriteCorrection(s),
         NEW t \in DOMAIN request, t /= s, request[t].op = "CORRECT"
  PROVE  request[t].invoice /= request[s].invoice
<1>1. CASE RecordCash(s) \/ Approve(s)
  BY <1>1, Posting DEF Quiet, Correcting
<1>2. CASE WriteCorrection(s)
  BY <1>2 DEF WriteCorrection, Busy, ReadsAreCurrent
<1> QED
  BY <1>1, <1>2

LEMMA AgreesStep ==
  ASSUME TypeOK, RowsAreConsistent, RequestsMatchRows, IsFiniteSet(Units(payment, DOMAIN payment)),
         QuietCorrections, ReadsAreCurrent, LedgerAgrees, [Next]_ledgerVars
  PROVE  LedgerAgrees'
<1>1. CASE UNCHANGED <<invoice, payment, corrected>>
  BY <1>1 DEF LedgerAgrees
<1>2. ASSUME NEW s \in Staff, RecordCash(s) \/ Approve(s) PROVE LedgerAgrees'
  <2> DEFINE q == request[s]
  <2>1. /\ q.ref \in Refs /\ q.invoice \in Invoices /\ q.amount \in Nat \ {0}
        /\ UNCHANGED corrected
    BY <1>2, Posting
  <2>2. PICK m \in Methods : Post(q.ref, q.invoice, q.amount, m)
    BY <1>2, Posting
  <2> HIDE DEF q
  <2> QED
    BY <2>1, <2>2, PostAgrees
<1>3. ASSUME NEW s \in Staff, WriteCorrection(s) PROVE LedgerAgrees'
  <2> DEFINE q == request[s]
  <2>1. /\ s \in DOMAIN request /\ q.op = "CORRECT"
        /\ invoice' = [invoice EXCEPT ![q.invoice] = Recalculated(q.invoice, q.seen)]
        /\ corrected' = corrected \cup {q.ref}
        /\ UNCHANGED payment
    BY <1>3 DEF WriteCorrection, Busy
  <2>2. q.invoice \in Invoices /\ payment[q.ref].invoice = q.invoice
    BY <2>1, RequestTypes DEF RequestsMatchRows
  <2>3. q.seen = NetPaid(payment, q.invoice, corrected \cup {q.ref})
    BY <2>1 DEF ReadsAreCurrent
  <2> HIDE DEF q
  <2>4. q.seen = Worth(payment, Receipts(payment, q.invoice)) - Worth(payment, Receipts(payment, q.invoice) \cap corrected')
    BY <2>1, <2>3, NetPaidType
  <2>5. ASSUME NEW j \in Invoices
        PROVE invoice'[j].paid = Worth(payment, Receipts(payment, j)) - Worth(payment, Receipts(payment, j) \cap corrected')
    <3>1. CASE j = q.invoice
      BY <2>1, <2>4, <3>1 DEF Recalculated, TypeOK
    <3>2. CASE j /= q.invoice
      <4>1. Receipts(payment, j) \cap corrected' = Receipts(payment, j) \cap corrected
        BY <2>1, <2>2, <3>2 DEF Receipts
      <4>2. invoice'[j] = invoice[j]
        BY <2>1, <3>2 DEF TypeOK
      <4> QED
        BY <4>1, <4>2 DEF LedgerAgrees
    <3> QED
      BY <3>1, <3>2
  <2> QED
    BY <2>1, <2>5 DEF LedgerAgrees
<1>4. ASSUME NEW s \in Staff, SubmitTransfer(s) \/ ApproveReplay(s) \/ Reject(s)
      PROVE  UNCHANGED <<invoice, payment, corrected>>
  BY <1>4 DEF SubmitTransfer, ApproveReplay, Reject
<1> QED
  BY <1>1, <1>2, <1>3, <1>4, StepCases DEF Tables

\* What a correction read is no more than what is paid.
LEMMA CorrectionLowers ==
  ASSUME TypeOK, RequestsMatchRows, IsFiniteSet(Units(payment, DOMAIN payment)),
         QuietCorrections, ReadsAreCurrent, LedgerAgrees,
         NEW s \in DOMAIN request, request[s].op = "CORRECT"
  PROVE  request[s].seen <= invoice[request[s].invoice].paid
<1> DEFINE i == request[s].invoice
           C == corrected \cup {request[s].ref}
           R == Receipts(payment, i)
<1>1. i \in Invoices
  BY RequestTypes
<1>2. R \subseteq DOMAIN payment
  BY DEF Receipts
<1>3. IsFiniteSet(Units(payment, R)) /\ Worth(payment, R) \in Nat
  BY <1>2, WorthOfFewer
<1>4. request[s].seen = Worth(payment, R) - Worth(payment, R \cap C)
  BY NetPaidType DEF ReadsAreCurrent
<1>5. invoice[i].paid = Worth(payment, R) - Worth(payment, R \cap corrected)
  BY <1>1 DEF LedgerAgrees
<1>6. R \cap corrected \subseteq R \cap C /\ R \cap C \subseteq R
  OBVIOUS
<1> HIDE DEF C, R, i
<1>7. IsFiniteSet(Units(payment, R \cap C)) /\ Worth(payment, R \cap C) \in Nat
  BY <1>3, <1>6, WorthOfFewer
<1>8. /\ Worth(payment, R \cap corrected) \in Nat
      /\ Worth(payment, R \cap corrected) <= Worth(payment, R \cap C)
  BY <1>6, <1>7, WorthOfFewer
<1> QED
  BY <1>3, <1>4, <1>5, <1>7, <1>8 DEF i

LEMMA OverpaidStep ==
  ASSUME TypeOK, RowsAreConsistent, RequestsMatchRows, IsFiniteSet(Units(payment, DOMAIN payment)),
         QuietCorrections, ReadsAreCurrent, LedgerAgrees, NeverOverpaid, [Next]_ledgerVars
  PROVE  NeverOverpaid'
<1>1. CASE UNCHANGED invoice
  BY <1>1 DEF NeverOverpaid
<1>2. ASSUME NEW s \in Staff, RecordCash(s) \/ Approve(s) PROVE NeverOverpaid'
  <2> DEFINE i == request[s].invoice
             a == request[s].amount
  <2>1. i \in Invoices /\ a \in Nat \ {0} /\ HasRoom(i, a) /\ Reserve(i, a)
    BY <1>2, Posting DEF Post
  <2> HIDE DEF i, a
  <2> QED
    BY <2>1, PostHasRoom
<1>3. ASSUME NEW s \in Staff, WriteCorrection(s) PROVE NeverOverpaid'
  <2> DEFINE i == request[s].invoice
             n == request[s].seen
  <2>1. /\ s \in DOMAIN request /\ request[s].op = "CORRECT"
        /\ invoice' = [invoice EXCEPT ![i] = Recalculated(i, n)]
        /\ invoice \in [Invoices -> InvoiceRows]
    BY <1>3 DEF WriteCorrection, Busy, TypeOK
  <2>2. i \in Invoices /\ n \in Nat /\ n <= invoice[i].paid
    BY <2>1, RequestTypes, CorrectionLowers
  <2>3. invoice[i].paid \in Nat /\ Total[i] \in Nat /\ invoice[i].paid <= Total[i]
    BY <2>2, InvoiceTypes DEF NeverOverpaid
  <2>4. Recalculated(i, n).paid = n
    BY DEF Recalculated
  <2> HIDE DEF i, n
  <2> QED
    BY <2>1, <2>2, <2>3, <2>4 DEF NeverOverpaid
<1>4. ASSUME NEW s \in Staff, SubmitTransfer(s) \/ ApproveReplay(s) \/ Reject(s)
      PROVE  UNCHANGED invoice
  BY <1>4 DEF SubmitTransfer, ApproveReplay, Reject
<1> QED
  BY <1>1, <1>2, <1>3, <1>4, StepCases DEF Tables

LEMMA ReadsStep ==
  ASSUME TypeOK, RequestsMatchRows, IsFiniteSet(Units(payment, DOMAIN payment)),
         QuietCorrections, ReadsAreCurrent, [Next]_ledgerVars
  PROVE  ReadsAreCurrent'
<1> DEFINE Old(t) == t \in DOMAIN request /\ request'[t] = request[t] /\ request[t].op = "CORRECT"
<1>1. ASSUME NEW t \in DOMAIN request', NEW u \in DOMAIN request', t /= u,
             request'[t].op = "CORRECT", request'[u].op = "CORRECT"
      PROVE  request'[t].invoice /= request'[u].invoice
  <2>1. CASE Old(t) /\ Old(u)
    BY <1>1, <2>1 DEF ReadsAreCurrent
  <2>2. ASSUME NEW x \in DOMAIN request', NEW y \in DOMAIN request', x /= y,
               ReadLedger(x), request'[y].op = "CORRECT"
        PROVE  request'[x].invoice /= request'[y].invoice
    <3>1. /\ x \in DOMAIN request /\ DOMAIN request' = DOMAIN request
          /\ request'[x].invoice = request[x].invoice
          /\ request'[y] = request[y]
          /\ Quiet(request[x].invoice)
      BY <2>2 DEF ReadLedger, Busy
    <3> QED
      BY <2>2, <3>1 DEF Quiet, Correcting
  <2>3. (Old(t) \/ ReadLedger(t)) /\ (Old(u) \/ ReadLedger(u))
    BY <1>1, CorrectingCases
  <2> QED
    BY <1>1, <2>1, <2>2, <2>3
<1>2. ASSUME NEW t \in DOMAIN request', request'[t].op = "CORRECT"
      PROVE  request'[t].seen = NetPaid(payment', request'[t].invoice, corrected' \cup {request'[t].ref})
  <2>1. CASE ReadLedger(t)
    <3>1. /\ request'[t].seen = NetPaid(payment, request'[t].invoice, corrected \cup {request'[t].ref})
          /\ UNCHANGED <<payment, corrected>>
      BY <2>1 DEF ReadLedger, Busy
    <3> QED
      BY <3>1
  <2>2. CASE Old(t)
    <3> DEFINE j == request[t].invoice
               C == corrected \cup {request[t].ref}
    <3>1. /\ request[t].seen = NetPaid(payment, j, C)
          /\ request'[t] = request[t]
      BY <2>2 DEF ReadsAreCurrent
    <3>2. j \in Invoices /\ C \in SUBSET DOMAIN payment
      BY <2>2, RequestTypes DEF TypeOK, RequestsMatchRows, Posted
    <3>3. CASE UNCHANGED <<payment, corrected>>
      BY <3>1, <3>3
    <3>4. ASSUME NEW s \in Staff, RecordCash(s) \/ Approve(s)
          PROVE  NetPaid(payment', j, corrected' \cup {request[t].ref}) = NetPaid(payment, j, C)
      <4>1. s /= t
        BY <2>2, <3>4 DEF RecordCash, Approve
      <4>2. j /= request[s].invoice
        BY <2>2, <3>4, <4>1, QuietInvoices
      <4>3. /\ request[s].ref \in Refs /\ request[s].invoice \in Invoices
            /\ request[s].amount \in Nat \ {0} /\ UNCHANGED corrected
        BY <3>4, Posting
      <4>4. PICK m \in Methods : Post(request[s].ref, request[s].invoice, request[s].amount, m)
        BY <3>4, Posting
      <4> HIDE DEF j, C
      <4>5. NetPaid(payment', j, C) = NetPaid(payment, j, C)
        BY <3>2, <4>2, <4>3, <4>4, PostKeepsNet
      <4> QED
        BY <4>3, <4>5 DEF C
    <3>5. ASSUME NEW s \in Staff, WriteCorrection(s)
          PROVE  NetPaid(payment', j, corrected' \cup {request[t].ref}) = NetPaid(payment, j, C)
      <4>1. /\ s \in DOMAIN request /\ request[s].op = "CORRECT"
            /\ corrected' = corrected \cup {request[s].ref}
            /\ UNCHANGED payment
            /\ t /= s
        BY <3>5 DEF WriteCorrection, Busy, End, Without
      <4>2. j /= request[s].invoice /\ payment[request[s].ref].invoice = request[s].invoice
        BY <2>2, <3>5, <4>1, QuietInvoices DEF RequestsMatchRows
      <4>3. Receipts(payment, j) \cap (corrected' \cup {request[t].ref}) = Receipts(payment, j) \cap C
        BY <4>1, <4>2 DEF Receipts
      <4> QED
        BY <4>1, <4>3 DEF NetPaid
    <3>6. ASSUME NEW s \in Staff, SubmitTransfer(s) \/ ApproveReplay(s) \/ Reject(s)
          PROVE  UNCHANGED <<payment, corrected>>
      BY <3>6 DEF SubmitTransfer, ApproveReplay, Reject
    <3>7. NetPaid(payment', j, corrected' \cup {request[t].ref}) = NetPaid(payment, j, C)
      BY <3>3, <3>4, <3>5, <3>6, StepCases DEF Tables
    <3> QED
      BY <3>1, <3>7
  <2> QED
    BY <1>2, <2>1, <2>2, CorrectingCases
<1> QED
  BY <1>1, <1>2 DEF ReadsAreCurrent

-----------------------------------------------------------------------------
(* The inductive invariant and what follows from it. *)

LEMMA InitInv == Init => IInv
<1> SUFFICES ASSUME Init PROVE IInv
  OBVIOUS
<1> USE DEF Init, NoRows
<1>1. TypeOK
  <2>1. \A i \in Invoices : [paid |-> 0, balance |-> Total[i], status |-> "UNPAID"] \in InvoiceRows
    BY TotalAssumption DEF InvoiceRows, InvoiceStatuses
  <2> QED
    BY <2>1 DEF TypeOK
<1>2. RowsAreConsistent
  BY TotalAssumption DEF RowsAreConsistent, ComputeStatus, NotBelowZero
<1>3. TransfersInv
  BY DEF TransfersInv, RequestsMatchRows, TransferMatchesReceipt, VerdictsStand,
         RejectedAreTransfers, OneOpenAttempt, Posted, PendingOn
<1>4. \A R : R = {} => Units(payment, R) = {}
  BY DEF Units
<1>5. IsFiniteSet(Units(payment, DOMAIN payment))
  BY <1>4, FS_EmptySet
<1>6. CorrectionsAreUnique /\ ReadsAreCurrent
  BY DEF CorrectionsAreUnique, ReadsAreCurrent
<1>7. LedgerAgrees
  <2>1. \A i \in Invoices : Receipts(payment, i) = {} /\ Receipts(payment, i) \cap corrected = {}
    BY DEF Receipts
  <2>2. \A R : R = {} => Worth(payment, R) = 0
    BY <1>4, FS_EmptySet DEF Worth
  <2> QED
    BY <2>1, <2>2 DEF LedgerAgrees
<1>8. NeverOverpaid
  BY TotalAssumption DEF NeverOverpaid
<1> QED
  BY <1>1, <1>2, <1>3, <1>5, <1>6, <1>7, <1>8 DEF IInv, SumsInv

LEMMA InductiveInvariant == IInv /\ [Next]_ledgerVars => IInv'
<1> SUFFICES ASSUME IInv, [Next]_ledgerVars PROVE IInv'
  OBVIOUS
<1> USE DEF IInv, TransfersInv, SumsInv
<1>1. TypeOK'
  BY TypeStep
<1>2. RowsAreConsistent'
  BY RowsStep
<1>3. RequestsMatchRows' /\ TransferMatchesReceipt' /\ OneOpenAttempt'
  BY RequestsStep, TransferStep, OpenStep
<1>4. VerdictsStand' /\ RejectedAreTransfers'
  BY VerdictsStep
<1>5. IsFiniteSet(Units(payment, DOMAIN payment))' /\ CorrectionsAreUnique'
  BY UnitsStep, UniqueStep
<1>6. QuietCorrections => ReadsAreCurrent' /\ LedgerAgrees' /\ NeverOverpaid'
  BY ReadsStep, AgreesStep, OverpaidStep
<1> QED
  BY <1>1, <1>2, <1>3, <1>4, <1>5, <1>6

LEMMA Invariance == Spec => []IInv
BY InitInv, InductiveInvariant, PTL DEF Spec

\* Every table always holds rows of its type: balances never go below zero.
THEOREM TypeCorrect == Spec => []TypeOK
<1>1. IInv => TypeOK
  BY DEF IInv
<1> QED
  BY <1>1, Invariance, PTL

\* Balance and status of every invoice always fit its paid amount, even when
\* a correction overwrites the row from stale reads.
THEOREM RowsStayConsistent == Spec => []RowsAreConsistent
<1>1. IInv => RowsAreConsistent
  BY DEF IInv
<1> QED
  BY <1>1, Invariance, PTL

\* A transfer is PAID exactly when it has its own receipt, however approvals,
\* rejections and cash payments interleave.
THEOREM TransfersMatchReceipts == Spec => []TransferMatchesReceipt
<1>1. IInv => TransferMatchesReceipt
  BY DEF IInv, TransfersInv
<1> QED
  BY <1>1, Invariance, PTL

\* The verdicts that bursars were told stand.
THEOREM VerdictsHold == Spec => []VerdictsStand
<1>1. IInv => VerdictsStand
  BY DEF IInv, TransfersInv
<1> QED
  BY <1>1, Invariance, PTL

\* At most one attempt per invoice awaits confirmation.
THEOREM AttemptsAreExclusive == Spec => []OneOpenAttempt
<1>1. IInv => OneOpenAttempt
  BY DEF IInv, TransfersInv
<1> QED
  BY <1>1, Invariance, PTL

\* When no write of the invoice falls between the reads and the write of a
\* correction, the paid amount is the receipts less the corrected receipts.
THEOREM BalancesAgree ==
  ASSUME QuietCorrections
  PROVE  Spec => []LedgerAgrees
<1>1. IInv => LedgerAgrees
  BY DEF IInv, SumsInv
<1> QED
  BY <1>1, Invariance, PTL

-----------------------------------------------------------------------------
(* The ledger implements the book. *)

\* A correction adds the amount of its receipt back to the balance.
LEMMA CorrectedBalance ==
  ASSUME IInv, QuietCorrections, NEW s \in Staff, WriteCorrection(s)
  PROVE  /\ request[s].ref \in DOMAIN payment /\ request[s].ref \notin corrected
         /\ payment[request[s].ref].invoice = request[s].invoice
         /\ payment[request[s].ref].amount = request[s].amount
         /\ invoice'[request[s].invoice].balance
              = invoice[request[s].invoice].balance + request[s].amount
<1> DEFINE q == request[s]
           i == q.invoice
           R == Receipts(payment, i)
           old == R \cap corrected
<1>1. /\ s \in DOMAIN request /\ q.op = "CORRECT"
      /\ invoice' = [invoice EXCEPT ![i] = Recalculated(i, q.seen)]
  BY DEF WriteCorrection, Busy
<1>2. /\ TypeOK /\ RowsAreConsistent /\ RequestsMatchRows /\ CorrectionsAreUnique
      /\ ReadsAreCurrent /\ LedgerAgrees /\ NeverOverpaid /\ IsFiniteSet(Units(payment, DOMAIN payment))
  BY DEF IInv, TransfersInv, SumsInv
<1>3. /\ i \in Invoices /\ q.amount \in Nat \ {0} /\ q.seen \in Nat
      /\ q.ref \in DOMAIN payment /\ payment[q.ref].invoice = i /\ payment[q.ref].amount = q.amount
  BY <1>1, <1>2, RequestTypes DEF RequestsMatchRows, Posted
<1>4. q.ref \notin corrected /\ q.seen = NetPaid(payment, i, corrected \cup {q.ref})
  BY <1>1, <1>2 DEF CorrectionsAreUnique, ReadsAreCurrent
<1>5. q.seen = Worth(payment, R) - Worth(payment, R \cap (corrected \cup {q.ref}))
  BY <1>2, <1>4, NetPaidType
<1>6. R \cap (corrected \cup {q.ref}) = old \cup {q.ref} /\ q.ref \notin old
  BY <1>3, <1>4 DEF Receipts
<1>7. R \subseteq DOMAIN payment /\ old \subseteq DOMAIN payment
  BY DEF Receipts
<1>8. IsFiniteSet(Units(payment, old)) /\ Worth(payment, old) \in Nat /\ Worth(payment, R) \in Nat
  BY <1>2, <1>7, WorthOfFewer
<1>10. invoice[i].paid = Worth(payment, R) - Worth(payment, old)
  BY <1>2, <1>3 DEF LedgerAgrees
<1> HIDE DEF old, R
<1>9. Worth(payment, old \cup {q.ref}) = Worth(payment, old) + q.amount
  <2>1. payment[q.ref].amount \in Nat
    BY <1>3
  <2>2. Worth(payment, old \cup {q.ref}) = Worth(payment, old) + payment[q.ref].amount
    BY <1>6, <1>8, <2>1, WorthOfOneMore
  <2> QED
    BY <1>3, <2>2
<1>11. invoice[i].balance = NotBelowZero(Total[i] - invoice[i].paid)
  BY <1>2, <1>3 DEF RowsAreConsistent
<1>12. /\ invoice[i].paid \in Nat /\ invoice[i].balance \in Nat /\ Total[i] \in Nat
       /\ invoice[i].paid <= Total[i]
  BY <1>2, <1>3, InvoiceTypes DEF NeverOverpaid
<1>13. invoice'[i].balance = NotBelowZero(Total[i] - q.seen)
  BY <1>1, <1>2, <1>3 DEF Recalculated, TypeOK
<1>14. q.seen = invoice[i].paid - q.amount
  <2>1. q.seen = Worth(payment, R) - (Worth(payment, old) + q.amount)
    BY <1>5, <1>6, <1>9
  <2> HIDE DEF q, i
  <2> QED
    BY <1>3, <1>8, <1>10, <2>1
<1>15. invoice'[i].balance = invoice[i].balance + q.amount
  BY <1>3, <1>11, <1>12, <1>13, <1>14 DEF NotBelowZero
<1> QED
  BY <1>3, <1>4, <1>15

\* The names of the book's mapped variables: what the tables show of it.
BookStep == [Book!Next]_(Book!bookVars)

LEMMA BookPost ==
  ASSUME IInv, NEW r \in Refs, NEW i \in Invoices, NEW a \in Nat \ {0}, NEW m \in Methods,
         Post(r, i, a, m), UNCHANGED corrected
  PROVE  BookStep
<1>1. /\ r \notin DOMAIN payment
      /\ payment' = With(payment, r, [invoice |-> i, amount |-> a, method |-> m])
      /\ HasRoom(i, a) /\ Reserve(i, a)
  BY DEF Post, Posted, WriteReceipt
<1>2. TypeOK /\ RowsAreConsistent
  BY DEF IInv
<1>3. /\ invoice'[i].balance = invoice[i].balance - a
      /\ \A j \in Invoices : j /= i => invoice'[j] = invoice[j]
  BY <1>1, <1>2, PostedRow
<1>4. a \in 1 .. invoice[i].balance
  BY <1>1, <1>2, InvoiceTypes DEF HasRoom
<1>5. [j \in Invoices |-> invoice'[j].balance]
        = [[j \in Invoices |-> invoice[j].balance] EXCEPT ![i] = @ - a]
  BY <1>3
<1>6. Book!Receive(r, i, a, m)
  BY <1>1, <1>5 DEF Book!Receive, Book!With, With
<1> QED
  BY <1>4, <1>6 DEF BookStep, Book!Next

LEMMA BookCorrect ==
  ASSUME IInv, QuietCorrections, NEW s \in Staff, WriteCorrection(s)
  PROVE  BookStep
<1> DEFINE q == request[s]
<1>1. /\ q.ref \in DOMAIN payment /\ q.ref \notin corrected
      /\ payment[q.ref].invoice = q.invoice /\ payment[q.ref].amount = q.amount
      /\ invoice'[q.invoice].balance = invoice[q.invoice].balance + q.amount
  BY CorrectedBalance
<1>2. /\ s \in DOMAIN request
      /\ invoice' = [invoice EXCEPT ![q.invoice] = Recalculated(q.invoice, q.seen)]
      /\ corrected' = corrected \cup {q.ref} /\ UNCHANGED payment
  BY DEF WriteCorrection, Busy
<1>3. q.invoice \in Invoices /\ q.ref \in Refs /\ invoice \in [Invoices -> InvoiceRows]
  BY <1>2, RequestTypes DEF IInv, TypeOK
<1> HIDE DEF q
<1>4. \A j \in Invoices : j /= q.invoice => invoice'[j] = invoice[j]
  BY <1>2, <1>3
<1>5. [j \in Invoices |-> invoice'[j].balance]
        = [[j \in Invoices |-> invoice[j].balance] EXCEPT ![q.invoice] = @ + q.amount]
  BY <1>1, <1>3, <1>4
<1>6. PICK r \in Refs : r = q.ref
  BY <1>3
<1>7. Book!Reverse(r)
  BY <1>1, <1>2, <1>5, <1>6 DEF Book!Reverse
<1> QED
  BY <1>7 DEF BookStep, Book!Next

LEMMA RefinementStep ==
  ASSUME IInv, QuietCorrections, [Next]_ledgerVars
  PROVE  BookStep
<1>1. CASE UNCHANGED <<invoice, payment, corrected>>
  BY <1>1 DEF BookStep, Book!bookVars
<1>2. ASSUME NEW s \in Staff, RecordCash(s) \/ Approve(s) PROVE BookStep
  <2>1. TypeOK
    BY DEF IInv
  <2>2. /\ request[s].ref \in Refs /\ request[s].invoice \in Invoices
        /\ request[s].amount \in Nat \ {0} /\ UNCHANGED corrected
        /\ \E m \in Methods : Post(request[s].ref, request[s].invoice, request[s].amount, m)
    BY <1>2, <2>1, Posting
  <2> QED
    BY <2>2, BookPost
<1>3. ASSUME NEW s \in Staff, WriteCorrection(s) PROVE BookStep
  BY <1>3, BookCorrect
<1>4. ASSUME NEW s \in Staff, SubmitTransfer(s) \/ ApproveReplay(s) \/ Reject(s)
      PROVE  UNCHANGED <<invoice, payment, corrected>>
  BY <1>4 DEF SubmitTransfer, ApproveReplay, Reject
<1> QED
  BY <1>1, <1>2, <1>3, <1>4, StepCases DEF Tables

\* As long as corrections are quiet, the ledger implements the fee book: every
\* receipt and every reversal moves what is owed by exactly its amount.
THEOREM Implementation ==
  ASSUME QuietCorrections
  PROVE  Spec => ImplementsFeeBook
<1>1. Init => Book!Init
  <2> SUFFICES ASSUME Init PROVE Book!Init
    OBVIOUS
  <2>1. \A i \in Invoices : invoice[i].balance = Total[i]
    BY DEF Init
  <2>2. [i \in Invoices |-> invoice[i].balance] = Total
    BY <2>1, TotalAssumption
  <2> QED
    BY <2>2 DEF Book!Init, Init, NoRows
<1>2. IInv /\ [Next]_ledgerVars => [Book!Next]_(Book!bookVars)
  BY RefinementStep DEF BookStep
<1> QED
  BY <1>1, <1>2, Invariance, PTL DEF Spec, ImplementsFeeBook, Book!Spec
=============================================================================

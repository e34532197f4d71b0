SPECIFICATION FairCheckoutSpec
CONSTANTS
    i1 = i1
    r1 = r1
    r2 = r2
    s1 = s1
    c1 = c1
    c2 = c2
    nobody = nobody
    Invoices = {i1}
    Refs = {r1, r2}
    CardRefs = {r1}
    InvoiceOf <- MCInvoiceOf
    Checkouts = {c1, c2}
    Nobody = nobody
    Staff = {s1}
    Amounts = {2}
    Total <- MCTotal
    QuietCorrections = FALSE
CHECK_DEADLOCK FALSE
INVARIANTS CardReceiptsAreBacked OneOpenAttempt AckedChargesAreAccountedFor
PROPERTIES ChargesAreSettled StoredPagesStayOpen

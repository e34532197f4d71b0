SPECIFICATION Spec
CONSTANTS
    i1 = i1
    r1 = r1
    r2 = r2
    r3 = r3
    s1 = s1
    s2 = s2
    Invoices = {i1}
    Refs = {r1, r2, r3}
    Staff = {s1, s2}
    Amounts = {1, 2}
    Total <- MCTotal
    QuietCorrections = FALSE
CHECK_DEADLOCK FALSE
INVARIANT LedgerAgrees
SYMMETRY Symmetry

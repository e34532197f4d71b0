SPECIFICATION Spec
CONSTANTS
    c1 = c1
    c2 = c2
    s1 = s1
    s2 = s2
    s3 = s3
    r1 = r1
    r2 = r2
    Students = {s1, s2, s3}
    Classes = {c1, c2}
    Capacity <- MCCapacity
    Offered <- MCOffered
    Sessions = {1, 2}
    Applications = {a1}
    Requests = {r1, r2}
    None = none
    Roll = {s1}
    Budgets <- MCBudgets
    Cards = {k1, k2}
    Offline = offline
    MayDie = TRUE
SYMMETRY MCSymmetry
CHECK_DEADLOCK FALSE
INVARIANTS SeatsAreChecked PlacesArePaidFor OneStudentPerApplication
PROPERTIES HistoryStands

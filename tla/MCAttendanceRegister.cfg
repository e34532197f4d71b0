SPECIFICATION FairSpec
CONSTANTS
    s1 = s1
    s2 = s2
    q1 = q1
    q2 = q2
    a1 = a1
    b1 = b1
    b2 = b2
    Students = {s1, s2}
    Muted = {s2}
    Sheets <- MCSheets
    Saves = {q1, q2}
    Asks = {a1}
    Bridges = {b1}
    MaxSubmissions = 2
    MaxRequests = 1
    MaxDeaths = 1
CHECK_DEADLOCK FALSE
INVARIANTS AlertsMatchRegister PendingIsCurrent
PROPERTIES SubmittedRegisterStands AbsencesAreTold

SPECIFICATION Spec
CONSTANTS
    s1 = s1
    e1 = e1
    e2 = e2
    q1 = q1
    q2 = q2
    t1 = t1
    t2 = t2
    blank = blank
    right = right
    Students = {s1}
    Essays = {e1, e2}
    EssayMarks = 1
    Sheets = {blank, right}
    Blank = blank
    ObjectiveMarks <- MCObjectiveMarks
    Sequences = {1, 2}
    MaxGrants = 1
    Starts = {q1, q2}
    Teachers = {t1, t2}
    PromptStarts = TRUE
    SubmittedOnly = TRUE
SYMMETRY MCSymmetry
CHECK_DEADLOCK FALSE
INVARIANTS TypeOK OneSitting RetakesAreSpentOnce PublishedScoresStand ScoresMatchAnswers ReleasedIsComplete
PROPERTIES NewestSaveWins

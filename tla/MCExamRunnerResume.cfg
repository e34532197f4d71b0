SPECIFICATION RunnerSpec
CONSTANTS
    s1 = s1
    f1 = f1
    f2 = f2
    Students = {s1}
    Essays = {}
    EssayMarks = 1
    Sheets = {0, 1, 2}
    Blank = 0
    ObjectiveMarks <- MCObjectiveMarks
    Sequences = {1, 2}
    MaxGrants = 0
    Starts = {}
    Teachers = {}
    PromptStarts = TRUE
    SubmittedOnly = TRUE
    Student = s1
    Page = page
    Nobody = nobody
    Flushes = {f1, f2}
    MaxRetries = 1
    MaxFaults = 2
    QuietSubmits = TRUE
    CleanLoads = FALSE
CHECK_DEADLOCK FALSE
INVARIANTS QueuedSubmissionsArrive

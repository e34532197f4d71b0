----------------------------- MODULE ExamSitting -----------------------------
(***************************************************************************)
(* One published exam: its attempts, autosaves, submission and grading,    *)
(* retakes, and the teacher's close, release and hide.  Tables Exam,       *)
(* ExamAttempt, ExamAnswer and ExamRetake.                                 *)
(*                                                                         *)
(* Students' handlers read the exam and the latest attempt before they     *)
(* write; teachers' handlers read the exam row, then claim it if its       *)
(* updatedAt is still the one they read.  A request whose claim must fail  *)
(* is one that is no longer "fresh".  A transaction that begins with a     *)
(* claim is one action, except the grading of an essay: it holds the exam  *)
(* row but reads the attempt row before it writes it.                      *)
(***************************************************************************)
EXTENDS Integers, Sequences, FiniteSets, Rows

CONSTANTS
    Students,
    Essays,           \* the essay questions of the exam's snapshot
    EssayMarks,       \* the marks each of them carries
    Sheets,           \* the sets of objective answers a student can give
    Blank,            \* the one without any answer
    ObjectiveMarks,   \* what gradeObjectiveAnswer awards to a sheet in all
    Sequences,        \* the clientSequence numbers that may be sent
    MaxGrants,        \* bound: retakes that become available to a student
    Starts,           \* start requests that may be in progress at once
    Teachers,         \* teacher requests that may be in progress at once
    PromptStarts,     \* TRUE: the exam is not closed while a start is in progress
    SubmittedOnly     \* TRUE: a teacher marks essays of submitted attempts only

ASSUME SheetsAssumption == Blank \in Sheets /\ ObjectiveMarks \in [Sheets -> Nat]
ASSUME EssaysAssumption == IsFiniteSet(Essays) /\ EssayMarks \in Nat
ASSUME SequencesAssumption == Sequences \subseteq Nat \ {0}
ASSUME MaxGrantsAssumption == MaxGrants \in Nat
ASSUME FlagsAssumption == PromptStarts \in BOOLEAN /\ SubmittedOnly \in BOOLEAN

VARIABLES
    exam,       \* [status, released]
    attempt,    \* attempt[s] is the student's attempts by attemptNumber
    armed,      \* the students with an ExamRetake that is not used
    granted,    \* how many retakes became available to each student
    starting,   \* the start requests in progress, with what they have read
    closing,    \* attempts that a request is about to finalize
    request,    \* the teacher requests in progress
    published   \* the attempt and score released for each student

sittingVars == <<attempt, armed, granted, starting, closing>>
vars == <<exam, sittingVars, request, published>>

NoMark == -1
Statuses == {"IN_PROGRESS", "SUBMITTED", "GRADED"}
Exams == [status : {"PUBLISHED", "CLOSED"}, released : BOOLEAN]
Marks == [Essays -> {NoMark} \cup 0 .. EssayMarks]
AttemptRows == [status : Statuses, late : BOOLEAN, seq : Nat, sheet : Sheets, marks : Marks,
                auto : Nat, essayScore : Nat, total : Nat]
StartRows == [student : Students, from : Nat]
ExamRequests == [op : {"CLOSE", "RELEASE", "HIDE"}, fresh : BOOLEAN]
GradeRequests == [op : {"GRADE"}, student : Students, number : Nat, marks : Marks, auto : Nat]

-----------------------------------------------------------------------------
(* Helpers. *)

Latest(s) == Len(attempt[s])
\* The attempts after the first one.
Further(s) == IF Latest(s) = 0 THEN 0 ELSE Latest(s) - 1
IsOpen(s, n) == n \in DOMAIN attempt[s] /\ attempt[s][n].status = "IN_PROGRESS"

\* The sum of the marks awarded so far: the number of pairs of an essay and
\* one of its awarded marks.
EssayScore(marks) == Cardinality(UNION {{e} \X (1 .. marks[e]) : e \in Essays})
Pending(marks) == \E e \in Essays : marks[e] = NoMark

AllGraded == \A s \in Students : \A n \in DOMAIN attempt[s] : attempt[s][n].status = "GRADED"
Sat == {s \in Students : attempt[s] /= <<>>}

\* A write of the exam row changes updatedAt: those that read it before fail.
Outdated == [t \in DOMAIN request |->
                IF request[t].op = "GRADE" THEN request[t] ELSE [request[t] EXCEPT !.fresh = FALSE]]

\* The exam row is locked by a transaction that marks an essay.
ExamLocked == \E t \in DOMAIN request : request[t].op = "GRADE"

-----------------------------------------------------------------------------
(* POST /api/student/exams/[id]/attempt. *)

\* The exam is read and found PUBLISHED, as every exam was at some time, and then
\* the latest attempt, in this step; with prompt starts no close comes between.  An
\* attempt in progress is resumed, which changes nothing before its deadline.
StartRead(q, s) ==
    /\ q \notin DOMAIN starting
    /\ ~IsOpen(s, Latest(s))
    /\ PromptStarts => exam.status = "PUBLISHED"
    /\ starting' = With(starting, q, [student |-> s, from |-> Latest(s)])
    /\ UNCHANGED <<exam, attempt, armed, granted, closing, request, published>>

\* Resuming after the deadline submits the attempt instead.
ResumeLate(s) ==
    /\ IsOpen(s, Latest(s))
    /\ attempt[s][Latest(s)].late
    /\ closing' = closing \cup {<<s, Latest(s)>>}
    /\ UNCHANGED <<exam, attempt, armed, granted, starting, request, published>>

NewAttempt == [status |-> "IN_PROGRESS", late |-> FALSE, seq |-> 0, sheet |-> Blank,
               marks |-> [e \in Essays |-> NoMark], auto |-> 0, essayScore |-> 0, total |-> 0]

\* Mutant: attempts of one student may share a number.
MayCreateAgain(s, from) == from > 0 => s \in armed

\* The number after the one that was read is still free, by the unique key,
\* and a further attempt needs a retake.
MayCreate(s, from) ==
    /\ Latest(s) = from
    /\ from > 0 => s \in armed

\* The retake is consumed and the attempt created, or neither.  A first attempt
\* does not look at the retake, which may have been granted before it.
StartCreate(q) ==
    LET s == starting[q].student
    IN  /\ q \in DOMAIN starting
        /\ MayCreate(s, starting[q].from)
        /\ attempt' = [attempt EXCEPT ![s] = Append(@, NewAttempt)]
        /\ armed' = IF starting[q].from > 0 THEN armed \ {s} ELSE armed
        /\ starting' = Without(starting, q)
        /\ UNCHANGED <<exam, granted, closing, request, published>>

\* Mutant: the retake is consumed in a transaction of its own, so that the loser
\* of a race, or a request that dies before the attempt is created, burns it.
StartEndsBurning(q) ==
    /\ q \in DOMAIN starting
    /\ starting' = Without(starting, q)
    /\ armed' = IF starting[q].from > 0 THEN armed \ {starting[q].student} ELSE armed
    /\ UNCHANGED <<exam, attempt, granted, closing, request, published>>

\* A racing start has won, there is no retake, or the request died.
StartEnds(q) ==
    /\ q \in DOMAIN starting
    /\ starting' = Without(starting, q)
    /\ UNCHANGED <<exam, attempt, armed, granted, closing, request, published>>

Expire(s, n) ==
    /\ IsOpen(s, n)
    /\ ~attempt[s][n].late
    /\ attempt' = [attempt EXCEPT ![s][n].late = TRUE]
    /\ UNCHANGED <<exam, armed, granted, starting, closing, request, published>>

-----------------------------------------------------------------------------
(* PATCH /api/student/exams/[id]/attempt: SAVE and SUBMIT. *)

\* Mutant: the sequence is not compared.
MaySaveAnySequence(s, n, seq) == IsOpen(s, n)

\* Mutant: the status is not part of the claim.
MaySaveSubmitted(s, n, seq) == attempt[s][n].seq < seq

\* The claim of the attempt row.
MaySave(s, n, seq) == IsOpen(s, n) /\ attempt[s][n].seq < seq

\* The answers are stored with the claim, also after the deadline; then a
\* submission, or any save after the deadline, goes on to finalize.
Save(s, n, seq, sheet, action) ==
    /\ MaySave(s, n, seq)
    /\ attempt' = [attempt EXCEPT ![s][n].seq = seq, ![s][n].sheet = sheet]
    /\ closing' = IF action = "SUBMIT" \/ attempt[s][n].late
                  THEN closing \cup {<<s, n>>} ELSE closing
    /\ UNCHANGED <<exam, armed, granted, starting, request, published>>

\* Mutant: the objective answers are left without a score.
FinalizedUnscored(row) ==
    [row EXCEPT !.status = IF Essays = {} THEN "GRADED" ELSE "SUBMITTED", !.auto = NoMark]

\* finalizeAttempt, one transaction that begins with a claim of the row.
Finalized(row) ==
    LET auto == ObjectiveMarks[row.sheet]
    IN  [row EXCEPT !.status = IF Essays = {} THEN "GRADED" ELSE "SUBMITTED",
                    !.auto = auto, !.total = auto + row.essayScore]

Finalize(s, n) ==
    /\ <<s, n>> \in closing
    /\ IsOpen(s, n)
    /\ attempt' = [attempt EXCEPT ![s][n] = Finalized(@)]
    /\ closing' = closing \ {<<s, n>>}
    /\ UNCHANGED <<exam, armed, granted, starting, request, published>>

\* The claim fails, or the process dies between the save and finalizing.
FinalizeEnds(s, n) ==
    /\ <<s, n>> \in closing
    /\ closing' = closing \ {<<s, n>>}
    /\ UNCHANGED <<exam, attempt, armed, granted, starting, request, published>>

-----------------------------------------------------------------------------
(* PATCH /api/teacher/exams/[id]/results: mark an essay. *)

\* An essay has an answer row once it was saved, or else once it is finalized.
HasAnswerRow(s, n) ==
    /\ n \in DOMAIN attempt[s]
    /\ attempt[s][n].status = "IN_PROGRESS" => attempt[s][n].seq > 0
    /\ SubmittedOnly => attempt[s][n].status /= "IN_PROGRESS"

\* Mutant: the claim does not ask for unreleased results.
GradeClaimReleased(t, s, n, e, mark) ==
    /\ t \notin DOMAIN request
    /\ HasAnswerRow(s, n)
    /\ ~ExamLocked
    /\ request' = With(request, t, [op |-> "GRADE", student |-> s, number |-> n,
                                    marks |-> [attempt[s][n].marks EXCEPT ![e] = mark],
                                    auto |-> attempt[s][n].auto])
    /\ UNCHANGED <<exam, sittingVars, published>>

\* Mutant: the mark is not limited to those of the question.
GradeClaimUnlimited(t, s, n, e, mark) ==
    /\ t \notin DOMAIN request
    /\ HasAnswerRow(s, n)
    /\ ~exam.released
    /\ ~ExamLocked
    /\ request' = With(request, t, [op |-> "GRADE", student |-> s, number |-> n,
                                    marks |-> [attempt[s][n].marks EXCEPT ![e] = mark + 1],
                                    auto |-> attempt[s][n].auto])
    /\ UNCHANGED <<exam, sittingVars, published>>

\* The claim of the exam row, the new mark, and the read of the attempt.
GradeClaim(t, s, n, e, mark) ==
    /\ t \notin DOMAIN request
    /\ HasAnswerRow(s, n)
    /\ ~exam.released
    /\ ~ExamLocked
    /\ request' = With(request, t, [op |-> "GRADE", student |-> s, number |-> n,
                                    marks |-> [attempt[s][n].marks EXCEPT ![e] = mark],
                                    auto |-> attempt[s][n].auto])
    /\ UNCHANGED <<exam, sittingVars, published>>

\* The attempt's row as the transaction writes it, from what it read.
Marked(row, q) ==
    LET score == EssayScore(q.marks)
    IN  [row EXCEPT !.marks = q.marks, !.essayScore = score, !.total = q.auto + score,
                    !.status = IF Pending(q.marks) THEN "SUBMITTED" ELSE "GRADED"]

GradeWrite(t) ==
    LET q == request[t]
    IN  /\ t \in DOMAIN request
        /\ q.op = "GRADE"
        /\ attempt' = [attempt EXCEPT ![q.student][q.number] = Marked(@, q)]
        /\ request' = Without(Outdated, t)
        /\ UNCHANGED <<exam, armed, granted, starting, closing, published>>

-----------------------------------------------------------------------------
(* PATCH /api/teacher/exams: close, release and hide; retakes. *)

\* The exam row, with its updatedAt, is read with the attempts that matter.
StartClose(t) ==
    /\ t \notin DOMAIN request
    /\ exam.status = "PUBLISHED"
    /\ request' = With(request, t, [op |-> "CLOSE", fresh |-> TRUE])
    /\ UNCHANGED <<exam, sittingVars, published>>

\* Mutant: results of an exam that is still open may be released.
StartReleaseOpen(t) ==
    /\ t \notin DOMAIN request
    /\ ~exam.released
    /\ AllGraded /\ Sat /= {}
    /\ request' = With(request, t, [op |-> "RELEASE", fresh |-> TRUE])
    /\ UNCHANGED <<exam, sittingVars, published>>

StartRelease(t) ==
    /\ t \notin DOMAIN request
    /\ exam.status = "CLOSED"
    /\ ~exam.released
    /\ AllGraded /\ Sat /= {}
    /\ request' = With(request, t, [op |-> "RELEASE", fresh |-> TRUE])
    /\ UNCHANGED <<exam, sittingVars, published>>

StartHide(t) ==
    /\ t \notin DOMAIN request
    /\ exam.released
    /\ request' = With(request, t, [op |-> "HIDE", fresh |-> TRUE])
    /\ UNCHANGED <<exam, sittingVars, published>>

Asks(t, op) == t \in DOMAIN request /\ request[t].op = op
Claims(t, op) == Asks(t, op) /\ request[t].fresh /\ ~ExamLocked

Close(t) ==
    /\ Claims(t, "CLOSE")
    /\ PromptStarts => DOMAIN starting = {}
    /\ exam' = [exam EXCEPT !.status = "CLOSED"]
    /\ request' = Without(Outdated, t)
    /\ UNCHANGED <<sittingVars, published>>

\* The attempts are read again, after the claim.
MayRelease == AllGraded /\ Sat /= {}

Release(t) ==
    /\ Claims(t, "RELEASE")
    /\ MayRelease
    /\ exam' = [exam EXCEPT !.released = TRUE]
    /\ published' = [s \in Sat |-> [number |-> Latest(s), total |-> attempt[s][Latest(s)].total]]
    /\ request' = Without(Outdated, t)
    /\ UNCHANGED sittingVars

\* Hiding has no condition on the row it writes.
Hide(t) ==
    /\ Asks(t, "HIDE")
    /\ ~ExamLocked
    /\ exam' = [exam EXCEPT !.released = FALSE]
    /\ published' = NoRows
    /\ request' = Without(Outdated, t)
    /\ UNCHANGED sittingVars

RequestEnds(t) ==
    /\ t \in DOMAIN request
    /\ request' = Without(request, t)
    /\ UNCHANGED <<exam, sittingVars, published>>

\* An upsert: a used retake is armed again, and an unused one stays as it is, so
\* that a grant beside it changes nothing.
GrantRetake(s) ==
    /\ s \notin armed
    /\ granted[s] < MaxGrants
    /\ armed' = armed \cup {s}
    /\ granted' = [granted EXCEPT ![s] = @ + 1]
    /\ UNCHANGED <<exam, attempt, starting, closing, request, published>>

-----------------------------------------------------------------------------
Init ==
    /\ exam = [status |-> "PUBLISHED", released |-> FALSE]
    /\ attempt = [s \in Students |-> <<>>]
    /\ armed = {}
    /\ granted = [s \in Students |-> 0]
    /\ starting = NoRows
    /\ closing = {}
    /\ request = NoRows
    /\ published = NoRows

StudentStep(s) ==
    \/ \E q \in Starts : StartRead(q, s)
    \/ ResumeLate(s)
    \/ \E n \in DOMAIN attempt[s] :
        \/ Expire(s, n) \/ Finalize(s, n) \/ FinalizeEnds(s, n)
        \/ \E seq \in Sequences, sheet \in Sheets, action \in {"SAVE", "SUBMIT"} :
             Save(s, n, seq, sheet, action)

TeacherStep(t) ==
    \/ StartClose(t) \/ StartRelease(t) \/ StartHide(t)
    \/ Close(t) \/ Release(t) \/ Hide(t) \/ RequestEnds(t)
    \/ \E s \in Students : \E n \in DOMAIN attempt[s], e \in Essays, mark \in 0 .. EssayMarks :
         GradeClaim(t, s, n, e, mark)
    \/ GradeWrite(t)

Next ==
    \/ \E s \in Students : StudentStep(s) \/ GrantRetake(s)
    \/ \E q \in Starts : StartCreate(q) \/ StartEnds(q)
    \/ \E t \in Teachers : TeacherStep(t)

Spec == Init /\ [][Next]_vars

-----------------------------------------------------------------------------
(* Properties. *)

\* Every table holds rows of its type; marks and scores never go below zero.
TypeOK ==
    /\ exam \in Exams
    /\ attempt \in [Students -> Seq(AttemptRows)]
    /\ armed \subseteq Students
    /\ granted \in [Students -> Nat]
    /\ DOMAIN starting \subseteq Starts
    /\ \A q \in DOMAIN starting : starting[q] \in StartRows
    /\ closing \subseteq Students \X Nat
    /\ DOMAIN request \subseteq Teachers
    /\ \A t \in DOMAIN request : request[t] \in ExamRequests \cup GradeRequests
    /\ DOMAIN published \subseteq Students
    /\ \A s \in DOMAIN published : published[s] \in [number : Nat, total : Nat]

\* A student has one attempt open at most, the latest, whatever double taps,
\* retried starts and grants of retakes race.
OneSitting ==
    \A s \in Students : \A n \in DOMAIN attempt[s] :
        attempt[s][n].status = "IN_PROGRESS" => n = Latest(s)

\* "Retake consumption and attempt creation must be atomic": every retake that
\* became available is either unused still or is one attempt after the first.  No
\* race of starts gets two attempts out of one, and none burns one "with no new
\* attempt to show for it".
RetakesAreSpentOnce ==
    \A s \in Students :
        granted[s] = Further(s) + (IF s \in armed THEN 1 ELSE 0)

\* "A response cannot land after grading has read its answer set": whoever
\* finalized and marked it, the scores of an attempt that is no longer in
\* progress are those of its stored answers.
ScoresMatchAnswers ==
    \A s \in Students : \A n \in DOMAIN attempt[s] :
        LET row == attempt[s][n]
        IN  row.status /= "IN_PROGRESS" =>
                /\ row.auto = ObjectiveMarks[row.sheet]
                /\ row.essayScore = EssayScore(row.marks)
                /\ row.total = row.auto + row.essayScore
                /\ row.status = "GRADED" <=> ~Pending(row.marks)

\* "A delayed or replayed full-answer payload cannot overwrite a newer
\* accepted save", and nothing changes the answers of a submitted attempt.
NewestSaveWins ==
    [][\A s \in Students : \A n \in DOMAIN attempt[s] :
        attempt'[s][n].sheet /= attempt[s][n].sheet =>
            /\ attempt[s][n].status = "IN_PROGRESS"
            /\ attempt'[s][n].seq > attempt[s][n].seq]_vars

\* "A score cannot change after gradebook sync": while results are out, the
\* score of the attempt that was released for a student is the one released.
PublishedScoresStand ==
    \A s \in DOMAIN published :
        /\ published[s].number \in DOMAIN attempt[s]
        /\ attempt[s][published[s].number].status = "GRADED"
        /\ attempt[s][published[s].number].total = published[s].total

\* "Finish all in-progress attempts and grade pending essays before releasing
\* results": with prompt starts, released results are complete.
ReleasedIsComplete ==
    exam.released => AllGraded /\ \A s \in Sat : s \in DOMAIN published /\ published[s].number = Latest(s)

\* Parts of the inductive invariant.  A start has read an attempt that is
\* over, or none.
StartsReadEnded ==
    \A q \in DOMAIN starting :
        LET s == starting[q].student
        IN  starting[q].from \in 0 .. Latest(s) /\ ~IsOpen(s, starting[q].from)

\* While an essay is being marked, the exam row is held: results are not out
\* and nobody else marks.
MarkingExcludesRelease ==
    \A t \in DOMAIN request : request[t].op = "GRADE" =>
        /\ ~exam.released
        /\ request[t].number \in DOMAIN attempt[request[t].student]

NothingPublishedUnlessReleased == ~exam.released => DOMAIN published = {}

\* When only submitted attempts are marked: what a grading has read still
\* holds, and an open attempt has no marks.
MarksFollowSubmission ==
    /\ \A t \in DOMAIN request : request[t].op = "GRADE" =>
         LET row == attempt[request[t].student][request[t].number]
         IN  row.status /= "IN_PROGRESS" /\ row.auto = request[t].auto
    /\ \A s \in Students : \A n \in DOMAIN attempt[s] :
         attempt[s][n].status = "IN_PROGRESS" =>
             attempt[s][n].essayScore = 0 /\ attempt[s][n].marks = [e \in Essays |-> NoMark]

\* With prompt starts: a closed exam has no starts, and only a closed exam is
\* released.
ClosedForGood ==
    /\ exam.status = "CLOSED" => DOMAIN starting = {}
    /\ exam.released => exam.status = "CLOSED"
    /\ \A t \in DOMAIN request : request[t].op = "RELEASE" => exam.status = "CLOSED"

IInv ==
    /\ TypeOK
    /\ StartsReadEnded
    /\ OneSitting
    /\ RetakesAreSpentOnce
    /\ MarkingExcludesRelease
    /\ NothingPublishedUnlessReleased
    /\ PublishedScoresStand
    /\ SubmittedOnly => MarksFollowSubmission /\ ScoresMatchAnswers
    /\ PromptStarts => ClosedForGood /\ ReleasedIsComplete
=============================================================================

-------------------------- MODULE ExamSittingProofs --------------------------
(***************************************************************************)
(* Proofs about exam sittings, for any students, essays, answer sheets,    *)
(* sequence numbers, retakes and requests.                                 *)
(***************************************************************************)
EXTENDS ExamSitting, FiniteSetTheorems, SequenceTheorems, TLAPS

-----------------------------------------------------------------------------
(* Scores and rows. *)

\* The marks of an attempt add up to a natural number.
LEMMA EssayScoreType ==
  ASSUME NEW marks \in Marks
  PROVE  EssayScore(marks) \in Nat
<1> DEFINE Units == UNION {{e} \X (1 .. marks[e]) : e \in Essays}
<1>1. IsFiniteSet(Essays) /\ IsFiniteSet(1 .. EssayMarks)
  BY EssaysAssumption, FS_Interval
<1>2. IsFiniteSet(Essays \X (1 .. EssayMarks))
  BY <1>1, FS_Product
<1>3. Units \subseteq Essays \X (1 .. EssayMarks)
  <2>1. \A e \in Essays : marks[e] \in {NoMark} \cup 0 .. EssayMarks
    BY DEF Marks
  <2>2. \A e \in Essays : 1 .. marks[e] \subseteq 1 .. EssayMarks
    BY <2>1, EssaysAssumption DEF NoMark
  <2> QED
    BY <2>2
<1>4. Cardinality(Units) \in Nat
  BY <1>2, <1>3, FS_Subset, FS_CardinalityType
<1> QED
  BY <1>4 DEF EssayScore

\* As long as no mark was awarded they add up to zero, and all are pending.
LEMMA NothingMarked ==
  ASSUME NEW marks, marks = [e \in Essays |-> NoMark]
  PROVE  /\ marks \in Marks
         /\ EssayScore(marks) = 0
         /\ Pending(marks) <=> Essays /= {}
<1>1. \A e \in Essays : 1 .. marks[e] = {}
  BY DEF NoMark
<1>2. UNION {{e} \X (1 .. marks[e]) : e \in Essays} = {}
  BY <1>1
<1>3. EssayScore(marks) = 0
  BY <1>2, FS_EmptySet DEF EssayScore
<1> QED
  BY <1>3 DEF Marks, Pending, NoMark

\* What an attempt's row holds.
LEMMA RowType ==
  ASSUME NEW row \in AttemptRows
  PROVE  /\ row.status \in Statuses /\ row.late \in BOOLEAN /\ row.seq \in Nat
         /\ row.sheet \in Sheets /\ row.marks \in Marks
         /\ row.auto \in Nat /\ row.essayScore \in Nat /\ row.total \in Nat
BY DEF AttemptRows

\* What a request that marks an essay holds.
LEMMA GradeRequestType ==
  ASSUME NEW q \in ExamRequests \cup GradeRequests, q.op = "GRADE"
  PROVE  q.student \in Students /\ q.number \in Nat /\ q.marks \in Marks /\ q.auto \in Nat
BY DEF ExamRequests, GradeRequests

\* The row after its deadline, and after a save.
LateForm(row) == [row EXCEPT !.late = TRUE]
SavedForm(row, n, sheet) == [[row EXCEPT !.seq = n] EXCEPT !.sheet = sheet]

\* The deadline passes: nothing else in the row changes.
LEMMA LateRow ==
  ASSUME NEW row \in AttemptRows, NEW new, new = LateForm(row)
  PROVE  /\ new \in AttemptRows
         /\ new.late
         /\ new.status = row.status /\ new.seq = row.seq /\ new.sheet = row.sheet
         /\ new.marks = row.marks /\ new.auto = row.auto
         /\ new.essayScore = row.essayScore /\ new.total = row.total
BY DEF AttemptRows, LateForm

\* A save changes the sequence number and the answers.
LEMMA SavedRow ==
  ASSUME NEW row \in AttemptRows, NEW n \in Nat, NEW sheet \in Sheets,
         NEW new, new = SavedForm(row, n, sheet)
  PROVE  /\ new \in AttemptRows
         /\ new.status = row.status /\ new.late = row.late /\ new.seq = n /\ new.sheet = sheet
         /\ new.marks = row.marks /\ new.auto = row.auto
         /\ new.essayScore = row.essayScore /\ new.total = row.total
BY DEF AttemptRows, SavedForm

\* Finalizing scores the objective answers and leaves the essays alone.
LEMMA FinalizedRow ==
  ASSUME NEW row \in AttemptRows, NEW new, new = Finalized(row)
  PROVE  /\ new \in AttemptRows
         /\ new.status = (IF Essays = {} THEN "GRADED" ELSE "SUBMITTED")
         /\ new.late = row.late
         /\ new.seq = row.seq /\ new.sheet = row.sheet /\ new.marks = row.marks
         /\ new.auto = ObjectiveMarks[row.sheet]
         /\ new.essayScore = row.essayScore
         /\ new.total = new.auto + new.essayScore
<1>1. ObjectiveMarks[row.sheet] \in Nat
  BY SheetsAssumption, RowType
<1>2. PICK status \in Statuses : status = IF Essays = {} THEN "GRADED" ELSE "SUBMITTED"
  BY DEF Statuses
<1>3. PICK auto \in Nat : auto = ObjectiveMarks[row.sheet]
  BY <1>1
<1>4. PICK total \in Nat : total = auto + row.essayScore
  BY RowType
<1>5. new = [row EXCEPT !.status = status, !.auto = auto, !.total = total]
  BY <1>2, <1>3, <1>4 DEF Finalized
<1>6. /\ new \in AttemptRows
      /\ new.status = status /\ new.auto = auto /\ new.total = total
      /\ new.late = row.late
      /\ new.seq = row.seq /\ new.sheet = row.sheet /\ new.marks = row.marks
      /\ new.essayScore = row.essayScore
  BY <1>5 DEF AttemptRows
<1> QED
  BY <1>2, <1>3, <1>4, <1>6

\* Marking an essay writes the marks and their sum.
LEMMA MarkedRow ==
  ASSUME NEW row \in AttemptRows, NEW q, q.marks \in Marks, q.auto \in Nat,
         NEW new, new = Marked(row, q)
  PROVE  /\ new \in AttemptRows
         /\ new.status = (IF Pending(q.marks) THEN "SUBMITTED" ELSE "GRADED")
         /\ new.seq = row.seq /\ new.sheet = row.sheet /\ new.auto = row.auto
         /\ new.marks = q.marks
         /\ new.essayScore = EssayScore(q.marks)
         /\ new.total = q.auto + EssayScore(q.marks)
<1>1. PICK score \in Nat : score = EssayScore(q.marks)
  BY EssayScoreType
<1>2. PICK status \in Statuses : status = IF Pending(q.marks) THEN "SUBMITTED" ELSE "GRADED"
  BY DEF Statuses
<1>3. PICK total \in Nat : total = q.auto + score
  OBVIOUS
<1>4. PICK marks \in Marks : marks = q.marks
  OBVIOUS
<1>5. new = [row EXCEPT !.marks = marks, !.essayScore = score, !.total = total, !.status = status]
  BY <1>1, <1>2, <1>3, <1>4 DEF Marked
<1>6. /\ new \in AttemptRows
      /\ new.marks = marks /\ new.essayScore = score /\ new.total = total /\ new.status = status
      /\ new.seq = row.seq /\ new.sheet = row.sheet /\ new.auto = row.auto
  BY <1>5 DEF AttemptRows
<1> QED
  BY <1>1, <1>2, <1>3, <1>4, <1>6

-----------------------------------------------------------------------------
(* What the actions do to the attempts. *)

\* The row of attempt n of student s may have changed, and no other.
OnlyRow(s, n) ==
    /\ \A u \in Students : Len(attempt'[u]) = Len(attempt[u])
                           /\ DOMAIN attempt'[u] = DOMAIN attempt[u]
    /\ \A u \in Students : \A k \in DOMAIN attempt[u] :
         u /= s \/ k /= n => attempt'[u][k] = attempt[u][k]

\* Student s has one attempt more, and no row has changed.
OneMore(s) ==
    /\ Len(attempt'[s]) = Len(attempt[s]) + 1
    /\ attempt'[s][Len(attempt[s]) + 1] = NewAttempt
    /\ \A u \in Students : u /= s => attempt'[u] = attempt[u]
    /\ \A u \in Students : \A k \in DOMAIN attempt[u] : attempt'[u][k] = attempt[u][k]

\* Attempts are numbered from one.
LEMMA AttemptDomain ==
  ASSUME TypeOK, NEW s \in Students
  PROVE  /\ attempt[s] \in Seq(AttemptRows)
         /\ Latest(s) \in Nat
         /\ DOMAIN attempt[s] = 1 .. Latest(s)
         /\ \A n \in DOMAIN attempt[s] : attempt[s][n] \in AttemptRows
<1>1. attempt[s] \in Seq(AttemptRows)
  BY DEF TypeOK
<1> QED
  BY <1>1, LenProperties, ElementOfSeq DEF Latest

\* A write of one row.
LEMMA RowWrite ==
  ASSUME TypeOK, NEW s \in Students, NEW n \in DOMAIN attempt[s], NEW row \in AttemptRows,
         attempt' = [attempt EXCEPT ![s] = [attempt[s] EXCEPT ![n] = row]]
  PROVE  /\ attempt' \in [Students -> Seq(AttemptRows)]
         /\ attempt'[s][n] = row
         /\ OnlyRow(s, n)
<1>1. attempt \in [Students -> Seq(AttemptRows)]
  BY DEF TypeOK
<1>2. attempt[s] \in Seq(AttemptRows) /\ n \in 1 .. Len(attempt[s])
  BY AttemptDomain DEF Latest
<1>3. /\ [attempt[s] EXCEPT ![n] = row] \in Seq(AttemptRows)
      /\ Len([attempt[s] EXCEPT ![n] = row]) = Len(attempt[s])
      /\ \A k \in 1 .. Len(attempt[s]) :
           [attempt[s] EXCEPT ![n] = row][k] = IF k = n THEN row ELSE attempt[s][k]
  BY <1>2, ExceptSeq
<1>4. attempt'[s] = [attempt[s] EXCEPT ![n] = row]
  BY <1>1
<1>5. \A u \in Students : u /= s => attempt'[u] = attempt[u]
  BY <1>1
<1>6. attempt' \in [Students -> Seq(AttemptRows)]
  BY <1>1, <1>3
<1>7. attempt'[s][n] = row
  BY <1>2, <1>3, <1>4
<1>8. \A u \in Students : Len(attempt'[u]) = Len(attempt[u]) /\ DOMAIN attempt'[u] = DOMAIN attempt[u]
  <2> TAKE u \in Students
  <2>1. CASE u = s
    BY <1>3, <1>4, <2>1
  <2>2. CASE u /= s
    BY <1>5, <2>2
  <2> QED
    BY <2>1, <2>2
<1>9. \A u \in Students : \A k \in DOMAIN attempt[u] :
         u /= s \/ k /= n => attempt'[u][k] = attempt[u][k]
  BY <1>4, <1>5
<1> QED
  BY <1>6, <1>7, <1>8, <1>9 DEF OnlyRow

LEMMA ExpireEffect ==
  ASSUME TypeOK, NEW s \in Students, NEW n \in DOMAIN attempt[s], Expire(s, n)
  PROVE  /\ attempt' \in [Students -> Seq(AttemptRows)]
         /\ attempt[s][n].status = "IN_PROGRESS"
         /\ attempt'[s][n] = LateForm(attempt[s][n])
         /\ OnlyRow(s, n)
<1>1. PICK row : row = LateForm(attempt[s][n])
  OBVIOUS
<1>2. attempt[s][n] \in AttemptRows
  BY AttemptDomain
<1>3. row \in AttemptRows
  BY <1>1, <1>2, LateRow
<1>4. attempt' = [attempt EXCEPT ![s] = [attempt[s] EXCEPT ![n] = row]]
  BY <1>1 DEF Expire, LateForm
<1>5. attempt[s][n].status = "IN_PROGRESS"
  BY DEF Expire, IsOpen
<1>6. /\ attempt' \in [Students -> Seq(AttemptRows)]
      /\ attempt'[s][n] = row
      /\ OnlyRow(s, n)
  BY <1>3, <1>4, RowWrite
<1> QED
  BY <1>1, <1>5, <1>6

LEMMA SaveEffect ==
  ASSUME TypeOK, NEW s \in Students, NEW n \in DOMAIN attempt[s],
         NEW seq \in Nat, NEW sheet \in Sheets, NEW action, Save(s, n, seq, sheet, action)
  PROVE  /\ attempt' \in [Students -> Seq(AttemptRows)]
         /\ attempt[s][n].status = "IN_PROGRESS" /\ attempt[s][n].seq < seq
         /\ attempt'[s][n] = SavedForm(attempt[s][n], seq, sheet)
         /\ OnlyRow(s, n)
<1>1. PICK row : row = SavedForm(attempt[s][n], seq, sheet)
  OBVIOUS
<1>2. attempt[s][n] \in AttemptRows
  BY AttemptDomain
<1>3. row \in AttemptRows
  BY <1>1, <1>2, SavedRow
<1>4. attempt' = [attempt EXCEPT ![s] = [attempt[s] EXCEPT ![n] = row]]
  BY <1>1, <1>2, AttemptDomain DEF Save, SavedForm, TypeOK
<1>5. attempt[s][n].status = "IN_PROGRESS" /\ attempt[s][n].seq < seq
  BY DEF Save, MaySave, IsOpen
<1>6. /\ attempt' \in [Students -> Seq(AttemptRows)]
      /\ attempt'[s][n] = row
      /\ OnlyRow(s, n)
  BY <1>3, <1>4, RowWrite
<1> QED
  BY <1>1, <1>5, <1>6

LEMMA FinalizeEffect ==
  ASSUME TypeOK, NEW s \in Students, NEW n \in DOMAIN attempt[s], Finalize(s, n)
  PROVE  /\ attempt' \in [Students -> Seq(AttemptRows)]
         /\ attempt[s][n].status = "IN_PROGRESS"
         /\ attempt'[s][n] = Finalized(attempt[s][n])
         /\ OnlyRow(s, n)
<1>1. attempt[s][n] \in AttemptRows
  BY AttemptDomain
<1>2. Finalized(attempt[s][n]) \in AttemptRows
  BY <1>1, FinalizedRow
<1>3. attempt' = [attempt EXCEPT ![s] = [attempt[s] EXCEPT ![n] = Finalized(attempt[s][n])]]
  BY DEF Finalize
<1>4. attempt[s][n].status = "IN_PROGRESS"
  BY DEF Finalize, IsOpen
<1>5. PICK row : row = Finalized(attempt[s][n])
  OBVIOUS
<1>6. /\ attempt' \in [Students -> Seq(AttemptRows)]
      /\ attempt'[s][n] = row
      /\ OnlyRow(s, n)
  BY <1>2, <1>3, <1>5, RowWrite
<1> QED
  BY <1>4, <1>5, <1>6

LEMMA GradeWriteEffect ==
  ASSUME TypeOK, MarkingExcludesRelease, NEW t, GradeWrite(t),
         NEW q, q = request[t], NEW s, s = q.student, NEW n, n = q.number
  PROVE  /\ attempt' \in [Students -> Seq(AttemptRows)]
         /\ t \in DOMAIN request /\ q.op = "GRADE"
         /\ s \in Students /\ n \in DOMAIN attempt[s]
         /\ q.marks \in Marks /\ q.auto \in Nat
         /\ attempt'[s][n] = Marked(attempt[s][n], q)
         /\ OnlyRow(s, n)
<1>1. t \in DOMAIN request /\ q.op = "GRADE"
  BY DEF GradeWrite
<1>2. q \in ExamRequests \cup GradeRequests
  BY <1>1 DEF TypeOK
<1>3. q.student \in Students /\ q.marks \in Marks /\ q.auto \in Nat
  BY <1>1, <1>2, GradeRequestType
<1>4. s \in Students /\ n \in DOMAIN attempt[s]
  BY <1>1, <1>3 DEF MarkingExcludesRelease
<1>5. attempt[s][n] \in AttemptRows
  BY <1>4, AttemptDomain
<1>6. Marked(attempt[s][n], q) \in AttemptRows
  BY <1>3, <1>5, MarkedRow
<1>7. attempt' = [attempt EXCEPT ![s] = [attempt[s] EXCEPT ![n] = Marked(attempt[s][n], q)]]
  BY DEF GradeWrite
<1>8. PICK row : row = Marked(attempt[s][n], q)
  OBVIOUS
<1>9. /\ attempt' \in [Students -> Seq(AttemptRows)]
      /\ attempt'[s][n] = row
      /\ OnlyRow(s, n)
  BY <1>4, <1>6, <1>7, <1>8, RowWrite
<1> QED
  BY <1>1, <1>3, <1>4, <1>8, <1>9

LEMMA StartCreateEffect ==
  ASSUME TypeOK, NEW q, StartCreate(q), NEW s, s = starting[q].student
  PROVE  /\ attempt' \in [Students -> Seq(AttemptRows)]
         /\ q \in DOMAIN starting /\ s \in Students
         /\ OneMore(s)
<1>1. q \in DOMAIN starting
  BY DEF StartCreate
<1>2. s \in Students
  BY <1>1 DEF TypeOK, StartRows
<1>3. attempt[s] \in Seq(AttemptRows) /\ attempt \in [Students -> Seq(AttemptRows)]
  BY <1>2 DEF TypeOK
<1>4. NewAttempt \in AttemptRows
  BY NothingMarked, SheetsAssumption DEF NewAttempt, AttemptRows, Statuses
<1>5. /\ Append(attempt[s], NewAttempt) \in Seq(AttemptRows)
      /\ Len(Append(attempt[s], NewAttempt)) = Len(attempt[s]) + 1
      /\ \A k \in 1 .. Len(attempt[s]) : Append(attempt[s], NewAttempt)[k] = attempt[s][k]
      /\ Append(attempt[s], NewAttempt)[Len(attempt[s]) + 1] = NewAttempt
  BY <1>3, <1>4, AppendProperties
<1>6. attempt' = [attempt EXCEPT ![s] = Append(attempt[s], NewAttempt)]
  BY DEF StartCreate
<1>7. attempt'[s] = Append(attempt[s], NewAttempt)
  BY <1>2, <1>3, <1>6
<1>8. \A u \in Students : u /= s => attempt'[u] = attempt[u]
  BY <1>3, <1>6
<1>9. DOMAIN attempt[s] = 1 .. Len(attempt[s])
  BY <1>3, LenProperties
<1>10. attempt' \in [Students -> Seq(AttemptRows)]
  BY <1>3, <1>5, <1>6
<1>11. OneMore(s)
  BY <1>5, <1>7, <1>8, <1>9 DEF OneMore
<1> QED
  BY <1>1, <1>2, <1>10, <1>11

-----------------------------------------------------------------------------
(* Type correctness. *)

\* A claim of the exam row leaves every request its kind and what it read.
LEMMA OutdatedRequests ==
  ASSUME TypeOK
  PROVE  /\ DOMAIN Outdated = DOMAIN request
         /\ \A t \in DOMAIN request :
              /\ Outdated[t] \in ExamRequests \cup GradeRequests
              /\ Outdated[t].op = request[t].op
              /\ request[t].op = "GRADE" => Outdated[t] = request[t]
<1>1. ASSUME NEW t \in DOMAIN request, request[t].op /= "GRADE"
      PROVE  /\ [request[t] EXCEPT !.fresh = FALSE] \in ExamRequests
             /\ [request[t] EXCEPT !.fresh = FALSE].op = request[t].op
  <2>1. request[t] \in ExamRequests
    BY <1>1 DEF TypeOK, GradeRequests
  <2> QED
    BY <2>1 DEF ExamRequests
<1>2. \A t \in DOMAIN request : request[t] \in ExamRequests \cup GradeRequests
  BY DEF TypeOK
<1> QED
  BY <1>1, <1>2 DEF Outdated

\* A request is added, or ends with or without a claim.
RequestAdded(t, q) == t \notin DOMAIN request /\ request' = With(request, t, q)
RequestOver(t) == request' = Without(request, t) \/ request' = Without(Outdated, t)
RequestsTyped == /\ DOMAIN request' \subseteq Teachers
                 /\ \A t \in DOMAIN request' : request'[t] \in ExamRequests \cup GradeRequests

LEMMA RequestTable ==
  ASSUME TypeOK, NEW t \in Teachers
  PROVE  /\ \A q \in ExamRequests \cup GradeRequests : RequestAdded(t, q) => RequestsTyped
         /\ RequestOver(t) =>
              /\ RequestsTyped
              /\ DOMAIN request' \subseteq DOMAIN request
              /\ \A u \in DOMAIN request' :
                   /\ request'[u].op = request[u].op
                   /\ request[u].op = "GRADE" => request'[u] = request[u]
<1>1. /\ DOMAIN request \subseteq Teachers
      /\ \A u \in DOMAIN request : request[u] \in ExamRequests \cup GradeRequests
  BY DEF TypeOK
<1>2. ASSUME NEW q \in ExamRequests \cup GradeRequests, RequestAdded(t, q) PROVE RequestsTyped
  BY <1>1, <1>2 DEF RequestAdded, RequestsTyped, With
<1>3. ASSUME RequestOver(t)
      PROVE  /\ RequestsTyped
             /\ DOMAIN request' \subseteq DOMAIN request
             /\ \A u \in DOMAIN request' :
                  /\ request'[u].op = request[u].op
                  /\ request[u].op = "GRADE" => request'[u] = request[u]
  BY <1>1, <1>3, OutdatedRequests DEF RequestOver, RequestsTyped, Without
<1> QED
  BY <1>2, <1>3

\* A grading request is one of a student's attempt, with marks of the exam.
LEMMA GradeClaimEffect ==
  ASSUME TypeOK, NEW t \in Teachers, NEW s \in Students, NEW n \in DOMAIN attempt[s],
         NEW e \in Essays, NEW mark \in 0 .. EssayMarks, GradeClaim(t, s, n, e, mark),
         NEW q, q = [op |-> "GRADE", student |-> s, number |-> n,
                     marks |-> [attempt[s][n].marks EXCEPT ![e] = mark], auto |-> attempt[s][n].auto]
  PROVE  /\ q \in GradeRequests
         /\ RequestAdded(t, q)
         /\ ~exam.released /\ HasAnswerRow(s, n)
         /\ UNCHANGED <<exam, attempt, armed, granted, starting, closing, published>>
<1>1. attempt[s][n] \in AttemptRows /\ n \in Nat
  BY AttemptDomain
<1>2. attempt[s][n].marks \in Marks /\ attempt[s][n].auto \in Nat
  BY <1>1, RowType
<1>3. PICK marks \in Marks : marks = [attempt[s][n].marks EXCEPT ![e] = mark]
  BY <1>2, EssaysAssumption DEF Marks
<1>4. PICK auto \in Nat : auto = attempt[s][n].auto
  BY <1>2
<1>5. q = [op |-> "GRADE", student |-> s, number |-> n, marks |-> marks, auto |-> auto]
  BY <1>3, <1>4
<1>6. q \in GradeRequests
  BY <1>1, <1>5 DEF GradeRequests
<1>7. RequestAdded(t, q)
  BY DEF GradeClaim, RequestAdded
<1> QED
  BY <1>6, <1>7 DEF GradeClaim, sittingVars

LEMMA TypeStep ==
  ASSUME TypeOK, MarkingExcludesRelease, [Next]_vars
  PROVE  TypeOK'
<1>1. ASSUME NEW s \in Students, NEW q \in Starts, StartRead(q, s) PROVE TypeOK'
  <2>1. [student |-> s, from |-> Latest(s)] \in StartRows
    BY AttemptDomain DEF StartRows
  <2>2. /\ DOMAIN starting' \subseteq Starts
        /\ \A p \in DOMAIN starting' : starting'[p] \in StartRows
    BY <1>1, <2>1 DEF StartRead, TypeOK, With
  <2> QED
    BY <1>1, <2>2 DEF StartRead, TypeOK
<1>2. ASSUME NEW s \in Students, ResumeLate(s) PROVE TypeOK'
  <2>1. Latest(s) \in Nat
    BY AttemptDomain
  <2> QED
    BY <1>2, <2>1 DEF ResumeLate, TypeOK
<1>3. ASSUME NEW s \in Students, NEW n \in DOMAIN attempt[s], Expire(s, n) PROVE TypeOK'
  <2>1. attempt' \in [Students -> Seq(AttemptRows)]
    BY <1>3, ExpireEffect
  <2> QED
    BY <1>3, <2>1 DEF Expire, TypeOK
<1>4. ASSUME NEW s \in Students, NEW n \in DOMAIN attempt[s], Finalize(s, n) PROVE TypeOK'
  <2>1. attempt' \in [Students -> Seq(AttemptRows)]
    BY <1>4, FinalizeEffect
  <2> QED
    BY <1>4, <2>1 DEF Finalize, TypeOK
<1>5. ASSUME NEW s \in Students, NEW n \in DOMAIN attempt[s], FinalizeEnds(s, n) PROVE TypeOK'
  BY <1>5 DEF FinalizeEnds, TypeOK
<1>6. ASSUME NEW s \in Students, NEW n \in DOMAIN attempt[s], NEW seq \in Sequences,
             NEW sheet \in Sheets, NEW action \in {"SAVE", "SUBMIT"},
             Save(s, n, seq, sheet, action)
      PROVE  TypeOK'
  <2>1. attempt' \in [Students -> Seq(AttemptRows)]
    BY <1>6, SaveEffect, SequencesAssumption
  <2>2. n \in Nat
    BY AttemptDomain
  <2>3. closing' \subseteq Students \X Nat
    BY <1>6, <2>2 DEF Save, TypeOK
  <2> QED
    BY <1>6, <2>1, <2>3 DEF Save, TypeOK
<1>7. ASSUME NEW s \in Students, GrantRetake(s) PROVE TypeOK'
  BY <1>7 DEF GrantRetake, TypeOK
<1>8. ASSUME NEW q \in Starts, StartCreate(q) PROVE TypeOK'
  <2>1. attempt' \in [Students -> Seq(AttemptRows)]
    BY <1>8, StartCreateEffect
  <2>2. /\ DOMAIN starting' \subseteq Starts
        /\ \A p \in DOMAIN starting' : starting'[p] \in StartRows
        /\ armed' \subseteq Students
    BY <1>8 DEF StartCreate, TypeOK, Without
  <2> QED
    BY <1>8, <2>1, <2>2 DEF StartCreate, TypeOK
<1>9. ASSUME NEW q \in Starts, StartEnds(q) PROVE TypeOK'
  <2>1. /\ DOMAIN starting' \subseteq Starts
        /\ \A p \in DOMAIN starting' : starting'[p] \in StartRows
    BY <1>9 DEF StartEnds, TypeOK, Without
  <2> QED
    BY <1>9, <2>1 DEF StartEnds, TypeOK
<1>10. ASSUME NEW t \in Teachers, StartClose(t) \/ StartRelease(t) \/ StartHide(t) PROVE TypeOK'
  <2>1. PICK q \in ExamRequests : RequestAdded(t, q)
    <3>1. \A op \in {"CLOSE", "RELEASE", "HIDE"} : [op |-> op, fresh |-> TRUE] \in ExamRequests
      BY DEF ExamRequests
    <3> QED
      BY <1>10, <3>1 DEF StartClose, StartRelease, StartHide, RequestAdded
  <2>2. RequestsTyped
    BY <2>1, RequestTable
  <2> QED
    BY <1>10, <2>2 DEF StartClose, StartRelease, StartHide, RequestsTyped, TypeOK, sittingVars
<1>11. ASSUME NEW t \in Teachers, Close(t) PROVE TypeOK'
  <2>1. RequestsTyped
    BY <1>11, RequestTable DEF Close, RequestOver
  <2>2. exam' \in Exams
    BY <1>11 DEF Close, TypeOK, Exams
  <2> QED
    BY <1>11, <2>1, <2>2 DEF Close, RequestsTyped, TypeOK, sittingVars
<1>12. ASSUME NEW t \in Teachers, Release(t) PROVE TypeOK'
  <2>1. RequestsTyped
    BY <1>12, RequestTable DEF Release, RequestOver
  <2>2. exam' \in Exams
    BY <1>12 DEF Release, TypeOK, Exams
  <2>3. ASSUME NEW s \in Sat
        PROVE  s \in Students /\ Latest(s) \in Nat /\ attempt[s][Latest(s)].total \in Nat
    <3>1. s \in Students /\ attempt[s] /= <<>>
      BY DEF Sat
    <3>2. Latest(s) \in DOMAIN attempt[s]
      BY <3>1, AttemptDomain, EmptySeq DEF Latest
    <3> QED
      BY <3>1, <3>2, AttemptDomain, RowType
  <2>4. /\ DOMAIN published' \subseteq Students
        /\ \A s \in DOMAIN published' : published'[s] \in [number : Nat, total : Nat]
    BY <1>12, <2>3 DEF Release
  <2> QED
    BY <1>12, <2>1, <2>2, <2>4 DEF Release, RequestsTyped, TypeOK, sittingVars
<1>13. ASSUME NEW t \in Teachers, Hide(t) PROVE TypeOK'
  <2>1. RequestsTyped
    BY <1>13, RequestTable DEF Hide, RequestOver
  <2>2. exam' \in Exams
    BY <1>13 DEF Hide, TypeOK, Exams
  <2> QED
    BY <1>13, <2>1, <2>2 DEF Hide, NoRows, RequestsTyped, TypeOK, sittingVars
<1>14. ASSUME NEW t \in Teachers, RequestEnds(t) PROVE TypeOK'
  <2>1. RequestsTyped
    BY <1>14, RequestTable DEF RequestEnds, RequestOver
  <2> QED
    BY <1>14, <2>1 DEF RequestEnds, RequestsTyped, TypeOK, sittingVars
<1>15. ASSUME NEW t \in Teachers, NEW s \in Students, NEW n \in DOMAIN attempt[s],
              NEW e \in Essays, NEW mark \in 0 .. EssayMarks, GradeClaim(t, s, n, e, mark)
       PROVE  TypeOK'
  <2>1. PICK q \in GradeRequests : RequestAdded(t, q)
    BY <1>15, GradeClaimEffect
  <2>2. RequestsTyped
    BY <2>1, RequestTable
  <2> QED
    BY <1>15, <2>2 DEF GradeClaim, RequestsTyped, TypeOK, sittingVars
<1>16. ASSUME NEW t \in Teachers, GradeWrite(t) PROVE TypeOK'
  <2>1. RequestsTyped
    BY <1>16, RequestTable DEF GradeWrite, RequestOver
  <2>2. attempt' \in [Students -> Seq(AttemptRows)]
    BY <1>16, GradeWriteEffect
  <2> QED
    BY <1>16, <2>1, <2>2 DEF GradeWrite, RequestsTyped, TypeOK
<1>17. ASSUME UNCHANGED vars PROVE TypeOK'
  BY <1>17 DEF TypeOK, vars, sittingVars
<1> QED
  BY <1>1, <1>2, <1>3, <1>4, <1>5, <1>6, <1>7, <1>8, <1>9, <1>10, <1>11, <1>12, <1>13,
     <1>14, <1>15, <1>16, <1>17 DEF Next, StudentStep, TeacherStep

-----------------------------------------------------------------------------
(* The kinds of steps. *)

\* One attempt's row is written by its student's requests or the clock.
RowStep(s, n) ==
    \/ Expire(s, n)
    \/ Finalize(s, n)
    \/ \E seq \in Sequences, sheet \in Sheets, action \in {"SAVE", "SUBMIT"} :
         Save(s, n, seq, sheet, action)

\* The steps that leave the attempts alone.
TeachersSide(t) ==
    \/ StartClose(t) \/ StartRelease(t) \/ StartHide(t)
    \/ Close(t) \/ Release(t) \/ Hide(t) \/ RequestEnds(t)
    \/ \E s \in Students : \E n \in DOMAIN attempt[s], e \in Essays, mark \in 0 .. EssayMarks :
         GradeClaim(t, s, n, e, mark)
StudentsSide ==
    \/ \E s \in Students : ResumeLate(s) \/ GrantRetake(s)
    \/ \E s \in Students : \E n \in DOMAIN attempt[s] : FinalizeEnds(s, n)
    \/ \E q \in Starts : StartEnds(q) \/ \E s \in Students : StartRead(q, s)

LEMMA StepKinds ==
  ASSUME [Next]_vars
  PROVE  \/ UNCHANGED vars
         \/ StudentsSide
         \/ \E t \in Teachers : TeachersSide(t) \/ GradeWrite(t)
         \/ \E q \in Starts : StartCreate(q)
         \/ \E s \in Students : \E n \in DOMAIN attempt[s] : RowStep(s, n)
BY DEF Next, StudentStep, TeacherStep, TeachersSide, StudentsSide, RowStep

LEMMA StudentsSideFrame ==
  ASSUME StudentsSide PROVE UNCHANGED <<exam, attempt, request, published>>
BY DEF StudentsSide, ResumeLate, GrantRetake, FinalizeEnds, StartEnds, StartRead

LEMMA TeachersSideFrame ==
  ASSUME NEW t, TeachersSide(t) PROVE UNCHANGED <<attempt, armed, granted, starting, closing>>
BY DEF TeachersSide, StartClose, StartRelease, StartHide, Close, Release, Hide, RequestEnds,
       GradeClaim, sittingVars

LEMMA GradeWriteFrame ==
  ASSUME NEW t, GradeWrite(t)
  PROVE  /\ UNCHANGED <<exam, armed, granted, starting, closing, published>>
         /\ RequestOver(t)
BY DEF GradeWrite, RequestOver

LEMMA StartCreateFrame ==
  ASSUME NEW q, StartCreate(q) PROVE UNCHANGED <<exam, granted, closing, request, published>>
BY DEF StartCreate

LEMMA RowStepFrame ==
  ASSUME NEW s, NEW n, RowStep(s, n)
  PROVE  UNCHANGED <<exam, armed, granted, starting, request, published>>
BY DEF RowStep, Expire, Finalize, Save

\* The student's side writes open attempts only, and leaves the marks alone.
LEMMA RowStepEffect ==
  ASSUME TypeOK, NEW s \in Students, NEW n \in DOMAIN attempt[s], RowStep(s, n)
  PROVE  /\ OnlyRow(s, n)
         /\ attempt[s][n].status = "IN_PROGRESS"
         /\ attempt'[s][n].marks = attempt[s][n].marks
         /\ attempt'[s][n].essayScore = attempt[s][n].essayScore
         /\ attempt'[s][n].sheet /= attempt[s][n].sheet => attempt'[s][n].seq > attempt[s][n].seq
         /\ \/ attempt'[s][n].status = "IN_PROGRESS"
            \/ /\ attempt'[s][n].status = (IF Essays = {} THEN "GRADED" ELSE "SUBMITTED")
               /\ attempt'[s][n].auto = ObjectiveMarks[attempt'[s][n].sheet]
               /\ attempt'[s][n].total = attempt'[s][n].auto + attempt'[s][n].essayScore
<1>1. attempt[s][n] \in AttemptRows
  BY AttemptDomain
<1>2. CASE Expire(s, n)
  <2>1. PICK new : new = LateForm(attempt[s][n])
    OBVIOUS
  <2>2. attempt'[s][n] = new /\ OnlyRow(s, n) /\ attempt[s][n].status = "IN_PROGRESS"
    BY <1>2, <2>1, ExpireEffect
  <2>3. /\ new.status = attempt[s][n].status /\ new.sheet = attempt[s][n].sheet
        /\ new.marks = attempt[s][n].marks /\ new.essayScore = attempt[s][n].essayScore
    BY <1>1, <2>1, LateRow
  <2> QED
    BY <2>2, <2>3
<1>3. CASE Finalize(s, n)
  <2>1. PICK new : new = Finalized(attempt[s][n])
    OBVIOUS
  <2>2. attempt'[s][n] = new /\ OnlyRow(s, n) /\ attempt[s][n].status = "IN_PROGRESS"
    BY <1>3, <2>1, FinalizeEffect
  <2>3. /\ new.status = (IF Essays = {} THEN "GRADED" ELSE "SUBMITTED")
        /\ new.sheet = attempt[s][n].sheet /\ new.marks = attempt[s][n].marks
        /\ new.auto = ObjectiveMarks[attempt[s][n].sheet]
        /\ new.essayScore = attempt[s][n].essayScore
        /\ new.total = new.auto + new.essayScore
    BY <1>1, <2>1, FinalizedRow
  <2> QED
    BY <2>2, <2>3
<1>4. CASE \E seq \in Sequences, sheet \in Sheets, action \in {"SAVE", "SUBMIT"} :
              Save(s, n, seq, sheet, action)
  <2>1. PICK seq \in Sequences, sheet \in Sheets, action \in {"SAVE", "SUBMIT"} :
           Save(s, n, seq, sheet, action)
    BY <1>4
  <2>2. PICK new : new = SavedForm(attempt[s][n], seq, sheet)
    OBVIOUS
  <2>3. /\ attempt'[s][n] = new /\ OnlyRow(s, n)
        /\ attempt[s][n].status = "IN_PROGRESS" /\ attempt[s][n].seq < seq
    BY <2>1, <2>2, SaveEffect, SequencesAssumption
  <2>4. seq \in Nat /\ attempt[s][n].seq \in Nat
    BY <1>1, RowType, SequencesAssumption
  <2>5. /\ new.status = attempt[s][n].status /\ new.seq = seq
        /\ new.marks = attempt[s][n].marks /\ new.essayScore = attempt[s][n].essayScore
    BY <1>1, <2>2, <2>4, SavedRow
  <2> QED
    BY <2>3, <2>4, <2>5
<1> QED
  BY <1>2, <1>3, <1>4 DEF RowStep

\* Marking writes an attempt of an exam whose results are not out.
LEMMA GradeWriteRow ==
  ASSUME TypeOK, MarkingExcludesRelease, NEW t \in Teachers, GradeWrite(t),
         NEW s, s = request[t].student, NEW n, n = request[t].number
  PROVE  /\ s \in Students /\ n \in DOMAIN attempt[s] /\ OnlyRow(s, n)
         /\ ~exam.released
         /\ t \in DOMAIN request /\ request[t].op = "GRADE"
         /\ request[t].marks \in Marks /\ request[t].auto \in Nat
         /\ attempt'[s][n].status = (IF Pending(request[t].marks) THEN "SUBMITTED" ELSE "GRADED")
         /\ attempt'[s][n].sheet = attempt[s][n].sheet
         /\ attempt'[s][n].auto = attempt[s][n].auto
         /\ attempt'[s][n].marks = request[t].marks
         /\ attempt'[s][n].essayScore = EssayScore(request[t].marks)
         /\ attempt'[s][n].total = request[t].auto + EssayScore(request[t].marks)
<1>1. PICK q : q = request[t]
  OBVIOUS
<1>2. /\ t \in DOMAIN request /\ q.op = "GRADE"
      /\ s \in Students /\ n \in DOMAIN attempt[s]
      /\ q.marks \in Marks /\ q.auto \in Nat
      /\ attempt'[s][n] = Marked(attempt[s][n], q)
      /\ OnlyRow(s, n)
  BY <1>1, GradeWriteEffect
<1>3. attempt[s][n] \in AttemptRows
  BY <1>2, AttemptDomain
<1>4. PICK new : new = Marked(attempt[s][n], q)
  OBVIOUS
<1>5. /\ new.status = (IF Pending(q.marks) THEN "SUBMITTED" ELSE "GRADED")
      /\ new.sheet = attempt[s][n].sheet /\ new.auto = attempt[s][n].auto
      /\ new.marks = q.marks
      /\ new.essayScore = EssayScore(q.marks)
      /\ new.total = q.auto + EssayScore(q.marks)
  BY <1>2, <1>3, <1>4, MarkedRow
<1>6. ~exam.released
  BY <1>1, <1>2 DEF MarkingExcludesRelease
<1> QED
  BY <1>1, <1>2, <1>4, <1>5, <1>6

\* A new attempt is the student's latest.
LEMMA CreatedDomain ==
  ASSUME TypeOK, TypeOK', NEW s \in Students, OneMore(s)
  PROVE  /\ Latest(s)' = Latest(s) + 1
         /\ DOMAIN attempt'[s] = DOMAIN attempt[s] \cup {Latest(s) + 1}
         /\ Latest(s) \in Nat /\ DOMAIN attempt[s] = 1 .. Latest(s)
<1>1. attempt[s] \in Seq(AttemptRows) /\ attempt'[s] \in Seq(AttemptRows)
  BY DEF TypeOK
<1>2. /\ Latest(s) \in Nat /\ DOMAIN attempt[s] = 1 .. Latest(s)
      /\ DOMAIN attempt'[s] = 1 .. Len(attempt'[s])
  BY <1>1, LenProperties DEF Latest
<1>3. Len(attempt'[s]) = Latest(s) + 1
  BY DEF OneMore, Latest
<1> QED
  BY <1>2, <1>3 DEF Latest

-----------------------------------------------------------------------------
(* Students: starts, sittings and retakes. *)

\* An attempt that is over stays over, and attempts are never removed.
LEMMA NoReopening ==
  ASSUME TypeOK, TypeOK', MarkingExcludesRelease, [Next]_vars, NEW s \in Students
  PROVE  /\ Latest(s)' \in {Latest(s), Latest(s) + 1}
         /\ \A n \in 0 .. Latest(s) : IsOpen(s, n)' => IsOpen(s, n)
<1>1. Latest(s) \in Nat /\ DOMAIN attempt[s] = 1 .. Latest(s)
  BY AttemptDomain
<1>2. CASE attempt' = attempt
  BY <1>2 DEF Latest, IsOpen
<1>3. ASSUME NEW u \in Students, NEW k \in DOMAIN attempt[u], OnlyRow(u, k),
             attempt'[u][k].status = "IN_PROGRESS" => attempt[u][k].status = "IN_PROGRESS"
      PROVE  /\ Latest(s)' = Latest(s)
             /\ \A n \in 0 .. Latest(s) : IsOpen(s, n)' => IsOpen(s, n)
  <2>1. Latest(s)' = Latest(s) /\ DOMAIN attempt'[s] = DOMAIN attempt[s]
    BY <1>3 DEF OnlyRow, Latest
  <2>2. \A n \in DOMAIN attempt[s] :
           attempt'[s][n].status = "IN_PROGRESS" => attempt[s][n].status = "IN_PROGRESS"
    BY <1>3 DEF OnlyRow
  <2> QED
    BY <2>1, <2>2 DEF IsOpen
<1>4. CASE \E q \in Starts : StartCreate(q)
  <2>1. PICK q \in Starts : StartCreate(q)
    BY <1>4
  <2>2. PICK u : u = starting[q].student
    OBVIOUS
  <2>3. u \in Students /\ OneMore(u)
    BY <2>1, <2>2, StartCreateEffect
  <2>4. Latest(s)' \in {Latest(s), Latest(s) + 1}
    BY <2>3, CreatedDomain DEF OneMore, Latest
  <2>5. \A n \in 0 .. Latest(s) : IsOpen(s, n)' => IsOpen(s, n)
    <3> SUFFICES ASSUME NEW n \in 0 .. Latest(s), IsOpen(s, n)' PROVE IsOpen(s, n)
      OBVIOUS
    <3>1. n \in DOMAIN attempt'[s] /\ attempt'[s][n].status = "IN_PROGRESS"
      BY DEF IsOpen
    <3>2. n \in DOMAIN attempt[s]
      <4>1. CASE u = s
        BY <1>1, <2>3, <3>1, <4>1, CreatedDomain
      <4>2. CASE u /= s
        BY <2>3, <3>1, <4>2 DEF OneMore
      <4> QED
        BY <4>1, <4>2
    <3> QED
      BY <2>3, <3>1, <3>2 DEF OneMore, IsOpen
  <2> QED
    BY <2>4, <2>5
<1>5. CASE \E t \in Teachers : GradeWrite(t)
  <2>1. PICK t \in Teachers : GradeWrite(t)
    BY <1>5
  <2>2. PICK u, k : u = request[t].student /\ k = request[t].number
    OBVIOUS
  <2>3. /\ u \in Students /\ k \in DOMAIN attempt[u] /\ OnlyRow(u, k)
        /\ attempt'[u][k].status /= "IN_PROGRESS"
    BY <2>1, <2>2, GradeWriteRow
  <2> QED
    BY <1>3, <2>3
<1>6. CASE \E u \in Students : \E k \in DOMAIN attempt[u] : RowStep(u, k)
  BY <1>3, <1>6, RowStepEffect
<1> QED
  BY <1>2, <1>4, <1>5, <1>6, StepKinds, StudentsSideFrame, TeachersSideFrame DEF vars, sittingVars

LEMMA StartsReadEndedStep ==
  ASSUME TypeOK, TypeOK', MarkingExcludesRelease, StartsReadEnded, [Next]_vars
  PROVE  StartsReadEnded'
<1>1. ASSUME NEW s \in Students, NEW from \in 0 .. Latest(s), ~IsOpen(s, from)
      PROVE  from \in 0 .. Latest(s)' /\ ~IsOpen(s, from)'
  <2>1. Latest(s) \in Nat
    BY AttemptDomain
  <2> QED
    BY <1>1, <2>1, NoReopening
<1>2. \A q \in DOMAIN starting : starting[q].student \in Students
  BY DEF TypeOK, StartRows
<1>3. CASE \E q \in Starts : \E s \in Students : StartRead(q, s)
  <2>1. PICK q \in Starts, s \in Students : StartRead(q, s)
    BY <1>3
  <2>2. Latest(s) \in 0 .. Latest(s) /\ ~IsOpen(s, Latest(s))
    BY <2>1, AttemptDomain DEF StartRead
  <2>3. /\ starting'[q] = [student |-> s, from |-> Latest(s)]
        /\ \A p \in DOMAIN starting' : p /= q => p \in DOMAIN starting /\ starting'[p] = starting[p]
    BY <2>1 DEF StartRead, With
  <2>4. ASSUME NEW p \in DOMAIN starting'
        PROVE  /\ starting'[p].student \in Students
               /\ starting'[p].from \in 0 .. Latest(starting'[p].student)
               /\ ~IsOpen(starting'[p].student, starting'[p].from)
    BY <1>2, <2>2, <2>3 DEF StartsReadEnded
  <2> QED
    BY <1>1, <2>4 DEF StartsReadEnded
<1>4. ASSUME DOMAIN starting' \subseteq DOMAIN starting,
             \A q \in DOMAIN starting' : starting'[q] = starting[q]
      PROVE  StartsReadEnded'
  <2>1. \A p \in DOMAIN starting' :
            /\ starting'[p].student \in Students
            /\ starting'[p].from \in 0 .. Latest(starting'[p].student)
            /\ ~IsOpen(starting'[p].student, starting'[p].from)
    BY <1>2, <1>4 DEF StartsReadEnded
  <2> QED
    BY <1>1, <2>1 DEF StartsReadEnded
<1>5. CASE UNCHANGED starting
  BY <1>4, <1>5
<1>6. CASE \E q \in Starts : StartEnds(q) \/ StartCreate(q)
  BY <1>4, <1>6 DEF StartEnds, StartCreate, Without
<1>7. StudentsSide => \/ UNCHANGED starting
                      \/ \E q \in Starts : StartEnds(q)
                      \/ \E q \in Starts : \E s \in Students : StartRead(q, s)
  BY DEF StudentsSide, ResumeLate, GrantRetake, FinalizeEnds
<1> QED
  BY <1>3, <1>5, <1>6, <1>7, StepKinds, TeachersSideFrame, GradeWriteFrame, RowStepFrame
     DEF vars, sittingVars

\* Only an attempt whose predecessor is over can be created.
LEMMA OneSittingStep ==
  ASSUME TypeOK, TypeOK', MarkingExcludesRelease, StartsReadEnded, OneSitting, [Next]_vars
  PROVE  OneSitting'
<1> SUFFICES ASSUME NEW s \in Students, NEW n \in DOMAIN attempt'[s],
                    attempt'[s][n].status = "IN_PROGRESS"
             PROVE  n = Latest(s)'
  BY DEF OneSitting
<1>1. Latest(s) \in Nat /\ DOMAIN attempt[s] = 1 .. Latest(s)
  BY AttemptDomain
<1>2. Latest(s)' \in Nat /\ DOMAIN attempt'[s] = 1 .. Latest(s)'
  <2>1. attempt'[s] \in Seq(AttemptRows)
    BY DEF TypeOK
  <2> QED
    BY <2>1, LenProperties DEF Latest
<1>3. n = Latest(s) + 1 \/ n \in DOMAIN attempt[s]
  BY <1>1, <1>2, NoReopening
<1>4. CASE n \in DOMAIN attempt[s]
  <2>1. IsOpen(s, n)' /\ n \in 0 .. Latest(s)
    BY <1>1, <1>4 DEF IsOpen
  <2>2. IsOpen(s, n)
    BY <2>1, NoReopening
  <2>3. n = Latest(s)
    BY <2>2 DEF IsOpen, OneSitting
  <2>4. CASE Latest(s)' = Latest(s)
    BY <2>3, <2>4
  <2>5. CASE Latest(s)' /= Latest(s)
    <3>1. \E q \in Starts : StartCreate(q)
      <4>1. \A u \in Students : \A k \in DOMAIN attempt[u] : OnlyRow(u, k) => Latest(s)' = Latest(s)
        BY DEF OnlyRow, Latest
      <4>2. \A u \in Students : \A k \in DOMAIN attempt[u] : ~RowStep(u, k)
        BY <2>5, <4>1, RowStepEffect
      <4>3. \A t \in Teachers : ~GradeWrite(t)
        BY <2>5, <4>1, GradeWriteRow
      <4>4. attempt' /= attempt
        BY <2>5 DEF Latest
      <4> QED
        BY <4>2, <4>3, <4>4, StepKinds, StudentsSideFrame, TeachersSideFrame DEF vars, sittingVars
    <3>2. PICK q \in Starts : StartCreate(q)
      BY <3>1
    <3>3. PICK u : u = starting[q].student
      OBVIOUS
    <3>4. q \in DOMAIN starting /\ u \in Students /\ OneMore(u)
      BY <3>2, <3>3, StartCreateEffect
    <3>5. u = s
      BY <2>5, <3>4 DEF OneMore, Latest
    <3>6. starting[q].from = Latest(s) /\ ~IsOpen(s, starting[q].from)
      BY <3>2, <3>3, <3>4, <3>5 DEF StartsReadEnded, StartCreate, MayCreate
    <3> QED
      BY <2>2, <2>3, <3>6
  <2> QED
    BY <2>4, <2>5
<1>5. CASE n = Latest(s) + 1
  BY <1>1, <1>2, <1>5, NoReopening
<1> QED
  BY <1>3, <1>4, <1>5

\* A retake is spent by the attempt it allows, and by nothing else.
RetakesBalance(s) == granted[s] = Further(s) + (IF s \in armed THEN 1 ELSE 0)

LEMMA RetakesStep ==
  ASSUME TypeOK, TypeOK', MarkingExcludesRelease, RetakesAreSpentOnce, [Next]_vars
  PROVE  RetakesAreSpentOnce'
<1> SUFFICES ASSUME NEW s \in Students PROVE RetakesBalance(s)'
  BY DEF RetakesAreSpentOnce, RetakesBalance
<1>1. Latest(s) \in Nat /\ granted[s] \in Nat
  BY AttemptDomain DEF TypeOK
<1>2. RetakesBalance(s)
  BY DEF RetakesAreSpentOnce, RetakesBalance
<1>3. ASSUME UNCHANGED <<armed, granted>>, Latest(s)' = Latest(s)
      PROVE  RetakesBalance(s)'
  BY <1>2, <1>3 DEF RetakesBalance, Further
<1>4. ASSUME NEW u \in Students, GrantRetake(u)
      PROVE  RetakesBalance(s)'
  <2>1. Latest(s)' = Latest(s)
    BY <1>4 DEF GrantRetake, Latest
  <2>2. CASE u = s
    <3>1. granted'[s] = granted[s] + 1 /\ s \notin armed /\ s \in armed'
      BY <1>4, <2>2 DEF GrantRetake, TypeOK
    <3> QED
      BY <1>1, <1>2, <2>1, <3>1 DEF RetakesBalance, Further
  <2>3. CASE u /= s
    <3>1. granted'[s] = granted[s] /\ (s \in armed' <=> s \in armed)
      BY <1>4, <2>3 DEF GrantRetake, TypeOK
    <3> QED
      BY <1>2, <2>1, <3>1 DEF RetakesBalance, Further
  <2> QED
    BY <2>2, <2>3
<1>5. ASSUME NEW q \in Starts, StartCreate(q)
      PROVE  RetakesBalance(s)'
  <2>1. PICK u, from : u = starting[q].student /\ from = starting[q].from
    OBVIOUS
  <2>2. q \in DOMAIN starting /\ u \in Students /\ OneMore(u)
    BY <1>5, <2>1, StartCreateEffect
  <2>3. /\ granted' = granted /\ armed' = IF from > 0 THEN armed \ {u} ELSE armed
        /\ Latest(u) = from /\ (from > 0 => u \in armed)
    BY <1>5, <2>1 DEF StartCreate, MayCreate
  <2>4. CASE u = s
    <3>1. Latest(s)' = Latest(s) + 1
      BY <2>2, <2>4, CreatedDomain
    <3>2. CASE from = 0
      <4>1. Latest(s) = 0 /\ Latest(s)' = 1 /\ (s \in armed' <=> s \in armed)
        BY <2>3, <2>4, <3>1, <3>2
      <4> QED
        BY <1>2, <2>3, <4>1 DEF RetakesBalance, Further
    <3>3. CASE from > 0
      <4>1. Latest(s) > 0 /\ s \in armed /\ s \notin armed'
        BY <2>3, <2>4, <3>3
      <4> QED
        BY <1>1, <1>2, <2>3, <3>1, <4>1 DEF RetakesBalance, Further
    <3> QED
      BY <1>1, <2>3, <2>4, <3>2, <3>3
  <2>5. CASE u /= s
    <3>1. Latest(s)' = Latest(s) /\ (s \in armed' <=> s \in armed)
      BY <2>2, <2>3, <2>5 DEF OneMore, Latest
    <3> QED
      BY <1>2, <2>3, <3>1 DEF RetakesBalance, Further
  <2> QED
    BY <2>4, <2>5
<1>6. StudentsSide => \/ UNCHANGED <<attempt, armed, granted>>
                      \/ \E u \in Students : GrantRetake(u)
  BY DEF StudentsSide, ResumeLate, FinalizeEnds, StartEnds, StartRead
<1>7. UNCHANGED attempt => Latest(s)' = Latest(s)
  BY DEF Latest
<1>8. \A u \in Students : \A k \in DOMAIN attempt[u] : OnlyRow(u, k) => Latest(s)' = Latest(s)
  BY DEF OnlyRow, Latest
<1>9. ASSUME NEW t \in Teachers, GradeWrite(t) PROVE UNCHANGED <<armed, granted>> /\ Latest(s)' = Latest(s)
  BY <1>8, <1>9, GradeWriteRow, GradeWriteFrame
<1>10. ASSUME NEW u \in Students, NEW k \in DOMAIN attempt[u], RowStep(u, k)
       PROVE  UNCHANGED <<armed, granted>> /\ Latest(s)' = Latest(s)
  BY <1>8, <1>10, RowStepEffect, RowStepFrame
<1> QED
  BY <1>3, <1>4, <1>5, <1>6, <1>7, <1>9, <1>10, StepKinds, TeachersSideFrame DEF vars, sittingVars

-----------------------------------------------------------------------------
(* Teachers: marking, closing and releasing. *)

\* What a step can do to the requests and the exam.
LEMMA RequestKinds ==
  ASSUME TypeOK, MarkingExcludesRelease, [Next]_vars
  PROVE  \/ UNCHANGED <<request, exam, published>>
         \/ \E t \in Teachers, q \in ExamRequests :
              /\ RequestAdded(t, q)
              /\ q.op = "RELEASE" => exam.status = "CLOSED"
              /\ UNCHANGED <<exam, published, attempt, starting>>
         \/ \E t \in Teachers, s \in Students : \E n \in DOMAIN attempt[s], e \in Essays,
              mark \in 0 .. EssayMarks : GradeClaim(t, s, n, e, mark)
         \/ \E t \in Teachers : RequestOver(t) /\ (Close(t) \/ Release(t) \/ Hide(t))
         \/ \E t \in Teachers : RequestOver(t) /\ UNCHANGED <<exam, published>>
<1>1. ASSUME NEW t \in Teachers, StartClose(t) \/ StartRelease(t) \/ StartHide(t)
      PROVE  \E q \in ExamRequests :
                /\ RequestAdded(t, q)
                /\ q.op = "RELEASE" => exam.status = "CLOSED"
                /\ UNCHANGED <<exam, published, attempt, starting>>
  <2>1. \A op \in {"CLOSE", "RELEASE", "HIDE"} :
           [op |-> op, fresh |-> TRUE] \in ExamRequests /\ [op |-> op, fresh |-> TRUE].op = op
    BY DEF ExamRequests
  <2>2. CASE StartClose(t)
    <3>1. RequestAdded(t, [op |-> "CLOSE", fresh |-> TRUE])
      BY <2>2 DEF StartClose, RequestAdded
    <3> QED
      BY <2>1, <2>2, <3>1 DEF StartClose, sittingVars
  <2>3. CASE StartRelease(t)
    <3>1. RequestAdded(t, [op |-> "RELEASE", fresh |-> TRUE])
      BY <2>3 DEF StartRelease, RequestAdded
    <3> QED
      BY <2>1, <2>3, <3>1 DEF StartRelease, sittingVars
  <2>4. CASE StartHide(t)
    <3>1. RequestAdded(t, [op |-> "HIDE", fresh |-> TRUE])
      BY <2>4 DEF StartHide, RequestAdded
    <3> QED
      BY <2>1, <2>4, <3>1 DEF StartHide, sittingVars
  <2> QED
    BY <1>1, <2>2, <2>3, <2>4
<1>2. \A t \in Teachers : Close(t) \/ Release(t) \/ Hide(t) => RequestOver(t)
  BY DEF Close, Release, Hide, RequestOver
<1>3. \A t \in Teachers : RequestEnds(t) => RequestOver(t) /\ UNCHANGED <<exam, published>>
  BY DEF RequestEnds, RequestOver
<1>4. \A t \in Teachers : GradeWrite(t) => RequestOver(t) /\ UNCHANGED <<exam, published>>
  BY GradeWriteFrame
<1>5. \A q \in Starts : StartCreate(q) => UNCHANGED <<request, exam, published>>
  BY StartCreateFrame
<1>6. \A s \in Students : \A n \in DOMAIN attempt[s] :
         RowStep(s, n) => UNCHANGED <<request, exam, published>>
  BY RowStepFrame
<1>7. UNCHANGED vars \/ StudentsSide => UNCHANGED <<request, exam, published>>
  BY StudentsSideFrame DEF vars
<1> QED
  BY <1>1, <1>2, <1>3, <1>4, <1>5, <1>6, <1>7, StepKinds DEF TeachersSide

\* No attempt disappears.
LEMMA DomainGrows ==
  ASSUME TypeOK, TypeOK', MarkingExcludesRelease, [Next]_vars,
         NEW s \in Students, NEW n \in DOMAIN attempt[s]
  PROVE  n \in DOMAIN attempt'[s]
<1>1. Latest(s) \in Nat /\ DOMAIN attempt[s] = 1 .. Latest(s)
  BY AttemptDomain
<1>2. DOMAIN attempt'[s] = 1 .. Latest(s)'
  <2>1. attempt'[s] \in Seq(AttemptRows)
    BY DEF TypeOK
  <2> QED
    BY <2>1, LenProperties DEF Latest
<1> QED
  BY <1>1, <1>2, NoReopening

LEMMA MarkingStep ==
  ASSUME TypeOK, TypeOK', MarkingExcludesRelease, [Next]_vars
  PROVE  MarkingExcludesRelease'
<1>1. ASSUME NEW q \in ExamRequests \cup GradeRequests, q.op = "GRADE",
             q.number \in DOMAIN attempt[q.student]
      PROVE  q.number \in DOMAIN attempt'[q.student]
  BY <1>1, GradeRequestType, DomainGrows
<1>2. \A t \in DOMAIN request : request[t] \in ExamRequests \cup GradeRequests
  BY DEF TypeOK
<1>3. \A t \in DOMAIN request : request[t].op = "GRADE" =>
         ~exam.released /\ request[t].number \in DOMAIN attempt'[request[t].student]
  BY <1>1, <1>2 DEF MarkingExcludesRelease
<1>4. CASE UNCHANGED <<request, exam>>
  BY <1>3, <1>4 DEF MarkingExcludesRelease
<1>5. ASSUME NEW t \in Teachers, NEW q \in ExamRequests, RequestAdded(t, q), UNCHANGED exam
      PROVE  MarkingExcludesRelease'
  <2>1. q.op /= "GRADE"
    BY DEF ExamRequests
  <2> QED
    BY <1>3, <1>5, <2>1 DEF RequestAdded, With, MarkingExcludesRelease
<1>6. ASSUME NEW t \in Teachers, NEW s \in Students, NEW n \in DOMAIN attempt[s], NEW e \in Essays,
             NEW mark \in 0 .. EssayMarks, GradeClaim(t, s, n, e, mark)
      PROVE  MarkingExcludesRelease'
  <2>1. PICK q : q = [op |-> "GRADE", student |-> s, number |-> n,
                      marks |-> [attempt[s][n].marks EXCEPT ![e] = mark], auto |-> attempt[s][n].auto]
    OBVIOUS
  <2>2. /\ RequestAdded(t, q) /\ ~exam.released
        /\ UNCHANGED <<exam, attempt>>
        /\ q.student = s /\ q.number = n
    BY <1>6, <2>1, GradeClaimEffect
  <2>3. n \in DOMAIN attempt'[s]
    BY <2>2
  <2> QED
    BY <1>3, <2>2, <2>3 DEF RequestAdded, With, MarkingExcludesRelease
<1>7. ASSUME NEW t \in Teachers, RequestOver(t),
             exam'.released => exam.released \/ ~ExamLocked
      PROVE  MarkingExcludesRelease'
  <2>1. /\ DOMAIN request' \subseteq DOMAIN request
        /\ \A u \in DOMAIN request' :
             /\ request'[u].op = request[u].op
             /\ request[u].op = "GRADE" => request'[u] = request[u]
    BY <1>7, RequestTable
  <2> QED
    BY <1>3, <1>7, <2>1 DEF MarkingExcludesRelease, ExamLocked
<1>8. \A t \in Teachers : Close(t) \/ Release(t) \/ Hide(t) =>
                             (exam'.released => exam.released \/ ~ExamLocked)
  BY DEF Close, Release, Hide, Claims, TypeOK, Exams
<1> QED
  BY <1>4, <1>5, <1>6, <1>7, <1>8, RequestKinds

LEMMA NothingPublishedStep ==
  ASSUME TypeOK, TypeOK', MarkingExcludesRelease, NothingPublishedUnlessReleased, [Next]_vars
  PROVE  NothingPublishedUnlessReleased'
<1>1. CASE UNCHANGED <<exam, published>>
  BY <1>1 DEF NothingPublishedUnlessReleased
<1>2. ASSUME NEW t \in Teachers, Close(t) \/ Release(t) \/ Hide(t)
      PROVE  NothingPublishedUnlessReleased'
  BY <1>2 DEF Close, Release, Hide, NoRows, NothingPublishedUnlessReleased, TypeOK, Exams
<1>3. \A t \in Teachers, s \in Students : \A n \in DOMAIN attempt[s], e \in Essays,
         mark \in 0 .. EssayMarks : GradeClaim(t, s, n, e, mark) => UNCHANGED <<exam, published>>
  BY DEF GradeClaim
<1> QED
  BY <1>1, <1>2, <1>3, RequestKinds

\* An attempt that is over is written by the marking of its essays only.
LEMMA EndedRowsKept ==
  ASSUME TypeOK, MarkingExcludesRelease, [Next]_vars, exam.released \/ exam'.released,
         NEW s \in Students, NEW n \in DOMAIN attempt[s], attempt[s][n].status /= "IN_PROGRESS"
  PROVE  attempt'[s][n] = attempt[s][n]
<1>1. CASE UNCHANGED attempt
  BY <1>1
<1>2. ASSUME NEW q \in Starts, StartCreate(q) PROVE attempt'[s][n] = attempt[s][n]
  BY <1>2, StartCreateEffect DEF OneMore
<1>3. ASSUME NEW u \in Students, NEW k \in DOMAIN attempt[u], RowStep(u, k)
      PROVE  attempt'[s][n] = attempt[s][n]
  BY <1>3, RowStepEffect DEF OnlyRow
<1>4. ASSUME NEW t \in Teachers PROVE ~GradeWrite(t)
  BY GradeWriteRow, GradeWriteFrame
<1> QED
  BY <1>1, <1>2, <1>3, <1>4, StepKinds, StudentsSideFrame, TeachersSideFrame DEF vars, sittingVars

\* A score is released with its exam, and nothing marks a released exam.
LEMMA PublishedScoresStep ==
  ASSUME TypeOK, TypeOK', MarkingExcludesRelease, NothingPublishedUnlessReleased,
         PublishedScoresStand, [Next]_vars
  PROVE  PublishedScoresStand'
<1>1. CASE UNCHANGED published
  <2> SUFFICES ASSUME NEW s \in DOMAIN published
               PROVE  /\ published[s].number \in DOMAIN attempt'[s]
                      /\ attempt'[s][published[s].number].status = "GRADED"
                      /\ attempt'[s][published[s].number].total = published[s].total
    BY <1>1 DEF PublishedScoresStand
  <2>1. exam.released /\ s \in Students
    BY DEF NothingPublishedUnlessReleased, TypeOK, Exams
  <2>2. PICK n : n = published[s].number
    OBVIOUS
  <2>3. /\ n \in DOMAIN attempt[s]
        /\ attempt[s][n].status = "GRADED" /\ attempt[s][n].total = published[s].total
    BY <2>2 DEF PublishedScoresStand
  <2>4. attempt'[s][n] = attempt[s][n]
    BY <2>1, <2>3, EndedRowsKept
  <2>5. n \in DOMAIN attempt'[s]
    BY <2>1, <2>3, DomainGrows
  <2> QED
    BY <2>2, <2>3, <2>4, <2>5
<1>2. ASSUME NEW t \in Teachers, Release(t) PROVE PublishedScoresStand'
  <2>1. /\ AllGraded /\ attempt' = attempt
        /\ published' = [s \in Sat |-> [number |-> Latest(s), total |-> attempt[s][Latest(s)].total]]
    BY <1>2 DEF Release, MayRelease, sittingVars
  <2>2. ASSUME NEW s \in Sat
        PROVE  Latest(s) \in DOMAIN attempt[s] /\ attempt[s][Latest(s)].status = "GRADED"
    <3>1. s \in Students /\ attempt[s] /= <<>>
      BY DEF Sat
    <3>2. Latest(s) \in DOMAIN attempt[s]
      BY <3>1, AttemptDomain, EmptySeq DEF Latest
    <3> QED
      BY <2>1, <3>1, <3>2 DEF AllGraded
  <2> QED
    BY <2>1, <2>2 DEF PublishedScoresStand
<1>3. ASSUME NEW t \in Teachers, Hide(t) PROVE PublishedScoresStand'
  BY <1>3 DEF Hide, NoRows, PublishedScoresStand
<1>4. \A t \in Teachers : Close(t) => UNCHANGED published
  BY DEF Close
<1>5. \A t \in Teachers, s \in Students : \A n \in DOMAIN attempt[s], e \in Essays,
         mark \in 0 .. EssayMarks : GradeClaim(t, s, n, e, mark) => UNCHANGED published
  BY DEF GradeClaim
<1> QED
  BY <1>1, <1>2, <1>3, <1>4, <1>5, RequestKinds

\* When only submitted attempts are marked, what a marking has read is still
\* so when it writes, and open attempts stay unmarked.
LEMMA MarksFollowSubmissionStep ==
  ASSUME TypeOK, TypeOK', MarkingExcludesRelease, MarksFollowSubmission, SubmittedOnly, [Next]_vars
  PROVE  MarksFollowSubmission'
<1>1. ASSUME NEW s \in Students, NEW n \in DOMAIN attempt[s], attempt[s][n].status /= "IN_PROGRESS"
      PROVE  /\ attempt'[s][n].status /= "IN_PROGRESS"
             /\ attempt'[s][n].auto = attempt[s][n].auto
  <2>1. CASE UNCHANGED attempt
    BY <1>1, <2>1
  <2>2. ASSUME NEW q \in Starts, StartCreate(q) PROVE attempt'[s][n] = attempt[s][n]
    BY <2>2, StartCreateEffect DEF OneMore
  <2>3. ASSUME NEW u \in Students, NEW k \in DOMAIN attempt[u], RowStep(u, k)
        PROVE  attempt'[s][n] = attempt[s][n]
    BY <1>1, <2>3, RowStepEffect DEF OnlyRow
  <2>4. ASSUME NEW t \in Teachers, GradeWrite(t)
        PROVE  /\ attempt'[s][n].status /= "IN_PROGRESS"
               /\ attempt'[s][n].auto = attempt[s][n].auto
    <3>1. PICK u, k : u = request[t].student /\ k = request[t].number
      OBVIOUS
    <3>2. /\ u \in Students /\ k \in DOMAIN attempt[u] /\ OnlyRow(u, k)
          /\ attempt'[u][k].status /= "IN_PROGRESS"
          /\ attempt'[u][k].auto = attempt[u][k].auto
      BY <2>4, <3>1, GradeWriteRow
    <3> QED
      BY <1>1, <3>2 DEF OnlyRow
  <2> QED
    BY <1>1, <2>1, <2>2, <2>3, <2>4, StepKinds, StudentsSideFrame, TeachersSideFrame
       DEF vars, sittingVars
<1>2. ASSUME NEW t \in DOMAIN request, request[t].op = "GRADE"
      PROVE  LET row == attempt'[request[t].student][request[t].number]
             IN  row.status /= "IN_PROGRESS" /\ row.auto = request[t].auto
  <2>1. request[t].student \in Students
    BY <1>2, GradeRequestType DEF TypeOK
  <2>2. request[t].number \in DOMAIN attempt[request[t].student]
    BY <1>2 DEF MarkingExcludesRelease
  <2>3. LET row == attempt[request[t].student][request[t].number]
        IN  row.status /= "IN_PROGRESS" /\ row.auto = request[t].auto
    BY <1>2 DEF MarksFollowSubmission
  <2> QED
    BY <1>1, <2>1, <2>2, <2>3
<1>3. ASSUME NEW t \in DOMAIN request', request'[t].op = "GRADE"
      PROVE  LET row == attempt'[request'[t].student][request'[t].number]
             IN  row.status /= "IN_PROGRESS" /\ row.auto = request'[t].auto
  <2>1. CASE UNCHANGED request
    BY <1>2, <1>3, <2>1
  <2>2. ASSUME NEW v \in Teachers, NEW q \in ExamRequests, RequestAdded(v, q)
        PROVE  t \in DOMAIN request /\ request'[t] = request[t]
    <3>1. q.op /= "GRADE"
      BY DEF ExamRequests
    <3> QED
      BY <1>3, <2>2, <3>1 DEF RequestAdded, With
  <2>3. ASSUME NEW v \in Teachers, NEW s \in Students, NEW n \in DOMAIN attempt[s],
               NEW e \in Essays, NEW mark \in 0 .. EssayMarks, GradeClaim(v, s, n, e, mark)
        PROVE  LET row == attempt'[request'[t].student][request'[t].number]
               IN  row.status /= "IN_PROGRESS" /\ row.auto = request'[t].auto
    <3>1. PICK q : q = [op |-> "GRADE", student |-> s, number |-> n,
                        marks |-> [attempt[s][n].marks EXCEPT ![e] = mark],
                        auto |-> attempt[s][n].auto]
      OBVIOUS
    <3>2. /\ RequestAdded(v, q) /\ HasAnswerRow(s, n) /\ UNCHANGED attempt
          /\ q.student = s /\ q.number = n /\ q.auto = attempt[s][n].auto
      BY <2>3, <3>1, GradeClaimEffect
    <3>3. attempt[s][n].status /= "IN_PROGRESS"
      BY <3>2 DEF HasAnswerRow
    <3>4. CASE t = v
      BY <3>2, <3>3, <3>4 DEF RequestAdded, With
    <3>5. CASE t /= v
      <4>1. t \in DOMAIN request /\ request'[t] = request[t]
        BY <3>2, <3>5 DEF RequestAdded, With
      <4> QED
        BY <1>2, <1>3, <4>1
    <3> QED
      BY <3>4, <3>5
  <2>4. ASSUME NEW v \in Teachers, RequestOver(v)
        PROVE  t \in DOMAIN request /\ request'[t] = request[t]
    BY <1>3, <2>4, RequestTable
  <2> QED
    BY <1>2, <1>3, <2>1, <2>2, <2>3, <2>4, RequestKinds
<1>4. ASSUME NEW s \in Students, NEW n \in DOMAIN attempt'[s],
             attempt'[s][n].status = "IN_PROGRESS"
      PROVE  attempt'[s][n].essayScore = 0 /\ attempt'[s][n].marks = [e \in Essays |-> NoMark]
  <2>1. ASSUME n \in DOMAIN attempt[s]
        PROVE  /\ attempt[s][n].status = "IN_PROGRESS"
               /\ attempt[s][n].essayScore = 0 /\ attempt[s][n].marks = [e \in Essays |-> NoMark]
    BY <1>1, <1>4, <2>1 DEF MarksFollowSubmission
  <2>2. CASE UNCHANGED attempt
    BY <2>1, <2>2
  <2>3. ASSUME NEW q \in Starts, StartCreate(q)
        PROVE  attempt'[s][n].essayScore = 0 /\ attempt'[s][n].marks = [e \in Essays |-> NoMark]
    <3>1. PICK u : u = starting[q].student
      OBVIOUS
    <3>2. u \in Students /\ OneMore(u)
      BY <2>3, <3>1, StartCreateEffect
    <3>3. CASE n \in DOMAIN attempt[s]
      BY <2>1, <3>2, <3>3 DEF OneMore
    <3>4. CASE n \notin DOMAIN attempt[s]
      <4>1. u = s
        BY <3>2, <3>4 DEF OneMore
      <4>2. n = Latest(s) + 1
        BY <3>2, <3>4, <4>1, CreatedDomain
      <4>3. attempt'[s][n] = NewAttempt
        BY <3>2, <4>1, <4>2 DEF OneMore, Latest
      <4> QED
        BY <4>3 DEF NewAttempt
    <3> QED
      BY <3>3, <3>4
  <2>4. ASSUME NEW u \in Students, NEW k \in DOMAIN attempt[u], RowStep(u, k)
        PROVE  attempt'[s][n].essayScore = 0 /\ attempt'[s][n].marks = [e \in Essays |-> NoMark]
    <3>1. /\ OnlyRow(u, k)
          /\ attempt'[u][k].marks = attempt[u][k].marks
          /\ attempt'[u][k].essayScore = attempt[u][k].essayScore
      BY <2>4, RowStepEffect
    <3>2. n \in DOMAIN attempt[s]
      BY <3>1 DEF OnlyRow
    <3> QED
      BY <2>1, <3>1, <3>2 DEF OnlyRow
  <2>5. ASSUME NEW t \in Teachers, GradeWrite(t)
        PROVE  attempt'[s][n].essayScore = 0 /\ attempt'[s][n].marks = [e \in Essays |-> NoMark]
    <3>1. PICK u, k : u = request[t].student /\ k = request[t].number
      OBVIOUS
    <3>2. /\ u \in Students /\ k \in DOMAIN attempt[u] /\ OnlyRow(u, k)
          /\ attempt'[u][k].status /= "IN_PROGRESS"
      BY <2>5, <3>1, GradeWriteRow
    <3>3. n \in DOMAIN attempt[s] /\ attempt'[s][n] = attempt[s][n]
      BY <1>4, <3>2 DEF OnlyRow
    <3> QED
      BY <2>1, <3>3
  <2> QED
    BY <2>2, <2>3, <2>4, <2>5, StepKinds, StudentsSideFrame, TeachersSideFrame DEF vars, sittingVars
<1> QED
  BY <1>3, <1>4 DEF MarksFollowSubmission

\* Finalizing scores what is stored, and marking adds to what was finalized.
LEMMA ScoresMatchStep ==
  ASSUME TypeOK, TypeOK', MarkingExcludesRelease, MarksFollowSubmission, ScoresMatchAnswers,
         SubmittedOnly, [Next]_vars
  PROVE  ScoresMatchAnswers'
<1> DEFINE Match(row) == /\ row.auto = ObjectiveMarks[row.sheet]
                         /\ row.essayScore = EssayScore(row.marks)
                         /\ row.total = row.auto + row.essayScore
                         /\ row.status = "GRADED" <=> ~Pending(row.marks)
<1> SUFFICES ASSUME NEW s \in Students, NEW n \in DOMAIN attempt'[s],
                    attempt'[s][n].status /= "IN_PROGRESS"
             PROVE  Match(attempt'[s][n])
  BY DEF ScoresMatchAnswers
<1>1. ASSUME n \in DOMAIN attempt[s], attempt[s][n].status /= "IN_PROGRESS" PROVE Match(attempt[s][n])
  BY <1>1 DEF ScoresMatchAnswers
<1>2. ASSUME n \in DOMAIN attempt[s], attempt'[s][n] = attempt[s][n] PROVE Match(attempt'[s][n])
  BY <1>1, <1>2
<1>3. CASE UNCHANGED attempt
  BY <1>2, <1>3
<1>4. ASSUME NEW q \in Starts, StartCreate(q) PROVE Match(attempt'[s][n])
  <2>1. PICK u : u = starting[q].student
    OBVIOUS
  <2>2. u \in Students /\ OneMore(u)
    BY <1>4, <2>1, StartCreateEffect
  <2>3. n \in DOMAIN attempt[s]
    <3>1. CASE u = s
      <4>1. n = Latest(s) + 1 => attempt'[s][n] = NewAttempt
        BY <2>2, <3>1 DEF OneMore, Latest
      <4> QED
        BY <2>2, <3>1, <4>1, CreatedDomain DEF NewAttempt
    <3>2. CASE u /= s
      BY <2>2, <3>2 DEF OneMore
    <3> QED
      BY <3>1, <3>2
  <2> QED
    BY <1>2, <2>2, <2>3 DEF OneMore
<1>5. ASSUME NEW u \in Students, NEW k \in DOMAIN attempt[u], RowStep(u, k)
      PROVE  Match(attempt'[s][n])
  <2>1. OnlyRow(u, k)
    BY <1>5, RowStepEffect
  <2>2. CASE u = s /\ k = n
    <3>1. /\ attempt[s][n].status = "IN_PROGRESS"
          /\ attempt'[s][n].marks = attempt[s][n].marks
          /\ attempt'[s][n].essayScore = attempt[s][n].essayScore
          /\ attempt'[s][n].status = (IF Essays = {} THEN "GRADED" ELSE "SUBMITTED")
          /\ attempt'[s][n].auto = ObjectiveMarks[attempt'[s][n].sheet]
          /\ attempt'[s][n].total = attempt'[s][n].auto + attempt'[s][n].essayScore
      BY <1>5, <2>2, RowStepEffect
    <3>2. attempt[s][n].essayScore = 0 /\ attempt[s][n].marks = [e \in Essays |-> NoMark]
      BY <2>1, <2>2, <3>1 DEF MarksFollowSubmission
    <3>3. EssayScore(attempt'[s][n].marks) = 0 /\ (Pending(attempt'[s][n].marks) <=> Essays /= {})
      BY <3>1, <3>2, NothingMarked
    <3> QED
      BY <3>1, <3>2, <3>3
  <2>3. CASE u /= s \/ k /= n
    BY <1>2, <2>1, <2>3 DEF OnlyRow
  <2> QED
    BY <2>2, <2>3
<1>6. ASSUME NEW t \in Teachers, GradeWrite(t) PROVE Match(attempt'[s][n])
  <2>1. PICK u, k : u = request[t].student /\ k = request[t].number
    OBVIOUS
  <2>2. /\ u \in Students /\ k \in DOMAIN attempt[u] /\ OnlyRow(u, k)
        /\ t \in DOMAIN request /\ request[t].op = "GRADE"
        /\ attempt'[u][k].status = (IF Pending(request[t].marks) THEN "SUBMITTED" ELSE "GRADED")
        /\ attempt'[u][k].sheet = attempt[u][k].sheet
        /\ attempt'[u][k].auto = attempt[u][k].auto
        /\ attempt'[u][k].marks = request[t].marks
        /\ attempt'[u][k].essayScore = EssayScore(request[t].marks)
        /\ attempt'[u][k].total = request[t].auto + EssayScore(request[t].marks)
    BY <1>6, <2>1, GradeWriteRow
  <2>3. CASE u = s /\ k = n
    <3>1. attempt[s][n].status /= "IN_PROGRESS" /\ attempt[s][n].auto = request[t].auto
      <4>1. /\ attempt[request[t].student][request[t].number].status /= "IN_PROGRESS"
            /\ attempt[request[t].student][request[t].number].auto = request[t].auto
        BY <2>2 DEF MarksFollowSubmission
      <4>2. request[t].student = s /\ request[t].number = n
        BY <2>1, <2>3
      <4> QED
        BY <4>1, <4>2
    <3>2. attempt[s][n].auto = ObjectiveMarks[attempt[s][n].sheet]
      BY <1>1, <2>2, <2>3, <3>1
    <3> QED
      BY <2>2, <2>3, <3>1, <3>2
  <2>4. CASE u /= s \/ k /= n
    BY <1>2, <2>2, <2>4 DEF OnlyRow
  <2> QED
    BY <2>3, <2>4
<1> HIDE DEF Match
<1> QED
  BY <1>3, <1>4, <1>5, <1>6, StepKinds, StudentsSideFrame, TeachersSideFrame DEF vars, sittingVars

\* The exam stays closed, and no start is in progress once it is.
LEMMA ClosedForGoodStep ==
  ASSUME TypeOK, TypeOK', MarkingExcludesRelease, ClosedForGood, PromptStarts, [Next]_vars
  PROVE  ClosedForGood'
<1>1. ASSUME exam'.status = "CLOSED" PROVE DOMAIN starting' = {}
  <2>1. CASE UNCHANGED <<exam, starting>>
    BY <1>1, <2>1 DEF ClosedForGood
  <2>2. ASSUME NEW q \in Starts, NEW s \in Students, StartRead(q, s) PROVE FALSE
    BY <1>1, <2>2 DEF StartRead
  <2>3. ASSUME NEW q \in Starts, StartEnds(q) \/ StartCreate(q) PROVE DOMAIN starting' = {}
    BY <1>1, <2>3 DEF StartEnds, StartCreate, Without, ClosedForGood
  <2>4. ASSUME NEW t \in Teachers, TeachersSide(t) PROVE DOMAIN starting' = {}
    <3>1. starting' = starting
      BY <2>4, TeachersSideFrame
    <3>2. exam'.status = exam.status \/ Close(t)
      BY <2>4 DEF TeachersSide, StartClose, StartRelease, StartHide, Release, Hide, RequestEnds,
                  GradeClaim, TypeOK, Exams
    <3> QED
      BY <1>1, <3>1, <3>2 DEF Close, ClosedForGood
  <2>5. StudentsSide => \/ UNCHANGED <<exam, starting>>
                        \/ \E q \in Starts : StartEnds(q)
                        \/ \E q \in Starts : \E s \in Students : StartRead(q, s)
    BY DEF StudentsSide, ResumeLate, GrantRetake, FinalizeEnds
  <2> QED
    BY <2>1, <2>2, <2>3, <2>4, <2>5, StepKinds, GradeWriteFrame, RowStepFrame DEF vars, sittingVars
<1>2. exam.status = "CLOSED" => exam'.status = "CLOSED"
  <2>1. \A t \in Teachers : Close(t) \/ Release(t) \/ Hide(t) =>
                               (exam.status = "CLOSED" => exam'.status = "CLOSED")
    BY DEF Close, Release, Hide, TypeOK, Exams
  <2>2. \A t \in Teachers, s \in Students : \A n \in DOMAIN attempt[s], e \in Essays,
           mark \in 0 .. EssayMarks : GradeClaim(t, s, n, e, mark) => UNCHANGED exam
    BY DEF GradeClaim
  <2> QED
    BY <2>1, <2>2, RequestKinds
<1>3. ASSUME exam'.released PROVE exam'.status = "CLOSED"
  <2>1. exam.released => exam'.status = "CLOSED"
    BY <1>2 DEF ClosedForGood
  <2>2. ASSUME NEW t \in Teachers, Close(t) \/ Release(t) \/ Hide(t) PROVE exam.status = "CLOSED" \/ exam.released \/ ~exam'.released
    <3>1. Release(t) => exam.status = "CLOSED"
      BY DEF Release, Claims, Asks, ClosedForGood
    <3>2. Close(t) => exam'.released = exam.released
      BY DEF Close, TypeOK, Exams
    <3>3. Hide(t) => ~exam'.released
      BY DEF Hide, TypeOK, Exams
    <3> QED
      BY <2>2, <3>1, <3>2, <3>3
  <2>3. \A t \in Teachers, s \in Students : \A n \in DOMAIN attempt[s], e \in Essays,
           mark \in 0 .. EssayMarks : GradeClaim(t, s, n, e, mark) => UNCHANGED exam
    BY DEF GradeClaim
  <2> QED
    BY <1>2, <1>3, <2>1, <2>2, <2>3, RequestKinds
<1>4. ASSUME NEW t \in DOMAIN request', request'[t].op = "RELEASE" PROVE exam'.status = "CLOSED"
  <2>1. ASSUME t \in DOMAIN request, request[t].op = "RELEASE" PROVE exam'.status = "CLOSED"
    BY <1>2, <2>1 DEF ClosedForGood
  <2>2. CASE UNCHANGED request
    BY <1>4, <2>1, <2>2
  <2>3. ASSUME NEW v \in Teachers, NEW q \in ExamRequests, RequestAdded(v, q),
               q.op = "RELEASE" => exam.status = "CLOSED"
        PROVE  exam'.status = "CLOSED"
    BY <1>2, <1>4, <2>1, <2>3 DEF RequestAdded, With
  <2>4. ASSUME NEW v \in Teachers, NEW s \in Students, NEW n \in DOMAIN attempt[s],
               NEW e \in Essays, NEW mark \in 0 .. EssayMarks, GradeClaim(v, s, n, e, mark)
        PROVE  exam'.status = "CLOSED"
    <3>1. t \in DOMAIN request /\ request'[t] = request[t]
      BY <1>4, <2>4 DEF GradeClaim, With
    <3> QED
      BY <1>4, <2>1, <3>1
  <2>5. ASSUME NEW v \in Teachers, RequestOver(v) PROVE exam'.status = "CLOSED"
    <3>1. t \in DOMAIN request /\ request'[t].op = request[t].op
      BY <2>5, RequestTable
    <3> QED
      BY <1>4, <2>1, <3>1
  <2> QED
    BY <2>2, <2>3, <2>4, <2>5, RequestKinds
<1> QED
  BY <1>1, <1>3, <1>4 DEF ClosedForGood

\* What was complete when it was released stays complete.
LEMMA ReleasedIsCompleteStep ==
  ASSUME TypeOK, TypeOK', MarkingExcludesRelease, ClosedForGood, ReleasedIsComplete,
         PromptStarts, [Next]_vars
  PROVE  ReleasedIsComplete'
<1>1. ASSUME NEW t \in Teachers, Release(t) PROVE ReleasedIsComplete'
  <2>1. /\ AllGraded /\ attempt' = attempt
        /\ published' = [s \in Sat |-> [number |-> Latest(s), total |-> attempt[s][Latest(s)].total]]
    BY <1>1 DEF Release, MayRelease, sittingVars
  <2>2. AllGraded' /\ Sat' = Sat /\ \A s \in Students : Latest(s)' = Latest(s)
    BY <2>1 DEF AllGraded, Sat, Latest
  <2>3. \A s \in Sat : s \in DOMAIN published' /\ published'[s].number = Latest(s)
    BY <2>1
  <2>4. Sat \subseteq Students
    BY DEF Sat
  <2> QED
    BY <2>2, <2>3, <2>4 DEF ReleasedIsComplete
<1>2. ASSUME exam'.released => exam.released, UNCHANGED published
      PROVE  ReleasedIsComplete'
  <2> SUFFICES ASSUME exam'.released
               PROVE  /\ AllGraded'
                      /\ \A s \in Sat' : s \in DOMAIN published /\ published[s].number = Latest(s)'
    BY <1>2 DEF ReleasedIsComplete
  <2>1. exam.released /\ AllGraded
    BY <1>2 DEF ReleasedIsComplete
  <2>2. DOMAIN starting = {}
    BY <2>1 DEF ClosedForGood
  <2>3. \A s \in Students : Len(attempt'[s]) = Len(attempt[s]) /\ DOMAIN attempt'[s] = DOMAIN attempt[s]
    <3>1. \A q \in Starts : ~StartCreate(q)
      BY <2>2 DEF StartCreate
    <3>2. \A u \in Students : \A k \in DOMAIN attempt[u] : ~RowStep(u, k)
      BY <2>1, RowStepEffect DEF AllGraded
    <3>3. \A t \in Teachers : ~GradeWrite(t)
      BY <2>1, GradeWriteRow
    <3> QED
      BY <3>1, <3>2, <3>3, StepKinds, StudentsSideFrame, TeachersSideFrame DEF vars, sittingVars
  <2>4. \A s \in Students : \A n \in DOMAIN attempt[s] : attempt'[s][n] = attempt[s][n]
    BY <2>1, EndedRowsKept DEF AllGraded
  <2>5. AllGraded'
    BY <2>1, <2>3, <2>4 DEF AllGraded
  <2>6. \A s \in Sat' : s \in Sat /\ Latest(s)' = Latest(s)
    <3> SUFFICES ASSUME NEW s \in Students, attempt'[s] /= <<>>
                 PROVE  attempt[s] /= <<>> /\ Latest(s)' = Latest(s)
      BY DEF Sat
    <3>1. attempt[s] \in Seq(AttemptRows) /\ attempt'[s] \in Seq(AttemptRows)
      BY DEF TypeOK
    <3>2. Len(attempt'[s]) = Len(attempt[s])
      BY <2>3
    <3> QED
      BY <3>1, <3>2, EmptySeq DEF Latest
  <2> QED
    BY <2>1, <2>5, <2>6 DEF ReleasedIsComplete
<1>3. ASSUME NEW t \in Teachers, Hide(t) PROVE ReleasedIsComplete'
  BY <1>3 DEF Hide, TypeOK, Exams, ReleasedIsComplete
<1>4. \A t \in Teachers : Close(t) => (exam'.released => exam.released) /\ UNCHANGED published
  BY DEF Close, TypeOK, Exams
<1>5. \A t \in Teachers, s \in Students : \A n \in DOMAIN attempt[s], e \in Essays,
         mark \in 0 .. EssayMarks : GradeClaim(t, s, n, e, mark) => UNCHANGED <<exam, published>>
  BY DEF GradeClaim
<1> QED
  BY <1>1, <1>2, <1>3, <1>4, <1>5, RequestKinds

-----------------------------------------------------------------------------
(* The inductive invariant and what follows from it. *)

LEMMA InitIInv ==
  ASSUME Init PROVE IInv
<1>1. \A s \in Students : attempt[s] = <<>> /\ Latest(s) = 0 /\ DOMAIN attempt[s] = {}
  BY DEF Init, Latest
<1>2. DOMAIN starting = {} /\ DOMAIN request = {} /\ DOMAIN published = {} /\ ~exam.released
  BY DEF Init, NoRows
<1>3. TypeOK
  <2>1. <<>> \in Seq(AttemptRows)
    BY EmptySeq
  <2> QED
    BY <1>2, <2>1 DEF Init, TypeOK, Exams
<1>4. RetakesAreSpentOnce
  BY <1>1 DEF Init, RetakesAreSpentOnce, Further
<1>5. StartsReadEnded /\ OneSitting /\ MarkingExcludesRelease
  BY <1>1, <1>2 DEF StartsReadEnded, OneSitting, MarkingExcludesRelease
<1>6. NothingPublishedUnlessReleased /\ PublishedScoresStand
  BY <1>2 DEF NothingPublishedUnlessReleased, PublishedScoresStand
<1>7. MarksFollowSubmission /\ ScoresMatchAnswers
  BY <1>1, <1>2 DEF MarksFollowSubmission, ScoresMatchAnswers
<1>8. ClosedForGood /\ ReleasedIsComplete
  BY <1>2 DEF Init, ClosedForGood, ReleasedIsComplete
<1> QED
  BY <1>3, <1>4, <1>5, <1>6, <1>7, <1>8 DEF IInv

LEMMA IInvStep ==
  ASSUME IInv, [Next]_vars PROVE IInv'
<1>1. TypeOK /\ MarkingExcludesRelease
  BY DEF IInv
<1>2. TypeOK'
  BY <1>1, TypeStep
<1>3. StartsReadEnded' /\ OneSitting' /\ RetakesAreSpentOnce'
  BY <1>2, StartsReadEndedStep, OneSittingStep, RetakesStep DEF IInv
<1>4. MarkingExcludesRelease' /\ NothingPublishedUnlessReleased' /\ PublishedScoresStand'
  BY <1>2, MarkingStep, NothingPublishedStep, PublishedScoresStep DEF IInv
<1>5. SubmittedOnly => MarksFollowSubmission' /\ ScoresMatchAnswers'
  BY <1>2, MarksFollowSubmissionStep, ScoresMatchStep DEF IInv
<1>6. PromptStarts => ClosedForGood' /\ ReleasedIsComplete'
  BY <1>2, ClosedForGoodStep, ReleasedIsCompleteStep DEF IInv
<1> QED
  BY <1>2, <1>3, <1>4, <1>5, <1>6 DEF IInv

\* The invariant holds whatever races: the two flags only add to it.
THEOREM Invariance == Spec => []IInv
<1>1. Init => IInv
  BY InitIInv
<1>2. IInv /\ [Next]_vars => IInv'
  BY IInvStep
<1> QED
  BY <1>1, <1>2, PTL DEF Spec

\* Rows keep their types: no mark, score or attempt count goes below zero.
THEOREM TypeCorrect == Spec => []TypeOK
<1>1. IInv => TypeOK
  BY DEF IInv
<1> QED
  BY <1>1, Invariance, PTL

\* A student has one attempt open at most, the latest, however starts race.
THEOREM SittingsAreSingle == Spec => []OneSitting
<1>1. IInv => OneSitting
  BY DEF IInv
<1> QED
  BY <1>1, Invariance, PTL

\* Every retake that became available is unused, or is one attempt after the
\* first: however starts race or die, none buys two and none is burnt.
THEOREM RetakesSpent == Spec => []RetakesAreSpentOnce
<1>1. IInv => RetakesAreSpentOnce
  BY DEF IInv
<1> QED
  BY <1>1, Invariance, PTL

\* A released score is the score of the graded attempt it was taken from.
THEOREM ReleasedScoresStand == Spec => []PublishedScoresStand
<1>1. IInv => PublishedScoresStand
  BY DEF IInv
<1> QED
  BY <1>1, Invariance, PTL

\* If only submitted attempts are marked, scores are those of the answers.
THEOREM ScoresAreRight ==
  ASSUME SubmittedOnly PROVE Spec => []ScoresMatchAnswers
<1>1. IInv => ScoresMatchAnswers
  BY DEF IInv
<1> QED
  BY <1>1, Invariance, PTL

\* If no start is caught by a close, released results are complete.
THEOREM ReleasesAreComplete ==
  ASSUME PromptStarts PROVE Spec => []ReleasedIsComplete
<1>1. IInv => ReleasedIsComplete
  BY DEF IInv
<1> QED
  BY <1>1, Invariance, PTL

\* An older autosave never replaces a newer one, nor a submitted answer.
THEOREM SavesAreOrdered == Spec => NewestSaveWins
<1> DEFINE Ordered == \A s \in Students : \A n \in DOMAIN attempt[s] :
                        attempt'[s][n].sheet /= attempt[s][n].sheet =>
                            /\ attempt[s][n].status = "IN_PROGRESS"
                            /\ attempt'[s][n].seq > attempt[s][n].seq
<1>1. IInv /\ [Next]_vars => Ordered
  <2> SUFFICES ASSUME IInv, [Next]_vars, NEW s \in Students, NEW n \in DOMAIN attempt[s],
                      attempt'[s][n].sheet /= attempt[s][n].sheet
               PROVE  /\ attempt[s][n].status = "IN_PROGRESS"
                      /\ attempt'[s][n].seq > attempt[s][n].seq
    OBVIOUS
  <2>1. TypeOK /\ MarkingExcludesRelease
    BY DEF IInv
  <2>2. ~UNCHANGED attempt
    OBVIOUS
  <2>3. \A q \in Starts : ~StartCreate(q)
    BY <2>1, StartCreateEffect DEF OneMore
  <2>4. \A t \in Teachers : ~GradeWrite(t)
    <3> SUFFICES ASSUME NEW t \in Teachers, GradeWrite(t) PROVE FALSE
      OBVIOUS
    <3>1. PICK u, k : u = request[t].student /\ k = request[t].number
      OBVIOUS
    <3>2. OnlyRow(u, k) /\ attempt'[u][k].sheet = attempt[u][k].sheet
      BY <2>1, <3>1, GradeWriteRow
    <3> QED
      BY <3>2 DEF OnlyRow
  <2>5. PICK u \in Students : \E k \in DOMAIN attempt[u] : RowStep(u, k)
    BY <2>2, <2>3, <2>4, StepKinds, StudentsSideFrame, TeachersSideFrame DEF vars, sittingVars
  <2>6. PICK k \in DOMAIN attempt[u] : RowStep(u, k)
    BY <2>5
  <2>7. /\ OnlyRow(u, k) /\ attempt[u][k].status = "IN_PROGRESS"
        /\ attempt'[u][k].sheet /= attempt[u][k].sheet => attempt'[u][k].seq > attempt[u][k].seq
    BY <2>1, <2>6, RowStepEffect
  <2>8. u = s /\ k = n
    BY <2>7 DEF OnlyRow
  <2> QED
    BY <2>7, <2>8
<1>2. Spec => [][Ordered]_vars
  BY <1>1, Invariance, PTL DEF Spec
<1> QED
  BY <1>2 DEF NewestSaveWins
=============================================================================

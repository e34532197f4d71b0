----------------------- MODULE NotificationQueueProofs -----------------------
(***************************************************************************)
(* Proofs about the notification queue, for any jobs, dispatcher runs,     *)
(* administrators and limits of attempts.                                  *)
(***************************************************************************)
EXTENDS NotificationQueue, FiniteSetTheorems, TLAPS

-----------------------------------------------------------------------------
(* Rows. *)

LEMMA JobRowType ==
  ASSUME NEW row \in JobRows
  PROVE  row.status \in Statuses /\ row.due \in BOOLEAN /\ row.attempts \in Nat /\ row.max \in Nat \ {0}
BY DEF JobRows

LEMMA RunRowType ==
  ASSUME NEW row \in RunRows
  PROVE  /\ row.may \subseteq Jobs /\ row.cur \in Jobs \cup {None} /\ row.attempts \in Nat
         /\ row.max \in Nat /\ row.answer \in {"none", "ok", "error", "permanent"}
BY DEF RunRows

\* A job becomes due or not.
LEMMA JobRowDue ==
  ASSUME NEW row \in JobRows, NEW due \in BOOLEAN, NEW new, new = [row EXCEPT !.due = due]
  PROVE  /\ new \in JobRows /\ new.due = due
         /\ new.status = row.status /\ new.attempts = row.attempts /\ new.max = row.max
BY DEF JobRows

\* A job is cancelled.
LEMMA JobRowCancelled ==
  ASSUME NEW row \in JobRows, NEW new, new = [row EXCEPT !.status = "SKIPPED"]
  PROVE  /\ new \in JobRows /\ new.status = "SKIPPED"
         /\ new.due = row.due /\ new.attempts = row.attempts /\ new.max = row.max
BY DEF JobRows, Statuses

\* A run writes what came of an attempt.
EndedForm(row, status, n) == [[row EXCEPT !.status = status] EXCEPT !.attempts = n]
WaitForm(row, n) == [[row EXCEPT !.due = FALSE] EXCEPT !.attempts = n]
RetryForm(row, n) == [[[row EXCEPT !.status = "PENDING"] EXCEPT !.due = TRUE] EXCEPT !.max = n]

LEMMA JobRowEnded ==
  ASSUME NEW row \in JobRows, NEW status \in Statuses, NEW n \in Nat,
         NEW new, new = EndedForm(row, status, n)
  PROVE  /\ new \in JobRows /\ new.status = status /\ new.attempts = n
         /\ new.due = row.due /\ new.max = row.max
BY DEF JobRows, EndedForm

LEMMA JobRowWaits ==
  ASSUME NEW row \in JobRows, NEW n \in Nat, NEW new, new = WaitForm(row, n)
  PROVE  /\ new \in JobRows /\ ~new.due /\ new.attempts = n
         /\ new.status = row.status /\ new.max = row.max
BY DEF JobRows, WaitForm

LEMMA JobRowRetried ==
  ASSUME NEW row \in JobRows, NEW n \in Nat \ {0}, NEW new, new = RetryForm(row, n)
  PROVE  /\ new \in JobRows /\ new.status = "PENDING" /\ new.due /\ new.max = n
         /\ new.attempts = row.attempts
BY DEF JobRows, RetryForm, Statuses

\* Another writes nextAttemptAt of a job that the run might have claimed.
LEMMA RunRowLoses ==
  ASSUME NEW row \in RunRows, NEW j, NEW new, new = [row EXCEPT !.may = row.may \ {j}]
  PROVE  /\ new \in RunRows /\ new.may = row.may \ {j} /\ new.cur = row.cur
         /\ new.attempts = row.attempts /\ new.max = row.max /\ new.answer = row.answer
BY DEF RunRows

\* A run claims a job, is answered, and is done with it.
ClaimForm(row, j, n, m) == [[[row EXCEPT !.cur = j] EXCEPT !.attempts = n] EXCEPT !.max = m]
DoneForm(row) == [[row EXCEPT !.cur = None] EXCEPT !.answer = "none"]

LEMMA RunRowClaims ==
  ASSUME NEW row \in RunRows, NEW j \in Jobs, NEW n \in Nat, NEW m \in Nat,
         NEW new, new = ClaimForm(row, j, n, m)
  PROVE  /\ new \in RunRows /\ new.cur = j /\ new.attempts = n /\ new.max = m
         /\ new.may = row.may /\ new.answer = row.answer
BY DEF RunRows, ClaimForm

LEMMA RunRowDone ==
  ASSUME NEW row \in RunRows, NEW new, new = DoneForm(row)
  PROVE  /\ new \in RunRows /\ new.cur = None /\ new.answer = "none"
         /\ new.may = row.may /\ new.attempts = row.attempts /\ new.max = row.max
BY DEF RunRows, DoneForm

LEMMA RunRowAnswered ==
  ASSUME NEW row \in RunRows, NEW answer \in {"ok", "error", "permanent"},
         NEW new, new = [row EXCEPT !.answer = answer]
  PROVE  /\ new \in RunRows /\ new.answer = answer
         /\ new.may = row.may /\ new.cur = row.cur /\ new.attempts = row.attempts /\ new.max = row.max
BY DEF RunRows

-----------------------------------------------------------------------------
(* What the actions do to the runs.  All but one of them keep what they hold. *)

Keeps(v) ==
  /\ v \in DOMAIN run' <=> v \in DOMAIN run
  /\ v \in DOMAIN run =>
        /\ run'[v] \in RunRows
        /\ run'[v].may \subseteq run[v].may /\ run'[v].cur = run[v].cur
        /\ run'[v].attempts = run[v].attempts /\ run'[v].max = run[v].max
        /\ run'[v].answer = run[v].answer

LEMMA OutOfReachRuns ==
  ASSUME TypeOK, NEW j
  PROVE  /\ DOMAIN OutOfReach(j) = DOMAIN run
         /\ \A v \in DOMAIN run :
               /\ OutOfReach(j)[v] \in RunRows
               /\ OutOfReach(j)[v].may = run[v].may \ {j} /\ OutOfReach(j)[v].cur = run[v].cur
               /\ OutOfReach(j)[v].attempts = run[v].attempts /\ OutOfReach(j)[v].max = run[v].max
               /\ OutOfReach(j)[v].answer = run[v].answer
<1>1. \A v \in DOMAIN run : run[v] \in RunRows
  BY DEF TypeOK
<1>2. \A v \in DOMAIN run : OutOfReach(j)[v] = [run[v] EXCEPT !.may = run[v].may \ {j}]
  BY DEF OutOfReach
<1> QED
  BY <1>1, <1>2, RunRowLoses DEF OutOfReach

LEMMA ClaimRuns ==
  ASSUME TypeOK, NEW w, NEW j \in Jobs, Claim(w, j)
  PROVE  /\ w \in DOMAIN run /\ run[w].cur = None /\ j \in run[w].may /\ IsPending(j)
         /\ \A v \in DOMAIN run \cup DOMAIN run' : v /= w => Keeps(v)
         /\ \A v \in DOMAIN run' : j \notin run'[v].may
         /\ DOMAIN run' = DOMAIN run
         /\ run'[w] \in RunRows /\ run'[w].cur = j /\ run'[w].answer = run[w].answer
         /\ run'[w].attempts = job[j].attempts /\ run'[w].max = job[j].max
         /\ run'[w].may \subseteq run[w].may
<1>1. w \in DOMAIN run /\ run[w].cur = None /\ j \in run[w].may /\ IsPending(j)
  BY DEF Claim, MayClaim
<1>2. job[j].attempts \in Nat /\ job[j].max \in Nat
  BY <1>1, JobRowType DEF TypeOK, IsPending
<1>3. PICK reach : reach = OutOfReach(j)
  OBVIOUS
<1>4. /\ DOMAIN reach = DOMAIN run
      /\ \A v \in DOMAIN run :
               /\ reach[v] \in RunRows
               /\ reach[v].may = run[v].may \ {j} /\ reach[v].cur = run[v].cur
               /\ reach[v].attempts = run[v].attempts /\ reach[v].max = run[v].max
               /\ reach[v].answer = run[v].answer
  BY <1>3, OutOfReachRuns
<1>5. run' = [reach EXCEPT ![w].cur = j, ![w].attempts = job[j].attempts, ![w].max = job[j].max]
  BY <1>3 DEF Claim
<1>6. PICK n \in Nat, m \in Nat : n = job[j].attempts /\ m = job[j].max
  BY <1>2
<1>7. run' = [reach EXCEPT ![w] = ClaimForm(reach[w], j, n, m)]
  BY <1>1, <1>4, <1>5, <1>6 DEF ClaimForm
<1>8. PICK new : new = ClaimForm(reach[w], j, n, m)
  OBVIOUS
<1>9. /\ new \in RunRows /\ new.cur = j /\ new.attempts = n /\ new.max = m
      /\ new.may = run[w].may \ {j} /\ new.answer = run[w].answer
  BY <1>1, <1>4, <1>8, RunRowClaims
<1>10. run' = [reach EXCEPT ![w] = new]
  BY <1>7, <1>8
<1> QED
  BY <1>1, <1>4, <1>6, <1>9, <1>10 DEF Keeps

LEMMA FinishedRuns ==
  ASSUME TypeOK, NEW w \in DOMAIN run, NEW j, run' = Finished(w, j)
  PROVE  /\ \A v \in DOMAIN run \cup DOMAIN run' : v /= w => Keeps(v)
         /\ \A v \in DOMAIN run' : j \notin run'[v].may
         /\ DOMAIN run' = DOMAIN run
         /\ run'[w] \in RunRows /\ run'[w].cur = None /\ run'[w].answer = "none"
         /\ run'[w].may \subseteq run[w].may
<1>1. PICK reach : reach = OutOfReach(j)
  OBVIOUS
<1>2. /\ DOMAIN reach = DOMAIN run
      /\ \A v \in DOMAIN run :
               /\ reach[v] \in RunRows
               /\ reach[v].may = run[v].may \ {j} /\ reach[v].cur = run[v].cur
               /\ reach[v].attempts = run[v].attempts /\ reach[v].max = run[v].max
               /\ reach[v].answer = run[v].answer
  BY <1>1, OutOfReachRuns
<1>3. PICK new : new = DoneForm(reach[w])
  OBVIOUS
<1>4. /\ new \in RunRows /\ new.cur = None /\ new.answer = "none"
      /\ new.may = run[w].may \ {j}
  BY <1>2, <1>3, RunRowDone
<1>5. run' = [reach EXCEPT ![w] = new]
  BY <1>1, <1>2, <1>3 DEF Finished, DoneForm
<1> QED
  BY <1>2, <1>4, <1>5 DEF Keeps

LEMMA SendRuns ==
  ASSUME TypeOK, NEW w, NEW answer \in {"ok", "error", "permanent"}, NEW taken \in BOOLEAN,
         Send(w, answer, taken)
  PROVE  /\ w \in DOMAIN run /\ run[w].answer = "none"
         /\ run[w].cur \in Configured /\ run[w].cur \in DOMAIN job
         /\ \A v \in DOMAIN run \cup DOMAIN run' : v /= w => Keeps(v)
         /\ DOMAIN run' = DOMAIN run
         /\ run'[w] \in RunRows /\ run'[w].cur = run[w].cur /\ run'[w].answer = answer
         /\ run'[w].attempts = run[w].attempts /\ run'[w].max = run[w].max
         /\ run'[w].may = run[w].may
<1>1. w \in DOMAIN run /\ run[w].answer = "none" /\ run[w].cur \in Configured
  BY DEF Send, Answered, Sending
<1>2. \A v \in DOMAIN run : run[v] \in RunRows
  BY DEF TypeOK
<1>3. run[w].cur \in DOMAIN job
  BY <1>1, ConfiguredAssumption, NoneAssumption DEF TypeOK
<1>4. PICK new : new = [run[w] EXCEPT !.answer = answer]
  OBVIOUS
<1>5. /\ new \in RunRows /\ new.answer = answer
      /\ new.may = run[w].may /\ new.cur = run[w].cur
      /\ new.attempts = run[w].attempts /\ new.max = run[w].max
  BY <1>1, <1>2, <1>4, RunRowAnswered
<1>6. run' = [run EXCEPT ![w] = new]
  BY <1>4 DEF Send
<1> QED
  BY <1>1, <1>2, <1>3, <1>5, <1>6 DEF Keeps

\* A run ends or dies.
LEMMA GoneRuns ==
  ASSUME TypeOK, NEW w \in DOMAIN run, run' = Without(run, w)
  PROVE  /\ \A v \in DOMAIN run \cup DOMAIN run' : v /= w => Keeps(v)
         /\ DOMAIN run' = DOMAIN run \ {w}
<1>1. \A v \in DOMAIN run : run[v] \in RunRows
  BY DEF TypeOK
<1> QED
  BY <1>1 DEF Without, Keeps

LEMMA StartRuns ==
  ASSUME TypeOK, NEW w, StartRun(w)
  PROVE  /\ \A v \in DOMAIN run \cup DOMAIN run' : v /= w => Keeps(v)
         /\ w \notin DOMAIN run /\ DOMAIN run' = DOMAIN run \cup {w}
         /\ run'[w] \in RunRows /\ run'[w].cur = None /\ run'[w].answer = "none"
         /\ run'[w].may = {j \in Jobs : Due(j)}
<1>1. \A v \in DOMAIN run : run[v] \in RunRows
  BY DEF TypeOK
<1>2. PICK new \in RunRows :
         new = [may |-> {j \in Jobs : Due(j)}, cur |-> None, attempts |-> 0, max |-> 0, answer |-> "none"]
  BY DEF RunRows
<1>3. run' = With(run, w, new) /\ w \notin DOMAIN run
  BY <1>2 DEF StartRun
<1> QED
  BY <1>1, <1>2, <1>3 DEF With, Keeps

-----------------------------------------------------------------------------
(* What the actions do to the jobs. *)

JobKeeps(i) ==
  /\ i \in DOMAIN job' <=> i \in DOMAIN job
  /\ i \in DOMAIN job => job'[i] = job[i]

LEMMA ClaimJobs ==
  ASSUME TypeOK, NEW w, NEW j \in Jobs, Claim(w, j)
  PROVE  /\ DOMAIN job' = DOMAIN job /\ j \in DOMAIN job
         /\ \A i \in Jobs \ {j} : JobKeeps(i)
         /\ job'[j] \in JobRows /\ ~job'[j].due
         /\ job'[j].status = job[j].status /\ job'[j].attempts = job[j].attempts
         /\ job'[j].max = job[j].max
<1>1. j \in DOMAIN job /\ job[j] \in JobRows
  BY DEF Claim, MayClaim, IsPending, TypeOK
<1>2. PICK new : new = [job[j] EXCEPT !.due = FALSE]
  OBVIOUS
<1>3. job' = [job EXCEPT ![j] = new]
  BY <1>2 DEF Claim
<1> QED
  BY <1>1, <1>2, <1>3, JobRowDue DEF JobKeeps

\* The run w is done with its job.
Finish(w) == Skip(w) \/ RecordSent(w) \/ GiveUp(w) \/ BackOff(w)

LEMMA FinishEffect ==
  ASSUME TypeOK, NEW w, Finish(w), NEW j, j = run[w].cur
  PROVE  /\ w \in DOMAIN run /\ j \in DOMAIN job /\ run' = Finished(w, j)
         /\ DOMAIN job' = DOMAIN job
         /\ \A i \in Jobs \ {j} : JobKeeps(i)
         /\ job'[j] \in JobRows /\ job'[j].max = job[j].max
         /\ \/ /\ Skip(w) /\ run[w].answer = "none" /\ j \notin Configured
               /\ job'[j].status = "SKIPPED" /\ job'[j].attempts = job[j].attempts + 1
            \/ /\ RecordSent(w) /\ run[w].answer = "ok"
               /\ job'[j].status = "SENT" /\ job'[j].attempts = job[j].attempts + 1
            \/ /\ GiveUp(w) /\ run[w].answer \in {"error", "permanent"} /\ Exhausted(w)
               /\ job'[j].status = "FAILED" /\ job'[j].attempts = run[w].attempts + 1
            \/ /\ BackOff(w) /\ run[w].answer \in {"error", "permanent"}
               /\ job'[j].status = job[j].status /\ ~job'[j].due
               /\ job'[j].attempts = run[w].attempts + 1
         /\ UNCHANGED <<ask, asks, deaths, calls, accepted, unsure, refused>>
<1>1. /\ w \in DOMAIN run /\ run[w].cur /= None
      /\ run' = Finished(w, j) /\ UNCHANGED <<ask, asks, deaths, calls, accepted, unsure, refused>>
  BY DEF Finish, Skip, RecordSent, GiveUp, BackOff, Answered, Sending, history
<1>2. j \in DOMAIN job /\ job[j] \in JobRows /\ run[w] \in RunRows
  BY <1>1 DEF TypeOK
<1>3. PICK n \in Nat, m \in Nat : n = job[j].attempts + 1 /\ m = run[w].attempts + 1
  BY <1>2, JobRowType, RunRowType
<1>4. "SKIPPED" \in Statuses /\ "SENT" \in Statuses /\ "FAILED" \in Statuses
  BY DEF Statuses
<1>5. PICK row \in JobRows : row = job[j]
  BY <1>2
<1>6. CASE Skip(w)
  <2>1. PICK status \in Statuses : status = "SKIPPED"
    BY <1>4
  <2>2. PICK new : new = EndedForm(row, status, n)
    OBVIOUS
  <2>3. job' = [job EXCEPT ![j] = new]
    BY <1>2, <1>3, <1>6, <1>5, <2>1, <2>2 DEF Skip, EndedForm
  <2>4. new \in JobRows /\ new.status = status /\ new.max = row.max /\ new.attempts = n
    BY <2>2, JobRowEnded
  <2> QED
    BY <1>1, <1>2, <1>3, <1>6, <1>5, <2>1, <2>3, <2>4 DEF Skip, Answered, JobKeeps
<1>7. CASE RecordSent(w)
  <2>1. PICK status \in Statuses : status = "SENT"
    BY <1>4
  <2>2. PICK new : new = EndedForm(row, status, n)
    OBVIOUS
  <2>3. job' = [job EXCEPT ![j] = new]
    BY <1>2, <1>3, <1>7, <1>5, <2>1, <2>2 DEF RecordSent, EndedForm
  <2>4. new \in JobRows /\ new.status = status /\ new.max = row.max /\ new.attempts = n
    BY <2>2, JobRowEnded
  <2> QED
    BY <1>1, <1>2, <1>3, <1>7, <1>5, <2>1, <2>3, <2>4 DEF RecordSent, Answered, JobKeeps
<1>8. CASE GiveUp(w)
  <2>1. PICK status \in Statuses : status = "FAILED"
    BY <1>4
  <2>2. PICK new : new = EndedForm(row, status, m)
    OBVIOUS
  <2>3. job' = [job EXCEPT ![j] = new]
    BY <1>2, <1>3, <1>8, <1>5, <2>1, <2>2 DEF GiveUp, EndedForm
  <2>4. new \in JobRows /\ new.status = status /\ new.max = row.max /\ new.attempts = m
    BY <2>2, JobRowEnded
  <2> QED
    BY <1>1, <1>2, <1>3, <1>8, <1>5, <2>1, <2>3, <2>4 DEF GiveUp, Answered, JobKeeps
<1>9. CASE BackOff(w)
  <2>1. PICK new : new = WaitForm(job[j], m)
    OBVIOUS
  <2>2. job' = [job EXCEPT ![j] = new]
    BY <1>2, <1>3, <1>9, <2>1 DEF BackOff, WaitForm
  <2>3. /\ new \in JobRows /\ ~new.due /\ new.status = job[j].status
        /\ new.max = job[j].max /\ new.attempts = m
    BY <1>2, <2>1, JobRowWaits
  <2> QED
    BY <1>1, <1>2, <1>3, <1>9, <2>2, <2>3 DEF BackOff, Answered, JobKeeps
<1> QED
  BY <1>6, <1>7, <1>8, <1>9 DEF Finish

LEMMA RetryEffect ==
  ASSUME TypeOK, NEW a, Retry(a), NEW j, j = ask[a].job
  PROVE  /\ a \in DOMAIN ask /\ j \in DOMAIN job /\ DOMAIN job' = DOMAIN job
         /\ \A i \in Jobs \ {j} : JobKeeps(i)
         /\ job'[j] \in JobRows /\ job'[j].status = "PENDING" /\ job'[j].due
         /\ job'[j].max = ask[a].max /\ job'[j].attempts = job[j].attempts
         /\ run' = OutOfReach(j) /\ ask' = Without(ask, a)
         /\ unsure' = [unsure EXCEPT ![j] = unsure[j] + 1]
         /\ UNCHANGED <<asks, deaths, calls, accepted, refused>>
<1>1. /\ a \in DOMAIN ask /\ j \in DOMAIN job /\ job[j] \in JobRows
      /\ ask[a].max \in Nat \ {0}
  BY DEF Retry, TypeOK, AskRows
<1>2. PICK m \in Nat \ {0} : m = ask[a].max
  BY <1>1
<1>3. PICK new : new = RetryForm(job[j], m)
  OBVIOUS
<1>4. job' = [job EXCEPT ![j] = new]
  BY <1>1, <1>2, <1>3 DEF Retry, RetryForm
<1>5. /\ new \in JobRows /\ new.status = "PENDING" /\ new.due /\ new.max = m
      /\ new.attempts = job[j].attempts
  BY <1>1, <1>3, JobRowRetried
<1> QED
  BY <1>1, <1>2, <1>4, <1>5 DEF Retry, JobKeeps

LEMMA CancelEffect ==
  ASSUME TypeOK, NEW a, Cancel(a), NEW j, j = ask[a].job
  PROVE  /\ a \in DOMAIN ask /\ j \in DOMAIN job /\ DOMAIN job' = DOMAIN job
         /\ \A i \in Jobs \ {j} : JobKeeps(i)
         /\ job'[j] \in JobRows /\ job'[j].status = "SKIPPED"
         /\ job'[j].max = job[j].max /\ job'[j].attempts = job[j].attempts
         /\ ask' = Without(ask, a)
         /\ UNCHANGED <<run, asks, deaths, calls, accepted, unsure, refused>>
<1>1. a \in DOMAIN ask /\ j \in DOMAIN job /\ job[j] \in JobRows
  BY DEF Cancel, TypeOK
<1>2. PICK new : new = [job[j] EXCEPT !.status = "SKIPPED"]
  OBVIOUS
<1>3. job' = [job EXCEPT ![j] = new]
  BY <1>2 DEF Cancel
<1> QED
  BY <1>1, <1>2, <1>3, JobRowCancelled DEF Cancel, JobKeeps, history

LEMMA LapseEffect ==
  ASSUME TypeOK, NEW j \in Jobs, Lapse(j)
  PROVE  /\ j \in DOMAIN job /\ DOMAIN job' = DOMAIN job
         /\ \A i \in Jobs \ {j} : JobKeeps(i)
         /\ job'[j] \in JobRows /\ job'[j].status = "PENDING" /\ job'[j].due
         /\ job[j].status = "PENDING" /\ ~job[j].due
         /\ job'[j].max = job[j].max /\ job'[j].attempts = job[j].attempts
         /\ UNCHANGED <<run, ask, asks, deaths, calls, accepted, unsure, refused>>
<1>1. j \in DOMAIN job /\ job[j] \in JobRows /\ job[j].status = "PENDING" /\ ~job[j].due
  BY DEF Lapse, IsPending, TypeOK
<1>2. PICK new : new = [job[j] EXCEPT !.due = TRUE]
  OBVIOUS
<1>3. job' = [job EXCEPT ![j] = new]
  BY <1>2 DEF Lapse
<1> QED
  BY <1>1, <1>2, <1>3, JobRowDue DEF Lapse, JobKeeps, history

LEMMA QueueEffect ==
  ASSUME TypeOK, NEW j \in Jobs, Queue(j)
  PROVE  /\ j \notin DOMAIN job /\ DOMAIN job' = DOMAIN job \cup {j}
         /\ \A i \in Jobs \ {j} : JobKeeps(i)
         /\ job'[j] \in JobRows /\ job'[j].status = "PENDING" /\ job'[j].due
         /\ job'[j].max = MaxAttempts /\ job'[j].attempts = 0
         /\ UNCHANGED <<run, ask, asks, deaths, calls, accepted, unsure, refused>>
<1>1. PICK new \in JobRows :
         new = [status |-> "PENDING", due |-> TRUE, attempts |-> 0, max |-> MaxAttempts]
  BY AttemptsAssumption DEF JobRows, Statuses
<1>2. job' = With(job, j, new) /\ j \notin DOMAIN job
  BY <1>1 DEF Queue
<1> QED
  BY <1>1, <1>2 DEF Queue, With, JobKeeps, history

-----------------------------------------------------------------------------
(* What the actions do to the counts. *)

LEMMA SendCounts ==
  ASSUME TypeOK, NEW w, NEW answer \in {"ok", "error", "permanent"}, NEW taken \in BOOLEAN,
         Send(w, answer, taken), NEW j, j = run[w].cur
  PROVE  /\ j \in Jobs /\ j \in Configured
         /\ calls' \in [Jobs -> Nat] /\ accepted' \in [Jobs -> Nat] /\ unsure' \in [Jobs -> Nat]
         /\ \A i \in Jobs \ {j} : calls'[i] = calls[i] /\ accepted'[i] = accepted[i] /\ unsure'[i] = unsure[i]
         /\ calls'[j] = calls[j] + 1
         /\ \/ answer = "ok" /\ accepted'[j] = accepted[j] + 1 /\ unsure'[j] = unsure[j]
            \/ answer = "error" /\ accepted'[j] = accepted[j] /\ unsure'[j] = unsure[j]
            \/ answer = "error" /\ accepted'[j] = accepted[j] + 1 /\ unsure'[j] = unsure[j] + 1
            \/ answer = "permanent" /\ accepted'[j] = accepted[j] /\ unsure'[j] = unsure[j]
         /\ refused \subseteq refused' /\ refused' \subseteq Jobs
         /\ answer = "permanent" => j \in refused'
         /\ UNCHANGED <<job, ask, asks, deaths>>
<1>1. j \in Jobs /\ j \in Configured
  BY ConfiguredAssumption DEF Send
<1>2. calls \in [Jobs -> Nat] /\ accepted \in [Jobs -> Nat] /\ unsure \in [Jobs -> Nat]
  BY DEF TypeOK
<1>3. PICK t \in Nat : t = IF taken THEN 1 ELSE 0
  OBVIOUS
<1>4. PICK u \in Nat : u = IF taken /\ answer = "error" THEN 1 ELSE 0
  OBVIOUS
<1>5. accepted' = [accepted EXCEPT ![j] = accepted[j] + t]
  BY <1>3 DEF Send
<1>6. unsure' = [unsure EXCEPT ![j] = unsure[j] + u]
  BY <1>4 DEF Send
<1>7. calls' = [calls EXCEPT ![j] = calls[j] + 1]
  BY DEF Send
<1>8. calls' \in [Jobs -> Nat] /\ calls'[j] = calls[j] + 1 /\ \A i \in Jobs \ {j} : calls'[i] = calls[i]
  BY <1>1, <1>2, <1>7
<1>9. accepted' \in [Jobs -> Nat] /\ accepted'[j] = accepted[j] + t
      /\ \A i \in Jobs \ {j} : accepted'[i] = accepted[i]
  BY <1>1, <1>2, <1>5
<1>10. unsure' \in [Jobs -> Nat] /\ unsure'[j] = unsure[j] + u
       /\ \A i \in Jobs \ {j} : unsure'[i] = unsure[i]
  BY <1>1, <1>2, <1>6
<1>11. refused \subseteq refused' /\ refused' \subseteq Jobs /\ (answer = "permanent" => j \in refused')
       /\ UNCHANGED <<job, ask, asks, deaths>>
       /\ (answer = "ok" => taken) /\ (answer = "permanent" => ~taken)
  BY <1>1 DEF Send, TypeOK
<1>12. accepted[j] \in Nat /\ unsure[j] \in Nat
  BY <1>1, <1>2
<1>13. \/ answer = "ok" /\ t = 1 /\ u = 0
       \/ answer = "error" /\ t = 0 /\ u = 0
       \/ answer = "error" /\ t = 1 /\ u = 1
       \/ answer = "permanent" /\ t = 0 /\ u = 0
  BY <1>3, <1>4, <1>11
<1> QED
  BY <1>1, <1>8, <1>9, <1>10, <1>11, <1>12, <1>13

LEMMA DieCounts ==
  ASSUME TypeOK, NEW w, Die(w), NEW j, j = run[w].cur
  PROVE  /\ w \in DOMAIN run /\ run' = Without(run, w) /\ deaths' \in 0 .. MaxDeaths
         /\ unsure' \in [Jobs -> Nat]
         /\ \A i \in Jobs \ {j} : unsure'[i] = unsure[i]
         /\ j \in Jobs => IF run[w].answer = "ok" THEN unsure'[j] = unsure[j] + 1
                                                  ELSE unsure'[j] = unsure[j]
         /\ UNCHANGED <<job, ask, asks, calls, accepted, refused>>
<1>1. /\ w \in DOMAIN run /\ run' = Without(run, w) /\ UNCHANGED <<job, ask, asks, calls, accepted, refused>>
  BY DEF Die
<1>2. deaths' \in 0 .. MaxDeaths
  BY QueueBoundsAssumption DEF Die, TypeOK
<1>3. j \in Jobs \cup {None} /\ unsure \in [Jobs -> Nat]
  BY <1>1, RunRowType DEF TypeOK
<1>4. CASE j \in Jobs /\ run[w].answer = "ok"
  <2>1. unsure' = [unsure EXCEPT ![j] = unsure[j] + 1]
    BY <1>1, <1>4, NoneAssumption DEF Die, Answered, Sending
  <2> QED
    BY <1>1, <1>2, <1>3, <1>4, <2>1
<1>5. CASE ~(j \in Jobs /\ run[w].answer = "ok")
  <2>1. unsure' = unsure
    BY <1>1, <1>3, <1>5 DEF Die, Answered, Sending
  <2> QED
    BY <1>1, <1>2, <1>3, <1>5, <2>1
<1> QED
  BY <1>4, <1>5

-----------------------------------------------------------------------------
(* What keeps its type. *)

LEMMA StepKinds ==
  ASSUME TypeOK, [Next]_vars
  PROVE  \/ \E j \in Jobs : Queue(j) \/ Lapse(j)
         \/ \E w \in Runs : StartRun(w) \/ EndRun(w) \/ Finish(w) \/ Die(w)
         \/ \E w \in Runs, j \in Jobs : Claim(w, j)
         \/ \E w \in Runs, answer \in {"ok", "error", "permanent"}, taken \in BOOLEAN :
                Send(w, answer, taken)
         \/ \E a \in Admins, j \in Jobs, op \in {"RETRY", "CANCEL"} : Ask(a, j, op)
         \/ \E a \in Admins : Retry(a) \/ Cancel(a)
         \/ UNCHANGED vars
BY DEF Next, RunStep, AdminStep, Finish

LEMMA JobsKeep ==
  ASSUME TypeOK, NEW j \in Jobs, \A i \in Jobs \ {j} : JobKeeps(i),
         DOMAIN job' \subseteq DOMAIN job \cup {j}, job'[j] \in JobRows
  PROVE  DOMAIN job' \subseteq Jobs /\ \A i \in DOMAIN job' : job'[i] \in JobRows
BY DEF TypeOK, JobKeeps

\* All the runs but w keep what they hold.
Others(w) == \A v \in DOMAIN run \cup DOMAIN run' : v /= w => Keeps(v)

LEMMA RunsKeep ==
  ASSUME TypeOK, DOMAIN job \subseteq DOMAIN job', NEW w, Others(w),
         w \in DOMAIN run' =>
            w \in Runs /\ run'[w] \in RunRows /\ run'[w].may \cup ({run'[w].cur} \ {None}) \subseteq DOMAIN job'
  PROVE  /\ DOMAIN run' \subseteq Runs
         /\ \A v \in DOMAIN run' :
               run'[v] \in RunRows /\ run'[v].may \cup ({run'[v].cur} \ {None}) \subseteq DOMAIN job'
<1> SUFFICES ASSUME NEW v \in DOMAIN run'
             PROVE  /\ v \in Runs /\ run'[v] \in RunRows
                    /\ run'[v].may \cup ({run'[v].cur} \ {None}) \subseteq DOMAIN job'
  OBVIOUS
<1>1. CASE v = w
  BY <1>1
<1>2. CASE v /= w
  <2>1. Keeps(v)
    BY <1>2 DEF Others
  <2>2. /\ v \in DOMAIN run /\ run'[v] \in RunRows
        /\ run'[v].may \subseteq run[v].may /\ run'[v].cur = run[v].cur
    BY <2>1 DEF Keeps
  <2>3. v \in Runs /\ run[v].may \cup ({run[v].cur} \ {None}) \subseteq DOMAIN job
    BY <2>2 DEF TypeOK
  <2> QED
    BY <2>2, <2>3
<1> QED
  BY <1>1, <1>2

LEMMA SameRuns ==
  ASSUME TypeOK, run' = run
  PROVE  \A v \in DOMAIN run \cup DOMAIN run' : Keeps(v)
BY DEF TypeOK, Keeps

LEMMA RetryRuns ==
  ASSUME TypeOK, NEW j, run' = OutOfReach(j)
  PROVE  \A v \in DOMAIN run \cup DOMAIN run' : Keeps(v)
<1>1. PICK reach : reach = OutOfReach(j)
  OBVIOUS
<1>2. /\ DOMAIN reach = DOMAIN run
      /\ \A v \in DOMAIN run :
               /\ reach[v] \in RunRows
               /\ reach[v].may = run[v].may \ {j} /\ reach[v].cur = run[v].cur
               /\ reach[v].attempts = run[v].attempts /\ reach[v].max = run[v].max
               /\ reach[v].answer = run[v].answer
  BY <1>1, OutOfReachRuns
<1> QED
  BY <1>1, <1>2 DEF Keeps

\* No run changes what it holds, or one does: what the run invariants need.
LEMMA QuietRuns ==
  ASSUME TypeOK, DOMAIN job \subseteq DOMAIN job', \A v \in DOMAIN run \cup DOMAIN run' : Keeps(v)
  PROVE  /\ DOMAIN run' \subseteq Runs
         /\ \A v \in DOMAIN run' :
               run'[v] \in RunRows /\ run'[v].may \cup ({run'[v].cur} \ {None}) \subseteq DOMAIN job'
<1> SUFFICES ASSUME NEW v \in DOMAIN run'
             PROVE  /\ v \in Runs /\ run'[v] \in RunRows
                    /\ run'[v].may \cup ({run'[v].cur} \ {None}) \subseteq DOMAIN job'
  OBVIOUS
<1>1. /\ v \in DOMAIN run /\ run'[v] \in RunRows
      /\ run'[v].may \subseteq run[v].may /\ run'[v].cur = run[v].cur
  BY DEF Keeps
<1>2. v \in Runs /\ run[v].may \cup ({run[v].cur} \ {None}) \subseteq DOMAIN job
  BY <1>1 DEF TypeOK
<1> QED
  BY <1>1, <1>2

LEMMA AsksKeep ==
  ASSUME TypeOK, DOMAIN job \subseteq DOMAIN job', ask' = ask \/ \E a \in DOMAIN ask : ask' = Without(ask, a)
  PROVE  /\ DOMAIN ask' \subseteq Admins
         /\ \A a \in DOMAIN ask' : ask'[a] \in AskRows /\ ask'[a].job \in DOMAIN job' /\ ask'[a] = ask[a]
BY DEF TypeOK, Without

LEMMA AskEffect ==
  ASSUME TypeOK, NEW a \in Admins, NEW j \in Jobs, NEW op \in {"RETRY", "CANCEL"}, Ask(a, j, op)
  PROVE  /\ j \in DOMAIN job /\ a \notin DOMAIN ask /\ DOMAIN ask' = DOMAIN ask \cup {a}
         /\ \A b \in DOMAIN ask : ask'[b] = ask[b]
         /\ ask'[a] \in AskRows /\ ask'[a].job = j /\ ask'[a].max >= job[j].max
         /\ asks' \in [Jobs -> Nat]
         /\ UNCHANGED <<job, run, deaths, calls, accepted, unsure, refused>>
<1>1. j \in DOMAIN job /\ job[j].max \in Nat \ {0} /\ job[j].attempts \in Nat
  BY JobRowType DEF Ask, MayAsk, TypeOK
<1>2. PICK m \in Nat \ {0} : m = Larger(job[j].max, job[j].attempts + 1)
  BY <1>1 DEF Larger
<1>3. m >= job[j].max
  BY <1>1, <1>2 DEF Larger
<1>4. PICK new \in AskRows : new = [job |-> j, op |-> op, max |-> m]
  BY DEF AskRows
<1>5. a \notin DOMAIN ask /\ ask' = With(ask, a, new)
  BY <1>2, <1>4 DEF Ask
<1>6. asks' \in [Jobs -> Nat]
  BY DEF Ask, TypeOK
<1> QED
  BY <1>1, <1>3, <1>4, <1>5, <1>6 DEF Ask, With, history

LEMMA AskCounts ==
  ASSUME TypeOK, NEW a \in Admins, NEW j \in Jobs, NEW op \in {"RETRY", "CANCEL"}, Ask(a, j, op)
  PROVE  /\ asks' = [asks EXCEPT ![j] = asks[j] + 1]
         /\ ask'[a].max = job[j].max \/ ask'[a].max = job[j].attempts + 1
<1>1. PICK m : m = Larger(job[j].max, job[j].attempts + 1)
  OBVIOUS
<1>2. ask' = With(ask, a, [job |-> j, op |-> op, max |-> m]) /\ a \notin DOMAIN ask
  BY <1>1 DEF Ask
<1>3. ask'[a] = [job |-> j, op |-> op, max |-> m]
  BY <1>2 DEF With
<1> QED
  BY <1>1, <1>3 DEF Larger, Ask

LEMMA TypeStep ==
  ASSUME TypeOK, [Next]_vars
  PROVE  TypeOK'
<1> DEFINE JobsPart == DOMAIN job' \subseteq Jobs /\ \A i \in DOMAIN job' : job'[i] \in JobRows
           RunsPart == /\ DOMAIN run' \subseteq Runs
                       /\ \A v \in DOMAIN run' :
                             /\ run'[v] \in RunRows
                             /\ run'[v].may \cup ({run'[v].cur} \ {None}) \subseteq DOMAIN job'
           AsksPart == /\ DOMAIN ask' \subseteq Admins
                       /\ \A a \in DOMAIN ask' : ask'[a] \in AskRows /\ ask'[a].job \in DOMAIN job'
           CountsPart == /\ asks' \in [Jobs -> Nat] /\ deaths' \in 0 .. MaxDeaths
                         /\ calls' \in [Jobs -> Nat] /\ accepted' \in [Jobs -> Nat]
                         /\ unsure' \in [Jobs -> Nat] /\ refused' \subseteq Jobs
<1>1. (JobsPart /\ RunsPart /\ AsksPart /\ CountsPart) => TypeOK'
  BY DEF TypeOK
<1> HIDE DEF JobsPart, RunsPart, AsksPart, CountsPart
<1>2. job' = job => JobsPart /\ DOMAIN job \subseteq DOMAIN job'
  BY DEF TypeOK, JobsPart
<1>3. (DOMAIN job \subseteq DOMAIN job' /\ (ask' = ask \/ \E a \in DOMAIN ask : ask' = Without(ask, a)))
         => AsksPart
  BY AsksKeep DEF AsksPart
<1>4. (DOMAIN job \subseteq DOMAIN job' /\ \A v \in DOMAIN run \cup DOMAIN run' : Keeps(v)) => RunsPart
  BY QuietRuns DEF RunsPart
<1>5. (DOMAIN job \subseteq DOMAIN job' /\ run' = run) => RunsPart
  BY <1>4, SameRuns
<1>6. UNCHANGED <<asks, deaths, calls, accepted, unsure, refused>> => CountsPart
  BY DEF TypeOK, CountsPart
<1>7. CASE \E j \in Jobs : Queue(j) \/ Lapse(j)
  <2>1. PICK j \in Jobs : Queue(j) \/ Lapse(j)
    BY <1>7
  <2>2. /\ \A i \in Jobs \ {j} : JobKeeps(i)
        /\ DOMAIN job' = DOMAIN job \cup {j} /\ job'[j] \in JobRows
        /\ UNCHANGED <<run, ask, asks, deaths, calls, accepted, unsure, refused>>
    BY <2>1, QueueEffect, LapseEffect
  <2>3. JobsPart
    BY <2>2, JobsKeep DEF JobsPart
  <2> QED
    BY <1>1, <1>3, <1>5, <1>6, <2>2, <2>3
<1>8. ASSUME NEW w \in Runs, StartRun(w)
      PROVE  TypeOK'
  <2>1. UNCHANGED <<job, ask, asks, deaths, calls, accepted, unsure, refused>>
    BY <1>8 DEF StartRun, history
  <2>2. /\ Others(w) /\ run'[w] \in RunRows /\ run'[w].cur = None
        /\ run'[w].may = {j \in Jobs : Due(j)}
    BY <1>8, StartRuns DEF Others
  <2>3. run'[w].may \cup ({run'[w].cur} \ {None}) \subseteq DOMAIN job'
    BY <2>1, <2>2 DEF Due, IsPending
  <2>4. RunsPart
    BY <2>1, <2>2, <2>3, RunsKeep DEF RunsPart
  <2> QED
    BY <1>1, <1>2, <1>3, <1>6, <2>1, <2>4
<1>9. ASSUME NEW w \in Runs, EndRun(w) \/ Die(w)
      PROVE  TypeOK'
  <2>1. /\ w \in DOMAIN run /\ run' = Without(run, w)
        /\ UNCHANGED <<job, ask, asks, calls, accepted, refused>>
    BY <1>9 DEF EndRun, Die, history
  <2>2. Others(w) /\ w \notin DOMAIN run'
    BY <2>1, GoneRuns DEF Others
  <2>3. RunsPart
    BY <2>1, <2>2, RunsKeep DEF RunsPart
  <2>4. CASE EndRun(w)
    BY <1>1, <1>2, <1>3, <1>6, <2>1, <2>3, <2>4 DEF EndRun, history
  <2>5. CASE Die(w)
    <3>1. deaths' \in 0 .. MaxDeaths /\ unsure' \in [Jobs -> Nat]
      BY <2>5, DieCounts
    <3>2. CountsPart
      BY <2>1, <3>1 DEF CountsPart, TypeOK
    <3> QED
      BY <1>1, <1>2, <1>3, <2>1, <2>3, <3>2
  <2> QED
    BY <1>9, <2>4, <2>5
<1>10. ASSUME NEW w \in Runs, Finish(w)
       PROVE  TypeOK'
  <2>1. PICK j : j = run[w].cur
    OBVIOUS
  <2>2. /\ w \in DOMAIN run /\ j \in DOMAIN job /\ run' = Finished(w, j)
        /\ DOMAIN job' = DOMAIN job
        /\ \A i \in Jobs \ {j} : JobKeeps(i)
        /\ job'[j] \in JobRows
        /\ UNCHANGED <<ask, asks, deaths, calls, accepted, unsure, refused>>
    BY <1>10, <2>1, FinishEffect
  <2>3. j \in Jobs
    BY <2>2 DEF TypeOK
  <2>4. JobsPart
    BY <2>2, <2>3, JobsKeep DEF JobsPart
  <2>5. /\ Others(w) /\ run'[w] \in RunRows /\ run'[w].cur = None /\ run'[w].may \subseteq run[w].may
    BY <2>2, FinishedRuns DEF Others
  <2>6. run'[w].may \cup ({run'[w].cur} \ {None}) \subseteq DOMAIN job'
    BY <2>2, <2>5 DEF TypeOK
  <2>7. RunsPart
    BY <2>2, <2>5, <2>6, RunsKeep DEF RunsPart
  <2> QED
    BY <1>1, <1>3, <1>6, <2>2, <2>4, <2>7
<1>11. ASSUME NEW w \in Runs, NEW j \in Jobs, Claim(w, j)
       PROVE  TypeOK'
  <2>1. UNCHANGED <<ask, asks, deaths, calls, accepted, unsure, refused>>
    BY <1>11 DEF Claim, history
  <2>2. /\ DOMAIN job' = DOMAIN job /\ j \in DOMAIN job
        /\ \A i \in Jobs \ {j} : JobKeeps(i)
    BY <1>11, ClaimJobs
  <2>3. job'[j] \in JobRows
    BY <1>11, ClaimJobs
  <2>4. JobsPart
    BY <2>2, <2>3, JobsKeep DEF JobsPart
  <2>5. /\ Others(w) /\ w \in DOMAIN run /\ run'[w] \in RunRows /\ run'[w].cur = j
        /\ run'[w].may \subseteq run[w].may
    BY <1>11, ClaimRuns DEF Others
  <2>6. run'[w].may \cup ({run'[w].cur} \ {None}) \subseteq DOMAIN job'
    BY <2>2, <2>5 DEF TypeOK
  <2>7. RunsPart
    BY <2>2, <2>5, <2>6, RunsKeep DEF RunsPart
  <2> QED
    BY <1>1, <1>3, <1>6, <2>1, <2>2, <2>4, <2>7
<1>12. ASSUME NEW w \in Runs, NEW answer \in {"ok", "error", "permanent"}, NEW taken \in BOOLEAN,
              Send(w, answer, taken)
       PROVE  TypeOK'
  <2>1. UNCHANGED <<job, ask, asks, deaths>>
    BY <1>12 DEF Send
  <2>2. /\ w \in DOMAIN run /\ run[w].cur \in Configured /\ Others(w)
        /\ run'[w] \in RunRows /\ run'[w].cur = run[w].cur /\ run'[w].may = run[w].may
    BY <1>12, SendRuns DEF Others
  <2>3. run'[w].may \cup ({run'[w].cur} \ {None}) \subseteq DOMAIN job'
    BY <2>1, <2>2 DEF TypeOK
  <2>4. RunsPart
    BY <2>1, <2>2, <2>3, RunsKeep DEF RunsPart
  <2>5. /\ calls' \in [Jobs -> Nat] /\ accepted' \in [Jobs -> Nat] /\ unsure' \in [Jobs -> Nat]
        /\ refused' \subseteq Jobs
    BY <1>12, SendCounts
  <2>6. CountsPart
    BY <2>1, <2>5 DEF CountsPart, TypeOK
  <2> QED
    BY <1>1, <1>2, <1>3, <2>1, <2>4, <2>6
<1>13. ASSUME NEW a \in Admins, NEW j \in Jobs, NEW op \in {"RETRY", "CANCEL"}, Ask(a, j, op)
       PROVE  TypeOK'
  <2>1. /\ j \in DOMAIN job /\ DOMAIN ask' = DOMAIN ask \cup {a}
        /\ \A b \in DOMAIN ask : ask'[b] = ask[b]
        /\ ask'[a] \in AskRows /\ ask'[a].job = j
        /\ asks' \in [Jobs -> Nat]
        /\ UNCHANGED <<job, run, deaths, calls, accepted, unsure, refused>>
    BY <1>13, AskEffect
  <2>2. AsksPart
    BY <2>1 DEF AsksPart, TypeOK
  <2>3. CountsPart
    BY <2>1 DEF CountsPart, TypeOK
  <2> QED
    BY <1>1, <1>2, <1>5, <2>1, <2>2, <2>3
<1>14. ASSUME NEW a \in Admins, Retry(a)
       PROVE  TypeOK'
  <2>1. PICK j : j = ask[a].job
    OBVIOUS
  <2>2. /\ a \in DOMAIN ask /\ j \in DOMAIN job /\ DOMAIN job' = DOMAIN job
        /\ \A i \in Jobs \ {j} : JobKeeps(i)
        /\ job'[j] \in JobRows
        /\ run' = OutOfReach(j) /\ ask' = Without(ask, a)
        /\ unsure' = [unsure EXCEPT ![j] = unsure[j] + 1]
        /\ UNCHANGED <<asks, deaths, calls, accepted, refused>>
    BY <1>14, <2>1, RetryEffect
  <2>3. j \in Jobs
    BY <2>2 DEF TypeOK
  <2>4. JobsPart
    BY <2>2, <2>3, JobsKeep DEF JobsPart
  <2>5. RunsPart
    BY <1>4, <2>2, RetryRuns
  <2>6. CountsPart
    BY <2>2, <2>3 DEF CountsPart, TypeOK
  <2> QED
    BY <1>1, <1>3, <2>2, <2>4, <2>5, <2>6
<1>15. ASSUME NEW a \in Admins, Cancel(a)
       PROVE  TypeOK'
  <2>1. PICK j : j = ask[a].job
    OBVIOUS
  <2>2. /\ a \in DOMAIN ask /\ j \in DOMAIN job /\ DOMAIN job' = DOMAIN job
        /\ \A i \in Jobs \ {j} : JobKeeps(i)
        /\ job'[j] \in JobRows /\ ask' = Without(ask, a)
        /\ UNCHANGED <<run, asks, deaths, calls, accepted, unsure, refused>>
    BY <1>15, <2>1, CancelEffect
  <2>3. j \in Jobs
    BY <2>2 DEF TypeOK
  <2>4. JobsPart
    BY <2>2, <2>3, JobsKeep DEF JobsPart
  <2> QED
    BY <1>1, <1>3, <1>5, <1>6, <2>2, <2>4
<1>16. CASE UNCHANGED vars
  <2>1. UNCHANGED <<job, run, ask, asks, deaths, calls, accepted, unsure, refused>>
    BY <1>16 DEF vars, history
  <2> QED
    BY <1>1, <1>2, <1>3, <1>5, <1>6, <2>1
<1> QED
  BY <1>7, <1>8, <1>9, <1>10, <1>11, <1>12, <1>13, <1>14, <1>15, <1>16, StepKinds

-----------------------------------------------------------------------------
(* How many runs hold a job, when one run changes. *)

LEMMA CountMoves ==
  ASSUME NEW S, NEW T, NEW w, IsFiniteSet(S), IsFiniteSet(T), S \ {w} = T \ {w}
  PROVE  /\ Cardinality(S) \in Nat /\ Cardinality(T) \in Nat
         /\ (w \in S <=> w \in T) => Cardinality(T) = Cardinality(S)
         /\ (w \in S /\ w \notin T) => Cardinality(S) = Cardinality(T) + 1
         /\ (w \notin S /\ w \in T) => Cardinality(T) = Cardinality(S) + 1
<1>1. Cardinality(S) \in Nat /\ Cardinality(T) \in Nat
  BY FS_CardinalityType
<1>2. (w \in S <=> w \in T) => S = T
  OBVIOUS
<1>3. ASSUME w \in S, w \notin T
      PROVE  Cardinality(S) = Cardinality(T) + 1
  <2>1. S = T \cup {w}
    BY <1>3
  <2> QED
    BY <1>1, <1>3, <2>1, FS_AddElement
<1>4. ASSUME w \notin S, w \in T
      PROVE  Cardinality(T) = Cardinality(S) + 1
  <2>1. T = S \cup {w}
    BY <1>4
  <2> QED
    BY <1>1, <1>4, <2>1, FS_AddElement
<1> QED
  BY <1>1, <1>2, <1>3, <1>4

LEMMA HoldersAreFinite ==
  ASSUME TypeOK, NEW j
  PROVE  IsFiniteSet(Holding(j)) /\ IsFiniteSet(Answering(j))
<1>1. Holding(j) \subseteq Runs /\ Answering(j) \subseteq Runs
  BY DEF TypeOK, Holding, Answering
<1> QED
  BY <1>1, RunsAssumption, FS_Subset

\* Holding and Answering of a job after a step of the run w.
LEMMA HoldersMove ==
  ASSUME TypeOK, TypeOK', NEW w, Others(w), NEW j
  PROVE  /\ Cardinality(Holding(j)) \in Nat /\ Cardinality(Holding(j))' \in Nat
         /\ (w \in Holding(j) <=> w \in Holding(j)') =>
               Cardinality(Holding(j))' = Cardinality(Holding(j))
         /\ (w \in Holding(j) /\ w \notin Holding(j)') =>
               Cardinality(Holding(j)) = Cardinality(Holding(j))' + 1
         /\ (w \notin Holding(j) /\ w \in Holding(j)') =>
               Cardinality(Holding(j))' = Cardinality(Holding(j)) + 1
         /\ Cardinality(Answering(j)) \in Nat /\ Cardinality(Answering(j))' \in Nat
         /\ (w \in Answering(j) <=> w \in Answering(j)') =>
               Cardinality(Answering(j))' = Cardinality(Answering(j))
         /\ (w \in Answering(j) /\ w \notin Answering(j)') =>
               Cardinality(Answering(j)) = Cardinality(Answering(j))' + 1
         /\ (w \notin Answering(j) /\ w \in Answering(j)') =>
               Cardinality(Answering(j))' = Cardinality(Answering(j)) + 1
<1>1. Holding(j)' = {v \in DOMAIN run' : run'[v].cur = j /\ run'[v].answer /= "ok"}
  BY DEF Holding
<1>2. Answering(j)' = {v \in DOMAIN run' : run'[v].cur = j /\ run'[v].answer /= "none"}
  BY DEF Answering
<1>3. IsFiniteSet(Holding(j)) /\ IsFiniteSet(Answering(j))
  BY HoldersAreFinite
<1>4. Holding(j)' \subseteq Runs /\ Answering(j)' \subseteq Runs
  BY <1>1, <1>2 DEF TypeOK
<1>5. IsFiniteSet(Holding(j)') /\ IsFiniteSet(Answering(j)')
  BY <1>4, RunsAssumption, FS_Subset
<1>6. Holding(j) \ {w} = Holding(j)' \ {w} /\ Answering(j) \ {w} = Answering(j)' \ {w}
  BY <1>1, <1>2 DEF Others, Keeps, Holding, Answering
<1>7. PICK S, T : S = Holding(j) /\ T = Holding(j)'
  OBVIOUS
<1>8. PICK A, B : A = Answering(j) /\ B = Answering(j)'
  OBVIOUS
<1>9. Cardinality(Holding(j))' = Cardinality(T) /\ Cardinality(Answering(j))' = Cardinality(B)
  BY <1>7, <1>8
<1>10. /\ IsFiniteSet(S) /\ IsFiniteSet(T) /\ S \ {w} = T \ {w}
       /\ IsFiniteSet(A) /\ IsFiniteSet(B) /\ A \ {w} = B \ {w}
  BY <1>3, <1>5, <1>6, <1>7, <1>8
<1>11. /\ Cardinality(S) \in Nat /\ Cardinality(T) \in Nat
       /\ (w \in S <=> w \in T) => Cardinality(T) = Cardinality(S)
       /\ (w \in S /\ w \notin T) => Cardinality(S) = Cardinality(T) + 1
       /\ (w \notin S /\ w \in T) => Cardinality(T) = Cardinality(S) + 1
  BY <1>10, CountMoves
<1>12. /\ Cardinality(A) \in Nat /\ Cardinality(B) \in Nat
       /\ (w \in A <=> w \in B) => Cardinality(B) = Cardinality(A)
       /\ (w \in A /\ w \notin B) => Cardinality(A) = Cardinality(B) + 1
       /\ (w \notin A /\ w \in B) => Cardinality(B) = Cardinality(A) + 1
  BY <1>10, CountMoves
<1> QED
  BY <1>7, <1>8, <1>9, <1>11, <1>12

\* Nobody changes.
LEMMA HoldersStay ==
  ASSUME TypeOK, TypeOK', \A v \in DOMAIN run \cup DOMAIN run' : Keeps(v), NEW j
  PROVE  /\ Cardinality(Holding(j)) \in Nat /\ Cardinality(Answering(j)) \in Nat
         /\ Cardinality(Holding(j))' = Cardinality(Holding(j))
         /\ Cardinality(Answering(j))' = Cardinality(Answering(j))
         /\ Held(j)' <=> Held(j)
<1>1. Holding(j)' = {v \in DOMAIN run' : run'[v].cur = j /\ run'[v].answer /= "ok"}
  BY DEF Holding
<1>2. Answering(j)' = {v \in DOMAIN run' : run'[v].cur = j /\ run'[v].answer /= "none"}
  BY DEF Answering
<1>3. Holding(j)' = Holding(j) /\ Answering(j)' = Answering(j)
  BY <1>1, <1>2 DEF Keeps, Holding, Answering
<1>4. Held(j)' <=> Held(j)
  BY DEF Held, Keeps
<1>5. Cardinality(Holding(j)) \in Nat /\ Cardinality(Answering(j)) \in Nat
  BY HoldersAreFinite, FS_CardinalityType
<1> QED
  BY <1>3, <1>4, <1>5

-----------------------------------------------------------------------------
(* A run that can claim a job has found it due. *)

LEMMA ReachStep ==
  ASSUME TypeOK, TypeOK', ReachIsDue, [Next]_vars
  PROVE  ReachIsDue'
<1> SUFFICES ASSUME NEW v \in DOMAIN run', NEW i \in run'[v].may, IsPending(i)'
             PROVE  job'[i].due
  BY DEF ReachIsDue
<1>1. i \in DOMAIN job' /\ job'[i].status = "PENDING" /\ i \in Jobs
  BY DEF IsPending, TypeOK
<1>2. ASSUME v \in DOMAIN run, run'[v].may \subseteq run[v].may, JobKeeps(i)
      PROVE  job'[i].due
  BY <1>1, <1>2 DEF ReachIsDue, JobKeeps, IsPending
<1>3. ASSUME NEW w, Others(w), v /= w
      PROVE  v \in DOMAIN run /\ run'[v].may \subseteq run[v].may
  BY <1>3 DEF Others, Keeps
<1>4. job' = job => JobKeeps(i)
  BY DEF JobKeeps
<1>5. CASE \E j \in Jobs : Queue(j) \/ Lapse(j)
  <2>1. PICK j \in Jobs : Queue(j) \/ Lapse(j)
    BY <1>5
  <2>2. job'[j].due /\ run' = run /\ \A k \in Jobs \ {j} : JobKeeps(k)
    BY <2>1, QueueEffect, LapseEffect
  <2> QED
    BY <1>1, <1>2, <2>2
<1>6. ASSUME NEW w \in Runs, StartRun(w)
      PROVE  job'[i].due
  <2>1. Others(w) /\ run'[w].may = {j \in Jobs : Due(j)} /\ job' = job
    BY <1>6, StartRuns DEF Others, StartRun
  <2> QED
    BY <1>2, <1>3, <1>4, <2>1 DEF Due
<1>7. ASSUME NEW w \in Runs, EndRun(w) \/ Die(w)
      PROVE  job'[i].due
  <2>1. w \in DOMAIN run /\ run' = Without(run, w) /\ job' = job
    BY <1>7 DEF EndRun, Die
  <2>2. Others(w) /\ w \notin DOMAIN run'
    BY <2>1, GoneRuns DEF Others
  <2> QED
    BY <1>2, <1>3, <1>4, <2>1, <2>2
<1>8. ASSUME NEW w \in Runs, Finish(w)
      PROVE  job'[i].due
  <2>1. PICK j : j = run[w].cur
    OBVIOUS
  <2>2. /\ w \in DOMAIN run /\ run' = Finished(w, j) /\ \A k \in Jobs \ {j} : JobKeeps(k)
    BY <1>8, <2>1, FinishEffect
  <2>3. /\ Others(w) /\ run'[w].may \subseteq run[w].may
        /\ \A u \in DOMAIN run' : j \notin run'[u].may
    BY <2>2, FinishedRuns DEF Others
  <2> QED
    BY <1>1, <1>2, <1>3, <2>2, <2>3
<1>9. ASSUME NEW w \in Runs, NEW j \in Jobs, Claim(w, j)
      PROVE  job'[i].due
  <2>1. \A k \in Jobs \ {j} : JobKeeps(k)
    BY <1>9, ClaimJobs
  <2>2. /\ Others(w) /\ w \in DOMAIN run /\ run'[w].may \subseteq run[w].may
        /\ \A u \in DOMAIN run' : j \notin run'[u].may
    BY <1>9, ClaimRuns DEF Others
  <2> QED
    BY <1>1, <1>2, <1>3, <2>1, <2>2
<1>10. ASSUME NEW w \in Runs, NEW answer \in {"ok", "error", "permanent"}, NEW taken \in BOOLEAN,
              Send(w, answer, taken)
       PROVE  job'[i].due
  <2>1. Others(w) /\ w \in DOMAIN run /\ run'[w].may = run[w].may
    BY <1>10, SendRuns DEF Others
  <2>2. job' = job
    BY <1>10 DEF Send
  <2> QED
    BY <1>2, <1>3, <1>4, <2>1, <2>2
<1>11. ASSUME NEW a \in Admins, NEW j \in Jobs, NEW op \in {"RETRY", "CANCEL"}, Ask(a, j, op)
       PROVE  job'[i].due
  BY <1>2, <1>4, <1>11 DEF Ask
<1>12. ASSUME NEW a \in Admins, Retry(a)
       PROVE  job'[i].due
  <2>1. PICK j : j = ask[a].job
    OBVIOUS
  <2>2. run' = OutOfReach(j) /\ job'[j].due /\ \A k \in Jobs \ {j} : JobKeeps(k)
    BY <1>12, <2>1, RetryEffect
  <2>3. v \in DOMAIN run /\ run'[v].may \subseteq run[v].may
    BY <2>2, RetryRuns DEF Keeps
  <2> QED
    BY <1>1, <1>2, <2>2, <2>3
<1>13. ASSUME NEW a \in Admins, Cancel(a)
       PROVE  job'[i].due
  <2>1. PICK j : j = ask[a].job
    OBVIOUS
  <2>2. run' = run /\ job'[j].status = "SKIPPED" /\ \A k \in Jobs \ {j} : JobKeeps(k)
    BY <1>13, <2>1, CancelEffect
  <2> QED
    BY <1>1, <1>2, <2>2
<1>14. CASE UNCHANGED vars
  BY <1>2, <1>4, <1>14 DEF vars
<1> QED
  BY <1>5, <1>6, <1>7, <1>8, <1>9, <1>10, <1>11, <1>12, <1>13, <1>14, StepKinds

-----------------------------------------------------------------------------
(* What is recorded, and what the runs go by. *)

\* Only a call of the provider moves its counts, and only upwards.
LEMMA CountsStand ==
  ASSUME TypeOK, TypeOK', [Next]_vars
  PROVE  /\ \A i \in Jobs : calls'[i] >= calls[i] /\ accepted'[i] >= accepted[i]
         /\ refused \subseteq refused'
         /\ (\E w \in Runs, answer \in {"ok", "error", "permanent"}, taken \in BOOLEAN :
                Send(w, answer, taken))
            \/ UNCHANGED <<calls, accepted, refused>>
<1>1. calls \in [Jobs -> Nat] /\ accepted \in [Jobs -> Nat]
  BY DEF TypeOK
<1>2. ASSUME NEW w \in Runs, NEW answer \in {"ok", "error", "permanent"}, NEW taken \in BOOLEAN,
             Send(w, answer, taken)
      PROVE  /\ \A i \in Jobs : calls'[i] >= calls[i] /\ accepted'[i] >= accepted[i]
             /\ refused \subseteq refused'
  <2>1. PICK j : j = run[w].cur
    OBVIOUS
  <2>2. /\ \A i \in Jobs \ {j} : calls'[i] = calls[i] /\ accepted'[i] = accepted[i]
        /\ calls'[j] = calls[j] + 1 /\ j \in Jobs
        /\ accepted'[j] = accepted[j] \/ accepted'[j] = accepted[j] + 1
        /\ refused \subseteq refused'
    BY <1>2, <2>1, SendCounts
  <2> QED
    BY <1>1, <2>2
<1>3. UNCHANGED <<calls, accepted, refused>>
         => /\ \A i \in Jobs : calls'[i] >= calls[i] /\ accepted'[i] >= accepted[i]
            /\ refused \subseteq refused'
  BY <1>1
<1>4. ASSUME NEW w \in Runs, Finish(w)
      PROVE  UNCHANGED <<calls, accepted, refused>>
  BY <1>4 DEF Finish, Skip, RecordSent, GiveUp, BackOff, history
<1>5. \/ \E w \in Runs, answer \in {"ok", "error", "permanent"}, taken \in BOOLEAN : Send(w, answer, taken)
      \/ UNCHANGED <<calls, accepted, refused>>
  BY <1>4, StepKinds DEF Queue, Lapse, StartRun, EndRun, Die, Claim, Ask, Retry, Cancel, vars, history
<1> QED
  BY <1>2, <1>3, <1>5

LEMMA AnswersStep ==
  ASSUME TypeOK, TypeOK', AnswersAreTrue, [Next]_vars
  PROVE  AnswersAreTrue'
<1> SUFFICES ASSUME NEW v \in DOMAIN run', run'[v].answer /= "none"
             PROVE  /\ run'[v].cur \in Configured
                    /\ run'[v].answer = "ok" => accepted'[run'[v].cur] > 0
                    /\ run'[v].answer = "permanent" => run'[v].cur \in refused'
  BY DEF AnswersAreTrue
<1> DEFINE Goal == /\ run'[v].cur \in Configured
                   /\ run'[v].answer = "ok" => accepted'[run'[v].cur] > 0
                   /\ run'[v].answer = "permanent" => run'[v].cur \in refused'
<1>1. ASSUME Keeps(v)
      PROVE  Goal
  <2>1. v \in DOMAIN run /\ run'[v].cur = run[v].cur /\ run'[v].answer = run[v].answer
    BY <1>1 DEF Keeps
  <2>2. PICK j : j = run[v].cur
    OBVIOUS
  <2>3. /\ j \in Configured
        /\ run[v].answer = "ok" => accepted[j] > 0
        /\ run[v].answer = "permanent" => j \in refused
    BY <2>1, <2>2 DEF AnswersAreTrue
  <2>4. j \in Jobs
    BY <2>3, ConfiguredAssumption
  <2>5. accepted'[j] >= accepted[j] /\ refused \subseteq refused'
        /\ accepted[j] \in Nat /\ accepted'[j] \in Nat
    BY <2>4, CountsStand DEF TypeOK
  <2> QED
    BY <2>1, <2>2, <2>3, <2>5
<1>2. ASSUME NEW w, Others(w), v /= w
      PROVE  Goal
  BY <1>1, <1>2 DEF Others
<1> HIDE DEF Goal
<1>3. ASSUME run' = run
      PROVE  Goal
  BY <1>1, <1>3, SameRuns
<1>4. ASSUME NEW w \in Runs, StartRun(w)
      PROVE  Goal
  BY <1>2, <1>4, StartRuns DEF Others
<1>5. ASSUME NEW w \in Runs, EndRun(w) \/ Die(w)
      PROVE  Goal
  <2>1. w \in DOMAIN run /\ run' = Without(run, w)
    BY <1>5 DEF EndRun, Die
  <2>2. Others(w) /\ w \notin DOMAIN run'
    BY <2>1, GoneRuns DEF Others
  <2> QED
    BY <1>2, <2>2
<1>6. ASSUME NEW w \in Runs, Finish(w)
      PROVE  Goal
  <2>1. PICK j : j = run[w].cur
    OBVIOUS
  <2>2. w \in DOMAIN run /\ run' = Finished(w, j)
    BY <1>6, <2>1, FinishEffect
  <2>3. Others(w) /\ run'[w].answer = "none"
    BY <2>2, FinishedRuns DEF Others
  <2> QED
    BY <1>2, <2>3
<1>7. ASSUME NEW w \in Runs, NEW j \in Jobs, Claim(w, j)
      PROVE  Goal
  <2>1. Others(w) /\ w \in DOMAIN run /\ run[w].cur = None /\ run'[w].answer = run[w].answer
    BY <1>7, ClaimRuns DEF Others
  <2>2. run[w].answer = "none"
    BY <2>1, ConfiguredAssumption, NoneAssumption DEF AnswersAreTrue
  <2> QED
    BY <1>2, <2>1, <2>2
<1>8. ASSUME NEW w \in Runs, NEW answer \in {"ok", "error", "permanent"}, NEW taken \in BOOLEAN,
             Send(w, answer, taken)
      PROVE  Goal
  <2>1. PICK j : j = run[w].cur
    OBVIOUS
  <2>2. Others(w) /\ run'[w].cur = j /\ run'[w].answer = answer
    BY <1>8, <2>1, SendRuns DEF Others
  <2>3. /\ j \in Configured
        /\ answer = "permanent" => j \in refused'
        /\ answer = "ok" => accepted'[j] = accepted[j] + 1
        /\ j \in Jobs
    BY <1>8, <2>1, SendCounts
  <2>4. accepted[j] \in Nat
    BY <2>3 DEF TypeOK
  <2>5. v = w => Goal
    BY <2>2, <2>3, <2>4 DEF Goal
  <2> QED
    BY <1>2, <2>2, <2>5
<1>9. ASSUME NEW a \in Admins, Retry(a)
      PROVE  Goal
  <2>1. run' = OutOfReach(ask[a].job)
    BY <1>9 DEF Retry
  <2> QED
    BY <1>1, <2>1, RetryRuns
<1>10. Goal
  BY <1>3, <1>4, <1>5, <1>6, <1>7, <1>8, <1>9, StepKinds DEF Queue, Lapse, Ask, Cancel, vars
<1> QED
  BY <1>10 DEF Goal

LEMMA LimitsStep ==
  ASSUME TypeOK, TypeOK', LimitsStand, [Next]_vars
  PROVE  LimitsStand'
<1> DEFINE JobsPart == \A i \in DOMAIN job' : job'[i].max >= MaxAttempts
           RunsPart == \A v \in DOMAIN run' : run'[v].cur /= None => run'[v].max >= MaxAttempts
           AsksPart == \A a \in DOMAIN ask' : ask'[a].max >= MaxAttempts
<1>1. JobsPart /\ RunsPart /\ AsksPart => LimitsStand'
  BY DEF LimitsStand
<1>2. \A v \in DOMAIN run' : Keeps(v) => (run'[v].cur /= None => run'[v].max >= MaxAttempts)
  BY DEF Keeps, LimitsStand
<1>3. ASSUME NEW w, Others(w), w \in DOMAIN run' => (run'[w].cur /= None => run'[w].max >= MaxAttempts)
      PROVE  RunsPart
  BY <1>2, <1>3 DEF Others
<1>4. run' = run => RunsPart
  BY DEF LimitsStand
<1>5. (ask' = ask \/ \E a \in DOMAIN ask : ask' = Without(ask, a)) => AsksPart
  BY DEF LimitsStand, Without
<1>6. job' = job => JobsPart
  BY DEF LimitsStand
<1>7. ASSUME NEW j \in Jobs, \A i \in Jobs \ {j} : JobKeeps(i), job'[j].max >= MaxAttempts
      PROVE  JobsPart
  BY <1>7 DEF JobKeeps, LimitsStand, TypeOK
<1> HIDE DEF JobsPart, RunsPart, AsksPart
<1>8. CASE \E j \in Jobs : Queue(j) \/ Lapse(j)
  <2>1. PICK j \in Jobs : Queue(j) \/ Lapse(j)
    BY <1>8
  <2>2. run' = run /\ ask' = ask /\ \A k \in Jobs \ {j} : JobKeeps(k)
    BY <2>1, QueueEffect, LapseEffect
  <2>3. job'[j].max = MaxAttempts \/ (j \in DOMAIN job /\ job'[j].max = job[j].max)
    BY <2>1, QueueEffect, LapseEffect
  <2>4. job'[j].max >= MaxAttempts
    BY <2>3, AttemptsAssumption DEF LimitsStand
  <2> QED
    BY <1>1, <1>4, <1>5, <1>7, <2>2, <2>4
<1>9. ASSUME NEW w \in Runs, StartRun(w)
      PROVE  LimitsStand'
  <2>1. Others(w) /\ run'[w].cur = None /\ UNCHANGED <<job, ask>>
    BY <1>9, StartRuns DEF Others, StartRun
  <2> QED
    BY <1>1, <1>3, <1>5, <1>6, <2>1
<1>10. ASSUME NEW w \in Runs, EndRun(w) \/ Die(w)
       PROVE  LimitsStand'
  <2>1. w \in DOMAIN run /\ run' = Without(run, w) /\ UNCHANGED <<job, ask>>
    BY <1>10 DEF EndRun, Die
  <2>2. Others(w) /\ w \notin DOMAIN run'
    BY <2>1, GoneRuns DEF Others
  <2> QED
    BY <1>1, <1>3, <1>5, <1>6, <2>1, <2>2
<1>11. ASSUME NEW w \in Runs, Finish(w)
       PROVE  LimitsStand'
  <2>1. PICK j : j = run[w].cur
    OBVIOUS
  <2>2. /\ w \in DOMAIN run /\ j \in DOMAIN job /\ run' = Finished(w, j)
        /\ \A i \in Jobs \ {j} : JobKeeps(i)
        /\ job'[j].max = job[j].max /\ ask' = ask
    BY <1>11, <2>1, FinishEffect
  <2>3. Others(w) /\ run'[w].cur = None
    BY <2>2, FinishedRuns DEF Others
  <2>4. j \in Jobs /\ job'[j].max >= MaxAttempts
    BY <2>2 DEF LimitsStand, TypeOK
  <2> QED
    BY <1>1, <1>3, <1>5, <1>7, <2>2, <2>3, <2>4
<1>12. ASSUME NEW w \in Runs, NEW j \in Jobs, Claim(w, j)
       PROVE  LimitsStand'
  <2>1. /\ j \in DOMAIN job /\ \A i \in Jobs \ {j} : JobKeeps(i)
        /\ job'[j].max = job[j].max /\ ask' = ask
    BY <1>12, ClaimJobs DEF Claim
  <2>2. job'[j].max = job[j].max
    BY <1>12, ClaimJobs
  <2>3. Others(w) /\ run'[w].max = job[j].max
    BY <1>12, ClaimRuns DEF Others
  <2>4. job[j].max >= MaxAttempts
    BY <2>1 DEF LimitsStand
  <2> QED
    BY <1>1, <1>3, <1>5, <1>7, <2>1, <2>2, <2>3, <2>4
<1>13. ASSUME NEW w \in Runs, NEW answer \in {"ok", "error", "permanent"}, NEW taken \in BOOLEAN,
              Send(w, answer, taken)
       PROVE  LimitsStand'
  <2>1. Others(w) /\ w \in DOMAIN run /\ run'[w].cur = run[w].cur /\ run'[w].max = run[w].max
    BY <1>13, SendRuns DEF Others
  <2>2. UNCHANGED <<job, ask>>
    BY <1>13 DEF Send
  <2>3. run'[w].cur /= None => run'[w].max >= MaxAttempts
    BY <2>1 DEF LimitsStand
  <2> QED
    BY <1>1, <1>3, <1>5, <1>6, <2>1, <2>2, <2>3
<1>14. ASSUME NEW a \in Admins, NEW j \in Jobs, NEW op \in {"RETRY", "CANCEL"}, Ask(a, j, op)
       PROVE  LimitsStand'
  <2>1. /\ j \in DOMAIN job /\ DOMAIN ask' = DOMAIN ask \cup {a}
        /\ \A b \in DOMAIN ask : ask'[b] = ask[b]
        /\ ask'[a] \in AskRows /\ ask'[a].max >= job[j].max
        /\ UNCHANGED <<job, run>>
    BY <1>14, AskEffect
  <2>2. PICK m, n : m = job[j].max /\ n = ask'[a].max
    OBVIOUS
  <2>3. m \in Nat /\ n \in Nat /\ m >= MaxAttempts /\ n >= m
    BY <2>1, <2>2, JobRowType DEF TypeOK, AskRows, LimitsStand
  <2>4. ask'[a].max >= MaxAttempts
    BY <2>2, <2>3, AttemptsAssumption
  <2>5. AsksPart
    BY <2>1, <2>4 DEF AsksPart, LimitsStand
  <2> QED
    BY <1>1, <1>4, <1>6, <2>1, <2>5
<1>15. ASSUME NEW a \in Admins, Retry(a) \/ Cancel(a)
       PROVE  LimitsStand'
  <2>1. PICK j : j = ask[a].job
    OBVIOUS
  <2>2. /\ a \in DOMAIN ask /\ j \in DOMAIN job
        /\ \A i \in Jobs \ {j} : JobKeeps(i)
        /\ ask' = Without(ask, a)
        /\ run' = run \/ run' = OutOfReach(j)
        /\ job'[j].max = ask[a].max \/ job'[j].max = job[j].max
    BY <1>15, <2>1, RetryEffect, CancelEffect
  <2>3. j \in Jobs /\ job'[j].max >= MaxAttempts
    BY <2>2 DEF LimitsStand, TypeOK
  <2>4. \A v \in DOMAIN run' : Keeps(v)
    BY <2>2, SameRuns, RetryRuns
  <2>5. RunsPart
    BY <1>2, <2>4 DEF RunsPart
  <2> QED
    BY <1>1, <1>5, <1>7, <2>2, <2>3, <2>5
<1>16. CASE UNCHANGED vars
  BY <1>1, <1>4, <1>5, <1>6, <1>16 DEF vars
<1> QED
  BY <1>8, <1>9, <1>10, <1>11, <1>12, <1>13, <1>14, <1>15, <1>16, StepKinds

\* A run that has an answer to record has called the provider once more.
LEMMA AnsweringStep ==
  ASSUME TypeOK, TypeOK', AnswersAreTrue, [Next]_vars, NEW i \in Configured
  PROVE  /\ Cardinality(Answering(i)) \in Nat /\ Cardinality(Answering(i))' \in Nat
         /\ Cardinality(Answering(i))' + calls[i] <= Cardinality(Answering(i)) + calls'[i]
<1> DEFINE Goal == Cardinality(Answering(i))' + calls[i] <= Cardinality(Answering(i)) + calls'[i]
<1>1. Cardinality(Answering(i)) \in Nat /\ Cardinality(Answering(i))' \in Nat
  <2>1. Answering(i)' \subseteq Runs
    BY DEF Answering, TypeOK
  <2>2. IsFiniteSet(Answering(i)')
    BY <2>1, RunsAssumption, FS_Subset
  <2> QED
    BY <2>2, HoldersAreFinite, FS_CardinalityType
<1>2. i \in Jobs /\ calls[i] \in Nat /\ calls'[i] \in Nat /\ calls'[i] >= calls[i]
  BY CountsStand, ConfiguredAssumption DEF TypeOK
<1>3. Cardinality(Answering(i))' <= Cardinality(Answering(i)) => Goal
  BY <1>1, <1>2
<1>4. ASSUME NEW w, Others(w), w \in DOMAIN run' => run'[w].answer = "none"
      PROVE  Goal
  <2>1. w \notin Answering(i)'
    BY <1>4 DEF Answering
  <2> QED
    BY <1>1, <1>3, <1>4, <2>1, HoldersMove
<1>5. ASSUME \A v \in DOMAIN run \cup DOMAIN run' : Keeps(v)
      PROVE  Goal
  BY <1>1, <1>3, <1>5, HoldersStay
<1> HIDE DEF Goal
<1>6. ASSUME run' = run
      PROVE  Goal
  BY <1>5, <1>6, SameRuns
<1>7. ASSUME NEW w \in Runs, StartRun(w)
      PROVE  Goal
  BY <1>4, <1>7, StartRuns DEF Others
<1>8. ASSUME NEW w \in Runs, EndRun(w) \/ Die(w)
      PROVE  Goal
  <2>1. w \in DOMAIN run /\ run' = Without(run, w)
    BY <1>8 DEF EndRun, Die
  <2>2. Others(w) /\ w \notin DOMAIN run'
    BY <2>1, GoneRuns DEF Others
  <2> QED
    BY <1>4, <2>2
<1>9. ASSUME NEW w \in Runs, Finish(w)
      PROVE  Goal
  <2>1. PICK j : j = run[w].cur
    OBVIOUS
  <2>2. w \in DOMAIN run /\ run' = Finished(w, j)
    BY <1>9, <2>1, FinishEffect
  <2>3. Others(w) /\ run'[w].answer = "none"
    BY <2>2, FinishedRuns DEF Others
  <2> QED
    BY <1>4, <2>3
<1>10. ASSUME NEW w \in Runs, NEW j \in Jobs, Claim(w, j)
       PROVE  Goal
  <2>1. Others(w) /\ w \in DOMAIN run /\ run[w].cur = None /\ run'[w].answer = run[w].answer
    BY <1>10, ClaimRuns DEF Others
  <2>2. run[w].answer = "none"
    BY <2>1, ConfiguredAssumption, NoneAssumption DEF AnswersAreTrue
  <2> QED
    BY <1>4, <2>1, <2>2
<1>11. ASSUME NEW w \in Runs, NEW answer \in {"ok", "error", "permanent"}, NEW taken \in BOOLEAN,
              Send(w, answer, taken)
       PROVE  Goal
  <2>1. PICK j : j = run[w].cur
    OBVIOUS
  <2>2. Others(w) /\ run'[w].cur = j /\ run[w].answer = "none"
    BY <1>11, <2>1, SendRuns DEF Others
  <2>3. w \notin Answering(i) /\ (w \in Answering(i)' => i = j)
    BY <2>2 DEF Answering
  <2>4. calls'[j] = calls[j] + 1
    BY <1>11, <2>1, SendCounts
  <2>5. \/ Cardinality(Answering(i))' = Cardinality(Answering(i))
        \/ Cardinality(Answering(i))' = Cardinality(Answering(i)) + 1 /\ i = j
    BY <2>2, <2>3, HoldersMove
  <2> QED
    BY <1>1, <1>2, <2>4, <2>5 DEF Goal
<1>12. ASSUME NEW a \in Admins, Retry(a)
       PROVE  Goal
  <2>1. run' = OutOfReach(ask[a].job)
    BY <1>12 DEF Retry
  <2> QED
    BY <1>5, <2>1, RetryRuns
<1>13. Goal
  BY <1>6, <1>7, <1>8, <1>9, <1>10, <1>11, <1>12, StepKinds DEF Queue, Lapse, Ask, Cancel, vars
<1> QED
  BY <1>1, <1>13 DEF Goal

\* The attempts that the rows and the runs count stay below the calls.
LEMMA AttemptsStand ==
  ASSUME TypeOK, TypeOK', AttemptsAreCalls, AnswersAreTrue, [Next]_vars,
         \A i \in DOMAIN job' \cap Configured :
            \/ i \in DOMAIN job /\ job'[i].attempts = job[i].attempts
            \/ job'[i].attempts + Cardinality(Answering(i))' <= calls'[i],
         \A v \in DOMAIN run' : run'[v].cur \in Configured =>
            \/ v \in DOMAIN run /\ run'[v].cur = run[v].cur /\ run'[v].attempts = run[v].attempts
            \/ run'[v].cur \in DOMAIN job /\ run'[v].attempts = job[run'[v].cur].attempts
  PROVE  AttemptsAreCalls'
<1>1. ASSUME NEW i \in DOMAIN job' \cap Configured
      PROVE  job'[i].attempts + Cardinality(Answering(i))' <= calls'[i]
  <2>1. CASE i \in DOMAIN job /\ job'[i].attempts = job[i].attempts
    <3>1. job[i].attempts + Cardinality(Answering(i)) <= calls[i] /\ job[i].attempts \in Nat
      BY <2>1, JobRowType DEF AttemptsAreCalls, TypeOK
    <3>2. calls[i] \in Nat /\ calls'[i] \in Nat
      BY ConfiguredAssumption DEF TypeOK
    <3> QED
      BY <2>1, <3>1, <3>2, AnsweringStep
  <2> QED
    BY <2>1
<1>2. ASSUME NEW v \in DOMAIN run', NEW i \in Configured, run'[v].cur = i
      PROVE  run'[v].attempts + Cardinality(Answering(i))' <= calls'[i]
  <2>1. calls[i] \in Nat /\ calls'[i] \in Nat
    BY ConfiguredAssumption DEF TypeOK
  <2>2. CASE v \in DOMAIN run /\ run[v].cur = i /\ run'[v].attempts = run[v].attempts
    <3>1. run[v].attempts + Cardinality(Answering(i)) <= calls[i] /\ run[v].attempts \in Nat
      BY <2>2, RunRowType DEF AttemptsAreCalls, TypeOK
    <3> QED
      BY <2>1, <2>2, <3>1, AnsweringStep
  <2>3. CASE i \in DOMAIN job /\ run'[v].attempts = job[i].attempts
    <3>1. job[i].attempts + Cardinality(Answering(i)) <= calls[i] /\ job[i].attempts \in Nat
      BY <2>3, JobRowType DEF AttemptsAreCalls, TypeOK
    <3> QED
      BY <2>1, <2>3, <3>1, AnsweringStep
  <2> QED
    BY <1>2, <2>2, <2>3
<1> QED
  BY <1>1, <1>2 DEF AttemptsAreCalls

LEMMA AttemptsStep ==
  ASSUME TypeOK, TypeOK', AnswersAreTrue, AttemptsAreCalls, [Next]_vars
  PROVE  AttemptsAreCalls'
<1> DEFINE JobsPart == \A i \in DOMAIN job' \cap Configured :
              \/ i \in DOMAIN job /\ job'[i].attempts = job[i].attempts
              \/ job'[i].attempts + Cardinality(Answering(i))' <= calls'[i]
           RunsPart == \A v \in DOMAIN run' : run'[v].cur \in Configured =>
              \/ v \in DOMAIN run /\ run'[v].cur = run[v].cur /\ run'[v].attempts = run[v].attempts
              \/ run'[v].cur \in DOMAIN job /\ run'[v].attempts = job[run'[v].cur].attempts
<1>1. JobsPart /\ RunsPart => AttemptsAreCalls'
  BY AttemptsStand
<1>2. job' = job => JobsPart
  OBVIOUS
<1>3. run' = run => RunsPart
  OBVIOUS
<1>4. ASSUME NEW j \in Jobs, \A i \in Jobs \ {j} : JobKeeps(i),
             \/ j \in DOMAIN job /\ job'[j].attempts = job[j].attempts
             \/ j \in Configured => job'[j].attempts + Cardinality(Answering(j))' <= calls'[j]
      PROVE  JobsPart
  <2> SUFFICES ASSUME NEW i \in DOMAIN job' \cap Configured
               PROVE  \/ i \in DOMAIN job /\ job'[i].attempts = job[i].attempts
                      \/ job'[i].attempts + Cardinality(Answering(i))' <= calls'[i]
    OBVIOUS
  <2>1. CASE i = j
    BY <1>4, <2>1
  <2>2. CASE i /= j
    BY <1>4, <2>2, ConfiguredAssumption DEF JobKeeps
  <2> QED
    BY <2>1, <2>2
<1>5. ASSUME NEW w, Others(w),
             w \in DOMAIN run' =>
                \/ run'[w].cur = None
                \/ w \in DOMAIN run /\ run'[w].cur = run[w].cur /\ run'[w].attempts = run[w].attempts
                \/ run'[w].cur \in DOMAIN job /\ run'[w].attempts = job[run'[w].cur].attempts
      PROVE  RunsPart
  <2> SUFFICES ASSUME NEW v \in DOMAIN run', run'[v].cur \in Configured
               PROVE  \/ v \in DOMAIN run /\ run'[v].cur = run[v].cur /\ run'[v].attempts = run[v].attempts
                      \/ run'[v].cur \in DOMAIN job /\ run'[v].attempts = job[run'[v].cur].attempts
    OBVIOUS
  <2>1. CASE v = w
    BY <1>5, <2>1, ConfiguredAssumption, NoneAssumption
  <2>2. CASE v /= w
    BY <1>5, <2>2 DEF Others, Keeps
  <2> QED
    BY <2>1, <2>2
<1>6. (\A v \in DOMAIN run \cup DOMAIN run' : Keeps(v)) => RunsPart
  BY DEF Keeps
<1> HIDE DEF JobsPart, RunsPart
<1>7. ASSUME NEW j \in Jobs, Queue(j)
      PROVE  AttemptsAreCalls'
  <2>1. /\ j \notin DOMAIN job /\ \A i \in Jobs \ {j} : JobKeeps(i)
        /\ job'[j].attempts = 0 /\ run' = run /\ calls' = calls
    BY <1>7, QueueEffect
  <2>2. Answering(j)' = {}
    BY <2>1, NoneAssumption DEF Answering, TypeOK
  <2>3. Cardinality(Answering(j))' = 0
    BY <2>2, FS_EmptySet
  <2>4. calls'[j] \in Nat
    BY DEF TypeOK
  <2>5. job'[j].attempts + Cardinality(Answering(j))' <= calls'[j]
    BY <2>1, <2>3, <2>4
  <2> QED
    BY <1>1, <1>3, <1>4, <2>1, <2>5
<1>8. ASSUME NEW j \in Jobs, Lapse(j)
      PROVE  AttemptsAreCalls'
  <2>1. /\ j \in DOMAIN job /\ \A i \in Jobs \ {j} : JobKeeps(i)
        /\ job'[j].attempts = job[j].attempts /\ run' = run
    BY <1>8, LapseEffect
  <2> QED
    BY <1>1, <1>3, <1>4, <2>1
<1>9. ASSUME NEW w \in Runs, StartRun(w)
      PROVE  AttemptsAreCalls'
  <2>1. Others(w) /\ run'[w].cur = None /\ job' = job
    BY <1>9, StartRuns DEF Others, StartRun
  <2> QED
    BY <1>1, <1>2, <1>5, <2>1
<1>10. ASSUME NEW w \in Runs, EndRun(w) \/ Die(w)
       PROVE  AttemptsAreCalls'
  <2>1. w \in DOMAIN run /\ run' = Without(run, w) /\ job' = job
    BY <1>10 DEF EndRun, Die
  <2>2. Others(w) /\ w \notin DOMAIN run'
    BY <2>1, GoneRuns DEF Others
  <2> QED
    BY <1>1, <1>2, <1>5, <2>1, <2>2
<1>11. ASSUME NEW w \in Runs, Finish(w)
       PROVE  AttemptsAreCalls'
  <2>1. PICK j : j = run[w].cur
    OBVIOUS
  <2>2. /\ w \in DOMAIN run /\ j \in DOMAIN job /\ run' = Finished(w, j)
        /\ \A i \in Jobs \ {j} : JobKeeps(i)
        /\ calls' = calls
        /\ \/ j \notin Configured
           \/ run[w].answer /= "none" /\ job'[j].attempts = job[j].attempts + 1
           \/ run[w].answer /= "none" /\ job'[j].attempts = run[w].attempts + 1
    BY <1>11, <2>1, FinishEffect
  <2>3. Others(w) /\ run'[w].cur = None
    BY <2>2, FinishedRuns DEF Others
  <2>4. RunsPart
    BY <1>5, <2>3
  <2>5. j \in Jobs
    BY <2>2 DEF TypeOK
  <2>6. ASSUME j \in Configured
        PROVE  job'[j].attempts + Cardinality(Answering(j))' <= calls'[j]
    <3>1. w \in Answering(j) /\ w \notin Answering(j)'
      BY <2>1, <2>2, <2>3, <2>5, <2>6, NoneAssumption DEF Answering
    <3>2. PICK n \in Nat, m \in Nat : n = Cardinality(Answering(j)) /\ m = Cardinality(Answering(j))'
      BY <2>6, AnsweringStep
    <3>3. n = m + 1
      BY <2>3, <3>1, <3>2, HoldersMove
    <3>4. job[j].attempts + n <= calls[j] /\ run[w].attempts + n <= calls[j]
      BY <2>1, <2>2, <2>6, <3>2 DEF AttemptsAreCalls
    <3>5. calls[j] \in Nat /\ job[j].attempts \in Nat /\ run[w].attempts \in Nat
      BY <2>2, <2>5, JobRowType, RunRowType DEF TypeOK
    <3> QED
      BY <2>2, <2>6, <3>2, <3>3, <3>4, <3>5
  <2>7. JobsPart
    BY <1>4, <2>2, <2>5, <2>6
  <2> QED
    BY <1>1, <2>4, <2>7
<1>12. ASSUME NEW w \in Runs, NEW j \in Jobs, Claim(w, j)
       PROVE  AttemptsAreCalls'
  <2>1. /\ j \in DOMAIN job /\ \A i \in Jobs \ {j} : JobKeeps(i)
        /\ job'[j].attempts = job[j].attempts
    BY <1>12, ClaimJobs
  <2>2. Others(w) /\ run'[w].cur = j /\ run'[w].attempts = job[j].attempts
    BY <1>12, ClaimRuns DEF Others
  <2> QED
    BY <1>1, <1>4, <1>5, <2>1, <2>2
<1>13. ASSUME NEW w \in Runs, NEW answer \in {"ok", "error", "permanent"}, NEW taken \in BOOLEAN,
              Send(w, answer, taken)
       PROVE  AttemptsAreCalls'
  <2>1. Others(w) /\ w \in DOMAIN run /\ run'[w].cur = run[w].cur /\ run'[w].attempts = run[w].attempts
    BY <1>13, SendRuns DEF Others
  <2>2. job' = job
    BY <1>13 DEF Send
  <2> QED
    BY <1>1, <1>2, <1>5, <2>1, <2>2
<1>14. ASSUME NEW a \in Admins, Retry(a) \/ Cancel(a)
       PROVE  AttemptsAreCalls'
  <2>1. PICK j : j = ask[a].job
    OBVIOUS
  <2>2. /\ j \in DOMAIN job /\ \A i \in Jobs \ {j} : JobKeeps(i)
        /\ run' = run \/ run' = OutOfReach(j)
        /\ job'[j].attempts = job[j].attempts
    BY <1>14, <2>1, RetryEffect, CancelEffect
  <2>3. j \in Jobs
    BY <2>2 DEF TypeOK
  <2>4. RunsPart
    BY <1>6, <2>2, SameRuns, RetryRuns
  <2> QED
    BY <1>1, <1>4, <2>2, <2>3, <2>4
<1>15. ASSUME job' = job, run' = run
       PROVE  AttemptsAreCalls'
  BY <1>1, <1>2, <1>3, <1>15
<1> QED
  BY <1>7, <1>8, <1>9, <1>10, <1>11, <1>12, <1>13, <1>14, <1>15, StepKinds DEF Ask, vars

LEMMA RecordStep ==
  ASSUME TypeOK, TypeOK', AnswersAreTrue, AttemptsAreCalls, LimitsStand, RecordIsHonest, [Next]_vars
  PROVE  RecordIsHonest'
<1> DEFINE Honest(i) == /\ job'[i].status = "FAILED" => i \in refused' \/ calls'[i] >= MaxAttempts
                        /\ job'[i].status = "SENT" => accepted'[i] > 0
<1>1. (\A i \in DOMAIN job' : Honest(i)) => RecordIsHonest'
  BY DEF RecordIsHonest
<1>2. ASSUME NEW i \in DOMAIN job', i \in DOMAIN job, job'[i].status = job[i].status
      PROVE  Honest(i)
  <2>1. i \in Jobs
    BY <1>2 DEF TypeOK
  <2>2. /\ calls[i] \in Nat /\ accepted[i] \in Nat /\ calls'[i] \in Nat /\ accepted'[i] \in Nat
        /\ calls'[i] >= calls[i] /\ accepted'[i] >= accepted[i] /\ refused \subseteq refused'
    BY <2>1, CountsStand DEF TypeOK
  <2>3. /\ job[i].status = "FAILED" => i \in refused \/ calls[i] >= MaxAttempts
        /\ job[i].status = "SENT" => accepted[i] > 0
    BY <1>2 DEF RecordIsHonest
  <2> QED
    BY <1>2, <2>2, <2>3, AttemptsAssumption
<1>3. ASSUME NEW j \in Jobs, \A i \in Jobs \ {j} : JobKeeps(i), j \in DOMAIN job' => Honest(j)
      PROVE  RecordIsHonest'
  <2> SUFFICES ASSUME NEW i \in DOMAIN job'
               PROVE  Honest(i)
    BY <1>1
  <2>1. CASE i = j
    BY <1>3, <2>1
  <2>2. CASE i /= j
    <3>1. i \in DOMAIN job /\ job'[i] = job[i]
      BY <1>3, <2>2 DEF JobKeeps, TypeOK
    <3> QED
      BY <1>2, <3>1
  <2> QED
    BY <2>1, <2>2
<1>4. ASSUME job' = job
      PROVE  RecordIsHonest'
  BY <1>1, <1>2, <1>4
<1>5. ASSUME NEW j, job'[j].status \in {"PENDING", "SKIPPED"}
      PROVE  Honest(j)
  BY <1>5
<1> HIDE DEF Honest
<1>6. ASSUME NEW j \in Jobs, Queue(j) \/ Lapse(j)
      PROVE  RecordIsHonest'
  <2>1. (\A i \in Jobs \ {j} : JobKeeps(i)) /\ job'[j].status = "PENDING"
    BY <1>6, QueueEffect, LapseEffect
  <2> QED
    BY <1>3, <1>5, <2>1
<1>7. ASSUME NEW w \in Runs, NEW j \in Jobs, Claim(w, j)
      PROVE  RecordIsHonest'
  <2>1. /\ j \in DOMAIN job /\ \A i \in Jobs \ {j} : JobKeeps(i)
        /\ job'[j].status = job[j].status
    BY <1>7, ClaimJobs
  <2> QED
    BY <1>2, <1>3, <2>1
<1>8. ASSUME NEW a \in Admins, Retry(a) \/ Cancel(a)
      PROVE  RecordIsHonest'
  <2>1. PICK j : j = ask[a].job
    OBVIOUS
  <2>2. /\ j \in DOMAIN job /\ \A i \in Jobs \ {j} : JobKeeps(i)
        /\ job'[j].status \in {"PENDING", "SKIPPED"}
    BY <1>8, <2>1, RetryEffect, CancelEffect
  <2>3. j \in Jobs
    BY <2>2 DEF TypeOK
  <2> QED
    BY <1>3, <1>5, <2>2, <2>3
<1>9. ASSUME NEW w \in Runs, Finish(w)
      PROVE  RecordIsHonest'
  <2>1. PICK j : j = run[w].cur
    OBVIOUS
  <2>2. /\ w \in DOMAIN run /\ j \in DOMAIN job /\ \A i \in Jobs \ {j} : JobKeeps(i)
        /\ UNCHANGED <<calls, accepted, refused>>
        /\ \/ job'[j].status \in {"SKIPPED", job[j].status}
           \/ run[w].answer = "ok" /\ job'[j].status = "SENT"
           \/ run[w].answer \in {"error", "permanent"} /\ Exhausted(w) /\ job'[j].status = "FAILED"
    BY <1>9, <2>1, FinishEffect
  <2>3. j \in Jobs
    BY <2>2 DEF TypeOK
  <2>4. CASE job'[j].status \in {"SKIPPED", job[j].status}
    BY <1>2, <1>3, <1>5, <2>2, <2>3, <2>4
  <2>5. CASE run[w].answer = "ok" /\ job'[j].status = "SENT"
    <3>1. accepted'[j] > 0
      BY <2>1, <2>2, <2>5 DEF AnswersAreTrue
    <3>2. Honest(j)
      BY <2>5, <3>1 DEF Honest
    <3> QED
      BY <1>3, <2>2, <2>3, <3>2
  <2>6. CASE run[w].answer \in {"error", "permanent"} /\ Exhausted(w) /\ job'[j].status = "FAILED"
    <3>1. j \in Configured /\ (run[w].answer = "permanent" => j \in refused)
      BY <2>1, <2>2, <2>6 DEF AnswersAreTrue
    <3>2. ASSUME run[w].attempts + 1 >= run[w].max
          PROVE  calls[j] >= MaxAttempts
      <4>1. w \in Answering(j)
        BY <2>1, <2>2, <2>6 DEF Answering
      <4>2. PICK n : n = Cardinality(Answering(j))
        OBVIOUS
      <4>3. n \in Nat /\ n /= 0
        BY <4>1, <4>2, HoldersAreFinite, FS_CardinalityType, FS_EmptySet
      <4>4. run[w].attempts + n <= calls[j]
        BY <2>1, <2>2, <3>1, <4>2 DEF AttemptsAreCalls
      <4>5. run[w].max >= MaxAttempts
        BY <2>1, <2>2, <2>3, NoneAssumption DEF LimitsStand
      <4>6. run[w].attempts \in Nat /\ run[w].max \in Nat /\ calls[j] \in Nat
        BY <2>2, <2>3, RunRowType DEF TypeOK
      <4> QED
        BY <3>2, <4>3, <4>4, <4>5, <4>6, AttemptsAssumption
    <3>3. j \in refused \/ calls[j] >= MaxAttempts
      BY <2>6, <3>1, <3>2 DEF Exhausted
    <3>4. Honest(j)
      BY <2>2, <2>6, <3>3 DEF Honest
    <3> QED
      BY <1>3, <2>2, <2>3, <3>4
  <2> QED
    BY <2>2, <2>4, <2>5, <2>6
<1> QED
  BY <1>2, <1>4, <1>6, <1>7, <1>8, <1>9, StepKinds DEF StartRun, EndRun, Die, Send, Ask, vars

-----------------------------------------------------------------------------
(* No message is sent twice, while a lease outlives its run. *)

LEMMA HeldMoves ==
  ASSUME NEW w, Others(w), NEW i,
         (w \in DOMAIN run /\ run[w].cur = i) <=> (w \in DOMAIN run' /\ run'[w].cur = i)
  PROVE  Held(i)' <=> Held(i)
<1>1. Held(i)' <=> \E v \in DOMAIN run' : run'[v].cur = i
  BY DEF Held
<1> QED
  BY <1>1 DEF Others, Keeps, Held

LEMMA SendsStep ==
  ASSUME PromptRuns, TypeOK, TypeOK', ReachIsDue, AnswersAreTrue, SendsAreLimited, [Next]_vars
  PROVE  SendsAreLimited'
<1> DEFINE Limit(i) == accepted'[i] + Cardinality(Holding(i))' + ToCome(i)' <= 1 + unsure'[i]
<1> SUFFICES ASSUME NEW i \in Jobs
             PROVE  Limit(i)
  BY DEF SendsAreLimited, Holding, ToCome
<1>1. PICK a, b, h, k, s, t, u, v :
         /\ a = accepted[i] /\ b = accepted'[i]
         /\ h = Cardinality(Holding(i)) /\ k = Cardinality(Holding(i))'
         /\ s = ToCome(i) /\ t = ToCome(i)'
         /\ u = unsure[i] /\ v = unsure'[i]
  OBVIOUS
<1>2. a \in Nat /\ b \in Nat /\ u \in Nat /\ v \in Nat /\ h \in Nat /\ k \in Nat
  <2>1. Holding(i)' \subseteq Runs
    BY DEF Holding, TypeOK
  <2>2. IsFiniteSet(Holding(i)')
    BY <2>1, RunsAssumption, FS_Subset
  <2>3. Cardinality(Holding(i)) \in Nat /\ Cardinality(Holding(i)') \in Nat
    BY <2>2, HoldersAreFinite, FS_CardinalityType
  <2> QED
    BY <1>1, <2>3 DEF TypeOK
<1>3. s \in {0, 1} /\ t \in {0, 1}
  BY <1>1 DEF ToCome
<1>4. a + h + s <= 1 + u
  BY <1>1 DEF SendsAreLimited
<1>5. Limit(i) <=> b + k + t <= 1 + v
  BY <1>1
<1> HIDE DEF Limit
\* The job is left alone.
<1>6. ASSUME JobKeeps(i), Held(i)' <=> Held(i)
      PROVE  t = s
  BY <1>1, <1>6 DEF ToCome, JobKeeps, IsPending
\* The job has ended.
<1>7. ASSUME i \in DOMAIN job', job'[i].status /= "PENDING"
      PROVE  t = 0
  BY <1>1, <1>7 DEF ToCome, IsPending
<1>8. job' = job => JobKeeps(i)
  BY DEF JobKeeps
<1>9. UNCHANGED accepted => b = a
  BY <1>1
<1>10. UNCHANGED unsure => v = u
  BY <1>1
\* A run that neither held the job nor holds it.
<1>11. ASSUME NEW w, Others(w), w \in DOMAIN run => run[w].cur /= i,
              w \in DOMAIN run' => run'[w].cur /= i
       PROVE  k = h /\ (Held(i)' <=> Held(i))
  <2>1. w \notin Holding(i) /\ w \notin Holding(i)'
    BY <1>11 DEF Holding
  <2>2. k = h
    BY <1>1, <1>11, <2>1, HoldersMove
  <2> QED
    BY <1>11, <2>2, HeldMoves
<1>12. ASSUME \A w \in DOMAIN run \cup DOMAIN run' : Keeps(w)
       PROVE  k = h /\ (Held(i)' <=> Held(i))
  BY <1>1, <1>12, HoldersStay
<1>13. ASSUME run' = run, UNCHANGED <<accepted, unsure>>, JobKeeps(i)
       PROVE  Limit(i)
  BY <1>4, <1>5, <1>6, <1>9, <1>10, <1>12, <1>13, SameRuns
<1>14. ASSUME NEW j \in Jobs, Queue(j)
       PROVE  Limit(i)
  <2>1. /\ j \notin DOMAIN job /\ run' = run /\ UNCHANGED <<accepted, unsure>>
        /\ \A n \in Jobs \ {j} : JobKeeps(n)
    BY <1>14, QueueEffect
  <2>2. CASE i = j
    <3>1. s = 1
      BY <1>1, <2>1, <2>2 DEF ToCome
    <3>2. b = a /\ v = u /\ k = h
      BY <1>9, <1>10, <1>12, <2>1, SameRuns
    <3> QED
      BY <1>2, <1>3, <1>4, <1>5, <3>1, <3>2
  <2> QED
    BY <1>13, <2>1, <2>2
<1>15. ASSUME NEW j \in Jobs, Lapse(j)
       PROVE  Limit(i)
  <2>1. /\ j \in DOMAIN job /\ run' = run /\ UNCHANGED <<accepted, unsure>>
        /\ \A n \in Jobs \ {j} : JobKeeps(n)
    BY <1>15, LapseEffect
  <2>2. CASE i = j
    <3>1. IsPending(j) /\ ~Held(j)
      BY <1>15 DEF Lapse, Held
    <3>2. s = 1
      BY <1>1, <2>2, <3>1 DEF ToCome
    <3>3. b = a /\ v = u /\ k = h
      BY <1>9, <1>10, <1>12, <2>1, SameRuns
    <3> QED
      BY <1>2, <1>3, <1>4, <1>5, <3>2, <3>3
  <2> QED
    BY <1>13, <2>1, <2>2
<1>16. ASSUME NEW w \in Runs, StartRun(w)
       PROVE  Limit(i)
  <2>1. Others(w) /\ w \notin DOMAIN run /\ run'[w].cur = None
    BY <1>16, StartRuns DEF Others
  <2>2. job' = job /\ UNCHANGED <<accepted, unsure>>
    BY <1>16 DEF StartRun, history
  <2>3. k = h /\ (Held(i)' <=> Held(i))
    BY <1>11, <2>1, NoneAssumption
  <2> QED
    BY <1>4, <1>5, <1>6, <1>8, <1>9, <1>10, <2>2, <2>3
<1>17. ASSUME NEW w \in Runs, EndRun(w)
       PROVE  Limit(i)
  <2>1. /\ w \in DOMAIN run /\ run' = Without(run, w) /\ run[w].cur = None
        /\ job' = job /\ UNCHANGED <<accepted, unsure>>
    BY <1>17 DEF EndRun, history
  <2>2. Others(w) /\ w \notin DOMAIN run'
    BY <2>1, GoneRuns DEF Others
  <2>3. k = h /\ (Held(i)' <=> Held(i))
    BY <1>11, <2>1, <2>2, NoneAssumption
  <2> QED
    BY <1>4, <1>5, <1>6, <1>8, <1>9, <1>10, <2>1, <2>3
\* An acceptance that the run has not recorded becomes an unsure one.
<1>18. ASSUME NEW w \in Runs, Die(w)
       PROVE  Limit(i)
  <2>1. PICK j : j = run[w].cur
    OBVIOUS
  <2>2. /\ w \in DOMAIN run /\ run' = Without(run, w) /\ job' = job /\ UNCHANGED accepted
        /\ \A n \in Jobs \ {j} : unsure'[n] = unsure[n]
        /\ j \in Jobs => IF run[w].answer = "ok" THEN unsure'[j] = unsure[j] + 1
                                                 ELSE unsure'[j] = unsure[j]
    BY <1>18, <2>1, DieCounts
  <2>3. Others(w) /\ w \notin DOMAIN run'
    BY <2>2, GoneRuns DEF Others
  <2>4. CASE i = j
    <3>1. w \notin Holding(i)' /\ (w \in Holding(i) <=> run[w].answer /= "ok")
      BY <2>1, <2>2, <2>3, <2>4 DEF Holding
    <3>2. k = h \/ h = k + 1
      BY <1>1, <2>3, <3>1, HoldersMove
    <3>3. run[w].answer /= "ok" => h = k + 1
      BY <1>1, <2>3, <3>1, HoldersMove
    <3>4. IF run[w].answer = "ok" THEN v = u + 1 ELSE v = u
      BY <1>1, <2>2, <2>4
    <3> QED
      BY <1>2, <1>3, <1>4, <1>5, <1>9, <2>2, <3>2, <3>3, <3>4
  <2>5. CASE i /= j
    <3>1. k = h /\ (Held(i)' <=> Held(i))
      BY <1>11, <2>1, <2>3, <2>5
    <3>2. v = u
      BY <1>1, <2>2, <2>5
    <3> QED
      BY <1>4, <1>5, <1>6, <1>8, <1>9, <2>2, <3>1, <3>2
  <2> QED
    BY <2>4, <2>5
<1>19. ASSUME NEW w \in Runs, Finish(w)
       PROVE  Limit(i)
  <2>1. PICK j : j = run[w].cur
    OBVIOUS
  <2>2. /\ w \in DOMAIN run /\ j \in DOMAIN job /\ run' = Finished(w, j)
        /\ DOMAIN job' = DOMAIN job /\ \A n \in Jobs \ {j} : JobKeeps(n)
        /\ UNCHANGED <<accepted, unsure>>
        /\ \/ job'[j].status \in {"SKIPPED", "SENT", "FAILED"}
           \/ run[w].answer \in {"error", "permanent"}
    BY <1>19, <2>1, FinishEffect
  <2>3. Others(w) /\ run'[w].cur = None
    BY <2>2, FinishedRuns DEF Others
  <2>4. CASE i = j
    <3>1. w \notin Holding(i)' /\ (w \in Holding(i) <=> run[w].answer /= "ok")
      BY <2>1, <2>2, <2>3, <2>4, NoneAssumption DEF Holding
    <3>2. k = h \/ h = k + 1
      BY <1>1, <2>3, <3>1, HoldersMove
    <3>3. run[w].answer /= "ok" => h = k + 1
      BY <1>1, <2>3, <3>1, HoldersMove
    <3>4. job'[j].status \in {"SKIPPED", "SENT", "FAILED"} => t = 0
      BY <1>7, <2>2, <2>4
    <3> QED
      BY <1>2, <1>3, <1>4, <1>5, <1>9, <1>10, <2>2, <3>2, <3>3, <3>4
  <2>5. CASE i /= j
    <3>1. k = h /\ (Held(i)' <=> Held(i))
      BY <1>11, <2>1, <2>3, <2>5, NoneAssumption
    <3> QED
      BY <1>4, <1>5, <1>6, <1>9, <1>10, <2>2, <2>5, <3>1
  <2> QED
    BY <2>4, <2>5
\* The send to come is now the run's.
<1>20. ASSUME NEW w \in Runs, NEW j \in Jobs, Claim(w, j)
       PROVE  Limit(i)
  <2>1. /\ w \in DOMAIN run /\ run[w].cur = None /\ j \in run[w].may /\ IsPending(j)
        /\ Others(w) /\ DOMAIN run' = DOMAIN run /\ run'[w].cur = j
        /\ run'[w].answer = run[w].answer
    BY <1>20, ClaimRuns DEF Others
  <2>2. /\ DOMAIN job' = DOMAIN job /\ \A n \in Jobs \ {j} : JobKeeps(n)
        /\ ~job'[j].due
    BY <1>20, ClaimJobs
  <2>3. ~job'[j].due
    BY <1>20, ClaimJobs
  <2>4. UNCHANGED <<accepted, unsure>>
    BY <1>20 DEF Claim, history
  <2>5. CASE i = j
    <3>1. s = 1
      BY <1>1, <2>1, <2>5 DEF ToCome, ReachIsDue
    <3>2. w \notin Holding(i)
      BY <2>1, NoneAssumption DEF Holding
    <3>3. k = h \/ k = h + 1
      BY <1>1, <2>1, <3>2, HoldersMove
    <3>4. Held(i)'
      BY <2>1, <2>5 DEF Held
    <3>5. t = 0
      BY <1>1, <2>1, <2>2, <2>3, <2>5, <3>4 DEF ToCome, IsPending
    <3> QED
      BY <1>2, <1>3, <1>4, <1>5, <1>9, <1>10, <2>4, <3>1, <3>3, <3>5
  <2>6. CASE i /= j
    <3>1. k = h /\ (Held(i)' <=> Held(i))
      BY <1>11, <2>1, <2>6, NoneAssumption
    <3> QED
      BY <1>4, <1>5, <1>6, <1>9, <1>10, <2>2, <2>4, <2>6, <3>1
  <2> QED
    BY <2>5, <2>6
<1>21. ASSUME NEW w \in Runs, NEW answer \in {"ok", "error", "permanent"}, NEW taken \in BOOLEAN,
              Send(w, answer, taken)
       PROVE  Limit(i)
  <2>1. PICK j : j = run[w].cur
    OBVIOUS
  <2>2. /\ w \in DOMAIN run /\ run[w].answer = "none" /\ Others(w) /\ DOMAIN run' = DOMAIN run
        /\ run'[w].cur = j /\ run'[w].answer = answer
    BY <1>21, <2>1, SendRuns DEF Others
  <2>3. /\ \A n \in Jobs \ {j} : accepted'[n] = accepted[n] /\ unsure'[n] = unsure[n]
        /\ \/ answer = "ok" /\ accepted'[j] = accepted[j] + 1 /\ unsure'[j] = unsure[j]
           \/ answer /= "ok" /\ accepted'[j] = accepted[j] /\ unsure'[j] = unsure[j]
           \/ answer /= "ok" /\ accepted'[j] = accepted[j] + 1 /\ unsure'[j] = unsure[j] + 1
        /\ job' = job
    BY <1>21, <2>1, SendCounts
  <2>4. Held(i)' <=> Held(i)
    BY <2>1, <2>2, HeldMoves
  <2>5. t = s
    BY <1>6, <1>8, <2>3, <2>4
  <2>6. CASE i = j
    <3>1. w \in Holding(i) /\ (w \in Holding(i)' <=> answer /= "ok")
      BY <2>1, <2>2, <2>6 DEF Holding
    <3>2. (answer = "ok" /\ h = k + 1) \/ (answer /= "ok" /\ k = h)
      BY <1>1, <2>2, <3>1, HoldersMove
    <3>3. \/ answer = "ok" /\ b = a + 1 /\ v = u
          \/ answer /= "ok" /\ b = a /\ v = u
          \/ answer /= "ok" /\ b = a + 1 /\ v = u + 1
      BY <1>1, <2>3, <2>6
    <3> QED
      BY <1>2, <1>3, <1>4, <1>5, <2>5, <3>2, <3>3
  <2>7. CASE i /= j
    <3>1. k = h
      BY <1>11, <2>1, <2>2, <2>7
    <3>2. b = a /\ v = u
      BY <1>1, <2>3, <2>7
    <3> QED
      BY <1>4, <1>5, <2>5, <3>1, <3>2
  <2> QED
    BY <2>6, <2>7
\* A retry is counted as unsure, and adds one send at most.
<1>22. ASSUME NEW r \in Admins, Retry(r)
       PROVE  Limit(i)
  <2>1. PICK j : j = ask[r].job
    OBVIOUS
  <2>2. /\ j \in DOMAIN job /\ \A n \in Jobs \ {j} : JobKeeps(n)
        /\ run' = OutOfReach(j) /\ UNCHANGED accepted
        /\ unsure' = [unsure EXCEPT ![j] = unsure[j] + 1]
    BY <1>22, <2>1, RetryEffect
  <2>3. k = h /\ (Held(i)' <=> Held(i))
    BY <1>12, <2>2, RetryRuns
  <2>4. CASE i = j
    <3>1. v = u + 1
      BY <1>1, <2>2, <2>4 DEF TypeOK
    <3> QED
      BY <1>2, <1>3, <1>4, <1>5, <1>9, <2>2, <2>3, <3>1
  <2>5. CASE i /= j
    <3>1. v = u
      BY <1>1, <2>2, <2>5 DEF TypeOK
    <3> QED
      BY <1>4, <1>5, <1>6, <1>9, <2>2, <2>3, <2>5, <3>1
  <2> QED
    BY <2>4, <2>5
<1>23. ASSUME NEW r \in Admins, Cancel(r)
       PROVE  Limit(i)
  <2>1. PICK j : j = ask[r].job
    OBVIOUS
  <2>2. /\ j \in DOMAIN job /\ DOMAIN job' = DOMAIN job /\ \A n \in Jobs \ {j} : JobKeeps(n)
        /\ job'[j].status = "SKIPPED" /\ run' = run /\ UNCHANGED <<accepted, unsure>>
    BY <1>23, <2>1, CancelEffect
  <2>3. CASE i = j
    <3>1. t = 0
      BY <1>7, <2>2, <2>3
    <3>2. b = a /\ v = u /\ k = h
      BY <1>9, <1>10, <1>12, <2>2, SameRuns
    <3> QED
      BY <1>2, <1>3, <1>4, <1>5, <3>1, <3>2
  <2> QED
    BY <1>13, <2>2, <2>3
<1>24. ASSUME job' = job, run' = run, UNCHANGED <<accepted, unsure>>
       PROVE  Limit(i)
  BY <1>8, <1>13, <1>24
<1> QED
  BY <1>14, <1>15, <1>16, <1>17, <1>18, <1>19, <1>20, <1>21, <1>22, <1>23, <1>24, StepKinds
     DEF Ask, vars, history

-----------------------------------------------------------------------------
(* The budget of a job. *)

LEMMA BudgetSets ==
  ASSUME TypeOK, NEW j
  PROVE  /\ IsFiniteSet(Holders(j)) /\ IsFiniteSet(Unsent(j)) /\ IsFiniteSet(Open(j))
         /\ Cardinality(Holders(j)) \in Nat /\ Cardinality(Unsent(j)) \in Nat
         /\ Cardinality(Open(j)) \in Nat
         /\ Held(j) <=> Holders(j) /= {}
<1>1. Holders(j) \subseteq Runs /\ Unsent(j) \subseteq Runs /\ Open(j) \subseteq Admins
  BY DEF TypeOK, Holders, Unsent, Open
<1>2. IsFiniteSet(Holders(j)) /\ IsFiniteSet(Unsent(j)) /\ IsFiniteSet(Open(j))
  BY <1>1, RunsAssumption, AdminsAssumption, FS_Subset
<1>3. Held(j) <=> Holders(j) /= {}
  BY DEF Held, Holders
<1> QED
  BY <1>2, <1>3, FS_CardinalityType

\* A step of the run w moves the number of runs that hold a job, and of those that
\* have not called the provider, as the run itself comes and goes.
LEMMA BudgetMoves ==
  ASSUME TypeOK, TypeOK', NEW w, Others(w), NEW j
  PROVE  /\ (w \in Holders(j) <=> w \in Holders(j)') =>
               Cardinality(Holders(j))' = Cardinality(Holders(j))
         /\ (w \in Holders(j) /\ w \notin Holders(j)') =>
               Cardinality(Holders(j)) = Cardinality(Holders(j))' + 1
         /\ (w \notin Holders(j) /\ w \in Holders(j)') =>
               Cardinality(Holders(j))' = Cardinality(Holders(j)) + 1
         /\ (w \in Unsent(j) <=> w \in Unsent(j)') =>
               Cardinality(Unsent(j))' = Cardinality(Unsent(j))
         /\ (w \in Unsent(j) /\ w \notin Unsent(j)') =>
               Cardinality(Unsent(j)) = Cardinality(Unsent(j))' + 1
         /\ (w \notin Unsent(j) /\ w \in Unsent(j)') =>
               Cardinality(Unsent(j))' = Cardinality(Unsent(j)) + 1
         /\ \A v : v /= w => /\ v \in Holders(j)' <=> v \in Holders(j)
                             /\ v \in Holders(j) => run'[v].attempts = run[v].attempts
<1>1. Holders(j)' = {v \in DOMAIN run' : run'[v].cur = j}
  BY DEF Holders
<1>2. Unsent(j)' = {v \in DOMAIN run' : run'[v].cur = j /\ run'[v].answer = "none"}
  BY DEF Unsent, Holders
<1>3. Unsent(j) = {v \in DOMAIN run : run[v].cur = j /\ run[v].answer = "none"}
  BY DEF Unsent, Holders
<1>4. IsFiniteSet(Holders(j)) /\ IsFiniteSet(Unsent(j))
  BY BudgetSets
<1>5. Holders(j)' \subseteq Runs /\ Unsent(j)' \subseteq Runs
  BY <1>1, <1>2 DEF TypeOK
<1>6. IsFiniteSet(Holders(j)') /\ IsFiniteSet(Unsent(j)')
  BY <1>5, RunsAssumption, FS_Subset
<1>7. \A v : v /= w => /\ v \in Holders(j)' <=> v \in Holders(j)
                       /\ v \in Unsent(j)' <=> v \in Unsent(j)
                       /\ v \in Holders(j) => run'[v].attempts = run[v].attempts
  BY <1>1, <1>2, <1>3 DEF Others, Keeps, Holders
<1>8. PICK S, T, A, B : S = Holders(j) /\ T = Holders(j)' /\ A = Unsent(j) /\ B = Unsent(j)'
  OBVIOUS
<1>9. /\ IsFiniteSet(S) /\ IsFiniteSet(T) /\ S \ {w} = T \ {w}
      /\ IsFiniteSet(A) /\ IsFiniteSet(B) /\ A \ {w} = B \ {w}
  BY <1>4, <1>6, <1>7, <1>8
<1>10. /\ (w \in S <=> w \in T) => Cardinality(T) = Cardinality(S)
       /\ (w \in S /\ w \notin T) => Cardinality(S) = Cardinality(T) + 1
       /\ (w \notin S /\ w \in T) => Cardinality(T) = Cardinality(S) + 1
  BY <1>9, CountMoves
<1>11. /\ (w \in A <=> w \in B) => Cardinality(B) = Cardinality(A)
       /\ (w \in A /\ w \notin B) => Cardinality(A) = Cardinality(B) + 1
       /\ (w \notin A /\ w \in B) => Cardinality(B) = Cardinality(A) + 1
  BY <1>9, CountMoves
<1>12. Cardinality(Holders(j))' = Cardinality(T) /\ Cardinality(Unsent(j))' = Cardinality(B)
  BY <1>8
<1> QED
  BY <1>7, <1>8, <1>10, <1>11, <1>12

\* No run changes what it holds.
LEMMA BudgetStays ==
  ASSUME \A v \in DOMAIN run \cup DOMAIN run' : Keeps(v), NEW j
  PROVE  /\ Holders(j)' = Holders(j) /\ Unsent(j)' = Unsent(j)
         /\ \A v \in Holders(j) : run'[v].attempts = run[v].attempts
<1>1. Holders(j)' = {v \in DOMAIN run' : run'[v].cur = j}
  BY DEF Holders
<1>2. Unsent(j)' = {v \in DOMAIN run' : run'[v].cur = j /\ run'[v].answer = "none"}
  BY DEF Unsent, Holders
<1> QED
  BY <1>1, <1>2 DEF Keeps, Holders, Unsent

\* An administrator's request is made, or written.
LEMMA OpenMoves ==
  ASSUME TypeOK, TypeOK', NEW a, DOMAIN ask \ {a} = DOMAIN ask' \ {a},
         \A b \in DOMAIN ask \ {a} : ask'[b] = ask[b], NEW j
  PROVE  /\ (a \in Open(j) <=> a \in Open(j)') => Cardinality(Open(j))' = Cardinality(Open(j))
         /\ (a \in Open(j) /\ a \notin Open(j)') => Cardinality(Open(j)) = Cardinality(Open(j))' + 1
         /\ (a \notin Open(j) /\ a \in Open(j)') => Cardinality(Open(j))' = Cardinality(Open(j)) + 1
<1>1. Open(j)' = {b \in DOMAIN ask' : ask'[b].job = j}
  BY DEF Open
<1>2. Open(j)' \subseteq Admins
  BY <1>1 DEF TypeOK
<1>3. IsFiniteSet(Open(j)) /\ IsFiniteSet(Open(j)')
  BY <1>2, BudgetSets, AdminsAssumption, FS_Subset
<1>4. Open(j) \ {a} = Open(j)' \ {a}
  BY <1>1 DEF Open
<1>5. PICK S, T : S = Open(j) /\ T = Open(j)'
  OBVIOUS
<1>6. /\ (a \in S <=> a \in T) => Cardinality(T) = Cardinality(S)
      /\ (a \in S /\ a \notin T) => Cardinality(S) = Cardinality(T) + 1
      /\ (a \notin S /\ a \in T) => Cardinality(T) = Cardinality(S) + 1
  BY <1>3, <1>4, <1>5, CountMoves
<1> QED
  BY <1>5, <1>6

\* Every step keeps the calls of a job within every count of its attempts, and
\* those counts within the limit.
LEMMA PaceStep ==
  ASSUME PromptRuns, TypeOK, TypeOK', ReachIsDue, CallsKeepPace, AttemptsKeepPace, LimitsKeepPace,
         [Next]_vars, NEW i \in DOMAIN job'
  PROVE  \A n \in Counts(i)' :
            /\ calls'[i] + Cardinality(Unsent(i))' + One(Due(i))' + Cardinality(Open(i))'
                  <= n + One(Due(i) \/ Held(i))' + asks'[i] + deaths'
            /\ n + Cardinality(Holders(i))' + ToCome(i)' + Cardinality(Open(i))' <= MaxAttempts + asks'[i]
<1>0. i \in Jobs /\ job'[i] \in JobRows
  BY DEF TypeOK
<1>1. PICK c, u, h, o, q, d, f, e, s :
         /\ c = calls[i] /\ u = Cardinality(Unsent(i)) /\ h = Cardinality(Holders(i))
         /\ o = Cardinality(Open(i)) /\ q = asks[i] /\ d = deaths
         /\ f = One(Due(i)) /\ e = One(Due(i) \/ Held(i)) /\ s = ToCome(i)
  OBVIOUS
<1>2. PICK cc, uu, hh, oo, qq, dd, ff, ee, ss :
         /\ cc = calls'[i] /\ uu = Cardinality(Unsent(i))' /\ hh = Cardinality(Holders(i))'
         /\ oo = Cardinality(Open(i))' /\ qq = asks'[i] /\ dd = deaths'
         /\ ff = One(Due(i))' /\ ee = One(Due(i) \/ Held(i))' /\ ss = ToCome(i)'
  OBVIOUS
<1> DEFINE Goal == \A n \in Counts(i)' : /\ cc + uu + ff + oo <= n + ee + qq + dd
                                         /\ n + hh + ss + oo <= MaxAttempts + qq
<1> SUFFICES Goal
  BY <1>2
<1> HIDE DEF Goal
<1>3. /\ c \in Nat /\ u \in Nat /\ h \in Nat /\ o \in Nat /\ q \in Nat /\ d \in Nat
      /\ f \in {0, 1} /\ e \in {0, 1} /\ s \in {0, 1} /\ MaxAttempts \in Nat
  BY <1>0, <1>1, BudgetSets, AttemptsAssumption DEF TypeOK, One, ToCome
<1>4. /\ cc \in Nat /\ uu \in Nat /\ hh \in Nat /\ oo \in Nat /\ qq \in Nat /\ dd \in Nat
      /\ ff \in {0, 1} /\ ee \in {0, 1} /\ ss \in {0, 1}
  <2>1. cc \in Nat /\ qq \in Nat /\ dd \in Nat
    BY <1>0, <1>2 DEF TypeOK
  <2>2. ff \in {0, 1} /\ ee \in {0, 1} /\ ss \in {0, 1}
    BY <1>2 DEF One, ToCome
  <2>3. /\ Holders(i)' \subseteq Runs /\ Unsent(i)' \subseteq Runs /\ Open(i)' \subseteq Admins
    BY DEF TypeOK, Holders, Unsent, Open
  <2>4. IsFiniteSet(Holders(i)') /\ IsFiniteSet(Unsent(i)') /\ IsFiniteSet(Open(i)')
    BY <2>3, RunsAssumption, AdminsAssumption, FS_Subset
  <2>5. Cardinality(Holders(i)') \in Nat /\ Cardinality(Unsent(i)') \in Nat /\ Cardinality(Open(i)') \in Nat
    BY <2>4, FS_CardinalityType
  <2> QED
    BY <1>2, <2>1, <2>2, <2>5
\* What the counts are.
<1>5. Counts(i)' = {job'[i].attempts} \cup {run'[v].attempts : v \in Holders(i)'}
  BY DEF Counts
<1>6. i \in DOMAIN job => Counts(i) \subseteq Nat
  BY <1>0, JobRowType, RunRowType DEF Counts, Holders, TypeOK
<1>7. ASSUME i \in DOMAIN job, NEW n \in Counts(i)
      PROVE  n \in Nat /\ c + u + f + o <= n + e + q + d /\ n + h + s + o <= MaxAttempts + q
  BY <1>1, <1>6, <1>7 DEF CallsKeepPace, AttemptsKeepPace
\* What the bits are, before and after.
<1>8. /\ f <= e
      /\ Held(i) => e = 1
      /\ (i \in DOMAIN job /\ Due(i)) => f = 1 /\ e = 1 /\ s = 1
      /\ i \in DOMAIN job => (s = 1 <=> IsPending(i) /\ (job[i].due \/ ~Held(i)))
  BY <1>1 DEF One, ToCome, Due
<1>9. /\ Held(i)' => ee = 1
      /\ job'[i].status /= "PENDING" => ff = 0 /\ ss = 0
      /\ ~job'[i].due => ff = 0 /\ (Held(i)' => ss = 0)
      /\ Held(i)' <=> Holders(i)' /= {}
  <2>1. /\ IsPending(i)' <=> job'[i].status = "PENDING"
        /\ Due(i)' <=> job'[i].status = "PENDING" /\ job'[i].due
    BY DEF IsPending, Due
  <2>2. Held(i)' <=> Holders(i)' /= {}
    BY DEF Held, Holders
  <2> QED
    BY <1>2, <2>1, <2>2 DEF One, ToCome
<1>10. (Held(i) <=> h > 0) /\ (Held(i)' <=> hh > 0)
  <2>1. Holders(i)' \subseteq Runs
    BY DEF TypeOK, Holders
  <2>2. IsFiniteSet(Holders(i)') /\ IsFiniteSet(Holders(i))
    BY <2>1, RunsAssumption, BudgetSets, FS_Subset
  <2>3. (h = 0 <=> Holders(i) = {}) /\ (hh = 0 <=> Holders(i)' = {})
    BY <1>1, <1>2, <2>2, FS_EmptySet
  <2> QED
    BY <1>3, <1>4, <1>9, <2>3, BudgetSets
\* The job is left alone.
<1>11. ASSUME i \in DOMAIN job, JobKeeps(i), cc = c, uu = u, hh = h, oo = o, qq = q, dd = d,
              Counts(i)' \subseteq Counts(i)
       PROVE  Goal
  <2>1. (Held(i)' <=> Held(i)) /\ (IsPending(i)' <=> IsPending(i)) /\ (Due(i)' <=> Due(i))
    BY <1>10, <1>11 DEF JobKeeps, IsPending, Due
  <2>2. ff = f /\ ee = e /\ ss = s
    BY <1>1, <1>2, <1>11, <2>1 DEF One, ToCome, JobKeeps
  <2> QED
    BY <1>7, <1>11, <2>2 DEF Goal
\* No run changes what it holds, and nobody asks for anything.
<1>12. ASSUME \A v \in DOMAIN run \cup DOMAIN run' : Keeps(v)
       PROVE  /\ uu = u /\ hh = h
              /\ i \in DOMAIN job => Counts(i)' \subseteq Counts(i) \cup {job'[i].attempts}
  BY <1>1, <1>2, <1>5, <1>12, BudgetStays DEF Counts
<1>13. ASSUME NEW w, Others(w)
       PROVE  /\ (w \in Holders(i) <=> w \in Holders(i)') => hh = h
              /\ (w \in Holders(i) /\ w \notin Holders(i)') => h = hh + 1
              /\ (w \notin Holders(i) /\ w \in Holders(i)') => hh = h + 1
              /\ (w \in Unsent(i) <=> w \in Unsent(i)') => uu = u
              /\ (w \in Unsent(i) /\ w \notin Unsent(i)') => u = uu + 1
              /\ (w \notin Unsent(i) /\ w \in Unsent(i)') => uu = u + 1
              /\ i \in DOMAIN job => \A n \in Counts(i)' : \/ n = job'[i].attempts
                                                           \/ n \in Counts(i) /\ Held(i)'
                                                           \/ n = run'[w].attempts /\ w \in Holders(i)'
  <2>1. /\ (w \in Holders(i) <=> w \in Holders(i)') => hh = h
        /\ (w \in Holders(i) /\ w \notin Holders(i)') => h = hh + 1
        /\ (w \notin Holders(i) /\ w \in Holders(i)') => hh = h + 1
        /\ (w \in Unsent(i) <=> w \in Unsent(i)') => uu = u
        /\ (w \in Unsent(i) /\ w \notin Unsent(i)') => u = uu + 1
        /\ (w \notin Unsent(i) /\ w \in Unsent(i)') => uu = u + 1
    BY <1>1, <1>2, <1>13, BudgetMoves
  <2>2. \A v : v /= w => /\ v \in Holders(i)' <=> v \in Holders(i)
                         /\ v \in Holders(i) => run'[v].attempts = run[v].attempts
    BY <1>13, BudgetMoves
  <2>3. Holders(i)' /= {} => Held(i)'
    BY <1>9
  <2> QED
    BY <1>5, <2>1, <2>2, <2>3 DEF Counts
<1>14. UNCHANGED ask => oo = o
  BY <1>1, <1>2 DEF Open
<1>15. /\ UNCHANGED asks => qq = q
       /\ UNCHANGED deaths => dd = d
       /\ UNCHANGED calls => cc = c
       /\ UNCHANGED job => i \in DOMAIN job /\ JobKeeps(i) /\ job'[i] = job[i]
  BY <1>1, <1>2 DEF JobKeeps
<1>16. ASSUME run' = run, UNCHANGED <<ask, asks, deaths, calls>>, i \in DOMAIN job, JobKeeps(i)
       PROVE  Goal
  <2>1. Counts(i)' \subseteq Counts(i)
    BY <1>12, <1>16, SameRuns DEF JobKeeps, Counts
  <2> QED
    BY <1>11, <1>12, <1>14, <1>15, <1>16, <2>1, SameRuns
<1>17. ASSUME NEW j \in Jobs, Queue(j)
       PROVE  Goal
  <2>1. /\ j \notin DOMAIN job /\ DOMAIN job' = DOMAIN job \cup {j}
        /\ \A k \in Jobs \ {j} : JobKeeps(k)
        /\ job'[j].attempts = 0
        /\ UNCHANGED <<run, ask, asks, deaths, calls, accepted, unsure, refused>>
    BY <1>17, QueueEffect
  <2>2. CASE i = j
    <3>1. Holders(i) = {} /\ Unsent(i) = {} /\ Open(i) = {}
      BY <2>1, <2>2, NoneAssumption DEF Holders, Unsent, Open, TypeOK
    <3>2. h = 0 /\ u = 0 /\ o = 0
      BY <1>1, <3>1, FS_EmptySet
    <3>3. hh = 0 /\ uu = 0 /\ oo = 0 /\ cc = 0 /\ qq = q /\ dd = d
      <4>1. hh = h /\ uu = u /\ oo = o
        BY <1>12, <1>14, <2>1, SameRuns
      <4>2. c = 0
        BY <1>0, <1>1, <2>1, <2>2 DEF CallsKeepPace
      <4> QED
        BY <1>15, <2>1, <3>2, <4>1, <4>2
    <3>4. Holders(i)' = {}
      BY <2>1, <3>1, SameRuns, BudgetStays
    <3>5. \A n \in Counts(i)' : n = 0
      BY <1>5, <2>1, <2>2, <3>4
    <3>6. job'[i].due /\ job'[i].status = "PENDING"
      BY <1>17, <2>2, QueueEffect
    <3>7. ee = 1
      BY <1>2, <3>6 DEF One, Due, IsPending
    <3> QED
      BY <1>3, <1>4, <3>3, <3>5, <3>7, AttemptsAssumption DEF Goal
  <2>3. CASE i /= j
    BY <1>0, <1>16, <2>1, <2>3 DEF JobKeeps
  <2> QED
    BY <2>2, <2>3
\* The lease has outlived its run: nobody holds the job.
<1>18. ASSUME NEW j \in Jobs, Lapse(j)
       PROVE  Goal
  <2>1. /\ j \in DOMAIN job /\ DOMAIN job' = DOMAIN job
        /\ \A k \in Jobs \ {j} : JobKeeps(k)
        /\ job[j].status = "PENDING" /\ ~job[j].due
        /\ job'[j].attempts = job[j].attempts
        /\ UNCHANGED <<run, ask, asks, deaths, calls, accepted, unsure, refused>>
    BY <1>18, LapseEffect
  <2>2. CASE i = j
    <3>1. IsPending(i) /\ ~Due(i) /\ ~Held(i)
      BY <1>18, <2>1, <2>2 DEF Lapse, Held, IsPending, Due
    <3>2. f = 0 /\ e = 0 /\ s = 1 /\ h = 0
      BY <1>1, <1>3, <1>10, <3>1 DEF One, ToCome
    <3>3. hh = h /\ uu = u /\ oo = o /\ cc = c /\ qq = q /\ dd = d
      BY <1>12, <1>14, <1>15, <2>1, SameRuns
    <3>4. Counts(i)' \subseteq Counts(i)
      BY <1>12, <2>1, <2>2, SameRuns DEF Counts
    <3>5. job'[i].due /\ job'[i].status = "PENDING"
      BY <1>18, <2>2, LapseEffect
    <3>6. ee = 1
      BY <1>2, <3>5 DEF One, Due, IsPending
    <3>7. ASSUME NEW n \in Counts(i)'
          PROVE  cc + uu + ff + oo <= n + ee + qq + dd /\ n + hh + ss + oo <= MaxAttempts + qq
      <4>1. n \in Nat /\ c + u + f + o <= n + e + q + d /\ n + h + s + o <= MaxAttempts + q
        BY <1>7, <2>1, <2>2, <3>4
      <4> QED
        BY <1>3, <1>4, <3>2, <3>3, <3>6, <4>1
    <3> QED
      BY <3>7 DEF Goal
  <2>3. CASE i /= j
    BY <1>0, <1>16, <2>1, <2>3 DEF JobKeeps
  <2> QED
    BY <2>2, <2>3
\* A run that neither held the job nor holds it.
<1>19. ASSUME NEW w, Others(w), i \in DOMAIN job, JobKeeps(i), UNCHANGED <<ask, asks, calls>>, dd >= d,
              w \in DOMAIN run => run[w].cur /= i, w \in DOMAIN run' => run'[w].cur /= i
       PROVE  Goal
  <2>1. w \notin Holders(i) /\ w \notin Holders(i)' /\ w \notin Unsent(i) /\ w \notin Unsent(i)'
    BY <1>19 DEF Holders, Unsent
  <2>2. hh = h /\ uu = u /\ oo = o /\ cc = c /\ qq = q
    BY <1>13, <1>14, <1>15, <1>19, <2>1
  <2>3. Counts(i)' \subseteq Counts(i)
    BY <1>13, <1>19, <2>1 DEF JobKeeps, Counts
  <2>4. (Held(i)' <=> Held(i)) /\ (IsPending(i)' <=> IsPending(i)) /\ (Due(i)' <=> Due(i))
    BY <1>10, <1>19, <2>2 DEF JobKeeps, IsPending, Due
  <2>5. ff = f /\ ee = e /\ ss = s
    BY <1>1, <1>2, <1>19, <2>4 DEF One, ToCome, JobKeeps
  <2>6. ASSUME NEW n \in Counts(i)'
        PROVE  cc + uu + ff + oo <= n + ee + qq + dd /\ n + hh + ss + oo <= MaxAttempts + qq
    <3>1. n \in Nat /\ c + u + f + o <= n + e + q + d /\ n + h + s + o <= MaxAttempts + q
      BY <1>7, <1>19, <2>3
    <3> QED
      BY <1>3, <1>4, <1>19, <2>2, <2>5, <3>1
  <2> QED
    BY <2>6 DEF Goal
<1>20. ASSUME NEW w \in Runs, StartRun(w)
       PROVE  Goal
  <2>1. Others(w) /\ w \notin DOMAIN run /\ run'[w].cur = None
    BY <1>20, StartRuns DEF Others
  <2>2. UNCHANGED <<job, ask, asks, deaths, calls>>
    BY <1>20 DEF StartRun, history
  <2>3. run'[w].cur /= i /\ dd >= d
    BY <1>0, <1>3, <1>15, <2>1, <2>2, NoneAssumption
  <2> QED
    BY <1>15, <1>19, <2>1, <2>2, <2>3
<1>21. ASSUME NEW w \in Runs, EndRun(w)
       PROVE  Goal
  <2>1. /\ w \in DOMAIN run /\ run' = Without(run, w) /\ run[w].cur = None
        /\ UNCHANGED <<job, ask, asks, deaths, calls>>
    BY <1>21 DEF EndRun, history
  <2>2. Others(w) /\ w \notin DOMAIN run'
    BY <2>1, GoneRuns DEF Others
  <2>3. run[w].cur /= i /\ dd >= d
    BY <1>0, <1>3, <1>15, <2>1, NoneAssumption
  <2> QED
    BY <1>15, <1>19, <2>1, <2>2, <2>3
<1>22. ASSUME NEW w \in Runs, Die(w)
       PROVE  Goal
  <2>1. /\ w \in DOMAIN run /\ run' = Without(run, w) /\ UNCHANGED <<job, ask, asks, calls>>
    BY <1>22, DieCounts
  <2>2. Others(w) /\ w \notin DOMAIN run'
    BY <2>1, GoneRuns DEF Others
  <2>3. dd = d + 1
    BY <1>1, <1>2, <1>22 DEF Die
  <2>4. CASE run[w].cur = i
    <3>1. w \in Holders(i) /\ w \notin Holders(i)' /\ w \notin Unsent(i)'
      BY <2>1, <2>2, <2>4 DEF Holders, Unsent
    <3>2. h = hh + 1 /\ (u = uu \/ u = uu + 1)
      BY <1>13, <2>2, <3>1
    <3>3. oo = o /\ cc = c /\ qq = q
      BY <1>14, <1>15, <2>1
    <3>4. e = 1
      BY <1>3, <1>4, <1>8, <1>10, <3>2
    <3>5. ff = f
      BY <1>1, <1>2, <2>1 DEF One, Due, IsPending
    <3>6. ASSUME NEW n \in Counts(i)'
          PROVE  cc + uu + ff + oo <= n + ee + qq + dd /\ n + hh + ss + oo <= MaxAttempts + qq
      <4>1. n \in Counts(i)
        BY <1>13, <1>15, <2>1, <2>2, <3>1, <3>6 DEF Counts
      <4>2. n \in Nat /\ c + u + f + o <= n + e + q + d /\ n + h + s + o <= MaxAttempts + q
        BY <1>7, <1>15, <2>1, <4>1
      <4> QED
        BY <1>3, <1>4, <2>3, <3>2, <3>3, <3>4, <3>5, <4>2
    <3> QED
      BY <3>6 DEF Goal
  <2>5. CASE run[w].cur /= i
    <3>1. dd >= d
      BY <1>3, <2>3
    <3> QED
      BY <1>15, <1>19, <2>1, <2>2, <2>5, <3>1
  <2> QED
    BY <2>4, <2>5
\* The run counts its attempt, and no other run may claim the job before the lease
\* of every run that holds it is over.
<1>23. ASSUME NEW w \in Runs, Finish(w)
       PROVE  Goal
  <2>1. PICK j : j = run[w].cur
    OBVIOUS
  <2>2. /\ w \in DOMAIN run /\ j \in DOMAIN job /\ run' = Finished(w, j)
        /\ DOMAIN job' = DOMAIN job /\ \A k \in Jobs \ {j} : JobKeeps(k)
        /\ UNCHANGED <<ask, asks, deaths, calls, accepted, unsure, refused>>
    BY <1>23, <2>1, FinishEffect
  <2>3. Others(w) /\ DOMAIN run' = DOMAIN run /\ run'[w].cur = None
    BY <2>2, FinishedRuns DEF Others
  <2>4. oo = o /\ cc = c /\ qq = q /\ dd = d /\ i \in DOMAIN job
    BY <1>14, <1>15, <2>2
  <2>5. CASE i = j
    <3>1. w \in Holders(i) /\ w \notin Holders(i)' /\ w \notin Unsent(i)'
      BY <1>0, <2>1, <2>2, <2>3, <2>5, NoneAssumption DEF Holders, Unsent
    <3>2. h = hh + 1 /\ (u = uu \/ u = uu + 1)
      BY <1>13, <2>3, <3>1
    <3>3. e = 1
      BY <1>3, <1>4, <1>8, <1>10, <3>2
    <3>4. PICK p : /\ p \in Counts(i) /\ job'[i].attempts = p + 1
                   /\ \/ job'[i].status /= "PENDING"
                      \/ ~job'[i].due /\ p = run[w].attempts /\ ~Exhausted(w)
      <4>1. job[i].attempts \in Counts(i) /\ run[w].attempts \in Counts(i)
        BY <3>1 DEF Counts
      <4>2. \/ job'[i].status /= "PENDING" /\ job'[i].attempts = job[i].attempts + 1
            \/ job'[i].status /= "PENDING" /\ job'[i].attempts = run[w].attempts + 1
            \/ ~job'[i].due /\ job'[i].attempts = run[w].attempts + 1 /\ ~Exhausted(w)
        <5>1. \/ job'[j].status = "SKIPPED" /\ job'[j].attempts = job[j].attempts + 1
              \/ job'[j].status = "SENT" /\ job'[j].attempts = job[j].attempts + 1
              \/ job'[j].status = "FAILED" /\ job'[j].attempts = run[w].attempts + 1
              \/ BackOff(w) /\ ~job'[j].due /\ job'[j].attempts = run[w].attempts + 1
          BY <1>23, <2>1, FinishEffect
        <5>2. BackOff(w) => ~Exhausted(w)
          BY DEF BackOff
        <5> QED
          BY <2>5, <5>1, <5>2
      <4> QED
        BY <4>1, <4>2
    <3>5. p \in Nat /\ c + u + f + o <= p + e + q + d /\ p + h + s + o <= MaxAttempts + q
      BY <1>7, <2>4, <3>4
    <3>6. ff = 0 /\ (ss = 0 \/ (hh = 0 /\ p + 1 + 1 + o <= MaxAttempts + q))
      <4>1. CASE job'[i].status /= "PENDING"
        BY <1>9, <4>1
      <4>2. CASE ~job'[i].due /\ p = run[w].attempts /\ ~Exhausted(w)
        <5>1. ff = 0 /\ (Held(i)' => ss = 0)
          BY <1>9, <4>2
        <5>2. run[w].max + o <= MaxAttempts + q
          BY <1>1, <2>1, <2>2, <2>5 DEF LimitsKeepPace
        <5>3. run[w].max \in Nat /\ ~(run[w].attempts + 1 >= run[w].max)
          BY <2>2, <4>2, RunRowType DEF Exhausted, TypeOK
        <5>4. p + 1 + 1 + o <= MaxAttempts + q
          BY <1>3, <3>5, <4>2, <5>2, <5>3
        <5> QED
          BY <1>4, <1>10, <5>1, <5>4
      <4> QED
        BY <3>4, <4>1, <4>2
    <3>7. ASSUME NEW n \in Counts(i)'
          PROVE  cc + uu + ff + oo <= n + ee + qq + dd /\ n + hh + ss + oo <= MaxAttempts + qq
      <4>1. n = p + 1 \/ (n \in Counts(i) /\ Held(i)')
        BY <1>13, <2>3, <2>4, <3>1, <3>4, <3>7
      <4>2. CASE n = p + 1
        BY <1>3, <1>4, <2>4, <3>2, <3>3, <3>5, <3>6, <4>2
      <4>3. CASE n \in Counts(i) /\ Held(i)'
        <5>1. ee = 1 /\ hh > 0
          BY <1>9, <1>10, <4>3
        <5>2. n \in Nat /\ c + u + f + o <= n + e + q + d /\ n + h + s + o <= MaxAttempts + q
          BY <1>7, <2>4, <4>3
        <5> QED
          BY <1>3, <1>4, <2>4, <3>2, <3>3, <3>6, <5>1, <5>2
      <4> QED
        BY <4>1, <4>2, <4>3
    <3> QED
      BY <3>7 DEF Goal
  <2>6. CASE i /= j
    <3>1. run'[w].cur /= i /\ dd >= d
      BY <1>0, <1>3, <2>3, <2>4, NoneAssumption
    <3> QED
      BY <1>0, <1>19, <2>1, <2>2, <2>3, <2>4, <2>6, <3>1
  <2> QED
    BY <2>5, <2>6
\* The run takes the call that the due job had to come.
<1>24. ASSUME NEW w \in Runs, NEW j \in Jobs, Claim(w, j)
       PROVE  Goal
  <2>1. /\ w \in DOMAIN run /\ run[w].cur = None /\ j \in run[w].may /\ IsPending(j)
        /\ Others(w) /\ DOMAIN run' = DOMAIN run /\ run'[w].cur = j
        /\ run'[w].attempts = job[j].attempts
    BY <1>24, ClaimRuns DEF Others
  <2>2. DOMAIN job' = DOMAIN job /\ \A k \in Jobs \ {j} : JobKeeps(k)
    BY <1>24, ClaimJobs
  <2>3. ~job'[j].due /\ job'[j].attempts = job[j].attempts
    BY <1>24, ClaimJobs
  <2>4. UNCHANGED <<ask, asks, deaths, calls>>
    BY <1>24 DEF Claim, history
  <2>5. oo = o /\ cc = c /\ qq = q /\ dd = d /\ i \in DOMAIN job
    BY <1>14, <1>15, <2>2, <2>4
  <2>6. CASE i = j
    <3>1. Due(i)
      BY <2>1, <2>6 DEF ReachIsDue, Due
    <3>2. f = 1 /\ e = 1 /\ s = 1
      BY <1>8, <2>5, <3>1
    <3>3. w \notin Holders(i) /\ w \in Holders(i)' /\ w \notin Unsent(i)
      BY <1>0, <2>1, <2>6, NoneAssumption DEF Holders, Unsent
    <3>4. hh = h + 1 /\ (uu = u \/ uu = u + 1)
      BY <1>13, <2>1, <3>3
    <3>5. ee = 1 /\ ff = 0 /\ ss = 0
      BY <1>3, <1>4, <1>9, <1>10, <2>3, <2>6, <3>4
    <3>6. ASSUME NEW n \in Counts(i)'
          PROVE  cc + uu + ff + oo <= n + ee + qq + dd /\ n + hh + ss + oo <= MaxAttempts + qq
      <4>1. n \in Counts(i)
        BY <1>13, <2>1, <2>3, <2>5, <2>6, <3>6 DEF Counts
      <4>2. n \in Nat /\ c + u + f + o <= n + e + q + d /\ n + h + s + o <= MaxAttempts + q
        BY <1>7, <2>5, <4>1
      <4> QED
        BY <1>3, <1>4, <2>5, <3>2, <3>4, <3>5, <4>2
    <3> QED
      BY <3>6 DEF Goal
  <2>7. CASE i /= j
    <3>1. run[w].cur /= i /\ dd >= d
      BY <1>0, <1>3, <2>1, <2>5, NoneAssumption
    <3> QED
      BY <1>0, <1>19, <2>1, <2>2, <2>4, <2>5, <2>7, <3>1
  <2> QED
    BY <2>6, <2>7
<1>25. ASSUME NEW w \in Runs, NEW answer \in {"ok", "error", "permanent"}, NEW taken \in BOOLEAN,
              Send(w, answer, taken)
       PROVE  Goal
  <2>1. PICK j : j = run[w].cur
    OBVIOUS
  <2>2. /\ w \in DOMAIN run /\ run[w].answer = "none" /\ Others(w) /\ DOMAIN run' = DOMAIN run
        /\ run'[w].cur = j /\ run'[w].answer = answer /\ run'[w].attempts = run[w].attempts
    BY <1>25, <2>1, SendRuns DEF Others
  <2>3. /\ j \in Jobs /\ calls'[j] = calls[j] + 1
        /\ \A n \in Jobs \ {j} : calls'[n] = calls[n]
        /\ UNCHANGED <<job, ask, asks, deaths>>
    BY <1>25, <2>1, SendCounts
  <2>4. oo = o /\ qq = q /\ dd = d /\ i \in DOMAIN job /\ JobKeeps(i) /\ job'[i] = job[i]
    BY <1>14, <1>15, <2>3
  <2>5. CASE i = j
    <3>1. /\ w \in Holders(i) /\ w \in Holders(i)' /\ w \in Unsent(i) /\ w \notin Unsent(i)'
      BY <2>1, <2>2, <2>5 DEF Holders, Unsent
    <3>2. hh = h /\ u = uu + 1 /\ cc = c + 1
      BY <1>1, <1>2, <1>13, <2>2, <2>3, <2>5, <3>1
    <3>3. (Held(i)' <=> Held(i)) /\ (IsPending(i)' <=> IsPending(i)) /\ (Due(i)' <=> Due(i))
      BY <1>10, <2>3, <3>2 DEF IsPending, Due
    <3>4. ff = f /\ ee = e /\ ss = s
      BY <1>1, <1>2, <2>3, <3>3 DEF One, ToCome
    <3>5. ASSUME NEW n \in Counts(i)'
          PROVE  cc + uu + ff + oo <= n + ee + qq + dd /\ n + hh + ss + oo <= MaxAttempts + qq
      <4>1. n \in Counts(i)
        BY <1>13, <2>2, <2>4, <3>1, <3>5 DEF Counts
      <4>2. n \in Nat /\ c + u + f + o <= n + e + q + d /\ n + h + s + o <= MaxAttempts + q
        BY <1>7, <2>4, <4>1
      <4> QED
        BY <1>3, <1>4, <2>4, <3>2, <3>4, <4>2
    <3> QED
      BY <3>5 DEF Goal
  <2>6. CASE i /= j
    <3>1. w \notin Holders(i) /\ w \notin Holders(i)' /\ w \notin Unsent(i) /\ w \notin Unsent(i)'
      BY <2>1, <2>2, <2>6 DEF Holders, Unsent
    <3>2. hh = h /\ uu = u /\ cc = c
      BY <1>0, <1>1, <1>2, <1>13, <2>2, <2>3, <2>6, <3>1
    <3>3. Counts(i)' \subseteq Counts(i)
      BY <1>13, <2>2, <2>4, <3>1 DEF Counts
    <3> QED
      BY <1>11, <2>4, <3>2, <3>3
  <2> QED
    BY <2>5, <2>6
\* A request adds to the asks what it leaves open.
<1>26. ASSUME NEW a \in Admins, NEW j \in Jobs, NEW op \in {"RETRY", "CANCEL"}, Ask(a, j, op)
       PROVE  Goal
  <2>1. /\ a \notin DOMAIN ask /\ DOMAIN ask' = DOMAIN ask \cup {a}
        /\ \A b \in DOMAIN ask : ask'[b] = ask[b]
        /\ ask'[a] \in AskRows /\ ask'[a].job = j
        /\ UNCHANGED <<job, run, deaths, calls, accepted, unsure, refused>>
    <3>1. a \notin DOMAIN ask
      BY <1>26 DEF Ask
    <3>2. /\ j \in DOMAIN job /\ DOMAIN ask' = DOMAIN ask \cup {a}
          /\ \A b \in DOMAIN ask : ask'[b] = ask[b]
          /\ ask'[a] \in AskRows /\ ask'[a].job = j
          /\ asks' \in [Jobs -> Nat]
          /\ UNCHANGED <<job, run, deaths, calls, accepted, unsure, refused>>
      BY <1>26, AskEffect
    <3> QED
      BY <3>1, <3>2
  <2>2. asks' = [asks EXCEPT ![j] = asks[j] + 1]
    BY <1>26, AskCounts
  <2>3. a \notin Open(i) /\ (a \in Open(i)' <=> i = j)
    BY <2>1 DEF Open
  <2>4. IF i = j THEN oo = o + 1 ELSE oo = o
    BY <1>1, <1>2, <2>1, <2>3, OpenMoves
  <2>5. IF i = j THEN qq = q + 1 ELSE qq = q
    BY <1>0, <1>1, <1>2, <2>2 DEF TypeOK
  <2>6. /\ i \in DOMAIN job /\ cc = c /\ dd = d /\ hh = h /\ uu = u
        /\ Counts(i)' \subseteq Counts(i)
    BY <1>12, <1>15, <2>1, SameRuns DEF Counts
  <2>7. ff = f /\ ee = e /\ ss = s
    BY <1>1, <1>2, <2>1 DEF One, ToCome, IsPending, Due, Held
  <2>8. ASSUME NEW n \in Counts(i)'
        PROVE  cc + uu + ff + oo <= n + ee + qq + dd /\ n + hh + ss + oo <= MaxAttempts + qq
    <3>1. n \in Nat /\ c + u + f + o <= n + e + q + d /\ n + h + s + o <= MaxAttempts + q
      BY <1>7, <2>6
    <3> QED
      BY <1>3, <1>4, <2>4, <2>5, <2>6, <2>7, <3>1
  <2> QED
    BY <2>8 DEF Goal
\* Once written, it may add the call it makes due.
<1>27. ASSUME NEW a \in Admins, Retry(a) \/ Cancel(a)
       PROVE  Goal
  <2>1. PICK j : j = ask[a].job
    OBVIOUS
  <2>2. /\ a \in DOMAIN ask /\ j \in DOMAIN job /\ DOMAIN job' = DOMAIN job
        /\ \A k \in Jobs \ {j} : JobKeeps(k)
        /\ job'[j].attempts = job[j].attempts
        /\ ask' = Without(ask, a)
        /\ UNCHANGED <<asks, deaths, calls>>
    BY <1>27, <2>1, RetryEffect, CancelEffect
  <2>3. \A v \in DOMAIN run \cup DOMAIN run' : Keeps(v)
    BY <1>27, RetryRuns, SameRuns DEF Retry, Cancel
  <2>4. /\ DOMAIN ask' = DOMAIN ask \ {a} /\ \A b \in DOMAIN ask \ {a} : ask'[b] = ask[b]
    BY <2>2 DEF Without
  <2>5. a \notin Open(i)' /\ (a \in Open(i) <=> i = j)
    BY <2>1, <2>2, <2>4 DEF Open
  <2>6. IF i = j THEN o = oo + 1 ELSE o = oo
    BY <1>1, <1>2, <2>4, <2>5, OpenMoves
  <2>7. i \in DOMAIN job /\ cc = c /\ dd = d /\ qq = q /\ hh = h /\ uu = u
    BY <1>12, <1>15, <2>2, <2>3
  <2>8. Counts(i)' \subseteq Counts(i)
    BY <1>0, <1>12, <2>2, <2>3 DEF JobKeeps, Counts
  <2>9. CASE i = j /\ Retry(a)
    <3>1. job'[i].due /\ job'[i].status = "PENDING"
      BY <2>1, <2>9, RetryEffect
    <3>2. ee = 1
      BY <1>2, <3>1 DEF One, Due, IsPending
    <3>3. ASSUME NEW n \in Counts(i)'
          PROVE  cc + uu + ff + oo <= n + ee + qq + dd /\ n + hh + ss + oo <= MaxAttempts + qq
      <4>1. n \in Nat /\ c + u + f + o <= n + e + q + d /\ n + h + s + o <= MaxAttempts + q
        BY <1>7, <2>7, <2>8
      <4>2. e = f \/ e = f + 1
        BY <1>3, <1>8
      <4> QED
        BY <1>3, <1>4, <2>6, <2>7, <2>9, <3>2, <4>1, <4>2
    <3> QED
      BY <3>3 DEF Goal
  <2>10. CASE i = j /\ Cancel(a)
    <3>1. job'[i].status /= "PENDING"
      BY <2>1, <2>10, CancelEffect
    <3>2. ff = 0 /\ ss = 0
      BY <1>9, <3>1
    <3>3. ASSUME NEW n \in Counts(i)'
          PROVE  cc + uu + ff + oo <= n + ee + qq + dd /\ n + hh + ss + oo <= MaxAttempts + qq
      <4>1. n \in Nat /\ c + u + f + o <= n + e + q + d /\ n + h + s + o <= MaxAttempts + q
        BY <1>7, <2>7, <2>8
      <4>2. e = f \/ e = f + 1
        BY <1>3, <1>8
      <4> QED
        BY <1>3, <1>4, <2>6, <2>7, <2>10, <3>2, <4>1, <4>2
    <3> QED
      BY <3>3 DEF Goal
  <2>11. CASE i /= j
    BY <1>0, <1>11, <2>2, <2>6, <2>7, <2>8, <2>11
  <2> QED
    BY <1>27, <2>9, <2>10, <2>11
<1>28. CASE UNCHANGED vars
  BY <1>15, <1>16, <1>28 DEF vars, history
<1> QED
  BY <1>17, <1>18, <1>20, <1>21, <1>22, <1>23, <1>24, <1>25, <1>26, <1>27, <1>28, StepKinds

\* Requests that are written leave the more room for the limits.
LEMMA RoomGrows ==
  ASSUME TypeOK, TypeOK', [Next]_vars, NEW i \in Jobs
  PROVE  /\ asks[i] + Cardinality(Open(i))' <= asks'[i] + Cardinality(Open(i))
         /\ (\E a \in Admins : Retry(a) /\ ask[a].job = i) =>
               asks[i] + Cardinality(Open(i))' + 1 <= asks'[i] + Cardinality(Open(i))
<1>1. PICK o, q, oo, qq : /\ o = Cardinality(Open(i)) /\ q = asks[i]
                          /\ oo = Cardinality(Open(i))' /\ qq = asks'[i]
  OBVIOUS
<1>2. o \in Nat /\ q \in Nat /\ oo \in Nat /\ qq \in Nat
  <2>1. Open(i)' \subseteq Admins
    BY DEF TypeOK, Open
  <2>2. Cardinality(Open(i)') \in Nat
    BY <2>1, AdminsAssumption, FS_Subset, FS_CardinalityType
  <2> QED
    BY <1>1, <2>2, BudgetSets DEF TypeOK
<1> DEFINE Goal == q + oo <= qq + o /\ ((\E a \in Admins : Retry(a) /\ ask[a].job = i) => q + oo + 1 <= qq + o)
<1> SUFFICES Goal
  BY <1>1
<1>3. ASSUME UNCHANGED <<ask, asks>>
      PROVE  Goal
  <2>1. oo = o /\ qq = q
    BY <1>1, <1>3 DEF Open
  <2>2. ASSUME NEW a \in Admins, Retry(a)
        PROVE  FALSE
    <3>1. a \in DOMAIN ask /\ ask' = Without(ask, a)
      BY <2>2, RetryEffect
    <3> QED
      BY <1>3, <3>1 DEF Without
  <2> QED
    BY <1>2, <2>1, <2>2
<1>4. ASSUME NEW a \in Admins, NEW j \in Jobs, NEW op \in {"RETRY", "CANCEL"}, Ask(a, j, op)
      PROVE  Goal
  <2>1. a \notin DOMAIN ask
    BY <1>4 DEF Ask
  <2>2. /\ j \in DOMAIN job /\ DOMAIN ask' = DOMAIN ask \cup {a}
        /\ \A b \in DOMAIN ask : ask'[b] = ask[b]
        /\ ask'[a] \in AskRows /\ ask'[a].job = j
        /\ asks' \in [Jobs -> Nat]
        /\ UNCHANGED <<job, run, deaths, calls, accepted, unsure, refused>>
    BY <1>4, AskEffect
  <2>3. asks' = [asks EXCEPT ![j] = asks[j] + 1]
    BY <1>4, AskCounts
  <2>4. a \notin Open(i) /\ (a \in Open(i)' <=> i = j)
    BY <2>1, <2>2 DEF Open
  <2>5. IF i = j THEN oo = o + 1 ELSE oo = o
    BY <1>1, <2>1, <2>2, <2>4, OpenMoves
  <2>6. IF i = j THEN qq = q + 1 ELSE qq = q
    BY <1>1, <2>3 DEF TypeOK
  <2>7. ASSUME NEW b \in Admins, Retry(b)
        PROVE  FALSE
    <3>1. b \in DOMAIN ask /\ ask' = Without(ask, b)
      BY <2>7, RetryEffect
    <3> QED
      BY <2>2, <3>1 DEF Without
  <2> QED
    BY <1>2, <2>5, <2>6, <2>7
<1>5. ASSUME NEW a \in Admins, Retry(a) \/ Cancel(a)
      PROVE  Goal
  <2>1. PICK j : j = ask[a].job
    OBVIOUS
  <2>2. a \in DOMAIN ask /\ ask' = Without(ask, a) /\ asks' = asks
    BY <1>5, <2>1, RetryEffect, CancelEffect
  <2>3. /\ DOMAIN ask' = DOMAIN ask \ {a} /\ \A b \in DOMAIN ask \ {a} : ask'[b] = ask[b]
    BY <2>2 DEF Without
  <2>4. a \notin Open(i)' /\ (a \in Open(i) <=> i = j)
    BY <2>1, <2>2, <2>3 DEF Open
  <2>5. IF i = j THEN o = oo + 1 ELSE o = oo
    BY <1>1, <2>3, <2>4, OpenMoves
  <2>6. ASSUME NEW b \in Admins, Retry(b)
        PROVE  b = a
    <3>1. b \in DOMAIN ask /\ ask' = Without(ask, b)
      BY <2>6, RetryEffect
    <3> QED
      BY <2>3, <3>1 DEF Without
  <2>7. qq = q
    BY <1>1, <2>2
  <2> QED
    BY <1>2, <2>1, <2>5, <2>6, <2>7
<1>6. \/ UNCHANGED <<ask, asks>>
      \/ \E a \in Admins, j \in Jobs, op \in {"RETRY", "CANCEL"} : Ask(a, j, op)
      \/ \E a \in Admins : Retry(a) \/ Cancel(a)
  BY StepKinds DEF Queue, Lapse, StartRun, EndRun, Finish, Skip, RecordSent, GiveUp, BackOff, Die,
                   Claim, Send, vars
<1> QED
  BY <1>3, <1>4, <1>5, <1>6

\* Where a limit comes from: the default, a request, or the limit before.
LEMMA LimitSources ==
  ASSUME TypeOK, TypeOK', [Next]_vars
  PROVE  /\ \A i \in DOMAIN job' :
               \/ i \in DOMAIN job /\ job'[i].max = job[i].max
               \/ i \notin DOMAIN job /\ job'[i].max = MaxAttempts /\ ask' = ask
               \/ \E a \in Admins \cap DOMAIN ask :
                     /\ Retry(a) /\ ask[a].job = i /\ job'[i].max = ask[a].max /\ i \in DOMAIN job
         /\ \A v \in DOMAIN run', i \in Jobs : run'[v].cur = i =>
               i \in DOMAIN job /\ \/ v \in DOMAIN run /\ run[v].cur = i /\ run'[v].max = run[v].max
                                   \/ run'[v].max = job[i].max
         /\ \A a \in DOMAIN ask' :
               \/ a \in DOMAIN ask /\ ask'[a] = ask[a]
               \/ /\ ask'[a].job \in DOMAIN job
                  /\ \/ ask'[a].max = job[ask'[a].job].max
                     \/ ask'[a].max = job[ask'[a].job].attempts + 1
<1> DEFINE JobsPart == \A i \in DOMAIN job' :
               \/ i \in DOMAIN job /\ job'[i].max = job[i].max
               \/ i \notin DOMAIN job /\ job'[i].max = MaxAttempts /\ ask' = ask
               \/ \E a \in Admins \cap DOMAIN ask :
                     /\ Retry(a) /\ ask[a].job = i /\ job'[i].max = ask[a].max /\ i \in DOMAIN job
           RunPart(v) == \A i \in Jobs : run'[v].cur = i =>
               i \in DOMAIN job /\ \/ v \in DOMAIN run /\ run[v].cur = i /\ run'[v].max = run[v].max
                                   \/ run'[v].max = job[i].max
           RunsPart == \A v \in DOMAIN run' : RunPart(v)
           AsksPart == \A a \in DOMAIN ask' :
               \/ a \in DOMAIN ask /\ ask'[a] = ask[a]
               \/ /\ ask'[a].job \in DOMAIN job
                  /\ \/ ask'[a].max = job[ask'[a].job].max
                     \/ ask'[a].max = job[ask'[a].job].attempts + 1
<1> SUFFICES JobsPart /\ RunsPart /\ AsksPart
  OBVIOUS
<1>1. ASSUME NEW v \in DOMAIN run', Keeps(v)
      PROVE  RunPart(v)
  BY <1>1, NoneAssumption DEF Keeps, TypeOK
<1>2. ASSUME NEW w, Others(w), w \in DOMAIN run' => run'[w].cur = None \/ RunPart(w)
      PROVE  RunsPart
  BY <1>1, <1>2, NoneAssumption DEF Others
<1>3. run' = run => RunsPart
  BY <1>1, SameRuns
<1>4. (ask' = ask \/ \E a \in DOMAIN ask : ask' = Without(ask, a)) => AsksPart
  BY DEF Without
<1>5. job' = job => JobsPart
  OBVIOUS
<1>6. ASSUME NEW j \in DOMAIN job, \A i \in Jobs \ {j} : JobKeeps(i), DOMAIN job' = DOMAIN job,
             job'[j].max = job[j].max
      PROVE  JobsPart
  BY <1>6 DEF JobKeeps, TypeOK
<1> HIDE DEF JobsPart, RunsPart, RunPart, AsksPart
<1>7. ASSUME NEW j \in Jobs, Queue(j)
      PROVE  JobsPart /\ RunsPart /\ AsksPart
  <2>1. /\ j \notin DOMAIN job /\ DOMAIN job' = DOMAIN job \cup {j}
        /\ \A k \in Jobs \ {j} : JobKeeps(k)
        /\ job'[j].max = MaxAttempts
        /\ UNCHANGED <<run, ask, asks, deaths, calls, accepted, unsure, refused>>
    BY <1>7, QueueEffect
  <2>2. JobsPart
    BY <2>1 DEF JobsPart, JobKeeps, TypeOK
  <2> QED
    BY <1>3, <1>4, <2>1, <2>2
<1>8. ASSUME NEW j \in Jobs, Lapse(j)
      PROVE  JobsPart /\ RunsPart /\ AsksPart
  <2>1. /\ j \in DOMAIN job /\ DOMAIN job' = DOMAIN job
        /\ \A k \in Jobs \ {j} : JobKeeps(k)
        /\ job'[j].max = job[j].max
        /\ UNCHANGED <<run, ask, asks, deaths, calls, accepted, unsure, refused>>
    BY <1>8, LapseEffect
  <2> QED
    BY <1>3, <1>4, <1>6, <2>1
<1>9. ASSUME NEW w \in Runs, StartRun(w)
      PROVE  JobsPart /\ RunsPart /\ AsksPart
  <2>1. Others(w) /\ run'[w].cur = None
    BY <1>9, StartRuns DEF Others
  <2>2. UNCHANGED <<job, ask>>
    BY <1>9 DEF StartRun
  <2> QED
    BY <1>2, <1>4, <1>5, <2>1, <2>2
<1>10. ASSUME NEW w \in Runs, EndRun(w) \/ Die(w)
       PROVE  JobsPart /\ RunsPart /\ AsksPart
  <2>1. w \in DOMAIN run /\ run' = Without(run, w) /\ UNCHANGED <<job, ask>>
    BY <1>10 DEF EndRun, Die
  <2>2. Others(w) /\ w \notin DOMAIN run'
    BY <2>1, GoneRuns DEF Others
  <2> QED
    BY <1>2, <1>4, <1>5, <2>1, <2>2
<1>11. ASSUME NEW w \in Runs, Finish(w)
       PROVE  JobsPart /\ RunsPart /\ AsksPart
  <2>1. PICK j : j = run[w].cur
    OBVIOUS
  <2>2. /\ w \in DOMAIN run /\ j \in DOMAIN job /\ run' = Finished(w, j)
        /\ DOMAIN job' = DOMAIN job /\ \A k \in Jobs \ {j} : JobKeeps(k)
        /\ job'[j].max = job[j].max /\ ask' = ask
    BY <1>11, <2>1, FinishEffect
  <2>3. Others(w) /\ run'[w].cur = None
    BY <2>2, FinishedRuns DEF Others
  <2> QED
    BY <1>2, <1>4, <1>6, <2>2, <2>3
<1>12. ASSUME NEW w \in Runs, NEW j \in Jobs, Claim(w, j)
       PROVE  JobsPart /\ RunsPart /\ AsksPart
  <2>1. DOMAIN job' = DOMAIN job /\ j \in DOMAIN job /\ \A k \in Jobs \ {j} : JobKeeps(k)
    BY <1>12, ClaimJobs
  <2>2. job'[j].max = job[j].max
    BY <1>12, ClaimJobs
  <2>3. Others(w) /\ run'[w].cur = j /\ run'[w].max = job[j].max
    BY <1>12, ClaimRuns DEF Others
  <2>4. RunPart(w)
    BY <2>1, <2>3 DEF RunPart
  <2>5. ask' = ask
    BY <1>12 DEF Claim
  <2> QED
    BY <1>2, <1>4, <1>6, <2>1, <2>2, <2>3, <2>4, <2>5
<1>13. ASSUME NEW w \in Runs, NEW answer \in {"ok", "error", "permanent"}, NEW taken \in BOOLEAN,
              Send(w, answer, taken)
       PROVE  JobsPart /\ RunsPart /\ AsksPart
  <2>1. /\ w \in DOMAIN run /\ run[w].cur \in Configured /\ run[w].cur \in DOMAIN job /\ Others(w)
        /\ run'[w].cur = run[w].cur /\ run'[w].max = run[w].max
    BY <1>13, SendRuns DEF Others
  <2>2. UNCHANGED <<job, ask>>
    BY <1>13 DEF Send
  <2>3. RunPart(w)
    BY <2>1 DEF RunPart
  <2> QED
    BY <1>2, <1>4, <1>5, <2>1, <2>2, <2>3
<1>14. ASSUME NEW a \in Admins, NEW j \in Jobs, NEW op \in {"RETRY", "CANCEL"}, Ask(a, j, op)
       PROVE  JobsPart /\ RunsPart /\ AsksPart
  <2>1. /\ j \in DOMAIN job /\ DOMAIN ask' = DOMAIN ask \cup {a}
        /\ \A b \in DOMAIN ask : ask'[b] = ask[b]
        /\ ask'[a].job = j
        /\ UNCHANGED <<job, run>>
    <3>1. PICK new : new = [job |-> j, op |-> op, max |-> Larger(job[j].max, job[j].attempts + 1)]
      OBVIOUS
    <3>2. /\ j \in DOMAIN job /\ a \notin DOMAIN ask /\ ask' = With(ask, a, new)
          /\ UNCHANGED <<job, run>>
      BY <1>14, <3>1 DEF Ask, MayAsk
    <3>3. new.job = j
      BY <3>1
    <3> QED
      BY <3>2, <3>3 DEF With
  <2>2. ask'[a].max = job[j].max \/ ask'[a].max = job[j].attempts + 1
    BY <1>14, AskCounts
  <2>3. AsksPart
    BY <2>1, <2>2 DEF AsksPart
  <2> QED
    BY <1>3, <1>5, <2>1, <2>3
<1>15. ASSUME NEW a \in Admins, Retry(a)
       PROVE  JobsPart /\ RunsPart /\ AsksPart
  <2>1. PICK j : j = ask[a].job
    OBVIOUS
  <2>2. /\ a \in DOMAIN ask /\ j \in DOMAIN job /\ DOMAIN job' = DOMAIN job
        /\ \A k \in Jobs \ {j} : JobKeeps(k)
        /\ job'[j].max = ask[a].max
        /\ run' = OutOfReach(j) /\ ask' = Without(ask, a)
    BY <1>15, <2>1, RetryEffect
  <2>3. RunsPart
    BY <1>1, <2>2, RetryRuns DEF RunsPart
  <2>4. JobsPart
    BY <1>15, <2>1, <2>2 DEF JobsPart, JobKeeps, TypeOK
  <2> QED
    BY <1>4, <2>2, <2>3, <2>4
<1>16. ASSUME NEW a \in Admins, Cancel(a)
       PROVE  JobsPart /\ RunsPart /\ AsksPart
  <2>1. PICK j : j = ask[a].job
    OBVIOUS
  <2>2. /\ a \in DOMAIN ask /\ j \in DOMAIN job /\ DOMAIN job' = DOMAIN job
        /\ \A k \in Jobs \ {j} : JobKeeps(k)
        /\ job'[j].max = job[j].max
        /\ run' = run /\ ask' = Without(ask, a)
    BY <1>16, <2>1, CancelEffect
  <2> QED
    BY <1>3, <1>4, <1>6, <2>2
<1>17. UNCHANGED vars => JobsPart /\ RunsPart /\ AsksPart
  BY <1>3, <1>4, <1>5 DEF vars
<1> QED
  BY <1>7, <1>8, <1>9, <1>10, <1>11, <1>12, <1>13, <1>14, <1>15, <1>16, <1>17, StepKinds

LEMMA LimitsPaceStep ==
  ASSUME TypeOK, TypeOK', AttemptsKeepPace, LimitsKeepPace, [Next]_vars, NEW i \in DOMAIN job'
  PROVE  /\ job'[i].max + Cardinality(Open(i))' <= MaxAttempts + asks'[i]
         /\ \A v \in DOMAIN run' : run'[v].cur = i =>
               run'[v].max + Cardinality(Open(i))' <= MaxAttempts + asks'[i]
         /\ \A a \in DOMAIN ask' : ask'[a].job = i =>
               ask'[a].max + Cardinality(Open(i))' <= MaxAttempts + asks'[i] + 1
<1>0. i \in Jobs
  BY DEF TypeOK
<1>1. PICK o, q, oo, qq : /\ o = Cardinality(Open(i)) /\ q = asks[i]
                          /\ oo = Cardinality(Open(i))' /\ qq = asks'[i]
  OBVIOUS
<1>2. o \in Nat /\ q \in Nat /\ oo \in Nat /\ qq \in Nat /\ MaxAttempts \in Nat
  <2>1. Open(i)' \subseteq Admins
    BY DEF TypeOK, Open
  <2>2. Cardinality(Open(i)') \in Nat
    BY <2>1, AdminsAssumption, FS_Subset, FS_CardinalityType
  <2> QED
    BY <1>0, <1>1, <2>2, BudgetSets, AttemptsAssumption DEF TypeOK
<1>3. /\ q + oo <= qq + o
      /\ (\E a \in Admins : Retry(a) /\ ask[a].job = i) => q + oo + 1 <= qq + o
  BY <1>0, <1>1, RoomGrows
\* What held of the limits and of the row's count.
<1>4. i \in DOMAIN job => /\ job[i].max \in Nat /\ job[i].max + o <= MaxAttempts + q
                          /\ job[i].attempts \in Nat /\ job[i].attempts + o <= MaxAttempts + q
  <2> SUFFICES ASSUME i \in DOMAIN job
               PROVE  /\ job[i].max \in Nat /\ job[i].max + o <= MaxAttempts + q
                      /\ job[i].attempts \in Nat /\ job[i].attempts + o <= MaxAttempts + q
    OBVIOUS
  <2>1. job[i].max \in Nat /\ job[i].attempts \in Nat
    BY JobRowType DEF TypeOK
  <2>2. job[i].max + o <= MaxAttempts + q
    BY <1>1 DEF LimitsKeepPace
  <2>3. PICK h, s : h = Cardinality(Holders(i)) /\ s = ToCome(i)
    OBVIOUS
  <2>4. h \in Nat /\ s \in Nat
    BY <2>3, BudgetSets DEF ToCome
  <2>5. job[i].attempts + h + s + o <= MaxAttempts + q
    BY <1>1, <2>3 DEF AttemptsKeepPace, Counts
  <2> QED
    BY <1>2, <2>1, <2>2, <2>4, <2>5
<1>5. ASSUME NEW a \in DOMAIN ask, ask[a].job = i
      PROVE  i \in DOMAIN job /\ ask[a].max \in Nat /\ ask[a].max + o <= MaxAttempts + q + 1
  BY <1>1, <1>5 DEF LimitsKeepPace, TypeOK, AskRows
<1>6. job'[i].max + oo <= MaxAttempts + qq
  <2>1. CASE i \in DOMAIN job /\ job'[i].max = job[i].max
    BY <1>2, <1>3, <1>4, <2>1
  <2>2. CASE i \notin DOMAIN job /\ job'[i].max = MaxAttempts /\ ask' = ask
    <3>1. Open(i)' = {}
      BY <2>2 DEF Open, TypeOK
    <3>2. oo = 0
      BY <1>1, <3>1, FS_EmptySet
    <3> QED
      BY <1>2, <2>2, <3>2
  <2>3. ASSUME NEW a \in Admins \cap DOMAIN ask, Retry(a), ask[a].job = i, job'[i].max = ask[a].max
        PROVE  job'[i].max + oo <= MaxAttempts + qq
    <3>1. ask[a].max \in Nat /\ ask[a].max + o <= MaxAttempts + q + 1
      BY <1>5, <2>3
    <3>2. q + oo + 1 <= qq + o
      BY <1>3, <2>3
    <3> QED
      BY <1>2, <2>3, <3>1, <3>2
  <2> QED
    BY <2>1, <2>2, <2>3, LimitSources
<1>7. ASSUME NEW v \in DOMAIN run', run'[v].cur = i
      PROVE  run'[v].max + oo <= MaxAttempts + qq
  <2>1. i \in DOMAIN job /\ \/ v \in DOMAIN run /\ run[v].cur = i /\ run'[v].max = run[v].max
                            \/ run'[v].max = job[i].max
    BY <1>0, <1>7, LimitSources
  <2>2. CASE run'[v].max = job[i].max
    BY <1>2, <1>3, <1>4, <2>1, <2>2
  <2>3. CASE v \in DOMAIN run /\ run[v].cur = i /\ run'[v].max = run[v].max
    <3>1. run[v].max \in Nat /\ run[v].max + o <= MaxAttempts + q
      BY <1>1, <2>1, <2>3, RunRowType DEF LimitsKeepPace, TypeOK
    <3> QED
      BY <1>2, <1>3, <2>3, <3>1
  <2> QED
    BY <2>1, <2>2, <2>3
<1>8. ASSUME NEW a \in DOMAIN ask', ask'[a].job = i
      PROVE  ask'[a].max + oo <= MaxAttempts + qq + 1
  <2>1. CASE a \in DOMAIN ask /\ ask'[a] = ask[a]
    <3>1. ask[a].max \in Nat /\ ask[a].max + o <= MaxAttempts + q + 1
      BY <1>5, <1>8, <2>1
    <3> QED
      BY <1>2, <1>3, <2>1, <3>1
  <2>2. CASE i \in DOMAIN job /\ (ask'[a].max = job[i].max \/ ask'[a].max = job[i].attempts + 1)
    BY <1>2, <1>3, <1>4, <2>2
  <2> QED
    BY <1>8, <2>1, <2>2, LimitSources
<1> QED
  BY <1>1, <1>6, <1>7, <1>8

\* A job that is not queued yet has had no call.
LEMMA CallsNeedJob ==
  ASSUME TypeOK, TypeOK', [Next]_vars, NEW i \in Jobs \ DOMAIN job', CallsKeepPace
  PROVE  calls'[i] = 0
<1>1. DOMAIN job \subseteq DOMAIN job'
  <2>1. ASSUME NEW w \in Runs, Finish(w)
        PROVE  DOMAIN job' = DOMAIN job
    BY <2>1, FinishEffect
  <2> QED
    BY <2>1, StepKinds, QueueEffect, LapseEffect, ClaimJobs, RetryEffect, CancelEffect
       DEF StartRun, EndRun, Die, Send, Ask, vars
<1>2. i \notin DOMAIN job /\ calls[i] = 0
  BY <1>1 DEF CallsKeepPace
<1>3. ASSUME NEW w \in Runs, NEW answer \in {"ok", "error", "permanent"}, NEW taken \in BOOLEAN,
             Send(w, answer, taken)
      PROVE  calls'[i] = calls[i]
  <2>1. PICK j : j = run[w].cur
    OBVIOUS
  <2>2. j \in DOMAIN job
    BY <1>3, <2>1, SendRuns
  <2>3. \A k \in Jobs \ {j} : calls'[k] = calls[k]
    BY <1>3, <2>1, SendCounts
  <2> QED
    BY <1>2, <2>2, <2>3
<1> QED
  BY <1>2, <1>3, CountsStand

-----------------------------------------------------------------------------
(* The theorems. *)

LEMMA InitHolds ==
  ASSUME Init
  PROVE  TypeOK /\ ReachIsDue /\ SendsAreLimited /\ AnswersAreTrue /\ AttemptsAreCalls
         /\ LimitsStand /\ RecordIsHonest
<1>1. /\ DOMAIN job = {} /\ DOMAIN run = {} /\ DOMAIN ask = {}
      /\ asks = [j \in Jobs |-> 0] /\ deaths = 0 /\ calls = [j \in Jobs |-> 0]
      /\ accepted = [j \in Jobs |-> 0] /\ unsure = [j \in Jobs |-> 0] /\ refused = {}
  BY DEF Init, NoRows
<1>2. TypeOK
  BY <1>1, QueueBoundsAssumption DEF TypeOK
<1>3. ReachIsDue /\ AnswersAreTrue /\ AttemptsAreCalls /\ LimitsStand /\ RecordIsHonest
  BY <1>1 DEF ReachIsDue, AnswersAreTrue, AttemptsAreCalls, LimitsStand, RecordIsHonest
<1>4. SendsAreLimited
  <2> SUFFICES ASSUME NEW j \in Jobs
               PROVE  accepted[j] + Cardinality(Holding(j)) + ToCome(j) <= 1 + unsure[j]
    BY DEF SendsAreLimited
  <2>1. Holding(j) = {} /\ ToCome(j) = 1
    BY <1>1 DEF Holding, ToCome
  <2>2. Cardinality(Holding(j)) = 0
    BY <2>1, FS_EmptySet
  <2> QED
    BY <1>1, <2>1, <2>2
<1> QED
  BY <1>2, <1>3, <1>4

\* The rows, the runs and the counts keep their types.
THEOREM TypeCorrect == Spec => []TypeOK
<1>1. Init => TypeOK
  BY InitHolds
<1>2. TypeOK /\ [Next]_vars => TypeOK'
  BY TypeStep
<1> QED
  BY <1>1, <1>2, PTL DEF Spec

\* A job is marked FAILED only after all of its attempts, or a permanent
\* refusal, and SENT only if the provider accepted the message: for any runs that
\* overlap and die, and any retries and cancellations.
THEOREM RecordsAreHonest == Spec => []RecordIsHonest
<1> DEFINE Records == AnswersAreTrue /\ AttemptsAreCalls /\ LimitsStand /\ RecordIsHonest
<1>1. Init => Records
  BY InitHolds
<1>2. TypeOK /\ TypeOK' /\ Records /\ [Next]_vars => Records'
  BY AnswersStep, AttemptsStep, LimitsStep, RecordStep
<1> QED
  BY <1>1, <1>2, TypeCorrect, PTL DEF Spec

\* Dispatchers that run at the same time do not deliver a message twice, as long
\* as no run outlives the lease of the job it is sending.
THEOREM DeliveriesAreSingle == ASSUME PromptRuns PROVE Spec => []DeliveredOnce
<1> DEFINE Sends == ReachIsDue /\ AnswersAreTrue /\ SendsAreLimited
<1>1. Init => Sends
  BY InitHolds
<1>2. TypeOK /\ TypeOK' /\ Sends /\ [Next]_vars => Sends'
  BY PromptRuns, ReachStep, AnswersStep, SendsStep
<1>3. TypeOK /\ Sends => DeliveredOnce
  <2> SUFFICES ASSUME TypeOK, Sends, NEW j \in Jobs
               PROVE  accepted[j] <= 1 + unsure[j]
    BY DEF DeliveredOnce
  <2>1. PICK h, t : h = Cardinality(Holding(j)) /\ t = ToCome(j)
    OBVIOUS
  <2>2. h \in Nat /\ t \in {0, 1}
    BY <2>1, HoldersAreFinite, FS_CardinalityType DEF ToCome
  <2>3. accepted[j] + h + t <= 1 + unsure[j]
    BY <2>1 DEF SendsAreLimited
  <2>4. accepted[j] \in Nat /\ unsure[j] \in Nat
    BY DEF TypeOK
  <2> QED
    BY <2>2, <2>3, <2>4
<1> QED
  BY <1>1, <1>2, <1>3, TypeCorrect, PTL DEF Spec

\* The provider is called for a job at most maxAttempts times, once more for every
\* death of a run and twice more for every request of an administrator, as long as
\* no run outlives the lease of the job it is sending.
THEOREM CallsStayBounded == ASSUME PromptRuns PROVE Spec => []CallsAreBounded
<1> DEFINE Budget == ReachIsDue /\ CallsKeepPace /\ AttemptsKeepPace /\ LimitsKeepPace
<1>1. Init => Budget
  <2> SUFFICES ASSUME Init
               PROVE  CallsKeepPace /\ AttemptsKeepPace /\ LimitsKeepPace
    BY InitHolds
  <2> QED
    BY DEF Init, NoRows, CallsKeepPace, AttemptsKeepPace, LimitsKeepPace
<1>2. TypeOK /\ TypeOK' /\ Budget /\ [Next]_vars => Budget'
  <2> SUFFICES ASSUME TypeOK, TypeOK', Budget, [Next]_vars
               PROVE  Budget'
    OBVIOUS
  <2>1. \A i \in DOMAIN job' : \A n \in Counts(i)' :
            /\ calls'[i] + Cardinality(Unsent(i))' + One(Due(i))' + Cardinality(Open(i))'
                  <= n + One(Due(i) \/ Held(i))' + asks'[i] + deaths'
            /\ n + Cardinality(Holders(i))' + ToCome(i)' + Cardinality(Open(i))' <= MaxAttempts + asks'[i]
    BY PromptRuns, PaceStep
  <2>2. \A i \in Jobs \ DOMAIN job' : calls'[i] = 0
    BY CallsNeedJob
  <2>3. CallsKeepPace' /\ AttemptsKeepPace'
    BY <2>1, <2>2 DEF CallsKeepPace, AttemptsKeepPace
  <2>4. LimitsKeepPace'
    BY LimitsPaceStep DEF LimitsKeepPace
  <2> QED
    BY <2>3, <2>4, ReachStep
<1>3. TypeOK /\ Budget => CallsAreBounded
  <2> SUFFICES ASSUME TypeOK, Budget, NEW j \in Jobs
               PROVE  calls[j] <= MaxAttempts + 2 * asks[j] + deaths
    BY DEF CallsAreBounded
  <2>1. asks[j] \in Nat /\ deaths \in Nat /\ calls[j] \in Nat /\ MaxAttempts \in Nat
    BY AttemptsAssumption DEF TypeOK
  <2>2. CASE j \notin DOMAIN job
    BY <2>1, <2>2 DEF CallsKeepPace
  <2>3. CASE j \in DOMAIN job
    <3>1. PICK n, u, o, h, f, e, s :
             /\ n = job[j].attempts /\ u = Cardinality(Unsent(j)) /\ o = Cardinality(Open(j))
             /\ h = Cardinality(Holders(j)) /\ f = One(Due(j)) /\ e = One(Due(j) \/ Held(j))
             /\ s = ToCome(j)
      OBVIOUS
    <3>2. /\ n \in Nat /\ u \in Nat /\ o \in Nat /\ h \in Nat
          /\ f \in {0, 1} /\ e \in {0, 1} /\ s \in {0, 1}
      BY <2>3, <3>1, BudgetSets, JobRowType DEF TypeOK, One, ToCome
    <3>3. calls[j] + u + f + o <= n + e + asks[j] + deaths
      BY <2>3, <3>1 DEF CallsKeepPace, Counts
    <3>4. n + h + s + o <= MaxAttempts + asks[j]
      BY <2>3, <3>1 DEF AttemptsKeepPace, Counts
    <3>5. e = 1 => h > 0 \/ s = 1
      <4>1. h = 0 => ~Held(j)
        BY <3>1, BudgetSets, FS_EmptySet
      <4>2. e = 1 => Due(j) \/ Held(j)
        BY <3>1 DEF One
      <4>3. Due(j) => s = 1
        BY <3>1 DEF Due, ToCome
      <4> QED
        BY <3>2, <4>1, <4>2, <4>3
    <3> QED
      BY <2>1, <3>2, <3>3, <3>4, <3>5
  <2> QED
    BY <2>2, <2>3
<1> QED
  BY <1>1, <1>2, <1>3, TypeCorrect, PTL DEF Spec
=============================================================================

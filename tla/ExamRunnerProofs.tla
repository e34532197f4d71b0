--------------------------- MODULE ExamRunnerProofs ---------------------------
(***************************************************************************)
(* Proofs about the exam page, its offline queue and the attempt route     *)
(* together, for any sheets, flushes, retries and faults.                  *)
(*                                                                         *)
(* First that rows, requests and writes have their types and flushes       *)
(* follow the queue, which holds of every page.  Then, for a page that     *)
(* submits with every change sent and is loaded again only to resume, what *)
(* holds as long as the queue gives no write up; most steps only relay     *)
(* messages (Relays), which disturbs little of it.                         *)
(***************************************************************************)
EXTENDS ExamRunner, ExamSittingProofs, WellFoundedInduction

-----------------------------------------------------------------------------
(* The oldest write, and a new id. *)

\* A set of natural numbers that is not empty has a least one.
LEMMA LeastNatural ==
  ASSUME NEW S, S \subseteq Nat, S /= {}
  PROVE  \E i \in S : \A j \in S : i <= j
<1>1. \E i \in S : \A j \in S : ~(<<j, i>> \in OpToRel(<, Nat))
  BY NatLessThanWellFounded, WFMin
<1>2. PICK i \in S : \A j \in S : ~(<<j, i>> \in OpToRel(<, Nat))
  BY <1>1
<1>3. ASSUME NEW j \in S, j < i PROVE FALSE
  <2>1. <<j, i>> \in Nat \X Nat /\ <<j, i>>[1] < <<j, i>>[2]
    BY <1>3
  <2>2. <<j, i>> \in OpToRel(<, Nat)
    BY <2>1 DEF OpToRel
  <2> QED
    BY <1>2, <2>2
<1>4. \A j \in S : i <= j
  BY <1>3
<1> QED
  BY <1>4

\* What is left to replay has an oldest write.
LEMMA OldestIsThere ==
  ASSUME NEW writes, DOMAIN writes \subseteq Nat, DOMAIN writes /= {}
  PROVE  Oldest(writes) \in DOMAIN writes
BY LeastNatural DEF Oldest

\* The ids of all writes.
Ids == DOMAIN queue \cup UNION {DOMAIN flush[f] : f \in DOMAIN flush}

\* A new id is none of them, and the next bound.
LEMMA NewIdIsNew ==
  ASSUME IdsAreBounded, Ids \subseteq Nat
  PROVE  /\ NewId \in Nat /\ NewId \notin Ids
         /\ \A id \in Ids : id < NewId
<1>1. CASE Ids = {}
  BY <1>1 DEF NewId, Ids
<1>2. CASE Ids /= {}
  <2> DEFINE Bounds == {k \in Nat : \A id \in Ids : id <= k}
  <2>1. Bounds /= {}
    BY DEF IdsAreBounded, Ids
  <2>2. PICK k \in Bounds : \A b \in Bounds : k <= b
    BY <2>1, LeastNatural
  <2>3. ASSUME k \notin Ids PROVE FALSE
    <3>1. \A id \in Ids : id < k
      BY <2>2, <2>3
    <3>2. PICK id \in Ids : id \in Nat /\ id < k
      BY <1>2, <3>1
    <3>3. k \in Nat /\ k - 1 \in Nat
      BY <2>2, <3>2
    <3>4. k - 1 \in Bounds
      BY <3>1, <3>3
    <3>5. k <= k - 1
      BY <2>2, <3>4
    <3> QED
      BY <3>3, <3>5
  <2>4. k \in Ids /\ \A id \in Ids : id <= k
    BY <2>2, <2>3
  <2>5. PICK top : top = CHOOSE i \in Ids : \A j \in Ids : j <= i
    OBVIOUS
  <2>6. top \in Ids /\ \A id \in Ids : id <= top
    BY <2>4, <2>5
  <2>7. NewId = 1 + top
    BY <1>2, <2>5 DEF NewId, Ids
  <2> QED
    BY <2>6, <2>7
<1> QED
  BY <1>1, <1>2

-----------------------------------------------------------------------------
(* The attempt. *)

\* There is one attempt, and its row is of its type.
LEMMA RowIsThere ==
  ASSUME TypeOK, OneAttempt
  PROVE  /\ Student \in Students /\ DOMAIN attempt[Student] = 1 .. 1 /\ 1 \in DOMAIN attempt[Student]
         /\ Row \in AttemptRows
         /\ Row.seq \in Nat /\ Row.sheet \in Nat /\ Row.late \in BOOLEAN
<1>1. Student \in Students /\ Latest(Student) = 1
  BY RunnerAssumption DEF OneAttempt
<1>2. DOMAIN attempt[Student] = 1 .. 1
  BY <1>1, AttemptDomain
<1>3. 1 \in DOMAIN attempt[Student]
  BY <1>2
<1>4. Row \in AttemptRows
  BY <1>1, <1>3, AttemptDomain DEF Row
<1>5. Row.seq \in Nat /\ Row.sheet \in Sheets /\ Row.late \in BOOLEAN
  BY <1>4, RowType
<1> QED
  BY <1>1, <1>2, <1>3, <1>4, <1>5, RunnerAssumption

\* A step that writes at most this attempt and what is being finalized.
LEMMA TablesKeepType ==
  ASSUME TypeOK, OneAttempt, attempt' \in [Students -> Seq(AttemptRows)],
         Len(attempt'[Student]) = Len(attempt[Student]),
         closing' \subseteq closing \cup {<<Student, 1>>},
         UNCHANGED <<exam, armed, granted, starting, request, published>>
  PROVE  TypeOK' /\ OneAttempt'
<1>1. OneAttempt'
  BY DEF OneAttempt, Latest
<1>2. <<Student, 1>> \in Students \X Nat
  BY RunnerAssumption
<1>3. closing' \subseteq Students \X Nat
  BY <1>2 DEF TypeOK
<1>4. TypeOK'
  BY <1>3 DEF TypeOK
<1> QED
  BY <1>1, <1>4

\* The row keeps its answers.
SameRow == Row'.status = Row.status /\ Row'.late = Row.late
             /\ Row'.seq = Row.seq /\ Row'.sheet = Row.sheet

LEMMA ServerStays ==
  ASSUME TypeOK, OneAttempt, UNCHANGED vars
  PROVE  TypeOK' /\ OneAttempt' /\ SameRow /\ closing' = closing
<1>1. attempt' = attempt /\ closing' = closing
      /\ UNCHANGED <<exam, armed, granted, starting, request, published>>
  BY DEF vars, sittingVars
<1>2. Row' = Row
  BY <1>1 DEF Row
<1>3. TypeOK' /\ OneAttempt'
  BY <1>1, TablesKeepType DEF TypeOK
<1> QED
  BY <1>1, <1>2, <1>3 DEF SameRow

LEMMA ServerSaves ==
  ASSUME TypeOK, OneAttempt, NEW m \in Messages, Save(Student, 1, m.seq, m.sheet, m.action)
  PROVE  /\ TypeOK' /\ OneAttempt'
         /\ Open /\ Open' /\ Row'.late = Row.late
         /\ Row.seq < m.seq /\ Row'.seq = m.seq /\ Row'.sheet = m.sheet
         /\ IF m.action = "SUBMIT" \/ Row.late THEN closing' /= {} ELSE closing' = closing
<1>1. m.seq \in Nat /\ m.sheet \in Sheets
  BY DEF Messages
<1>2. Student \in Students /\ 1 \in DOMAIN attempt[Student] /\ Row \in AttemptRows
  BY RowIsThere
<1>3. /\ attempt' \in [Students -> Seq(AttemptRows)]
      /\ attempt[Student][1].status = "IN_PROGRESS" /\ attempt[Student][1].seq < m.seq
      /\ attempt'[Student][1] = SavedForm(attempt[Student][1], m.seq, m.sheet)
      /\ OnlyRow(Student, 1)
  BY <1>1, <1>2, SaveEffect
<1>4. /\ Row'.status = Row.status /\ Row'.late = Row.late
      /\ Row'.seq = m.seq /\ Row'.sheet = m.sheet
  BY <1>1, <1>2, <1>3, SavedRow DEF Row
<1>5. /\ closing' = IF m.action = "SUBMIT" \/ Row.late THEN closing \cup {<<Student, 1>>} ELSE closing
      /\ UNCHANGED <<exam, armed, granted, starting, request, published>>
  BY DEF Save, Row
<1>6. TypeOK' /\ OneAttempt'
  BY <1>2, <1>3, <1>5, TablesKeepType DEF OnlyRow
<1> QED
  BY <1>3, <1>4, <1>5, <1>6 DEF Open, Row

LEMMA ServerFinalizes ==
  ASSUME TypeOK, OneAttempt, Finalize(Student, 1)
  PROVE  /\ TypeOK' /\ OneAttempt'
         /\ Open /\ ~Open' /\ closing /= {}
         /\ Row'.late = Row.late /\ Row'.seq = Row.seq /\ Row'.sheet = Row.sheet
<1>1. Student \in Students /\ 1 \in DOMAIN attempt[Student] /\ Row \in AttemptRows
  BY RowIsThere
<1>2. /\ attempt' \in [Students -> Seq(AttemptRows)]
      /\ attempt[Student][1].status = "IN_PROGRESS"
      /\ attempt'[Student][1] = Finalized(attempt[Student][1])
      /\ OnlyRow(Student, 1)
  BY <1>1, FinalizeEffect
<1>3. /\ Row'.status = (IF Essays = {} THEN "GRADED" ELSE "SUBMITTED")
      /\ Row'.late = Row.late /\ Row'.seq = Row.seq /\ Row'.sheet = Row.sheet
  BY <1>1, <1>2, FinalizedRow DEF Row
<1>4. /\ closing' = closing \ {<<Student, 1>>} /\ <<Student, 1>> \in closing
      /\ UNCHANGED <<exam, armed, granted, starting, request, published>>
  BY DEF Finalize
<1>5. TypeOK' /\ OneAttempt'
  BY <1>1, <1>2, <1>4, TablesKeepType DEF OnlyRow
<1> QED
  BY <1>2, <1>3, <1>4, <1>5 DEF Open, Row

LEMMA ServerDrops ==
  ASSUME TypeOK, OneAttempt, FinalizeEnds(Student, 1)
  PROVE  TypeOK' /\ OneAttempt' /\ SameRow /\ closing' = {}
<1>1. /\ attempt' = attempt /\ closing' = closing \ {<<Student, 1>>}
      /\ UNCHANGED <<exam, armed, granted, starting, request, published>>
  BY DEF FinalizeEnds
<1>2. Row' = Row
  BY <1>1 DEF Row
<1>3. TypeOK' /\ OneAttempt'
  BY <1>1, TablesKeepType DEF TypeOK
<1> QED
  BY <1>1, <1>2, <1>3 DEF SameRow, OneAttempt

LEMMA ServerExpires ==
  ASSUME TypeOK, OneAttempt, Expire(Student, 1)
  PROVE  /\ TypeOK' /\ OneAttempt' /\ closing' = closing
         /\ Open /\ Open' /\ Row'.late /\ Row'.seq = Row.seq /\ Row'.sheet = Row.sheet
<1>1. Student \in Students /\ 1 \in DOMAIN attempt[Student] /\ Row \in AttemptRows
  BY RowIsThere
<1>2. /\ attempt' \in [Students -> Seq(AttemptRows)]
      /\ attempt[Student][1].status = "IN_PROGRESS"
      /\ attempt'[Student][1] = LateForm(attempt[Student][1])
      /\ OnlyRow(Student, 1)
  BY <1>1, ExpireEffect
<1>3. /\ Row'.status = Row.status /\ Row'.late
      /\ Row'.seq = Row.seq /\ Row'.sheet = Row.sheet
  BY <1>1, <1>2, LateRow DEF Row
<1>4. /\ closing' = closing
      /\ UNCHANGED <<exam, armed, granted, starting, request, published>>
  BY DEF Expire
<1>5. TypeOK' /\ OneAttempt'
  BY <1>1, <1>2, <1>4, TablesKeepType DEF OnlyRow
<1> QED
  BY <1>2, <1>3, <1>4, <1>5 DEF Open, Row

\* A late attempt is submitted when the page is loaded again.
LEMMA ServerResumesLate ==
  ASSUME TypeOK, OneAttempt, ResumeLate(Student)
  PROVE  TypeOK' /\ OneAttempt' /\ SameRow
<1>1. /\ attempt' = attempt /\ closing' = closing \cup {<<Student, 1>>}
      /\ UNCHANGED <<exam, armed, granted, starting, request, published>>
  BY DEF ResumeLate, OneAttempt
<1>2. Row' = Row
  BY <1>1 DEF Row
<1>3. TypeOK' /\ OneAttempt'
  BY <1>1, TablesKeepType DEF TypeOK
<1> QED
  BY <1>2, <1>3 DEF SameRow

-----------------------------------------------------------------------------
(* The queue and the flushes. *)

\* What the device holds has its type.
PageOK == page \in Pages /\ cache \in [seq : Nat, sheet : Sheets] /\ online \in BOOLEAN
ShownOK == typed \in Sheets /\ saved \in Sheets
             /\ promised \in [sheet : Sheets \cup {NoSheet}, queued : BOOLEAN]
QueueOK == \A id \in DOMAIN queue : id \in Nat /\ queue[id] \in Writes
FlushOK == DOMAIN flush \subseteq Flushes
             /\ \A f \in DOMAIN flush : \A id \in DOMAIN flush[f] : flush[f][id] \in Writes
WireOK == wire \subseteq Requests

LEMMA TypeParts ==
  RunnerTypeOK <=> TypeOK /\ PageOK /\ ShownOK /\ QueueOK /\ FlushOK /\ WireOK /\ faults \in Faults
BY DEF RunnerTypeOK, PageOK, ShownOK, QueueOK, FlushOK, WireOK

\* The writes of the queue and of the flushes belong together.
Stored == QueueOK /\ FlushOK /\ FlushesFollowQueue /\ IdsAreBounded

\* A queued write stays; at most, writes leave, or count one retry more.
QueueStays == \A id \in DOMAIN queue : id \in DOMAIN queue' /\ queue'[id].msg = queue[id].msg
QueueShrinks == DOMAIN queue' \subseteq DOMAIN queue
                  /\ \A id \in DOMAIN queue' : queue'[id] \in Writes /\ queue'[id].msg = queue[id].msg

\* Writes leave this flush, or it is over.
FlushShrinks(f) ==
    /\ DOMAIN flush' \subseteq DOMAIN flush
    /\ \A g \in DOMAIN flush : g /= f => g \in DOMAIN flush' /\ flush'[g] = flush[g]
    /\ f \in DOMAIN flush' =>
         /\ DOMAIN flush'[f] /= {} /\ DOMAIN flush'[f] \subseteq DOMAIN flush[f]
         /\ \A id \in DOMAIN flush'[f] : flush'[f][id] = flush[f][id]

LEMMA FlushLeaves ==
  ASSUME NEW f \in DOMAIN flush, flush' = Without(flush, f) \/ flush' = Rest(f)
  PROVE  FlushShrinks(f)
<1> DEFINE left == Without(flush[f], Oldest(flush[f]))
<1>1. CASE flush' = Without(flush, f)
  BY <1>1 DEF Without, FlushShrinks
<1>2. CASE flush' = With(flush, f, left) /\ DOMAIN left /= {}
  <2>1. DOMAIN flush' = DOMAIN flush /\ flush'[f] = left
        /\ \A g \in DOMAIN flush : g /= f => flush'[g] = flush[g]
    BY <1>2 DEF With
  <2>2. DOMAIN left \subseteq DOMAIN flush[f] /\ \A id \in DOMAIN left : left[id] = flush[f][id]
    BY DEF Without
  <2> QED
    BY <1>2, <2>1, <2>2 DEF FlushShrinks
<1> QED
  BY <1>1, <1>2 DEF Rest

LEMMA WritesLeave ==
  ASSUME Stored, QueueShrinks, NEW f \in DOMAIN flush, FlushShrinks(f)
  PROVE  Stored' /\ Waiting' \subseteq Waiting
<1>1. /\ DOMAIN flush' \subseteq DOMAIN flush
      /\ \A g \in DOMAIN flush' : \A id \in DOMAIN flush'[g] :
           id \in DOMAIN flush[g] /\ flush'[g][id] = flush[g][id]
  BY DEF FlushShrinks
<1>2. QueueOK' /\ FlushOK'
  BY <1>1 DEF Stored, QueueOK, FlushOK, QueueShrinks
<1>3. FlushesFollowQueue'
  <2> SUFFICES ASSUME NEW g \in DOMAIN flush'
               PROVE  /\ DOMAIN flush'[g] /= {} /\ DOMAIN flush'[g] \subseteq Nat
                      /\ \A id \in DOMAIN flush'[g] :
                           id \in DOMAIN queue' => flush'[g][id].msg = queue'[id].msg
    BY DEF FlushesFollowQueue
  <2>1. DOMAIN flush'[g] /= {}
    BY DEF FlushShrinks, Stored, FlushesFollowQueue
  <2>2. DOMAIN flush'[g] \subseteq Nat
    BY <1>1 DEF Stored, FlushesFollowQueue
  <2>3. \A id \in DOMAIN flush'[g] : id \in DOMAIN queue' => flush'[g][id].msg = queue'[id].msg
    BY <1>1 DEF QueueShrinks, Stored, FlushesFollowQueue
  <2> QED
    BY <2>1, <2>2, <2>3
<1>4. IdsAreBounded'
  <2>1. PICK k \in Nat : /\ \A id \in DOMAIN queue : id <= k
                         /\ \A g \in DOMAIN flush : \A id \in DOMAIN flush[g] : id <= k
    BY DEF Stored, IdsAreBounded
  <2> QED
    BY <1>1, <2>1 DEF QueueShrinks, IdsAreBounded
<1>5. Waiting' \subseteq Waiting
  <2> SUFFICES ASSUME NEW m \in Waiting' PROVE m \in Waiting
    OBVIOUS
  <2>1. CASE \E id \in DOMAIN queue' : m = queue'[id].msg
    BY <2>1 DEF QueueShrinks, Waiting
  <2>2. CASE \E g \in DOMAIN flush' : \E id \in DOMAIN flush'[g] : m = flush'[g][id].msg
    BY <1>1, <2>2 DEF Waiting
  <2> QED
    BY <2>1, <2>2 DEF Waiting
<1> QED
  BY <1>2, <1>3, <1>4, <1>5 DEF Stored

\* A write is queued.
LEMMA WriteIsQueued ==
  ASSUME Stored, NEW m \in Messages,
         queue' = With(queue, NewId, [msg |-> m, retries |-> 0]), UNCHANGED flush
  PROVE  /\ Stored' /\ QueueStays /\ NewId \in DOMAIN queue' /\ queue'[NewId].msg = m
         /\ Waiting' \subseteq Waiting \cup {m}
<1>1. Ids \subseteq Nat /\ IdsAreBounded
  BY DEF Stored, QueueOK, FlushesFollowQueue, Ids
<1>2. PICK new : new = NewId
  OBVIOUS
<1>3. new \in Nat /\ new \notin Ids /\ \A id \in Ids : id < new
  BY <1>1, <1>2, NewIdIsNew
<1>4. PICK w \in Writes : w = [msg |-> m, retries |-> 0] /\ w.msg = m
  BY DEF Writes
<1>5. /\ DOMAIN queue' = DOMAIN queue \cup {new} /\ queue'[new] = w
      /\ \A id \in DOMAIN queue : id /= new => queue'[id] = queue[id]
  BY <1>2, <1>4 DEF With
<1>6. new \notin DOMAIN queue /\ \A f \in DOMAIN flush : new \notin DOMAIN flush[f]
  BY <1>3 DEF Ids
<1>7. QueueOK' /\ FlushOK'
  BY <1>3, <1>4, <1>5 DEF Stored, QueueOK, FlushOK
<1>8. FlushesFollowQueue'
  BY <1>5, <1>6 DEF Stored, FlushesFollowQueue
<1>9. IdsAreBounded'
  <2>1. \A id \in DOMAIN queue' : id <= new
    BY <1>1, <1>3, <1>5 DEF Ids
  <2>2. ASSUME NEW f \in DOMAIN flush', NEW id \in DOMAIN flush'[f] PROVE id <= new
    <3>1. f \in DOMAIN flush /\ id \in DOMAIN flush[f]
      OBVIOUS
    <3>2. id \in Ids
      BY <3>1 DEF Ids
    <3> QED
      BY <1>1, <1>3, <3>2
  <2> QED
    BY <1>3, <2>1, <2>2 DEF IdsAreBounded
<1>10. QueueStays
  BY <1>5, <1>6 DEF QueueStays
<1>11. Waiting' \subseteq Waiting \cup {m}
  <2> SUFFICES ASSUME NEW x \in Waiting' PROVE x \in Waiting \cup {m}
    OBVIOUS
  <2>1. CASE \E id \in DOMAIN queue' : x = queue'[id].msg
    BY <1>4, <1>5, <2>1 DEF Waiting
  <2>2. CASE \E g \in DOMAIN flush : \E id \in DOMAIN flush[g] : x = flush[g][id].msg
    BY <2>2 DEF Waiting
  <2> QED
    BY <2>1, <2>2 DEF Waiting
<1> QED
  BY <1>2, <1>4, <1>5, <1>7, <1>8, <1>9, <1>10, <1>11 DEF Stored

\* A flush begins with what is queued.
LEMMA FlushBegins ==
  ASSUME Stored, NEW f \in Flushes, f \notin DOMAIN flush, DOMAIN queue /= {},
         flush' = With(flush, f, queue), UNCHANGED queue
  PROVE  Stored' /\ Waiting' \subseteq Waiting
<1>1. /\ DOMAIN flush' = DOMAIN flush \cup {f} /\ flush'[f] = queue
      /\ \A g \in DOMAIN flush : flush'[g] = flush[g]
  BY DEF With
<1>2. QueueOK' /\ FlushOK'
  BY <1>1 DEF Stored, QueueOK, FlushOK
<1>3. FlushesFollowQueue'
  BY <1>1 DEF Stored, QueueOK, FlushesFollowQueue
<1>4. IdsAreBounded'
  <2>1. PICK k \in Nat : /\ \A id \in DOMAIN queue : id <= k
                         /\ \A g \in DOMAIN flush : \A id \in DOMAIN flush[g] : id <= k
    BY DEF Stored, IdsAreBounded
  <2> QED
    BY <1>1, <2>1 DEF IdsAreBounded
<1>5. Waiting' \subseteq Waiting
  <2> SUFFICES ASSUME NEW m \in Waiting' PROVE m \in Waiting
    OBVIOUS
  <2>1. CASE \E id \in DOMAIN queue : m = queue[id].msg
    BY <2>1 DEF Waiting
  <2>2. CASE \E g \in DOMAIN flush' : \E id \in DOMAIN flush'[g] : m = flush'[g][id].msg
    BY <1>1, <2>2 DEF Waiting
  <2> QED
    BY <2>1, <2>2 DEF Waiting
<1> QED
  BY <1>2, <1>3, <1>4, <1>5 DEF Stored

\* A write that failed stays in the queue, or the queue gives it up.
LEMMA WriteFails ==
  ASSUME Stored, NEW f \in DOMAIN flush, GiveUp(f)
  PROVE  /\ QueueShrinks /\ FlushShrinks(f)
         /\ flush[f][Oldest(flush[f])].retries < MaxRetries => QueueStays
<1>1. PICK id : id = Oldest(flush[f])
  OBVIOUS
<1>2. id \in DOMAIN flush[f] /\ flush[f][id] \in Writes
  BY <1>1, OldestIsThere DEF Stored, FlushesFollowQueue, FlushOK
<1>3. CASE flush[f][id].retries >= MaxRetries
  <2>1. queue' = Without(queue, id) /\ (flush' = Without(flush, f) \/ flush' = Rest(f))
    BY <1>1, <1>3 DEF GiveUp
  <2>2. QueueShrinks
    BY <2>1 DEF Without, QueueShrinks, Stored, QueueOK
  <2>3. FlushShrinks(f)
    BY <2>1, FlushLeaves
  <2>4. flush[f][id].retries \in Nat
    BY <1>2 DEF Writes
  <2> QED
    BY <1>1, <1>3, <2>2, <2>3, <2>4, RunnerAssumption
<1>4. CASE ~(flush[f][id].retries >= MaxRetries)
  <2>1. /\ queue' = IF id \in DOMAIN queue THEN [queue EXCEPT ![id].retries = @ + 1] ELSE queue
        /\ flush' = Without(flush, f)
    BY <1>1, <1>4 DEF GiveUp
  <2>2. QueueShrinks /\ QueueStays
    <3>1. CASE id \in DOMAIN queue
      <4>1. queue[id] \in Writes
        BY <1>2, <3>1 DEF Stored, QueueOK
      <4>2. PICK w : w = [queue[id] EXCEPT !.retries = @ + 1]
        OBVIOUS
      <4>3. w \in Writes /\ w.msg = queue[id].msg
        BY <4>1, <4>2 DEF Writes
      <4>4. queue' = [queue EXCEPT ![id] = w]
        BY <2>1, <3>1, <4>2
      <4>5. /\ DOMAIN queue' = DOMAIN queue /\ queue'[id] = w
            /\ \A i \in DOMAIN queue : i /= id => queue'[i] = queue[i]
        BY <3>1, <4>4
      <4> QED
        BY <4>3, <4>5 DEF QueueShrinks, QueueStays, Stored, QueueOK
    <3>2. CASE id \notin DOMAIN queue
      BY <2>1, <3>2 DEF QueueShrinks, QueueStays, Stored, QueueOK
    <3> QED
      BY <3>1, <3>2
  <2>3. FlushShrinks(f)
    BY <2>1, FlushLeaves
  <2> QED
    BY <2>2, <2>3
<1> QED
  BY <1>3, <1>4

-----------------------------------------------------------------------------
(* Requests. *)

LEMMA RequestFields ==
  ASSUME NEW r \in Requests
  PROVE  /\ r.msg \in Messages /\ r.last \in Nat
         /\ r.waits \in Flushes \cup {Page, Nobody}
         /\ r.at \in {"SENT", "STORED", "OK", "REFUSED", "FAILED"}
BY DEF Requests

LEMMA MessageFields ==
  ASSUME NEW m \in Messages
  PROVE  m.seq \in Nat /\ m.sheet \in Sheets /\ m.sheet \in Nat /\ m.action \in {"SAVE", "SUBMIT"}
BY RunnerAssumption DEF Messages

\* A request is replaced by one with the same message, or is gone.
Swaps(r, new) ==
    /\ r \in wire /\ new \in Requests /\ new.msg = r.msg
    /\ wire \ {r} \subseteq wire'
    /\ wire' \subseteq (wire \ {r}) \cup {new}

LEMMA RequestLeaves ==
  ASSUME WireOK, NEW r \in wire, wire' = wire \ {r}
  PROVE  Swaps(r, r)
BY DEF WireOK, Swaps

\* The server answers.
LEMMA AnswerSwaps ==
  ASSUME WireOK, NEW r \in wire, NEW at \in {"STORED", "OK", "REFUSED"}, NEW last \in Nat,
         wire' = Answered(r, at, last)
  PROVE  \E new : Swaps(r, new) /\ new.at = at /\ new.last = last /\ new.waits = r.waits
<1>1. r \in Requests
  BY DEF WireOK
<1>2. PICK new : new = [r EXCEPT !.at = at, !.last = last]
  OBVIOUS
<1>3. /\ new \in Requests /\ new.msg = r.msg /\ new.waits = r.waits
      /\ new.at = at /\ new.last = last
  BY <1>1, <1>2 DEF Requests
<1>4. wire' = (wire \ {r}) \cup (IF r.waits = Nobody THEN {} ELSE {new})
  BY <1>2 DEF Answered
<1>5. Swaps(r, new)
  BY <1>3, <1>4 DEF Swaps
<1> QED
  BY <1>3, <1>5

\* Who waited for it gives up.
LEMMA AbandonSwaps ==
  ASSUME WireOK, NEW r \in wire, wire' = Abandoned(r)
  PROVE  \E new : /\ Swaps(r, new) /\ new.waits = Nobody
                  /\ new.last = r.last /\ new.at = r.at
                  /\ r.at \in {"SENT", "STORED"} => new \in wire'
<1>1. r \in Requests
  BY DEF WireOK
<1>2. PICK new : new = [r EXCEPT !.waits = Nobody]
  OBVIOUS
<1>3. /\ new \in Requests /\ new.msg = r.msg /\ new.waits = Nobody
      /\ new.at = r.at /\ new.last = r.last
  BY <1>1, <1>2 DEF Requests
<1>4. wire' = (wire \ {r}) \cup (IF r.at \in {"SENT", "STORED"} THEN {new} ELSE {})
  BY <1>2 DEF Abandoned
<1>5. Swaps(r, new)
  BY <1>3, <1>4 DEF Swaps
<1> QED
  BY <1>3, <1>4, <1>5

\* The server stored the answers of a submission, or late ones.
LEMMA StoredSwaps ==
  ASSUME WireOK, NEW r \in wire, wire' = (wire \ {r}) \cup {[r EXCEPT !.at = "STORED"]}
  PROVE  \E new \in wire' : /\ Swaps(r, new) /\ new.waits = r.waits
                            /\ new.last = r.last /\ new.at = "STORED"
<1>1. r \in Requests
  BY DEF WireOK
<1>2. PICK new : new = [r EXCEPT !.at = "STORED"]
  OBVIOUS
<1>3. /\ new \in Requests /\ new.msg = r.msg /\ new.waits = r.waits
      /\ new.at = "STORED" /\ new.last = r.last
  BY <1>1, <1>2 DEF Requests
<1>4. wire' = (wire \ {r}) \cup {new}
  BY <1>2
<1>5. Swaps(r, new)
  BY <1>3, <1>4 DEF Swaps
<1> QED
  BY <1>3, <1>4, <1>5

\* What is sent is a request.
LEMMA SentRequest ==
  ASSUME NEW m \in Messages, NEW who \in Flushes \cup {Page, Nobody}, NEW new, new = Sent(m, who)
  PROVE  new \in Requests /\ new.msg = m /\ new.waits = who /\ new.last = 0 /\ new.at = "SENT"
BY DEF Sent, Requests

\* The process dies: what it was about to finalize fails.
LEMMA DeathFails ==
  ASSUME WireOK,
         wire' = {[r EXCEPT !.at = IF @ = "STORED" THEN "FAILED" ELSE @] :
                     r \in {w \in wire : w.at = "STORED" => w.waits /= Nobody}}
  PROVE  /\ WireOK'
         /\ \A new \in wire' : \E r \in wire :
              /\ new.msg = r.msg /\ new.waits = r.waits /\ new.last = r.last
              /\ new = r \/ (new.at = "FAILED" /\ r.at = "STORED")
              /\ new.at /= "STORED"
         /\ ReplaysFollowFlush /\ UNCHANGED flush => ReplaysFollowFlush'
<1> DEFINE Fallen(r) == [r EXCEPT !.at = IF r.at = "STORED" THEN "FAILED" ELSE r.at]
<1>1. ASSUME NEW r \in wire
      PROVE  /\ Fallen(r) \in Requests
             /\ Fallen(r).msg = r.msg /\ Fallen(r).waits = r.waits /\ Fallen(r).last = r.last
             /\ Fallen(r) = r \/ (Fallen(r).at = "FAILED" /\ r.at = "STORED")
             /\ Fallen(r).at /= "STORED"
  <2>1. r \in Requests
    BY DEF WireOK
  <2>2. CASE r.at = "STORED"
    BY <2>1, <2>2 DEF Requests
  <2>3. CASE r.at /= "STORED"
    <3>1. Fallen(r) = r
      BY <2>1, <2>3 DEF Requests
    <3> QED
      BY <2>1, <2>3, <3>1
  <2> QED
    BY <2>2, <2>3
<1>2. \A new \in wire' : \E r \in wire : new = Fallen(r)
  OBVIOUS
<1> HIDE DEF Fallen
<1>3. WireOK'
  BY <1>1, <1>2 DEF WireOK
<1>4. \A new \in wire' : \E r \in wire :
         /\ new.msg = r.msg /\ new.waits = r.waits /\ new.last = r.last
         /\ new = r \/ (new.at = "FAILED" /\ r.at = "STORED")
         /\ new.at /= "STORED"
  BY <1>1, <1>2
<1>5. ASSUME ReplaysFollowFlush, UNCHANGED flush PROVE ReplaysFollowFlush'
  <2>1. \A r \in wire' : r.waits \in Flushes =>
          r.waits \in DOMAIN flush' /\ r.msg = flush'[r.waits][Oldest(flush'[r.waits])].msg
    BY <1>4, <1>5 DEF ReplaysFollowFlush
  <2>2. \A r, other \in wire' : r.waits \in Flushes /\ other.waits = r.waits => other = r
    BY <1>1, <1>2, <1>5 DEF ReplaysFollowFlush
  <2> QED
    BY <2>1, <2>2 DEF ReplaysFollowFlush
<1> QED
  BY <1>3, <1>4, <1>5

-----------------------------------------------------------------------------
(* Replays. *)

\* A request is swapped for one that the same flush waits for, or nobody.
LEMMA ReplaysSwap ==
  ASSUME ReplaysFollowFlush, UNCHANGED flush, NEW r, NEW new, Swaps(r, new),
         new.waits = r.waits \/ new.waits = Nobody
  PROVE  ReplaysFollowFlush'
<1>1. new.waits \in Flushes => new.waits = r.waits
  BY RunnerAssumption
<1>2. \A q \in wire' : q.waits \in Flushes =>
        q.waits \in DOMAIN flush' /\ q.msg = flush'[q.waits][Oldest(flush'[q.waits])].msg
  BY <1>1 DEF Swaps, ReplaysFollowFlush
<1>3. \A q, other \in wire' : q.waits \in Flushes /\ other.waits = q.waits => other = q
  BY <1>1 DEF Swaps, ReplaysFollowFlush
<1> QED
  BY <1>2, <1>3 DEF ReplaysFollowFlush

\* No other replay begins, and those that go on have the same flush.
LEMMA ReplaysStay ==
  ASSUME ReplaysFollowFlush,
         \A r \in wire' : r.waits \in Flushes =>
             r \in wire /\ (r.waits \in DOMAIN flush =>
                                r.waits \in DOMAIN flush' /\ flush'[r.waits] = flush[r.waits])
  PROVE  ReplaysFollowFlush'
<1>1. \A r \in wire' : r.waits \in Flushes =>
        r.waits \in DOMAIN flush' /\ r.msg = flush'[r.waits][Oldest(flush'[r.waits])].msg
  BY DEF ReplaysFollowFlush
<1>2. \A r, other \in wire' : r.waits \in Flushes /\ other.waits = r.waits => other = r
  BY DEF ReplaysFollowFlush
<1> QED
  BY <1>1, <1>2 DEF ReplaysFollowFlush

\* A flush sends the oldest write that it has left.
LEMMA ReplayIsSent ==
  ASSUME ReplaysFollowFlush, UNCHANGED flush, NEW f \in DOMAIN flush, Replaying(f) = {},
         NEW new, new.waits = f, new.msg = flush[f][Oldest(flush[f])].msg, wire' = wire \cup {new}
  PROVE  ReplaysFollowFlush'
<1>1. \A r \in wire : r.waits /= f
  BY DEF Replaying
<1>2. \A r \in wire' : r.waits \in Flushes =>
        r.waits \in DOMAIN flush' /\ r.msg = flush'[r.waits][Oldest(flush'[r.waits])].msg
  BY DEF ReplaysFollowFlush
<1>3. \A r, other \in wire' : r.waits \in Flushes /\ other.waits = r.waits => other = r
  BY <1>1 DEF ReplaysFollowFlush
<1> QED
  BY <1>2, <1>3 DEF ReplaysFollowFlush

-----------------------------------------------------------------------------
(* What each step of the page does. *)

LEMMA LinksParts ==
  ASSUME Links
  PROVE  /\ TypeOK /\ OneAttempt /\ PageOK /\ ShownOK /\ WireOK /\ faults \in Faults
         /\ Stored /\ ReplaysFollowFlush
BY TypeParts DEF Links, Stored

LEMMA LinksFrom ==
  ASSUME TypeOK', OneAttempt', PageOK', ShownOK', WireOK', (faults \in Faults)',
         Stored', ReplaysFollowFlush'
  PROVE  Links'
BY DEF Links, RunnerTypeOK, PageOK, ShownOK, WireOK, Stored, QueueOK, FlushOK

\* The numbers that are compared.
LEMMA Numbers ==
  ASSUME Links
  PROVE  /\ Row.seq \in Nat /\ Row.sheet \in Nat /\ page.seq \in Nat /\ page.sheet \in Nat
         /\ typed \in Nat /\ saved \in Nat /\ promised.sheet \in Nat \cup {NoSheet}
         /\ faults.drops \in Nat /\ faults.deaths \in Nat
         /\ page.dirty \in BOOLEAN /\ Row.late \in BOOLEAN
BY LinksParts, RowIsThere, RunnerAssumption DEF PageOK, ShownOK, Pages, Faults

\* The same, after a step.
LEMMA NumbersAfter ==
  ASSUME Links'
  PROVE  /\ Row'.seq \in Nat /\ Row'.sheet \in Nat /\ page'.seq \in Nat /\ page'.sheet \in Nat
         /\ typed' \in Nat /\ saved' \in Nat /\ promised'.sheet \in Nat \cup {NoSheet}
<1>1. attempt' \in [Students -> Seq(AttemptRows)] /\ Len(attempt'[Student]) = 1
  BY DEF Links, RunnerTypeOK, TypeOK, OneAttempt, Latest
<1>2. attempt'[Student] \in Seq(AttemptRows)
  BY <1>1, RunnerAssumption
<1>3. attempt'[Student][1] \in AttemptRows
  <2> DEFINE rows == attempt'[Student]
  <2>1. rows \in Seq(AttemptRows) /\ Len(rows) = 1
    BY <1>1, <1>2
  <2> HIDE DEF rows
  <2>2. rows[1] \in AttemptRows
    BY <2>1
  <2> QED
    BY <2>2 DEF rows
<1>4. PICK row \in AttemptRows : row = Row'
  BY <1>3 DEF Row
<1>5. row.seq \in Nat /\ row.sheet \in Sheets
  BY RowType
<1>6. page' \in Pages /\ typed' \in Sheets /\ saved' \in Sheets
      /\ promised' \in [sheet : Sheets \cup {NoSheet}, queued : BOOLEAN]
  BY DEF Links, RunnerTypeOK
<1>7. page'.seq \in Nat /\ page'.sheet \in Sheets
  BY <1>6 DEF Pages
<1>8. promised'.sheet \in Sheets \cup {NoSheet}
  BY <1>6
<1> QED
  BY <1>4, <1>5, <1>6, <1>7, <1>8, RunnerAssumption

\* What is on its way is a message.
LEMMA LiveMessages ==
  ASSUME Links
  PROVE  \A m \in Live : m \in Messages /\ m.seq \in Nat /\ m.sheet \in Nat
<1>1. WireOK /\ QueueOK /\ FlushOK
  BY LinksParts DEF Stored
<1>2. ASSUME NEW m \in Live PROVE m \in Messages
  <2>1. CASE \E r \in wire : m = r.msg
    BY <1>1, <2>1, RequestFields DEF WireOK
  <2>2. CASE \E id \in DOMAIN queue : m = queue[id].msg
    BY <1>1, <2>2 DEF QueueOK, Writes
  <2>3. CASE \E f \in DOMAIN flush : \E id \in DOMAIN flush[f] : m = flush[f][id].msg
    BY <1>1, <2>3 DEF FlushOK, Writes
  <2> QED
    BY <1>2, <2>1, <2>2, <2>3 DEF Live, Waiting
<1> QED
  BY <1>2, MessageFields

\* The device's tables, the shown sheets, the faults or the server stay.
LEMMA StoredStays ==
  ASSUME Stored, UNCHANGED <<queue, flush>>
  PROVE  Stored' /\ Waiting' = Waiting /\ QueueStays
BY DEF Stored, QueueOK, FlushOK, FlushesFollowQueue, IdsAreBounded, Waiting, QueueStays

LEMMA TypeEffect ==
  ASSUME Links, Type
  PROVE  /\ Links' /\ SameRow /\ closing' = closing
         /\ UNCHANGED <<queue, flush, wire, faults, saved, promised>>
         /\ page.at = "OPEN" \/ (page.at = "SUBMITTING" /\ ~QuietSubmits)
         /\ page'.at = page.at /\ page'.seq = page.seq
         /\ typed' = typed + 1 /\ page'.sheet = typed'
<1>1. TypeOK' /\ OneAttempt' /\ SameRow /\ closing' = closing
  BY LinksParts, ServerStays DEF Type
<1>2. /\ page' \in Pages /\ page'.at = page.at /\ page'.seq = page.seq /\ page'.sheet = typed'
      /\ typed' = typed + 1 /\ typed' \in Sheets
  BY LinksParts DEF Type, PageOK, Pages
<1>3. UNCHANGED <<cache, online, queue, flush, wire, faults, saved, promised>>
  BY DEF Type
<1>4. PageOK' /\ ShownOK' /\ WireOK' /\ (faults \in Faults)'
  BY LinksParts, <1>2, <1>3 DEF PageOK, ShownOK, WireOK
<1>5. Stored' /\ ReplaysFollowFlush'
  BY LinksParts, <1>3, StoredStays DEF ReplaysFollowFlush
<1>6. Links'
  BY <1>1, <1>4, <1>5, LinksFrom
<1> QED
  BY <1>1, <1>2, <1>3, <1>6 DEF Type

\* The page after a save, and after a submission.
Saving(p, a) == [p EXCEPT !.seq = @ + 1, !.dirty = FALSE, !.at = a]
Submitting(p, a) == [p EXCEPT !.seq = @ + 1, !.at = a]

LEMMA PageSaves ==
  ASSUME NEW p \in Pages, NEW a \in {"OPEN", "SUBMITTING", "TIME_UP", "LEFT"}, NEW new, new = Saving(p, a)
  PROVE  new \in Pages /\ new.at = a /\ new.seq = p.seq + 1 /\ new.sheet = p.sheet /\ new.dirty = FALSE
<1>1. p.seq + 1 \in Nat /\ p.sheet \in Sheets
  BY DEF Pages
<1>2. new = [at |-> a, seq |-> p.seq + 1, sheet |-> p.sheet, dirty |-> FALSE]
  BY DEF Pages, Saving
<1>3. new \in Pages
  BY <1>1, <1>2 DEF Pages
<1> QED
  BY <1>2, <1>3

LEMMA PageSubmits ==
  ASSUME NEW p \in Pages, NEW a \in {"OPEN", "SUBMITTING", "TIME_UP", "LEFT"}, NEW new, new = Submitting(p, a)
  PROVE  new \in Pages /\ new.at = a /\ new.seq = p.seq + 1 /\ new.sheet = p.sheet /\ new.dirty = p.dirty
<1>1. p.seq + 1 \in Nat /\ p.sheet \in Sheets /\ p.dirty \in BOOLEAN
  BY DEF Pages
<1>2. new = [at |-> a, seq |-> p.seq + 1, sheet |-> p.sheet, dirty |-> p.dirty]
  BY DEF Pages, Submitting
<1>3. new \in Pages
  BY <1>1, <1>2 DEF Pages
<1> QED
  BY <1>2, <1>3

\* The page's counter goes on and its answers are sent, or queued.
Sends(m) ==
    /\ m \in Messages /\ m.seq = page.seq + 1 /\ m.sheet = page.sheet
    /\ page'.seq = page.seq + 1 /\ page'.sheet = page.sheet
    /\ SameRow /\ closing' = closing /\ QueueStays
    /\ UNCHANGED <<flush, faults, typed>>
    /\ Waiting' \subseteq Waiting \cup {m}
    /\ \A r \in wire' : \/ r \in wire
                        \/ /\ wire' = wire \cup {r} /\ Waiting' = Waiting
                           /\ r.msg = m /\ r.at = "SENT" /\ r.last = 0
    /\ wire \subseteq wire'

\* What is queued is shown: a save as saved, a submission as submitted.
Shows(m) ==
    /\ \E id \in DOMAIN queue' : queue'[id].msg = m
    /\ saved' = IF m.action = "SAVE" THEN Larger(saved, m.sheet) ELSE saved
    /\ promised' = IF m.action = "SUBMIT" THEN [sheet |-> m.sheet, queued |-> TRUE] ELSE promised

LEMMA PayloadMessage ==
  ASSUME PageOK, NEW action \in {"SAVE", "SUBMIT"}, NEW m, m = Payload(action)
  PROVE  m \in Messages /\ m.seq = page.seq + 1 /\ m.sheet = page.sheet /\ m.action = action
BY DEF Payload, Messages, PageOK, Pages

LEMMA ShownKeepsType ==
  ASSUME ShownOK, NEW m \in Messages, Shows(m), UNCHANGED typed
  PROVE  ShownOK'
<1>1. m.sheet \in Sheets
  BY DEF Messages
<1>2. saved' \in Sheets
  BY <1>1 DEF Shows, ShownOK, Larger
<1>3. promised' \in [sheet : Sheets \cup {NoSheet}, queued : BOOLEAN]
  BY <1>1 DEF Shows, ShownOK
<1> QED
  BY <1>2, <1>3 DEF ShownOK

\* A message is sent to the server, by this waiter.
LEMMA SendingLinks ==
  ASSUME WireOK, ReplaysFollowFlush, UNCHANGED flush, NEW m \in Messages, NEW who \in {Page, Nobody},
         wire' = wire \cup {Sent(m, who)}
  PROVE  /\ WireOK' /\ ReplaysFollowFlush'
         /\ \A r \in wire' : \/ r \in wire
                             \/ /\ wire' = wire \cup {r}
                                /\ r.msg = m /\ r.at = "SENT" /\ r.last = 0 /\ r.waits = who
<1>1. PICK new : new = Sent(m, who)
  OBVIOUS
<1>2. new \in Requests /\ new.msg = m /\ new.waits = who /\ new.last = 0 /\ new.at = "SENT"
  BY <1>1, SentRequest
<1>3. wire' = wire \cup {new}
  BY <1>1
<1>4. WireOK'
  BY <1>2, <1>3 DEF WireOK
<1>5. ReplaysFollowFlush'
  BY <1>2, <1>3, RunnerAssumption, ReplaysStay
<1> QED
  BY <1>2, <1>3, <1>4, <1>5

LEMMA PersistEffect ==
  ASSUME Links, NEW action \in {"SAVE", "SUBMIT"}, NEW at \in {"OPEN", "SUBMITTING", "TIME_UP", "LEFT"},
         Persist(action, at), NEW m, m = Payload(action)
  PROVE  /\ Links' /\ Sends(m) /\ m.action = action
         /\ page'.dirty => action = "SUBMIT" /\ page.dirty
         /\ page'.at = (IF action = "SUBMIT" /\ ~online THEN "LEFT" ELSE at)
         /\ Shows(m) \/ UNCHANGED <<queue, saved, promised>>
<1>1. TypeOK' /\ OneAttempt' /\ SameRow /\ closing' = closing
  BY LinksParts, ServerStays DEF Persist
<1>2. m \in Messages /\ m.seq = page.seq + 1 /\ m.sheet = page.sheet /\ m.action = action
  BY LinksParts, PayloadMessage
<1>3. /\ page' \in Pages /\ page'.seq = page.seq + 1 /\ page'.sheet = page.sheet
      /\ page'.dirty => action = "SUBMIT" /\ page.dirty
      /\ page'.at = (IF action = "SUBMIT" /\ ~online THEN "LEFT" ELSE at)
  <2>1. page \in Pages
    BY LinksParts DEF PageOK
  <2>2. PICK a \in {"OPEN", "SUBMITTING", "TIME_UP", "LEFT"} :
          a = IF action = "SUBMIT" /\ ~online THEN "LEFT" ELSE at
    OBVIOUS
  <2>3. CASE action = "SAVE"
    <3>1. page' = Saving(page, a)
      BY <2>1, <2>2, <2>3 DEF Persist, Saving, Pages
    <3> QED
      BY <2>1, <2>2, <2>3, <3>1, PageSaves
  <2>4. CASE action = "SUBMIT"
    <3>1. page' = Submitting(page, a)
      BY <2>1, <2>2, <2>4 DEF Persist, Submitting, Pages
    <3> QED
      BY <2>1, <2>2, <2>4, <3>1, PageSubmits
  <2> QED
    BY <2>3, <2>4
<1>4. UNCHANGED <<cache, typed, online, flush, faults>>
  BY DEF Persist
<1>5. PageOK' /\ (faults \in Faults)'
  BY LinksParts, <1>3, <1>4 DEF PageOK
<1>6. CASE online
  <2>1. wire' = wire \cup {Sent(m, Page)} /\ UNCHANGED <<queue, saved, promised>>
    BY <1>6 DEF Persist
  <2>2. WireOK' /\ ReplaysFollowFlush'
        /\ \A r \in wire' : \/ r \in wire
                            \/ wire' = wire \cup {r} /\ r.msg = m /\ r.at = "SENT" /\ r.last = 0
    BY LinksParts, <1>2, <1>4, <2>1, SendingLinks
  <2>3. Stored' /\ Waiting' = Waiting /\ QueueStays
    BY LinksParts, <1>4, <2>1, StoredStays
  <2>4. ShownOK'
    BY LinksParts, <1>4, <2>1 DEF ShownOK
  <2>5. Links'
    BY <1>1, <1>5, <2>2, <2>3, <2>4, LinksFrom
  <2>6. Sends(m)
    BY <1>1, <1>2, <1>3, <1>4, <2>1, <2>2, <2>3 DEF Sends
  <2> QED
    BY <1>2, <1>3, <2>1, <2>5, <2>6
<1>7. CASE ~online
  <2>1. Queued(m) /\ UNCHANGED wire
    BY <1>7 DEF Persist
  <2>2. /\ Stored' /\ QueueStays /\ NewId \in DOMAIN queue' /\ queue'[NewId].msg = m
        /\ Waiting' \subseteq Waiting \cup {m}
    BY LinksParts, <1>2, <1>4, <2>1, WriteIsQueued DEF Queued
  <2>3. Shows(m)
    BY <2>1, <2>2 DEF Queued, Shows
  <2>4. ShownOK' /\ WireOK' /\ ReplaysFollowFlush'
    BY LinksParts, <1>2, <1>4, <2>1, <2>3, ShownKeepsType DEF WireOK, ReplaysFollowFlush
  <2>5. Links'
    BY <1>1, <1>5, <2>2, <2>4, LinksFrom
  <2>6. Sends(m)
    BY <1>1, <1>2, <1>3, <1>4, <2>1, <2>2 DEF Sends
  <2> QED
    BY <1>2, <1>3, <2>3, <2>5, <2>6
<1> QED
  BY <1>6, <1>7

LEMMA HideFlushEffect ==
  ASSUME Links, HideFlush, NEW m, m = Payload("SAVE")
  PROVE  /\ Links' /\ Sends(m) /\ m.action = "SAVE"
         /\ page.dirty /\ page'.at = page.at /\ ~page'.dirty
         /\ UNCHANGED <<queue, saved, promised>>
<1>1. TypeOK' /\ OneAttempt' /\ SameRow /\ closing' = closing
  BY LinksParts, ServerStays DEF HideFlush
<1>2. m \in Messages /\ m.seq = page.seq + 1 /\ m.sheet = page.sheet /\ m.action = "SAVE"
  BY LinksParts, PayloadMessage
<1>3. /\ page' \in Pages /\ page'.seq = page.seq + 1 /\ page'.sheet = page.sheet
      /\ ~page'.dirty /\ page'.at = page.at
  <2>1. page \in Pages
    BY LinksParts DEF PageOK
  <2>2. PICK a \in {"OPEN", "SUBMITTING", "TIME_UP", "LEFT"} : a = page.at
    BY <2>1 DEF Pages
  <2>3. page' = Saving(page, a)
    BY <2>1, <2>2 DEF HideFlush, Pages, Saving
  <2> QED
    BY <2>1, <2>2, <2>3, PageSaves
<1>4. UNCHANGED <<cache, typed, saved, promised, online, queue, flush, faults>>
  BY DEF HideFlush, shown
<1>5. PageOK' /\ ShownOK' /\ (faults \in Faults)'
  BY LinksParts, <1>3, <1>4 DEF PageOK, ShownOK
<1>6. Stored' /\ Waiting' = Waiting /\ QueueStays
  BY LinksParts, <1>4, StoredStays
<1>7. /\ WireOK' /\ ReplaysFollowFlush' /\ wire \subseteq wire'
      /\ \A r \in wire' : \/ r \in wire
                          \/ wire' = wire \cup {r} /\ r.msg = m /\ r.at = "SENT" /\ r.last = 0
  <2>1. CASE wire' = wire \cup {Sent(m, Nobody)}
    BY LinksParts, <1>2, <1>4, <2>1, SendingLinks
  <2>2. CASE wire' = wire
    BY LinksParts, <1>4, <2>2 DEF WireOK, ReplaysFollowFlush
  <2> QED
    BY <2>1, <2>2 DEF HideFlush
<1>8. Links'
  BY <1>1, <1>5, <1>6, <1>7, LinksFrom
<1>9. Sends(m)
  BY <1>1, <1>2, <1>3, <1>4, <1>6, <1>7 DEF Sends
<1> QED
  BY <1>2, <1>3, <1>4, <1>8, <1>9 DEF HideFlush

-----------------------------------------------------------------------------
(* Steps that only relay messages. *)

\* No message is new, and nothing new comes beside the page's own submission.
Relays ==
    /\ Live' \subseteq Live
    /\ \A r \in wire' : r.at = "SENT" /\ r.waits = Page => r \in wire /\ Beside(r)' \subseteq Beside(r)

LEMMA SwapsRelay ==
  ASSUME NEW r, NEW new, Swaps(r, new), Waiting' \subseteq Waiting \cup {r.msg},
         new.at /= "SENT" \/ new.waits /= Page
  PROVE  Relays
<1>1. Live' \subseteq Live
  BY DEF Live, Swaps
<1>2. ASSUME NEW q \in wire', q.at = "SENT" /\ q.waits = Page
      PROVE  q \in wire /\ Beside(q)' \subseteq Beside(q)
  <2>1. q \in wire /\ q /= r /\ r \in wire
    BY <1>2 DEF Swaps
  <2>2. r.msg \in Beside(q)
    BY <2>1 DEF Beside
  <2>3. \A other \in wire' \ {q} : other.msg \in Beside(q)
    BY <2>1, <2>2 DEF Beside, Swaps
  <2>4. Waiting' \subseteq Beside(q)
    BY <2>2 DEF Beside
  <2> QED
    BY <2>1, <2>3, <2>4 DEF Beside
<1> QED
  BY <1>1, <1>2 DEF Relays

LEMMA QuietRelays ==
  ASSUME UNCHANGED wire, Waiting' \subseteq Waiting
  PROVE  Relays
BY DEF Relays, Live, Beside

LEMMA SaveAnsweredEffect ==
  ASSUME Links, NEW r, SaveAnswered(r)
  PROVE  /\ Links' /\ Relays /\ SameRow /\ closing' = closing
         /\ r \in wire /\ r.waits = Page /\ r.at \in {"OK", "REFUSED"} /\ wire' = wire \ {r}
         /\ UNCHANGED <<queue, flush, faults, typed, promised>>
         /\ saved' = IF r.at = "OK" THEN Larger(saved, r.msg.sheet) ELSE saved
         /\ page'.seq = Larger(page.seq, r.last) /\ page'.sheet = page.sheet
         /\ page'.at = page.at /\ page'.dirty = page.dirty
<1>1. TypeOK' /\ OneAttempt' /\ SameRow /\ closing' = closing
  BY LinksParts, ServerStays DEF SaveAnswered
<1>2. /\ r \in wire /\ r.waits = Page /\ r.at \in {"OK", "REFUSED"} /\ wire' = wire \ {r}
      /\ UNCHANGED <<cache, typed, promised, online, queue, flush, faults>>
      /\ saved' = IF r.at = "OK" THEN Larger(saved, r.msg.sheet) ELSE saved
      /\ page' = [page EXCEPT !.seq = Larger(@, r.last)]
  BY DEF SaveAnswered
<1>3. r \in Requests /\ r.last \in Nat /\ r.msg.sheet \in Sheets
  BY LinksParts, <1>2, RequestFields, MessageFields DEF WireOK
<1>4. /\ page' \in Pages /\ page'.seq = Larger(page.seq, r.last) /\ page'.sheet = page.sheet
      /\ page'.at = page.at /\ page'.dirty = page.dirty
  <2>1. page \in Pages
    BY LinksParts DEF PageOK
  <2>2. PICK n : n = Larger(page.seq, r.last)
    OBVIOUS
  <2>3. n \in Nat
    BY <1>3, <2>1, <2>2 DEF Larger, Pages
  <2>4. page' = [page EXCEPT !.seq = n]
    BY <1>2, <2>2
  <2> QED
    BY <2>1, <2>2, <2>3, <2>4 DEF Pages
<1>5. PageOK' /\ (faults \in Faults)'
  BY LinksParts, <1>2, <1>4 DEF PageOK
<1>6. ShownOK'
  <2>1. saved' \in Sheets
    BY LinksParts, <1>2, <1>3 DEF ShownOK, Larger
  <2> QED
    BY LinksParts, <1>2, <2>1 DEF ShownOK
<1>7. Stored' /\ Waiting' = Waiting
  BY LinksParts, <1>2, StoredStays
<1>8. Swaps(r, r)
  BY LinksParts, <1>2, RequestLeaves
<1>9. WireOK' /\ ReplaysFollowFlush'
  BY LinksParts, <1>2, <1>8, ReplaysSwap DEF WireOK
<1>10. Relays
  BY <1>2, <1>7, <1>8, SwapsRelay
<1>11. Links'
  BY <1>1, <1>5, <1>6, <1>7, <1>9, LinksFrom
<1> QED
  BY <1>1, <1>2, <1>4, <1>10, <1>11

\* The page's place, when it only moves on from a submission.
LEMMA PageMoves ==
  ASSUME NEW p \in Pages, NEW a \in {"OPEN", "LEFT"}, NEW new, new = [p EXCEPT !.at = a]
  PROVE  new \in Pages /\ new.at = a /\ new.seq = p.seq /\ new.sheet = p.sheet /\ new.dirty = p.dirty
BY DEF Pages

LEMMA SubmitAnsweredEffect ==
  ASSUME Links, NEW r, SubmitAnswered(r)
  PROVE  /\ Links' /\ Relays /\ SameRow /\ closing' = closing
         /\ r \in wire /\ r.waits = Page /\ r.msg.action = "SUBMIT" /\ r.at \in {"OK", "REFUSED"}
         /\ wire' = wire \ {r}
         /\ UNCHANGED <<queue, flush, faults, typed, saved>>
         /\ page'.seq = page.seq /\ page'.sheet = page.sheet /\ page'.dirty = page.dirty
         /\ IF r.at = "OK" \/ page.at = "TIME_UP"
            THEN promised'.sheet = r.msg.sheet /\ page'.at = "LEFT"
            ELSE promised' = promised /\ page'.at = "OPEN"
<1>1. TypeOK' /\ OneAttempt' /\ SameRow /\ closing' = closing
  BY LinksParts, ServerStays DEF SubmitAnswered
<1>2. /\ r \in wire /\ r.waits = Page /\ r.msg.action = "SUBMIT" /\ r.at \in {"OK", "REFUSED"}
      /\ wire' = wire \ {r}
      /\ UNCHANGED <<cache, typed, saved, online, queue, flush, faults>>
      /\ IF r.at = "OK" \/ page.at = "TIME_UP"
         THEN promised' = [sheet |-> r.msg.sheet, queued |-> FALSE] /\ page' = [page EXCEPT !.at = "LEFT"]
         ELSE page' = [page EXCEPT !.at = "OPEN"] /\ UNCHANGED promised
  BY DEF SubmitAnswered
<1>3. r.msg.sheet \in Sheets
  BY LinksParts, <1>2, RequestFields, MessageFields DEF WireOK
<1>4. /\ page' \in Pages
      /\ page'.seq = page.seq /\ page'.sheet = page.sheet /\ page'.dirty = page.dirty
      /\ IF r.at = "OK" \/ page.at = "TIME_UP" THEN page'.at = "LEFT" ELSE page'.at = "OPEN"
  BY LinksParts, <1>2, PageMoves DEF PageOK
<1>5. PageOK' /\ (faults \in Faults)'
  BY LinksParts, <1>2, <1>4 DEF PageOK
<1>6. ShownOK'
  <2>1. ShownOK
    BY LinksParts
  <2>2. promised' \in [sheet : Sheets \cup {NoSheet}, queued : BOOLEAN]
    <3>1. CASE promised' = promised
      BY <2>1, <3>1 DEF ShownOK
    <3>2. CASE promised' = [sheet |-> r.msg.sheet, queued |-> FALSE]
      BY <1>3, <3>2
    <3> QED
      BY <1>2, <3>1, <3>2
  <2> QED
    BY <1>2, <2>1, <2>2 DEF ShownOK
<1>7. Stored' /\ Waiting' = Waiting
  BY LinksParts, <1>2, StoredStays
<1>8. Swaps(r, r)
  BY LinksParts, <1>2, RequestLeaves
<1>9. WireOK' /\ ReplaysFollowFlush'
  BY LinksParts, <1>2, <1>8, ReplaysSwap DEF WireOK
<1>10. Relays
  BY <1>2, <1>7, <1>8, SwapsRelay
<1>11. Links'
  BY <1>1, <1>5, <1>6, <1>7, <1>9, LinksFrom
<1>12. IF r.at = "OK" \/ page.at = "TIME_UP" THEN promised'.sheet = r.msg.sheet ELSE promised' = promised
  BY <1>2
<1> QED
  BY <1>1, <1>2, <1>4, <1>10, <1>11, <1>12

\* A fault is counted.
LEMMA FaultCounts ==
  ASSUME faults \in Faults, NEW r, Fails(r)
  PROVE  (faults \in Faults)' /\ faults'.deaths = faults.deaths /\ faults'.drops = faults.drops
BY RunnerAssumption DEF Fails, Fault, Faults

LEMMA PageFailsEffect ==
  ASSUME Links, NEW r \in wire, PageFails(r)
  PROVE  /\ Links' /\ Relays /\ SameRow /\ closing' = closing /\ QueueStays
         /\ r.waits = Page /\ Shows(r.msg)
         /\ UNCHANGED <<flush, typed>> /\ faults'.deaths = faults.deaths /\ faults'.drops = faults.drops
         /\ page'.seq = page.seq /\ page'.sheet = page.sheet /\ page'.dirty = page.dirty
         /\ page'.at = IF r.msg.action = "SUBMIT" THEN "LEFT" ELSE page.at
         /\ \E new : /\ Swaps(r, new) /\ new.waits = Nobody
                     /\ new.last = r.last /\ new.at = r.at
                     /\ r.at \in {"SENT", "STORED"} => new \in wire'
<1>1. TypeOK' /\ OneAttempt' /\ SameRow /\ closing' = closing
  BY LinksParts, ServerStays DEF PageFails
<1>2. /\ r.waits = Page /\ Fails(r) /\ wire' = Abandoned(r) /\ Queued(r.msg)
      /\ UNCHANGED <<cache, typed, online, flush>>
      /\ page' = IF r.msg.action = "SUBMIT" THEN [page EXCEPT !.at = "LEFT"] ELSE page
  BY DEF PageFails
<1>3. r.msg \in Messages
  BY LinksParts, RequestFields DEF WireOK
<1>4. /\ page' \in Pages
      /\ page'.seq = page.seq /\ page'.sheet = page.sheet /\ page'.dirty = page.dirty
      /\ page'.at = IF r.msg.action = "SUBMIT" THEN "LEFT" ELSE page.at
  <2>1. page \in Pages
    BY LinksParts DEF PageOK
  <2>2. CASE r.msg.action = "SUBMIT"
    BY <1>2, <2>1, <2>2, PageMoves
  <2>3. CASE r.msg.action /= "SUBMIT"
    BY <1>2, <2>1, <2>3
  <2> QED
    BY <2>2, <2>3
<1>5. PageOK'
  BY LinksParts, <1>2, <1>4 DEF PageOK
<1>6. (faults \in Faults)' /\ faults'.deaths = faults.deaths /\ faults'.drops = faults.drops
  BY LinksParts, <1>2, FaultCounts
<1>7. /\ Stored' /\ QueueStays /\ NewId \in DOMAIN queue' /\ queue'[NewId].msg = r.msg
      /\ Waiting' \subseteq Waiting \cup {r.msg}
  BY LinksParts, <1>2, <1>3, WriteIsQueued DEF Queued
<1>8. Shows(r.msg)
  BY <1>2, <1>7 DEF Queued, Shows
<1>9. ShownOK'
  BY LinksParts, <1>2, <1>3, <1>8, ShownKeepsType
<1>10. PICK new : /\ Swaps(r, new) /\ new.waits = Nobody
                  /\ new.last = r.last /\ new.at = r.at
                  /\ r.at \in {"SENT", "STORED"} => new \in wire'
  BY LinksParts, <1>2, AbandonSwaps
<1>11. WireOK' /\ ReplaysFollowFlush'
  BY LinksParts, <1>2, <1>10, ReplaysSwap DEF WireOK, Swaps
<1>12. Relays
  BY <1>7, <1>10, SwapsRelay, RunnerAssumption
<1>13. Links'
  BY <1>1, <1>5, <1>6, <1>7, <1>9, <1>11, LinksFrom
<1> QED
  BY <1>1, <1>2, <1>4, <1>6, <1>7, <1>8, <1>10, <1>12, <1>13

LEMMA OnlineEffect ==
  ASSUME Links, GoOffline \/ GoOnline
  PROVE  /\ Links' /\ Relays /\ SameRow /\ closing' = closing
         /\ UNCHANGED <<page, queue, flush, wire, typed, saved, promised>>
         /\ faults'.deaths = faults.deaths /\ faults'.drops = faults.drops
<1>1. TypeOK' /\ OneAttempt' /\ SameRow /\ closing' = closing
  BY LinksParts, ServerStays DEF GoOffline, GoOnline
<1>2. UNCHANGED <<page, cache, typed, saved, promised, queue, flush, wire>> /\ online' \in BOOLEAN
  BY DEF GoOffline, GoOnline, shown
<1>3. (faults \in Faults)' /\ faults'.deaths = faults.deaths /\ faults'.drops = faults.drops
  BY LinksParts, RunnerAssumption DEF GoOffline, GoOnline, Fault, Faults
<1>4. PageOK' /\ ShownOK' /\ WireOK' /\ ReplaysFollowFlush'
  BY LinksParts, <1>2 DEF PageOK, ShownOK, WireOK, ReplaysFollowFlush
<1>5. Stored' /\ Waiting' = Waiting
  BY LinksParts, <1>2, StoredStays
<1>6. Relays
  BY <1>2, <1>5, QuietRelays
<1>7. Links'
  BY <1>1, <1>3, <1>4, <1>5, LinksFrom
<1> QED
  BY <1>1, <1>2, <1>3, <1>6, <1>7

-----------------------------------------------------------------------------
(* Flushes. *)

LEMMA StartFlushEffect ==
  ASSUME Links, NEW f \in Flushes, StartFlush(f)
  PROVE  /\ Links' /\ Relays /\ SameRow /\ closing' = closing
         /\ UNCHANGED <<page, queue, wire, typed, saved, promised>>
         /\ faults'.deaths = faults.deaths /\ faults'.drops = faults.drops
         /\ DOMAIN flush' = DOMAIN flush \cup {f} /\ flush'[f] = queue
         /\ \A g \in DOMAIN flush : flush'[g] = flush[g]
<1>1. TypeOK' /\ OneAttempt' /\ SameRow /\ closing' = closing
  BY LinksParts, ServerStays DEF StartFlush
<1>2. /\ UNCHANGED <<page, cache, typed, saved, promised, online, queue, wire>>
      /\ f \notin DOMAIN flush /\ DOMAIN queue /= {} /\ flush' = With(flush, f, queue)
  BY DEF StartFlush, shown
<1>3. (faults \in Faults)' /\ faults'.deaths = faults.deaths /\ faults'.drops = faults.drops
  BY LinksParts, RunnerAssumption DEF StartFlush, Fault, Faults
<1>4. /\ DOMAIN flush' = DOMAIN flush \cup {f} /\ flush'[f] = queue
      /\ \A g \in DOMAIN flush : flush'[g] = flush[g]
  BY <1>2 DEF With
<1>5. Stored' /\ Waiting' \subseteq Waiting
  BY LinksParts, <1>2, FlushBegins
<1>6. PageOK' /\ ShownOK' /\ WireOK'
  BY LinksParts, <1>2 DEF PageOK, ShownOK, WireOK
<1>7. ReplaysFollowFlush'
  BY LinksParts, <1>2, <1>4, ReplaysStay
<1>8. Relays
  BY <1>2, <1>5, QuietRelays
<1>9. Links'
  BY <1>1, <1>3, <1>5, <1>6, <1>7, LinksFrom
<1> QED
  BY <1>1, <1>2, <1>3, <1>4, <1>8, <1>9

\* The write that a flush replays.
LEMMA HeadIsWrite ==
  ASSUME Links, NEW f \in DOMAIN flush
  PROVE  /\ Oldest(flush[f]) \in DOMAIN flush[f]
         /\ flush[f][Oldest(flush[f])] \in Writes /\ flush[f][Oldest(flush[f])].msg \in Messages
         /\ flush[f][Oldest(flush[f])].msg \in Waiting
<1>1. Oldest(flush[f]) \in DOMAIN flush[f]
  BY LinksParts, OldestIsThere DEF Stored, FlushesFollowQueue
<1>2. flush[f][Oldest(flush[f])] \in Writes
  BY LinksParts, <1>1 DEF Stored, FlushOK
<1> QED
  BY <1>1, <1>2 DEF Waiting, Writes

LEMMA FlushSendEffect ==
  ASSUME Links, NEW f \in Flushes, FlushSend(f)
  PROVE  /\ Links' /\ Relays /\ SameRow /\ closing' = closing
         /\ UNCHANGED <<page, queue, flush, typed, saved, promised, faults>>
         /\ \A r \in wire' : r \in wire \/ (r.at = "SENT" /\ r.last = 0 /\ r.waits /= Page)
         /\ wire \subseteq wire'
<1>1. TypeOK' /\ OneAttempt' /\ SameRow /\ closing' = closing
  BY LinksParts, ServerStays DEF FlushSend
<1>2. /\ UNCHANGED <<page, cache, typed, saved, promised, online, queue, flush, faults>>
      /\ f \in DOMAIN flush /\ Replaying(f) = {}
      /\ wire' = wire \cup {Sent(flush[f][Oldest(flush[f])].msg, f)}
  BY DEF FlushSend, device, shown
<1>3. PICK m : m = flush[f][Oldest(flush[f])].msg
  OBVIOUS
<1>4. m \in Messages /\ m \in Waiting
  BY <1>2, <1>3, HeadIsWrite
<1>5. PICK new : new = Sent(m, f)
  OBVIOUS
<1>6. /\ new \in Requests /\ new.msg = m /\ new.waits = f /\ new.last = 0 /\ new.at = "SENT"
      /\ f /= Page /\ wire' = wire \cup {new}
  BY <1>2, <1>3, <1>4, <1>5, SentRequest, RunnerAssumption
<1>7. PageOK' /\ ShownOK' /\ (faults \in Faults)'
  BY LinksParts, <1>2 DEF PageOK, ShownOK
<1>8. WireOK'
  BY LinksParts, <1>6 DEF WireOK
<1>9. ReplaysFollowFlush'
  BY LinksParts, <1>2, <1>3, <1>6, ReplayIsSent
<1>10. Stored' /\ Waiting' = Waiting
  BY LinksParts, <1>2, StoredStays
<1>11. Relays
  <2>1. Live' \subseteq Live
    BY <1>4, <1>6, <1>10 DEF Live
  <2>2. \A q \in wire' : q.at = "SENT" /\ q.waits = Page => q \in wire /\ Beside(q)' \subseteq Beside(q)
    BY <1>4, <1>6, <1>10 DEF Beside
  <2> QED
    BY <2>1, <2>2 DEF Relays
<1>12. Links'
  BY <1>1, <1>7, <1>8, <1>9, <1>10, LinksFrom
<1> QED
  BY <1>1, <1>2, <1>6, <1>11, <1>12

\* A request that only this flush waits for leaves the wire with its write.
LEMMA ReplayEnds ==
  ASSUME ReplaysFollowFlush, NEW f \in DOMAIN flush, f \in Flushes, FlushShrinks(f),
         \A r \in wire' : r.waits \in Flushes => r \in wire /\ r.waits /= f
  PROVE  ReplaysFollowFlush'
BY ReplaysStay DEF FlushShrinks

LEMMA FlushAnsweredEffect ==
  ASSUME Links, NEW f \in Flushes, NEW r \in wire, FlushAnswered(f, r)
  PROVE  /\ Links' /\ Relays /\ SameRow /\ closing' = closing
         /\ UNCHANGED <<page, typed, saved, promised, faults>>
         /\ r.at \in {"OK", "REFUSED"} /\ wire' = wire \ {r}
         /\ f \in DOMAIN flush /\ FlushShrinks(f)
         /\ r.msg = flush[f][Oldest(flush[f])].msg /\ Oldest(flush[f]) \in DOMAIN flush[f]
         /\ queue' = Without(queue, Oldest(flush[f]))
<1>1. TypeOK' /\ OneAttempt' /\ SameRow /\ closing' = closing
  BY LinksParts, ServerStays DEF FlushAnswered
<1>2. /\ UNCHANGED <<page, cache, typed, saved, promised, online, faults>>
      /\ f \in DOMAIN flush /\ r.waits = f /\ r.at \in {"OK", "REFUSED"} /\ wire' = wire \ {r}
      /\ queue' = Without(queue, Oldest(flush[f])) /\ flush' = Rest(f)
  BY DEF FlushAnswered, Replaying, shown
<1>3. FlushShrinks(f) /\ QueueShrinks
  <2>1. FlushShrinks(f)
    BY <1>2, FlushLeaves
  <2>2. QueueShrinks
    BY LinksParts, <1>2 DEF QueueShrinks, Without, Stored, QueueOK
  <2> QED
    BY <2>1, <2>2
<1>4. Stored' /\ Waiting' \subseteq Waiting
  BY LinksParts, <1>2, <1>3, WritesLeave
<1>5. PageOK' /\ ShownOK' /\ WireOK' /\ (faults \in Faults)'
  BY LinksParts, <1>2 DEF PageOK, ShownOK, WireOK
<1>6. \A q \in wire : q.waits = f => q = r
  BY LinksParts, <1>2 DEF ReplaysFollowFlush
<1>7. ReplaysFollowFlush'
  BY LinksParts, <1>2, <1>3, <1>6, ReplayEnds
<1>8. Swaps(r, r)
  BY LinksParts, <1>2, RequestLeaves
<1>9. Relays
  BY <1>2, <1>4, <1>8, SwapsRelay
<1>10. Links'
  BY <1>1, <1>4, <1>5, <1>7, LinksFrom
<1>11. r.msg = flush[f][Oldest(flush[f])].msg
  BY LinksParts, <1>2 DEF ReplaysFollowFlush
<1> QED
  BY <1>1, <1>2, <1>3, <1>9, <1>10, <1>11, HeadIsWrite

\* A replay failed: the faults are counted, and the write stays unless it was
\* given up.
LEMMA CountedFaults ==
  ASSUME Links, NEW f \in DOMAIN flush, NEW lost \in BOOLEAN, Counted(f, lost),
         lost => faults.all < MaxFaults, GiveUp(f)
  PROVE  /\ (faults \in Faults)' /\ faults'.deaths = faults.deaths
         /\ faults'.drops = 0 => faults.drops = 0 /\ QueueStays
<1>1. flush[f][Oldest(flush[f])].retries \in Nat
  BY HeadIsWrite DEF Writes
<1>2. PICK k \in 0 .. MaxFaults : k = IF lost THEN faults.all + 1 ELSE faults.all
  BY LinksParts, RunnerAssumption DEF Faults
<1>3. PICK d \in Nat :
        d = IF flush[f][Oldest(flush[f])].retries >= MaxRetries THEN faults.drops + 1 ELSE faults.drops
  BY LinksParts DEF Faults
<1>4. faults' = [faults EXCEPT !.all = k, !.drops = d]
  BY <1>2, <1>3 DEF Counted
<1>5. (faults \in Faults)' /\ faults'.deaths = faults.deaths /\ faults'.drops = d
  BY LinksParts, <1>4 DEF Faults
<1>6. ASSUME d = 0 PROVE faults.drops = 0 /\ QueueStays
  <2>1. flush[f][Oldest(flush[f])].retries < MaxRetries /\ faults.drops = 0
    BY <1>1, <1>3, <1>6, Numbers, RunnerAssumption
  <2> QED
    BY LinksParts, <2>1, WriteFails
<1> QED
  BY <1>5, <1>6

LEMMA FlushFailsEffect ==
  ASSUME Links, NEW f \in Flushes, NEW r \in wire, FlushFails(f, r)
  PROVE  /\ Links' /\ Relays /\ SameRow /\ closing' = closing
         /\ UNCHANGED <<page, typed, saved, promised>>
         /\ faults'.deaths = faults.deaths
         /\ faults'.drops = 0 => faults.drops = 0 /\ QueueStays
         /\ f \in DOMAIN flush /\ FlushShrinks(f)
         /\ \E new : /\ Swaps(r, new) /\ new.waits = Nobody
                     /\ new.last = r.last /\ new.at = r.at
                     /\ r.at \in {"SENT", "STORED"} => new \in wire'
<1>1. TypeOK' /\ OneAttempt' /\ SameRow /\ closing' = closing
  BY LinksParts, ServerStays DEF FlushFails
<1>2. /\ UNCHANGED <<page, cache, typed, saved, promised, online>>
      /\ f \in DOMAIN flush /\ r.waits = f /\ wire' = Abandoned(r) /\ GiveUp(f)
      /\ r.at /= "FAILED" => faults.all < MaxFaults
      /\ Counted(f, r.at /= "FAILED")
  BY DEF FlushFails, Replaying, shown
<1>3. FlushShrinks(f) /\ QueueShrinks
  BY LinksParts, <1>2, WriteFails
<1>4. Stored' /\ Waiting' \subseteq Waiting
  BY LinksParts, <1>2, <1>3, WritesLeave
<1>5. /\ (faults \in Faults)' /\ faults'.deaths = faults.deaths
      /\ faults'.drops = 0 => faults.drops = 0 /\ QueueStays
  <2>1. PICK lost \in BOOLEAN : lost <=> r.at /= "FAILED"
    OBVIOUS
  <2>2. Counted(f, lost)
    BY <1>2, <2>1 DEF Counted
  <2> QED
    BY <1>2, <2>1, <2>2, CountedFaults
<1>6. PICK new : /\ Swaps(r, new) /\ new.waits = Nobody
                 /\ new.last = r.last /\ new.at = r.at
                 /\ r.at \in {"SENT", "STORED"} => new \in wire'
  BY LinksParts, <1>2, AbandonSwaps
<1>7. PageOK' /\ ShownOK' /\ WireOK'
  BY LinksParts, <1>2, <1>6 DEF PageOK, ShownOK, WireOK, Swaps
<1>8. \A q \in wire : q.waits = f => q = r
  BY LinksParts, <1>2 DEF ReplaysFollowFlush
<1>9. ReplaysFollowFlush'
  BY LinksParts, <1>2, <1>3, <1>6, <1>8, ReplayEnds, RunnerAssumption DEF Swaps
<1>10. Relays
  BY <1>4, <1>6, SwapsRelay, RunnerAssumption
<1>11. Links'
  BY <1>1, <1>4, <1>5, <1>7, <1>9, LinksFrom
<1> QED
  BY <1>1, <1>2, <1>3, <1>5, <1>6, <1>10, <1>11

LEMMA FlushOfflineEffect ==
  ASSUME Links, NEW f \in Flushes, FlushOffline(f)
  PROVE  /\ Links' /\ Relays /\ SameRow /\ closing' = closing
         /\ UNCHANGED <<page, typed, saved, promised, wire>>
         /\ faults'.deaths = faults.deaths
         /\ faults'.drops = 0 => faults.drops = 0 /\ QueueStays
         /\ f \in DOMAIN flush /\ FlushShrinks(f)
<1>1. TypeOK' /\ OneAttempt' /\ SameRow /\ closing' = closing
  BY LinksParts, ServerStays DEF FlushOffline
<1>2. /\ UNCHANGED <<page, cache, typed, saved, promised, online, wire>>
      /\ f \in DOMAIN flush /\ Replaying(f) = {} /\ GiveUp(f) /\ Counted(f, FALSE)
  BY DEF FlushOffline, shown
<1>3. FlushShrinks(f) /\ QueueShrinks
  BY LinksParts, <1>2, WriteFails
<1>4. Stored' /\ Waiting' \subseteq Waiting
  BY LinksParts, <1>2, <1>3, WritesLeave
<1>5. /\ (faults \in Faults)' /\ faults'.deaths = faults.deaths
      /\ faults'.drops = 0 => faults.drops = 0 /\ QueueStays
  BY <1>2, CountedFaults
<1>6. PageOK' /\ ShownOK' /\ WireOK'
  BY LinksParts, <1>2 DEF PageOK, ShownOK, WireOK
<1>7. ReplaysFollowFlush'
  BY LinksParts, <1>2, <1>3, ReplayEnds DEF Replaying
<1>8. Relays
  BY <1>2, <1>4, QuietRelays
<1>9. Links'
  BY <1>1, <1>4, <1>5, <1>6, <1>7, LinksFrom
<1> QED
  BY <1>1, <1>2, <1>3, <1>5, <1>8, <1>9

-----------------------------------------------------------------------------
(* The server, and the page's load. *)

\* The device stays, and a request is swapped for one with the same waiter.
LEMMA DeviceStays ==
  ASSUME Links, UNCHANGED device
  PROVE  /\ PageOK' /\ ShownOK' /\ Stored' /\ Waiting' = Waiting /\ QueueStays
         /\ UNCHANGED <<page, queue, flush, typed, saved, promised>>
<1>1. UNCHANGED <<page, cache, typed, saved, promised, online, queue, flush>>
  BY DEF device, shown
<1>2. PageOK' /\ ShownOK'
  BY LinksParts, <1>1 DEF PageOK, ShownOK
<1> QED
  BY LinksParts, <1>1, <1>2, StoredStays

LEMMA ServerSwapLinks ==
  ASSUME Links, UNCHANGED device, NEW r, NEW new, Swaps(r, new),
         new.waits = r.waits \/ new.waits = Nobody,
         TypeOK', OneAttempt', (faults \in Faults)'
  PROVE  Links'
<1>1. PageOK' /\ ShownOK' /\ Stored' /\ UNCHANGED flush
  BY DeviceStays
<1>2. WireOK'
  BY LinksParts DEF WireOK, Swaps
<1>3. ReplaysFollowFlush'
  BY LinksParts, <1>1, ReplaysSwap
<1> QED
  BY <1>1, <1>2, <1>3, LinksFrom

LEMMA StoreEffect ==
  ASSUME Links, NEW r \in wire, Store(r)
  PROVE  /\ Links' /\ Relays /\ UNCHANGED <<device, faults>>
         /\ Open /\ Open' /\ Row'.late = Row.late
         /\ Row.seq < r.msg.seq /\ Row'.seq = r.msg.seq /\ Row'.sheet = r.msg.sheet
         /\ IF r.msg.action = "SUBMIT" \/ Row.late THEN closing' /= {} ELSE closing' = closing
         /\ \E new : /\ Swaps(r, new) /\ new.waits = r.waits /\ new.last \in {0, r.last}
                     /\ IF r.msg.action = "SUBMIT" \/ Row.late
                        THEN new.at = "STORED" /\ new \in wire' ELSE new.at = "OK"
         /\ r.at = "SENT"
<1>1. r.msg \in Messages /\ r.at = "SENT"
  BY LinksParts, RequestFields DEF WireOK, Store
<1>2. /\ Save(Student, 1, r.msg.seq, r.msg.sheet, r.msg.action) /\ UNCHANGED <<device, faults>>
      /\ wire' = IF r.msg.action = "SUBMIT" \/ Row.late
                 THEN (wire \ {r}) \cup {[r EXCEPT !.at = "STORED"]}
                 ELSE Answered(r, "OK", 0)
  BY DEF Store
<1>3. /\ TypeOK' /\ OneAttempt'
      /\ Open /\ Open' /\ Row'.late = Row.late
      /\ Row.seq < r.msg.seq /\ Row'.seq = r.msg.seq /\ Row'.sheet = r.msg.sheet
      /\ IF r.msg.action = "SUBMIT" \/ Row.late THEN closing' /= {} ELSE closing' = closing
  BY LinksParts, <1>1, <1>2, ServerSaves
<1>4. PICK new : /\ Swaps(r, new) /\ new.waits = r.waits /\ new.last \in {0, r.last}
                 /\ IF r.msg.action = "SUBMIT" \/ Row.late
                    THEN new.at = "STORED" /\ new \in wire' ELSE new.at = "OK"
  <2>1. CASE r.msg.action = "SUBMIT" \/ Row.late
    <3>1. wire' = (wire \ {r}) \cup {[r EXCEPT !.at = "STORED"]}
      BY <1>2, <2>1
    <3>2. PICK new \in wire' : /\ Swaps(r, new) /\ new.waits = r.waits
                               /\ new.last = r.last /\ new.at = "STORED"
      BY LinksParts, <3>1, StoredSwaps
    <3> QED
      BY <2>1, <3>2
  <2>2. CASE ~(r.msg.action = "SUBMIT" \/ Row.late)
    <3>1. wire' = Answered(r, "OK", 0)
      BY <1>2, <2>2
    <3>2. PICK new : Swaps(r, new) /\ new.at = "OK" /\ new.last = 0 /\ new.waits = r.waits
      BY LinksParts, <3>1, AnswerSwaps
    <3> QED
      BY <2>2, <3>2
  <2> QED
    BY <2>1, <2>2
<1>5. (faults \in Faults)'
  BY LinksParts, <1>2
<1>6. Links'
  BY <1>2, <1>3, <1>4, <1>5, ServerSwapLinks
<1>7. Relays
  BY <1>2, <1>4, DeviceStays, SwapsRelay
<1> QED
  BY <1>1, <1>2, <1>3, <1>4, <1>6, <1>7

\* The server answers without a write: what it says of a save and of a
\* submission.
LEMMA AnswerEffect ==
  ASSUME Links, NEW r \in wire, Stale(r) \/ TooLate(r) \/ Finished(r)
  PROVE  /\ Links' /\ Relays /\ SameRow /\ closing' = closing /\ UNCHANGED <<device, faults>>
         /\ r.at \in {"SENT", "STORED"} /\ (r.at = "STORED" => ~Open)
         /\ \E new : /\ Swaps(r, new) /\ new.waits = r.waits /\ new.at \in {"OK", "REFUSED"}
                     /\ Open => /\ r.msg.seq <= Row.seq /\ new.last \in {0, Row.seq}
                                /\ new.at = "OK" => r.msg.action = "SAVE"
                     /\ ~Open => (new.at = "REFUSED" => r.msg.action = "SAVE")
<1>1. UNCHANGED <<vars, device, faults>>
  BY DEF Stale, TooLate, Finished
<1>2. TypeOK' /\ OneAttempt' /\ SameRow /\ closing' = closing
  BY LinksParts, <1>1, ServerStays
<1>3. r \in Requests /\ r.msg \in Messages /\ r.msg.seq \in Nat /\ r.msg.action \in {"SAVE", "SUBMIT"}
      /\ Row.seq \in Nat
  BY LinksParts, Numbers, RequestFields, MessageFields DEF WireOK
<1>4. PICK at \in {"OK", "REFUSED"}, last \in Nat :
        /\ wire' = Answered(r, at, last)
        /\ Open => /\ r.msg.seq <= Row.seq /\ last \in {0, Row.seq}
                   /\ at = "OK" => r.msg.action = "SAVE"
        /\ ~Open => (at = "REFUSED" => r.msg.action = "SAVE")
  <2>1. CASE Stale(r)
    <3>1. Open /\ r.msg.seq <= Row.seq
      BY <1>3, <2>1 DEF Stale
    <3>2. CASE r.msg.action = "SAVE"
      BY <1>3, <2>1, <3>1, <3>2 DEF Stale
    <3>3. CASE r.msg.action /= "SAVE"
      BY <2>1, <3>1, <3>3 DEF Stale
    <3> QED
      BY <3>2, <3>3
  <2>2. CASE TooLate(r)
    <3>1. ~Open
      BY <2>2 DEF TooLate
    <3>2. CASE wire' = Answered(r, "OK", IF r.msg.action = "SAVE" THEN Row.seq ELSE 0)
      <4>1. PICK last \in Nat : last = IF r.msg.action = "SAVE" THEN Row.seq ELSE 0
        BY <1>3
      <4> QED
        BY <3>1, <3>2, <4>1
    <3>3. CASE r.msg.action = "SAVE" /\ wire' = Answered(r, "REFUSED", 0)
      BY <3>1, <3>3
    <3> QED
      BY <2>2, <3>2, <3>3 DEF TooLate
  <2>3. CASE Finished(r)
    BY <2>3 DEF Finished
  <2> QED
    BY <2>1, <2>2, <2>3
<1>5. PICK new : Swaps(r, new) /\ new.at = at /\ new.last = last /\ new.waits = r.waits
  BY LinksParts, <1>4, AnswerSwaps
<1>6. (faults \in Faults)' /\ UNCHANGED device
  BY LinksParts, <1>1
<1>7. Links'
  BY <1>2, <1>5, <1>6, ServerSwapLinks
<1>8. Waiting' = Waiting
  BY <1>6, DeviceStays
<1>9. Relays
  BY <1>4, <1>5, <1>8, SwapsRelay
<1>10. r.at \in {"SENT", "STORED"} /\ (r.at = "STORED" => ~Open)
  BY DEF Stale, TooLate, Finished
<1> QED
  BY <1>1, <1>2, <1>4, <1>5, <1>7, <1>9, <1>10

\* The attempt is finalized, or its deadline passes.
LEMMA RowOnlyEffect ==
  ASSUME Links, Finish \/ PassDeadline
  PROVE  /\ Links' /\ Relays /\ UNCHANGED <<device, wire, faults>>
         /\ Open /\ Row'.seq = Row.seq /\ Row'.sheet = Row.sheet
         /\ \/ ~Open' /\ closing /= {} /\ Row'.late = Row.late
            \/ Open' /\ closing' = closing /\ Row'.late
<1>1. UNCHANGED <<device, wire, faults>> /\ (Finalize(Student, 1) \/ Expire(Student, 1))
  BY DEF Finish, PassDeadline
<1>2. /\ TypeOK' /\ OneAttempt'
      /\ Open /\ Row'.seq = Row.seq /\ Row'.sheet = Row.sheet
      /\ \/ ~Open' /\ closing /= {} /\ Row'.late = Row.late
         \/ Open' /\ closing' = closing /\ Row'.late
  BY LinksParts, <1>1, ServerFinalizes, ServerExpires
<1>3. PageOK' /\ ShownOK' /\ Stored' /\ Waiting' = Waiting /\ UNCHANGED flush
  BY <1>1, DeviceStays
<1>4. WireOK' /\ ReplaysFollowFlush' /\ (faults \in Faults)'
  BY LinksParts, <1>1, <1>3 DEF WireOK, ReplaysFollowFlush
<1>5. Links'
  BY <1>2, <1>3, <1>4, LinksFrom
<1>6. Relays
  BY <1>1, <1>3, QuietRelays
<1> QED
  BY <1>1, <1>2, <1>5, <1>6

LEMMA DieEffect ==
  ASSUME Links, Die
  PROVE  /\ Links' /\ Relays /\ SameRow /\ closing' = {} /\ UNCHANGED device
         /\ faults'.drops = faults.drops /\ faults'.deaths > 0
         /\ \A new \in wire' : \E r \in wire :
              /\ new.msg = r.msg /\ new.waits = r.waits /\ new.last = r.last
              /\ new = r \/ (new.at = "FAILED" /\ r.at = "STORED")
              /\ new.at /= "STORED"
<1>1. /\ faults.all < MaxFaults
      /\ faults' = [faults EXCEPT !.all = @ + 1, !.deaths = @ + 1]
      /\ FinalizeEnds(Student, 1) /\ UNCHANGED device
  BY DEF Die
<1>2. TypeOK' /\ OneAttempt' /\ SameRow /\ closing' = {}
  BY LinksParts, <1>1, ServerDrops
<1>3. (faults \in Faults)' /\ faults'.drops = faults.drops /\ faults'.deaths > 0
  <2>1. faults \in Faults
    BY LinksParts
  <2>2. PICK a \in 0 .. MaxFaults, d \in Nat : a = faults.all + 1 /\ d = faults.deaths + 1 /\ d > 0
    BY <1>1, <2>1, RunnerAssumption DEF Faults
  <2>3. faults' = [faults EXCEPT !.all = a, !.deaths = d]
    BY <1>1, <2>2
  <2> QED
    BY <2>1, <2>2, <2>3 DEF Faults
<1>4. PageOK' /\ ShownOK' /\ Stored' /\ Waiting' = Waiting /\ UNCHANGED flush
  BY <1>1, DeviceStays
<1>5. /\ WireOK'
      /\ \A new \in wire' : \E r \in wire :
           /\ new.msg = r.msg /\ new.waits = r.waits /\ new.last = r.last
           /\ new = r \/ (new.at = "FAILED" /\ r.at = "STORED")
           /\ new.at /= "STORED"
      /\ ReplaysFollowFlush /\ UNCHANGED flush => ReplaysFollowFlush'
  BY LinksParts, DeathFails DEF Die
<1>6. Links'
  BY LinksParts, <1>2, <1>3, <1>4, <1>5, LinksFrom
<1>7. Live' \subseteq Live
  BY <1>4, <1>5 DEF Live
<1>8. ASSUME NEW q \in wire', q.at = "SENT" /\ q.waits = Page
      PROVE  q \in wire /\ Beside(q)' \subseteq Beside(q)
  <2>1. q \in wire
    BY <1>5, <1>8
  <2>2. ASSUME NEW other \in wire' \ {q} PROVE other.msg \in Beside(q)
    <3>1. PICK r \in wire : /\ other.msg = r.msg
                            /\ other = r \/ (other.at = "FAILED" /\ r.at = "STORED")
      BY <1>5
    <3>2. r /= q
      BY <1>8, <2>2, <3>1
    <3> QED
      BY <3>1, <3>2 DEF Beside
  <2> QED
    BY <1>4, <2>1, <2>2 DEF Beside
<1>9. Relays
  BY <1>7, <1>8 DEF Relays
<1> QED
  BY <1>1, <1>2, <1>3, <1>5, <1>6, <1>9

LEMMA VanishEffect ==
  ASSUME Links, NEW r \in wire, Vanish(r)
  PROVE  /\ Links' /\ Relays /\ SameRow /\ closing' = closing /\ UNCHANGED <<device, faults>>
         /\ wire' = wire \ {r} /\ r.at = "SENT"
<1>1. /\ UNCHANGED <<vars, device, faults>>
      /\ wire' = wire \ {r} /\ r.waits = Nobody /\ r.at = "SENT"
  BY DEF Vanish
<1>2. TypeOK' /\ OneAttempt' /\ SameRow /\ closing' = closing
  BY LinksParts, <1>1, ServerStays
<1>3. Swaps(r, r)
  BY LinksParts, <1>1, RequestLeaves
<1>4. (faults \in Faults)' /\ UNCHANGED device
  BY LinksParts, <1>1
<1>5. Links'
  BY <1>2, <1>3, <1>4, ServerSwapLinks
<1>6. Waiting' = Waiting
  BY <1>4, DeviceStays
<1>7. Relays
  BY <1>1, <1>3, <1>6, SwapsRelay, RunnerAssumption
<1> QED
  BY <1>1, <1>2, <1>5, <1>7

\* The page is loaded again.
LEMMA LoadEffect ==
  ASSUME Links, Load
  PROVE  /\ Links' /\ SameRow /\ UNCHANGED <<typed, saved, promised, queue, flush>>
         /\ faults'.deaths = faults.deaths /\ faults'.drops = faults.drops
         /\ CleanLoads => /\ Open /\ ~Row.late /\ closing' = closing
                          /\ DOMAIN queue = {} /\ wire = {} /\ wire' = {}
                          /\ page'.at = "OPEN" /\ ~page'.dirty
                          /\ page'.seq = Row.seq /\ page'.sheet = Row.sheet
<1>1. /\ Fault /\ (CleanLoads => Resumable /\ DOMAIN queue = {} /\ wire = {})
      /\ wire' = Orphaned
      /\ UNCHANGED <<typed, saved, promised, online, queue, flush>>
      /\ \/ online /\ Open /\ Row.late /\ ResumeLate(Student)
         \/ ~(online /\ Open /\ Row.late) /\ UNCHANGED vars
  BY DEF Load, shown
<1>2. /\ TypeOK' /\ OneAttempt' /\ SameRow
      /\ ~(Open /\ Row.late) => closing' = closing
  BY LinksParts, <1>1, ServerStays, ServerResumesLate
<1>3. PICK copy : /\ \/ copy = [seq |-> Row.seq, sheet |-> Row.sheet]
                     \/ ~CleanLoads /\ copy = cache
                  /\ cache' = copy
                  /\ page' = [at |-> "OPEN", seq |-> copy.seq, sheet |-> copy.sheet, dirty |-> FALSE]
  <2>1. PICK resumed \in (IF CleanLoads THEN {TRUE} ELSE {FALSE, Resumable}) :
          LET copy == IF resumed THEN [seq |-> Row.seq, sheet |-> Row.sheet] ELSE cache
          IN  /\ cache' = copy
              /\ page' = [at |-> "OPEN", seq |-> copy.seq, sheet |-> copy.sheet, dirty |-> FALSE]
    BY DEF Load
  <2> QED
    BY <2>1
<1>4. copy \in [seq : Nat, sheet : Sheets]
  <2>1. Row.seq \in Nat /\ Row.sheet \in Sheets
    BY LinksParts, RowIsThere, RowType
  <2>2. [seq |-> Row.seq, sheet |-> Row.sheet] \in [seq : Nat, sheet : Sheets]
    BY <2>1
  <2> QED
    BY LinksParts, <1>3, <2>2 DEF PageOK
<1>5. PageOK'
  BY LinksParts, <1>1, <1>3, <1>4 DEF PageOK, Pages
<1>6. ShownOK' /\ Stored'
  BY LinksParts, <1>1, StoredStays DEF ShownOK
<1>7. (faults \in Faults)' /\ faults'.deaths = faults.deaths /\ faults'.drops = faults.drops
  BY LinksParts, <1>1, RunnerAssumption DEF Fault, Faults
<1>8. WireOK' /\ \A r \in wire' : r.waits \in Flushes => r \in wire
  <2>1. ASSUME NEW r \in wire
        PROVE  LET new == IF r.waits = Page THEN [r EXCEPT !.waits = Nobody] ELSE r
               IN  new \in Requests /\ (new.waits \in Flushes => new = r)
    BY LinksParts, RunnerAssumption DEF WireOK, Requests
  <2> QED
    BY <1>1, <2>1 DEF Orphaned, WireOK
<1>9. ReplaysFollowFlush'
  BY LinksParts, <1>1, <1>8, ReplaysStay
<1>10. Links'
  BY <1>2, <1>5, <1>6, <1>7, <1>8, <1>9, LinksFrom
<1>11. ASSUME CleanLoads
       PROVE  /\ Open /\ ~Row.late /\ closing' = closing
              /\ DOMAIN queue = {} /\ wire = {} /\ wire' = {}
              /\ page'.at = "OPEN" /\ ~page'.dirty
              /\ page'.seq = Row.seq /\ page'.sheet = Row.sheet
  <2>1. Open /\ ~Row.late /\ DOMAIN queue = {} /\ wire = {}
    BY <1>1, <1>11 DEF Resumable
  <2>2. wire' = {}
    BY <1>1, <2>1 DEF Orphaned
  <2>3. copy.seq = Row.seq /\ copy.sheet = Row.sheet
    BY <1>3, <1>11
  <2>4. page'.at = "OPEN" /\ ~page'.dirty /\ page'.seq = copy.seq /\ page'.sheet = copy.sheet
    BY <1>3
  <2> QED
    BY <1>2, <2>1, <2>2, <2>3, <2>4
<1> QED
  BY <1>1, <1>2, <1>7, <1>10, <1>11

-----------------------------------------------------------------------------
(* Rows, requests and writes keep their types, and flushes follow the queue. *)

LEMMA LinksAtFirst ==
  ASSUME RunnerInit PROVE Links
<1>1. /\ exam = [status |-> "PUBLISHED", released |-> FALSE]
      /\ attempt = [s \in Students |-> IF s = Student THEN <<NewAttempt>> ELSE <<>>]
      /\ armed = {} /\ granted = [s \in Students |-> 0]
      /\ starting = NoRows /\ closing = {} /\ request = NoRows /\ published = NoRows
  BY DEF RunnerInit
<1>2. NewAttempt \in AttemptRows
  BY NothingMarked, SheetsAssumption DEF NewAttempt, AttemptRows, Statuses
<1>3. attempt \in [Students -> Seq(AttemptRows)] /\ Len(attempt[Student]) = 1
  BY <1>1, <1>2, RunnerAssumption
<1>4. DOMAIN starting = {} /\ DOMAIN request = {} /\ DOMAIN published = {}
  BY <1>1 DEF NoRows
<1>5. TypeOK /\ OneAttempt
  BY <1>1, <1>3, <1>4 DEF TypeOK, Exams, OneAttempt, Latest
<1>6. /\ page = [at |-> "OPEN", seq |-> 0, sheet |-> Blank, dirty |-> FALSE]
      /\ cache = [seq |-> 0, sheet |-> Blank]
      /\ typed = Blank /\ saved = Blank /\ promised = [sheet |-> NoSheet, queued |-> FALSE]
      /\ online = TRUE
      /\ DOMAIN queue = {} /\ DOMAIN flush = {} /\ wire = {}
      /\ faults = [all |-> 0, deaths |-> 0, drops |-> 0]
  BY DEF RunnerInit, NoRows
<1>7. page \in Pages /\ cache \in [seq : Nat, sheet : Sheets] /\ online \in BOOLEAN
  BY <1>6, SheetsAssumption DEF Pages
<1>8. /\ typed \in Sheets /\ saved \in Sheets
      /\ promised \in [sheet : Sheets \cup {NoSheet}, queued : BOOLEAN]
  BY <1>6, SheetsAssumption
<1>9. faults \in Faults
  BY <1>6, RunnerAssumption DEF Faults
<1>10. RunnerTypeOK
  BY <1>5, <1>6, <1>7, <1>8, <1>9 DEF RunnerTypeOK
<1>11. FlushesFollowQueue /\ ReplaysFollowFlush /\ IdsAreBounded
  BY <1>6 DEF FlushesFollowQueue, ReplaysFollowFlush, IdsAreBounded
<1> QED
  BY <1>5, <1>10, <1>11 DEF Links

LEMMA LinksStep ==
  ASSUME Links, [RunnerNext]_allVars PROVE Links'
<1>1. CASE Type
  BY <1>1, TypeEffect
<1>2. CASE AutoSave
  BY <1>2, PersistEffect DEF AutoSave
<1>3. CASE HideFlush
  BY <1>3, HideFlushEffect
<1>4. CASE Submit \/ TimeUp
  BY <1>4, PersistEffect DEF Submit, TimeUp
<1>5. CASE PageAnswer
  BY <1>5, SaveAnsweredEffect, SubmitAnsweredEffect DEF PageAnswer
<1>6. CASE Load
  BY <1>6, LoadEffect
<1>7. CASE GoOffline \/ GoOnline
  BY <1>7, OnlineEffect
<1>8. CASE \E f \in Flushes : StartFlush(f)
  BY <1>8, StartFlushEffect
<1>9. CASE FlushStep
  BY <1>9, FlushSendEffect, FlushOfflineEffect, FlushAnsweredEffect DEF FlushStep
<1>10. CASE \E r \in wire : PageFails(r) \/ Vanish(r) \/ \E f \in Flushes : FlushFails(f, r)
  BY <1>10, PageFailsEffect, VanishEffect, FlushFailsEffect
<1>11. CASE ServerStep
  BY <1>11, RowOnlyEffect, StoreEffect, AnswerEffect DEF ServerStep
<1>12. CASE Die
  BY <1>12, DieEffect
<1>13. CASE PassDeadline
  BY <1>13, RowOnlyEffect
<1>14. CASE UNCHANGED allVars
  <2>1. UNCHANGED vars /\ UNCHANGED device /\ UNCHANGED <<wire, faults>>
    BY <1>14 DEF allVars
  <2>2. TypeOK' /\ OneAttempt'
    BY LinksParts, <2>1, ServerStays
  <2>3. PageOK' /\ ShownOK' /\ Stored' /\ UNCHANGED flush
    BY <2>1, DeviceStays
  <2>4. WireOK' /\ ReplaysFollowFlush' /\ (faults \in Faults)'
    BY LinksParts, <2>1, <2>3 DEF WireOK, ReplaysFollowFlush
  <2> QED
    BY <2>2, <2>3, <2>4, LinksFrom
<1> QED
  BY <1>1, <1>2, <1>3, <1>4, <1>5, <1>6, <1>7, <1>8, <1>9, <1>10, <1>11, <1>12, <1>13, <1>14
     DEF RunnerNext

THEOREM LinksHold == RunnerSpec => []Links
<1>1. RunnerInit => Links
  BY LinksAtFirst
<1>2. Links /\ [RunnerNext]_allVars => Links'
  BY LinksStep
<1> QED
  BY <1>1, <1>2, PTL DEF RunnerSpec

\* However the page is loaded, its requests are lost and flushes overlap, the
\* page, the queue, the requests and the server's tables keep their types.
THEOREM RunnerTypesHold == RunnerSpec => []RunnerTypeOK
<1>1. Links => RunnerTypeOK
  BY DEF Links
<1> QED
  BY <1>1, LinksHold, PTL

-----------------------------------------------------------------------------
(* While the queue gives no write up: what a step that relays preserves. *)

\* The page and the server's row only move on.
Passes ==
    /\ Relays
    /\ Row'.seq = Row.seq /\ Row'.sheet = Row.sheet
    /\ Row.late => Row'.late
    /\ Open' => Open
    /\ ~Open' => ~Open \/ closing /= {}
    /\ Open => page'.seq = page.seq
    /\ page'.sheet = page.sheet /\ typed' = typed
    /\ page'.at = "OPEN" <=> page.at = "OPEN"
    /\ page'.dirty => page.dirty
    /\ Open' => /\ closing' /= {} => closing /= {}
                /\ closing /= {} \/ faults.deaths > 0 => closing' /= {} \/ faults'.deaths > 0
    /\ \A q \in wire' : q.waits = Page /\ q.msg.action = "SUBMIT" =>
         q.at /= "REFUSED" /\ \E r \in wire : r.waits = Page /\ r.msg = q.msg

\* Requests are answered truthfully, and one that waits for the end goes on.
Tells ==
    /\ \A q \in wire' :
         \/ Truthful(q)'
         \/ \E r \in wire : q.msg = r.msg /\ q.last = r.last /\ (q.at = r.at \/ q.at = "FAILED")
    /\ \A q \in wire' : q.at = "STORED" /\ closing /= {} => closing' /= {}
    /\ closing' /= {} => \A r \in wire : r.at = "STORED" => \E q \in wire' : q.at = "STORED"

\* Flushes replay what they have read, or what is queued.
GoesOn ==
    \A f \in DOMAIN flush' : \A id \in DOMAIN flush'[f] :
        \/ id \in DOMAIN queue'
        \/ f \in DOMAIN flush /\ id \in DOMAIN flush[f] /\ flush'[f][id] = flush[f][id]

LEMMA NewerStep ==
  ASSUME Links, Links', NewerIsLater, Live' \subseteq Live,
         Row'.seq = Row.seq, Row'.sheet = Row.sheet,
         page.seq <= page'.seq, page.sheet <= page'.sheet, page'.sheet <= typed'
  PROVE  NewerIsLater'
<1>1. /\ Row.seq \in Nat /\ Row.sheet \in Nat /\ page.seq \in Nat /\ page.sheet \in Nat
  BY Numbers
<1>2. page'.seq \in Nat /\ page'.sheet \in Nat
  BY NumbersAfter
<1>3. \A m \in Live : m.seq \in Nat /\ m.sheet \in Nat
  BY LiveMessages
<1>4. \A a, b \in Live' : (a.seq = b.seq => a = b) /\ (a.seq < b.seq => a.sheet <= b.sheet)
  BY DEF NewerIsLater
<1>5. \A m \in Live' : /\ m.seq <= page'.seq /\ m.sheet <= page'.sheet
                       /\ m.seq <= Row'.seq => m.sheet <= Row'.sheet
                       /\ m.seq >= Row'.seq => m.sheet >= Row'.sheet
  BY <1>1, <1>2, <1>3 DEF NewerIsLater
<1>6. Row'.seq <= page'.seq /\ Row'.sheet <= page'.sheet
  BY <1>1, <1>2 DEF NewerIsLater
<1> QED
  BY <1>4, <1>5, <1>6 DEF NewerIsLater

\* What passes keeps the order of the messages, the place of a submission and
\* the final answers.
LEMMA PassesKeepOrder ==
  ASSUME Links, Links', NothingIsLost, Passes, Open'
  PROVE  NewerIsLater' /\ SubmissionsAreLast' /\ OwnSubmissionIsNewest'
<1>1. Open /\ NewerIsLater /\ SubmissionsAreLast /\ OwnSubmissionIsNewest
  BY DEF Passes, NothingIsLost, InProgress
<1>2. /\ Live' \subseteq Live /\ Row'.seq = Row.seq /\ Row'.sheet = Row.sheet
      /\ page'.seq = page.seq /\ page'.sheet = page.sheet /\ typed' = typed
  BY <1>1 DEF Passes, Relays
<1>3. NewerIsLater'
  BY <1>1, <1>2, NewerStep, Numbers DEF NewerIsLater
<1>4. SubmissionsAreLast'
  BY <1>1, <1>2 DEF SubmissionsAreLast, Passes
<1>5. OwnSubmissionIsNewest'
  BY <1>1, <1>2 DEF OwnSubmissionIsNewest, OwnSubmission, Passes, Relays
<1> QED
  BY <1>3, <1>4, <1>5

LEMMA PassesKeepEnd ==
  ASSUME Links, Links', NothingIsLost, Passes
  PROVE  /\ PageIsQuiet'
         /\ ~Row'.late /\ (~Open' \/ closing' /= {}) => AnswersAreFinal'
<1>1. PageIsQuiet'
  BY DEF PageIsQuiet, Passes, NothingIsLost
<1>2. ASSUME ~Row'.late, ~Open' \/ closing' /= {} PROVE AnswersAreFinal'
  <2>1. ~Row.late /\ (~Open \/ closing /= {})
    BY <1>2 DEF Passes
  <2>2. AnswersAreFinal
    BY <2>1 DEF NothingIsLost
  <2> QED
    BY <2>2 DEF AnswersAreFinal, Passes, Relays
<1> QED
  BY <1>1, <1>2

LEMMA TellsStep ==
  ASSUME Links, Links', AnswersAreTrue, ClosingIsAwaited, Tells,
         Row.seq <= Row'.seq, page.seq <= page'.seq,
         closing' /= {} => closing /= {} \/ \E q \in wire' : q.at = "STORED"
  PROVE  AnswersAreTrue' /\ ClosingIsAwaited'
<1>1. Row.seq \in Nat /\ Row'.seq \in Nat /\ page.seq \in Nat /\ page'.seq \in Nat
  BY Numbers, NumbersAfter
<1>2. ASSUME NEW q \in wire' PROVE Truthful(q)'
  <2>1. ASSUME NEW r \in wire, q.msg = r.msg, q.last = r.last, q.at = r.at \/ q.at = "FAILED"
        PROVE  Truthful(q)'
    <3>1. Truthful(r) /\ r.last \in Nat /\ r.msg.seq \in Nat
      BY LinksParts, RequestFields, MessageFields DEF AnswersAreTrue, WireOK
    <3> QED
      BY <1>1, <2>1, <3>1 DEF Truthful, Tells
  <2> QED
    BY <2>1 DEF Tells
<1>3. ClosingIsAwaited'
  BY DEF ClosingIsAwaited, Tells
<1> QED
  BY <1>2, <1>3 DEF AnswersAreTrue

LEMMA GoesOnStep ==
  ASSUME Links, Links', RemovedIsStored, QueueStays, GoesOn, Row.seq <= Row'.seq
  PROVE  RemovedIsStored'
<1>1. Row.seq \in Nat /\ Row'.seq \in Nat
  BY Numbers, NumbersAfter
<1> SUFFICES ASSUME NEW f \in DOMAIN flush', NEW id \in DOMAIN flush'[f], id \notin DOMAIN queue'
             PROVE  flush'[f][id].msg.seq <= Row'.seq
  BY DEF RemovedIsStored
<1>2. f \in DOMAIN flush /\ id \in DOMAIN flush[f] /\ flush'[f][id] = flush[f][id]
  BY DEF GoesOn
<1>3. id \notin DOMAIN queue
  BY DEF QueueStays
<1>4. flush[f][id].msg.seq <= Row.seq
  BY <1>2, <1>3 DEF RemovedIsStored
<1>5. flush[f][id].msg.seq \in Nat
  BY LinksParts, <1>2, MessageFields DEF Stored, FlushOK, Writes
<1> QED
  BY <1>1, <1>2, <1>4, <1>5

\* What is on the device stays there with the queue.
LEMMA DeviceKeeps ==
  ASSUME QueueStays, NEW action, NEW sheet, OnDevice(action, sheet)
  PROVE  OnDevice(action, sheet)'
BY DEF OnDevice, QueueStays

LEMMA ToldStays ==
  ASSUME Links, Links', ToldIsKept, QueueStays, UNCHANGED <<saved, promised>>, Row.sheet <= Row'.sheet,
         closing /= {} \/ faults.deaths > 0 => closing' /= {} \/ faults'.deaths > 0
  PROVE  ToldIsKept'
<1>1. Row.sheet \in Nat /\ Row'.sheet \in Nat /\ saved \in Nat /\ promised.sheet \in Nat \cup {NoSheet}
  BY Numbers, NumbersAfter
<1>2. promised.sheet <= Row'.sheet \/ OnDevice("SUBMIT", promised.sheet)'
  <2>1. CASE promised.sheet <= Row.sheet
    BY <1>1, <2>1 DEF NoSheet
  <2>2. CASE OnDevice("SUBMIT", promised.sheet)
    BY <2>2 DEF OnDevice, QueueStays
  <2> QED
    BY <2>1, <2>2 DEF ToldIsKept
<1>3. promised.sheet /= NoSheet =>
        closing' /= {} \/ OnDevice("SUBMIT", Blank)' \/ faults'.deaths > 0
  BY DeviceKeeps DEF ToldIsKept
<1>4. saved <= Row'.sheet \/ OnDevice("SAVE", saved)' \/ OnDevice("SUBMIT", saved)'
  BY <1>1 DEF ToldIsKept, OnDevice, QueueStays
<1> QED
  BY <1>2, <1>3, <1>4 DEF ToldIsKept, OnDevice

\* A step that passes preserves the rest when what was told stays true.
LEMMA PassesKeep ==
  ASSUME Links, Links', NothingIsLost, Passes,
         Open' => Tells /\ RemovedIsStored' /\ ToldIsKept',
         Open' \/ ~Row'.late => ToldIsKnown'
  PROVE  NothingIsLost'
<1>1. PageIsQuiet' /\ (~Row'.late /\ (~Open' \/ closing' /= {}) => AnswersAreFinal')
  BY PassesKeepEnd
<1>2. ASSUME Open' PROVE InProgress'
  <2>1. Open /\ InProgress
    BY <1>2 DEF Passes, NothingIsLost
  <2>2. NewerIsLater' /\ SubmissionsAreLast' /\ OwnSubmissionIsNewest'
    BY <1>2, PassesKeepOrder
  <2>3. Row'.seq = Row.seq /\ page'.seq = page.seq /\ (closing' /= {} => closing /= {})
    BY <1>2, <2>1 DEF Passes
  <2>4. Row.seq <= Row'.seq /\ page.seq <= page'.seq
    BY <2>3, Numbers
  <2>5. AnswersAreTrue' /\ ClosingIsAwaited'
    BY <1>2, <2>1, <2>3, <2>4, TellsStep DEF InProgress
  <2> QED
    BY <1>2, <2>2, <2>5 DEF InProgress
<1> QED
  BY <1>1, <1>2 DEF NothingIsLost

\* So it does while what was shown stays and so does the queue.
LEMMA QuietPass ==
  ASSUME Links, Links', NothingIsLost, Passes, QueueStays, UNCHANGED <<saved, promised>>,
         Open' => Tells /\ GoesOn
  PROVE  NothingIsLost'
<1>1. ASSUME Open' PROVE RemovedIsStored' /\ ToldIsKept'
  <2>1. Open /\ InProgress
    BY <1>1 DEF Passes, NothingIsLost
  <2>2. /\ Row'.seq = Row.seq /\ Row'.sheet = Row.sheet
        /\ closing /= {} \/ faults.deaths > 0 => closing' /= {} \/ faults'.deaths > 0
    BY <1>1, <2>1 DEF Passes
  <2>3. Row.seq <= Row'.seq /\ Row.sheet <= Row'.sheet
    BY <2>2, Numbers
  <2>4. RemovedIsStored'
    BY <1>1, <2>1, <2>3, GoesOnStep DEF InProgress
  <2>5. ToldIsKept'
    BY <2>1, <2>2, <2>3, ToldStays DEF InProgress
  <2> QED
    BY <2>4, <2>5
<1>2. Open' \/ ~Row'.late => ToldIsKnown'
  BY DEF NothingIsLost, ToldIsKnown, Passes
<1> QED
  BY <1>1, <1>2, PassesKeep

\* What the page waits for after the step, it waited for before.
StillWaits ==
    \A q \in wire' : q.waits = Page /\ q.msg.action = "SUBMIT" =>
        q.at /= "REFUSED" /\ \E r \in wire : r.waits = Page /\ r.msg = q.msg

LEMMA StillPasses ==
  ASSUME Relays, SameRow, UNCHANGED <<page, typed>>, closing' = closing,
         faults'.deaths = faults.deaths, StillWaits
  PROVE  Passes
<1>1. Row'.seq = Row.seq /\ Row'.sheet = Row.sheet /\ Row'.late = Row.late /\ Open' = Open
  BY DEF SameRow, Open
<1>2. page'.seq = page.seq /\ page'.sheet = page.sheet /\ page'.at = page.at /\ page'.dirty = page.dirty
  OBVIOUS
<1>3. closing /= {} \/ faults.deaths > 0 => closing' /= {} \/ faults'.deaths > 0
  OBVIOUS
<1> QED
  BY <1>1, <1>2, <1>3 DEF Passes, StillWaits

LEMMA SwapWaits ==
  ASSUME PageIsQuiet, NEW r, NEW new, Swaps(r, new), new.waits = r.waits \/ new.waits = Nobody,
         new.waits = Page /\ r.msg.action = "SUBMIT" => new.at /= "REFUSED"
  PROVE  StillWaits
BY RunnerAssumption DEF StillWaits, PageIsQuiet, Swaps

LEMMA SwapTells ==
  ASSUME NEW r, NEW new, Swaps(r, new), closing' = closing,
         Truthful(new)' \/ (new.last = r.last /\ (new.at = r.at \/ new.at = "FAILED")),
         r.at = "STORED" /\ closing /= {} => new \in wire' /\ new.at = "STORED"
  PROVE  Tells
BY DEF Tells, Swaps

\* Nothing changes in what is replayed, or one flush has less left.
LEMMA FlushGoesOn ==
  ASSUME UNCHANGED flush \/ \E f \in DOMAIN flush : FlushShrinks(f)
  PROVE  GoesOn
BY DEF GoesOn, FlushShrinks

LEMMA OnlineKeeps ==
  ASSUME Links, NothingIsLost, GoOffline \/ GoOnline
  PROVE  NothingIsLost'
<1>1. /\ Links' /\ Relays /\ SameRow /\ closing' = closing
      /\ UNCHANGED <<page, queue, flush, wire, typed, saved, promised>> /\ faults'.deaths = faults.deaths
  BY OnlineEffect
<1>2. StillWaits
  BY <1>1 DEF StillWaits, PageIsQuiet, NothingIsLost
<1>3. QueueStays /\ GoesOn
  BY <1>1, FlushGoesOn DEF QueueStays
<1>4. Tells
  BY <1>1 DEF Tells
<1> QED
  BY <1>1, <1>2, <1>3, <1>4, StillPasses, QuietPass

LEMMA StartFlushKeeps ==
  ASSUME Links, NothingIsLost, NEW f \in Flushes, StartFlush(f)
  PROVE  NothingIsLost'
<1>1. /\ Links' /\ Relays /\ SameRow /\ closing' = closing
      /\ UNCHANGED <<page, queue, wire, typed, saved, promised>> /\ faults'.deaths = faults.deaths
      /\ DOMAIN flush' = DOMAIN flush \cup {f} /\ flush'[f] = queue
      /\ \A g \in DOMAIN flush : flush'[g] = flush[g]
  BY StartFlushEffect
<1>2. StillWaits
  BY <1>1 DEF StillWaits, PageIsQuiet, NothingIsLost
<1>3. QueueStays
  BY <1>1 DEF QueueStays
<1>4. Tells
  BY <1>1 DEF Tells
<1>5. GoesOn
  <2> SUFFICES ASSUME NEW g \in DOMAIN flush', NEW id \in DOMAIN flush'[g]
               PROVE  \/ id \in DOMAIN queue'
                      \/ g \in DOMAIN flush /\ id \in DOMAIN flush[g] /\ flush'[g][id] = flush[g][id]
    BY DEF GoesOn
  <2>1. CASE g \in DOMAIN flush
    BY <1>1, <2>1
  <2>2. CASE g \notin DOMAIN flush
    <3>1. flush'[g] = queue'
      BY <1>1, <2>2
    <3> QED
      BY <3>1
  <2> QED
    BY <2>1, <2>2
<1> QED
  BY <1>1, <1>2, <1>3, <1>4, <1>5, StillPasses, QuietPass

LEMMA FlushSendKeeps ==
  ASSUME Links, NothingIsLost, NEW f \in Flushes, FlushSend(f)
  PROVE  NothingIsLost'
<1>1. /\ Links' /\ Relays /\ SameRow /\ closing' = closing
      /\ UNCHANGED <<page, queue, flush, typed, saved, promised, faults>>
      /\ \A r \in wire' : r \in wire \/ (r.at = "SENT" /\ r.last = 0 /\ r.waits /= Page)
      /\ wire \subseteq wire'
  BY FlushSendEffect
<1>2. StillWaits
  BY <1>1 DEF StillWaits, PageIsQuiet, NothingIsLost
<1>3. QueueStays /\ GoesOn
  BY <1>1, FlushGoesOn DEF QueueStays
<1>4. ASSUME NEW q \in wire', q.at = "SENT", q.last = 0 PROVE Truthful(q)'
  <2>1. page'.seq \in Nat
    BY <1>1, NumbersAfter
  <2> QED
    BY <1>4, <2>1 DEF Truthful
<1>5. Tells
  BY <1>1, <1>4 DEF Tells
<1> QED
  BY <1>1, <1>2, <1>3, <1>5, StillPasses, QuietPass

LEMMA FlushFailsKeeps ==
  ASSUME Links, NothingIsLost, NEW f \in Flushes, NEW r \in wire, FlushFails(f, r), faults'.drops = 0
  PROVE  NothingIsLost'
<1>1. /\ Links' /\ Relays /\ SameRow /\ closing' = closing
      /\ UNCHANGED <<page, typed, saved, promised>>
      /\ faults'.deaths = faults.deaths /\ QueueStays
      /\ f \in DOMAIN flush /\ FlushShrinks(f)
  BY FlushFailsEffect
<1>2. PICK new : /\ Swaps(r, new) /\ new.waits = Nobody
                 /\ new.last = r.last /\ new.at = r.at
                 /\ r.at \in {"SENT", "STORED"} => new \in wire'
  BY FlushFailsEffect
<1>3. StillWaits
  BY <1>2, SwapWaits, RunnerAssumption DEF NothingIsLost
<1>4. Tells
  BY <1>1, <1>2, SwapTells
<1>5. GoesOn
  BY <1>1, FlushGoesOn
<1> QED
  BY <1>1, <1>3, <1>4, <1>5, StillPasses, QuietPass

LEMMA FlushOfflineKeeps ==
  ASSUME Links, NothingIsLost, NEW f \in Flushes, FlushOffline(f), faults'.drops = 0
  PROVE  NothingIsLost'
<1>1. /\ Links' /\ Relays /\ SameRow /\ closing' = closing
      /\ UNCHANGED <<page, typed, saved, promised, wire>>
      /\ faults'.deaths = faults.deaths /\ QueueStays
      /\ f \in DOMAIN flush /\ FlushShrinks(f)
  BY FlushOfflineEffect
<1>2. StillWaits
  BY <1>1 DEF StillWaits, PageIsQuiet, NothingIsLost
<1>3. Tells
  BY <1>1 DEF Tells
<1>4. GoesOn
  BY <1>1, FlushGoesOn
<1> QED
  BY <1>1, <1>2, <1>3, <1>4, StillPasses, QuietPass

LEMMA AnswerKeeps ==
  ASSUME Links, NothingIsLost, NEW r \in wire, Stale(r) \/ TooLate(r) \/ Finished(r)
  PROVE  NothingIsLost'
<1>1. /\ Links' /\ Relays /\ SameRow /\ closing' = closing /\ UNCHANGED <<device, faults>>
      /\ r.at \in {"SENT", "STORED"} /\ (r.at = "STORED" => ~Open)
  BY AnswerEffect
<1>2. PICK new : /\ Swaps(r, new) /\ new.waits = r.waits /\ new.at \in {"OK", "REFUSED"}
                 /\ Open => /\ r.msg.seq <= Row.seq /\ new.last \in {0, Row.seq}
                            /\ new.at = "OK" => r.msg.action = "SAVE"
                 /\ ~Open => (new.at = "REFUSED" => r.msg.action = "SAVE")
  BY AnswerEffect
<1>3. QueueStays /\ UNCHANGED <<page, queue, flush, typed, saved, promised>>
  BY <1>1, DeviceStays
<1>4. Row.seq \in Nat /\ page.seq \in Nat /\ r.msg.seq \in Nat
  BY Numbers, LinksParts, RequestFields, MessageFields DEF WireOK
<1>5. ASSUME r.waits = Page, r.msg.action = "SUBMIT" PROVE new.at /= "REFUSED"
  <2>1. CASE Open
    <3>1. OwnSubmission(r) /\ OwnSubmissionIsNewest
      BY <1>1, <1>5, <2>1 DEF OwnSubmission, NothingIsLost, InProgress
    <3>2. r.msg.seq > Row.seq
      BY <3>1 DEF OwnSubmissionIsNewest
    <3> QED
      BY <1>2, <1>4, <2>1, <3>2
  <2>2. CASE ~Open
    BY <1>2, <1>5, <2>2
  <2> QED
    BY <2>1, <2>2
<1>6. StillWaits
  BY <1>2, <1>5, SwapWaits DEF NothingIsLost
<1>7. ASSUME Open' PROVE Tells
  <2>1. Open /\ Row.seq <= page.seq
    BY <1>1, <1>7 DEF SameRow, Open, NothingIsLost, InProgress, NewerIsLater
  <2>2. new.msg = r.msg /\ Row'.seq = Row.seq
    BY <1>1, <1>2 DEF Swaps, SameRow
  <2>3. Truthful(new)'
    BY <1>2, <1>3, <1>4, <2>1, <2>2 DEF Truthful
  <2> QED
    BY <1>1, <1>2, <2>1, <2>3, SwapTells
<1>8. GoesOn
  BY <1>3, FlushGoesOn
<1> QED
  BY <1>1, <1>3, <1>6, <1>7, <1>8, StillPasses, QuietPass

LEMMA RowOnlyKeeps ==
  ASSUME Links, NothingIsLost, Finish \/ PassDeadline
  PROVE  NothingIsLost'
<1>1. /\ Links' /\ Relays /\ UNCHANGED <<device, wire, faults>>
      /\ Open /\ Row'.seq = Row.seq /\ Row'.sheet = Row.sheet
      /\ \/ ~Open' /\ closing /= {} /\ Row'.late = Row.late
         \/ Open' /\ closing' = closing /\ Row'.late
  BY RowOnlyEffect
<1>2. QueueStays /\ UNCHANGED <<page, queue, flush, typed, saved, promised>>
  BY <1>1, DeviceStays
<1>3. StillWaits
  BY <1>1 DEF StillWaits, PageIsQuiet, NothingIsLost
<1>4. page'.seq = page.seq /\ page'.sheet = page.sheet /\ page'.at = page.at /\ page'.dirty = page.dirty
  BY <1>2
<1>5. Passes
  <2>1. CASE ~Open' /\ closing /= {} /\ Row'.late = Row.late
    BY <1>1, <1>2, <1>3, <1>4, <2>1 DEF Passes, StillWaits
  <2>2. CASE Open' /\ closing' = closing /\ Row'.late
    BY <1>1, <1>2, <1>3, <1>4, <2>2 DEF Passes, StillWaits
  <2> QED
    BY <1>1, <2>1, <2>2
<1>6. Open' => Tells
  BY <1>1 DEF Tells
<1>7. GoesOn
  BY <1>2, FlushGoesOn
<1> QED
  BY <1>1, <1>2, <1>5, <1>6, <1>7, QuietPass

LEMMA DieKeeps ==
  ASSUME Links, NothingIsLost, Die
  PROVE  NothingIsLost'
<1>1. /\ Links' /\ Relays /\ SameRow /\ closing' = {} /\ UNCHANGED device /\ faults'.deaths > 0
      /\ \A new \in wire' : \E r \in wire :
           /\ new.msg = r.msg /\ new.waits = r.waits /\ new.last = r.last
           /\ new = r \/ (new.at = "FAILED" /\ r.at = "STORED")
           /\ new.at /= "STORED"
  BY DieEffect
<1>2. QueueStays /\ UNCHANGED <<page, queue, flush, typed, saved, promised>>
  BY <1>1, DeviceStays
<1>3. StillWaits
  BY <1>1 DEF StillWaits, PageIsQuiet, NothingIsLost
<1>4. page'.seq = page.seq /\ page'.sheet = page.sheet /\ page'.at = page.at /\ page'.dirty = page.dirty
  BY <1>2
<1>5. Row'.seq = Row.seq /\ Row'.sheet = Row.sheet /\ Row'.late = Row.late /\ Open' = Open
  BY <1>1 DEF SameRow, Open
<1>6. Passes
  BY <1>1, <1>2, <1>3, <1>4, <1>5 DEF Passes, StillWaits
<1>7. Tells
  BY <1>1 DEF Tells
<1>8. GoesOn
  BY <1>2, FlushGoesOn
<1> QED
  BY <1>1, <1>2, <1>6, <1>7, <1>8, QuietPass

LEMMA VanishKeeps ==
  ASSUME Links, NothingIsLost, NEW r \in wire, Vanish(r)
  PROVE  NothingIsLost'
<1>1. /\ Links' /\ Relays /\ SameRow /\ closing' = closing /\ UNCHANGED <<device, faults>>
      /\ wire' = wire \ {r} /\ r.at = "SENT"
  BY VanishEffect
<1>2. QueueStays /\ UNCHANGED <<page, queue, flush, typed, saved, promised>>
  BY <1>1, DeviceStays
<1>3. Swaps(r, r)
  BY <1>1, LinksParts, RequestLeaves
<1>4. StillWaits
  BY <1>1, <1>3, SwapWaits DEF NothingIsLost
<1>5. Tells
  BY <1>1, <1>3, SwapTells
<1>6. GoesOn
  BY <1>2, FlushGoesOn
<1> QED
  BY <1>1, <1>2, <1>4, <1>5, <1>6, StillPasses, QuietPass

LEMMA StutterKeeps ==
  ASSUME Links, NothingIsLost, UNCHANGED allVars
  PROVE  NothingIsLost'
<1>1. UNCHANGED vars /\ UNCHANGED device /\ wire' = wire /\ faults' = faults
  BY DEF allVars
<1>2. Links'
  BY LinksStep
<1>3. SameRow /\ closing' = closing
  BY <1>1, LinksParts, ServerStays
<1>4. QueueStays /\ Waiting' = Waiting /\ UNCHANGED <<page, queue, flush, typed, saved, promised>>
  BY <1>1, DeviceStays
<1>5. StillWaits
  BY <1>1 DEF StillWaits, PageIsQuiet, NothingIsLost
<1>6. Tells
  BY <1>1, <1>3 DEF Tells
<1>7. Relays /\ GoesOn
  BY <1>1, <1>4, QuietRelays, FlushGoesOn
<1> QED
  BY <1>1, <1>2, <1>3, <1>4, <1>5, <1>6, <1>7, StillPasses, QuietPass

-----------------------------------------------------------------------------
(* What is shown: answers, failures and writes that leave the queue. *)

\* While it matters, the page knows all that is on its way.
LEMMA LiveIsKnown ==
  ASSUME NothingIsLost, Open \/ ~Row.late, NEW m \in Live
  PROVE  m.sheet <= page.sheet
<1>1. CASE Open
  BY <1>1 DEF NothingIsLost, InProgress, NewerIsLater
<1>2. CASE ~Open /\ ~Row.late
  BY <1>2 DEF NothingIsLost, AnswersAreFinal
<1> QED
  BY <1>1, <1>2

\* What the server has seen is not newer than its row.
LEMMA SeenIsStored ==
  ASSUME Open, NothingIsLost, NEW m \in Live, m.seq <= Row.seq
  PROVE  m.sheet <= Row.sheet
BY DEF NothingIsLost, InProgress, NewerIsLater

LEMMA LargerIsOne ==
  ASSUME NEW a \in Nat, NEW b \in Nat
  PROVE  /\ Larger(a, b) = a \/ Larger(a, b) = b
         /\ b <= a => Larger(a, b) = a
BY DEF Larger

LEMMA SaveAnsweredKeeps ==
  ASSUME Links, NothingIsLost, NEW r, SaveAnswered(r)
  PROVE  NothingIsLost'
<1>1. /\ Links' /\ Relays /\ SameRow /\ closing' = closing
      /\ r \in wire /\ r.waits = Page /\ r.at \in {"OK", "REFUSED"} /\ wire' = wire \ {r}
      /\ UNCHANGED <<queue, flush, faults, typed, promised>>
      /\ saved' = (IF r.at = "OK" THEN Larger(saved, r.msg.sheet) ELSE saved)
      /\ page'.seq = Larger(page.seq, r.last) /\ page'.sheet = page.sheet
      /\ page'.at = page.at /\ page'.dirty = page.dirty
  BY SaveAnsweredEffect
<1>2. Swaps(r, r)
  BY <1>1, LinksParts, RequestLeaves
<1>3. StillWaits
  BY <1>1 DEF StillWaits, PageIsQuiet, NothingIsLost
<1>4. /\ r.last \in Nat /\ page.seq \in Nat /\ saved \in Nat /\ Row.seq \in Nat /\ Row.sheet \in Nat
      /\ r.msg.seq \in Nat /\ r.msg.sheet \in Nat /\ page.sheet \in Nat
  BY <1>1, Numbers, LinksParts, RequestFields, MessageFields DEF WireOK
<1>5. Open => page'.seq = page.seq
  <2>1. ASSUME Open PROVE r.last <= page.seq
    BY <1>1, <2>1 DEF NothingIsLost, InProgress, AnswersAreTrue, Truthful
  <2> QED
    BY <1>1, <1>4, <2>1, LargerIsOne
<1>6. Row'.seq = Row.seq /\ Row'.sheet = Row.sheet /\ Row'.late = Row.late /\ Open' = Open
  BY <1>1 DEF SameRow, Open
<1>7. Passes
  BY <1>1, <1>3, <1>5, <1>6 DEF Passes, StillWaits
<1>8. Tells
  BY <1>1, <1>2, SwapTells
<1>9. GoesOn /\ QueueStays
  BY <1>1, FlushGoesOn DEF QueueStays
<1>10. r.msg \in Live
  BY <1>1 DEF Live
<1>11. saved' = saved \/ (r.at = "OK" /\ saved' = r.msg.sheet)
  BY <1>1, <1>4, LargerIsOne
<1>12. ASSUME Open' PROVE RemovedIsStored' /\ ToldIsKept'
  <2>1. Open /\ InProgress
    BY <1>6, <1>12 DEF NothingIsLost
  <2>2. RemovedIsStored'
    BY <1>1, <1>4, <1>6, <1>9, <2>1, GoesOnStep DEF InProgress
  <2>3. saved' = saved \/ saved' <= Row'.sheet
    <3>1. ASSUME r.at = "OK" PROVE r.msg.sheet <= Row.sheet
      <4>1. r.msg.seq <= Row.seq
        BY <1>1, <2>1, <3>1 DEF InProgress, AnswersAreTrue, Truthful
      <4> QED
        BY <1>10, <2>1, <4>1, SeenIsStored
    <3> QED
      BY <1>6, <1>11, <3>1
  <2>4. ToldIsKept'
    BY <1>1, <1>6, <2>1, <2>3 DEF InProgress, ToldIsKept, OnDevice
  <2> QED
    BY <2>2, <2>4
<1>13. ASSUME Open' \/ ~Row'.late PROVE ToldIsKnown'
  <2>1. ToldIsKnown /\ r.msg.sheet <= page.sheet
    BY <1>6, <1>10, <1>13, LiveIsKnown DEF NothingIsLost
  <2> QED
    BY <1>1, <1>11, <2>1 DEF ToldIsKnown
<1> QED
  BY <1>1, <1>7, <1>8, <1>12, <1>13, PassesKeep

\* A submission is answered when the attempt is over: it is not refused.
LEMMA SubmitAnsweredKeeps ==
  ASSUME Links, NothingIsLost, NEW r, SubmitAnswered(r)
  PROVE  NothingIsLost'
<1>1. /\ Links' /\ Relays /\ SameRow /\ closing' = closing
      /\ r \in wire /\ r.waits = Page /\ r.msg.action = "SUBMIT" /\ r.at \in {"OK", "REFUSED"}
      /\ wire' = wire \ {r}
      /\ UNCHANGED <<queue, flush, faults, typed, saved>>
      /\ page'.seq = page.seq /\ page'.sheet = page.sheet /\ page'.dirty = page.dirty
      /\ IF r.at = "OK" \/ page.at = "TIME_UP"
         THEN promised'.sheet = r.msg.sheet /\ page'.at = "LEFT"
         ELSE promised' = promised /\ page'.at = "OPEN"
  BY SubmitAnsweredEffect
<1>2. page.at /= "OPEN" /\ r.at = "OK"
  BY <1>1 DEF NothingIsLost, PageIsQuiet
<1>3. promised'.sheet = r.msg.sheet /\ page'.at = "LEFT"
  BY <1>1, <1>2
<1>4. ~Open
  BY <1>1, <1>2 DEF NothingIsLost, InProgress, AnswersAreTrue, Truthful
<1>5. StillWaits
  BY <1>1 DEF StillWaits, PageIsQuiet, NothingIsLost
<1>6. Row'.seq = Row.seq /\ Row'.sheet = Row.sheet /\ Row'.late = Row.late /\ Open' = Open
  BY <1>1 DEF SameRow, Open
<1>7. Passes
  BY <1>1, <1>2, <1>3, <1>4, <1>5, <1>6 DEF Passes, StillWaits
<1>8. r.msg \in Live
  BY <1>1 DEF Live
<1>9. ASSUME Open' \/ ~Row'.late PROVE ToldIsKnown'
  <2>1. ToldIsKnown /\ r.msg.sheet <= page.sheet
    BY <1>6, <1>8, <1>9, LiveIsKnown DEF NothingIsLost
  <2> QED
    BY <1>1, <1>3, <2>1 DEF ToldIsKnown
<1> QED
  BY <1>1, <1>4, <1>6, <1>7, <1>9, PassesKeep

\* What is shown is queued with the same step.
LEMMA ShowsTruly ==
  ASSUME Links, Links', NEW m \in Messages, Shows(m), QueueStays, ToldIsKept, Row.sheet <= Row'.sheet,
         closing /= {} \/ faults.deaths > 0 => closing' /= {} \/ faults'.deaths > 0
  PROVE  ToldIsKept'
<1>1. /\ Row.sheet \in Nat /\ Row'.sheet \in Nat /\ saved \in Nat /\ promised.sheet \in Nat \cup {NoSheet}
      /\ m.sheet \in Nat /\ m.action \in {"SAVE", "SUBMIT"}
  BY Numbers, NumbersAfter, MessageFields
<1>2. PICK id \in DOMAIN queue' : queue'[id].msg = m
  BY DEF Shows
<1>3. promised'.sheet <= Row'.sheet \/ OnDevice("SUBMIT", promised.sheet)'
  <2>1. CASE m.action = "SUBMIT"
    <3>1. promised'.sheet = m.sheet
      BY <2>1 DEF Shows
    <3> QED
      BY <1>1, <1>2, <2>1, <3>1 DEF OnDevice
  <2>2. CASE m.action = "SAVE"
    <3>1. promised' = promised
      BY <2>2 DEF Shows
    <3> QED
      BY <1>1, <3>1 DEF ToldIsKept, OnDevice, QueueStays, NoSheet
  <2> QED
    BY <1>1, <2>1, <2>2
<1>4. promised'.sheet /= NoSheet =>
        closing' /= {} \/ OnDevice("SUBMIT", Blank)' \/ faults'.deaths > 0
  <2>1. CASE m.action = "SUBMIT"
    BY <1>1, <1>2, <2>1, RunnerAssumption DEF OnDevice
  <2>2. CASE m.action = "SAVE"
    <3>1. promised' = promised
      BY <2>2 DEF Shows
    <3> QED
      BY <3>1, DeviceKeeps DEF ToldIsKept
  <2> QED
    BY <1>1, <2>1, <2>2
<1>5. saved' <= Row'.sheet \/ OnDevice("SAVE", saved)' \/ OnDevice("SUBMIT", saved)'
  <2>1. CASE saved' = saved
    BY <1>1, <2>1 DEF ToldIsKept, OnDevice, QueueStays
  <2>2. CASE saved' = m.sheet /\ m.action = "SAVE"
    BY <1>1, <1>2, <2>2 DEF OnDevice
  <2> QED
    BY <1>1, <2>1, <2>2, LargerIsOne DEF Shows
<1> QED
  BY <1>3, <1>4, <1>5 DEF ToldIsKept, OnDevice

LEMMA ShowsKnown ==
  ASSUME Links, NEW m \in Messages, Shows(m), ToldIsKnown, m.sheet <= page.sheet, page'.sheet = page.sheet
  PROVE  ToldIsKnown'
<1>1. saved \in Nat /\ m.sheet \in Nat /\ m.action \in {"SAVE", "SUBMIT"}
  BY Numbers, MessageFields
<1>2. saved' = saved \/ saved' = m.sheet
  BY <1>1, LargerIsOne DEF Shows
<1>3. promised' = promised \/ promised'.sheet = m.sheet
  BY DEF Shows
<1> QED
  BY <1>2, <1>3 DEF ToldIsKnown

LEMMA PageFailsKeeps ==
  ASSUME Links, NothingIsLost, NEW r \in wire, PageFails(r)
  PROVE  NothingIsLost'
<1>1. /\ Links' /\ Relays /\ SameRow /\ closing' = closing /\ QueueStays
      /\ r.waits = Page /\ Shows(r.msg)
      /\ UNCHANGED <<flush, typed>> /\ faults'.deaths = faults.deaths
      /\ page'.seq = page.seq /\ page'.sheet = page.sheet /\ page'.dirty = page.dirty
      /\ page'.at = (IF r.msg.action = "SUBMIT" THEN "LEFT" ELSE page.at)
  BY PageFailsEffect
<1>2. PICK new : /\ Swaps(r, new) /\ new.waits = Nobody
                 /\ new.last = r.last /\ new.at = r.at
                 /\ r.at \in {"SENT", "STORED"} => new \in wire'
  BY PageFailsEffect
<1>3. StillWaits
  BY <1>2, SwapWaits, RunnerAssumption DEF NothingIsLost
<1>4. r.msg.action = "SUBMIT" => page.at /= "OPEN"
  BY <1>1 DEF NothingIsLost, PageIsQuiet
<1>5. page'.at = "OPEN" <=> page.at = "OPEN"
  BY <1>1, <1>4
<1>6. Row'.seq = Row.seq /\ Row'.sheet = Row.sheet /\ Row'.late = Row.late /\ Open' = Open
  BY <1>1 DEF SameRow, Open
<1>7. Passes
  BY <1>1, <1>3, <1>5, <1>6 DEF Passes, StillWaits
<1>8. Tells
  BY <1>1, <1>2, SwapTells
<1>9. GoesOn
  BY <1>1, FlushGoesOn
<1>10. r.msg \in Live
  BY DEF Live
<1>11. r.msg \in Messages /\ Row.seq \in Nat /\ Row.sheet \in Nat
  BY Numbers, LinksParts, RequestFields DEF WireOK
<1>12. ASSUME Open' PROVE RemovedIsStored' /\ ToldIsKept'
  <2>1. Open /\ InProgress
    BY <1>6, <1>12 DEF NothingIsLost
  <2>2. RemovedIsStored'
    BY <1>1, <1>6, <1>9, <1>11, <2>1, GoesOnStep DEF InProgress
  <2>3. ToldIsKept'
    BY <1>1, <1>6, <1>11, <2>1, ShowsTruly DEF InProgress
  <2> QED
    BY <2>2, <2>3
<1>13. ASSUME Open' \/ ~Row'.late PROVE ToldIsKnown'
  <2>1. ToldIsKnown /\ r.msg.sheet <= page.sheet
    BY <1>6, <1>10, <1>13, LiveIsKnown DEF NothingIsLost
  <2> QED
    BY <1>1, <1>11, <2>1, ShowsKnown
<1> QED
  BY <1>1, <1>7, <1>8, <1>12, <1>13, PassesKeep

\* A replayed write that was answered leaves the queue: the server has it.
LEMMA FlushAnsweredKeeps ==
  ASSUME Links, NothingIsLost, NEW f \in Flushes, NEW r \in wire, FlushAnswered(f, r)
  PROVE  NothingIsLost'
<1> DEFINE head == Oldest(flush[f])
<1>1. /\ Links' /\ Relays /\ SameRow /\ closing' = closing
      /\ UNCHANGED <<page, typed, saved, promised, faults>>
      /\ r.at \in {"OK", "REFUSED"} /\ wire' = wire \ {r}
      /\ f \in DOMAIN flush /\ FlushShrinks(f)
      /\ r.msg = flush[f][head].msg /\ head \in DOMAIN flush[f]
      /\ queue' = Without(queue, head)
  BY FlushAnsweredEffect
<1> HIDE DEF head
<1>2. Swaps(r, r)
  BY <1>1, LinksParts, RequestLeaves
<1>3. StillWaits
  BY <1>1 DEF StillWaits, PageIsQuiet, NothingIsLost
<1>4. Row'.seq = Row.seq /\ Row'.sheet = Row.sheet /\ Row'.late = Row.late /\ Open' = Open
  BY <1>1 DEF SameRow, Open
<1>5. Passes
  BY <1>1, <1>3, StillPasses
<1>6. Tells
  BY <1>1, <1>2, SwapTells
<1>7. \A id \in DOMAIN queue : \/ id \in DOMAIN queue' /\ queue'[id] = queue[id]
                               \/ id = head
  BY <1>1 DEF Without
<1>8. \A g \in DOMAIN flush : head \in DOMAIN flush[g] /\ head \in DOMAIN queue => flush[g][head].msg = r.msg
  BY <1>1 DEF Links, FlushesFollowQueue
<1>9. head \in DOMAIN queue => queue[head].msg = r.msg
  BY <1>1 DEF Links, FlushesFollowQueue
<1>10. r.msg \in Live
  BY DEF Live
<1>11. ASSUME Open' PROVE RemovedIsStored' /\ ToldIsKept'
  <2>1. Open /\ InProgress
    BY <1>4, <1>11 DEF NothingIsLost
  <2>2. r.msg.seq <= Row.seq /\ r.msg.sheet <= Row.sheet
    <3>1. r.msg.seq <= Row.seq
      BY <1>1, <2>1 DEF InProgress, AnswersAreTrue, Truthful
    <3> QED
      BY <1>10, <2>1, <3>1, SeenIsStored
  <2>3. /\ Row.seq \in Nat /\ Row.sheet \in Nat /\ saved \in Nat /\ promised.sheet \in Nat \cup {NoSheet}
        /\ r.msg.seq \in Nat /\ r.msg.sheet \in Nat
    BY <1>10, Numbers, LiveMessages
  <2>4. r.msg.action = "SUBMIT" => closing /= {} \/ faults.deaths > 0
    BY <1>10, <2>1, <2>2, <2>3 DEF InProgress, SubmissionsAreLast
  <2>5. RemovedIsStored'
    <3> SUFFICES ASSUME NEW g \in DOMAIN flush', NEW id \in DOMAIN flush'[g], id \notin DOMAIN queue'
                 PROVE  flush'[g][id].msg.seq <= Row'.seq
      BY DEF RemovedIsStored
    <3>1. g \in DOMAIN flush /\ id \in DOMAIN flush[g] /\ flush'[g][id] = flush[g][id]
      BY <1>1 DEF FlushShrinks
    <3>2. CASE id \in DOMAIN queue
      <4>1. id = head /\ flush[g][id].msg = r.msg
        BY <1>7, <1>8, <3>1, <3>2
      <4> QED
        BY <1>4, <2>2, <3>1, <4>1
    <3>3. CASE id \notin DOMAIN queue
      BY <1>4, <2>1, <3>1, <3>3 DEF InProgress, RemovedIsStored
    <3> QED
      BY <3>2, <3>3
  <2>6. promised'.sheet <= Row'.sheet \/ OnDevice("SUBMIT", promised.sheet)'
    <3>1. CASE promised.sheet <= Row.sheet
      BY <1>1, <1>4, <3>1
    <3>2. CASE OnDevice("SUBMIT", promised.sheet)
      <4>1. PICK id \in DOMAIN queue :
              queue[id].msg.action = "SUBMIT" /\ queue[id].msg.sheet >= promised.sheet
        BY <3>2 DEF OnDevice
      <4>2. CASE id \in DOMAIN queue' /\ queue'[id] = queue[id]
        BY <1>1, <4>1, <4>2 DEF OnDevice
      <4>3. CASE id = head
        BY <1>1, <1>4, <1>9, <2>2, <2>3, <4>1, <4>3 DEF NoSheet
      <4> QED
        BY <1>7, <4>2, <4>3
    <3> QED
      BY <2>1, <3>1, <3>2 DEF InProgress, ToldIsKept
  <2>7. promised'.sheet /= NoSheet =>
          closing' /= {} \/ OnDevice("SUBMIT", Blank)' \/ faults'.deaths > 0
    <3>1. ASSUME OnDevice("SUBMIT", Blank)
          PROVE  closing' /= {} \/ OnDevice("SUBMIT", Blank)' \/ faults'.deaths > 0
      <4>1. PICK id \in DOMAIN queue : queue[id].msg.action = "SUBMIT" /\ queue[id].msg.sheet >= Blank
        BY <3>1 DEF OnDevice
      <4>2. CASE id \in DOMAIN queue' /\ queue'[id] = queue[id]
        BY <4>1, <4>2 DEF OnDevice
      <4>3. CASE id = head
        BY <1>1, <1>9, <2>4, <4>1, <4>3
      <4> QED
        BY <1>7, <4>2, <4>3
    <3> QED
      BY <1>1, <2>1, <3>1 DEF InProgress, ToldIsKept
  <2>8. saved' <= Row'.sheet \/ OnDevice("SAVE", saved)' \/ OnDevice("SUBMIT", saved)'
    <3>1. ASSUME NEW id \in DOMAIN queue, queue[id].msg.action \in {"SAVE", "SUBMIT"},
                 queue[id].msg.sheet >= saved
          PROVE  saved' <= Row'.sheet \/ OnDevice("SAVE", saved)' \/ OnDevice("SUBMIT", saved)'
      <4>1. CASE id \in DOMAIN queue' /\ queue'[id] = queue[id]
        BY <1>1, <3>1, <4>1 DEF OnDevice
      <4>2. CASE id = head
        BY <1>1, <1>4, <1>9, <2>2, <2>3, <3>1, <4>2
      <4> QED
        BY <1>7, <4>1, <4>2
    <3> QED
      BY <1>1, <1>4, <2>1, <3>1 DEF InProgress, ToldIsKept, OnDevice
  <2>9. ToldIsKept'
    BY <2>6, <2>7, <2>8 DEF ToldIsKept, OnDevice
  <2> QED
    BY <2>5, <2>9
<1>12. Open' \/ ~Row'.late => ToldIsKnown'
  BY <1>1, <1>4 DEF NothingIsLost, ToldIsKnown
<1> QED
  BY <1>1, <1>5, <1>6, <1>11, <1>12, PassesKeep

-----------------------------------------------------------------------------
(* What the page does, and what the server stores. *)

\* Answers change while no submission is under way.
LEMMA TypeKeeps ==
  ASSUME QuietSubmits, Links, NothingIsLost, Type
  PROVE  NothingIsLost'
<1>1. /\ Links' /\ SameRow /\ closing' = closing
      /\ UNCHANGED <<queue, flush, wire, faults, saved, promised>>
      /\ page.at = "OPEN" \/ (page.at = "SUBMITTING" /\ ~QuietSubmits)
      /\ page'.at = page.at /\ page'.seq = page.seq
      /\ typed' = typed + 1 /\ page'.sheet = typed'
  BY TypeEffect
<1>2. page.at = "OPEN" /\ page'.at = "OPEN"
  BY <1>1
<1>3. Waiting' = Waiting /\ QueueStays
  BY <1>1, LinksParts, StoredStays
<1>4. Live' = Live /\ \A r : Beside(r)' = Beside(r)
  BY <1>1, <1>3 DEF Live, Beside
<1>5. Row'.seq = Row.seq /\ Row'.sheet = Row.sheet /\ Row'.late = Row.late /\ Open' = Open
  BY <1>1 DEF SameRow, Open
<1>6. Row.seq \in Nat /\ Row.sheet \in Nat /\ page.seq \in Nat /\ page.sheet \in Nat /\ typed \in Nat
      /\ saved \in Nat /\ promised.sheet \in Nat \cup {NoSheet}
  BY Numbers
<1>7. PageIsQuiet'
  BY <1>1, <1>2 DEF NothingIsLost, PageIsQuiet
<1>8. ASSUME Open PROVE InProgress' /\ page.sheet <= page'.sheet
  <2>1. InProgress
    BY <1>8 DEF NothingIsLost
  <2>2. page.sheet <= page'.sheet
    BY <1>1, <1>6, <2>1 DEF InProgress, NewerIsLater
  <2>3. NewerIsLater'
    BY <1>1, <1>4, <1>5, <1>6, <2>1, <2>2, NewerStep DEF InProgress
  <2>4. SubmissionsAreLast'
    BY <1>1, <1>2, <1>4, <1>5, <2>1 DEF InProgress, SubmissionsAreLast
  <2>5. OwnSubmissionIsNewest'
    BY <1>1, <1>4, <1>5, <2>1 DEF InProgress, OwnSubmissionIsNewest, OwnSubmission
  <2>6. Tells /\ GoesOn
    BY <1>1, FlushGoesOn DEF Tells
  <2>7. AnswersAreTrue' /\ ClosingIsAwaited'
    BY <1>1, <1>5, <1>6, <2>1, <2>6, TellsStep DEF InProgress
  <2>8. RemovedIsStored' /\ ToldIsKept'
    BY <1>1, <1>3, <1>5, <1>6, <2>1, <2>6, GoesOnStep, ToldStays DEF InProgress
  <2> QED
    BY <2>2, <2>3, <2>4, <2>5, <2>7, <2>8 DEF InProgress
<1>9. ~(~Row.late /\ (~Open \/ closing /= {}))
  BY <1>2 DEF NothingIsLost, AnswersAreFinal
<1>10. Open' \/ ~Row'.late => ToldIsKnown'
  <2>1. ASSUME Open PROVE ToldIsKnown'
    <3>1. ToldIsKnown /\ page.sheet <= page'.sheet
      BY <1>8, <2>1 DEF NothingIsLost
    <3>2. page'.sheet \in Nat
      BY <1>1, NumbersAfter
    <3> QED
      BY <1>1, <1>6, <3>1, <3>2 DEF ToldIsKnown, NoSheet
  <2> QED
    BY <1>5, <1>9, <2>1
<1> QED
  BY <1>1, <1>5, <1>7, <1>8, <1>9, <1>10 DEF NothingIsLost

\* The page sends its next message before any submission: it is newer than
\* all that is on its way.
LEMMA SendsKeep ==
  ASSUME Links, Links', NothingIsLost, NEW m, Sends(m), page.at = "OPEN",
         page'.at /= "OPEN" => ~page'.dirty,
         m.action = "SUBMIT" => page'.at /= "OPEN",
         Shows(m) \/ UNCHANGED <<queue, saved, promised>>
  PROVE  NothingIsLost'
<1>1. /\ m \in Messages /\ m.seq = page.seq + 1 /\ m.sheet = page.sheet
      /\ page'.seq = page.seq + 1 /\ page'.sheet = page.sheet
      /\ SameRow /\ closing' = closing /\ QueueStays
      /\ UNCHANGED <<flush, faults, typed>>
      /\ Waiting' \subseteq Waiting \cup {m} /\ wire \subseteq wire'
  BY DEF Sends
<1>2. \A r \in wire' : \/ r \in wire
                       \/ /\ wire' = wire \cup {r} /\ Waiting' = Waiting
                          /\ r.msg = m /\ r.at = "SENT" /\ r.last = 0
  BY DEF Sends
<1>3. Row'.seq = Row.seq /\ Row'.sheet = Row.sheet /\ Row'.late = Row.late /\ Open' = Open
  BY <1>1 DEF SameRow, Open
<1>4. Row.seq \in Nat /\ Row.sheet \in Nat /\ page.seq \in Nat /\ page.sheet \in Nat
  BY Numbers
<1>5. \A r \in wire : ~(r.waits = Page /\ r.msg.action = "SUBMIT")
  BY DEF NothingIsLost, PageIsQuiet
<1>6. PageIsQuiet'
  BY <1>2, <1>5 DEF PageIsQuiet
<1>7. Live' \subseteq Live \cup {m}
  BY <1>1, <1>2 DEF Live
<1>8. ASSUME Open PROVE InProgress'
  <2>1. InProgress
    BY <1>8 DEF NothingIsLost
  <2>2. \A a \in Live : a.seq \in Nat /\ a.sheet \in Nat /\ a.seq < m.seq /\ a.sheet <= m.sheet
    BY <1>1, <1>4, <2>1, LiveMessages DEF InProgress, NewerIsLater
  <2>3. Row.seq < m.seq /\ Row.sheet <= m.sheet /\ page.sheet <= typed
    BY <1>1, <1>4, <2>1 DEF InProgress, NewerIsLater
  <2>4. NewerIsLater'
    <3>1. \A a, b \in Live' : (a.seq = b.seq => a = b) /\ (a.seq < b.seq => a.sheet <= b.sheet)
      BY <1>1, <1>4, <1>7, <2>1, <2>2 DEF InProgress, NewerIsLater
    <3>2. \A a \in Live' : /\ a.seq <= page'.seq /\ a.sheet <= page'.sheet
                           /\ a.seq <= Row'.seq => a.sheet <= Row'.sheet
                           /\ a.seq >= Row'.seq => a.sheet >= Row'.sheet
      BY <1>1, <1>3, <1>4, <1>7, <2>1, <2>2, <2>3 DEF InProgress, NewerIsLater
    <3>3. Row'.seq <= page'.seq /\ Row'.sheet <= page'.sheet /\ page'.sheet <= typed'
      BY <1>1, <1>3, <1>4, <2>3
    <3> QED
      BY <3>1, <3>2, <3>3 DEF NewerIsLater
  <2>5. SubmissionsAreLast'
    <3> SUFFICES ASSUME NEW a \in Live', a.action = "SUBMIT"
                 PROVE  IF a.seq > Row'.seq
                        THEN page'.at /= "OPEN" /\ a.seq = page'.seq /\ a.sheet = page'.sheet
                        ELSE closing' /= {} \/ faults'.deaths > 0
      BY DEF SubmissionsAreLast
    <3>1. CASE a = m
      BY <1>1, <1>3, <1>4, <2>3, <3>1
    <3>2. CASE a \in Live
      BY <1>1, <1>3, <2>1, <3>2 DEF InProgress, SubmissionsAreLast
    <3> QED
      BY <1>7, <3>1, <3>2
  <2>6. ASSUME NEW q \in wire', q \notin wire PROVE Truthful(q)'
    BY <1>1, <1>2, <1>4, <2>6 DEF Truthful
  <2>7. Tells
    BY <1>1, <2>6 DEF Tells
  <2>8. GoesOn
    BY <1>1, FlushGoesOn
  <2>9. Row.seq <= Row'.seq /\ Row.sheet <= Row'.sheet /\ page.seq <= page'.seq
    BY <1>1, <1>3, <1>4
  <2>10. AnswersAreTrue' /\ ClosingIsAwaited'
    BY <1>1, <2>1, <2>7, <2>9, TellsStep DEF InProgress
  <2>11. OwnSubmissionIsNewest'
    <3> SUFFICES ASSUME NEW q \in wire', OwnSubmission(q)
                 PROVE  q.msg.seq > Row'.seq /\ \A a \in Beside(q)' : a.seq < q.msg.seq
      BY DEF OwnSubmissionIsNewest, OwnSubmission
    <3>1. q \notin wire
      BY <1>5 DEF OwnSubmission
    <3>2. q.msg = m /\ wire' = wire \cup {q} /\ Waiting' = Waiting
      BY <1>2, <3>1
    <3>3. Beside(q)' \subseteq Live
      BY <3>2 DEF Beside, Live
    <3> QED
      BY <1>3, <2>2, <2>3, <3>2, <3>3, <1>1, <1>4
  <2>12. RemovedIsStored'
    BY <1>1, <2>1, <2>8, <2>9, GoesOnStep DEF InProgress
  <2>13. ToldIsKept'
    <3>1. CASE Shows(m)
      BY <1>1, <2>1, <2>9, <3>1, ShowsTruly DEF InProgress
    <3>2. CASE UNCHANGED <<queue, saved, promised>>
      BY <1>1, <2>1, <2>9, <3>2, ToldStays DEF InProgress
    <3> QED
      BY <3>1, <3>2
  <2> QED
    BY <2>4, <2>5, <2>10, <2>11, <2>12, <2>13 DEF InProgress
<1>9. ~(~Row.late /\ (~Open \/ closing /= {}))
  BY DEF NothingIsLost, AnswersAreFinal
<1>10. ASSUME Open' \/ ~Row'.late PROVE ToldIsKnown'
  <2>1. ToldIsKnown
    BY <1>3, <1>10 DEF NothingIsLost
  <2>2. CASE Shows(m)
    <3>1. m.sheet <= page.sheet
      BY <1>1, <1>4
    <3> QED
      BY <1>1, <2>1, <2>2, <3>1, ShowsKnown
  <2>3. CASE UNCHANGED <<queue, saved, promised>>
    BY <1>1, <2>1, <2>3 DEF ToldIsKnown
  <2> QED
    BY <2>2, <2>3
<1> QED
  BY <1>1, <1>3, <1>6, <1>8, <1>9, <1>10 DEF NothingIsLost

\* What is sent is saved or submitted, by a page that has not submitted.
LEMMA PersistKeeps ==
  ASSUME QuietSubmits, Links, NothingIsLost, AutoSave \/ Submit \/ TimeUp
  PROVE  NothingIsLost'
<1>1. CASE AutoSave
  <2>1. /\ page.dirty /\ page.at \in {"OPEN", "SUBMITTING", "TIME_UP", "LEFT"}
        /\ Persist("SAVE", page.at)
    BY <1>1 DEF AutoSave
  <2>2. page.at = "OPEN"
    BY <2>1 DEF NothingIsLost, PageIsQuiet
  <2>3. PICK m : m = Payload("SAVE")
    OBVIOUS
  <2>4. /\ Links' /\ Sends(m) /\ m.action = "SAVE" /\ page'.at = page.at
        /\ Shows(m) \/ UNCHANGED <<queue, saved, promised>>
    BY <2>1, <2>3, PersistEffect
  <2> QED
    BY <2>2, <2>4, SendsKeep
<1>2. CASE Submit \/ TimeUp
  <2>1. PICK at \in {"SUBMITTING", "TIME_UP"} :
          page.at = "OPEN" /\ (QuietSubmits => ~page.dirty) /\ Persist("SUBMIT", at)
    BY <1>2 DEF Submit, TimeUp
  <2>2. PICK m : m = Payload("SUBMIT")
    OBVIOUS
  <2>3. /\ Links' /\ Sends(m) /\ m.action = "SUBMIT"
        /\ page'.dirty => page.dirty
        /\ page'.at = (IF ~online THEN "LEFT" ELSE at)
        /\ Shows(m) \/ UNCHANGED <<queue, saved, promised>>
    BY <2>1, <2>2, PersistEffect
  <2>4. page'.at /= "OPEN" /\ ~page'.dirty
    BY <2>1, <2>3
  <2> QED
    BY <2>1, <2>3, <2>4, SendsKeep
<1> QED
  BY <1>1, <1>2

LEMMA HideFlushKeeps ==
  ASSUME Links, NothingIsLost, HideFlush
  PROVE  NothingIsLost'
<1>1. PICK m : m = Payload("SAVE")
  OBVIOUS
<1>2. /\ Links' /\ Sends(m) /\ m.action = "SAVE"
      /\ page.dirty /\ page'.at = page.at /\ ~page'.dirty
      /\ UNCHANGED <<queue, saved, promised>>
  BY <1>1, HideFlushEffect
<1>3. page.at = "OPEN"
  BY <1>2 DEF NothingIsLost, PageIsQuiet
<1> QED
  BY <1>2, <1>3, SendsKeep

\* The server stores newer answers: what it stored before is passed, and a
\* submission that it stores is the last that the page sent.
LEMMA StoreKeeps ==
  ASSUME Links, NothingIsLost, NEW r \in wire, Store(r)
  PROVE  NothingIsLost'
<1>1. /\ Links' /\ Relays /\ UNCHANGED <<device, faults>>
      /\ Open /\ Open' /\ Row'.late = Row.late
      /\ Row.seq < r.msg.seq /\ Row'.seq = r.msg.seq /\ Row'.sheet = r.msg.sheet
      /\ IF r.msg.action = "SUBMIT" \/ Row.late THEN closing' /= {} ELSE closing' = closing
      /\ r.at = "SENT"
  BY StoreEffect
<1>2. PICK new : /\ Swaps(r, new) /\ new.waits = r.waits /\ new.last \in {0, r.last}
                 /\ IF r.msg.action = "SUBMIT" \/ Row.late
                    THEN new.at = "STORED" /\ new \in wire' ELSE new.at = "OK"
  BY StoreEffect
<1>3. QueueStays /\ UNCHANGED <<page, queue, flush, typed, saved, promised>>
  BY <1>1, DeviceStays
<1>4. InProgress
  BY <1>1 DEF NothingIsLost
<1>5. r.msg \in Live
  BY DEF Live
<1>6. /\ Row.seq \in Nat /\ Row.sheet \in Nat /\ page.seq \in Nat /\ page.sheet \in Nat
      /\ r.msg.seq \in Nat /\ r.msg.sheet \in Nat /\ r.last \in Nat
      /\ r.msg.action \in {"SAVE", "SUBMIT"}
  BY Numbers, LinksParts, RequestFields, MessageFields DEF WireOK
<1>7. \A m \in Live : m.seq \in Nat /\ m.sheet \in Nat
  BY LiveMessages
<1>8. Live' \subseteq Live
  BY <1>1 DEF Relays
<1>9. Row.seq <= Row'.seq /\ Row.sheet <= Row'.sheet /\ r.msg.seq <= page.seq /\ r.msg.sheet <= page.sheet
  BY <1>1, <1>4, <1>5, <1>6 DEF InProgress, NewerIsLater
<1>10. closing /= {} => closing' /= {}
  BY <1>1
<1>11. PageIsQuiet'
  <2>1. StillWaits
    BY <1>2, SwapWaits DEF NothingIsLost
  <2> QED
    BY <1>3, <2>1 DEF NothingIsLost, PageIsQuiet, StillWaits
<1>12. NewerIsLater'
  <2>1. \A a, b \in Live' : (a.seq = b.seq => a = b) /\ (a.seq < b.seq => a.sheet <= b.sheet)
    BY <1>4, <1>8 DEF InProgress, NewerIsLater
  <2>2. ASSUME NEW m \in Live'
        PROVE  /\ m.seq <= page'.seq /\ m.sheet <= page'.sheet
               /\ m.seq <= Row'.seq => m.sheet <= Row'.sheet
               /\ m.seq >= Row'.seq => m.sheet >= Row'.sheet
    <3>1. m \in Live /\ m.seq \in Nat /\ m.sheet \in Nat
      BY <1>7, <1>8, <2>2
    <3>2. m.seq <= page.seq /\ m.sheet <= page.sheet
      BY <1>4, <3>1 DEF InProgress, NewerIsLater
    <3>3. /\ m.seq = r.msg.seq => m = r.msg
          /\ m.seq < r.msg.seq => m.sheet <= r.msg.sheet
          /\ r.msg.seq < m.seq => r.msg.sheet <= m.sheet
      BY <1>4, <1>5, <3>1 DEF InProgress, NewerIsLater
    <3> QED
      BY <1>1, <1>3, <1>6, <3>1, <3>2, <3>3
  <2>3. Row'.seq <= page'.seq /\ Row'.sheet <= page'.sheet /\ page'.sheet <= typed'
    BY <1>1, <1>3, <1>4, <1>9 DEF InProgress, NewerIsLater
  <2> QED
    BY <2>1, <2>2, <2>3 DEF NewerIsLater
<1>13. SubmissionsAreLast'
  <2> SUFFICES ASSUME NEW m \in Live', m.action = "SUBMIT"
               PROVE  IF m.seq > Row'.seq
                      THEN page'.at /= "OPEN" /\ m.seq = page'.seq /\ m.sheet = page'.sheet
                      ELSE closing' /= {} \/ faults'.deaths > 0
    BY DEF SubmissionsAreLast
  <2>1. m \in Live /\ m.seq \in Nat
    BY <1>7, <1>8
  <2>2. CASE m.seq > Row.seq
    <3>1. page.at /= "OPEN" /\ m.seq = page.seq /\ m.sheet = page.sheet
      BY <1>4, <2>1, <2>2 DEF InProgress, SubmissionsAreLast
    <3>2. m.seq <= r.msg.seq => m = r.msg
      BY <1>4, <1>5, <1>6, <1>9, <2>1, <3>1 DEF InProgress, NewerIsLater
    <3> QED
      BY <1>1, <1>3, <1>6, <2>1, <3>1, <3>2
  <2>3. CASE ~(m.seq > Row.seq)
    <3>1. closing /= {} \/ faults.deaths > 0
      BY <1>4, <2>1, <2>3 DEF InProgress, SubmissionsAreLast
    <3>2. ~(m.seq > Row'.seq)
      BY <1>1, <1>6, <2>1, <2>3
    <3> QED
      BY <1>1, <1>10, <3>1, <3>2
  <2> QED
    BY <2>2, <2>3
<1>14. AnswersAreTrue' /\ ClosingIsAwaited'
  <2>1. Truthful(r) /\ new.msg = r.msg
    BY <1>2, <1>4 DEF InProgress, AnswersAreTrue, Swaps
  <2>2. Truthful(new)'
    BY <1>1, <1>2, <1>3, <1>6, <2>1 DEF Truthful
  <2>3. Tells
    BY <1>1, <1>2, <1>10, <2>2 DEF Tells, Swaps
  <2>4. closing' /= {} => closing /= {} \/ \E q \in wire' : q.at = "STORED"
    BY <1>1, <1>2
  <2>5. page.seq <= page'.seq
    BY <1>3, <1>6
  <2> QED
    BY <1>1, <1>4, <1>9, <2>3, <2>4, <2>5, TellsStep DEF InProgress
<1>15. OwnSubmissionIsNewest'
  <2> SUFFICES ASSUME NEW q \in wire', OwnSubmission(q)
               PROVE  q.msg.seq > Row'.seq /\ \A m \in Beside(q)' : m.seq < q.msg.seq
    BY DEF OwnSubmissionIsNewest, OwnSubmission
  <2>1. q.at = "SENT" /\ q.waits = Page /\ q /= new
    BY <1>2 DEF OwnSubmission
  <2>2. q \in wire \ {r}
    BY <1>2, <2>1 DEF Swaps
  <2>3. Beside(q)' \subseteq Beside(q)
    BY <1>1, <2>1 DEF Relays
  <2>4. \A m \in Beside(q) : m.seq < q.msg.seq
    BY <1>4, <2>2 DEF InProgress, OwnSubmissionIsNewest
  <2>5. r.msg \in Beside(q)
    BY <2>2 DEF Beside
  <2>6. q.msg.seq \in Nat
    BY <1>7, <2>2 DEF Live
  <2> QED
    BY <1>1, <1>6, <2>3, <2>4, <2>5, <2>6
<1>16. RemovedIsStored'
  <2>1. GoesOn
    BY <1>3, FlushGoesOn
  <2> QED
    BY <1>1, <1>3, <1>4, <1>9, <2>1, GoesOnStep DEF InProgress
<1>17. ToldIsKept'
  BY <1>1, <1>3, <1>4, <1>9, <1>10, ToldStays DEF InProgress
<1>18. ASSUME ~Row'.late, closing' /= {} PROVE AnswersAreFinal'
  <2>1. \A m \in Live' : m.sheet <= page'.sheet
    BY <1>3, <1>4, <1>8 DEF InProgress, NewerIsLater
  <2>2. page.at /= "OPEN" /\ r.msg.sheet = page.sheet
    <3>1. CASE closing /= {}
      <4>1. page.at /= "OPEN" /\ Row.sheet = page.sheet
        BY <1>1, <1>18, <3>1 DEF NothingIsLost, AnswersAreFinal
      <4> QED
        BY <1>1, <1>6, <1>9, <4>1
    <3>2. CASE closing = {}
      <4>1. r.msg.action = "SUBMIT"
        BY <1>1, <1>18, <3>2
      <4> QED
        BY <1>1, <1>4, <1>5, <1>6, <4>1 DEF InProgress, SubmissionsAreLast
    <3> QED
      BY <3>1, <3>2
  <2> QED
    BY <1>1, <1>3, <2>1, <2>2 DEF AnswersAreFinal
<1>19. ToldIsKnown'
  BY <1>1, <1>3 DEF NothingIsLost, ToldIsKnown
<1> QED
  BY <1>1, <1>11, <1>12, <1>13, <1>14, <1>15, <1>16, <1>17, <1>18, <1>19 DEF NothingIsLost, InProgress

\* The page resumes with nothing queued or sent: what a flush still replays
\* is at the server.
LEMMA LoadKeeps ==
  ASSUME CleanLoads, Links, NothingIsLost, Load
  PROVE  NothingIsLost'
<1>1. /\ Links' /\ SameRow /\ UNCHANGED <<typed, saved, promised, queue, flush>>
      /\ faults'.deaths = faults.deaths
      /\ Open /\ ~Row.late /\ closing' = closing
      /\ DOMAIN queue = {} /\ wire = {} /\ wire' = {}
      /\ page'.at = "OPEN" /\ ~page'.dirty
      /\ page'.seq = Row.seq /\ page'.sheet = Row.sheet
  BY LoadEffect
<1>2. InProgress
  BY <1>1 DEF NothingIsLost
<1>3. Row'.seq = Row.seq /\ Row'.sheet = Row.sheet /\ Row'.late = Row.late /\ Open' = Open
  BY <1>1 DEF SameRow, Open
<1>4. /\ Row.seq \in Nat /\ Row.sheet \in Nat /\ page.sheet \in Nat /\ typed \in Nat
      /\ saved \in Nat /\ promised.sheet \in Nat \cup {NoSheet}
  BY Numbers
<1>5. closing = {}
  BY <1>1, <1>2 DEF InProgress, ClosingIsAwaited
<1>6. Waiting' = Waiting /\ QueueStays
  BY <1>1, LinksParts, StoredStays
<1>7. ASSUME NEW m \in Live' PROVE m \in Live /\ m.seq <= Row.seq /\ m.sheet <= Row.sheet
  <2>1. PICK f \in DOMAIN flush : \E id \in DOMAIN flush[f] : m = flush[f][id].msg
    BY <1>1, <1>6, <1>7 DEF Live, Waiting
  <2>2. m \in Live
    BY <2>1 DEF Live, Waiting
  <2>3. m.seq <= Row.seq
    BY <1>1, <1>2, <2>1 DEF InProgress, RemovedIsStored
  <2> QED
    BY <1>1, <2>2, <2>3, SeenIsStored
<1>8. PageIsQuiet'
  BY <1>1 DEF PageIsQuiet
<1>9. NewerIsLater'
  <2>1. \A a, b \in Live' : (a.seq = b.seq => a = b) /\ (a.seq < b.seq => a.sheet <= b.sheet)
    BY <1>2, <1>7 DEF InProgress, NewerIsLater
  <2>2. \A m \in Live' : /\ m.seq <= page'.seq /\ m.sheet <= page'.sheet
                         /\ m.seq <= Row'.seq => m.sheet <= Row'.sheet
                         /\ m.seq >= Row'.seq => m.sheet >= Row'.sheet
    BY <1>1, <1>2, <1>3, <1>7 DEF InProgress, NewerIsLater
  <2>3. Row'.seq <= page'.seq /\ Row'.sheet <= page'.sheet /\ page'.sheet <= typed'
    BY <1>1, <1>2, <1>3, <1>4 DEF InProgress, NewerIsLater
  <2> QED
    BY <2>1, <2>2, <2>3 DEF NewerIsLater
<1>10. SubmissionsAreLast'
  <2>1. ASSUME NEW m \in Live', m.action = "SUBMIT"
        PROVE  ~(m.seq > Row'.seq) /\ (closing' /= {} \/ faults'.deaths > 0)
    <3>1. m \in Live /\ m.seq \in Nat /\ ~(m.seq > Row.seq)
      BY <1>4, <1>7, <2>1, LiveMessages
    <3> QED
      BY <1>1, <1>2, <1>3, <2>1, <3>1 DEF InProgress, SubmissionsAreLast
  <2> QED
    BY <2>1 DEF SubmissionsAreLast
<1>11. AnswersAreTrue' /\ OwnSubmissionIsNewest' /\ ClosingIsAwaited'
  BY <1>1, <1>5 DEF AnswersAreTrue, OwnSubmissionIsNewest, ClosingIsAwaited
<1>12. RemovedIsStored' /\ ToldIsKept'
  <2>1. GoesOn
    BY <1>1, FlushGoesOn
  <2>2. Row.seq <= Row'.seq /\ Row.sheet <= Row'.sheet
    BY <1>3, <1>4
  <2> QED
    BY <1>1, <1>2, <1>6, <2>1, <2>2, GoesOnStep, ToldStays DEF InProgress
<1>13. ToldIsKnown'
  BY <1>1, <1>2 DEF InProgress, ToldIsKept, OnDevice, ToldIsKnown
<1> QED
  BY <1>1, <1>3, <1>5, <1>8, <1>9, <1>10, <1>11, <1>12, <1>13 DEF NothingIsLost, InProgress

-----------------------------------------------------------------------------
(* What the student is told. *)

LEMMA NothingIsLostAtFirst ==
  ASSUME RunnerInit PROVE NothingIsLost
<1>1. /\ page = [at |-> "OPEN", seq |-> 0, sheet |-> Blank, dirty |-> FALSE]
      /\ typed = Blank /\ saved = Blank /\ promised = [sheet |-> NoSheet, queued |-> FALSE]
      /\ DOMAIN queue = {} /\ DOMAIN flush = {} /\ wire = {} /\ closing = {}
      /\ attempt = [s \in Students |-> IF s = Student THEN <<NewAttempt>> ELSE <<>>]
  BY DEF RunnerInit, NoRows
<1>2. Row = NewAttempt
  BY <1>1, RunnerAssumption DEF Row
<1>3. Open /\ Row.seq = 0 /\ Row.sheet = Blank
  BY <1>2 DEF NewAttempt, Open
<1>4. Live = {}
  BY <1>1 DEF Live, Waiting
<1>5. NewerIsLater /\ SubmissionsAreLast
  BY <1>1, <1>3, <1>4, RunnerAssumption DEF NewerIsLater, SubmissionsAreLast
<1>6. AnswersAreTrue /\ OwnSubmissionIsNewest /\ RemovedIsStored /\ ClosingIsAwaited /\ PageIsQuiet
  BY <1>1 DEF AnswersAreTrue, OwnSubmissionIsNewest, RemovedIsStored, ClosingIsAwaited, PageIsQuiet
<1>7. ToldIsKept /\ ToldIsKnown
  BY <1>1, <1>3, RunnerAssumption DEF ToldIsKept, ToldIsKnown, NoSheet
<1> QED
  BY <1>1, <1>3, <1>5, <1>6, <1>7 DEF NothingIsLost, InProgress

\* A write that the queue gave up stays given up.
LEMMA NothingIsLostStep ==
  ASSUME QuietSubmits, CleanLoads, RunnerIInv, [RunnerNext]_allVars, faults'.drops = 0
  PROVE  NothingIsLost'
<1>1. Links /\ (faults.drops = 0 => NothingIsLost)
  BY DEF RunnerIInv
<1>2. CASE Type
  BY <1>1, <1>2, TypeEffect, TypeKeeps
<1>3. CASE AutoSave \/ Submit \/ TimeUp
  <2>1. \E action \in {"SAVE", "SUBMIT"}, at \in {"OPEN", "SUBMITTING", "TIME_UP", "LEFT"} : Persist(action, at)
    BY <1>3 DEF AutoSave, Submit, TimeUp
  <2>2. faults' = faults
    BY <2>1 DEF Persist
  <2> QED
    BY <1>1, <1>3, <2>2, PersistKeeps
<1>4. CASE HideFlush
  <2>1. faults' = faults
    BY <1>4 DEF HideFlush
  <2> QED
    BY <1>1, <1>4, <2>1, HideFlushKeeps
<1>5. CASE PageAnswer
  <2>1. PICK r \in wire : SaveAnswered(r) \/ SubmitAnswered(r)
    BY <1>5 DEF PageAnswer
  <2>2. faults' = faults
    BY <2>1 DEF SaveAnswered, SubmitAnswered
  <2> QED
    BY <1>1, <2>1, <2>2, SaveAnsweredKeeps, SubmitAnsweredKeeps
<1>6. CASE Load
  BY <1>1, <1>6, LoadEffect, LoadKeeps
<1>7. CASE GoOffline \/ GoOnline
  BY <1>1, <1>7, OnlineEffect, OnlineKeeps
<1>8. CASE \E f \in Flushes : StartFlush(f)
  BY <1>1, <1>8, StartFlushEffect, StartFlushKeeps
<1>9. CASE FlushStep
  <2>1. PICK f \in Flushes : \/ FlushSend(f) \/ FlushOffline(f)
                             \/ \E r \in wire : FlushAnswered(f, r)
    BY <1>9 DEF FlushStep
  <2>2. CASE FlushSend(f)
    BY <1>1, <2>2, FlushSendEffect, FlushSendKeeps
  <2>3. CASE FlushOffline(f)
    BY <1>1, <2>3, FlushOfflineEffect, FlushOfflineKeeps
  <2>4. CASE \E r \in wire : FlushAnswered(f, r)
    BY <1>1, <2>4, FlushAnsweredEffect, FlushAnsweredKeeps
  <2> QED
    BY <2>1, <2>2, <2>3, <2>4
<1>10. CASE \E r \in wire : PageFails(r) \/ Vanish(r) \/ \E f \in Flushes : FlushFails(f, r)
  <2>1. PICK r \in wire : PageFails(r) \/ Vanish(r) \/ \E f \in Flushes : FlushFails(f, r)
    BY <1>10
  <2>2. CASE PageFails(r)
    BY <1>1, <2>2, PageFailsEffect, PageFailsKeeps
  <2>3. CASE Vanish(r)
    BY <1>1, <2>3, VanishEffect, VanishKeeps
  <2>4. CASE \E f \in Flushes : FlushFails(f, r)
    BY <1>1, <2>4, FlushFailsEffect, FlushFailsKeeps
  <2> QED
    BY <2>1, <2>2, <2>3, <2>4
<1>11. CASE ServerStep
  <2>1. CASE Finish
    BY <1>1, <2>1, RowOnlyEffect, RowOnlyKeeps
  <2>2. ASSUME NEW r \in wire, Store(r) PROVE NothingIsLost'
    BY <1>1, <2>2, StoreEffect, StoreKeeps
  <2>3. ASSUME NEW r \in wire, Stale(r) \/ TooLate(r) \/ Finished(r) PROVE NothingIsLost'
    BY <1>1, <2>3, AnswerEffect, AnswerKeeps
  <2> QED
    BY <1>11, <2>1, <2>2, <2>3 DEF ServerStep
<1>12. CASE Die
  BY <1>1, <1>12, DieEffect, DieKeeps
<1>13. CASE PassDeadline
  BY <1>1, <1>13, RowOnlyEffect, RowOnlyKeeps
<1>14. CASE UNCHANGED allVars
  BY <1>1, <1>14, StutterKeeps DEF allVars
<1> QED
  BY <1>2, <1>3, <1>4, <1>5, <1>6, <1>7, <1>8, <1>9, <1>10, <1>11, <1>12, <1>13, <1>14
     DEF RunnerNext

\* As long as the queue gives no write up, a later number carries newer
\* answers, a submission is the last of them, and what the student was told
\* is at the server or still on the device.
THEOREM RunnerInvariant ==
  ASSUME QuietSubmits, CleanLoads
  PROVE  RunnerSpec => []RunnerIInv
<1>1. RunnerInit => RunnerIInv
  BY LinksAtFirst, NothingIsLostAtFirst DEF RunnerIInv
<1>2. RunnerIInv /\ [RunnerNext]_allVars => RunnerIInv'
  BY LinksStep, NothingIsLostStep DEF RunnerIInv
<1> QED
  BY <1>1, <1>2, PTL DEF RunnerSpec

\* Whatever is lost and however many flushes overlap: an exam that the student
\* was told is, or will be, submitted is over, about to be, or still queued,
\* unless the server died in it or the queue gave a write up.
THEOREM PromisesHold ==
  ASSUME QuietSubmits, CleanLoads
  PROVE  RunnerSpec => []PromisesAreKept
<1>1. RunnerIInv => PromisesAreKept
  BY Numbers DEF RunnerIInv, NothingIsLost, InProgress, ToldIsKept, PromisesAreKept, Kept
<1> QED
  BY <1>1, RunnerInvariant, PTL

\* However old saves are replayed around a submission, an attempt submitted in
\* time has the answers that were submitted.
THEOREM SubmissionsStay ==
  ASSUME QuietSubmits, CleanLoads
  PROVE  RunnerSpec => []SubmittedIsLast
<1>1. RunnerIInv => SubmittedIsLast
  BY DEF RunnerIInv, NothingIsLost, AnswersAreFinal, ToldIsKnown, SubmittedIsLast
<1> QED
  BY <1>1, RunnerInvariant, PTL

\* What was shown as saved is at the server or still queued, until the time is
\* over or the queue gave a write up.
THEOREM SavesStay ==
  ASSUME QuietSubmits, CleanLoads
  PROVE  RunnerSpec => []SavedIsKept
<1>1. RunnerIInv => SavedIsKept
  BY Numbers DEF RunnerIInv, NothingIsLost, InProgress, ToldIsKept, AnswersAreFinal, ToldIsKnown, SavedIsKept
<1> QED
  BY <1>1, RunnerInvariant, PTL

-----------------------------------------------------------------------------
(* The page's server is the one that ExamSitting describes. *)

LEMMA ServerIsSitting ==
  ASSUME Sequences = Nat \ {0}, Links, [RunnerNext]_allVars PROVE [Next]_vars
<1>1. /\ Student \in Students /\ 1 \in DOMAIN attempt[Student] /\ Row.seq \in Nat
      /\ \A r \in wire : r.msg \in Messages
  BY LinksParts, RowIsThere, RequestFields DEF WireOK
<1>2. StudentStep(Student) => Next
  BY <1>1 DEF Next
<1>3. CASE Type \/ AutoSave \/ HideFlush \/ Submit \/ TimeUp
  BY <1>3 DEF Type, AutoSave, HideFlush, Submit, TimeUp, Persist
<1>4. CASE PageAnswer \/ GoOffline \/ GoOnline \/ \E f \in Flushes : StartFlush(f)
  BY <1>4 DEF PageAnswer, SaveAnswered, SubmitAnswered, GoOffline, GoOnline, StartFlush
<1>5. CASE Load
  BY <1>2, <1>5 DEF Load, StudentStep
<1>6. CASE FlushStep
  BY <1>6 DEF FlushStep, FlushSend, FlushOffline, FlushAnswered
<1>7. CASE \E r \in wire : PageFails(r) \/ Vanish(r) \/ \E f \in Flushes : FlushFails(f, r)
  BY <1>7 DEF PageFails, Vanish, FlushFails
<1>8. ASSUME NEW r \in wire, Store(r) PROVE Next
  <2>1. Save(Student, 1, r.msg.seq, r.msg.sheet, r.msg.action)
    BY <1>8 DEF Store
  <2>2. Row.seq < r.msg.seq
    BY <1>8, StoreEffect
  <2>3. r.msg.seq \in Sequences /\ r.msg.sheet \in Sheets /\ r.msg.action \in {"SAVE", "SUBMIT"}
    BY <1>1, <2>2, MessageFields
  <2> QED
    BY <1>1, <1>2, <2>1, <2>3 DEF StudentStep
<1>9. CASE \E r \in wire : Stale(r) \/ TooLate(r) \/ Finished(r)
  BY <1>9 DEF Stale, TooLate, Finished
<1>10. CASE Finish \/ Die \/ PassDeadline
  BY <1>1, <1>2, <1>10 DEF Finish, Die, PassDeadline, StudentStep
<1>11. CASE UNCHANGED allVars
  BY <1>11 DEF allVars
<1> QED
  BY <1>3, <1>4, <1>5, <1>6, <1>7, <1>8, <1>9, <1>10, <1>11 DEF RunnerNext, ServerStep

LEMMA SittingHasBegun ==
  ASSUME RunnerInit PROVE IInv
<1>1. /\ exam = [status |-> "PUBLISHED", released |-> FALSE]
      /\ attempt = [s \in Students |-> IF s = Student THEN <<NewAttempt>> ELSE <<>>]
      /\ armed = {} /\ granted = [s \in Students |-> 0]
      /\ DOMAIN starting = {} /\ DOMAIN request = {} /\ DOMAIN published = {}
  BY DEF RunnerInit, NoRows
<1>2. TypeOK
  BY LinksAtFirst, LinksParts
<1>3. ASSUME NEW s \in Students
      PROVE  /\ Latest(s) = (IF s = Student THEN 1 ELSE 0)
             /\ DOMAIN attempt[s] = 1 .. Latest(s)
             /\ \A n \in DOMAIN attempt[s] : attempt[s][n] = NewAttempt
  <2>1. CASE s = Student
    <3>1. attempt[s] = <<NewAttempt>>
      BY <1>1, <2>1
    <3>2. Len(attempt[s]) = 1 /\ DOMAIN attempt[s] = 1 .. 1 /\ attempt[s][1] = NewAttempt
      BY <3>1
    <3> QED
      BY <2>1, <3>2 DEF Latest
  <2>2. CASE s /= Student
    <3>1. attempt[s] = <<>>
      BY <1>1, <2>2
    <3>2. Len(attempt[s]) = 0 /\ DOMAIN attempt[s] = {} /\ DOMAIN attempt[s] = 1 .. 0
      BY <3>1
    <3> QED
      BY <2>2, <3>2 DEF Latest
  <2> QED
    BY <2>1, <2>2
<1>4. OneSitting
  BY <1>3 DEF OneSitting
<1>5. RetakesAreSpentOnce
  BY <1>1, <1>3 DEF RetakesAreSpentOnce, Further
<1>6. \A s \in Students : \A n \in DOMAIN attempt[s] :
        attempt[s][n].status = "IN_PROGRESS" /\ attempt[s][n].essayScore = 0
          /\ attempt[s][n].marks = [e \in Essays |-> NoMark]
  BY <1>3 DEF NewAttempt
<1>7. MarksFollowSubmission /\ ScoresMatchAnswers
  BY <1>1, <1>6 DEF MarksFollowSubmission, ScoresMatchAnswers
<1>8. /\ StartsReadEnded /\ MarkingExcludesRelease /\ NothingPublishedUnlessReleased
      /\ PublishedScoresStand /\ ClosedForGood /\ ReleasedIsComplete
  BY <1>1 DEF StartsReadEnded, MarkingExcludesRelease, NothingPublishedUnlessReleased,
              PublishedScoresStand, ClosedForGood, ReleasedIsComplete
<1> QED
  BY <1>2, <1>4, <1>5, <1>7, <1>8 DEF IInv

\* Every step of the page, its device and its requests is one of the attempt
\* routes or leaves their tables alone, so that what is proved of a sitting
\* holds of one that is taken through the page.
THEOREM PageTakesASitting ==
  ASSUME Sequences = Nat \ {0}
  PROVE  RunnerSpec => [][Next]_vars /\ []IInv
<1>1. RunnerInit => IInv
  BY SittingHasBegun
<1>2. Links /\ [RunnerNext]_allVars => [Next]_vars
  BY ServerIsSitting
<1>3. IInv /\ [Next]_vars => IInv'
  BY IInvStep
<1> QED
  BY <1>1, <1>2, <1>3, LinksHold, PTL DEF RunnerSpec

=============================================================================

----------------------------- MODULE StudentRoll -----------------------------
(***************************************************************************)
(* The school's roll: tables StudentProfile, StudentEnrolment and          *)
(* SchoolClass.  New students, moves and restorations take a seat in a     *)
(* class; the end-of-session promotion and "Enrol all active students"     *)
(* write the yearly enrolments.                                            *)
(*                                                                         *)
(* Everything a handler reads before its transaction may be out of date    *)
(* when it writes.  A transaction that takes a class row FOR UPDATE is two *)
(* steps, the count of the seats and the write; the lock is held from one  *)
(* to the other.  Foreign keys make every change of currentClassId and     *)
(* every new enrolment wait for that lock.                                 *)
(***************************************************************************)
EXTENDS Integers, FiniteSets, Rows

CONSTANTS
    Students,      \* profiles that are or may be created
    Classes,
    Capacity,      \* how many active students a class takes
    Offered,       \* bound: the decisions that a promotion may carry
    Sessions,      \* the academic sessions, in the order they start
    Applications,  \* admission applications
    Requests,      \* requests that may be in progress at once
    None,          \* no class, no session, no application
    Roll           \* the profiles there are at first

ASSUME RollClassesAssumption ==
    /\ Capacity \in [Classes -> Nat]
    /\ None \notin Classes \cup Applications
ASSUME RollSessionsAssumption == Sessions \subseteq Nat /\ None \notin Sessions
ASSUME RollStudentsAssumption == IsFiniteSet(Students) /\ Roll \subseteq Students

VARIABLES
    profile,    \* the StudentProfile rows: [class, active, app]
    enrol,      \* the StudentEnrolment rows, by <<student, session>>: [class, outcome]
    desk,       \* the requests in progress, with what they have read
    calls,      \* bound: how many more requests there may be
    seated      \* the students whose present seat was counted when they took it

rollVars == <<profile, enrol, desk, calls, seated>>

\* GRADUATED stands for WITHDRAWN and TRANSFERRED too.
Outcomes == {"IN_PROGRESS", "PROMOTED", "REPEATED", "GRADUATED"}
Profiles == [class : Classes, active : BOOLEAN, app : Applications \cup {None}]
Enrolments == [class : Classes, outcome : Outcomes]

\* A student goes on to another year, which needs a class, or leaves.
GoesOn(d) == d.outcome \in {"PROMOTED", "REPEATED"}

\* Any outcome is accepted, IN_PROGRESS too; the class of a leaver is not looked at.
Decisions == {d \in [outcome : Outcomes, class : Classes \cup {None}] :
                 GoesOn(d) <=> d.class /= None}

ASSUME OfferedAssumption == Offered \subseteq Decisions

\* was: the class of the student's profile when the request read it.
SeatRequests == [op : {"CREATE", "MOVE", "RESTORE"}, at : {"LOCK", "WRITE"},
                 student : Students \cup {None}, class : Classes, was : Classes \cup {None},
                 year : Sessions \cup {None}, app : Applications \cup {None}]

-----------------------------------------------------------------------------
(* Requests. *)

At(r, op, step) == r \in DOMAIN desk /\ desk[r].op = op /\ desk[r].at = step
Ended(r) == desk' = Without(desk, r)

Arrive(r, request) ==
    /\ r \notin DOMAIN desk /\ calls > 0
    /\ desk' = With(desk, r, request)
    /\ calls' = calls - 1

\* The transaction is rolled back: the server died or the database gave up.
Fail(r) ==
    /\ r \in DOMAIN desk /\ Ended(r)
    /\ UNCHANGED <<profile, enrol, calls, seated>>

-----------------------------------------------------------------------------
(* Seats. *)

Active(s) == s \in DOMAIN profile /\ profile[s].active
OnRoll(c) == {s \in DOMAIN profile : profile[s].active /\ profile[s].class = c}

\* Mutant: the class row is read without FOR UPDATE.
LockFreeAlways(c) == c \in Classes

LockFree(c) ==
    \A q \in DOMAIN desk : ~(desk[q].at = "WRITE" /\ desk[q].class = c)

SeatRequest(op, s, c, was, y, a) ==
    [op |-> op, at |-> "LOCK", student |-> s, class |-> c, was |-> was, year |-> y, app |-> a]

\* An administrator, a teacher or a row of an imported sheet brings a student.
\* Only the import enrols it, in the session that was current when it read.
StartCreate(r) ==
    /\ \E c \in Classes, y \in Sessions \cup {None} :
          Arrive(r, SeatRequest("CREATE", None, c, None, y, None))
    /\ UNCHANGED <<profile, enrol, seated>>

StartMove(r) ==
    /\ \E s \in DOMAIN profile, c \in Classes :
          Arrive(r, SeatRequest("MOVE", s, c, profile[s].class, None, None))
    /\ UNCHANGED <<profile, enrol, seated>>

StartRestore(r) ==
    /\ \E s \in DOMAIN profile :
          Arrive(r, SeatRequest("RESTORE", s, profile[s].class, profile[s].class, None, None))
    /\ UNCHANGED <<profile, enrol, seated>>

\* MOVE_STUDENT into the class that it read the student in is not counted.
Exempt(q) == q.op = "MOVE" /\ q.was = q.class

SeatStep(r, step) == \E op \in {"CREATE", "MOVE", "RESTORE"} : At(r, op, step)

CountSeats(r) ==
    /\ SeatStep(r, "LOCK") /\ LockFree(desk[r].class)
    /\ IF Exempt(desk[r]) \/ Cardinality(OnRoll(desk[r].class)) < Capacity[desk[r].class]
       THEN desk' = [desk EXCEPT ![r].at = "WRITE"]
       ELSE Ended(r)
    /\ UNCHANGED <<profile, enrol, calls, seated>>

HasStudent(a) == a /= None /\ \E s \in DOMAIN profile : profile[s].app = a

\* Mutant: nothing but the check before the transaction keeps a second student out.
TakenNever(a) == a = None /\ HasStudent(a)

\* admissionApplicationId is unique: a second student for it rolls back.
Taken(a) == HasStudent(a)

Create(r) ==
    /\ At(r, "CREATE", "WRITE") /\ Ended(r)
    /\ LET q == desk[r]
       IN IF Taken(q.app)
          THEN UNCHANGED <<profile, enrol, seated>>
          ELSE \E s \in Students \ DOMAIN profile :
                  /\ profile' = With(profile, s, [class |-> q.class, active |-> TRUE, app |-> q.app])
                  /\ enrol' = IF q.year = None THEN enrol
                              ELSE With(enrol, <<s, q.year>>, [class |-> q.class, outcome |-> "IN_PROGRESS"])
                  /\ seated' = seated \cup {s}
    /\ UNCHANGED calls

Move(r) ==
    /\ At(r, "MOVE", "WRITE") /\ Ended(r)
    /\ LET q == desk[r]
       IN /\ profile' = [profile EXCEPT ![q.student].class = q.class]
          /\ seated' = IF ~Exempt(q) THEN seated \cup {q.student}
                       ELSE IF profile[q.student].class = q.class THEN seated
                       ELSE seated \ {q.student}
    /\ UNCHANGED <<enrol, calls>>

Restore(r) ==
    /\ At(r, "RESTORE", "WRITE") /\ Ended(r)
    /\ LET q == desk[r]
       IN /\ profile' = [profile EXCEPT ![q.student].active = TRUE]
          /\ seated' = IF profile[q.student].active THEN seated
                       ELSE IF profile[q.student].class = q.class THEN seated \cup {q.student}
                       ELSE seated \ {q.student}
    /\ UNCHANGED <<enrol, calls>>

\* ARCHIVE_STUDENT.
Archive(s) ==
    /\ Active(s) /\ calls > 0
    /\ profile' = [profile EXCEPT ![s].active = FALSE]
    /\ calls' = calls - 1
    /\ UNCHANGED <<enrol, desk, seated>>

\* PATCH /api/admin/students/[id]: a class or isActive, neither of them counted.
Edit(s, c, active) ==
    /\ s \in DOMAIN profile /\ calls > 0
    /\ <<c, active>> /= <<profile[s].class, profile[s].active>>
    /\ c /= profile[s].class => LockFree(c)
    /\ profile' = [profile EXCEPT ![s].class = c, ![s].active = active]
    /\ calls' = calls - 1
    /\ seated' = IF active THEN seated \ {s} ELSE seated
    /\ UNCHANGED <<enrol, desk>>

-----------------------------------------------------------------------------
(* Enrolments. *)

\* ensureEnrolments reads the active students, then inserts the missing rows.
StartEnrolling(r) ==
    /\ \E y \in Sessions :
          Arrive(r, [op |-> "ENROL", at |-> "INSERT", year |-> y,
                     read |-> [s \in {t \in DOMAIN profile : Active(t)} |-> profile[s].class]])
    /\ UNCHANGED <<profile, enrol, seated>>

\* Mutant: the insert is an upsert, with the class that was read.
EnrolledOver(read, y) ==
    LET mine == {<<s, y>> : s \in DOMAIN read}
    IN [k \in DOMAIN enrol \cup mine |->
           IF k \in mine THEN [class |-> read[k[1]], outcome |-> "IN_PROGRESS"] ELSE enrol[k]]

\* createMany with skipDuplicates.
Enrolled(read, y) ==
    [k \in DOMAIN enrol \cup {<<s, y>> : s \in DOMAIN read} |->
        IF k \in DOMAIN enrol THEN enrol[k]
        ELSE [class |-> read[k[1]], outcome |-> "IN_PROGRESS"]]

EnsureEnrolments(r) ==
    /\ At(r, "ENROL", "INSERT") /\ Ended(r)
    /\ \A s \in DOMAIN desk[r].read :
          <<s, desk[r].year>> \in DOMAIN enrol \/ LockFree(desk[r].read[s])
    /\ enrol' = Enrolled(desk[r].read, desk[r].year)
    /\ UNCHANGED <<profile, calls, seated>>

-----------------------------------------------------------------------------
(* Promotion. *)

\* The route holds the decisions to nothing but their shape: any students, any
\* classes, and any two sessions.  What the page sends, the plan of the students
\* whose year was open when it was opened, is among them.
StartPromotion(r) ==
    /\ \E x, y \in Sessions, there \in (SUBSET DOMAIN profile) \ {{}} :
          /\ x /= y
          /\ \E plan \in [there -> Offered] :
                Arrive(r, [op |-> "PROMOTE", at |-> "GUARD", from |-> x, to |-> y, plan |-> plan])
    /\ UNCHANGED <<profile, enrol, seated>>

Kept(q) == {s \in DOMAIN q.plan : GoesOn(q.plan[s])}

\* The guard against a double run.
HaveRows(q) == \E s \in DOMAIN q.plan : <<s, q.to>> \in DOMAIN enrol

GuardPromotion(r) ==
    /\ At(r, "PROMOTE", "GUARD")
    /\ IF HaveRows(desk[r]) THEN Ended(r) ELSE desk' = [desk EXCEPT ![r].at = "COMMIT"]
    /\ UNCHANGED <<profile, enrol, calls, seated>>

\* (studentProfileId, sessionId) is unique: the insert of a second row fails.
Conflict(q) == \E s \in Kept(q) : <<s, q.to>> \in DOMAIN enrol

\* The decision writes the outcome of this row, whatever it is so far.
Decided(q, k) == k[2] = q.from /\ k[1] \in DOMAIN q.plan

Rolled(q) ==
    [k \in DOMAIN enrol \cup {<<s, q.to>> : s \in Kept(q)} |->
        IF k \notin DOMAIN enrol
        THEN [class |-> q.plan[k[1]].class, outcome |-> "IN_PROGRESS"]
        ELSE IF Decided(q, k) THEN [enrol[k] EXCEPT !.outcome = q.plan[k[1]].outcome]
        ELSE enrol[k]]

Moved(q) ==
    [s \in DOMAIN profile |->
        IF s \notin DOMAIN q.plan THEN profile[s]
        ELSE IF s \in Kept(q) THEN [profile[s] EXCEPT !.class = q.plan[s].class]
        ELSE [profile[s] EXCEPT !.active = FALSE]]

\* commitPromotion, which counts no seats.
CommitPromotion(r) ==
    /\ At(r, "PROMOTE", "COMMIT") /\ Ended(r)
    /\ LET q == desk[r]
       IN IF Conflict(q) THEN UNCHANGED <<profile, enrol, seated>>
          ELSE /\ \A s \in Kept(q) : LockFree(q.plan[s].class)
               /\ enrol' = Rolled(q)
               /\ profile' = Moved(q)
               /\ seated' = {s \in seated : s \in Kept(q) => q.plan[s].class = profile[s].class}
    /\ UNCHANGED calls

-----------------------------------------------------------------------------

\* The roll at first: in classes that are not overfull, enrolled for the first session.
RollInit ==
    /\ profile \in [Roll -> {p \in Profiles : p.active /\ p.app = None}]
    /\ \A c \in Classes : Cardinality(OnRoll(c)) <= Capacity[c]
    /\ enrol = [k \in Roll \X {y \in Sessions : \A z \in Sessions : y <= z} |->
                   [class |-> profile[k[1]].class, outcome |-> "IN_PROGRESS"]]
    /\ desk = NoRows /\ seated = Roll

RollRequest(r) ==
    StartCreate(r) \/ StartMove(r) \/ StartRestore(r) \/ StartEnrolling(r) \/ StartPromotion(r)

RollWork(r) ==
    \/ CountSeats(r) \/ Move(r) \/ Restore(r)
    \/ EnsureEnrolments(r) \/ GuardPromotion(r) \/ CommitPromotion(r)

\* All steps but Create, which also writes the application.
RollStep ==
    \/ \E r \in Requests : RollWork(r) \/ Fail(r)
    \/ \E s \in Students : Archive(s)
    \/ \E s \in Students, c \in Classes, active \in BOOLEAN : Edit(s, c, active)

-----------------------------------------------------------------------------
(* Properties. *)

PromotionRequests ==
    [op : {"PROMOTE"}, at : {"GUARD", "COMMIT"}, from : Sessions, to : Sessions,
     plan : UNION {[R -> Decisions] : R \in SUBSET Students}]

EnrolRequests ==
    [op : {"ENROL"}, at : {"INSERT"}, year : Sessions,
     read : UNION {[R -> Classes] : R \in SUBSET Students}]

RollTypeOK ==
    /\ profile \in [DOMAIN profile -> Profiles] /\ DOMAIN profile \subseteq Students
    /\ enrol \in [DOMAIN enrol -> Enrolments] /\ DOMAIN enrol \subseteq (DOMAIN profile) \X Sessions
    /\ DOMAIN desk \subseteq Requests
    /\ \A r \in DOMAIN desk : desk[r] \in SeatRequests \cup PromotionRequests \cup EnrolRequests
    /\ calls \in Nat
    /\ seated \subseteq DOMAIN profile

Counted(c) == OnRoll(c) \cap seated

\* The check of the seats never overfills a class: those who came through it
\* (new students, imports, moves and restorations, in any interleaving) fit in,
\* beside whoever an edit, a promotion or a move back put there without it.
SeatsAreChecked == \A c \in Classes : Cardinality(Counted(c)) <= Capacity[c]

\* A promotion that decides this row's year is being committed: it writes its
\* decision and opens the year that the student goes on to.
Redecided(k) ==
    \E r \in Requests :
        /\ At(r, "PROMOTE", "COMMIT") /\ Decided(desk[r], k)
        /\ enrol'[k].outcome = desk[r].plan[k[1]].outcome
        /\ GoesOn(enrol'[k]) => <<k[1], desk[r].to>> \in DOMAIN enrol' \ DOMAIN enrol

\* An enrolment is history: whoever enrols, imports, moves, restores or promotes,
\* its row stays and its class is never rewritten.  Its outcome is that of the last
\* promotion that decided this student's year (which may decide a year again, and
\* even reopen it), and "a repeated year appears in the history rather than
\* vanishing": a year that leads to another one is closed together with the opening
\* of that one, never beside a row that an enrolment has put there meanwhile.
HistoryStands ==
    [][\A k \in DOMAIN enrol :
          /\ k \in DOMAIN enrol' /\ enrol'[k].class = enrol[k].class
          /\ enrol'[k].outcome /= enrol[k].outcome => Redecided(k)]_rollVars
=============================================================================

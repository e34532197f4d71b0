--------------------------- MODULE AdmissionsProofs ---------------------------
(***************************************************************************)
(* Proofs about admissions and the school's roll that they compose, for    *)
(* any students, classes and seats, sessions, applications, card           *)
(* references and requests.                                                *)
(*                                                                         *)
(* First the lemmas on the roll: what its steps preserve, with applicants  *)
(* enrolled from any set.  Then the applications and their fees: that a    *)
(* fee is behind every place rests on RefsAreOwn, which says that a        *)
(* reference is never of two applications, wherever it is kept.            *)
(***************************************************************************)
EXTENDS Admissions, FiniteSetTheorems, TLAPS

-----------------------------------------------------------------------------
(* The roll. *)

\* An applicant is enrolled (Admissions).
Admit(r, a) ==
    /\ \E c \in Classes : Arrive(r, SeatRequest("CREATE", None, c, None, None, a))
    /\ UNCHANGED <<profile, enrol, seated>>

\* A step on the roll, which enrols an applicant only from the set.
RollNext(Admitted) ==
    \/ RollStep
    \/ \E r \in Requests : RollRequest(r) \/ Create(r) \/ \E a \in Admitted : Admit(r, a)
    \/ UNCHANGED rollVars

\* A request speaks of students who are there.
Sound(q, there) ==
    \/ q \in SeatRequests /\ (q.op /= "CREATE" => q.student \in there)
    \/ q \in PromotionRequests /\ DOMAIN q.plan \subseteq there
    \/ q \in EnrolRequests /\ DOMAIN q.read \subseteq there

ProfilesOK == profile \in [DOMAIN profile -> Profiles] /\ DOMAIN profile \subseteq Students
EnrolmentsOK ==
    enrol \in [DOMAIN enrol -> Enrolments] /\ DOMAIN enrol \subseteq (DOMAIN profile) \X Sessions
DeskOK == DOMAIN desk \subseteq Requests /\ \A r \in DOMAIN desk : Sound(desk[r], DOMAIN profile)
BoundsOK == calls \in Nat /\ seated \subseteq DOMAIN profile

RollOK == ProfilesOK /\ EnrolmentsOK /\ DeskOK /\ BoundsOK

-----------------------------------------------------------------------------
(* Rows. *)

LEMMA ProfileRow ==
  ASSUME NEW p \in Profiles
  PROVE  p.class \in Classes /\ p.active \in BOOLEAN /\ p.app \in Applications \cup {None}
BY DEF Profiles

LEMMA ProfileRowMoves ==
  ASSUME NEW p \in Profiles, NEW c \in Classes, NEW new, new = [p EXCEPT !.class = c]
  PROVE  new \in Profiles /\ new.class = c /\ new.active = p.active /\ new.app = p.app
BY DEF Profiles

LEMMA ProfileRowActive ==
  ASSUME NEW p \in Profiles, NEW b \in BOOLEAN, NEW new, new = [p EXCEPT !.active = b]
  PROVE  new \in Profiles /\ new.active = b /\ new.class = p.class /\ new.app = p.app
BY DEF Profiles

EditForm(p, c, b) == [[p EXCEPT !.class = c] EXCEPT !.active = b]

LEMMA ProfileRowEdited ==
  ASSUME NEW p \in Profiles, NEW c \in Classes, NEW b \in BOOLEAN, NEW new, new = EditForm(p, c, b)
  PROVE  new \in Profiles /\ new.active = b /\ new.class = c /\ new.app = p.app
BY DEF Profiles, EditForm

LEMMA EnrolmentRowDecided ==
  ASSUME NEW e \in Enrolments, NEW o \in Outcomes, NEW new, new = [e EXCEPT !.outcome = o]
  PROVE  new \in Enrolments /\ new.class = e.class /\ new.outcome = o
BY DEF Enrolments

LEMMA SeatRow ==
  ASSUME NEW q \in SeatRequests
  PROVE  /\ q.op \in {"CREATE", "MOVE", "RESTORE"} /\ q.at \in {"LOCK", "WRITE"}
         /\ q.student \in Students \cup {None} /\ q.class \in Classes
         /\ q.was \in Classes \cup {None} /\ q.year \in Sessions \cup {None}
         /\ q.app \in Applications \cup {None}
BY DEF SeatRequests

LEMMA SeatRowWrites ==
  ASSUME NEW q \in SeatRequests, NEW new, new = [q EXCEPT !.at = "WRITE"]
  PROVE  /\ new \in SeatRequests /\ new.at = "WRITE" /\ new.op = q.op /\ new.student = q.student
         /\ new.class = q.class /\ new.was = q.was /\ new.year = q.year /\ new.app = q.app
BY DEF SeatRequests

LEMMA PromotionRow ==
  ASSUME NEW q \in PromotionRequests
  PROVE  /\ q.op = "PROMOTE" /\ q.at \in {"GUARD", "COMMIT"} /\ q.from \in Sessions /\ q.to \in Sessions
         /\ DOMAIN q.plan \subseteq Students /\ \A s \in DOMAIN q.plan : q.plan[s] \in Decisions
BY DEF PromotionRequests

LEMMA PromotionRowCommits ==
  ASSUME NEW q \in PromotionRequests, NEW new, new = [q EXCEPT !.at = "COMMIT"]
  PROVE  /\ new \in PromotionRequests /\ new.plan = q.plan /\ new.at = "COMMIT"
BY DEF PromotionRequests

LEMMA EnrolRow ==
  ASSUME NEW q \in EnrolRequests
  PROVE  /\ q.op = "ENROL" /\ q.at = "INSERT" /\ q.year \in Sessions
         /\ \A s \in DOMAIN q.read : q.read[s] \in Classes
BY DEF EnrolRequests

LEMMA DecisionRow ==
  ASSUME NEW d \in Decisions
  PROVE  d.outcome \in Outcomes /\ (GoesOn(d) => d.class \in Classes)
BY DEF Decisions

LEMMA KeptHaveClasses ==
  ASSUME NEW q \in PromotionRequests
  PROVE  \A s \in Kept(q) : s \in DOMAIN q.plan /\ q.plan[s].class \in Classes
<1> SUFFICES ASSUME NEW s \in Kept(q) PROVE s \in DOMAIN q.plan /\ q.plan[s].class \in Classes
  OBVIOUS
<1>1. s \in DOMAIN q.plan /\ GoesOn(q.plan[s])
  BY DEF Kept
<1>2. PICK d \in Decisions : d = q.plan[s]
  BY <1>1, PromotionRow
<1> QED
  BY <1>1, <1>2, DecisionRow

\* What kind of request it is shows in its operation and step.
LEMMA RequestKinds ==
  ASSUME DeskOK, NEW r \in DOMAIN desk
  PROVE  /\ desk[r].op \in {"CREATE", "MOVE", "RESTORE"} =>
               desk[r] \in SeatRequests /\ (desk[r].op /= "CREATE" => desk[r].student \in DOMAIN profile)
         /\ desk[r].op = "PROMOTE" =>
               desk[r] \in PromotionRequests /\ DOMAIN desk[r].plan \subseteq DOMAIN profile
         /\ desk[r].op = "ENROL" =>
               desk[r] \in EnrolRequests /\ DOMAIN desk[r].read \subseteq DOMAIN profile
         /\ desk[r].at = "WRITE" => desk[r] \in SeatRequests
<1>1. Sound(desk[r], DOMAIN profile)
  BY DEF DeskOK
<1> QED
  BY <1>1, SeatRow, PromotionRow, EnrolRow DEF Sound

-----------------------------------------------------------------------------
(* The desk. *)

LEMMA DeskShrinks ==
  ASSUME DeskOK, DOMAIN profile \subseteq DOMAIN profile', desk' = desk \/ \E r : Ended(r)
  PROVE  DeskOK'
<1>1. \A q : Sound(q, DOMAIN profile) => Sound(q, DOMAIN profile')
  BY DEF Sound
<1>2. DOMAIN desk' \subseteq DOMAIN desk /\ \A r \in DOMAIN desk' : desk'[r] = desk[r]
  BY DEF Ended, Without
<1> QED
  BY <1>1, <1>2 DEF DeskOK

LEMMA DeskTakes ==
  ASSUME DeskOK, BoundsOK, NEW r \in Requests, NEW q, Arrive(r, q), Sound(q, DOMAIN profile), profile' = profile
  PROVE  DeskOK' /\ calls' \in Nat
BY DEF DeskOK, BoundsOK, Arrive, With

LEMMA DeskAdvances ==
  ASSUME DeskOK, NEW r \in DOMAIN desk, NEW q, desk' = [desk EXCEPT ![r] = q],
         Sound(q, DOMAIN profile), profile' = profile
  PROVE  DeskOK'
BY DEF DeskOK

-----------------------------------------------------------------------------
(* What the steps write. *)

\* Nobody comes or goes, and nobody's application changes.
SameStudents ==
    /\ profile' \in [DOMAIN profile -> Profiles] /\ DOMAIN profile' = DOMAIN profile
    /\ \A s \in DOMAIN profile : profile'[s].app = profile[s].app

\* Rows of enrolment stay what they were, or are decided.
EnrolmentsStand ==
    \A k \in DOMAIN enrol :
        /\ k \in DOMAIN enrol' /\ enrol'[k].class = enrol[k].class
        /\ enrol'[k].outcome /= enrol[k].outcome => Redecided(k)

\* No seat is taken through the check.
NoSeatTaken == seated' \subseteq DOMAIN profile' /\ \A c \in Classes : Counted(c)' \subseteq Counted(c)

SeatTaken(d, s) ==
    /\ seated' \subseteq DOMAIN profile'
    /\ \A c \in Classes \ {d} : Counted(c)' \subseteq Counted(c)
    /\ Counted(d)' \subseteq Counted(d) \cup {s}

LEMMA CountedNext ==
  ASSUME NEW c
  PROVE  Counted(c)' = {s \in DOMAIN profile' : profile'[s].active /\ profile'[s].class = c} \cap seated'
BY DEF Counted, OnRoll

LEMMA Unwritten ==
  ASSUME RollOK, UNCHANGED <<profile, enrol, seated>>
  PROVE  SameStudents /\ EnrolmentsStand /\ NoSeatTaken
<1>1. \A c \in Classes : Counted(c)' = Counted(c)
  BY CountedNext DEF Counted, OnRoll
<1> QED
  BY <1>1 DEF RollOK, ProfilesOK, BoundsOK, SameStudents, EnrolmentsStand, NoSeatTaken

LEMMA MoveEffect ==
  ASSUME RollOK, NEW r, Move(r), NEW q, q = desk[r]
  PROVE  /\ Ended(r) /\ UNCHANGED <<enrol, calls>> /\ SameStudents
         /\ r \in DOMAIN desk /\ q \in SeatRequests /\ q.at = "WRITE"
         /\ NoSeatTaken \/ (~Exempt(q) /\ SeatTaken(q.class, q.student))
<1>1. /\ r \in DOMAIN desk /\ q.op = "MOVE" /\ q.at = "WRITE" /\ Ended(r)
      /\ UNCHANGED <<enrol, calls>>
  BY DEF Move, At
<1>2. q \in SeatRequests /\ q.student \in DOMAIN profile
  BY <1>1, RequestKinds DEF RollOK
<1>3. PICK s, d : s = q.student /\ d = q.class
  OBVIOUS
<1>4. s \in DOMAIN profile /\ d \in Classes /\ profile[s] \in Profiles
  BY <1>2, <1>3, SeatRow DEF RollOK, ProfilesOK
<1>5. PICK new : new = [profile[s] EXCEPT !.class = d]
  OBVIOUS
<1>6. new \in Profiles /\ new.class = d /\ new.active = profile[s].active /\ new.app = profile[s].app
  BY <1>4, <1>5, ProfileRowMoves
<1>7. profile' = [profile EXCEPT ![s] = new]
  BY <1>3, <1>5 DEF Move
<1>8. SameStudents /\ profile'[s] = new /\ \A t \in DOMAIN profile \ {s} : profile'[t] = profile[t]
  BY <1>4, <1>6, <1>7 DEF RollOK, ProfilesOK, SameStudents
<1>9. DOMAIN profile' = DOMAIN profile
  BY <1>7
<1>10. \/ ~Exempt(q) /\ seated' = seated \cup {s}
       \/ profile[s].class = d /\ seated' = seated
       \/ seated' = seated \ {s}
  BY <1>3 DEF Move
<1>11. seated' \subseteq DOMAIN profile'
  BY <1>4, <1>9, <1>10 DEF RollOK, BoundsOK
<1>12. CASE ~Exempt(q) /\ seated' = seated \cup {s}
  <2>1. \A c \in Classes \ {d} : Counted(c)' \subseteq Counted(c)
    BY <1>6, <1>8, <1>9, <1>12, CountedNext DEF Counted, OnRoll
  <2>2. Counted(d)' \subseteq Counted(d) \cup {s}
    BY <1>6, <1>8, <1>9, <1>12, CountedNext DEF Counted, OnRoll
  <2> QED
    BY <1>1, <1>2, <1>3, <1>8, <1>11, <1>12, <2>1, <2>2 DEF SeatTaken
<1>13. CASE profile[s].class = d /\ seated' = seated
  <2>1. \A c \in Classes : Counted(c)' \subseteq Counted(c)
    BY <1>6, <1>8, <1>9, <1>13, CountedNext DEF Counted, OnRoll
  <2> QED
    BY <1>1, <1>2, <1>8, <1>11, <2>1 DEF NoSeatTaken
<1>14. CASE seated' = seated \ {s}
  <2>1. \A c \in Classes : Counted(c)' \subseteq Counted(c)
    BY <1>6, <1>8, <1>9, <1>14, CountedNext DEF Counted, OnRoll
  <2> QED
    BY <1>1, <1>2, <1>8, <1>11, <2>1 DEF NoSeatTaken
<1> QED
  BY <1>10, <1>12, <1>13, <1>14

LEMMA RestoreEffect ==
  ASSUME RollOK, NEW r, Restore(r), NEW q, q = desk[r]
  PROVE  /\ Ended(r) /\ UNCHANGED <<enrol, calls>> /\ SameStudents
         /\ r \in DOMAIN desk /\ q \in SeatRequests /\ q.at = "WRITE"
         /\ NoSeatTaken \/ (~Exempt(q) /\ SeatTaken(q.class, q.student))
<1>1. /\ r \in DOMAIN desk /\ q.op = "RESTORE" /\ q.at = "WRITE" /\ Ended(r)
      /\ UNCHANGED <<enrol, calls>>
  BY DEF Restore, At
<1>2. q \in SeatRequests /\ q.student \in DOMAIN profile
  BY <1>1, RequestKinds DEF RollOK
<1>3. PICK s, d : s = q.student /\ d = q.class
  OBVIOUS
<1>4. s \in DOMAIN profile /\ d \in Classes /\ profile[s] \in Profiles
  BY <1>2, <1>3, SeatRow DEF RollOK, ProfilesOK
<1>5. PICK new : new = [profile[s] EXCEPT !.active = TRUE]
  OBVIOUS
<1>6. new \in Profiles /\ new.class = profile[s].class /\ new.app = profile[s].app
  <2>1. PICK b \in BOOLEAN : b = TRUE
    OBVIOUS
  <2>2. new = [profile[s] EXCEPT !.active = b]
    BY <1>5, <2>1
  <2> QED
    BY <1>4, <2>2, ProfileRowActive
<1>7. profile' = [profile EXCEPT ![s] = new]
  BY <1>3, <1>5 DEF Restore
<1>8. SameStudents /\ profile'[s] = new /\ \A t \in DOMAIN profile \ {s} : profile'[t] = profile[t]
  BY <1>4, <1>6, <1>7 DEF RollOK, ProfilesOK, SameStudents
<1>9. DOMAIN profile' = DOMAIN profile
  BY <1>7
<1>10. \/ profile[s].active /\ seated' = seated
       \/ profile[s].class = d /\ seated' = seated \cup {s}
       \/ seated' = seated \ {s}
  <2>1. seated' = IF profile[s].active THEN seated
                  ELSE IF profile[s].class = d THEN seated \cup {s} ELSE seated \ {s}
    BY <1>3 DEF Restore
  <2>2. profile[s].active \in BOOLEAN
    BY <1>4, ProfileRow
  <2> QED
    BY <2>1, <2>2
<1>11. seated' \subseteq DOMAIN profile' /\ ~Exempt(q)
  BY <1>1, <1>4, <1>9, <1>10 DEF RollOK, BoundsOK, Exempt
<1>12. CASE profile[s].active /\ seated' = seated
  <2>1. \A c \in Classes : Counted(c)' \subseteq Counted(c)
    BY <1>6, <1>8, <1>9, <1>12, CountedNext DEF Counted, OnRoll
  <2> QED
    BY <1>1, <1>2, <1>8, <1>11, <2>1 DEF NoSeatTaken
<1>13. CASE profile[s].class = d /\ seated' = seated \cup {s}
  <2>1. \A c \in Classes \ {d} : Counted(c)' \subseteq Counted(c)
    BY <1>6, <1>8, <1>9, <1>13, CountedNext DEF Counted, OnRoll
  <2>2. Counted(d)' \subseteq Counted(d) \cup {s}
    BY <1>6, <1>8, <1>9, <1>13, CountedNext DEF Counted, OnRoll
  <2> QED
    BY <1>1, <1>2, <1>3, <1>8, <1>11, <2>1, <2>2 DEF SeatTaken
<1>14. CASE seated' = seated \ {s}
  <2>1. \A c \in Classes : Counted(c)' \subseteq Counted(c)
    BY <1>6, <1>8, <1>9, <1>14, CountedNext DEF Counted, OnRoll
  <2> QED
    BY <1>1, <1>2, <1>8, <1>11, <2>1 DEF NoSeatTaken
<1> QED
  BY <1>10, <1>12, <1>13, <1>14

LEMMA ArchiveEffect ==
  ASSUME RollOK, NEW s, Archive(s)
  PROVE  /\ UNCHANGED <<enrol, desk>> /\ SameStudents /\ NoSeatTaken /\ calls' \in Nat
<1>1. s \in DOMAIN profile /\ profile[s] \in Profiles
  BY DEF Archive, Active, RollOK, ProfilesOK
<1>2. PICK new : new = [profile[s] EXCEPT !.active = FALSE]
  OBVIOUS
<1>3. new \in Profiles /\ ~new.active /\ new.app = profile[s].app
  BY <1>1, <1>2, ProfileRowActive
<1>4. profile' = [profile EXCEPT ![s] = new] /\ seated' = seated
  BY <1>2 DEF Archive
<1>5. SameStudents
  BY <1>1, <1>3, <1>4 DEF RollOK, ProfilesOK, SameStudents
<1>6. \A c \in Classes : Counted(c)' \subseteq Counted(c)
  BY <1>1, <1>3, <1>4, CountedNext DEF Counted, OnRoll
<1>7. calls' \in Nat
  BY DEF Archive, RollOK, BoundsOK
<1> QED
  BY <1>4, <1>5, <1>6, <1>7 DEF Archive, NoSeatTaken, RollOK, BoundsOK, SameStudents

LEMMA EditEffect ==
  ASSUME RollOK, NEW s, NEW c \in Classes, NEW b \in BOOLEAN, Edit(s, c, b)
  PROVE  /\ UNCHANGED <<enrol, desk>> /\ SameStudents /\ NoSeatTaken /\ calls' \in Nat
<1>1. s \in DOMAIN profile /\ profile[s] \in Profiles
  BY DEF Edit, RollOK, ProfilesOK
<1>2. PICK new : new = EditForm(profile[s], c, b)
  OBVIOUS
<1>3. new \in Profiles /\ new.active = b /\ new.app = profile[s].app
  BY <1>1, <1>2, ProfileRowEdited
<1>4. profile' = [profile EXCEPT ![s] = new]
  BY <1>1, <1>2 DEF Edit, EditForm, RollOK, ProfilesOK
<1>5. seated' = IF b THEN seated \ {s} ELSE seated
  BY DEF Edit
<1>6. SameStudents
  BY <1>1, <1>3, <1>4 DEF RollOK, ProfilesOK, SameStudents
<1>7. \A d \in Classes : Counted(d)' \subseteq Counted(d)
  BY <1>1, <1>3, <1>4, <1>5, CountedNext DEF Counted, OnRoll
<1>8. calls' \in Nat
  BY DEF Edit, RollOK, BoundsOK
<1> QED
  BY <1>4, <1>5, <1>6, <1>7, <1>8 DEF Edit, NoSeatTaken, RollOK, BoundsOK, SameStudents

LEMMA CreateEffect ==
  ASSUME RollOK, NEW r, Create(r), NEW q, q = desk[r]
  PROVE  /\ Ended(r) /\ calls' = calls /\ DOMAIN profile \subseteq DOMAIN profile'
         /\ r \in DOMAIN desk /\ q \in SeatRequests /\ q.at = "WRITE" /\ ~Exempt(q)
         /\ ProfilesOK' /\ EnrolmentsOK' /\ EnrolmentsStand
         /\ \/ UNCHANGED <<profile, enrol, seated>> /\ Taken(q.app)
            \/ /\ ~Taken(q.app) /\ profile' /= profile
               /\ \E s \in Students \ DOMAIN profile :
                     /\ SeatTaken(q.class, s)
                     /\ DOMAIN profile' = DOMAIN profile \cup {s} /\ profile'[s].app = q.app
                     /\ \A t \in DOMAIN profile : profile'[t] = profile[t]
<1>1. r \in DOMAIN desk /\ q.op = "CREATE" /\ q.at = "WRITE" /\ Ended(r) /\ calls' = calls
  BY DEF Create, At
<1>2. q \in SeatRequests /\ ~Exempt(q)
  BY <1>1, RequestKinds DEF RollOK, Exempt
<1>3. q.class \in Classes /\ q.year \in Sessions \cup {None} /\ q.app \in Applications \cup {None}
  BY <1>2, SeatRow
<1>4. CASE Taken(q.app)
  <2>1. UNCHANGED <<profile, enrol, seated>>
    BY <1>4 DEF Create
  <2> QED
    BY <1>1, <1>2, <1>4, <2>1 DEF RollOK, ProfilesOK, EnrolmentsOK, EnrolmentsStand
<1>5. CASE ~Taken(q.app)
  <2>1. PICK s \in Students \ DOMAIN profile :
          /\ profile' = With(profile, s, [class |-> q.class, active |-> TRUE, app |-> q.app])
          /\ enrol' = IF q.year = None THEN enrol
                      ELSE With(enrol, <<s, q.year>>, [class |-> q.class, outcome |-> "IN_PROGRESS"])
          /\ seated' = seated \cup {s}
    BY <1>5 DEF Create
  <2>2. PICK new \in Profiles : new = [class |-> q.class, active |-> TRUE, app |-> q.app]
    BY <1>3 DEF Profiles
  <2>3. new.app = q.app /\ new.class = q.class
    BY <2>2
  <2>4. profile' = With(profile, s, new)
    BY <2>1, <2>2
  <2>5. /\ DOMAIN profile' = DOMAIN profile \cup {s} /\ profile'[s] = new
        /\ \A t \in DOMAIN profile : profile'[t] = profile[t]
    BY <2>4 DEF With
  <2>6. ProfilesOK'
    BY <2>4, <2>5 DEF RollOK, ProfilesOK, With
  <2>7. SeatTaken(q.class, s)
    <3>1. ASSUME NEW c \in Classes \ {q.class}
          PROVE  Counted(c)' \subseteq Counted(c)
      <4>1. profile'[s].class /= c
        BY <2>3, <2>5
      <4> QED
        BY <2>1, <2>5, <4>1, CountedNext DEF Counted, OnRoll
    <3>2. Counted(q.class)' \subseteq Counted(q.class) \cup {s}
      <4>1. PICK d : d = q.class
        OBVIOUS
      <4>2. Counted(d)' \subseteq Counted(d) \cup {s}
        BY <2>1, <2>5, CountedNext DEF Counted, OnRoll
      <4>3. Counted(q.class)' = Counted(d)'
        BY <4>1, <1>1, CountedNext
      <4> QED
        BY <4>1, <4>2, <4>3
    <3>3. seated' \subseteq DOMAIN profile'
      BY <2>1, <2>5 DEF RollOK, BoundsOK
    <3> QED
      BY <3>1, <3>2, <3>3 DEF SeatTaken
  <2>8. EnrolmentsOK' /\ EnrolmentsStand
    <3>1. CASE q.year = None
      <4>1. enrol' = enrol
        BY <2>1, <3>1
      <4> QED
        BY <2>5, <4>1 DEF RollOK, EnrolmentsOK, EnrolmentsStand
    <3>2. CASE q.year /= None
      <4>1. PICK e \in Enrolments : e = [class |-> q.class, outcome |-> "IN_PROGRESS"]
        BY <1>3 DEF Enrolments, Outcomes
      <4>2. PICK k \in (DOMAIN profile') \X Sessions : k = <<s, q.year>> /\ k[1] = s
        <5>1. PICK y \in Sessions : y = q.year
          BY <1>3, <3>2
        <5>2. s \in DOMAIN profile'
          BY <2>5
        <5>3. <<s, y>> \in (DOMAIN profile') \X Sessions /\ <<s, y>>[1] = s
          BY <5>2
        <5> QED
          BY <5>1, <5>3
      <4>3. enrol' = With(enrol, k, e)
        BY <2>1, <3>2, <4>1, <4>2
      <4>4. \A i \in DOMAIN enrol : i[1] \in DOMAIN profile
        BY DEF RollOK, EnrolmentsOK
      <4>5. k \notin DOMAIN enrol
        BY <4>2, <4>4
      <4>6. DOMAIN enrol \subseteq (DOMAIN profile') \X Sessions
        BY <2>5 DEF RollOK, EnrolmentsOK
      <4>7. enrol' \in [DOMAIN enrol' -> Enrolments] /\ DOMAIN enrol' = DOMAIN enrol \cup {k}
        BY <4>3 DEF RollOK, EnrolmentsOK, With
      <4>8. EnrolmentsStand
        BY <4>3, <4>5 DEF With, EnrolmentsStand
      <4> QED
        BY <4>6, <4>7, <4>8 DEF EnrolmentsOK
    <3> QED
      BY <3>1, <3>2
  <2>9. profile' /= profile
    BY <2>5
  <2> QED
    BY <1>1, <1>2, <1>5, <2>3, <2>5, <2>6, <2>7, <2>8, <2>9
<1> QED
  BY <1>4, <1>5

LEMMA EnsureEffect ==
  ASSUME RollOK, NEW r, EnsureEnrolments(r)
  PROVE  Ended(r) /\ UNCHANGED <<profile, calls, seated>> /\ EnrolmentsOK' /\ EnrolmentsStand
<1>1. r \in DOMAIN desk /\ desk[r].op = "ENROL" /\ Ended(r) /\ UNCHANGED <<profile, calls, seated>>
  BY DEF EnsureEnrolments, At
<1>2. PICK y, read : y = desk[r].year /\ read = desk[r].read
  OBVIOUS
<1>3. y \in Sessions /\ DOMAIN read \subseteq DOMAIN profile /\ \A s \in DOMAIN read : read[s] \in Classes
  BY <1>1, <1>2, RequestKinds, EnrolRow DEF RollOK
<1>4. PICK mine : mine = {<<s, y>> : s \in DOMAIN read}
  OBVIOUS
<1>5. enrol' = [k \in DOMAIN enrol \cup mine |->
                   IF k \in DOMAIN enrol THEN enrol[k] ELSE [class |-> read[k[1]], outcome |-> "IN_PROGRESS"]]
  BY <1>2, <1>4 DEF EnsureEnrolments, Enrolled
<1>6. ASSUME NEW k \in mine
      PROVE  k \in (DOMAIN profile) \X Sessions /\ k[1] \in DOMAIN read
  <2>1. PICK s \in DOMAIN read : k = <<s, y>>
    BY <1>4, <1>6
  <2> QED
    BY <1>3, <2>1
<1>7. ASSUME NEW k \in mine
      PROVE  [class |-> read[k[1]], outcome |-> "IN_PROGRESS"] \in Enrolments
  <2>1. read[k[1]] \in Classes
    BY <1>3, <1>6
  <2> QED
    BY <2>1 DEF Enrolments, Outcomes
<1>8. enrol' \in [DOMAIN enrol' -> Enrolments]
  BY <1>5, <1>7 DEF RollOK, EnrolmentsOK
<1>9. DOMAIN enrol' \subseteq (DOMAIN profile) \X Sessions
  BY <1>5, <1>6 DEF RollOK, EnrolmentsOK
<1>10. EnrolmentsStand
  BY <1>5 DEF EnrolmentsStand
<1> QED
  BY <1>1, <1>8, <1>9, <1>10 DEF EnrolmentsOK

LEMMA CommitEffect ==
  ASSUME RollOK, NEW r, CommitPromotion(r)
  PROVE  Ended(r) /\ calls' = calls /\ SameStudents /\ NoSeatTaken /\ EnrolmentsOK' /\ EnrolmentsStand
<1>1. /\ r \in DOMAIN desk /\ desk[r].op = "PROMOTE" /\ Ended(r) /\ calls' = calls
      /\ r \in Requests /\ At(r, "PROMOTE", "COMMIT")
  BY DEF CommitPromotion, At, RollOK, DeskOK
<1>2. PICK q \in PromotionRequests : q = desk[r] /\ DOMAIN q.plan \subseteq DOMAIN profile
  BY <1>1, RequestKinds DEF RollOK
<1>3. /\ q.to \in Sessions
      /\ \A s \in DOMAIN q.plan : q.plan[s].outcome \in Outcomes
      /\ \A s \in Kept(q) : s \in DOMAIN q.plan /\ q.plan[s].class \in Classes
  BY <1>2, PromotionRow, DecisionRow, KeptHaveClasses
<1>4. CASE Conflict(q)
  <2>1. UNCHANGED <<profile, enrol, seated>>
    BY <1>2, <1>4 DEF CommitPromotion
  <2>2. EnrolmentsOK'
    BY <2>1 DEF RollOK, EnrolmentsOK
  <2> QED
    BY <1>1, <2>1, <2>2, Unwritten
<1>5. CASE ~Conflict(q)
  <2>1. /\ enrol' = Rolled(q) /\ profile' = Moved(q)
        /\ seated' = {s \in seated : s \in Kept(q) => q.plan[s].class = profile[s].class}
    BY <1>2, <1>5 DEF CommitPromotion
  <2>2. \A s \in Kept(q) : s \in DOMAIN q.plan /\ q.plan[s].class \in Classes /\ s \in DOMAIN profile
    BY <1>2, <1>3
  <2>3. DOMAIN profile' = DOMAIN profile
    BY <2>1 DEF Moved
  <2>4. ASSUME NEW s \in DOMAIN profile
        PROVE  /\ profile'[s] \in Profiles /\ profile'[s].app = profile[s].app
               /\ \/ profile'[s].class = profile[s].class /\ profile'[s].active = profile[s].active
                  \/ s \in Kept(q) /\ profile'[s].class = q.plan[s].class
                     /\ profile'[s].active = profile[s].active
                  \/ ~profile'[s].active
    <3>1. PICK p \in Profiles : p = profile[s]
      BY DEF RollOK, ProfilesOK
    <3>2. CASE s \notin DOMAIN q.plan
      BY <2>1, <3>1, <3>2 DEF Moved
    <3>3. CASE s \in Kept(q)
      <4>1. PICK c \in Classes : c = q.plan[s].class
        BY <2>2, <3>3
      <4>2. PICK new : new = [p EXCEPT !.class = c]
        OBVIOUS
      <4>3. profile'[s] = new
        BY <2>1, <2>2, <3>1, <3>3, <4>1, <4>2 DEF Moved
      <4> QED
        BY <3>1, <3>3, <4>1, <4>2, <4>3, ProfileRowMoves
    <3>4. CASE s \in DOMAIN q.plan /\ s \notin Kept(q)
      <4>1. PICK b \in BOOLEAN : b = FALSE
        OBVIOUS
      <4>2. PICK new : new = [p EXCEPT !.active = b]
        OBVIOUS
      <4>3. profile'[s] = new
        BY <2>1, <3>1, <3>4, <4>1, <4>2 DEF Moved
      <4> QED
        BY <3>1, <4>1, <4>2, <4>3, ProfileRowActive
    <3> QED
      BY <3>2, <3>3, <3>4
  <2>5. SameStudents
    <3>1. profile' \in [DOMAIN profile -> Profiles]
      <4>1. profile' = [s \in DOMAIN profile |-> profile'[s]]
        BY <2>1 DEF Moved
      <4> QED
        BY <2>4, <4>1
    <3> QED
      BY <2>3, <2>4, <3>1 DEF SameStudents
  <2>6. NoSeatTaken
    <3>1. seated' \subseteq DOMAIN profile'
      BY <2>1, <2>3 DEF RollOK, BoundsOK
    <3>2. ASSUME NEW c \in Classes, NEW s \in Counted(c)'
          PROVE  s \in Counted(c)
      <4>1. s \in DOMAIN profile /\ profile'[s].active /\ profile'[s].class = c /\ s \in seated'
        BY <2>3, <3>2, CountedNext
      <4>2. s \in seated /\ (s \in Kept(q) => q.plan[s].class = profile[s].class)
        BY <2>1, <4>1
      <4>3. profile[s].class = c /\ profile[s].active
        BY <2>4, <4>1, <4>2
      <4> QED
        BY <4>1, <4>2, <4>3 DEF Counted, OnRoll
    <3> QED
      BY <3>1, <3>2 DEF NoSeatTaken
  <2>7. PICK new : new = {<<s, q.to>> : s \in Kept(q)}
    OBVIOUS
  <2>8. DOMAIN enrol' = DOMAIN enrol \cup new
    BY <2>1, <2>7 DEF Rolled
  <2>9. ASSUME NEW k \in new
        PROVE  k \in (DOMAIN profile) \X Sessions /\ k[1] \in Kept(q)
    <3>1. PICK s \in Kept(q) : k = <<s, q.to>>
      BY <2>7, <2>9
    <3> QED
      BY <1>3, <2>2, <3>1
  <2>10. ASSUME NEW k \in DOMAIN enrol
         PROVE  /\ enrol'[k] \in Enrolments /\ enrol'[k].class = enrol[k].class
                /\ enrol'[k].outcome /= enrol[k].outcome => Redecided(k)
    <3>1. PICK e \in Enrolments : e = enrol[k]
      BY DEF RollOK, EnrolmentsOK
    <3>2. CASE Decided(q, k)
      <4>1. PICK o \in Outcomes : o = q.plan[k[1]].outcome
        BY <1>3, <3>2 DEF Decided
      <4>2. PICK f : f = [e EXCEPT !.outcome = o]
        OBVIOUS
      <4>3. enrol'[k] = f
        BY <2>1, <3>1, <3>2, <4>1, <4>2 DEF Rolled
      <4>4. f \in Enrolments /\ f.class = e.class /\ f.outcome = o
        BY <4>2, EnrolmentRowDecided
      <4>5. GoesOn(f) => <<k[1], q.to>> \in DOMAIN enrol' \ DOMAIN enrol
        <5>1. GoesOn(f) => k[1] \in Kept(q)
          BY <3>2, <4>1, <4>4 DEF GoesOn, Kept, Decided
        <5>2. \A s \in Kept(q) : <<s, q.to>> \in DOMAIN enrol' /\ <<s, q.to>> \notin DOMAIN enrol
          BY <1>5, <2>7, <2>8 DEF Conflict
        <5> QED
          BY <5>1, <5>2
      <4>6. enrol'[k].outcome = q.plan[k[1]].outcome
        BY <4>1, <4>3, <4>4
      <4>7. Redecided(k)
        BY <1>1, <1>2, <3>2, <4>3, <4>5, <4>6 DEF Redecided
      <4> QED
        BY <3>1, <4>3, <4>4, <4>7
    <3>3. CASE ~Decided(q, k)
      BY <2>1, <3>1, <3>3 DEF Rolled
    <3> QED
      BY <3>2, <3>3
  <2>11. ASSUME NEW k \in new \ DOMAIN enrol
         PROVE  enrol'[k] \in Enrolments
    <3>1. enrol'[k] = [class |-> q.plan[k[1]].class, outcome |-> "IN_PROGRESS"]
      BY <2>1, <2>7, <2>11 DEF Rolled
    <3>2. q.plan[k[1]].class \in Classes
      BY <2>2, <2>9, <2>11
    <3> QED
      BY <3>1, <3>2 DEF Enrolments, Outcomes
  <2>12. EnrolmentsOK'
    <3>1. enrol' = [k \in DOMAIN enrol' |-> enrol'[k]]
      BY <2>1 DEF Rolled
    <3>2. enrol' \in [DOMAIN enrol' -> Enrolments]
      BY <2>8, <2>10, <2>11, <3>1
    <3>3. DOMAIN enrol' \subseteq (DOMAIN profile') \X Sessions
      BY <2>3, <2>8, <2>9 DEF RollOK, EnrolmentsOK
    <3> QED
      BY <3>2, <3>3 DEF EnrolmentsOK
  <2>13. EnrolmentsStand
    BY <2>8, <2>10 DEF EnrolmentsStand
  <2> QED
    BY <1>1, <2>5, <2>6, <2>12, <2>13
<1> QED
  BY <1>4, <1>5

-----------------------------------------------------------------------------
(* All the steps. *)

\* What each kind of step does to the requests and the bound, and to the rows.
LEMMA RollKinds ==
  ASSUME RollOK, NEW Admitted \in SUBSET Applications, RollNext(Admitted)
  PROVE  \/ \E r \in DOMAIN desk :
               /\ Ended(r) /\ calls' = calls
               /\ SameStudents /\ NoSeatTaken /\ EnrolmentsOK' /\ EnrolmentsStand
         \/ \E r \in DOMAIN desk, q \in SeatRequests :
               /\ q = desk[r] /\ q.at = "WRITE" /\ ~Exempt(q)
               /\ Ended(r) /\ UNCHANGED <<enrol, calls>>
               /\ SameStudents /\ SeatTaken(q.class, q.student)
         \/ \E r \in Requests : Create(r)
         \/ \E r \in Requests : CountSeats(r) \/ GuardPromotion(r)
         \/ UNCHANGED <<enrol, desk>> /\ SameStudents /\ NoSeatTaken /\ calls' \in Nat
         \/ \E r \in Requests : RollRequest(r) \/ \E a \in Admitted : Admit(r, a)
<1>1. RollOK => EnrolmentsOK
  BY DEF RollOK
<1>2. ASSUME UNCHANGED <<enrol, profile>>
      PROVE  EnrolmentsOK'
  BY <1>2 DEF RollOK, EnrolmentsOK
<1>3. ASSUME enrol' = enrol, SameStudents
      PROVE  EnrolmentsOK' /\ EnrolmentsStand
  BY <1>3 DEF RollOK, EnrolmentsOK, SameStudents, EnrolmentsStand
<1>4. ASSUME NEW r \in Requests, Fail(r)
      PROVE  \E p \in DOMAIN desk :
               /\ Ended(p) /\ calls' = calls
               /\ SameStudents /\ NoSeatTaken /\ EnrolmentsOK' /\ EnrolmentsStand
  BY <1>2, <1>4, Unwritten DEF Fail
<1>5. ASSUME NEW r \in Requests, EnsureEnrolments(r)
      PROVE  \E p \in DOMAIN desk :
               /\ Ended(p) /\ calls' = calls
               /\ SameStudents /\ NoSeatTaken /\ EnrolmentsOK' /\ EnrolmentsStand
  <2>1. /\ Ended(r) /\ UNCHANGED <<profile, calls, seated>> /\ EnrolmentsOK' /\ EnrolmentsStand
        /\ r \in DOMAIN desk
    BY <1>5, EnsureEffect DEF EnsureEnrolments, At
  <2>2. \A c \in Classes : Counted(c)' = Counted(c)
    BY <2>1, CountedNext DEF Counted, OnRoll
  <2>3. SameStudents /\ NoSeatTaken
    BY <2>1, <2>2 DEF RollOK, ProfilesOK, BoundsOK, SameStudents, NoSeatTaken
  <2> QED
    BY <2>1, <2>3
<1>6. ASSUME NEW r \in Requests, CommitPromotion(r)
      PROVE  \E p \in DOMAIN desk :
               /\ Ended(p) /\ calls' = calls
               /\ SameStudents /\ NoSeatTaken /\ EnrolmentsOK' /\ EnrolmentsStand
  BY <1>6, CommitEffect DEF CommitPromotion, At
<1>7. ASSUME NEW r \in Requests, Move(r) \/ Restore(r)
      PROVE  \/ \E p \in DOMAIN desk :
                   /\ Ended(p) /\ calls' = calls
                   /\ SameStudents /\ NoSeatTaken /\ EnrolmentsOK' /\ EnrolmentsStand
             \/ \E p \in DOMAIN desk, q \in SeatRequests :
                   /\ q = desk[p] /\ q.at = "WRITE" /\ ~Exempt(q)
                   /\ Ended(p) /\ UNCHANGED <<enrol, calls>>
                   /\ SameStudents /\ SeatTaken(q.class, q.student)
  <2>1. PICK q : q = desk[r]
    OBVIOUS
  <2>2. /\ Ended(r) /\ UNCHANGED <<enrol, calls>> /\ SameStudents
        /\ r \in DOMAIN desk /\ q \in SeatRequests /\ q.at = "WRITE"
        /\ NoSeatTaken \/ (~Exempt(q) /\ SeatTaken(q.class, q.student))
    BY <1>7, <2>1, MoveEffect, RestoreEffect
  <2> QED
    BY <1>3, <2>1, <2>2
<1>8. ASSUME (\E s \in Students : Archive(s))
             \/ \E s \in Students, c \in Classes, b \in BOOLEAN : Edit(s, c, b)
      PROVE  UNCHANGED <<enrol, desk>> /\ SameStudents /\ NoSeatTaken /\ calls' \in Nat
  BY <1>8, ArchiveEffect, EditEffect
<1>9. ASSUME UNCHANGED rollVars
      PROVE  UNCHANGED <<enrol, desk>> /\ SameStudents /\ NoSeatTaken /\ calls' \in Nat
  BY <1>9, Unwritten DEF rollVars, RollOK, BoundsOK
<1> QED
  BY <1>4, <1>5, <1>6, <1>7, <1>8, <1>9 DEF RollNext, RollStep, RollWork

\* What a request does when it arrives.
LEMMA RequestEffect ==
  ASSUME RollOK, NEW Admitted \in SUBSET Applications, NEW r \in Requests,
         RollRequest(r) \/ \E a \in Admitted : Admit(r, a)
  PROVE  \E q : /\ Arrive(r, q) /\ Sound(q, DOMAIN profile) /\ q.at /= "WRITE"
                /\ UNCHANGED <<profile, enrol, seated>>
                /\ q \in SeatRequests /\ q.app /= None => q.app \in Admitted
<1>1. ASSUME NEW op \in {"CREATE", "MOVE", "RESTORE"}, NEW s, op /= "CREATE" => s \in DOMAIN profile,
             op = "CREATE" => s = None, NEW c \in Classes, NEW was \in Classes \cup {None},
             NEW y \in Sessions \cup {None}, NEW a \in Applications \cup {None},
             NEW q, q = SeatRequest(op, s, c, was, y, a)
      PROVE  Sound(q, DOMAIN profile) /\ q.at /= "WRITE" /\ q.app = a
  <2>1. s \in Students \cup {None}
    BY <1>1 DEF RollOK, ProfilesOK
  <2>2. q \in SeatRequests /\ q.at = "LOCK" /\ q.op = op /\ q.student = s /\ q.app = a
    BY <1>1, <2>1 DEF SeatRequest, SeatRequests
  <2> QED
    BY <1>1, <2>2 DEF Sound
<1>2. \A s \in DOMAIN profile : profile[s].class \in Classes
  BY ProfileRow DEF RollOK, ProfilesOK
<1>3. CASE StartCreate(r)
  <2>1. PICK c \in Classes, y \in Sessions \cup {None} :
          Arrive(r, SeatRequest("CREATE", None, c, None, y, None))
    BY <1>3 DEF StartCreate
  <2>2. PICK op \in {"CREATE", "MOVE", "RESTORE"} : op = "CREATE"
    OBVIOUS
  <2>3. PICK q : q = SeatRequest(op, None, c, None, y, None)
    OBVIOUS
  <2>4. Sound(q, DOMAIN profile) /\ q.at /= "WRITE" /\ q.app = None
    BY <1>1, <2>2, <2>3
  <2> QED
    BY <1>3, <2>1, <2>2, <2>3, <2>4 DEF StartCreate
<1>4. CASE StartMove(r)
  <2>1. PICK s \in DOMAIN profile, c \in Classes :
          Arrive(r, SeatRequest("MOVE", s, c, profile[s].class, None, None))
    BY <1>4 DEF StartMove
  <2>2. PICK op \in {"CREATE", "MOVE", "RESTORE"} : op = "MOVE"
    OBVIOUS
  <2>3. PICK was \in Classes : was = profile[s].class
    BY <1>2
  <2>4. PICK q : q = SeatRequest(op, s, c, was, None, None)
    OBVIOUS
  <2>5. Sound(q, DOMAIN profile) /\ q.at /= "WRITE" /\ q.app = None
    BY <1>1, <2>2, <2>4
  <2> QED
    BY <1>4, <2>1, <2>2, <2>3, <2>4, <2>5 DEF StartMove
<1>5. CASE StartRestore(r)
  <2>1. PICK s \in DOMAIN profile :
          Arrive(r, SeatRequest("RESTORE", s, profile[s].class, profile[s].class, None, None))
    BY <1>5 DEF StartRestore
  <2>2. PICK op \in {"CREATE", "MOVE", "RESTORE"} : op = "RESTORE"
    OBVIOUS
  <2>3. PICK c \in Classes : c = profile[s].class
    BY <1>2
  <2>4. PICK q : q = SeatRequest(op, s, c, c, None, None)
    OBVIOUS
  <2>5. Sound(q, DOMAIN profile) /\ q.at /= "WRITE" /\ q.app = None
    BY <1>1, <2>2, <2>4
  <2> QED
    BY <1>5, <2>1, <2>2, <2>3, <2>4, <2>5 DEF StartRestore
<1>6. CASE \E a \in Admitted : Admit(r, a)
  <2>1. PICK a \in Admitted : Admit(r, a)
    BY <1>6
  <2>2. PICK c \in Classes : Arrive(r, SeatRequest("CREATE", None, c, None, None, a))
    BY <2>1 DEF Admit
  <2>3. PICK op \in {"CREATE", "MOVE", "RESTORE"} : op = "CREATE"
    OBVIOUS
  <2>4. PICK q : q = SeatRequest(op, None, c, None, None, a)
    OBVIOUS
  <2>5. Sound(q, DOMAIN profile) /\ q.at /= "WRITE" /\ q.app = a
    BY <1>1, <2>3, <2>4
  <2> QED
    BY <2>1, <2>2, <2>3, <2>4, <2>5 DEF Admit
<1>7. CASE StartEnrolling(r)
  <2>1. PICK y \in Sessions :
          Arrive(r, [op |-> "ENROL", at |-> "INSERT", year |-> y,
                     read |-> [s \in {t \in DOMAIN profile : Active(t)} |-> profile[s].class]])
    BY <1>7 DEF StartEnrolling
  <2>2. PICK there \in SUBSET Students : there = {t \in DOMAIN profile : Active(t)}
    BY DEF RollOK, ProfilesOK
  <2>3. PICK read : read = [s \in there |-> profile[s].class]
    OBVIOUS
  <2>4. read \in [there -> Classes] /\ DOMAIN read \subseteq DOMAIN profile
    BY <1>2, <2>2, <2>3
  <2>5. PICK q : q = [op |-> "ENROL", at |-> "INSERT", year |-> y, read |-> read]
    OBVIOUS
  <2>6. q \in EnrolRequests /\ q.read = read /\ q.at = "INSERT"
    BY <2>4, <2>5 DEF EnrolRequests
  <2>7. Arrive(r, q)
    BY <2>1, <2>2, <2>3, <2>5
  <2>8. q \notin SeatRequests
    BY <2>6, SeatRow, EnrolRow
  <2> QED
    BY <1>7, <2>4, <2>6, <2>7, <2>8 DEF StartEnrolling, Sound
<1>8. CASE StartPromotion(r)
  <2>1. PICK x \in Sessions, y \in Sessions, there \in SUBSET DOMAIN profile :
          \E plan \in [there -> Offered] :
             Arrive(r, [op |-> "PROMOTE", at |-> "GUARD", from |-> x, to |-> y, plan |-> plan])
    BY <1>8 DEF StartPromotion
  <2>2. PICK plan \in [there -> Offered] :
          Arrive(r, [op |-> "PROMOTE", at |-> "GUARD", from |-> x, to |-> y, plan |-> plan])
    BY <2>1
  <2>3. there \in SUBSET Students
    BY <2>1 DEF RollOK, ProfilesOK
  <2>4. plan \in [there -> Decisions] /\ DOMAIN plan \subseteq DOMAIN profile
    BY <2>1, <2>2, OfferedAssumption
  <2>5. PICK q : q = [op |-> "PROMOTE", at |-> "GUARD", from |-> x, to |-> y, plan |-> plan]
    OBVIOUS
  <2>6. q \in PromotionRequests /\ q.plan = plan /\ q.at = "GUARD"
    BY <2>3, <2>4, <2>5 DEF PromotionRequests
  <2>7. q \notin SeatRequests
    BY <2>6, SeatRow, PromotionRow
  <2> QED
    BY <1>8, <2>2, <2>4, <2>5, <2>6, <2>7 DEF StartPromotion, Sound
<1> QED
  BY <1>3, <1>4, <1>5, <1>6, <1>7, <1>8 DEF RollRequest

\* A request that has counted the seats, or has passed the promotion's guard.
LEMMA AdvanceEffect ==
  ASSUME RollOK, NEW r, CountSeats(r) \/ GuardPromotion(r)
  PROVE  /\ UNCHANGED <<profile, enrol, calls, seated>> /\ r \in DOMAIN desk
         /\ \/ Ended(r)
            \/ \E q : /\ desk' = [desk EXCEPT ![r] = q] /\ Sound(q, DOMAIN profile)
                      /\ q \in SeatRequests => desk[r] \in SeatRequests /\ q.app = desk[r].app
                      /\ \/ q.at /= "WRITE"
                         \/ /\ q.at = "WRITE" /\ desk[r] \in SeatRequests /\ LockFree(desk[r].class)
                            /\ q.op = desk[r].op /\ q.class = desk[r].class /\ q.was = desk[r].was
                            /\ q.app = desk[r].app
                            /\ Exempt(q) \/ Cardinality(OnRoll(q.class)) < Capacity[q.class]
<1>1. UNCHANGED <<profile, enrol, calls, seated>> /\ r \in DOMAIN desk
  BY DEF CountSeats, GuardPromotion, SeatStep, At
<1>2. CASE CountSeats(r)
  <2>1. desk[r].op \in {"CREATE", "MOVE", "RESTORE"} /\ LockFree(desk[r].class)
    BY <1>2 DEF CountSeats, SeatStep, At
  <2>2. PICK p \in SeatRequests : p = desk[r] /\ (p.op /= "CREATE" => p.student \in DOMAIN profile)
    BY <1>1, <2>1, RequestKinds DEF RollOK
  <2>3. PICK q : q = [p EXCEPT !.at = "WRITE"]
    OBVIOUS
  <2>4. /\ q \in SeatRequests /\ q.at = "WRITE" /\ q.op = p.op /\ q.student = p.student
        /\ q.class = p.class /\ q.was = p.was /\ q.app = p.app
    BY <2>3, SeatRowWrites
  <2>5. Sound(q, DOMAIN profile)
    BY <2>2, <2>4 DEF Sound
  <2>6. \/ /\ Exempt(p) \/ Cardinality(OnRoll(p.class)) < Capacity[p.class]
           /\ desk' = [desk EXCEPT ![r] = q]
        \/ Ended(r)
    BY <1>1, <1>2, <2>2, <2>3 DEF CountSeats, Exempt
  <2>7. Exempt(p) => Exempt(q)
    BY <2>4 DEF Exempt
  <2> QED
    BY <1>1, <2>1, <2>2, <2>4, <2>5, <2>6, <2>7
<1>3. CASE GuardPromotion(r)
  <2>1. desk[r].op = "PROMOTE"
    BY <1>3 DEF GuardPromotion, At
  <2>2. PICK p \in PromotionRequests : p = desk[r] /\ DOMAIN p.plan \subseteq DOMAIN profile
    BY <1>1, <2>1, RequestKinds DEF RollOK
  <2>3. PICK q : q = [p EXCEPT !.at = "COMMIT"]
    OBVIOUS
  <2>4. q \in PromotionRequests /\ q.plan = p.plan /\ q.at = "COMMIT"
    BY <2>3, PromotionRowCommits
  <2>5. Sound(q, DOMAIN profile)
    BY <2>2, <2>4 DEF Sound
  <2>6. Ended(r) \/ desk' = [desk EXCEPT ![r] = q]
    BY <1>1, <1>3, <2>2, <2>3 DEF GuardPromotion
  <2>7. q \notin SeatRequests
    BY <2>4, SeatRow, PromotionRow
  <2> QED
    BY <1>1, <2>4, <2>5, <2>6, <2>7
<1> QED
  BY <1>2, <1>3

LEMMA RollStays ==
  ASSUME RollOK, NEW Admitted \in SUBSET Applications, RollNext(Admitted)
  PROVE  RollOK' /\ EnrolmentsStand
<1>1. ASSUME SameStudents
      PROVE  ProfilesOK' /\ DOMAIN profile' = DOMAIN profile
  BY <1>1 DEF RollOK, ProfilesOK, SameStudents
<1>2. ASSUME UNCHANGED <<profile, enrol, seated>>, DeskOK', calls' \in Nat
      PROVE  RollOK' /\ EnrolmentsStand
  BY <1>2, Unwritten DEF RollOK, ProfilesOK, EnrolmentsOK, BoundsOK
<1>3. ASSUME NEW r \in DOMAIN desk, Ended(r), calls' = calls,
             SameStudents, NoSeatTaken, EnrolmentsOK', EnrolmentsStand
      PROVE  RollOK' /\ EnrolmentsStand
  <2>1. DeskOK'
    BY <1>1, <1>3, DeskShrinks DEF RollOK
  <2>2. BoundsOK'
    BY <1>3 DEF NoSeatTaken, RollOK, BoundsOK
  <2> QED
    BY <1>1, <1>3, <2>1, <2>2 DEF RollOK
<1>4. ASSUME NEW r \in DOMAIN desk, NEW d, NEW s, Ended(r), calls' = calls, enrol' = enrol,
             SameStudents, SeatTaken(d, s)
      PROVE  RollOK' /\ EnrolmentsStand
  <2>1. DeskOK'
    BY <1>1, <1>4, DeskShrinks DEF RollOK
  <2>2. BoundsOK'
    BY <1>4 DEF SeatTaken, RollOK, BoundsOK
  <2>3. EnrolmentsOK' /\ EnrolmentsStand
    BY <1>1, <1>4 DEF RollOK, EnrolmentsOK, EnrolmentsStand
  <2> QED
    BY <1>1, <1>4, <2>1, <2>2, <2>3 DEF RollOK
<1>5. ASSUME NEW r \in Requests, Create(r)
      PROVE  RollOK' /\ EnrolmentsStand
  <2>1. PICK q : q = desk[r]
    OBVIOUS
  <2>2. /\ Ended(r) /\ calls' = calls /\ DOMAIN profile \subseteq DOMAIN profile'
        /\ ProfilesOK' /\ EnrolmentsOK' /\ EnrolmentsStand
        /\ \/ UNCHANGED <<profile, enrol, seated>> /\ Taken(q.app)
           \/ \E s \in Students \ DOMAIN profile : SeatTaken(q.class, s)
    BY <1>5, <2>1, CreateEffect
  <2>3. DeskOK'
    BY <2>2, DeskShrinks DEF RollOK
  <2>4. BoundsOK'
    BY <2>2 DEF SeatTaken, RollOK, BoundsOK
  <2> QED
    BY <2>2, <2>3, <2>4 DEF RollOK
<1>6. ASSUME NEW r \in Requests, CountSeats(r) \/ GuardPromotion(r)
      PROVE  RollOK' /\ EnrolmentsStand
  <2>1. /\ UNCHANGED <<profile, enrol, calls, seated>> /\ r \in DOMAIN desk
        /\ Ended(r) \/ \E q : desk' = [desk EXCEPT ![r] = q] /\ Sound(q, DOMAIN profile)
    BY <1>6, AdvanceEffect
  <2>2. DeskOK'
    BY <2>1, DeskShrinks, DeskAdvances DEF RollOK
  <2> QED
    BY <1>2, <2>1, <2>2 DEF RollOK, BoundsOK
<1>7. ASSUME UNCHANGED <<enrol, desk>>, SameStudents, NoSeatTaken, calls' \in Nat
      PROVE  RollOK' /\ EnrolmentsStand
  <2>1. DeskOK'
    BY <1>1, <1>7, DeskShrinks DEF RollOK
  <2>2. BoundsOK'
    BY <1>7 DEF NoSeatTaken, RollOK, BoundsOK
  <2>3. EnrolmentsOK' /\ EnrolmentsStand
    BY <1>1, <1>7 DEF RollOK, EnrolmentsOK, EnrolmentsStand
  <2> QED
    BY <1>1, <1>7, <2>1, <2>2, <2>3 DEF RollOK
<1>8. ASSUME NEW r \in Requests, RollRequest(r) \/ \E a \in Admitted : Admit(r, a)
      PROVE  RollOK' /\ EnrolmentsStand
  <2>1. PICK q : Arrive(r, q) /\ Sound(q, DOMAIN profile) /\ UNCHANGED <<profile, enrol, seated>>
    BY <1>8, RequestEffect
  <2>2. DeskOK' /\ calls' \in Nat
    BY <2>1, DeskTakes DEF RollOK
  <2> QED
    BY <1>2, <2>1, <2>2
<1> QED
  BY <1>3, <1>4, <1>5, <1>6, <1>7, <1>8, RollKinds

-----------------------------------------------------------------------------
(* Seats. *)

LocksExclude ==
    \A r, p \in DOMAIN desk :
        desk[r].at = "WRITE" /\ desk[p].at = "WRITE" /\ desk[r].class = desk[p].class => r = p

\* A request that is about to write still finds the seat that it counted.
WritersHaveRoom ==
    \A r \in DOMAIN desk : desk[r].at = "WRITE" /\ ~Exempt(desk[r]) =>
        Cardinality(Counted(desk[r].class)) < Capacity[desk[r].class]

SeatsOK == LocksExclude /\ WritersHaveRoom /\ SeatsAreChecked

LEMMA CountedIsFinite ==
  ASSUME RollOK, NEW c
  PROVE  IsFiniteSet(Counted(c)) /\ Cardinality(Counted(c)) \in Nat
<1>1. Counted(c) \subseteq Students
  BY DEF Counted, OnRoll, RollOK, ProfilesOK
<1> QED
  BY <1>1, RollStudentsAssumption, FS_Subset, FS_CardinalityType

LEMMA CountedMoves ==
  ASSUME RollOK, RollOK', NEW c \in Classes
  PROVE  /\ Cardinality(Counted(c)) \in Nat /\ Cardinality(Counted(c))' \in Nat
         /\ Counted(c)' \subseteq Counted(c) => Cardinality(Counted(c))' <= Cardinality(Counted(c))
         /\ \A s : Counted(c)' \subseteq Counted(c) \cup {s} =>
               Cardinality(Counted(c))' <= Cardinality(Counted(c)) + 1
<1>1. PICK S, T : S = Counted(c) /\ T = Counted(c)'
  OBVIOUS
<1>2. Cardinality(Counted(c))' = Cardinality(T)
  BY <1>1
<1>3. IsFiniteSet(S) /\ Cardinality(S) \in Nat
  BY <1>1, CountedIsFinite
<1>4. T \subseteq Students
  BY <1>1, CountedNext DEF RollOK, ProfilesOK
<1>5. IsFiniteSet(T) /\ Cardinality(T) \in Nat
  BY <1>4, RollStudentsAssumption, FS_Subset, FS_CardinalityType
<1>6. T \subseteq S => Cardinality(T) <= Cardinality(S)
  BY <1>3, FS_Subset
<1>7. ASSUME NEW s, T \subseteq S \cup {s}
      PROVE  Cardinality(T) <= Cardinality(S) + 1
  <2>1. CASE s \in S
    <3>1. T \subseteq S
      BY <1>7, <2>1
    <3> QED
      BY <1>3, <1>5, <1>6, <3>1
  <2>2. CASE s \notin S
    <3>1. IsFiniteSet(S \cup {s}) /\ Cardinality(S \cup {s}) = Cardinality(S) + 1
      BY <1>3, <2>2, FS_AddElement
    <3> QED
      BY <1>5, <1>7, <3>1, FS_Subset
  <2> QED
    BY <2>1, <2>2
<1> QED
  BY <1>1, <1>2, <1>3, <1>5, <1>6, <1>7

LEMMA SeatsStay ==
  ASSUME RollOK, RollOK', NEW Admitted \in SUBSET Applications, RollNext(Admitted), SeatsOK
  PROVE  SeatsOK'
<1> DEFINE Full(c) == Cardinality(Counted(c))' <= Capacity[c]
           Room(q) == Cardinality(Counted(q.class))' < Capacity[q.class]
<1>1. SeatsAreChecked' <=> \A c \in Classes : Full(c)
  BY DEF SeatsAreChecked
<1>2. ASSUME \A r \in DOMAIN desk' : \A q : q = desk'[r] /\ q.at = "WRITE" /\ ~Exempt(q) => Room(q)
      PROVE  WritersHaveRoom'
  <2>1. SUFFICES ASSUME NEW r \in DOMAIN desk', (desk[r].at = "WRITE" /\ ~Exempt(desk[r]))'
                 PROVE  (Cardinality(Counted(desk[r].class)) < Capacity[desk[r].class])'
    BY DEF WritersHaveRoom
  <2>2. PICK q : q = desk'[r]
    OBVIOUS
  <2>3. Room(q)
    BY <1>2, <2>1, <2>2 DEF Exempt
  <2> QED
    BY <2>2, <2>3 DEF Room, Counted, OnRoll
<1>3. LocksExclude' <=>
        \A r, p \in DOMAIN desk' :
           desk'[r].at = "WRITE" /\ desk'[p].at = "WRITE" /\ desk'[r].class = desk'[p].class => r = p
  BY DEF LocksExclude
<1>4. \A c \in Classes : Capacity[c] \in Nat
  BY RollClassesAssumption
<1>5. \A r \in DOMAIN desk : desk[r].at = "WRITE" => desk[r].class \in Classes
  BY RequestKinds, SeatRow DEF RollOK
<1>6. \A c \in Classes : Cardinality(Counted(c)) \in Nat /\ Cardinality(Counted(c))' \in Nat
  BY CountedMoves
<1> HIDE DEF Full, Room
\* The seats that are counted become fewer: all that was checked still holds.
<1>7. ASSUME NEW c \in Classes, Counted(c)' \subseteq Counted(c)
      PROVE  /\ Full(c)
             /\ \A q : q.class = c /\ Cardinality(Counted(c)) < Capacity[c] => Room(q)
  <2>1. Cardinality(Counted(c))' <= Cardinality(Counted(c))
    BY <1>7, CountedMoves
  <2>2. Cardinality(Counted(c)) <= Capacity[c]
    BY DEF SeatsOK, SeatsAreChecked
  <2>3. Full(c)
    BY <1>4, <1>6, <2>1, <2>2 DEF Full
  <2>4. Cardinality(Counted(c)) < Capacity[c] => Cardinality(Counted(c))' < Capacity[c]
    BY <1>4, <1>6, <2>1
  <2> QED
    BY <2>3, <2>4 DEF Room
<1>8. ASSUME NoSeatTaken,
             \A r \in DOMAIN desk' : desk'[r].at = "WRITE" => r \in DOMAIN desk /\ desk'[r] = desk[r]
      PROVE  SeatsOK'
  <2>1. \A c \in Classes : Full(c)
    BY <1>7, <1>8 DEF NoSeatTaken
  <2>2. ASSUME NEW r \in DOMAIN desk', NEW q, q = desk'[r], q.at = "WRITE", ~Exempt(q)
        PROVE  Room(q)
    <3>2. r \in DOMAIN desk /\ desk[r] = q /\ q.class \in Classes
      BY <1>5, <1>8, <2>2
    <3>3. Cardinality(Counted(q.class)) < Capacity[q.class]
      BY <2>2, <3>2 DEF SeatsOK, WritersHaveRoom
    <3> QED
      BY <1>7, <1>8, <3>2, <3>3 DEF NoSeatTaken
  <2>3. LocksExclude'
    BY <1>3, <1>8 DEF SeatsOK, LocksExclude
  <2> QED
    BY <1>1, <1>2, <2>1, <2>2, <2>3 DEF SeatsOK
<1>9. ASSUME NEW r \in DOMAIN desk, NEW s, NEW d, desk[r].at = "WRITE", ~Exempt(desk[r]), Ended(r),
             d = desk[r].class, SeatTaken(d, s)
      PROVE  SeatsOK'
  <2>2. d \in Classes /\ Cardinality(Counted(d)) < Capacity[d]
    BY <1>5, <1>9 DEF SeatsOK, WritersHaveRoom
  <2>3. Cardinality(Counted(d))' <= Cardinality(Counted(d)) + 1
    <3>1. Counted(d)' \subseteq Counted(d) \cup {s}
      BY <1>9, <2>2 DEF SeatTaken
    <3> QED
      BY <2>2, <3>1, CountedMoves
  <2>4. Full(d)
    BY <1>4, <1>6, <2>2, <2>3 DEF Full
  <2>5. \A c \in Classes \ {d} : Counted(c)' \subseteq Counted(c)
    BY <1>9 DEF SeatTaken
  <2>6. \A c \in Classes : Full(c)
    BY <1>7, <2>4, <2>5
  <2>7. \A p \in DOMAIN desk' : p \in DOMAIN desk /\ p /= r /\ desk'[p] = desk[p]
    BY <1>9 DEF Ended, Without
  <2>8. ASSUME NEW p \in DOMAIN desk', NEW q, q = desk'[p], q.at = "WRITE", ~Exempt(q)
        PROVE  Room(q)
    <3>2. p \in DOMAIN desk /\ p /= r /\ desk[p] = q /\ q.class \in Classes
      BY <1>5, <2>7, <2>8
    <3>3. q.class /= d
      BY <1>9, <2>8, <3>2 DEF SeatsOK, LocksExclude
    <3>4. Cardinality(Counted(q.class)) < Capacity[q.class]
      BY <2>8, <3>2 DEF SeatsOK, WritersHaveRoom
    <3> QED
      BY <1>7, <2>5, <3>2, <3>3, <3>4
  <2>9. LocksExclude'
    BY <1>3, <2>7 DEF SeatsOK, LocksExclude
  <2> QED
    BY <1>1, <1>2, <2>6, <2>8, <2>9 DEF SeatsOK
<1>10. ASSUME NEW r, Ended(r), NoSeatTaken
       PROVE  SeatsOK'
  <2>1. \A p \in DOMAIN desk' : p \in DOMAIN desk /\ desk'[p] = desk[p]
    BY <1>10 DEF Ended, Without
  <2> QED
    BY <1>8, <1>10, <2>1
<1>11. ASSUME NEW r \in Requests, Create(r)
       PROVE  SeatsOK'
  <2>1. PICK q : q = desk[r]
    OBVIOUS
  <2>2. /\ Ended(r) /\ r \in DOMAIN desk /\ q.at = "WRITE" /\ ~Exempt(q)
        /\ UNCHANGED <<profile, enrol, seated>> \/ \E s \in Students \ DOMAIN profile : SeatTaken(q.class, s)
    BY <1>11, <2>1, CreateEffect
  <2> QED
    BY <1>9, <1>10, <2>1, <2>2, Unwritten
<1>12. ASSUME NEW r \in Requests, CountSeats(r) \/ GuardPromotion(r)
       PROVE  SeatsOK'
  <2>1. UNCHANGED <<profile, enrol, seated>> /\ r \in DOMAIN desk
    BY <1>12, AdvanceEffect
  <2>2. NoSeatTaken
    BY <2>1, Unwritten
  <2>3. ASSUME NEW q, desk' = [desk EXCEPT ![r] = q], q.at /= "WRITE"
        PROVE  SeatsOK'
    BY <1>8, <2>1, <2>2, <2>3
  <2>4. ASSUME NEW q, desk' = [desk EXCEPT ![r] = q], q.at = "WRITE", desk[r] \in SeatRequests,
               q.class = desk[r].class, LockFree(desk[r].class),
               Exempt(q) \/ Cardinality(OnRoll(q.class)) < Capacity[q.class]
        PROVE  SeatsOK'
    <3>1. PICK d \in Classes : d = q.class
      BY <2>4, SeatRow
    <3>2. \A c \in Classes : Full(c) /\ Counted(c)' \subseteq Counted(c)
      BY <1>7, <2>2 DEF NoSeatTaken
    <3>3. \A p \in DOMAIN desk : ~(desk[p].at = "WRITE" /\ desk[p].class = d)
      BY <2>4, <3>1 DEF LockFree
    <3>4. ~Exempt(q) => Room(q)
      <4>1. SUFFICES ASSUME Cardinality(OnRoll(d)) < Capacity[d]
                     PROVE  Room(q)
        BY <2>4, <3>1
      <4>2. Counted(d) \subseteq OnRoll(d) /\ OnRoll(d) \subseteq Students
        BY DEF Counted, OnRoll, RollOK, ProfilesOK
      <4>3. IsFiniteSet(OnRoll(d)) /\ Cardinality(OnRoll(d)) \in Nat
        BY <4>2, RollStudentsAssumption, FS_Subset, FS_CardinalityType
      <4>4. Cardinality(Counted(d)) <= Cardinality(OnRoll(d))
        BY <4>2, <4>3, FS_Subset
      <4>5. Cardinality(Counted(d)) < Capacity[d]
        BY <1>4, <1>6, <4>1, <4>3, <4>4
      <4> QED
        BY <1>7, <3>1, <3>2, <4>5
    <3>5. DOMAIN desk' = DOMAIN desk /\ desk'[r] = q /\ \A p \in DOMAIN desk \ {r} : desk'[p] = desk[p]
      BY <2>1, <2>4
    <3>6. ASSUME NEW p \in DOMAIN desk', NEW x, x = desk'[p], x.at = "WRITE", ~Exempt(x)
          PROVE  Room(x)
      <4>1. CASE p = r
        BY <3>4, <3>5, <3>6, <4>1
      <4>2. CASE p /= r
        <5>2. p \in DOMAIN desk /\ desk[p] = x /\ x.class \in Classes
          BY <1>5, <3>5, <3>6, <4>2
        <5>3. Cardinality(Counted(x.class)) < Capacity[x.class]
          BY <3>6, <5>2 DEF SeatsOK, WritersHaveRoom
        <5> QED
          BY <1>7, <3>2, <5>2, <5>3
      <4> QED
        BY <4>1, <4>2
    <3>7. LocksExclude'
      BY <1>3, <2>4, <3>1, <3>3, <3>5 DEF SeatsOK, LocksExclude
    <3> QED
      BY <1>1, <1>2, <3>2, <3>6, <3>7 DEF SeatsOK
  <2> QED
    BY <1>10, <1>12, <2>2, <2>3, <2>4, AdvanceEffect
<1>13. ASSUME NEW r \in Requests, RollRequest(r) \/ \E a \in Admitted : Admit(r, a)
       PROVE  SeatsOK'
  <2>1. PICK q : Arrive(r, q) /\ q.at /= "WRITE" /\ UNCHANGED <<profile, enrol, seated>>
    BY <1>13, RequestEffect
  <2>2. \A p \in DOMAIN desk' : desk'[p].at = "WRITE" => p \in DOMAIN desk /\ desk'[p] = desk[p]
    BY <2>1 DEF Arrive, With
  <2> QED
    BY <1>8, <2>1, <2>2, Unwritten
<1> QED
  BY <1>8, <1>9, <1>10, <1>11, <1>12, <1>13, RollKinds

-----------------------------------------------------------------------------
(* Applications. *)

LEMMA OneStudentStays ==
  ASSUME RollOK, NEW Admitted \in SUBSET Applications, RollNext(Admitted),
         \A s, t \in DOMAIN profile : profile[s].app = profile[t].app /\ s /= t => profile[s].app = None
  PROVE  \A s, t \in DOMAIN profile' : profile'[s].app = profile'[t].app /\ s /= t => profile'[s].app = None
<1> DEFINE Goal == \A s, t \in DOMAIN profile' :
                      profile'[s].app = profile'[t].app /\ s /= t => profile'[s].app = None
<1>1. SameStudents => Goal
  BY DEF SameStudents
<1>2. ASSUME NEW r \in Requests, Create(r)
      PROVE  Goal
  <2>1. PICK q : q = desk[r]
    OBVIOUS
  <2>2. \/ profile' = profile
        \/ /\ ~Taken(q.app)
           /\ \E s \in Students \ DOMAIN profile :
                     /\ DOMAIN profile' = DOMAIN profile \cup {s} /\ profile'[s].app = q.app
                     /\ \A t \in DOMAIN profile : profile'[t] = profile[t]
    BY <1>2, <2>1, CreateEffect
  <2>3. ASSUME NEW s \in Students \ DOMAIN profile, ~Taken(q.app),
               DOMAIN profile' = DOMAIN profile \cup {s}, profile'[s].app = q.app,
               \A t \in DOMAIN profile : profile'[t] = profile[t]
        PROVE  Goal
    <3>1. q.app = None \/ \A t \in DOMAIN profile : profile[t].app /= q.app
      BY <2>3 DEF Taken, HasStudent
    <3>2. ASSUME NEW t \in DOMAIN profile', NEW u \in DOMAIN profile',
                 profile'[t].app = profile'[u].app, t /= u
          PROVE  profile'[t].app = None
      <4>1. CASE t = s
        BY <2>3, <3>1, <3>2, <4>1
      <4>2. CASE u = s
        BY <2>3, <3>1, <3>2, <4>2
      <4>3. CASE t \in DOMAIN profile /\ u \in DOMAIN profile
        BY <2>3, <3>2, <4>3
      <4> QED
        BY <2>3, <4>1, <4>2, <4>3
    <3> QED
      BY <3>2
  <2> QED
    BY <2>2, <2>3
<1>3. ASSUME UNCHANGED profile
      PROVE  Goal
  BY <1>3
<1> HIDE DEF Goal
<1>4. Goal
  BY <1>1, <1>2, <1>3, RollKinds, AdvanceEffect, RequestEffect
<1> QED
  BY <1>4 DEF Goal

\* Students come of requests, and a request with an application is an applicant's.
LEMMA ApplicantsCome ==
  ASSUME RollOK, NEW Admitted \in SUBSET Applications, RollNext(Admitted)
  PROVE  /\ \A s \in DOMAIN profile' :
               \/ s \in DOMAIN profile /\ profile'[s].app = profile[s].app
               \/ \E r \in DOMAIN desk : desk[r] \in SeatRequests /\ profile'[s].app = desk[r].app
         /\ \A r \in DOMAIN desk' : desk'[r] \in SeatRequests /\ desk'[r].app /= None =>
               \/ r \in DOMAIN desk /\ desk[r] \in SeatRequests /\ desk[r].app = desk'[r].app
               \/ desk'[r].app \in Admitted
<1> DEFINE Students1 == \A s \in DOMAIN profile' :
               \/ s \in DOMAIN profile /\ profile'[s].app = profile[s].app
               \/ \E r \in DOMAIN desk : desk[r] \in SeatRequests /\ profile'[s].app = desk[r].app
           Desk1 == \A r \in DOMAIN desk' : desk'[r] \in SeatRequests /\ desk'[r].app /= None =>
               \/ r \in DOMAIN desk /\ desk[r] \in SeatRequests /\ desk[r].app = desk'[r].app
               \/ desk'[r].app \in Admitted
<1>1. SameStudents => Students1
  BY DEF SameStudents
<1>2. (desk' = desk \/ \E r : Ended(r)) => Desk1
  BY DEF Ended, Without
<1>3. profile' = profile => Students1
  OBVIOUS
<1> HIDE DEF Students1
<1>4. ASSUME NEW r \in Requests, Create(r)
      PROVE  Students1 /\ Desk1
  <2>1. PICK q : q = desk[r]
    OBVIOUS
  <2>2. /\ Ended(r) /\ r \in DOMAIN desk /\ q \in SeatRequests
        /\ \/ profile' = profile
           \/ \E s \in Students \ DOMAIN profile :
                     /\ DOMAIN profile' = DOMAIN profile \cup {s} /\ profile'[s].app = q.app
                     /\ \A t \in DOMAIN profile : profile'[t] = profile[t]
    BY <1>4, <2>1, CreateEffect
  <2> QED
    BY <1>2, <1>3, <2>1, <2>2 DEF Students1
<1>5. ASSUME NEW r \in Requests, CountSeats(r) \/ GuardPromotion(r)
      PROVE  Students1 /\ Desk1
  <2>1. /\ profile' = profile /\ r \in DOMAIN desk
        /\ \/ Ended(r)
           \/ \E q : /\ desk' = [desk EXCEPT ![r] = q]
                     /\ q \in SeatRequests => desk[r] \in SeatRequests /\ q.app = desk[r].app
    BY <1>5, AdvanceEffect
  <2>2. ASSUME NEW q, desk' = [desk EXCEPT ![r] = q],
               q \in SeatRequests => desk[r] \in SeatRequests /\ q.app = desk[r].app
        PROVE  Desk1
    BY <2>1, <2>2
  <2> QED
    BY <1>2, <1>3, <2>1, <2>2
<1>6. ASSUME NEW r \in Requests, RollRequest(r) \/ \E a \in Admitted : Admit(r, a)
      PROVE  Students1 /\ Desk1
  <2>1. PICK q : /\ Arrive(r, q) /\ profile' = profile
                 /\ q \in SeatRequests /\ q.app /= None => q.app \in Admitted
    BY <1>6, RequestEffect
  <2>2. Desk1
    BY <2>1 DEF Arrive, With
  <2> QED
    BY <1>3, <2>1, <2>2
<1> HIDE DEF Desk1
<1>7. Students1 /\ Desk1
  BY <1>1, <1>2, <1>4, <1>5, <1>6, RollKinds
<1> QED
  BY <1>7 DEF Students1, Desk1

-----------------------------------------------------------------------------
(* The roll at first. *)

LEMMA RollStarts ==
  ASSUME RollInit, calls \in Nat
  PROVE  /\ RollOK /\ SeatsOK
         /\ \A s \in DOMAIN profile : profile[s].app = None
<1>1. /\ profile \in [Roll -> Profiles] /\ \A s \in Roll : profile[s].app = None
      /\ Roll \subseteq Students /\ seated = Roll /\ DOMAIN desk = {}
  BY RollStudentsAssumption DEF RollInit, NoRows
<1>2. ProfilesOK /\ DeskOK /\ BoundsOK
  BY <1>1 DEF ProfilesOK, DeskOK, BoundsOK
<1>3. EnrolmentsOK
  <2>1. PICK First : First = {y \in Sessions : \A z \in Sessions : y <= z}
    OBVIOUS
  <2>2. First \subseteq Sessions
    BY <2>1
  <2>3. enrol = [k \in Roll \X First |-> [class |-> profile[k[1]].class, outcome |-> "IN_PROGRESS"]]
    BY <2>1 DEF RollInit
  <2>4. ASSUME NEW k \in Roll \X First
        PROVE  enrol[k] \in Enrolments
    <3>1. PICK c \in Classes : c = profile[k[1]].class
      BY <1>1, <2>4, ProfileRow
    <3>2. enrol[k] = [class |-> c, outcome |-> "IN_PROGRESS"]
      BY <2>3, <2>4, <3>1
    <3> QED
      BY <3>2 DEF Enrolments, Outcomes
  <2>5. DOMAIN enrol = Roll \X First
    BY <2>3
  <2>6. enrol \in [DOMAIN enrol -> Enrolments]
    BY <2>3, <2>4, <2>5
  <2>7. DOMAIN enrol \subseteq (DOMAIN profile) \X Sessions
    BY <1>1, <2>2, <2>5
  <2> QED
    BY <2>6, <2>7 DEF EnrolmentsOK
<1>4. SeatsAreChecked
  <2> SUFFICES ASSUME NEW c \in Classes
               PROVE  Cardinality(Counted(c)) <= Capacity[c]
    BY DEF SeatsAreChecked
  <2>1. Counted(c) \subseteq OnRoll(c) /\ OnRoll(c) \subseteq Students
    BY <1>1 DEF Counted, OnRoll
  <2>2. IsFiniteSet(OnRoll(c))
    BY <2>1, RollStudentsAssumption, FS_Subset
  <2>3. Cardinality(Counted(c)) \in Nat /\ Cardinality(OnRoll(c)) \in Nat
    BY <2>1, <2>2, FS_Subset, FS_CardinalityType
  <2>4. Cardinality(Counted(c)) <= Cardinality(OnRoll(c))
    BY <2>1, <2>2, FS_Subset
  <2>5. Cardinality(OnRoll(c)) <= Capacity[c] /\ Capacity[c] \in Nat
    BY RollClassesAssumption DEF RollInit
  <2> QED
    BY <2>3, <2>4, <2>5
<1>5. LocksExclude /\ WritersHaveRoom
  BY <1>1 DEF LocksExclude, WritersHaveRoom
<1> QED
  BY <1>1, <1>2, <1>3, <1>4, <1>5 DEF RollOK, SeatsOK

-----------------------------------------------------------------------------
(* Applications and their fees. *)

\* A request that is about to post a charge has seen it.
Backed(q) == q.at = "WRITE" /\ q.op \in {"EVENT", "SUBMIT"} => q.ref \in charged

AppsOK == app \in [DOMAIN app -> ApplicationRows] /\ DOMAIN app \subseteq Applications
OfficeOK ==
    /\ office \in [DOMAIN office -> OfficeRows] /\ DOMAIN office \subseteq Requests
    /\ \A r \in DOMAIN office : office[r].app \in DOMAIN app /\ Backed(office[r])
CardsOK ==
    /\ handed \in [DOMAIN handed -> Applications] /\ DOMAIN handed \subseteq Cards
    /\ charged \subseteq DOMAIN handed /\ acked \subseteq charged /\ issue \subseteq acked
FeesOK ==
    /\ fee \in [DOMAIN fee -> FeeRows] /\ DOMAIN fee \subseteq DOMAIN app
    /\ cash \subseteq DOMAIN app /\ visits \in Nat

FeeOK == AppsOK /\ OfficeOK /\ CardsOK /\ FeesOK

\* The application's row, a request or what the family was given has the reference.
Refers(ref, a) ==
    \/ a \in DOMAIN app /\ app[a].ref = ref
    \/ \E r \in DOMAIN office : office[r].ref = ref /\ office[r].app = a
    \/ ref \in DOMAIN handed /\ handed[ref] = a

Fresh(ref) == \A a : ~Refers(ref, a)

RefsAreOwn == \A ref \in Cards : \A a, b : Refers(ref, a) /\ Refers(ref, b) => a = b

-----------------------------------------------------------------------------
(* Rows. *)

LEMMA AppRow ==
  ASSUME NEW row \in ApplicationRows
  PROVE  row.paid \in BOOLEAN /\ row.ref \in References \cup {None}
BY DEF ApplicationRows

LEMMA AppRowNew ==
  ASSUME NEW status \in {"DRAFT", "PENDING_REVIEW", "APPROVED"}, NEW paid \in BOOLEAN,
         NEW ref \in References \cup {None}, NEW new, new = NewRow(status, paid, ref)
  PROVE  new \in ApplicationRows /\ new.paid = paid /\ new.ref = ref
BY DEF ApplicationRows, NewRow

LEMMA AppRowReviewed ==
  ASSUME NEW row \in ApplicationRows, NEW status \in {"DRAFT", "PENDING_REVIEW", "APPROVED"},
         NEW new, new = [row EXCEPT !.status = status]
  PROVE  new \in ApplicationRows /\ new.paid = row.paid /\ new.ref = row.ref
BY DEF ApplicationRows

StartForm(row, ref) == [[row EXCEPT !.paid = FALSE] EXCEPT !.ref = ref]
PaidForm(row, ref, status) == [[[row EXCEPT !.paid = TRUE] EXCEPT !.ref = ref] EXCEPT !.status = status]

LEMMA AppRowStarts ==
  ASSUME NEW row \in ApplicationRows, NEW ref \in References, NEW new, new = StartForm(row, ref)
  PROVE  new \in ApplicationRows /\ ~new.paid /\ new.ref = ref
BY DEF ApplicationRows, StartForm

LEMMA AppRowPaid ==
  ASSUME NEW row \in ApplicationRows, NEW ref \in References,
         NEW status \in {"DRAFT", "PENDING_REVIEW", "APPROVED"}, NEW new, new = PaidForm(row, ref, status)
  PROVE  new \in ApplicationRows /\ new.paid /\ new.ref = ref
BY DEF ApplicationRows, PaidForm

LEMMA FeeRow ==
  ASSUME NEW paid \in BOOLEAN, NEW ref \in References
  PROVE  [paid |-> paid, ref |-> ref] \in FeeRows
BY DEF FeeRows

LEMMA OfficeRow ==
  ASSUME NEW q \in OfficeRows
  PROVE  /\ q.op \in {"START", "EVENT", "SUBMIT", "DESK"} /\ q.at \in {"APP", "ROW", "VERIFY", "WRITE"}
         /\ q.app \in Applications /\ q.ref \in References /\ q.had \in BOOLEAN
BY DEF OfficeRows

Request(op, at, a, ref, had) == [op |-> op, at |-> at, app |-> a, ref |-> ref, had |-> had]

LEMMA OfficeRowNew ==
  ASSUME NEW op \in {"START", "EVENT", "SUBMIT", "DESK"}, NEW at \in {"APP", "ROW", "VERIFY", "WRITE"},
         NEW a \in Applications, NEW ref \in References, NEW had \in BOOLEAN,
         NEW q, q = Request(op, at, a, ref, had)
  PROVE  q \in OfficeRows /\ q.op = op /\ q.at = at /\ q.app = a /\ q.ref = ref
BY DEF OfficeRows, Request

LEMMA OfficeRowAdvances ==
  ASSUME NEW q \in OfficeRows, NEW at \in {"APP", "ROW", "VERIFY", "WRITE"}, NEW new, new = [q EXCEPT !.at = at]
  PROVE  new \in OfficeRows /\ new.at = at /\ new.op = q.op /\ new.app = q.app /\ new.ref = q.ref
BY DEF OfficeRows

-----------------------------------------------------------------------------
(* What a step does to the applications, the requests and the money. *)

\* A request that has seen the charge is about to write the application.
Posting(a) ==
    \E r \in DOMAIN office :
        office[r].app = a /\ office[r].at = "WRITE" /\ office[r].op \in {"EVENT", "SUBMIT"}

AppMoves ==
    \/ app' = app
    \/ \E a \in Applications \ DOMAIN app, new \in ApplicationRows :
          /\ app' = With(app, a, new)
          /\ new.ref \notin Cards /\ (new.paid => a \in cash')
    \/ \E a \in DOMAIN app, new \in ApplicationRows :
          /\ app' = [app EXCEPT ![a] = new]
          /\ \/ new.ref = app[a].ref
             \/ \E r \in DOMAIN office : office[r].app = a /\ office[r].ref = new.ref
          /\ new.paid => (app[a].paid \/ a \in cash' \/ Posting(a))

OfficeMoves ==
    \/ office' = office
    \/ \E r : Done(r)
    \/ \E r \in DOMAIN office, new \in OfficeRows :
          /\ office' = [office EXCEPT ![r] = new] /\ Backed(new)
          /\ new.app = office[r].app /\ new.ref = office[r].ref
    \/ \E r \in Requests, new \in OfficeRows :
          /\ office' = With(office, r, new) /\ Backed(new)
          /\ new.app \in DOMAIN app
          /\ new.ref = Offline \/ app[new.app].ref = new.ref \/ Fresh(new.ref)

HandedMoves ==
    \/ handed' = handed
    \/ \E r \in DOMAIN office, ref \in Cards, a \in Applications :
          office[r].ref = ref /\ office[r].app = a /\ handed' = With(handed, ref, a)

MoneyMoves ==
    /\ charged' = charged \/ \E ref \in DOMAIN handed : charged' = charged \cup {ref}
    /\ acked' = acked \/ \E ref \in charged : acked' = acked \cup {ref}
    /\ issue' = issue \/ \E ref : issue' = issue \cup {ref} /\ acked' = acked \cup {ref}
    /\ fee' = fee \/ \E a \in DOMAIN app', row \in FeeRows : fee' = With(fee, a, row)
    /\ cash' = cash \/ \E a \in DOMAIN app' : cash' = cash \cup {a}
    /\ visits' \in Nat

Moves == AppMoves /\ OfficeMoves /\ HandedMoves /\ MoneyMoves

-----------------------------------------------------------------------------

\* Nothing is paid and nobody visits.
LEMMA NoMoneyMoves ==
  ASSUME FeeOK, UNCHANGED <<fee, paystackVars, cash>>, visits' = visits \/ OneMore
  PROVE  HandedMoves /\ MoneyMoves
BY DEF FeeOK, FeesOK, OneMore, HandedMoves, MoneyMoves, paystackVars

LEMMA StillMoves ==
  ASSUME FeeOK, UNCHANGED feeVars
  PROVE  Moves
BY NoMoneyMoves DEF feeVars, Moves, AppMoves, OfficeMoves

LEMMA DraftMoves ==
  ASSUME FeeOK, NEW a \in Applications, Draft(a)
  PROVE  Moves
<1>1. PICK status \in {"DRAFT", "PENDING_REVIEW", "APPROVED"}, paid \in BOOLEAN, ref \in References \cup {None} :
         status = "DRAFT" /\ paid = FALSE /\ ref = None
  OBVIOUS
<1>2. PICK new : new = NewRow(status, paid, ref)
  OBVIOUS
<1>3. new \in ApplicationRows /\ ~new.paid /\ new.ref = None
  BY <1>1, <1>2, AppRowNew
<1>4. a \notin DOMAIN app /\ app' = With(app, a, new) /\ UNCHANGED <<office, fee, paystackVars, cash, visits>>
  BY <1>1, <1>2 DEF Draft
<1>5. AppMoves
  BY <1>3, <1>4, OfflineAssumption DEF AppMoves
<1> QED
  BY <1>4, <1>5, NoMoneyMoves DEF Moves, OfficeMoves

LEMMA PaperMoves ==
  ASSUME FeeOK, NEW a \in Applications, NEW paid \in BOOLEAN, Paper(a, paid)
  PROVE  Moves
<1>1. PICK status \in {"DRAFT", "PENDING_REVIEW", "APPROVED"}, ref \in References \cup {None} :
         status = "PENDING_REVIEW" /\ ref = IF paid THEN Offline ELSE None
  BY DEF References
<1>2. PICK new : new = NewRow(status, paid, ref)
  OBVIOUS
<1>3. new \in ApplicationRows /\ new.paid = paid /\ new.ref = ref
  BY <1>1, <1>2, AppRowNew
<1>4. /\ a \notin DOMAIN app /\ app' = With(app, a, new)
      /\ fee' = IF paid THEN With(fee, a, [paid |-> TRUE, ref |-> Offline]) ELSE fee
      /\ cash' = IF paid THEN cash \cup {a} ELSE cash
      /\ UNCHANGED <<office, paystackVars, visits>>
  BY <1>1, <1>2 DEF Paper
<1>5. ref \notin Cards
  BY <1>1, OfflineAssumption
<1>6. AppMoves
  BY <1>3, <1>4, <1>5 DEF AppMoves
<1>7. PICK row : row = [paid |-> TRUE, ref |-> Offline]
  OBVIOUS
<1>8. row \in FeeRows
  BY <1>7, FeeRow DEF References
<1>9. a \in DOMAIN app'
  BY <1>4 DEF With
<1>10. MoneyMoves
  BY <1>4, <1>7, <1>8, <1>9 DEF MoneyMoves, paystackVars, FeeOK, FeesOK
<1> QED
  BY <1>4, <1>6, <1>10 DEF Moves, OfficeMoves, HandedMoves, paystackVars

LEMMA ReviewMoves ==
  ASSUME FeeOK, NEW a \in Applications, Review(a)
  PROVE  Moves
<1>1. PICK status \in {"DRAFT", "PENDING_REVIEW", "APPROVED"} : app' = [app EXCEPT ![a].status = status]
  BY DEF Review
<1>2. a \in DOMAIN app /\ app[a] \in ApplicationRows
  BY DEF Review, FeeOK, AppsOK
<1>3. PICK new : new = [app[a] EXCEPT !.status = status]
  OBVIOUS
<1>4. new \in ApplicationRows /\ new.paid = app[a].paid /\ new.ref = app[a].ref
  BY <1>2, <1>3, AppRowReviewed
<1>5. AppMoves
  BY <1>1, <1>2, <1>3, <1>4 DEF AppMoves
<1> QED
  BY <1>5, NoMoneyMoves DEF Review, Moves, OfficeMoves

-----------------------------------------------------------------------------
(* Requests arrive. *)

LEMMA EnterMoves ==
  ASSUME FeeOK, NEW r \in Requests, NEW op \in {"START", "EVENT", "SUBMIT", "DESK"},
         NEW at \in {"APP", "ROW", "VERIFY", "WRITE"}, NEW a \in DOMAIN app, NEW ref \in References,
         NEW had \in BOOLEAN, Enter(r, Request(op, at, a, ref, had)),
         at = "WRITE" /\ op \in {"EVENT", "SUBMIT"} => ref \in charged,
         ref = Offline \/ app[a].ref = ref \/ Fresh(ref)
  PROVE  OfficeMoves
<1>1. a \in Applications
  BY DEF FeeOK, AppsOK
<1>2. PICK q : q = Request(op, at, a, ref, had)
  OBVIOUS
<1>3. q \in OfficeRows /\ q.op = op /\ q.at = at /\ q.app = a /\ q.ref = ref
  BY <1>1, <1>2, OfficeRowNew
<1>4. office' = With(office, r, q)
  BY <1>2 DEF Enter
<1>5. Backed(q)
  BY <1>3 DEF Backed
<1> QED
  BY <1>3, <1>4, <1>5 DEF OfficeMoves

LEMMA StartPaymentMoves ==
  ASSUME FeeOK, NEW r \in Requests, NEW a \in Applications, StartPayment(r, a)
  PROVE  Moves
<1>1. PICK ref \in Reference(a) :
         Enter(r, [op |-> "START", at |-> "APP", app |-> a, ref |-> ref, had |-> FALSE])
  BY DEF StartPayment
<1>2. a \in DOMAIN app /\ UNCHANGED <<app, fee, paystackVars, cash>> /\ OneMore
  BY DEF StartPayment
<1>3. ref \in References /\ (app[a].ref = ref \/ Fresh(ref))
  <2>1. CASE app[a].ref /= None
    <3>1. app[a] \in ApplicationRows /\ ref = app[a].ref
      BY <1>1, <1>2, <2>1 DEF Reference, FeeOK, AppsOK
    <3> QED
      BY <2>1, <3>1, AppRow
  <2>2. CASE app[a].ref = None
    <3>1. /\ ref \in Cards /\ ref \notin DOMAIN handed
          /\ \A q \in DOMAIN office : office[q].ref /= ref
          /\ \A b \in DOMAIN app : app[b].ref /= ref
      BY <1>1, <2>2 DEF Reference
    <3>2. Fresh(ref)
      BY <3>1 DEF Fresh, Refers
    <3> QED
      BY <3>1, <3>2 DEF References
  <2> QED
    BY <2>1, <2>2
<1>4. PICK op \in {"START", "EVENT", "SUBMIT", "DESK"}, at \in {"APP", "ROW", "VERIFY", "WRITE"}, had \in BOOLEAN :
         op = "START" /\ at = "APP" /\ had = FALSE
  OBVIOUS
<1>5. Enter(r, Request(op, at, a, ref, had))
  BY <1>1, <1>4 DEF Request
<1>6. OfficeMoves
  BY <1>2, <1>3, <1>4, <1>5, EnterMoves
<1> QED
  BY <1>2, <1>6, NoMoneyMoves DEF Moves, AppMoves

LEMMA SubmitMoves ==
  ASSUME FeeOK, NEW r \in Requests, NEW a \in Applications, Submit(r, a)
  PROVE  Moves
<1>1. a \in DOMAIN app /\ UNCHANGED <<app, fee, paystackVars, cash>> /\ OneMore /\ app[a].ref \in DOMAIN handed
  BY DEF Submit
<1>2. PICK ref \in References : ref = app[a].ref
  BY <1>1 DEF FeeOK, CardsOK, References
<1>3. PICK op \in {"START", "EVENT", "SUBMIT", "DESK"}, at \in {"APP", "ROW", "VERIFY", "WRITE"}, had \in BOOLEAN :
         op = "SUBMIT" /\ at = "VERIFY" /\ had = FALSE
  OBVIOUS
<1>4. Enter(r, Request(op, at, a, ref, had))
  BY <1>2, <1>3 DEF Request, Submit
<1>5. OfficeMoves
  BY <1>1, <1>2, <1>3, <1>4, EnterMoves
<1> QED
  BY <1>1, <1>5, NoMoneyMoves DEF Moves, AppMoves

LEMMA StartDeskMoves ==
  ASSUME FeeOK, NEW r \in Requests, NEW a \in Applications, StartDesk(r, a)
  PROVE  Moves
<1>1. a \in DOMAIN app /\ UNCHANGED <<app, fee, paystackVars, cash>> /\ OneMore
  BY DEF StartDesk
<1>2. PICK ref \in References : ref = Offline
  BY DEF References
<1>3. PICK op \in {"START", "EVENT", "SUBMIT", "DESK"}, at \in {"APP", "ROW", "VERIFY", "WRITE"} :
         op = "DESK" /\ at = "WRITE"
  OBVIOUS
<1>4. PICK had \in BOOLEAN : Enter(r, Request(op, at, a, ref, had))
  <2>1. HasFee(a) \in BOOLEAN
    BY DEF HasFee
  <2>2. Enter(r, Request(op, at, a, ref, HasFee(a)))
    BY <1>2, <1>3 DEF Request, StartDesk
  <2> QED
    BY <2>1, <2>2
<1>5. OfficeMoves
  BY <1>1, <1>2, <1>3, <1>4, EnterMoves
<1> QED
  BY <1>1, <1>5, NoMoneyMoves DEF Moves, AppMoves

LEMMA EventMoves ==
  ASSUME FeeOK, NEW r \in Requests, NEW ref \in Cards, Event(r, ref)
  PROVE  Moves
<1>1. /\ UNCHANGED <<app, fee, handed, charged, cash, visits>> /\ ref \in charged
      /\ \/ issue' = issue \cup {ref} /\ acked' = acked \cup {ref} /\ office' = office
         \/ /\ UNCHANGED <<acked, issue>>
            /\ \E a \in Named(ref) :
                  Enter(r, [op |-> "EVENT", at |-> "WRITE", app |-> a, ref |-> ref, had |-> FALSE])
  BY DEF Event
<1>2. ASSUME NEW a \in Named(ref),
             Enter(r, [op |-> "EVENT", at |-> "WRITE", app |-> a, ref |-> ref, had |-> FALSE])
      PROVE  OfficeMoves
  <2>1. PICK op \in {"START", "EVENT", "SUBMIT", "DESK"}, at \in {"APP", "ROW", "VERIFY", "WRITE"}, had \in BOOLEAN :
           op = "EVENT" /\ at = "WRITE" /\ had = FALSE
    OBVIOUS
  <2>2. Enter(r, Request(op, at, a, ref, had))
    BY <1>2, <2>1 DEF Request
  <2>3. a \in DOMAIN app /\ app[a].ref = ref /\ ref \in References
    BY DEF Named, References
  <2> QED
    BY <1>1, <2>2, <2>3, EnterMoves
<1>3. OfficeMoves
  BY <1>1, <1>2 DEF OfficeMoves
<1>4. MoneyMoves
  BY <1>1 DEF MoneyMoves, FeeOK, FeesOK
<1> QED
  BY <1>1, <1>3, <1>4 DEF Moves, AppMoves, HandedMoves

-----------------------------------------------------------------------------
(* Requests are worked on. *)

LEMMA WorkersRow ==
  ASSUME FeeOK, NEW r \in DOMAIN office, NEW q, q = office[r]
  PROVE  /\ q \in OfficeRows /\ q.app \in DOMAIN app /\ q.app \in Applications /\ q.ref \in References
         /\ app[q.app] \in ApplicationRows /\ Backed(q)
BY OfficeRow DEF FeeOK, OfficeOK, AppsOK

LEMMA AdvanceMoves ==
  ASSUME FeeOK, NEW r \in DOMAIN office, NEW at \in {"APP", "ROW", "VERIFY", "WRITE"}, Advance(r, at),
         office[r].op \in {"EVENT", "SUBMIT"} /\ at = "WRITE" => office[r].ref \in charged
  PROVE  OfficeMoves
<1>1. PICK new : new = [office[r] EXCEPT !.at = at]
  OBVIOUS
<1>2. office[r] \in OfficeRows
  BY DEF FeeOK, OfficeOK
<1>3. /\ new \in OfficeRows /\ new.at = at /\ new.op = office[r].op
      /\ new.app = office[r].app /\ new.ref = office[r].ref
  BY <1>1, <1>2, OfficeRowAdvances
<1>4. office' = [office EXCEPT ![r] = new]
  BY <1>1 DEF Advance
<1>5. Backed(new)
  BY <1>3 DEF Backed
<1> QED
  BY <1>3, <1>4, <1>5 DEF OfficeMoves

LEMMA DieMoves ==
  ASSUME FeeOK, NEW r, Die(r)
  PROVE  Moves
BY NoMoneyMoves DEF Die, Moves, AppMoves, OfficeMoves

LEMMA StartAppMoves ==
  ASSUME FeeOK, NEW r, StartApp(r)
  PROVE  Moves
<1>1. /\ r \in DOMAIN office /\ office[r].op = "START" /\ Advance(r, "ROW")
      /\ UNCHANGED <<fee, paystackVars, cash, visits>>
  BY DEF StartApp, Working
<1>2. PICK q : q = office[r]
  OBVIOUS
<1>3. PICK a, ref : a = q.app /\ ref = q.ref
  OBVIOUS
<1>4. a \in DOMAIN app /\ app[a] \in ApplicationRows /\ ref \in References
  BY <1>1, <1>2, <1>3, WorkersRow
<1>5. PICK new : new = StartForm(app[a], ref)
  OBVIOUS
<1>6. new \in ApplicationRows /\ ~new.paid /\ new.ref = ref
  BY <1>4, <1>5, AppRowStarts
<1>7. app' = [app EXCEPT ![a] = new]
  BY <1>2, <1>3, <1>4, <1>5 DEF StartApp, StartForm, FeeOK, AppsOK
<1>8. AppMoves
  BY <1>1, <1>2, <1>3, <1>4, <1>6, <1>7 DEF AppMoves
<1>9. PICK at \in {"APP", "ROW", "VERIFY", "WRITE"} : at = "ROW"
  OBVIOUS
<1>10. OfficeMoves
  BY <1>1, <1>9, AdvanceMoves
<1> QED
  BY <1>1, <1>8, <1>10, NoMoneyMoves DEF Moves

LEMMA StartRowMoves ==
  ASSUME FeeOK, NEW r, StartRow(r)
  PROVE  Moves
<1>1. PICK q : q = office[r]
  OBVIOUS
<1>2. PICK a, ref : a = q.app /\ ref = q.ref
  OBVIOUS
<1>3. /\ r \in DOMAIN office /\ Done(r) /\ fee' = With(fee, a, [paid |-> FALSE, ref |-> ref])
      /\ handed' = IF ref \in Cards THEN With(handed, ref, a) ELSE handed
      /\ UNCHANGED <<app, charged, acked, issue, cash, visits>>
  BY <1>1, <1>2 DEF StartRow, Working
<1>4. a \in DOMAIN app /\ a \in Applications /\ ref \in References
  BY <1>1, <1>2, <1>3, WorkersRow
<1>5. PICK row : row = [paid |-> FALSE, ref |-> ref]
  OBVIOUS
<1>6. row \in FeeRows
  BY <1>4, <1>5, FeeRow
<1>7. MoneyMoves
  BY <1>3, <1>4, <1>5, <1>6 DEF MoneyMoves, FeeOK, FeesOK
<1>8. HandedMoves
  BY <1>1, <1>2, <1>3, <1>4 DEF HandedMoves
<1> QED
  BY <1>3, <1>7, <1>8 DEF Moves, AppMoves, OfficeMoves

LEMMA VerifyMoves ==
  ASSUME FeeOK, NEW r, Verify(r)
  PROVE  Moves
<1>1. /\ r \in DOMAIN office /\ UNCHANGED <<app, fee, paystackVars, cash, visits>>
      /\ IF office[r].ref \in charged THEN Advance(r, "WRITE") ELSE Done(r)
  BY DEF Verify, Working
<1>2. PICK at \in {"APP", "ROW", "VERIFY", "WRITE"} : at = "WRITE"
  OBVIOUS
<1>3. CASE office[r].ref \in charged
  <2>1. Advance(r, at)
    BY <1>1, <1>2, <1>3
  <2>2. OfficeMoves
    BY <1>1, <1>3, <2>1, AdvanceMoves
  <2> QED
    BY <1>1, <2>2, NoMoneyMoves DEF Moves, AppMoves
<1>4. CASE office[r].ref \notin charged
  <2>1. OfficeMoves
    BY <1>1, <1>4 DEF OfficeMoves
  <2> QED
    BY <1>1, <2>1, NoMoneyMoves DEF Moves, AppMoves
<1> QED
  BY <1>3, <1>4

\* The application and its fee row are written paid.
LEMMA PaidMoves ==
  ASSUME FeeOK, NEW r \in DOMAIN office, NEW q, q = office[r], Paid(q)
  PROVE  \E new \in ApplicationRows, row \in FeeRows :
            /\ app' = [app EXCEPT ![q.app] = new] /\ new.ref = q.ref
            /\ fee' = With(fee, q.app, row)
<1>1. PICK a, ref : a = q.app /\ ref = q.ref
  OBVIOUS
<1>2. a \in DOMAIN app /\ app[a] \in ApplicationRows /\ ref \in References
  BY <1>1, WorkersRow
<1>3. PICK status \in {"DRAFT", "PENDING_REVIEW", "APPROVED"} :
         status = IF q.op = "SUBMIT" THEN "PENDING_REVIEW" ELSE app[a].status
  BY <1>2 DEF ApplicationRows
<1>4. PICK new : new = PaidForm(app[a], ref, status)
  OBVIOUS
<1>5. new \in ApplicationRows /\ new.ref = ref
  BY <1>2, <1>3, <1>4, AppRowPaid
<1>6. app' = [app EXCEPT ![a] = new]
  BY <1>1, <1>2, <1>3, <1>4 DEF Paid, PaidForm, FeeOK, AppsOK, ApplicationRows
<1>7. PICK row : row = [paid |-> TRUE, ref |-> ref]
  OBVIOUS
<1>8. row \in FeeRows
  BY <1>2, <1>7, FeeRow
<1>9. fee' = With(fee, a, row)
  BY <1>1, <1>7 DEF Paid
<1> QED
  BY <1>1, <1>5, <1>6, <1>8, <1>9

LEMMA PostFeeMoves ==
  ASSUME FeeOK, NEW r, PostFee(r)
  PROVE  Moves
<1>1. PICK q : q = office[r]
  OBVIOUS
<1>2. /\ r \in DOMAIN office /\ q.op \in {"EVENT", "SUBMIT"} /\ q.at = "WRITE" /\ Done(r)
      /\ UNCHANGED <<handed, charged, issue, cash, visits>>
      /\ \/ UNCHANGED <<app, fee, acked>>
         \/ Paid(q) /\ acked' = IF q.op = "EVENT" THEN acked \cup {q.ref} ELSE acked
  BY <1>1 DEF PostFee, Working
<1>3. q.ref \in charged /\ q.app \in DOMAIN app
  BY <1>1, <1>2, WorkersRow DEF Backed
<1>4. CASE UNCHANGED <<app, fee, acked>>
  BY <1>2, <1>4 DEF Moves, AppMoves, OfficeMoves, HandedMoves, MoneyMoves, FeeOK, FeesOK
<1>5. CASE Paid(q) /\ acked' = IF q.op = "EVENT" THEN acked \cup {q.ref} ELSE acked
  <2>1. PICK new \in ApplicationRows, row \in FeeRows :
            /\ app' = [app EXCEPT ![q.app] = new] /\ new.ref = q.ref
            /\ fee' = With(fee, q.app, row)
    BY <1>1, <1>2, <1>5, PaidMoves
  <2>2. Posting(q.app)
    BY <1>1, <1>2 DEF Posting
  <2>3. AppMoves
    BY <1>1, <1>2, <1>3, <2>1, <2>2 DEF AppMoves
  <2>4. q.app \in DOMAIN app'
    BY <1>3, <2>1
  <2>5. MoneyMoves
    BY <1>2, <1>3, <1>5, <2>1, <2>4 DEF MoneyMoves, FeeOK, FeesOK
  <2> QED
    BY <1>2, <2>3, <2>5 DEF Moves, OfficeMoves, HandedMoves
<1> QED
  BY <1>2, <1>4, <1>5

LEMMA RecordFeeMoves ==
  ASSUME FeeOK, NEW r, RecordFee(r)
  PROVE  Moves
<1>1. PICK q : q = office[r]
  OBVIOUS
<1>2. /\ r \in DOMAIN office /\ Done(r) /\ UNCHANGED <<paystackVars, visits>>
      /\ UNCHANGED <<app, fee, cash>> \/ (Paid(q) /\ cash' = cash \cup {q.app})
  BY <1>1 DEF RecordFee, Working
<1>3. q.app \in DOMAIN app
  BY <1>1, <1>2, WorkersRow
<1>4. CASE UNCHANGED <<app, fee, cash>>
  BY <1>2, <1>4, NoMoneyMoves DEF Moves, AppMoves, OfficeMoves
<1>5. CASE Paid(q) /\ cash' = cash \cup {q.app}
  <2>1. PICK new \in ApplicationRows, row \in FeeRows :
            /\ app' = [app EXCEPT ![q.app] = new] /\ new.ref = q.ref
            /\ fee' = With(fee, q.app, row)
    BY <1>1, <1>2, <1>5, PaidMoves
  <2>2. AppMoves
    BY <1>1, <1>2, <1>3, <1>5, <2>1 DEF AppMoves
  <2>3. q.app \in DOMAIN app'
    BY <1>3, <2>1
  <2>4. MoneyMoves
    BY <1>2, <1>5, <2>1, <2>3 DEF MoneyMoves, FeeOK, FeesOK, paystackVars
  <2> QED
    BY <1>2, <2>2, <2>4 DEF Moves, OfficeMoves, HandedMoves, paystackVars
<1> QED
  BY <1>2, <1>4, <1>5

LEMMA ChargeMoves ==
  ASSUME FeeOK, NEW ref, Charge(ref)
  PROVE  Moves
BY DEF Charge, Moves, AppMoves, OfficeMoves, HandedMoves, MoneyMoves, FeeOK, FeesOK

LEMMA CreateStudentMoves ==
  ASSUME FeeOK, NEW r, CreateStudent(r)
  PROVE  Moves
<1>1. UNCHANGED <<fee, office, paystackVars, cash, visits>>
  BY DEF CreateStudent
<1>2. PICK a : a = desk[r].app
  OBVIOUS
<1>3. app' = app \/ app' = [app EXCEPT ![a].status = "APPROVED"]
  BY <1>2 DEF CreateStudent
<1>4. CASE a \in DOMAIN app /\ app' = [app EXCEPT ![a].status = "APPROVED"]
  <2>1. PICK status \in {"DRAFT", "PENDING_REVIEW", "APPROVED"} : status = "APPROVED"
    OBVIOUS
  <2>2. PICK new : new = [app[a] EXCEPT !.status = status]
    OBVIOUS
  <2>3. app[a] \in ApplicationRows
    BY <1>4 DEF FeeOK, AppsOK
  <2>4. new \in ApplicationRows /\ new.paid = app[a].paid /\ new.ref = app[a].ref
    BY <2>2, <2>3, AppRowReviewed
  <2>5. AppMoves
    BY <1>4, <2>1, <2>2, <2>4 DEF AppMoves
  <2> QED
    BY <1>1, <2>5, NoMoneyMoves DEF Moves, OfficeMoves
<1>5. CASE app' = app
  BY <1>1, <1>5, NoMoneyMoves DEF Moves, AppMoves, OfficeMoves
<1>6. a \notin DOMAIN app /\ app' = [app EXCEPT ![a].status = "APPROVED"] => app' = app
  BY DEF FeeOK, AppsOK
<1> QED
  BY <1>3, <1>4, <1>5, <1>6

LEMMA EveryStepMoves ==
  ASSUME FeeOK, Next \/ UNCHANGED allVars
  PROVE  Moves
<1>1. ASSUME NEW r \in Requests, NEW a \in Applications, StartEnrol(r, a)
      PROVE  Moves
  BY <1>1, StillMoves DEF StartEnrol
<1>2. ASSUME NEW r \in Requests, FeeRequest(r)
      PROVE  Moves
  BY <1>2, StartPaymentMoves, SubmitMoves, StartDeskMoves DEF FeeRequest
<1>3. ASSUME NEW r \in Requests, FeeStep(r)
      PROVE  Moves
  BY <1>3, StartAppMoves, StartRowMoves, VerifyMoves, PostFeeMoves, RecordFeeMoves DEF FeeStep
<1>4. ASSUME UNCHANGED allVars
      PROVE  Moves
  BY <1>4, StillMoves DEF allVars
<1> QED
  BY <1>1, <1>2, <1>3, <1>4, StillMoves, DraftMoves, ReviewMoves, PaperMoves, DieMoves,
     CreateStudentMoves, EventMoves, ChargeMoves DEF Next

-----------------------------------------------------------------------------
(* The tables keep their types. *)

LEMMA AppsStay ==
  ASSUME FeeOK, AppMoves
  PROVE  AppsOK' /\ DOMAIN app \subseteq DOMAIN app'
BY DEF FeeOK, AppsOK, AppMoves, With

LEMMA OfficeStays ==
  ASSUME FeeOK, DOMAIN app \subseteq DOMAIN app', charged \subseteq charged', OfficeMoves
  PROVE  OfficeOK'
<1>1. \A q : Backed(q) => Backed(q)'
  BY DEF Backed
<1>2. /\ office \in [DOMAIN office -> OfficeRows] /\ DOMAIN office \subseteq Requests
      /\ \A r \in DOMAIN office : office[r].app \in DOMAIN app /\ Backed(office[r])
  BY DEF FeeOK, OfficeOK
<1>3. /\ office' \in [DOMAIN office' -> OfficeRows] /\ DOMAIN office' \subseteq Requests
      /\ \A r \in DOMAIN office' : \A q : q = office'[r] => q.app \in DOMAIN app /\ Backed(q)
  <2>1. CASE office' = office
    BY <1>2, <2>1
  <2>2. CASE \E r : Done(r)
    BY <1>2, <2>2 DEF Done, Without
  <2>3. ASSUME NEW r \in DOMAIN office, NEW new \in OfficeRows, office' = [office EXCEPT ![r] = new],
               Backed(new), new.app = office[r].app
        PROVE  <1>3!1 /\ <1>3!2
    BY <1>2, <2>3
  <2>4. ASSUME NEW r \in Requests, NEW new \in OfficeRows, office' = With(office, r, new),
               Backed(new), new.app \in DOMAIN app
        PROVE  <1>3!1 /\ <1>3!2
    BY <1>2, <2>4 DEF With
  <2> QED
    BY <2>1, <2>2, <2>3, <2>4 DEF OfficeMoves
<1> QED
  BY <1>1, <1>3 DEF OfficeOK

LEMMA CardsStay ==
  ASSUME FeeOK, HandedMoves, MoneyMoves
  PROVE  CardsOK' /\ charged \subseteq charged'
<1>1. handed' \in [DOMAIN handed' -> Applications] /\ DOMAIN handed' \subseteq Cards
      /\ DOMAIN handed \subseteq DOMAIN handed'
  BY DEF FeeOK, CardsOK, HandedMoves, With
<1>2. charged' \subseteq DOMAIN handed /\ charged \subseteq charged'
  BY DEF FeeOK, CardsOK, MoneyMoves
<1>3. acked' \subseteq charged /\ issue' \subseteq acked'
  BY DEF FeeOK, CardsOK, MoneyMoves
<1> QED
  BY <1>1, <1>2, <1>3 DEF CardsOK

LEMMA FeesStay ==
  ASSUME FeeOK, DOMAIN app \subseteq DOMAIN app', MoneyMoves
  PROVE  FeesOK'
BY DEF FeeOK, FeesOK, MoneyMoves, With

LEMMA FeeStays ==
  ASSUME FeeOK, Moves
  PROVE  FeeOK'
BY AppsStay, OfficeStays, CardsStay, FeesStay DEF Moves, FeeOK

-----------------------------------------------------------------------------
(* A reference is of one application. *)

LEMMA ReferencesMove ==
  ASSUME FeeOK, Moves
  PROVE  \/ \A ref \in Cards : \A a : Refers(ref, a)' => Refers(ref, a)
         \/ \E new, b : /\ Fresh(new)
                        /\ \A ref \in Cards : \A a :
                              Refers(ref, a)' => Refers(ref, a) \/ (ref = new /\ a = b)
<1>1. ASSUME NEW ref \in Cards, NEW a \in DOMAIN app', app'[a].ref = ref
      PROVE  Refers(ref, a)
  BY <1>1 DEF Moves, AppMoves, With, Refers, FeeOK, AppsOK
<1>2. ASSUME NEW ref \in Cards, NEW a, ref \in DOMAIN handed', handed'[ref] = a
      PROVE  Refers(ref, a)
  BY <1>2 DEF Moves, HandedMoves, With, Refers
<1>3. ASSUME NEW ref \in Cards, NEW a, Refers(ref, a)', ~Refers(ref, a)
      PROVE  \E r \in DOMAIN office' : office'[r].ref = ref /\ office'[r].app = a
  BY <1>1, <1>2, <1>3 DEF Refers
<1>4. CASE office' = office \/ \E r : Done(r)
  <2>1. \A r \in DOMAIN office' : r \in DOMAIN office /\ office'[r] = office[r]
    BY <1>4 DEF Done, Without
  <2> QED
    BY <1>3, <2>1 DEF Refers
<1>5. ASSUME NEW r \in DOMAIN office, NEW new \in OfficeRows, office' = [office EXCEPT ![r] = new],
             new.app = office[r].app, new.ref = office[r].ref
      PROVE  \A ref \in Cards : \A a : Refers(ref, a)' => Refers(ref, a)
  <2>1. \A p \in DOMAIN office' : /\ p \in DOMAIN office /\ office'[p].ref = office[p].ref
                                  /\ office'[p].app = office[p].app
    BY <1>5
  <2> QED
    BY <1>3, <2>1 DEF Refers
<1>6. ASSUME NEW r \in Requests, NEW new \in OfficeRows, office' = With(office, r, new),
             new.app \in DOMAIN app,
             new.ref = Offline \/ app[new.app].ref = new.ref \/ Fresh(new.ref)
      PROVE  \/ \A ref \in Cards : \A a : Refers(ref, a)' => Refers(ref, a)
             \/ \E p, b : /\ Fresh(p)
                          /\ \A ref \in Cards : \A a :
                                Refers(ref, a)' => Refers(ref, a) \/ (ref = p /\ a = b)
  <2>1. ASSUME NEW ref \in Cards, NEW a, Refers(ref, a)', ~Refers(ref, a)
        PROVE  ref = new.ref /\ a = new.app
    <3>1. PICK p \in DOMAIN office' : office'[p].ref = ref /\ office'[p].app = a
      BY <1>3, <2>1
    <3>2. p = r \/ (p \in DOMAIN office /\ office'[p] = office[p])
      BY <1>6, <3>1 DEF With
    <3>3. office'[r] = new
      BY <1>6 DEF With
    <3> QED
      BY <2>1, <3>1, <3>2, <3>3 DEF Refers
  <2>2. CASE Fresh(new.ref)
    BY <2>1, <2>2
  <2>3. CASE new.ref = Offline \/ app[new.app].ref = new.ref
    <3>1. ASSUME NEW ref \in Cards, NEW a, Refers(ref, a)', ~Refers(ref, a)
          PROVE  FALSE
      BY <1>6, <2>1, <2>3, <3>1, OfflineAssumption DEF Refers
    <3> QED
      BY <3>1
  <2> QED
    BY <1>6, <2>2, <2>3
<1> QED
  BY <1>4, <1>5, <1>6 DEF Moves, OfficeMoves

LEMMA RefsStay ==
  ASSUME FeeOK, Moves, RefsAreOwn
  PROVE  RefsAreOwn'
<1>1. ASSUME NEW ref \in Cards, NEW a, NEW b, Refers(ref, a)', Refers(ref, b)'
      PROVE  a = b
  BY <1>1, ReferencesMove DEF RefsAreOwn, Fresh
<1> QED
  BY <1>1 DEF RefsAreOwn

-----------------------------------------------------------------------------
(* Fees. *)

LEMMA PaidStays ==
  ASSUME FeeOK, Moves, RefsAreOwn
  PROVE  \A a : PaidFor(a) => PaidFor(a)'
<1>1. cash \subseteq cash' /\ charged \subseteq charged'
  BY DEF Moves, MoneyMoves
<1>2. ASSUME NEW ref \in charged
      PROVE  handed'[ref] = handed[ref]
  <2>1. ref \in Cards /\ ref \in DOMAIN handed
    BY DEF FeeOK, CardsOK
  <2>2. ASSUME NEW r \in DOMAIN office, NEW a, office[r].ref = ref, office[r].app = a
        PROVE  handed[ref] = a
    BY <2>1, <2>2 DEF RefsAreOwn, Refers
  <2> QED
    BY <2>1, <2>2 DEF Moves, HandedMoves, With
<1> QED
  BY <1>1, <1>2 DEF PaidFor

AppsPaid == \A a \in DOMAIN app : app[a].paid => PaidFor(a)

LEMMA AppsPaidStay ==
  ASSUME FeeOK, Moves, RefsAreOwn, AppsPaid
  PROVE  AppsPaid'
<1>1. \A a : PaidFor(a) => PaidFor(a)'
  BY PaidStays
<1>2. \A a : a \in cash' => PaidFor(a)'
  BY DEF PaidFor
<1>3. ASSUME NEW a, Posting(a)
      PROVE  PaidFor(a)
  <2>1. PICK r \in DOMAIN office : \E q :
           q = office[r] /\ q.app = a /\ q.at = "WRITE" /\ q.op \in {"EVENT", "SUBMIT"}
    BY <1>3 DEF Posting
  <2>2. PICK q : q = office[r] /\ q.app = a /\ q.at = "WRITE" /\ q.op \in {"EVENT", "SUBMIT"}
    BY <2>1
  <2>3. q.ref \in charged
    BY <2>2, WorkersRow DEF Backed
  <2>4. q.ref \in Cards /\ q.ref \in DOMAIN handed
    BY <2>3 DEF FeeOK, CardsOK
  <2>5. handed[q.ref] = a
    BY <2>2, <2>4 DEF RefsAreOwn, Refers
  <2> QED
    BY <2>3, <2>5 DEF PaidFor
<1>4. \A a \in DOMAIN app' : app'[a].paid =>
         (a \in DOMAIN app /\ app[a].paid) \/ a \in cash' \/ Posting(a)
  <2>1. CASE app' = app
    BY <2>1
  <2>2. ASSUME NEW b \in Applications \ DOMAIN app, NEW new, app' = With(app, b, new),
               new.paid => b \in cash'
        PROVE  \A a \in DOMAIN app' : app'[a].paid =>
                  (a \in DOMAIN app /\ app[a].paid) \/ a \in cash' \/ Posting(a)
    BY <2>2 DEF With
  <2>3. ASSUME NEW b \in DOMAIN app, NEW new, app' = [app EXCEPT ![b] = new],
               new.paid => (app[b].paid \/ b \in cash' \/ Posting(b))
        PROVE  \A a \in DOMAIN app' : app'[a].paid =>
                  (a \in DOMAIN app /\ app[a].paid) \/ a \in cash' \/ Posting(a)
    BY <2>3
  <2> QED
    BY <2>1, <2>2, <2>3 DEF Moves, AppMoves
<1>5. ASSUME NEW a \in DOMAIN app', app'[a].paid
      PROVE  PaidFor(a)'
  BY <1>1, <1>2, <1>3, <1>4, <1>5 DEF AppsPaid
<1> QED
  BY <1>5 DEF AppsPaid

\* Nobody asks for a seat, or has one, for an application without its fee.
DeskPaid ==
    \A r \in DOMAIN desk : desk[r] \in SeatRequests /\ desk[r].app /= None => PaidFor(desk[r].app)

LEMMA PlacesPaidStay ==
  ASSUME RollOK, NEW Admitted \in SUBSET Applications, RollNext(Admitted),
         \A a \in Admitted : PaidFor(a), \A a : PaidFor(a) => PaidFor(a)',
         DeskPaid, PlacesArePaidFor
  PROVE  DeskPaid' /\ PlacesArePaidFor'
<1>1. /\ \A s \in DOMAIN profile' :
            \/ s \in DOMAIN profile /\ profile'[s].app = profile[s].app
            \/ \E r \in DOMAIN desk : desk[r] \in SeatRequests /\ profile'[s].app = desk[r].app
      /\ \A r \in DOMAIN desk' : desk'[r] \in SeatRequests /\ desk'[r].app /= None =>
            \/ r \in DOMAIN desk /\ desk[r] \in SeatRequests /\ desk[r].app = desk'[r].app
            \/ desk'[r].app \in Admitted
  BY ApplicantsCome
<1>2. ASSUME NEW r \in DOMAIN desk', NEW a, desk'[r] \in SeatRequests, desk'[r].app = a, a /= None
      PROVE  PaidFor(a)'
  BY <1>1, <1>2 DEF DeskPaid
<1>3. ASSUME NEW s \in DOMAIN profile', NEW a, profile'[s].app = a, a /= None
      PROVE  PaidFor(a)'
  BY <1>1, <1>3 DEF DeskPaid, PlacesArePaidFor
<1>4. DeskPaid'
  <2>1. SUFFICES ASSUME NEW r \in DOMAIN desk', desk'[r] \in SeatRequests, desk'[r].app /= None
                 PROVE  PaidFor(desk[r].app)'
    BY DEF DeskPaid
  <2>2. PICK a : a = desk'[r].app
    OBVIOUS
  <2> QED
    BY <1>2, <2>1, <2>2 DEF PaidFor
<1>5. PlacesArePaidFor'
  <2>1. SUFFICES ASSUME NEW s \in DOMAIN profile', profile'[s].app /= None
                 PROVE  PaidFor(profile[s].app)'
    BY DEF PlacesArePaidFor
  <2>2. PICK a : a = profile'[s].app
    OBVIOUS
  <2> QED
    BY <1>3, <2>1, <2>2 DEF PaidFor
<1> QED
  BY <1>4, <1>5

-----------------------------------------------------------------------------
(* The roll in Admissions. *)

\* Applicants are enrolled with their fee paid.
LEMMA EveryStepIsARollStep ==
  ASSUME Next \/ UNCHANGED allVars,
         NEW Admitted \in SUBSET Applications, \A a \in Applications : MayEnrol(a) => a \in Admitted
  PROVE  RollNext(Admitted)
<1>1. ASSUME NEW r \in Requests, NEW a \in Applications, StartEnrol(r, a)
      PROVE  RollNext(Admitted)
  <2>1. a \in Admitted /\ Admit(r, a)
    BY <1>1 DEF StartEnrol, Admit
  <2> QED
    BY <2>1 DEF RollNext
<1>2. ASSUME NEW r \in Requests, CreateStudent(r)
      PROVE  RollNext(Admitted)
  BY <1>2 DEF CreateStudent, RollNext
<1>3. ASSUME NEW r \in Requests, FeeRequest(r) \/ FeeStep(r) \/ Die(r)
      PROVE  UNCHANGED rollVars
  BY <1>3 DEF FeeRequest, FeeStep, Die, StartPayment, Submit, StartDesk, StartApp, StartRow, Verify,
              PostFee, RecordFee
<1>4. ASSUME NEW a \in Applications, Draft(a) \/ Review(a) \/ \E paid \in BOOLEAN : Paper(a, paid)
      PROVE  UNCHANGED rollVars
  BY <1>4 DEF Draft, Review, Paper
<1>5. ASSUME \/ \E r \in Requests, ref \in Cards : Event(r, ref)
             \/ \E ref \in Cards : Charge(ref)
             \/ UNCHANGED allVars
      PROVE  UNCHANGED rollVars
  BY <1>5 DEF Event, Charge, allVars
<1>6. ASSUME NEW r \in Requests, RollRequest(r)
      PROVE  RollNext(Admitted)
  BY <1>6 DEF RollNext
<1>7. RollStep \/ UNCHANGED rollVars => RollNext(Admitted)
  BY DEF RollNext
<1> QED
  BY <1>1, <1>2, <1>3, <1>4, <1>5, <1>6, <1>7 DEF Next

RollInv == RollOK /\ SeatsOK /\ OneStudentPerApplication

LEMMA RollInvStays ==
  ASSUME RollInv, Next \/ UNCHANGED allVars
  PROVE  RollInv' /\ EnrolmentsStand
<1>1. PICK Admitted \in SUBSET Applications : Admitted = Applications
  OBVIOUS
<1>2. RollNext(Admitted)
  BY <1>1, EveryStepIsARollStep
<1>3. RollOK' /\ EnrolmentsStand
  BY <1>2, RollStays DEF RollInv
<1>4. SeatsOK'
  BY <1>2, <1>3, SeatsStay DEF RollInv
<1>5. OneStudentPerApplication'
  <2>1. \A s, t \in DOMAIN profile' : profile'[s].app = profile'[t].app /\ s /= t => profile'[s].app = None
    BY <1>2, OneStudentStays DEF RollInv, OneStudentPerApplication
  <2> QED
    BY <2>1 DEF OneStudentPerApplication
<1> QED
  BY <1>3, <1>4, <1>5 DEF RollInv

FeeInv == FeeOK /\ RefsAreOwn /\ AppsPaid /\ DeskPaid /\ PlacesArePaidFor

LEMMA FeeInvStays ==
  ASSUME RollInv, FeeInv, Next \/ UNCHANGED allVars
  PROVE  FeeInv'
<1>1. Moves
  BY EveryStepMoves DEF FeeInv
<1>2. FeeOK'
  BY <1>1, FeeStays DEF FeeInv
<1>3. RefsAreOwn'
  BY <1>1, RefsStay DEF FeeInv
<1>4. AppsPaid'
  BY <1>1, AppsPaidStay DEF FeeInv
<1>5. PICK Admitted \in SUBSET Applications : Admitted = {a \in Applications : MayEnrol(a)}
  OBVIOUS
<1>6. \A a \in Admitted : PaidFor(a)
  BY <1>5 DEF MayEnrol, FeeInv, AppsPaid
<1>7. RollNext(Admitted)
  BY <1>5, EveryStepIsARollStep
<1>8. \A a : PaidFor(a) => PaidFor(a)'
  BY <1>1, PaidStays DEF FeeInv
<1>9. DeskPaid' /\ PlacesArePaidFor'
  BY <1>6, <1>7, <1>8, PlacesPaidStay DEF FeeInv, RollInv
<1> QED
  BY <1>2, <1>3, <1>4, <1>9 DEF FeeInv

LEMMA InitHolds ==
  ASSUME Init
  PROVE  RollInv /\ FeeInv
<1>1. calls \in Nat /\ visits \in Nat
  BY BudgetsAssumption DEF Init
<1>2. RollOK /\ SeatsOK /\ \A s \in DOMAIN profile : profile[s].app = None
  BY <1>1, RollStarts DEF Init
<1>3. RollInv
  BY <1>2 DEF RollInv, OneStudentPerApplication
<1>4. /\ app \in [{} -> ApplicationRows] /\ fee \in [{} -> FeeRows] /\ office \in [{} -> OfficeRows]
      /\ handed \in [{} -> Applications] /\ charged = {} /\ acked = {} /\ issue = {} /\ cash = {}
  BY DEF Init, NoRows
<1>5. FeeOK
  BY <1>1, <1>4 DEF FeeOK, AppsOK, OfficeOK, CardsOK, FeesOK
<1>6. RefsAreOwn
  BY <1>4 DEF RefsAreOwn, Refers
<1>7. AppsPaid
  BY <1>4 DEF AppsPaid
<1>8. DOMAIN desk = {}
  BY DEF Init, RollInit, NoRows
<1>9. DeskPaid /\ PlacesArePaidFor
  BY <1>2, <1>8 DEF DeskPaid, PlacesArePaidFor
<1> QED
  BY <1>3, <1>5, <1>6, <1>7, <1>9 DEF FeeInv

LEMMA InvariantsHold == Spec => []RollInv /\ []FeeInv
<1>1. Init => RollInv /\ FeeInv
  BY InitHolds
<1>2. RollInv /\ FeeInv /\ [Next]_allVars => RollInv' /\ FeeInv'
  BY RollInvStays, FeeInvStays
<1> QED
  BY <1>1, <1>2, PTL DEF Spec

-----------------------------------------------------------------------------

\* The tables keep their types, and their rows refer to one another.
THEOREM TypeCorrect == Spec => []AdmissionsTypeOK
<1>1. RollInv /\ FeeInv => AdmissionsTypeOK
  BY DEF RollInv, RollOK, ProfilesOK, EnrolmentsOK, DeskOK, BoundsOK, Sound, FeeInv, FeeOK, AppsOK,
         OfficeOK, CardsOK, FeesOK, AdmissionsTypeOK, RollTypeOK
<1> QED
  BY <1>1, InvariantsHold, PTL

\* The check of the seats never overfills a class, for any classes and any number
\* of requests that create, move, restore, import and promote at the same time.
THEOREM SeatsHold == Spec => []SeatsAreChecked
<1>1. RollInv => SeatsAreChecked
  BY DEF RollInv, SeatsOK
<1> QED
  BY <1>1, InvariantsHold, PTL

\* A yearly enrolment stays, in its class; its outcome is what promotions decide of
\* it, and a year that leads to another is closed together with the opening of that.
THEOREM HistoryHolds == Spec => HistoryStands
<1>1. RollInv /\ [Next]_allVars => [EnrolmentsStand]_rollVars
  BY RollInvStays
<1> QED
  BY <1>1, InvariantsHold, PTL DEF Spec, HistoryStands, EnrolmentsStand

\* Clerks who enrol one applicant at the same time make one student.
THEOREM ApplicantsAreSingle == Spec => []OneStudentPerApplication
<1>1. RollInv => OneStudentPerApplication
  BY DEF RollInv
<1> QED
  BY <1>1, InvariantsHold, PTL

\* Nobody is enrolled from an application whose fee neither Paystack charged nor
\* the school took, in any interleaving of the five handlers that write it.
THEOREM PlacesAreBacked == Spec => []PlacesArePaidFor
<1>1. FeeInv => PlacesArePaidFor
  BY DEF FeeInv
<1> QED
  BY <1>1, InvariantsHold, PTL
=============================================================================

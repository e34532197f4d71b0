----------------------------- MODULE Admissions -----------------------------
(***************************************************************************)
(* Admissions, up to a seat on the StudentRoll: applications and their fee *)
(* (tables AdmissionApplication and PaymentTransaction), paid by card or   *)
(* at the school's desk, and the enrolment of an applicant.                *)
(*                                                                         *)
(* Paystack is external: it charges a reference that a family was given,   *)
(* sends the event until it is answered with 2xx, and tells who verifies   *)
(* a reference whether it was charged.  Documents, scans and the           *)
(* idempotency lease of an enrolment (Idempotency) are left out.           *)
(***************************************************************************)
EXTENDS StudentRoll

CONSTANTS
    Cards,         \* card references, one for each time one is made up
    Offline,       \* the reference of a fee taken at the desk
    MayDie,        \* TRUE: requests about fees may die
    Budgets        \* bounds: how many requests to the roll and about fees

ASSUME OfflineAssumption == Offline \notin Cards /\ None \notin Cards
ASSUME BudgetsAssumption == Budgets \subseteq Nat \X Nat /\ MayDie \in BOOLEAN

VARIABLES
    app,        \* the AdmissionApplication rows: [status, paid, ref]
    fee,        \* the PaymentTransaction rows, by application: [paid, ref]
    office,     \* the fee requests in progress, with what they have read
    handed,     \* the references families were given, with the application
    charged,    \* those that Paystack has charged
    acked,      \* those whose event was answered with 2xx
    issue,      \* those with a PaymentReconciliationIssue
    cash,       \* the applications whose fee was taken at the desk
    visits      \* bound: how many more requests about fees there may be

paystackVars == <<handed, charged, acked, issue>>
feeVars == <<app, fee, office, paystackVars, cash, visits>>
allVars == <<rollVars, feeVars>>

References == Cards \cup {Offline}
ApplicationRows == [status : {"DRAFT", "PENDING_REVIEW", "APPROVED"}, paid : BOOLEAN,
                    ref : References \cup {None}]
FeeRows == [paid : BOOLEAN, ref : References]

\* had: the application had a fee row when the request read it.
OfficeRows == [op : {"START", "EVENT", "SUBMIT", "DESK"},
               at : {"APP", "ROW", "VERIFY", "WRITE"},
               app : Applications, ref : References, had : BOOLEAN]

-----------------------------------------------------------------------------
(* Requests. *)

Busy(r) == r \in DOMAIN desk \/ r \in DOMAIN office
Working(r, ops, step) == r \in DOMAIN office /\ office[r].op \in ops /\ office[r].at = step
Enter(r, request) == ~Busy(r) /\ office' = With(office, r, request)
Advance(r, step) == office' = [office EXCEPT ![r].at = step]
Done(r) == office' = Without(office, r)

OneMore == visits > 0 /\ visits' = visits - 1

\* The server dies; the transaction it was in is rolled back.
Die(r) ==
    /\ MayDie /\ r \in DOMAIN office /\ Done(r)
    /\ UNCHANGED <<rollVars, app, fee, paystackVars, cash, visits>>

-----------------------------------------------------------------------------
(* Applications. *)

NewRow(status, paid, ref) == [status |-> status, paid |-> paid, ref |-> ref]

\* POST /api/admissions/draft.
Draft(a) ==
    /\ a \notin DOMAIN app
    /\ app' = With(app, a, NewRow("DRAFT", FALSE, None))
    /\ UNCHANGED <<rollVars, fee, office, paystackVars, cash, visits>>

\* POST /api/admin/admissions/paper: a form on paper, with or without its fee.
Paper(a, paid) ==
    /\ a \notin DOMAIN app
    /\ app' = With(app, a, NewRow("PENDING_REVIEW", paid, IF paid THEN Offline ELSE None))
    /\ fee' = IF paid THEN With(fee, a, [paid |-> TRUE, ref |-> Offline]) ELSE fee
    /\ cash' = IF paid THEN cash \cup {a} ELSE cash
    /\ UNCHANGED <<rollVars, office, paystackVars, visits>>

\* PATCH /api/admin/admissions: whatever the status was.
Review(a) ==
    /\ a \in DOMAIN app /\ OneMore
    /\ \E status \in {"PENDING_REVIEW", "APPROVED"} \ {app[a].status} :
          app' = [app EXCEPT ![a].status = status]
    /\ UNCHANGED <<rollVars, fee, office, paystackVars, cash>>

-----------------------------------------------------------------------------
(* POST /api/admissions/payments/start. *)

HasFee(a) == a \in DOMAIN fee
FeePaid(a) == HasFee(a) /\ fee[a].paid

\* The application's reference, or one that was not used before.
Reference(a) ==
    IF app[a].ref /= None THEN {app[a].ref}
    ELSE Cards \ (DOMAIN handed \cup {office[q].ref : q \in DOMAIN office}
                                 \cup {app[b].ref : b \in DOMAIN app})

StartPayment(r, a) ==
    /\ a \in DOMAIN app /\ OneMore
    /\ app[a].status = "DRAFT" /\ ~app[a].paid /\ ~FeePaid(a)
    /\ \E ref \in Reference(a) :
          Enter(r, [op |-> "START", at |-> "APP", app |-> a, ref |-> ref, had |-> FALSE])
    /\ UNCHANGED <<rollVars, app, fee, paystackVars, cash>>

\* No transaction, and nothing is read again.
StartApp(r) ==
    /\ Working(r, {"START"}, "APP") /\ Advance(r, "ROW")
    /\ LET q == office[r]
       IN app' = [app EXCEPT ![q.app].paid = FALSE, ![q.app].ref = q.ref]
    /\ UNCHANGED <<rollVars, fee, paystackVars, cash, visits>>

StartRow(r) ==
    /\ Working(r, {"START"}, "ROW") /\ Done(r)
    /\ LET q == office[r]
       IN /\ fee' = With(fee, q.app, [paid |-> FALSE, ref |-> q.ref])
          /\ handed' = IF q.ref \in Cards THEN With(handed, q.ref, q.app) ELSE handed
    /\ UNCHANGED <<rollVars, app, charged, acked, issue, cash, visits>>

\* External: the family pays on Paystack's page.
Charge(ref) ==
    /\ ref \in DOMAIN handed \ charged
    /\ charged' = charged \cup {ref}
    /\ UNCHANGED <<rollVars, app, fee, office, handed, acked, issue, cash, visits>>

-----------------------------------------------------------------------------
(* markApplicationPaid, for Paystack's event and for a submission. *)

Named(ref) == {a \in DOMAIN app : app[a].ref = ref}

\* POST /api/payments/paystack/webhook: found by the reference on the
\* application, or kept as an issue.
Event(r, ref) ==
    /\ ref \in charged \ acked /\ ~Busy(r)
    /\ IF Named(ref) = {}
       THEN /\ issue' = issue \cup {ref} /\ acked' = acked \cup {ref}
            /\ UNCHANGED office
       ELSE /\ \E a \in Named(ref) :
                  Enter(r, [op |-> "EVENT", at |-> "WRITE", app |-> a, ref |-> ref, had |-> FALSE])
            /\ UNCHANGED <<acked, issue>>
    /\ UNCHANGED <<rollVars, app, fee, handed, charged, cash, visits>>

\* POST /api/admissions/submit, with the application's own reference.
Submit(r, a) ==
    /\ a \in DOMAIN app /\ OneMore
    /\ app[a].status = "DRAFT" /\ app[a].ref \in DOMAIN handed
    /\ Enter(r, [op |-> "SUBMIT", at |-> "VERIFY", app |-> a, ref |-> app[a].ref, had |-> FALSE])
    /\ UNCHANGED <<rollVars, app, fee, paystackVars, cash>>

\* verifyPaystackTransaction.
Verify(r) ==
    /\ Working(r, {"SUBMIT"}, "VERIFY")
    /\ IF office[r].ref \in charged THEN Advance(r, "WRITE") ELSE Done(r)
    /\ UNCHANGED <<rollVars, app, fee, paystackVars, cash, visits>>

\* applicationId is unique: a second fee row rolls the transaction back.
Duplicate(q) == ~q.had /\ HasFee(q.app)

Paid(q) ==
    /\ app' = [app EXCEPT ![q.app].paid = TRUE, ![q.app].ref = q.ref,
                          ![q.app].status = IF q.op = "SUBMIT" THEN "PENDING_REVIEW" ELSE @]
    /\ fee' = With(fee, q.app, [paid |-> TRUE, ref |-> q.ref])

\* markApplicationPaid looks the fee row up by the application's public number,
\* but applicationId in a fee row is the id of the application: no row is ever
\* found, and it always inserts one (had is FALSE).
PostFee(r) ==
    /\ Working(r, {"EVENT", "SUBMIT"}, "WRITE") /\ Done(r)
    /\ LET q == office[r]
       IN IF Duplicate(q)
          THEN UNCHANGED <<app, fee, acked>>
          ELSE Paid(q) /\ acked' = IF q.op = "EVENT" THEN acked \cup {q.ref} ELSE acked
    /\ UNCHANGED <<rollVars, handed, charged, issue, cash, visits>>

-----------------------------------------------------------------------------
(* POST /api/admin/admissions/record-fee. *)

\* What it read is not read again in the transaction.
StartDesk(r, a) ==
    /\ a \in DOMAIN app /\ OneMore /\ ~app[a].paid
    /\ Enter(r, [op |-> "DESK", at |-> "WRITE", app |-> a, ref |-> Offline, had |-> HasFee(a)])
    /\ UNCHANGED <<rollVars, app, fee, paystackVars, cash>>

RecordFee(r) ==
    /\ Working(r, {"DESK"}, "WRITE") /\ Done(r)
    /\ LET q == office[r]
       IN IF Duplicate(q) THEN UNCHANGED <<app, fee, cash>>
          ELSE Paid(q) /\ cash' = cash \cup {q.app}
    /\ UNCHANGED <<rollVars, paystackVars, visits>>

-----------------------------------------------------------------------------
(* POST /api/admin/admissions/enroll. *)

\* Mutant: the fee is not looked at.
MayEnrolUnpaid(a) == a \in DOMAIN app /\ ~HasStudent(a)

MayEnrol(a) == a \in DOMAIN app /\ ~HasStudent(a) /\ app[a].paid

\* The checks come before the transaction, which takes the seat.
StartEnrol(r, a) ==
    /\ MayEnrol(a) /\ ~Busy(r)
    /\ \E c \in Classes : Arrive(r, SeatRequest("CREATE", None, c, None, None, a))
    /\ UNCHANGED <<profile, enrol, seated, feeVars>>

\* The transaction that creates the student approves its application.
CreateStudent(r) ==
    /\ Create(r)
    /\ LET a == desk[r].app
       IN app' = IF a = None \/ profile' = profile THEN app ELSE [app EXCEPT ![a].status = "APPROVED"]
    /\ UNCHANGED <<fee, office, paystackVars, cash, visits>>

-----------------------------------------------------------------------------

Init ==
    /\ RollInit
    /\ app = NoRows /\ fee = NoRows /\ office = NoRows
    /\ handed = NoRows /\ charged = {} /\ acked = {} /\ issue = {}
    /\ cash = {} /\ \E b \in Budgets : calls = b[1] /\ visits = b[2]

FeeRequest(r) ==
    \E a \in Applications : StartPayment(r, a) \/ Submit(r, a) \/ StartDesk(r, a)

FeeStep(r) ==
    StartApp(r) \/ StartRow(r) \/ Verify(r) \/ PostFee(r) \/ RecordFee(r)

Next ==
    \/ RollStep /\ UNCHANGED feeVars
    \/ \E r \in Requests \ DOMAIN office : RollRequest(r) /\ UNCHANGED feeVars
    \/ \E a \in Applications : Draft(a) \/ Review(a) \/ \E paid \in BOOLEAN : Paper(a, paid)
    \/ \E r \in Requests : FeeRequest(r) \/ FeeStep(r) \/ Die(r) \/ CreateStudent(r)
    \/ \E r \in Requests, ref \in Cards : Event(r, ref)
    \/ \E r \in Requests, a \in Applications : StartEnrol(r, a)
    \/ \E ref \in Cards : Charge(ref)

Spec == Init /\ [][Next]_allVars

\* What has arrived is worked on, and Paystack sends an event again until it
\* is answered, also when every server process was busy.
Fairness ==
    /\ \A r \in Requests :
          WF_allVars(FeeStep(r) \/ CreateStudent(r) \/ (RollWork(r) /\ UNCHANGED feeVars))
    /\ \A ref \in Cards : SF_allVars(\E r \in Requests : Event(r, ref))

FairSpec == Spec /\ Fairness

-----------------------------------------------------------------------------
(* Properties. *)

AdmissionsTypeOK ==
    /\ RollTypeOK
    /\ app \in [DOMAIN app -> ApplicationRows] /\ DOMAIN app \subseteq Applications
    /\ fee \in [DOMAIN fee -> FeeRows] /\ DOMAIN fee \subseteq DOMAIN app
    /\ office \in [DOMAIN office -> OfficeRows] /\ DOMAIN office \subseteq Requests
    /\ handed \in [DOMAIN handed -> Applications] /\ DOMAIN handed \subseteq Cards
    /\ acked \subseteq charged /\ issue \subseteq acked /\ charged \subseteq DOMAIN handed
    /\ cash \subseteq DOMAIN app /\ visits \in Nat

PaidFor(a) == a \in cash \/ \E ref \in charged : handed[ref] = a

\* Nobody is enrolled from an application whose fee neither Paystack charged
\* nor the school took: of the five handlers that write paymentStatus (start,
\* webhook, submit, record-fee and paper) none makes up a fee, in any order.
PlacesArePaidFor ==
    \A s \in DOMAIN profile : profile[s].app /= None => PaidFor(profile[s].app)

\* Two clerks who enrol one applicant, each into a class with a free seat and
\* under a key of their own, make one student (enroll's check and the unique
\* admissionApplicationId).
OneStudentPerApplication ==
    \A s, t \in DOMAIN profile : profile[s].app = profile[t].app /\ s /= t => profile[s].app = None

\* A family's charge is not lost: its event is answered at last, when it is
\* posted or kept as a reconciliation issue (webhook and markApplicationPaid).
EventsAreAnswered == \A ref \in Cards : ref \in charged ~> ref \in acked
=============================================================================

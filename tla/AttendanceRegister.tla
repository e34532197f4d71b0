-------------------------- MODULE AttendanceRegister --------------------------
(***************************************************************************)
(* One attendance register (a class, a date and a period): drafts,         *)
(* submissions, correction requests, the parents' alerts, and the bridge   *)
(* that turns alerts into notification jobs.  Tables AttendanceSession,    *)
(* AttendanceEntry, AttendanceCorrectionRequest and AttendanceAlertJob.    *)
(*                                                                         *)
(* A save reads the session without a lock, and its first write takes the  *)
(* row lock that it keeps until it commits: two actions.  A save may come  *)
(* from a page or, hours later, from a device's offline queue, so it may   *)
(* carry any sheet.  ABSENT stands for the statuses that alert a parent,   *)
(* and one alert for those of a student's channels: the students have a    *)
(* parent with an account, a phone number and an e-mail address.           *)
(***************************************************************************)
EXTENDS Integers, Sequences, FiniteSets, Rows

CONSTANTS
    Students,          \* the active roster of the class
    Muted,             \* those whose parent has muted attendance
    Sheets,            \* the sheets that are sent: a status for every student
    Saves,             \* save requests that may be in progress at once
    Asks,              \* correction requests that may be in progress at once
    Bridges,           \* bridge runs that may be in progress at once
    MaxSubmissions,    \* bound: how often the register is submitted
    MaxRequests,       \* bound: correction requests
    MaxDeaths          \* bound: bridge runs that die

ASSUME SheetsAssumption == Sheets \subseteq [Students -> {"PRESENT", "ABSENT"}]
ASSUME MutedAssumption == Muted \subseteq Students
ASSUME RegisterBoundsAssumption ==
    MaxSubmissions \in Nat /\ MaxRequests \in Nat /\ MaxDeaths \in Nat

VARIABLES
    register,      \* [exists, locked, sheet] of the session
    submission,    \* how often it was submitted
    saving,        \* the saves in progress, with what they read
    asking,        \* the correction requests in progress
    requests,      \* the correction requests, with the submission they are about
    alerts,        \* status of each AttendanceAlertJob <<submission, student>>
    jobs,          \* the alerts with a NotificationJob, by its dedupeKey
    inapp,         \* the alerts with an in-app notification
    bridge,        \* the bridge runs in progress
    deaths         \* how many of them have died

registerVars == <<register, submission, saving>>
requestVars == <<asking, requests>>
bridgeVars == <<jobs, inapp, bridge, deaths>>
vars == <<registerVars, requestVars, alerts, bridgeVars>>

AlertIds == (1 .. MaxSubmissions) \X Students
Registers == [exists : BOOLEAN, locked : BOOLEAN, sheet : [Students -> {"PRESENT", "ABSENT"}]]

\* late: the register was submitted after this save had read it.
SaveRows == [finalize : BOOLEAN, sheet : Sheets, found : BOOLEAN, late : BOOLEAN]
\* clear: no request was pending when this one looked.
AskRows == [about : Nat, late : BOOLEAN, clear : BOOLEAN]
RequestRows == [status : {"PENDING", "APPROVED", "REJECTED"}, about : Nat, late : BOOLEAN]
BridgeRows == [todo : SUBSET AlertIds, at : {"NEXT", "QUEUED", "SHOWN"}]

-----------------------------------------------------------------------------
(* POST /api/teacher/attendance/register. *)

\* Mutant: the register's lock is not looked at.
MaySaveLocked == TRUE

\* "This attendance register has already been submitted and locked."
MaySave == ~register.locked

SaveRead(q, finalize, sheet) ==
    /\ q \notin DOMAIN saving
    /\ MaySave
    /\ saving' = With(saving, q, [finalize |-> finalize, sheet |-> sheet,
                                  found |-> register.exists, late |-> FALSE])
    /\ UNCHANGED <<register, submission, requestVars, alerts, bridgeVars>>

\* The session that was read is updated, or one is created, by its unique key.
Written(q) == [exists |-> TRUE, locked |-> saving[q].finalize, sheet |-> saving[q].sheet]
CanWrite(q) == q \in DOMAIN saving /\ saving[q].found = register.exists

SaveDraft(q) ==
    /\ CanWrite(q)
    /\ ~saving[q].finalize
    /\ register' = Written(q)
    /\ saving' = Without(saving, q)
    /\ UNCHANGED <<submission, requestVars, alerts, bridgeVars>>

\* Mutant: the alerts of earlier submissions stay.
AlertedKeeping(k, sheet) ==
    [id \in DOMAIN alerts \cup {<<k, s>> : s \in {t \in Students : sheet[t] = "ABSENT"}} |->
        IF id \in DOMAIN alerts THEN alerts[id] ELSE "PENDING"]

\* Earlier alerts are deleted, and one is created for every absent student.
Alerted(k, sheet) == [id \in {<<k, s>> : s \in {t \in Students : sheet[t] = "ABSENT"}} |-> "PENDING"]

\* Mutant: pending correction requests stay open.
SupersededNone == requests

\* "Superseded by a new attendance submission."
Superseded ==
    [n \in DOMAIN requests |->
        IF requests[n].status = "PENDING" THEN [requests[n] EXCEPT !.status = "REJECTED"] ELSE requests[n]]

\* The others in progress are late from now on.
Overtaken(rows) == [r \in DOMAIN rows |-> [rows[r] EXCEPT !.late = TRUE]]

Submit(q) ==
    /\ CanWrite(q)
    /\ saving[q].finalize
    /\ submission < MaxSubmissions
    /\ register' = Written(q)
    /\ submission' = submission + 1
    /\ alerts' = Alerted(submission + 1, saving[q].sheet)
    /\ requests' = Superseded
    /\ saving' = Overtaken(Without(saving, q))
    /\ asking' = Overtaken(asking)
    /\ UNCHANGED bridgeVars

\* A racing save has created the session, or the request died.
SaveEnds(q) ==
    /\ q \in DOMAIN saving
    /\ saving' = Without(saving, q)
    /\ UNCHANGED <<register, submission, requestVars, alerts, bridgeVars>>

-----------------------------------------------------------------------------
(* POST /api/teacher/attendance/correction-request, and the administrator's  *)
(* PATCH /api/admin/attendance/corrections.                                  *)

HasApproved == \E n \in DOMAIN requests : requests[n].status = "APPROVED"
HasPending == \E n \in DOMAIN requests : requests[n].status = "PENDING"

\* The lock is read, and then, by another query, the pending request.
AskRead(a) ==
    /\ a \notin DOMAIN asking
    /\ Len(requests) < MaxRequests
    /\ register.locked
    /\ asking' = With(asking, a, [about |-> submission, late |-> FALSE, clear |-> FALSE])
    /\ UNCHANGED <<registerVars, requests, alerts, bridgeVars>>

AskCheck(a) ==
    /\ a \in DOMAIN asking
    /\ ~HasPending
    /\ asking' = [asking EXCEPT ![a].clear = TRUE]
    /\ UNCHANGED <<registerVars, requests, alerts, bridgeVars>>

AskCreate(a) ==
    /\ a \in DOMAIN asking
    /\ asking[a].clear
    /\ Len(requests) < MaxRequests
    /\ requests' = Append(requests, [status |-> "PENDING", about |-> asking[a].about, late |-> asking[a].late])
    /\ asking' = Without(asking, a)
    /\ UNCHANGED <<registerVars, alerts, bridgeVars>>

\* Another one is pending, or the request died.
AskEnds(a) ==
    /\ a \in DOMAIN asking
    /\ asking' = Without(asking, a)
    /\ UNCHANGED <<registerVars, requests, alerts, bridgeVars>>

\* The status of the request is read and not asked for.
Decide(n, decision) ==
    /\ n \in DOMAIN requests
    /\ requests' = [requests EXCEPT ![n].status = decision]
    /\ register' = IF decision = "APPROVED" THEN [register EXCEPT !.locked = FALSE] ELSE register
    /\ UNCHANGED <<submission, saving, asking, alerts, bridgeVars>>

-----------------------------------------------------------------------------
(* bridgeAttendanceAlerts. *)

\* Mutant: the alerts are marked when they are read.
StartBridgeMarking(b) ==
    /\ b \notin DOMAIN bridge
    /\ \E id \in DOMAIN alerts : alerts[id] = "PENDING"
    /\ bridge' = With(bridge, b, [todo |-> {id \in DOMAIN alerts : alerts[id] = "PENDING"}, at |-> "NEXT"])
    /\ alerts' = [id \in DOMAIN alerts |-> "SENT"]
    /\ UNCHANGED <<registerVars, requestVars, jobs, inapp, deaths>>

StartBridge(b) ==
    /\ b \notin DOMAIN bridge
    /\ \E id \in DOMAIN alerts : alerts[id] = "PENDING"
    /\ bridge' = With(bridge, b, [todo |-> {id \in DOMAIN alerts : alerts[id] = "PENDING"}, at |-> "NEXT"])
    /\ UNCHANGED <<registerVars, requestVars, alerts, jobs, inapp, deaths>>

\* The oldest alert that is left of those that were read; those of one
\* submission were created together.
Current(b) == CHOOSE id \in bridge[b].todo : TRUE
At(b, step) == b \in DOMAIN bridge /\ bridge[b].todo /= {} /\ bridge[b].at = step

\* queueNotificationJob: not for a parent who has muted attendance.
BridgeQueue(b) ==
    /\ At(b, "NEXT")
    /\ jobs' = IF Current(b)[2] \in Muted THEN jobs ELSE jobs \cup {Current(b)}
    /\ bridge' = [bridge EXCEPT ![b].at = "QUEUED"]
    /\ UNCHANGED <<registerVars, requestVars, alerts, inapp, deaths>>

BridgeShow(b) ==
    /\ At(b, "QUEUED")
    /\ inapp' = inapp \cup {Current(b)}
    /\ bridge' = [bridge EXCEPT ![b].at = "SHOWN"]
    /\ UNCHANGED <<registerVars, requestVars, alerts, jobs, deaths>>

\* The alert is marked; a row that a new submission has deleted makes the
\* update throw, and the run ends.
BridgeMark(b) ==
    /\ At(b, "SHOWN")
    /\ IF Current(b) \in DOMAIN alerts
       THEN /\ alerts' = [alerts EXCEPT ![Current(b)] = "SENT"]
            /\ bridge' = [bridge EXCEPT ![b] = [todo |-> @.todo \ {Current(b)}, at |-> "NEXT"]]
       ELSE /\ bridge' = Without(bridge, b)
            /\ UNCHANGED alerts
    /\ UNCHANGED <<registerVars, requestVars, jobs, inapp, deaths>>

BridgeEnds(b) ==
    /\ b \in DOMAIN bridge
    /\ bridge[b].todo = {}
    /\ bridge' = Without(bridge, b)
    /\ UNCHANGED <<registerVars, requestVars, alerts, jobs, inapp, deaths>>

\* The process dies, or two runs create the same job and the second throws.
BridgeDies(b) ==
    /\ b \in DOMAIN bridge
    /\ deaths < MaxDeaths
    /\ deaths' = deaths + 1
    /\ bridge' = Without(bridge, b)
    /\ UNCHANGED <<registerVars, requestVars, alerts, jobs, inapp>>

-----------------------------------------------------------------------------
Init ==
    /\ register = [exists |-> FALSE, locked |-> FALSE, sheet |-> [s \in Students |-> "PRESENT"]]
    /\ submission = 0
    /\ saving = NoRows
    /\ asking = NoRows
    /\ requests = <<>>
    /\ alerts = NoRows
    /\ jobs = {}
    /\ inapp = {}
    /\ bridge = NoRows
    /\ deaths = 0

BridgeStep(b) ==
    StartBridge(b) \/ BridgeQueue(b) \/ BridgeShow(b) \/ BridgeMark(b) \/ BridgeEnds(b)

AskStep(a) == AskRead(a) \/ AskCheck(a) \/ AskCreate(a) \/ AskEnds(a)

Next ==
    \/ \E q \in Saves :
        \/ \E finalize \in BOOLEAN, sheet \in Sheets : SaveRead(q, finalize, sheet)
        \/ SaveDraft(q) \/ Submit(q) \/ SaveEnds(q)
    \/ \E a \in Asks : AskStep(a)
    \/ \E n \in DOMAIN requests, decision \in {"APPROVED", "REJECTED"} : Decide(n, decision)
    \/ \E b \in Bridges : BridgeStep(b) \/ BridgeDies(b)

Spec == Init /\ [][Next]_vars

\* The cron job keeps calling the bridge.
FairSpec == Spec /\ \A b \in Bridges : WF_vars(BridgeStep(b))

-----------------------------------------------------------------------------
(* Properties. *)

TypeOK ==
    /\ register \in Registers
    /\ submission \in 0 .. MaxSubmissions
    /\ DOMAIN saving \subseteq Saves
    /\ \A q \in DOMAIN saving : saving[q] \in SaveRows
    /\ DOMAIN asking \subseteq Asks
    /\ \A a \in DOMAIN asking : asking[a] \in AskRows
    /\ requests \in Seq(RequestRows)
    /\ DOMAIN alerts \subseteq AlertIds
    /\ \A id \in DOMAIN alerts : alerts[id] \in {"PENDING", "SENT"}
    /\ jobs \subseteq AlertIds /\ inapp \subseteq AlertIds
    /\ DOMAIN bridge \subseteq Bridges
    /\ \A b \in DOMAIN bridge : bridge[b] \in BridgeRows
    /\ deaths \in 0 .. MaxDeaths

\* A register that stands submitted has alerts of its last submission, for
\* exactly the students that its sheet has absent, whatever corrections,
\* resubmissions and racing saves came before.
AlertsMatchRegister ==
    register.locked =>
        DOMAIN alerts = {<<submission, s>> : s \in {t \in Students : register.sheet[t] = "ABSENT"}}

\* "Already been submitted and locked": a submitted register is changed by the
\* approval of a correction, which reopens it as it is, or by a save that had
\* read it before it was submitted.
SubmittedRegisterStands ==
    [][register.locked /\ register' /= register =>
        \/ register' = [register EXCEPT !.locked = FALSE] /\ HasApproved' /\ saving' = saving
        \/ \E q \in DOMAIN saving \ DOMAIN saving' : saving[q].late]_vars

\* A request that is pending is about the submission that stands, unless a new
\* one overtook the request while it was being made.
PendingIsCurrent ==
    \A n \in DOMAIN requests :
        requests[n].status = "PENDING" => requests[n].about = submission \/ requests[n].late

\* An alert counts as sent only once its parent has been told: in the app, and
\* by a notification job unless attendance is muted.  A bridge that dies, or
\* whose alert is deleted under it, loses none.
SentAlertsAreQueued ==
    \A id \in DOMAIN alerts : alerts[id] = "SENT" =>
        /\ id \in inapp
        /\ id[2] \in Muted \/ id \in jobs

\* The parent of every student who is absent in a submission is told, unless a
\* later submission replaces it first.
AbsencesAreTold ==
    \A k \in 1 .. MaxSubmissions, s \in Students :
        <<k, s>> \in DOMAIN alerts ~> (submission > k \/ <<k, s>> \in inapp)

\* Parts of the inductive invariant.  While the register stands submitted, the
\* saves in progress have all read it before.
SavesAreLate == register.locked => \A q \in DOMAIN saving : saving[q].late

\* A correction request that was not overtaken is about what it read.
AsksAreCurrent == \A a \in DOMAIN asking : asking[a].late \/ asking[a].about = submission

\* What a bridge run has done for the alert that it is at.
BridgesKeepOrder ==
    /\ \A b \in DOMAIN bridge : bridge[b].todo /= {} /\ bridge[b].at /= "NEXT" =>
           Current(b)[2] \in Muted \/ Current(b) \in jobs
    /\ \A b \in DOMAIN bridge : bridge[b].todo /= {} /\ bridge[b].at = "SHOWN" => Current(b) \in inapp

IInv ==
    /\ TypeOK
    /\ SavesAreLate
    /\ AsksAreCurrent
    /\ BridgesKeepOrder
    /\ AlertsMatchRegister
    /\ PendingIsCurrent
    /\ SentAlertsAreQueued
=============================================================================

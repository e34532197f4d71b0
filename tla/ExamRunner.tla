------------------------------ MODULE ExamRunner ------------------------------
(***************************************************************************)
(* One student's exam page, with its autosave, its submission and the      *)
(* device's offline queue, on top of ExamSitting, which is the server.     *)
(*                                                                         *)
(* The attempt has been started and the page loaded.  A sheet is the       *)
(* number of the change that made it: a larger sheet is a newer one.  A    *)
(* request is in "wire" from when it is sent until its answer is used; one *)
(* that nobody waits for may still arrive.  A flush replays what it read   *)
(* of the queue, the oldest write first; two of them overlap when the      *)
(* "online" event comes during the poll's flush, or in two tabs.           *)
(***************************************************************************)
EXTENDS ExamSitting

CONSTANTS
    Student,       \* whose page it is
    Page, Nobody,  \* who waits for a request, beside a flush
    Flushes,       \* flushes that may be in progress at once
    MaxRetries,    \* failures of a queued write before it is dropped, 5
    MaxFaults,     \* bound: losses of a request or its answer, times that the
                   \* device goes offline, loads of the page, deaths of the
                   \* server and flushes that begin during another, together
    QuietSubmits,  \* TRUE: the exam is submitted with every change sent
    CleanLoads     \* TRUE: the page is loaded again only to resume, with no
                   \* write queued or sent, and used once it is answered

ASSUME RunnerAssumption ==
    /\ Student \in Students
    /\ Page \notin Flushes /\ Nobody \notin Flushes /\ Page /= Nobody
    /\ Sheets \subseteq Nat /\ Blank = 0
    /\ MaxRetries \in Nat /\ MaxFaults \in Nat
    /\ QuietSubmits \in BOOLEAN /\ CleanLoads \in BOOLEAN

VARIABLES
    page,       \* the page: what it does, its counter, answers, unsent change
    cache,      \* the device's copy of the last start response
    typed,      \* the newest sheet
    saved,      \* the newest sheet that the student was shown as saved
    promised,   \* the sheet that they were told is submitted or, if it is
                \* queued, will be
    online,     \* navigator.onLine
    queue,      \* the queued writes, by id
    flush,      \* the flushes in progress: the writes still to replay
    wire,       \* the requests under way
    faults      \* how often each fault has happened

shown == <<typed, saved, promised>>
device == <<page, cache, shown, online, queue, flush>>
allVars == <<vars, device, wire, faults>>

NoSheet == -1
Messages == [seq : Nat, sheet : Sheets, action : {"SAVE", "SUBMIT"}]
Pages == [at : {"OPEN", "SUBMITTING", "TIME_UP", "LEFT"}, seq : Nat, sheet : Sheets, dirty : BOOLEAN]
Writes == [msg : Messages, retries : Nat]
Requests == [msg : Messages, waits : Flushes \cup {Page, Nobody}, last : Nat,
             at : {"SENT", "STORED", "OK", "REFUSED", "FAILED"}]
Faults == [all : 0 .. MaxFaults, deaths : Nat, drops : Nat]

-----------------------------------------------------------------------------
(* Helpers. *)

Row == attempt[Student][1]
Open == Row.status = "IN_PROGRESS"
Larger(a, b) == IF a > b THEN a ELSE b
Oldest(writes) == CHOOSE i \in DOMAIN writes : \A j \in DOMAIN writes : i <= j
Fault == faults.all < MaxFaults /\ faults' = [faults EXCEPT !.all = @ + 1]

\* An id that no write has which is queued or being replayed.
NewId == LET ids == DOMAIN queue \cup UNION {DOMAIN flush[f] : f \in DOMAIN flush}
         IN  IF ids = {} THEN 1 ELSE 1 + CHOOSE i \in ids : \A j \in ids : j <= i

Sent(msg, who) == [msg |-> msg, waits |-> who, last |-> 0, at |-> "SENT"]

\* The server's answer; one that nobody waits for is gone.
Answered(r, at, last) ==
    (wire \ {r}) \cup (IF r.waits = Nobody THEN {} ELSE {[r EXCEPT !.at = at, !.last = last]})

\* Its waiter gave up: the answer is lost, and the request itself may be.
Abandoned(r) ==
    (wire \ {r}) \cup (IF r.at \in {"SENT", "STORED"} THEN {[r EXCEPT !.waits = Nobody]} ELSE {})

\* The server died, or the connection failed.
Fails(r) == IF r.at = "FAILED" THEN UNCHANGED faults
            ELSE Fault

-----------------------------------------------------------------------------
(* The page. *)

\* What the page sends next.
Payload(action) == [seq |-> page.seq + 1, sheet |-> page.sheet, action |-> action]

\* A SUBMIT that is queued is told to the student as submitted, and a SAVE
\* as saved.
Queued(msg) ==
    /\ queue' = With(queue, NewId, [msg |-> msg, retries |-> 0])
    /\ saved' = IF msg.action = "SAVE" THEN Larger(saved, msg.sheet) ELSE saved
    /\ promised' = IF msg.action = "SUBMIT" THEN [sheet |-> msg.sheet, queued |-> TRUE] ELSE promised

Persist(action, at) ==
    /\ page' = [page EXCEPT !.seq = @ + 1, !.dirty = (action = "SUBMIT" /\ @),
                            !.at = IF action = "SUBMIT" /\ ~online THEN "LEFT" ELSE at]
    /\ IF online
       THEN wire' = wire \cup {Sent(Payload(action), Page)} /\ UNCHANGED <<queue, saved, promised>>
       ELSE Queued(Payload(action)) /\ UNCHANGED wire
    /\ UNCHANGED <<vars, cache, typed, online, flush, faults>>

\* setAnswer: the answers change, and are not sent yet.
Type ==
    /\ page.at = "OPEN" \/ (page.at = "SUBMITTING" /\ ~QuietSubmits)
    /\ typed + 1 \in Sheets
    /\ typed' = typed + 1
    /\ page' = [page EXCEPT !.sheet = typed + 1, !.dirty = TRUE]
    /\ UNCHANGED <<vars, cache, saved, promised, online, queue, flush, wire, faults>>

\* The debounce and the interval, also while a submission is under way.
AutoSave ==
    /\ page.at \in {"OPEN", "SUBMITTING", "TIME_UP"}
    /\ page.dirty
    /\ Persist("SAVE", page.at)

\* The page is hidden: a keepalive request that nobody waits for.
HideFlush ==
    /\ page.at \in {"OPEN", "SUBMITTING", "TIME_UP"}
    /\ page.dirty
    /\ page' = [page EXCEPT !.seq = @ + 1, !.dirty = FALSE]
    /\ wire' = IF online THEN wire \cup {Sent(Payload("SAVE"), Nobody)} ELSE wire
    /\ UNCHANGED <<vars, cache, shown, online, queue, flush, faults>>

Submit ==
    /\ page.at = "OPEN"
    /\ QuietSubmits => ~page.dirty
    /\ Persist("SUBMIT", "SUBMITTING")

TimeUp ==
    /\ page.at = "OPEN"
    /\ QuietSubmits => ~page.dirty
    /\ Persist("SUBMIT", "TIME_UP")

\* A SAVE was answered; a refusal is shown as FAILED.
SaveAnswered(r) ==
    /\ r \in wire /\ r.waits = Page /\ r.msg.action = "SAVE" /\ r.at \in {"OK", "REFUSED"}
    /\ wire' = wire \ {r}
    /\ saved' = IF r.at = "OK" THEN Larger(saved, r.msg.sheet) ELSE saved
    /\ page' = [page EXCEPT !.seq = Larger(@, r.last)]
    /\ UNCHANGED <<vars, cache, typed, promised, online, queue, flush, faults>>

\* A SUBMIT was answered; the countdown says "submitted" to any answer.
SubmitAnswered(r) ==
    /\ r \in wire /\ r.waits = Page /\ r.msg.action = "SUBMIT" /\ r.at \in {"OK", "REFUSED"}
    /\ wire' = wire \ {r}
    /\ IF r.at = "OK" \/ page.at = "TIME_UP"
       THEN promised' = [sheet |-> r.msg.sheet, queued |-> FALSE] /\ page' = [page EXCEPT !.at = "LEFT"]
       ELSE page' = [page EXCEPT !.at = "OPEN"] /\ UNCHANGED promised
    /\ UNCHANGED <<vars, cache, typed, saved, online, queue, flush, faults>>

\* Mutant: a request that failed is not queued.
PageFailsUnqueued(r) ==
    /\ r \in wire /\ r.waits = Page
    /\ Fails(r)
    /\ wire' = Abandoned(r)
    /\ saved' = IF r.msg.action = "SAVE" THEN Larger(saved, r.msg.sheet) ELSE saved
    /\ promised' = IF r.msg.action = "SUBMIT" THEN [sheet |-> r.msg.sheet, queued |-> TRUE] ELSE promised
    /\ page' = IF r.msg.action = "SUBMIT" THEN [page EXCEPT !.at = "LEFT"] ELSE page
    /\ UNCHANGED <<vars, cache, typed, online, queue, flush>>

\* The request failed: it is queued.
PageFails(r) ==
    /\ r \in wire /\ r.waits = Page
    /\ Fails(r)
    /\ wire' = Abandoned(r)
    /\ Queued(r.msg)
    /\ page' = IF r.msg.action = "SUBMIT" THEN [page EXCEPT !.at = "LEFT"] ELSE page
    /\ UNCHANGED <<vars, cache, typed, online, flush>>

\* What nobody waits for any more, when the page is loaded again.
Orphaned == {IF r.waits = Page THEN [r EXCEPT !.waits = Nobody] ELSE r : r \in wire}

Resumable == online /\ Open /\ ~Row.late

\* The page is loaded: from the device's copy, then, when the server answers
\* with an attempt to resume, from its answer.
Load ==
    /\ Fault
    /\ CleanLoads => Resumable /\ DOMAIN queue = {} /\ wire = {}
    /\ wire' = Orphaned
    /\ \E resumed \in (IF CleanLoads THEN {TRUE} ELSE {FALSE, Resumable}) :
         LET copy == IF resumed THEN [seq |-> Row.seq, sheet |-> Row.sheet] ELSE cache
         IN  /\ cache' = copy
             /\ page' = [at |-> "OPEN", seq |-> copy.seq, sheet |-> copy.sheet, dirty |-> FALSE]
    /\ IF online /\ Open /\ Row.late THEN ResumeLate(Student) ELSE UNCHANGED vars
    /\ UNCHANGED <<shown, online, queue, flush>>

GoOffline ==
    /\ online
    /\ Fault
    /\ online' = FALSE
    /\ UNCHANGED <<vars, page, cache, shown, queue, flush, wire>>

GoOnline ==
    /\ ~online
    /\ online' = TRUE
    /\ UNCHANGED <<vars, page, cache, shown, queue, flush, wire, faults>>

-----------------------------------------------------------------------------
(* flushQueue. *)

\* The poll finds no flush in progress; the "online" event does not ask.
StartFlush(f) ==
    /\ online
    /\ f \notin DOMAIN flush
    /\ DOMAIN queue /= {}
    /\ IF DOMAIN flush = {} THEN UNCHANGED faults ELSE Fault
    /\ flush' = With(flush, f, queue)
    /\ UNCHANGED <<vars, page, cache, shown, online, queue, wire>>

\* The writes left after the oldest; a flush with none is over.
Rest(f) == LET left == Without(flush[f], Oldest(flush[f]))
           IN  IF DOMAIN left = {} THEN Without(flush, f) ELSE With(flush, f, left)

Replaying(f) == {r \in wire : r.waits = f}

FlushSend(f) ==
    /\ f \in DOMAIN flush /\ Replaying(f) = {} /\ online
    /\ wire' = wire \cup {Sent(flush[f][Oldest(flush[f])].msg, f)}
    /\ UNCHANGED <<vars, device, faults>>

\* An answer with a 2xx or a 4xx status removes the write.
FlushAnswered(f, r) ==
    /\ f \in DOMAIN flush /\ r \in Replaying(f) /\ r.at \in {"OK", "REFUSED"}
    /\ wire' = wire \ {r}
    /\ queue' = Without(queue, Oldest(flush[f]))
    /\ flush' = Rest(f)
    /\ UNCHANGED <<vars, page, cache, shown, online, faults>>

\* Mutant: a write that failed is not kept.
GiveUpAtOnce(f) ==
    /\ queue' = Without(queue, Oldest(flush[f]))
    /\ flush' = Without(flush, f)

\* A write that failed stays, with one more retry, and ends the flush; one
\* that has no retry left is dropped, and after an answer the flush goes on.
GiveUp(f) ==
    LET id == Oldest(flush[f])
    IN  IF flush[f][id].retries >= MaxRetries
        THEN queue' = Without(queue, id) /\ flush' \in {Without(flush, f), Rest(f)}
        ELSE /\ queue' = IF id \in DOMAIN queue THEN [queue EXCEPT ![id].retries = @ + 1] ELSE queue
             /\ flush' = Without(flush, f)

\* The faults that the failure of a replay counts as.
Counted(f, lost) ==
    faults' = [faults EXCEPT !.all = IF lost THEN @ + 1 ELSE @,
                             !.drops = IF flush[f][Oldest(flush[f])].retries >= MaxRetries
                                       THEN @ + 1 ELSE @]

FlushFails(f, r) ==
    /\ f \in DOMAIN flush /\ r \in Replaying(f)
    /\ r.at /= "FAILED" => faults.all < MaxFaults
    /\ Counted(f, r.at /= "FAILED")
    /\ wire' = Abandoned(r)
    /\ GiveUp(f)
    /\ UNCHANGED <<vars, page, cache, shown, online>>

\* The device is offline: nothing is sent.
FlushOffline(f) ==
    /\ f \in DOMAIN flush /\ Replaying(f) = {} /\ ~online
    /\ Counted(f, FALSE)
    /\ GiveUp(f)
    /\ UNCHANGED <<vars, page, cache, shown, online, wire>>

-----------------------------------------------------------------------------
(* The server: PATCH of the attempt. *)

\* The answers are stored; what is to be finalized is answered after that.
Store(r) ==
    /\ r \in wire /\ r.at = "SENT"
    /\ Save(Student, 1, r.msg.seq, r.msg.sheet, r.msg.action)
    /\ wire' = IF r.msg.action = "SUBMIT" \/ Row.late
               THEN (wire \ {r}) \cup {[r EXCEPT !.at = "STORED"]}
               ELSE Answered(r, "OK", 0)
    /\ UNCHANGED <<device, faults>>

\* A save that is not newer is ignored, a submission is refused.
Stale(r) ==
    /\ r \in wire /\ r.at = "SENT"
    /\ Open /\ Row.seq >= r.msg.seq
    /\ wire' = IF r.msg.action = "SAVE" THEN Answered(r, "OK", Row.seq)
               ELSE Answered(r, "REFUSED", 0)
    /\ UNCHANGED <<vars, device, faults>>

\* The attempt is over: a submission is told so, and a save is refused, or
\* ignored when it was read before.
TooLate(r) ==
    /\ r \in wire /\ r.at = "SENT"
    /\ ~Open
    /\ \/ wire' = Answered(r, "OK", IF r.msg.action = "SAVE" THEN Row.seq ELSE 0)
       \/ r.msg.action = "SAVE" /\ wire' = Answered(r, "REFUSED", 0)
    /\ UNCHANGED <<vars, device, faults>>

Finish == Finalize(Student, 1) /\ UNCHANGED <<device, wire, faults>>

Finished(r) ==
    /\ r \in wire /\ r.at = "STORED"
    /\ ~Open
    /\ wire' = Answered(r, "OK", 0)
    /\ UNCHANGED <<vars, device, faults>>

\* The process dies between storing and finalizing.
Die ==
    /\ faults.all < MaxFaults
    /\ faults' = [faults EXCEPT !.all = @ + 1, !.deaths = @ + 1]
    /\ FinalizeEnds(Student, 1)
    /\ wire' = {[r EXCEPT !.at = IF @ = "STORED" THEN "FAILED" ELSE @] :
                   r \in {w \in wire : w.at = "STORED" => w.waits /= Nobody}}
    /\ UNCHANGED device

\* A request that nobody waits for is lost on its way.
Vanish(r) ==
    /\ r \in wire /\ r.waits = Nobody /\ r.at = "SENT"
    /\ wire' = wire \ {r}
    /\ UNCHANGED <<vars, device, faults>>

PassDeadline == Expire(Student, 1) /\ UNCHANGED <<device, wire, faults>>

-----------------------------------------------------------------------------
RunnerInit ==
    /\ exam = [status |-> "PUBLISHED", released |-> FALSE]
    /\ attempt = [s \in Students |-> IF s = Student THEN <<NewAttempt>> ELSE <<>>]
    /\ armed = {} /\ granted = [s \in Students |-> 0]
    /\ starting = NoRows /\ closing = {} /\ request = NoRows /\ published = NoRows
    /\ page = [at |-> "OPEN", seq |-> 0, sheet |-> Blank, dirty |-> FALSE]
    /\ cache = [seq |-> 0, sheet |-> Blank]
    /\ typed = Blank /\ saved = Blank /\ promised = [sheet |-> NoSheet, queued |-> FALSE]
    /\ online = TRUE
    /\ queue = NoRows /\ flush = NoRows /\ wire = {}
    /\ faults = [all |-> 0, deaths |-> 0, drops |-> 0]

PageAnswer == \E r \in wire : SaveAnswered(r) \/ SubmitAnswered(r)
FlushStep == \E f \in Flushes :
    \/ FlushSend(f) \/ FlushOffline(f)
    \/ \E r \in wire : FlushAnswered(f, r)
ServerStep == Finish \/ \E r \in wire : Store(r) \/ Stale(r) \/ TooLate(r) \/ Finished(r)
Failed(r) == r.at = "FAILED" /\ (PageFails(r) \/ \E f \in Flushes : FlushFails(f, r))

RunnerNext ==
    \/ Type \/ AutoSave \/ HideFlush \/ Submit \/ TimeUp \/ PageAnswer
    \/ Load \/ GoOffline \/ GoOnline
    \/ \E f \in Flushes : StartFlush(f)
    \/ FlushStep
    \/ \E r \in wire : PageFails(r) \/ Vanish(r) \/ \E f \in Flushes : FlushFails(f, r)
    \/ ServerStep \/ Die \/ PassDeadline

RunnerSpec == RunnerInit /\ [][RunnerNext]_allVars

\* Connectivity returns, the app stays open and polls, requests are answered.
RunnerFairness ==
    /\ WF_allVars(GoOnline)
    /\ WF_allVars(\E f \in Flushes : StartFlush(f))
    /\ WF_allVars(FlushStep)
    /\ WF_allVars(ServerStep)
    /\ WF_allVars(PageAnswer)
    /\ WF_allVars(\E r \in wire : Failed(r))

FairRunnerSpec == RunnerSpec /\ RunnerFairness

-----------------------------------------------------------------------------
(* Properties. *)

\* The device's rows, its requests and the page are of their types.
RunnerTypeOK ==
    /\ TypeOK
    /\ page \in Pages /\ cache \in [seq : Nat, sheet : Sheets]
    /\ typed \in Sheets /\ saved \in Sheets 
    /\ promised \in [sheet : Sheets \cup {NoSheet}, queued : BOOLEAN]
    /\ online \in BOOLEAN
    /\ \A id \in DOMAIN queue : id \in Nat /\ queue[id] \in Writes
    /\ DOMAIN flush \subseteq Flushes
    /\ \A f \in DOMAIN flush : \A id \in DOMAIN flush[f] : flush[f][id] \in Writes
    /\ wire \subseteq Requests
    /\ faults \in Faults

\* The write of this action and at least this sheet is on the device.
OnDevice(action, sheet) ==
    \E id \in DOMAIN queue : queue[id].msg.action = action /\ queue[id].msg.sheet >= sheet

\* The attempt is over or about to be, or the submission is still queued.
\* Nothing is said when the server died in it, or the queue gave a write up.
Kept == ~Open \/ closing /= {} \/ OnDevice("SUBMIT", Blank) \/ faults.deaths > 0 \/ faults.drops > 0

\* Once the student was told that the exam is, or will be, submitted, it is,
\* whatever answers were lost and whichever flushes overlapped.
PromisesAreKept == promised.sheet /= NoSheet => Kept

\* "Exam saved offline. Will submit when back online."
QueuedSubmissionsArrive == promised.queued => Kept

\* An attempt that was submitted in time has the answers that the student saw
\* when they submitted it, or newer, however old saves are replayed around it; not so when
\* the queue gave a write up.
SubmittedIsLast ==
    promised.sheet /= NoSheet /\ ~Open /\ ~Row.late /\ faults.drops = 0 => Row.sheet >= promised.sheet

\* "Answers are safe in IndexedDB": a sheet that was shown as saved is at the
\* server, or replaced by a newer one, or still queued, unless it was given up
\* or the time was over when it arrived.
SavedIsKept ==
    \/ saved <= Row.sheet
    \/ OnDevice("SAVE", saved) \/ OnDevice("SUBMIT", saved)
    \/ Row.late /\ ~Open
    \/ faults.drops > 0

\* With connectivity, an exam the student was told is submitted is submitted.
PromisedIsSubmitted ==
    promised.sheet /= NoSheet ~> ~Open \/ faults.deaths > 0 \/ faults.drops > 0

\* Parts of the inductive invariant.  The server's tables hold this attempt.
OneAttempt == Latest(Student) = 1 /\ closing \subseteq {<<Student, 1>>}

\* A flush in progress has writes left, and those that are still queued are
\* the same writes.
FlushesFollowQueue ==
    \A f \in DOMAIN flush :
        /\ DOMAIN flush[f] /= {} /\ DOMAIN flush[f] \subseteq Nat
        /\ \A id \in DOMAIN flush[f] : id \in DOMAIN queue => flush[f][id].msg = queue[id].msg

\* A flush replays one write at a time, the oldest that it has left.
ReplaysFollowFlush ==
    /\ \A r \in wire : r.waits \in Flushes =>
         r.waits \in DOMAIN flush /\ r.msg = flush[r.waits][Oldest(flush[r.waits])].msg
    /\ \A r, other \in wire : r.waits \in Flushes /\ other.waits = r.waits => other = r

\* A new id is larger than all that are in use.
IdsAreBounded ==
    \E k \in Nat : /\ \A id \in DOMAIN queue : id <= k
                  /\ \A f \in DOMAIN flush : \A id \in DOMAIN flush[f] : id <= k

\* The messages that may still reach the server, or reach it again; beside
\* this request.
Waiting == {queue[id].msg : id \in DOMAIN queue}
             \cup UNION {{flush[f][id].msg : id \in DOMAIN flush[f]} : f \in DOMAIN flush}
Beside(r) == {other.msg : other \in wire \ {r}} \cup Waiting
Live == {r.msg : r \in wire} \cup Waiting

\* A later number carries answers at least as new, at the page, on their way
\* and at the server.
NewerIsLater ==
    /\ \A a, b \in Live : (a.seq = b.seq => a = b) /\ (a.seq < b.seq => a.sheet <= b.sheet)
    /\ \A m \in Live : /\ m.seq <= page.seq /\ m.sheet <= page.sheet
                       /\ m.seq <= Row.seq => m.sheet <= Row.sheet
                       /\ m.seq >= Row.seq => m.sheet >= Row.sheet
    /\ Row.seq <= page.seq /\ Row.sheet <= page.sheet /\ page.sheet <= typed

\* A submission that the server does not have yet is the last that the page
\* sent; one that it has is being finalized, or its server died.
SubmissionsAreLast ==
    \A m \in Live : m.action = "SUBMIT" =>
        IF m.seq > Row.seq
        THEN page.at /= "OPEN" /\ m.seq = page.seq /\ m.sheet = page.sheet
        ELSE closing /= {} \/ faults.deaths > 0

\* What a request has been told is so.
Truthful(r) ==
    /\ r.last <= page.seq
    /\ r.at = "OK" => r.msg.action = "SAVE"
    /\ r.at = "STORED" => closing /= {}
    /\ r.at \in {"OK", "REFUSED", "STORED"} => r.msg.seq <= Row.seq
AnswersAreTrue == \A r \in wire : Truthful(r)

\* The submission that the page waits for is newer than all else until the
\* server has it, so it is not refused.
OwnSubmission(r) == r.at = "SENT" /\ r.waits = Page /\ r.msg.action = "SUBMIT"
OwnSubmissionIsNewest ==
    \A r \in wire : OwnSubmission(r) =>
        r.msg.seq > Row.seq /\ \A m \in Beside(r) : m.seq < r.msg.seq

\* What a flush still replays though it left the queue is at the server.
RemovedIsStored ==
    \A f \in DOMAIN flush : \A id \in DOMAIN flush[f] :
        id \in DOMAIN queue \/ flush[f][id].msg.seq <= Row.seq

\* An attempt that is being finalized has a request that waits for it.
ClosingIsAwaited == closing /= {} => \E r \in wire : r.at = "STORED"

\* What the student was told is known to the page, and is at the server or
\* still queued.
ToldIsKept ==
    /\ promised.sheet <= Row.sheet \/ OnDevice("SUBMIT", promised.sheet)
    /\ promised.sheet /= NoSheet =>
         closing /= {} \/ OnDevice("SUBMIT", Blank) \/ faults.deaths > 0
    /\ saved <= Row.sheet \/ OnDevice("SAVE", saved) \/ OnDevice("SUBMIT", saved)

\* The page sends nothing after a submission, which it is not refused.
PageIsQuiet ==
    /\ page.at /= "OPEN" => ~page.dirty
    /\ \A r \in wire : r.waits = Page /\ r.msg.action = "SUBMIT" => page.at /= "OPEN" /\ r.at /= "REFUSED"

\* From when an attempt that was submitted in time is being finalized, its
\* answers are the page's, and those do not change.
AnswersAreFinal ==
    /\ page.at /= "OPEN" /\ Row.sheet = page.sheet
    /\ \A m \in Live : m.sheet <= page.sheet

ToldIsKnown == promised.sheet <= page.sheet /\ saved <= page.sheet

\* While the attempt is in progress.
InProgress ==
    /\ NewerIsLater /\ SubmissionsAreLast /\ AnswersAreTrue /\ OwnSubmissionIsNewest
    /\ RemovedIsStored /\ ClosingIsAwaited /\ ToldIsKept

Links == RunnerTypeOK /\ OneAttempt /\ FlushesFollowQueue /\ ReplaysFollowFlush /\ IdsAreBounded

\* As long as the queue gave no write up.
NothingIsLost ==
    /\ PageIsQuiet
    /\ Open => InProgress
    /\ ~Row.late /\ (~Open \/ closing /= {}) => AnswersAreFinal
    /\ Open \/ ~Row.late => ToldIsKnown

RunnerIInv == Links /\ (faults.drops = 0 => NothingIsLost)
=============================================================================

-------------------------- MODULE NotificationQueue --------------------------
(***************************************************************************)
(* The outbound notification queue: table NotificationJob, the dispatcher  *)
(* that a cron call and two administrators' buttons may run at the same    *)
(* time, and an administrator's retry and cancel.                          *)
(*                                                                         *)
(* Time is abstracted to what the dispatcher's queries tell apart.  A job  *)
(* is due when nextAttemptAt has passed.  A run looks for due jobs with    *)
(* the time it started, and claims each with that same time: whoever       *)
(* writes nextAttemptAt after a run has started writes a later time, so    *)
(* the run can no longer claim the job.  "may" of a run is the jobs it     *)
(* still can.  Batches of 25 are taken to be large enough.                 *)
(***************************************************************************)
EXTENDS Integers, FiniteSets, Rows

CONSTANTS
    Jobs,          \* the notifications, by dedupeKey
    Configured,    \* those whose channel has a provider
    None,          \* what a run that sends nothing has claimed
    Runs,          \* dispatcher runs that may be in progress at once
    Admins,        \* administrators' requests that may be in progress at once
    MaxAttempts,   \* the default of maxAttempts, 3 in the schema
    MaxAsks,       \* bound: retries and cancellations of each job
    MaxDeaths,     \* bound: runs that die
    PromptRuns     \* TRUE: a job's lease outlives the run that holds it

ASSUME ConfiguredAssumption == Configured \subseteq Jobs
ASSUME NoneAssumption == None \notin Jobs
ASSUME RunsAssumption == IsFiniteSet(Runs)
ASSUME AdminsAssumption == IsFiniteSet(Admins)
ASSUME AttemptsAssumption == MaxAttempts \in Nat \ {0}
ASSUME QueueBoundsAssumption == MaxAsks \in [Jobs -> Nat] /\ MaxDeaths \in Nat
ASSUME PromptRunsAssumption == PromptRuns \in BOOLEAN

VARIABLES
    job,        \* the table: [status, due, attempts, max]
    run,        \* the dispatcher runs in progress
    ask,        \* the administrators' requests in progress, with what they read
    asks,       \* how many there were about each job
    deaths,     \* how many runs have died
    calls,      \* how often the provider was called for each job
    accepted,   \* how often it accepted the message
    unsure,     \* acceptances that no run recorded, and retries asked for
    refused     \* the jobs that the provider refused for good

history == <<calls, accepted, unsure, refused>>
vars == <<job, run, ask, asks, deaths, history>>

Statuses == {"PENDING", "SENT", "FAILED", "SKIPPED"}
JobRows == [status : Statuses, due : BOOLEAN, attempts : Nat, max : Nat \ {0}]

\* The job a run has claimed, as it read it, and what the provider answered.
RunRows == [may : SUBSET Jobs, cur : Jobs \cup {None}, attempts : Nat, max : Nat,
            answer : {"none", "ok", "error", "permanent"}]
AskRows == [job : Jobs, op : {"RETRY", "CANCEL"}, max : Nat \ {0}]

-----------------------------------------------------------------------------
(* Helpers. *)

Larger(a, b) == IF a > b THEN a ELSE b
IsPending(j) == j \in DOMAIN job /\ job[j].status = "PENDING"
\* Mutant: the last attempt of a job is never looked for.
DueBeforeLast(j) == IsPending(j) /\ job[j].due /\ job[j].attempts + 1 < job[j].max

Due(j) == IsPending(j) /\ job[j].due

\* nextAttemptAt is written: no run that has started can claim the job.
OutOfReach(j) == [w \in DOMAIN run |-> [run[w] EXCEPT !.may = @ \ {j}]]

\* The run is done with its job.
Finished(w, j) == [OutOfReach(j) EXCEPT ![w].cur = None, ![w].answer = "none"]

Sending(w) == w \in DOMAIN run /\ run[w].cur /= None
Answered(w, answers) == Sending(w) /\ run[w].answer \in answers

-----------------------------------------------------------------------------
(* queueNotificationJob. *)

\* Found by its dedupeKey, or created: the key is unique.
Queue(j) ==
    /\ j \notin DOMAIN job
    /\ job' = With(job, j, [status |-> "PENDING", due |-> TRUE, attempts |-> 0, max |-> MaxAttempts])
    /\ UNCHANGED <<run, ask, asks, deaths, history>>

-----------------------------------------------------------------------------
(* dispatchDueNotifications. *)

StartRun(w) ==
    /\ w \notin DOMAIN run
    /\ \E j \in Jobs : Due(j)
    /\ run' = With(run, w, [may |-> {j \in Jobs : Due(j)}, cur |-> None,
                            attempts |-> 0, max |-> 0, answer |-> "none"])
    /\ UNCHANGED <<job, ask, asks, deaths, history>>

\* The condition of the claim.  Attempts are still those the run read, for
\* whoever writes them has written nextAttemptAt or the status before.
MayClaim(w, j) == j \in run[w].may /\ IsPending(j)

\* Mutant: the claim leaves the job where others find it.
ClaimWithoutLease(w, j) ==
    /\ w \in DOMAIN run
    /\ run[w].cur = None
    /\ MayClaim(w, j)
    /\ job' = job
    /\ run' = [run EXCEPT ![w].may = @ \ {j}, ![w].cur = j,
                          ![w].attempts = job[j].attempts, ![w].max = job[j].max]
    /\ UNCHANGED <<ask, asks, deaths, history>>

\* The lease is the job's next attempt, two minutes away.
Claim(w, j) ==
    /\ w \in DOMAIN run
    /\ run[w].cur = None
    /\ MayClaim(w, j)
    /\ job' = [job EXCEPT ![j].due = FALSE]
    /\ run' = [OutOfReach(j) EXCEPT ![w].cur = j, ![w].attempts = job[j].attempts,
                                    ![w].max = job[j].max]
    /\ UNCHANGED <<ask, asks, deaths, history>>

\* No provider for the channel: "skipped (not failed)".
Skip(w) ==
    LET j == run[w].cur
    IN  /\ Answered(w, {"none"})
        /\ j \notin Configured
        /\ job' = [job EXCEPT ![j].status = "SKIPPED", ![j].attempts = @ + 1]
        /\ run' = Finished(w, j)
        /\ UNCHANGED <<ask, asks, deaths, history>>

\* The provider accepts the message or refuses it.  A call that times out is
\* an error, and the message may have been accepted.
Send(w, answer, taken) ==
    LET j == run[w].cur
    IN  /\ Answered(w, {"none"})
        /\ j \in Configured
        /\ answer = "ok" => taken
        /\ answer = "permanent" => ~taken
        /\ calls' = [calls EXCEPT ![j] = @ + 1]
        /\ accepted' = [accepted EXCEPT ![j] = @ + (IF taken THEN 1 ELSE 0)]
        /\ unsure' = [unsure EXCEPT ![j] = @ + (IF taken /\ answer = "error" THEN 1 ELSE 0)]
        /\ refused' = IF answer = "permanent" THEN refused \cup {j} ELSE refused
        /\ run' = [run EXCEPT ![w].answer = answer]
        /\ UNCHANGED <<job, ask, asks, deaths>>

\* None of the writes below looks at the row again.
RecordSent(w) ==
    LET j == run[w].cur
    IN  /\ Answered(w, {"ok"})
        /\ job' = [job EXCEPT ![j].status = "SENT", ![j].attempts = @ + 1]
        /\ run' = Finished(w, j)
        /\ UNCHANGED <<ask, asks, deaths, history>>

\* Mutant: one attempt fewer than the job has.
ExhaustedEarly(w) == run[w].answer = "permanent" \/ run[w].attempts + 2 >= run[w].max

\* Mutant: the limit of attempts is forgotten.
ExhaustedNever(w) == run[w].answer = "permanent"

Exhausted(w) == run[w].answer = "permanent" \/ run[w].attempts + 1 >= run[w].max

GiveUp(w) ==
    LET j == run[w].cur
    IN  /\ Answered(w, {"error", "permanent"})
        /\ Exhausted(w)
        /\ job' = [job EXCEPT ![j].status = "FAILED", ![j].attempts = run[w].attempts + 1]
        /\ run' = Finished(w, j)
        /\ UNCHANGED <<ask, asks, deaths, history>>

BackOff(w) ==
    LET j == run[w].cur
    IN  /\ Answered(w, {"error", "permanent"})
        /\ ~Exhausted(w)
        /\ job' = [job EXCEPT ![j].due = FALSE, ![j].attempts = run[w].attempts + 1]
        /\ run' = Finished(w, j)
        /\ UNCHANGED <<ask, asks, deaths, history>>

\* Nothing left that the run can claim.
EndRun(w) ==
    /\ w \in DOMAIN run
    /\ run[w].cur = None
    /\ \A j \in Jobs : ~MayClaim(w, j)
    /\ run' = Without(run, w)
    /\ UNCHANGED <<job, ask, asks, deaths, history>>

\* The process dies: what it was sending is not recorded.
Die(w) ==
    /\ w \in DOMAIN run
    /\ deaths < MaxDeaths
    /\ deaths' = deaths + 1
    /\ unsure' = IF Answered(w, {"ok"}) THEN [unsure EXCEPT ![run[w].cur] = @ + 1] ELSE unsure
    /\ run' = Without(run, w)
    /\ UNCHANGED <<job, ask, asks, calls, accepted, refused>>

\* A lease, or the wait before another attempt, is over.
Lapse(j) ==
    /\ IsPending(j)
    /\ ~job[j].due
    /\ PromptRuns => \A w \in DOMAIN run : run[w].cur /= j
    /\ job' = [job EXCEPT ![j].due = TRUE]
    /\ UNCHANGED <<run, ask, asks, deaths, history>>

-----------------------------------------------------------------------------
(* PATCH /api/admin/notifications: RETRY and CANCEL. *)

MayAsk(j) == j \in DOMAIN job /\ job[j].status /= "SENT"

\* The job is read, and one that is SENT is refused.
Ask(a, j, op) ==
    /\ a \notin DOMAIN ask
    /\ asks[j] < MaxAsks[j]
    /\ MayAsk(j)
    /\ asks' = [asks EXCEPT ![j] = @ + 1]
    /\ ask' = With(ask, a, [job |-> j, op |-> op, max |-> Larger(job[j].max, job[j].attempts + 1)])
    /\ UNCHANGED <<job, run, deaths, history>>

\* Neither write looks at the status again.
Retry(a) ==
    LET j == ask[a].job
    IN  /\ a \in DOMAIN ask
        /\ ask[a].op = "RETRY"
        /\ job' = [job EXCEPT ![j].status = "PENDING", ![j].due = TRUE, ![j].max = ask[a].max]
        /\ run' = OutOfReach(j)
        /\ unsure' = [unsure EXCEPT ![j] = @ + 1]
        /\ ask' = Without(ask, a)
        /\ UNCHANGED <<asks, deaths, calls, accepted, refused>>

Cancel(a) ==
    LET j == ask[a].job
    IN  /\ a \in DOMAIN ask
        /\ ask[a].op = "CANCEL"
        /\ job' = [job EXCEPT ![j].status = "SKIPPED"]
        /\ ask' = Without(ask, a)
        /\ UNCHANGED <<run, asks, deaths, history>>

-----------------------------------------------------------------------------
Init ==
    /\ job = NoRows
    /\ run = NoRows
    /\ ask = NoRows
    /\ asks = [j \in Jobs |-> 0]
    /\ deaths = 0
    /\ calls = [j \in Jobs |-> 0]
    /\ accepted = [j \in Jobs |-> 0]
    /\ unsure = [j \in Jobs |-> 0]
    /\ refused = {}

RunStep(w) ==
    \/ StartRun(w) \/ EndRun(w) \/ Skip(w)
    \/ \E j \in Jobs : Claim(w, j)
    \/ \E answer \in {"ok", "error", "permanent"}, taken \in BOOLEAN : Send(w, answer, taken)
    \/ RecordSent(w) \/ GiveUp(w) \/ BackOff(w)

AdminStep(a) ==
    \/ \E j \in Jobs, op \in {"RETRY", "CANCEL"} : Ask(a, j, op)
    \/ Retry(a) \/ Cancel(a)

Next ==
    \/ \E j \in Jobs : Queue(j) \/ Lapse(j)
    \/ \E w \in Runs : RunStep(w) \/ Die(w)
    \/ \E a \in Admins : AdminStep(a)

Spec == Init /\ [][Next]_vars

\* The cron job keeps calling the dispatcher, a run that does not die goes on,
\* and time passes.
FairSpec ==
    /\ Spec
    /\ \A w \in Runs : WF_vars(RunStep(w))
    /\ \A j \in Jobs : WF_vars(Lapse(j))

-----------------------------------------------------------------------------
(* Properties. *)

TypeOK ==
    /\ DOMAIN job \subseteq Jobs
    /\ \A j \in DOMAIN job : job[j] \in JobRows
    /\ DOMAIN run \subseteq Runs
    /\ \A w \in DOMAIN run : run[w] \in RunRows /\ run[w].may \cup ({run[w].cur} \ {None}) \subseteq DOMAIN job
    /\ DOMAIN ask \subseteq Admins
    /\ \A a \in DOMAIN ask : ask[a] \in AskRows /\ ask[a].job \in DOMAIN job
    /\ asks \in [Jobs -> Nat] /\ deaths \in 0 .. MaxDeaths
    /\ calls \in [Jobs -> Nat] /\ accepted \in [Jobs -> Nat] /\ unsure \in [Jobs -> Nat]
    /\ refused \subseteq Jobs

\* Dispatchers that run at the same time do not deliver a message twice.  A
\* second delivery needs a run that died before it recorded the first, a call
\* that timed out after the provider had taken the message, or a retry that
\* an administrator asked for.
DeliveredOnce == \A j \in Jobs : accepted[j] <= 1 + unsure[j]

\* maxAttempts bounds the calls of the provider.  The death of a run adds one at
\* most.  A retry adds two at most: the call of the run that it lets overlap with
\* a run that holds the job, for the two count their attempts as one, and an
\* attempt more under the limit that it raises, for the older run may then set
\* the count back.
CallsAreBounded == \A j \in Jobs : calls[j] <= MaxAttempts + 2 * asks[j] + deaths

\* A job is given up only after all of its attempts, or a permanent refusal;
\* and what is recorded as sent was accepted, "never silently sent".
RecordIsHonest ==
    \A j \in DOMAIN job :
        /\ job[j].status = "FAILED" => j \in refused \/ calls[j] >= MaxAttempts
        /\ job[j].status = "SENT" => accepted[j] > 0

\* Every notification that is queued is delivered or given up, however runs
\* overlap and die.
EventuallySettled == \A j \in Jobs : IsPending(j) ~> ~IsPending(j)

\* Parts of the inductive invariant.  The sends of a job that may still be
\* accepted: of the runs that hold it and were not told "ok", and of a run to
\* come, if the job can be claimed or nobody holds it.
Holding(j) == {w \in DOMAIN run : run[w].cur = j /\ run[w].answer /= "ok"}
Held(j) == \E w \in DOMAIN run : run[w].cur = j
ToCome(j) == IF j \notin DOMAIN job \/ (IsPending(j) /\ (job[j].due \/ ~Held(j))) THEN 1 ELSE 0

SendsAreLimited ==
    \A j \in Jobs : accepted[j] + Cardinality(Holding(j)) + ToCome(j) <= 1 + unsure[j]

\* A run that can claim a job has found it due.
ReachIsDue == \A w \in DOMAIN run : \A j \in run[w].may : IsPending(j) => job[j].due

\* What a run was answered, it was answered for the job it holds.
AnswersAreTrue ==
    \A w \in DOMAIN run : run[w].answer /= "none" =>
        /\ run[w].cur \in Configured
        /\ run[w].answer = "ok" => accepted[run[w].cur] > 0
        /\ run[w].answer = "permanent" => run[w].cur \in refused

\* An attempt that is counted, by the row or by a run that read it, is a call
\* beside those that runs have yet to record.
Answering(j) == {w \in DOMAIN run : run[w].cur = j /\ run[w].answer /= "none"}

AttemptsAreCalls ==
    /\ \A j \in DOMAIN job \cap Configured :
           job[j].attempts + Cardinality(Answering(j)) <= calls[j]
    /\ \A w \in DOMAIN run : run[w].cur \in Configured =>
           run[w].attempts + Cardinality(Answering(run[w].cur)) <= calls[run[w].cur]

\* A retry may raise the limit of attempts; nothing lowers it.
LimitsStand ==
    /\ \A j \in DOMAIN job : job[j].max >= MaxAttempts
    /\ \A w \in DOMAIN run : run[w].cur /= None => run[w].max >= MaxAttempts
    /\ \A a \in DOMAIN ask : ask[a].max >= MaxAttempts

\* The budget of a job.  Between two lapses of its lease every call beyond the
\* first is a retry's or a death's, so the calls keep pace with every count of
\* attempts that may still be written: the row's, and those of the runs that hold
\* the job.  Requests that are not written yet have added nothing.
Holders(j) == {w \in DOMAIN run : run[w].cur = j}
Unsent(j) == {w \in Holders(j) : run[w].answer = "none"}
Open(j) == {a \in DOMAIN ask : ask[a].job = j}
Counts(j) == {job[j].attempts} \cup {run[w].attempts : w \in Holders(j)}
One(P) == IF P THEN 1 ELSE 0

CallsKeepPace ==
    /\ \A j \in Jobs \ DOMAIN job : calls[j] = 0
    /\ \A j \in DOMAIN job : \A n \in Counts(j) :
           calls[j] + Cardinality(Unsent(j)) + One(Due(j)) + Cardinality(Open(j))
               <= n + One(Due(j) \/ Held(j)) + asks[j] + deaths

\* Neither count nor limit outgrows the default by more than the retries.
AttemptsKeepPace ==
    \A j \in DOMAIN job : \A n \in Counts(j) :
        n + Cardinality(Holders(j)) + ToCome(j) + Cardinality(Open(j)) <= MaxAttempts + asks[j]

LimitsKeepPace ==
    /\ \A j \in DOMAIN job : job[j].max + Cardinality(Open(j)) <= MaxAttempts + asks[j]
    /\ \A w \in DOMAIN run, j \in DOMAIN job : run[w].cur = j =>
           run[w].max + Cardinality(Open(j)) <= MaxAttempts + asks[j]
    /\ \A a \in DOMAIN ask, j \in DOMAIN job : ask[a].job = j =>
           ask[a].max + Cardinality(Open(j)) <= MaxAttempts + asks[j] + 1
=============================================================================

# Formal models of the school portal

TLA+ models of the parts of this repository whose correctness depends on the
order in which requests, database statements and callbacks happen. The portal is
a Next.js application on PostgreSQL through Prisma: route handlers run
concurrently in any number of processes, they share nothing but the database,
and transactions run at READ COMMITTED. Nearly every protocol here is built from
three devices: a *claim* (an `updateMany` whose WHERE names the state it expects,
followed by a look at `count`), a *unique key*, and an occasional `SELECT ... FOR
UPDATE`. The models ask whether these devices are enough.

Paths below are those of the repository. `PROJECT.json` maps every definition to
the lines it translates.

## 1. Inventory

| Component | Code | State it keeps | Modelled in |
|---|---|---|---|
| Request idempotency | `lib/idempotency.ts` | `IdempotencyRecord`: status, request hash, `lockedUntil`, stored response | `Idempotency` |
| Fee ledger | `lib/fee-payment-service.ts`, `lib/finance.ts`, `app/api/admin/fees/payments`, `app/api/super-admin/payments`, the transfer branch of `app/api/parent/fees/payment-intents` | `FeeInvoice` (paid, balance, status), `FeePaymentAttempt`, `FeePayment`, corrections | `FeeLedger` |
| Card checkout | `app/api/parent/fees/payment-intents`, `app/api/parent/fees/payments`, `app/api/payments/paystack/webhook`, `lib/paystack.ts` | the above, its idempotency record, Paystack's transactions, `PaymentReconciliationIssue` | `FeeCheckout` |
| Exam sitting | `app/api/student/exams/[id]/attempt`, `lib/exams.ts`, `app/api/teacher/exams/[id]/results` | `ExamAttempt`, its answers and marks, `ExamRetake` | `ExamSitting` |
| Exam lifecycle, release | `app/api/teacher/exams`, `lib/exam-gradebook-sync.ts`, `lib/exam-snapshots.ts` | `Exam` (status, `resultsReleased`, `updatedAt`), gradebook sync rows | `ExamSitting` in part |
| Exam runner, offline queue | `app/student/exams/[id]/page.tsx`, `lib/offline/*` | page state, IndexedDB cache and queue | `ExamRunner`, on `ExamSitting` |
| Notification dispatcher | `lib/notifications.ts`, `app/api/admin/notifications`, `app/api/jobs/dispatch-notifications` | `NotificationJob`: status, `nextAttemptAt`, attempts | `NotificationQueue` |
| Attendance registers | `app/api/teacher/attendance`, `app/api/admin/attendance/corrections`, `bridgeAttendanceAlerts` | `AttendanceSession` and its entries, correction requests, `AttendanceAlertJob` | `AttendanceRegister` |
| Student roll, imports | `app/api/admin/class-manager`, `app/api/admin/students` | `StudentProfile`, seats of `SchoolClass` | `StudentRoll` |
| Sessions, promotion | `lib/academic-session.ts`, `lib/promotion.ts`, their routes | `StudentEnrolment` by student and session | `StudentRoll` (enrolments and promotion) |
| Admissions | `lib/admission-service.ts`, `app/api/admin/admissions/*`, `app/api/admissions/*` | `AdmissionApplication`, its `PaymentTransaction`, the enrolled student | `Admissions`, on `StudentRoll` |
| Gradebook and locks, report cards | `app/api/teacher/gradebook`, `app/api/admin/gradebook/locks`, `lib/report-cards.ts` | `Gradebook` status, scores and components, cards | no; next of the plan |
| Fee billing, reconciliation, sign-in, CBT practice, messaging, invitations, budgets; tenancy; pages, mobile shell, parsers | see `PROJECT.json` | single rows, or none | no |

### 1.1 Request idempotency

*Operations.* `reserveIdempotency` inserts the row of a (school, scope, key) in
state PROCESSING with a lease; on a duplicate it reads the row and replays a
completed answer, refuses another body (409), or takes over a lease that has
expired by a conditional update. `completeReservedIdempotency` runs inside the
business transaction and fails it with `IDEMPOTENCY_RESERVATION_LOST` when the
row is no longer this holder's. `releaseReservedIdempotency` deletes the row on a
failure. *Interactions.* Seven routes call it: the checkout below, enrolment,
paper admissions, students, exams and question imports. *What is hard.* Every
statement is separate; a holder can stall for longer than its lease; a process
can die at any point; a client repeats its request. *Correct* means: effects of
one key happen at most once, and everybody who is told of success is told of that
execution.

### 1.2 Fee ledger

*Operations.* A parent declares a bank transfer; a bursar approves or rejects it,
or records cash; a super admin voids or refunds a receipt; every payment is
posted by `postCompletedFeePayment`. *Interactions.* Receipts are unique by
reference, attempts too, and the two tables share their references: a reference
typed at the desk may be the one of a parent's transfer or card. *What is hard.*
Postings increment the invoice under a conditional update while corrections
recompute it from what they have read. *Correct* means: the invoice agrees with
its receipts and corrections; money is posted once per reference, and only where
there is room for it; what a reviewer was told stays true.

### 1.3 Card checkout

*Operations.* Create or resume a checkout under an idempotency lease, ask
Paystack for a page, store and send it, or fail the attempt; the webhook; the
parent's verify call. *Interactions.* With the ledger (same attempts, receipts
and invoices), with the idempotency record, with Paystack's own state. *What is
hard.* The lease may be lost at any time; Paystack may have opened a page although
the call failed; events arrive late, twice, or not; the verify call acts on an
answer that may be old. *Correct* means: at most one payment awaits confirmation
per invoice; a card receipt is backed by a charge; a charge is never forgotten.

### 1.4 Exam sitting and release

*Operations.* Start or resume an attempt, autosave, submit, finalise; mark an
essay; close the exam, release and hide its results, grant a retake.
*Interactions.* Students write attempt rows under claims of the attempt; teachers
claim the exam row (its `updatedAt` is part of the claim) and then read and write
attempts. *What is hard.* Starts read the exam outside their transaction; saves
are reordered by the network; marking and finalising compute totals from what
they read. *Correct* means: one sitting at a time; a retake buys one attempt; the
newest save counts; scores are those of the stored answers; released scores stand
and are complete.

### 1.5 Exam page and offline queue

*Operations.* The page saves every 15 seconds what has changed, saves once more
when it is hidden, submits on request or when its countdown ends, and reloads;
what cannot be sent goes into a queue in IndexedDB, which a poll and the `online`
event replay. *Interactions.* All of them call the attempt route, which orders
writes by the client's sequence number. *What is hard.* Requests are delayed, lost
after they were applied, and replayed in two overlapping flushes; the server may
die between the claim of a submission and its scoring. *Correct* means: what the
student was told is saved or submitted, is, and with the answers they saw.

### 1.6 Notification queue

*Operations.* A job is queued once per `dedupeKey`; a dispatcher lists due jobs,
claims each by moving `nextAttemptAt` (the lease), calls the provider and records
the outcome without a condition; an administrator retries or cancels. *What is
hard.* The cron call and two buttons run dispatchers at the same time; they die or
stall between call and record. *Correct* means: no second delivery by overlap
alone, bounded calls, an honest record, and every job is settled.

### 1.7 Attendance register

*Operations.* Save a draft, submit (which locks), ask for a correction, approve
or reject it (approval unlocks), alert the parents of absent students, and bridge
the alerts to notifications. *What is hard.* The lock is read and not claimed;
sheets come from a device hours later; the bridge works on alerts that a
resubmission deletes. *Correct* means: a register that stands submitted has the
alerts of its own sheet, pending corrections are about it, it changes by a
correction only, and parents are told.

### 1.8 Roll, promotion and admissions

*Operations.* Create, import, move, archive, restore and edit students; enrol all
active students for a session; plan and commit a promotion; draft, pay for, review
and enrol an application. *Interactions.* All of them write `currentClassId` or
`StudentEnrolment`; enrolment of an applicant takes a seat like any creation; the
fee is written by five handlers (start, webhook, submit, record-fee, paper).
*What is hard.* Seats are counted under a class lock by some handlers and not by
others; plans are minutes old when they are sent; the fee handlers read outside
their transactions. *Correct* means: the check of the seats is never the one that
overfills a class; a year of a student's history keeps its row and its class, and a
year that leads to another is closed together with the opening of that one; an
applicant is enrolled once, and only with a fee that somebody paid.

## 2. Modules

```
OncePerKey <-- Idempotency <-- IdempotencyProofs       MCIdempotency
FeeBook    <-- FeeLedger   <-- FeeLedgerProofs         MCFeeLedger
               FeeLedger   <-- FeeCheckout <-- FeeCheckoutProofs  MCFeeCheckout
Rows       <-- ExamSitting <-- ExamSittingProofs       MCExamSitting
               ExamSitting <-- ExamRunner              MCExamRunner
               ExamRunner, ExamSittingProofs <-- ExamRunnerProofs
Rows  <-- NotificationQueue  <-- NotificationQueueProofs    MCNotificationQueue
Rows  <-- AttendanceRegister <-- AttendanceRegisterProofs   MCAttendanceRegister
Rows  <-- StudentRoll <-- Admissions                        MCAdmissions
                         Admissions <-- AdmissionsProofs
```

**`OncePerKey`** is what callers of the idempotency library rely on: per key one
effect, and everybody who is told, is told of it. **`Idempotency`** has one action
per database statement: `Create` (the insert), `Read` (the row after P2002 and the
decisions on it), `Recreate` (the second insert when the row had vanished),
`Takeover`, `Complete` (the business transaction with the guarded completion),
`Release`, and the environment: `Begin` (a request or its retry), `Crash`, `Tick`.
`record` is the table; `lease[c]` is the local `lockedUntil`, computed when the
request begins, as at line 105 of the code.

**`FeeBook`** is a book of receipts and reversals with what is owed per invoice.
**`FeeLedger`** has the tables `invoice`, `attempt`, `payment` and `corrected`, and
`request`, the requests that have read but not yet written. A handler that checks
rows outside its transaction is two actions (`StartTransfer`/`SubmitTransfer`,
`StartCash`/`RecordCash`, `StartReview`/`Approve` or `Reject`, `StartVoid`/
`ReadLedger`/`WriteCorrection`); the transaction itself is one action where it
works under claims, and two (`ReadLedger`, `WriteCorrection`) where it reads
without a lock and writes later. `Post` is `postCompletedFeePayment`: the receipt's
uniqueness, the conditional increment and the status from the new amount.
`told` remembers the verdicts that reviewers were given.

**`FeeCheckout`** extends the ledger. `checkout` holds the handler's steps:
RESERVED (key reserved), OPENED (attempt PENDING), READY (page known) or
INIT_FAILED. The lease is abstract here, as the theorems of `IdempotencyProofs`
allow: `holder[r]` is who may complete, and a lease may be lost at any moment.
`page`, `handed`, `charged` and `odd` are Paystack's side: which references it has
a transaction for, which pages a parent was sent to, what was charged, and what
was charged with an amount or currency other than the attempt's. `AskPaystack` and
`VerifyPost`/`VerifyFail` are the two halves of a verify call, so that its answer
can be old. The webhook is one transaction per event and may be delivered again.
The provider's own behaviour is external to the repository and is modelled from
how `lib/paystack.ts` and the webhook use it.

**`ExamSitting`**: `attempt[s]` is the sequence of a student's attempts (the
attempt number is unique), `armed` the unused retakes, `granted` how many became
available so far (a grant beside an unused retake changes nothing; a first attempt
does not look at the retake, which stays), `starting` the start requests that have
read but not created, `closing` the requests that have saved
and go on to finalise, `request` the teachers' requests. A claim of the exam row
by a marking blocks other claims until it commits (`ExamLocked`) and makes stale
every request that has read `updatedAt` before (`Outdated`). `published` is the
score released for each student. A sheet of answers is a model value that
`ObjectiveMarks` gives the marks of; essays carry a mark or none.

**`ExamRunner`** is one student's page and device on top of `ExamSitting`, whose
`Save`, `Finalize` and `Expire` are the server's side of its steps. `page` is what
the page does, with its counter and unsent change; `queue` the IndexedDB store;
`flush[f]` the writes a flush has read and still replays; `wire` the requests under
way. Sheets are numbered by the change that made them, so that "newer" is a
comparison. `typed`, `saved` and `promised` remember what the student did and was
told. `Fault` counts every loss, disconnection, reload, death and overlap.

**`NotificationQueue`** abstracts time to what the queries compare. Whoever writes
`nextAttemptAt` after a run has started writes a later time, so `may` of a run is
the set of due jobs that nobody has written since (`StartRun`, then `Claim`s). The
call of the provider and the record of its outcome are two actions; `accepted`,
`calls`, `unsure` and `refused` are the provider's side.

**`AttendanceRegister`** has one register. A save is `SaveRead`, which reads, and
a write that keeps the row lock until it commits; `late` marks a save that read
before a submission. `submission` numbers the submissions, and alerts are keyed by
it. A correction request reads the lock, then looks for a pending one, then is
created: three actions. The bridge is three steps per alert (job, in-app notice, status).

**`StudentRoll`** has `profile`, `enrol` and `desk`, the requests with what they
have read. A seat is taken in two steps, `CountSeats` under the class lock and the
write; the lock is held in between (`LockFree`), also against the writes that take
it through a foreign key. `Edit` and `CommitPromotion` change classes without a
count. A promotion carries any decisions (`Offered`, a subset of `Decisions`) about
any students, between any two sessions: the route checks no more. `seated` is the set of students whose present seat was counted, for the
property. **`Admissions`** composes the roll with applications and fees:
`StartEnrol` puts a creation on the roll's desk, `CreateStudent` is the roll's
`Create` together with the application's approval, and every other step of the
roll leaves the fees alone. `office` has the requests about fees; `handed`,
`charged` and `acked` are Paystack's side.

**`Rows`** has the function updates that stand for an insert and a delete.

## 3. Runs

Every run finishes in at most a few minutes with two workers. Deadlock is not
checked: requests end, clocks and grants are bounded, and the systems really may
come to rest.

| Run | Asks | Instance and why it is enough |
|---|---|---|
| `idempotency_implements_once` | is the protocol a once-per-key store, if no two leases are equal? | 3 clients, 1 key, 2 bodies, clock to 4: a holder that stalls, one that takes over and one that releases in between |
| `idempotency_colliding_leases` | what survives when leases may be equal, and is everybody answered in the end? | 2 clients, 2 bodies, clock to 4, fair |
| `fee_ledger` | does the ledger implement the book, and do transfers, verdicts and receipts agree, when no write falls into a correction? | 1 invoice of 2 units, 3 references, 2 requests: two payments of 1 fill it, one more is too much, one may be corrected |
| `fee_ledger_void_race` | *violation*: does the balance agree with the receipts without that assumption? | a payment during a void is lost |
| `fee_checkout` | backed receipts, one open attempt, stored pages stay open, acknowledged events left something, every charge settled, while corrections and postings overlap | one card reference and one of the desk, 2 checkouts (two keys, or two runs of one) and one request of staff, which can fill, empty or correct the invoice at any step; fair events |
| `exam_sitting` | one sitting, retakes, newest save, released scores, scores of the answers, completeness without the two disorders below | 1 student with 2 starts and 1 grant (before or after the first attempt), 2 saves, 2 essays, 2 teachers; symmetric starts and teachers |
| `exam_runner` | promises to the student, kept and in the end delivered | 1 page with 2 changes, 2 flushes, 2 faults of any kind, a write dropped after 1 retry instead of 5: a lost answer with a replay, a replay with an overlap, a death with a replay; fair |
| `exam_runner_stale_resume` | *violation*: does a queued submission arrive when the page was loaded from the device's copy? | the same |
| `notification_queue` | single delivery, bounded calls, honest records, and settlement | 2 runs, one deliverable job and one without a provider, 2 attempts, 2 retries or cancellations of the deliverable one, 1 death; fair. |
| `attendance_register` | alerts match, corrections are current, the lock stands, parents are told | 2 students (one muted), 2 saves, 2 submissions, 1 correction request, 1 bridge that may die; fair |
| `admissions` | seats, history, fees and single students | up to 3 students, 2 classes with 1 and 2 seats, 2 sessions, 1 application with 2 references, 2 interleaved requests out of budgets of 4 (roll and fees: 3 and 1, 1 and 3, 0 and 4); promotions decide among `MCOffered` (promoted into one class, repeated in the other, graduated, in progress again) |
| `admission_card_fee` | *violation*: is the event of a charge answered in the end? | one application and one start, no fault |

Bounds that are part of the modules: `MaxTime` (the clock of `Idempotency`;
`WithinHorizon` keeps a key from being abandoned when its lease could no longer
expire before the end of time), `Amounts` and `Refs`, `Sequences` (client
sequences of saves), `MaxGrants`, `MaxRetries` and `MaxFaults`, `MaxAsks` (per job) and
`MaxDeaths`, `MaxSubmissions` and `MaxRequests`, `Budgets`, and `Offered` (the
decisions that promotions may carry; the theorems are for any of them). Symmetry is used in safety runs only, for sets
whose members the modules never tell apart.

### What the violations show

Each of them contradicts a sentence of the repository, quoted in `PROJECT.json`:

1. *Void against payment* (`fee_ledger_void_race`). `super-admin/payments` reads
   receipts and corrections without a lock and writes absolute totals; a payment in
   between is lost from the invoice.
2. *Queued submission* (`exam_runner_stale_resume`). A page that was opened from the
   device's copy restarts its counter below the server's; the submission it queues
   is refused as stale (409), and the queue drops what is answered 4xx.
3. *Card fee of an admission* (`admission_card_fee`). `markApplicationPaid` looks the
   fee row up by the application's public number, while the row is keyed by its id.
   It never finds the row that the checkout made, inserts a second one, and the
   unique key rolls the transaction back, each time the event is sent.

### Known divergences without a run

They were met while reading and are left to the reader of the code; each is a
behaviour that a comment, a message or a name does not lead one to expect.

* *Fees.* An approval that finds a receipt under the reference answers 200 and
  leaves the transfer PENDING, so that it can be rejected too
  (`fee-payment-service.ts:38`). "Held for finance review" is not backed by a record
  (`fee-payment-service.ts:80`). `lockedUntil` identifies a lease
  (`idempotency.ts:83`) only if no two are computed in the same millisecond;
  at-most-once does not need it and is proved without.
* *Exams.* A retake that is granted before the first attempt stays unused beside it,
  and one that is granted beside an unused one is lost. Marking an unsubmitted attempt leaves its objective answers unscored
  (results route, line 180). A start that read the exam PUBLISHED creates its attempt
  after the close. An autosave that overtakes the submission makes it stale
  (`QuietSubmits`). The countdown says "exam submitted" whatever the answer was. A
  replay after the deadline finalises the answers that are there. A server that dies
  between claim and finalisation leaves the attempt, and the replayed submission is
  dropped. A write is dropped after six failures.
* *Gradebook.* A save that read OPEN before the lock edits a locked gradebook, and a
  submission takes the lock away; hiding results during a release leaves sync rows
  active; two exams of one component undo each other; a report card that is released
  while it is generated is overwritten.
* *Roll.* Edits, promotions, a move back and a stale restoration overfill a class;
  capacity can be lowered below the roll. A restored leaver's account stays closed.
  The promotion route takes any outcome for any students of the school
  (`promotion/route.ts:71`), and its guard against a second run looks at the rows of
  the target session only: a run that keeps nobody there (leavers only, or
  IN_PROGRESS) is not stopped. So a closed year can be decided again, or set back
  to IN_PROGRESS with its student deactivated, and one year can be promoted into two
  sessions.
  Enrolling all students in the target session makes its promotion refuse. Students
  who are admitted or created during the year get no enrolment row, although
  `academic-session.ts:347` says so. Two concurrent changes of the current term leave
  two. Two uploads of one sheet double its students.
* *Admissions.* A checkout that starts while the desk records the fee writes PENDING
  over PAID; a submission's status may undo an approval; a crash after an enrolment
  loses the parent's temporary password.
* *Attendance and notifications.* A save refused for another reason answers 400 and
  the queue drops it; the review of a correction never looks at its status; the
  production compose file calls the dispatcher with a header that the route does not
  read; a retry may reopen a job that a dispatcher has just marked SENT.

### Liveness and fairness

`ClientsAreAnswered` assumes that time passes, that a handler that runs takes its
next step, and that a client told to retry does so (`Fairness` of `Idempotency`).
Crashes have no fairness: they may always or never happen, within the horizon.
`ChargesAreSettled` assumes one thing: Paystack delivers the event of a charge
until it is answered with 2xx (`FairCheckoutSpec`), which is what the webhook's
answer 500 relies on. It promises a receipt or an issue unless the invoice has no
room for the charge, the refused charge of the divergences. Nothing is assumed of
parents, staff or the checkout handler.
`PromisedIsSubmitted` assumes that connectivity returns and the page's poll keeps
running (the interval of `initSyncManager`), and that requests are answered or
fail; faults are finitely many. `EventuallySettled` and `AbsencesAreTold` assume the
cron call of the dispatcher and of the bridge, that a run which does not die goes
on, and that time passes a lease; deaths are bounded. `EventsAreAnswered` is violated
although what has arrived is worked on and Paystack sends an event again for ever
(strong fairness: a delivery needs a server process that is free).

## 4. Assumptions in the models

Some constants turn an assumption on or off. With the flag FALSE the model is the
code as it is; with TRUE it is the code under the assumption, and the difference
is one of the findings or divergences above.

* `DistinctStamps`: no two requests for one key compute the same `lockedUntil`.
* `QuietCorrections` (TRUE in `fee_ledger`, FALSE in the checkout runs and the
  violations; the theorems on verdicts, transfers and attempts do not need it): no
  posting and no other correction writes an invoice between a correction's reads
  and its write.
* `PromptStarts`: no start is between its read of the exam and its insert when the
  exam is closed. `SubmittedOnly`: teachers mark submitted attempts only.
* `QuietSubmits`: the exam is submitted with every change sent (answered or not),
  and the answers do not change while it is submitted. `CleanLoads`: the page is loaded again only with nothing queued or under
  way, and used once the server has answered it; FALSE in the violation run.
* `PromptRuns`: a dispatcher run does not outlive the lease (two minutes) of the job
  it is sending. The mail adapter has no timeout, so this is not the code's doing.
* `MayDie` of `Admissions`: requests about fees may die; FALSE where the violation
  shall need no fault.

Simplified:

* *Fees.* A correction reads an invoice with its receipts and corrections in one
  step, although the nested read is several statements; with `QuietCorrections` no
  write falls among them, and the violation needs no finer step.
* *Exams.* An essay without an answer row counts as unmarked; the code looks at the
  answer rows only, and finds one for every essay once an attempt is submitted
  (`SubmittedOnly`). A start's fee lock, window and subjects are not distinguished.
* *Exam page.* The answers 401 and 404 (signed out, attempt gone) are left out: the
  queue drops a write that is answered so, and what was promised of it is lost, as the
  violation shows for a 409. The countdown that fires while a submission is pending
  would send the same answers again, and the exit button's save is one more save; both
  are left out. `incrementRetry` is one step; it is a get and a put, so that of two
  flushes one may lose a count or put back a write that the other has removed, which
  is then replayed once more than the model does.
* *Attendance.* Students have a parent with an account, a phone and an e-mail address;
  the code skips channels and notices for the others, who have nobody to tell.
* *Admissions.* Submitting posts the fee and writes the status in one step, and no
  property is about what is between. An event whose amount or currency is not that of
  the fee leaves an issue and is acknowledged; it posts nothing and is left out.
  DOCUMENTS_REQUESTED, DECLINED and WAITLISTED are one with PENDING_REVIEW: no
  handler here tells them apart, and the enrolment looks at the fee only.
* *Roll.* A promotion decides a student once (the page sends one decision each), and
  one with a student that does not exist rolls back like any request that fails.

Left out: audit rows, notifications and mails (no modelled handler reads them
back), receipt numbers, tab-switch counters, question texts, and the status OVERDUE,
which `computeInvoiceStatus` never returns after a payment. A transaction
that works only under claims and unique keys is one action: PostgreSQL re-evaluates
the WHERE of a claim on the committed row, so at READ COMMITTED the claim and what
follows are one step as far as other claims of the row can see.

## 5. Proofs

`tlapm` checks eight modules of proofs. TLC has checked the properties that the
runs list first, and `RunnerIInv` on the instance of its run, with three faults, and
with one more sheet and three retries. Beyond the assumptions that the modules name
(types of the constants; `Admins` finite, so that open requests can be counted), a
theorem assumes only the flags that its statement names.

**`IdempotencyProofs`**: `TypeCorrect`, `AtMostOnce`, `CompletedRowIsFinal` and
`LiveLeasesAreRespected` (under a live lease only who holds its stamp changes the
row) need no assumption. `AnswersAgree` and `LeaseIdentifiesHolder` need
`DistinctStamps` and are not inductive: the invariant adds `StampsInv` (stamps differ between clients,
none is ahead of the clock, a row's stamp that could be computed again is still
held by a client, so that a new request sees it) and `AgreementInv` (an owner of a
row sent what the row says; who was told was told of the completed row). The
theorem `Implementation` maps a completed row to the abstract effect: `Complete` is
the abstract execution, an answer the abstract telling, and all other steps stutter.

**`FeeLedgerProofs`**: `RowsStayConsistent` is inductive with the types, since every
write of the row computes all three columns, or increments under the guard.
`TransfersMatchReceipts` and `VerdictsHold` need `RequestsMatchRows` (the columns a
request has read never change), `RejectedAreTransfers` (only a bank transfer can be
rejected, so no checkout reopens it) and `OneOpenAttempt`. `BalancesAgree` and
`Implementation` need `QuietCorrections`; the invariant adds that what a correction
has read is still true (`ReadsAreCurrent`), that a receipt is corrected once
(`CorrectionsAreUnique`), and that no invoice is overpaid (`NeverOverpaid`), without
which the NotBelowZero of the code would hide a difference. Sums are cardinalities
of sets of units, so that adding a receipt is a disjoint union and no induction is
needed.

**`FeeCheckoutProofs`** uses the ledger's invariant again: the ledger's own steps keep
it by `InductiveInvariant`, and every other step does to the ledger one of four
things (`LedgerEffects`): nothing, or it opens, fails or posts a card attempt. The
invariant `CardInv` adds `StoredKeysAreFree` (a key whose response is stored is not
leased again, so that `FailOwn` cannot reach its attempt), `CardsAreKept` (what the
provider and the parent know of a reference belongs to a card attempt, and attempts
do not change their kind) and `VerifiedAreCharged` (a "success" that a verify call
was told stays true). From it follow `CardReceiptsBacked`, `ChargesAccounted`,
`CheckoutsAreExclusive` and the action property `StoredPagesAreKept`, with no flag
assumed.

**`ExamSittingProofs`**: `Invariance` proves the conjunction of `StartsReadEnded` (a
start has read an attempt that is over), `OneSitting`, `RetakesAreSpentOnce` (an
equality: the retakes that became available are the attempts after the first and the
unused one, so that none buys two attempts and none is burnt without one),
`MarkingExcludesRelease` (the exam row is held while marks are written),
`NothingPublishedUnlessReleased` and `PublishedScoresStand`; with `SubmittedOnly`
also `MarksFollowSubmission` and `ScoresMatchAnswers`, with `PromptStarts` also
`ClosedForGood` and `ReleasedIsComplete`. `SavesAreOrdered` is an action property.

**`NotificationQueueProofs`**: `DeliveriesAreSingle` needs `PromptRuns` and the
invariant `SendsAreLimited`: acceptances, runs that hold a job and may still be
told "ok", and the send to come of a job that can be claimed are together no more
than one and the unsure ones. `ReachIsDue` says that a run can claim only what is
due, `AnswersAreTrue` and `AttemptsAreCalls` that what a run knows has happened;
`RecordsAreHonest` follows from them and `LimitsStand`, without `PromptRuns`. Every
step is classified once by what it does to a job, and the counts are moved by
lemmas on cardinality. `CallsStayBounded` needs `PromptRuns` and three more parts,
since neither the row's count nor that of a run that read it bounds the calls alone:
the calls keep pace with *every* count of attempts that may still be written
(`CallsKeepPace`), and counts and limits with the requests (`AttemptsKeepPace`,
`LimitsKeepPace`). The bound that one expects, one call more per request, turned out
not to be inductive and then, with three requests, not to be true: the run that a
retry lets overlap calls beside the one that holds the job, and the older of the two
may set the count back under the limit that the retry has raised. So a request may
cost two calls.

**`ExamRunnerProofs`**: the invariant `RunnerIInv` has two halves. `Links` needs no
assumption and no bound: types, one attempt, flushes that hold the queue's own
writes (`FlushesFollowQueue`), one replay at a time per flush (`ReplaysFollowFlush`),
and ids with a largest (`IdsAreBounded`), so that a new id is new. `NothingIsLost`
holds while the queue has given no write up, with `QuietSubmits` and `CleanLoads`.
Its core is `NewerIsLater`: between any two messages that may still arrive (sent,
queued or in a flush's copy), the page and the server's row, a later number carries
answers at least as new. With it a replay that the server refuses as stale is a
replay of something that the server has, or has newer, and dropping it from the
queue is harmless (`RemovedIsStored` says the same of a flush's copy that outlives
the queue's). `SubmissionsAreLast` and `OwnSubmissionIsNewest` keep the submission
ahead of every save, so that it is not refused; `AnswersAreTrue` and
`ClosingIsAwaited` tie answers to the row, and `ToldIsKept` what the student was
shown to the row and the queue. Most steps only relay messages (`Passes`), and keep
all of this by one lemma; the others are what the page sends, what the server
stores, and what leaves the queue. From it follow `PromisesHold`, `SubmissionsStay`
and `SavesStay`. `PageTakesASitting` adds that the page's server is that of
`ExamSitting`: each step is one of its steps or leaves its tables alone, and its
invariant holds of an attempt that is taken through the page (for all positive
sequence numbers).

**`AttendanceRegisterProofs`**: `AlertsMatch`, `PendingCurrent`, `SentIsTold` and
`SubmittedStands`, from `SavesAreLate` (while the register stands submitted, every
save in progress has read it before), `AsksAreCurrent` and `BridgesKeepOrder`.

**`AdmissionsProofs`** has the lemmas about the roll and then the theorems.
`SeatsHold` needs `LocksExclude` (one request at most is between count and
write in a class) and `WritersHaveRoom` (it still finds the seat it counted: nobody
else can be counted in meanwhile, and whoever comes uncounted is not `seated`).
`HistoryHolds` is an action property over all writers of enrolments, for any
decisions that a promotion may carry: a row stays and keeps its class; only a
promotion of its student's year changes its outcome, and if the year then leads to
another one, that one's row is new in the same step. It rests on the types and on
the unique key alone (`EnrolmentRowDecided`, `KeptHaveClasses`). That a closed year
is never opened again is *not* so, and not claimed (see *Roll* in section 3).
`PlacesAreBacked` rests on `RefsAreOwn`: a card reference belongs to one application,
wherever it is kept (row, request, what the family was given), because it is made up
fresh; so a charge for the reference that a webhook finds is a charge for that
application, and from there the fee is carried along the application, the request
for a seat and the student (`AppsPaid`, `DeskPaid`). No flag is assumed.

Only model-checked: what holds under fairness (`ClientsAreAnswered`,
`ChargesAreSettled`, `PromisedIsSubmitted`, `EventuallySettled`, `AbsencesAreTold`),
which the prover cannot reach. Every safety property of the passing runs is a
theorem. Where a theorem has a flag as its hypothesis, the run or a violation run
shows what happens without it, or section 3 names the divergence.

## 6. Plan

1. *Done*: idempotency, fee ledger, card checkout, exam sitting; exam page and
   offline queue, notification queue, attendance register, student roll with
   promotion, admissions; the proofs above.
2. A module of release and gradebook: sync rows, components, UNRELEASE, gradebook
   saves and locks, and the generation and release of report cards. Properties: a
   component equals what the release wrote or what a teacher wrote later; a locked
   gradebook does not change; a released card is that of its marks.
3. Proofs: the properties of that module; an abstract specification of the exam page
   (a submission is told once and is then final) that `ExamRunner` implements.
4. Billing, CBT practice, sign-in and the current term, if they add questions.

## 7. Not modelled

* The gradebook and report cards, for want of a module as yet; their races are in
  the list of hazards.
* Pages, forms, the mobile shell, parsers and exports. They are the larger part of
  the repository's lines and render or convert; no step of theirs is shared, except
  the exam page, which is modelled. The share of lines that the models stand for is
  therefore small and cannot become large.
* Tenancy: every query carries `schoolId`, and the models are of one school.
* Sign-in, messaging, invitations, budgets, practice and reconciliation: single
  rows, each written by one statement, where a unit test reaches what could be wrong.

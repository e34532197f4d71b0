------------------------------ MODULE Idempotency ------------------------------
(***************************************************************************)
(* The idempotency reservation protocol of src/lib/idempotency.ts, as the   *)
(* mutating routes use it: reserve the key, run the side effects and        *)
(* complete the reservation in ONE database transaction, or release it.     *)
(* Every statement that PostgreSQL executes atomically is one action; the   *)
(* steps of concurrent requests interleave, any server may die between two  *)
(* statements, and a client whose answer was not final sends the same       *)
(* request again.                                                           *)
(***************************************************************************)
EXTENDS Naturals

CONSTANTS Clients,   \* senders of requests; each keeps its key across retries
          Keys,      \* (schoolId, scope, key) triples
          Hashes,    \* request hashes: method, path, actor, scope and body
          NoHash,    \* the hash of a row that does not exist
          Nobody,    \* no response stored, or received
          LockMs,    \* lease length, IDEMPOTENCY_LOCK_MS in clock ticks
          MaxTime,   \* bound on the clock
          DistinctStamps  \* do requests never compute the same lockedUntil?

ASSUME ConstantsAssumption ==
    /\ LockMs \in Nat \ {0}
    /\ MaxTime \in Nat
    /\ DistinctStamps \in BOOLEAN
    /\ Nobody \notin Clients
    /\ NoHash \notin Hashes

VARIABLES record,    \* the IdempotencyRecord table
          commits,   \* how often the side effects of a key were committed
          now,       \* the clock the servers read
          pc,        \* where the handler of a client's request stands
          req,       \* the client's key and request hash
          lease,     \* the handler's `lockedUntil`
          answer     \* the last answer the client received

vars == <<record, commits, now, pc, req, lease, answer>>

NoLease == 0                              \* lockedUntil: null

Statuses == {"ABSENT", "PROCESSING", "COMPLETED"}
Records == [status: Statuses, hash: Hashes \cup {NoHash},
            lockedUntil: Nat, response: Clients \cup {Nobody}]
Absent == [status |-> "ABSENT", hash |-> NoHash,
           lockedUntil |-> NoLease, response |-> Nobody]

Final == {"done", "replay", "conflict", "failed"}
Retriable == {"inProgress", "lost", "unavailable"}
Answers == [kind: {"none"} \cup Final \cup Retriable,
            response: Clients \cup {Nobody}]
Answer(kind) == [kind |-> kind, response |-> Nobody]

Running == {"create", "read", "recreate", "takeover", "effects", "release",
            "respond"}

TypeOK ==
    /\ record \in [Keys -> Records]
    /\ commits \in [Keys -> Nat]
    /\ now \in Nat
    /\ pc \in [Clients -> Running \cup {"idle", "answered"}]
    /\ req \in [Clients -> [key: Keys, hash: Hashes]]
    /\ lease \in [Clients -> Nat]
    /\ answer \in [Clients -> Answers]

Init ==
    /\ record = [k \in Keys |-> Absent]
    /\ commits = [k \in Keys |-> 0]
    /\ now = 0
    /\ pc = [c \in Clients |-> "idle"]
    /\ req \in [Clients -> [key: Keys, hash: Hashes]]
    /\ lease = [c \in Clients |-> NoLease]
    /\ answer = [c \in Clients |-> Answer("none")]

RecordOf(c) == record[req[c].key]

Goto(c, label) == pc' = [pc EXCEPT ![c] = label]

\* The handler returns `a`: the request is over.
Return(c, a) == Goto(c, "answered") /\ answer' = [answer EXCEPT ![c] = a]

-----------------------------------------------------------------------------
(* reserveIdempotency                                                       *)

NewLease == now + LockMs

\* The row a reservation writes: PROCESSING under this handler's lease.
Reservation(c) == [status |-> "PROCESSING", hash |-> req[c].hash,
                   lockedUntil |-> lease[c], response |-> Nobody]

\* A request (or a retry after an answer that was not final) reaches a handler,
\* which computes the lease it will ask for before it touches the database. A
\* client whose connection broke while its handler ran on is a second client
\* with the same key and hash.
Begin(c) ==
    /\ pc[c] = "idle" \/ (pc[c] = "answered" /\ answer[c].kind \in Retriable)
    /\ DistinctStamps => \A d \in Clients : req[d].key = req[c].key
                                               => lease[d] # NewLease
    /\ lease' = [lease EXCEPT ![c] = NewLease]
    /\ Goto(c, "create")
    /\ UNCHANGED <<record, commits, now, req, answer>>

\* idempotencyRecord.create: the unique (schoolId, scope, key) admits one row.
Create(c) ==
    /\ pc[c] = "create"
    /\ IF RecordOf(c).status = "ABSENT"
       THEN /\ record' = [record EXCEPT ![req[c].key] = Reservation(c)]
            /\ Goto(c, "effects")
       ELSE /\ Goto(c, "read")
            /\ UNCHANGED record
    /\ UNCHANGED <<commits, now, req, lease, answer>>

\* Mutant: the stored hash is not compared before a replay.
ReadAnyHash(c) ==
    /\ pc[c] = "read"
    /\ LET existing == RecordOf(c) IN
       \/ /\ existing.status = "ABSENT"
          /\ Goto(c, "recreate")
          /\ UNCHANGED answer
       \/ /\ existing.status = "COMPLETED"
          /\ Return(c, [kind |-> "replay", response |-> existing.response])
       \/ /\ existing.status = "PROCESSING"
          /\ Goto(c, "takeover")
          /\ UNCHANGED answer
    /\ UNCHANGED <<record, commits, now, req, lease>>

\* findUnique after P2002, and the decisions taken on the row it returned.
Read(c) ==
    /\ pc[c] = "read"
    /\ LET existing == RecordOf(c) IN
       \/ /\ existing.status = "ABSENT"
          /\ Goto(c, "recreate")
          /\ UNCHANGED answer
       \/ /\ existing.status # "ABSENT"
          /\ existing.hash # req[c].hash
          /\ Return(c, Answer("conflict"))
       \/ /\ existing.status = "COMPLETED"
          /\ existing.hash = req[c].hash
          /\ Return(c, [kind |-> "replay", response |-> existing.response])
       \/ /\ existing.status = "PROCESSING"
          /\ existing.hash = req[c].hash
          /\ Goto(c, "takeover")
          /\ UNCHANGED answer
    /\ UNCHANGED <<record, commits, now, req, lease>>

\* The row vanished between the insert and the read: one more insert.
Recreate(c) ==
    /\ pc[c] = "recreate"
    /\ IF RecordOf(c).status = "ABSENT"
       THEN /\ record' = [record EXCEPT ![req[c].key] = Reservation(c)]
            /\ Goto(c, "effects")
            /\ UNCHANGED answer
       ELSE /\ Return(c, Answer("inProgress"))
            /\ UNCHANGED record
    /\ UNCHANGED <<commits, now, req, lease>>

\* Mutants: takeover of a live lease, and of rows
\* without a lease only.
ExpiredAlways(r) == r.status = "PROCESSING"
ExpiredNever(r) == r.status = "PROCESSING" /\ r.lockedUntil = NoLease

\* WHERE status = PROCESSING AND lockedUntil < now(), and nothing else: the
\* request hash is not compared again.
Expired(r) == r.status = "PROCESSING" /\ r.lockedUntil < now

\* Mutant: the hash of the first request stays in the row.
TakenOverKeepingHash(c) == [RecordOf(c) EXCEPT !.lockedUntil = lease[c]]

\* The row after a takeover: the lease and the hash are both replaced.
TakenOver(c) == [RecordOf(c) EXCEPT !.lockedUntil = lease[c],
                                    !.hash = req[c].hash]

Takeover(c) ==
    /\ pc[c] = "takeover"
    /\ IF Expired(RecordOf(c))
       THEN /\ record' = [record EXCEPT ![req[c].key] = TakenOver(c)]
            /\ Goto(c, "effects")
            /\ UNCHANGED answer
       ELSE /\ Return(c, Answer("inProgress"))
            /\ UNCHANGED record
    /\ UNCHANGED <<commits, now, req, lease>>

-----------------------------------------------------------------------------
(* completeReservedIdempotency and releaseReservedIdempotency               *)

\* The guard both writes share: still PROCESSING, and under my lease.
Owns(c) == /\ RecordOf(c).status = "PROCESSING"
           /\ RecordOf(c).lockedUntil = lease[c]

Completed(c) == [RecordOf(c) EXCEPT !.status = "COMPLETED",
                                    !.lockedUntil = NoLease,
                                    !.response = c]

\* Mutant: the completion is an unguarded update.
CompleteUnguarded(c) ==
    /\ pc[c] = "effects"
    /\ record' = [record EXCEPT ![req[c].key] = Completed(c)]
    /\ commits' = [commits EXCEPT ![req[c].key] = @ + 1]
    /\ Goto(c, "respond")
    /\ UNCHANGED <<now, req, lease, answer>>

\* The route's transaction: the side effects and the completion commit together,
\* or IDEMPOTENCY_RESERVATION_LOST rolls both back. Most routes then tell the
\* client to retry; the exam routes release and fail like on any other error.
Complete(c) ==
    /\ pc[c] = "effects"
    /\ IF Owns(c)
       THEN /\ record' = [record EXCEPT ![req[c].key] = Completed(c)]
            /\ commits' = [commits EXCEPT ![req[c].key] = @ + 1]
            /\ Goto(c, "respond")
            /\ UNCHANGED answer
       ELSE /\ \/ Return(c, Answer("lost"))
               \/ Goto(c, "release") /\ UNCHANGED answer
            /\ UNCHANGED <<record, commits>>
    /\ UNCHANGED <<now, req, lease>>

Respond(c) ==
    /\ pc[c] = "respond"
    /\ Return(c, [kind |-> "done", response |-> c])
    /\ UNCHANGED <<record, commits, now, req, lease>>

\* The side effects are refused (validation, capacity, provider outage): their
\* transaction is rolled back and the handler goes on to release its key.
Refuse(c) ==
    /\ pc[c] = "effects"
    /\ Goto(c, "release")
    /\ UNCHANGED <<record, commits, now, req, lease, answer>>

\* The horizon of the bounded clock: a reservation is only left behind while its
\* lease can still expire.
WithinHorizon(c) == lease[c] < MaxTime

\* deleteMany is guarded by the lease and best-effort: it may fail silently.
Release(c) ==
    /\ pc[c] = "release"
    /\ \/ Owns(c) /\ record' = [record EXCEPT ![req[c].key] = Absent]
       \/ ~Owns(c) /\ UNCHANGED record
       \/ Owns(c) /\ WithinHorizon(c) /\ UNCHANGED record
    /\ Return(c, Answer("failed"))
    /\ UNCHANGED <<commits, now, req, lease>>

-----------------------------------------------------------------------------
(* The environment                                                          *)

\* The server dies, or the connection does, between two statements.
Crash(c) ==
    /\ pc[c] \in Running
    /\ WithinHorizon(c)
    /\ Return(c, Answer("unavailable"))
    /\ UNCHANGED <<record, commits, now, req, lease>>

Tick ==
    /\ now < MaxTime
    /\ now' = now + 1
    /\ UNCHANGED <<record, commits, pc, req, lease, answer>>

Handler(c) ==
    \/ Create(c) \/ Read(c) \/ Recreate(c) \/ Takeover(c)
    \/ Complete(c) \/ Respond(c) \/ Refuse(c) \/ Release(c)

Next == Tick \/ \E c \in Clients : Begin(c) \/ Handler(c) \/ Crash(c)

Spec == Init /\ [][Next]_vars

\* Time passes, handlers run to their end, and a client told to retry does.
Fairness == /\ WF_vars(Tick)
            /\ \A c \in Clients : WF_vars(Handler(c)) /\ WF_vars(Begin(c))

FairSpec == Spec /\ Fairness

-----------------------------------------------------------------------------
(* Properties                                                               *)

\* The side effects of a key are committed at most once, and exactly when the
\* record says COMPLETED, whatever was taken over, released, lost or retried.
EffectsMatchRecord ==
    \A k \in Keys : commits[k] = IF record[k].status = "COMPLETED" THEN 1 ELSE 0

\* Whoever was told that its request is done, or was replayed an answer, sent
\* the request whose effects were committed and got that execution's response.
\* It needs the takeover to replace the hash: between a request's read and its
\* takeover the key may have been released and reserved with another body.
AnswersAgree ==
    \A c \in Clients :
        answer[c].kind \in {"done", "replay"} =>
            /\ RecordOf(c).status = "COMPLETED"
            /\ RecordOf(c).hash = req[c].hash
            /\ RecordOf(c).response = answer[c].response

\* The refinement mapping to OncePerKey: the execution a COMPLETED row records,
\* and the execution a client was told of.
Effect == [k \in Keys |->
             IF record[k].status = "COMPLETED"
             THEN [by |-> record[k].response, hash |-> record[k].hash]
             ELSE [by |-> Nobody, hash |-> NoHash]]
Told == [c \in Clients |-> IF answer[c].kind \in {"done", "replay"}
                           THEN answer[c].response ELSE Nobody]

Once == INSTANCE OncePerKey WITH effect <- Effect, told <- Told

\* The protocol implements the once-per-key store, provided that no two requests
\* for a key ever compute the same `lockedUntil`.
ImplementsOncePerKey == Once!Spec

\* `lockedUntil` identifies a lease: no two handlers can complete under one.
LeaseIdentifiesHolder ==
    \A c, d \in Clients :
        /\ pc[c] = "effects" /\ Owns(c)
        /\ pc[d] = "effects" /\ Owns(d)
        /\ req[c].key = req[d].key
        => c = d

\* Why a stamp identifies a lease: no two clients hold the same one,
StampsDistinct ==
    \A c, d \in Clients : /\ req[c].key = req[d].key
                          /\ lease[c] = lease[d]
                          /\ lease[c] # NoLease
                          => c = d
\* none is ahead of the clock,
StampsInClock ==
    \A c \in Clients : /\ lease[c] <= now + LockMs
                       /\ pc[c] # "idle" => lease[c] # NoLease
\* and a row's stamp that could still be computed again is held by a client,
\* whom Begin's DistinctStamps guard therefore sees.
RowStampsHeld ==
    \A k \in Keys : record[k].status = "PROCESSING" =>
        /\ record[k].lockedUntil # NoLease
        /\ record[k].lockedUntil <= now + LockMs
        /\ record[k].lockedUntil = now + LockMs
             => \E c \in Clients : /\ req[c].key = k
                                   /\ lease[c] = record[k].lockedUntil

StampsInv == StampsDistinct /\ StampsInClock /\ RowStampsHeld

\* Who owns a row asked for what it says.
OwnersAgree == \A c \in Clients : Owns(c) => RecordOf(c).hash = req[c].hash

\* Who was told of success, or is about to be, sent what the COMPLETED row says
\* and is told of the execution it records.
ToldAgree ==
    /\ \A c \in Clients : pc[c] = "respond" =>
          /\ RecordOf(c).status = "COMPLETED"
          /\ RecordOf(c).hash = req[c].hash
          /\ RecordOf(c).response = c
    /\ \A c \in Clients : answer[c].kind \in {"done", "replay"} =>
          /\ pc[c] = "answered"
          /\ RecordOf(c).status = "COMPLETED"
          /\ RecordOf(c).hash = req[c].hash
          /\ RecordOf(c).response = answer[c].response
    /\ \A k \in Keys : record[k].status = "COMPLETED" => record[k].response \in Clients

AgreementInv == OwnersAgree /\ ToldAgree

\* The inductive invariant behind AnswersAgree and the refinement.
IInv == TypeOK /\ StampsInv /\ AgreementInv

\* A COMPLETED record, the source of every replay, is never changed or removed.
CompletedIsFinal ==
    [][\A k \in Keys :
         record[k].status = "COMPLETED" => record'[k] = record[k]]_vars

\* A live lease ends by its own holder only: no other request takes it over,
\* releases it or completes it.
LiveLeaseIsRespected ==
    [][\A k \in Keys :
         /\ record[k].status = "PROCESSING"
         /\ now <= record[k].lockedUntil
         /\ record'[k] # record[k]
         => \E c \in Clients : /\ pc[c] \in {"effects", "release"}
                               /\ pc'[c] # pc[c]
                               /\ req[c].key = k
                               /\ lease[c] = record[k].lockedUntil]_vars

\* No key stays burnt: a client that retries is answered for good in the end,
\* also when a crash or a failed release left its key reserved.
ClientsAreAnswered ==
    \A c \in Clients :
        pc[c] = "create" ~> (pc[c] = "answered" /\ answer[c].kind \in Final)
=============================================================================

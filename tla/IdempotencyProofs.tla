-------------------------- MODULE IdempotencyProofs --------------------------
(***************************************************************************)
(* Proofs about the reservation protocol, for any sets of clients, keys and *)
(* hashes, any lease length and any clock bound.                            *)
(***************************************************************************)
EXTENDS Idempotency, TLAPS

USE ConstantsAssumption

\* The rows and the answers the protocol writes have their types.
LEMMA RowTypes ==
  ASSUME TypeOK, NEW c \in Clients
  PROVE  /\ req[c].key \in Keys /\ req[c].hash \in Hashes
         /\ lease[c] \in Nat
         /\ RecordOf(c) \in Records
         /\ Absent \in Records
         /\ Reservation(c) \in Records
         /\ TakenOver(c) \in Records
         /\ Completed(c) \in Records
<1>1. /\ req[c] \in [key: Keys, hash: Hashes]
      /\ record \in [Keys -> Records]
      /\ lease[c] \in Nat
  BY DEF TypeOK
<1>2. req[c].key \in Keys /\ req[c].hash \in Hashes
  BY <1>1
<1>3. RecordOf(c) \in Records
  BY <1>1, <1>2 DEF RecordOf
<1>4. Absent \in Records /\ Reservation(c) \in Records
  BY <1>1, <1>2 DEF Absent, Reservation, Records, Statuses, NoLease
<1>5. TakenOver(c) \in Records /\ Completed(c) \in Records
  BY <1>1, <1>2, <1>3 DEF TakenOver, Completed, Records, Statuses, NoLease
<1> QED
  BY <1>1, <1>2, <1>3, <1>4, <1>5

\* What the fields of those rows are.
LEMMA RowFields ==
  ASSUME TypeOK, NEW c \in Clients
  PROVE  /\ Absent.status = "ABSENT"
         /\ Reservation(c).status = "PROCESSING"
         /\ Reservation(c).hash = req[c].hash
         /\ Reservation(c).lockedUntil = lease[c]
         /\ TakenOver(c).status = RecordOf(c).status
         /\ TakenOver(c).hash = req[c].hash
         /\ TakenOver(c).lockedUntil = lease[c]
         /\ Completed(c).status = "COMPLETED"
         /\ Completed(c).hash = RecordOf(c).hash
         /\ Completed(c).response = c
BY RowTypes DEF Absent, Reservation, TakenOver, Completed, Records

LEMMA AnswerTypes ==
  /\ \A kind \in {"none"} \cup Final \cup Retriable : Answer(kind) \in Answers
  /\ \A kind \in Final, c \in Clients \cup {Nobody} :
       [kind |-> kind, response |-> c] \in Answers
BY DEF Answer, Answers

LEMMA TypeStep == TypeOK /\ [Next]_vars => TypeOK'
<1> SUFFICES ASSUME TypeOK, [Next]_vars PROVE TypeOK'
  OBVIOUS
<1> USE RowTypes, AnswerTypes DEF TypeOK, Goto, Return, Running, Final, Retriable
<1>1. CASE Tick
  BY <1>1 DEF Tick
<1>2. ASSUME NEW c \in Clients, Begin(c) PROVE TypeOK'
  BY <1>2 DEF Begin, NewLease
<1>3. ASSUME NEW c \in Clients, Create(c) PROVE TypeOK'
  BY <1>3 DEF Create
<1>4. ASSUME NEW c \in Clients, Read(c) PROVE TypeOK'
  <2>1. RecordOf(c).response \in Clients \cup {Nobody}
    BY DEF Records
  <2>2. UNCHANGED answer \/ \E a \in Answers : answer' = [answer EXCEPT ![c] = a]
    BY <1>4, <2>1 DEF Read
  <2> QED
    BY <1>4, <2>2 DEF Read
<1>5. ASSUME NEW c \in Clients, Recreate(c) PROVE TypeOK'
  <2>1. record' \in [Keys -> Records]
    BY <1>5 DEF Recreate
  <2>2. answer' \in [Clients -> Answers]
    BY <1>5 DEF Recreate
  <2> QED
    BY <1>5, <2>1, <2>2 DEF Recreate
<1>6. ASSUME NEW c \in Clients, Takeover(c) PROVE TypeOK'
  <2>1. record' \in [Keys -> Records]
    BY <1>6 DEF Takeover
  <2>2. answer' \in [Clients -> Answers]
    BY <1>6 DEF Takeover
  <2> QED
    BY <1>6, <2>1, <2>2 DEF Takeover
<1>7. ASSUME NEW c \in Clients, Complete(c) PROVE TypeOK'
  <2>1. record' \in [Keys -> Records]
    BY <1>7 DEF Complete
  <2>2. answer' \in [Clients -> Answers]
    BY <1>7 DEF Complete
  <2> QED
    BY <1>7, <2>1, <2>2 DEF Complete
<1>8. ASSUME NEW c \in Clients, Respond(c) PROVE TypeOK'
  BY <1>8 DEF Respond
<1>9. ASSUME NEW c \in Clients, Refuse(c) PROVE TypeOK'
  BY <1>9 DEF Refuse
<1>10. ASSUME NEW c \in Clients, Release(c) PROVE TypeOK'
  BY <1>10 DEF Release
<1>11. ASSUME NEW c \in Clients, Crash(c) PROVE TypeOK'
  BY <1>11 DEF Crash
<1>12. CASE UNCHANGED vars
  BY <1>12 DEF vars
<1> QED
  BY <1>1, <1>2, <1>3, <1>4, <1>5, <1>6, <1>7, <1>8, <1>9, <1>10, <1>11,
     <1>12 DEF Next, Handler

\* Every variable keeps its type.
THEOREM TypeCorrect == Spec => []TypeOK
<1>1. Init => TypeOK
  BY AnswerTypes DEF Init, TypeOK, Absent, Records, Statuses, NoLease
<1> QED
  BY <1>1, TypeStep, PTL DEF Spec

-----------------------------------------------------------------------------
(* At most once                                                             *)

\* How one step may change a row: it is written from scratch over no row, changed
\* while PROCESSING, or left alone. No action touches a COMPLETED row, and only
\* Complete counts a commit.
LEMMA RowStep ==
  ASSUME TypeOK, [Next]_vars, NEW k \in Keys
  PROVE  \/ record'[k] = record[k] /\ commits'[k] = commits[k]
         \/ /\ record[k].status # "COMPLETED"
            /\ record'[k].status # "COMPLETED"
            /\ commits'[k] = commits[k]
         \/ /\ record[k].status = "PROCESSING"
            /\ record'[k].status = "COMPLETED"
            /\ commits'[k] = commits[k] + 1
<1> USE DEF TypeOK, Records, RecordOf, Return, Goto
<1>1. CASE Tick
  BY <1>1 DEF Tick
<1>2. ASSUME NEW c \in Clients, Begin(c) PROVE UNCHANGED <<record, commits>>
  BY <1>2 DEF Begin
<1>3. ASSUME NEW c \in Clients, Create(c) \/ Recreate(c)
      PROVE  /\ UNCHANGED commits
             /\ \/ record'[k] = record[k]
                \/ record[k].status = "ABSENT" /\ record'[k].status = "PROCESSING"
  BY <1>3 DEF Create, Recreate, Reservation
<1>4. ASSUME NEW c \in Clients, Takeover(c)
      PROVE  /\ UNCHANGED commits
             /\ \/ record'[k] = record[k]
                \/ record[k].status = "PROCESSING" /\ record'[k].status = "PROCESSING"
  BY <1>4, RowFields DEF Takeover, Expired
<1>5. ASSUME NEW c \in Clients, Complete(c)
      PROVE  \/ record'[k] = record[k] /\ commits'[k] = commits[k]
             \/ /\ record[k].status = "PROCESSING"
                /\ record'[k].status = "COMPLETED"
                /\ commits'[k] = commits[k] + 1
  BY <1>5, RowFields DEF Complete, Owns
<1>6. ASSUME NEW c \in Clients, Release(c)
      PROVE  /\ UNCHANGED commits
             /\ \/ record'[k] = record[k]
                \/ record[k].status = "PROCESSING" /\ record'[k].status = "ABSENT"
  BY <1>6 DEF Release, Owns, Absent
<1>7. ASSUME NEW c \in Clients, Read(c) \/ Respond(c) \/ Refuse(c) \/ Crash(c)
      PROVE  UNCHANGED <<record, commits>>
  BY <1>7 DEF Read, Respond, Refuse, Crash
<1>8. CASE UNCHANGED vars
  BY <1>8 DEF vars
<1> QED
  BY <1>1, <1>2, <1>3, <1>4, <1>5, <1>6, <1>7, <1>8 DEF Next, Handler

\* The effects of a key are committed at most once: EffectsMatchRecord is
\* inductive, with no assumption about clocks or about distinct leases.
THEOREM AtMostOnce == Spec => []EffectsMatchRecord
<1>1. Init => EffectsMatchRecord
  BY DEF Init, EffectsMatchRecord, Absent
<1>2. TypeOK /\ EffectsMatchRecord /\ [Next]_vars => EffectsMatchRecord'
  BY RowStep DEF EffectsMatchRecord, TypeOK
<1> QED
  BY <1>1, <1>2, TypeCorrect, PTL DEF Spec

\* A COMPLETED row, the source of every replay, never changes again.
THEOREM CompletedRowIsFinal == Spec => CompletedIsFinal
<1>1. TypeOK /\ [Next]_vars =>
        [\A k \in Keys :
           record[k].status = "COMPLETED" => record'[k] = record[k]]_vars
  BY RowStep
<1> QED
  BY <1>1, TypeCorrect, PTL DEF Spec, CompletedIsFinal

\* Who may change a row under a live lease: inserts find no row, a takeover finds
\* the lease expired, and the other two writes check that the lease is theirs.
LEMMA LeaseStep ==
  ASSUME TypeOK, [Next]_vars, NEW k \in Keys,
         record[k].status = "PROCESSING", now <= record[k].lockedUntil,
         record'[k] # record[k]
  PROVE  \E c \in Clients : /\ pc[c] \in {"effects", "release"}
                            /\ pc'[c] # pc[c]
                            /\ req[c].key = k
                            /\ lease[c] = record[k].lockedUntil
<1>0. now \in Nat /\ record[k].lockedUntil \in Nat
  BY DEF TypeOK, Records
<1> USE DEF TypeOK, RecordOf, Goto, Return
<1>1. ASSUME NEW c \in Clients, Create(c) \/ Recreate(c) PROVE FALSE
  BY <1>1 DEF Create, Recreate
<1>2. ASSUME NEW c \in Clients, Takeover(c) PROVE FALSE
  <2>1. CASE req[c].key = k
    <3>1. ~Expired(RecordOf(c))
      BY <1>0, <2>1 DEF Expired
    <3> QED
      BY <1>2, <3>1 DEF Takeover
  <2>2. CASE req[c].key # k
    BY <1>2, <2>2 DEF Takeover
  <2> QED
    BY <2>1, <2>2
<1>3. ASSUME NEW c \in Clients, Complete(c) \/ Release(c)
      PROVE  /\ pc[c] \in {"effects", "release"}
             /\ pc'[c] # pc[c]
             /\ req[c].key = k
             /\ lease[c] = record[k].lockedUntil
  BY <1>3 DEF Complete, Release, Owns
<1>4. \/ \E c \in Clients : Complete(c) \/ Release(c)
      \/ \E c \in Clients : Create(c) \/ Recreate(c) \/ Takeover(c)
      \/ UNCHANGED record
  BY DEF Next, Handler, vars, Tick, Begin, Read, Respond, Refuse, Crash
<1> QED
  BY <1>1, <1>2, <1>3, <1>4

\* A live lease ends by its holder only, also when two requests compute the same
\* lockedUntil: then "its holder" is whoever holds that stamp.
THEOREM LiveLeasesAreRespected == Spec => LiveLeaseIsRespected
<1>1. TypeOK /\ [Next]_vars =>
        [\A k \in Keys :
           /\ record[k].status = "PROCESSING"
           /\ now <= record[k].lockedUntil
           /\ record'[k] # record[k]
           => \E c \in Clients : /\ pc[c] \in {"effects", "release"}
                                 /\ pc'[c] # pc[c]
                                 /\ req[c].key = k
                                 /\ lease[c] = record[k].lockedUntil]_vars
  BY LeaseStep
<1> QED
  BY <1>1, TypeCorrect, PTL DEF Spec, LiveLeaseIsRespected

-----------------------------------------------------------------------------
(* Agreement, when no two requests compute the same lockedUntil             *)

\* Every step keeps the stamps distinct.
LEMMA StampsStep ==
  ASSUME DistinctStamps, TypeOK, StampsInv, [Next]_vars
  PROVE  StampsInv'
<1>0. /\ now \in Nat /\ LockMs \in Nat
      /\ \A c \in Clients : lease[c] \in Nat /\ req[c].key \in Keys
      /\ \A k \in Keys : record[k].lockedUntil \in Nat
  BY DEF TypeOK, Records
<1>1. CASE Tick
  <2>1. /\ now' = now + 1
        /\ UNCHANGED <<record, pc, req, lease>>
    BY <1>1 DEF Tick
  <2>2. StampsDistinct'
    BY <2>1 DEF StampsInv, StampsDistinct
  <2>3. StampsInClock'
    BY <1>0, <2>1 DEF StampsInv, StampsInClock
  <2>4. RowStampsHeld'
    BY <1>0, <2>1 DEF StampsInv, RowStampsHeld
  <2> QED
    BY <2>2, <2>3, <2>4 DEF StampsInv
<1>2. ASSUME NEW c \in Clients, Begin(c) PROVE StampsInv'
  <2>1. /\ lease' = [lease EXCEPT ![c] = now + LockMs]
        /\ \A d \in Clients : req[d].key = req[c].key => lease[d] # now + LockMs
        /\ UNCHANGED <<record, now, req>>
        /\ pc' = [pc EXCEPT ![c] = "create"]
    BY <1>2 DEF Begin, NewLease, Goto
  <2>2. /\ lease'[c] = now + LockMs
        /\ now + LockMs # NoLease
        /\ \A d \in Clients : d # c => lease'[d] = lease[d] /\ pc'[d] = pc[d]
    BY <1>0, <2>1 DEF TypeOK, NoLease
  <2>3. StampsDistinct'
    BY <2>1, <2>2 DEF StampsInv, StampsDistinct
  <2>4. StampsInClock'
    BY <1>0, <2>1, <2>2 DEF StampsInv, StampsInClock
  <2>5. ASSUME NEW k \in Keys, record[k].status = "PROCESSING",
               record[k].lockedUntil = now + LockMs
        PROVE  \E d \in Clients : /\ req[d].key = k
                                  /\ lease'[d] = record[k].lockedUntil
    <3>1. PICK d \in Clients : req[d].key = k /\ lease[d] = record[k].lockedUntil
      BY <2>5 DEF StampsInv, RowStampsHeld
    <3>2. req[c].key # k
      BY <2>1, <2>5, <3>1
    <3> QED
      BY <2>2, <3>1, <3>2
  <2>6. RowStampsHeld'
    BY <2>1, <2>5 DEF StampsInv, RowStampsHeld
  <2> QED
    BY <2>3, <2>4, <2>6 DEF StampsInv
<1>3. ASSUME NEW c \in Clients,
             \/ Create(c) \/ Read(c) \/ Recreate(c) \/ Takeover(c) \/ Complete(c)
             \/ Respond(c) \/ Refuse(c) \/ Release(c) \/ Crash(c)
      PROVE  StampsInv'
  <2> USE RowTypes DEF TypeOK
  <2>1. /\ UNCHANGED <<now, req, lease>>
        /\ pc[c] # "idle"
        /\ \A d \in Clients : pc[d] = "idle" <=> pc'[d] = "idle"
    BY <1>3 DEF Create, Read, Recreate, Takeover, Complete, Respond, Refuse,
                Release, Crash, Goto, Return, Running
  <2>2. lease[c] # NoLease
    BY <2>1 DEF StampsInv, StampsInClock
  <2>3. \A k \in Keys : record'[k].status = "PROCESSING" =>
          \/ record'[k] = record[k]
          \/ req[c].key = k /\ record'[k].lockedUntil = lease[c]
    BY <1>3, RowFields DEF Create, Read, Recreate, Takeover, Complete,
                           Respond, Refuse, Release, Crash
  <2>4. StampsDistinct' /\ StampsInClock'
    BY <2>1 DEF StampsInv, StampsDistinct, StampsInClock
  <2>5. RowStampsHeld'
    BY <2>1, <2>2, <2>3 DEF StampsInv, StampsInClock, RowStampsHeld
  <2> QED
    BY <2>4, <2>5 DEF StampsInv
<1>4. CASE UNCHANGED vars
  BY <1>4 DEF vars, StampsInv, StampsDistinct, StampsInClock, RowStampsHeld
<1> QED
  BY <1>1, <1>2, <1>3, <1>4 DEF Next, Handler

\* Every step keeps the owners of a row agreeing with its hash: this is where the
\* takeover must replace the hash together with the lease.
LEMMA OwnersStep ==
  ASSUME DistinctStamps, TypeOK, StampsInv, OwnersAgree, [Next]_vars
  PROVE  OwnersAgree'
<1>1. CASE Tick \/ UNCHANGED vars
  BY <1>1 DEF Tick, vars, OwnersAgree, Owns, RecordOf
<1>2. ASSUME NEW c \in Clients, Begin(c) PROVE OwnersAgree'
  <2>1. /\ lease' = [lease EXCEPT ![c] = now + LockMs]
        /\ \A d \in Clients : req[d].key = req[c].key => lease[d] # now + LockMs
        /\ UNCHANGED <<record, req>>
    BY <1>2 DEF Begin, NewLease
  <2>2. RecordOf(c).status = "PROCESSING" => RecordOf(c).lockedUntil # now + LockMs
    BY <2>1, RowTypes DEF StampsInv, RowStampsHeld, RecordOf
  <2> QED
    BY <2>1, <2>2 DEF OwnersAgree, Owns, RecordOf, TypeOK
<1>3. ASSUME NEW c \in Clients,
             \/ Create(c) \/ Read(c) \/ Recreate(c) \/ Takeover(c) \/ Complete(c)
             \/ Respond(c) \/ Refuse(c) \/ Release(c) \/ Crash(c)
      PROVE  OwnersAgree'
  <2> USE RowTypes DEF TypeOK
  <2>1. UNCHANGED <<req, lease>> /\ pc[c] # "idle"
    BY <1>3 DEF Create, Read, Recreate, Takeover, Complete, Respond, Refuse,
                Release, Crash, Running
  <2>2. lease[c] # NoLease
    BY <2>1 DEF StampsInv, StampsInClock
  <2>3. \A k \in Keys : record'[k].status = "PROCESSING" =>
          \/ record'[k] = record[k]
          \/ /\ req[c].key = k
             /\ record'[k].lockedUntil = lease[c]
             /\ record'[k].hash = req[c].hash
    BY <1>3, RowFields DEF Create, Read, Recreate, Takeover, Complete,
                           Respond, Refuse, Release, Crash
  <2>4. ASSUME NEW d \in Clients, Owns(d)' PROVE RecordOf(d)'.hash = req[d].hash
    <3>1. /\ record'[req[d].key].status = "PROCESSING"
          /\ record'[req[d].key].lockedUntil = lease[d]
          /\ RecordOf(d)' = record'[req[d].key]
      BY <2>1, <2>4 DEF Owns, RecordOf
    <3>2. CASE record'[req[d].key] = record[req[d].key]
      BY <3>1, <3>2 DEF OwnersAgree, Owns, RecordOf
    <3>3. CASE /\ req[c].key = req[d].key
               /\ lease[d] = lease[c]
               /\ record'[req[d].key].hash = req[c].hash
      <4>1. c = d
        BY <2>2, <3>3 DEF StampsInv, StampsDistinct
      <4> QED
        BY <3>1, <3>3, <4>1
    <3> QED
      BY <2>3, <3>1, <3>2, <3>3
  <2> QED
    BY <2>1, <2>4 DEF OwnersAgree
<1> QED
  BY <1>1, <1>2, <1>3 DEF Next, Handler

\* Every step keeps those who were told of success in agreement with the row.
LEMMA ToldStep ==
  ASSUME TypeOK, OwnersAgree, ToldAgree, [Next]_vars
  PROVE  ToldAgree'
<1> USE RowTypes DEF TypeOK, RecordOf, Goto, Return, Answer
<1>1. \A k \in Keys : record[k].status = "COMPLETED" => record'[k] = record[k]
  BY RowStep
<1>frame. ASSUME NEW c \in Clients, pc[c] # "answered", UNCHANGED req,
                 pc' = [pc EXCEPT ![c] = pc'[c]], pc'[c] # "respond",
                 \A d \in Clients : d # c => answer'[d] = answer[d],
                 answer'[c] = answer[c] \/ answer'[c].kind \notin {"done", "replay"},
                 \A k \in Keys : record'[k] = record[k]
                                 \/ record'[k].status # "COMPLETED"
          PROVE  ToldAgree'
  <2>1. answer'[c].kind \notin {"done", "replay"}
    BY <1>frame DEF ToldAgree
  <2>2. \A d \in Clients : d # c => pc'[d] = pc[d]
    BY <1>frame
  <2>3. ASSUME NEW d \in Clients, pc'[d] = "respond"
        PROVE  /\ RecordOf(d)'.status = "COMPLETED"
               /\ RecordOf(d)'.hash = req[d].hash
               /\ RecordOf(d)'.response = d
    BY <1>1, <1>frame, <2>2, <2>3 DEF ToldAgree
  <2>4. ASSUME NEW d \in Clients, answer'[d].kind \in {"done", "replay"}
        PROVE  /\ pc'[d] = "answered"
               /\ RecordOf(d)'.status = "COMPLETED"
               /\ RecordOf(d)'.hash = req[d].hash
               /\ RecordOf(d)'.response = answer'[d].response
    BY <1>1, <1>frame, <2>1, <2>2, <2>4 DEF ToldAgree
  <2>5. \A k \in Keys : record'[k].status = "COMPLETED"
                           => record'[k].response \in Clients
    BY <1>frame DEF ToldAgree
  <2> QED
    BY <1>frame, <2>3, <2>4, <2>5 DEF ToldAgree
<1>2. CASE Tick \/ UNCHANGED vars
  BY <1>2 DEF Tick, vars, ToldAgree
<1>3. ASSUME NEW c \in Clients, Begin(c) PROVE ToldAgree'
  BY <1>3 DEF Begin, ToldAgree, Retriable
<1>4. ASSUME NEW c \in Clients, Create(c) PROVE ToldAgree'
  BY <1>4, <1>frame, RowFields DEF Create
<1>5. ASSUME NEW c \in Clients, Read(c) PROVE ToldAgree'
  BY <1>1, <1>5 DEF Read, ToldAgree
<1>6. ASSUME NEW c \in Clients, Recreate(c) PROVE ToldAgree'
  BY <1>6, <1>frame, RowFields DEF Recreate
<1>7. ASSUME NEW c \in Clients, Takeover(c) PROVE ToldAgree'
  <2>1. CASE Expired(RecordOf(c))
    <3>1. /\ record' = [record EXCEPT ![req[c].key] = TakenOver(c)]
          /\ TakenOver(c).status # "COMPLETED"
      BY <1>7, <2>1, RowFields DEF Takeover, Expired
    <3> QED
      BY <1>7, <1>frame, <2>1, <3>1 DEF Takeover
  <2>2. CASE ~Expired(RecordOf(c))
    BY <1>7, <1>frame, <2>2 DEF Takeover
  <2> QED
    BY <2>1, <2>2
<1>8. ASSUME NEW c \in Clients, Complete(c) PROVE ToldAgree'
  <2>1. CASE ~Owns(c)
    BY <1>8, <1>frame, <2>1 DEF Complete
  <2>2. CASE Owns(c)
    <3>1. /\ record' = [record EXCEPT ![req[c].key] = Completed(c)]
          /\ pc' = [pc EXCEPT ![c] = "respond"]
          /\ pc[c] = "effects"
          /\ UNCHANGED <<req, answer>>
      BY <1>8, <2>2 DEF Complete
    <3>2. /\ Completed(c).status = "COMPLETED"
          /\ Completed(c).hash = req[c].hash
          /\ Completed(c).response = c
      BY <2>2, RowFields DEF OwnersAgree
    <3>3. \A d \in Clients : d # c => pc'[d] = pc[d]
      BY <3>1
    <3>4. record[req[c].key].status # "COMPLETED"
      BY <2>2 DEF Owns
    <3>5. /\ record'[req[c].key] = Completed(c)
          /\ answer[c].kind \notin {"done", "replay"}
      BY <3>1 DEF ToldAgree
    <3>6. ASSUME NEW d \in Clients, pc'[d] = "respond"
          PROVE  /\ RecordOf(d)'.status = "COMPLETED"
                 /\ RecordOf(d)'.hash = req[d].hash
                 /\ RecordOf(d)'.response = d
      BY <1>1, <3>1, <3>2, <3>3, <3>5, <3>6 DEF ToldAgree
    <3>7. ASSUME NEW d \in Clients, answer[d].kind \in {"done", "replay"}
          PROVE  /\ pc'[d] = "answered"
                 /\ RecordOf(d)'.status = "COMPLETED"
                 /\ RecordOf(d)'.hash = req[d].hash
                 /\ RecordOf(d)'.response = answer[d].response
      BY <1>1, <3>1, <3>3, <3>5, <3>7 DEF ToldAgree
    <3>8. \A k \in Keys : record'[k].status = "COMPLETED"
                             => record'[k].response \in Clients
      BY <3>1, <3>2 DEF ToldAgree
    <3> QED
      BY <3>1, <3>6, <3>7, <3>8 DEF ToldAgree
  <2> QED
    BY <2>1, <2>2
<1>9. ASSUME NEW c \in Clients, Respond(c) PROVE ToldAgree'
  BY <1>1, <1>9 DEF Respond, ToldAgree
<1>10. ASSUME NEW c \in Clients, Refuse(c) \/ Crash(c) PROVE ToldAgree'
  BY <1>1, <1>10 DEF Refuse, Crash, Running, ToldAgree
<1>11. ASSUME NEW c \in Clients, Release(c) PROVE ToldAgree'
  BY <1>1, <1>11 DEF Release, Owns, Absent, ToldAgree
<1> QED
  BY <1>2, <1>3, <1>4, <1>5, <1>6, <1>7, <1>8, <1>9, <1>10, <1>11
     DEF Next, Handler

\* IInv is an inductive invariant when stamps are distinct.
LEMMA InductiveInvariant == DistinctStamps => (Spec => []IInv)
<1> SUFFICES ASSUME DistinctStamps PROVE Spec => []IInv
  OBVIOUS
<1>1. Init => IInv
  <2> SUFFICES ASSUME Init PROVE StampsInv /\ AgreementInv
    BY AnswerTypes DEF IInv, Init, TypeOK, Absent, Records, Statuses, NoLease
  <2>1. \A c \in Clients : req[c].key \in Keys
    BY DEF Init
  <2>2. StampsInv
    BY <2>1 DEF Init, StampsInv, StampsDistinct, StampsInClock, RowStampsHeld,
                Absent, NoLease
  <2>3. AgreementInv
    BY <2>1 DEF Init, AgreementInv, OwnersAgree, ToldAgree, Owns, RecordOf,
                Absent, Answer
  <2> QED
    BY <2>2, <2>3
<1>2. IInv /\ [Next]_vars => IInv'
  BY TypeStep, StampsStep, OwnersStep, ToldStep DEF IInv, AgreementInv
<1> QED
  BY <1>1, <1>2, PTL DEF Spec

\* A client that is told of success sent the request that took effect, and gets
\* that execution's response.
THEOREM SuccessfulAnswersAgree == DistinctStamps => (Spec => []AnswersAgree)
<1>1. IInv => AnswersAgree
  BY DEF IInv, AgreementInv, ToldAgree, AnswersAgree
<1> QED
  BY <1>1, InductiveInvariant, PTL

\* The stored lockedUntil identifies one handler.
THEOREM LeaseIsAnIdentity == DistinctStamps => (Spec => []LeaseIdentifiesHolder)
<1>1. IInv => LeaseIdentifiesHolder
  BY DEF IInv, StampsInv, StampsDistinct, StampsInClock, LeaseIdentifiesHolder,
         Owns, RecordOf
<1> QED
  BY <1>1, InductiveInvariant, PTL

-----------------------------------------------------------------------------
(* Refinement of OncePerKey                                                 *)

\* Complete is the execution, Respond and a replaying Read tell the client, and
\* every other step is invisible to the callers.
LEMMA RefinementStep ==
  ASSUME IInv, [Next]_vars
  PROVE  [Once!Next]_<<Effect, Told, req>>
<1> USE DEF IInv
<1>1. \A k \in Keys : record[k].status = "COMPLETED" => record'[k] = record[k]
  BY RowStep
<1>2. ASSUME NEW c \in Clients, Complete(c), Owns(c)
      PROVE  Once!Execute(c)
  <2>1. /\ record' = [record EXCEPT ![req[c].key] = Completed(c)]
        /\ UNCHANGED <<req, answer>>
        /\ record[req[c].key].status = "PROCESSING"
    BY <1>2 DEF Complete, Owns, RecordOf
  <2>2. /\ Completed(c).status = "COMPLETED"
        /\ Completed(c).hash = req[c].hash
        /\ Completed(c).response = c
    BY <1>2, RowFields DEF AgreementInv, OwnersAgree
  <2>3. Effect' = [Effect EXCEPT ![req[c].key] = [by |-> c, hash |-> req[c].hash]]
    BY <2>1, <2>2, RowTypes DEF Effect, TypeOK
  <2>4. Effect[req[c].key] = Once!None
    BY <2>1, RowTypes DEF Effect, Once!None
  <2>5. UNCHANGED <<Told, req>>
    BY <2>1 DEF Told
  <2> QED
    BY <2>3, <2>4, <2>5 DEF Once!Execute
<1>3. ASSUME NEW c \in Clients, UNCHANGED <<record, req>>,
             record[req[c].key].status = "COMPLETED",
             record[req[c].key].hash = req[c].hash,
             NEW kind \in {"done", "replay"},
             answer' = [answer EXCEPT ![c] =
                          [kind |-> kind, response |-> record[req[c].key].response]]
      PROVE  Once!Tell(c)
  <2>1. record[req[c].key].response \in Clients
    BY <1>3, RowTypes DEF AgreementInv, ToldAgree
  <2>2. /\ Effect[req[c].key].by = record[req[c].key].response
        /\ Effect[req[c].key].hash = req[c].hash
    BY <1>3, RowTypes DEF Effect
  <2>3. Told' = [Told EXCEPT ![c] = record[req[c].key].response]
    BY <1>3 DEF Told, TypeOK
  <2>4. UNCHANGED <<Effect, req>>
    BY <1>3 DEF Effect
  <2> QED
    BY <2>1, <2>2, <2>3, <2>4 DEF Once!Tell
<1>4. ASSUME NEW c \in Clients, Respond(c) PROVE Once!Tell(c)
  <2>1. /\ record[req[c].key].status = "COMPLETED"
        /\ record[req[c].key].hash = req[c].hash
        /\ record[req[c].key].response = c
        /\ UNCHANGED <<record, req>>
        /\ answer' = [answer EXCEPT ![c] = [kind |-> "done", response |-> c]]
    BY <1>4 DEF Respond, Return, AgreementInv, ToldAgree, RecordOf
  <2> QED
    BY <1>3, <2>1
<1>5. ASSUME NEW c \in Clients, Read(c), RecordOf(c).status = "COMPLETED",
             RecordOf(c).hash = req[c].hash
      PROVE  Once!Tell(c)
  BY <1>3, <1>5 DEF Read, Return, RecordOf
<1>frame. ASSUME NEW c \in Clients, UNCHANGED req, pc[c] # "answered",
                 \A k \in Keys : record'[k] = record[k]
                                 \/ /\ record[k].status # "COMPLETED"
                                    /\ record'[k].status # "COMPLETED",
                 \/ UNCHANGED answer
                 \/ \E a : /\ answer' = [answer EXCEPT ![c] = Answer(a)]
                          /\ a \notin {"done", "replay"}
          PROVE  UNCHANGED <<Effect, Told, req>>
  <2>1. UNCHANGED Effect
    BY <1>frame DEF Effect
  <2>2. answer[c].kind \notin {"done", "replay"}
    BY <1>frame DEF AgreementInv, ToldAgree
  <2>3. UNCHANGED Told
    BY <1>frame, <2>2 DEF Told, Answer, TypeOK
  <2> QED
    BY <1>frame, <2>1, <2>3
<1>6. ASSUME NEW c \in Clients, Create(c) \/ Recreate(c) \/ Takeover(c) \/ Release(c)
      PROVE  UNCHANGED <<Effect, Told, req>>
  <2>1. \A k \in Keys : \/ record'[k] = record[k]
                        \/ /\ record[k].status # "COMPLETED"
                           /\ record'[k].status # "COMPLETED"
    BY <1>6, RowFields, RowTypes DEF Create, Recreate, Takeover, Release, Owns,
                                     Expired, RecordOf, TypeOK
  <2> QED
    BY <1>6, <1>frame, <2>1 DEF Create, Recreate, Takeover, Release, Return
<1>7. ASSUME NEW c \in Clients, Complete(c), ~Owns(c)
      PROVE  UNCHANGED <<Effect, Told, req>>
  BY <1>7, <1>frame DEF Complete, Return
<1>8. ASSUME NEW c \in Clients, Read(c),
             ~(RecordOf(c).status = "COMPLETED" /\ RecordOf(c).hash = req[c].hash)
      PROVE  UNCHANGED <<Effect, Told, req>>
  BY <1>8, <1>frame DEF Read, Return
<1>9. ASSUME NEW c \in Clients, Refuse(c) \/ Crash(c)
      PROVE  UNCHANGED <<Effect, Told, req>>
  BY <1>9, <1>frame DEF Refuse, Crash, Return, Running
<1>10. CASE Tick \/ UNCHANGED vars \/ \E c \in Clients : Begin(c)
  BY <1>10 DEF Tick, vars, Begin, Effect, Told
<1> QED
  BY <1>2, <1>4, <1>5, <1>6, <1>7, <1>8, <1>9, <1>10 DEF Next, Handler, Once!Next

\* The reservation protocol implements the once-per-key store.
THEOREM Implementation == DistinctStamps => (Spec => ImplementsOncePerKey)
<1>1. Init => Once!Init
  BY DEF Init, Once!Init, Effect, Told, Absent, Answer, Once!None
<1>2. IInv /\ [Next]_vars => [Once!Next]_<<Effect, Told, req>>
  BY RefinementStep
<1> QED
  BY <1>1, <1>2, InductiveInvariant, PTL DEF Spec, ImplementsOncePerKey,
     Once!Spec, Once!vars
=============================================================================

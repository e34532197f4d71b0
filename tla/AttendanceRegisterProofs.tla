---------------------- MODULE AttendanceRegisterProofs ----------------------
(***************************************************************************)
(* Proofs about attendance registers, for any roster, sheets, saves,       *)
(* correction requests and bridge runs.                                    *)
(***************************************************************************)
EXTENDS AttendanceRegister, TLAPS

-----------------------------------------------------------------------------
(* Rows. *)

\* What a save in progress holds.
LEMMA SaveType ==
  ASSUME NEW row \in SaveRows
  PROVE  /\ row.finalize \in BOOLEAN /\ row.found \in BOOLEAN /\ row.late \in BOOLEAN
         /\ row.sheet \in Sheets /\ row.sheet \in [Students -> {"PRESENT", "ABSENT"}]
BY SheetsAssumption DEF SaveRows

\* Being overtaken changes nothing but the flag.
LEMMA OvertakenSave ==
  ASSUME NEW row \in SaveRows, NEW new, new = [row EXCEPT !.late = TRUE]
  PROVE  new \in SaveRows /\ new.late
BY DEF SaveRows

LEMMA OvertakenAsk ==
  ASSUME NEW row \in AskRows, NEW new, new = [row EXCEPT !.late = TRUE]
  PROVE  new \in AskRows /\ new.late
BY DEF AskRows

LEMMA CheckedAsk ==
  ASSUME NEW row \in AskRows, NEW new, new = [row EXCEPT !.clear = TRUE]
  PROVE  new \in AskRows /\ new.late = row.late /\ new.about = row.about
BY DEF AskRows

\* Deciding a request, or superseding it, changes its status only.
LEMMA DecidedRequest ==
  ASSUME NEW row \in RequestRows, NEW status \in {"APPROVED", "REJECTED"},
         NEW new, new = [row EXCEPT !.status = status]
  PROVE  new \in RequestRows /\ new.status = status /\ new.about = row.about /\ new.late = row.late
BY DEF RequestRows

\* The register that a save writes.
LEMMA WrittenType ==
  ASSUME NEW q \in DOMAIN saving, saving[q] \in SaveRows
  PROVE  /\ Written(q) \in Registers
         /\ Written(q).locked = saving[q].finalize
         /\ Written(q).sheet = saving[q].sheet
<1>1. saving[q].finalize \in BOOLEAN /\ saving[q].sheet \in [Students -> {"PRESENT", "ABSENT"}]
  BY SaveType
<1> QED
  BY <1>1 DEF Written, Registers

\* A register that an approval reopens keeps its sheet.
LEMMA ReopenedType ==
  ASSUME register \in Registers, NEW new, new = [register EXCEPT !.locked = FALSE]
  PROVE  new \in Registers /\ ~new.locked /\ new.sheet = register.sheet
BY DEF Registers

\* The requests after a submission.
LEMMA SupersededType ==
  ASSUME requests \in Seq(RequestRows)
  PROVE  /\ Superseded \in Seq(RequestRows)
         /\ DOMAIN Superseded = DOMAIN requests
         /\ \A n \in DOMAIN requests : Superseded[n].status /= "PENDING"
<1>1. DOMAIN requests = 1 .. Len(requests) /\ Len(requests) \in Nat
  OBVIOUS
<1>2. \A n \in DOMAIN requests : requests[n] \in RequestRows
  OBVIOUS
<1>3. ASSUME NEW n \in DOMAIN requests
      PROVE  Superseded[n] \in RequestRows /\ Superseded[n].status /= "PENDING"
  <2>1. CASE requests[n].status = "PENDING"
    <3>1. Superseded[n] = [requests[n] EXCEPT !.status = "REJECTED"]
      BY <2>1 DEF Superseded
    <3> QED
      BY <1>2, <3>1, DecidedRequest
  <2>2. CASE requests[n].status /= "PENDING"
    BY <1>2, <2>2 DEF Superseded
  <2> QED
    BY <2>1, <2>2
<1>4. Superseded \in [1 .. Len(requests) -> RequestRows]
  BY <1>1, <1>3 DEF Superseded
<1> QED
  BY <1>1, <1>3, <1>4 DEF Superseded

-----------------------------------------------------------------------------
(* Types. *)

LEMMA TypeInit == Init => TypeOK
<1> SUFFICES ASSUME Init PROVE TypeOK
  OBVIOUS
<1>1. register \in Registers
  BY DEF Init, Registers
<1>2. requests \in Seq(RequestRows)
  BY DEF Init
<1>3. submission \in 0 .. MaxSubmissions /\ deaths \in 0 .. MaxDeaths
  BY RegisterBoundsAssumption DEF Init
<1> QED
  BY <1>1, <1>2, <1>3 DEF Init, TypeOK, NoRows

LEMMA TypeSave ==
  ASSUME TypeOK, NEW q \in Saves,
         \/ \E finalize \in BOOLEAN, sheet \in Sheets : SaveRead(q, finalize, sheet)
         \/ SaveDraft(q) \/ Submit(q) \/ SaveEnds(q)
  PROVE  TypeOK'
<1>1. ASSUME NEW finalize \in BOOLEAN, NEW sheet \in Sheets, SaveRead(q, finalize, sheet)
      PROVE  TypeOK'
  <2>1. register.exists \in BOOLEAN
    BY DEF TypeOK, Registers
  <2>2. PICK row \in SaveRows :
           row = [finalize |-> finalize, sheet |-> sheet, found |-> register.exists, late |-> FALSE]
    BY <2>1 DEF SaveRows
  <2>3. saving' = With(saving, q, row)
    BY <1>1, <2>2 DEF SaveRead
  <2>4. DOMAIN saving' \subseteq Saves /\ \A r \in DOMAIN saving' : saving'[r] \in SaveRows
    BY <2>3 DEF TypeOK, With
  <2> QED
    BY <1>1, <2>4 DEF SaveRead, TypeOK, requestVars, bridgeVars
<1>2. CASE SaveDraft(q)
  <2>1. register' \in Registers
    BY <1>2, WrittenType DEF SaveDraft, CanWrite, TypeOK
  <2>2. DOMAIN saving' \subseteq Saves /\ \A r \in DOMAIN saving' : saving'[r] \in SaveRows
    BY <1>2 DEF SaveDraft, TypeOK, Without
  <2> QED
    BY <1>2, <2>1, <2>2 DEF SaveDraft, TypeOK, requestVars, bridgeVars
<1>3. CASE SaveEnds(q)
  <2>1. DOMAIN saving' \subseteq Saves /\ \A r \in DOMAIN saving' : saving'[r] \in SaveRows
    BY <1>3 DEF SaveEnds, TypeOK, Without
  <2> QED
    BY <1>3, <2>1 DEF SaveEnds, TypeOK, requestVars, bridgeVars
<1>4. CASE Submit(q)
  <2>1. register' \in Registers
    BY <1>4, WrittenType DEF Submit, CanWrite, TypeOK
  <2>2. submission' \in 0 .. MaxSubmissions /\ submission + 1 \in 1 .. MaxSubmissions
    BY <1>4, RegisterBoundsAssumption DEF Submit, TypeOK
  <2>3. \A r \in DOMAIN Without(saving, q) :
           r \in Saves /\ Without(saving, q)[r] \in SaveRows
    BY DEF TypeOK, Without
  <2>4. DOMAIN saving' \subseteq Saves /\ \A r \in DOMAIN saving' : saving'[r] \in SaveRows
    BY <1>4, <2>3, OvertakenSave DEF Submit, Overtaken
  <2>5. /\ DOMAIN asking' \subseteq Asks
        /\ \A a \in DOMAIN asking' : asking'[a] \in AskRows
    BY <1>4, OvertakenAsk DEF Submit, Overtaken, TypeOK
  <2>6. requests' \in Seq(RequestRows)
    BY <1>4, SupersededType DEF Submit, TypeOK
  <2>7. DOMAIN alerts' \subseteq AlertIds /\ \A id \in DOMAIN alerts' : alerts'[id] \in {"PENDING", "SENT"}
    BY <1>4, <2>2 DEF Submit, Alerted, AlertIds
  <2>8. /\ jobs' \subseteq AlertIds /\ inapp' \subseteq AlertIds
        /\ DOMAIN bridge' \subseteq Bridges
        /\ \A b \in DOMAIN bridge' : bridge'[b] \in BridgeRows
        /\ deaths' \in 0 .. MaxDeaths
    BY <1>4 DEF Submit, TypeOK, bridgeVars
  <2> QED
    BY <2>1, <2>2, <2>4, <2>5, <2>6, <2>7, <2>8 DEF TypeOK
<1> QED
  BY <1>1, <1>2, <1>3, <1>4

LEMMA TypeAsk ==
  ASSUME TypeOK, NEW a \in Asks, AskStep(a)
  PROVE  TypeOK'
<1>1. CASE AskRead(a)
  <2> submission \in Nat
    BY RegisterBoundsAssumption DEF TypeOK
  <2>1. PICK row \in AskRows : row = [about |-> submission, late |-> FALSE, clear |-> FALSE]
    BY DEF AskRows
  <2>2. asking' = With(asking, a, row)
    BY <1>1, <2>1 DEF AskRead
  <2>3. /\ DOMAIN asking' \subseteq Asks
        /\ \A b \in DOMAIN asking' : asking'[b] \in AskRows
    BY <2>2 DEF TypeOK, With
  <2> QED
    BY <1>1, <2>3 DEF AskRead, TypeOK, registerVars, bridgeVars
<1>2. CASE AskCreate(a)
  <2>1. asking[a].about \in Nat /\ asking[a].late \in BOOLEAN
    BY <1>2 DEF AskCreate, TypeOK, AskRows
  <2>2. PICK row \in RequestRows :
           row = [status |-> "PENDING", about |-> asking[a].about, late |-> asking[a].late]
    BY <2>1 DEF RequestRows
  <2>3. requests' \in Seq(RequestRows)
    BY <1>2, <2>2 DEF AskCreate, TypeOK
  <2>4. /\ DOMAIN asking' \subseteq Asks
        /\ \A b \in DOMAIN asking' : asking'[b] \in AskRows
    BY <1>2 DEF AskCreate, TypeOK, Without
  <2> QED
    BY <1>2, <2>3, <2>4 DEF AskCreate, TypeOK, registerVars, bridgeVars
<1>3. CASE AskCheck(a) \/ AskEnds(a)
  <2>1. /\ DOMAIN asking' \subseteq Asks
        /\ \A b \in DOMAIN asking' : asking'[b] \in AskRows
    BY <1>3, CheckedAsk DEF AskCheck, AskEnds, TypeOK, Without
  <2> QED
    BY <1>3, <2>1 DEF AskCheck, AskEnds, TypeOK, registerVars, bridgeVars
<1> QED
  BY <1>1, <1>2, <1>3 DEF AskStep

LEMMA TypeDecide ==
  ASSUME TypeOK, NEW n \in DOMAIN requests, NEW decision \in {"APPROVED", "REJECTED"},
         Decide(n, decision)
  PROVE  TypeOK'
<1> requests[n] \in RequestRows
  BY DEF TypeOK
<1>1. PICK row \in RequestRows : row = [requests[n] EXCEPT !.status = decision]
  BY DecidedRequest
<1>2. requests' = [requests EXCEPT ![n] = row]
  BY <1>1 DEF Decide
<1>3. requests' \in Seq(RequestRows)
  BY <1>2 DEF TypeOK
<1>4. register' \in Registers
  BY ReopenedType DEF Decide, TypeOK
<1> QED
  BY <1>3, <1>4 DEF Decide, TypeOK, bridgeVars

\* What the alert that a bridge run is at, and its run, hold.
LEMMA CurrentType ==
  ASSUME TypeOK, NEW b \in DOMAIN bridge, bridge[b].todo /= {}
  PROVE  Current(b) \in bridge[b].todo /\ Current(b) \in AlertIds
<1>1. bridge[b].todo \subseteq AlertIds
  BY DEF TypeOK, BridgeRows
<1> QED
  BY <1>1 DEF Current

\* A run goes on to its next step, or to its next alert.
LEMMA BridgeForward ==
  ASSUME NEW row \in BridgeRows, NEW step \in {"QUEUED", "SHOWN"},
         NEW new, new = [row EXCEPT !.at = step]
  PROVE  new \in BridgeRows /\ new.todo = row.todo /\ new.at = step
BY DEF BridgeRows

LEMMA BridgeNext ==
  ASSUME NEW row \in BridgeRows, NEW id,
         NEW new, new = [todo |-> row.todo \ {id}, at |-> "NEXT"]
  PROVE  new \in BridgeRows
BY DEF BridgeRows

LEMMA TypeBridge ==
  ASSUME TypeOK, NEW b \in Bridges, BridgeStep(b) \/ BridgeDies(b)
  PROVE  TypeOK'
<1>1. CASE StartBridge(b)
  <2>1. PICK row \in BridgeRows :
           row = [todo |-> {id \in DOMAIN alerts : alerts[id] = "PENDING"}, at |-> "NEXT"]
    BY DEF BridgeRows, TypeOK
  <2>2. bridge' = With(bridge, b, row)
    BY <1>1, <2>1 DEF StartBridge
  <2>3. DOMAIN bridge' \subseteq Bridges /\ \A c \in DOMAIN bridge' : bridge'[c] \in BridgeRows
    BY <2>2 DEF TypeOK, With
  <2> QED
    BY <1>1, <2>3 DEF StartBridge, TypeOK, registerVars, requestVars
<1>2. CASE BridgeQueue(b)
  <2>1. b \in DOMAIN bridge /\ bridge[b] \in BridgeRows /\ Current(b) \in AlertIds
    BY <1>2, CurrentType DEF BridgeQueue, At, TypeOK
  <2>2. PICK row \in BridgeRows : row = [bridge[b] EXCEPT !.at = "QUEUED"]
    BY <2>1, BridgeForward
  <2>3. bridge' = [bridge EXCEPT ![b] = row]
    BY <1>2, <2>2 DEF BridgeQueue
  <2>4. DOMAIN bridge' \subseteq Bridges /\ \A c \in DOMAIN bridge' : bridge'[c] \in BridgeRows
    BY <2>3 DEF TypeOK
  <2>5. jobs' \subseteq AlertIds
    BY <1>2, <2>1 DEF BridgeQueue, TypeOK
  <2> QED
    BY <1>2, <2>4, <2>5 DEF BridgeQueue, TypeOK, registerVars, requestVars
<1>3. CASE BridgeShow(b)
  <2>1. b \in DOMAIN bridge /\ bridge[b] \in BridgeRows /\ Current(b) \in AlertIds
    BY <1>3, CurrentType DEF BridgeShow, At, TypeOK
  <2>2. PICK row \in BridgeRows : row = [bridge[b] EXCEPT !.at = "SHOWN"]
    BY <2>1, BridgeForward
  <2>3. bridge' = [bridge EXCEPT ![b] = row]
    BY <1>3, <2>2 DEF BridgeShow
  <2>4. DOMAIN bridge' \subseteq Bridges /\ \A c \in DOMAIN bridge' : bridge'[c] \in BridgeRows
    BY <2>3 DEF TypeOK
  <2>5. inapp' \subseteq AlertIds
    BY <1>3, <2>1 DEF BridgeShow, TypeOK
  <2> QED
    BY <1>3, <2>4, <2>5 DEF BridgeShow, TypeOK, registerVars, requestVars
<1>4. CASE BridgeMark(b)
  <2>1. b \in DOMAIN bridge /\ bridge[b] \in BridgeRows
    BY <1>4 DEF BridgeMark, At, TypeOK
  <2>2. PICK row \in BridgeRows : row = [todo |-> bridge[b].todo \ {Current(b)}, at |-> "NEXT"]
    BY <2>1, BridgeNext
  <2>3. bridge' = [bridge EXCEPT ![b] = row] \/ bridge' = Without(bridge, b)
    BY <1>4, <2>1, <2>2 DEF BridgeMark
  <2>4. DOMAIN bridge' \subseteq Bridges /\ \A c \in DOMAIN bridge' : bridge'[c] \in BridgeRows
    BY <2>3 DEF TypeOK, Without
  <2>5. DOMAIN alerts' \subseteq AlertIds /\ \A id \in DOMAIN alerts' : alerts'[id] \in {"PENDING", "SENT"}
    BY <1>4 DEF BridgeMark, TypeOK
  <2> QED
    BY <1>4, <2>4, <2>5 DEF BridgeMark, TypeOK, registerVars, requestVars
<1>5. CASE BridgeEnds(b) \/ BridgeDies(b)
  <2>1. DOMAIN bridge' \subseteq Bridges /\ \A c \in DOMAIN bridge' : bridge'[c] \in BridgeRows
    BY <1>5 DEF BridgeEnds, BridgeDies, TypeOK, Without
  <2>2. deaths' \in 0 .. MaxDeaths
    BY <1>5, RegisterBoundsAssumption DEF BridgeEnds, BridgeDies, TypeOK
  <2> QED
    BY <1>5, <2>1, <2>2 DEF BridgeEnds, BridgeDies, TypeOK, registerVars, requestVars
<1> QED
  BY <1>1, <1>2, <1>3, <1>4, <1>5 DEF BridgeStep

\* Who takes a step.
SaveStep(q) ==
  \/ \E finalize \in BOOLEAN, sheet \in Sheets : SaveRead(q, finalize, sheet)
  \/ SaveDraft(q) \/ Submit(q) \/ SaveEnds(q)

LEMMA StepKinds ==
  ASSUME [Next]_vars
  PROVE  \/ \E q \in Saves : SaveStep(q)
         \/ \E a \in Asks : AskStep(a)
         \/ \E n \in DOMAIN requests, decision \in {"APPROVED", "REJECTED"} : Decide(n, decision)
         \/ \E b \in Bridges : BridgeStep(b) \/ BridgeDies(b)
         \/ UNCHANGED vars
BY DEF Next, SaveStep

LEMMA TypeStep ==
  ASSUME TypeOK, [Next]_vars
  PROVE  TypeOK'
<1>1. CASE \E q \in Saves : SaveStep(q)
  BY <1>1, TypeSave DEF SaveStep
<1>2. CASE \E a \in Asks : AskStep(a)
  BY <1>2, TypeAsk
<1>3. CASE \E n \in DOMAIN requests, decision \in {"APPROVED", "REJECTED"} : Decide(n, decision)
  BY <1>3, TypeDecide
<1>4. CASE \E b \in Bridges : BridgeStep(b) \/ BridgeDies(b)
  BY <1>4, TypeBridge
<1>5. CASE UNCHANGED vars
  BY <1>5 DEF vars, registerVars, requestVars, bridgeVars, TypeOK
<1> QED
  BY <1>1, <1>2, <1>3, <1>4, <1>5, StepKinds

\* Every table of a register holds well-typed rows, whatever the interleaving
\* of saves, correction requests and bridge runs.
THEOREM TypeCorrect == Spec => []TypeOK
<1>1. Init => TypeOK
  BY TypeInit
<1>2. TypeOK /\ [Next]_vars => TypeOK'
  BY TypeStep
<1> QED
  BY <1>1, <1>2, PTL DEF Spec

-----------------------------------------------------------------------------
(* What the steps leave alone. *)

LEMMA BridgeFrame ==
  ASSUME NEW b, BridgeStep(b) \/ BridgeDies(b)
  PROVE  /\ UNCHANGED <<register, submission, saving, asking, requests>>
         /\ DOMAIN alerts' = DOMAIN alerts
BY DEF BridgeStep, StartBridge, BridgeQueue, BridgeShow, BridgeMark, BridgeEnds, BridgeDies,
       registerVars, requestVars

LEMMA AskFrame ==
  ASSUME NEW a, AskStep(a)
  PROVE  UNCHANGED <<register, submission, saving, alerts, jobs, inapp, bridge>>
BY DEF AskStep, AskRead, AskCheck, AskCreate, AskEnds, registerVars, bridgeVars

LEMMA DecideFrame ==
  ASSUME NEW n, NEW decision, Decide(n, decision)
  PROVE  UNCHANGED <<submission, saving, asking, alerts, jobs, inapp, bridge>>
BY DEF Decide, bridgeVars

LEMMA SaveFrame ==
  ASSUME NEW q, SaveStep(q)
  PROVE  UNCHANGED <<jobs, inapp, bridge>>
BY DEF SaveStep, SaveRead, SaveDraft, Submit, SaveEnds, bridgeVars

\* Deciding a correction leaves the register as it is or reopens it.
LEMMA DecideRegister ==
  ASSUME TypeOK, NEW n, NEW decision, Decide(n, decision)
  PROVE  register' = register \/ (~register'.locked /\ register' \in Registers)
BY ReopenedType DEF Decide, TypeOK

\* Only saves that are no submission keep the alerts.
LEMMA SaveQuiet ==
  ASSUME TypeOK, NEW q, SaveStep(q), ~Submit(q)
  PROVE  /\ UNCHANGED <<submission, asking, requests, alerts>>
         /\ register' = register \/ (q \in DOMAIN saving /\ ~register'.locked)
<1>1. CASE SaveDraft(q)
  BY <1>1, WrittenType DEF SaveDraft, CanWrite, TypeOK, requestVars
<1>2. CASE ~SaveDraft(q)
  BY <1>2 DEF SaveStep, SaveRead, SaveEnds, requestVars
<1> QED
  BY <1>1, <1>2

-----------------------------------------------------------------------------
(* While a register stands submitted, the saves in progress are late. *)

LEMMA LateStep ==
  ASSUME TypeOK, SavesAreLate, [Next]_vars
  PROVE  SavesAreLate'
<1> SUFFICES ASSUME register'.locked, NEW r \in DOMAIN saving' PROVE saving'[r].late
  BY DEF SavesAreLate
<1>1. ASSUME NEW q \in Saves, SaveStep(q) PROVE saving'[r].late
  <2>1. CASE Submit(q)
    <3>1. r \in DOMAIN Without(saving, q) /\ saving'[r] = [Without(saving, q)[r] EXCEPT !.late = TRUE]
      BY <2>1 DEF Submit, Overtaken
    <3>2. Without(saving, q)[r] \in SaveRows
      BY <3>1 DEF Without, TypeOK
    <3> QED
      BY <3>1, <3>2, OvertakenSave
  <2>2. CASE ~Submit(q)
    <3>1. register' = register /\ register.locked
      BY <1>1, <2>2, SaveQuiet
    <3>2. CASE SaveDraft(q)
      <4>1. saving' = Without(saving, q)
        BY <3>2 DEF SaveDraft
      <4> QED
        BY <3>1, <4>1 DEF Without, SavesAreLate
    <3>3. CASE ~SaveDraft(q)
      <4>1. SaveEnds(q)
        BY <1>1, <2>2, <3>1, <3>3 DEF SaveStep, SaveRead, MaySave
      <4>2. saving' = Without(saving, q)
        BY <4>1 DEF SaveEnds
      <4> QED
        BY <3>1, <4>2 DEF Without, SavesAreLate
    <3> QED
      BY <3>2, <3>3
  <2> QED
    BY <2>1, <2>2
<1>2. CASE \E a \in Asks : AskStep(a)
  BY <1>2, AskFrame DEF SavesAreLate
<1>3. CASE \E n \in DOMAIN requests, decision \in {"APPROVED", "REJECTED"} : Decide(n, decision)
  BY <1>3, DecideFrame, DecideRegister DEF SavesAreLate
<1>4. CASE \E b \in Bridges : BridgeStep(b) \/ BridgeDies(b)
  BY <1>4, BridgeFrame DEF SavesAreLate
<1>5. CASE UNCHANGED vars
  BY <1>5 DEF vars, registerVars, SavesAreLate
<1> QED
  BY <1>1, <1>2, <1>3, <1>4, <1>5, StepKinds

-----------------------------------------------------------------------------
(* Requests are about the submission that they were read with. *)

LEMMA AsksStep ==
  ASSUME TypeOK, AsksAreCurrent, [Next]_vars
  PROVE  AsksAreCurrent'
<1>1. ASSUME NEW q \in Saves, SaveStep(q) PROVE AsksAreCurrent'
  <2>1. CASE Submit(q)
    <3>1. asking' = Overtaken(asking)
      BY <2>1 DEF Submit
    <3>2. \A a \in DOMAIN asking' : asking'[a].late
      BY <3>1, OvertakenAsk DEF Overtaken, TypeOK
    <3> QED
      BY <3>2 DEF AsksAreCurrent
  <2>2. CASE ~Submit(q)
    BY <1>1, <2>2, SaveQuiet DEF AsksAreCurrent
  <2> QED
    BY <2>1, <2>2
<1>2. ASSUME NEW a \in Asks, AskStep(a) PROVE AsksAreCurrent'
  <2>1. submission' = submission
    BY <1>2, AskFrame
  <2>2. CASE AskRead(a)
    BY <2>1, <2>2 DEF AskRead, With, AsksAreCurrent
  <2>3. CASE AskCreate(a)
    BY <2>1, <2>3 DEF AskCreate, Without, AsksAreCurrent
  <2>4. CASE AskCheck(a)
    <3>1. /\ DOMAIN asking' = DOMAIN asking
          /\ \A b \in DOMAIN asking : asking'[b].late = asking[b].late /\ asking'[b].about = asking[b].about
      BY <2>4, CheckedAsk DEF AskCheck, TypeOK
    <3> QED
      BY <2>1, <3>1 DEF AsksAreCurrent
  <2>5. CASE AskEnds(a)
    BY <2>1, <2>5 DEF AskEnds, Without, AsksAreCurrent
  <2> QED
    BY <1>2, <2>2, <2>3, <2>4, <2>5 DEF AskStep
<1>3. CASE \E n \in DOMAIN requests, decision \in {"APPROVED", "REJECTED"} : Decide(n, decision)
  BY <1>3, DecideFrame DEF AsksAreCurrent
<1>4. CASE \E b \in Bridges : BridgeStep(b) \/ BridgeDies(b)
  BY <1>4, BridgeFrame DEF AsksAreCurrent
<1>5. CASE UNCHANGED vars
  BY <1>5 DEF vars, registerVars, requestVars, AsksAreCurrent
<1> QED
  BY <1>1, <1>2, <1>3, <1>4, <1>5, StepKinds

LEMMA PendingStep ==
  ASSUME TypeOK, AsksAreCurrent, PendingIsCurrent, [Next]_vars
  PROVE  PendingIsCurrent'
<1>1. ASSUME NEW q \in Saves, SaveStep(q) PROVE PendingIsCurrent'
  <2>1. CASE Submit(q)
    <3>1. requests' = Superseded
      BY <2>1 DEF Submit
    <3> QED
      BY <3>1, SupersededType DEF PendingIsCurrent, TypeOK
  <2>2. CASE ~Submit(q)
    BY <1>1, <2>2, SaveQuiet DEF PendingIsCurrent
  <2> QED
    BY <2>1, <2>2
<1>2. ASSUME NEW a \in Asks, AskStep(a) PROVE PendingIsCurrent'
  <2>1. submission' = submission
    BY <1>2, AskFrame
  <2>2. CASE AskRead(a) \/ AskCheck(a) \/ AskEnds(a)
    BY <2>1, <2>2 DEF AskRead, AskCheck, AskEnds, PendingIsCurrent
  <2>3. CASE AskCreate(a)
    <3>1. asking[a].late \/ asking[a].about = submission
      BY <2>3 DEF AskCreate, AsksAreCurrent
    <3>2. requests' = Append(requests, [status |-> "PENDING", about |-> asking[a].about,
                                        late |-> asking[a].late])
      BY <2>3 DEF AskCreate
    <3>3. requests \in Seq(RequestRows)
      BY DEF TypeOK
    <3>4. ASSUME NEW n \in DOMAIN requests', requests'[n].status = "PENDING"
          PROVE  requests'[n].about = submission \/ requests'[n].late
      <4>1. CASE n = Len(requests) + 1
        BY <3>1, <3>2, <3>3, <4>1
      <4>2. CASE n /= Len(requests) + 1
        <5>1. n \in DOMAIN requests /\ requests'[n] = requests[n]
          BY <3>2, <3>3, <4>2
        <5> QED
          BY <3>4, <5>1 DEF PendingIsCurrent
      <4> QED
        BY <4>1, <4>2
    <3> QED
      BY <2>1, <3>4 DEF PendingIsCurrent
  <2> QED
    BY <1>2, <2>2, <2>3 DEF AskStep
<1>3. ASSUME NEW n \in DOMAIN requests, NEW decision \in {"APPROVED", "REJECTED"}, Decide(n, decision)
      PROVE  PendingIsCurrent'
  <2>1. submission' = submission
    BY <1>3, DecideFrame
  <2>2. requests' = [requests EXCEPT ![n].status = decision]
    BY <1>3 DEF Decide
  <2>3. requests[n] \in RequestRows
    BY DEF TypeOK
  <2>4. requests'[n].status /= "PENDING"
    BY <2>2, <2>3, DecidedRequest
  <2> QED
    BY <2>1, <2>2, <2>4 DEF PendingIsCurrent
<1>4. CASE \E b \in Bridges : BridgeStep(b) \/ BridgeDies(b)
  BY <1>4, BridgeFrame DEF PendingIsCurrent
<1>5. CASE UNCHANGED vars
  BY <1>5 DEF vars, registerVars, requestVars, PendingIsCurrent
<1> QED
  BY <1>1, <1>2, <1>3, <1>4, <1>5, StepKinds

-----------------------------------------------------------------------------
(* Alerts. *)

LEMMA AlertsStep ==
  ASSUME TypeOK, AlertsMatchRegister, [Next]_vars
  PROVE  AlertsMatchRegister'
<1>1. ASSUME NEW q \in Saves, SaveStep(q) PROVE AlertsMatchRegister'
  <2>1. CASE Submit(q)
    <3>1. register'.sheet = saving[q].sheet
      BY <2>1, WrittenType DEF Submit, CanWrite, TypeOK
    <3>2. alerts' = Alerted(submission', saving[q].sheet)
      BY <2>1 DEF Submit
    <3> QED
      BY <3>1, <3>2 DEF Alerted, AlertsMatchRegister
  <2>2. CASE ~Submit(q)
    BY <1>1, <2>2, SaveQuiet DEF AlertsMatchRegister
  <2> QED
    BY <2>1, <2>2
<1>2. CASE \E a \in Asks : AskStep(a)
  BY <1>2, AskFrame DEF AlertsMatchRegister
<1>3. CASE \E n \in DOMAIN requests, decision \in {"APPROVED", "REJECTED"} : Decide(n, decision)
  BY <1>3, DecideFrame, DecideRegister DEF AlertsMatchRegister
<1>4. CASE \E b \in Bridges : BridgeStep(b) \/ BridgeDies(b)
  BY <1>4, BridgeFrame DEF AlertsMatchRegister
<1>5. CASE UNCHANGED vars
  BY <1>5 DEF vars, registerVars, AlertsMatchRegister
<1> QED
  BY <1>1, <1>2, <1>3, <1>4, <1>5, StepKinds

\* The alert that a run with these alerts left is at.
Pick(S) == CHOOSE id \in S : TRUE

LEMMA CurrentPick ==
  ASSUME NEW b
  PROVE  Current(b) = Pick(bridge[b].todo) /\ Current(b)' = Pick(bridge'[b].todo)
BY DEF Current, Pick

\* What a run has done for the alert that it is at.
Told(row, queued, shown) ==
  /\ row.todo /= {} /\ row.at /= "NEXT" => Pick(row.todo)[2] \in Muted \/ Pick(row.todo) \in queued
  /\ row.todo /= {} /\ row.at = "SHOWN" => Pick(row.todo) \in shown

LEMMA KeepOrder ==
  /\ BridgesKeepOrder <=> \A b \in DOMAIN bridge : Told(bridge[b], jobs, inapp)
  /\ BridgesKeepOrder' <=> \A b \in DOMAIN bridge' : Told(bridge'[b], jobs', inapp')
BY CurrentPick DEF BridgesKeepOrder, Told

\* What was done stays done.
LEMMA ToldStays ==
  ASSUME NEW row, Told(row, jobs, inapp), jobs \subseteq jobs', inapp \subseteq inapp'
  PROVE  Told(row, jobs', inapp')
BY DEF Told

LEMMA BridgeOrder ==
  ASSUME TypeOK, BridgesKeepOrder, NEW b \in Bridges, BridgeStep(b) \/ BridgeDies(b)
  PROVE  BridgesKeepOrder'
<1>1. jobs \subseteq jobs' /\ inapp \subseteq inapp'
  BY DEF BridgeStep, StartBridge, BridgeQueue, BridgeShow, BridgeMark, BridgeEnds, BridgeDies
<1>2. \A c \in DOMAIN bridge' \ {b} : c \in DOMAIN bridge /\ bridge'[c] = bridge[c]
  BY DEF BridgeStep, StartBridge, BridgeQueue, BridgeShow, BridgeMark, BridgeEnds, BridgeDies,
         With, Without
<1>3. \A c \in DOMAIN bridge' \ {b} : Told(bridge'[c], jobs', inapp')
  BY <1>1, <1>2, KeepOrder, ToldStays
<1>4. ASSUME b \in DOMAIN bridge' PROVE Told(bridge'[b], jobs', inapp')
  <2>1. CASE StartBridge(b)
    <3>1. bridge'[b].at = "NEXT"
      BY <2>1 DEF StartBridge, With
    <3> QED
      BY <3>1 DEF Told
  <2>2. CASE BridgeQueue(b)
    <3>1. b \in DOMAIN bridge /\ bridge[b] \in BridgeRows
      BY <2>2 DEF BridgeQueue, At, TypeOK
    <3>2. bridge'[b] = [bridge[b] EXCEPT !.at = "QUEUED"]
      BY <2>2, <3>1 DEF BridgeQueue
    <3>3. bridge'[b].todo = bridge[b].todo /\ bridge'[b].at = "QUEUED"
      BY <3>1, <3>2, BridgeForward
    <3>4. Current(b)[2] \in Muted \/ Current(b) \in jobs'
      BY <2>2 DEF BridgeQueue
    <3>5. Pick(bridge[b].todo)[2] \in Muted \/ Pick(bridge[b].todo) \in jobs'
      BY <3>4, CurrentPick
    <3> QED
      BY <3>3, <3>5 DEF Told
  <2>3. CASE BridgeShow(b)
    <3>1. b \in DOMAIN bridge /\ bridge[b] \in BridgeRows /\ bridge[b].todo /= {} /\ bridge[b].at = "QUEUED"
      BY <2>3 DEF BridgeShow, At, TypeOK
    <3>2. bridge'[b] = [bridge[b] EXCEPT !.at = "SHOWN"]
      BY <2>3, <3>1 DEF BridgeShow
    <3>3. bridge'[b].todo = bridge[b].todo /\ bridge'[b].at = "SHOWN"
      BY <3>1, <3>2, BridgeForward
    <3>4. Current(b) \in inapp'
      BY <2>3 DEF BridgeShow
    <3>5. Pick(bridge[b].todo) \in inapp'
      BY <3>4, CurrentPick
    <3>6. Pick(bridge[b].todo)[2] \in Muted \/ Pick(bridge[b].todo) \in jobs
      BY <3>1, KeepOrder DEF Told
    <3> QED
      BY <1>1, <3>3, <3>5, <3>6 DEF Told
  <2>4. CASE BridgeMark(b)
    <3>1. b \in DOMAIN bridge
      BY <2>4 DEF BridgeMark, At
    <3>2. bridge'[b].at = "NEXT"
      BY <1>4, <2>4, <3>1 DEF BridgeMark, Without
    <3> QED
      BY <3>2 DEF Told
  <2>5. CASE BridgeEnds(b) \/ BridgeDies(b)
    BY <1>4, <2>5 DEF BridgeEnds, BridgeDies, Without
  <2> QED
    BY <2>1, <2>2, <2>3, <2>4, <2>5 DEF BridgeStep
<1> QED
  BY <1>3, <1>4, KeepOrder

LEMMA OrderStep ==
  ASSUME TypeOK, BridgesKeepOrder, [Next]_vars
  PROVE  BridgesKeepOrder'
<1>1. ASSUME UNCHANGED <<jobs, inapp, bridge>> PROVE BridgesKeepOrder'
  BY <1>1, KeepOrder
<1>2. CASE \E b \in Bridges : BridgeStep(b) \/ BridgeDies(b)
  BY <1>2, BridgeOrder
<1>3. CASE UNCHANGED vars
  BY <1>1, <1>3 DEF vars, bridgeVars
<1> QED
  BY <1>1, <1>2, <1>3, StepKinds, SaveFrame, AskFrame, DecideFrame

LEMMA SentStep ==
  ASSUME TypeOK, BridgesKeepOrder, SentAlertsAreQueued, [Next]_vars
  PROVE  SentAlertsAreQueued'
<1>1. ASSUME UNCHANGED <<alerts, jobs, inapp>> PROVE SentAlertsAreQueued'
  BY <1>1 DEF SentAlertsAreQueued
<1>2. ASSUME NEW q \in Saves, SaveStep(q) PROVE SentAlertsAreQueued'
  <2>1. CASE Submit(q)
    BY <2>1 DEF Submit, Alerted, SentAlertsAreQueued
  <2>2. CASE ~Submit(q)
    BY <1>1, <1>2, <2>2, SaveQuiet, SaveFrame
  <2> QED
    BY <2>1, <2>2
<1>3. ASSUME NEW b \in Bridges, BridgeStep(b) \/ BridgeDies(b) PROVE SentAlertsAreQueued'
  <2>1. CASE BridgeMark(b)
    <3>1. b \in DOMAIN bridge /\ bridge[b].todo /= {} /\ bridge[b].at = "SHOWN"
      BY <2>1 DEF BridgeMark, At
    <3>2. Current(b) \in inapp /\ (Current(b)[2] \in Muted \/ Current(b) \in jobs)
      BY <3>1 DEF BridgesKeepOrder
    <3>3. UNCHANGED <<jobs, inapp>>
      BY <2>1 DEF BridgeMark
    <3>4. alerts' = alerts \/ alerts' = [alerts EXCEPT ![Current(b)] = "SENT"]
      BY <2>1 DEF BridgeMark
    <3> QED
      BY <3>2, <3>3, <3>4 DEF SentAlertsAreQueued
  <2>2. CASE ~BridgeMark(b)
    <3>1. alerts' = alerts /\ jobs \subseteq jobs' /\ inapp \subseteq inapp'
      BY <1>3, <2>2 DEF BridgeStep, StartBridge, BridgeQueue, BridgeShow, BridgeEnds, BridgeDies
    <3> QED
      BY <3>1 DEF SentAlertsAreQueued
  <2> QED
    BY <2>1, <2>2
<1>4. CASE UNCHANGED vars
  BY <1>1, <1>4 DEF vars, bridgeVars
<1> QED
  BY <1>1, <1>2, <1>3, <1>4, StepKinds, AskFrame, DecideFrame

-----------------------------------------------------------------------------
(* The inductive invariant. *)

LEMMA Inductive ==
  /\ Init => IInv
  /\ IInv /\ [Next]_vars => IInv'
<1>1. Init => IInv
  <2> SUFFICES ASSUME Init PROVE IInv
    OBVIOUS
  <2>1. TypeOK
    BY TypeInit
  <2>2. SavesAreLate /\ AlertsMatchRegister
    BY DEF Init, SavesAreLate, AlertsMatchRegister
  <2>3. AsksAreCurrent /\ BridgesKeepOrder /\ PendingIsCurrent /\ SentAlertsAreQueued
    BY DEF Init, NoRows, AsksAreCurrent, BridgesKeepOrder, PendingIsCurrent, SentAlertsAreQueued
  <2> QED
    BY <2>1, <2>2, <2>3 DEF IInv
<1>2. IInv /\ [Next]_vars => IInv'
  BY TypeStep, LateStep, AsksStep, OrderStep, AlertsStep, PendingStep, SentStep DEF IInv
<1> QED
  BY <1>1, <1>2

LEMMA Invariance == Spec => []IInv
<1>1. Init => IInv
  BY Inductive
<1>2. IInv /\ [Next]_vars => IInv'
  BY Inductive
<1> QED
  BY <1>1, <1>2, PTL DEF Spec

\* A register that stands submitted has alerts of its last submission, for
\* exactly the students that its sheet has absent.
THEOREM AlertsMatch == Spec => []AlertsMatchRegister
<1>1. IInv => AlertsMatchRegister
  BY DEF IInv
<1> QED
  BY <1>1, Invariance, PTL

\* A pending correction request is about the submission that stands, unless a
\* submission overtook it while it was being made.
THEOREM PendingCurrent == Spec => []PendingIsCurrent
<1>1. IInv => PendingIsCurrent
  BY DEF IInv
<1> QED
  BY <1>1, Invariance, PTL

\* An alert is marked SENT only when its parent has been told, also when bridge
\* runs overlap, die or have their alerts deleted under them.
THEOREM SentIsTold == Spec => []SentAlertsAreQueued
<1>1. IInv => SentAlertsAreQueued
  BY DEF IInv
<1> QED
  BY <1>1, Invariance, PTL

\* A submitted register is changed only by the approval of a correction or by a
\* save that had read it before it was submitted.
THEOREM SubmittedStands == Spec => SubmittedRegisterStands
<1> DEFINE Change ==
      register.locked /\ register' /= register =>
        \/ register' = [register EXCEPT !.locked = FALSE] /\ HasApproved' /\ saving' = saving
        \/ \E q \in DOMAIN saving \ DOMAIN saving' : saving[q].late
<1>1. IInv /\ [Next]_vars => [Change]_vars
  <2> SUFFICES ASSUME IInv, Next, register.locked, register' /= register PROVE Change
    OBVIOUS
  <2>1. TypeOK /\ SavesAreLate /\ [Next]_vars
    BY DEF IInv
  <2>2. ASSUME NEW q \in Saves, SaveStep(q) PROVE Change
    <3>1. SaveDraft(q) \/ Submit(q)
      BY <2>2 DEF SaveStep, SaveRead, SaveEnds
    <3>2. q \in DOMAIN saving /\ q \notin DOMAIN saving'
      BY <3>1 DEF SaveDraft, Submit, CanWrite, Overtaken, Without
    <3> QED
      BY <2>1, <3>2 DEF SavesAreLate
  <2>3. ASSUME NEW n \in DOMAIN requests, NEW decision \in {"APPROVED", "REJECTED"}, Decide(n, decision)
        PROVE  Change
    <3>1. decision = "APPROVED" /\ register' = [register EXCEPT !.locked = FALSE]
      BY <2>3 DEF Decide
    <3>2. requests[n] \in RequestRows
      BY <2>1 DEF TypeOK
    <3>3. requests' = [requests EXCEPT ![n].status = "APPROVED"]
      BY <2>3, <3>1 DEF Decide
    <3>4. n \in DOMAIN requests' /\ requests'[n].status = "APPROVED"
      BY <3>2, <3>3, DecidedRequest
    <3>5. HasApproved'
      BY <3>4 DEF HasApproved
    <3>6. saving' = saving
      BY <2>3, DecideFrame
    <3> QED
      BY <3>1, <3>5, <3>6
  <2>4. ASSUME UNCHANGED vars PROVE Change
    BY <2>4 DEF vars, registerVars
  <2> HIDE DEF Change
  <2> QED
    BY <2>1, <2>2, <2>3, <2>4, StepKinds, AskFrame, BridgeFrame
<1> QED
  BY <1>1, Invariance, PTL DEF Spec, SubmittedRegisterStands
=============================================================================

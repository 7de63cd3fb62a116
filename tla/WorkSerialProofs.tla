-------------------------- MODULE WorkSerialProofs --------------------------
(* Theorems about WorkDelegation that rest on which request is in flight:  *)
(* who holds a claim, and what a request may rely on while the injected    *)
(* Mission callables never suspend it.                                     *)
EXTENDS WorkProofs

-----------------------------------------------------------------------------
(* The frame: what a step leaves alone, whoever takes it. *)

LEMMA Settings ==
    ASSUME IInv, [Next]_vars
    PROVE  wiring' = wiring /\ faults \in Nat /\ faults' \in Nat /\ faults' >= faults
  <1>1. faults \in 0 .. MaxFaults /\ faults' \in 0 .. MaxFaults
    BY StepKeeps DEF IInv, TypeOK
  <1>2. faults' = faults \/ faults' = faults + 1
    BY ZenonT(40) DEF Next, vars, Definitions, Delegations, Changes, Environment, CreateAutomation, ArmEvent,
         ResumeJob, UpdateApp, ArchiveApp, Deploy, Claim, Deliver, Submit, SubmitRejected,
         RecordDeploy, RecordEvent, Acknowledge, Stop, NextPass, SetJobStatus, Change,
         CancelMission, RecordCancel, GiveUp, FinishEdit, FinishDelete, Refresh, FinishRefresh,
         MissionEnds, MissionRevived, RequestDies, Crash
  <1>3. wiring' = wiring
    BY ZenonT(40) DEF Next, vars, Definitions, Delegations, Changes, Environment, CreateAutomation, ArmEvent,
         ResumeJob, UpdateApp, ArchiveApp, Deploy, Claim, Deliver, Submit, SubmitRejected,
         RecordDeploy, RecordEvent, Acknowledge, Stop, NextPass, SetJobStatus, Change,
         CancelMission, RecordCancel, GiveUp, FinishEdit, FinishDelete, Refresh, FinishRefresh,
         MissionEnds, MissionRevived, RequestDies, Crash
  <1>4. QED
    BY <1>1, <1>2, <1>3, WorkAssumption

(* A request's step needs the event loop, and writes no other request.     *)
LEMMA RequestFrame ==
    ASSUME IInv, NEW r \in Request, Delegations(r) \/ Changes(r)
    PROVE  Quiet(r) /\ \A q \in Request \ {r} : req'[q] = req[q]
  <1>1. Quiet(r)
    BY DEF Delegations, Changes, Deploy, Claim, Deliver, Submit, SubmitRejected, RecordDeploy,
         RecordEvent, Acknowledge, Stop, NextPass, SetJobStatus, Change, CancelMission,
         RecordCancel, GiveUp, FinishEdit, FinishDelete, Refresh, FinishRefresh, Begins, At,
         Submitting, Recording, Cancelling
  <1>2. \E record : SetReq(r, record)
    BY DEF Delegations, Changes, Deploy, Claim, Deliver, Submit, SubmitRejected, RecordDeploy,
         RecordEvent, Acknowledge, Stop, NextPass, SetJobStatus, Change, CancelMission,
         RecordCancel, GiveUp, FinishEdit, FinishDelete, Refresh, FinishRefresh, EndReq
  <1>3. QED
    BY <1>1, <1>2 DEF SetReq, IInv, TypeOK

(* The steps no request takes. *)
LEMMA OtherFrame ==
    ASSUME IInv, Definitions \/ Environment \/ UNCHANGED vars
    PROVE  /\ Definitions => AllQuiet
           /\ \A r \in Request : req'[r] = req[r] \/ (req'[r] = NoReq /\ faults' > 0)
  <1>0. faults \in Nat
    BY WorkAssumption DEF IInv, TypeOK
  <1>1. Definitions => AllQuiet /\ UNCHANGED req
    BY DEF Definitions, CreateAutomation, ArmEvent, ResumeJob, UpdateApp, ArchiveApp
  <1>2. Environment => \A r \in Request : req'[r] = req[r] \/ (req'[r] = NoReq /\ faults' > 0)
    <2>1. \A m \in Mission : MissionEnds(m) \/ MissionRevived(m) => UNCHANGED req
      BY DEF MissionEnds, MissionRevived
    <2>2. ASSUME NEW q \in Request, RequestDies(q), NEW r \in Request
          PROVE  req'[r] = req[r] \/ (req'[r] = NoReq /\ faults' > 0)
      BY <1>0, <2>2 DEF RequestDies, EndReq, SetReq, IInv, TypeOK
    <2>3. ASSUME Crash, NEW r \in Request
          PROVE  req'[r] = NoReq /\ faults' > 0
      BY <1>0, <2>3 DEF Crash
    <2>4. QED
      BY <2>1, <2>2, <2>3 DEF Environment
  <1>3. QED
    BY <1>1, <1>2 DEF vars

(* Which steps write an automation's row. *)
RowMove(a) ==
    \/ autos'[a] = autos[a]
    \/ CreateAutomation(a)
    \/ ArmEvent(a)
    \/ \E r \in Request :
          \/ Deploy(r, a)
          \/ Claim(r, a) /\ autos'[a] = ClaimedEvent(autos[a], req[r].event)
          \/ /\ req[r].auto = a
             /\ \/ SubmitRejected(r) \/ RecordDeploy(r) \/ RecordEvent(r)
                \/ RecordCancel(r) \/ FinishRefresh(r) \/ FinishEdit(r) \/ FinishDelete(r)

LEMMA RowMoves ==
    ASSUME IInv, [Next]_vars, NEW a \in Automation
    PROVE  RowMove(a)
  <1>0. autos \in [Automation -> Row]
    BY DEF IInv, TypeOK
  <1>1. CASE Definitions
    BY <1>0, <1>1 DEF Definitions, CreateAutomation, ArmEvent, ResumeJob, UpdateApp, ArchiveApp,
                      SetRow, RowMove
  <1>2. CASE Environment \/ UNCHANGED vars
    BY <1>2 DEF Environment, MissionEnds, MissionRevived, RequestDies, Crash, vars, RowMove
  <1>3. ASSUME NEW r \in Request, NEW b \in Automation, Deploy(r, b) \/ Claim(r, b)
        PROVE  RowMove(a)
    BY <1>0, <1>3 DEF Deploy, Claim, SetRow, RowMove
  <1>4. ASSUME NEW r \in Request,
               \/ SubmitRejected(r) \/ RecordDeploy(r) \/ RecordEvent(r)
               \/ RecordCancel(r) \/ FinishRefresh(r) \/ FinishEdit(r) \/ FinishDelete(r)
        PROVE  RowMove(a)
    <2>1. autos' = autos \/ \E row : SetRow(req[r].auto, row)
      BY <1>4 DEF SubmitRejected, RecordDeploy, RecordEvent, RecordCancel, FinishRefresh,
                  FinishEdit, FinishDelete
    <2>2. CASE req[r].auto = a
      BY <1>4, <2>2 DEF RowMove
    <2>3. CASE req[r].auto # a
      BY <1>0, <2>1, <2>3 DEF SetRow, RowMove
    <2>4. QED
      BY <2>2, <2>3
  <1>5. ASSUME NEW r \in Request, Delegations(r) \/ Changes(r)
        PROVE  RowMove(a)
    <2>1. \/ UNCHANGED autos
          \/ \E b \in Automation : Deploy(r, b) \/ Claim(r, b)
          \/ SubmitRejected(r) \/ RecordDeploy(r) \/ RecordEvent(r)
          \/ RecordCancel(r) \/ FinishRefresh(r) \/ FinishEdit(r) \/ FinishDelete(r)
      BY <1>5 DEF Delegations, Changes, Deliver, Submit, Acknowledge, Stop, NextPass,
                  SetJobStatus, Change, CancelMission, GiveUp, Refresh
    <2>2. QED
      BY <1>3, <1>4, <2>1 DEF RowMove
  <1>6. QED
    BY <1>1, <1>2, <1>5 DEF Next

(* What each of the writes by a request makes of the row.                  *)
LEMMA RowWritten ==
    ASSUME IInv, NEW r \in Request, NEW a \in Automation, req[r].auto = a
    PROVE  /\ SubmitRejected(r) =>
                 autos'[a] = IF req[r].op = "deploy" THEN FailedSubmission(autos[a])
                                                     ELSE FailedEvent(autos[a], req[r].event)
           /\ RecordDeploy(r) =>
                 autos'[a] = IF autos[a].exists THEN Delegated(autos[a], req[r].mission)
                                                ELSE autos[a]
           /\ RecordEvent(r) =>
                 autos'[a] = IF Armable(a) /\ Pending(a, req[r].event)
                             THEN RecordedEvent(autos[a], req[r].event, req[r].mission)
                             ELSE autos[a]
           /\ RecordCancel(r) =>
                 autos'[a] = IF req[r].mission \in Expected(autos[a])
                             THEN Reconciled(autos[a], req[r].mission, "ended") ELSE autos[a]
           /\ FinishRefresh(r) =>
                 autos'[a] = IF req[r].mission \in Expected(autos[a])
                             THEN Reconciled(autos[a], req[r].mission, req[r].status)
                             ELSE autos[a]
           /\ FinishEdit(r) =>
                 \E trigger \in {"manual", "event"}, enabled \in BOOLEAN :
                    autos'[a] = IF autos[a].exists THEN Fresh(trigger, enabled) ELSE autos[a]
           /\ FinishDelete(r) => autos'[a] = NoRow
  <1>0. autos \in [Automation -> Row]
    BY DEF IInv, TypeOK
  <1>1. SubmitRejected(r) =>
          autos'[a] = IF req[r].op = "deploy" THEN FailedSubmission(autos[a])
                                              ELSE FailedEvent(autos[a], req[r].event)
    BY <1>0 DEF SubmitRejected, SetRow
  <1>2. RecordDeploy(r) =>
          autos'[a] = IF autos[a].exists THEN Delegated(autos[a], req[r].mission)
                                         ELSE autos[a]
    BY <1>0 DEF RecordDeploy, SetRow
  <1>3. RecordEvent(r) =>
          autos'[a] = IF Armable(a) /\ Pending(a, req[r].event)
                      THEN RecordedEvent(autos[a], req[r].event, req[r].mission)
                      ELSE autos[a]
    BY <1>0 DEF RecordEvent, SetRow
  <1>4. RecordCancel(r) =>
          autos'[a] = IF req[r].mission \in Expected(autos[a])
                      THEN Reconciled(autos[a], req[r].mission, "ended") ELSE autos[a]
    BY <1>0 DEF RecordCancel, SetRow
  <1>5. FinishRefresh(r) =>
          autos'[a] = IF req[r].mission \in Expected(autos[a])
                      THEN Reconciled(autos[a], req[r].mission, req[r].status) ELSE autos[a]
    BY <1>0 DEF FinishRefresh, SetRow
  <1>6. FinishEdit(r) =>
          \E trigger \in {"manual", "event"}, enabled \in BOOLEAN :
             autos'[a] = IF autos[a].exists THEN Fresh(trigger, enabled) ELSE autos[a]
    BY <1>0 DEF FinishEdit, SetRow
  <1>7. FinishDelete(r) => autos'[a] = NoRow
    BY <1>0 DEF FinishDelete, SetRow
  <1>8. QED
    BY <1>1, <1>2, <1>3, <1>4, <1>5, <1>6, <1>7

(* No mutation but the two claims makes a row or a receipt look claimed.   *)
Unclaimed(row, new) ==
    /\ new.state = "submitting" => row.state = "submitting"
    /\ \A e \in Event : new.receipts[e].state = "pending" => row.receipts[e].state = "pending"

LEMMA MutationsUnclaimed ==
    ASSUME NEW row \in Row, NEW m, NEW e, NEW status, NEW trigger, NEW enabled
    PROVE  /\ Unclaimed(row, row)
           /\ Unclaimed(row, FailedSubmission(row)) /\ Unclaimed(row, FailedEvent(row, e))
           /\ Unclaimed(row, Delegated(row, m)) /\ Unclaimed(row, Armed(row))
           /\ Unclaimed(row, RecordedEvent(row, e, m)) /\ Unclaimed(row, Reconciled(row, m, status))
           /\ Unclaimed(row, Fresh(trigger, enabled)) /\ Unclaimed(row, NoRow)
  <1> USE DEF Row, Unclaimed, NoReceipts, NoReceipt
  <1>1. Unclaimed(row, row) /\ Unclaimed(row, FailedSubmission(row))
    BY DEF FailedSubmission
  <1>2. Unclaimed(row, FailedEvent(row, e))
    <2>1. ASSUME NEW x \in Event, FailedEvent(row, e).receipts[x].state = "pending"
          PROVE  row.receipts[x].state = "pending"
      BY <2>1 DEF FailedEvent, Receipt
    <2>2. FailedEvent(row, e).state = row.state
      BY DEF FailedEvent
    <2>3. QED
      BY <2>1, <2>2
  <1>3. Unclaimed(row, Delegated(row, m)) /\ Unclaimed(row, Armed(row))
    BY DEF Delegated, Armed, Fresh
  <1>4. Unclaimed(row, RecordedEvent(row, e, m)) /\ Unclaimed(row, Reconciled(row, m, status))
    BY DEF RecordedEvent, Reconciled
  <1>5. Unclaimed(row, Fresh(trigger, enabled)) /\ Unclaimed(row, NoRow)
    BY DEF Fresh, NoRow
  <1>6. QED
    BY <1>1, <1>2, <1>3, <1>4, <1>5

(* So a row or a receipt becomes claimed only by the step that claims it.  *)
LEMMA ClaimStep ==
    ASSUME IInv, [Next]_vars, NEW a \in Automation
    PROVE  \/ Unclaimed(autos[a], autos'[a])
           \/ \E r \in Request : Deploy(r, a)
           \/ \E r \in Request : Claim(r, a) /\ autos'[a] = ClaimedEvent(autos[a], req[r].event)
  <1>0. autos[a] \in Row /\ autos \in [Automation -> Row]
    BY DEF IInv, TypeOK
  <1>1. CASE autos'[a] = autos[a]
    BY <1>0, <1>1, MutationsUnclaimed
  <1>2. CASE CreateAutomation(a) \/ ArmEvent(a)
    <2>1. CreateAutomation(a) => \E trigger, enabled : autos'[a] = Fresh(trigger, enabled)
      BY <1>0 DEF CreateAutomation, SetRow
    <2>2. ArmEvent(a) => autos'[a] = Armed(autos[a])
      BY <1>0 DEF ArmEvent, SetRow
    <2>3. QED
      BY <1>0, <1>2, <2>1, <2>2, MutationsUnclaimed
  <1>3. ASSUME NEW r \in Request, req[r].auto = a,
               \/ SubmitRejected(r) \/ RecordDeploy(r) \/ RecordEvent(r)
               \/ RecordCancel(r) \/ FinishRefresh(r) \/ FinishEdit(r) \/ FinishDelete(r)
        PROVE  Unclaimed(autos[a], autos'[a])
    BY <1>0, <1>3, RowWritten, MutationsUnclaimed
  <1>4. QED
    BY <1>1, <1>2, <1>3, RowMoves DEF RowMove

-----------------------------------------------------------------------------
(* Who holds a claim. *)

Holds(r) == req[r].op \in {"deploy", "deliver"} /\ req[r].pc \in {"submit", "record"}

Same(r) ==
    /\ req'[r].op = req[r].op /\ req'[r].auto = req[r].auto /\ req'[r].event = req[r].event
    /\ req'[r].pc \in {"submit", "record"}

(* The claims of requests in flight: the row of a deploy, the receipt of a *)
(* delivery that has got to this automation.                               *)
ClaimsHeld ==
    faults = 0 => \A a \in Automation :
        /\ autos[a].state = "submitting" =>
             \E r \in Request : Holds(r) /\ req[r].op = "deploy" /\ req[r].auto = a
        /\ \A e \in Event : autos[a].receipts[e].state = "pending" =>
             \E r \in Request : /\ Holds(r) /\ req[r].op = "deliver"
                                /\ req[r].event = e /\ req[r].auto = a

(* A request lets go of its claim only in the step that settles it. *)
LEMMA HolderStep ==
    ASSUME IInv, [Next]_vars, NEW r \in Request, Holds(r)
    PROVE  \/ Same(r)
           \/ SubmitRejected(r) \/ RecordDeploy(r) \/ RecordEvent(r)
           \/ faults' > 0
  <1>0. req[r] \in Req
    BY ReqFields DEF IInv
  <1>1. CASE req'[r] = req[r]
    BY <1>1 DEF Holds, Same
  <1>2. CASE Delegations(r) \/ Changes(r)
    <2>1. CASE Submit(r)
      BY <1>0, <2>1 DEF Submit, SetReq, IInv, TypeOK, Same, Req
    <2>2. CASE ~Submit(r)
      BY <1>2, <2>2 DEF Holds, Delegations, Changes, Deploy, Claim, Deliver, Acknowledge, Stop,
           NextPass, SetJobStatus, Change, CancelMission, RecordCancel, GiveUp, FinishEdit,
           FinishDelete, Refresh, FinishRefresh, Begins, Idle, At, Cancelling
    <2>3. QED
      BY <2>1, <2>2
  <1>3. QED
    BY <1>1, <1>2, RequestFrame, OtherFrame DEF Next

LEMMA ClaimsHeldStep ==
    ASSUME IInv, ClaimsHeld, [Next]_vars
    PROVE  ClaimsHeld'
  <1> SUFFICES ASSUME faults' = 0, NEW a \in Automation
               PROVE  /\ autos'[a].state = "submitting" =>
                            \E r \in Request : /\ Holds(r)' /\ req'[r].op = "deploy"
                                               /\ req'[r].auto = a
                      /\ \A e \in Event : autos'[a].receipts[e].state = "pending" =>
                            \E r \in Request : /\ Holds(r)' /\ req'[r].op = "deliver"
                                               /\ req'[r].event = e /\ req'[r].auto = a
    BY DEF ClaimsHeld
  <1>0. faults = 0 /\ autos[a] \in Row /\ RowOK(a) /\ autos \in [Automation -> Row]
    BY Settings DEF IInv, TypeOK, Rows
  <1>1. ASSUME autos'[a].state = "submitting"
        PROVE  \E r \in Request : Holds(r)' /\ req'[r].op = "deploy" /\ req'[r].auto = a
    <2>1. ASSUME NEW r \in Request, Deploy(r, a)
          PROVE  Holds(r)' /\ req'[r].op = "deploy" /\ req'[r].auto = a
      BY <2>1 DEF Deploy, SetReq, NoReq, Holds, IInv, TypeOK
    <2>2. CASE autos[a].state = "submitting"
      <3>1. PICK r \in Request : Holds(r) /\ req[r].op = "deploy" /\ req[r].auto = a
        BY <1>0, <2>2 DEF ClaimsHeld
      <3>2. ~RecordEvent(r)
        BY <3>1 DEF RecordEvent
      <3>3. ~SubmitRejected(r)
        BY <1>0, <1>1, <2>2, <3>1 DEF SubmitRejected, SetRow, FailedSubmission, Row
      <3>4. ~RecordDeploy(r)
        BY <1>0, <1>1, <2>2, <3>1 DEF RecordDeploy, SetRow, Delegated, Fresh, RowOK
      <3>5. Same(r)
        BY <3>1, <3>2, <3>3, <3>4, HolderStep
      <3>6. QED
        BY <3>1, <3>5 DEF Same, Holds
    <2>3. CASE autos[a].state # "submitting"
      <3>1. \A r \in Request : autos'[a] # ClaimedEvent(autos[a], req[r].event)
        BY <1>0, <1>1, <2>3 DEF ClaimedEvent, Row
      <3>2. QED
        BY <1>1, <2>1, <2>3, <3>1, ClaimStep DEF Unclaimed
    <2>4. QED
      BY <2>2, <2>3
  <1>2. ASSUME NEW e \in Event, autos'[a].receipts[e].state = "pending"
        PROVE  \E r \in Request : /\ Holds(r)' /\ req'[r].op = "deliver"
                                  /\ req'[r].event = e /\ req'[r].auto = a
    <2>1. CASE autos[a].receipts[e].state = "pending"
      <3>1. PICK r \in Request : /\ Holds(r) /\ req[r].op = "deliver"
                                 /\ req[r].event = e /\ req[r].auto = a
        BY <1>0, <2>1 DEF ClaimsHeld
      <3>2. ~RecordDeploy(r)
        BY <3>1 DEF RecordDeploy
      <3>3. ~SubmitRejected(r)
        BY <1>0, <1>2, <2>1, <3>1 DEF SubmitRejected, SetRow, FailedEvent, Row, Receipt
      <3>4. ~RecordEvent(r)
        <4>1. autos[a].state = "armed" /\ autos[a].exists
          BY <1>0, <2>1 DEF RowOK, NoReceipts, NoReceipt
        <4>2. RecordEvent(r) => autos'[a] = RecordedEvent(autos[a], e, req[r].mission)
          BY <1>0, <2>1, <3>1, <4>1 DEF RecordEvent, Armable, Pending, SetRow
        <4>3. RecordedEvent(autos[a], e, req[r].mission).receipts[e].state = "delegated"
          BY <1>0 DEF RecordedEvent, Row
        <4>4. QED
          BY <1>2, <4>2, <4>3
      <3>5. Same(r)
        BY <3>1, <3>2, <3>3, <3>4, HolderStep
      <3>6. QED
        BY <3>1, <3>5 DEF Same, Holds
    <2>2. CASE autos[a].receipts[e].state # "pending"
      <3>1. ASSUME NEW r \in Request, Deploy(r, a)
            PROVE  FALSE
        <4>1. autos'[a] = Claimed(autos[a])
          BY <1>0, <3>1 DEF Deploy, SetRow
        <4>2. Claimed(autos[a]).receipts = autos[a].receipts
          BY <1>0 DEF Claimed, Row
        <4>3. QED
          BY <1>2, <2>2, <4>1, <4>2
      <3>4. PICK r \in Request : Claim(r, a) /\ autos'[a] = ClaimedEvent(autos[a], req[r].event)
        BY <1>2, <2>2, <3>1, ClaimStep DEF Unclaimed
      <3>5. req[r].event = e /\ req[r].op = "deliver" /\ req[r] \in Req
        BY <1>0, <1>2, <2>2, <3>4, ReqFields DEF ClaimedEvent, Row, Claim, At, IInv
      <3>6. req'[r] = [req[r] EXCEPT !.todo = req[r].todo \ {a}, !.auto = a, !.pc = "submit"]
        <4>1. autos'[a] # autos[a]
          BY <1>2, <2>2
        <4>2. QED
          BY <3>4, <4>1 DEF Claim, SetReq, IInv, TypeOK
      <3>7. QED
        BY <3>5, <3>6 DEF Holds, Req
    <2>3. QED
      BY <2>1, <2>2
  <1>3. QED
    BY <1>1, <1>2

(* A claim never outlives its request, unless a fault cut the request      *)
(* short: no later deploy or delivery finds the row taken by nobody        *)
(* (mark_automation_submission_failed and mark_event_submission_failed     *)
(* against every edit, deletion and arming in between).                    *)
THEOREM NoOrphanedClaim == Spec => []ClaimsHaveARequest
  <1>1. Init => ClaimsHeld
    BY DEF Init, ClaimsHeld, Fresh, NoReceipts, NoReceipt
  <1>2. ClaimsHeld => ClaimsHaveARequest
    BY DEF ClaimsHeld, ClaimsHaveARequest
  <1>3. QED
    BY <1>1, <1>2, ClaimsHeldStep, WorkInvariant, StepKeeps, InitInv, PTL DEF Spec

-----------------------------------------------------------------------------
(* One request at a time: what a request may rely on between two of its    *)
(* steps while the injected callables never suspend.                       *)

Running(m) == Live(m) /\ ~missions[m].revived

Alone == \A q, r \in Request : q = r \/ Idle(q) \/ Idle(r)

(* A row that waits for events was never deployed by hand since it was     *)
(* last edited; one being deployed says so; and an edit or a deletion has  *)
(* listed every Mission of its row that still runs.                        *)
TriggerOK(a) == autos[a].trigger = "event" => autos[a].state \in {"not_deployed", "armed"}

DeployOK(r) == req[r].op = "deploy" => autos[req[r].auto].state = "submitting"

CoverOK(r) ==
    req[r].op \in {"edit", "delete"} =>
        \A m \in Tracked(autos[req[r].auto]) : Running(m) => <<req[r].auto, m>> \in req[r].pairs

Serial ==
    /\ Alone
    /\ \A a \in Automation : TriggerOK(a)
    /\ \A r \in Request : DeployOK(r) /\ CoverOK(r)

SerialInv == ~wiring.suspends => Serial

LEMMA Turn ==
    ASSUME IInv, ~wiring.suspends, NEW r \in Request, Delegations(r) \/ Changes(r)
    PROVE  \A q \in Request \ {r} : Idle(q) /\ req'[q] = req[q]
  BY RequestFrame DEF Quiet

LEMMA AloneStep ==
    ASSUME IInv, ~wiring.suspends, Alone, [Next]_vars
    PROVE  Alone'
  <1>1. ASSUME NEW r \in Request, Delegations(r) \/ Changes(r)
        PROVE  Alone'
    BY <1>1, Turn DEF Alone, Idle
  <1>2. CASE Definitions \/ Environment \/ UNCHANGED vars
    BY <1>2, OtherFrame DEF Alone, Idle, NoReq
  <1>3. QED
    BY <1>1, <1>2 DEF Next

(* While a request is in flight and it is not its turn, only the Missions  *)
(* themselves move.                                                        *)
LEMMA NotItsTurn ==
    ASSUME IInv, ~wiring.suspends, [Next]_vars, NEW r \in Request, ~Idle(r),
           ~(Delegations(r) \/ Changes(r))
    PROVE  UNCHANGED autos /\ \A m \in Mission : Running(m)' => Running(m)
  <1>1. ~Definitions
    BY OtherFrame DEF AllQuiet
  <1>2. \A q \in Request : ~(Delegations(q) \/ Changes(q))
    BY Turn
  <1>3. Environment \/ UNCHANGED vars
    BY <1>1, <1>2 DEF Next
  <1>4. missions \in [Mission -> MissionRow]
    BY DEF IInv, TypeOK
  <1>5. ASSUME NEW n \in Mission, MissionEnds(n) \/ MissionRevived(n)
        PROVE  \A m \in Mission : Running(m)' => Running(m)
    BY <1>4, <1>5 DEF MissionEnds, MissionRevived, Running, Live, MissionRow
  <1>6. UNCHANGED missions => \A m \in Mission : Running(m)' => Running(m)
    BY DEF Running, Live
  <1>7. QED
    BY <1>3, <1>5, <1>6 DEF Environment, MissionEnds, MissionRevived, RequestDies, Crash, vars

-----------------------------------------------------------------------------
(* The Missions a row lists. *)

LEMMA NothingTracked ==
    ASSUME IInv, NEW a \in Automation, autos[a].state \in {"not_deployed", "submitting"}
    PROVE  Expected(autos[a]) = {} /\ Tracked(autos[a]) = {}
  BY DEF IInv, Rows, RowOK, Expected, Tracked

LEMMA EndedIsOver ==
    ASSUME IInv, NEW a \in Automation, autos[a].state = "ended", NEW m \in Tracked(autos[a])
    PROVE  Over(m) /\ ~Running(m)
  <1>1. Over(m)
    BY DEF IInv, Rows, RowOK, Expected, Tracked
  <1>2. QED
    BY <1>1 DEF Over, Running, Live

LEMMA ReconciledTracked ==
    ASSUME NEW row \in Row, NEW m, NEW status
    PROVE  /\ Tracked(Reconciled(row, m, status)) \subseteq Tracked(row)
           /\ Tracked(row) \ {m} \subseteq Tracked(Reconciled(row, m, status))
           /\ status # "ended" =>
                 Tracked(Reconciled(row, m, status)) = Tracked(row)
  BY DEF Reconciled, Tracked, Expected, Row

(* What an edit or a deletion relies on when it ends. *)
LEMMA NothingRuns ==
    ASSUME Serial, NEW r \in Request, FinishEdit(r) \/ FinishDelete(r),
           NEW m \in Tracked(autos[req[r].auto])
    PROVE  ~Running(m)
  <1>1. req[r].op \in {"edit", "delete"} /\ req[r].pairs = {}
    BY DEF FinishEdit, FinishDelete, At
  <1>2. QED
    BY <1>1 DEF Serial, CoverOK

LEMMA TrackedStep ==
    ASSUME IInv, Serial, [Next]_vars, NEW a \in Automation,
           NEW m \in Tracked(autos[a]), Running(m)
    PROVE  m \in Tracked(autos'[a]) \/ ArmEvent(a)
  <1>0. autos \in [Automation -> Row] /\ autos[a] \in Row /\ RowOK(a)
    BY DEF IInv, TypeOK, Rows
  <1>1. autos[a].state \in {"deployed", "armed"} /\ autos[a].exists
    BY <1>0, NothingTracked, EndedIsOver DEF Row, RowState, RowOK
  <1>2. ~CreateAutomation(a)
    BY <1>1 DEF CreateAutomation
  <1>3. \A r \in Request : ~Deploy(r, a)
    BY <1>0, <1>1 DEF Deploy, InProgress, RowOK
  <1>4. ASSUME NEW r \in Request, autos'[a] = ClaimedEvent(autos[a], req[r].event)
        PROVE  m \in Tracked(autos'[a])
    BY <1>0, <1>4 DEF ClaimedEvent, Tracked, Expected, Row
  <1>5. ASSUME NEW r \in Request, req[r].auto = a,
               \/ SubmitRejected(r) \/ RecordDeploy(r) \/ RecordEvent(r)
               \/ RecordCancel(r) \/ FinishRefresh(r) \/ FinishEdit(r) \/ FinishDelete(r)
        PROVE  m \in Tracked(autos'[a])
    <2>0. ReqOK(r) /\ req[r].op # "deploy"
      BY <1>1, <1>5 DEF IInv, Requests, Serial, DeployOK
    <2>1. CASE SubmitRejected(r)
      <3>1. autos'[a] = FailedEvent(autos[a], req[r].event)
        BY <1>5, <2>0, <2>1, RowWritten
      <3>2. QED
        BY <1>0, <3>1 DEF FailedEvent, Tracked, Expected, Row
    <2>2. CASE RecordDeploy(r)
      BY <2>0, <2>2 DEF RecordDeploy
    <2>3. CASE RecordEvent(r)
      <3>1. CASE autos'[a] = autos[a]
        BY <3>1
      <3>2. CASE /\ Armable(a)
                 /\ autos'[a] = RecordedEvent(autos[a], req[r].event, req[r].mission)
        BY <1>0, <3>2 DEF Armable, RecordedEvent, Tracked, Expected, Row
      <3>3. QED
        BY <1>5, <2>3, <3>1, <3>2, RowWritten
    <2>4. CASE RecordCancel(r) \/ FinishRefresh(r)
      <3>1. CASE autos'[a] = autos[a]
        BY <3>1
      <3>2. CASE RecordCancel(r) /\ autos'[a] = Reconciled(autos[a], req[r].mission, "ended")
        <4>1. m # req[r].mission
          BY <2>0, <3>2 DEF RecordCancel, Cancelling, ReqOK, Over, Running, Live
        <4>2. QED
          BY <1>0, <3>2, <4>1, ReconciledTracked
      <3>3. CASE FinishRefresh(r) /\ autos'[a] = Reconciled(autos[a], req[r].mission, req[r].status)
        <4>1. req[r].status = "ended" => m # req[r].mission
          BY <2>0, <3>3 DEF FinishRefresh, At, ReqOK, Over, Running, Live
        <4>2. QED
          BY <1>0, <3>3, <4>1, ReconciledTracked
      <3>4. QED
        BY <1>5, <2>4, <3>1, <3>2, <3>3, RowWritten
    <2>5. CASE FinishEdit(r) \/ FinishDelete(r)
      BY <1>5, <2>5, NothingRuns
    <2>6. QED
      BY <1>5, <2>1, <2>2, <2>3, <2>4, <2>5
  <1>6. QED
    BY <1>2, <1>3, <1>4, <1>5, RowMoves DEF RowMove

-----------------------------------------------------------------------------
(* The serial invariant is kept. *)

LEMMA TriggerStep ==
    ASSUME IInv, Serial, [Next]_vars, NEW a \in Automation
    PROVE  TriggerOK(a)'
  <1>0. autos \in [Automation -> Row] /\ autos[a] \in Row /\ RowOK(a) /\ TriggerOK(a)
    BY DEF IInv, TypeOK, Rows, Serial
  <1>1. CASE autos'[a] = autos[a]
    BY <1>0, <1>1 DEF TriggerOK
  <1>2. CASE CreateAutomation(a) \/ ArmEvent(a)
    BY <1>0, <1>2 DEF CreateAutomation, ArmEvent, SetRow, Fresh, Armed, TriggerOK
  <1>3. ASSUME NEW r \in Request, Deploy(r, a)
        PROVE  TriggerOK(a)'
    <2>1. autos'[a] = Claimed(autos[a]) /\ autos[a].trigger = "manual"
      BY <1>0, <1>3 DEF Deploy, SetRow
    <2>2. QED
      BY <1>0, <2>1 DEF Claimed, Row, TriggerOK
  <1>4. ASSUME NEW r \in Request, autos'[a] = ClaimedEvent(autos[a], req[r].event)
        PROVE  TriggerOK(a)'
    BY <1>0, <1>4 DEF ClaimedEvent, Row, TriggerOK
  <1>5. ASSUME NEW r \in Request, req[r].auto = a,
               \/ SubmitRejected(r) \/ RecordDeploy(r) \/ RecordEvent(r)
               \/ RecordCancel(r) \/ FinishRefresh(r) \/ FinishEdit(r) \/ FinishDelete(r)
        PROVE  TriggerOK(a)'
    <2>1. CASE SubmitRejected(r)
      <3>1. autos'[a] \in {FailedSubmission(autos[a]), FailedEvent(autos[a], req[r].event)}
        BY <1>5, <2>1, RowWritten
      <3>2. QED
        BY <1>0, <3>1 DEF FailedSubmission, FailedEvent, Row, TriggerOK
    <2>2. CASE RecordDeploy(r)
      <3>1. autos[a].state = "submitting"
        BY <1>5, <2>2 DEF RecordDeploy, Serial, DeployOK
      <3>2. autos'[a] \in {autos[a], Delegated(autos[a], req[r].mission)}
        BY <1>5, <2>2, RowWritten
      <3>3. QED
        BY <1>0, <3>1, <3>2 DEF Delegated, Fresh, Row, TriggerOK
    <2>3. CASE RecordEvent(r)
      <3>1. \/ autos'[a] = autos[a]
            \/ autos'[a] = RecordedEvent(autos[a], req[r].event, req[r].mission)
        BY <1>5, <2>3, RowWritten
      <3>2. QED
        BY <1>0, <3>1 DEF RecordedEvent, Row, TriggerOK
    <2>4. CASE RecordCancel(r) \/ FinishRefresh(r)
      <3>1. \/ autos'[a] = autos[a]
            \/ /\ req[r].mission \in Expected(autos[a])
               /\ \E status : autos'[a] = Reconciled(autos[a], req[r].mission, status)
        BY <1>5, <2>4, RowWritten
      <3>2. autos[a].state = "not_deployed" => Expected(autos[a]) = {}
        BY NothingTracked
      <3>3. QED
        BY <1>0, <3>1, <3>2 DEF Reconciled, Row, TriggerOK
    <2>5. CASE FinishEdit(r) \/ FinishDelete(r)
      <3>1. \/ autos'[a] = autos[a] \/ autos'[a] = NoRow
            \/ \E trigger \in {"manual", "event"}, enabled \in BOOLEAN :
                  autos'[a] = Fresh(trigger, enabled)
        BY <1>5, <2>5, RowWritten
      <3>2. /\ NoRow.state = "not_deployed"
            /\ \A trigger, enabled : Fresh(trigger, enabled).state = "not_deployed"
        BY DEF Fresh, NoRow
      <3>3. QED
        BY <1>0, <3>1, <3>2, Zenon DEF TriggerOK
    <2>6. QED
      BY <1>5, <2>1, <2>2, <2>3, <2>4, <2>5
  <1>6. QED
    BY <1>1, <1>2, <1>3, <1>4, <1>5, RowMoves DEF RowMove

(* How a request comes to be deploying, or changing an automation. *)
LEMMA DeployingStep ==
    ASSUME IInv, [Next]_vars, NEW r \in Request, req'[r].op = "deploy"
    PROVE  \/ req'[r] = req[r] /\ ~(Delegations(r) \/ Changes(r))
           \/ \E a \in Automation : Deploy(r, a)
           \/ Submit(r) /\ req'[r].auto = req[r].auto /\ req[r].op = "deploy"
  <1>0. req[r] \in Req /\ req \in [Request -> Req] /\ NoReq.op = "none"
    BY ReqFields DEF IInv, TypeOK, NoReq
  <1>1. CASE ~(Delegations(r) \/ Changes(r))
    BY <1>0, <1>1, RequestFrame, OtherFrame DEF Next
  <1>2. CASE Delegations(r)
    <2>1. Submit(r) => req'[r].auto = req[r].auto /\ req[r].op = "deploy"
      BY <1>0 DEF Submit, SetReq, Req
    <2>2. ~\E e \in Event : Deliver(r, e)
      BY <1>0 DEF Deliver, SetReq, NoReq
    <2>3. ASSUME NEW a \in Automation, Claim(r, a)
          PROVE  FALSE
      <3>1. req[r].op = "deliver"
        BY <2>3 DEF Claim, At
      <3>2. /\ [req[r] EXCEPT !.todo = req[r].todo \ {a}, !.done = req[r].done \cup {a}].op = req[r].op
            /\ [req[r] EXCEPT !.todo = req[r].todo \ {a}, !.auto = a, !.pc = "submit"].op = req[r].op
        BY <1>0 DEF Req
      <3>3. req'[r].op \in {req[r].op, "none"}
        BY <1>0, <2>3, <3>2 DEF Claim, SetReq, EndReq
      <3>4. QED
        BY <3>1, <3>3
    <2>4. ~(SubmitRejected(r) \/ RecordDeploy(r) \/ Acknowledge(r))
      BY <1>0 DEF SubmitRejected, RecordDeploy, Acknowledge, SetReq, EndReq
    <2>5. ~RecordEvent(r)
      BY <1>0 DEF RecordEvent, SetReq, EndReq, Req
    <2>6. QED
      BY <1>2, <2>1, <2>2, <2>3, <2>4, <2>5 DEF Delegations
  <1>3. ~Changes(r)
    <2>1. (\E j \in Job : Stop(r, j)) \/ NextPass(r) \/ SetJobStatus(r)
            => req'[r].op \in {"stop", "none"}
      <3>1. ASSUME NEW j \in Job, Stop(r, j)
            PROVE  req'[r].op = "stop"
        BY <1>0, <3>1 DEF Stop, SetReq, NoReq
      <3>2. NextPass(r) => req'[r].op = "stop"
        BY <1>0 DEF NextPass, At, SetReq, Req
      <3>3. SetJobStatus(r) => req'[r].op = "none"
        BY <1>0 DEF SetJobStatus, SetReq, EndReq
      <3>4. QED
        BY <3>1, <3>2, <3>3
    <2>2. \A a \in Automation, op \in {"edit", "delete"} : Change(r, a, op) => req'[r].op = op
      BY <1>0 DEF Change, SetReq, NoReq
    <2>3. (\E pair \in Automation \X Mission : CancelMission(r, pair)) \/ RecordCancel(r)
            => req'[r].op \in {"stop", "edit", "delete", "none"}
      <3>1. ASSUME NEW pair \in Automation \X Mission, CancelMission(r, pair)
            PROVE  req'[r].op \in {"stop", "edit", "delete"}
        BY <1>0, <3>1 DEF CancelMission, Cancelling, SetReq, Req
      <3>2. RecordCancel(r) => req'[r].op \in {"stop", "edit", "delete", "none"}
        BY <1>0 DEF RecordCancel, Cancelling, SetReq, EndReq, Req
      <3>3. QED
        BY <3>1, <3>2
    <2>4. ~(GiveUp(r) \/ FinishEdit(r) \/ FinishDelete(r) \/ FinishRefresh(r))
      BY <1>0 DEF GiveUp, FinishEdit, FinishDelete, FinishRefresh, SetReq, EndReq
    <2>5. \A a \in Automation, m \in Mission : Refresh(r, a, m) => req'[r].op = "refresh"
      BY <1>0 DEF Refresh, SetReq, NoReq
    <2>6. QED
      BY <2>1, <2>2, <2>3, <2>4, <2>5 DEF Changes
  <1>4. QED
    BY <1>1, <1>2, <1>3

LEMMA ChangingStep ==
    ASSUME IInv, [Next]_vars, NEW r \in Request, req'[r].op \in {"edit", "delete"}
    PROVE  \/ req'[r] = req[r] /\ ~(Delegations(r) \/ Changes(r))
           \/ \E a \in Automation, op \in {"edit", "delete"} : Change(r, a, op)
           \/ \E pair \in Automation \X Mission :
                 CancelMission(r, pair) /\ req[r].op \in {"edit", "delete"}
           \/ /\ RecordCancel(r) /\ req[r].op \in {"edit", "delete"}
              /\ req'[r].auto = req[r].auto /\ req'[r].pairs = req[r].pairs
  <1>0. req[r] \in Req /\ req \in [Request -> Req] /\ NoReq.op = "none"
    BY ReqFields DEF IInv, TypeOK, NoReq
  <1>1. CASE ~(Delegations(r) \/ Changes(r))
    BY <1>0, <1>1, RequestFrame, OtherFrame DEF Next
  <1>2. ~Delegations(r)
    <2>b. ASSUME NEW a \in Automation, Deploy(r, a)
          PROVE  FALSE
      <3>1. req'[r] = [NoReq EXCEPT !.op = "deploy", !.pc = "submit", !.auto = a]
        BY <2>b, <1>0 DEF Deploy, SetReq
      <3>2. req'[r].op = "deploy"
        BY <3>1 DEF NoReq
      <3>3. QED
        BY <3>2
    <2>c. ASSUME NEW e \in Event, Deliver(r, e)
          PROVE  FALSE
      <3>1. req'[r] = [NoReq EXCEPT !.op = "deliver", !.event = e,
                                    !.todo = {a \in Automation : Listening(a)}]
        BY <2>c, <1>0 DEF Deliver, SetReq
      <3>2. req'[r].op = "deliver"
        BY <3>1 DEF NoReq
      <3>3. QED
        BY <3>2
    <2>1. ~(\E a \in Automation : Deploy(r, a)) /\ ~\E e \in Event : Deliver(r, e)
      BY <2>b, <2>c
    <2>2. ASSUME NEW a \in Automation, Claim(r, a)
          PROVE  FALSE
      <3>1. req[r].op = "deliver"
        BY <2>2 DEF Claim, At
      <3>2. /\ [req[r] EXCEPT !.todo = req[r].todo \ {a}, !.done = req[r].done \cup {a}].op = req[r].op
            /\ [req[r] EXCEPT !.todo = req[r].todo \ {a}, !.auto = a, !.pc = "submit"].op = req[r].op
        BY <1>0 DEF Req
      <3>3. req'[r].op \in {req[r].op, "none"}
        BY <1>0, <2>2, <3>2 DEF Claim, SetReq, EndReq
      <3>4. QED
        BY <3>1, <3>3
    <2>3. ~(SubmitRejected(r) \/ RecordDeploy(r) \/ Acknowledge(r))
      BY <1>0 DEF SubmitRejected, RecordDeploy, Acknowledge, SetReq, EndReq
    <2>4. ~Submit(r) /\ ~RecordEvent(r)
      BY <1>0, ZenonT(30) DEF Submit, Submitting, RecordEvent, SetReq, EndReq, Req
    <2>5. QED
      BY <2>1, <2>2, <2>3, <2>4 DEF Delegations
  <1>3. CASE Changes(r)
    <2>1. (\E j \in Job : Stop(r, j)) \/ NextPass(r) \/ SetJobStatus(r)
            => req'[r].op \in {"stop", "none"}
      <3>1. ASSUME NEW j \in Job, Stop(r, j)
            PROVE  req'[r].op = "stop"
        BY <1>0, <3>1 DEF Stop, SetReq, NoReq
      <3>2. NextPass(r) => req'[r].op = "stop"
        BY <1>0 DEF NextPass, At, SetReq, Req
      <3>3. SetJobStatus(r) => req'[r].op = "none"
        BY <1>0 DEF SetJobStatus, SetReq, EndReq
      <3>4. QED
        BY <3>1, <3>2, <3>3
    <2>2. ~(GiveUp(r) \/ FinishEdit(r) \/ FinishDelete(r) \/ FinishRefresh(r))
      BY <1>0 DEF GiveUp, FinishEdit, FinishDelete, FinishRefresh, SetReq, EndReq
    <2>3. \A a \in Automation, m \in Mission : Refresh(r, a, m) => req'[r].op = "refresh"
      BY <1>0 DEF Refresh, SetReq, NoReq
    <2>4. \A pair \in Automation \X Mission :
            CancelMission(r, pair) => req[r].op \in {"edit", "delete"}
      BY <1>0 DEF CancelMission, SetReq, Req
    <2>5. RecordCancel(r) => /\ req[r].op \in {"edit", "delete"}
                            /\ req'[r].auto = req[r].auto /\ req'[r].pairs = req[r].pairs
      BY <1>0 DEF RecordCancel, SetReq, EndReq, Req
    <2>6. QED
      BY <1>3, <2>1, <2>2, <2>3, <2>4, <2>5 DEF Changes
  <1>4. QED
    BY <1>1, <1>2, <1>3

LEMMA DeployOKStep ==
    ASSUME IInv, Serial, ~wiring.suspends, [Next]_vars, NEW r \in Request
    PROVE  DeployOK(r)'
  <1> SUFFICES ASSUME req'[r].op = "deploy"
               PROVE  autos'[req'[r].auto].state = "submitting"
    BY DEF DeployOK
  <1>0. autos \in [Automation -> Row] /\ req \in [Request -> Req]
    BY DEF IInv, TypeOK
  <1>1. CASE req'[r] = req[r] /\ ~(Delegations(r) \/ Changes(r))
    BY <1>1, NotItsTurn DEF Serial, DeployOK, Idle
  <1>2. ASSUME NEW a \in Automation, Deploy(r, a)
        PROVE  autos'[req'[r].auto].state = "submitting"
    <2>1. autos'[a] = Claimed(autos[a]) /\ req'[r].auto = a
      BY <1>0, <1>2 DEF Deploy, SetRow, SetReq, NoReq
    <2>2. Claimed(autos[a]).state = "submitting"
      BY <1>0 DEF Claimed, Row
    <2>3. QED
      BY <2>1, <2>2
  <1>3. CASE Submit(r) /\ req'[r].auto = req[r].auto /\ req[r].op = "deploy"
    BY <1>3 DEF Submit, Serial, DeployOK
  <1>4. QED
    BY <1>1, <1>2, <1>3, DeployingStep

LEMMA CoverStep ==
    ASSUME IInv, Serial, ~wiring.suspends, [Next]_vars, NEW r \in Request
    PROVE  CoverOK(r)'
  <1> SUFFICES ASSUME req'[r].op \in {"edit", "delete"},
                      NEW m \in Tracked(autos'[req'[r].auto]), Running(m)'
               PROVE  <<req'[r].auto, m>> \in req'[r].pairs
    BY DEF CoverOK
  <1>0. /\ autos \in [Automation -> Row] /\ req \in [Request -> Req] /\ req[r] \in Req
        /\ missions \in [Mission -> MissionRow] /\ ReqOK(r) /\ CoverOK(r)
    BY ReqFields DEF IInv, TypeOK, Requests, Serial
  <1>1. CASE req'[r] = req[r] /\ ~(Delegations(r) \/ Changes(r))
    <2>1. UNCHANGED autos /\ \A n \in Mission : Running(n)' => Running(n)
      BY <1>1, NotItsTurn DEF Idle
    <2>2. req[r].auto \in Automation
      BY <1>0, <1>1 DEF ReqOK
    <2>3. m \in Mission
      BY <1>0, <1>1, <2>1, <2>2, TrackedTypes
    <2>4. QED
      BY <1>0, <1>1, <2>1, <2>3 DEF CoverOK
  <1>2. ASSUME NEW a \in Automation, NEW op \in {"edit", "delete"}, Change(r, a, op)
        PROVE  <<req'[r].auto, m>> \in req'[r].pairs
    <2>1. req'[r].auto = a /\ req'[r].pairs = {a} \X ToStop(autos[a])
      BY <1>0, <1>2 DEF Change, SetReq, NoReq
    <2>2. m \in Tracked(autos[a]) /\ Running(m)
      BY <1>2, <2>1 DEF Change, Running, Live
    <2>3. autos[a].state \notin {"ended", "not_deployed"}
      BY <2>2, NothingTracked, EndedIsOver
    <2>4. QED
      BY <2>1, <2>2, <2>3 DEF ToStop
  <1>3. ASSUME NEW pair \in Automation \X Mission, CancelMission(r, pair),
               req[r].op \in {"edit", "delete"}
        PROVE  <<req'[r].auto, m>> \in req'[r].pairs
    <2>1. /\ req'[r].auto = pair[1] /\ req'[r].pairs = req[r].pairs \ {pair}
          /\ pair[1] = req[r].auto /\ UNCHANGED autos
          /\ missions' = [missions EXCEPT ![pair[2]].status = "ended"]
      BY <1>0, <1>3 DEF CancelMission, SetReq, ReqOK, Req
    <2>2. m # pair[2]
      BY <1>0, <2>1 DEF Running, Live, MissionRow
    <2>3. m \in Mission
      BY <1>0, <2>1, TrackedTypes
    <2>4. Running(m)
      BY <1>0, <2>1, <2>2, <2>3 DEF Running, Live
    <2>5. <<req[r].auto, m>> \in req[r].pairs
      BY <1>0, <1>3, <2>1, <2>4 DEF CoverOK
    <2>6. QED
      BY <2>1, <2>2, <2>5
  <1>4. CASE /\ RecordCancel(r) /\ req[r].op \in {"edit", "delete"}
             /\ req'[r].auto = req[r].auto /\ req'[r].pairs = req[r].pairs
    <2>1. req[r].auto \in Automation
      BY <1>0, <1>4 DEF ReqOK
    <2>2. PICK a \in Automation : a = req[r].auto
      BY <2>1
    <2>3. autos'[a] = autos[a] \/ autos'[a] = Reconciled(autos[a], req[r].mission, "ended")
      BY <1>4, <2>2, RowWritten
    <2>4. Tracked(autos'[a]) \subseteq Tracked(autos[a])
      BY <1>0, <2>3, ReconciledTracked
    <2>5. Running(m)
      BY <1>4 DEF RecordCancel, Running, Live
    <2>6. QED
      BY <1>0, <1>4, <2>2, <2>4, <2>5 DEF CoverOK
  <1>5. QED
    BY <1>1, <1>2, <1>3, <1>4, ChangingStep

LEMMA SerialStep ==
    ASSUME IInv, SerialInv, [Next]_vars
    PROVE  SerialInv'
  BY Settings, AloneStep, TriggerStep, DeployOKStep, CoverStep DEF SerialInv, Serial

LEMMA SerialInvariant == Spec => [](IInv /\ SerialInv)
  <1>1. Init => SerialInv
    BY DEF Init, SerialInv, Serial, Alone, Idle, TriggerOK, DeployOK, CoverOK, NoReq, Fresh
  <1>2. QED
    BY <1>1, InitInv, StepKeeps, SerialStep, PTL DEF Spec

(* A Mission that runs stays listed by its automation, within reach of     *)
(* pause, archive, edit and delete: no mutation drops it, and the edits    *)
(* and deletions that drop the whole row have cancelled it first (only     *)
(* arm_event_automation lets go of one).                                   *)
THEOREM TrackedWhileRunning == Spec => TrackedUntilEnded
  <1> DEFINE A == \A a \in Automation, m \in Mission :
                    /\ ~wiring.suspends
                    /\ m \in Tracked(autos[a]) /\ Live(m) /\ ~missions[m].revived
                    => m \in Tracked(autos'[a]) \/ ArmEvent(a)
  <1>1. ASSUME IInv, SerialInv, [Next]_vars PROVE A
    BY <1>1, TrackedStep DEF SerialInv, Running
  <1>2. QED
    BY <1>1, SerialInvariant, PTL DEF Spec, TrackedUntilEnded

-----------------------------------------------------------------------------
(* One Mission per manual automation. *)

(* Where a Mission started by a deployment is known: in the row, or in the *)
(* request that is about to record it.                                     *)
Known(a, m) ==
    \/ autos[a].state = "deployed" /\ autos[a].mission = m
    \/ \E r \in Request : /\ req[r].op = "deploy" /\ req[r].pc = "record"
                          /\ req[r].auto = a /\ req[r].mission = m

KnownInv ==
    faults = 0 /\ ~wiring.suspends =>
        \A a \in Automation, m \in Mission :
            missions[m].owner = a /\ missions[m].event = None /\ Running(m) => Known(a, m)

(* Only a submission makes a Mission run that did not run before. *)
LEMMA RunningStep ==
    ASSUME IInv, [Next]_vars, NEW m \in Mission, Running(m)'
    PROVE  \/ /\ Running(m) /\ missions'[m].owner = missions[m].owner
              /\ missions'[m].event = missions[m].event
           \/ \E r \in Request : /\ Submit(r) /\ req'[r] = [req[r] EXCEPT !.pc = "record", !.mission = m]
                                 /\ missions'[m] = Started(req[r].auto, req[r].event)
  <1>0. missions \in [Mission -> MissionRow] /\ req \in [Request -> Req]
    BY DEF IInv, TypeOK
  <1>1. CASE UNCHANGED missions
    BY <1>1 DEF Running, Live
  <1>2. ASSUME NEW r \in Request, NEW pair \in Automation \X Mission, CancelMission(r, pair)
        PROVE  /\ Running(m) /\ missions'[m].owner = missions[m].owner
               /\ missions'[m].event = missions[m].event
    BY <1>0, <1>2 DEF CancelMission, Running, Live, MissionRow
  <1>3. ASSUME NEW n \in Mission, MissionEnds(n) \/ MissionRevived(n)
        PROVE  /\ Running(m) /\ missions'[m].owner = missions[m].owner
               /\ missions'[m].event = missions[m].event
    BY <1>0, <1>3 DEF MissionEnds, MissionRevived, Running, Live, MissionRow
  <1>4. ASSUME NEW r \in Request, Submit(r), missions'[m] # missions[m]
        PROVE  /\ req'[r] = [req[r] EXCEPT !.pc = "record", !.mission = m]
               /\ missions'[m] = Started(req[r].auto, req[r].event)
    BY <1>0, <1>4 DEF Submit, SetReq, Submitted, Existing
  <1>5. \/ UNCHANGED missions
        \/ \E r \in Request, pair \in Automation \X Mission : CancelMission(r, pair)
        \/ \E n \in Mission : MissionEnds(n) \/ MissionRevived(n)
        \/ \E r \in Request : Submit(r)
    BY DEF Next, vars, Definitions, Delegations, Changes, Environment, CreateAutomation, ArmEvent,
         ResumeJob, UpdateApp, ArchiveApp, Deploy, Claim, Deliver, SubmitRejected, RecordDeploy,
         RecordEvent, Acknowledge, Stop, NextPass, SetJobStatus, Change, RecordCancel, GiveUp,
         FinishEdit, FinishDelete, Refresh, FinishRefresh, RequestDies, Crash
  <1>6. missions'[m] = missions[m] =>
          /\ Running(m) /\ missions'[m].owner = missions[m].owner
          /\ missions'[m].event = missions[m].event
    BY DEF Running, Live
  <1>7. QED
    BY <1>1, <1>2, <1>3, <1>4, <1>5, <1>6

(* A request that is about to record keeps what it knows until it does.    *)
LEMMA RecorderStep ==
    ASSUME IInv, [Next]_vars, NEW r \in Request, req[r].op = "deploy", req[r].pc = "record"
    PROVE  req'[r] = req[r] \/ RecordDeploy(r) \/ faults' > 0
  <1>1. CASE Delegations(r) \/ Changes(r)
    BY <1>1 DEF Delegations, Changes, Deploy, Claim, Deliver, Submit, SubmitRejected, RecordEvent,
         Acknowledge, Stop, NextPass, SetJobStatus, Change, CancelMission, RecordCancel, GiveUp,
         FinishEdit, FinishDelete, Refresh, FinishRefresh, Begins, Idle, At, Submitting, Cancelling
  <1>2. CASE ~(Delegations(r) \/ Changes(r))
    BY <1>2, RequestFrame, OtherFrame DEF Next
  <1>3. QED
    BY <1>1, <1>2

(* The row of a running deployment keeps knowing it. *)
LEMMA DeployedRowStep ==
    ASSUME IInv, Serial, [Next]_vars, NEW a \in Automation, NEW m \in Mission, Running(m),
           autos[a].state = "deployed", autos[a].mission = m
    PROVE  autos'[a].state = "deployed" /\ autos'[a].mission = m
  <1>0. /\ autos \in [Automation -> Row] /\ autos[a] \in Row /\ RowOK(a) /\ TriggerOK(a)
        /\ m # None
    BY WorkAssumption DEF IInv, TypeOK, Rows, Serial
  <1>1. Expected(autos[a]) = {m} /\ Tracked(autos[a]) = {m}
    BY <1>0 DEF RowOK, Expected, Tracked
  <1>2. ~CreateAutomation(a) /\ ~ArmEvent(a)
    BY <1>0 DEF CreateAutomation, ArmEvent, RowOK, TriggerOK
  <1>3. \A r \in Request : ~Deploy(r, a)
    BY DEF Deploy, InProgress
  <1>4. ASSUME NEW r \in Request, autos'[a] = ClaimedEvent(autos[a], req[r].event)
        PROVE  autos'[a].state = "deployed" /\ autos'[a].mission = m
    BY <1>0, <1>4 DEF ClaimedEvent, Row
  <1>5. ASSUME NEW r \in Request, req[r].auto = a,
               \/ SubmitRejected(r) \/ RecordDeploy(r) \/ RecordEvent(r)
               \/ RecordCancel(r) \/ FinishRefresh(r) \/ FinishEdit(r) \/ FinishDelete(r)
        PROVE  autos'[a].state = "deployed" /\ autos'[a].mission = m
    <2>0. ReqOK(r) /\ req[r].op # "deploy"
      BY <1>5 DEF IInv, Requests, Serial, DeployOK
    <2>1. CASE SubmitRejected(r)
      <3>1. autos'[a] = FailedEvent(autos[a], req[r].event)
        BY <1>5, <2>0, <2>1, RowWritten
      <3>2. QED
        BY <1>0, <3>1 DEF FailedEvent, Row
    <2>2. CASE RecordDeploy(r)
      BY <2>0, <2>2 DEF RecordDeploy
    <2>3. CASE RecordEvent(r)
      <3>1. autos'[a] = autos[a]
        BY <1>5, <2>3, RowWritten DEF Armable
      <3>2. QED
        BY <3>1
    <2>4. CASE RecordCancel(r) \/ FinishRefresh(r)
      <3>1. CASE autos'[a] = autos[a]
        BY <3>1
      <3>2. CASE autos'[a] # autos[a]
        <4>1. PICK status : /\ autos'[a] = Reconciled(autos[a], req[r].mission, status)
                            /\ req[r].mission \in Expected(autos[a])
                            /\ status = "ended" => Over(req[r].mission)
          BY <1>5, <2>0, <2>4, <3>2, RowWritten
             DEF RecordCancel, FinishRefresh, Cancelling, At, ReqOK
        <4>2. status # "ended"
          BY <1>1, <4>1 DEF Over, Running, Live
        <4>3. QED
          BY <1>0, <4>1, <4>2 DEF Reconciled, Row
      <3>3. QED
        BY <3>1, <3>2
    <2>5. CASE FinishEdit(r) \/ FinishDelete(r)
      BY <1>1, <1>5, <2>5, NothingRuns
    <2>6. QED
      BY <1>5, <2>1, <2>2, <2>3, <2>4, <2>5
  <1>6. QED
    BY <1>2, <1>3, <1>4, <1>5, RowMoves DEF RowMove

LEMMA KnownStep ==
    ASSUME IInv, SerialInv, KnownInv, [Next]_vars
    PROVE  KnownInv'
  <1> SUFFICES ASSUME faults' = 0, ~wiring.suspends, NEW a \in Automation, NEW m \in Mission,
                      missions'[m].owner = a, missions'[m].event = None, Running(m)'
               PROVE  Known(a, m)'
    BY Settings DEF KnownInv
  <1>0. faults = 0 /\ Serial /\ \A r \in Request : ReqOK(r) /\ req[r] \in Req
    BY Settings, ReqFields DEF SerialInv, IInv, Requests
  <1>1. CASE /\ Running(m) /\ missions'[m].owner = missions[m].owner
             /\ missions'[m].event = missions[m].event
    <2>1. Known(a, m)
      BY <1>0, <1>1 DEF KnownInv
    <2>2. CASE autos[a].state = "deployed" /\ autos[a].mission = m
      BY <1>0, <1>1, <2>2, DeployedRowStep DEF Known
    <2>3. ASSUME NEW r \in Request, req[r].op = "deploy", req[r].pc = "record",
                 req[r].auto = a, req[r].mission = m
          PROVE  Known(a, m)'
      <3>1. CASE req'[r] = req[r]
        BY <2>3, <3>1 DEF Known
      <3>2. CASE RecordDeploy(r)
        <4>1. autos[a].state = "submitting" /\ autos[a].exists
          BY <1>0, <2>3 DEF Serial, DeployOK, IInv, Rows, RowOK
        <4>2. autos'[a] = Delegated(autos[a], m)
          BY <2>3, <3>2, <4>1, RowWritten
        <4>3. QED
          BY <4>2 DEF Delegated, Fresh, Known
      <3>3. QED
        BY <2>3, <3>1, <3>2, RecorderStep, Settings
    <2>4. QED
      BY <2>1, <2>2, <2>3 DEF Known
  <1>2. ASSUME NEW r \in Request, Submit(r),
               req'[r] = [req[r] EXCEPT !.pc = "record", !.mission = m],
               missions'[m] = Started(req[r].auto, req[r].event)
        PROVE  Known(a, m)'
    <2>1. req[r].auto = a /\ req[r].event = None
      BY <1>2 DEF Started, NoMission
    <2>2. req[r].op = "deploy"
      BY <1>0, <1>2, <2>1, WorkAssumption DEF Submit, Submitting, ReqOK
    <2>3. /\ req'[r].op = "deploy" /\ req'[r].pc = "record"
          /\ req'[r].auto = a /\ req'[r].mission = m
      BY <1>0, <1>2, <2>1, <2>2 DEF Req
    <2>4. QED
      BY <2>3 DEF Known
  <1>3. QED
    BY <1>1, <1>2, RunningStep

(* No interleaving of deployments, edits, stops and refreshes that never   *)
(* suspend leaves a manual automation with two running Missions: a second  *)
(* deployment starts only when the first is over, and no write forgets a   *)
(* Mission that runs (claim_automation_submission's in-progress check).    *)
THEOREM OneMissionPerDeployment == Spec => []OneDeployment
  <1>1. Init => KnownInv
    BY DEF Init, KnownInv, Running, Live, NoMission
  <1>2. ASSUME IInv, SerialInv, KnownInv
        PROVE  OneDeployment
    <2> SUFFICES ASSUME faults = 0, ~wiring.suspends, NEW a \in Automation,
                        NEW m \in Mission, NEW n \in Mission,
                        Known(a, m), Known(a, n)
                 PROVE  m = n
      BY <1>2 DEF OneDeployment, KnownInv, Running
    <2>1. Alone /\ \A r \in Request : DeployOK(r)
      BY <1>2 DEF SerialInv, Serial
    <2>2. ASSUME NEW r \in Request, req[r].op = "deploy", req[r].auto = a
          PROVE  autos[a].state # "deployed"
      BY <2>1, <2>2 DEF DeployOK
    <2>3. QED
      BY <2>1, <2>2 DEF Known, Alone, Idle
  <1>3. QED
    BY <1>1, <1>2, SerialInvariant, KnownStep, PTL DEF Spec

=============================================================================

---------------------------- MODULE WorkProofs ----------------------------
(* Theorems about WorkDelegation, for any jobs, automations, events,       *)
(* Missions, requests and wirings.                                         *)
EXTENDS WorkDelegation, TLAPS

-----------------------------------------------------------------------------
(* Types. *)

LEMMA FreshTypes ==
    ASSUME NEW trigger \in {"manual", "event"}, NEW enabled \in BOOLEAN
    PROVE  Fresh(trigger, enabled) \in Row
  BY DEF Fresh, Row, NoReceipts, NoReceipt, Receipt, OrNone, RowState

LEMMA NoRowType == NoRow \in Row
  <1>1. Fresh("manual", FALSE) \in Row
    BY FreshTypes
  <1>2. QED
    BY <1>1 DEF NoRow, Row

LEMMA RowTypes ==
    ASSUME NEW row \in Row, NEW m \in Mission, NEW e \in Event, NEW status \in MissionStatus
    PROVE  /\ Claimed(row) \in Row /\ FailedSubmission(row) \in Row
           /\ Armed(row) \in Row /\ Delegated(row, m) \in Row
           /\ ClaimedEvent(row, e) \in Row /\ FailedEvent(row, e) \in Row
           /\ RecordedEvent(row, e, m) \in Row /\ Reconciled(row, m, status) \in Row
  <1>1. Fresh(row.trigger, row.enabled) \in Row
    BY FreshTypes DEF Row
  <1>2. Armed(row) \in Row /\ Delegated(row, m) \in Row
    BY <1>1 DEF Armed, Delegated, Row, RowState, OrNone
  <1>3. Claimed(row) \in Row /\ FailedSubmission(row) \in Row
    BY DEF Claimed, FailedSubmission, Row, RowState, OrNone
  <1>4. ClaimedEvent(row, e) \in Row /\ FailedEvent(row, e) \in Row
    BY DEF ClaimedEvent, FailedEvent, Row, Receipt
  <1>5. RecordedEvent(row, e, m) \in Row
    BY DEF RecordedEvent, Row, Receipt, OrNone
  <1>6. Reconciled(row, m, status) \in Row
    BY DEF Reconciled, Row, RowState
  <1>7. QED
    BY <1>2, <1>3, <1>4, <1>5, <1>6

LEMMA NoReqType == NoReq \in Req
  BY DEF NoReq, Req, OrNone, MissionStatus

LEMMA PassTypes ==
    ASSUME NEW old \in Req, NEW pairs \in SUBSET (Automation \X Mission)
    PROVE  [old EXCEPT !.pass = old.pass + 1, !.pairs = pairs] \in Req
  <1>1. old.pass + 1 \in Nat
    BY DEF Req
  <1>2. QED
    BY <1>1, Zenon DEF Req

LEMMA TrackedTypes ==
    ASSUME NEW row \in Row
    PROVE  /\ Expected(row) \subseteq Mission
           /\ Tracked(row) \subseteq Expected(row)
           /\ ToStop(row) \subseteq Tracked(row)
  BY DEF Expected, Tracked, ToStop, Row, OrNone

LEMMA RowSet ==
    ASSUME TypeOK, NEW a \in Automation, NEW row \in Row, SetRow(a, row)
    PROVE  autos' \in [Automation -> Row]
  BY DEF TypeOK, SetRow

LEMMA ReqSet ==
    ASSUME TypeOK, NEW r \in Request, NEW record \in Req, SetReq(r, record)
    PROVE  req' \in [Request -> Req]
  BY DEF TypeOK, SetReq

LEMMA ReqEnds ==
    ASSUME TypeOK, NEW r \in Request, EndReq(r)
    PROVE  req' \in [Request -> Req]
  BY NoReqType, ReqSet DEF EndReq

LEMMA CommandTypes ==
    ASSUME TypeOK, Command
    PROVE  commands' \in 0 .. MaxCommands
  BY WorkAssumption DEF TypeOK, Command

(* The part of ReqOK that types need: which fields of a request are set.   *)
LEMMA ReqFields ==
    ASSUME TypeOK, NEW r \in Request
    PROVE  /\ req[r] \in Req
           /\ req[r].auto \in OrNone(Automation)
           /\ req[r].mission \in OrNone(Mission)
           /\ req[r].event \in OrNone(Event)
           /\ req[r].job \in OrNone(Job)
           /\ req[r].status \in MissionStatus
           /\ req[r].todo \in SUBSET Automation
           /\ req[r].done \in SUBSET Automation
           /\ req[r].pairs \in SUBSET (Automation \X Mission)
           /\ req[r].pass \in Nat
  BY DEF TypeOK, Req

-----------------------------------------------------------------------------
(* What holds of every row, Mission and request between steps, whatever    *)
(* the wiring.                                                             *)

(* The Mission is over, or was and is live again.                          *)
Over(m) == missions[m].status = "ended" \/ missions[m].revived

RowOK(a) ==
    /\ autos[a].state # "armed" => autos[a].active = {} /\ autos[a].receipts = NoReceipts
    /\ autos[a].state = "armed" => autos[a].trigger = "event"
    /\ autos[a].state \in {"not_deployed", "submitting"} => autos[a].mission = None
    /\ autos[a].state = "ended" /\ autos[a].mission # None => Over(autos[a].mission)
    /\ ~autos[a].exists => autos[a].state = "not_deployed"

ReceiptOK(a, e) ==
    autos[a].receipts[e].state = "delegated" =>
        /\ autos[a].receipts[e].mission # None
        /\ missions[autos[a].receipts[e].mission].owner = a
        /\ missions[autos[a].receipts[e].mission].event = e

MissionOK(m) ==
    missions[m].status = "absent" => missions[m].event = None /\ ~missions[m].revived

Delivered(a, e) == \E m \in Mission : missions[m].owner = a /\ missions[m].event = e

(* A request that has claimed, submitted or cancelled knows for what.      *)
ReqOK(r) ==
    /\ req[r].op = "deploy" =>
         req[r].pc \in {"submit", "record"} /\ req[r].auto \in Automation /\ req[r].event = None
    /\ req[r].op = "deliver" =>
         /\ req[r].event \in Event
         /\ req[r].pc \in {"submit", "record"} => req[r].auto \in Automation
         /\ \A a \in req[r].done : Delivered(a, req[r].event)
    /\ req[r].op \in {"deploy", "deliver"} /\ req[r].pc = "record" =>
         /\ req[r].mission \in Mission
         /\ missions[req[r].mission].owner = req[r].auto
         /\ missions[req[r].mission].event = req[r].event
         /\ missions[req[r].mission].status # "absent"
    /\ req[r].op \in {"stop", "edit", "delete"} /\ req[r].pc = "record" =>
         /\ req[r].auto \in Automation
         /\ req[r].mission \in Mission
         /\ Over(req[r].mission)
    /\ req[r].op = "refresh" =>
         /\ req[r].auto \in Automation
         /\ req[r].mission \in Mission
         /\ req[r].status = "ended" => Over(req[r].mission)
    /\ req[r].op = "stop" => req[r].job \in Job
    /\ req[r].op \in {"edit", "delete"} =>
         /\ req[r].auto \in Automation
         /\ \A pair \in req[r].pairs : pair[1] = req[r].auto

Rows == \A a \in Automation : RowOK(a)
Receipts == \A a \in Automation, e \in Event : ReceiptOK(a, e)
Missions == \A m \in Mission : MissionOK(m)
Requests == \A r \in Request : ReqOK(r)
Acked == \A d \in acked : Delivered(d[1], d[2])

IInv == TypeOK /\ Rows /\ Receipts /\ Missions /\ Requests /\ Acked

-----------------------------------------------------------------------------
(* What a step may do to the Missions at all: none changes hands, and none *)
(* that is over stops being so.                                            *)
Grows ==
    \A m \in Mission :
        /\ missions[m].status # "absent" =>
             /\ missions'[m].owner = missions[m].owner
             /\ missions'[m].event = missions[m].event
             /\ missions'[m].status # "absent"
        /\ missions[m].status = "ended" \/ missions[m].revived =>
             missions'[m].status = "ended" \/ missions'[m].revived

LEMMA SameMissions ==
    ASSUME IInv, UNCHANGED missions
    PROVE  Grows /\ Missions' /\ missions' \in [Mission -> MissionRow]
  BY DEF IInv, TypeOK, Grows, Missions, MissionOK

LEMMA DeliveredKept ==
    ASSUME IInv, Grows, NEW a \in Automation, NEW e \in Event, Delivered(a, e)
    PROVE  Delivered(a, e)'
  <1>1. PICK m \in Mission : missions[m].owner = a /\ missions[m].event = e
    BY DEF Delivered
  <1>2. missions[m].status # "absent"
    BY <1>1, WorkAssumption DEF IInv, Missions, MissionOK
  <1>3. QED
    BY <1>1, <1>2 DEF Grows, Delivered

LEMMA SameAcked ==
    ASSUME IInv, Grows, UNCHANGED acked
    PROVE  Acked' /\ acked' \subseteq Automation \X Event
  <1>1. ASSUME NEW d \in acked' PROVE Delivered(d[1], d[2])'
    <2>1. d \in acked /\ d[1] \in Automation /\ d[2] \in Event
      BY DEF IInv, TypeOK
    <2>2. Delivered(d[1], d[2])
      BY <2>1 DEF IInv, Acked
    <2>3. QED
      BY <2>1, <2>2, DeliveredKept
  <1>2. QED
    BY <1>1 DEF IInv, TypeOK, Acked

LEMMA ReceiptKept ==
    ASSUME IInv, Grows, NEW a \in Automation, NEW e \in Event,
           autos'[a].receipts[e] = autos[a].receipts[e]
    PROVE  ReceiptOK(a, e)'
  <1>1. ReceiptOK(a, e)
    BY DEF IInv, Receipts
  <1>2. autos[a].receipts[e].mission # None => autos[a].receipts[e].mission \in Mission
    BY DEF IInv, TypeOK, Row, Receipt, OrNone
  <1>3. ASSUME NEW m \in Mission, missions[m].event = e
        PROVE  missions[m].status # "absent"
    BY <1>3, WorkAssumption DEF IInv, Missions, MissionOK
  <1>4. QED
    BY <1>1, <1>2, <1>3 DEF ReceiptOK, Grows

LEMMA EndedKept ==
    ASSUME IInv, Grows, NEW a \in Automation,
           NEW m \in Mission, autos[a].state = "ended", autos[a].mission = m
    PROVE  Over(m)'
  <1>1. RowOK(a) /\ m # None
    BY WorkAssumption DEF IInv, Rows
  <1>2. QED
    BY <1>1 DEF RowOK, Over, Grows

LEMMA RowKept ==
    ASSUME IInv, Grows, NEW a \in Automation, autos'[a] = autos[a]
    PROVE  RowOK(a)' /\ \A e \in Event : ReceiptOK(a, e)'
  <1>1. RowOK(a)'
    <2>1. RowOK(a)
      BY DEF IInv, Rows
    <2>2. autos[a].mission # None => autos[a].mission \in Mission
      BY DEF IInv, TypeOK, Row, OrNone
    <2>3. QED
      BY <2>1, <2>2, EndedKept DEF RowOK, Over
  <1>2. QED
    BY <1>1, ReceiptKept

LEMMA SameRows ==
    ASSUME IInv, Grows, UNCHANGED autos
    PROVE  Rows' /\ Receipts' /\ autos' \in [Automation -> Row]
  BY RowKept DEF IInv, TypeOK, Rows, Receipts

LEMMA OneRow ==
    ASSUME IInv, Grows, NEW a \in Automation, NEW row \in Row, SetRow(a, row),
           RowOK(a)', \A e \in Event : ReceiptOK(a, e)'
    PROVE  Rows' /\ Receipts' /\ autos' \in [Automation -> Row]
  <1>1. autos' \in [Automation -> Row]
    BY RowSet DEF IInv
  <1>2. ASSUME NEW b \in Automation, b # a PROVE autos'[b] = autos[b]
    BY <1>2 DEF SetRow, IInv, TypeOK
  <1>3. QED
    BY <1>1, <1>2, RowKept DEF Rows, Receipts

LEMMA ReqKept ==
    ASSUME IInv, Grows, NEW r \in Request, req'[r] = req[r]
    PROVE  ReqOK(r)'
  <1>1. ReqOK(r) /\ req[r].done \subseteq Automation
    BY ReqFields DEF IInv, Requests
  <1>2. \A m \in Mission : Over(m) => Over(m)'
    BY DEF Grows, Over
  <1>3. req[r].op = "deliver" => \A a \in req[r].done : Delivered(a, req[r].event)'
    BY <1>1, DeliveredKept DEF ReqOK
  <1>4. QED
    BY <1>1, <1>2, <1>3 DEF ReqOK, Grows, Over, Delivered

LEMMA SameReqs ==
    ASSUME IInv, Grows, UNCHANGED req
    PROVE  Requests' /\ req' \in [Request -> Req]
  BY ReqKept DEF IInv, TypeOK, Requests

LEMMA OneReq ==
    ASSUME IInv, Grows, NEW r \in Request, NEW record \in Req, SetReq(r, record), ReqOK(r)'
    PROVE  Requests' /\ req' \in [Request -> Req]
  <1>1. ASSUME NEW q \in Request, q # r PROVE req'[q] = req[q]
    BY <1>1 DEF SetReq, IInv, TypeOK
  <1>2. QED
    BY <1>1, ReqKept, ReqSet DEF Requests, IInv

LEMMA FreeReq ==
    ASSUME NEW r \in Request, req'[r] = NoReq
    PROVE  ReqOK(r)'
  BY DEF ReqOK, NoReq

LEMMA EndedReq ==
    ASSUME IInv, Grows, NEW r \in Request, EndReq(r)
    PROVE  Requests' /\ req' \in [Request -> Req]
  <1>1. req'[r] = NoReq
    BY DEF EndReq, SetReq, IInv, TypeOK
  <1>2. QED
    BY <1>1, FreeReq, NoReqType, OneReq DEF EndReq

-----------------------------------------------------------------------------
(* Every action keeps the invariant. *)

SmallTypes ==
    /\ wiring \in Wirings
    /\ app \in {"active", "paused", "archived"}
    /\ job \in [Job -> {"active", "paused", "archived"}]
    /\ commands \in 0 .. MaxCommands
    /\ faults \in 0 .. MaxFaults

LEMMA Assembled ==
    ASSUME IInv, SmallTypes', Missions' /\ missions' \in [Mission -> MissionRow],
           Rows' /\ Receipts' /\ autos' \in [Automation -> Row],
           Requests' /\ req' \in [Request -> Req],
           Acked' /\ acked' \subseteq Automation \X Event
    PROVE  IInv'
  BY DEF IInv, TypeOK, SmallTypes

LEMMA CreateKeeps ==
    ASSUME IInv, NEW a \in Automation, CreateAutomation(a)
    PROVE  IInv'
  <1>1. Grows /\ Missions' /\ missions' \in [Mission -> MissionRow]
    BY SameMissions DEF CreateAutomation
  <1>2. Requests' /\ req' \in [Request -> Req]
    BY <1>1, SameReqs DEF CreateAutomation
  <1>3. Acked' /\ acked' \subseteq Automation \X Event
    BY <1>1, SameAcked DEF CreateAutomation
  <1>4. PICK trigger \in {"manual", "event"}, enabled \in BOOLEAN : SetRow(a, Fresh(trigger, enabled))
    BY DEF CreateAutomation
  <1>5. Rows' /\ Receipts' /\ autos' \in [Automation -> Row]
    <2>1. Fresh(trigger, enabled) \in Row
      BY FreshTypes
    <2>2. autos'[a] = Fresh(trigger, enabled)
      BY <1>4 DEF SetRow, IInv, TypeOK
    <2>3. RowOK(a)' /\ \A e \in Event : ReceiptOK(a, e)'
      BY <2>2 DEF RowOK, ReceiptOK, Fresh, NoReceipts, NoReceipt
    <2>4. QED
      BY <1>1, <1>4, <2>1, <2>3, OneRow
  <1>6. SmallTypes'
    BY CommandTypes DEF CreateAutomation, IInv, TypeOK, SmallTypes
  <1>7. QED
    BY <1>1, <1>2, <1>3, <1>5, <1>6, Assembled

LEMMA ArmKeeps ==
    ASSUME IInv, NEW a \in Automation, ArmEvent(a)
    PROVE  IInv'
  <1>1. Grows /\ Missions' /\ missions' \in [Mission -> MissionRow]
    BY SameMissions DEF ArmEvent
  <1>2. Requests' /\ req' \in [Request -> Req]
    BY <1>1, SameReqs DEF ArmEvent
  <1>3. Acked' /\ acked' \subseteq Automation \X Event
    BY <1>1, SameAcked DEF ArmEvent
  <1>4. Rows' /\ Receipts' /\ autos' \in [Automation -> Row]
    <2>1. autos[a] \in Row /\ Fresh(autos[a].trigger, autos[a].enabled) \in Row
      BY FreshTypes DEF IInv, TypeOK, Row
    <2>2. Armed(autos[a]) \in Row
      BY <2>1 DEF Armed, Row, RowState
    <2>3. autos'[a] = Armed(autos[a])
      BY DEF ArmEvent, SetRow, IInv, TypeOK
    <2>4. RowOK(a)' /\ \A e \in Event : ReceiptOK(a, e)'
      BY <2>3 DEF ArmEvent, Deployable, Armed, RowOK, ReceiptOK, Fresh, NoReceipts, NoReceipt
    <2>5. QED
      BY <1>1, <2>2, <2>4, OneRow DEF ArmEvent
  <1>5. SmallTypes'
    BY CommandTypes DEF ArmEvent, IInv, TypeOK, SmallTypes
  <1>6. QED
    BY <1>1, <1>2, <1>3, <1>4, <1>5, Assembled

LEMMA StatusKeeps ==
    ASSUME IInv, UpdateApp \/ ArchiveApp \/ \E j \in Job : ResumeJob(j)
    PROVE  IInv'
  <1>1. UNCHANGED <<autos, missions, req, acked>>
    BY DEF UpdateApp, ArchiveApp, ResumeJob
  <1>2. Grows /\ Missions' /\ missions' \in [Mission -> MissionRow]
    BY <1>1, SameMissions
  <1>3. Requests' /\ req' \in [Request -> Req]
    BY <1>1, <1>2, SameReqs
  <1>4. Acked' /\ acked' \subseteq Automation \X Event
    BY <1>1, <1>2, SameAcked
  <1>5. Rows' /\ Receipts' /\ autos' \in [Automation -> Row]
    BY <1>1, <1>2, SameRows
  <1>6. SmallTypes'
    BY CommandTypes DEF UpdateApp, ArchiveApp, ResumeJob, IInv, TypeOK, SmallTypes
  <1>7. QED
    BY <1>2, <1>3, <1>4, <1>5, <1>6, Assembled

LEMMA DeployKeeps ==
    ASSUME IInv, NEW r \in Request, NEW a \in Automation, Deploy(r, a)
    PROVE  IInv'
  <1>1. Grows /\ Missions' /\ missions' \in [Mission -> MissionRow]
    BY SameMissions DEF Deploy
  <1>2. Acked' /\ acked' \subseteq Automation \X Event
    BY <1>1, SameAcked DEF Deploy
  <1>3. Requests' /\ req' \in [Request -> Req]
    <2> DEFINE record == [NoReq EXCEPT !.op = "deploy", !.pc = "submit", !.auto = a]
    <2>1. record \in Req
      BY DEF NoReq, Req, OrNone, MissionStatus
    <2>2. SetReq(r, record)
      BY DEF Deploy
    <2>3. req'[r] = record
      BY <2>2 DEF SetReq, IInv, TypeOK
    <2>4. ReqOK(r)'
      BY <2>3 DEF ReqOK, NoReq
    <2>5. QED
      BY <1>1, <2>1, <2>2, <2>4, OneReq
  <1>4. Rows' /\ Receipts' /\ autos' \in [Automation -> Row]
    <2>1. autos[a] \in Row /\ RowOK(a)
      BY DEF IInv, TypeOK, Rows
    <2>2. Claimed(autos[a]) \in Row
      BY <2>1 DEF Claimed, Row, RowState, OrNone
    <2>3. autos'[a] = Claimed(autos[a])
      BY DEF Deploy, SetRow, IInv, TypeOK
    <2>4. autos[a].exists /\ autos[a].state # "armed" /\ autos[a].receipts = NoReceipts
      BY <2>1 DEF Deploy, Deployable, RowOK
    <2>5. RowOK(a)' /\ \A e \in Event : ReceiptOK(a, e)'
      BY <2>1, <2>3, <2>4 DEF Claimed, RowOK, ReceiptOK, NoReceipts, NoReceipt, Row
    <2>6. QED
      BY <1>1, <2>2, <2>5, OneRow DEF Deploy
  <1>5. SmallTypes'
    BY CommandTypes DEF Deploy, Begins, IInv, TypeOK, SmallTypes
  <1>6. QED
    BY <1>1, <1>2, <1>3, <1>4, <1>5, Assembled

LEMMA DeliverKeeps ==
    ASSUME IInv, NEW r \in Request, NEW e \in Event, Deliver(r, e)
    PROVE  IInv'
  <1>1. Grows /\ Missions' /\ missions' \in [Mission -> MissionRow]
    BY SameMissions DEF Deliver
  <1>2. Acked' /\ acked' \subseteq Automation \X Event
    BY <1>1, SameAcked DEF Deliver
  <1>3. Requests' /\ req' \in [Request -> Req]
    <2> DEFINE record == [NoReq EXCEPT !.op = "deliver", !.event = e,
                                       !.todo = {a \in Automation : Listening(a)}]
    <2>1. record \in Req
      BY DEF NoReq, Req, OrNone, MissionStatus
    <2>2. SetReq(r, record)
      BY DEF Deliver
    <2>3. req'[r] = record
      BY <2>2 DEF SetReq, IInv, TypeOK
    <2>4. ReqOK(r)'
      BY <2>3 DEF ReqOK, NoReq
    <2>5. QED
      BY <1>1, <2>1, <2>2, <2>4, OneReq
  <1>4. Rows' /\ Receipts' /\ autos' \in [Automation -> Row]
    BY <1>1, SameRows DEF Deliver
  <1>5. SmallTypes'
    BY CommandTypes DEF Deliver, Begins, IInv, TypeOK, SmallTypes
  <1>6. QED
    BY <1>1, <1>2, <1>3, <1>4, <1>5, Assembled

LEMMA StopKeeps ==
    ASSUME IInv, NEW r \in Request, NEW j \in Job, Stop(r, j)
    PROVE  IInv'
  <1>1. Grows /\ Missions' /\ missions' \in [Mission -> MissionRow]
    BY SameMissions DEF Stop
  <1>2. Acked' /\ acked' \subseteq Automation \X Event
    BY <1>1, SameAcked DEF Stop
  <1>3. Requests' /\ req' \in [Request -> Req]
    <2> DEFINE record == [NoReq EXCEPT !.op = "stop", !.job = j]
    <2>1. record \in Req
      BY DEF NoReq, Req, OrNone, MissionStatus
    <2>2. SetReq(r, record)
      BY DEF Stop
    <2>3. req'[r] = record
      BY <2>2 DEF SetReq, IInv, TypeOK
    <2>4. ReqOK(r)'
      BY <2>3 DEF ReqOK, NoReq
    <2>5. QED
      BY <1>1, <2>1, <2>2, <2>4, OneReq
  <1>4. Rows' /\ Receipts' /\ autos' \in [Automation -> Row]
    BY <1>1, SameRows DEF Stop
  <1>5. SmallTypes'
    BY CommandTypes DEF Stop, Begins, IInv, TypeOK, SmallTypes
  <1>6. QED
    BY <1>1, <1>2, <1>3, <1>4, <1>5, Assembled

LEMMA NextPassKeeps ==
    ASSUME IInv, NEW r \in Request, NextPass(r)
    PROVE  IInv'
  <1>1. Grows /\ Missions' /\ missions' \in [Mission -> MissionRow]
    BY SameMissions DEF NextPass
  <1>2. Acked' /\ acked' \subseteq Automation \X Event
    BY <1>1, SameAcked DEF NextPass
  <1>3. Requests' /\ req' \in [Request -> Req]
    <2> DEFINE record == [req[r] EXCEPT !.pass = req[r].pass + 1, !.pairs = StopPairs(req[r].job)]
    <2>1. record \in Req
      <3>1. StopPairs(req[r].job) \subseteq Automation \X Mission
        BY DEF StopPairs
      <3>2. req[r] \in Req
        BY ReqFields DEF IInv
      <3>3. QED
        BY <3>1, <3>2, PassTypes
    <2>2. SetReq(r, record)
      BY DEF NextPass
    <2>3. req'[r] = record
      BY <2>2 DEF SetReq, IInv, TypeOK
    <2>4. req[r].op = "stop" /\ req[r].pc = "next" /\ ReqOK(r) /\ req[r] \in Req
      BY ReqFields DEF NextPass, At, IInv, Requests
    <2>5. ReqOK(r)'
      BY <2>3, <2>4 DEF ReqOK, Req
    <2>6. QED
      BY <1>1, <2>1, <2>2, <2>5, OneReq
  <1>4. Rows' /\ Receipts' /\ autos' \in [Automation -> Row]
    BY <1>1, SameRows DEF NextPass
  <1>5. SmallTypes'
    BY CommandTypes DEF NextPass, IInv, TypeOK, SmallTypes
  <1>6. QED
    BY <1>1, <1>2, <1>3, <1>4, <1>5, Assembled

LEMMA ChangeKeeps ==
    ASSUME IInv, NEW r \in Request, NEW a \in Automation, NEW op \in {"edit", "delete"}, Change(r, a, op)
    PROVE  IInv'
  <1>1. Grows /\ Missions' /\ missions' \in [Mission -> MissionRow]
    BY SameMissions DEF Change
  <1>2. Acked' /\ acked' \subseteq Automation \X Event
    BY <1>1, SameAcked DEF Change
  <1>3. Requests' /\ req' \in [Request -> Req]
    <2> DEFINE record == [NoReq EXCEPT !.op = op, !.auto = a, !.pairs = {a} \X ToStop(autos[a])]
    <2>1. ToStop(autos[a]) \subseteq Mission
      BY TrackedTypes DEF IInv, TypeOK
    <2>2. record \in Req
      BY <2>1 DEF NoReq, Req, OrNone, MissionStatus
    <2>3. SetReq(r, record)
      BY DEF Change
    <2>4. req'[r] = record
      BY <2>3 DEF SetReq, IInv, TypeOK
    <2>5. ReqOK(r)'
      BY <2>4 DEF ReqOK, NoReq
    <2>6. QED
      BY <1>1, <2>2, <2>3, <2>5, OneReq
  <1>4. Rows' /\ Receipts' /\ autos' \in [Automation -> Row]
    BY <1>1, SameRows DEF Change
  <1>5. SmallTypes'
    BY CommandTypes DEF Change, Begins, IInv, TypeOK, SmallTypes
  <1>6. QED
    BY <1>1, <1>2, <1>3, <1>4, <1>5, Assembled

LEMMA RefreshKeeps ==
    ASSUME IInv, NEW r \in Request, NEW a \in Automation, NEW m \in Mission, Refresh(r, a, m)
    PROVE  IInv'
  <1>1. Grows /\ Missions' /\ missions' \in [Mission -> MissionRow]
    BY SameMissions DEF Refresh
  <1>2. Acked' /\ acked' \subseteq Automation \X Event
    BY <1>1, SameAcked DEF Refresh
  <1>3. Requests' /\ req' \in [Request -> Req]
    <2> DEFINE record == [NoReq EXCEPT !.op = "refresh", !.auto = a, !.mission = m,
                                       !.status = missions[m].status]
    <2>1. record \in Req
      BY DEF NoReq, Req, OrNone, MissionStatus, IInv, TypeOK, MissionRow
    <2>2. SetReq(r, record)
      BY DEF Refresh
    <2>3. req'[r] = record
      BY <2>2 DEF SetReq, IInv, TypeOK
    <2>4. ReqOK(r)'
      BY <2>3 DEF ReqOK, NoReq, Over, Refresh
    <2>5. QED
      BY <1>1, <2>1, <2>2, <2>4, OneReq
  <1>4. Rows' /\ Receipts' /\ autos' \in [Automation -> Row]
    BY <1>1, SameRows DEF Refresh
  <1>5. SmallTypes'
    BY CommandTypes DEF Refresh, Begins, IInv, TypeOK, SmallTypes
  <1>6. QED
    BY <1>1, <1>2, <1>3, <1>4, <1>5, Assembled

LEMMA GiveUpKeeps ==
    ASSUME IInv, NEW r \in Request, GiveUp(r)
    PROVE  IInv'
  <1>1. Grows /\ Missions' /\ missions' \in [Mission -> MissionRow]
    BY SameMissions DEF GiveUp
  <1>2. Acked' /\ acked' \subseteq Automation \X Event
    BY <1>1, SameAcked DEF GiveUp
  <1>3. Requests' /\ req' \in [Request -> Req]
    BY <1>1, EndedReq DEF GiveUp
  <1>4. Rows' /\ Receipts' /\ autos' \in [Automation -> Row]
    BY <1>1, SameRows DEF GiveUp
  <1>5. SmallTypes'
    BY CommandTypes DEF GiveUp, IInv, TypeOK, SmallTypes
  <1>6. QED
    BY <1>1, <1>2, <1>3, <1>4, <1>5, Assembled

LEMMA DiesKeeps ==
    ASSUME IInv, NEW r \in Request, RequestDies(r)
    PROVE  IInv'
  <1>1. Grows /\ Missions' /\ missions' \in [Mission -> MissionRow]
    BY SameMissions DEF RequestDies
  <1>2. Acked' /\ acked' \subseteq Automation \X Event
    BY <1>1, SameAcked DEF RequestDies
  <1>3. Requests' /\ req' \in [Request -> Req]
    BY <1>1, EndedReq DEF RequestDies
  <1>4. Rows' /\ Receipts' /\ autos' \in [Automation -> Row]
    BY <1>1, SameRows DEF RequestDies
  <1>5. SmallTypes'
    BY WorkAssumption DEF RequestDies, IInv, TypeOK, SmallTypes
  <1>6. QED
    BY <1>1, <1>2, <1>3, <1>4, <1>5, Assembled

LEMMA SetStatusKeeps ==
    ASSUME IInv, NEW r \in Request, SetJobStatus(r)
    PROVE  IInv'
  <1>1. Grows /\ Missions' /\ missions' \in [Mission -> MissionRow]
    BY SameMissions DEF SetJobStatus
  <1>2. Acked' /\ acked' \subseteq Automation \X Event
    BY <1>1, SameAcked DEF SetJobStatus
  <1>3. Requests' /\ req' \in [Request -> Req]
    BY <1>1, EndedReq DEF SetJobStatus
  <1>4. Rows' /\ Receipts' /\ autos' \in [Automation -> Row]
    BY <1>1, SameRows DEF SetJobStatus
  <1>5. SmallTypes'
    BY CommandTypes DEF SetJobStatus, IInv, TypeOK, SmallTypes
  <1>6. QED
    BY <1>1, <1>2, <1>3, <1>4, <1>5, Assembled

LEMMA CrashKeeps ==
    ASSUME IInv, Crash
    PROVE  IInv'
  <1>1. Grows /\ Missions' /\ missions' \in [Mission -> MissionRow]
    BY SameMissions DEF Crash
  <1>2. Acked' /\ acked' \subseteq Automation \X Event
    BY <1>1, SameAcked DEF Crash
  <1>3. Requests' /\ req' \in [Request -> Req]
    BY FreeReq, NoReqType DEF Crash, Requests
  <1>4. Rows' /\ Receipts' /\ autos' \in [Automation -> Row]
    BY <1>1, SameRows DEF Crash
  <1>5. SmallTypes'
    BY WorkAssumption DEF Crash, IInv, TypeOK, SmallTypes
  <1>6. QED
    BY <1>1, <1>2, <1>3, <1>4, <1>5, Assembled

LEMMA ClaimKeeps ==
    ASSUME IInv, NEW r \in Request, NEW a \in Automation, Claim(r, a)
    PROVE  IInv'
  <1>1. Grows /\ Missions' /\ missions' \in [Mission -> MissionRow]
    BY SameMissions DEF Claim
  <1>2. Acked' /\ acked' \subseteq Automation \X Event
    BY <1>1, SameAcked DEF Claim
  <1>3. Requests' /\ req' \in [Request -> Req]
    <2>1. req[r] \in Req /\ ReqOK(r) /\ req[r].op = "deliver" /\ req[r].event \in Event
      BY ReqFields DEF Claim, At, IInv, Requests, ReqOK
    <2>0. PICK ev \in Event : ev = req[r].event
      BY <2>1
    <2>2. CASE EndReq(r)
      BY <1>1, <2>2, EndedReq
    <2>3. CASE Replayed(autos[a], req[r].event)
               /\ SetReq(r, [req[r] EXCEPT !.todo = req[r].todo \ {a}, !.done = req[r].done \cup {a}])
      <3> DEFINE record == [req[r] EXCEPT !.todo = req[r].todo \ {a}, !.done = req[r].done \cup {a}]
      <3>1. record \in Req
        BY <2>1 DEF Req
      <3>2. req'[r] = record
        BY <2>3 DEF SetReq, IInv, TypeOK
      <3>3. Delivered(a, req[r].event)
        <4>1. ReceiptOK(a, req[r].event) /\ autos[a] \in Row
          BY <2>1 DEF IInv, Receipts, TypeOK
        <4>2. autos[a].receipts[req[r].event].mission \in Mission
          BY <2>1, <2>3, <4>1 DEF Replayed, ReceiptOK, Row, Receipt, OrNone
        <4>3. QED
          BY <2>3, <4>1, <4>2 DEF Replayed, ReceiptOK, Delivered
      <3>4. \A b \in record.done : Delivered(b, ev)'
        <4>1. record.done = req[r].done \cup {a} /\ req[r].done \subseteq Automation
          BY <2>1 DEF Req
        <4>2. \A b \in record.done : Delivered(b, req[r].event)
          BY <2>1, <3>3, <4>1 DEF ReqOK
        <4>3. QED
          BY <1>1, <2>0, <3>3, <4>1, <4>2, DeliveredKept
      <3>5. /\ record.op = "deliver" /\ record.pc = "next" /\ record.event = req[r].event
        BY <2>1 DEF Req, Claim, At
      <3>6. ReqOK(r)'
        BY <2>0, <2>1, <3>2, <3>4, <3>5 DEF ReqOK, Delivered
      <3>7. QED
        BY <1>1, <2>3, <3>1, <3>6, OneReq
    <2>4. CASE SetReq(r, [req[r] EXCEPT !.todo = req[r].todo \ {a}, !.auto = a, !.pc = "submit"])
      <3> DEFINE record == [req[r] EXCEPT !.todo = req[r].todo \ {a}, !.auto = a, !.pc = "submit"]
      <3>1. record \in Req
        BY <2>1 DEF Req, OrNone
      <3>2. req'[r] = record
        BY <2>4 DEF SetReq, IInv, TypeOK
      <3>3. \A b \in req[r].done : Delivered(b, ev)'
        BY <1>1, <2>0, <2>1, DeliveredKept DEF ReqOK, Req
      <3>4. /\ record.op = "deliver" /\ record.pc = "submit" /\ record.event = req[r].event
            /\ record.auto = a /\ record.done = req[r].done
        BY <2>1 DEF Req
      <3>5. ReqOK(r)'
        BY <2>0, <2>1, <3>2, <3>3, <3>4 DEF ReqOK, Delivered
      <3>6. QED
        BY <1>1, <2>4, <3>1, <3>5, OneReq
    <2>5. QED
      BY <2>2, <2>3, <2>4 DEF Claim
  <1>4. Rows' /\ Receipts' /\ autos' \in [Automation -> Row]
    <2>1. CASE UNCHANGED autos
      BY <1>1, <2>1, SameRows
    <2>2. CASE Armable(a) /\ SetRow(a, ClaimedEvent(autos[a], req[r].event))
      <3>1. req[r].event \in Event /\ autos[a] \in Row /\ RowOK(a)
        BY DEF Claim, At, IInv, Requests, ReqOK, TypeOK, Rows
      <3>2. ClaimedEvent(autos[a], req[r].event) \in Row
        BY <3>1 DEF ClaimedEvent, Row, Receipt
      <3>3. autos'[a] = ClaimedEvent(autos[a], req[r].event)
        BY <2>2 DEF SetRow, IInv, TypeOK
      <3>4. RowOK(a)'
        BY <2>2, <3>1, <3>3 DEF Armable, RowOK, ClaimedEvent, Row
      <3>5. ASSUME NEW e \in Event PROVE ReceiptOK(a, e)'
        <4>1. CASE e = req[r].event
          <5>1. autos[a].receipts \in [Event -> Receipt]
            BY <3>1 DEF Row
          <5>2. autos'[a].receipts = [autos[a].receipts EXCEPT ![e].state = "pending"]
            BY <3>1, <3>3, <4>1 DEF ClaimedEvent, Row
          <5>3. autos'[a].receipts[e].state = "pending"
            BY <5>1, <5>2 DEF Receipt
          <5>4. QED
            BY <5>3 DEF ReceiptOK
        <4>2. CASE e # req[r].event
          <5>1. autos'[a].receipts[e] = autos[a].receipts[e]
            BY <3>1, <3>3, <4>2 DEF ClaimedEvent, Row
          <5>2. QED
            BY <1>1, <5>1, ReceiptKept
        <4>3. QED
          BY <4>1, <4>2
      <3>6. QED
        BY <1>1, <2>2, <3>2, <3>4, <3>5, OneRow
    <2>3. QED
      BY <2>1, <2>2 DEF Claim
  <1>5. SmallTypes'
    BY DEF Claim, IInv, TypeOK, SmallTypes
  <1>6. QED
    BY <1>1, <1>2, <1>3, <1>4, <1>5, Assembled

LEMMA SubmitKeeps ==
    ASSUME IInv, NEW r \in Request, Submit(r)
    PROVE  IInv'
  <1> DEFINE a == req[r].auto
             e == req[r].event
  <1>0. /\ a \in Automation /\ req[r] \in Req /\ ReqOK(r)
        /\ req[r].op \in {"deploy", "deliver"} /\ req[r].pc = "submit"
    BY ReqFields DEF Submit, Submitting, IInv, Requests, ReqOK
  <1>a. e \in OrNone(Event)
    BY ReqFields DEF IInv
  <1>b. PICK m \in Submitted(a, e) :
          /\ missions' = IF missions[m].status = "absent"
                           THEN [missions EXCEPT ![m] = Started(a, e)] ELSE missions
          /\ SetReq(r, [req[r] EXCEPT !.pc = "record", !.mission = m])
    BY DEF Submit
  <1>c. /\ m \in Mission
        /\ missions[m].status # "absent" => missions[m].owner = a /\ missions[m].event = e
    BY <1>b DEF Submitted, Existing
  <1>d. missions \in [Mission -> MissionRow] /\ MissionOK(m)
    BY <1>c DEF IInv, TypeOK, Missions
  <1>1. Grows /\ Missions' /\ missions' \in [Mission -> MissionRow]
    <2>1. CASE missions[m].status # "absent"
      BY <1>b, <2>1, SameMissions
    <2>2. CASE missions[m].status = "absent"
      <3>1. Started(a, e) \in MissionRow
        BY <1>0, <1>a DEF Started, NoMission, MissionRow, MissionStatus, OrNone
      <3>2. missions' = [missions EXCEPT ![m] = Started(a, e)]
        BY <1>b, <2>2
      <3>3. Grows
        BY <1>c, <1>d, <2>2, <3>2 DEF Grows, MissionOK
      <3>4. Missions'
        BY <1>c, <1>d, <3>2 DEF IInv, Missions, MissionOK, Started, NoMission
      <3>5. QED
        BY <1>d, <3>1, <3>2, <3>3, <3>4
    <2>3. QED
      BY <2>1, <2>2
  <1>2. Acked' /\ acked' \subseteq Automation \X Event
    BY <1>1, SameAcked DEF Submit
  <1>3. Requests' /\ req' \in [Request -> Req]
    <2> DEFINE record == [req[r] EXCEPT !.pc = "record", !.mission = m]
    <2>1. record \in Req
      BY <1>0, <1>c DEF Req, OrNone
    <2>2. req'[r] = record
      BY <1>b DEF SetReq, IInv, TypeOK
    <2>3. /\ missions'[m].owner = a /\ missions'[m].event = e
          /\ missions'[m].status # "absent"
      BY <1>b, <1>c, <1>d DEF Started, NoMission
    <2>4. /\ record.op = req[r].op /\ record.pc = "record" /\ record.event = e
          /\ record.auto = a /\ record.done = req[r].done /\ record.mission = m
      BY <1>0 DEF Req
    <2>5. ASSUME NEW ev \in Event, req[r].op = "deliver", ev = e,
                 NEW b \in req[r].done
          PROVE  Delivered(b, ev)'
      BY <1>0, <1>1, <2>5, DeliveredKept DEF ReqOK, Req
    <2>6. ReqOK(r)'
      BY <1>0, <1>c, <2>2, <2>3, <2>4, <2>5 DEF ReqOK, Delivered
    <2>7. QED
      BY <1>1, <1>b, <2>1, <2>6, OneReq
  <1>4. Rows' /\ Receipts' /\ autos' \in [Automation -> Row]
    BY <1>1, SameRows DEF Submit
  <1>5. SmallTypes'
    BY DEF Submit, IInv, TypeOK, SmallTypes
  <1>6. QED
    BY <1>1, <1>2, <1>3, <1>4, <1>5, Assembled

LEMMA RejectedKeeps ==
    ASSUME IInv, NEW r \in Request, SubmitRejected(r)
    PROVE  IInv'
  <1>1. Grows /\ Missions' /\ missions' \in [Mission -> MissionRow]
    BY SameMissions DEF SubmitRejected
  <1>2. Acked' /\ acked' \subseteq Automation \X Event
    BY <1>1, SameAcked DEF SubmitRejected
  <1>3. Requests' /\ req' \in [Request -> Req]
    BY <1>1, EndedReq DEF SubmitRejected
  <1>4. Rows' /\ Receipts' /\ autos' \in [Automation -> Row]
    <2>0. req[r].auto \in Automation /\ (req[r].op = "deliver" => req[r].event \in Event)
      BY DEF SubmitRejected, Submitting, IInv, Requests, ReqOK
    <2>1. PICK a \in Automation : a = req[r].auto
      BY <2>0
    <2>2. autos[a] \in Row /\ RowOK(a)
      BY <2>1 DEF IInv, TypeOK, Rows
    <2>3. CASE req[r].op = "deploy"
      <3>1. SetRow(a, FailedSubmission(autos[a]))
        BY <2>1, <2>3 DEF SubmitRejected
      <3>2. FailedSubmission(autos[a]) \in Row
        BY <2>2 DEF FailedSubmission, Row, RowState
      <3>3. autos'[a] = FailedSubmission(autos[a])
        BY <2>1, <3>1 DEF SetRow, IInv, TypeOK
      <3>4. RowOK(a)' /\ autos'[a].receipts = autos[a].receipts
        <4>1. CASE autos[a].state = "submitting"
          BY <2>2, <3>3, <4>1 DEF FailedSubmission, RowOK, Row
        <4>2. CASE autos[a].state # "submitting"
          BY <1>1, <2>1, <3>3, <4>2, RowKept DEF FailedSubmission
        <4>3. QED
          BY <4>1, <4>2
      <3>5. QED
        BY <1>1, <2>1, <3>1, <3>2, <3>4, ReceiptKept, OneRow
    <2>4. CASE req[r].op = "deliver"
      <3>0. PICK e \in Event : e = req[r].event
        BY <2>0, <2>4
      <3>1. SetRow(a, FailedEvent(autos[a], e))
        BY <2>1, <2>4, <3>0 DEF SubmitRejected
      <3>2. FailedEvent(autos[a], e) \in Row
        <4>1. autos[a].receipts \in [Event -> Receipt] /\ e \in Event
          BY <2>0, <2>2, <2>4, <3>0 DEF Row
        <4>2. [autos[a].receipts EXCEPT ![e].state = "failed"] \in [Event -> Receipt]
          BY <4>1 DEF Receipt
        <4>3. QED
          BY <2>2, <4>2 DEF FailedEvent, Row
      <3>3. autos'[a] = FailedEvent(autos[a], e)
        BY <2>1, <3>1 DEF SetRow, IInv, TypeOK
      <3>4. CASE autos[a].receipts[e].state = "pending"
        <4>1. autos[a].state = "armed"
          BY <2>1, <2>2, <2>4, <3>4 DEF RowOK, NoReceipts, NoReceipt
        <4>2. RowOK(a)'
          BY <2>2, <3>3, <3>4, <4>1 DEF FailedEvent, RowOK, Row
        <4>3. ASSUME NEW x \in Event PROVE ReceiptOK(a, x)'
          <5>1. CASE x = e
            BY <2>2, <3>3, <3>4, <5>1 DEF ReceiptOK, FailedEvent, Row, Receipt
          <5>2. CASE x # e
            <6>1. autos'[a].receipts[x] = autos[a].receipts[x]
              BY <2>2, <3>3, <3>4, <5>2 DEF FailedEvent, Row
            <6>2. QED
              BY <1>1, <2>1, <6>1, ReceiptKept
          <5>3. QED
            BY <5>1, <5>2
        <4>4. QED
          BY <1>1, <2>1, <3>1, <3>2, <4>2, <4>3, OneRow
      <3>5. CASE autos[a].receipts[e].state # "pending"
        <4>1. autos'[a] = autos[a]
          BY <3>3, <3>5 DEF FailedEvent
        <4>2. QED
          BY <1>1, <2>1, <3>1, <3>2, <4>1, RowKept, OneRow
      <3>6. QED
        BY <3>4, <3>5
    <2>5. QED
      BY <2>3, <2>4 DEF SubmitRejected, Submitting
  <1>5. SmallTypes'
    BY DEF SubmitRejected, IInv, TypeOK, SmallTypes
  <1>6. QED
    BY <1>1, <1>2, <1>3, <1>4, <1>5, Assembled

LEMMA RecordDeployKeeps ==
    ASSUME IInv, NEW r \in Request, RecordDeploy(r)
    PROVE  IInv'
  <1>1. Grows /\ Missions' /\ missions' \in [Mission -> MissionRow]
    BY SameMissions DEF RecordDeploy
  <1>2. Acked' /\ acked' \subseteq Automation \X Event
    BY <1>1, SameAcked DEF RecordDeploy
  <1>3. Requests' /\ req' \in [Request -> Req]
    BY <1>1, EndedReq DEF RecordDeploy
  <1>4. Rows' /\ Receipts' /\ autos' \in [Automation -> Row]
    <2>1. PICK a \in Automation, m \in Mission : a = req[r].auto /\ m = req[r].mission
      BY DEF RecordDeploy, Recording, IInv, Requests, ReqOK
    <2>2. CASE UNCHANGED autos
      BY <1>1, <2>2, SameRows
    <2>3. CASE autos[a].exists /\ SetRow(a, Delegated(autos[a], m))
      <3>1. autos[a] \in Row
        BY <2>1 DEF IInv, TypeOK
      <3>2. Fresh(autos[a].trigger, autos[a].enabled) \in Row
        BY <3>1, FreshTypes DEF Row
      <3>3. Delegated(autos[a], m) \in Row
        BY <2>1, <3>2 DEF Delegated, Row, RowState, OrNone
      <3>4. autos'[a] = Delegated(autos[a], m)
        BY <2>1, <2>3 DEF SetRow, IInv, TypeOK
      <3>5. RowOK(a)' /\ \A e \in Event : ReceiptOK(a, e)'
        BY <3>4 DEF Delegated, RowOK, ReceiptOK, Fresh, NoReceipts, NoReceipt
      <3>6. QED
        BY <1>1, <2>1, <2>3, <3>3, <3>5, OneRow
    <2>4. QED
      BY <2>1, <2>2, <2>3 DEF RecordDeploy
  <1>5. SmallTypes'
    BY DEF RecordDeploy, IInv, TypeOK, SmallTypes
  <1>6. QED
    BY <1>1, <1>2, <1>3, <1>4, <1>5, Assembled

LEMMA RecordEventKeeps ==
    ASSUME IInv, NEW r \in Request, RecordEvent(r)
    PROVE  IInv'
  <1>0. PICK a \in Automation, m \in Mission, e \in Event :
          /\ a = req[r].auto /\ m = req[r].mission /\ e = req[r].event
          /\ req[r] \in Req /\ ReqOK(r)
          /\ req[r].op = "deliver" /\ req[r].pc = "record"
          /\ missions[m].owner = a /\ missions[m].event = e /\ missions[m].status # "absent"
    BY ReqFields DEF RecordEvent, Recording, IInv, Requests, ReqOK
  <1>1. Grows /\ Missions' /\ missions' \in [Mission -> MissionRow]
    BY SameMissions DEF RecordEvent
  <1>2. Acked' /\ acked' \subseteq Automation \X Event
    BY <1>1, SameAcked DEF RecordEvent
  <1>3. Requests' /\ req' \in [Request -> Req]
    <2> DEFINE record == [req[r] EXCEPT !.pc = "next", !.done = req[r].done \cup {a}]
    <2>1. CASE EndReq(r)
      BY <1>1, <2>1, EndedReq
    <2>2. CASE SetReq(r, record)
      <3>1. record \in Req
        BY <1>0 DEF Req
      <3>2. req'[r] = record
        BY <2>2 DEF SetReq, IInv, TypeOK
      <3>3. /\ record.op = "deliver" /\ record.pc = "next" /\ record.event = e
            /\ record.done = req[r].done \cup {a} /\ req[r].done \subseteq Automation
        BY <1>0 DEF Req
      <3>4. Delivered(a, e)
        BY <1>0 DEF Delivered
      <3>5. \A b \in record.done : Delivered(b, e)
        BY <1>0, <3>3, <3>4 DEF ReqOK
      <3>6. \A b \in record.done : Delivered(b, e)'
        BY <1>0, <1>1, <3>3, <3>5, DeliveredKept
      <3>7. ReqOK(r)'
        BY <1>0, <3>2, <3>3, <3>6 DEF ReqOK, Delivered
      <3>8. QED
        BY <1>1, <2>2, <3>1, <3>7, OneReq
    <2>3. QED
      BY <1>0, <2>1, <2>2 DEF RecordEvent
  <1>4. Rows' /\ Receipts' /\ autos' \in [Automation -> Row]
    <2>1. CASE UNCHANGED autos
      BY <1>1, <2>1, SameRows
    <2>2. CASE Armable(a) /\ SetRow(a, RecordedEvent(autos[a], e, m))
      <3>1. autos[a] \in Row /\ RowOK(a)
        BY <1>0 DEF IInv, TypeOK, Rows
      <3>2. RecordedEvent(autos[a], e, m) \in Row
        BY <1>0, <3>1 DEF RecordedEvent, Row, Receipt, OrNone
      <3>3. autos'[a] = RecordedEvent(autos[a], e, m)
        BY <1>0, <2>2 DEF SetRow, IInv, TypeOK
      <3>4. RowOK(a)'
        BY <2>2, <3>1, <3>3 DEF Armable, RowOK, RecordedEvent, Row
      <3>5. ASSUME NEW x \in Event PROVE ReceiptOK(a, x)'
        <4>1. CASE x = e
          <5>1. autos'[a].receipts[x] = [state |-> "delegated", mission |-> m]
            BY <1>0, <3>1, <3>3, <4>1 DEF RecordedEvent, Row
          <5>2. QED
            BY <1>0, <1>1, <4>1, <5>1, WorkAssumption DEF ReceiptOK, Grows
        <4>2. CASE x # e
          <5>1. autos'[a].receipts[x] = autos[a].receipts[x]
            BY <3>1, <3>3, <4>2 DEF RecordedEvent, Row
          <5>2. QED
            BY <1>0, <1>1, <5>1, ReceiptKept
        <4>3. QED
          BY <4>1, <4>2
      <3>6. QED
        BY <1>0, <1>1, <2>2, <3>2, <3>4, <3>5, OneRow
    <2>3. QED
      BY <1>0, <2>1, <2>2 DEF RecordEvent
  <1>5. SmallTypes'
    BY DEF RecordEvent, IInv, TypeOK, SmallTypes
  <1>6. QED
    BY <1>1, <1>2, <1>3, <1>4, <1>5, Assembled

LEMMA AcknowledgeKeeps ==
    ASSUME IInv, NEW r \in Request, Acknowledge(r)
    PROVE  IInv'
  <1>1. Grows /\ Missions' /\ missions' \in [Mission -> MissionRow]
    BY SameMissions DEF Acknowledge
  <1>2. Acked' /\ acked' \subseteq Automation \X Event
    <2>1. PICK e \in Event : e = req[r].event
      BY DEF Acknowledge, At, IInv, Requests, ReqOK
    <2>2. /\ req[r].done \subseteq Automation
          /\ \A a \in req[r].done : Delivered(a, e)
      BY <2>1, ReqFields DEF Acknowledge, At, IInv, Requests, ReqOK
    <2>3. acked' = acked \cup (req[r].done \X {e})
      BY <2>1 DEF Acknowledge
    <2>4. acked' \subseteq Automation \X Event
      BY <2>2, <2>3 DEF IInv, TypeOK
    <2>5. ASSUME NEW d \in acked' PROVE Delivered(d[1], d[2])'
      <3>1. d[1] \in Automation /\ d[2] \in Event
        BY <2>4
      <3>2. Delivered(d[1], d[2])
        BY <2>2, <2>3 DEF IInv, Acked
      <3>3. QED
        BY <1>1, <3>1, <3>2, DeliveredKept
    <2>6. QED
      BY <2>4, <2>5 DEF Acked
  <1>3. Requests' /\ req' \in [Request -> Req]
    BY <1>1, EndedReq DEF Acknowledge
  <1>4. Rows' /\ Receipts' /\ autos' \in [Automation -> Row]
    BY <1>1, SameRows DEF Acknowledge
  <1>5. SmallTypes'
    BY DEF Acknowledge, IInv, TypeOK, SmallTypes
  <1>6. QED
    BY <1>1, <1>2, <1>3, <1>4, <1>5, Assembled

LEMMA CancelKeeps ==
    ASSUME IInv, NEW r \in Request, NEW pair \in Automation \X Mission, CancelMission(r, pair)
    PROVE  IInv'
  <1>0. PICK a \in Automation, m \in Mission : a = pair[1] /\ m = pair[2]
    OBVIOUS
  <1>a. /\ missions' = [missions EXCEPT ![m].status = "ended"] /\ missions[m].status # "absent"
        /\ missions \in [Mission -> MissionRow]
    BY <1>0 DEF CancelMission, IInv, TypeOK
  <1>1. Grows /\ Missions' /\ missions' \in [Mission -> MissionRow]
    <2>1. missions' \in [Mission -> MissionRow]
      BY <1>a DEF MissionRow, MissionStatus
    <2>2. Grows
      BY <1>a DEF Grows, MissionRow
    <2>3. Missions'
      BY <1>a DEF IInv, Missions, MissionOK, MissionRow
    <2>4. QED
      BY <2>1, <2>2, <2>3
  <1>2. Acked' /\ acked' \subseteq Automation \X Event
    BY <1>1, SameAcked DEF CancelMission
  <1>3. Requests' /\ req' \in [Request -> Req]
    <2> DEFINE record == [req[r] EXCEPT !.pc = "record", !.pairs = req[r].pairs \ {pair},
                                        !.auto = a, !.mission = m]
    <2>1. req[r] \in Req /\ ReqOK(r)
      BY ReqFields DEF IInv, Requests
    <2>2. record \in Req
      BY <2>1 DEF Req, OrNone
    <2>3. SetReq(r, record)
      BY <1>0 DEF CancelMission
    <2>4. req'[r] = record
      BY <2>3 DEF SetReq, IInv, TypeOK
    <2>5. missions'[m].status = "ended"
      BY <1>a DEF MissionRow
    <2>6. /\ record.op = req[r].op /\ record.pc = "record" /\ record.auto = a /\ record.mission = m
          /\ record.pairs \subseteq req[r].pairs /\ record.job = req[r].job
          /\ record.event = req[r].event
      BY <2>1 DEF Req
    <2>7. /\ req[r].op \in {"stop", "edit", "delete"} /\ pair \in req[r].pairs
          /\ req[r].op \in {"edit", "delete"} => a = req[r].auto
      BY <1>0, <2>1 DEF CancelMission, Cancelling, ReqOK
    <2>8. ReqOK(r)'
      BY <2>1, <2>4, <2>5, <2>6, <2>7 DEF ReqOK, Over
    <2>9. QED
      BY <1>1, <2>2, <2>3, <2>8, OneReq
  <1>4. Rows' /\ Receipts' /\ autos' \in [Automation -> Row]
    BY <1>1, SameRows DEF CancelMission
  <1>5. SmallTypes'
    BY DEF CancelMission, IInv, TypeOK, SmallTypes
  <1>6. QED
    BY <1>1, <1>2, <1>3, <1>4, <1>5, Assembled

(* Reconciling a Mission that really is over, or one that is not.          *)
LEMMA ReconciledKeeps ==
    ASSUME IInv, Grows, NEW a \in Automation, NEW m \in Mission, NEW status \in MissionStatus,
           m \in Expected(autos[a]), status = "ended" => Over(m),
           SetRow(a, Reconciled(autos[a], m, status))
    PROVE  Rows' /\ Receipts' /\ autos' \in [Automation -> Row]
  <1>1. autos[a] \in Row /\ RowOK(a)
    BY DEF IInv, TypeOK, Rows
  <1>2. Reconciled(autos[a], m, status) \in Row
    BY <1>1 DEF Reconciled, Row, RowState
  <1>3. autos'[a] = Reconciled(autos[a], m, status)
    BY DEF SetRow, IInv, TypeOK
  <1>4. status = "ended" => Over(m)'
    BY DEF Over, Grows
  <1>5. /\ autos'[a].receipts = autos[a].receipts /\ autos'[a].mission = autos[a].mission
        /\ autos'[a].exists = autos[a].exists /\ autos'[a].trigger = autos[a].trigger
        /\ autos'[a].active \subseteq autos[a].active
        /\ autos'[a].state = IF autos[a].state = "armed" THEN "armed"
                             ELSE IF status = "ended" THEN "ended" ELSE "deployed"
    BY <1>1, <1>3 DEF Reconciled, Row
  <1>6. autos[a].state # "armed" => autos[a].mission = m
    BY <1>1 DEF RowOK, Expected
  <1>7. RowOK(a)'
    BY <1>1, <1>4, <1>5, <1>6, WorkAssumption DEF RowOK, Over
  <1>8. QED
    BY <1>2, <1>5, <1>7, ReceiptKept, OneRow

LEMMA RecordCancelKeeps ==
    ASSUME IInv, NEW r \in Request, RecordCancel(r)
    PROVE  IInv'
  <1>1. Grows /\ Missions' /\ missions' \in [Mission -> MissionRow]
    BY SameMissions DEF RecordCancel
  <1>2. Acked' /\ acked' \subseteq Automation \X Event
    BY <1>1, SameAcked DEF RecordCancel
  <1>a. PICK a \in Automation, m \in Mission :
          /\ a = req[r].auto /\ m = req[r].mission /\ Over(m)
          /\ req[r] \in Req /\ ReqOK(r)
          /\ req[r].op \in {"stop", "edit", "delete"}
    BY ReqFields DEF RecordCancel, Cancelling, IInv, Requests, ReqOK
  <1>3. Requests' /\ req' \in [Request -> Req]
    <2> DEFINE record == [req[r] EXCEPT !.pc = "next"]
    <2>1. CASE EndReq(r)
      BY <1>1, <2>1, EndedReq
    <2>2. CASE SetReq(r, record)
      <3>1. record \in Req
        BY <1>a DEF Req
      <3>2. req'[r] = record
        BY <2>2 DEF SetReq, IInv, TypeOK
      <3>3. /\ record.op = req[r].op /\ record.pc = "next" /\ record.auto = a
            /\ record.pairs = req[r].pairs /\ record.job = req[r].job /\ record.event = req[r].event
        BY <1>a DEF Req
      <3>4. ReqOK(r)'
        BY <1>a, <3>2, <3>3 DEF ReqOK
      <3>5. QED
        BY <1>1, <2>2, <3>1, <3>4, OneReq
    <2>3. QED
      BY <2>1, <2>2 DEF RecordCancel
  <1>4. Rows' /\ Receipts' /\ autos' \in [Automation -> Row]
    <2>1. CASE UNCHANGED autos
      BY <1>1, <2>1, SameRows
    <2>2. CASE m \in Expected(autos[a]) /\ SetRow(a, Reconciled(autos[a], m, "ended"))
      BY <1>1, <1>a, <2>2, ReconciledKeeps DEF MissionStatus
    <2>3. QED
      BY <1>a, <2>1, <2>2 DEF RecordCancel
  <1>5. SmallTypes'
    BY DEF RecordCancel, IInv, TypeOK, SmallTypes
  <1>6. QED
    BY <1>1, <1>2, <1>3, <1>4, <1>5, Assembled

LEMMA FinishRefreshKeeps ==
    ASSUME IInv, NEW r \in Request, FinishRefresh(r)
    PROVE  IInv'
  <1>1. Grows /\ Missions' /\ missions' \in [Mission -> MissionRow]
    BY SameMissions DEF FinishRefresh
  <1>2. Acked' /\ acked' \subseteq Automation \X Event
    BY <1>1, SameAcked DEF FinishRefresh
  <1>3. Requests' /\ req' \in [Request -> Req]
    BY <1>1, EndedReq DEF FinishRefresh
  <1>4. Rows' /\ Receipts' /\ autos' \in [Automation -> Row]
    <2>1. PICK a \in Automation, m \in Mission, status \in MissionStatus :
            /\ a = req[r].auto /\ m = req[r].mission /\ status = req[r].status
            /\ status = "ended" => Over(m)
      BY ReqFields DEF FinishRefresh, At, IInv, Requests, ReqOK
    <2>2. CASE UNCHANGED autos
      BY <1>1, <2>2, SameRows
    <2>3. CASE m \in Expected(autos[a]) /\ SetRow(a, Reconciled(autos[a], m, status))
      BY <1>1, <2>1, <2>3, ReconciledKeeps
    <2>4. QED
      BY <2>1, <2>2, <2>3 DEF FinishRefresh
  <1>5. SmallTypes'
    BY DEF FinishRefresh, IInv, TypeOK, SmallTypes
  <1>6. QED
    BY <1>1, <1>2, <1>3, <1>4, <1>5, Assembled

LEMMA FinishEditKeeps ==
    ASSUME IInv, NEW r \in Request, FinishEdit(r)
    PROVE  IInv'
  <1>1. Grows /\ Missions' /\ missions' \in [Mission -> MissionRow]
    BY SameMissions DEF FinishEdit
  <1>2. Acked' /\ acked' \subseteq Automation \X Event
    BY <1>1, SameAcked DEF FinishEdit
  <1>3. Requests' /\ req' \in [Request -> Req]
    BY <1>1, EndedReq DEF FinishEdit
  <1>4. Rows' /\ Receipts' /\ autos' \in [Automation -> Row]
    <2>1. PICK a \in Automation : a = req[r].auto
      BY DEF FinishEdit, At, IInv, Requests, ReqOK
    <2>2. PICK trigger \in {"manual", "event"}, enabled \in BOOLEAN :
            SetRow(a, Fresh(trigger, enabled)) \/ UNCHANGED autos
      BY <2>1 DEF FinishEdit
    <2>3. CASE UNCHANGED autos
      BY <1>1, <2>3, SameRows
    <2>4. CASE SetRow(a, Fresh(trigger, enabled))
      <3>1. Fresh(trigger, enabled) \in Row
        BY FreshTypes
      <3>2. autos'[a] = Fresh(trigger, enabled)
        BY <2>4 DEF SetRow, IInv, TypeOK
      <3>3. RowOK(a)' /\ \A e \in Event : ReceiptOK(a, e)'
        BY <3>2 DEF RowOK, ReceiptOK, Fresh, NoReceipts, NoReceipt
      <3>4. QED
        BY <1>1, <2>4, <3>1, <3>3, OneRow
    <2>5. QED
      BY <2>2, <2>3, <2>4
  <1>5. SmallTypes'
    BY DEF FinishEdit, IInv, TypeOK, SmallTypes
  <1>6. QED
    BY <1>1, <1>2, <1>3, <1>4, <1>5, Assembled

LEMMA FinishDeleteKeeps ==
    ASSUME IInv, NEW r \in Request, FinishDelete(r)
    PROVE  IInv'
  <1>1. Grows /\ Missions' /\ missions' \in [Mission -> MissionRow]
    BY SameMissions DEF FinishDelete
  <1>2. Acked' /\ acked' \subseteq Automation \X Event
    BY <1>1, SameAcked DEF FinishDelete
  <1>3. Requests' /\ req' \in [Request -> Req]
    BY <1>1, EndedReq DEF FinishDelete
  <1>4. Rows' /\ Receipts' /\ autos' \in [Automation -> Row]
    <2>1. PICK a \in Automation : a = req[r].auto
      BY DEF FinishDelete, At, IInv, Requests, ReqOK
    <2>2. SetRow(a, NoRow)
      BY <2>1 DEF FinishDelete
    <2>3. autos'[a] = NoRow
      BY <2>2 DEF SetRow, IInv, TypeOK
    <2>4. RowOK(a)' /\ \A e \in Event : ReceiptOK(a, e)'
      BY <2>3 DEF RowOK, ReceiptOK, NoRow, Fresh, NoReceipts, NoReceipt
    <2>5. QED
      BY <1>1, <2>2, <2>4, NoRowType, OneRow
  <1>5. SmallTypes'
    BY DEF FinishDelete, IInv, TypeOK, SmallTypes
  <1>6. QED
    BY <1>1, <1>2, <1>3, <1>4, <1>5, Assembled

LEMMA EndsKeeps ==
    ASSUME IInv, NEW m \in Mission, MissionEnds(m)
    PROVE  IInv'
  <1>a. /\ missions' = [missions EXCEPT ![m].status = "ended"]
        /\ missions \in [Mission -> MissionRow] /\ missions[m].status # "absent"
    BY DEF MissionEnds, Live, IInv, TypeOK
  <1>1. Grows /\ Missions' /\ missions' \in [Mission -> MissionRow]
    <2>1. missions' \in [Mission -> MissionRow]
      BY <1>a DEF MissionRow, MissionStatus
    <2>2. Grows
      BY <1>a DEF Grows, MissionRow
    <2>3. Missions'
      BY <1>a DEF IInv, Missions, MissionOK, MissionRow
    <2>4. QED
      BY <2>1, <2>2, <2>3
  <1>2. Acked' /\ acked' \subseteq Automation \X Event
    BY <1>1, SameAcked DEF MissionEnds
  <1>3. Requests' /\ req' \in [Request -> Req]
    BY <1>1, SameReqs DEF MissionEnds
  <1>4. Rows' /\ Receipts' /\ autos' \in [Automation -> Row]
    BY <1>1, SameRows DEF MissionEnds
  <1>5. SmallTypes'
    BY DEF MissionEnds, IInv, TypeOK, SmallTypes
  <1>6. QED
    BY <1>1, <1>2, <1>3, <1>4, <1>5, Assembled

LEMMA RevivedKeeps ==
    ASSUME IInv, NEW m \in Mission, MissionRevived(m)
    PROVE  IInv'
  <1>a. /\ missions' = [missions EXCEPT ![m].status = "live", ![m].revived = TRUE]
        /\ missions \in [Mission -> MissionRow] /\ missions[m].status # "absent"
    BY DEF MissionRevived, Live, IInv, TypeOK
  <1>1. Grows /\ Missions' /\ missions' \in [Mission -> MissionRow]
    <2>1. missions' \in [Mission -> MissionRow]
      BY <1>a DEF MissionRow, MissionStatus
    <2>2. Grows
      BY <1>a DEF Grows, MissionRow
    <2>3. Missions'
      BY <1>a DEF IInv, Missions, MissionOK, MissionRow
    <2>4. QED
      BY <2>1, <2>2, <2>3
  <1>2. Acked' /\ acked' \subseteq Automation \X Event
    BY <1>1, SameAcked DEF MissionRevived
  <1>3. Requests' /\ req' \in [Request -> Req]
    BY <1>1, SameReqs DEF MissionRevived
  <1>4. Rows' /\ Receipts' /\ autos' \in [Automation -> Row]
    BY <1>1, SameRows DEF MissionRevived
  <1>5. SmallTypes'
    BY DEF MissionRevived, IInv, TypeOK, SmallTypes
  <1>6. QED
    BY <1>1, <1>2, <1>3, <1>4, <1>5, Assembled

LEMMA StepKeeps ==
    ASSUME IInv, [Next]_vars
    PROVE  IInv'
  <1>1. CASE UNCHANGED vars
    BY <1>1 DEF vars, IInv, TypeOK, Rows, RowOK, Over, Receipts, ReceiptOK, Missions, MissionOK,
                Requests, ReqOK, Delivered, Acked
  <1>2. CASE Definitions
    BY <1>2, CreateKeeps, ArmKeeps, StatusKeeps DEF Definitions
  <1>3. ASSUME NEW r \in Request, Delegations(r) PROVE IInv'
    BY <1>3, DeployKeeps, ClaimKeeps, DeliverKeeps, SubmitKeeps, RejectedKeeps,
       RecordDeployKeeps, RecordEventKeeps, AcknowledgeKeeps DEF Delegations
  <1>4. ASSUME NEW r \in Request, Changes(r) PROVE IInv'
    BY <1>4, StopKeeps, NextPassKeeps, SetStatusKeeps, ChangeKeeps, CancelKeeps,
       RecordCancelKeeps, GiveUpKeeps, FinishEditKeeps, FinishDeleteKeeps, RefreshKeeps,
       FinishRefreshKeeps DEF Changes
  <1>5. CASE Environment
    BY <1>5, EndsKeeps, RevivedKeeps, DiesKeeps, CrashKeeps DEF Environment
  <1>6. QED
    BY <1>1, <1>2, <1>3, <1>4, <1>5 DEF Next

LEMMA InitInv == Init => IInv
  <1> SUFFICES ASSUME Init PROVE IInv
    OBVIOUS
  <1>1. \A trigger \in {"manual", "event"} : Fresh(trigger, TRUE) \in Row
    BY FreshTypes
  <1>2. TypeOK
    <2>1. autos \in [Automation -> Row]
      BY <1>1 DEF Init
    <2>2. req \in [Request -> Req]
      BY NoReqType DEF Init
    <2>3. missions \in [Mission -> MissionRow]
      BY DEF Init, NoMission, MissionRow, MissionStatus, OrNone
    <2>4. commands \in 0 .. MaxCommands /\ faults \in 0 .. MaxFaults
      BY WorkAssumption DEF Init
    <2>5. wiring \in Wirings /\ app = "active" /\ job = [j \in Job |-> "active"] /\ acked = {}
      BY DEF Init
    <2>6. QED
      BY <2>1, <2>2, <2>3, <2>4, <2>5 DEF TypeOK
  <1>3. Rows /\ Receipts
    BY DEF Init, Rows, RowOK, Receipts, ReceiptOK, Fresh, NoReceipts, NoReceipt
  <1>4. Missions /\ Acked
    BY DEF Init, Missions, MissionOK, NoMission, Acked
  <1>5. Requests
    BY DEF Init, Requests, ReqOK, NoReq
  <1>6. QED
    BY <1>2, <1>3, <1>4, <1>5 DEF IInv

(* The invariant holds of every reachable state. *)
THEOREM WorkInvariant == Spec => []IInv
  <1>1. QED
    BY InitInv, StepKeeps, PTL DEF Spec

(* Every variable keeps its type, whatever the requests do at once. *)
THEOREM TypeCorrect == Spec => []TypeOK
  <1>1. IInv => TypeOK
    BY DEF IInv
  <1>2. QED
    BY <1>1, WorkInvariant, PTL

(* A replayed delivery is answered with the Mission started for that       *)
(* automation and that event, whatever crashed or was edited in between.   *)
THEOREM ReceiptsNameTheirMission == Spec => []ReceiptNamesItsMission
  <1>1. IInv => ReceiptNamesItsMission
    BY DEF IInv, Receipts, ReceiptOK, ReceiptNamesItsMission
  <1>2. QED
    BY <1>1, WorkInvariant, PTL

-----------------------------------------------------------------------------
(* Stopping a job. *)

(* Only three actions touch a job's status. *)
LEMMA JobChanges ==
    ASSUME [Next]_vars, job' # job
    PROVE  \/ \E j \in Job : ResumeJob(j)
           \/ ArchiveApp
           \/ \E r \in Request : SetJobStatus(r)
  BY DEF Next, vars, Definitions, Delegations, Changes, Environment, CreateAutomation, ArmEvent,
         UpdateApp, Deploy, Claim, Deliver, Submit, SubmitRejected, RecordDeploy, RecordEvent,
         Acknowledge, Stop, NextPass, Change, CancelMission, RecordCancel, GiveUp, FinishEdit,
         FinishDelete, Refresh, FinishRefresh, MissionEnds, MissionRevived, RequestDies, Crash

(* A row with nothing to stop lists no Mission that still runs its first   *)
(* time.                                                                   *)
LEMMA NothingToStop ==
    ASSUME IInv, NEW a \in Automation, NEW m \in Tracked(autos[a]), Live(m),
           ~autos[a].exists \/ ToStop(autos[a]) = {}
    PROVE  missions[m].revived
  <1>1. autos[a] \in Row /\ RowOK(a)
    BY DEF IInv, TypeOK, Rows
  <1>2. autos[a].state \in {"ended", "not_deployed"}
    BY <1>1 DEF RowOK, ToStop
  <1>3. m = autos[a].mission /\ m # None
    BY <1>1, <1>2 DEF RowOK, Tracked, Expected
  <1>4. QED
    BY <1>1, <1>2, <1>3 DEF RowOK, Over, Live

(* When a job is paused or archived by its own route, no Mission that its  *)
(* automations list is live, for any number of requests, passes and        *)
(* automations, suspending or not.                                         *)
THEOREM StopIsComplete == Spec => StopLeavesNothingRunning
  <1> DEFINE A == \A j \in Job : job[j] = "active" /\ job'[j] # "active" /\ app' = app =>
                    \A a \in Automation, m \in Mission :
                       JobOf[a] = j /\ m \in Tracked(autos[a]) /\ Live(m) => missions[m].revived
  <1>1. ASSUME IInv, [Next]_vars PROVE A
    <2> SUFFICES ASSUME NEW j \in Job, job[j] = "active", job'[j] # "active", app' = app,
                        NEW a \in Automation, NEW m \in Mission,
                        JobOf[a] = j, m \in Tracked(autos[a]), Live(m)
                 PROVE  missions[m].revived
      OBVIOUS
    <2>1. job \in [Job -> {"active", "paused", "archived"}]
      BY <1>1 DEF IInv, TypeOK
    <2>2. ~ArchiveApp /\ ~\E k \in Job : ResumeJob(k)
      BY <2>1 DEF ArchiveApp, ResumeJob
    <2>3. PICK r \in Request : SetJobStatus(r)
      BY <1>1, <2>2, JobChanges
    <2>4. req[r].job = j
      BY <2>1, <2>3 DEF SetJobStatus
    <2>5. StopPairs(j) = {}
      BY <2>3, <2>4 DEF SetJobStatus
    <2>6. ToStop(autos[a]) \subseteq Mission
      BY <1>1, TrackedTypes DEF IInv, TypeOK
    <2>7. ASSUME autos[a].exists, NEW n \in ToStop(autos[a]) PROVE FALSE
      <3>1. <<a, n>> \in StopPairs(j)
        BY <2>6, <2>7 DEF StopPairs
      <3>2. QED
        BY <2>5, <3>1
    <2>8. ~autos[a].exists \/ ToStop(autos[a]) = {}
      BY <2>7
    <2>9. QED
      BY <1>1, <2>8, NothingToStop
  <1>2. QED
    BY <1>1, WorkInvariant, PTL DEF Spec, StopLeavesNothingRunning

-----------------------------------------------------------------------------
(* At most one Mission per delivery. *)

(* Only three actions touch the Missions' owners and events or what was    *)
(* acknowledged.                                                           *)
LEMMA SamePairs ==
    ASSUME IInv, \A m \in Mission : /\ missions'[m].owner = missions[m].owner
                                    /\ missions'[m].event = missions[m].event
    PROVE  StartedPairs' = StartedPairs
  BY DEF StartedPairs, DeliveryOf

LEMMA QuietStep ==
    ASSUME IInv, [Next]_vars, ~\E r \in Request : Submit(r) \/ Acknowledge(r)
    PROVE  StartedPairs' = StartedPairs /\ acked' = acked
  <1>1. missions \in [Mission -> MissionRow]
    BY DEF IInv, TypeOK
  <1>2. acked' = acked
    BY DEF Next, vars, Definitions, Delegations, Changes, Environment, CreateAutomation, ArmEvent,
         ResumeJob, UpdateApp, ArchiveApp, Deploy, Claim, Deliver, SubmitRejected, RecordDeploy,
         RecordEvent, Stop, NextPass, SetJobStatus, Change, CancelMission, RecordCancel, GiveUp,
         FinishEdit, FinishDelete, Refresh, FinishRefresh, MissionEnds, MissionRevived,
         RequestDies, Crash
  <1>3. \/ UNCHANGED missions
        \/ \E r \in Request, pair \in Automation \X Mission : CancelMission(r, pair)
        \/ \E m \in Mission : MissionEnds(m) \/ MissionRevived(m)
    BY DEF Next, vars, Definitions, Delegations, Changes, Environment, CreateAutomation, ArmEvent,
         ResumeJob, UpdateApp, ArchiveApp, Deploy, Claim, Deliver, SubmitRejected, RecordDeploy,
         RecordEvent, Stop, NextPass, SetJobStatus, Change, RecordCancel, GiveUp,
         FinishEdit, FinishDelete, Refresh, FinishRefresh, RequestDies, Crash
  <1>4. \A m \in Mission : missions'[m].owner = missions[m].owner
                           /\ missions'[m].event = missions[m].event
    <2>1. CASE UNCHANGED missions
      BY <2>1
    <2>2. CASE \E r \in Request, pair \in Automation \X Mission : CancelMission(r, pair)
      BY <1>1, <2>2 DEF CancelMission, MissionRow
    <2>3. CASE \E m \in Mission : MissionEnds(m) \/ MissionRevived(m)
      BY <1>1, <2>3 DEF MissionEnds, MissionRevived, MissionRow
    <2>4. QED
      BY <1>3, <2>1, <2>2, <2>3
  <1>5. QED
    BY <1>2, <1>4, SamePairs

LEMMA SubmitStarts ==
    ASSUME IInv, NEW r \in Request, Submit(r)
    PROVE  acked' = acked /\
           (StartedPairs' = StartedPairs
            \/ \E d \in Automation \X Event, m \in Mission : Promise!Start(d, m))
  <1>0. acked' = acked
    BY DEF Submit
  <1>1. PICK a \in Automation : a = req[r].auto
    BY DEF Submit, Submitting, IInv, Requests, ReqOK
  <1>2. PICK e \in OrNone(Event) : e = req[r].event
    BY ReqFields DEF IInv
  <1>3. PICK m \in Submitted(a, e) :
          missions' = IF missions[m].status = "absent"
                        THEN [missions EXCEPT ![m] = Started(a, e)] ELSE missions
    BY <1>1, <1>2 DEF Submit
  <1>4. m \in Mission /\ missions \in [Mission -> MissionRow]
    BY <1>3 DEF Submitted, Existing, IInv, TypeOK
  <1>5. CASE missions[m].status # "absent"
    <2>1. missions' = missions
      BY <1>3, <1>5
    <2>2. QED
      BY <1>0, <2>1 DEF StartedPairs, DeliveryOf
  <1>6. CASE missions[m].status = "absent"
    <2>1. missions[m].event = None
      BY <1>4, <1>6 DEF IInv, Missions, MissionOK
    <2>2. /\ missions'[m].owner = a /\ missions'[m].event = e
          /\ \A n \in Mission \ {m} : missions'[n] = missions[n]
      BY <1>3, <1>4, <1>6 DEF Started, NoMission
    <2>3. CASE e = None
      <3>1. {n \in Mission : missions'[n].event # None} = {n \in Mission : missions[n].event # None}
        BY <2>1, <2>2, <2>3
      <3>2. \A n \in Mission : missions[n].event # None => missions'[n] = missions[n]
        BY <2>1, <2>2
      <3>3. StartedPairs' = StartedPairs
        BY <3>1, <3>2 DEF StartedPairs, DeliveryOf
      <3>4. QED
        BY <1>0, <3>3
    <2>4. CASE e # None
      <3>1. <<a, e>> \in Automation \X Event
        BY <2>4 DEF OrNone
      <3>2. Existing(a, e) = {}
        BY <1>3, <1>6, <2>1, <2>4 DEF Submitted, Existing
      <3>3. \A pair \in StartedPairs : pair[1] # <<a, e>> /\ pair[2] # m
        BY <2>1, <2>4, <3>2 DEF StartedPairs, DeliveryOf, Existing
      <3>4. {n \in Mission : missions'[n].event # None}
              = {n \in Mission : missions[n].event # None} \cup {m}
        BY <1>4, <2>1, <2>2, <2>4
      <3>5. \A n \in Mission : missions[n].event # None => missions'[n] = missions[n]
        BY <2>1, <2>2
      <3>6. StartedPairs' = StartedPairs \cup {<<<<a, e>>, m>>}
        BY <2>2, <3>4, <3>5 DEF StartedPairs, DeliveryOf
      <3>7. Promise!Start(<<a, e>>, m)
        BY <1>0, <3>3, <3>6 DEF Promise!Start
      <3>8. QED
        BY <1>0, <1>4, <3>1, <3>7
    <2>5. QED
      BY <2>3, <2>4
  <1>7. QED
    BY <1>5, <1>6

LEMMA AcknowledgePromises ==
    ASSUME IInv, NEW r \in Request, Acknowledge(r)
    PROVE  \E ds \in SUBSET (Automation \X Event) : Promise!Promise(ds)
  <1>1. PICK e \in Event : e = req[r].event
    BY DEF Acknowledge, At, IInv, Requests, ReqOK
  <1>2. req[r].done \subseteq Automation /\ \A a \in req[r].done : Delivered(a, e)
    BY <1>1, ReqFields DEF Acknowledge, At, IInv, Requests, ReqOK
  <1>3. acked' = acked \cup (req[r].done \X {e}) /\ UNCHANGED missions
    BY <1>1 DEF Acknowledge
  <1>4. ASSUME NEW a \in req[r].done PROVE <<a, e>> \in Promise!Started
    <2>1. PICK m \in Mission : missions[m].owner = a /\ missions[m].event = e
      BY <1>2 DEF Delivered
    <2>2. <<<<a, e>>, m>> \in StartedPairs
      BY <2>1, WorkAssumption DEF StartedPairs, DeliveryOf
    <2>3. QED
      BY <2>2 DEF Promise!Started
  <1>5. req[r].done \X {e} \subseteq Promise!Started
    BY <1>4
  <1>6. StartedPairs' = StartedPairs
    BY <1>3 DEF StartedPairs, DeliveryOf
  <1>7. Promise!Promise(req[r].done \X {e})
    BY <1>3, <1>5, <1>6 DEF Promise!Promise
  <1>8. QED
    BY <1>2, <1>7

(* Each delivery starts at most one Mission, however often it is sent      *)
(* again and whatever crashes, and is acknowledged only once it has:       *)
(* WorkDelegation implements EventDelivery.                                *)
THEOREM AtMostOnce == Spec => DeliveredOnce
  <1>1. Init => Promise!Init
    BY DEF Init, NoMission, StartedPairs, Promise!Init
  <1>2. ASSUME IInv, [Next]_vars PROVE [Promise!Next]_(Promise!vars)
    <2>1. CASE \E r \in Request : Submit(r)
      BY <1>2, <2>1, SubmitStarts DEF Promise!Next, Promise!vars
    <2>2. CASE \E r \in Request : Acknowledge(r)
      BY <1>2, <2>2, AcknowledgePromises DEF Promise!Next
    <2>3. CASE ~\E r \in Request : Submit(r) \/ Acknowledge(r)
      BY <1>2, <2>3, QuietStep DEF Promise!vars
    <2>4. QED
      BY <2>1, <2>2, <2>3
  <1>3. QED
    BY <1>1, <1>2, WorkInvariant, PTL DEF Spec, DeliveredOnce, Promise!Spec

(* What EventDelivery is worth: one delivery never has two Missions, and   *)
(* one that was answered has its Mission.                                  *)
OneMissionEach ==
    /\ \A p, q \in StartedPairs : p[1] = q[1] => p = q
    /\ acked \subseteq Promise!Started

(* A webhook that is sent again, at once or after a crash between the      *)
(* submission and the record of it, starts no second Mission               *)
(* (work.py, _dispatch_event).  It follows from the abstract steps alone.  *)
THEOREM NoSecondMission == Spec => []OneMissionEach
  <1>1. Promise!Init => OneMissionEach
    BY DEF Promise!Init, OneMissionEach
  <1>2. ASSUME OneMissionEach, [Promise!Next]_(Promise!vars)
        PROVE  OneMissionEach'
    <2>1. CASE UNCHANGED Promise!vars
      BY <1>2, <2>1 DEF OneMissionEach, Promise!vars, Promise!Started
    <2>2. ASSUME NEW d \in Automation \X Event, NEW m \in Mission,
                 Promise!Start(d, m)
          PROVE  OneMissionEach'
      <3>1. /\ \A pair \in StartedPairs : pair[1] # d
            /\ StartedPairs' = StartedPairs \cup {<<d, m>>}
            /\ acked' = acked
        BY <2>2 DEF Promise!Start
      <3>2. Promise!Started \subseteq Promise!Started'
        BY <3>1 DEF Promise!Started
      <3>3. \A p, q \in StartedPairs' : p[1] = q[1] => p = q
        BY <1>2, <3>1 DEF OneMissionEach
      <3> QED
        BY <1>2, <3>1, <3>2, <3>3 DEF OneMissionEach
    <2>3. ASSUME NEW ds \in SUBSET (Automation \X Event), Promise!Promise(ds)
          PROVE  OneMissionEach'
      BY <1>2, <2>3 DEF Promise!Promise, Promise!Started, OneMissionEach
    <2> QED
      BY <1>2, <2>1, <2>2, <2>3 DEF Promise!Next
  <1> QED
    BY <1>1, <1>2, AtMostOnce, PTL DEF DeliveredOnce, Promise!Spec

=============================================================================

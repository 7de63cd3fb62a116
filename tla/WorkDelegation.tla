--------------------------- MODULE WorkDelegation ---------------------------
(* One Work app: its jobs, their automations, the Missions the automations *)
(* delegate to, and the HTTP requests that deploy, deliver events to, stop,*)
(* edit, delete and refresh them.                                          *)
(*   work/store_automations.py       the rows and what one mutation does   *)
(*   work/store.py, store_jobs.py    the app's and the jobs' status        *)
(*   server/routes/work.py           one request = one coroutine           *)
(*   server/routes/work_mission_runtime.py  cancelling before a change     *)
(*   server/app_routes_init.py       submit, read and cancel a Mission     *)
(* A store mutation is one step: it saves the file under a lock and        *)
(* replaces the state in memory only after the save.                       *)
EXTENDS Naturals, FiniteSets

CONSTANTS Job, Automation, Event, Mission, Request,
          JobOf,       \* the job an automation id belongs to
          None,        \* no Mission, no event, no automation, no job
          Wirings,     \* how the server may have wired the Work routes
          StopPasses,  \* range(3) in cancel_job_automation_missions
          MaxCommands, \* bound: HTTP requests
          MaxFaults    \* bound: crashes and failed saves

ASSUME WorkAssumption ==
    /\ None \notin Job \cup Automation \cup Event \cup Mission
    /\ JobOf \in [Automation -> Job]
    /\ Wirings \subseteq [suspends : BOOLEAN, cancels : BOOLEAN]
    /\ StopPasses \in Nat \ {0}
    /\ {MaxCommands, MaxFaults} \subseteq Nat

VARIABLES wiring,    \* do the injected Mission callables suspend; can one cancel
          app,       \* the app's status
          job,       \* each job's status
          autos,     \* the automation rows
          missions,  \* the Missions started for them
          req,       \* what each request in flight is doing
          acked,     \* deliveries whose sender got an answer
          commands,  \* HTTP requests so far
          faults     \* crashes and failed saves so far

vars == <<wiring, app, job, autos, missions, req, acked, commands, faults>>

-----------------------------------------------------------------------------
(* Rows. The states and Mission statuses that no code here tells apart are *)
(* one: deployed stands for queued, running and awaiting_approval too, and *)
(* ended for succeeded, failed, dead and cancelled. mission is             *)
(* mission_job_id or last_mission_job_id: a row never holds both. last_run *)
(* is left out: a row whose last run is terminal says so in its state too. *)

OrNone(S) == S \cup {None}

Receipt == [state : {"none", "pending", "failed", "delegated"}, mission : OrNone(Mission)]
NoReceipt == [state |-> "none", mission |-> None]
NoReceipts == [e \in Event |-> NoReceipt]

RowState == {"not_deployed", "submitting", "deployed", "armed", "ended"}

Row == [exists : BOOLEAN, enabled : BOOLEAN, trigger : {"manual", "event"},
        state : RowState, mission : OrNone(Mission), active : SUBSET Mission,
        receipts : [Event -> Receipt]]

Fresh(trigger, enabled) ==
    [exists |-> TRUE, enabled |-> enabled, trigger |-> trigger,
     state |-> "not_deployed", mission |-> None, active |-> {},
     receipts |-> NoReceipts]

NoRow == [Fresh("manual", FALSE) EXCEPT !.exists = FALSE]

MissionStatus == {"absent", "live", "ended"}

MissionRow == [status : MissionStatus,
               owner : OrNone(Automation), event : OrNone(Event), revived : BOOLEAN]
NoMission == [status |-> "absent", owner |-> None, event |-> None, revived |-> FALSE]

Live(m) == missions[m].status = "live"

(* The Mission ids a reconciliation accepts, and those the routes list as  *)
(* the automation's own: an armed row's last Mission counts only while it  *)
(* is active.                                                              *)
Expected(row) == row.active \cup ({row.mission} \ {None})
Tracked(row) == IF row.state = "armed" THEN row.active ELSE Expected(row)

(* What cancel_automation_missions asks the canceller to stop.             *)
ToStopMutant(row) == IF row.state \in {"ended", "not_deployed", "armed"} THEN {} ELSE Tracked(row)
ToStop(row) == IF row.state \in {"ended", "not_deployed"} THEN {} ELSE Tracked(row)

-----------------------------------------------------------------------------
(* Mutations of a row. *)

InProgressMutant(row) == row.state \in {"submitting", "armed"}
InProgress(row) == row.state \in {"submitting", "deployed"}

Claimed(row) == [row EXCEPT !.state = "submitting", !.mission = None]

FailedSubmissionMutant(row) == row
FailedSubmission(row) ==
    IF row.state = "submitting" THEN [row EXCEPT !.state = "ended"] ELSE row

(* mark_automation_delegated and arm_event_automation replace the whole    *)
(* delegation: Missions and receipts it held are dropped.                  *)
Delegated(row, m) == [Fresh(row.trigger, row.enabled) EXCEPT !.state = "deployed", !.mission = m]
Armed(row) == [Fresh(row.trigger, row.enabled) EXCEPT !.state = "armed"]

ClaimedEvent(row, e) == [row EXCEPT !.receipts[e].state = "pending"]
FailedEvent(row, e) ==
    IF row.receipts[e].state = "pending" THEN [row EXCEPT !.receipts[e].state = "failed"] ELSE row

RecordedEventMutant(row, e, m) ==
    [row EXCEPT !.receipts[e] = [state |-> "delegated", mission |-> row.mission],
                !.mission = m, !.active = row.active \cup {m}]
RecordedEvent(row, e, m) ==
    [row EXCEPT !.receipts[e] = [state |-> "delegated", mission |-> m],
                !.mission = m, !.active = row.active \cup {m}]

ReconciledMutant(row, m, status) ==
    [row EXCEPT !.active = row.active \ {m},
                !.state = IF row.state = "armed" THEN "armed"
                          ELSE IF status = "ended" THEN "ended" ELSE "deployed"]
ReconciledRawMutant(row, m, status) ==
    [row EXCEPT !.active = IF status = "ended" THEN row.active \ {m} ELSE row.active,
                !.state = IF row.state = "armed" THEN "armed" ELSE status]
Reconciled(row, m, status) ==
    [row EXCEPT !.active = IF status = "ended" THEN row.active \ {m} ELSE row.active,
                !.state = IF row.state = "armed" THEN "armed"
                          ELSE IF status = "ended" THEN "ended" ELSE "deployed"]

SetRow(a, row) == autos' = [autos EXCEPT ![a] = row]

-----------------------------------------------------------------------------
(* Requests. deploy and deliver go claim -> submit -> record; stop, edit   *)
(* and delete cancel the pairs (automation, Mission) they listed, each     *)
(* confirmed cancellation being reconciled before the next.                *)

Req == [op : {"none", "deploy", "deliver", "stop", "edit", "delete", "refresh"},
        pc : {"next", "submit", "record"},
        auto : OrNone(Automation), mission : OrNone(Mission), event : OrNone(Event),
        job : OrNone(Job), status : MissionStatus, todo : SUBSET Automation,
        done : SUBSET Automation, pairs : SUBSET (Automation \X Mission), pass : Nat]

NoReq == [op |-> "none", pc |-> "next", auto |-> None, mission |-> None,
          event |-> None, job |-> None, status |-> "absent", todo |-> {},
          done |-> {}, pairs |-> {}, pass |-> 0]

Idle(r) == req[r].op = "none"

(* While the callables never suspend, a request runs to its end before the *)
(* event loop takes up another.                                            *)
Quiet(r) == wiring.suspends \/ \A q \in Request \ {r} : Idle(q)
AllQuiet == wiring.suspends \/ \A q \in Request : Idle(q)

SetReq(r, record) == req' = [req EXCEPT ![r] = record]
EndReq(r) == SetReq(r, NoReq)

Command == commands < MaxCommands /\ commands' = commands + 1
Begins(r) == Idle(r) /\ Quiet(r) /\ Command
At(r, op, pc) == req[r].op = op /\ req[r].pc = pc /\ Quiet(r)

TypeOK ==
    /\ wiring \in Wirings
    /\ app \in {"active", "paused", "archived"}
    /\ job \in [Job -> {"active", "paused", "archived"}]
    /\ autos \in [Automation -> Row]
    /\ missions \in [Mission -> MissionRow]
    /\ req \in [Request -> Req]
    /\ acked \subseteq Automation \X Event
    /\ commands \in 0 .. MaxCommands
    /\ faults \in 0 .. MaxFaults

(* Each automation has been created, and nothing has been deployed yet.    *)
Init ==
    /\ wiring \in Wirings
    /\ app = "active"
    /\ job = [j \in Job |-> "active"]
    /\ autos \in [Automation -> {Fresh(trigger, TRUE) : trigger \in {"manual", "event"}}]
    /\ missions = [m \in Mission |-> NoMission]
    /\ req = [r \in Request |-> NoReq]
    /\ acked = {}
    /\ commands = 0
    /\ faults = 0

-----------------------------------------------------------------------------
(* The app and its jobs. Creating, arming, resuming and archiving are one  *)
(* synchronous mutation each.                                              *)

CreateAutomation(a) ==
    /\ AllQuiet /\ Command
    /\ ~autos[a].exists
    /\ \E trigger \in {"manual", "event"}, enabled \in BOOLEAN :
          SetRow(a, Fresh(trigger, enabled))
    /\ UNCHANGED <<wiring, app, job, missions, req, acked, faults>>

(* What build_mission_job_payload asks before anything is deployed.        *)
Deployable(a) ==
    /\ app = "active"
    /\ job[JobOf[a]] = "active"
    /\ autos[a].exists
    /\ autos[a].enabled

ArmEvent(a) ==
    /\ AllQuiet /\ Command
    /\ Deployable(a)
    /\ autos[a].trigger = "event"
    /\ SetRow(a, Armed(autos[a]))
    /\ UNCHANGED <<wiring, app, job, missions, req, acked, faults>>

ResumeJob(j) ==
    /\ AllQuiet /\ Command
    /\ job[j] = "paused"
    /\ job' = [job EXCEPT ![j] = "active"]
    /\ UNCHANGED <<wiring, app, autos, missions, req, acked, faults>>

UpdateApp ==
    /\ AllQuiet /\ Command
    /\ app # "archived"
    /\ app' \in {"active", "paused"} \ {app}
    /\ UNCHANGED <<wiring, job, autos, missions, req, acked, faults>>

(* archive_app archives every job too, and cancels nothing.                *)
ArchiveApp ==
    /\ AllQuiet /\ Command
    /\ app # "archived"
    /\ app' = "archived"
    /\ job' = [j \in Job |-> "archived"]
    /\ UNCHANGED <<wiring, autos, missions, req, acked, faults>>

-----------------------------------------------------------------------------
(* Deploying a manual automation, and delivering an event to every armed   *)
(* one: claim, submit, record.                                             *)

Deploy(r, a) ==
    /\ Begins(r)
    /\ Deployable(a)
    /\ autos[a].trigger = "manual"
    /\ ~InProgress(autos[a])
    /\ SetRow(a, Claimed(autos[a]))
    /\ SetReq(r, [NoReq EXCEPT !.op = "deploy", !.pc = "submit", !.auto = a])
    /\ UNCHANGED <<wiring, app, job, missions, acked, faults>>

Listening(a) == Deployable(a) /\ autos[a].trigger = "event" /\ autos[a].state = "armed"

(* event_delivery_locks: one delivery of an event id at a time. The        *)
(* listeners are a snapshot; an event nobody listens to changes nothing.   *)
Deliver(r, e) ==
    /\ Begins(r)
    /\ \A q \in Request : req[q].op = "deliver" => req[q].event # e
    /\ \E a \in Automation : Listening(a)
    /\ SetReq(r, [NoReq EXCEPT !.op = "deliver", !.event = e,
                               !.todo = {a \in Automation : Listening(a)}])
    /\ UNCHANGED <<wiring, app, job, autos, missions, acked, faults>>

Armable(a) == autos[a].exists /\ autos[a].state = "armed"

(* A delivery the row has recorded is replayed; any other is claimed.      *)
Replayed(row, e) == row.receipts[e].state = "delegated"

Claim(r, a) ==
    /\ At(r, "deliver", "next")
    /\ a \in req[r].todo
    /\ IF ~Armable(a)
         THEN EndReq(r) /\ UNCHANGED autos
         ELSE IF Replayed(autos[a], req[r].event)
         THEN /\ SetReq(r, [req[r] EXCEPT !.todo = req[r].todo \ {a}, !.done = req[r].done \cup {a}])
              /\ UNCHANGED autos
         ELSE /\ SetReq(r, [req[r] EXCEPT !.todo = req[r].todo \ {a}, !.auto = a, !.pc = "submit"])
              /\ SetRow(a, ClaimedEvent(autos[a], req[r].event))
    /\ UNCHANGED <<wiring, app, job, missions, acked, commands, faults>>

(* The Missions submit_to_mission may answer with: a delivery's id is a    *)
(* hash of it, so one that exists is returned; any other submit is new.    *)
Existing(a, e) ==
    {m \in Mission : e # None /\ missions[m].owner = a /\ missions[m].event = e}

SubmittedMutant(a, e) == {m \in Mission : missions[m].status = "absent"}
Submitted(a, e) ==
    IF Existing(a, e) # {} THEN Existing(a, e)
                           ELSE {m \in Mission : missions[m].status = "absent"}

Submitting(r) == req[r].op \in {"deploy", "deliver"} /\ req[r].pc = "submit" /\ Quiet(r)
Recording(r) == req[r].op \in {"deploy", "deliver"} /\ req[r].pc = "record" /\ Quiet(r)

Started(a, e) == [NoMission EXCEPT !.status = "live", !.owner = a, !.event = e]

Submit(r) ==
    /\ Submitting(r)
    /\ \E m \in Submitted(req[r].auto, req[r].event) :
          /\ missions' = IF missions[m].status = "absent"
                           THEN [missions EXCEPT ![m] = Started(req[r].auto, req[r].event)]
                           ELSE missions
          /\ SetReq(r, [req[r] EXCEPT !.pc = "record", !.mission = m])
    /\ UNCHANGED <<wiring, app, job, autos, acked, commands, faults>>

Pending(a, e) == autos[a].receipts[e].state = "pending"

(* _submit_mission raised WorkDependencyUnavailableError. A row that was   *)
(* edited or deleted meanwhile has nothing left to fail.                   *)
SubmitRejected(r) ==
    /\ Submitting(r)
    /\ LET row == autos[req[r].auto]
       IN  SetRow(req[r].auto, IF req[r].op = "deploy" THEN FailedSubmission(row)
                                                       ELSE FailedEvent(row, req[r].event))
    /\ EndReq(r)
    /\ UNCHANGED <<wiring, app, job, missions, acked, commands, faults>>

RecordDeploy(r) ==
    /\ Recording(r)
    /\ req[r].op = "deploy"
    /\ IF autos[req[r].auto].exists
         THEN SetRow(req[r].auto, Delegated(autos[req[r].auto], req[r].mission))
         ELSE UNCHANGED autos
    /\ EndReq(r)
    /\ UNCHANGED <<wiring, app, job, missions, acked, commands, faults>>

RecordEvent(r) ==
    /\ Recording(r)
    /\ req[r].op = "deliver"
    /\ IF Armable(req[r].auto) /\ Pending(req[r].auto, req[r].event)
         THEN /\ SetRow(req[r].auto, RecordedEvent(autos[req[r].auto], req[r].event, req[r].mission))
              /\ SetReq(r, [req[r] EXCEPT !.pc = "next", !.done = req[r].done \cup {req[r].auto}])
         ELSE EndReq(r) /\ UNCHANGED autos
    /\ UNCHANGED <<wiring, app, job, missions, acked, commands, faults>>

Acknowledge(r) ==
    /\ At(r, "deliver", "next")
    /\ req[r].todo = {}
    /\ acked' = acked \cup (req[r].done \X {req[r].event})
    /\ EndReq(r)
    /\ UNCHANGED <<wiring, app, job, autos, missions, commands, faults>>

-----------------------------------------------------------------------------
(* Stopping a job, editing and deleting: every listed Mission is cancelled *)
(* and reconciled first, and one that is not confirmed ends the request.   *)

StopPairs(j) ==
    {pair \in Automation \X Mission :
        /\ JobOf[pair[1]] = j
        /\ autos[pair[1]].exists
        /\ pair[2] \in ToStop(autos[pair[1]])}

Stop(r, j) ==
    /\ Begins(r)
    /\ SetReq(r, [NoReq EXCEPT !.op = "stop", !.job = j])
    /\ UNCHANGED <<wiring, app, job, autos, missions, acked, faults>>

(* The next pass over the job's automations. One that finds nothing to     *)
(* cancel is followed at once by set_job_status; three that found some are *)
(* too many.                                                               *)
NextPass(r) ==
    /\ At(r, "stop", "next")
    /\ req[r].pairs = {}
    /\ req[r].pass < StopPasses
    /\ StopPairs(req[r].job) # {}
    /\ SetReq(r, [req[r] EXCEPT !.pass = req[r].pass + 1, !.pairs = StopPairs(req[r].job)])
    /\ UNCHANGED <<wiring, app, job, autos, missions, acked, commands, faults>>

SetJobStatus(r) ==
    /\ At(r, "stop", "next")
    /\ req[r].pairs = {}
    /\ req[r].pass < StopPasses
    /\ StopPairs(req[r].job) = {}
    /\ \E status \in {"paused", "archived"} :
          /\ job[req[r].job] = "archived" => status = "archived"
          /\ job' = [job EXCEPT ![req[r].job] = status]
    /\ EndReq(r)
    /\ UNCHANGED <<wiring, app, autos, missions, acked, commands, faults>>

Change(r, a, op) ==
    /\ Begins(r)
    /\ autos[a].exists
    /\ SetReq(r, [NoReq EXCEPT !.op = op, !.auto = a, !.pairs = {a} \X ToStop(autos[a])])
    /\ UNCHANGED <<wiring, app, job, autos, missions, acked, faults>>

Cancelling(r) == req[r].op \in {"stop", "edit", "delete"} /\ Quiet(r)

CancelMission(r, pair) ==
    /\ Cancelling(r)
    /\ req[r].pc = "next"
    /\ pair \in req[r].pairs
    /\ wiring.cancels
    /\ missions[pair[2]].status # "absent"
    /\ missions' = [missions EXCEPT ![pair[2]].status = "ended"]
    /\ SetReq(r, [req[r] EXCEPT !.pc = "record", !.pairs = req[r].pairs \ {pair},
                               !.auto = pair[1], !.mission = pair[2]])
    /\ UNCHANGED <<wiring, app, job, autos, acked, commands, faults>>

(* reconcile_cancelled_automation: the row must still know the Mission.    *)
RecordCancel(r) ==
    /\ Cancelling(r)
    /\ req[r].pc = "record"
    /\ IF req[r].mission \in Expected(autos[req[r].auto])
         THEN /\ SetRow(req[r].auto, Reconciled(autos[req[r].auto], req[r].mission, "ended"))
              /\ SetReq(r, [req[r] EXCEPT !.pc = "next"])
         ELSE EndReq(r) /\ UNCHANGED autos
    /\ UNCHANGED <<wiring, app, job, missions, acked, commands, faults>>

(* No canceller, or none that confirms; a delivery whose payload cannot be *)
(* built, because a connector account is not active; a third pass that     *)
(* still found Missions.                                                   *)
GiveUp(r) ==
    /\ \/ Cancelling(r) /\ req[r].pc = "next" /\ req[r].pairs # {}
       \/ At(r, "deliver", "next") /\ req[r].todo # {}
       \/ At(r, "stop", "next") /\ req[r].pairs = {} /\ req[r].pass = StopPasses
    /\ EndReq(r)
    /\ UNCHANGED <<wiring, app, job, autos, missions, acked, commands, faults>>

FinishEdit(r) ==
    /\ At(r, "edit", "next")
    /\ req[r].pairs = {}
    /\ \E trigger \in {"manual", "event"}, enabled \in BOOLEAN :
          IF autos[req[r].auto].exists THEN SetRow(req[r].auto, Fresh(trigger, enabled))
                                       ELSE UNCHANGED autos
    /\ EndReq(r)
    /\ UNCHANGED <<wiring, app, job, missions, acked, commands, faults>>

FinishDelete(r) ==
    /\ At(r, "delete", "next")
    /\ req[r].pairs = {}
    /\ SetRow(req[r].auto, NoRow)
    /\ EndReq(r)
    /\ UNCHANGED <<wiring, app, job, missions, acked, commands, faults>>

(* _reconcile_automations for one listed Mission: read it, then reconcile. *)
Refresh(r, a, m) ==
    /\ Begins(r)
    /\ autos[a].exists
    /\ m \in Tracked(autos[a])
    /\ SetReq(r, [NoReq EXCEPT !.op = "refresh", !.auto = a, !.mission = m,
                               !.status = missions[m].status])
    /\ UNCHANGED <<wiring, app, job, autos, missions, acked, faults>>

FinishRefresh(r) ==
    /\ At(r, "refresh", "next")
    /\ IF req[r].mission \in Expected(autos[req[r].auto])
         THEN SetRow(req[r].auto, Reconciled(autos[req[r].auto], req[r].mission, req[r].status))
         ELSE UNCHANGED autos
    /\ EndReq(r)
    /\ UNCHANGED <<wiring, app, job, missions, acked, commands, faults>>

-----------------------------------------------------------------------------
(* The Missions, and what can go wrong.                                    *)

MissionEnds(m) ==
    /\ Live(m)
    /\ missions' = [missions EXCEPT ![m].status = "ended"]
    /\ UNCHANGED <<wiring, app, job, autos, req, acked, commands, faults>>

(* Requeued, run now or made to recur behind Work's back. Bound: once.     *)
MissionRevived(m) ==
    /\ missions[m].status = "ended"
    /\ ~missions[m].revived
    /\ missions' = [missions EXCEPT ![m].status = "live", ![m].revived = TRUE]
    /\ UNCHANGED <<wiring, app, job, autos, req, acked, commands, faults>>

(* A save that fails, or an exception the route does not translate, ends   *)
(* one request where it stands; a crash ends all of them.                  *)
RequestDies(r) ==
    /\ ~Idle(r)
    /\ faults < MaxFaults
    /\ faults' = faults + 1
    /\ EndReq(r)
    /\ UNCHANGED <<wiring, app, job, autos, missions, acked, commands>>

Crash ==
    /\ faults < MaxFaults
    /\ \E r \in Request : ~Idle(r)
    /\ faults' = faults + 1
    /\ req' = [r \in Request |-> NoReq]
    /\ UNCHANGED <<wiring, app, job, autos, missions, acked, commands>>

Definitions ==
    \/ \E a \in Automation : CreateAutomation(a) \/ ArmEvent(a)
    \/ \E j \in Job : ResumeJob(j)
    \/ UpdateApp \/ ArchiveApp

Delegations(r) ==
    \/ \E a \in Automation : Deploy(r, a) \/ Claim(r, a)
    \/ \E e \in Event : Deliver(r, e)
    \/ Submit(r) \/ SubmitRejected(r) \/ RecordDeploy(r) \/ RecordEvent(r) \/ Acknowledge(r)

Changes(r) ==
    \/ \E j \in Job : Stop(r, j)
    \/ NextPass(r) \/ SetJobStatus(r)
    \/ \E a \in Automation, op \in {"edit", "delete"} : Change(r, a, op)
    \/ \E pair \in Automation \X Mission : CancelMission(r, pair)
    \/ RecordCancel(r) \/ GiveUp(r) \/ FinishEdit(r) \/ FinishDelete(r)
    \/ \E a \in Automation, m \in Mission : Refresh(r, a, m)
    \/ FinishRefresh(r)

Environment ==
    \/ \E m \in Mission : MissionEnds(m) \/ MissionRevived(m)
    \/ \E r \in Request : RequestDies(r)
    \/ Crash

Next ==
    \/ Definitions
    \/ \E r \in Request : Delegations(r) \/ Changes(r)
    \/ Environment

Spec == Init /\ [][Next]_vars

-----------------------------------------------------------------------------
(* A receipt that says "delegated" names the Mission started for that very *)
(* automation and event: what a replayed delivery is answered with.        *)
ReceiptNamesItsMission ==
    \A a \in Automation, e \in Event :
        LET receipt == autos[a].receipts[e]
        IN  receipt.state = "delegated" =>
              /\ receipt.mission # None
              /\ missions[receipt.mission].owner = a
              /\ missions[receipt.mission].event = e

(* Only a crash, a failed save or an untranslated exception can leave a    *)
(* claim behind: otherwise a row is submitting, or a receipt pending, only *)
(* while the request that claimed it is in flight, so that no later deploy *)
(* is refused by a claim nobody will finish.                               *)
ClaimsHaveARequest ==
    faults = 0 => \A a \in Automation :
        /\ autos[a].state = "submitting" =>
             \E r \in Request : req[r].op = "deploy" /\ req[r].auto = a
        /\ \A e \in Event : autos[a].receipts[e].state = "pending" =>
             \E r \in Request : req[r].op = "deliver" /\ req[r].event = e

(* A manual automation has one Mission at a time, as long as no request is *)
(* interrupted by a fault or by another request, and nobody revives a      *)
(* Mission behind Work's back.                                             *)
OneDeployment ==
    faults = 0 /\ ~wiring.suspends =>
        \A a \in Automation, m, n \in Mission :
            /\ missions[m].owner = a /\ missions[n].owner = a
            /\ missions[m].event = None /\ missions[n].event = None
            /\ Live(m) /\ Live(n)
            /\ ~missions[m].revived /\ ~missions[n].revived
            => m = n

(* "Cancel every active Mission before a job can pause or archive": when a *)
(* job leaves "active" by its own route, no Mission its automations list   *)
(* is live, whatever other requests were doing while it was stopped.       *)
StopLeavesNothingRunning ==
    [][\A j \in Job : job[j] = "active" /\ job'[j] # "active" /\ app' = app =>
          \A a \in Automation, m \in Mission :
             JobOf[a] = j /\ m \in Tracked(autos[a]) /\ Live(m) => missions[m].revived]_vars

(* A Mission stays in reach of pause, archive, edit and delete while it    *)
(* runs: only arming the automation again lets go of a live one.           *)
TrackedUntilEnded ==
    [][\A a \in Automation, m \in Mission :
          /\ ~wiring.suspends
          /\ m \in Tracked(autos[a]) /\ Live(m) /\ ~missions[m].revived
          => m \in Tracked(autos'[a]) \/ ArmEvent(a)]_vars

(* Events are delivered at most once to each automation, across redelivery,*)
(* re-arming, editing, failed saves and crashes, and answered only when    *)
(* their Mission exists.                                                   *)
DeliveryOf(m) == <<missions[m].owner, missions[m].event>>

StartedPairs == {<<DeliveryOf(m), m>> : m \in {n \in Mission : missions[n].event # None}}

Promise == INSTANCE EventDelivery
    WITH Delivery <- Automation \X Event, started <- StartedPairs, promised <- acked

DeliveredOnce == Promise!Spec
=============================================================================

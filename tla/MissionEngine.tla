---------------------------- MODULE MissionEngine ----------------------------
(***************************************************************************)
(* The autonomy engine of thomas/marketplace/autonomy/engine.py and the    *)
(* Mission requests that write the same rows.                              *)
(*                                                                         *)
(* Everything runs on one asyncio event loop and every store call is       *)
(* synchronous, so what a coroutine does between two awaits is one atomic  *)
(* step.  The engine's scheduler loop reaps, claims and spawns a batch of  *)
(* tasks in one step (Tick) and then awaits the whole batch; a task is     *)
(* "claimed" until it gets the semaphore and reloads its row, and          *)
(* "handling" while it awaits its handler.  Requests, the passing of time  *)
(* and crashes interleave anywhere between.                                *)
(*                                                                         *)
(* A crash loses the tasks and keeps the rows; the restarted server starts *)
(* a new engine on the same table.                                         *)
(***************************************************************************)
EXTENDS MissionStore

CONSTANTS Job,            \* the ids the jobs table can hold
          JobSpecs,       \* the kinds of job that are created
          ClaimBatch,     \* EngineTiming.claim_batch
          MaxConcurrency, \* the semaphore's initial value
          CrashPoints,    \* where a crash may hit: see the crash actions
          MaxTasks,       \* bound: live tasks of one job
          MaxApprovals,   \* bound: approval rows of one job
          MaxCrashes,     \* bound: crashes in a behaviour
          MaxRequests     \* bound: control requests in a behaviour

ASSUME EngineAssumption ==
    /\ JobSpecs \subseteq JobSpec
    /\ ClaimBatch \in Nat \ {0}
    /\ MaxConcurrency \in Nat \ {0}
    /\ CrashPoints \subseteq {"anywhere", "tick", "decide", "defer", "enqueue"}
    /\ {MaxTasks, MaxApprovals} \subseteq Nat \ {0}
    /\ {MaxCrashes, MaxRequests} \subseteq Nat

VARIABLES spec,       \* what each job is, or would be, created as; never changes
          rows,       \* the jobs table
          approvals,  \* the approvals table: each job's rows in insertion order
          tasks,      \* the asyncio tasks running _run_job, per job
          crashes,    \* number of crashes so far
          requests    \* number of control requests so far

vars == <<spec, rows, approvals, tasks, crashes, requests>>

-----------------------------------------------------------------------------
(* A task: where it is in _run_job, whether the loop's gather still awaits *)
(* it, and the attempts it read when it reloaded its row.                  *)

Slot == 1 .. MaxTasks
Task == [pc : {"none", "claimed", "handling"}, awaited : BOOLEAN, attempts : Nat]
NoTask == [pc |-> "none", awaited |-> FALSE, attempts |-> 0]

TypeOK ==
    /\ spec \in [Job -> JobSpecs]
    /\ rows \in [Job -> Row]
    /\ approvals \in [Job -> Seq(ApprovalStatus)]
    /\ tasks \in [Job -> [Slot -> Task]]
    /\ crashes \in Nat
    /\ requests \in Nat

Created == {j \in Job : rows[j].status # "absent"}

Live(j) == {s \in Slot : tasks[j][s].pc # "none"}

Handling == {js \in Job \X Slot : tasks[js[1]][js[2]].pc = "handling"}

(* The scheduler loop is at the top of its while: its gather has returned. *)
LoopIdleMutant == TRUE
LoopIdle == \A j \in Job, s \in Slot : ~tasks[j][s].awaited

(* create_job is told whether the job requires approval: by the request,   *)
(* or, for a planned action, by the policy the executor consulted.         *)
Flagged(j) ==
    IF spec[j].origin = "plan" THEN Decision(spec[j].risk) = "approve"
                               ELSE spec[j].flagged

SetRow(j, row) == rows' = [rows EXCEPT ![j] = row]

EndTask(j, s) == tasks' = [tasks EXCEPT ![j][s] = NoTask]

Init ==
    /\ spec \in [Job -> JobSpecs]
    /\ rows = [j \in Job |-> NoRow]
    /\ approvals = [j \in Job |-> <<>>]
    /\ tasks = [j \in Job |-> [s \in Slot |-> NoTask]]
    /\ crashes = 0
    /\ requests = 0

-----------------------------------------------------------------------------
(* Requests.  All of them reach the event loop of the engine's process.    *)

Request(j) ==
    /\ j \in Created
    /\ requests < MaxRequests
    /\ requests' = requests + 1
    /\ UNCHANGED <<spec, tasks, crashes>>

Create(j) ==
    /\ rows[j].status = "absent"
    /\ spec[j].origin = "user"
    /\ \E due \in BOOLEAN : SetRow(j, CreateJob(Flagged(j), due))
    /\ UNCHANGED <<spec, approvals, tasks, crashes, requests>>

Cancel(j) ==
    /\ Request(j)
    /\ SetRow(j, CancelJob(rows[j]))
    /\ UNCHANGED approvals

RunNow(j) ==
    /\ Request(j)
    /\ SetRow(j, QueueNow(rows[j]))
    /\ UNCHANGED approvals

Requeue(j) ==
    /\ Request(j)
    /\ SetRow(j, RequeueRow(rows[j]))
    /\ UNCHANGED approvals

(* The decision route acts on the decision of the REQUEST, also when the   *)
(* approval had been decided before.                                       *)
Decide(j, i, approve) ==
    /\ Request(j)
    /\ i \in DOMAIN approvals[j]
    /\ approvals' = [approvals EXCEPT ![j] = DecideApproval(@, i, approve)]
    /\ SetRow(j, IF approve THEN ApproveRow(rows[j]) ELSE CancelJob(rows[j]))

(* Stopping an autopilot objective cancels every job that carries its id   *)
(* and is not terminal; any set of jobs can carry one id.                  *)
StopObjective(objective) ==
    /\ objective \subseteq Created
    /\ requests < MaxRequests
    /\ requests' = requests + 1
    /\ rows' = [j \in Job |->
                  IF j \in objective /\ rows[j].status \notin TerminalStatus
                  THEN CancelJob(rows[j]) ELSE rows[j]]
    /\ UNCHANGED <<spec, approvals, tasks, crashes>>

-----------------------------------------------------------------------------
(* The scheduler loop.                                                     *)

Reaped(j) == ReapRow(rows[j])

ClaimableJobs == {j \in Job : Claimable(Reaped(j))}

FreeSlot(j) == CHOOSE s \in Slot \ Live(j) : TRUE

(* One iteration: reap, claim up to ClaimBatch due jobs, spawn their       *)
(* tasks.  Which jobs are claimed when there are more (the oldest          *)
(* next_run_at first) is left open.                                        *)
Tick ==
    /\ LoopIdle
    /\ \E batch \in SUBSET ClaimableJobs :
         /\ \/ Cardinality(batch) = ClaimBatch
            \/ Cardinality(batch) < ClaimBatch /\ batch = ClaimableJobs
         /\ \A j \in batch : Slot \ Live(j) # {}
         /\ rows' = [j \in Job |-> IF j \in batch THEN ClaimRow(Reaped(j))
                                                  ELSE Reaped(j)]
         /\ tasks' = [j \in Job |->
                        IF j \in batch
                        THEN [tasks[j] EXCEPT ![FreeSlot(j)] =
                                [NoTask EXCEPT !.pc = "claimed", !.awaited = TRUE]]
                        ELSE tasks[j]]
    /\ UNCHANGED <<spec, approvals, crashes, requests>>

-----------------------------------------------------------------------------
(* A task holds the semaphore, reloads its row and passes the policy gate. *)

Reload(j, s) ==
    /\ tasks[j][s].pc = "claimed"
    /\ Cardinality(Handling) < MaxConcurrency
    /\ UNCHANGED <<spec, crashes, requests>>

GateOpenMutant(j) == ~rows[j].cancelled /\ Decision(spec[j].risk) # "deny"
GateOpen(j) ==
    /\ ~rows[j].cancelled
    /\ Decision(spec[j].risk) # "deny"
    /\ ~(rows[j].requires /\ Decision(spec[j].risk) = "approve" /\ ~rows[j].approved)

(* A job that asked for approval under a policy that does not is approved  *)
(* on the spot, without touching its lock.                                 *)
AutoApproved(j) ==
    IF rows[j].requires /\ Decision(spec[j].risk) = "allow"
    THEN [rows[j] EXCEPT !.status = "running", !.approved = TRUE, !.requires = FALSE]
    ELSE rows[j]

SkipCancelled(j, s) ==
    /\ Reload(j, s)
    /\ rows[j].cancelled
    /\ EndTask(j, s)
    /\ UNCHANGED <<rows, approvals>>

DenyByPolicy(j, s) ==
    /\ Reload(j, s)
    /\ ~rows[j].cancelled
    /\ Decision(spec[j].risk) = "deny"
    /\ SetRow(j, DieRow(rows[j]))
    /\ EndTask(j, s)
    /\ UNCHANGED approvals

NeedsDecision(j) ==
    /\ ~rows[j].cancelled
    /\ rows[j].requires
    /\ Decision(spec[j].risk) = "approve"
    /\ ~rows[j].approved

(* Ask for a decision unless one is already pending.                       *)
AskOnceMutant(j) == Append(approvals[j], "pending")
AskOnce(j) ==
    IF PendingIn(approvals[j]) = {} THEN Append(approvals[j], "pending") ELSE approvals[j]

DeferForApproval(j, s) ==
    /\ Reload(j, s)
    /\ NeedsDecision(j)
    /\ Len(AskOnce(j)) <= MaxApprovals
    /\ approvals' = [approvals EXCEPT ![j] = AskOnce(j)]
    /\ SetRow(j, [SetJobStatus(rows[j], "awaiting_approval") EXCEPT !.requires = TRUE])
    /\ EndTask(j, s)

RejectUnknownKind(j, s) ==
    /\ Reload(j, s)
    /\ GateOpen(j)
    /\ spec[j].kind = "unknown"
    /\ SetRow(j, DieRow(AutoApproved(j)))
    /\ EndTask(j, s)
    /\ UNCHANGED approvals

StartHandler(j, s) ==
    /\ Reload(j, s)
    /\ GateOpen(j)
    /\ spec[j].kind # "unknown"
    /\ SetRow(j, AutoApproved(j))
    /\ tasks' = [tasks EXCEPT ![j][s] =
                    [@ EXCEPT !.pc = "handling", !.attempts = rows[j].attempts]]
    /\ UNCHANGED approvals

-----------------------------------------------------------------------------
(* The handler of an autonomy_task ends by enqueueing its plan: every      *)
(* action the policy does not deny becomes a job, one that needs approval  *)
(* with its approval row at once.  Nothing suspends between the plan and   *)
(* the finalizer's write, so both are one step.                            *)

Plannable(j) ==
    IF spec[j].kind = "planner"
    THEN {c \in Job : /\ rows[c].status = "absent"
                      /\ spec[c].origin = "plan"
                      /\ Decision(spec[c].risk) # "deny"}
    ELSE {}

PlannedRowMutant(c, due) == CreateJob(FALSE, due)
PlannedRow(c, due) ==
    IF Flagged(c) THEN SetJobStatus(CreateJob(TRUE, due), "awaiting_approval")
                  ELSE CreateJob(FALSE, due)

(* The rows after job j's handler enqueued `plan` and j's row became `row`. *)
EnqueueAndWriteMutant(plan, j, row) ==
    /\ \E due \in BOOLEAN :
         rows' = [i \in Job |-> IF i = j THEN row
                                ELSE IF i \in plan THEN PlannedRow(i, due)
                                ELSE rows[i]]
    /\ UNCHANGED approvals
EnqueueAndWrite(plan, j, row) ==
    /\ \E due \in BOOLEAN :
         rows' = [i \in Job |-> IF i = j THEN row
                                ELSE IF i \in plan THEN PlannedRow(i, due)
                                ELSE rows[i]]
    /\ approvals' = [i \in Job |-> IF i \in plan /\ Flagged(i)
                                   THEN Append(approvals[i], "pending")
                                   ELSE approvals[i]]

HandlerEnds(j, s) ==
    /\ tasks[j][s].pc = "handling"
    /\ UNCHANGED <<spec, crashes, requests>>

Succeed(j, s) ==
    /\ HandlerEnds(j, s)
    /\ \E plan \in SUBSET Plannable(j), next \in NextRun(spec[j].schedule) \ {"raises"} :
         EnqueueAndWrite(plan, j, SucceedRow(rows[j], next))
    /\ EndTask(j, s)

(* An exception that may be retried.  It can come from the middle of       *)
(* enqueue_plan, with part of the plan already in the table.               *)
MayRetry(j, s) == tasks[j][s].attempts + 1 < MaxAttempts

FailAndRetry(j, s) ==
    /\ HandlerEnds(j, s)
    /\ MayRetry(j, s)
    /\ \E plan \in SUBSET Plannable(j) :
         EnqueueAndWrite(plan, j, RetryRow(rows[j], tasks[j][s].attempts + 1))
    /\ EndTask(j, s)

(* A non-transient error at any attempt, or a transient one at the last.   *)
FailForGood(j, s) ==
    /\ HandlerEnds(j, s)
    /\ \E plan \in SUBSET Plannable(j), next \in NextRun(spec[j].schedule) \ {"raises"} :
         /\ plan # {} => ~MayRetry(j, s)
         /\ EnqueueAndWrite(plan, j, GiveUpRow(rows[j], next, tasks[j][s].attempts + 1))
    /\ EndTask(j, s)

(* compute_next_run raises inside the finalizer: the row keeps whatever it *)
(* had, the task dies with the exception, and if the loop was awaiting it  *)
(* its gather raises at once, so the rest of the batch runs on unawaited.  *)
FinalizerRaises(j, s) ==
    /\ HandlerEnds(j, s)
    /\ "raises" \in NextRun(spec[j].schedule)
    /\ \E plan \in SUBSET Plannable(j) : EnqueueAndWrite(plan, j, rows[j])
    /\ tasks' = [i \in Job |-> [t \in Slot |->
                    IF i = j /\ t = s THEN NoTask
                    ELSE IF tasks[j][s].awaited
                         THEN [tasks[i][t] EXCEPT !.awaited = FALSE]
                         ELSE tasks[i][t]]]

-----------------------------------------------------------------------------
(* Time: a lock's TTL or a next_run_at passes.                             *)

LockExpires(j) ==
    /\ rows[j].lock = "live"
    /\ SetRow(j, [rows[j] EXCEPT !.lock = "expired"])
    /\ UNCHANGED <<spec, approvals, tasks, crashes, requests>>

BecomesDue(j) ==
    /\ rows[j].status # "absent"
    /\ ~rows[j].due
    /\ SetRow(j, [rows[j] EXCEPT !.due = TRUE])
    /\ UNCHANGED <<spec, approvals, tasks, crashes, requests>>

-----------------------------------------------------------------------------
(* Crashes.  Each statement commits on its own (the connection is in       *)
(* autocommit), so a crash can also fall between two writes of one step.   *)

CrashAt(point) ==
    /\ point \in CrashPoints
    /\ crashes < MaxCrashes
    /\ crashes' = crashes + 1
    /\ tasks' = [j \in Job |-> [s \in Slot |-> NoTask]]
    /\ UNCHANGED spec

Crash == CrashAt("anywhere") /\ UNCHANGED <<rows, approvals, requests>>

(* The reaper's transaction commits, the claim's does not.                 *)
CrashInTick ==
    /\ CrashAt("tick")
    /\ LoopIdle
    /\ rows' = [j \in Job |-> Reaped(j)]
    /\ UNCHANGED <<approvals, requests>>

(* The decision is stored, the job is not written.                         *)
CrashInDecide(j, i, approve) ==
    /\ CrashAt("decide")
    /\ requests < MaxRequests
    /\ requests' = requests + 1
    /\ i \in DOMAIN approvals[j]
    /\ approvals' = [approvals EXCEPT ![j] = DecideApproval(@, i, approve)]
    /\ UNCHANGED rows

(* The approval request is stored, the job is not yet awaiting_approval.   *)
CrashInDefer(j, s) ==
    /\ CrashAt("defer")
    /\ tasks[j][s].pc = "claimed"
    /\ Cardinality(Handling) < MaxConcurrency
    /\ NeedsDecision(j)
    /\ Len(AskOnce(j)) <= MaxApprovals
    /\ approvals' = [approvals EXCEPT ![j] = AskOnce(j)]
    /\ UNCHANGED <<rows, requests>>

(* A planned job that needs approval is inserted as queued first, then its *)
(* approval row, then its status.                                          *)
CrashInEnqueue(j, s, c) ==
    /\ CrashAt("enqueue")
    /\ tasks[j][s].pc = "handling"
    /\ c \in Plannable(j)
    /\ Flagged(c)
    /\ \E due \in BOOLEAN : SetRow(c, CreateJob(TRUE, due))
    /\ \E asked \in {approvals[c], Append(approvals[c], "pending")} :
         approvals' = [approvals EXCEPT ![c] = asked]
    /\ UNCHANGED requests

-----------------------------------------------------------------------------
RunTask(j, s) ==
    \/ SkipCancelled(j, s)
    \/ DenyByPolicy(j, s)
    \/ DeferForApproval(j, s)
    \/ RejectUnknownKind(j, s)
    \/ StartHandler(j, s)

FinishTask(j, s) ==
    \/ Succeed(j, s)
    \/ FailAndRetry(j, s)
    \/ FailForGood(j, s)
    \/ FinalizerRaises(j, s)

Control ==
    \/ \E j \in Job : Create(j) \/ Cancel(j) \/ RunNow(j) \/ Requeue(j)
    \/ \E j \in Job, approve \in BOOLEAN :
         \E i \in DOMAIN approvals[j] : Decide(j, i, approve)
    \/ \E objective \in SUBSET Created : StopObjective(objective)

Engine == \E j \in Job, s \in Slot : RunTask(j, s) \/ FinishTask(j, s)

Time == \E j \in Job : LockExpires(j) \/ BecomesDue(j)

Failure ==
    \/ Crash
    \/ CrashInTick
    \/ \E j \in Job, approve \in BOOLEAN :
         \E i \in DOMAIN approvals[j] : CrashInDecide(j, i, approve)
    \/ \E j \in Job, s \in Slot : CrashInDefer(j, s)
    \/ \E j \in Job, s \in Slot, c \in Job : CrashInEnqueue(j, s, c)

Next == Control \/ Tick \/ Engine \/ Time \/ Failure

Spec == Init /\ [][Next]_vars

(* The scheduler ticks, tasks run, time passes.                            *)
RuntimeFairness ==
    /\ WF_vars(Tick)
    /\ \A j \in Job : /\ WF_vars(LockExpires(j))
                      /\ WF_vars(BecomesDue(j))
                      /\ \A s \in Slot : WF_vars(RunTask(j, s))

(* Handlers return or raise: an assumption about what they call, not       *)
(* something the engine enforces (it sets no timeout).                     *)
HandlerFairness == \A j \in Job, s \in Slot : WF_vars(FinishTask(j, s))

FairSpec == Spec /\ RuntimeFairness /\ HandlerFairness

-----------------------------------------------------------------------------
(* Safety.                                                                 *)

(* Every schedule that is created can be computed.                         *)
WellFormedSchedules == \A sp \in JobSpecs : sp.schedule # "malformed"

(* One job never runs twice at a time: the loop claims nothing while the   *)
(* batch it spawned is running, however long that takes and although locks *)
(* expire meanwhile.                                                       *)
OneTaskPerJob == \A j \in Job : \A s, t \in Live(j) : s = t

(* The loop's own share of it, which needs no assumption on schedules: it  *)
(* never awaits two tasks of one job.                                      *)
OneAwaitedTaskPerJob ==
    \A j \in Job : \A s, t \in Slot :
        tasks[j][s].awaited /\ tasks[j][t].awaited => s = t

(* A job the policy may approve on the spot when it is reloaded.           *)
AutoApprovable(j) == Flagged(j) /\ Decision(spec[j].risk) = "allow"

(* A running row carries a lock, so that the reaper can find it after a    *)
(* crash at any point, whatever requests moved the row meanwhile.  Jobs    *)
(* approved on the spot are the exception: see EveryRunIsLeased.           *)
RunIsLeased ==
    \A j \in Job : rows[j].status = "running" /\ ~AutoApprovable(j)
                        => rows[j].lock # "none"

(* A job that must be approved is not handled before somebody approved it: *)
(* no order of claims, run-now requests, crashes and repeated decisions    *)
(* gets it past the gate.                                                  *)
Gated(j) == Flagged(j) /\ Decision(spec[j].risk) = "approve"

ApprovedBeforeHandled ==
    \A j \in Job, s \in Slot :
        Gated(j) /\ tasks[j][s].pc = "handling" => rows[j].approved

(* The same, against the approvals table: somebody answered a request of   *)
(* the job, with "approved" unless a crash tore a decision apart: the      *)
(* approval row keeps the first answer, the job row takes the second.      *)
ApprovalBacksRun ==
    \A j \in Job, s \in Slot :
        Gated(j) /\ tasks[j][s].pc = "handling"
            => \E i \in DOMAIN approvals[j] :
                    \/ approvals[j][i] = "approved"
                    \/ approvals[j][i] = "denied" /\ crashes > 0

(* People are asked once: a job has at most one open approval request,     *)
(* through re-claims, requeues and crashes between the two writes.         *)
OneOpenRequest == \A j \in Job : \A i, k \in PendingIn(approvals[j]) : i = k

(* A job waiting for approval can be decided: it has an approval row the   *)
(* decision route accepts, and that row is an open request, the only kind  *)
(* the approvals inbox lists, unless a crash tore a decision apart.        *)
AwaitingHasRequest ==
    \A j \in Job : rows[j].status = "awaiting_approval"
        => /\ approvals[j] # <<>>
           /\ PendingIn(approvals[j]) # {} \/ crashes > 0

(* "A daily job won't permanently die": a recurring job that may run is    *)
(* never left in a terminal status by its failures or successes.           *)
RecurringNeverEnds ==
    \A j \in Job :
        /\ spec[j].schedule = "recurring"
        /\ spec[j].kind # "unknown"
        /\ Decision(spec[j].risk) # "deny"
        => rows[j].status \notin {"dead", "succeeded"}

-----------------------------------------------------------------------------
(* What a step may never do.                                               *)

(* A cancelled job stays cancelled, is never claimed again and never gets  *)
(* a new handler, also when it was cancelled between its claim and its     *)
(* reload or a request puts it back in the queue.                          *)
CancelStopsNewRuns ==
    [][\A j \in Job : rows[j].cancelled =>
          /\ rows'[j].cancelled
          /\ \A s \in Slot : tasks'[j][s].pc # "none"
                                => tasks'[j][s].pc = tasks[j][s].pc]_vars

-----------------------------------------------------------------------------
(* What must happen.                                                       *)

Settled(j) ==
    rows[j].status \in {"succeeded", "dead", "awaiting_approval"} \/ rows[j].cancelled

(* A one-shot job that was created ends, waits for a person or is          *)
(* cancelled: retries, crashes and expired locks do not keep it going.     *)
OneShotSettles ==
    \A j \in Job : spec[j].schedule = "none" /\ j \in Created ~> Settled(j)

(* A recurring job that may run runs again and again.                      *)
RecurringKeepsRunning ==
    \A j \in Job :
        /\ spec[j].schedule = "recurring" /\ spec[j].kind # "unknown"
        /\ Decision(spec[j].risk) = "allow"
        /\ j \in Created
        ~> (rows[j].cancelled \/ \E s \in Slot : tasks[j][s].pc = "handling")

(* A row a crash left running does not stay running.                       *)
CrashedRunIsRecovered ==
    \A j \in Job : rows[j].status = "running" /\ Live(j) = {}
                        ~> (rows[j].status # "running" \/ Live(j) # {})

-----------------------------------------------------------------------------
(* What the repository says and the code does not do: each is refuted by a *)
(* run of its own.                                                         *)

(* store.py, set_job_status: a handler that finishes after Mission Control *)
(* cancelled its job must not write succeeded over cancelled.              *)
LateHandlerKeepsCancelled ==
    [][\A j \in Job : rows[j].status = "cancelled" => rows'[j].status # "succeeded"]_vars

(* mission_tasks.py: run_now immediately queues a job for execution.       *)
QueuedJobCanRun == \A j \in Job : rows[j].status = "queued" => ~rows[j].cancelled

(* engine.py: locked jobs are requeued when Thomas crashes mid-run.        *)
EveryRunIsLeased ==
    \A j \in Job : rows[j].status = "running" => rows[j].lock # "none"
=============================================================================

---------------------------- MODULE MissionProofs ----------------------------
(* What holds of MissionEngine for every set of jobs and every bound. *)
EXTENDS MissionEngine, TLAPS

(* What every statement of the store makes of a row is a row. *)
LEMMA CreateJobRow == \A b, d \in BOOLEAN : CreateJob(b, d) \in Row
  BY DEF CreateJob, NoRow, Row, Status, Lock

LEMMA SetJobStatusRow ==
    \A row \in Row, st \in Status : SetJobStatus(row, st) \in Row
  BY DEF SetJobStatus, Row, Status, Lock

LEMMA StatementRow ==
    ASSUME NEW row \in Row
    PROVE  /\ CancelJob(row) \in Row
           /\ QueueNow(row) \in Row
           /\ RequeueRow(row) \in Row
           /\ ApproveRow(row) \in Row
           /\ ClaimRow(row) \in Row
           /\ ReapRow(row) \in Row
           /\ DieRow(row) \in Row
  <1> USE DEF Row, Status, Lock, SetJobStatus, QueueNow
  <1>1. CancelJob(row) \in Row
    BY DEF CancelJob
  <1>2. QueueNow(row) \in Row
    OBVIOUS
  <1>3. RequeueRow(row) \in Row
    BY DEF RequeueRow
  <1>4. ApproveRow(row) \in Row
    BY DEF ApproveRow
  <1>5. ClaimRow(row) \in Row
    BY DEF ClaimRow
  <1>6. ReapRow(row) \in Row
    BY DEF ReapRow
  <1>7. DieRow(row) \in Row
    BY DEF DieRow
  <1> QED
    BY <1>1, <1>2, <1>3, <1>4, <1>5, <1>6, <1>7

LEMMA FinalizerRow ==
    ASSUME NEW row \in Row, NEW n \in Nat, NEW next
    PROVE  /\ SucceedRow(row, next) \in Row
           /\ RetryRow(row, n) \in Row
           /\ GiveUpRow(row, next, n) \in Row
  <1> USE DEF Row, Status, Lock, SetJobStatus, RetryRow
  <1>1. SucceedRow(row, next) \in Row
    BY DEF SucceedRow
  <1>2. RetryRow(row, n) \in Row
    OBVIOUS
  <1>3. GiveUpRow(row, next, n) \in Row
    BY DEF GiveUpRow
  <1> QED
    BY <1>1, <1>2, <1>3

LEMMA EndedTaskIsTask ==
    ASSUME NEW j \in Job, NEW s \in Slot, TypeOK, EndTask(j, s)
    PROVE  tasks' \in [Job -> [Slot -> Task]]
  BY DEF TypeOK, EndTask, NoTask, Task

(* A request for a decision is one more approval row. *)
LEMMA AskOnceType ==
    ASSUME TypeOK, NEW j \in Job
    PROVE  AskOnce(j) \in Seq(ApprovalStatus)
  BY DEF TypeOK, AskOnce, ApprovalStatus

LEMMA DecideApprovalType ==
    ASSUME NEW q \in Seq(ApprovalStatus), NEW i \in DOMAIN q, NEW approve \in BOOLEAN
    PROVE  DecideApproval(q, i, approve) \in Seq(ApprovalStatus)
  BY DEF DecideApproval, ApprovalStatus

LEMMA AutoApprovedType ==
    ASSUME TypeOK, NEW j \in Job
    PROVE  AutoApproved(j) \in Row
  BY DEF TypeOK, AutoApproved, Row, Status

LEMMA FlaggedType ==
    ASSUME TypeOK, NEW j \in Job
    PROVE  Flagged(j) \in BOOLEAN
  <1>1. spec[j] \in JobSpec
    BY EngineAssumption DEF TypeOK
  <1>2. spec[j].flagged \in BOOLEAN
    BY <1>1 DEF JobSpec
  <1>3. CASE spec[j].origin = "plan"
    BY <1>3 DEF Flagged
  <1>4. CASE spec[j].origin # "plan"
    BY <1>2, <1>4, Zenon DEF Flagged
  <1> QED
    BY <1>3, <1>4

LEMMA PlannedRowType ==
    ASSUME TypeOK, NEW c \in Job, NEW due \in BOOLEAN
    PROVE  PlannedRow(c, due) \in Row
  <1>1. CreateJob(TRUE, due) \in Row /\ CreateJob(FALSE, due) \in Row
    BY CreateJobRow
  <1>2. SetJobStatus(CreateJob(TRUE, due), "awaiting_approval") \in Row
    BY <1>1, SetJobStatusRow DEF Status
  <1> QED
    BY <1>1, <1>2 DEF PlannedRow

(* Enqueueing a plan and writing the planner's row keeps both tables typed. *)
LEMMA EnqueueTypes ==
    ASSUME TypeOK, NEW j \in Job, NEW plan \in SUBSET Job, NEW row \in Row,
           EnqueueAndWrite(plan, j, row)
    PROVE  /\ rows' \in [Job -> Row]
           /\ approvals' \in [Job -> Seq(ApprovalStatus)]
  <1>1. rows' \in [Job -> Row]
    BY PlannedRowType DEF EnqueueAndWrite, TypeOK
  <1>2. approvals' \in [Job -> Seq(ApprovalStatus)]
    BY DEF EnqueueAndWrite, TypeOK, ApprovalStatus
  <1> QED
    BY <1>1, <1>2

-----------------------------------------------------------------------------
(* Type correctness: no interleaving of requests, ticks, tasks and crashes *)
(* puts a value outside its column into the tables, or a task outside its  *)
(* program counter's values.                                               *)
LEMMA TypeStep == TypeOK /\ [Next]_vars => TypeOK'
  <1> SUFFICES ASSUME TypeOK, [Next]_vars
               PROVE  TypeOK'
    OBVIOUS
  <1> USE DEF TypeOK
  <1>1. ASSUME NEW j \in Job, Create(j)
        PROVE  TypeOK'
    BY <1>1, FlaggedType, CreateJobRow DEF Create, SetRow
  <1>2. ASSUME NEW j \in Job, Cancel(j)
        PROVE  TypeOK'
    BY <1>2, StatementRow DEF Cancel, SetRow, Request
  <1>3. ASSUME NEW j \in Job, RunNow(j)
        PROVE  TypeOK'
    BY <1>3, StatementRow DEF RunNow, SetRow, Request
  <1>4. ASSUME NEW j \in Job, Requeue(j)
        PROVE  TypeOK'
    BY <1>4, StatementRow DEF Requeue, SetRow, Request
  <1>5. ASSUME NEW j \in Job, NEW approve \in BOOLEAN,
               NEW i \in DOMAIN approvals[j], Decide(j, i, approve)
        PROVE  TypeOK'
    BY <1>5, StatementRow, DecideApprovalType DEF Decide, SetRow, Request
  <1>6. ASSUME NEW objective \in SUBSET Created, StopObjective(objective)
        PROVE  TypeOK'
    BY <1>6, StatementRow DEF StopObjective
  <1>7. CASE Tick
    <2>1. rows' \in [Job -> Row]
      BY <1>7, StatementRow DEF Tick, Reaped
    <2>2. tasks' \in [Job -> [Slot -> Task]]
      <3>1. [NoTask EXCEPT !.pc = "claimed", !.awaited = TRUE] \in Task
        BY DEF NoTask, Task
      <3> DEFINE spawned == [NoTask EXCEPT !.pc = "claimed", !.awaited = TRUE]
      <3>2. \A j \in Job : [tasks[j] EXCEPT ![FreeSlot(j)] = spawned] \in [Slot -> Task]
        BY <3>1
      <3> QED
        BY <1>7, <3>2 DEF Tick
    <2> QED
      BY <1>7, <2>1, <2>2 DEF Tick
  <1>8. ASSUME NEW j \in Job, NEW s \in Slot, RunTask(j, s)
        PROVE  TypeOK'
    <2>1. CASE SkipCancelled(j, s)
      BY <2>1, EndedTaskIsTask DEF SkipCancelled, Reload
    <2>2. CASE DenyByPolicy(j, s)
      BY <2>2, EndedTaskIsTask, StatementRow DEF DenyByPolicy, Reload, SetRow
    <2>3. CASE DeferForApproval(j, s)
      <3>1. [SetJobStatus(rows[j], "awaiting_approval") EXCEPT !.requires = TRUE] \in Row
        <4>1. SetJobStatus(rows[j], "awaiting_approval") \in Row
          BY SetJobStatusRow DEF Status
        <4> QED
          BY <4>1 DEF Row
      <3> QED
        BY <2>3, <3>1, EndedTaskIsTask, AskOnceType DEF DeferForApproval, Reload, SetRow
    <2>4. CASE RejectUnknownKind(j, s)
      BY <2>4, EndedTaskIsTask, StatementRow, AutoApprovedType
         DEF RejectUnknownKind, Reload, SetRow
    <2>5. CASE StartHandler(j, s)
      <3>1. rows' \in [Job -> Row]
        BY <2>5, AutoApprovedType DEF StartHandler, SetRow
      <3>2. tasks' \in [Job -> [Slot -> Task]]
        <4>1. rows[j].attempts \in Nat
          BY DEF Row
        <4>2. tasks[j][s] \in Task
          OBVIOUS
        <4>3. [tasks[j][s] EXCEPT !.pc = "handling", !.attempts = rows[j].attempts] \in Task
          BY <4>1, <4>2 DEF Task
        <4> QED
          BY <2>5, <4>3 DEF StartHandler
      <3> QED
        BY <2>5, <3>1, <3>2 DEF StartHandler, Reload
    <2> QED
      BY <1>8, <2>1, <2>2, <2>3, <2>4, <2>5 DEF RunTask
  <1>9. ASSUME NEW j \in Job, NEW s \in Slot, FinishTask(j, s)
        PROVE  TypeOK'
    <2>0. tasks[j][s].attempts + 1 \in Nat /\ Plannable(j) \in SUBSET Job
      BY DEF Task, Plannable
    <2>1. CASE Succeed(j, s)
      BY <2>1, <2>0, EndedTaskIsTask, FinalizerRow, EnqueueTypes
         DEF Succeed, HandlerEnds
    <2>2. CASE FailAndRetry(j, s)
      BY <2>2, <2>0, EndedTaskIsTask, FinalizerRow, EnqueueTypes
         DEF FailAndRetry, HandlerEnds
    <2>3. CASE FailForGood(j, s)
      BY <2>3, <2>0, EndedTaskIsTask, FinalizerRow, EnqueueTypes
         DEF FailForGood, HandlerEnds
    <2>4. CASE FinalizerRaises(j, s)
      <3>1. tasks' \in [Job -> [Slot -> Task]]
        <4>1. NoTask \in Task
          BY DEF NoTask, Task
        <4>2. \A tk \in Task : [tk EXCEPT !.awaited = FALSE] \in Task
          BY DEF Task
        <4>3. \A i \in Job, t \in Slot : tasks[i][t] \in Task
          OBVIOUS
        <4> QED
          BY <2>4, <4>1, <4>2, <4>3 DEF FinalizerRaises
      <3> QED
        BY <2>4, <2>0, <3>1, EnqueueTypes DEF FinalizerRaises, HandlerEnds
    <2> QED
      BY <1>9, <2>1, <2>2, <2>3, <2>4 DEF FinishTask
  <1>10. CASE Time
    <2>1. \A j \in Job : /\ [rows[j] EXCEPT !.lock = "expired"] \in Row
                         /\ [rows[j] EXCEPT !.due = TRUE] \in Row
      BY DEF Row, Lock
    <2> QED
      BY <1>10, <2>1 DEF Time, LockExpires, BecomesDue, SetRow
  <1>11. CASE Failure
    <2>0. ASSUME NEW point, CrashAt(point)
          PROVE  spec' = spec /\ tasks' \in [Job -> [Slot -> Task]] /\ crashes' \in Nat
      BY <2>0 DEF CrashAt, NoTask, Task
    <2>1. CASE Crash
      BY <2>1, <2>0 DEF Crash
    <2>2. CASE CrashInTick
      BY <2>2, <2>0, StatementRow DEF CrashInTick, Reaped
    <2>3. ASSUME NEW j \in Job, NEW approve \in BOOLEAN,
                 NEW i \in DOMAIN approvals[j], CrashInDecide(j, i, approve)
          PROVE  TypeOK'
      BY <2>3, <2>0, DecideApprovalType DEF CrashInDecide
    <2>4. ASSUME NEW j \in Job, NEW s \in Slot, CrashInDefer(j, s)
          PROVE  TypeOK'
      BY <2>4, <2>0, AskOnceType DEF CrashInDefer
    <2>5. ASSUME NEW j \in Job, NEW s \in Slot, NEW c \in Job, CrashInEnqueue(j, s, c)
          PROVE  TypeOK'
      <3>1. \A due \in BOOLEAN : CreateJob(TRUE, due) \in Row
        BY CreateJobRow
      <3>2. Append(approvals[c], "pending") \in Seq(ApprovalStatus)
        BY DEF ApprovalStatus
      <3>3. rows' \in [Job -> Row]
        BY <2>5, <3>1 DEF CrashInEnqueue, SetRow
      <3>4. approvals' \in [Job -> Seq(ApprovalStatus)]
        BY <2>5, <3>2 DEF CrashInEnqueue
      <3> QED
        BY <2>5, <2>0, <3>3, <3>4 DEF CrashInEnqueue
    <2> QED
      BY <1>11, <2>1, <2>2, <2>3, <2>4, <2>5 DEF Failure
  <1>12. CASE UNCHANGED vars
    BY <1>12 DEF vars
  <1> QED
    BY <1>1, <1>2, <1>3, <1>4, <1>5, <1>6, <1>7, <1>8, <1>9, <1>10, <1>11, <1>12
       DEF Next, Control, Engine

THEOREM TypeCorrect == Spec => []TypeOK
  <1>1. Init => TypeOK
    BY EngineAssumption DEF Init, TypeOK, NoRow, Row, Status, Lock, NoTask, Task
  <1> QED
    BY <1>1, TypeStep, PTL DEF Spec

-----------------------------------------------------------------------------
(* The inductive invariant.  Its heart is what every inserted row is worth *)
(* on its own: why the row can be trusted to carry the approval gate, the  *)
(* lease and the schedule through any order of statements.                 *)

Recurring(j) ==
    /\ spec[j].schedule = "recurring"
    /\ spec[j].kind # "unknown"
    /\ Decision(spec[j].risk) # "deny"

RowOK(j, row) ==
    /\ row.status # "absent"
    /\ row.requires => Flagged(j)
    /\ Gated(j) /\ ~row.approved => row.requires
    /\ row.status = "running" /\ ~AutoApprovable(j) => row.lock # "none"
    /\ Recurring(j) => row.status \notin {"dead", "succeeded"}

(* A row that was never inserted has left no trace anywhere. *)
Untouched(j) ==
    /\ rows[j] = NoRow
    /\ approvals[j] = <<>>
    /\ \A s \in Slot : tasks[j][s].pc = "none"

IInv ==
    /\ TypeOK
    /\ \A j \in Job : Untouched(j) \/ RowOK(j, rows[j])
    /\ ApprovedBeforeHandled
    /\ OneOpenRequest

(* What a statement makes of an inserted row: the row is still worth the   *)
(* same, and neither its approval nor its cancellation is taken back.      *)
Kept(j, row, new) ==
    /\ RowOK(j, new)
    /\ row.approved => new.approved
    /\ row.cancelled => new.cancelled

LEMMA StatementKept ==
    ASSUME NEW j \in Job, NEW row \in Row, RowOK(j, row)
    PROVE  /\ Kept(j, row, row)
           /\ Kept(j, row, CancelJob(row))
           /\ Kept(j, row, QueueNow(row))
           /\ Kept(j, row, RequeueRow(row))
           /\ Kept(j, row, ApproveRow(row))
           /\ Kept(j, row, ClaimRow(row))
           /\ Kept(j, row, ReapRow(row))
           /\ ~Recurring(j) => Kept(j, row, DieRow(row))
  <1> USE DEF Row, RowOK, Kept, SetJobStatus, QueueNow
  <1>1. Kept(j, row, row)
    OBVIOUS
  <1>2. Kept(j, row, CancelJob(row))
    BY DEF CancelJob
  <1>3. Kept(j, row, QueueNow(row))
    OBVIOUS
  <1>4. Kept(j, row, RequeueRow(row))
    BY DEF RequeueRow
  <1>5. Kept(j, row, ApproveRow(row))
    BY DEF ApproveRow
  <1>6. Kept(j, row, ClaimRow(row))
    BY DEF ClaimRow
  <1>7. Kept(j, row, ReapRow(row))
    BY DEF ReapRow
  <1>8. ~Recurring(j) => Kept(j, row, DieRow(row))
    BY DEF DieRow
  <1> QED
    BY <1>1, <1>2, <1>3, <1>4, <1>5, <1>6, <1>7, <1>8

(* The finalizers, for a schedule that compute_next_run accepts. *)
LEMMA FinalizerKept ==
    ASSUME NEW j \in Job, NEW row \in Row, RowOK(j, row), NEW n \in Nat,
           NEW next \in NextRun(spec[j].schedule) \ {"raises"}
    PROVE  /\ Kept(j, row, SucceedRow(row, next))
           /\ Kept(j, row, RetryRow(row, n))
           /\ Kept(j, row, GiveUpRow(row, next, n))
  <1> USE DEF Row, RowOK, Kept, SetJobStatus, RetryRow
  <1>1. Recurring(j) => next # "never"
    BY DEF Recurring, NextRun
  <1>2. Kept(j, row, SucceedRow(row, next))
    BY <1>1 DEF SucceedRow
  <1>3. Kept(j, row, RetryRow(row, n))
    OBVIOUS
  <1>4. Kept(j, row, GiveUpRow(row, next, n))
    BY <1>1 DEF GiveUpRow
  <1> QED
    BY <1>2, <1>3, <1>4

(* Both ways of inserting a row start it with the flag its gate needs. *)
LEMMA InsertedOK ==
    ASSUME TypeOK, NEW j \in Job, NEW due \in BOOLEAN
    PROVE  /\ RowOK(j, CreateJob(Flagged(j), due))
           /\ RowOK(j, PlannedRow(j, due))
           /\ Flagged(j) => RowOK(j, CreateJob(TRUE, due))
  <1> USE DEF RowOK, CreateJob, NoRow
  <1>1. RowOK(j, CreateJob(Flagged(j), due))
    BY Zenon, FlaggedType DEF Gated
  <1>2. Flagged(j) => RowOK(j, CreateJob(TRUE, due))
    OBVIOUS
  <1>3. RowOK(j, PlannedRow(j, due))
    BY DEF PlannedRow, SetJobStatus, Gated
  <1> QED
    BY <1>1, <1>2, <1>3

LEMMA AutoApprovedKept ==
    ASSUME TypeOK, NEW j \in Job, RowOK(j, rows[j])
    PROVE  Kept(j, rows[j], AutoApproved(j))
  BY DEF TypeOK, Row, RowOK, Kept, AutoApproved, AutoApprovable

LEMMA InsertedRow ==
    ASSUME IInv, NEW j \in Job
    PROVE  /\ rows[j].status # "absent" => RowOK(j, rows[j])
           /\ \A s \in Slot : tasks[j][s].pc # "none" => RowOK(j, rows[j])
           /\ rows[j].status = "absent" => Untouched(j)
  BY DEF IInv, Untouched, NoRow, RowOK

(* How any step of the system may change one row. *)
RowMoves(k) ==
    \/ rows'[k] = rows[k]
    \/ Untouched(k) /\ RowOK(k, rows'[k])
    \/ RowOK(k, rows[k]) /\ Kept(k, rows[k], rows'[k])

(* What a request or a task does to the one row it writes. *)
LEMMA SetRowMoves ==
    ASSUME TypeOK, NEW j \in Job, NEW row, SetRow(j, row),
           \/ Untouched(j) /\ RowOK(j, row)
           \/ RowOK(j, rows[j]) /\ Kept(j, rows[j], row)
    PROVE  \A k \in Job : RowMoves(k)
  BY DEF TypeOK, SetRow, RowMoves

LEMMA EnqueueMoves ==
    ASSUME IInv, NEW j \in Job, NEW plan \in SUBSET Plannable(j), NEW row,
           RowOK(j, rows[j]), Kept(j, rows[j], row) \/ row = rows[j],
           EnqueueAndWrite(plan, j, row)
    PROVE  \A k \in Job : RowMoves(k)
  <1> SUFFICES ASSUME NEW k \in Job
               PROVE  RowMoves(k)
    OBVIOUS
  <1>1. PICK due \in BOOLEAN :
           rows'[k] = IF k = j THEN row
                      ELSE IF k \in plan THEN PlannedRow(k, due) ELSE rows[k]
    BY DEF EnqueueAndWrite
  <1>2. k \in plan => Untouched(k)
    BY InsertedRow DEF Plannable
  <1>3. RowOK(k, PlannedRow(k, due))
    BY InsertedOK DEF IInv
  <1> QED
    BY <1>1, <1>2, <1>3 DEF RowMoves

LEMMA TickMoves ==
    ASSUME IInv, NEW k \in Job,
           rows'[k] = Reaped(k) \/ (Claimable(Reaped(k)) /\ rows'[k] = ClaimRow(Reaped(k)))
    PROVE  RowMoves(k)
  <1>0. rows[k] \in Row /\ Reaped(k) \in Row
    BY StatementRow DEF IInv, TypeOK, Reaped
  <1>1. CASE rows[k].status = "absent"
    BY <1>0, <1>1, InsertedRow DEF RowMoves, Reaped, ReapRow, Stale, Claimable
  <1>2. CASE rows[k].status # "absent"
    <2>1. RowOK(k, rows[k])
      BY <1>2, InsertedRow
    <2>2. Kept(k, rows[k], Reaped(k))
      BY <1>0, <2>1, StatementKept DEF Reaped
    <2>3. Kept(k, Reaped(k), ClaimRow(Reaped(k)))
      BY <1>0, <2>2, StatementKept DEF Kept
    <2> QED
      BY <2>1, <2>2, <2>3 DEF RowMoves, Kept
  <1> QED
    BY <1>1, <1>2

(* Each step of the system moves every row in one of those ways. *)
LEMMA RowStep ==
    ASSUME IInv, [Next]_vars
    PROVE  \A k \in Job : RowMoves(k)
  <1>0. TypeOK /\ \A k \in Job : rows[k] \in Row
    BY DEF IInv, TypeOK
  <1>1. ASSUME NEW j \in Job, Create(j)
        PROVE  \A k \in Job : RowMoves(k)
    <2>1. PICK due \in BOOLEAN : SetRow(j, CreateJob(Flagged(j), due))
      BY <1>1 DEF Create
    <2>2. Untouched(j) /\ RowOK(j, CreateJob(Flagged(j), due))
      BY <1>0, <1>1, InsertedRow, InsertedOK DEF Create
    <2> QED
      BY <1>0, <2>1, <2>2, SetRowMoves
  <1>2. ASSUME NEW j \in Job, Cancel(j) \/ RunNow(j) \/ Requeue(j)
        PROVE  \A k \in Job : RowMoves(k)
    <2>1. RowOK(j, rows[j])
      BY <1>2, InsertedRow DEF Cancel, RunNow, Requeue, Request, Created
    <2> QED
      BY <1>0, <1>2, <2>1, StatementKept, SetRowMoves DEF Cancel, RunNow, Requeue
  <1>3. ASSUME NEW j \in Job, NEW approve \in BOOLEAN, NEW i \in DOMAIN approvals[j],
               Decide(j, i, approve)
        PROVE  \A k \in Job : RowMoves(k)
    <2>1. RowOK(j, rows[j])
      BY <1>3, InsertedRow DEF Decide, Request, Created
    <2> QED
      BY <1>0, <1>3, <2>1, StatementKept, SetRowMoves DEF Decide
  <1>4. ASSUME NEW objective \in SUBSET Created, StopObjective(objective)
        PROVE  \A k \in Job : RowMoves(k)
    <2>1. \A k \in objective : RowOK(k, rows[k])
      BY InsertedRow DEF Created
    <2> QED
      BY <1>0, <1>4, <2>1, StatementKept DEF StopObjective, RowMoves
  <1>5. CASE Tick
    BY <1>5, TickMoves DEF Tick, ClaimableJobs
  <1>6. ASSUME NEW j \in Job, NEW s \in Slot, RunTask(j, s)
        PROVE  \A k \in Job : RowMoves(k)
    <2>1. RowOK(j, rows[j])
      BY <1>6, InsertedRow
         DEF RunTask, SkipCancelled, DenyByPolicy, DeferForApproval,
             RejectUnknownKind, StartHandler, Reload
    <2>2. CASE SkipCancelled(j, s)
      BY <2>2 DEF SkipCancelled, RowMoves
    <2>3. CASE DenyByPolicy(j, s)
      <3>1. ~Recurring(j)
        BY <2>3 DEF DenyByPolicy, Recurring
      <3> QED
        BY <1>0, <2>1, <2>3, <3>1, StatementKept, SetRowMoves DEF DenyByPolicy
    <2>4. CASE DeferForApproval(j, s)
      <3> DEFINE deferred ==
              [SetJobStatus(rows[j], "awaiting_approval") EXCEPT !.requires = TRUE]
      <3>1. Kept(j, rows[j], deferred)
        BY <1>0, <2>1, <2>4
           DEF DeferForApproval, NeedsDecision, Kept, RowOK, SetJobStatus, Row
      <3> HIDE DEF deferred
      <3>2. SetRow(j, deferred)
        BY <2>4 DEF DeferForApproval, deferred
      <3> QED
        BY <1>0, <2>1, <3>1, <3>2, SetRowMoves
    <2>5. CASE RejectUnknownKind(j, s)
      <3>1. ~Recurring(j)
        BY <2>5 DEF RejectUnknownKind, Recurring
      <3>2. Kept(j, rows[j], AutoApproved(j)) /\ AutoApproved(j) \in Row
        BY <1>0, <2>1, AutoApprovedKept, AutoApprovedType
      <3>3. Kept(j, AutoApproved(j), DieRow(AutoApproved(j)))
        BY <3>1, <3>2, StatementKept DEF Kept
      <3>4. Kept(j, rows[j], DieRow(AutoApproved(j)))
        BY <3>2, <3>3 DEF Kept
      <3> QED
        BY <1>0, <2>1, <2>5, <3>4, SetRowMoves DEF RejectUnknownKind
    <2>6. CASE StartHandler(j, s)
      BY <1>0, <2>1, <2>6, AutoApprovedKept, SetRowMoves DEF StartHandler
    <2> QED
      BY <1>6, <2>2, <2>3, <2>4, <2>5, <2>6 DEF RunTask
  <1>7. ASSUME NEW j \in Job, NEW s \in Slot, FinishTask(j, s)
        PROVE  \A k \in Job : RowMoves(k)
    <2>1. RowOK(j, rows[j])
      BY <1>7, InsertedRow
         DEF FinishTask, Succeed, FailAndRetry, FailForGood, FinalizerRaises, HandlerEnds
    <2>2. tasks[j][s].attempts + 1 \in Nat
      BY <1>0 DEF TypeOK, Task
    <2>3. CASE Succeed(j, s)
      BY <1>0, <2>1, <2>2, <2>3, FinalizerKept, EnqueueMoves DEF Succeed
    <2>4. CASE FailAndRetry(j, s)
      <3>1. Kept(j, rows[j], RetryRow(rows[j], tasks[j][s].attempts + 1))
        BY <1>0, <2>1, <2>2
           DEF Kept, RowOK, RetryRow, SetJobStatus, Row
      <3> QED
        BY <2>1, <2>4, <3>1, EnqueueMoves DEF FailAndRetry
    <2>5. CASE FailForGood(j, s)
      BY <1>0, <2>1, <2>2, <2>5, FinalizerKept, EnqueueMoves DEF FailForGood
    <2>6. CASE FinalizerRaises(j, s)
      BY <2>1, <2>6, EnqueueMoves DEF FinalizerRaises
    <2> QED
      BY <1>7, <2>3, <2>4, <2>5, <2>6 DEF FinishTask
  <1>8. CASE Time
    <2>1. ASSUME NEW j \in Job, LockExpires(j)
          PROVE  \A k \in Job : RowMoves(k)
      <3>1. CASE rows[j].status = "absent"
        BY <2>1, <3>1, InsertedRow DEF LockExpires, Untouched, NoRow
      <3>2. CASE rows[j].status # "absent"
        <4>1. Kept(j, rows[j], [rows[j] EXCEPT !.lock = "expired"])
          BY <1>0, <3>2, InsertedRow DEF Kept, RowOK, Row
        <4> QED
          BY <1>0, <2>1, <3>2, <4>1, InsertedRow, SetRowMoves DEF LockExpires
      <3> QED
        BY <3>1, <3>2
    <2>2. ASSUME NEW j \in Job, BecomesDue(j)
          PROVE  \A k \in Job : RowMoves(k)
      <3>1. RowOK(j, rows[j])
        BY <2>2, InsertedRow DEF BecomesDue
      <3>2. Kept(j, rows[j], [rows[j] EXCEPT !.due = TRUE])
        BY <1>0, <3>1 DEF Kept, RowOK, Row
      <3> QED
        BY <1>0, <2>2, <3>1, <3>2, SetRowMoves DEF BecomesDue
    <2> QED
      BY <1>8, <2>1, <2>2 DEF Time
  <1>9. CASE Failure
    <2>1. CASE UNCHANGED rows
      BY <2>1 DEF RowMoves
    <2>2. CASE CrashInTick
      BY <1>0, <2>2, TickMoves DEF CrashInTick
    <2>3. ASSUME NEW j \in Job, NEW s \in Slot, NEW c \in Job, CrashInEnqueue(j, s, c)
          PROVE  \A k \in Job : RowMoves(k)
      <3>1. Untouched(c) /\ Flagged(c)
        BY <2>3, InsertedRow DEF CrashInEnqueue, Plannable
      <3>2. PICK due \in BOOLEAN : SetRow(c, CreateJob(TRUE, due))
        BY <2>3 DEF CrashInEnqueue
      <3>3. RowOK(c, CreateJob(TRUE, due))
        BY <1>0, <3>1, InsertedOK
      <3> QED
        BY <1>0, <3>1, <3>2, <3>3, SetRowMoves
    <2> QED
      BY <1>9, <2>1, <2>2, <2>3 DEF Failure, Crash, CrashInDecide, CrashInDefer
  <1>10. CASE UNCHANGED vars
    BY <1>10 DEF vars, RowMoves
  <1> QED
    BY <1>1, <1>2, <1>3, <1>4, <1>5, <1>6, <1>7, <1>8, <1>9, <1>10
       DEF Next, Control, Engine

LEMMA SpecIsConstant == [Next]_vars => spec' = spec
  <1>1. ASSUME NEW j \in Job, NEW s \in Slot, RunTask(j, s) \/ FinishTask(j, s)
        PROVE  spec' = spec
    BY <1>1 DEF RunTask, SkipCancelled, DenyByPolicy, DeferForApproval,
                RejectUnknownKind, StartHandler, Reload,
                FinishTask, Succeed, FailAndRetry, FailForGood, FinalizerRaises,
                HandlerEnds
  <1>2. Control => spec' = spec
    BY DEF Control, Create, Cancel, RunNow, Requeue, Decide, StopObjective, Request
  <1>3. Failure => spec' = spec
    BY DEF Failure, Crash, CrashInTick, CrashInDecide, CrashInDefer, CrashInEnqueue,
           CrashAt
  <1> QED
    BY <1>1, <1>2, <1>3 DEF Next, Engine, Tick, Time, LockExpires, BecomesDue, vars

(* A task step ends the task, hands it to its handler, or breaks the gather. *)
LEMMA TaskOutcome ==
    ASSUME NEW j \in Job, NEW s \in Slot, RunTask(j, s) \/ FinishTask(j, s)
    PROVE  EndTask(j, s) \/ StartHandler(j, s) \/ FinalizerRaises(j, s)
  <1>1. RunTask(j, s) => EndTask(j, s) \/ StartHandler(j, s)
    BY DEF RunTask, SkipCancelled, DenyByPolicy, DeferForApproval, RejectUnknownKind
  <1>2. FinishTask(j, s) => EndTask(j, s) \/ FinalizerRaises(j, s)
    BY DEF FinishTask, Succeed, FailAndRetry, FailForGood
  <1> QED
    BY <1>1, <1>2

(* A task is there because it was, because a tick claimed its job, or      *)
(* because it has just passed the gate.                                    *)
LEMMA TaskStep ==
    ASSUME TypeOK, [Next]_vars, NEW k \in Job, NEW t \in Slot,
           tasks'[k][t].pc # "none"
    PROVE  \/ tasks'[k][t].pc = tasks[k][t].pc
           \/ Claimable(Reaped(k)) /\ tasks'[k][t].pc = "claimed"
           \/ StartHandler(k, t)
  <1> USE DEF TypeOK
  <1>1. CASE UNCHANGED tasks
    BY <1>1
  <1>2. CASE Tick
    <2>1. PICK batch \in SUBSET ClaimableJobs :
             tasks' = [j \in Job |->
                        IF j \in batch
                        THEN [tasks[j] EXCEPT ![FreeSlot(j)] =
                                [NoTask EXCEPT !.pc = "claimed", !.awaited = TRUE]]
                        ELSE tasks[j]]
      BY <1>2 DEF Tick
    <2>2. CASE k \in batch /\ t = FreeSlot(k)
      BY <2>1, <2>2 DEF ClaimableJobs, NoTask
    <2>3. CASE ~(k \in batch /\ t = FreeSlot(k))
      BY <2>1, <2>3
    <2> QED
      BY <2>2, <2>3
  <1>3. ASSUME NEW j \in Job, NEW s \in Slot, EndTask(j, s)
        PROVE  tasks'[k][t].pc = tasks[k][t].pc
    BY <1>3 DEF EndTask, NoTask
  <1>4. ASSUME NEW j \in Job, NEW s \in Slot, StartHandler(j, s)
        PROVE  tasks'[k][t].pc = tasks[k][t].pc \/ StartHandler(k, t)
    BY <1>4 DEF StartHandler
  <1>5. ASSUME NEW j \in Job, NEW s \in Slot, FinalizerRaises(j, s)
        PROVE  tasks'[k][t].pc = tasks[k][t].pc
    <2>1. [tasks[k][t] EXCEPT !.awaited = FALSE].pc = tasks[k][t].pc
      <3>1. tasks[k][t] \in Task
        OBVIOUS
      <3> QED
        BY <3>1 DEF Task
    <2>2. tasks'[k][t] \in {NoTask, tasks[k][t], [tasks[k][t] EXCEPT !.awaited = FALSE]}
      BY <1>5 DEF FinalizerRaises
    <2>3. tasks'[k][t] # NoTask
      BY DEF NoTask
    <2> QED
      BY <2>1, <2>2, <2>3
  <1>6. CASE Failure
    <2>1. \A point : ~CrashAt(point)
      BY DEF CrashAt, NoTask
    <2> QED
      BY <1>6, <2>1 DEF Failure, Crash, CrashInTick, CrashInDecide, CrashInDefer,
                        CrashInEnqueue
  <1>7. Control \/ Time \/ UNCHANGED vars => UNCHANGED tasks
    BY DEF Control, Create, Cancel, RunNow, Requeue, Decide, StopObjective, Request,
           Time, LockExpires, BecomesDue, vars
  <1>8. CASE Engine
    <2>1. PICK j \in Job, s \in Slot : RunTask(j, s) \/ FinishTask(j, s)
      BY <1>8 DEF Engine
    <2>2. CASE EndTask(j, s)
      BY <1>3, <2>2
    <2>3. CASE StartHandler(j, s)
      BY <1>4, <2>3
    <2>4. CASE FinalizerRaises(j, s)
      BY <1>5, <2>4
    <2> QED
      BY <2>1, <2>2, <2>3, <2>4, TaskOutcome
  <1> QED
    BY <1>1, <1>2, <1>6, <1>7, <1>8 DEF Next

(* An approval row is decided, or is added to a job that asks, or to a row *)
(* a plan inserts.                                                         *)
LEMMA ApprovalStep ==
    ASSUME IInv, [Next]_vars, NEW k \in Job
    PROVE  \/ approvals'[k] = approvals[k]
           \/ \E i \in DOMAIN approvals[k], approve \in BOOLEAN :
                 approvals'[k] = DecideApproval(approvals[k], i, approve)
           \/ approvals'[k] = AskOnce(k) /\ ~Untouched(k)
           \/ /\ Untouched(k) /\ rows'[k].status # "absent"
              /\ approvals'[k] = Append(approvals[k], "pending")
  <1>0. TypeOK
    BY DEF IInv
  <1> USE DEF TypeOK
  <1>1. ASSUME NEW j \in Job, NEW approve \in BOOLEAN, NEW i \in DOMAIN approvals[j],
               approvals' = [approvals EXCEPT ![j] = DecideApproval(@, i, approve)]
        PROVE  \/ approvals'[k] = approvals[k]
               \/ \E n \in DOMAIN approvals[k], a \in BOOLEAN :
                     approvals'[k] = DecideApproval(approvals[k], n, a)
    BY <1>0, <1>1
  <1>2. ASSUME NEW j \in Job, NEW s \in Slot, tasks[j][s].pc = "claimed",
               approvals' = [approvals EXCEPT ![j] = AskOnce(j)]
        PROVE  \/ approvals'[k] = approvals[k]
               \/ approvals'[k] = AskOnce(k) /\ ~Untouched(k)
    BY <1>0, <1>2 DEF Untouched
  <1>3. ASSUME NEW j \in Job, NEW s \in Slot, FinishTask(j, s)
        PROVE  \/ approvals'[k] = approvals[k]
               \/ /\ Untouched(k) /\ rows'[k].status # "absent"
                  /\ approvals'[k] = Append(approvals[k], "pending")
    <2>1. tasks[j][s].pc = "handling"
      BY <1>3 DEF FinishTask, Succeed, FailAndRetry, FailForGood, FinalizerRaises,
                  HandlerEnds
    <2>2. PICK plan \in SUBSET Plannable(j) : \E row : EnqueueAndWrite(plan, j, row)
      BY <1>3 DEF FinishTask, Succeed, FailAndRetry, FailForGood, FinalizerRaises
    <2>3. ASSUME k \in plan, Flagged(k)
          PROVE  Untouched(k) /\ rows'[k].status # "absent"
      <3>1. Untouched(k)
        BY <2>3, InsertedRow DEF Plannable
      <3>2. k # j
        BY <2>1, <3>1 DEF Untouched
      <3>3. PICK due \in BOOLEAN : rows'[k] = PlannedRow(k, due)
        BY <2>2, <2>3, <3>2 DEF EnqueueAndWrite
      <3> QED
        BY <1>0, <3>1, <3>3, InsertedOK DEF RowOK
    <2> QED
      BY <2>2, <2>3 DEF EnqueueAndWrite
  <1>4. ASSUME NEW j \in Job, NEW s \in Slot, NEW c \in Job, CrashInEnqueue(j, s, c)
        PROVE  \/ approvals'[k] = approvals[k]
               \/ /\ Untouched(k) /\ rows'[k].status # "absent"
                  /\ approvals'[k] = Append(approvals[k], "pending")
    <2>1. Untouched(c)
      BY <1>4, InsertedRow DEF CrashInEnqueue, Plannable
    <2>2. rows'[c].status # "absent"
      BY <1>0, <1>4 DEF CrashInEnqueue, SetRow, CreateJob, NoRow
    <2> QED
      BY <1>0, <1>4, <2>1, <2>2 DEF CrashInEnqueue
  <1>5. ASSUME NEW j \in Job, NEW s \in Slot, RunTask(j, s)
        PROVE  \/ UNCHANGED approvals
               \/ tasks[j][s].pc = "claimed" /\ approvals' = [approvals EXCEPT ![j] = AskOnce(j)]
    BY <1>5 DEF RunTask, SkipCancelled, DenyByPolicy, DeferForApproval,
                RejectUnknownKind, StartHandler, Reload
  <1>6. CASE Control
    BY <1>1, <1>6 DEF Control, Create, Cancel, RunNow, Requeue, Decide, StopObjective
  <1>7. CASE Failure
    BY <1>1, <1>2, <1>4, <1>7
       DEF Failure, Crash, CrashInTick, CrashInDecide, CrashInDefer
  <1>8. Tick \/ Time \/ UNCHANGED vars => UNCHANGED approvals
    BY DEF Tick, Time, LockExpires, BecomesDue, vars
  <1> QED
    BY <1>2, <1>3, <1>5, <1>6, <1>7, <1>8 DEF Next, Engine

LEMMA InvariantInit == Init => IInv
  <1> SUFFICES ASSUME Init
               PROVE  IInv
    OBVIOUS
  <1>1. TypeOK
    BY EngineAssumption DEF Init, TypeOK, NoRow, Row, Status, Lock, NoTask, Task
  <1>2. \A j \in Job : Untouched(j)
    BY DEF Init, Untouched, NoTask
  <1>3. ApprovedBeforeHandled
    BY DEF Init, ApprovedBeforeHandled, NoTask
  <1>4. OneOpenRequest
    BY DEF Init, OneOpenRequest, PendingIn
  <1> QED
    BY <1>1, <1>2, <1>3, <1>4 DEF IInv

LEMMA InvariantStep == IInv /\ [Next]_vars => IInv'
  <1> SUFFICES ASSUME IInv, [Next]_vars
               PROVE  IInv'
    OBVIOUS
  <1>0. TypeOK /\ TypeOK' /\ spec' = spec
    BY TypeStep, SpecIsConstant DEF IInv
  <1>1. ASSUME NEW k \in Job
        PROVE  (Untouched(k) \/ RowOK(k, rows[k]))'
    <2>1. CASE RowOK(k, rows'[k])
      BY <1>0, <2>1 DEF RowOK, Flagged, Gated, AutoApprovable, Recurring
    <2>2. CASE ~RowOK(k, rows'[k])
      <3>1. Untouched(k) /\ rows'[k] = rows[k]
        BY <2>2, RowStep DEF IInv, RowMoves, Kept
      <3>2. approvals'[k] = <<>>
        BY <3>1, ApprovalStep DEF Untouched, NoRow
      <3>3. \A t \in Slot : tasks'[k][t].pc = "none"
        <4>1. ~Claimable(Reaped(k))
          BY <3>1 DEF Untouched, NoRow, Claimable, Reaped, ReapRow, Stale
        <4> QED
          BY <1>0, <3>1, <4>1, TaskStep DEF Untouched, StartHandler, Reload
      <3> QED
        BY <3>1, <3>2, <3>3 DEF Untouched
    <2> QED
      BY <2>1, <2>2
  <1>2. ApprovedBeforeHandled'
    <2> SUFFICES ASSUME NEW k \in Job, NEW t \in Slot, Gated(k),
                        tasks'[k][t].pc = "handling"
                 PROVE  rows'[k].approved
      BY <1>0 DEF ApprovedBeforeHandled, Gated, Flagged
    <2>1. CASE tasks[k][t].pc = "handling"
      <3>1. rows[k].approved /\ RowOK(k, rows[k])
        BY <2>1, InsertedRow DEF IInv, ApprovedBeforeHandled
      <3> QED
        BY <2>1, <3>1, RowStep DEF RowMoves, Kept, Untouched
    <2>2. CASE StartHandler(k, t)
      <3>1. RowOK(k, rows[k])
        BY <2>2, InsertedRow DEF StartHandler, Reload
      <3>2. rows[k].approved
        BY <2>2, <3>1 DEF StartHandler, GateOpen, RowOK, Gated
      <3>3. rows'[k].approved
        BY <1>0, <2>2, <3>2 DEF TypeOK, StartHandler, SetRow, AutoApproved, Gated
      <3> QED
        BY <3>3
    <2> QED
      BY <1>0, <2>1, <2>2, TaskStep
  <1>3. OneOpenRequest'
    <2> SUFFICES ASSUME NEW k \in Job,
                        NEW i \in PendingIn(approvals'[k]),
                        NEW n \in PendingIn(approvals'[k])
                 PROVE  i = n
      BY DEF OneOpenRequest
    <2>0. \A a, b \in PendingIn(approvals[k]) : a = b
      BY DEF IInv, OneOpenRequest
    <2>1. approvals[k] \in Seq(ApprovalStatus)
      BY <1>0 DEF TypeOK
    <2>2. CASE approvals'[k] = approvals[k]
      BY <2>0, <2>2
    <2>3. ASSUME NEW m \in DOMAIN approvals[k], NEW approve \in BOOLEAN,
                 approvals'[k] = DecideApproval(approvals[k], m, approve)
          PROVE  i = n
      <3>1. PendingIn(approvals'[k]) \subseteq PendingIn(approvals[k])
        BY <2>1, <2>3 DEF DecideApproval, PendingIn
      <3> QED
        BY <2>0, <3>1
    <2>4. CASE approvals'[k] = AskOnce(k)
      BY <2>0, <2>1, <2>4 DEF AskOnce, PendingIn
    <2>5. CASE Untouched(k) /\ approvals'[k] = Append(approvals[k], "pending")
      BY <2>5 DEF Untouched, PendingIn
    <2> QED
      BY <2>2, <2>3, <2>4, <2>5, ApprovalStep
  <1> QED
    BY <1>0, <1>1, <1>2, <1>3 DEF IInv

LEMMA Invariant == Spec => []IInv
  BY InvariantInit, InvariantStep, PTL DEF Spec

-----------------------------------------------------------------------------
(* A job whose creator asked for approval under a policy that requires it  *)
(* is not handled before it was approved (_run_job's gate against every    *)
(* order of claims, run-now requests, requeues and crashes).               *)
THEOREM GateHolds == Spec => []ApprovedBeforeHandled
  BY Invariant, PTL DEF IInv

(* People are asked once per job: no interleaving leaves two pending       *)
(* approval rows (the "if not pending" of _run_job, and enqueue_plan).     *)
THEOREM AskedOnce == Spec => []OneOpenRequest
  BY Invariant, PTL DEF IInv

(* The reaper can find every running row but those approved on the spot.   *)
THEOREM LeaseHolds == Spec => []RunIsLeased
  <1>1. IInv => RunIsLeased
    BY DEF IInv, RunIsLeased, Untouched, NoRow, RowOK
  <1> QED
    BY <1>1, Invariant, PTL

(* Failures and successes never end a recurring job that may run           *)
(* (_handle_success and _handle_failure).                                  *)
THEOREM ScheduleSurvives == Spec => []RecurringNeverEnds
  <1>1. IInv => RecurringNeverEnds
    BY DEF IInv, RecurringNeverEnds, Untouched, NoRow, RowOK, Recurring
  <1> QED
    BY <1>1, Invariant, PTL

(* No step un-cancels a job or gives a cancelled job a new task or a new   *)
(* handler (cancel_job against claim_due_jobs and _run_job's reload).      *)
THEOREM CancellationSticks == Spec => CancelStopsNewRuns
  <1> DEFINE Stops ==
        \A j \in Job : rows[j].cancelled =>
            /\ rows'[j].cancelled
            /\ \A s \in Slot : tasks'[j][s].pc # "none"
                                  => tasks'[j][s].pc = tasks[j][s].pc
  <1>1. IInv /\ [Next]_vars => Stops
    <2> SUFFICES ASSUME IInv, [Next]_vars, NEW j \in Job, rows[j].cancelled
                 PROVE  /\ rows'[j].cancelled
                        /\ \A s \in Slot : tasks'[j][s].pc # "none"
                                              => tasks'[j][s].pc = tasks[j][s].pc
      OBVIOUS
    <2>1. ~Untouched(j)
      BY DEF Untouched, NoRow
    <2>2. rows'[j].cancelled
      BY <2>1, RowStep DEF RowMoves, Kept
    <2>3. ~Claimable(Reaped(j))
      BY DEF IInv, TypeOK, Row, Claimable, Reaped, ReapRow, Stale
    <2>4. \A s \in Slot : ~StartHandler(j, s)
      BY DEF StartHandler, GateOpen
    <2> QED
      BY <2>2, <2>3, <2>4, TaskStep DEF IInv
  <1>2. IInv /\ [Next]_vars => [Stops]_vars
    BY <1>1
  <1> HIDE DEF Stops
  <1>3. Spec => [][Stops]_vars
    BY <1>2, Invariant, PTL DEF Spec
  <1> QED
    BY <1>3 DEF CancelStopsNewRuns, Stops

-----------------------------------------------------------------------------
(* The approvals table against the jobs table.  They are written by two    *)
(* statements of one step, so they agree unless a crash fell between them: *)
(* an approved job that must be approved and is not cancelled has the      *)
(* answer that says so, and an answer "denied" has cancelled its job.      *)

Backed(j) ==
    \E i \in DOMAIN approvals[j] :
        approvals[j][i] = "approved" \/ (approvals[j][i] = "denied" /\ crashes > 0)

AnswersAgree ==
    \A j \in Job :
        /\ Gated(j) /\ rows[j].approved /\ ~rows[j].cancelled => Backed(j)
        /\ crashes = 0 => \/ rows[j].cancelled
                          \/ \A i \in DOMAIN approvals[j] : approvals[j][i] # "denied"

(* What every statement but those of a decision leaves to the job: it      *)
(* grants no approval and lets no job wait that did not wait.              *)
Plain(row, new) ==
    /\ new.approved => row.approved
    /\ new.status = "awaiting_approval" => row.status = "awaiting_approval"

LEMMA PlainStatements ==
    ASSUME NEW row \in Row, NEW n, NEW next
    PROVE  /\ Plain(row, row)
           /\ Plain(row, CancelJob(row))
           /\ Plain(row, QueueNow(row))
           /\ Plain(row, RequeueRow(row))
           /\ Plain(row, ClaimRow(row))
           /\ Plain(row, ReapRow(row))
           /\ Plain(row, DieRow(row))
           /\ Plain(row, SucceedRow(row, next))
           /\ Plain(row, RetryRow(row, n))
           /\ Plain(row, GiveUpRow(row, next, n))
  <1> USE DEF Row, Plain, SetJobStatus, QueueNow, RetryRow
  <1>1. Plain(row, row) /\ Plain(row, CancelJob(row)) /\ Plain(row, QueueNow(row))
    BY DEF CancelJob
  <1>2. Plain(row, RequeueRow(row)) /\ Plain(row, ClaimRow(row))
    BY DEF RequeueRow, ClaimRow
  <1>3. Plain(row, ReapRow(row)) /\ Plain(row, DieRow(row))
    BY DEF ReapRow, DieRow
  <1>4. Plain(row, SucceedRow(row, next)) /\ Plain(row, RetryRow(row, n))
    BY DEF SucceedRow
  <1>5. Plain(row, GiveUpRow(row, next, n))
    BY DEF GiveUpRow
  <1> QED
    BY <1>1, <1>2, <1>3, <1>4, <1>5

NoGrant(k) == Gated(k) /\ rows'[k].approved => rows[k].approved

(* How a step may change one job's rows in both tables at once. *)
Steady(k) ==
    /\ approvals'[k] = approvals[k]
    /\ NoGrant(k)
    /\ rows'[k].status = "awaiting_approval" => rows[k].status = "awaiting_approval"

BothMove(k) ==
    \/ Steady(k)
    \/ approvals'[k] = AskOnce(k) /\ NoGrant(k)
    \/ \E approve \in BOOLEAN : \E i \in DOMAIN approvals[k] :
          Decide(k, i, approve) \/ CrashInDecide(k, i, approve)

LEMMA PlainWrite ==
    ASSUME TypeOK, NEW j \in Job, NEW row, SetRow(j, row),
           Plain(rows[j], row), UNCHANGED approvals
    PROVE  \A k \in Job : BothMove(k)
  BY DEF TypeOK, SetRow, Plain, BothMove, Steady, NoGrant

LEMMA EnqueueMovesBoth ==
    ASSUME IInv, NEW j \in Job, NEW plan \in SUBSET Plannable(j), NEW row,
           Plain(rows[j], row), RowOK(j, rows[j]), EnqueueAndWrite(plan, j, row)
    PROVE  \A k \in Job : BothMove(k)
  <1> SUFFICES ASSUME NEW k \in Job
               PROVE  BothMove(k)
    OBVIOUS
  <1>0. TypeOK /\ j \notin plan
    BY DEF IInv, Plannable, RowOK
  <1>1. PICK due \in BOOLEAN :
           rows'[k] = IF k = j THEN row
                      ELSE IF k \in plan THEN PlannedRow(k, due) ELSE rows[k]
    BY DEF EnqueueAndWrite
  <1>2. approvals'[k] = IF k \in plan /\ Flagged(k)
                        THEN Append(approvals[k], "pending") ELSE approvals[k]
    BY DEF EnqueueAndWrite
  <1>3. CASE k \in plan
    <2>1. Untouched(k) /\ k # j
      BY <1>0, <1>3, InsertedRow DEF Plannable
    <2>2. rows'[k] = PlannedRow(k, due)
      BY <1>1, <1>3, <2>1
    <2>3. ~rows'[k].approved /\ (rows'[k].status = "awaiting_approval" => Flagged(k))
      BY <2>2 DEF PlannedRow, CreateJob, NoRow, SetJobStatus
    <2>4. Flagged(k) => approvals'[k] = AskOnce(k)
      BY <1>2, <1>3, <2>1 DEF Untouched, AskOnce, PendingIn
    <2> QED
      BY <1>2, <2>3, <2>4 DEF BothMove, Steady, NoGrant
  <1>4. CASE k \notin plan
    BY <1>0, <1>1, <1>2, <1>4 DEF BothMove, Steady, NoGrant, Plain
  <1> QED
    BY <1>3, <1>4

(* Only a decision can approve a job that must be approved, and nobody     *)
(* waits for an answer that was not asked for.                             *)
LEMMA BothStep ==
    ASSUME IInv, [Next]_vars
    PROVE  \A k \in Job : BothMove(k)
  <1>0. TypeOK /\ \A k \in Job : rows[k] \in Row
    BY DEF IInv, TypeOK
  <1>1. ASSUME NEW j \in Job, Create(j)
        PROVE  \A k \in Job : BothMove(k)
    <2>1. PICK due \in BOOLEAN : SetRow(j, CreateJob(Flagged(j), due))
      BY <1>1 DEF Create
    <2>2. Plain(rows[j], CreateJob(Flagged(j), due))
      BY DEF Plain, CreateJob, NoRow
    <2> QED
      BY <1>0, <1>1, <2>1, <2>2, PlainWrite DEF Create
  <1>2. ASSUME NEW j \in Job, Cancel(j) \/ RunNow(j) \/ Requeue(j)
        PROVE  \A k \in Job : BothMove(k)
    BY <1>0, <1>2, PlainStatements, PlainWrite DEF Cancel, RunNow, Requeue
  <1>3. ASSUME NEW j \in Job, NEW approve \in BOOLEAN, NEW i \in DOMAIN approvals[j],
               Decide(j, i, approve) \/ CrashInDecide(j, i, approve)
        PROVE  \A k \in Job : BothMove(k)
    <2>1. BothMove(j)
      BY <1>3 DEF BothMove
    <2>2. \A k \in Job \ {j} : rows'[k] = rows[k] /\ approvals'[k] = approvals[k]
      BY <1>0, <1>3 DEF TypeOK, Decide, CrashInDecide, SetRow
    <2> QED
      BY <2>1, <2>2 DEF BothMove, Steady, NoGrant
  <1>4. ASSUME NEW objective \in SUBSET Created, StopObjective(objective)
        PROVE  \A k \in Job : BothMove(k)
    <2>1. \A k \in Job : rows'[k] = rows[k] \/ rows'[k] = CancelJob(rows[k])
      BY <1>4 DEF StopObjective
    <2> QED
      BY <1>0, <1>4, <2>1, PlainStatements
         DEF StopObjective, BothMove, Steady, NoGrant, Plain
  <1>5. ASSUME NEW k \in Job, UNCHANGED approvals,
               \/ rows'[k] = Reaped(k)
               \/ rows'[k] = ClaimRow(Reaped(k))
        PROVE  BothMove(k)
    <2>1. Reaped(k) \in Row
      BY <1>0, StatementRow DEF Reaped
    <2>2. Plain(rows[k], Reaped(k)) /\ Plain(Reaped(k), ClaimRow(Reaped(k)))
      BY <1>0, <2>1, PlainStatements DEF Reaped
    <2> QED
      BY <1>5, <2>2 DEF Plain, BothMove, Steady, NoGrant
  <1>6. CASE Tick
    BY <1>5, <1>6 DEF Tick
  <1>7. ASSUME NEW j \in Job, NEW s \in Slot, RunTask(j, s)
        PROVE  \A k \in Job : BothMove(k)
    <2>1. CASE SkipCancelled(j, s)
      BY <2>1 DEF SkipCancelled, BothMove, Steady, NoGrant
    <2>2. CASE DenyByPolicy(j, s)
      BY <1>0, <2>2, PlainStatements, PlainWrite DEF DenyByPolicy
    <2>3. CASE DeferForApproval(j, s)
      <3> DEFINE deferred ==
              [SetJobStatus(rows[j], "awaiting_approval") EXCEPT !.requires = TRUE]
      <3>1. deferred.approved => rows[j].approved
        BY <1>0 DEF SetJobStatus, Row
      <3> HIDE DEF deferred
      <3>2. SetRow(j, deferred)
        BY <2>3 DEF DeferForApproval, deferred
      <3> QED
        BY <1>0, <2>3, <3>1, <3>2
           DEF TypeOK, DeferForApproval, SetRow, BothMove, Steady, NoGrant
    <2>4. CASE RejectUnknownKind(j, s) \/ StartHandler(j, s)
      <3>1. Gated(j) => AutoApproved(j) = rows[j]
        BY DEF Gated, AutoApproved
      <3>2. Gated(j) /\ DieRow(AutoApproved(j)).approved => rows[j].approved
        BY <1>0, <3>1 DEF DieRow, SetJobStatus, Row
      <3>3. /\ AutoApproved(j).status \in {rows[j].status, "running"}
            /\ DieRow(AutoApproved(j)).status = "dead"
        <4>1. AutoApproved(j) \in Row
          BY <1>0, AutoApprovedType
        <4>2. DieRow(AutoApproved(j)).status = "dead"
          BY <4>1 DEF DieRow, SetJobStatus, Row
        <4>3. AutoApproved(j).status \in {rows[j].status, "running"}
          BY <1>0 DEF AutoApproved, Row
        <4> QED
          BY <4>2, <4>3
      <3>4. PICK row \in {AutoApproved(j), DieRow(AutoApproved(j))} :
               SetRow(j, row) /\ UNCHANGED approvals
        BY <2>4 DEF RejectUnknownKind, StartHandler
      <3>5. /\ Gated(j) /\ row.approved => rows[j].approved
            /\ row.status = "awaiting_approval" => rows[j].status = "awaiting_approval"
        BY <3>1, <3>2, <3>3, <3>4
      <3> QED
        BY <1>0, <3>4, <3>5 DEF TypeOK, SetRow, BothMove, Steady, NoGrant
    <2> QED
      BY <1>7, <2>1, <2>2, <2>3, <2>4 DEF RunTask
  <1>8. ASSUME NEW j \in Job, NEW s \in Slot, FinishTask(j, s)
        PROVE  \A k \in Job : BothMove(k)
    <2>1. RowOK(j, rows[j])
      BY <1>8, InsertedRow
         DEF FinishTask, Succeed, FailAndRetry, FailForGood, FinalizerRaises, HandlerEnds
    <2>2. PICK plan \in SUBSET Plannable(j) :
             \E row : Plain(rows[j], row) /\ EnqueueAndWrite(plan, j, row)
      BY <1>0, <1>8, PlainStatements
         DEF FinishTask, Succeed, FailAndRetry, FailForGood, FinalizerRaises
    <2> QED
      BY <2>1, <2>2, EnqueueMovesBoth
  <1>9. CASE Time
    <2>1. \A j \in Job : /\ Plain(rows[j], [rows[j] EXCEPT !.lock = "expired"])
                         /\ Plain(rows[j], [rows[j] EXCEPT !.due = TRUE])
      BY <1>0 DEF Row, Plain
    <2> QED
      BY <1>0, <1>9, <2>1, PlainWrite DEF Time, LockExpires, BecomesDue
  <1>10. CASE Failure
    <2>1. CASE Crash \/ UNCHANGED vars
      BY <2>1 DEF Crash, vars, BothMove, Steady, NoGrant
    <2>2. CASE CrashInTick
      BY <1>5, <2>2 DEF CrashInTick
    <2>3. ASSUME NEW j \in Job, NEW s \in Slot, CrashInDefer(j, s)
          PROVE  \A k \in Job : BothMove(k)
      BY <1>0, <2>3 DEF TypeOK, CrashInDefer, BothMove, Steady, NoGrant
    <2>4. ASSUME NEW j \in Job, NEW s \in Slot, NEW c \in Job, CrashInEnqueue(j, s, c)
          PROVE  \A k \in Job : BothMove(k)
      <3>1. Untouched(c)
        BY <2>4, InsertedRow DEF CrashInEnqueue, Plannable
      <3>2. PICK due \in BOOLEAN : SetRow(c, CreateJob(TRUE, due))
        BY <2>4 DEF CrashInEnqueue
      <3>3. ~rows'[c].approved /\ rows'[c].status = "queued"
        BY <1>0, <3>2 DEF TypeOK, SetRow, CreateJob, NoRow
      <3>4. approvals'[c] \in {approvals[c], AskOnce(c)}
        BY <1>0, <2>4, <3>1 DEF TypeOK, CrashInEnqueue, Untouched, AskOnce, PendingIn
      <3>5. \A k \in Job \ {c} : rows'[k] = rows[k] /\ approvals'[k] = approvals[k]
        BY <1>0, <2>4, <3>2 DEF TypeOK, SetRow, CrashInEnqueue
      <3> QED
        BY <3>3, <3>4, <3>5 DEF BothMove, Steady, NoGrant
    <2> QED
      BY <1>3, <1>10, <2>1, <2>2, <2>3, <2>4 DEF Failure
  <1>11. CASE UNCHANGED vars
    BY <1>11 DEF vars, BothMove, Steady, NoGrant
  <1> QED
    BY <1>1, <1>2, <1>3, <1>4, <1>6, <1>7, <1>8, <1>9, <1>10, <1>11
       DEF Next, Control, Engine

LEMMA CrashesGrow ==
    ASSUME TypeOK, [Next]_vars
    PROVE  crashes' >= crashes
  <1>1. \A point : CrashAt(point) => crashes' >= crashes
    BY DEF TypeOK, CrashAt
  <1>2. Failure => crashes' >= crashes
    BY <1>1 DEF Failure, Crash, CrashInTick, CrashInDecide, CrashInDefer, CrashInEnqueue
  <1>3. ASSUME NEW j \in Job, NEW s \in Slot, RunTask(j, s) \/ FinishTask(j, s)
        PROVE  crashes' = crashes
    BY <1>3 DEF RunTask, SkipCancelled, DenyByPolicy, DeferForApproval,
                RejectUnknownKind, StartHandler, Reload,
                FinishTask, Succeed, FailAndRetry, FailForGood, FinalizerRaises,
                HandlerEnds
  <1>4. Control \/ Tick \/ Time \/ UNCHANGED vars => crashes' = crashes
    BY DEF Control, Create, Cancel, RunNow, Requeue, Decide, StopObjective, Request,
           Tick, Time, LockExpires, BecomesDue, vars
  <1> QED
    BY <1>2, <1>3, <1>4 DEF TypeOK, Next, Engine

(* An answer is never taken back, so what backs a job keeps backing it. *)
LEMMA BackedStays ==
    ASSUME IInv, [Next]_vars, NEW k \in Job, Backed(k)
    PROVE  Backed(k)'
  <1>0. approvals[k] \in Seq(ApprovalStatus) /\ crashes \in Nat
    BY DEF IInv, TypeOK
  <1>1. crashes' \in Nat /\ crashes' >= crashes
    BY TypeStep, CrashesGrow DEF IInv, TypeOK
  <1>2. PICK i \in DOMAIN approvals[k] :
           approvals[k][i] = "approved" \/ (approvals[k][i] = "denied" /\ crashes > 0)
    BY DEF Backed
  <1>3. i \in DOMAIN approvals'[k] /\ approvals'[k][i] = approvals[k][i]
    <2>1. CASE approvals'[k] = approvals[k]
      BY <2>1
    <2>2. ASSUME NEW n \in DOMAIN approvals[k], NEW approve \in BOOLEAN,
                 approvals'[k] = DecideApproval(approvals[k], n, approve)
          PROVE  i \in DOMAIN approvals'[k] /\ approvals'[k][i] = approvals[k][i]
      BY <1>0, <1>2, <2>2 DEF DecideApproval
    <2>3. CASE approvals'[k] \in {AskOnce(k), Append(approvals[k], "pending")}
      BY <1>0, <1>2, <2>3 DEF AskOnce
    <2> QED
      BY <2>1, <2>2, <2>3, ApprovalStep
  <1> QED
    BY <1>0, <1>1, <1>2, <1>3 DEF Backed

LEMMA AnswersAgreeStep ==
    ASSUME IInv, AnswersAgree, [Next]_vars
    PROVE  AnswersAgree'
  <1>0. TypeOK /\ TypeOK' /\ spec' = spec /\ crashes' >= crashes
    BY TypeStep, SpecIsConstant, CrashesGrow DEF IInv
  <1> SUFFICES ASSUME NEW k \in Job
               PROVE  /\ Gated(k) /\ rows'[k].approved /\ ~rows'[k].cancelled => Backed(k)'
                      /\ crashes' = 0 =>
                            \/ rows'[k].cancelled
                            \/ \A i \in DOMAIN approvals'[k] : approvals'[k][i] # "denied"
    BY <1>0 DEF AnswersAgree, Gated, Flagged
  <1>1. /\ approvals[k] \in Seq(ApprovalStatus) /\ rows[k] \in Row
        /\ crashes \in Nat /\ crashes' \in Nat /\ (crashes' = 0 => crashes = 0)
    BY <1>0 DEF TypeOK
  <1>2. rows[k].cancelled => rows'[k].cancelled
    <2>1. rows[k].cancelled => ~Untouched(k)
      BY DEF Untouched, NoRow
    <2> QED
      BY <2>1, RowStep DEF RowMoves, Kept
  <1>3. Backed(k) => Backed(k)'
    BY BackedStays
  <1>4. ASSUME NoGrant(k), approvals'[k] \in {approvals[k], AskOnce(k)}
        PROVE  /\ Gated(k) /\ rows'[k].approved /\ ~rows'[k].cancelled => Backed(k)'
               /\ crashes' = 0 =>
                     \/ rows'[k].cancelled
                     \/ \A i \in DOMAIN approvals'[k] : approvals'[k][i] # "denied"
    <2>1. Gated(k) /\ rows'[k].approved /\ ~rows'[k].cancelled => Backed(k)'
      BY <1>2, <1>3, <1>4 DEF AnswersAgree, NoGrant
    <2>2. ASSUME \A i \in DOMAIN approvals[k] : approvals[k][i] # "denied"
          PROVE  \A i \in DOMAIN approvals'[k] : approvals'[k][i] # "denied"
      BY <1>1, <1>4, <2>2 DEF AskOnce
    <2> QED
      BY <1>1, <1>2, <2>1, <2>2 DEF AnswersAgree
  <1>5. ASSUME NEW approve \in BOOLEAN, NEW n \in DOMAIN approvals[k],
               CrashInDecide(k, n, approve)
        PROVE  /\ Gated(k) /\ rows'[k].approved /\ ~rows'[k].cancelled => Backed(k)'
               /\ crashes' # 0
    BY <1>1, <1>3, <1>5 DEF AnswersAgree, CrashInDecide, CrashAt
  <1>6. ASSUME NEW approve \in BOOLEAN, NEW n \in DOMAIN approvals[k],
               Decide(k, n, approve)
        PROVE  /\ Gated(k) /\ rows'[k].approved /\ ~rows'[k].cancelled => Backed(k)'
               /\ crashes' = 0 =>
                     \/ rows'[k].cancelled
                     \/ \A i \in DOMAIN approvals'[k] : approvals'[k][i] # "denied"
    <2>1. /\ rows'[k] = IF approve THEN ApproveRow(rows[k]) ELSE CancelJob(rows[k])
          /\ approvals'[k] = DecideApproval(approvals[k], n, approve)
          /\ crashes' = crashes
      BY <1>0, <1>6 DEF TypeOK, Decide, Request, SetRow
    <2>2. CASE ~approve
      BY <1>1, <2>1, <2>2 DEF CancelJob, Row
    <2>3. CASE approve
      <3>1. \/ approvals'[k][n] = "approved" /\ n \in DOMAIN approvals'[k]
            \/ approvals'[k] = approvals[k] /\ approvals[k][n] = "denied"
        BY <1>1, <2>1, <2>3 DEF DecideApproval, ApprovalStatus
      <3>2. CASE approvals'[k][n] = "approved" /\ n \in DOMAIN approvals'[k]
        <4>1. Backed(k)'
          BY <3>2 DEF Backed
        <4>2. ASSUME \A i \in DOMAIN approvals[k] : approvals[k][i] # "denied"
              PROVE  \A i \in DOMAIN approvals'[k] : approvals'[k][i] # "denied"
          BY <1>1, <2>1, <2>3, <4>2 DEF DecideApproval
        <4> QED
          BY <1>1, <1>2, <4>1, <4>2 DEF AnswersAgree
      <3>3. CASE approvals'[k] = approvals[k] /\ approvals[k][n] = "denied"
        <4>1. crashes > 0 => Backed(k)
          BY <3>3 DEF Backed
        <4>2. crashes = 0 => rows[k].cancelled
          BY <3>3 DEF AnswersAgree
        <4> QED
          BY <1>1, <1>2, <1>3, <4>1, <4>2
      <3> QED
        BY <3>1, <3>2, <3>3
    <2> QED
      BY <2>2, <2>3
  <1> QED
    BY <1>4, <1>5, <1>6, BothStep DEF BothMove, Steady

LEMMA AgreeInvariant == Spec => [](IInv /\ AnswersAgree)
  <1>1. Init => AnswersAgree
    BY DEF Init, AnswersAgree, NoRow
  <1> QED
    BY <1>1, InvariantInit, InvariantStep, AnswersAgreeStep, PTL DEF Spec

(* A job that must be approved only ever runs on an answer somebody gave   *)
(* to a request of the job (the decision routes' two writes against        *)
(* _run_job's gate, through re-decisions, cancellations and crashes).      *)
THEOREM ApprovalBacked == Spec => []ApprovalBacksRun
  <1>1. Init => ApprovalBacksRun
    BY DEF Init, ApprovalBacksRun, NoTask
  <1>2. IInv /\ AnswersAgree /\ ApprovalBacksRun /\ [Next]_vars => ApprovalBacksRun'
    <2> SUFFICES ASSUME IInv, AnswersAgree, ApprovalBacksRun, [Next]_vars,
                        NEW k \in Job, NEW t \in Slot, Gated(k),
                        tasks'[k][t].pc = "handling"
                 PROVE  Backed(k)'
      BY SpecIsConstant DEF ApprovalBacksRun, Backed, Gated, Flagged
    <2>1. CASE tasks[k][t].pc = "handling"
      BY <2>1, BackedStays DEF ApprovalBacksRun, Backed
    <2>2. CASE StartHandler(k, t)
      <3>1. RowOK(k, rows[k])
        BY <2>2, InsertedRow DEF StartHandler, Reload
      <3>2. rows[k].approved /\ ~rows[k].cancelled
        BY <2>2, <3>1 DEF StartHandler, GateOpen, RowOK, Gated
      <3> QED
        BY <3>2, BackedStays DEF AnswersAgree
    <2> QED
      BY <2>1, <2>2, TaskStep DEF IInv
  <1> QED
    BY <1>1, <1>2, AgreeInvariant, PTL DEF Spec

(* Whoever waits for an answer can get one: the request is in the table,   *)
(* and open unless a crash tore a decision apart (enqueue_plan and the     *)
(* deferral of _run_job against decide_approval).                          *)
THEOREM WaitingIsAsked == Spec => []AwaitingHasRequest
  <1>1. Init => AwaitingHasRequest
    BY DEF Init, AwaitingHasRequest, NoRow
  <1>2. IInv /\ AwaitingHasRequest /\ [Next]_vars => AwaitingHasRequest'
    <2> SUFFICES ASSUME IInv, AwaitingHasRequest, [Next]_vars, NEW k \in Job,
                        rows'[k].status = "awaiting_approval"
                 PROVE  /\ approvals'[k] # <<>>
                        /\ PendingIn(approvals'[k]) # {} \/ crashes' > 0
      BY DEF AwaitingHasRequest
    <2>0. /\ TypeOK /\ approvals[k] \in Seq(ApprovalStatus) /\ rows[k] \in Row
          /\ crashes \in Nat /\ crashes' \in Nat /\ crashes' >= crashes
      BY TypeStep, CrashesGrow DEF IInv, TypeOK
    <2>1. CASE Steady(k)
      BY <2>0, <2>1 DEF Steady, AwaitingHasRequest
    <2>2. ASSUME approvals'[k] = AskOnce(k)
          PROVE  approvals'[k] # <<>> /\ PendingIn(approvals'[k]) # {}
      <3>1. CASE PendingIn(approvals[k]) = {}
        <4>1. Len(approvals[k]) + 1 \in PendingIn(approvals'[k])
          BY <2>0, <2>2, <3>1 DEF AskOnce, PendingIn
        <4> QED
          BY <2>0, <2>2, <3>1, <4>1 DEF AskOnce
      <3>2. CASE PendingIn(approvals[k]) # {}
        BY <2>2, <3>2 DEF AskOnce, PendingIn
      <3> QED
        BY <3>1, <3>2
    <2>3. ASSUME NEW approve \in BOOLEAN, NEW i \in DOMAIN approvals[k],
                 Decide(k, i, approve)
          PROVE  FALSE
      <3>1. rows'[k] \in {ApproveRow(rows[k]), CancelJob(rows[k])}
        BY <2>0, <2>3 DEF TypeOK, Decide, SetRow
      <3> QED
        BY <2>0, <3>1 DEF ApproveRow, CancelJob, QueueNow, SetJobStatus, Row
    <2>4. ASSUME NEW approve \in BOOLEAN, NEW i \in DOMAIN approvals[k],
                 CrashInDecide(k, i, approve)
          PROVE  approvals'[k] # <<>> /\ crashes' > 0
      <3>1. approvals'[k] = DecideApproval(approvals[k], i, approve)
        BY <2>0, <2>4 DEF TypeOK, CrashInDecide
      <3> QED
        BY <2>0, <2>4, <3>1 DEF DecideApproval, CrashInDecide, CrashAt
    <2> QED
      BY <2>1, <2>2, <2>3, <2>4, BothStep DEF BothMove
  <1> QED
    BY <1>1, <1>2, Invariant, PTL DEF Spec

-----------------------------------------------------------------------------
(* No overlap.  The loop awaits the whole batch before it claims again, so *)
(* a job has at most one awaited task; and while no schedule makes a       *)
(* finalizer raise, no task leaves the gather before it ends.              *)

LiveIsAwaited ==
    \A j \in Job, s \in Slot : tasks[j][s].pc # "none" => tasks[j][s].awaited

(* How a step may change one task's place in the gather. *)
AwaitMoves(k, t) ==
    \/ tasks'[k][t] = NoTask
    \/ /\ tasks'[k][t].awaited = tasks[k][t].awaited
       /\ tasks'[k][t].pc = "none" => tasks[k][t].pc = "none"
       /\ tasks[k][t].pc = "none" => tasks'[k][t].pc = "none"

LEMMA AwaitStep ==
    ASSUME TypeOK, [Next]_vars
    PROVE  \/ \A k \in Job, t \in Slot : AwaitMoves(k, t)
           \/ /\ LoopIdle
              /\ \A k \in Job, t \in Slot :
                   \/ tasks'[k][t] = tasks[k][t]
                   \/ t = FreeSlot(k) /\ tasks'[k][t].awaited
           \/ /\ \E j \in Job, s \in Slot : FinalizerRaises(j, s)
              /\ \A k \in Job, t \in Slot :
                   tasks'[k][t].awaited => tasks[k][t].awaited
  <1> USE DEF TypeOK
  <1>1. CASE UNCHANGED tasks
    BY <1>1 DEF AwaitMoves
  <1>2. CASE Tick
    <2>1. PICK batch \in SUBSET ClaimableJobs :
             tasks' = [j \in Job |->
                        IF j \in batch
                        THEN [tasks[j] EXCEPT ![FreeSlot(j)] =
                                [NoTask EXCEPT !.pc = "claimed", !.awaited = TRUE]]
                        ELSE tasks[j]]
      BY <1>2 DEF Tick
    <2> DEFINE spawned == [NoTask EXCEPT !.pc = "claimed", !.awaited = TRUE]
    <2>2. spawned.awaited
      BY DEF NoTask
    <2>3. ASSUME NEW k \in Job, NEW t \in Slot
          PROVE  tasks'[k][t] = tasks[k][t] \/ (t = FreeSlot(k) /\ tasks'[k][t].awaited)
      <3>1. tasks'[k][t] = tasks[k][t] \/ (t = FreeSlot(k) /\ tasks'[k][t] = spawned)
        BY <2>1
      <3> HIDE DEF spawned
      <3> QED
        BY <2>2, <3>1, Zenon
    <2> QED
      BY <1>2, <2>3 DEF Tick
  <1>3. ASSUME NEW j \in Job, NEW s \in Slot, EndTask(j, s)
        PROVE  \A k \in Job, t \in Slot : AwaitMoves(k, t)
    BY <1>3 DEF EndTask, AwaitMoves
  <1>4. ASSUME NEW j \in Job, NEW s \in Slot, StartHandler(j, s)
        PROVE  \A k \in Job, t \in Slot : AwaitMoves(k, t)
    <2> SUFFICES ASSUME NEW k \in Job, NEW t \in Slot
                 PROVE  AwaitMoves(k, t)
      OBVIOUS
    <2>1. tasks[k][t] \in Task
      OBVIOUS
    <2> QED
      BY <1>4, <2>1 DEF StartHandler, Reload, AwaitMoves, Task
  <1>5. ASSUME NEW j \in Job, NEW s \in Slot, FinalizerRaises(j, s)
        PROVE  \A k \in Job, t \in Slot : tasks'[k][t].awaited => tasks[k][t].awaited
    <2> SUFFICES ASSUME NEW k \in Job, NEW t \in Slot, tasks'[k][t].awaited
                 PROVE  tasks[k][t].awaited
      OBVIOUS
    <2>1. ~NoTask.awaited
      BY DEF NoTask
    <2>2. ~[tasks[k][t] EXCEPT !.awaited = FALSE].awaited
      <3>1. tasks[k][t] \in Task
        OBVIOUS
      <3> QED
        BY <3>1 DEF Task
    <2>3. tasks'[k][t] \in {NoTask, tasks[k][t], [tasks[k][t] EXCEPT !.awaited = FALSE]}
      BY <1>5 DEF FinalizerRaises
    <2> QED
      BY <2>1, <2>2, <2>3
  <1>6. CASE Failure
    <2>1. ASSUME NEW point, CrashAt(point)
          PROVE  \A k \in Job, t \in Slot : AwaitMoves(k, t)
      BY <2>1 DEF CrashAt, AwaitMoves
    <2> QED
      BY <1>6, <2>1 DEF Failure, Crash, CrashInTick, CrashInDecide, CrashInDefer,
                        CrashInEnqueue
  <1>7. Control \/ Time \/ UNCHANGED vars => UNCHANGED tasks
    BY DEF Control, Create, Cancel, RunNow, Requeue, Decide, StopObjective, Request,
           Time, LockExpires, BecomesDue, vars
  <1>8. CASE Engine
    <2>1. PICK j \in Job, s \in Slot : RunTask(j, s) \/ FinishTask(j, s)
      BY <1>8 DEF Engine
    <2>2. CASE EndTask(j, s)
      BY <1>3, <2>2
    <2>3. CASE StartHandler(j, s)
      BY <1>4, <2>3
    <2>4. CASE FinalizerRaises(j, s)
      BY <1>5, <2>4
    <2> QED
      BY <2>1, <2>2, <2>3, <2>4, TaskOutcome
  <1> QED
    BY <1>1, <1>2, <1>6, <1>7, <1>8 DEF Next

(* The loop never awaits two tasks of one job, whatever the schedules. *)
THEOREM OneAwaited == Spec => []OneAwaitedTaskPerJob
  <1>1. Init => OneAwaitedTaskPerJob
    BY DEF Init, OneAwaitedTaskPerJob, NoTask
  <1>2. TypeOK /\ OneAwaitedTaskPerJob /\ [Next]_vars => OneAwaitedTaskPerJob'
    <2> SUFFICES ASSUME TypeOK, OneAwaitedTaskPerJob, [Next]_vars, NEW k \in Job,
                        NEW s \in Slot, NEW t \in Slot,
                        tasks'[k][s].awaited, tasks'[k][t].awaited
                 PROVE  s = t
      BY DEF OneAwaitedTaskPerJob
    <2>0. ~NoTask.awaited
      BY DEF NoTask
    <2>1. \A u \in Slot : AwaitMoves(k, u) /\ tasks'[k][u].awaited
                             => tasks[k][u].awaited
      BY <2>0, Zenon DEF AwaitMoves
    <2> QED
      BY <2>1, AwaitStep DEF OneAwaitedTaskPerJob, LoopIdle
  <1> QED
    BY <1>1, <1>2, TypeCorrect, PTL DEF Spec

(* A job never runs twice at a time, however long its handler takes and    *)
(* although locks expire meanwhile, when every schedule can be computed    *)
(* (_run_loop's gather).                                                   *)
THEOREM NoOverlap ==
    ASSUME WellFormedSchedules
    PROVE  Spec => []OneTaskPerJob
  <1>1. Init => LiveIsAwaited
    BY DEF Init, LiveIsAwaited, NoTask
  <1>2. TypeOK /\ LiveIsAwaited /\ [Next]_vars => LiveIsAwaited'
    <2> SUFFICES ASSUME TypeOK, LiveIsAwaited, [Next]_vars, NEW k \in Job,
                        NEW t \in Slot, tasks'[k][t].pc # "none"
                 PROVE  tasks'[k][t].awaited
      BY DEF LiveIsAwaited
    <2>1. AwaitMoves(k, t) => tasks'[k][t].awaited
      BY DEF AwaitMoves, NoTask, LiveIsAwaited
    <2>2. \A j \in Job, s \in Slot : ~FinalizerRaises(j, s)
      <3>1. \A j \in Job : spec[j] \in JobSpec /\ spec[j].schedule # "malformed"
        BY EngineAssumption DEF TypeOK, WellFormedSchedules
      <3> QED
        BY <3>1 DEF FinalizerRaises, NextRun, JobSpec, Schedule
    <2> QED
      BY <2>1, <2>2, AwaitStep DEF LiveIsAwaited
  <1>3. LiveIsAwaited /\ OneAwaitedTaskPerJob => OneTaskPerJob
    BY DEF LiveIsAwaited, OneAwaitedTaskPerJob, OneTaskPerJob, Live
  <1> QED
    BY <1>1, <1>2, <1>3, TypeCorrect, OneAwaited, PTL DEF Spec
=============================================================================

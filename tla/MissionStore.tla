---------------------------- MODULE MissionStore ----------------------------
(***************************************************************************)
(* The durable half of Mission: one row of the "jobs" table of             *)
(* thomas/marketplace/autonomy/store.py and the statements the store runs  *)
(* on it, together with the two pure decisions the engine takes about a    *)
(* job (the policy gate of policy.py and the schedule of scheduler.py).    *)
(*                                                                         *)
(* The module has no variables.  MissionEngine keeps the table.            *)
(*                                                                         *)
(* Abstractions: names, payloads, results and timestamps are not kept.     *)
(* A row remembers WHETHER result_json and error_json are set, whether     *)
(* next_run_at has been reached, and whether lock_expires_at is unset, in  *)
(* the future or in the past.                                              *)
(***************************************************************************)
EXTENDS Naturals, Sequences, FiniteSets

CONSTANTS MaxAttempts,   \* retry_policy.max_attempts, the same for every job
          NoHumanMode    \* the policy's api.no_human_mode

ASSUME RetryAssumption  == MaxAttempts \in Nat \ {0}
ASSUME PolicyAssumption == NoHumanMode \in {"human", "allow", "deny"}

-----------------------------------------------------------------------------
(* What a job is created with and never changes.                           *)

Risk     == {"low", "medium", "high"}   \* "critical" is decided like "high"
Schedule == {"none", "once", "recurring", "malformed"}
Kind     == {"task", "planner", "unknown"}  \* planner: autonomy_task
Origin   == {"user", "plan"}     \* created by a request, or by a plan's executor

JobSpec == [risk : Risk, schedule : Schedule, kind : Kind,
            origin : Origin, flagged : BOOLEAN]

(* A row of the jobs table.  "absent" is the row that was never inserted.  *)

Status == {"absent", "queued", "running", "awaiting_approval",
           "succeeded", "dead", "cancelled"}
Lock   == {"none", "live", "expired"}    \* lock_expires_at

Row == [status : Status, cancelled : BOOLEAN, attempts : Nat,
        approved : BOOLEAN, requires : BOOLEAN, lock : Lock, due : BOOLEAN,
        result : BOOLEAN, error : BOOLEAN]

NoRow == [status |-> "absent", cancelled |-> FALSE, attempts |-> 0,
          approved |-> FALSE, requires |-> FALSE, lock |-> "none",
          due |-> FALSE, result |-> FALSE, error |-> FALSE]

(* The statuses Mission's routes treat as terminal ("failed" is never      *)
(* written by the engine).                                                 *)
TerminalStatus == {"succeeded", "dead", "cancelled"}

ApprovalStatus == {"pending", "approved", "denied"}

-----------------------------------------------------------------------------
(* The store's statements.                                                 *)

CreateJob(requires, due) ==
    [NoRow EXCEPT !.status = "queued", !.requires = requires, !.due = due]

(* cancel_job leaves the lock columns alone.                               *)
CancelJob(row) == [row EXCEPT !.status = "cancelled", !.cancelled = TRUE]

(* set_job_status with lock_clear=True, the default every caller but one   *)
(* uses; callers add the columns they pass.  It never touches "cancelled". *)
SetJobStatus(row, status) == [row EXCEPT !.status = status, !.lock = "none"]

(* The routes that put a job back in the queue pass next_run_at = now.     *)
QueueNow(row) == [SetJobStatus(row, "queued") EXCEPT !.due = TRUE]

(* set_job_status skips a None result or error, so requeue, which passes   *)
(* result=None and error=None, leaves both columns as they are.            *)
RequeueRow(row) == [QueueNow(row) EXCEPT !.attempts = 0]

(* The approve branch of the decision routes.                              *)
ApproveRow(row) == [QueueNow(row) EXCEPT !.approved = TRUE, !.requires = FALSE]

(* claim_due_jobs: who can be claimed and what the claim writes.           *)
ClaimableMutant(row) ==
    row.status = "queued" /\ row.due /\ row.lock # "live"
Claimable(row) ==
    /\ row.status = "queued"
    /\ ~row.cancelled
    /\ row.due
    /\ row.lock # "live"

ClaimRowMutant(row) == [row EXCEPT !.status = "running"]
ClaimRow(row) == [row EXCEPT !.status = "running", !.lock = "live"]

(* reap_stale_running.                                                     *)
StaleMutant(row) == FALSE
Stale(row) == row.status = "running" /\ ~row.cancelled /\ row.lock = "expired"

ReapRow(row) == IF Stale(row) THEN SetJobStatus(row, "queued") ELSE row

PendingIn(approvals) == {i \in DOMAIN approvals : approvals[i] = "pending"}

(* decide_approval: a row that is no longer pending is returned unchanged. *)
DecideApproval(approvals, i, approve) ==
    IF approvals[i] = "pending"
    THEN [approvals EXCEPT ![i] = IF approve THEN "approved" ELSE "denied"]
    ELSE approvals

-----------------------------------------------------------------------------
(* AutonomyPolicy.decision_for_job on the default risk table (low: allow,  *)
(* medium: approve, high and critical: deny; no per-kind overrides).       *)
Decision(risk) ==
    CASE risk = "low"    -> "allow"
      [] risk = "medium" -> IF NoHumanMode = "human" THEN "approve" ELSE NoHumanMode
      [] risk = "high"   -> "deny"

(* compute_next_run: no further run, a later run, or an exception.  A      *)
(* "once" schedule is over when its instant has passed, and it has not     *)
(* when the job was run early by hand.                                     *)
NextRun(schedule) ==
    CASE schedule = "none"      -> {"never"}
      [] schedule = "once"      -> {"never", "later"}
      [] schedule = "recurring" -> {"later"}
      [] schedule = "malformed" -> {"raises"}

(* The engine's finalizers overwrite the status whatever it has become.    *)
SucceedRow(row, next) ==
    IF next = "never"
    THEN [SetJobStatus(row, "succeeded") EXCEPT !.attempts = 0, !.result = TRUE]
    ELSE [SetJobStatus(row, "queued") EXCEPT !.attempts = 0, !.result = TRUE,
                                             !.due = FALSE]

RetryRowMutant(row, attempts) ==
    [SetJobStatus(row, "queued") EXCEPT !.error = TRUE, !.due = FALSE]
RetryRow(row, attempts) ==
    [SetJobStatus(row, "queued") EXCEPT !.attempts = attempts, !.error = TRUE,
                                        !.due = FALSE]

GiveUpRowMutant(row, next, attempts) ==
    [SetJobStatus(row, "dead") EXCEPT !.attempts = attempts, !.error = TRUE]
GiveUpRow(row, next, attempts) ==
    IF next = "never"
    THEN [SetJobStatus(row, "dead") EXCEPT !.attempts = attempts, !.error = TRUE]
    ELSE RetryRow(row, 0)

(* A denied job and a job without a handler die with their attempts kept.  *)
DieRowMutant(row) == [SetJobStatus(row, "failed") EXCEPT !.error = TRUE]
DieRow(row) == [SetJobStatus(row, "dead") EXCEPT !.error = TRUE]
=============================================================================
